---------------------------- MODULE MCHashTable ----------------------------
(***************************************************************************)
(* An instance of HashTable: a table that starts with one chain, grows to  *)
(* three, shrinks to two, as the largest sizes of hashtable.c do, and then *)
(* has no further size; and tables with a fixed number of chains.  The     *)
(* largest keys have the same hash.                                        *)
(***************************************************************************)
EXTENDS HashTable, TLC

\* Which bucket the pool hands out makes no difference.
Symmetry == Permutations(Node)

MCPrimes == <<1, 3, 2, 0>>

\* More than one key object and value for one of the keys.
MCOffered == [key : Key, copy : {"x"}, value : {"a"}]
             \cup [key : {3}, copy : Copy, value : Value]
=============================================================================
