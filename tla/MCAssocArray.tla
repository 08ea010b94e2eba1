---------------------------- MODULE MCAssocArray ----------------------------
(***************************************************************************)
(* An instance of AssocArray: many keys, so that the search is deep and    *)
(* the array grows to its limit, and more than one key object and value    *)
(* for one of them, in the middle.                                         *)
(***************************************************************************)
EXTENDS AssocArray

MCOffered == [key : Key, copy : {"x"}, value : {"a"}]
             \cup [key : {3}, copy : Copy, value : Value]
=============================================================================
