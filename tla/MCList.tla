------------------------------- MODULE MCList -------------------------------
(***************************************************************************)
(* Small instances of List for TLC.                                        *)
(***************************************************************************)
EXTENDS List, TLC

\* Addresses are interchangeable.
Symmetry == Permutations(Node)
=============================================================================
