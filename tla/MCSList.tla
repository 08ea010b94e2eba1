------------------------------ MODULE MCSList ------------------------------
(***************************************************************************)
(* Small instances of SList for TLC.                                       *)
(***************************************************************************)
EXTENDS SList, TLC

\* Addresses are interchangeable; used where no liveness is checked.
Symmetry == Permutations(Node)
=============================================================================
