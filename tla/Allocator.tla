----------------------------- MODULE Allocator -----------------------------
(***************************************************************************)
(* What a Pool (pool.h: alloc and free) promises the containers that take  *)
(* their nodes from it: an item that is handed out is not handed out again *)
(* until its holder gives it back.                                         *)
(***************************************************************************)
EXTENDS Naturals

CONSTANT Item       \* the memory that can be handed out

VARIABLES inUse,    \* the items held by clients
          live      \* allocations not yet given back

Init == inUse = {} /\ live = 0

Alloc == \E x \in Item \ inUse : /\ inUse' = inUse \cup {x}
                                 /\ live' = live + 1

Free == \E x \in inUse : /\ inUse' = inUse \ {x}
                         /\ live' = live - 1

\* The pool is destroyed with everything in it.
Destroy == inUse' = {} /\ live' = 0

Next == Alloc \/ Free \/ Destroy

Spec == Init /\ [][Next]_<<inUse, live>>
=============================================================================
