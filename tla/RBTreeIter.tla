----------------------------- MODULE RBTreeIter -----------------------------
(***************************************************************************)
(* The iterator of rbtree.c beside the tree it walks.  It keeps its own    *)
(* stack of nodes, each with the number of its children that have been     *)
(* pushed, in memory for count + 1 items, and is used again after the tree *)
(* has changed.                                                            *)
(*                                                                         *)
(* istack is the array up to and including iter->sp; the empty sequence    *)
(* stands for iter->sp == NULL, and for sp < stack once finished is set.   *)
(* imem says what iter->stack holds: nothing yet, a block of memory, or    *)
(* whatever was there before, since rbtree_iter_init does not set it for   *)
(* an empty tree.                                                          *)
(*                                                                         *)
(* The size of the memory is computed in size_t.  A tree with SIZE_MAX     *)
(* nodes needs one item more than a size_t can count: the code asks for 0. *)
(***************************************************************************)
EXTENDS RBTree

SX == INSTANCE SequencesExt

VARIABLES istack, isize,   \* iter->stack up to iter->sp, iter->stack_size
          imem,            \* "none", "block" or "garbage"
          finished,        \* iter->finished
          ipc,             \* "idle", "next" inside rbtree_iter_next, "crashed"
          visited,         \* history: the nodes the iterator has returned
          fresh            \* history: the tree has not changed since

iterator == <<istack, isize, imem, finished, ipc, visited, fresh>>
ivars    == <<vars, iterator>>

IInit == /\ Init
         /\ istack = <<>> /\ isize = 0 /\ imem = "none" /\ finished = FALSE
         /\ ipc = "idle"
         /\ visited = <<>> /\ fresh = FALSE

\* Between two calls, of the tree and of the iterator.
Between == pc = "idle" /\ ipc = "idle"

\* A step A of the tree.  A call that may change it makes the iterator stale;
\* it cannot be advanced until it is reused.
Beside(A) == /\ ipc = "idle"
             /\ A
             /\ fresh' = (fresh /\ t' = t /\ pc' \in {"idle", "lookup", "exists"})
             /\ IF fresh' THEN UNCHANGED <<istack, visited>> ELSE istack' = <<>> /\ visited' = <<>>
             /\ UNCHANGED <<isize, imem, finished, ipc>>

\* Mutant: no place for the null child of the last node.
RoomForNodes == count

\* rbtree_iter_init and rbtree_iter_reuse: tree->count + 1, in size_t.
RoomForPath == (count + 1) % (SIZE_MAX + 1)

\* The iterator is at the start of the tree, or finished if the tree is empty.
Restart == /\ istack' = <<>>
           /\ finished' = (t.root = NULL)
           /\ visited' = <<>> /\ fresh' = TRUE

\* rbtree_iter_init of a new iterator.
IterInit == /\ Between
            /\ imem = "none"
            /\ Restart
            /\ isize' = RoomForPath
            /\ imem' = IF t.root = NULL THEN "garbage" ELSE "block"
            /\ UNCHANGED <<vars, ipc>>

\* free and realloc of an address nobody has set: it may be null, and nothing
\* bad happens, or the process ends.
UseGarbage == ipc' \in {"idle", "crashed"}

\* rbtree_iter_free.
IterFree == /\ Between
            /\ imem # "none"
            /\ IF imem = "garbage" THEN UseGarbage ELSE ipc' = "idle"
            /\ imem' = "none"
            /\ istack' = <<>> /\ isize' = 0 /\ finished' = FALSE
            /\ visited' = <<>> /\ fresh' = FALSE
            /\ UNCHANGED vars

\* Mutant: the memory is kept.
NeverGrows == FALSE

\* rbtree_iter_reuse: tree->count + 1 > iter->stack_size.
MustGrow == RoomForPath > isize

\* rbtree_iter_reuse.
IterReuse == /\ Between
             /\ imem # "none"
             /\ Restart
             /\ IF t.root # NULL /\ MustGrow
                  THEN /\ isize' = RoomForPath
                       /\ IF imem = "garbage" THEN UseGarbage ELSE ipc' = "idle"
                       /\ imem' = "block"
                  ELSE UNCHANGED <<isize, imem, ipc>>
             /\ UNCHANGED vars

\* rbtree_iter_next writes the n-th item of the stack and goes on as p.  A write
\* outside the memory is undefined: nothing bad happens, or the process ends.
AfterWrite(n, p) == IF n <= isize THEN {p} ELSE {p, "crashed"}

\* rbtree_iter_next, the first call: the root.
IterFirst == /\ Between
             /\ imem # "none" /\ fresh /\ ~finished
             /\ istack = <<>>
             /\ istack' = <<[node |-> t.root, state |-> 0]>>
             /\ visited' = <<t.root>>
             /\ ipc' \in AfterWrite(1, "idle")
             /\ UNCHANGED <<vars, isize, imem, finished, fresh>>

\* rbtree_iter_next is called again.
IterCall == /\ Between
            /\ imem # "none" /\ fresh /\ ~finished
            /\ istack # <<>>
            /\ ipc' = "next"
            /\ UNCHANGED <<vars, istack, isize, imem, finished, visited, fresh>>

Pushed(n) == Append([istack EXCEPT ![Len(istack)].state = @ + 1], [node |-> n, state |-> 0])

\* Mutant: the right child is forgotten if there is a left one.
MovedLeftOnly == LET top == SX!Last(istack)
                 IN  IF top.state = 0 THEN Pushed(t.left[top.node])
                     ELSE IF top.state = 1 /\ t.left[top.node] = NULL THEN Pushed(t.right[top.node])
                     ELSE SX!Front(istack)

\* rbtree_iter_next: the left child, the right child, or back.
Moved == LET top == SX!Last(istack)
         IN  IF top.state = 0 THEN Pushed(t.left[top.node])
             ELSE IF top.state = 1 THEN Pushed(t.right[top.node])
             ELSE SX!Front(istack)

\* rbtree_iter_next, one iteration: it ends below the root, returns a node that
\* is seen for the first time, or goes on, back from a null child.
IterStep ==
  /\ ipc = "next"
  /\ IF Moved = <<>>
       THEN istack' = <<>> /\ finished' = TRUE /\ ipc' = "idle" /\ UNCHANGED visited
     ELSE IF SX!Last(Moved).node # NULL
       THEN /\ istack' = Moved
            /\ IF SX!Last(Moved).state = 0
                 THEN /\ ipc' \in AfterWrite(Len(Moved), "idle")
                      /\ visited' = Append(visited, SX!Last(Moved).node)
                 ELSE UNCHANGED <<ipc, visited>>
            /\ UNCHANGED finished
     ELSE /\ istack' = SX!Front(Moved)
          /\ ipc' \in AfterWrite(Len(Moved), "next")
          /\ UNCHANGED <<finished, visited>>
  /\ UNCHANGED <<vars, isize, imem, fresh>>

IterNext == IterInit \/ IterFree \/ IterReuse \/ IterFirst \/ IterCall \/ IterStep

INext == Beside(Next) \/ IterNext

ISpec == IInit /\ [][INext]_ivars
-----------------------------------------------------------------------------
\* The iterator comes to no node twice, and has come to all of them when it
\* says that it is at the end, whatever the shape of the tree.  Nothing is said
\* of a tree with SIZE_MAX nodes: its iterator writes outside its memory.
VisitsEachOnce ==
  fresh /\ count < SIZE_MAX =>
    /\ SX!IsInjective(visited)
    /\ {visited[i] : i \in 1..Len(visited)} \subseteq heap
    /\ finished => Len(visited) = count

\* The path of the iterator, with the null child at its end, fits into the
\* memory taken for count + 1 items, also after the iterator has been reused
\* for a tree that has grown.  At the limit it does not: count + 1 is 0 there
\* (rbtree.c:876), and a reused iterator keeps the memory it has (rbtree.c:915).
IterStackFits == count < SIZE_MAX => /\ istack # <<>> => Len(istack) <= isize
                                     /\ ipc = "next" => Len(Moved) <= isize

\* rbtree.h: an initialized iterator can be freed and reused.
InitializedIterIsUsable == ipc # "crashed"
=============================================================================
