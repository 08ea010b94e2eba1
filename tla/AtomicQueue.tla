---------------------------- MODULE AtomicQueue ----------------------------
(***************************************************************************)
(* What an AsyncQueue promises its threads: a first-in first-out queue on  *)
(* which every call takes effect atomically, at one instant between its    *)
(* call and its return.  No mutex, no condition variable, no waiting       *)
(* counter: AsyncQueue.tla is shown to implement this specification.       *)
(*                                                                         *)
(* Items are numbered in the order in which their pushes take effect, so   *)
(* an item's number is its identity and its place in the order.            *)
(***************************************************************************)
EXTENDS Naturals, Sequences

CONSTANTS Thread,    \* the threads that share the queue
          SIZE_MAX   \* largest value of a size_t

VARIABLES items,     \* the stored items, oldest first
          pushed,    \* number of items accepted so far
          op,        \* op[t]: the call thread t is in, or "none"
          done,      \* done[t]: t's call has taken effect
          ret        \* ret[t]: what t's call returns (0 stands for false)

avars == <<items, pushed, op, done, ret>>

Init == /\ items = <<>>
        /\ pushed = 0
        /\ op = [t \in Thread |-> "none"]
        /\ done = [t \in Thread |-> FALSE]
        /\ ret = [t \in Thread |-> 0]

Call(t, o) == /\ op[t] = "none"
              /\ op' = [op EXCEPT ![t] = o]
              /\ UNCHANGED <<items, pushed, done, ret>>

\* t's call takes effect now and will return r.
Effect(t, o, r) == /\ op[t] = o
                   /\ ~done[t]
                   /\ done' = [done EXCEPT ![t] = TRUE]
                   /\ ret' = [ret EXCEPT ![t] = r]
                   /\ UNCHANGED op

\* A full queue (SIZE_MAX items) silently refuses the item.
Push(t) == /\ Effect(t, "push", ret[t])
           /\ IF Len(items) < SIZE_MAX
                THEN /\ items' = Append(items, pushed + 1)
                     /\ pushed' = pushed + 1
                ELSE UNCHANGED <<items, pushed>>

Pop(t, o) == /\ items # <<>>
             /\ Effect(t, o, Head(items))
             /\ items' = Tail(items)
             /\ UNCHANGED pushed

\* A pop without a timeout fails only on an empty queue; a pop with one may
\* also fail because its time is up.
PopFails(t, o) == /\ o = "pop_timeout" \/ items = <<>>
                  /\ Effect(t, o, 0)
                  /\ UNCHANGED <<items, pushed>>

Clear(t) == /\ Effect(t, "clear", ret[t])
            /\ items' = <<>>
            /\ UNCHANGED pushed

Count(t) == /\ Effect(t, "count", Len(items))
            /\ UNCHANGED <<items, pushed>>

Return(t) == /\ done[t]
             /\ op' = [op EXCEPT ![t] = "none"]
             /\ done' = [done EXCEPT ![t] = FALSE]
             /\ UNCHANGED <<items, pushed, ret>>

\* The queue is torn down while no call is in progress.
Free == /\ \A t \in Thread : op[t] = "none"
        /\ items' = <<>>
        /\ UNCHANGED <<pushed, op, done, ret>>

Next == \/ \E t \in Thread :
              \/ \E o \in {"push", "pop", "pop_timeout", "clear", "count"} : Call(t, o)
              \/ Push(t) \/ Clear(t) \/ Count(t) \/ Return(t)
              \/ \E o \in {"pop", "pop_timeout"} : Pop(t, o) \/ PopFails(t, o)
        \/ Free

Spec == Init /\ [][Next]_avars
=============================================================================
