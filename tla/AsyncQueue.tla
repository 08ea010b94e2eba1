----------------------------- MODULE AsyncQueue -----------------------------
(***************************************************************************)
(* asyncqueue.c: a queue shared by threads, protected by a mutex, on which *)
(* consumers wait with a condition variable.                               *)
(*                                                                         *)
(* A thread is either outside the queue (pc = "idle") or inside one call.  *)
(* Every step of a call between two operations on the mutex or the         *)
(* condition variable is one action; the steps of different threads        *)
(* interleave.  The underlying Queue (an SList used through queue_push and *)
(* queue_pop) is the sequence of its data; SList.tla models the list.      *)
(* Items are numbered in the order in which they are appended.             *)
(*                                                                         *)
(* Condition variable (POSIX): pthread_cond_wait releases the mutex and    *)
(* blocks atomically; a signal wakes one blocked thread if there is one; a *)
(* timed wait may also end with ETIMEDOUT; a wait may end spuriously.  A   *)
(* woken thread runs again only after it has reacquired the mutex.         *)
(***************************************************************************)
EXTENDS Naturals, Sequences, FiniteSets

CONSTANTS Thread,     \* the threads that share the queue
          NULL,       \* "no thread": the mutex is free
          SIZE_MAX,   \* largest value of a size_t
          MaxCalls    \* bound: calls started in a behaviour

ASSUME ThreadAssumption == IsFiniteSet(Thread) /\ NULL \notin Thread
ASSUME BoundAssumption  == SIZE_MAX \in Nat \ {0} /\ MaxCalls \in Nat

VARIABLES alive,      \* between async_queue_init and async_queue_free
          mutex,      \* the thread that holds queue->mutex, or NULL
          queue,      \* queue->queue: the stored items, oldest first
          waiting,    \* queue->waiting
          pc,         \* where each thread is
          op,         \* the call each thread is in
          rc,         \* result of the thread's condition wait
          ret,        \* what the thread's call returns (0 stands for false)
          pushed,     \* history: number of items appended
          taken,      \* history: the items popped, in order
          dropped,    \* history: the items discarded by clear and free
          calls       \* number of calls started

shared == <<alive, mutex, queue, waiting>>
local  == <<pc, op, rc, ret>>
hist   == <<pushed, taken, dropped, calls>>
vars   == <<shared, local, hist>>

Operation == {"push", "pop", "pop_timeout", "clear", "count"}

\* Control points of a thread that holds the mutex.
Critical == {"append", "signal", "pop_try", "pop_retry", "clear", "count", "unlock"}
Control  == Critical \cup {"idle", "lock", "blocked", "woken"}

Blocked == {t \in Thread : pc[t] = "blocked"}
\* Threads between ++queue->waiting and --queue->waiting.
Registered == {t \in Thread : pc[t] \in {"blocked", "woken", "pop_retry"}}
\* Registered threads that a signal has woken and that will look at the queue.
Awake == {t \in Thread : pc[t] \in {"woken", "pop_retry"} /\ rc[t] = "ok"}

Stored == {queue[i] : i \in 1..Len(queue)}
Taken  == {taken[i] : i \in 1..Len(taken)}

Goto(t, l) == pc' = [pc EXCEPT ![t] = l]
-----------------------------------------------------------------------------
Init == /\ alive = TRUE
        /\ mutex = NULL
        /\ queue = <<>>
        /\ waiting = 0
        /\ pc = [t \in Thread |-> "idle"]
        /\ op = [t \in Thread |-> "none"]
        /\ rc = [t \in Thread |-> "ok"]
        /\ ret = [t \in Thread |-> 0]
        /\ pushed = 0
        /\ taken = <<>>
        /\ dropped = {}
        /\ calls = 0

\* A client thread calls one of the queue's functions.
Call(t, o) == /\ alive
              /\ calls < MaxCalls
              /\ pc[t] = "idle"
              /\ Goto(t, "lock")
              /\ op' = [op EXCEPT ![t] = o]
              /\ calls' = calls + 1
              /\ UNCHANGED <<shared, rc, ret, pushed, taken, dropped>>

\* Where each call continues once it holds the mutex.
Entry == [push  |-> "append",
          pop   |-> "pop_try",
          clear |-> "clear",
          count |-> "count",
          pop_timeout |-> "pop_try"]

\* pthread_mutex_lock, the first statement of every call.
Lock(t) == /\ pc[t] = "lock"
           /\ mutex = NULL
           /\ mutex' = t
           /\ Goto(t, Entry[op[t]])
           /\ UNCHANGED <<alive, queue, waiting, op, rc, ret, hist>>

\* async_queue_push: queue_push; slist_append refuses the item when the list
\* holds SIZE_MAX items, and the caller is not told.
PushAppend(t) == /\ pc[t] = "append"
                 /\ IF Len(queue) < SIZE_MAX
                      THEN /\ queue' = Append(queue, pushed + 1)
                           /\ pushed' = pushed + 1
                      ELSE UNCHANGED <<queue, pushed>>
                 /\ Goto(t, "signal")
                 /\ UNCHANGED <<alive, mutex, waiting, op, rc, ret, taken, dropped, calls>>

\* Mutant: a single waiting consumer is overlooked.
SeveralWaiting == waiting > 1

\* async_queue_push: if(queue->waiting).
SomeoneWaiting == waiting > 0

\* async_queue_push: pthread_cond_signal, only if some consumer is waiting.
PushSignal(t) == /\ pc[t] = "signal"
                 /\ \/ /\ SomeoneWaiting
                       /\ \E w \in Blocked :
                            /\ pc' = [pc EXCEPT ![t] = "unlock", ![w] = "woken"]
                            /\ rc' = [rc EXCEPT ![w] = "ok"]
                    \/ /\ ~SomeoneWaiting \/ Blocked = {}
                       /\ Goto(t, "unlock")
                       /\ UNCHANGED rc
                 /\ UNCHANGED <<shared, op, ret, hist>>

\* Mutant: the newest item is popped, as if items were pushed at the head.
TakeLast(t) == /\ queue # <<>>
               /\ queue' = SubSeq(queue, 1, Len(queue) - 1)
               /\ taken' = Append(taken, queue[Len(queue)])
               /\ ret' = [ret EXCEPT ![t] = queue[Len(queue)]]

\* queue_pop on a nonempty queue: the oldest item is the call's result.
TakeHead(t) == /\ queue # <<>>
               /\ queue' = Tail(queue)
               /\ taken' = Append(taken, Head(queue))
               /\ ret' = [ret EXCEPT ![t] = Head(queue)]

\* No item for this call: it returns false.
GiveUp(t) == /\ ret' = [ret EXCEPT ![t] = 0]
             /\ UNCHANGED <<queue, taken>>

\* _async_queue_pop, first attempt: an item is there.
PopTake(t) == /\ pc[t] = "pop_try"
              /\ TakeHead(t)
              /\ Goto(t, "unlock")
              /\ UNCHANGED <<alive, mutex, waiting, op, rc, pushed, dropped, calls>>

\* Mutant: the overflow check lets the counter pass its limit.
WaitingAtMostMax == waiting <= SIZE_MAX

\* _async_queue_cond_wait: queue->waiting < SIZE_MAX.
MayWait == waiting < SIZE_MAX

\* _async_queue_pop, first attempt: the queue is empty, so the thread counts
\* itself as waiting, releases the mutex and blocks, in one atomic step.
PopWait(t) == /\ pc[t] = "pop_try"
              /\ queue = <<>>
              /\ MayWait
              /\ waiting' = waiting + 1
              /\ mutex' = NULL
              /\ Goto(t, "blocked")
              /\ UNCHANGED <<alive, queue, op, rc, ret, hist>>

\* _async_queue_cond_wait: the waiting counter is at its limit.
PopOverflow(t) == /\ pc[t] = "pop_try"
                  /\ queue = <<>>
                  /\ ~MayWait
                  /\ GiveUp(t)
                  /\ Goto(t, "unlock")
                  /\ UNCHANGED <<alive, mutex, waiting, op, rc, pushed, dropped, calls>>

\* pthread_cond_timedwait reaches its deadline (TimedPop.tla models the clock).
Timeout(t) == /\ pc[t] = "blocked"
              /\ op[t] = "pop_timeout"
              /\ Goto(t, "woken")
              /\ rc' = [rc EXCEPT ![t] = "timedout"]
              /\ UNCHANGED <<shared, op, ret, hist>>

\* A condition wait may end without a signal.
SpuriousWakeup(t) == /\ pc[t] = "blocked"
                     /\ Goto(t, "woken")
                     /\ rc' = [rc EXCEPT ![t] = "ok"]
                     /\ UNCHANGED <<shared, op, ret, hist>>

\* The wait returns: the woken thread holds the mutex again.
Reacquire(t) == /\ pc[t] = "woken"
                /\ mutex = NULL
                /\ mutex' = t
                /\ Goto(t, "pop_retry")
                /\ UNCHANGED <<alive, queue, waiting, op, rc, ret, hist>>

\* Mutant: only a successful wait is counted down again.
DeregisterIfSignalled(t) == waiting' = IF rc[t] = "ok" THEN waiting - 1 ELSE waiting

\* _async_queue_cond_wait: --queue->waiting, whatever the wait returned.
Deregister(t) == waiting' = waiting - 1

\* _async_queue_pop after the wait: one more attempt, only if the wait was
\* successful; there is no loop back to the wait.
PopRetry(t) == /\ pc[t] = "pop_retry"
               /\ Deregister(t)
               /\ \/ rc[t] = "ok" /\ TakeHead(t)
                  \/ (rc[t] = "timedout" \/ queue = <<>>) /\ GiveUp(t)
               /\ Goto(t, "unlock")
               /\ UNCHANGED <<alive, mutex, op, rc, pushed, dropped, calls>>

\* async_queue_clear: queue_clear frees every item.
Clear(t) == /\ pc[t] = "clear"
            /\ dropped' = dropped \cup Stored
            /\ queue' = <<>>
            /\ Goto(t, "unlock")
            /\ UNCHANGED <<alive, mutex, waiting, op, rc, ret, pushed, taken, calls>>

\* async_queue_count: queue_count.
Count(t) == /\ pc[t] = "count"
            /\ ret' = [ret EXCEPT ![t] = Len(queue)]
            /\ Goto(t, "unlock")
            /\ UNCHANGED <<shared, op, rc, hist>>

\* Mutant: a failed pop returns without unlocking.
ReleaseUnlessFailed(t) == mutex' = IF op[t] = "pop_timeout" /\ ret[t] = 0 THEN t ELSE NULL

\* pthread_mutex_unlock.
Release(t) == mutex' = NULL

\* pthread_mutex_unlock, the last statement of every call; the call returns.
Unlock(t) == /\ pc[t] = "unlock"
             /\ Release(t)
             /\ Goto(t, "idle")
             /\ op' = [op EXCEPT ![t] = "none"]
             /\ UNCHANGED <<alive, queue, waiting, rc, ret, hist>>

\* async_queue_free and async_queue_destroy take no lock: the client calls
\* them when no thread uses the queue any more (the test joins them first).
Free == /\ alive
        /\ \A t \in Thread : pc[t] = "idle"
        /\ alive' = FALSE
        /\ dropped' = dropped \cup Stored
        /\ queue' = <<>>
        /\ UNCHANGED <<mutex, waiting, local, pushed, taken, calls>>

\* async_queue_init on a queue structure that is not in use.
Reinit == /\ ~alive
          /\ alive' = TRUE
          /\ queue' = <<>>
          /\ waiting' = 0
          /\ mutex' = NULL
          /\ UNCHANGED <<local, hist>>

\* The steps a thread takes inside a call once it is scheduled.  Time passes,
\* so the deadline of a timed wait is one of them.
Step(t) == \/ Lock(t) \/ PushAppend(t) \/ PushSignal(t)
           \/ PopTake(t) \/ PopWait(t) \/ PopOverflow(t)
           \/ Timeout(t) \/ Reacquire(t) \/ PopRetry(t)
           \/ Clear(t) \/ Count(t) \/ Unlock(t)

Next == \/ \E t \in Thread :
              \/ \E o \in Operation : Call(t, o)
              \/ Step(t)
              \/ SpuriousWakeup(t)
        \/ Free
        \/ Reinit

Spec == Init /\ [][Next]_vars

\* Every thread inside a call keeps being scheduled.  Nothing is assumed about
\* who gets a contended mutex, about spurious wakeups or about further calls.
FairSpec == Spec /\ \A t \in Thread : WF_vars(Step(t))
-----------------------------------------------------------------------------
TypeOK == /\ alive \in BOOLEAN
          /\ mutex \in Thread \cup {NULL}
          /\ queue \in Seq(Nat)
          /\ Len(queue) <= SIZE_MAX
          /\ waiting \in 0..SIZE_MAX
          /\ pc \in [Thread -> Control]
          /\ op \in [Thread -> Operation \cup {"none"}]
          /\ rc \in [Thread -> {"ok", "timedout"}]
          /\ ret \in [Thread -> Nat]
          /\ pushed \in Nat
          /\ taken \in Seq(Nat)
          /\ dropped \in SUBSET Nat
          /\ calls \in 0..MaxCalls

\* The mutex is held by exactly the thread that is inside a critical section.
MutexInv == \A t \in Thread : pc[t] \in Critical <=> mutex = t

\* The position of a thread agrees with the call it is in, and a queue that was
\* freed is empty and unused.
ControlInv ==
  /\ ~alive => queue = <<>>
  /\ \A t \in Thread :
     /\ ~alive => pc[t] = "idle"
     /\ op[t] = "none" <=> pc[t] = "idle"
     /\ pc[t] \in {"append", "signal"} => op[t] = "push"
     /\ pc[t] \in {"pop_try", "blocked", "woken", "pop_retry"} => op[t] \in {"pop", "pop_timeout"}
     /\ pc[t] = "clear" => op[t] = "clear"
     /\ pc[t] = "count" => op[t] = "count"
     /\ pc[t] \in {"woken", "pop_retry"} /\ rc[t] = "timedout" => op[t] = "pop_timeout"

\* queue->waiting ("Number of waiting consumers", asyncqueue.h) counts exactly
\* the consumers inside _async_queue_cond_wait, on every path out of the wait:
\* signal, timeout and spurious wakeup.
WaitingCount == waiting = Cardinality(Registered)

\* No lost wakeup.  Signalling only when queue->waiting is nonzero, and waking
\* one consumer per push, is enough: while a consumer is still blocked, every
\* stored item has a consumer that is already awake and will look for it, or a
\* push that is about to signal.  No item lies in the queue beside a consumer
\* that sleeps although nobody is coming.
NoStrandedItem ==
  Blocked # {} =>
    Len(queue) <= Cardinality(Awake) + (IF \E t \in Thread : pc[t] = "signal" THEN 1 ELSE 0)

\* Every accepted item is in exactly one place: stored, handed to one consumer,
\* or discarded by a clear or a free.
Conservation == /\ Stored \cup Taken \cup dropped = 1..pushed
                /\ Stored \cap Taken = {}
                /\ dropped \cap (Stored \cup Taken) = {}

\* Items are handed out in the order of the pushes, whichever consumers race
\* for them: each item popped is younger than those popped before it and older
\* than all that are still stored.
FifoOrder == /\ \A i, j \in 1..Len(taken) : i < j => taken[i] < taken[j]
             /\ \A i, j \in 1..Len(queue) : i < j => queue[i] < queue[j]
             /\ \A i \in 1..Len(taken), j \in 1..Len(queue) : taken[i] < queue[j]

\* async_queue_push, async_queue_pop and async_queue_clear neither lose,
\* duplicate nor reorder an item.
ExactlyOnceInOrder == Conservation /\ FifoOrder

\* A call takes effect, for the other threads, in the step that moves it to its
\* signal or unlock statement.
Abs == INSTANCE AtomicQueue WITH
         items <- queue,
         done  <- [t \in Thread |-> pc[t] \in {"signal", "unlock"}]

\* The mutex and the condition variable make every call of asyncqueue.c appear
\* atomic: AsyncQueue implements AtomicQueue.
Linearizable == Abs!Spec

\* Every call of a thread other than a pop without timeout returns: no thread
\* keeps the mutex, and a timed pop does not wait for ever.
CallsReturn == \A t \in Thread : op[t] \notin {"none", "pop"} ~> op[t] = "none"

\* An item and a sleeping consumer do not stay side by side: if a consumer is
\* blocked while an item is stored, the item is taken (or cleared), or no
\* consumer is blocked any more.
SleeperMeetsItem == (queue # <<>> /\ Blocked # {}) ~> (queue = <<>> \/ Blocked = {})
=============================================================================
