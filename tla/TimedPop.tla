------------------------------ MODULE TimedPop ------------------------------
(***************************************************************************)
(* asyncqueue.c against the clock: the deadline _async_queue_cond_wait     *)
(* computes for async_queue_pop_timeout, and when the call returns.        *)
(*                                                                         *)
(* One consumer calls _async_queue_pop with a timeout while a producer     *)
(* pushes.  The call, the moment it gets the mutex, and its return are     *)
(* steps of their own: time passes and items are pushed while it waits for *)
(* the mutex, and the clock is read only when it has it.  Time is in       *)
(* milliseconds and passes through the instants of a finite set, dense     *)
(* around the full seconds, where the computation rounds.                  *)
(*                                                                         *)
(* AsyncQueue.tla has the races of several threads, wakeups without reason *)
(* included, and no clock; here a wait ends by a push or at its deadline.  *)
(* No name of it is used here, so that one module can prove theorems about *)
(* both.                                                                   *)
(***************************************************************************)
EXTENDS Naturals

CONSTANTS Instants,   \* the times at which something may happen
          Timeouts    \* the values of ms that callers pass

ASSUME TimeAssumption == /\ Instants \subseteq Nat /\ Instants # {}
                         /\ Timeouts \subseteq Nat

VARIABLES now,        \* gettimeofday, in milliseconds
          items,      \* number of stored items, 0 or 1
          phase,      \* "idle", "locking" the mutex, "blocked" in the wait, "returned"
          ms,         \* the timeout of the current or last call
          start,      \* when the call was made
          read,       \* when it read the clock, if it had to wait
          deadline,   \* the time given to pthread_cond_timedwait
          success     \* what the last call returned

timed == <<now, items, phase, ms, start, read, deadline, success>>

TimedInit == /\ now \in {i \in Instants : \A j \in Instants : i <= j}
             /\ items = 0
             /\ phase = "idle"
             /\ ms = 0
             /\ start = now /\ read = now
             /\ deadline = now
             /\ success = FALSE

\* Mutant: the fraction of the timeout is rounded up.
DeadlineRoundedUp(t, m) == (t \div 1000 + (m + 999) \div 1000) * 1000

\* val.tv_sec = now.tv_sec + (ms / 1000); val.tv_nsec = 0.
Deadline(t, m) == (t \div 1000 + m \div 1000) * 1000

\* Mutant: less than a second counts as no timeout.
IsTimedSeconds(m) == m \div 1000 > 0

\* if(ms): any other value selects the wait without a deadline.
IsTimed(m) == m > 0

Return(r) == /\ phase' = "returned"
             /\ success' = r

\* async_queue_pop_timeout is called, async_queue_pop with 0: the mutex may be
\* held by another thread.
TimedCall(m) == /\ phase \in {"idle", "returned"}
                /\ phase' = "locking"
                /\ ms' = m
                /\ start' = now
                /\ UNCHANGED <<now, items, read, deadline, success>>

\* _async_queue_pop has the mutex: an item is there.
TimedTake == /\ phase = "locking"
             /\ items > 0
             /\ items' = items - 1
             /\ Return(TRUE)
             /\ UNCHANGED <<now, ms, start, read, deadline>>

\* _async_queue_pop has the mutex and nothing is there: _async_queue_cond_wait
\* reads the clock and waits.
TimedWait == /\ phase = "locking"
             /\ items = 0
             /\ read' = now
             /\ deadline' = IF IsTimed(ms) THEN Deadline(now, ms) ELSE deadline
             /\ phase' = "blocked"
             /\ UNCHANGED <<now, items, ms, start, success>>

\* async_queue_push with a waiting consumer: it wakes up and takes the item.
PushWake == /\ phase = "blocked"
            /\ Return(TRUE)
            /\ UNCHANGED <<now, items, ms, start, read, deadline>>

\* async_queue_push otherwise: the item is stored (one is enough here).
PushStore == /\ phase # "blocked"
             /\ items = 0
             /\ items' = 1
             /\ UNCHANGED <<now, phase, ms, start, read, deadline, success>>

Push == PushWake \/ PushStore

\* pthread_cond_timedwait returns ETIMEDOUT at or after the deadline, at once
\* if the deadline has passed already: the pop fails.
Expire == /\ phase = "blocked"
          /\ IsTimed(ms)
          /\ now >= deadline
          /\ Return(FALSE)
          /\ UNCHANGED <<now, items, ms, start, read, deadline>>

\* Time passes.
Tick == /\ \E i \in Instants : /\ i > now
                               /\ \A j \in Instants : j > now => i <= j
                               /\ now' = i
        /\ UNCHANGED <<items, phase, ms, start, read, deadline, success>>

TimedNext == \/ \E m \in Timeouts : TimedCall(m)
             \/ TimedTake \/ TimedWait
             \/ Push \/ Expire \/ Tick

TimedSpec == TimedInit /\ [][TimedNext]_timed

\* Time passes, a call gets the mutex, which nobody keeps for long, and an
\* expired wait ends; nobody has to push.
FairTimedSpec == /\ TimedSpec
                 /\ WF_timed(Tick) /\ WF_timed(TimedTake \/ TimedWait) /\ WF_timed(Expire)
-----------------------------------------------------------------------------
TimedTypeOK == /\ now \in Instants
               /\ items \in 0..1
               /\ phase \in {"idle", "locking", "blocked", "returned"}
               /\ ms \in Timeouts \cup {0}
               /\ start \in Nat
               /\ read \in Nat
               /\ deadline \in Nat
               /\ success \in BOOLEAN

\* The deadline is at most ms after the clock was read, which is later than the
\* call by the time it took to get the mutex; and it is less than two seconds too
\* early for a caller who counts from the call: up to one second is lost by
\* cutting the current time to full seconds, up to one by cutting ms.
DeadlineWindow == phase = "blocked" /\ ms > 0 => /\ deadline <= read + ms
                                              /\ deadline + 2000 > start + ms

\* A pop with a nonzero timeout returns, however long it takes to get the mutex,
\* unless it waits for a deadline the clock does not reach.
TimedPopReturns ==
  (phase \in {"locking", "blocked"} /\ ms > 0) ~>
    (phase = "returned" \/ (phase = "blocked" /\ \A i \in Instants : i < deadline))

\* asyncqueue.h: "Blocks for ms milliseconds."  A pop that fails has waited at
\* least as long as its caller asked for.
BlocksForMs == phase = "returned" /\ ~success => now >= start + ms
=============================================================================
