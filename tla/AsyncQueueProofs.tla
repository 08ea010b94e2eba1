-------------------------- MODULE AsyncQueueProofs --------------------------
(***************************************************************************)
(* Proofs about AsyncQueue for any finite set of threads, any SIZE_MAX and *)
(* any number of calls, and about the deadline of TimedPop for any clock   *)
(* and any timeouts.                                                       *)
(***************************************************************************)
EXTENDS AsyncQueue, TimedPop, FiniteSetTheorems, TLAPS

\* The inductive invariant: waiting cannot drop below zero because it counts
\* the registered threads (WaitingCount), and it counts them because only the
\* holder of the mutex changes it (MutexInv).
IndInv == TypeOK /\ MutexInv /\ ControlInv /\ WaitingCount

\* The thread sets of the model are finite.
LEMMA FiniteThreadSets ==
  /\ IsFiniteSet(Registered) /\ Cardinality(Registered) \in Nat
  /\ IsFiniteSet(Awake) /\ Cardinality(Awake) \in Nat
  /\ IsFiniteSet(Registered') /\ Cardinality(Registered') \in Nat
  /\ IsFiniteSet(Awake') /\ Cardinality(Awake') \in Nat
<1>1. /\ Registered \in SUBSET Thread /\ Awake \in SUBSET Thread
      /\ Registered' \in SUBSET Thread /\ Awake' \in SUBSET Thread
  BY DEF Registered, Awake
<1>2. QED
  BY <1>1, ThreadAssumption, FS_Subset, FS_CardinalityType

\* The invariant holds in the initial state.
LEMMA InitIndInv == Init => IndInv
<1> SUFFICES ASSUME Init PROVE IndInv
  OBVIOUS
<1>1. TypeOK
  BY ThreadAssumption, BoundAssumption DEF Init, TypeOK, Control, Critical, Operation
<1>2. MutexInv /\ ControlInv
  BY ThreadAssumption DEF Init, MutexInv, ControlInv, Critical
<1>3. WaitingCount
  <2>1. Registered = {}
    BY DEF Init, Registered
  <2>2. QED
    BY <2>1, FS_EmptySet DEF Init, WaitingCount
<1>4. QED
  BY <1>1, <1>2, <1>3 DEF IndInv

\* A call that has the mutex continues with its own first statement.
LEMMA EntryFacts ==
  ASSUME TypeOK, ControlInv, NEW t \in Thread, pc[t] = "lock"
  PROVE  /\ Entry[op[t]] \in {"append", "pop_try", "clear", "count"}
         /\ Entry[op[t]] = "append" => op[t] = "push"
         /\ Entry[op[t]] = "pop_try" => op[t] \in {"pop", "pop_timeout"}
         /\ Entry[op[t]] = "clear" => op[t] = "clear"
         /\ Entry[op[t]] = "count" => op[t] = "count"
<1>1. op[t] \in Operation
  BY DEF TypeOK, ControlInv
<1>2. QED
  BY <1>1 DEF Entry, Operation

\* WaitingCount is preserved by every step.
LEMMA WaitingCountStep == IndInv /\ [Next]_vars => WaitingCount'
<1> SUFFICES ASSUME IndInv, [Next]_vars PROVE WaitingCount'
  OBVIOUS
<1> USE DEF IndInv
<1>1. ASSUME NEW t \in Thread,
             \/ \E o \in Operation : Call(t, o)
             \/ PushAppend(t) \/ PushSignal(t) \/ PopTake(t) \/ PopOverflow(t)
             \/ Timeout(t) \/ SpuriousWakeup(t) \/ Reacquire(t)
             \/ Clear(t) \/ Count(t) \/ Unlock(t)
      PROVE  Registered' = Registered /\ waiting' = waiting
  <2>1. CASE \E o \in Operation : Call(t, o)
    BY <2>1 DEF Call, TypeOK, Goto, Registered, shared
  <2>2. CASE PushAppend(t) \/ PopTake(t) \/ PopOverflow(t)
    BY <2>2 DEF PushAppend, PopTake, PopOverflow, TypeOK, Goto, Registered
  <2>3. CASE PushSignal(t)
    BY <2>3 DEF PushSignal, TypeOK, Goto, Registered, Blocked, shared
  <2>4. CASE Timeout(t) \/ SpuriousWakeup(t) \/ Reacquire(t)
    BY <2>4 DEF Timeout, SpuriousWakeup, Reacquire, TypeOK, Goto, Registered, shared
  <2>5. CASE Clear(t) \/ Count(t) \/ Unlock(t)
    BY <2>5 DEF Clear, Count, Unlock, TypeOK, Goto, Registered, shared
  <2>6. QED
    BY <1>1, <2>1, <2>2, <2>3, <2>4, <2>5
<1>2. ASSUME NEW t \in Thread, Lock(t)
      PROVE  Registered' = Registered /\ waiting' = waiting
  BY <1>2, EntryFacts DEF Lock, TypeOK, Goto, Registered
<1>3. ASSUME NEW t \in Thread, PopWait(t)
      PROVE  WaitingCount'
  <2>1. t \notin Registered /\ Registered' = Registered \cup {t}
    BY <1>3 DEF PopWait, TypeOK, Goto, Registered
  <2>2. Cardinality(Registered') = Cardinality(Registered) + 1
    BY <2>1, FiniteThreadSets, FS_AddElement
  <2>3. QED
    BY <1>3, <2>2 DEF PopWait, WaitingCount
<1>4. ASSUME NEW t \in Thread, PopRetry(t)
      PROVE  WaitingCount'
  <2>1. t \in Registered /\ Registered' = Registered \ {t}
    BY <1>4 DEF PopRetry, TypeOK, Goto, Registered
  <2>2. Cardinality(Registered') = Cardinality(Registered) - 1
    BY <2>1, FiniteThreadSets, FS_RemoveElement
  <2>3. QED
    BY <1>4, <2>2 DEF PopRetry, Deregister, WaitingCount
<1>5. ASSUME Free \/ UNCHANGED vars
      PROVE  Registered' = Registered /\ waiting' = waiting
  BY <1>5 DEF Free, vars, shared, local, Registered
<1>6. ASSUME Reinit
      PROVE  WaitingCount'
  <2>1. Registered' = {}
    BY <1>6 DEF Reinit, ControlInv, Registered, local
  <2>2. QED
    BY <1>6, <2>1, FS_EmptySet DEF Reinit, WaitingCount
<1>7. ASSUME Registered' = Registered, waiting' = waiting
      PROVE  WaitingCount'
  BY <1>7 DEF WaitingCount
<1>8. QED
  BY <1>1, <1>2, <1>3, <1>4, <1>5, <1>6, <1>7 DEF Next, Step

\* A registered thread leaves the wait with waiting at least 1.
LEMMA RegisteredPositive ==
  ASSUME TypeOK, WaitingCount, NEW t \in Registered
  PROVE  waiting > 0
<1>1. Cardinality(Registered) # 0
  BY FiniteThreadSets, FS_EmptySet
<1>2. QED
  BY <1>1, FiniteThreadSets DEF WaitingCount

\* What taking the head of the queue does to the types.
LEMMA TakeHeadType ==
  ASSUME TypeOK, NEW t \in Thread, TakeHead(t)
  PROVE  /\ queue' \in Seq(Nat) /\ Len(queue') = Len(queue) - 1
         /\ taken' \in Seq(Nat)
         /\ ret' \in [Thread -> Nat]
<1>1. /\ Head(queue) \in Nat
      /\ Tail(queue) \in Seq(Nat) /\ Len(Tail(queue)) = Len(queue) - 1
  BY DEF TypeOK, TakeHead
<1>2. QED
  BY <1>1 DEF TypeOK, TakeHead

\* TypeOK is preserved by every step.
LEMMA TypeStep == IndInv /\ [Next]_vars => TypeOK'
<1> SUFFICES ASSUME IndInv, [Next]_vars PROVE TypeOK'
  OBVIOUS
<1> USE BoundAssumption, ThreadAssumption DEF IndInv, Control, Critical, Operation
<1>1. ASSUME NEW t \in Thread, NEW o \in Operation, Call(t, o)
      PROVE  TypeOK'
  BY <1>1 DEF Call, TypeOK, Goto, shared
<1>2. ASSUME NEW t \in Thread, Lock(t)
      PROVE  TypeOK'
  BY <1>2, EntryFacts DEF Lock, TypeOK, Goto, hist
<1>3. ASSUME NEW t \in Thread, PushAppend(t)
      PROVE  TypeOK'
  <2>1. /\ queue' \in Seq(Nat) /\ Len(queue') <= SIZE_MAX
        /\ pushed' \in Nat
    <3> DEFINE longer == Append(queue, pushed + 1)
    <3>1. longer \in Seq(Nat) /\ Len(longer) = Len(queue) + 1
      BY DEF TypeOK
    <3>2. Len(queue) \in Nat
      BY DEF TypeOK
    <3> HIDE DEF longer
    <3>3. \/ Len(queue) < SIZE_MAX /\ queue' = longer /\ pushed' = pushed + 1
          \/ queue' = queue /\ pushed' = pushed
      BY <1>3 DEF PushAppend, longer
    <3>4. QED
      BY <3>1, <3>2, <3>3 DEF TypeOK
  <2>2. QED
    BY <1>3, <2>1 DEF PushAppend, TypeOK, Goto
<1>4. ASSUME NEW t \in Thread, PushSignal(t)
      PROVE  TypeOK'
  BY <1>4 DEF PushSignal, TypeOK, Goto, Blocked, shared, hist
<1>5. ASSUME NEW t \in Thread, PopTake(t)
      PROVE  TypeOK'
  <2>1. /\ queue' \in Seq(Nat) /\ Len(queue') = Len(queue) - 1
        /\ taken' \in Seq(Nat) /\ ret' \in [Thread -> Nat]
    BY <1>5, TakeHeadType DEF PopTake
  <2>2. Len(queue') <= SIZE_MAX
    BY <2>1 DEF TypeOK
  <2>3. pc' \in [Thread -> Control]
    BY <1>5 DEF PopTake, TypeOK, Goto
  <2>4. QED
    BY <1>5, <2>1, <2>2, <2>3 DEF PopTake, TypeOK
<1>6. ASSUME NEW t \in Thread, PopWait(t)
      PROVE  TypeOK'
  BY <1>6 DEF PopWait, MayWait, TypeOK, Goto, hist
<1>7. ASSUME NEW t \in Thread, PopOverflow(t)
      PROVE  TypeOK'
  BY <1>7 DEF PopOverflow, GiveUp, TypeOK, Goto
<1>8. ASSUME NEW t \in Thread, Timeout(t) \/ SpuriousWakeup(t)
      PROVE  TypeOK'
  BY <1>8 DEF Timeout, SpuriousWakeup, TypeOK, Goto, shared, hist
<1>9. ASSUME NEW t \in Thread, Reacquire(t)
      PROVE  TypeOK'
  BY <1>9 DEF Reacquire, TypeOK, Goto, hist
<1>10. ASSUME NEW t \in Thread, PopRetry(t)
       PROVE  TypeOK'
  <2>1. waiting > 0
    BY <1>10, RegisteredPositive DEF PopRetry, Registered
  <2>2. waiting' \in 0..SIZE_MAX
    BY <1>10, <2>1 DEF PopRetry, Deregister, TypeOK
  <2>3. CASE TakeHead(t)
    <3>1. /\ queue' \in Seq(Nat) /\ Len(queue') = Len(queue) - 1
          /\ taken' \in Seq(Nat) /\ ret' \in [Thread -> Nat]
      BY <2>3, TakeHeadType
    <3>2. Len(queue') <= SIZE_MAX
      BY <3>1 DEF TypeOK
    <3>3. pc' \in [Thread -> Control]
      BY <1>10 DEF PopRetry, TypeOK, Goto
    <3>4. QED
      BY <1>10, <2>2, <3>1, <3>2, <3>3 DEF PopRetry, TypeOK
  <2>4. CASE GiveUp(t)
    BY <1>10, <2>2, <2>4 DEF PopRetry, GiveUp, TypeOK, Goto
  <2>5. QED
    BY <1>10, <2>3, <2>4 DEF PopRetry
<1>11. ASSUME NEW t \in Thread, Clear(t)
       PROVE  TypeOK'
  <2>1. Stored \subseteq Nat
    BY DEF TypeOK, Stored
  <2>2. QED
    BY <1>11, <2>1 DEF Clear, TypeOK, Goto
<1>12. ASSUME NEW t \in Thread, Count(t)
       PROVE  TypeOK'
  BY <1>12 DEF Count, TypeOK, Goto, shared, hist
<1>13. ASSUME NEW t \in Thread, Unlock(t)
       PROVE  TypeOK'
  BY <1>13 DEF Unlock, Release, TypeOK, Goto, hist
<1>14. ASSUME Free
       PROVE  TypeOK'
  <2>1. Stored \subseteq Nat
    BY DEF TypeOK, Stored
  <2>2. dropped' \in SUBSET Nat
    BY <1>14, <2>1 DEF Free, TypeOK
  <2>3. queue' \in Seq(Nat) /\ Len(queue') <= SIZE_MAX
    BY <1>14 DEF Free
  <2>4. alive' \in BOOLEAN
    BY <1>14 DEF Free
  <2>5. QED
    BY <1>14, <2>2, <2>4, <2>1, <2>3 DEF Free, TypeOK, local
<1>15. ASSUME Reinit
       PROVE  TypeOK'
  BY <1>15 DEF Reinit, TypeOK, local, hist
<1>16. ASSUME UNCHANGED vars
       PROVE  TypeOK'
  BY <1>16 DEF vars, shared, local, hist, TypeOK
<1>17. QED
  BY <1>1, <1>2, <1>3, <1>4, <1>5, <1>6, <1>7, <1>8, <1>9, <1>10, <1>11, <1>12, <1>13,
     <1>14, <1>15, <1>16
  DEF Next, Step

\* MutexInv and ControlInv are preserved by every step.
LEMMA ControlStep == IndInv /\ [Next]_vars => MutexInv' /\ ControlInv'
<1> SUFFICES ASSUME IndInv, [Next]_vars PROVE MutexInv' /\ ControlInv'
  OBVIOUS
<1> USE ThreadAssumption DEF IndInv, Critical, Operation, MutexInv, ControlInv
<1>1. ASSUME NEW t \in Thread, NEW o \in Operation, Call(t, o)
      PROVE  MutexInv' /\ ControlInv'
  BY <1>1 DEF Call, TypeOK, Goto, shared
<1>2. ASSUME NEW t \in Thread, Lock(t)
      PROVE  MutexInv' /\ ControlInv'
  BY <1>2, EntryFacts DEF Lock, TypeOK, Goto
<1>3. ASSUME NEW t \in Thread, PushAppend(t)
      PROVE  MutexInv' /\ ControlInv'
  BY <1>3 DEF PushAppend, TypeOK, Goto
<1>4. ASSUME NEW t \in Thread, PushSignal(t)
      PROVE  MutexInv' /\ ControlInv'
  BY <1>4 DEF PushSignal, TypeOK, Goto, Blocked, shared
<1>5. ASSUME NEW t \in Thread, PopTake(t) \/ PopOverflow(t)
      PROVE  MutexInv' /\ ControlInv'
  BY <1>5 DEF PopTake, PopOverflow, TypeOK, Goto
<1>6. ASSUME NEW t \in Thread, PopWait(t)
      PROVE  MutexInv' /\ ControlInv'
  BY <1>6 DEF PopWait, TypeOK, Goto
<1>7. ASSUME NEW t \in Thread, Timeout(t) \/ SpuriousWakeup(t)
      PROVE  MutexInv' /\ ControlInv'
  <2>1. CASE Timeout(t)
    <3>1. MutexInv'
      BY <2>1 DEF Timeout, TypeOK, Goto, shared
    <3>2. ControlInv'
      BY <2>1 DEF Timeout, TypeOK, Goto, shared
    <3>3. QED
      BY <3>1, <3>2
  <2>2. CASE SpuriousWakeup(t)
    <3>1. MutexInv'
      BY <2>2 DEF SpuriousWakeup, TypeOK, Goto, shared
    <3>2. ControlInv'
      BY <2>2 DEF SpuriousWakeup, TypeOK, Goto, shared
    <3>3. QED
      BY <3>1, <3>2
  <2>3. QED
    BY <1>7, <2>1, <2>2
<1>8. ASSUME NEW t \in Thread, Reacquire(t)
      PROVE  MutexInv' /\ ControlInv'
  BY <1>8 DEF Reacquire, TypeOK, Goto
<1>9. ASSUME NEW t \in Thread, PopRetry(t)
      PROVE  MutexInv' /\ ControlInv'
  BY <1>9 DEF PopRetry, TypeOK, Goto
<1>10. ASSUME NEW t \in Thread, Clear(t) \/ Count(t)
       PROVE  MutexInv' /\ ControlInv'
  BY <1>10 DEF Clear, Count, TypeOK, Goto, shared
<1>11. ASSUME NEW t \in Thread, Unlock(t)
       PROVE  MutexInv' /\ ControlInv'
  BY <1>11 DEF Unlock, Release, TypeOK, Goto
<1>12. ASSUME Free \/ Reinit
       PROVE  MutexInv' /\ ControlInv'
  BY <1>12 DEF Free, Reinit, TypeOK, local
<1>13. ASSUME UNCHANGED vars
       PROVE  MutexInv' /\ ControlInv'
  BY <1>13 DEF vars, shared, local
<1>14. QED
  BY <1>1, <1>2, <1>3, <1>4, <1>5, <1>6, <1>7, <1>8, <1>9, <1>10, <1>11, <1>12, <1>13
  DEF Next, Step

\* In every reachable state of asyncqueue.c the variables have their types, the
\* mutex is held by the one thread in a critical section, and every thread is
\* where its call puts it.
THEOREM IndInvHolds == Spec => []IndInv
<1>1. IndInv /\ [Next]_vars => IndInv'
  BY TypeStep, ControlStep, WaitingCountStep DEF IndInv
<1>2. QED
  BY InitIndInv, <1>1, PTL DEF Spec

\* Type correctness: in particular queue->waiting stays within 0..SIZE_MAX, it
\* neither wraps at --queue->waiting nor passes the overflow check.
THEOREM TypeCorrect == Spec => []TypeOK
BY IndInvHolds, PTL DEF IndInv

\* queue->waiting is the number of consumers inside _async_queue_cond_wait.
THEOREM WaitingIsExact == Spec => []WaitingCount
BY IndInvHolds, PTL DEF IndInv
-----------------------------------------------------------------------------
(***************************************************************************)
(* No lost wakeup.                                                         *)
(***************************************************************************)

\* 1 while a push is between its append and its signal.
Pending == IF \E t \in Thread : pc[t] = "signal" THEN 1 ELSE 0

\* NoStrandedItem is preserved by every step.
LEMMA NoStrandedItemStep ==
  IndInv /\ IndInv' /\ NoStrandedItem /\ [Next]_vars => NoStrandedItem'
<1> SUFFICES ASSUME IndInv, IndInv', NoStrandedItem, [Next]_vars, Blocked' # {}
             PROVE  Len(queue') <= Cardinality(Awake') + Pending'
  BY DEF NoStrandedItem, Pending
<1> USE DEF IndInv
<1>a. /\ Len(queue) \in Nat /\ Len(queue') \in Nat
      /\ Pending \in {0, 1} /\ Pending' \in {0, 1}
      /\ Cardinality(Awake) \in Nat /\ Cardinality(Awake') \in Nat
  <2>1. Len(queue) \in Nat /\ Len(queue') \in Nat
    BY DEF TypeOK
  <2>2. Pending \in {0, 1} /\ Pending' \in {0, 1}
    BY DEF Pending
  <2>3. Cardinality(Awake) \in Nat /\ Cardinality(Awake') \in Nat
    BY FiniteThreadSets
  <2>4. QED
    BY <2>1, <2>2, <2>3
<1>b. Blocked # {} => Len(queue) <= Cardinality(Awake) + Pending
  BY DEF NoStrandedItem, Pending
\* Steps that leave all four quantities alone, or only remove items.
<1>1. ASSUME Blocked' \subseteq Blocked, Awake' = Awake, Pending' = Pending,
             Len(queue') <= Len(queue)
      PROVE  Len(queue') <= Cardinality(Awake') + Pending'
  BY <1>1, <1>a, <1>b
<1>2. ASSUME NEW t \in Thread, NEW o \in Operation, Call(t, o)
      PROVE  Len(queue') <= Cardinality(Awake') + Pending'
  <2>1. Blocked' = Blocked /\ Awake' = Awake /\ Pending' = Pending /\ queue' = queue
    BY <1>2 DEF Call, TypeOK, Goto, Blocked, Awake, Pending, shared
  <2>2. QED
    BY <2>1, <1>1, <1>a
<1>3. ASSUME NEW t \in Thread, Lock(t)
      PROVE  Len(queue') <= Cardinality(Awake') + Pending'
  <2>1. Blocked' = Blocked /\ Awake' = Awake /\ Pending' = Pending /\ queue' = queue
    <3>1. /\ pc[t] = "lock" /\ rc' = rc /\ queue' = queue
          /\ Entry[op[t]] \in {"append", "pop_try", "clear", "count"}
          /\ pc' = [pc EXCEPT ![t] = Entry[op[t]]]
      BY <1>3, EntryFacts DEF Lock, Goto
    <3>2. \A u \in Thread : pc'[u] = IF u = t THEN Entry[op[t]] ELSE pc[u]
      BY <3>1 DEF TypeOK
    <3>3. Blocked' = Blocked
      BY <3>1, <3>2 DEF Blocked
    <3>4. Awake' = Awake
      BY <3>1, <3>2 DEF Awake
    <3>5. Pending' = Pending
      BY <3>1, <3>2 DEF Pending
    <3>6. QED
      BY <3>1, <3>3, <3>4, <3>5
  <2>2. QED
    BY <2>1, <1>1, <1>a
<1>4. ASSUME NEW t \in Thread, PushAppend(t)
      PROVE  Len(queue') <= Cardinality(Awake') + Pending'
  <2>1. Blocked' = Blocked /\ Awake' = Awake /\ Pending' = 1
    BY <1>4 DEF PushAppend, TypeOK, Goto, Blocked, Awake, Pending
  <2>2. Pending = 0
    BY <1>4 DEF PushAppend, Pending, MutexInv, Critical
  <2>3. Len(queue') <= Len(queue) + 1
    BY <1>4 DEF PushAppend, TypeOK
  <2>4. QED
    BY <2>1, <2>2, <2>3, <1>a, <1>b
<1>5. ASSUME NEW t \in Thread, PushSignal(t)
      PROVE  Len(queue') <= Cardinality(Awake') + Pending'
  <2>1. queue' = queue /\ Blocked' \subseteq Blocked
    BY <1>5 DEF PushSignal, TypeOK, Goto, Blocked, shared
  <2>2. Blocked # {} /\ SomeoneWaiting
    <3>1. PICK w \in Blocked : TRUE
      BY <2>1
    <3>2. w \in Registered
      BY DEF Blocked, Registered
    <3>3. QED
      BY <3>1, <3>2, RegisteredPositive DEF SomeoneWaiting
  <2>3. PICK w \in Blocked : /\ pc' = [pc EXCEPT ![t] = "unlock", ![w] = "woken"]
                             /\ rc' = [rc EXCEPT ![w] = "ok"]
    BY <1>5, <2>2 DEF PushSignal
  <2>4. w \notin Awake /\ Awake' = Awake \cup {w}
    BY <1>5, <2>3 DEF PushSignal, TypeOK, Blocked, Awake
  <2>5. Cardinality(Awake') = Cardinality(Awake) + 1
    BY <2>4, FiniteThreadSets, FS_AddElement
  <2>6. QED
    BY <2>1, <2>2, <2>5, <1>a, <1>b
<1>6. ASSUME NEW t \in Thread, PopTake(t)
      PROVE  Len(queue') <= Cardinality(Awake') + Pending'
  <2>1. Blocked' = Blocked /\ Awake' = Awake /\ Pending' = Pending
    BY <1>6 DEF PopTake, TypeOK, Goto, Blocked, Awake, Pending
  <2>2. Len(queue') = Len(queue) - 1
    BY <1>6, TakeHeadType DEF PopTake
  <2>3. QED
    BY <2>1, <2>2, <1>1, <1>a
<1>7. ASSUME NEW t \in Thread, PopWait(t) \/ Clear(t)
      PROVE  Len(queue') <= Cardinality(Awake') + Pending'
  <2>1. Len(queue') = 0
    BY <1>7 DEF PopWait, Clear
  <2>2. QED
    BY <2>1, <1>a
<1>8. ASSUME NEW t \in Thread, PopOverflow(t) \/ Count(t) \/ Unlock(t)
      PROVE  Len(queue') <= Cardinality(Awake') + Pending'
  <2>1. Blocked' = Blocked /\ Awake' = Awake /\ Pending' = Pending
    <3>1. PICK c \in {"unlock", "idle"} : pc' = [pc EXCEPT ![t] = c]
      BY <1>8 DEF PopOverflow, Count, Unlock, Goto
    <3>2. pc[t] \in {"pop_try", "count", "unlock"} /\ rc' = rc
      BY <1>8 DEF PopOverflow, Count, Unlock
    <3>3. \A u \in Thread : pc'[u] = IF u = t THEN c ELSE pc[u]
      BY <3>1 DEF TypeOK
    <3>4. Blocked' = Blocked
      BY <3>2, <3>3 DEF Blocked
    <3>5. Awake' = Awake
      BY <3>2, <3>3 DEF Awake
    <3>6. Pending' = Pending
      BY <3>2, <3>3 DEF Pending
    <3>7. QED
      BY <3>4, <3>5, <3>6
  <2>2. queue' = queue
    BY <1>8 DEF PopOverflow, GiveUp, Count, Unlock, shared
  <2>3. QED
    BY <2>1, <2>2, <1>1, <1>a
<1>9. ASSUME NEW t \in Thread, Timeout(t)
      PROVE  Len(queue') <= Cardinality(Awake') + Pending'
  <2>1. Blocked' \subseteq Blocked /\ Awake' = Awake /\ Pending' = Pending /\ queue' = queue
    BY <1>9 DEF Timeout, TypeOK, Goto, Blocked, Awake, Pending, shared
  <2>2. QED
    BY <2>1, <1>1, <1>a
<1>10. ASSUME NEW t \in Thread, SpuriousWakeup(t)
       PROVE  Len(queue') <= Cardinality(Awake') + Pending'
  <2>1. Blocked' \subseteq Blocked /\ Pending' = Pending /\ queue' = queue
    BY <1>10 DEF SpuriousWakeup, TypeOK, Goto, Blocked, Pending, shared
  <2>2. Awake' = Awake \cup {t}
    BY <1>10 DEF SpuriousWakeup, TypeOK, Goto, Awake
  <2>3. Cardinality(Awake') >= Cardinality(Awake)
    BY <2>2, FiniteThreadSets, FS_AddElement
  <2>4. QED
    BY <2>1, <2>3, <1>a, <1>b
<1>11. ASSUME NEW t \in Thread, Reacquire(t)
       PROVE  Len(queue') <= Cardinality(Awake') + Pending'
  <2>1. Blocked' = Blocked /\ Awake' = Awake /\ Pending' = Pending /\ queue' = queue
    BY <1>11 DEF Reacquire, TypeOK, Goto, Blocked, Awake, Pending
  <2>2. QED
    BY <2>1, <1>1, <1>a
<1>12. ASSUME NEW t \in Thread, PopRetry(t)
       PROVE  Len(queue') <= Cardinality(Awake') + Pending'
  <2>1. Blocked' = Blocked /\ Pending' = Pending /\ Awake' = Awake \ {t}
    BY <1>12 DEF PopRetry, TypeOK, Goto, Blocked, Awake, Pending
  <2>2. CASE rc[t] = "ok" /\ TakeHead(t)
    <3>1. t \in Awake
      BY <1>12, <2>2 DEF PopRetry, Awake
    <3>2. Cardinality(Awake') = Cardinality(Awake) - 1
      BY <2>1, <3>1, FiniteThreadSets, FS_RemoveElement
    <3>3. Len(queue') = Len(queue) - 1
      BY <2>2, TakeHeadType
    <3>4. QED
      BY <2>1, <3>2, <3>3, <1>a, <1>b
  <2>3. CASE rc[t] = "timedout" /\ GiveUp(t)
    <3>1. Awake' = Awake
      BY <2>1, <2>3 DEF Awake
    <3>2. QED
      BY <2>1, <2>3, <3>1, <1>1, <1>a DEF GiveUp
  <2>4. CASE queue = <<>> /\ GiveUp(t)
    <3>1. Len(queue') = 0
      BY <2>4 DEF GiveUp
    <3>2. QED
      BY <3>1, <1>a
  <2>5. QED
    BY <1>12, <2>2, <2>3, <2>4 DEF PopRetry
<1>13. ASSUME Free \/ Reinit
       PROVE  Len(queue') <= Cardinality(Awake') + Pending'
  <2>1. Len(queue') = 0
    BY <1>13 DEF Free, Reinit
  <2>2. QED
    BY <2>1, <1>a
<1>14. ASSUME UNCHANGED vars
       PROVE  Len(queue') <= Cardinality(Awake') + Pending'
  <2>1. Blocked' = Blocked /\ Awake' = Awake /\ Pending' = Pending /\ queue' = queue
    BY <1>14 DEF vars, shared, local, Blocked, Awake, Pending
  <2>2. QED
    BY <2>1, <1>1, <1>a
<1>15. QED
  BY <1>2, <1>3, <1>4, <1>5, <1>6, <1>7, <1>8, <1>9, <1>10, <1>11, <1>12, <1>13, <1>14
  DEF Next, Step

\* No lost wakeup, for any number of threads: while a consumer sleeps, every
\* item in the queue has an awake consumer or a push about to signal.
THEOREM NoLostWakeup == Spec => []NoStrandedItem
<1>1. Init => NoStrandedItem
  BY DEF Init, NoStrandedItem, Blocked
<1>2. QED
  BY <1>1, IndInvHolds, NoStrandedItemStep, PTL DEF Spec
-----------------------------------------------------------------------------
(***************************************************************************)
(* Every item is handed out at most once, in order, and none is lost.      *)
(***************************************************************************)

\* Appending the next item keeps the order and the accounting.
LEMMA AppendKeepsOrder ==
  ASSUME TypeOK, ExactlyOnceInOrder,
         queue' = Append(queue, pushed + 1), pushed' = pushed + 1,
         taken' = taken, dropped' = dropped
  PROVE  ExactlyOnceInOrder'
<1>1. /\ Len(queue') = Len(queue) + 1 /\ Len(queue) \in Nat
      /\ \A i \in 1..Len(queue) : queue'[i] = queue[i] /\ queue[i] \in Nat
      /\ queue'[Len(queue) + 1] = pushed + 1
  BY DEF TypeOK
<1>2. pushed \in Nat /\ 1..(pushed + 1) = 1..pushed \cup {pushed + 1}
  BY DEF TypeOK
<1>3. /\ \A i \in 1..Len(queue) : queue[i] \in 1..pushed
      /\ \A i \in 1..Len(taken) : taken[i] \in 1..pushed
      /\ dropped \subseteq 1..pushed
  BY DEF ExactlyOnceInOrder, Conservation, Stored, Taken
<1>4. Stored' = Stored \cup {pushed + 1} /\ Taken' = Taken
  BY <1>1 DEF Stored, Taken
<1>5. pushed + 1 \notin Taken \cup dropped
  BY <1>2, <1>3 DEF Taken
<1>6. Conservation'
  BY <1>2, <1>4, <1>5 DEF ExactlyOnceInOrder, Conservation
<1>7. FifoOrder'
  <2>1. ASSUME NEW i \in 1..Len(queue'), NEW j \in 1..Len(queue'), i < j
        PROVE  queue'[i] < queue'[j]
    <3>1. CASE j = Len(queue) + 1
      BY <1>1, <1>2, <1>3, <2>1, <3>1
    <3>2. CASE j # Len(queue) + 1
      <4>1. i \in 1..Len(queue) /\ j \in 1..Len(queue)
        BY <1>1, <2>1, <3>2
      <4>2. QED
        BY <1>1, <2>1, <4>1 DEF ExactlyOnceInOrder, FifoOrder
    <3>3. QED
      BY <3>1, <3>2
  <2>2. ASSUME NEW i \in 1..Len(taken'), NEW j \in 1..Len(queue')
        PROVE  taken'[i] < queue'[j]
    BY <1>1, <1>2, <1>3, <2>2 DEF ExactlyOnceInOrder, FifoOrder
  <2>3. QED
    BY <2>1, <2>2 DEF ExactlyOnceInOrder, FifoOrder
<1>8. QED
  BY <1>6, <1>7 DEF ExactlyOnceInOrder

\* Taking the oldest item keeps the order and the accounting.
LEMMA TakeKeepsOrder ==
  ASSUME TypeOK, ExactlyOnceInOrder, NEW t \in Thread, TakeHead(t),
         pushed' = pushed, dropped' = dropped
  PROVE  ExactlyOnceInOrder'
<1>1. /\ Len(queue) \in Nat \ {0} /\ Head(queue) = queue[1]
      /\ Len(queue') = Len(queue) - 1
      /\ \A i \in 1..Len(queue') : queue'[i] = queue[i + 1]
  BY DEF TypeOK, TakeHead
<1>2. /\ Len(taken') = Len(taken) + 1 /\ Len(taken) \in Nat
      /\ \A i \in 1..Len(taken) : taken'[i] = taken[i]
      /\ taken'[Len(taken) + 1] = queue[1]
  BY <1>1 DEF TypeOK, TakeHead
<1>3. /\ \A i \in 1..Len(queue) : queue[i] \in Nat
      /\ \A i \in 1..Len(taken) : taken[i] \in Nat
  BY DEF TypeOK
<1>4. \A i \in 2..Len(queue) : queue[1] < queue[i]
  BY <1>1 DEF ExactlyOnceInOrder, FifoOrder
<1>5. Stored = Stored' \cup {queue[1]} /\ queue[1] \notin Stored'
  <2>1. \A i \in 1..Len(queue) : i = 1 \/ (i - 1 \in 1..Len(queue') /\ queue'[i - 1] = queue[i])
    BY <1>1
  <2>2. \A i \in 1..Len(queue') : i + 1 \in 2..Len(queue) /\ queue'[i] = queue[i + 1]
    BY <1>1
  <2>3. Stored = Stored' \cup {queue[1]}
    BY <1>1, <2>1, <2>2 DEF Stored
  <2>4. queue[1] \notin Stored'
    BY <1>1, <1>3, <1>4, <2>2 DEF Stored
  <2>5. QED
    BY <2>3, <2>4
<1>6. Taken' = Taken \cup {queue[1]}
  BY <1>2 DEF Taken
<1>7. Conservation'
  BY <1>5, <1>6 DEF ExactlyOnceInOrder, Conservation
<1>8. FifoOrder'
  <2>1. ASSUME NEW i \in 1..Len(taken'), NEW j \in 1..Len(taken'), i < j
        PROVE  taken'[i] < taken'[j]
    <3>1. CASE j = Len(taken) + 1
      <4>1. i \in 1..Len(taken) /\ 1 \in 1..Len(queue)
        BY <1>1, <1>2, <2>1, <3>1
      <4>2. QED
        BY <1>2, <3>1, <4>1 DEF ExactlyOnceInOrder, FifoOrder
    <3>2. CASE j # Len(taken) + 1
      <4>1. i \in 1..Len(taken) /\ j \in 1..Len(taken)
        BY <1>2, <2>1, <3>2
      <4>2. QED
        BY <1>2, <2>1, <4>1 DEF ExactlyOnceInOrder, FifoOrder
    <3>3. QED
      BY <3>1, <3>2
  <2>2. ASSUME NEW i \in 1..Len(queue'), NEW j \in 1..Len(queue'), i < j
        PROVE  queue'[i] < queue'[j]
    BY <1>1, <2>2 DEF ExactlyOnceInOrder, FifoOrder
  <2>3. ASSUME NEW i \in 1..Len(taken'), NEW j \in 1..Len(queue')
        PROVE  taken'[i] < queue'[j]
    <3>1. j + 1 \in 2..Len(queue) /\ j + 1 \in 1..Len(queue) /\ queue'[j] = queue[j + 1]
      BY <1>1
    <3>2. CASE i = Len(taken) + 1
      BY <1>2, <1>4, <3>1, <3>2
    <3>3. CASE i # Len(taken) + 1
      <4>1. i \in 1..Len(taken) /\ taken'[i] = taken[i]
        BY <1>2, <3>3
      <4>2. QED
        BY <3>1, <4>1 DEF ExactlyOnceInOrder, FifoOrder
    <3>4. QED
      BY <3>2, <3>3
  <2>4. QED
    BY <2>1, <2>2, <2>3 DEF FifoOrder
<1>9. QED
  BY <1>7, <1>8 DEF ExactlyOnceInOrder

\* Discarding all stored items keeps the order and the accounting.
LEMMA DiscardKeepsOrder ==
  ASSUME TypeOK, ExactlyOnceInOrder,
         queue' = <<>>, dropped' = dropped \cup Stored,
         pushed' = pushed, taken' = taken
  PROVE  ExactlyOnceInOrder'
<1>1. Len(queue') = 0 /\ Stored' = {} /\ Taken' = Taken
  BY DEF Stored, Taken
<1>2. Conservation'
  BY <1>1 DEF ExactlyOnceInOrder, Conservation
<1>3. FifoOrder'
  BY <1>1 DEF ExactlyOnceInOrder, FifoOrder
<1>4. QED
  BY <1>2, <1>3 DEF ExactlyOnceInOrder

\* Steps that touch no item keep the order and the accounting.
LEMMA SameItems ==
  ASSUME ExactlyOnceInOrder,
         queue' = queue, dropped' = dropped, pushed' = pushed, taken' = taken
  PROVE  ExactlyOnceInOrder'
BY DEF ExactlyOnceInOrder, Conservation, FifoOrder, Stored, Taken

\* Whatever threads race for the items, asyncqueue.c hands out every accepted
\* item at most once and in the order of the pushes, and loses none.
THEOREM ExactlyOnce == Spec => []ExactlyOnceInOrder
<1>1. Init => ExactlyOnceInOrder
  <2> SUFFICES ASSUME Init PROVE ExactlyOnceInOrder
    OBVIOUS
  <2>1. Len(queue) = 0 /\ Len(taken) = 0 /\ Stored = {} /\ Taken = {}
    BY DEF Init, Stored, Taken
  <2>2. QED
    BY <2>1 DEF Init, ExactlyOnceInOrder, Conservation, FifoOrder
<1>2. IndInv /\ ExactlyOnceInOrder /\ [Next]_vars => ExactlyOnceInOrder'
  <2> SUFFICES ASSUME IndInv, ExactlyOnceInOrder, [Next]_vars PROVE ExactlyOnceInOrder'
    OBVIOUS
  <2> USE DEF IndInv
  <2>1. ASSUME NEW t \in Thread,
               \/ \E o \in Operation : Call(t, o)
               \/ Lock(t) \/ PushSignal(t) \/ PopWait(t) \/ PopOverflow(t)
               \/ Timeout(t) \/ SpuriousWakeup(t) \/ Reacquire(t) \/ Count(t) \/ Unlock(t)
        PROVE  ExactlyOnceInOrder'
    <3>1. queue' = queue /\ dropped' = dropped /\ pushed' = pushed /\ taken' = taken
      BY <2>1 DEF Call, Lock, PushSignal, PopWait, PopOverflow, GiveUp, Timeout,
                  SpuriousWakeup, Reacquire, Count, Unlock, shared, hist
    <3>2. QED
      BY <3>1, SameItems
  <2>2. ASSUME NEW t \in Thread, PushAppend(t)
        PROVE  ExactlyOnceInOrder'
    BY <2>2, AppendKeepsOrder, SameItems DEF PushAppend
  <2>3. ASSUME NEW t \in Thread, PopTake(t)
        PROVE  ExactlyOnceInOrder'
    BY <2>3, TakeKeepsOrder DEF PopTake
  <2>4. ASSUME NEW t \in Thread, PopRetry(t)
        PROVE  ExactlyOnceInOrder'
    BY <2>4, TakeKeepsOrder, SameItems DEF PopRetry, GiveUp
  <2>5. ASSUME NEW t \in Thread, Clear(t)
        PROVE  ExactlyOnceInOrder'
    BY <2>5, DiscardKeepsOrder DEF Clear
  <2>6. ASSUME Free
        PROVE  ExactlyOnceInOrder'
    BY <2>6, DiscardKeepsOrder DEF Free
  <2>7. ASSUME Reinit
        PROVE  ExactlyOnceInOrder'
    BY <2>7, SameItems DEF Reinit, ControlInv, hist
  <2>8. ASSUME UNCHANGED vars
        PROVE  ExactlyOnceInOrder'
    BY <2>8, SameItems DEF vars, shared, hist
  <2>9. QED
    BY <2>1, <2>2, <2>3, <2>4, <2>5, <2>6, <2>7, <2>8 DEF Next, Step
<1>3. QED
  BY <1>1, <1>2, IndInvHolds, PTL DEF Spec
-----------------------------------------------------------------------------
(***************************************************************************)
(* AsyncQueue implements AtomicQueue.                                      *)
(***************************************************************************)

\* The refinement mapping of the variable done.
Done == [t \in Thread |-> pc[t] \in {"signal", "unlock"}]

\* A step of one thread that does not cross its linearization point.
LEMMA DoneUnchanged ==
  ASSUME TypeOK, NEW t \in Thread, NEW l, Goto(t, l),
         pc[t] \in {"signal", "unlock"} <=> l \in {"signal", "unlock"}
  PROVE  Done' = Done
BY DEF TypeOK, Goto, Done

\* A step of one thread that takes effect.
LEMMA DoneSet ==
  ASSUME TypeOK, NEW t \in Thread, NEW l \in {"signal", "unlock"}, Goto(t, l),
         pc[t] \notin {"signal", "unlock"}
  PROVE  ~Done[t] /\ Done' = [Done EXCEPT ![t] = TRUE]
BY DEF TypeOK, Goto, Done

\* A step of one thread that returns from its call.
LEMMA DoneReset ==
  ASSUME TypeOK, NEW t \in Thread, Goto(t, "idle"), pc[t] = "unlock"
  PROVE  Done[t] /\ Done' = [Done EXCEPT ![t] = FALSE]
<1>1. Done[t]
  BY DEF Done
<1>2. ASSUME NEW s \in Thread
      PROVE  (pc'[s] \in {"signal", "unlock"}) = [Done EXCEPT ![t] = FALSE][s]
  <2>1. CASE s = t
    <3>1. (pc'[s] \in {"signal", "unlock"}) = FALSE
      BY <2>1 DEF TypeOK, Goto
    <3>2. [Done EXCEPT ![t] = FALSE][s] = FALSE
      BY <2>1, Zenon DEF Done
    <3>3. QED
      BY <3>1, <3>2, Zenon
  <2>2. CASE s # t
    <3>1. pc'[s] = pc[s]
      BY <2>2 DEF TypeOK, Goto
    <3>2. [Done EXCEPT ![t] = FALSE][s] = (pc[s] \in {"signal", "unlock"})
      BY <2>2, Zenon DEF Done
    <3>3. QED
      BY <3>1, <3>2, Zenon
  <2>3. QED
    BY <2>1, <2>2
<1>3. Done' = [Done EXCEPT ![t] = FALSE]
  BY <1>2, Zenon DEF Done
<1>4. QED
  BY <1>1, <1>3

\* Every step of asyncqueue.c is a step of the atomic queue or leaves it alone.
LEMMA StepSimulation == IndInv /\ [Next]_vars => [Abs!Next]_(Abs!avars)
<1> SUFFICES ASSUME IndInv, [Next]_vars PROVE [Abs!Next]_(Abs!avars)
  OBVIOUS
<1> USE DEF IndInv
<1>a. ASSUME queue' = queue, pushed' = pushed, op' = op, ret' = ret, Done' = Done
      PROVE  UNCHANGED Abs!avars
  BY <1>a DEF Abs!avars, Done
<1>1. ASSUME NEW t \in Thread, NEW o \in Operation, Call(t, o)
      PROVE  Abs!Next
  <2>1. Done' = Done
    BY <1>1, DoneUnchanged DEF Call
  <2>2. op[t] = "none"
    BY <1>1 DEF Call, ControlInv
  <2>3. Abs!Call(t, o)
    BY <1>1, <2>1, <2>2 DEF Call, Abs!Call, Done, shared
  <2>4. QED
    BY <2>3 DEF Abs!Next, Operation
<1>2. ASSUME NEW t \in Thread, Lock(t)
      PROVE  UNCHANGED Abs!avars
  <2>1. Done' = Done
    BY <1>2, DoneUnchanged, EntryFacts DEF Lock
  <2>2. QED
    BY <1>2, <1>a, <2>1 DEF Lock, hist
<1>3. ASSUME NEW t \in Thread, PushAppend(t)
      PROVE  Abs!Next
  <2>1. ~Done[t] /\ Done' = [Done EXCEPT ![t] = TRUE]
    BY <1>3, DoneSet DEF PushAppend
  <2>2. op[t] = "push" /\ ret' = [ret EXCEPT ![t] = ret[t]]
    BY <1>3 DEF PushAppend, ControlInv, TypeOK
  <2>3. Abs!Effect(t, "push", ret[t])
    BY <1>3, <2>1, <2>2 DEF PushAppend, Abs!Effect, Done
  <2>4. Abs!Push(t)
    BY <1>3, <2>3 DEF PushAppend, Abs!Push
  <2>5. QED
    BY <2>4 DEF Abs!Next
<1>4. ASSUME NEW t \in Thread, PushSignal(t)
      PROVE  UNCHANGED Abs!avars
  <2>1. Done' = Done
    BY <1>4 DEF PushSignal, TypeOK, Goto, Blocked, Done
  <2>2. QED
    BY <1>4, <1>a, <2>1 DEF PushSignal, shared, hist
<1>5. ASSUME NEW t \in Thread, TakeHead(t), op' = op, pushed' = pushed,
             op[t] \in {"pop", "pop_timeout"}, ~Done[t], Done' = [Done EXCEPT ![t] = TRUE]
      PROVE  Abs!Next
  <2>1. Abs!Effect(t, op[t], Head(queue))
    BY <1>5 DEF TakeHead, Abs!Effect, Done
  <2>2. Abs!Pop(t, op[t])
    BY <1>5, <2>1 DEF TakeHead, Abs!Pop
  <2>3. QED
    BY <1>5, <2>2 DEF Abs!Next
<1>6. ASSUME NEW t \in Thread, GiveUp(t), op' = op, pushed' = pushed,
             op[t] \in {"pop", "pop_timeout"}, ~Done[t], Done' = [Done EXCEPT ![t] = TRUE],
             op[t] = "pop_timeout" \/ queue = <<>>
      PROVE  Abs!Next
  <2>1. Abs!Effect(t, op[t], 0)
    BY <1>6 DEF GiveUp, Abs!Effect, Done
  <2>2. Abs!PopFails(t, op[t])
    BY <1>6, <2>1 DEF GiveUp, Abs!PopFails
  <2>3. QED
    BY <1>6, <2>2 DEF Abs!Next
<1>7. ASSUME NEW t \in Thread, PopTake(t) \/ PopOverflow(t) \/ PopRetry(t)
      PROVE  Abs!Next
  <2>1. ~Done[t] /\ Done' = [Done EXCEPT ![t] = TRUE]
    BY <1>7, DoneSet DEF PopTake, PopOverflow, PopRetry
  <2>2. /\ op[t] \in {"pop", "pop_timeout"} /\ op' = op /\ pushed' = pushed
        /\ pc[t] = "pop_retry" /\ rc[t] = "timedout" => op[t] = "pop_timeout"
    BY <1>7 DEF PopTake, PopOverflow, PopRetry, ControlInv
  <2>3. \/ TakeHead(t)
        \/ GiveUp(t) /\ (op[t] = "pop_timeout" \/ queue = <<>>)
    BY <1>7, <2>2 DEF PopTake, PopOverflow, PopRetry
  <2>4. QED
    BY <1>5, <1>6, <2>1, <2>2, <2>3
<1>8. ASSUME NEW t \in Thread, PopWait(t) \/ Reacquire(t) \/ Timeout(t) \/ SpuriousWakeup(t)
      PROVE  UNCHANGED Abs!avars
  <2>1. Done' = Done
    BY <1>8, DoneUnchanged DEF PopWait, Reacquire, Timeout, SpuriousWakeup
  <2>2. QED
    BY <1>8, <1>a, <2>1 DEF PopWait, Reacquire, Timeout, SpuriousWakeup, shared, hist
<1>9. ASSUME NEW t \in Thread, Clear(t)
      PROVE  Abs!Next
  <2>1. ~Done[t] /\ Done' = [Done EXCEPT ![t] = TRUE]
    BY <1>9, DoneSet DEF Clear
  <2>2. op[t] = "clear" /\ ret' = [ret EXCEPT ![t] = ret[t]]
    BY <1>9 DEF Clear, ControlInv, TypeOK
  <2>3. Abs!Effect(t, "clear", ret[t])
    BY <1>9, <2>1, <2>2 DEF Clear, Abs!Effect, Done
  <2>4. Abs!Clear(t)
    BY <1>9, <2>3 DEF Clear, Abs!Clear
  <2>5. QED
    BY <2>4 DEF Abs!Next
<1>10. ASSUME NEW t \in Thread, Count(t)
       PROVE  Abs!Next
  <2>1. ~Done[t] /\ Done' = [Done EXCEPT ![t] = TRUE]
    BY <1>10, DoneSet DEF Count
  <2>2. op[t] = "count"
    BY <1>10 DEF Count, ControlInv
  <2>3. Abs!Effect(t, "count", Len(queue))
    BY <1>10, <2>1, <2>2 DEF Count, Abs!Effect, Done
  <2>4. Abs!Count(t)
    BY <1>10, <2>3 DEF Count, Abs!Count, shared, hist
  <2>5. QED
    BY <2>4 DEF Abs!Next
<1>11. ASSUME NEW t \in Thread, Unlock(t)
       PROVE  Abs!Next
  <2>1. Done[t] /\ Done' = [Done EXCEPT ![t] = FALSE]
    BY <1>11, DoneReset DEF Unlock
  <2>2. Abs!Return(t)
    BY <1>11, <2>1 DEF Unlock, Abs!Return, Done, hist
  <2>3. QED
    BY <2>2 DEF Abs!Next
<1>12. ASSUME Free
       PROVE  Abs!Next
  <2>1. \A t \in Thread : op[t] = "none"
    BY <1>12 DEF Free, ControlInv
  <2>2. pc' = pc /\ op' = op /\ ret' = ret /\ pushed' = pushed /\ queue' = <<>>
    BY <1>12 DEF Free, local
  <2>3. Abs!Free
    BY <2>1, <2>2 DEF Abs!Free
  <2>4. QED
    BY <2>3 DEF Abs!Next
<1>13. ASSUME Reinit \/ UNCHANGED vars
       PROVE  UNCHANGED Abs!avars
  <2>1. queue' = queue
    BY <1>13 DEF Reinit, ControlInv, vars, shared
  <2>2. pc' = pc /\ op' = op /\ ret' = ret /\ pushed' = pushed
    BY <1>13 DEF Reinit, vars, local, hist
  <2>3. QED
    BY <1>a, <2>1, <2>2 DEF Done
<1>14. QED
  BY <1>1, <1>2, <1>3, <1>4, <1>7, <1>8, <1>9, <1>10, <1>11, <1>12, <1>13 DEF Next, Step

\* asyncqueue.c is a linearizable first-in first-out queue: for any number of
\* threads, every behaviour of the mutex and condition variable protocol is a
\* behaviour of the atomic queue.
THEOREM Refinement == Spec => Linearizable
<1>1. Init => Abs!Init
  <2> SUFFICES ASSUME Init PROVE Abs!Init
    OBVIOUS
  <2>1. ASSUME NEW t \in Thread
        PROVE  (pc[t] \in {"signal", "unlock"}) = FALSE
    BY DEF Init
  <2>2. Done = [t \in Thread |-> FALSE]
    BY <2>1, Zenon DEF Done
  <2>3. QED
    BY <2>2 DEF Init, Abs!Init, Done
<1>2. QED
  BY <1>1, StepSimulation, IndInvHolds, PTL DEF Spec, Linearizable, Abs!Spec

-----------------------------------------------------------------------------
\* What _async_queue_cond_wait computes is a full second, at most t + m and less
\* than two seconds before it.
LEMMA DeadlineBounds ==
  ASSUME NEW t \in Nat, NEW m \in Nat
  PROVE  /\ Deadline(t, m) \in Nat
         /\ Deadline(t, m) <= t + m
         /\ Deadline(t, m) + 2000 > t + m
<1>1. /\ t \div 1000 \in Nat /\ 1000 * (t \div 1000) <= t
      /\ t < 1000 * (t \div 1000) + 1000
  BY SMT
<1>2. /\ m \div 1000 \in Nat /\ 1000 * (m \div 1000) <= m
      /\ m < 1000 * (m \div 1000) + 1000
  BY SMT
<1> QED BY <1>1, <1>2 DEF Deadline

\* The types, the order of the times, and the deadline of a call that is
\* blocked: it read the clock after it was made.
TimedInv == /\ TimedTypeOK
            /\ DeadlineWindow
            /\ start <= now /\ read <= now
            /\ phase = "blocked" => start <= read

\* The variables keep their types and every blocked call with a timeout has a
\* deadline in the window, for every set of instants and timeouts and however
\* long the mutex is held: the sum asyncqueue.c:152 computes is never late from
\* where the clock was read, and never two seconds early from the call.
THEOREM DeadlineInWindow == TimedSpec => [](TimedTypeOK /\ DeadlineWindow)
<1> USE TimeAssumption DEF TimedTypeOK
<1>1. TimedInit => TimedInv
  <2>1. TimedInit => success \in BOOLEAN
    BY Zenon DEF TimedInit
  <2> QED BY <2>1 DEF TimedInit, TimedInv, DeadlineWindow
<1>2. TimedInv /\ [TimedNext]_timed => TimedInv'
  <2> SUFFICES ASSUME TimedInv, [TimedNext]_timed PROVE TimedInv'
    OBVIOUS
  <2> USE DEF TimedInv
  <2>1. now \in Nat /\ ms \in Nat
    OBVIOUS
  <2>2. ASSUME NEW m \in Timeouts, TimedCall(m) PROVE TimedInv'
    BY <2>1, <2>2 DEF TimedCall, DeadlineWindow
  <2>3. CASE TimedTake
    <3>1. success' \in BOOLEAN
      BY <2>3, Zenon DEF TimedTake, Return
    <3> QED BY <2>3, <3>1 DEF TimedTake, Return, DeadlineWindow
  <2>4. CASE TimedWait
    <3>1. /\ Deadline(now, ms) \in Nat
          /\ Deadline(now, ms) <= now + ms
          /\ Deadline(now, ms) + 2000 > now + ms
      BY ONLY <2>1, DeadlineBounds
    <3>2. IsTimed(ms) <=> ms > 0
      BY DEF IsTimed
    <3>3. TimedTypeOK'
      BY <2>1, <2>4, <3>1 DEF TimedWait
    <3>4. DeadlineWindow'
      BY <2>1, <2>4, <3>1, <3>2 DEF TimedWait, DeadlineWindow
    <3> QED BY <2>1, <2>4, <3>3, <3>4 DEF TimedWait
  <2>5. CASE PushWake
    <3>1. success' \in BOOLEAN
      BY <2>5, Zenon DEF PushWake, Return
    <3> QED BY <2>5, <3>1 DEF PushWake, Return, DeadlineWindow
  <2>6. CASE PushStore
    BY <2>6 DEF PushStore, DeadlineWindow
  <2>7. CASE Expire
    <3>1. success' \in BOOLEAN
      BY <2>7, Zenon DEF Expire, Return
    <3> QED BY <2>7, <3>1 DEF Expire, Return, DeadlineWindow
  <2>8. CASE Tick
    <3>1. now' \in Instants /\ now' \in Nat /\ now' > now
      BY <2>8 DEF Tick
    <3> QED BY <2>1, <2>8, <3>1 DEF Tick, DeadlineWindow
  <2>9. CASE UNCHANGED timed
    BY <2>9 DEF timed, DeadlineWindow
  <2> QED BY <2>2, <2>3, <2>4, <2>5, <2>6, <2>7, <2>8, <2>9 DEF TimedNext, Push
<1>3. TimedInv => TimedTypeOK /\ DeadlineWindow
  BY DEF TimedInv
<1> QED BY <1>1, <1>2, <1>3, PTL DEF TimedSpec
=============================================================================
