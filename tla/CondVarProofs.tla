--------------------------- MODULE CondVarProofs ---------------------------
(***************************************************************************)
(* Theorems about CondVar, for any number of threads, with or without      *)
(* time-outs, and any limit of the semaphore.                              *)
(***************************************************************************)
EXTENDS CondVar, FiniteSetTheorems, TLAPS

Places == {"running", "woken", "next"} \cup WaitPlaces \cup GivePlaces \cup RefusedPlaces

\* One for a place in S, so that the change of a count is a difference.
In(place, S) == IF place \in S THEN 1 ELSE 0

At(S) == {t \in Threads : pc[t] \in S}

\* A step that moves one thread changes the number of threads whose place is
\* in S by what the two places count.
LEMMA MoveCounts ==
  ASSUME TypeOK, NEW S, NEW t \in Threads, NEW from, NEW to, Goto(t, from, to)
  PROVE  /\ IsFiniteSet(At(S))
         /\ Cardinality(At(S)) \in Nat
         /\ Cardinality(At(S)') = Cardinality(At(S)) + In(to, S) - In(from, S)
<1>1. IsFiniteSet(At(S)) /\ Cardinality(At(S)) \in Nat
  BY ThreadsAssumption, FS_Subset, FS_CardinalityType DEF At
<1>2. pc[t] = from /\ pc'[t] = to /\ \A s \in Threads \ {t} : pc'[s] = pc[s]
  BY DEF Goto, TypeOK
<1>3. /\ t \in At(S) <=> from \in S
      /\ At(S)' = IF to \in S THEN At(S) \cup {t} ELSE At(S) \ {t}
  BY <1>2 DEF At
<1>4. CASE from \in S /\ to \in S
  <2>1. At(S)' = At(S)
    BY <1>3, <1>4
  <2>2. In(to, S) = 1 /\ In(from, S) = 1
    BY <1>4 DEF In
  <2>. QED BY <1>1, <2>1, <2>2
<1>5. CASE from \notin S /\ to \notin S
  <2>1. At(S)' = At(S)
    BY <1>3, <1>5
  <2>2. In(to, S) = 0 /\ In(from, S) = 0
    BY <1>5 DEF In
  <2>. QED BY <1>1, <2>1, <2>2
<1>6. CASE from \notin S /\ to \in S
  <2>1. t \notin At(S) /\ At(S)' = At(S) \cup {t}
    BY <1>3, <1>6
  <2>2. Cardinality(At(S) \cup {t}) = Cardinality(At(S)) + 1
    BY <1>1, <2>1, FS_AddElement
  <2>3. In(to, S) = 1 /\ In(from, S) = 0
    BY <1>6 DEF In
  <2>. QED BY <1>1, <2>1, <2>2, <2>3
<1>7. CASE from \in S /\ to \notin S
  <2>1. t \in At(S) /\ At(S)' = At(S) \ {t}
    BY <1>3, <1>7
  <2>2. Cardinality(At(S) \ {t}) = Cardinality(At(S)) - 1
    BY <1>1, <2>1, FS_RemoveElement
  <2>3. In(to, S) = 0 /\ In(from, S) = 1
    BY <1>7 DEF In
  <2>. QED BY <1>1, <2>1, <2>2, <2>3
<1>. QED BY <1>1, <1>4, <1>5, <1>6, <1>7

\* The same for the three counts of WaitersCounted.
LEMMA MoveWaitersAndGivers ==
  ASSUME TypeOK, NEW t \in Threads, NEW from, NEW to, Goto(t, from, to)
  PROVE  /\ Cardinality(Waiting) \in Nat /\ Cardinality(Giving) \in Nat
         /\ Cardinality(Refused) \in Nat
         /\ Cardinality(Waiting') = Cardinality(Waiting) + In(to, WaitPlaces) - In(from, WaitPlaces)
         /\ Cardinality(Giving') = Cardinality(Giving) + In(to, GivePlaces) - In(from, GivePlaces)
         /\ Cardinality(Refused')
              = Cardinality(Refused) + In(to, RefusedPlaces) - In(from, RefusedPlaces)
  BY MoveCounts DEF At, Waiting, Giving, Refused
-----------------------------------------------------------------------------
\* What makes UntimedExclude inductive: a thread without time-outs is inside
\* only while it holds the mutex, and leaves before it sleeps.
UntimedOwn ==
  \A t \in Threads \ Timed :
    /\ t \in inside => owner = t /\ pc[t] \notin {"asleep", "woken"}
    /\ pc[t] # "expired"

IInv == TypeOK /\ WaitersCounted /\ UntimedOwn

\* The invariant holds at the start.
LEMMA InitInv == Init => IInv
<1>. SUFFICES ASSUME Init PROVE IInv
  OBVIOUS
<1>1. TypeOK
  BY MaxTokensAssumption DEF Init, TypeOK
<1>2. Waiting = {} /\ Giving = {} /\ Refused = {}
  BY DEF Init, Waiting, Giving, Refused, WaitPlaces, GivePlaces, RefusedPlaces
<1>3. WaitersCounted
  BY <1>2, FS_EmptySet DEF Init, WaitersCounted
<1>4. UntimedOwn
  BY DEF Init, UntimedOwn
<1>. QED BY <1>1, <1>3, <1>4 DEF IInv

\* The steps of the mutex.
LEMMA MutexSteps ==
  ASSUME IInv, NEW t \in Threads, Lock(t) \/ Unlock(t)
  PROVE  IInv'
<1>0. Goto(t, "running", "running")
  BY DEF Lock, Unlock
<1>1. TypeOK'
  <2>1. CASE Lock(t)
    BY <2>1 DEF IInv, TypeOK, Lock, Acquire, Goto
  <2>2. CASE Unlock(t)
    <3>1. inside' \subseteq Threads /\ owner' \in Threads \cup {NoThread}
      BY <2>2 DEF IInv, TypeOK, Unlock, Release
    <3>2. pc' \in [Threads -> Places] /\ UNCHANGED <<count, tokens>>
      BY <1>0, <2>2 DEF IInv, TypeOK, Unlock, Goto, Places
    <3>. QED BY <3>1, <3>2 DEF IInv, TypeOK, Places
  <2>. QED BY <2>1, <2>2
<1>2. WaitersCounted'
  BY <1>0, MoveWaitersAndGivers DEF IInv, TypeOK, WaitersCounted, In, Lock, Unlock
<1>3. UntimedOwn'
  BY <1>0, ThreadsAssumption DEF IInv, TypeOK, UntimedOwn, Lock, Unlock, Acquire, Release, Goto
<1>. QED BY <1>1, <1>2, <1>3 DEF IInv

\* The steps of a wait.  Counting in and out move the thread and the counter
\* together; so do the token and the thread that takes it.
LEMMA WaitSteps ==
  ASSUME IInv, NEW t \in Threads, Wait(t)
  PROVE  IInv'
<1>1. TypeOK'
  <2>. USE MaxTokensAssumption DEF IInv, TypeOK, Goto, WaitPlaces
  <2>1. CASE CountIn(t)      BY <2>1 DEF CountIn
  <2>2. CASE UnlockToWait(t) BY <2>2 DEF UnlockToWait, Release
  <2>3. CASE TakeToken(t)    BY <2>3 DEF TakeToken
  <2>4. CASE LockAgain(t)    BY <2>4 DEF LockAgain, Acquire
  <2>5. CASE TimeOut(t)      BY <2>5 DEF TimeOut
  <2>6. CASE CountOut(t)     BY <2>6 DEF CountOut
  <2>. QED BY <2>1, <2>2, <2>3, <2>4, <2>5, <2>6 DEF Wait
<1>2. WaitersCounted'
  <2>0. /\ \A p \in {"running", "counted", "asleep", "expired", "woken"} :
              In(p, GivePlaces) = 0 /\ In(p, RefusedPlaces) = 0
        /\ \A p \in {"counted", "asleep", "expired"} : In(p, WaitPlaces) = 1
        /\ \A p \in {"running", "woken"} : In(p, WaitPlaces) = 0
    BY DEF In, WaitPlaces, GivePlaces, RefusedPlaces
  <2>. USE <2>0, MoveWaitersAndGivers DEF IInv, TypeOK, WaitersCounted
  <2>1. CASE CountIn(t)      BY <2>1 DEF CountIn
  <2>2. CASE UnlockToWait(t) BY <2>2 DEF UnlockToWait
  <2>3. CASE TakeToken(t)    BY <2>3 DEF TakeToken
  <2>4. CASE LockAgain(t)    BY <2>4 DEF LockAgain
  <2>5. CASE TimeOut(t)      BY <2>5 DEF TimeOut
  <2>6. CASE CountOut(t)     BY <2>6 DEF CountOut
  <2>. QED BY <2>1, <2>2, <2>3, <2>4, <2>5, <2>6 DEF Wait
<1>3. UntimedOwn'
  <2>. USE ThreadsAssumption DEF IInv, TypeOK, UntimedOwn, Goto
  <2>1. CASE CountIn(t)      BY <2>1 DEF CountIn
  <2>2. CASE UnlockToWait(t) BY <2>2 DEF UnlockToWait, Release
  <2>3. CASE TakeToken(t)    BY <2>3 DEF TakeToken
  <2>4. CASE LockAgain(t)    BY <2>4 DEF LockAgain, Acquire
  <2>5. CASE TimeOut(t)      BY <2>5 DEF TimeOut
  <2>6. CASE CountOut(t)     BY <2>6 DEF CountOut
  <2>. QED BY <2>1, <2>2, <2>3, <2>4, <2>5, <2>6 DEF Wait
<1>. QED BY <1>1, <1>2, <1>3 DEF IInv

\* The steps of signal and broadcast are instances of a few.
LEMMA GiveSteps ==
  ASSUME IInv, NEW t \in Threads, Signal(t) \/ StartBroadcast(t) \/ BroadcastRound(t)
  PROVE  IInv'
<1>1. PICK from \in Places, to \in Places :
        /\ Goto(t, from, to)
        /\ from \notin WaitPlaces /\ to \notin WaitPlaces
        /\ to \notin {"asleep", "woken", "expired"}
        /\ UNCHANGED <<inside, owner>>
        /\ \/ /\ from \notin GivePlaces \cup RefusedPlaces /\ to \notin GivePlaces \cup RefusedPlaces
              /\ UNCHANGED <<count, tokens>>
           \/ /\ from \notin GivePlaces \cup RefusedPlaces /\ to \in GivePlaces \ RefusedPlaces
              /\ count' = count - 1 /\ UNCHANGED tokens
           \/ /\ from \in GivePlaces \ RefusedPlaces /\ to \notin GivePlaces \cup RefusedPlaces
              /\ tokens < MaxTokens /\ tokens' = tokens + 1 /\ UNCHANGED count
           \/ /\ from \in GivePlaces \ RefusedPlaces /\ to \in RefusedPlaces \ GivePlaces
              /\ UNCHANGED <<count, tokens>>
           \/ /\ from \in RefusedPlaces \ GivePlaces /\ to \notin GivePlaces \cup RefusedPlaces
              /\ count' = count + 1 /\ UNCHANGED tokens
  BY DEF Signal, SignalNobody, StartBroadcast, BroadcastRound, BroadcastNobody, BroadcastFails,
         OneLess, Give, GiveFails, Undo, Places, WaitPlaces, GivePlaces, RefusedPlaces
<1>2. TypeOK'
  BY <1>1, MaxTokensAssumption DEF IInv, TypeOK, Goto, Places
<1>3. WaitersCounted'
  BY <1>1, MoveWaitersAndGivers DEF IInv, TypeOK, WaitersCounted, In
<1>4. UntimedOwn'
  BY <1>1 DEF IInv, TypeOK, UntimedOwn, Goto, WaitPlaces
<1>. QED BY <1>2, <1>3, <1>4 DEF IInv

\* A step that changes nothing.
LEMMA StutterInv == IInv /\ UNCHANGED vars => IInv'
  BY DEF IInv, TypeOK, WaitersCounted, Waiting, Giving, Refused, UntimedOwn, vars

LEMMA NextInv == IInv /\ [Next]_vars => IInv'
  BY MutexSteps, WaitSteps, GiveSteps, StutterInv DEF Next

THEOREM Invariant == Spec => []IInv
  BY InitInv, NextInv, PTL DEF Spec
-----------------------------------------------------------------------------
\* Types, and the limit of the semaphore.
THEOREM TypeCorrect == Spec => []TypeOK
  BY Invariant, PTL DEF IInv

\* pthread_cond_*: the counter and the semaphore together count the threads
\* that wait, whatever signals, broadcasts and time-outs run beside each other.
THEOREM CountIsTrue == Spec => []WaitersCounted
  BY Invariant, PTL DEF IInv

\* pthread_cond_wait: a thread that never waits with a time-out is alone in
\* the section that the mutex guards.
THEOREM UntimedAreExclusive == Spec => []UntimedExclude
<1>1. IInv => UntimedExclude
  BY DEF IInv, UntimedOwn, UntimedExclude
<1>. QED BY <1>1, Invariant, PTL

\* pthread_cond_signal, pthread_cond_broadcast: when count is 0 and no give is
\* waiting to be counted back, every thread that sleeps has a token in the
\* semaphore or in the hands of a thread that is about to give it.
THEOREM WakeupsAreKept == Spec => NoWakeupIsLost
<1>. DEFINE Asleep == {s \in Threads : pc[s] = "asleep"}
            Kept == \A t \in Threads : SignalNobody(t) \/ BroadcastNobody(t) =>
                       \/ Refused # {}
                       \/ Cardinality(Asleep) <= tokens + Cardinality(Giving)
<1>1. IInv => Kept
  <2>. SUFFICES ASSUME IInv, count = 0, Refused = {}
                PROVE  Cardinality(Asleep) <= tokens + Cardinality(Giving)
    BY DEF SignalNobody, BroadcastNobody, CountsNobody
  <2>1. Asleep \subseteq Waiting /\ IsFiniteSet(Waiting)
    BY ThreadsAssumption, FS_Subset DEF Waiting, WaitPlaces
  <2>2. Cardinality(Asleep) <= Cardinality(Waiting)
    BY <2>1, FS_Subset
  <2>3. Cardinality(Waiting) = tokens + Cardinality(Giving)
    <3>1. IsFiniteSet(Giving) /\ Cardinality(Giving) \in Nat /\ Cardinality(Refused) = 0
      BY ThreadsAssumption, FS_Subset, FS_CardinalityType, FS_EmptySet DEF Giving
    <3>. QED BY <3>1 DEF IInv, TypeOK, WaitersCounted
  <2>. QED BY <2>2, <2>3
<1>2. IInv /\ [Next]_vars => [Kept]_vars
  BY <1>1
<1>. QED BY <1>2, Invariant, PTL DEF Spec, NoWakeupIsLost

\* count stays within what the threads and the semaphore can make of it,
\* however often waits time out and signals are counted for them.
CountIsNear ==
    count \in -(MaxTokens + Cardinality(Threads)) .. Cardinality(Threads)

\* itpCondition.count: it cannot run away or overflow, although nothing ever
\* resets it and no step changes it together with the semaphore.
THEOREM CountStaysNear == Spec => []CountIsNear
<1>1. IInv => CountIsNear
  <2>. SUFFICES ASSUME IInv PROVE CountIsNear
    OBVIOUS
  <2>1. /\ Cardinality(Threads) \in Nat
        /\ Cardinality(Waiting) \in 0 .. Cardinality(Threads)
        /\ Cardinality(Giving) \in Nat /\ Cardinality(Refused) \in Nat
        /\ Cardinality(Giving) + Cardinality(Refused) <= Cardinality(Threads)
    <3>1. /\ Waiting \subseteq Threads /\ Giving \cup Refused \subseteq Threads
          /\ Giving \cap Refused = {} /\ IsFiniteSet(Threads)
      BY ThreadsAssumption DEF Waiting, Giving, Refused, GivePlaces, RefusedPlaces
    <3>2. Cardinality(Threads) \in Nat
      BY <3>1, FS_CardinalityType
    <3>3. Cardinality(Waiting) \in Nat /\ Cardinality(Waiting) <= Cardinality(Threads)
      BY <3>1, FS_Subset, FS_CardinalityType
    <3>4. /\ IsFiniteSet(Giving) /\ IsFiniteSet(Refused)
          /\ Cardinality(Giving) \in Nat /\ Cardinality(Refused) \in Nat
      BY <3>1, FS_Subset, FS_CardinalityType
    <3>5. Cardinality(Giving \cup Refused) = Cardinality(Giving) + Cardinality(Refused)
      <4>1. Cardinality(Giving \cup Refused)
              = Cardinality(Giving) + Cardinality(Refused) - Cardinality(Giving \cap Refused)
        BY <3>4, FS_Union
      <4>2. Cardinality(Giving \cap Refused) = 0
        BY <3>1, FS_EmptySet
      <4>. QED BY <3>4, <4>1, <4>2
    <3>6. Cardinality(Giving \cup Refused) <= Cardinality(Threads)
      BY <3>1, FS_Subset
    <3>. QED BY <3>2, <3>3, <3>4, <3>5, <3>6
  <2>2. /\ count \in Int /\ tokens \in 0 .. MaxTokens /\ MaxTokens \in Nat
        /\ Cardinality(Waiting)
             = count + tokens + Cardinality(Giving) + Cardinality(Refused)
    BY MaxTokensAssumption DEF IInv, TypeOK, WaitersCounted
  <2>. QED BY <2>1, <2>2 DEF CountIsNear
<1>. QED BY <1>1, Invariant, PTL
=============================================================================
