------------------------------ MODULE CondVar ------------------------------
(***************************************************************************)
(* Condition variables as itp_posix_openrtos.c builds them on a FreeRTOS   *)
(* counting semaphore, with the recursive mutex that guards the condition. *)
(* One mutex, one condition variable, and threads that lock, wait, signal, *)
(* broadcast and unlock in any order that ithread.h allows.                *)
(*                                                                         *)
(* count is what signal and broadcast look at, tokens the semaphore that   *)
(* the waiting threads take.  The two are never changed together: a thread *)
(* adds itself to count before it gives up the mutex, a signal takes one   *)
(* from count before it gives the token, and a time-out takes one from     *)
(* count after it has left the semaphore.                                  *)
(***************************************************************************)
EXTENDS Integers, FiniteSets

CONSTANTS
    Threads,
    Timed,      \* the threads that call pthread_cond_timedwait
    MaxTokens,  \* most tokens of itpCondition.xSemaphore (32)
    NoThread

ASSUME ThreadsAssumption ==
    /\ IsFiniteSet(Threads)
    /\ Timed \subseteq Threads
    /\ NoThread \notin Threads
ASSUME MaxTokensAssumption == MaxTokens \in Nat \ {0}

VARIABLES
    pc,         \* [Threads -> place in the calls below, or "running"]
    inside,     \* threads whose program believes that it holds the mutex
    owner,      \* the holder of the mutex, or NoThread
    count,      \* itpCondition.count
    tokens      \* value of itpCondition.xSemaphore

vars == <<pc, inside, owner, count, tokens>>

WaitPlaces == {"counted", "asleep", "expired"}
GivePlaces == {"give", "giveNext"}
RefusedPlaces == {"refused", "refusedNext"}

\* The threads that count has to account for, those that are about to give a
\* token, and those whose give was refused and is not counted back yet.
Waiting == {t \in Threads : pc[t] \in WaitPlaces}
Giving  == {t \in Threads : pc[t] \in GivePlaces}
Refused == {t \in Threads : pc[t] \in RefusedPlaces}

Goto(t, from, to) == pc[t] = from /\ pc' = [pc EXCEPT ![t] = to]

Init ==
    /\ pc = [t \in Threads |-> "running"]
    /\ inside = {}
    /\ owner = NoThread
    /\ count = 0
    /\ tokens = 0
-----------------------------------------------------------------------------
(***************************************************************************)
(* The mutex, held once.  A recursive give by a thread that does not hold  *)
(* it changes nothing, and pthread_mutex_unlock returns 0 all the same.    *)
(***************************************************************************)
Acquire(t) ==
    /\ owner = NoThread
    /\ owner' = t
    /\ inside' = inside \cup {t}

Release(t) ==
    /\ owner' = IF owner = t THEN NoThread ELSE owner
    /\ inside' = inside \ {t}

Lock(t) ==
    /\ Goto(t, "running", "running")
    /\ t \notin inside
    /\ Acquire(t)
    /\ UNCHANGED <<count, tokens>>

Unlock(t) ==
    /\ Goto(t, "running", "running")
    /\ t \in inside
    /\ Release(t)
    /\ UNCHANGED <<count, tokens>>
-----------------------------------------------------------------------------
(***************************************************************************)
(* pthread_cond_wait and pthread_cond_timedwait.                           *)
(***************************************************************************)
CountIn(t) ==
    /\ Goto(t, "running", "counted")
    /\ t \in inside
    /\ count' = count + 1
    /\ UNCHANGED <<inside, owner, tokens>>

UnlockToWait(t) ==
    /\ Goto(t, "counted", "asleep")
    /\ Release(t)
    /\ UNCHANGED <<count, tokens>>

\* Slip: whoever takes a token also counts itself out, as after a time-out.
TakeTokenCountsOut(t) ==
    /\ Goto(t, "asleep", "woken")
    /\ tokens > 0
    /\ tokens' = tokens - 1
    /\ count' = count - 1
    /\ UNCHANGED <<inside, owner>>

\* Slip: the mutex is not taken again.
TakeTokenUnlocked(t) ==
    /\ Goto(t, "asleep", "running")
    /\ tokens > 0
    /\ tokens' = tokens - 1
    /\ inside' = inside \cup {t}
    /\ UNCHANGED <<owner, count>>

\* The semaphore holds its tokens: a thread that comes late may take one
\* before the thread that was woken for it runs.
TakeToken(t) ==
    /\ Goto(t, "asleep", "woken")
    /\ tokens > 0
    /\ tokens' = tokens - 1
    /\ UNCHANGED <<inside, owner, count>>

LockAgain(t) ==
    /\ Goto(t, "woken", "running")
    /\ Acquire(t)
    /\ UNCHANGED <<count, tokens>>

\* xQueueSemaphoreTake looks at the tokens once more when the time is over.
TimeOut(t) ==
    /\ Goto(t, "asleep", "expired")
    /\ t \in Timed
    /\ tokens = 0
    /\ UNCHANGED <<inside, owner, count, tokens>>

\* Slip: a wait that timed out stays in the count.
CountOutForgotten(t) ==
    /\ Goto(t, "expired", "running")
    /\ inside' = inside \cup {t}
    /\ UNCHANGED <<owner, count, tokens>>

\* ETIMEDOUT is returned without the mutex; the program goes on as after any
\* other return.
CountOut(t) ==
    /\ Goto(t, "expired", "running")
    /\ count' = count - 1
    /\ inside' = inside \cup {t}
    /\ UNCHANGED <<owner, tokens>>
-----------------------------------------------------------------------------
(***************************************************************************)
(* pthread_cond_signal and pthread_cond_broadcast: test and count-- in one *)
(* critical section, the give after it.                                    *)
(***************************************************************************)
\* Slip: the last thread that waits is overlooked.
CountsNobodyButOne == count <= 1

CountsNobody == count = 0

OneLess(t, from, to) ==
    /\ Goto(t, from, to)
    /\ ~CountsNobody
    /\ count' = count - 1
    /\ UNCHANGED <<inside, owner, tokens>>

\* Slip: the semaphore is made without a limit.
GiveUnlimited(t, from, to) ==
    /\ Goto(t, from, to)
    /\ tokens' = tokens + 1
    /\ UNCHANGED <<inside, owner, count>>

Give(t, from, to) ==
    /\ Goto(t, from, to)
    /\ tokens < MaxTokens
    /\ tokens' = tokens + 1
    /\ UNCHANGED <<inside, owner, count>>

GiveFails(t, from, to) ==
    /\ Goto(t, from, to)
    /\ tokens = MaxTokens
    /\ UNCHANGED <<inside, owner, count, tokens>>

Undo(t, from) ==
    /\ Goto(t, from, "running")
    /\ count' = count + 1
    /\ UNCHANGED <<inside, owner, tokens>>

SignalNobody(t) ==
    /\ Goto(t, "running", "running")
    /\ CountsNobody
    /\ UNCHANGED <<inside, owner, count, tokens>>

\* A signal may come with or without the mutex.
Signal(t) ==
    \/ SignalNobody(t)
    \/ OneLess(t, "running", "give")
    \/ Give(t, "give", "running")
    \/ GiveFails(t, "give", "refused")
    \/ Undo(t, "refused")

StartBroadcast(t) ==
    /\ Goto(t, "running", "next")
    /\ UNCHANGED <<inside, owner, count, tokens>>

BroadcastNobody(t) ==
    /\ Goto(t, "next", "running")
    /\ CountsNobody
    /\ UNCHANGED <<inside, owner, count, tokens>>

\* Slip: a token that is refused is tried again instead of EINVAL.
UndoAndGoOn(t) ==
    /\ Goto(t, "refusedNext", "next")
    /\ count' = count + 1
    /\ UNCHANGED <<inside, owner, tokens>>

BroadcastFails(t) == Undo(t, "refusedNext")

BroadcastRound(t) ==
    \/ BroadcastNobody(t)
    \/ OneLess(t, "next", "giveNext")
    \/ Give(t, "giveNext", "next")
    \/ GiveFails(t, "giveNext", "refusedNext")
    \/ BroadcastFails(t)
-----------------------------------------------------------------------------
Wait(t) == \/ CountIn(t) \/ UnlockToWait(t) \/ TakeToken(t) \/ LockAgain(t)
           \/ TimeOut(t) \/ CountOut(t)

Next == \E t \in Threads :
    \/ Lock(t) \/ Unlock(t) \/ Wait(t)
    \/ Signal(t) \/ StartBroadcast(t) \/ BroadcastRound(t)

Spec == Init /\ [][Next]_vars

\* A call that was begun goes on; the program need not make another one.  The
\* time of a time-out need not run out.
Fairness == \A t \in Threads :
    /\ WF_vars(UnlockToWait(t) \/ CountOut(t) \/ TakeToken(t))
    /\ WF_vars(pc[t] # "running" /\ (Signal(t) \/ BroadcastRound(t)))

FairSpec == Spec /\ Fairness
-----------------------------------------------------------------------------
(***************************************************************************)
(* Properties.                                                             *)
(***************************************************************************)
\* Every variable has its type.
TypeOK ==
    /\ pc \in [Threads -> {"running", "woken", "next"} \cup WaitPlaces
                            \cup GivePlaces \cup RefusedPlaces]
    /\ inside \subseteq Threads
    /\ owner \in Threads \cup {NoThread}
    /\ count \in Int
    /\ tokens \in 0 .. MaxTokens

\* Whoever waits is in count, or has a token in the semaphore or under way, or
\* is owed a count++ for a give that was refused: count and semaphore, which no
\* step changes together, never drift apart, although a signal may be counted
\* for a thread that has just timed out.
WaitersCounted ==
    Cardinality(Waiting) = count + tokens + Cardinality(Giving) + Cardinality(Refused)

\* A signal or a broadcast that stops because count is 0 leaves every sleeping
\* thread a token, in the semaphore or in the hands of a thread that is about
\* to give it.  It may leave one without while another thread, whose give the
\* full semaphore refused, has not counted it back yet.
NoWakeupIsLost ==
    [][\A t \in Threads : SignalNobody(t) \/ BroadcastNobody(t) =>
          \/ Refused # {}
          \/ Cardinality({s \in Threads : pc[s] = "asleep"}) <= tokens + Cardinality(Giving)]_vars

\* Threads that do not use pthread_cond_timedwait exclude each other, also
\* when others do.
UntimedExclude ==
    \A t \in Threads \ Timed : pc[t] = "running" /\ t \in inside => owner = t

\* Once nobody is left to be counted, a sleeping thread wakes up, unless count
\* leaves 0: for a thread that waits later and may take the token, for a wait
\* that times out, or for a give that was refused and is counted back.
SleepersWake ==
    \A t \in Threads : pc[t] = "asleep" /\ count = 0 ~> pc[t] # "asleep" \/ count # 0

\* A broadcast under the mutex (sdk/include/upnp/ithread.h:666: "Associated
\* mutex MUST be locked") returns, although count may be negative
\* and never meet 0: the semaphore refuses in the end.
BroadcastReturns ==
    \A t \in Threads \ Timed : pc[t] = "next" /\ owner = t ~> pc[t] = "running"
=============================================================================
