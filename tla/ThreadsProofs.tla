--------------------------- MODULE ThreadsProofs ---------------------------
(***************************************************************************)
(* Theorems about Threads, for any number of threads and any values.       *)
(***************************************************************************)
EXTENDS Threads, TLAPS

\* A joinable thread that its user can still join has not been given back.
Joined(x) ==
    /\ user[x] \in {"creating", "holds", "joining"} /\ detachstate[x] = "JOINABLE" =>
         task[x] \notin {"none", "freeing", "deleting", "deleted"} /\ block[x] = "allocated"
    /\ user[x] \in {"holds", "joining", "reading", "freeing", "deleting"} =>
         detachstate[x] = "JOINABLE"
    /\ user[x] \in {"detaching", "clearing"} => detachstate[x] = "DETACHED"

\* From the semaphore to the end of pthread_join the thread has parked.
Taken(x) ==
    /\ xSemaphore[x] = "full" => task[x] = "parked"
    /\ user[x] \in {"reading", "freeing", "deleting"} =>
         task[x] = "parked" /\ xSemaphore[x] # "full"
    /\ user[x] \in {"reading", "freeing"} => block[x] = "allocated"

\* Only a detached thread frees its own block, and it uses the block no more.
Owned(x) ==
    /\ TaskUsesBlock(x) => block[x] = "allocated"
    /\ task[x] \in {"freeing", "deleting", "deleted"} => detachstate[x] = "DETACHED"

\* What the start routine returned is in the block from then on.
Valued(x) ==
    task[x] \in {"returned", "giving", "parked"} =>
        returned[x] \in Values /\ value_ptr[x] = returned[x]

\* A thread whose semaphore is gone is detached.
Deleted(x) ==
    task[x] # "none" /\ xSemaphore[x] \in {"NULL", "deleted"} => detachstate[x] = "DETACHED"

OnlyDetachCorrupts == corrupted => \E x \in Threads : detachstate[x] = "DETACHED"

IInv == /\ TypeOK
        /\ \A x \in Threads : Joined(x) /\ Taken(x) /\ Owned(x) /\ Valued(x) /\ Deleted(x)
        /\ OnlyDetachCorrupts

\* The invariant holds at the start.
LEMMA InitInv == ASSUME Init PROVE IInv
<1>1. TypeOK
  BY DEF Init, TypeOK
<1>2. \A x \in Threads : Joined(x) /\ Taken(x) /\ Owned(x) /\ Valued(x) /\ Deleted(x)
  BY DEF Init, Joined, Taken, Owned, Valued, Deleted, TaskUsesBlock
<1>3. OnlyDetachCorrupts
  BY DEF Init, OnlyDetachCorrupts
<1>. QED BY <1>1, <1>2, <1>3 DEF IInv

\* What a step of thread x leaves to be shown: its own entries.
LEMMA OthersKeep ==
  ASSUME IInv, TypeOK', NEW x \in Threads,
         \A y \in Threads \ {x} :
            /\ task'[y] = task[y] /\ user'[y] = user[y] /\ block'[y] = block[y]
            /\ detachstate'[y] = detachstate[y] /\ xSemaphore'[y] = xSemaphore[y]
            /\ value_ptr'[y] = value_ptr[y] /\ returned'[y] = returned[y],
         (Joined(x) /\ Taken(x) /\ Owned(x) /\ Valued(x) /\ Deleted(x))',
         ~corrupted, corrupted' => detachstate'[x] = "DETACHED"
  PROVE  IInv'
  BY DEF OnlyDetachCorrupts, IInv, Joined, Taken, Owned, Valued, Deleted, TaskUsesBlock

\* itpPthreadCreate.
LEMMA CreateSteps ==
  ASSUME IInv, NEW x \in Threads,
         \/ CreateTask(x, "JOINABLE")
         \/ CreateTask(x, "DETACHED")
         \/ SetHandle(x)
  PROVE  IInv'
<1>. USE DEF TaskGoes, UserGoes, Free, UsesBlock, blockVars
<1>1. CASE CreateTask(x, "JOINABLE")
  <2>1. TypeOK'
    BY <1>1, ValuesAssumption DEF IInv, TypeOK, CreateTask
  <2>2. (Joined(x) /\ Taken(x) /\ Owned(x) /\ Valued(x) /\ Deleted(x))'
    BY <1>1 DEF IInv, TypeOK, Joined, Taken, Owned, Valued, Deleted, TaskUsesBlock, CreateTask
  <2>. QED BY <1>1, <2>1, <2>2, OthersKeep DEF IInv, TypeOK, CreateTask
<1>2. CASE CreateTask(x, "DETACHED")
  <2>1. TypeOK'
    BY <1>2, ValuesAssumption DEF IInv, TypeOK, CreateTask
  <2>2. (Joined(x) /\ Taken(x) /\ Owned(x) /\ Valued(x) /\ Deleted(x))'
    BY <1>2 DEF IInv, TypeOK, Joined, Taken, Owned, Valued, Deleted, TaskUsesBlock, CreateTask
  <2>. QED BY <1>2, <2>1, <2>2, OthersKeep DEF IInv, TypeOK, CreateTask
<1>3. CASE SetHandle(x)
  <2>1. TypeOK'
    BY <1>3, ValuesAssumption DEF IInv, TypeOK, SetHandle
  <2>2. (Joined(x) /\ Taken(x) /\ Owned(x) /\ Valued(x) /\ Deleted(x))'
    BY <1>3 DEF IInv, TypeOK, Joined, Taken, Owned, Valued, Deleted, TaskUsesBlock, SetHandle
  <2>3. corrupted' => detachstate'[x] = "DETACHED"
    BY <1>3 DEF IInv, TypeOK, Joined, Owned, Deleted, TaskUsesBlock, SetHandle
  <2>. QED BY <1>3, <2>1, <2>2, <2>3, OthersKeep DEF IInv, TypeOK, SetHandle
<1>. QED BY <1>1, <1>2, <1>3

\* vTaskCode and the idle task.
LEMMA TaskSteps ==
  ASSUME IInv, NEW x \in Threads,
         \/ Start(x)
         \/ Return(x)
         \/ TestDetachState(x)
         \/ Give(x)
         \/ FreeOwn(x)
         \/ DeleteOwn(x)
         \/ CleanUp(x)
  PROVE  IInv'
<1>. USE DEF TaskGoes, UserGoes, Free, UsesBlock, blockVars
<1>1. CASE Start(x)
  <2>1. TypeOK'
    BY <1>1, ValuesAssumption DEF IInv, TypeOK, Start
  <2>2. (Joined(x) /\ Taken(x) /\ Owned(x) /\ Valued(x) /\ Deleted(x))'
    BY <1>1 DEF IInv, TypeOK, Joined, Taken, Owned, Valued, Deleted, TaskUsesBlock, Start
  <2>. QED BY <1>1, <2>1, <2>2, OthersKeep DEF IInv, TypeOK, Start
<1>2. CASE Return(x)
  <2>1. TypeOK'
    BY <1>2, ValuesAssumption DEF IInv, TypeOK, Return
  <2>2. (Joined(x) /\ Taken(x) /\ Owned(x) /\ Valued(x) /\ Deleted(x))'
    BY <1>2 DEF IInv, TypeOK, Joined, Taken, Owned, Valued, Deleted, TaskUsesBlock, Return
  <2>. QED BY <1>2, <2>1, <2>2, OthersKeep DEF IInv, TypeOK, Return
<1>3. CASE TestDetachState(x)
  <2>1. TypeOK'
    BY <1>3, ValuesAssumption DEF IInv, TypeOK, TestDetachState
  <2>2. (Joined(x) /\ Taken(x) /\ Owned(x) /\ Valued(x) /\ Deleted(x))'
    BY <1>3 DEF IInv, TypeOK, Joined, Taken, Owned, Valued, Deleted, TaskUsesBlock, TestDetachState
  <2>. QED BY <1>3, <2>1, <2>2, OthersKeep DEF IInv, TypeOK, TestDetachState
<1>4. CASE Give(x)
  <2>1. TypeOK'
    BY <1>4, ValuesAssumption DEF IInv, TypeOK, Give
  <2>2. (Joined(x) /\ Taken(x) /\ Owned(x) /\ Valued(x) /\ Deleted(x))'
    BY <1>4 DEF IInv, TypeOK, Joined, Taken, Owned, Valued, Deleted, TaskUsesBlock, Give
  <2>3. corrupted' => detachstate'[x] = "DETACHED"
    BY <1>4 DEF IInv, TypeOK, Joined, Owned, Deleted, TaskUsesBlock, Give
  <2>. QED BY <1>4, <2>1, <2>2, <2>3, OthersKeep DEF IInv, TypeOK, Give
<1>5. CASE FreeOwn(x)
  <2>1. TypeOK'
    BY <1>5, ValuesAssumption DEF IInv, TypeOK, FreeOwn
  <2>2. (Joined(x) /\ Taken(x) /\ Owned(x) /\ Valued(x) /\ Deleted(x))'
    BY <1>5 DEF IInv, TypeOK, Joined, Taken, Owned, Valued, Deleted, TaskUsesBlock, FreeOwn
  <2>. QED BY <1>5, <2>1, <2>2, OthersKeep DEF IInv, TypeOK, FreeOwn
<1>6. CASE DeleteOwn(x)
  <2>1. TypeOK'
    BY <1>6, ValuesAssumption DEF IInv, TypeOK, DeleteOwn
  <2>2. (Joined(x) /\ Taken(x) /\ Owned(x) /\ Valued(x) /\ Deleted(x))'
    BY <1>6 DEF IInv, TypeOK, Joined, Taken, Owned, Valued, Deleted, TaskUsesBlock, DeleteOwn
  <2>. QED BY <1>6, <2>1, <2>2, OthersKeep DEF IInv, TypeOK, DeleteOwn
<1>7. CASE CleanUp(x)
  <2>1. TypeOK'
    BY <1>7, ValuesAssumption DEF IInv, TypeOK, CleanUp
  <2>2. (Joined(x) /\ Taken(x) /\ Owned(x) /\ Valued(x) /\ Deleted(x))'
    BY <1>7 DEF IInv, TypeOK, Joined, Taken, Owned, Valued, Deleted, TaskUsesBlock, CleanUp
  <2>. QED BY <1>7, <2>1, <2>2, OthersKeep DEF IInv, TypeOK, CleanUp
<1>. QED BY <1>1, <1>2, <1>3, <1>4, <1>5, <1>6, <1>7

\* pthread_join and pthread_detach.
LEMMA UserSteps ==
  ASSUME IInv, NEW x \in Threads,
         \/ Join(x)
         \/ TakeSemaphore(x)
         \/ ReadValue(x)
         \/ FreeJoined(x)
         \/ DeleteJoined(x)
         \/ Detach(x)
         \/ DeleteSemaphore(x)
         \/ ClearSemaphore(x)
  PROVE  IInv'
<1>. USE DEF TaskGoes, UserGoes, Free, UsesBlock, blockVars
<1>1. CASE Join(x)
  <2>1. TypeOK'
    BY <1>1, ValuesAssumption DEF IInv, TypeOK, Join
  <2>2. (Joined(x) /\ Taken(x) /\ Owned(x) /\ Valued(x) /\ Deleted(x))'
    BY <1>1 DEF IInv, TypeOK, Joined, Taken, Owned, Valued, Deleted, TaskUsesBlock, Join
  <2>. QED BY <1>1, <2>1, <2>2, OthersKeep DEF IInv, TypeOK, Join
<1>2. CASE TakeSemaphore(x)
  <2>1. TypeOK'
    BY <1>2, ValuesAssumption DEF IInv, TypeOK, TakeSemaphore
  <2>2. (Joined(x) /\ Taken(x) /\ Owned(x) /\ Valued(x) /\ Deleted(x))'
    BY <1>2 DEF IInv, TypeOK, Joined, Taken, Owned, Valued, Deleted, TaskUsesBlock, TakeSemaphore
  <2>. QED BY <1>2, <2>1, <2>2, OthersKeep DEF IInv, TypeOK, TakeSemaphore
<1>3. CASE ReadValue(x)
  <2>1. TypeOK'
    BY <1>3, ValuesAssumption DEF IInv, TypeOK, ReadValue
  <2>2. (Joined(x) /\ Taken(x) /\ Owned(x) /\ Valued(x) /\ Deleted(x))'
    BY <1>3 DEF IInv, TypeOK, Joined, Taken, Owned, Valued, Deleted, TaskUsesBlock, ReadValue
  <2>. QED BY <1>3, <2>1, <2>2, OthersKeep DEF IInv, TypeOK, ReadValue
<1>4. CASE FreeJoined(x)
  <2>1. TypeOK'
    BY <1>4, ValuesAssumption DEF IInv, TypeOK, FreeJoined
  <2>2. (Joined(x) /\ Taken(x) /\ Owned(x) /\ Valued(x) /\ Deleted(x))'
    BY <1>4 DEF IInv, TypeOK, Joined, Taken, Owned, Valued, Deleted, TaskUsesBlock, FreeJoined
  <2>. QED BY <1>4, <2>1, <2>2, OthersKeep DEF IInv, TypeOK, FreeJoined
<1>5. CASE DeleteJoined(x)
  <2>1. TypeOK'
    BY <1>5, ValuesAssumption DEF IInv, TypeOK, DeleteJoined
  <2>2. (Joined(x) /\ Taken(x) /\ Owned(x) /\ Valued(x) /\ Deleted(x))'
    BY <1>5 DEF IInv, TypeOK, Joined, Taken, Owned, Valued, Deleted, TaskUsesBlock, DeleteJoined
  <2>. QED BY <1>5, <2>1, <2>2, OthersKeep DEF IInv, TypeOK, DeleteJoined
<1>6. CASE Detach(x)
  <2>1. TypeOK'
    BY <1>6, ValuesAssumption DEF IInv, TypeOK, Detach
  <2>2. (Joined(x) /\ Taken(x) /\ Owned(x) /\ Valued(x) /\ Deleted(x))'
    BY <1>6 DEF IInv, TypeOK, Joined, Taken, Owned, Valued, Deleted, TaskUsesBlock, Detach
  <2>. QED BY <1>6, <2>1, <2>2, OthersKeep DEF IInv, TypeOK, Detach
<1>7. CASE DeleteSemaphore(x)
  <2>1. TypeOK'
    BY <1>7, ValuesAssumption DEF IInv, TypeOK, DeleteSemaphore
  <2>2. (Joined(x) /\ Taken(x) /\ Owned(x) /\ Valued(x) /\ Deleted(x))'
    BY <1>7 DEF IInv, TypeOK, Joined, Taken, Owned, Valued, Deleted, TaskUsesBlock, DeleteSemaphore
  <2>3. corrupted' => detachstate'[x] = "DETACHED"
    BY <1>7 DEF IInv, TypeOK, Joined, Owned, Deleted, TaskUsesBlock, DeleteSemaphore
  <2>. QED BY <1>7, <2>1, <2>2, <2>3, OthersKeep DEF IInv, TypeOK, DeleteSemaphore
<1>8. CASE ClearSemaphore(x)
  <2>1. TypeOK'
    BY <1>8, ValuesAssumption DEF IInv, TypeOK, ClearSemaphore
  <2>2. (Joined(x) /\ Taken(x) /\ Owned(x) /\ Valued(x) /\ Deleted(x))'
    BY <1>8 DEF IInv, TypeOK, Joined, Taken, Owned, Valued, Deleted, TaskUsesBlock, ClearSemaphore
  <2>3. corrupted' => detachstate'[x] = "DETACHED"
    BY <1>8 DEF IInv, TypeOK, Joined, Owned, Deleted, TaskUsesBlock, ClearSemaphore
  <2>. QED BY <1>8, <2>1, <2>2, <2>3, OthersKeep DEF IInv, TypeOK, ClearSemaphore
<1>. QED BY <1>1, <1>2, <1>3, <1>4, <1>5, <1>6, <1>7, <1>8

\* A step that changes nothing.
LEMMA StutterInv == IInv /\ UNCHANGED vars => IInv'
  BY DEF IInv, TypeOK, Joined, Taken, Owned, Valued, Deleted, OnlyDetachCorrupts, TaskUsesBlock,
         vars, blockVars

LEMMA NextInv == IInv /\ [Next]_vars => IInv'
<1>1. ASSUME IInv, NEW x \in Threads,
             Create(x) \/ Start(x) \/ Return(x) \/ Ends(x) \/ CleanUp(x)
               \/ Join(x) \/ Detach(x) \/ Call(x)
      PROVE  IInv'
  BY <1>1, CreateSteps, TaskSteps, UserSteps DEF Create, Ends, Call
<1>. QED BY <1>1, StutterInv DEF Next

THEOREM Invariant == Spec => []IInv
  BY InitInv, NextInv, PTL DEF Spec
-----------------------------------------------------------------------------
\* Every variable of Threads has its type.
THEOREM TypeCorrect == Spec => []TypeOK
  BY Invariant, PTL DEF IInv

\* vTaskCode, pthread_join, pthread_detach: whichever of a thread and its joiner
\* runs first, neither touches the control block once it is freed, nor does a
\* detached thread.  Those who create a detached thread or detach one may: where
\* memory is touched too late, a thread is detached.
THEOREM BlockOutlivesItsUses == Spec => []BlockIsThere
<1>1. IInv => BlockIsThere
  BY DEF IInv, TypeOK, Joined, Taken, Owned, OnlyDetachCorrupts, BlockIsThere, UserUsesBlock
<1>. QED BY <1>1, Invariant, PTL

\* pthread_join: the value it reads is the one this thread's start routine returned.
THEOREM JoinIsRight == Spec => []JoinGetsValue
<1>1. IInv => JoinGetsValue
  BY DEF IInv, Taken, Valued, JoinGetsValue
<1>. QED BY <1>1, Invariant, PTL
-----------------------------------------------------------------------------
\* While its user has not taken the semaphore of a joinable thread, it has one
\* token when the thread has parked and none before.
Signalled(x) ==
    user[x] \in {"creating", "holds", "joining"} /\ detachstate[x] = "JOINABLE" =>
        xSemaphore[x] = IF task[x] = "parked" THEN "full" ELSE "empty"

\* A control block is there no longer than its task, nor is it freed twice:
\* whoever deletes the task has freed the block before.
Released(x) ==
    /\ user[x] = "freeing" \/ task[x] = "freeing" => block[x] = "allocated"
    /\ user[x] = "deleting" \/ task[x] \in {"none", "deleting", "deleted"} =>
         block[x] # "allocated"

EndInv == \A x \in Threads : Signalled(x) /\ Released(x)

LEMMA InitEnds == Init => EndInv
  BY DEF Init, EndInv, Signalled, Released

\* What a step of thread x leaves to be shown.
LEMMA OthersEnd ==
  ASSUME EndInv, NEW x \in Threads,
         \A y \in Threads \ {x} :
            /\ task'[y] = task[y] /\ user'[y] = user[y] /\ block'[y] = block[y]
            /\ detachstate'[y] = detachstate[y] /\ xSemaphore'[y] = xSemaphore[y],
         (Signalled(x) /\ Released(x))'
  PROVE  EndInv'
  BY DEF EndInv, Signalled, Released

\* itpPthreadCreate.
LEMMA NewEnds ==
  ASSUME IInv, EndInv, NEW x \in Threads,
         \/ CreateTask(x, "JOINABLE")
         \/ CreateTask(x, "DETACHED")
         \/ SetHandle(x)
  PROVE  EndInv'
<1>. USE DEF TaskGoes, UserGoes, Free, UsesBlock, blockVars
<1>1. CASE CreateTask(x, "JOINABLE")
  <2>1. (Signalled(x) /\ Released(x))'
    BY <1>1 DEF IInv, TypeOK, EndInv, Joined, Taken, Owned, Signalled, Released, CreateTask
  <2>. QED BY <1>1, <2>1, OthersEnd DEF IInv, TypeOK, CreateTask
<1>2. CASE CreateTask(x, "DETACHED")
  <2>1. (Signalled(x) /\ Released(x))'
    BY <1>2 DEF IInv, TypeOK, EndInv, Joined, Taken, Owned, Signalled, Released, CreateTask
  <2>. QED BY <1>2, <2>1, OthersEnd DEF IInv, TypeOK, CreateTask
<1>3. CASE SetHandle(x)
  <2>1. (Signalled(x) /\ Released(x))'
    BY <1>3 DEF IInv, TypeOK, EndInv, Joined, Taken, Owned, Signalled, Released, SetHandle
  <2>. QED BY <1>3, <2>1, OthersEnd DEF IInv, TypeOK, SetHandle
<1>. QED BY <1>1, <1>2, <1>3

\* vTaskCode and the idle task.
LEMMA TaskEnds ==
  ASSUME IInv, EndInv, NEW x \in Threads,
         \/ Start(x)
         \/ Return(x)
         \/ TestDetachState(x)
         \/ Give(x)
         \/ FreeOwn(x)
         \/ DeleteOwn(x)
         \/ CleanUp(x)
  PROVE  EndInv'
<1>. USE DEF TaskGoes, UserGoes, Free, UsesBlock, blockVars
<1>1. CASE Start(x)
  <2>1. (Signalled(x) /\ Released(x))'
    BY <1>1 DEF IInv, TypeOK, EndInv, Joined, Taken, Owned, Signalled, Released, Start
  <2>. QED BY <1>1, <2>1, OthersEnd DEF IInv, TypeOK, Start
<1>2. CASE Return(x)
  <2>1. (Signalled(x) /\ Released(x))'
    BY <1>2 DEF IInv, TypeOK, EndInv, Joined, Taken, Owned, Signalled, Released, Return
  <2>. QED BY <1>2, <2>1, OthersEnd DEF IInv, TypeOK, Return
<1>3. CASE TestDetachState(x)
  <2>1. (Signalled(x) /\ Released(x))'
    BY <1>3 DEF IInv, TypeOK, EndInv, Joined, Taken, Owned, TaskUsesBlock, Signalled, Released, TestDetachState
  <2>. QED BY <1>3, <2>1, OthersEnd DEF IInv, TypeOK, TestDetachState
<1>4. CASE Give(x)
  <2>1. (Signalled(x) /\ Released(x))'
    BY <1>4 DEF IInv, TypeOK, EndInv, Joined, Taken, Owned, Signalled, Released, Give
  <2>. QED BY <1>4, <2>1, OthersEnd DEF IInv, TypeOK, Give
<1>5. CASE FreeOwn(x)
  <2>1. (Signalled(x) /\ Released(x))'
    BY <1>5 DEF IInv, TypeOK, EndInv, Joined, Taken, Owned, Signalled, Released, FreeOwn
  <2>. QED BY <1>5, <2>1, OthersEnd DEF IInv, TypeOK, FreeOwn
<1>6. CASE DeleteOwn(x)
  <2>1. (Signalled(x) /\ Released(x))'
    BY <1>6 DEF IInv, TypeOK, EndInv, Joined, Taken, Owned, Signalled, Released, DeleteOwn
  <2>. QED BY <1>6, <2>1, OthersEnd DEF IInv, TypeOK, DeleteOwn
<1>7. CASE CleanUp(x)
  <2>1. (Signalled(x) /\ Released(x))'
    BY <1>7 DEF IInv, TypeOK, EndInv, Joined, Taken, Owned, Signalled, Released, CleanUp
  <2>. QED BY <1>7, <2>1, OthersEnd DEF IInv, TypeOK, CleanUp
<1>. QED BY <1>1, <1>2, <1>3, <1>4, <1>5, <1>6, <1>7

\* pthread_join and pthread_detach.
LEMMA UserEnds ==
  ASSUME IInv, EndInv, NEW x \in Threads,
         \/ Join(x)
         \/ TakeSemaphore(x)
         \/ ReadValue(x)
         \/ FreeJoined(x)
         \/ DeleteJoined(x)
         \/ Detach(x)
         \/ DeleteSemaphore(x)
         \/ ClearSemaphore(x)
  PROVE  EndInv'
<1>. USE DEF TaskGoes, UserGoes, Free, UsesBlock, blockVars
<1>1. CASE Join(x)
  <2>1. (Signalled(x) /\ Released(x))'
    BY <1>1 DEF IInv, TypeOK, EndInv, Joined, Taken, Owned, Signalled, Released, Join
  <2>. QED BY <1>1, <2>1, OthersEnd DEF IInv, TypeOK, Join
<1>2. CASE TakeSemaphore(x)
  <2>1. (Signalled(x) /\ Released(x))'
    BY <1>2 DEF IInv, TypeOK, EndInv, Joined, Taken, Owned, Signalled, Released, TakeSemaphore
  <2>. QED BY <1>2, <2>1, OthersEnd DEF IInv, TypeOK, TakeSemaphore
<1>3. CASE ReadValue(x)
  <2>1. (Signalled(x) /\ Released(x))'
    BY <1>3 DEF IInv, TypeOK, EndInv, Joined, Taken, Owned, Signalled, Released, ReadValue
  <2>. QED BY <1>3, <2>1, OthersEnd DEF IInv, TypeOK, ReadValue
<1>4. CASE FreeJoined(x)
  <2>1. (Signalled(x) /\ Released(x))'
    BY <1>4 DEF IInv, TypeOK, EndInv, Joined, Taken, Owned, Signalled, Released, FreeJoined
  <2>. QED BY <1>4, <2>1, OthersEnd DEF IInv, TypeOK, FreeJoined
<1>5. CASE DeleteJoined(x)
  <2>1. (Signalled(x) /\ Released(x))'
    BY <1>5 DEF IInv, TypeOK, EndInv, Joined, Taken, Owned, Signalled, Released, DeleteJoined
  <2>. QED BY <1>5, <2>1, OthersEnd DEF IInv, TypeOK, DeleteJoined
<1>6. CASE Detach(x)
  <2>1. (Signalled(x) /\ Released(x))'
    BY <1>6 DEF IInv, TypeOK, EndInv, Joined, Taken, Owned, Signalled, Released, Detach
  <2>. QED BY <1>6, <2>1, OthersEnd DEF IInv, TypeOK, Detach
<1>7. CASE DeleteSemaphore(x)
  <2>1. (Signalled(x) /\ Released(x))'
    BY <1>7 DEF IInv, TypeOK, EndInv, Joined, Taken, Owned, Signalled, Released, DeleteSemaphore
  <2>. QED BY <1>7, <2>1, OthersEnd DEF IInv, TypeOK, DeleteSemaphore
<1>8. CASE ClearSemaphore(x)
  <2>1. (Signalled(x) /\ Released(x))'
    BY <1>8 DEF IInv, TypeOK, EndInv, Joined, Taken, Owned, Signalled, Released, ClearSemaphore
  <2>. QED BY <1>8, <2>1, OthersEnd DEF IInv, TypeOK, ClearSemaphore
<1>. QED BY <1>1, <1>2, <1>3, <1>4, <1>5, <1>6, <1>7, <1>8

LEMMA NextEnds == IInv /\ EndInv /\ [Next]_vars => EndInv'
<1>1. ASSUME IInv, EndInv, NEW x \in Threads,
             Create(x) \/ Start(x) \/ Return(x) \/ Ends(x) \/ CleanUp(x)
               \/ Join(x) \/ Detach(x) \/ Call(x)
      PROVE  EndInv'
  BY <1>1, NewEnds, TaskEnds, UserEnds DEF Create, Ends, Call
<1>2. ASSUME EndInv, UNCHANGED vars PROVE EndInv'
  BY <1>2 DEF EndInv, Signalled, Released, vars, blockVars
<1>. QED BY <1>1, <1>2 DEF Next

LEMMA EndsInvariant == Spec => []EndInv
  BY InitEnds, Invariant, NextEnds, PTL DEF Spec

\* A thread that waits in pthread_join finds the semaphore given once the
\* other one has parked: what is left of JoinReturns without fairness.
JoinerIsServed ==
    \A x \in Threads : user[x] = "joining" /\ task[x] = "parked" => xSemaphore[x] = "full"

\* Whoever gives a task back has freed its control block first, and frees it once.
NoBlockLeaks ==
    \A x \in Threads :
        /\ task[x] = "none" => block[x] # "allocated"
        /\ task[x] = "freeing" \/ user[x] = "freeing" => block[x] = "allocated"
        /\ ~(task[x] = "freeing" /\ user[x] = "freeing")

\* vTaskCode, pthread_join: the token of a thread that ended before it was
\* joined is kept for its joiner.
THEOREM JoinersAreServed == Spec => []JoinerIsServed
<1>1. IInv /\ EndInv => JoinerIsServed
  BY DEF IInv, EndInv, Joined, Signalled, JoinerIsServed
<1>. QED BY <1>1, Invariant, EndsInvariant, PTL

\* pthread_join, vTaskCode, CleanUp: no order of end, join and detach leaks the
\* control block of a task that was given back, or frees it twice, as long as
\* no detach has used a block that was freed.
THEOREM BlocksAreFreedOnce == Spec => []NoBlockLeaks
<1>1. IInv /\ EndInv => NoBlockLeaks
  BY DEF IInv, EndInv, Taken, Released, NoBlockLeaks
<1>. QED BY <1>1, Invariant, EndsInvariant, PTL
=============================================================================
