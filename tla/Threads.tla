------------------------------ MODULE Threads ------------------------------
(***************************************************************************)
(* The life of a POSIX thread on FreeRTOS tasks: itpPthreadCreate,         *)
(* vTaskCode, pthread_exit, pthread_join and pthread_detach of             *)
(* itp_posix_openrtos.c.                                                   *)
(*                                                                         *)
(* A thread is a FreeRTOS task and a control block (itpThread) that the    *)
(* application tag of the task points to.  Both are given back by the one  *)
(* who joins, or by the thread itself when it is detached.  Whoever has    *)
(* the id of a thread, its user, joins it or detaches it once.             *)
(*                                                                         *)
(* A member of Threads is a place for a task and its block: it is used     *)
(* again for another thread when both have been given back.                *)
(*                                                                         *)
(* pthread_detach and the creator of a detached thread use the block       *)
(* beside the thread that frees it.  When one of them comes too late, the  *)
(* memory is corrupted: what the program does then is undefined, and the   *)
(* model stops.                                                            *)
(***************************************************************************)
CONSTANTS
    Threads,
    Values,         \* what start routines return
    Nothing,        \* value_ptr after memset
    Detachable      \* threads that their user may detach after they were created

ASSUME DetachableAssumption == Detachable \subseteq Threads
ASSUME ValuesAssumption == Nothing \notin Values

VARIABLES
    task,           \* the FreeRTOS task and how far vTaskCode has come
    user,           \* the one that created the thread and has its id
    block,          \* the control block: "none", "allocated" or "freed"
    detachstate,    \* fields of the control block
    xSemaphore,
    value_ptr,
    returned,       \* history: what the start routine returned
    corrupted       \* history: a block or a semaphore was used after its free

blockVars == <<block, detachstate, xSemaphore, value_ptr>>
vars == <<task, user, blockVars, returned, corrupted>>

Init ==
    /\ task = [x \in Threads |-> "none"]
    /\ user = [x \in Threads |-> "none"]
    /\ block = [x \in Threads |-> "none"]
    /\ detachstate = [x \in Threads |-> "JOINABLE"]
    /\ xSemaphore = [x \in Threads |-> "NULL"]
    /\ value_ptr = [x \in Threads |-> Nothing]
    /\ returned = [x \in Threads |-> Nothing]
    /\ corrupted = FALSE

\* Nothing is said of what happens once the memory is corrupted.
TaskGoes(x, from, to) == /\ ~corrupted
                         /\ task[x] = from /\ task' = [task EXCEPT ![x] = to]
UserGoes(x, from, to) == /\ ~corrupted
                         /\ user[x] = from /\ user' = [user EXCEPT ![x] = to]

Free(x) == block' = [block EXCEPT ![x] = "freed"]
-----------------------------------------------------------------------------
(***************************************************************************)
(* itpPthreadCreate.  The task exists, and may run to its end, before the  *)
(* creator enters the critical section that writes xHandle and the tag.    *)
(***************************************************************************)
CreateTask(x, state) ==
    /\ TaskGoes(x, "none", "ready")
    /\ UserGoes(x, "none", "creating")
    /\ block' = [block EXCEPT ![x] = "allocated"]
    /\ detachstate' = [detachstate EXCEPT ![x] = state]
    /\ xSemaphore' = [xSemaphore EXCEPT ![x] = IF state = "JOINABLE" THEN "empty" ELSE "NULL"]
    /\ value_ptr' = [value_ptr EXCEPT ![x] = Nothing]
    /\ returned' = [returned EXCEPT ![x] = Nothing]
    /\ UNCHANGED corrupted

\* The block is used: what was there is not any more if it was freed.
UsesBlock(x) == corrupted' = (block[x] # "allocated")

\* The id of a thread that was created detached is of no use; and such a thread
\* may have freed its block, into which the handle is written.
SetHandle(x) ==
    /\ UserGoes(x, "creating", IF detachstate[x] = "JOINABLE" THEN "holds" ELSE "none")
    /\ UsesBlock(x)
    /\ UNCHANGED <<task, blockVars, returned>>
-----------------------------------------------------------------------------
(***************************************************************************)
(* vTaskCode, and pthread_exit, which ends in the same steps.              *)
(***************************************************************************)
Start(x) ==
    /\ TaskGoes(x, "ready", "running")
    /\ UNCHANGED <<user, blockVars, returned, corrupted>>

\* Slip: the block itself is stored.
ReturnBlock(x) ==
    /\ TaskGoes(x, "running", "returned")
    /\ value_ptr' = [value_ptr EXCEPT ![x] = x]
    /\ returned' \in {[returned EXCEPT ![x] = v] : v \in Values}
    /\ UNCHANGED <<user, block, detachstate, xSemaphore, corrupted>>

Return(x) ==
    /\ TaskGoes(x, "running", "returned")
    /\ \E v \in Values :
         /\ value_ptr' = [value_ptr EXCEPT ![x] = v]
         /\ returned' = [returned EXCEPT ![x] = v]
    /\ UNCHANGED <<user, block, detachstate, xSemaphore, corrupted>>

\* Slip: a thread frees its block whoever waits for it.
TestDetachStateNever(x) ==
    /\ TaskGoes(x, "returned", "freeing")
    /\ UNCHANGED <<user, blockVars, returned, corrupted>>

TestDetachState(x) ==
    /\ TaskGoes(x, "returned", IF detachstate[x] = "JOINABLE" THEN "giving" ELSE "freeing")
    /\ UNCHANGED <<user, blockVars, returned, corrupted>>

\* Slip: the thread ends in a loop that tests again and never gives.
GiveForgotten(x) ==
    /\ TaskGoes(x, "giving", "returned")
    /\ UNCHANGED <<user, blockVars, returned, corrupted>>

\* Then vTaskDelay(portMAX_DELAY) for ever.  xQueueGenericSend does not test
\* for a semaphore that pthread_detach deleted since the test.
Give(x) ==
    /\ TaskGoes(x, "giving", "parked")
    /\ IF xSemaphore[x] \in {"NULL", "deleted"}
         THEN corrupted' = TRUE /\ UNCHANGED xSemaphore
         ELSE xSemaphore' = [xSemaphore EXCEPT ![x] = "full"] /\ UNCHANGED corrupted
    /\ UNCHANGED <<user, block, detachstate, value_ptr, returned>>

FreeOwn(x) ==
    /\ TaskGoes(x, "freeing", "deleting")
    /\ Free(x)
    /\ UNCHANGED <<user, detachstate, xSemaphore, value_ptr, returned, corrupted>>

\* Slip: the loop at the end of the task has the clean-up in it and no deletion.
DeleteOwnForgotten(x) ==
    /\ TaskGoes(x, "deleting", "freeing")
    /\ UNCHANGED <<user, blockVars, returned, corrupted>>

DeleteOwn(x) ==
    /\ TaskGoes(x, "deleting", "deleted")
    /\ UNCHANGED <<user, blockVars, returned, corrupted>>

\* The idle task of FreeRTOS frees a task that deleted itself.
CleanUp(x) ==
    /\ TaskGoes(x, "deleted", "none")
    /\ UNCHANGED <<user, blockVars, returned, corrupted>>
-----------------------------------------------------------------------------
(***************************************************************************)
(* pthread_join and pthread_detach.                                        *)
(***************************************************************************)
Join(x) ==
    /\ UserGoes(x, "holds", "joining")
    /\ UNCHANGED <<task, blockVars, returned, corrupted>>

\* Slip: the joiner does not wait.
TakeSemaphoreNotWaiting(x) ==
    /\ UserGoes(x, "joining", "reading")
    /\ xSemaphore' = [xSemaphore EXCEPT ![x] = "empty"]
    /\ UNCHANGED <<task, block, detachstate, value_ptr, returned, corrupted>>

TakeSemaphore(x) ==
    /\ UserGoes(x, "joining", "reading")
    /\ xSemaphore[x] = "full"
    /\ xSemaphore' = [xSemaphore EXCEPT ![x] = "empty"]
    /\ UNCHANGED <<task, block, detachstate, value_ptr, returned, corrupted>>

\* *value_ptr = t->value_ptr; the semaphore is deleted with its block.
ReadValue(x) ==
    /\ UserGoes(x, "reading", "freeing")
    /\ UNCHANGED <<task, blockVars, returned, corrupted>>

FreeJoined(x) ==
    /\ UserGoes(x, "freeing", "deleting")
    /\ Free(x)
    /\ UNCHANGED <<task, detachstate, xSemaphore, value_ptr, returned, corrupted>>

\* vTaskDelete of another task frees it at once.
DeleteJoined(x) ==
    /\ UserGoes(x, "deleting", "none")
    /\ task' = [task EXCEPT ![x] = "none"]
    /\ UNCHANGED <<blockVars, returned, corrupted>>

Detach(x) ==
    /\ x \in Detachable
    /\ UserGoes(x, "holds", "detaching")
    /\ detachstate' = [detachstate EXCEPT ![x] = "DETACHED"]
    /\ UNCHANGED <<task, block, xSemaphore, value_ptr, returned, corrupted>>

\* The thread does not wait for the rest of the call: it may free the block
\* as soon as it reads that it is detached.
DeleteSemaphore(x) ==
    /\ UserGoes(x, "detaching", "clearing")
    /\ xSemaphore' = [xSemaphore EXCEPT ![x] = "deleted"]
    /\ UsesBlock(x)
    /\ UNCHANGED <<task, block, detachstate, value_ptr, returned>>

ClearSemaphore(x) ==
    /\ UserGoes(x, "clearing", "none")
    /\ xSemaphore' = [xSemaphore EXCEPT ![x] = "NULL"]
    /\ UsesBlock(x)
    /\ UNCHANGED <<task, block, detachstate, value_ptr, returned>>
-----------------------------------------------------------------------------
Create(x) == CreateTask(x, "JOINABLE") \/ CreateTask(x, "DETACHED")

\* What a task does by itself once its start routine has returned.
Ends(x) == TestDetachState(x) \/ Give(x) \/ FreeOwn(x) \/ DeleteOwn(x)

\* What a user does by itself once it has called.
Call(x) == \/ SetHandle(x) \/ TakeSemaphore(x) \/ ReadValue(x) \/ FreeJoined(x)
           \/ DeleteJoined(x) \/ DeleteSemaphore(x) \/ ClearSemaphore(x)

Next == \/ \E x \in Threads : \/ Create(x) \/ Start(x) \/ Return(x) \/ Ends(x) \/ CleanUp(x)
                              \/ Join(x) \/ Detach(x) \/ Call(x)
        \/ corrupted /\ UNCHANGED vars

Spec == Init /\ [][Next]_vars

\* Tasks run, and so does the idle task.  Start routines need not return.
FairSpec == /\ Spec
            /\ \A x \in Threads : WF_vars(Ends(x)) /\ WF_vars(Call(x)) /\ WF_vars(CleanUp(x))
-----------------------------------------------------------------------------
(***************************************************************************)
(* Properties.                                                             *)
(***************************************************************************)
\* Every variable has its type.
TypeOK ==
    /\ task \in [Threads -> {"none", "ready", "running", "returned", "giving", "parked",
                             "freeing", "deleting", "deleted"}]
    /\ user \in [Threads -> {"none", "creating", "holds", "joining", "reading", "freeing",
                             "deleting", "detaching", "clearing"}]
    /\ block \in [Threads -> {"none", "allocated", "freed"}]
    /\ detachstate \in [Threads -> {"JOINABLE", "DETACHED"}]
    /\ xSemaphore \in [Threads -> {"NULL", "deleted", "empty", "full"}]
    /\ value_ptr \in [Threads -> Values \cup {Nothing}]
    /\ returned \in [Threads -> Values \cup {Nothing}]
    /\ corrupted \in BOOLEAN

\* The task will touch its control block.
TaskUsesBlock(x) == task[x] \in {"ready", "running", "returned", "giving", "freeing"}

\* Its user will touch the control block.
UserUsesBlock(x) == user[x] \in {"creating", "holds", "joining", "reading", "freeing",
                                 "detaching", "clearing"}

\* The control block of a thread that is joined is there for its task and for
\* its user until the user frees it, whichever runs first; that of a detached
\* thread is there for its task.  It need not be there for the one who creates
\* a detached thread, nor for the one who detaches it: they use it beside the
\* thread that frees it.  Nothing else uses a block or a semaphore too late.
BlockIsThere ==
    /\ \A x \in Threads :
         /\ TaskUsesBlock(x) => block[x] = "allocated"
         /\ UserUsesBlock(x) /\ detachstate[x] = "JOINABLE" => block[x] = "allocated"
         /\ user[x] \in {"holds", "joining", "reading", "freeing"} =>
              detachstate[x] = "JOINABLE"
    /\ corrupted => \E x \in Threads : detachstate[x] = "DETACHED"

\* pthread_join hands out what the start routine of this thread returned.
JoinGetsValue ==
    \A x \in Threads :
        user[x] = "reading" => returned[x] \in Values /\ value_ptr[x] = returned[x]

Ended(x) == task[x] \in {"returned", "giving", "parked"}

\* pthread_join returns when the thread has ended, unless a detached thread
\* has corrupted the memory.
JoinReturns ==
    \A x \in Threads : user[x] = "joining" /\ Ended(x) ~> user[x] = "none" \/ corrupted

\* A thread that is detached when its start routine returns is given back,
\* unless its block is used after that, or another's.
DetachedIsReclaimed ==
    \A x \in Threads :
        task[x] = "returned" /\ detachstate[x] = "DETACHED" ~> task[x] = "none" \/ corrupted

\* sdk/include/upnp/ithread.h:874 of pthread_detach: "Makes a thread's resources
\* reclaimed immediately after it finishes execution."  So are those of a thread
\* that has finished and is detached then.
DetachReclaims ==
    \A x \in Threads :
        Ended(x) /\ detachstate[x] = "DETACHED" ~> task[x] = "none" \/ corrupted
=============================================================================
