---------------------------- MODULE SectorStore ----------------------------
(***************************************************************************)
(* What the NOR block driver promises the FAT library: an array of sectors *)
(* that several tasks read and write.  A request moves forward by one or   *)
(* more sectors at a time, because the driver holds its lock for one cache *)
(* page at a time.  Only a write request changes a sector, and only to the *)
(* value it carries.  A request may be abandoned when the device fails.    *)
(***************************************************************************)
EXTENDS Integers, SectorRequests

CONSTANTS Threads,         \* the tasks that use the driver
          EndOfPartition,  \* number of the last sector
          Data             \* the contents of a sector

Sectors == 0 .. EndOfPartition

VARIABLES store,  \* the contents of every sector, as any reader sees it
          req     \* the outstanding request of every task

vars == <<store, req>>

Init == /\ store \in [Sectors -> Data]
        /\ req = [t \in Threads |-> NoRequest]

Begin(t, r) ==
    /\ req[t] = NoRequest
    /\ req' = [req EXCEPT ![t] = r]
    /\ UNCHANGED store

BeginAny(t) ==
    \/ Begin(t, FlushRequest)
    \/ \E s \in Sectors : \E n \in 1 .. (EndOfPartition - s + 1) :
          \/ Begin(t, ReadRequest(s, n))
          \/ \E v \in Data : Begin(t, WriteRequest(s, n, v))

\* The next n sectors of a write take their new value.
Put(t, n) ==
    /\ req[t].kind = "write"
    /\ n \in 1 .. req[t].num
    /\ store' = [s \in Sectors |->
                   IF s \in req[t].sector .. (req[t].sector + n - 1)
                     THEN req[t].val ELSE store[s]]
    /\ req' = [req EXCEPT ![t] = Rest(req[t], n)]

\* The next n sectors of a read are delivered.
Get(t, n) ==
    /\ req[t].kind = "read"
    /\ n \in 1 .. req[t].num
    /\ req' = [req EXCEPT ![t] = Rest(req[t], n)]
    /\ UNCHANGED store

\* The request ends: a flush is over, or the device failed.
End(t) ==
    /\ req[t] # NoRequest
    /\ req' = [req EXCEPT ![t] = NoRequest]
    /\ UNCHANGED store

Next == \E t \in Threads :
            \/ BeginAny(t)
            \/ \E n \in 1 .. (EndOfPartition + 1) : Put(t, n) \/ Get(t, n)
            \/ End(t)

Spec == Init /\ [][Next]_vars
=============================================================================
