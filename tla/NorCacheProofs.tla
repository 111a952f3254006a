--------------------------- MODULE NorCacheProofs ---------------------------
(***************************************************************************)
(* Proofs about NorCache for any number of tasks, pages and sectors.       *)
(***************************************************************************)
EXTENDS NorCache, FiniteSetTheorems, WellFoundedInduction, TLAPS

\* A transfer request is outstanding exactly where the code is serving it.
RequestMatchesPc ==
    \A t \in Threads :
        /\ pc[t] \in {"lock", "lookup", "load", "copy"} => req[t] \in Transfers
        /\ pc[t] \in {"flush"} \cup FlushPcs => req[t] \in Transfers \cup {FlushRequest}
        /\ pc[t] = "mark" => req[t] \in Transfers \cup {NoRequest}

\* The task at a step inside a critical section owns its mutex.
OwnsAccess(t) ==
    \/ pc[t] \in AccessPcs
    \/ pc[t] \in {"flush"} \cup FlushPcs /\ req[t] \in Transfers

MutexOwners ==
    \A t \in Threads : /\ accessMutex = t <=> OwnsAccess(t)
                       /\ flushMutex = t <=> pc[t] \in FlushPcs

\* Only a page that holds sectors is dirty.
PagesHoldSectors ==
    \A p \in Pages : /\ entries[p].dirty => ~IsFree(p)
                     /\ ~IsFree(p) => entries[p].count >= 1

\* The flush that owns flushMutex works on a dirty page, within its length.
FlushIsSane ==
    \A t \in Threads :
        /\ pc[t] \in {"write", "program"} => flush.done < flush.count
        /\ pc[t] \in {"write", "program", "clear"} =>
              flush.i < NumberOfPages /\ entries[flush.index].dirty

\* A page being copied holds the sector asked for.
CopyHits == \A t \in Threads : pc[t] = "copy" => Hit(page[t], req[t].sector)

\* A page that was written into holds sectors.
MarksCached == \A t \in Threads : pc[t] = "mark" => ~IsFree(page[t])

\* A flush made inside getPage has at least as many rounds left as there are
\* dirty pages: no task can make a page dirty while accessMutex is held.
EnoughRounds ==
    \A t \in Threads :
        pc[t] \in FlushPcs /\ req[t] \in Transfers =>
            Cardinality(Dirty) + flush.i <= NumberOfPages

IInv == /\ TypeOK
        /\ RequestMatchesPc
        /\ MutexOwners
        /\ PagesHoldSectors
        /\ FlushIsSane
        /\ CopyHits
        /\ MarksCached
        /\ EnoughRounds
-----------------------------------------------------------------------------
\* PageBase and PageCount place a sector inside a page of the partition.
LEMMA PageFacts ==
    ASSUME NEW s \in Sectors
    PROVE  /\ PageBase(s) \in Sectors
           /\ PageCount(PageBase(s)) \in 1 .. SectorsPerPage
           /\ PageBase(s) <= s
           /\ s < PageBase(s) + PageCount(PageBase(s))
           /\ PageBase(s) + PageCount(PageBase(s)) <= EndOfPartition + 1
<1> DEFINE q == s \div SectorsPerPage
<1>1. q \in Nat /\ q * SectorsPerPage <= s /\ s < q * SectorsPerPage + SectorsPerPage
  BY ConstantsAssumption DEF Sectors
<1>2. QED
  BY <1>1, ConstantsAssumption DEF PageBase, PageCount, Sectors

\* A transfer names sectors of the partition and is not one of the others.
LEMMA TransferFacts ==
    ASSUME NEW r \in Transfers
    PROVE  /\ r.kind \in {"read", "write"}
           /\ r.kind = "read" <=> r \in Reads
           /\ r.sector \in Sectors
           /\ r.num \in 1 .. MaxRequest
           /\ r.sector + r.num - 1 <= EndOfPartition
           /\ r # NoRequest /\ r # FlushRequest
           /\ r.kind = "write" => r.val \in Data
<1>1. CASE r \in Reads
  <2>1. PICK x \in Extents : r = ReadRequest(x[1], x[2])
    BY <1>1 DEF Reads
  <2>2. r.kind = "read" /\ r.sector = x[1] /\ r.num = x[2]
    BY <2>1 DEF ReadRequest
  <2>3. QED
    BY <1>1, <2>2 DEF Extents, NoRequest, FlushRequest
<1>2. CASE r \in Writes
  <2>1. PICK x \in Extents, v \in Data : r = WriteRequest(x[1], x[2], v)
    BY <1>2 DEF Writes
  <2>2. r.kind = "write" /\ r.sector = x[1] /\ r.num = x[2] /\ r.val = v
    BY <2>1 DEF WriteRequest
  <2>3. r \notin Reads
    BY <2>2 DEF Reads, ReadRequest
  <2>4. QED
    BY <2>2, <2>3 DEF Extents, NoRequest, FlushRequest
<1>3. QED
  BY <1>1, <1>2 DEF Transfers

\* What remains of a transfer is a transfer or nothing.
LEMMA RestFacts ==
    ASSUME NEW r \in Transfers, NEW n \in 1 .. r.num
    PROVE  /\ Rest(r, n) \in Transfers \cup {NoRequest}
           /\ n # r.num => Rest(r, n).num = r.num - n
<1>1. CASE n = r.num
  BY <1>1 DEF Rest
<1>2. CASE n # r.num
  <2> DEFINE x == <<r.sector + n, r.num - n>>
  <2>1. x \in Extents
    BY <1>2, TransferFacts, ConstantsAssumption DEF Extents, Sectors
  <2>2. CASE r \in Reads
    <3>1. PICK y \in Extents : r = ReadRequest(y[1], y[2])
      BY <2>2 DEF Reads
    <3>2. Rest(r, n) = ReadRequest(x[1], x[2])
      BY <1>2, <3>1 DEF Rest, ReadRequest
    <3>3. QED
      BY <2>1, <3>2 DEF Transfers, Reads, ReadRequest
  <2>3. CASE r \in Writes
    <3>1. PICK y \in Extents, v \in Data : r = WriteRequest(y[1], y[2], v)
      BY <2>3 DEF Writes
    <3>2. Rest(r, n) = WriteRequest(x[1], x[2], v)
      BY <1>2, <3>1 DEF Rest, WriteRequest
    <3>3. QED
      BY <2>1, <3>2 DEF Transfers, Writes, WriteRequest
  <2>4. QED
    BY <2>2, <2>3 DEF Transfers
<1>3. QED
  BY <1>1, <1>2

\* The chunk of a transfer that a page serves is not empty and not too long.
LEMMA ChunkFacts ==
    ASSUME TypeOK, RequestMatchesPc, CopyHits, NEW t \in Threads, pc[t] = "copy"
    PROVE  /\ ChunkSize(t) \in 1 .. req[t].num
           /\ req[t] \in Transfers
           /\ Rest(req[t], ChunkSize(t)) \in Transfers \cup {NoRequest}
<1>1. req[t] \in Transfers
  BY DEF RequestMatchesPc
<1>2. /\ page[t] \in Pages
      /\ entries[page[t]].sector \in Nat
      /\ entries[page[t]].count \in Nat
  BY ConstantsAssumption DEF TypeOK, Sectors
<1>3. ChunkSize(t) \in 1 .. req[t].num
  BY <1>1, <1>2, TransferFacts DEF CopyHits, Hit, ChunkSize, Sectors
<1>4. QED
  BY <1>1, <1>3, RestFacts
-----------------------------------------------------------------------------
\* One step of one task.
Act(t) == \/ StartRead(t) \/ StartWrite(t) \/ StartFlush(t)
          \/ LockAccess(t) \/ FlushLock(t)
          \/ Step(t)

LEMMA InitInv == Init => IInv
<1> SUFFICES ASSUME Init PROVE IInv
  OBVIOUS
<1>1. nor[0] \in Data
  BY ConstantsAssumption DEF Init, Sectors
<1>2. TypeOK
  BY <1>1, ConstantsAssumption DEF Init, TypeOK, NoFlush, Pages, Sectors
<1>3. RequestMatchesPc /\ MutexOwners /\ CopyHits /\ EnoughRounds /\ VictimIsClean /\ FlushIsSane /\ MarksCached
  BY ConstantsAssumption
  DEF Init, RequestMatchesPc, MutexOwners, OwnsAccess, CopyHits, EnoughRounds,
      VictimIsClean, FlushIsSane, MarksCached, AccessPcs, FlushPcs
<1>4. PagesHoldSectors
  BY DEF Init, PagesHoldSectors, IsFree
<1>5. QED
  BY <1>2, <1>3, <1>4 DEF IInv

\* Types are kept by every step.
LEMMA TypeStep ==
    ASSUME IInv, NEW t \in Threads, Act(t)
    PROVE  TypeOK'
<1> USE DEF IInv
<1>1. CASE StartRead(t)
  BY <1>1 DEF StartRead, TypeOK, Transfers
<1>2. CASE StartWrite(t)
  BY <1>2 DEF StartWrite, TypeOK, Transfers
<1>3. CASE StartFlush(t)
  BY <1>3 DEF StartFlush, TypeOK
<1>4. CASE LockAccess(t)
  BY <1>4 DEF LockAccess, TypeOK, AccessPcs
<1>5. CASE FlushLock(t)
  <2>1. owed' \subseteq Sectors
    BY <1>5 DEF FlushLock, TypeOK, Dirty, PagesHoldSectors, IsFree
  <2>2. flush' \in [i : 0 .. NumberOfPages, index : Pages,
                    sector : Sectors \cup {0}, count : 0 .. SectorsPerPage,
                    done : 0 .. SectorsPerPage]
    BY <1>5, ConstantsAssumption DEF FlushLock, NoFlush, Pages
  <2>3. pc' \in [Threads -> {"idle", "lock", "flush"} \cup AccessPcs \cup FlushPcs]
    BY <1>5 DEF FlushLock, TypeOK, FlushPcs
  <2>4. QED
    BY <1>5, <2>1, <2>2, <2>3 DEF FlushLock, TypeOK
<1>6. CASE LookupHit(t)
  <2>1. older' \in [Pages -> SUBSET Pages]
    BY <1>6 DEF LookupHit, TypeOK, Touch
  <2>2. QED
    BY <1>6, <2>1 DEF LookupHit, TypeOK, AccessPcs
<1>7. CASE LookupMiss(t)
  BY <1>7 DEF LookupMiss, TypeOK, AccessPcs
<1>8. CASE Load(t)
  <2> DEFINE base == PageBase(req[t].sector)
  <2>1. page[t] \in Pages /\ base \in Sectors /\ PageCount(base) \in 1 .. SectorsPerPage
        /\ base + PageCount(base) <= EndOfPartition + 1
    BY <1>8, PageFacts, TransferFacts DEF Load, TypeOK, RequestMatchesPc
  <2>2. cache' \in [Pages -> [Offsets -> Data]]
    <3> DEFINE row == [k \in Offsets |-> IF k < PageCount(base) THEN nor[base + k]
                                        ELSE cache[page[t]][k]]
    <3>1. \A k \in Offsets : k < PageCount(base) => base + k \in Sectors
      BY <2>1, ConstantsAssumption DEF Sectors, Offsets
    <3>2. row \in [Offsets -> Data]
      BY <2>1, <3>1 DEF TypeOK
    <3>3. cache' = [cache EXCEPT ![page[t]] = row]
      BY <1>8 DEF Load
    <3>4. QED
      BY <3>2, <3>3 DEF TypeOK
  <2>3. entries' \in [Pages -> [sector : Sectors \cup {CACHE_FREE},
                                count : 0 .. SectorsPerPage, dirty : BOOLEAN]]
    <3> DEFINE new == [sector |-> base, count |-> PageCount(base),
                       dirty |-> entries[page[t]].dirty]
    <3>1. new \in [sector : Sectors \cup {CACHE_FREE},
                   count : 0 .. SectorsPerPage, dirty : BOOLEAN]
      BY <2>1, ConstantsAssumption DEF TypeOK
    <3>2. entries' = [entries EXCEPT ![page[t]] = new]
      BY <1>8 DEF Load
    <3>3. QED
      BY <3>1, <3>2 DEF TypeOK
  <2>4. older' \in [Pages -> SUBSET Pages]
    BY <1>8, <2>1 DEF Load, TypeOK, Touch
  <2>5. QED
    BY <1>8, <2>2, <2>3, <2>4 DEF Load, TypeOK, AccessPcs
<1>9. CASE LoadFails(t)
  <2> DEFINE base == PageBase(req[t].sector)
  <2>1. page[t] \in Pages /\ base \in Sectors /\ PageCount(base) \in 1 .. SectorsPerPage
        /\ base + PageCount(base) <= EndOfPartition + 1
    BY <1>9, PageFacts, TransferFacts DEF LoadFails, TypeOK, RequestMatchesPc
  <2>2. cache' \in [Pages -> [Offsets -> Data]]
    <3>1. PICK n \in 0 .. PageCount(base) :
            cache' = [cache EXCEPT ![page[t]] =
               [k \in Offsets |-> IF k < n THEN nor[base + k] ELSE cache[page[t]][k]]]
      BY <1>9 DEF LoadFails
    <3> DEFINE row == [k \in Offsets |-> IF k < n THEN nor[base + k] ELSE cache[page[t]][k]]
    <3>2. \A k \in Offsets : k < n => base + k \in Sectors
      BY <2>1, ConstantsAssumption DEF Sectors, Offsets
    <3>3. row \in [Offsets -> Data]
      BY <2>1, <3>2 DEF TypeOK
    <3>4. cache' = [cache EXCEPT ![page[t]] = row]
      BY <3>1
    <3>5. QED
      BY <3>3, <3>4 DEF TypeOK
  <2>3. QED
    BY <1>9, <2>2 DEF LoadFails, TypeOK
<1>10. CASE CopyOut(t)
  BY <1>10, ChunkFacts DEF CopyOut, TypeOK
<1>11. CASE CopyIn(t)
  <2>1. page[t] \in Pages /\ req[t].val \in Data
    BY <1>11, ChunkFacts, TransferFacts DEF CopyIn, TypeOK
  <2>2. cache' \in [Pages -> [Offsets -> Data]]
    BY <1>11, <2>1 DEF CopyIn, TypeOK
  <2>3. req' \in [Threads -> {NoRequest, FlushRequest} \cup Transfers]
    BY <1>11, ChunkFacts DEF CopyIn, TypeOK
  <2>4. pc' \in [Threads -> {"idle", "lock", "flush"} \cup AccessPcs \cup FlushPcs]
    BY <1>11 DEF CopyIn, TypeOK, AccessPcs
  <2>5. QED
    BY <1>11, <2>2, <2>3, <2>4 DEF CopyIn, TypeOK
<1>12. CASE MarkDirty(t)
  <2>1. page[t] \in Pages
    BY DEF TypeOK
  <2>2. entries' \in [Pages -> [sector : Sectors \cup {CACHE_FREE},
                                count : 0 .. SectorsPerPage, dirty : BOOLEAN]]
    <3> DEFINE new == [entries[page[t]] EXCEPT !.dirty = TRUE]
    <3>1. new \in [sector : Sectors \cup {CACHE_FREE},
                   count : 0 .. SectorsPerPage, dirty : BOOLEAN]
      <4>1. entries[page[t]] \in [sector : Sectors \cup {CACHE_FREE},
                                  count : 0 .. SectorsPerPage, dirty : BOOLEAN]
        BY <2>1 DEF TypeOK
      <4>2. QED
        BY <4>1
    <3>2. entries' = [entries EXCEPT ![page[t]] = new]
      BY <1>12 DEF MarkDirty
    <3>3. QED
      BY <3>1, <3>2 DEF TypeOK
  <2>3. QED
    BY <1>12, <2>2 DEF MarkDirty, TypeOK
<1>13. CASE FlushPick(t)
  <2>1. PICK p \in Flushable :
           flush' = [i |-> flush.i, index |-> p, sector |-> entries[p].sector,
                     count |-> entries[p].count, done |-> 0]
    BY <1>13 DEF FlushPick
  <2>2. p \in Pages /\ entries[p].sector \in Sectors
    BY <2>1, ConstantsAssumption DEF Flushable, Dirty, TypeOK
  <2>3. flush.i \in 0 .. NumberOfPages /\ entries[p].count \in 0 .. SectorsPerPage
    BY <2>2 DEF TypeOK
  <2>4. 0 \in 0 .. SectorsPerPage
    BY ConstantsAssumption
  <2>5. flush' \in [i : 0 .. NumberOfPages, index : Pages,
                    sector : Sectors \cup {0}, count : 0 .. SectorsPerPage,
                    done : 0 .. SectorsPerPage]
    BY <2>1, <2>2, <2>3, <2>4
  <2>6. QED
    BY <1>13, <2>5 DEF FlushPick, TypeOK, FlushPcs
<1>14. CASE FlushProgram(t)
  <2>1. flush.index \in Pages /\ flush.done \in Offsets /\ flush.done + 1 \in 0 .. SectorsPerPage
    BY <1>14, ConstantsAssumption DEF FlushProgram, TypeOK, FlushIsSane, Offsets
  <2>2. cache[flush.index][flush.done] \in Data
    BY <2>1 DEF TypeOK
  <2>3. nor' \in [Sectors -> Data]
    BY <1>14, <2>2 DEF FlushProgram, TypeOK
  <2>4. QED
    BY <1>14, <2>1, <2>3 DEF FlushProgram, TypeOK, FlushPcs
<1>15. CASE FlushClear(t)
  <2>1. flush.i + 1 \in 0 .. NumberOfPages
    BY <1>15, ConstantsAssumption DEF FlushClear, TypeOK, FlushIsSane
  <2>2. entries' \in [Pages -> [sector : Sectors \cup {CACHE_FREE},
                                count : 0 .. SectorsPerPage, dirty : BOOLEAN]]
    <3> DEFINE new == [entries[flush.index] EXCEPT !.dirty = FALSE]
    <3>1. new \in [sector : Sectors \cup {CACHE_FREE},
                   count : 0 .. SectorsPerPage, dirty : BOOLEAN]
      <4>1. flush.index \in Pages /\ entries[flush.index] \in
              [sector : Sectors \cup {CACHE_FREE}, count : 0 .. SectorsPerPage, dirty : BOOLEAN]
        BY DEF TypeOK
      <4>2. QED
        BY <4>1
    <3>2. entries' = [entries EXCEPT ![flush.index] = new]
      BY <1>15 DEF FlushClear
    <3>3. QED
      BY <3>1, <3>2 DEF TypeOK
  <2>3. flush' \in [i : 0 .. NumberOfPages, index : Pages,
                    sector : Sectors \cup {0}, count : 0 .. SectorsPerPage,
                    done : 0 .. SectorsPerPage]
    BY <1>15, <2>1 DEF FlushClear, TypeOK
  <2>4. pc' \in [Threads -> {"idle", "lock", "flush"} \cup AccessPcs \cup FlushPcs]
    BY <1>15 DEF FlushClear, TypeOK, FlushPcs
  <2>5. QED
    BY <1>15, <2>2, <2>3, <2>4 DEF FlushClear, TypeOK
<1>16. CASE FlushDone(t) \/ FlushFails(t)
  <2>1. FlushReturn(t)
    BY <1>16 DEF FlushDone, FlushFails
  <2>2. flush' \in [i : 0 .. NumberOfPages, index : Pages,
                    sector : Sectors \cup {0}, count : 0 .. SectorsPerPage,
                    done : 0 .. SectorsPerPage]
    BY <2>1, ConstantsAssumption DEF FlushReturn, NoFlush, Pages
  <2>3. pc' \in [Threads -> {"idle", "lock", "flush"} \cup AccessPcs \cup FlushPcs]
    BY <2>1 DEF FlushReturn, TypeOK, AccessPcs
  <2>4. req' \in [Threads -> {NoRequest, FlushRequest} \cup Transfers]
    BY <2>1 DEF FlushReturn, TypeOK
  <2>5. QED
    BY <2>1, <2>2, <2>3, <2>4 DEF FlushReturn, TypeOK
<1>17. QED
  BY <1>1, <1>2, <1>3, <1>4, <1>5, <1>6, <1>7, <1>8, <1>9, <1>10, <1>11, <1>12, <1>13, <1>14,
     <1>15, <1>16 DEF Act, Step

\* A task keeps its own place when another one steps.
LEMMA OthersWait ==
    ASSUME TypeOK, NEW t \in Threads, Act(t), NEW u \in Threads, u # t
    PROVE  pc'[u] = pc[u] /\ req'[u] = req[u] /\ page'[u] = page[u]
<1>1. /\ pc \in [Threads -> {"idle", "lock", "flush"} \cup AccessPcs \cup FlushPcs]
      /\ req \in [Threads -> {NoRequest, FlushRequest} \cup Transfers]
      /\ page \in [Threads -> Pages]
  BY DEF TypeOK
<1>2. pc'[u] = pc[u]
  BY <1>1
  DEF Act, Step, StartRead, StartWrite, StartFlush, LockAccess, FlushLock, LookupHit, LookupMiss,
      Load, LoadFails, CopyOut, CopyIn, MarkDirty, FlushPick, FlushProgram, FlushClear,
      FlushDone, FlushFails, FlushReturn
<1>3. req'[u] = req[u]
  BY <1>1
  DEF Act, Step, StartRead, StartWrite, StartFlush, LockAccess, FlushLock, LookupHit, LookupMiss,
      Load, LoadFails, CopyOut, CopyIn, MarkDirty, FlushPick, FlushProgram, FlushClear,
      FlushDone, FlushFails, FlushReturn
<1>4. page'[u] = page[u]
  BY <1>1
  DEF Act, Step, StartRead, StartWrite, StartFlush, LockAccess, FlushLock, LookupHit, LookupMiss,
      Load, LoadFails, CopyOut, CopyIn, MarkDirty, FlushPick, FlushProgram, FlushClear,
      FlushDone, FlushFails, FlushReturn
<1>5. QED
  BY <1>2, <1>3, <1>4

\* The request of the stepping task still matches its place.
LEMMA RequestStep ==
    ASSUME IInv, NEW t \in Threads, Act(t)
    PROVE  RequestMatchesPc'
<1> DEFINE Match(u) ==
      /\ pc[u] \in {"lock", "lookup", "load", "copy"} => req[u] \in Transfers
      /\ pc[u] \in {"flush"} \cup FlushPcs => req[u] \in Transfers \cup {FlushRequest}
      /\ pc[u] = "mark" => req[u] \in Transfers \cup {NoRequest}
<1>1. /\ pc \in [Threads -> {"idle", "lock", "flush"} \cup AccessPcs \cup FlushPcs]
      /\ req \in [Threads -> {NoRequest, FlushRequest} \cup Transfers]
      /\ Match(t)
  BY DEF IInv, TypeOK, RequestMatchesPc
<1>2. Match(t)'
  <2>1. CASE StartRead(t) \/ StartWrite(t) \/ StartFlush(t)
    BY <1>1, <2>1 DEF StartRead, StartWrite, StartFlush, Transfers, FlushPcs
  <2>2. CASE LockAccess(t) \/ FlushLock(t) \/ LookupHit(t) \/ LookupMiss(t) \/ Load(t)
    BY <1>1, <2>2 DEF LockAccess, FlushLock, LookupHit, LookupMiss, Load, FlushPcs
  <2>3. CASE LoadFails(t)
    BY <1>1, <2>3 DEF LoadFails, FlushPcs
  <2>4. CASE CopyOut(t)
    BY <1>1, <2>4, ChunkFacts DEF CopyOut, FlushPcs, IInv
  <2>5. CASE CopyIn(t)
    BY <1>1, <2>5, ChunkFacts DEF CopyIn, FlushPcs, IInv
  <2>6. CASE MarkDirty(t)
    BY <1>1, <2>6 DEF MarkDirty, FlushPcs
  <2>7. CASE FlushPick(t) \/ FlushProgram(t) \/ FlushClear(t)
    BY <1>1, <2>7 DEF FlushPick, FlushProgram, FlushClear, FlushPcs
  <2>8. CASE FlushDone(t) \/ FlushFails(t)
    <3>1. FlushReturn(t) /\ pc[t] \in FlushPcs
      BY <2>8 DEF FlushDone, FlushFails, FlushPcs
    <3>2. CASE accessMutex = t
      <4>1. req[t] \in Transfers
        BY <3>1, <3>2 DEF IInv, MutexOwners, OwnsAccess, AccessPcs, FlushPcs
      <4>2. QED
        BY <1>1, <3>1, <3>2, <4>1 DEF FlushReturn, FlushPcs
    <3>3. CASE accessMutex # t
      BY <1>1, <3>1, <3>3 DEF FlushReturn, FlushPcs
    <3>4. QED
      BY <3>2, <3>3
  <2>9. QED
    BY <2>1, <2>2, <2>3, <2>4, <2>5, <2>6, <2>7, <2>8 DEF Act, Step
<1>3. ASSUME NEW u \in Threads, u # t PROVE Match(u)'
  BY <1>3, OthersWait DEF IInv, RequestMatchesPc
<1>4. QED
  BY <1>2, <1>3 DEF RequestMatchesPc

\* Each mutex passes from free to the stepping task and back, or stays.
LEMMA MutexStep ==
    ASSUME IInv, NEW t \in Threads, Act(t)
    PROVE  MutexOwners'
<1> DEFINE Access(u) == accessMutex = u <=> OwnsAccess(u)
           Flush(u)  == flushMutex = u <=> pc[u] \in FlushPcs
<1>1. /\ pc \in [Threads -> {"idle", "lock", "flush"} \cup AccessPcs \cup FlushPcs]
      /\ req \in [Threads -> {NoRequest, FlushRequest} \cup Transfers]
      /\ Access(t) /\ Flush(t)
      /\ t # NoThread
  BY ConstantsAssumption DEF IInv, TypeOK, MutexOwners
<1>2. Access(t)' /\ Flush(t)'
  <2> USE DEF FlushPcs, AccessPcs, OwnsAccess
  <2>1. CASE StartRead(t) \/ StartWrite(t)
    BY <1>1, <2>1 DEF StartRead, StartWrite
  <2>2. CASE StartFlush(t)
    <3>1. FlushRequest \notin Transfers
      BY TransferFacts
    <3>2. QED
      BY <1>1, <2>2, <3>1 DEF StartFlush
  <2>3. CASE LockAccess(t) \/ FlushLock(t)
    BY <1>1, <2>3 DEF LockAccess, FlushLock
  <2>4. CASE LookupHit(t) \/ Load(t) \/ CopyIn(t)
    BY <1>1, <2>4 DEF LookupHit, Load, CopyIn
  <2>5. CASE LookupMiss(t)
    <3>1. req[t] \in Transfers
      BY <2>5 DEF LookupMiss, IInv, RequestMatchesPc
    <3>2. QED
      BY <1>1, <2>5, <3>1 DEF LookupMiss
  <2>6. CASE LoadFails(t) \/ CopyOut(t) \/ MarkDirty(t)
    BY <1>1, <2>6 DEF LoadFails, CopyOut, MarkDirty
  <2>7. CASE FlushPick(t) \/ FlushProgram(t) \/ FlushClear(t)
    BY <1>1, <2>7 DEF FlushPick, FlushProgram, FlushClear
  <2>8. CASE FlushDone(t) \/ FlushFails(t)
    BY <1>1, <2>8 DEF FlushDone, FlushFails, FlushReturn
  <2>9. QED
    BY <2>1, <2>2, <2>3, <2>4, <2>5, <2>6, <2>7, <2>8 DEF Act, Step
<1>3. accessMutex' # accessMutex =>
        (accessMutex = NoThread /\ accessMutex' = t) \/ (accessMutex = t /\ accessMutex' = NoThread)
  <2>1. CASE LockAccess(t)
    BY <2>1 DEF LockAccess
  <2>2. CASE LoadFails(t) \/ CopyOut(t) \/ MarkDirty(t)
    BY <1>1, <2>2 DEF LoadFails, CopyOut, MarkDirty, OwnsAccess, AccessPcs
  <2>3. QED
    BY <2>1, <2>2
    DEF Act, Step, StartRead, StartWrite, StartFlush, FlushLock, LookupHit, LookupMiss, Load,
        CopyIn, FlushPick, FlushProgram, FlushClear, FlushDone, FlushFails, FlushReturn
<1>4. flushMutex' # flushMutex =>
        (flushMutex = NoThread /\ flushMutex' = t) \/ (flushMutex = t /\ flushMutex' = NoThread)
  <2>1. CASE FlushLock(t)
    BY <2>1 DEF FlushLock
  <2>2. CASE FlushDone(t) \/ FlushFails(t)
    BY <1>1, <2>2 DEF FlushDone, FlushFails, FlushReturn, FlushPcs
  <2>3. QED
    BY <2>1, <2>2
    DEF Act, Step, StartRead, StartWrite, StartFlush, LockAccess, LookupHit, LookupMiss, Load,
        LoadFails, CopyOut, CopyIn, MarkDirty, FlushPick, FlushProgram, FlushClear
<1>5. ASSUME NEW u \in Threads, u # t PROVE Access(u)' /\ Flush(u)'
  <2>1. pc'[u] = pc[u] /\ req'[u] = req[u]
    BY <1>5, OthersWait DEF IInv
  <2>2. Access(u) /\ Flush(u) /\ u # NoThread
    BY ConstantsAssumption DEF IInv, MutexOwners
  <2>3. OwnsAccess(u)' <=> OwnsAccess(u)
    BY <2>1 DEF OwnsAccess
  <2>4. QED
    BY <1>3, <1>4, <1>5, <2>1, <2>2, <2>3
<1>6. QED
  BY <1>2, <1>5 DEF MutexOwners

\* What a step does to the entries: only the owner of accessMutex renames a
\* page or makes it dirty, and only the owner of flushMutex makes it clean.
LEMMA EntriesStep ==
    ASSUME IInv, NEW t \in Threads, Act(t), NEW p \in Pages
    PROVE  /\ accessMutex # t =>
                /\ entries'[p].sector = entries[p].sector
                /\ entries'[p].count = entries[p].count
                /\ entries'[p].dirty => entries[p].dirty
           /\ flushMutex # t =>
                /\ flush' = flush \/ flushMutex = NoThread
                /\ entries[p].dirty => entries'[p].dirty
<1>1. /\ entries \in [Pages -> [sector : Sectors \cup {CACHE_FREE},
                               count : 0 .. SectorsPerPage, dirty : BOOLEAN]]
      /\ flush.index \in Pages /\ page[t] \in Pages
  BY DEF IInv, TypeOK
<1>2. /\ accessMutex = t <=> OwnsAccess(t)
      /\ flushMutex = t <=> pc[t] \in FlushPcs
  BY DEF IInv, MutexOwners
<1>3. CASE Load(t)
  BY <1>1, <1>2, <1>3 DEF Load, OwnsAccess, AccessPcs
<1>4. CASE MarkDirty(t)
  BY <1>1, <1>2, <1>4 DEF MarkDirty, OwnsAccess, AccessPcs
<1>5. CASE FlushClear(t)
  BY <1>1, <1>2, <1>5 DEF FlushClear, FlushPcs
<1>6. CASE FlushLock(t)
  BY <1>6 DEF FlushLock
<1>7. CASE FlushPick(t) \/ FlushProgram(t) \/ FlushDone(t) \/ FlushFails(t)
  BY <1>2, <1>7 DEF FlushPick, FlushProgram, FlushDone, FlushFails, FlushReturn, FlushPcs
<1>8. CASE \/ StartRead(t) \/ StartWrite(t) \/ StartFlush(t) \/ LockAccess(t)
           \/ LookupHit(t) \/ LookupMiss(t) \/ LoadFails(t) \/ CopyOut(t) \/ CopyIn(t)
  BY <1>8 DEF StartRead, StartWrite, StartFlush, LockAccess, LookupHit, LookupMiss, LoadFails,
              CopyOut, CopyIn
<1>9. QED
  BY <1>3, <1>4, <1>5, <1>6, <1>7, <1>8 DEF Act, Step

LEMMA PagesStep ==
    ASSUME IInv, NEW t \in Threads, Act(t)
    PROVE  PagesHoldSectors'
<1> SUFFICES ASSUME NEW p \in Pages
             PROVE  /\ entries'[p].dirty => entries'[p].sector # CACHE_FREE
                    /\ entries'[p].sector # CACHE_FREE => entries'[p].count >= 1
  BY DEF PagesHoldSectors, IsFree
<1>1. /\ entries \in [Pages -> [sector : Sectors \cup {CACHE_FREE},
                               count : 0 .. SectorsPerPage, dirty : BOOLEAN]]
      /\ flush.index \in Pages /\ page[t] \in Pages
  BY DEF IInv, TypeOK
<1>2. /\ entries[p].dirty => entries[p].sector # CACHE_FREE
      /\ entries[p].sector # CACHE_FREE => entries[p].count >= 1
  BY DEF IInv, PagesHoldSectors, IsFree
<1>3. CASE Load(t)
  <2> DEFINE base == PageBase(req[t].sector)
  <2>1. base \in Sectors /\ PageCount(base) >= 1 /\ base # CACHE_FREE
    BY <1>3, PageFacts, TransferFacts, ConstantsAssumption
    DEF Load, IInv, RequestMatchesPc, Sectors
  <2>2. entries' = [entries EXCEPT ![page[t]] =
                     [sector |-> base, count |-> PageCount(base), dirty |-> entries[page[t]].dirty]]
    BY <1>3 DEF Load
  <2>3. QED
    BY <1>1, <1>2, <2>1, <2>2
<1>4. CASE MarkDirty(t)
  <2>1. ~IsFree(page[t])
    BY <1>4 DEF MarkDirty, IInv, MarksCached
  <2>2. QED
    BY <1>1, <1>2, <1>4, <2>1 DEF MarkDirty, IsFree
<1>5. CASE FlushClear(t)
  BY <1>1, <1>2, <1>5 DEF FlushClear
<1>6. CASE entries' = entries
  BY <1>2, <1>6
<1>7. QED
  BY <1>3, <1>4, <1>5, <1>6
  DEF Act, Step, StartRead, StartWrite, StartFlush, LockAccess, FlushLock, LookupHit, LookupMiss,
      LoadFails, CopyOut, CopyIn, FlushPick, FlushProgram, FlushDone, FlushFails, FlushReturn

\* A task that copies found, or has just loaded, the sector it was asked for.
LEMMA CopyStep ==
    ASSUME IInv, NEW t \in Threads, Act(t)
    PROVE  CopyHits' /\ MarksCached'
<1> DEFINE Hits(u)  == pc[u] = "copy" => Hit(page[u], req[u].sector)
           Marks(u) == pc[u] = "mark" => ~IsFree(page[u])
<1>1. /\ pc \in [Threads -> {"idle", "lock", "flush"} \cup AccessPcs \cup FlushPcs]
      /\ page \in [Threads -> Pages]
      /\ entries \in [Pages -> [sector : Sectors \cup {CACHE_FREE},
                               count : 0 .. SectorsPerPage, dirty : BOOLEAN]]
      /\ Hits(t) /\ Marks(t)
  BY DEF IInv, TypeOK, CopyHits, MarksCached
<1>2. Hits(t)' /\ Marks(t)'
  <2>1. CASE LookupHit(t)
    BY <1>1, <2>1 DEF LookupHit, Hit
  <2>2. CASE Load(t)
    <3> DEFINE base == PageBase(req[t].sector)
    <3>1. /\ req[t].sector >= base
          /\ req[t].sector < base + PageCount(base)
      BY <2>2, PageFacts, TransferFacts DEF Load, IInv, RequestMatchesPc, Sectors
    <3>2. entries' = [entries EXCEPT ![page[t]] =
                     [sector |-> base, count |-> PageCount(base), dirty |-> entries[page[t]].dirty]]
      BY <2>2 DEF Load
    <3>3. entries'[page[t]].sector = base /\ entries'[page[t]].count = PageCount(base)
      BY <1>1, <3>2
    <3>4. page' = page /\ req' = req /\ pc'[t] = "copy"
      BY <1>1, <2>2 DEF Load
    <3>5. QED
      BY <3>1, <3>3, <3>4 DEF Hit
  <2>3. CASE CopyIn(t)
    <3>1. req[t] \in Transfers
      BY <2>3 DEF CopyIn, IInv, RequestMatchesPc
    <3>2. req[t].sector \in Sectors
      BY <3>1, TransferFacts
    <3>3. entries[page[t]].sector # CACHE_FREE
      BY <1>1, <2>3, <3>2, ConstantsAssumption DEF CopyIn, Hit, Sectors
    <3>4. QED
      BY <1>1, <2>3, <3>3 DEF CopyIn, IsFree
  <2>4. CASE pc'[t] \notin {"copy", "mark"}
    BY <2>4
  <2>5. QED
    BY <1>1, <2>1, <2>2, <2>3, <2>4
    DEF Act, Step, StartRead, StartWrite, StartFlush, LockAccess, FlushLock, LookupMiss,
        LoadFails, CopyOut, MarkDirty, FlushPick, FlushProgram, FlushClear, FlushDone,
        FlushFails, FlushReturn
<1>3. ASSUME NEW u \in Threads, u # t PROVE Hits(u)' /\ Marks(u)'
  <2>1. pc'[u] = pc[u] /\ req'[u] = req[u] /\ page'[u] = page[u] /\ page[u] \in Pages
    BY <1>1, <1>3, OthersWait DEF IInv
  <2>2. CASE pc[u] \in {"copy", "mark"}
    <3>1. accessMutex # t
      BY <1>3, <2>2 DEF IInv, MutexOwners, OwnsAccess, AccessPcs
    <3>2. /\ entries'[page[u]].sector = entries[page[u]].sector
          /\ entries'[page[u]].count = entries[page[u]].count
      BY <2>1, <3>1, EntriesStep
    <3>3. Hits(u) /\ Marks(u)
      BY DEF IInv, CopyHits, MarksCached
    <3>4. QED
      BY <2>1, <3>2, <3>3 DEF Hit, IsFree
  <2>3. CASE pc[u] \notin {"copy", "mark"}
    BY <2>1, <2>3
  <2>4. QED
    BY <2>2, <2>3
<1>4. QED
  BY <1>2, <1>3 DEF CopyHits, MarksCached

LEMMA FlushStep ==
    ASSUME IInv, NEW t \in Threads, Act(t)
    PROVE  FlushIsSane'
<1> DEFINE Sane(u) ==
        /\ pc[u] \in {"write", "program"} => flush.done < flush.count
        /\ pc[u] \in {"write", "program", "clear"} =>
              flush.i < NumberOfPages /\ entries[flush.index].dirty
<1>1. /\ pc \in [Threads -> {"idle", "lock", "flush"} \cup AccessPcs \cup FlushPcs]
      /\ flush.index \in Pages /\ flush.done \in Nat /\ flush.count \in Nat /\ flush.i \in Nat
      /\ Sane(t)
  BY ConstantsAssumption DEF IInv, TypeOK, FlushIsSane
<1>2. Sane(t)'
  <2>1. CASE FlushPick(t)
    <3>1. PICK p \in Flushable :
             flush' = [i |-> flush.i, index |-> p, sector |-> entries[p].sector,
                       count |-> entries[p].count, done |-> 0]
      BY <2>1 DEF FlushPick
    <3>2. p \in Pages /\ entries[p].dirty /\ entries[p].count \in Nat /\ entries[p].count >= 1
      BY <3>1, ConstantsAssumption DEF Flushable, Dirty, IInv, TypeOK, PagesHoldSectors
    <3>3. QED
      BY <1>1, <2>1, <3>1, <3>2 DEF FlushPick
  <2>2. CASE FlushProgram(t)
    <3>1. flush'.done = flush.done + 1 /\ flush'.count = flush.count /\ flush'.i = flush.i
          /\ flush'.index = flush.index /\ entries' = entries
      BY <2>2 DEF FlushProgram, IInv, TypeOK
    <3>2. QED
      BY <1>1, <2>2, <3>1 DEF FlushProgram
  <2>3. CASE pc'[t] \notin {"write", "program", "clear"}
    BY <2>3
  <2>4. QED
    BY <1>1, <2>1, <2>2, <2>3
    DEF Act, Step, StartRead, StartWrite, StartFlush, LockAccess, FlushLock, LookupHit, LookupMiss,
        Load, LoadFails, CopyOut, CopyIn, MarkDirty, FlushClear, FlushDone, FlushFails, FlushReturn
<1>3. ASSUME NEW u \in Threads, u # t PROVE Sane(u)'
  <2>1. pc'[u] = pc[u]
    BY <1>3, OthersWait DEF IInv
  <2>2. CASE pc[u] \in {"write", "program", "clear"}
    <3>1. flushMutex = u
      BY <2>2 DEF IInv, MutexOwners, FlushPcs
    <3>2. flush' = flush /\ (entries[flush.index].dirty => entries'[flush.index].dirty)
      BY <1>1, <1>3, <3>1, EntriesStep, ConstantsAssumption
    <3>3. Sane(u)
      BY DEF IInv, FlushIsSane
    <3>4. QED
      BY <2>1, <3>2, <3>3
  <2>3. CASE pc[u] \notin {"write", "program", "clear"}
    BY <2>1, <2>3
  <2>4. QED
    BY <2>2, <2>3
<1>4. QED
  BY <1>2, <1>3 DEF FlushIsSane

\* The dirty pages are pages: there are no more of them than numberOfPages.
LEMMA DirtyFacts ==
    ASSUME TypeOK
    PROVE  /\ Dirty \subseteq Pages
           /\ IsFiniteSet(Dirty)
           /\ Cardinality(Dirty) \in 0 .. NumberOfPages
<1>1. IsFiniteSet(Pages) /\ Cardinality(Pages) = NumberOfPages
  BY FS_Interval, ConstantsAssumption DEF Pages
<1>2. Dirty \subseteq Pages
  BY DEF Dirty
<1>3. IsFiniteSet(Dirty) /\ Cardinality(Dirty) <= Cardinality(Pages)
  BY <1>1, <1>2, FS_Subset
<1>4. Cardinality(Dirty) \in Nat
  BY <1>3, FS_CardinalityType
<1>5. QED
  BY <1>1, <1>2, <1>3, <1>4, ConstantsAssumption

\* While a flush runs inside getPage nobody makes a page dirty, so each round
\* takes one dirty page away.
LEMMA RoundsStep ==
    ASSUME IInv, NEW t \in Threads, Act(t)
    PROVE  EnoughRounds'
<1> SUFFICES ASSUME NEW u \in Threads, pc'[u] \in FlushPcs, req'[u] \in Transfers
             PROVE  Cardinality(Dirty') + flush'.i <= NumberOfPages
  BY DEF EnoughRounds
<1>1. /\ pc \in [Threads -> {"idle", "lock", "flush"} \cup AccessPcs \cup FlushPcs]
      /\ req \in [Threads -> {NoRequest, FlushRequest} \cup Transfers]
      /\ entries \in [Pages -> [sector : Sectors \cup {CACHE_FREE},
                               count : 0 .. SectorsPerPage, dirty : BOOLEAN]]
      /\ flush.i \in Nat /\ flush.index \in Pages
      /\ NumberOfPages \in Nat
  BY ConstantsAssumption DEF IInv, TypeOK
<1>2. Cardinality(Dirty) \in 0 .. NumberOfPages /\ IsFiniteSet(Dirty)
  BY DirtyFacts DEF IInv
<1>3. CASE u = t
  <2>1. CASE FlushLock(t)
    <3>1. flush'.i = 0 /\ Dirty' = Dirty
      BY <2>1 DEF FlushLock, NoFlush, Dirty
    <3>2. QED
      BY <1>1, <1>2, <3>1
  <2>2. CASE FlushPick(t) \/ FlushProgram(t)
    <3>1. flush'.i = flush.i
      BY <2>2 DEF FlushPick, FlushProgram, IInv, TypeOK
    <3>2. Dirty' = Dirty
      BY <2>2 DEF FlushPick, FlushProgram, Dirty
    <3>3. pc[t] \in FlushPcs /\ req[t] \in Transfers
      BY <1>3, <2>2 DEF FlushPick, FlushProgram, FlushPcs
    <3>4. QED
      BY <3>1, <3>2, <3>3 DEF IInv, EnoughRounds
  <2>3. CASE FlushClear(t)
    <3>1. pc[t] \in FlushPcs /\ req[t] \in Transfers
      BY <1>3, <2>3 DEF FlushClear, FlushPcs
    <3>2. flush'.i = flush.i + 1
      BY <2>3 DEF FlushClear, IInv, TypeOK
    <3>3. flush.index \in Dirty
      BY <1>1, <2>3 DEF FlushClear, IInv, FlushIsSane, Dirty
    <3>4. Dirty' = Dirty \ {flush.index}
      BY <1>1, <2>3 DEF FlushClear, Dirty
    <3>5. Cardinality(Dirty') = Cardinality(Dirty) - 1
      BY <1>2, <3>3, <3>4, FS_RemoveElement
    <3>6. QED
      BY <1>1, <1>2, <3>1, <3>2, <3>5 DEF IInv, EnoughRounds
  <2>4. CASE pc'[t] \notin FlushPcs
    BY <1>3, <2>4
  <2>5. QED
    BY <1>1, <2>1, <2>2, <2>3, <2>4
    DEF Act, Step, StartRead, StartWrite, StartFlush, LockAccess, LookupHit, LookupMiss,
        Load, LoadFails, CopyOut, CopyIn, MarkDirty, FlushDone, FlushFails, FlushReturn, FlushPcs
<1>4. CASE u # t
  <2>1. pc[u] \in FlushPcs /\ req[u] \in Transfers
    BY <1>4, OthersWait DEF IInv
  <2>2. accessMutex = u /\ flushMutex = u /\ u # NoThread
    BY <2>1, ConstantsAssumption DEF IInv, MutexOwners, OwnsAccess
  <2>3. flush' = flush
    BY <1>1, <1>4, <2>2, EntriesStep
  <2>4. Dirty' \subseteq Dirty
    BY <1>4, <2>2, EntriesStep DEF Dirty
  <2>5. Cardinality(Dirty') <= Cardinality(Dirty) /\ Cardinality(Dirty') \in Nat
    BY <1>2, <2>4, FS_Subset, FS_CardinalityType
  <2>6. QED
    BY <1>1, <1>2, <2>1, <2>3, <2>5 DEF IInv, EnoughRounds
<1>5. QED
  BY <1>3, <1>4

\* The invariant is inductive.
LEMMA InvStep == IInv /\ [Next]_vars => IInv'
<1> SUFFICES ASSUME IInv, [Next]_vars PROVE IInv'
  OBVIOUS
<1>1. CASE UNCHANGED vars
  BY <1>1
  DEF vars, IInv, TypeOK, RequestMatchesPc, MutexOwners, OwnsAccess, PagesHoldSectors, IsFree,
      FlushIsSane, CopyHits, MarksCached, Hit, EnoughRounds, Dirty
<1>2. ASSUME NEW t \in Threads, Act(t) PROVE IInv'
  BY <1>2, TypeStep, RequestStep, MutexStep, PagesStep, CopyStep, FlushStep, RoundsStep DEF IInv
<1>3. QED
  BY <1>1, <1>2 DEF Next, Act

\* When the loop of a flush made inside getPage is over no page is dirty.
LEMMA FlushLeavesClean ==
    ASSUME IInv, NEW t \in Threads, FlushDone(t), accessMutex = t
    PROVE  Dirty = {}
<1>1. pc[t] \in FlushPcs /\ req[t] \in Transfers
  BY DEF FlushDone, IInv, MutexOwners, OwnsAccess, AccessPcs, FlushPcs
<1>2. Cardinality(Dirty) + flush.i <= NumberOfPages
  BY <1>1 DEF IInv, EnoughRounds
<1>3. CASE flush.i = NumberOfPages
  <2>1. Cardinality(Dirty) = 0 /\ IsFiniteSet(Dirty)
    BY <1>2, <1>3, DirtyFacts, ConstantsAssumption DEF IInv
  <2>2. QED
    BY <2>1, FS_EmptySet
<1>4. CASE Flushable = {}
  <2>1. ASSUME NEW p \in Dirty PROVE FALSE
    <3>1. entries[p].sector < CACHE_FREE
      BY <2>1, ConstantsAssumption DEF Dirty, IInv, TypeOK, PagesHoldSectors, IsFree, Sectors
    <3>2. QED
      BY <1>4, <2>1, <3>1 DEF Flushable
  <2>2. QED
    BY <2>1
<1>5. QED
  BY <1>3, <1>4 DEF FlushDone, LoopOver

\* With a device that takes every write, a page is clean when it is replaced.
LEMMA VictimStep ==
    ASSUME IInv, VictimIsClean, "write" \notin Faults, NEW t \in Threads, Act(t)
    PROVE  VictimIsClean'
<1> SUFFICES ASSUME NEW u \in Threads, pc'[u] = "load"
             PROVE  ~entries'[page'[u]].dirty
  BY DEF VictimIsClean
<1>1. /\ pc \in [Threads -> {"idle", "lock", "flush"} \cup AccessPcs \cup FlushPcs]
      /\ page \in [Threads -> Pages]
      /\ entries \in [Pages -> [sector : Sectors \cup {CACHE_FREE},
                               count : 0 .. SectorsPerPage, dirty : BOOLEAN]]
  BY DEF IInv, TypeOK
<1>2. CASE u = t
  <2>1. CASE LookupMiss(t)
    <3>1. PICK p \in Pages : page' = [page EXCEPT ![t] = p] /\ ~NeedsFlush(p)
      BY <1>1, <1>2, <2>1 DEF LookupMiss
    <3>2. ~entries[p].dirty
      BY <3>1 DEF NeedsFlush, IInv, PagesHoldSectors
    <3>3. page'[t] = p /\ entries' = entries
      BY <1>1, <2>1, <3>1 DEF LookupMiss
    <3>4. QED
      BY <1>2, <3>2, <3>3
  <2>2. CASE FlushDone(t)
    <3>1. accessMutex = t /\ entries' = entries /\ page' = page
      BY <1>1, <1>2, <2>2 DEF FlushDone, FlushReturn
    <3>2. Dirty = {}
      BY <2>2, <3>1, FlushLeavesClean
    <3>3. QED
      BY <1>1, <3>1, <3>2 DEF Dirty
  <2>3. CASE pc'[t] # "load"
    BY <1>2, <2>3
  <2>4. QED
    BY <1>1, <2>1, <2>2, <2>3
    DEF Act, Step, StartRead, StartWrite, StartFlush, LockAccess, FlushLock, LookupHit,
        Load, LoadFails, CopyOut, CopyIn, MarkDirty, FlushPick, FlushProgram, FlushClear, FlushFails
<1>3. CASE u # t
  <2>1. pc[u] = "load" /\ page'[u] = page[u] /\ page[u] \in Pages
    BY <1>1, <1>3, OthersWait DEF IInv
  <2>2. accessMutex # t
    BY <1>3, <2>1 DEF IInv, MutexOwners, OwnsAccess, AccessPcs
  <2>3. entries'[page[u]].dirty => entries[page[u]].dirty
    BY <2>1, <2>2, EntriesStep
  <2>4. QED
    BY <2>1, <2>3 DEF VictimIsClean
<1>4. QED
  BY <1>2, <1>3
-----------------------------------------------------------------------------
\* The driver's bookkeeping is consistent in every reachable state: owners of
\* the two mutexes, the request of each task, the flush in progress.
THEOREM Invariant == Spec => []IInv
<1>1. QED
  BY InitInv, InvStep, PTL DEF Spec

\* Types, for any number of tasks, pages and sectors and any device fault.
THEOREM TypeCorrect == Spec => []TypeOK
<1>1. IInv => TypeOK
  BY DEF IInv
<1>2. QED
  BY <1>1, Invariant, PTL

\* getPage never replaces a page whose data is not in the flash, as long as
\* the device takes every write: its own flush finishes the entry it chose,
\* whatever tasks flush, read and write beside it.
THEOREM EvictionIsSafe ==
    ASSUME "write" \notin Faults
    PROVE  Spec => []VictimIsClean
<1>1. Init => VictimIsClean
  BY DEF Init, VictimIsClean
<1>2. IInv /\ VictimIsClean /\ [Next]_vars => VictimIsClean'
  <2> SUFFICES ASSUME IInv, VictimIsClean, [Next]_vars PROVE VictimIsClean'
    OBVIOUS
  <2>1. CASE UNCHANGED vars
    BY <2>1 DEF vars, VictimIsClean
  <2>2. ASSUME NEW t \in Threads, Act(t) PROVE VictimIsClean'
    BY <2>2, VictimStep
  <2>3. QED
    BY <2>1, <2>2 DEF Next, Act
<1>3. QED
  BY <1>1, <1>2, Invariant, PTL DEF Spec
-----------------------------------------------------------------------------
(***************************************************************************)
(* Requests come to an end: somebody can always go on, and every step of a *)
(* request leaves less of it.                                              *)
(***************************************************************************)
\* Every nonempty set of natural numbers has a least element.
LEMMA LeastNumber ==
    ASSUME NEW S \in SUBSET Nat, S # {}
    PROVE  \E n \in S : \A m \in S : n <= m
<1> DEFINE R == OpToRel(<, Nat)
<1>1. IsWellFoundedOn(R, Nat)
  BY NatLessThanWellFounded
<1>2. \A m, n \in Nat : <<m, n>> \in R <=> m < n
  BY Zenon DEF OpToRel
<1> HIDE DEF R
<1>3. PICK n \in S : \A m \in S : ~(<<m, n>> \in R)
  BY <1>1, WFMin
<1>4. \A m \in S : m \in Nat /\ n \in Nat /\ ~(m < n)
  BY <1>2, <1>3, Zenon
<1>5. \A m \in S : n <= m
  BY <1>4
<1>6. QED
  BY <1>5

\* last_access orders the pages: older is transitive and irreflexive.
OlderIsOrder ==
    \A p \in Pages : /\ p \notin older[p]
                     /\ \A q \in older[p] : older[q] \subseteq older[p]

\* accessTime() grows, so that the page it is given to comes after all others.
LEMMA TouchKeepsOrder ==
    ASSUME TypeOK, OlderIsOrder, NEW r \in Pages, older' = Touch(r)
    PROVE  OlderIsOrder'
<1>1. older'[r] = Pages \ {r} /\ \A p \in Pages \ {r} : older'[p] = older[p] \ {r}
  BY DEF Touch
<1>2. \A p \in Pages : older[p] \subseteq Pages
  BY DEF TypeOK
<1>3. ASSUME NEW p \in Pages
      PROVE  p \notin older'[p] /\ \A q \in older'[p] : older'[q] \subseteq older'[p]
  <2>1. CASE p = r
    BY <1>1, <1>2, <2>1
  <2>2. CASE p # r
    <3>1. older'[p] = older[p] \ {r} /\ p \notin older[p]
      BY <1>1, <2>2 DEF OlderIsOrder
    <3>2. ASSUME NEW q \in older'[p] PROVE older'[q] \subseteq older'[p]
      <4>1. q \in older[p] /\ q \in Pages \ {r}
        BY <1>2, <3>1, <3>2
      <4>2. older'[q] = older[q] \ {r} /\ older[q] \subseteq older[p]
        BY <1>1, <4>1 DEF OlderIsOrder
      <4>3. QED
        BY <3>1, <4>2
    <3>3. QED
      BY <3>1, <3>2
  <2>3. QED
    BY <2>1, <2>2
<1>4. QED
  BY <1>3 DEF OlderIsOrder

LEMMA OrderStep ==
    ASSUME IInv, OlderIsOrder, [Next]_vars
    PROVE  OlderIsOrder'
<1>1. CASE older' = older
  BY <1>1 DEF OlderIsOrder
<1>2. ASSUME NEW t \in Threads, LookupHit(t) PROVE OlderIsOrder'
  <2>1. older' = older \/ \E r \in Pages : older' = Touch(r)
    BY <1>2 DEF LookupHit
  <2>2. QED
    BY <1>1, <2>1, TouchKeepsOrder DEF IInv
<1>3. ASSUME NEW t \in Threads, Load(t) PROVE OlderIsOrder'
  <2>1. page[t] \in Pages /\ older' = Touch(page[t])
    BY <1>3 DEF Load, IInv, TypeOK
  <2>2. QED
    BY <2>1, TouchKeepsOrder DEF IInv
<1>4. ASSUME NEW t \in Threads, Act(t), ~LookupHit(t), ~Load(t) PROVE older' = older
  BY <1>4
  DEF Act, Step, StartRead, StartWrite, StartFlush, LockAccess, FlushLock, LookupMiss, LoadFails,
      CopyOut, CopyIn, MarkDirty, FlushPick, FlushProgram, FlushClear, FlushDone, FlushFails,
      FlushReturn
<1>5. QED
  BY <1>1, <1>2, <1>3, <1>4 DEF Next, Act, vars

\* When no page is free one of them is the least recently used.
LEMMA SomeVictim ==
    ASSUME TypeOK, OlderIsOrder
    PROVE  \E p \in Pages : IsVictim(p)
<1>1. Pages \subseteq Nat /\ 0 \in Pages /\ IsFiniteSet(Pages)
  BY ConstantsAssumption, FS_Interval DEF Pages
<1>2. CASE \E q \in Pages : IsFree(q)
  <2> DEFINE S == {q \in Pages : IsFree(q)}
  <2>1. S \in SUBSET Nat /\ S # {}
    BY <1>1, <1>2
  <2>2. PICK p \in S : \A q \in S : p <= q
    BY <2>1, LeastNumber
  <2>3. QED
    BY <1>2, <2>2 DEF IsVictim
<1>3. CASE ~\E q \in Pages : IsFree(q)
  <2> DEFINE size(p) == Cardinality(older[p])
             S == {size(p) : p \in Pages}
  <2>1. \A p \in Pages : older[p] \subseteq Pages /\ IsFiniteSet(older[p]) /\ size(p) \in Nat
    BY <1>1, FS_Subset, FS_CardinalityType DEF TypeOK
  <2>2. S \in SUBSET Nat /\ S # {}
    BY <1>1, <2>1
  <2>3. PICK n \in S : \A m \in S : n <= m
    BY <2>2, LeastNumber
  <2>4. PICK p \in Pages : size(p) = n
    BY <2>3
  <2>5. ASSUME NEW q \in older[p] PROVE FALSE
    <3>1. q \in Pages /\ older[q] \subseteq older[p] /\ q \notin older[q]
      BY <2>1, <2>4 DEF OlderIsOrder
    <3>2. size(q) <= size(p) /\ (size(q) = size(p) => older[q] = older[p])
      BY <2>1, <2>4, <3>1, FS_Subset
    <3>3. size(p) <= size(q)
      BY <2>3, <2>4, <3>1
    <3>4. QED
      BY <2>1, <3>1, <3>2, <3>3
  <2>6. QED
    BY <1>3, <2>4, <2>5 DEF IsVictim
<1>4. QED
  BY <1>2, <1>3

\* A flush that finds dirty pages finds the one with the lowest sector.
LEMMA SomeLowest ==
    ASSUME TypeOK, Flushable # {}
    PROVE  \E p \in Flushable : \A q \in Flushable : entries[p].sector <= entries[q].sector
<1> DEFINE S == {entries[p].sector : p \in Flushable}
<1>1. \A p \in Flushable : entries[p].sector \in Nat
  BY ConstantsAssumption DEF Flushable, Dirty, TypeOK, Sectors
<1>2. S \in SUBSET Nat /\ S # {}
  BY <1>1
<1>3. PICK n \in S : \A m \in S : n <= m
  BY <1>2, LeastNumber
<1>4. QED
  BY <1>3

\* The task is in the driver and the code lets it go on: no mutex and no
\* device access of another task is in its way, and there is a page for it.
CanGoOn(t) ==
    \/ pc[t] = "lock" /\ accessMutex = NoThread
    \/ pc[t] = "flush" /\ flushMutex = NoThread
    \/ pc[t] = "lookup" /\ \E p \in Pages : Hit(p, req[t].sector) \/ IsVictim(p)
    \/ pc[t] = "load" /\ DeviceFree
    \/ pc[t] \in {"copy", "mark", "write", "program", "clear"}
    \/ /\ pc[t] = "pick"
       /\ \/ LoopOver
          \/ \E p \in Flushable : \A q \in Flushable : entries[p].sector <= entries[q].sector

NoStandstill == (\E t \in Threads : pc[t] # "idle") => \E t \in Threads : CanGoOn(t)

LEMMA OneCanGoOn ==
    ASSUME IInv, OlderIsOrder
    PROVE  NoStandstill
<1> SUFFICES ASSUME NEW t \in Threads, pc[t] # "idle"
             PROVE  \E u \in Threads : CanGoOn(u)
  BY DEF NoStandstill
<1>1. \A u \in Threads : pc[u] \in {"idle", "lock", "flush"} \cup AccessPcs \cup FlushPcs
  BY DEF IInv, TypeOK
<1>2. \A u \in Threads : pc[u] \in FlushPcs => CanGoOn(u)
  BY SomeLowest DEF CanGoOn, FlushPcs, LoopOver, IInv
<1>3. CASE flushMutex # NoThread
  <2>1. flushMutex \in Threads /\ pc[flushMutex] \in FlushPcs
    BY <1>3 DEF IInv, TypeOK, MutexOwners
  <2>2. QED
    BY <1>2, <2>1
<1>4. CASE flushMutex = NoThread
  <2>1. \A u \in Threads : pc[u] \notin FlushPcs
    BY <1>4, ConstantsAssumption DEF IInv, MutexOwners
  <2>2. DeviceFree
    BY <2>1 DEF DeviceFree, FlushPcs
  <2>3. \A u \in Threads : pc[u] \in AccessPcs \cup {"flush"} => CanGoOn(u)
    BY <1>4, <2>2, SomeVictim DEF CanGoOn, AccessPcs, IInv
  <2>4. CASE accessMutex = NoThread
    BY <1>1, <2>1, <2>3, <2>4 DEF CanGoOn
  <2>5. CASE accessMutex # NoThread
    <3>1. accessMutex \in Threads /\ OwnsAccess(accessMutex)
      BY <2>5 DEF IInv, TypeOK, MutexOwners
    <3>2. pc[accessMutex] \in AccessPcs \cup {"flush"}
      BY <2>1, <3>1 DEF OwnsAccess
    <3>3. QED
      BY <2>3, <3>1, <3>2
  <2>6. QED
    BY <2>4, <2>5
<1>5. QED
  BY <1>3, <1>4

\* The driver never stands still: while a task is in it, some task can go on.
\* The two mutexes and the one of the device are never waited for in a circle,
\* a lookup that misses always finds a page to replace, and a flush that finds
\* dirty pages finds the lowest one.
THEOREM DriverGoesOn == Spec => []NoStandstill
<1>1. Init => OlderIsOrder
  BY DEF Init, OlderIsOrder
<1>2. IInv /\ OlderIsOrder => NoStandstill
  BY OneCanGoOn
<1>3. QED
  BY <1>1, <1>2, OrderStep, Invariant, PTL DEF Spec

\* What a request still has to do, the most important first: the sectors to
\* serve, the place on the way to the next page, the rounds of its flush, the
\* place in the round, and the sectors of the page that is programmed.
SectorsLeft(t) == IF req[t] \in Transfers THEN req[t].num ELSE 0

Place(s) == CASE s = "idle"   -> 0
              [] s = "copy"   -> 1
              [] s = "load"   -> 2
              [] s \in FlushPcs -> 3
              [] s = "flush"  -> 4
              [] s = "lookup" -> 5
              [] s = "lock"   -> 6
              [] s = "mark"   -> 7

RoundsLeft     == NumberOfPages - flush.i
RoundPlace(s)  == IF s = "pick" THEN 2 ELSE IF s = "clear" THEN 0 ELSE 1
SectorsToWrite == flush.count - flush.done

\* The round of the flush goes on, or the next round begins.
FlushShrinks(t) ==
    \/ RoundsLeft' < RoundsLeft
    \/ /\ RoundsLeft' = RoundsLeft
       /\ \/ RoundPlace(pc'[t]) < RoundPlace(pc[t])
          \/ RoundPlace(pc'[t]) = RoundPlace(pc[t]) /\ SectorsToWrite' < SectorsToWrite

Shrinks(t) ==
    \/ SectorsLeft(t)' < SectorsLeft(t)
    \/ /\ SectorsLeft(t)' = SectorsLeft(t)
       /\ \/ Place(pc'[t]) < Place(pc[t])
          \/ pc[t] \in FlushPcs /\ pc'[t] \in FlushPcs /\ FlushShrinks(t)

\* The request of the task is as it was, its flush included.
Rests(t) ==
    /\ pc'[t] = pc[t] /\ req'[t] = req[t]
    /\ pc[t] \in FlushPcs => flush' = flush

RequestsShrink == [][\A t \in Threads : pc[t] # "idle" => Shrinks(t) \/ Rests(t)]_vars

\* None of the amounts ever falls below zero, so that a request has an end.
AmountsLeft ==
    \A t \in Threads :
        /\ SectorsLeft(t) \in Nat
        /\ pc[t] \in FlushPcs => RoundsLeft \in Nat
        /\ pc[t] \in {"write", "program"} => SectorsToWrite \in Nat

\* Serving a page leaves fewer sectors of the request.
LEMMA RestIsLess ==
    ASSUME TypeOK, RequestMatchesPc, CopyHits, NEW t \in Threads, pc[t] = "copy",
           req'[t] = Rest(req[t], ChunkSize(t))
    PROVE  SectorsLeft(t)' < SectorsLeft(t)
<1>1. req[t] \in Transfers /\ ChunkSize(t) \in 1 .. req[t].num /\ req[t].num \in Nat
  BY ChunkFacts, TransferFacts
<1>2. req'[t] \in Transfers => req'[t].num = req[t].num - ChunkSize(t)
  <2>1. NoRequest \notin Transfers
    BY TransferFacts
  <2>2. CASE ChunkSize(t) = req[t].num
    BY <2>1, <2>2 DEF Rest
  <2>3. CASE ChunkSize(t) # req[t].num
    BY <1>1, <2>3, RestFacts
  <2>4. QED
    BY <2>2, <2>3
<1>3. QED
  BY <1>1, <1>2 DEF SectorsLeft

\* A step of a task that is in the driver.
LEMMA OwnStepShrinks ==
    ASSUME IInv, NEW t \in Threads, Act(t), pc[t] # "idle"
    PROVE  Shrinks(t)
<1>1. /\ pc \in [Threads -> {"idle", "lock", "flush"} \cup AccessPcs \cup FlushPcs]
      /\ req \in [Threads -> {NoRequest, FlushRequest} \cup Transfers]
      /\ TypeOK
  BY DEF IInv, TypeOK
<1>2. CASE req' = req /\ Place(pc'[t]) < Place(pc[t])
  BY <1>2 DEF Shrinks, SectorsLeft
<1>3. CASE LockAccess(t) \/ LookupHit(t) \/ LookupMiss(t) \/ FlushLock(t) \/ Load(t)
  <2>1. req' = req /\ Place(pc'[t]) < Place(pc[t])
    BY <1>1, <1>3 DEF LockAccess, LookupHit, LookupMiss, FlushLock, Load, Place, FlushPcs
  <2>2. QED
    BY <1>2, <2>1
<1>4. CASE LoadFails(t)
  <2>1. req[t] \in Transfers /\ req'[t] = NoRequest
    BY <1>1, <1>4 DEF LoadFails, IInv, RequestMatchesPc
  <2>2. NoRequest \notin Transfers /\ req[t].num \in Nat \ {0}
    BY <2>1, TransferFacts
  <2>3. QED
    BY <2>1, <2>2 DEF Shrinks, SectorsLeft
<1>5. CASE CopyOut(t) \/ CopyIn(t)
  <2>1. pc[t] = "copy" /\ req'[t] = Rest(req[t], ChunkSize(t))
    BY <1>1, <1>5 DEF CopyOut, CopyIn
  <2>2. QED
    BY <1>1, <2>1, RestIsLess DEF Shrinks, IInv
<1>6. CASE MarkDirty(t)
  <2>1. req' = req /\ Place(pc'[t]) < Place(pc[t])
    BY <1>1, <1>6 DEF MarkDirty, Place, FlushPcs
  <2>2. QED
    BY <1>2, <2>1
<1>7. CASE FlushPick(t)
  <2>1. req' = req /\ pc[t] = "pick" /\ pc'[t] = "write" /\ RoundsLeft' = RoundsLeft
    BY <1>1, <1>7 DEF FlushPick, RoundsLeft
  <2>2. QED
    BY <2>1 DEF Shrinks, SectorsLeft, FlushShrinks, RoundPlace, FlushPcs
<1>8. CASE FlushProgram(t)
  <2>1. /\ req' = req /\ pc[t] \in {"write", "program"} /\ pc'[t] \in {"clear", "program"}
        /\ flush.done \in Int /\ flush.count \in Int
        /\ flush'.done = flush.done + 1 /\ flush'.count = flush.count /\ flush'.i = flush.i
    BY <1>1, <1>8, ConstantsAssumption DEF FlushProgram, TypeOK
  <2>2. RoundsLeft' = RoundsLeft /\ SectorsToWrite' < SectorsToWrite
    BY <2>1 DEF RoundsLeft, SectorsToWrite
  <2>3. QED
    BY <2>1, <2>2 DEF Shrinks, SectorsLeft, FlushShrinks, RoundPlace, FlushPcs
<1>9. CASE FlushClear(t)
  <2>1. /\ req' = req /\ pc[t] = "clear" /\ pc'[t] = "pick"
        /\ flush.i \in Int /\ flush'.i = flush.i + 1
    BY <1>1, <1>9, ConstantsAssumption DEF FlushClear, TypeOK
  <2>2. RoundsLeft' < RoundsLeft
    BY <2>1, ConstantsAssumption DEF RoundsLeft
  <2>3. QED
    BY <2>1, <2>2 DEF Shrinks, SectorsLeft, FlushShrinks, FlushPcs
<1>10. CASE FlushDone(t) \/ FlushFails(t)
  <2>1. FlushReturn(t) /\ pc[t] \in FlushPcs
    BY <1>10 DEF FlushDone, FlushFails, FlushPcs
  <2>2. Place(pc'[t]) < Place(pc[t])
    BY <1>1, <2>1 DEF FlushReturn, Place, FlushPcs
  <2>3. CASE accessMutex = t
    BY <1>2, <2>1, <2>2, <2>3 DEF FlushReturn
  <2>4. CASE accessMutex # t
    <3>1. req[t] \in Transfers \cup {FlushRequest} /\ ~OwnsAccess(t)
      BY <2>1, <2>4 DEF IInv, RequestMatchesPc, MutexOwners
    <3>2. req[t] = FlushRequest /\ req'[t] = NoRequest
      BY <1>1, <2>1, <2>4, <3>1 DEF OwnsAccess, FlushReturn
    <3>3. FlushRequest \notin Transfers /\ NoRequest \notin Transfers
      BY TransferFacts
    <3>4. QED
      BY <2>2, <3>2, <3>3 DEF Shrinks, SectorsLeft
  <2>5. QED
    BY <2>3, <2>4
<1>11. QED
  BY <1>3, <1>4, <1>5, <1>6, <1>7, <1>8, <1>9, <1>10
  DEF Act, Step, StartRead, StartWrite, StartFlush

\* A step of another task.
LEMMA OtherRests ==
    ASSUME IInv, NEW t \in Threads, Act(t), NEW u \in Threads, u # t
    PROVE  Rests(u)
<1>1. pc'[u] = pc[u] /\ req'[u] = req[u]
  BY OthersWait DEF IInv
<1>2. ASSUME pc[u] \in FlushPcs PROVE flush' = flush
  <2>1. flushMutex = u /\ u # NoThread
    BY <1>2, ConstantsAssumption DEF IInv, MutexOwners
  <2>2. 0 \in Pages
    BY ConstantsAssumption DEF Pages
  <2>3. QED
    BY <2>1, <2>2, EntriesStep
<1>3. QED
  BY <1>1, <1>2 DEF Rests

\* A request that is under way never gets longer: each step of its task leaves
\* less of it, down a ladder of natural numbers, and the steps of the others
\* leave it alone.  A page made dirty again costs a flush no further round.
THEOREM RequestsEnd == Spec => []AmountsLeft /\ RequestsShrink
<1>1. IInv => AmountsLeft
  <2> SUFFICES ASSUME IInv, NEW t \in Threads
               PROVE  /\ SectorsLeft(t) \in Nat
                      /\ pc[t] \in FlushPcs => RoundsLeft \in Nat
                      /\ pc[t] \in {"write", "program"} => SectorsToWrite \in Nat
    BY DEF AmountsLeft
  <2>1. SectorsLeft(t) \in Nat
    BY TransferFacts DEF SectorsLeft
  <2>2. RoundsLeft \in Nat
    BY ConstantsAssumption DEF RoundsLeft, IInv, TypeOK
  <2>3. pc[t] \in {"write", "program"} => SectorsToWrite \in Nat
    BY ConstantsAssumption DEF SectorsToWrite, IInv, TypeOK, FlushIsSane
  <2>4. QED
    BY <2>1, <2>2, <2>3
<1>2. IInv /\ [Next]_vars => [\A t \in Threads : pc[t] # "idle" => Shrinks(t) \/ Rests(t)]_vars
  <2> SUFFICES ASSUME IInv, Next, NEW u \in Threads, pc[u] # "idle"
               PROVE  Shrinks(u) \/ Rests(u)
    OBVIOUS
  <2>1. PICK t \in Threads : Act(t)
    BY DEF Next, Act
  <2>2. QED
    BY <2>1, OwnStepShrinks, OtherRests
<1>3. QED
  BY <1>1, <1>2, Invariant, PTL DEF Spec, RequestsShrink
=============================================================================
