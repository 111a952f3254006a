-------------------------- MODULE NorCacheContents --------------------------
(***************************************************************************)
(* Proofs about what the pages of NorCache contain, when no flush runs     *)
(* beside a writer: either only getPage flushes, or one task does all.     *)
(***************************************************************************)
EXTENDS NorCachePages

\* No task calls ioctl FLUSH, or there is no other task it could disturb.
FlushesAlone == FlushCallers = {} \/ \A t, u \in Threads : t = u

\* Without callers of ioctl FLUSH, a flush is one that getPage makes.
OnlyEvictionsFlush ==
    FlushCallers = {} =>
        \A t \in Threads : pc[t] \in {"flush"} \cup FlushPcs => req[t] \in Transfers

\* An entry that was never used has no sectors.
FreeIsEmpty == \A p \in Pages : IsFree(p) => entries[p].count = 0

\* What the flush in progress has programmed is what its page holds, and all
\* of the page is programmed when its flag is cleared.
ProgrammedSoFar ==
    \A t \in Threads :
        pc[t] \in {"write", "program", "clear"} =>
            /\ pc[t] = "clear" => flush.done = flush.count
            /\ \A k \in Offsets :
                  k < flush.done => cache[flush.index][k] = nor[flush.sector + k]

\* A task outside the driver has no request outstanding.
IdleHasNone == \A t \in Threads : pc[t] = "idle" => req[t] = NoRequest

CInv == /\ OnlyEvictionsFlush
        /\ FreeIsEmpty
        /\ ProgrammedSoFar
        /\ IdleHasNone
        /\ FlushNames

\* What holds when flushes run alone, whatever the device refuses,
Alone == IInv /\ PInv /\ CInv

\* and what holds when it refuses nothing.
Known == Alone /\ CleanMatchesFlash /\ VictimIsClean
-----------------------------------------------------------------------------
\* No flush is under way while a task works on a page.
LEMMA NoFlushBeside ==
    ASSUME IInv, OnlyEvictionsFlush, FlushesAlone,
           NEW t \in Threads, NEW u \in Threads, pc[t] \in FlushPcs
    PROVE  pc[u] \notin AccessPcs
<1>1. CASE t = u
  BY <1>1 DEF FlushPcs, AccessPcs
<1>2. CASE t # u
  <2>1. req[t] \in Transfers
    BY <1>2 DEF FlushesAlone, OnlyEvictionsFlush
  <2>2. OwnsAccess(t)
    BY <2>1 DEF OwnsAccess
  <2>3. ~OwnsAccess(u)
    BY <1>2, <2>2 DEF IInv, MutexOwners
  <2>4. QED
    BY <2>3 DEF OwnsAccess
<1>3. QED
  BY <1>1, <1>2

\* A page's sectors are sectors of the partition.
LEMMA InPartition ==
    ASSUME IInv, PInv, NEW p \in Pages, ~IsFree(p), NEW k \in Offsets, k < entries[p].count
    PROVE  entries[p].sector + k \in Sectors /\ Hit(p, entries[p].sector + k)
<1>1. entries[p].sector \in Sectors /\ entries[p].count \in Nat /\ k \in Nat
  BY ConstantsAssumption DEF IInv, TypeOK, IsFree, Offsets
<1>2. entries[p].sector + entries[p].count <= EndOfPartition + 1
  BY <1>1, PageFacts DEF PInv, PagesAligned
<1>3. QED
  BY <1>1, <1>2, ConstantsAssumption DEF Sectors, Hit

\* Flushes stay those of getPage.
LEMMA EvictionsStep ==
    ASSUME Alone, NEW t \in Threads, Act(t)
    PROVE  OnlyEvictionsFlush'
<1> SUFFICES ASSUME FlushCallers = {}, NEW u \in Threads, pc'[u] \in {"flush"} \cup FlushPcs
             PROVE  req'[u] \in Transfers
  BY DEF OnlyEvictionsFlush
<1>1. /\ pc \in [Threads -> {"idle", "lock", "flush"} \cup AccessPcs \cup FlushPcs]
      /\ req \in [Threads -> {NoRequest, FlushRequest} \cup Transfers]
      /\ pc[t] \in {"flush"} \cup FlushPcs => req[t] \in Transfers
      /\ pc[t] = "lookup" => req[t] \in Transfers
  BY DEF Alone, IInv, TypeOK, CInv, OnlyEvictionsFlush, RequestMatchesPc
<1>2. CASE u = t
  <2>1. CASE LookupMiss(t)
    BY <1>1, <1>2, <2>1 DEF LookupMiss
  <2>2. CASE FlushLock(t) \/ FlushPick(t) \/ FlushProgram(t) \/ FlushClear(t)
    BY <1>1, <1>2, <2>2 DEF FlushLock, FlushPick, FlushProgram, FlushClear, FlushPcs
  <2>3. CASE pc'[t] \notin {"flush"} \cup FlushPcs
    BY <1>2, <2>3
  <2>4. QED
    BY <1>1, <2>1, <2>2, <2>3
    DEF Act, Step, StartRead, StartWrite, StartFlush, LockAccess, LookupHit, Load, LoadFails,
        CopyOut, CopyIn, MarkDirty, FlushDone, FlushFails, FlushReturn, FlushPcs
<1>3. CASE u # t
  BY <1>3, OthersWait DEF Alone, IInv, CInv, OnlyEvictionsFlush
<1>4. QED
  BY <1>2, <1>3

\* A load gives its entry a sector; no step takes one back.
LEMMA FreeStep ==
    ASSUME Alone, NEW t \in Threads, Act(t)
    PROVE  FreeIsEmpty'
<1> SUFFICES ASSUME NEW p \in Pages, entries'[p].sector = CACHE_FREE
             PROVE  entries'[p].count = 0
  BY DEF FreeIsEmpty, IsFree
<1>1. CASE entries'[p].sector = entries[p].sector /\ entries'[p].count = entries[p].count
  BY <1>1 DEF Alone, CInv, FreeIsEmpty, IsFree
<1>2. CASE Load(t) /\ entries'[p].sector = PageBase(req[t].sector)
  BY <1>2, LoadStep, ConstantsAssumption DEF Alone, Sectors
<1>3. QED
  BY <1>1, <1>2, RenameStep DEF Alone

\* A task leaves the driver when nothing of its request remains.
LEMMA IdleStep ==
    ASSUME Alone, NEW t \in Threads, Act(t)
    PROVE  IdleHasNone'
<1> SUFFICES ASSUME NEW u \in Threads, pc'[u] = "idle" PROVE req'[u] = NoRequest
  BY DEF IdleHasNone
<1>1. /\ pc \in [Threads -> {"idle", "lock", "flush"} \cup AccessPcs \cup FlushPcs]
      /\ req \in [Threads -> {NoRequest, FlushRequest} \cup Transfers]
  BY DEF Alone, IInv, TypeOK
<1>2. CASE u = t
  <2>1. CASE CopyOut(t)
    BY <1>1, <1>2, <2>1 DEF CopyOut
  <2>2. CASE MarkDirty(t)
    BY <1>1, <1>2, <2>2 DEF MarkDirty
  <2>3. CASE LoadFails(t) \/ FlushDone(t) \/ FlushFails(t)
    BY <1>1, <1>2, <2>3 DEF LoadFails, FlushDone, FlushFails, FlushReturn
  <2>4. CASE pc'[t] # "idle"
    BY <1>2, <2>4
  <2>5. QED
    BY <1>1, <2>1, <2>2, <2>3, <2>4
    DEF Act, Step, StartRead, StartWrite, StartFlush, LockAccess, FlushLock, LookupHit, LookupMiss,
        Load, CopyIn, FlushPick, FlushProgram, FlushClear
<1>3. CASE u # t
  BY <1>3, OthersWait DEF Alone, IInv, CInv, IdleHasNone
<1>4. QED
  BY <1>2, <1>3
-----------------------------------------------------------------------------
\* Steps that touch neither a page's data nor its entry nor the flash.
Quiet(t) == \/ StartRead(t) \/ StartWrite(t) \/ StartFlush(t)
            \/ LockAccess(t) \/ FlushLock(t) \/ LookupHit(t) \/ LookupMiss(t)
            \/ CopyOut(t) \/ FlushPick(t) \/ FlushDone(t) \/ FlushFails(t)

\* A page that no task is writing into after a step was not written into
\* before it, unless the step is the dirty = true of that page.
LEMMA MarkedBefore ==
    ASSUME Alone, NEW t \in Threads, Act(t), ~MarkDirty(t), NEW p \in Pages,
           \A u \in Threads : pc'[u] = "mark" => page'[u] # p
    PROVE  \A u \in Threads : pc[u] = "mark" => page[u] # p
<1>1. pc[t] # "mark"
  BY DEF Act, Step, StartRead, StartWrite, StartFlush, LockAccess, FlushLock, LookupHit, LookupMiss,
         Load, LoadFails, CopyOut, CopyIn, FlushPick, FlushProgram, FlushClear, FlushDone, FlushFails
<1>2. QED
  BY <1>1, OthersWait DEF Alone, IInv

\* A clean page equals the flash after every step.
LEMMA CleanStep ==
    ASSUME Alone, CleanMatchesFlash, "read" \notin Faults, NEW t \in Threads, Act(t)
    PROVE  CleanMatchesFlash'
<1> SUFFICES ASSUME NEW p \in Pages, ~entries'[p].dirty,
                    \A u \in Threads : pc'[u] = "mark" => page'[u] # p,
                    NEW k \in Offsets, k < entries'[p].count
             PROVE  cache'[p][k] = nor'[entries'[p].sector + k]
  BY DEF CleanMatchesFlash
<1>1. /\ entries \in [Pages -> [sector : Sectors \cup {CACHE_FREE},
                               count : 0 .. SectorsPerPage, dirty : BOOLEAN]]
      /\ cache \in [Pages -> [Offsets -> Data]] /\ nor \in [Sectors -> Data]
      /\ pc \in [Threads -> {"idle", "lock", "flush"} \cup AccessPcs \cup FlushPcs]
      /\ flush.index \in Pages /\ page[t] \in Pages
      /\ flush.sector \in Nat /\ flush.count \in Nat /\ flush.done \in Nat
  BY ConstantsAssumption DEF Alone, IInv, TypeOK, Sectors
<1>2. ~MarkDirty(t) => \A u \in Threads : pc[u] = "mark" => page[u] # p
  BY MarkedBefore
<1>3. CASE Quiet(t)
  <2>1. entries' = entries /\ cache' = cache /\ nor' = nor /\ ~MarkDirty(t)
    BY <1>3
    DEF Quiet, StartRead, StartWrite, StartFlush, LockAccess, FlushLock, LookupHit, LookupMiss,
        CopyOut, FlushPick, FlushDone, FlushFails, FlushReturn, MarkDirty
  <2>2. QED
    BY <1>2, <2>1 DEF CleanMatchesFlash
<1>4. CASE Load(t)
  <2> DEFINE base == PageBase(req[t].sector)
  <2>1. nor' = nor /\ ~MarkDirty(t)
    BY <1>4 DEF Load, MarkDirty
  <2>2. CASE p = page[t]
    <3>1. entries'[p].sector = base /\ entries'[p].count = PageCount(base)
      BY <1>1, <1>4, <2>2 DEF Load
    <3>2. cache'[p][k] = nor[base + k]
      BY <1>1, <1>4, <2>2, <3>1 DEF Load
    <3>3. QED
      BY <2>1, <3>1, <3>2
  <2>3. CASE p # page[t]
    <3>1. entries'[p] = entries[p] /\ cache'[p] = cache[p]
      BY <1>1, <1>4, <2>3 DEF Load
    <3>2. QED
      BY <1>2, <2>1, <3>1 DEF CleanMatchesFlash
  <2>4. QED
    BY <2>2, <2>3
<1>5. CASE CopyIn(t)
  <2>1. p # page[t]
    BY <1>1, <1>5 DEF CopyIn
  <2>2. entries' = entries /\ nor' = nor /\ cache'[p] = cache[p] /\ ~MarkDirty(t)
    BY <1>1, <1>5, <2>1 DEF CopyIn, MarkDirty
  <2>3. QED
    BY <1>2, <2>2 DEF CleanMatchesFlash
<1>6. CASE MarkDirty(t)
  <2>1. p # page[t] /\ entries'[p] = entries[p] /\ cache' = cache /\ nor' = nor
    BY <1>1, <1>6 DEF MarkDirty
  <2>2. \A u \in Threads : pc[u] = "mark" => page[u] # p
    BY <2>1, OthersWait DEF Alone, IInv
  <2>3. QED
    BY <2>1, <2>2 DEF CleanMatchesFlash
<1>7. CASE FlushProgram(t)
  <2> DEFINE x == flush.sector + flush.done
  <2>1. /\ entries' = entries /\ cache' = cache /\ ~MarkDirty(t)
        /\ nor' = [nor EXCEPT ![x] = cache[flush.index][flush.done]]
    BY <1>7 DEF FlushProgram, MarkDirty
  <2>2. /\ entries[flush.index].dirty /\ flush.done < flush.count
        /\ entries[flush.index].sector = flush.sector /\ entries[flush.index].count = flush.count
    BY <1>7 DEF FlushProgram, Alone, IInv, CInv, FlushIsSane, FlushNames
  <2>3. Hit(flush.index, x) /\ ~Hit(p, x) /\ ~IsFree(p)
    <3>1. Hit(flush.index, x)
      BY <1>1, <2>2 DEF Hit
    <3>2. ~IsFree(flush.index)
      BY <1>1, <2>2 DEF Alone, IInv, PagesHoldSectors
    <3>3. x \in Sectors
      BY <1>1, <2>2, <3>2, InPartition, ConstantsAssumption DEF Alone, Offsets, IInv, TypeOK
    <3>4. p # flush.index
      BY <2>1, <2>2
    <3>5. ~IsFree(p)
      BY <2>1 DEF Alone, CInv, FreeIsEmpty, Offsets
    <3>6. OnePagePerSector
      BY HeldOnce DEF Alone, IInv, PInv
    <3>7. ~Hit(p, x)
      BY <1>1, <3>1, <3>3, <3>4, <3>6 DEF OnePagePerSector
    <3>8. QED
      BY <3>1, <3>5, <3>7
  <2>4. entries[p].sector + k \in Sectors /\ Hit(p, entries[p].sector + k)
    BY <2>1, <2>3, InPartition DEF Alone
  <2>5. nor'[entries[p].sector + k] = nor[entries[p].sector + k]
    BY <1>1, <2>1, <2>3, <2>4
  <2>6. QED
    BY <1>2, <2>1, <2>5 DEF CleanMatchesFlash
<1>8. CASE FlushClear(t)
  <2>1. cache' = cache /\ nor' = nor /\ ~MarkDirty(t) /\ pc[t] = "clear"
    BY <1>8 DEF FlushClear, MarkDirty
  <2>2. entries'[p].sector = entries[p].sector /\ entries'[p].count = entries[p].count
    BY <1>1, <1>8 DEF FlushClear
  <2>3. CASE p = flush.index
    <3>1. flush.done = entries[p].count /\ flush.sector = entries[p].sector
      BY <2>1, <2>3 DEF Alone, CInv, ProgrammedSoFar, FlushNames
    <3>2. QED
      BY <2>1, <2>2, <2>3, <3>1 DEF Alone, CInv, ProgrammedSoFar
  <2>4. CASE p # flush.index
    <3>1. entries'[p] = entries[p]
      BY <1>1, <1>8, <2>4 DEF FlushClear
    <3>2. QED
      BY <1>2, <2>1, <3>1 DEF CleanMatchesFlash
  <2>5. QED
    BY <2>3, <2>4
<1>9. ~LoadFails(t)
  BY DEF LoadFails
<1>10. QED
  BY <1>3, <1>4, <1>5, <1>6, <1>7, <1>8, <1>9 DEF Act, Step, Quiet

\* The flush's work so far stands: nobody writes into its page beside it.
LEMMA ProgrammedStep ==
    ASSUME Alone, FlushesAlone, NEW t \in Threads, Act(t)
    PROVE  ProgrammedSoFar'
<1> SUFFICES ASSUME NEW u \in Threads, pc'[u] \in {"write", "program", "clear"}
             PROVE  /\ pc'[u] = "clear" => flush'.done = flush'.count
                    /\ \A k \in Offsets : k < flush'.done =>
                           cache'[flush'.index][k] = nor'[flush'.sector + k]
  BY DEF ProgrammedSoFar
<1>1. /\ pc \in [Threads -> {"idle", "lock", "flush"} \cup AccessPcs \cup FlushPcs]
      /\ cache \in [Pages -> [Offsets -> Data]] /\ nor \in [Sectors -> Data]
      /\ flush \in [i : 0 .. NumberOfPages, index : Pages,
                    sector : Sectors \cup {0}, count : 0 .. SectorsPerPage,
                    done : 0 .. SectorsPerPage]
      /\ flush.sector \in Nat /\ flush.count \in Nat /\ flush.done \in Nat
  BY ConstantsAssumption DEF Alone, IInv, TypeOK, Sectors
<1>2. CASE u = t
  <2>1. CASE FlushPick(t)
    <3>1. pc'[t] = "write" /\ flush'.done = 0
      BY <1>1, <2>1 DEF FlushPick
    <3>2. QED
      BY <1>2, <3>1 DEF Offsets
  <2>2. CASE FlushProgram(t)
    <3> DEFINE x == flush.sector + flush.done
    <3>1. /\ flush' = [flush EXCEPT !.done = flush.done + 1] /\ cache' = cache
          /\ nor' = [nor EXCEPT ![x] = cache[flush.index][flush.done]]
          /\ pc'[t] = IF flush.done + 1 = flush.count THEN "clear" ELSE "program"
          /\ pc[t] \in {"write", "program"}
      BY <1>1, <2>2 DEF FlushProgram
    <3>2. /\ flush'.done = flush.done + 1 /\ flush'.count = flush.count
          /\ flush'.index = flush.index /\ flush'.sector = flush.sector
      BY <1>1, <3>1
    <3>3. /\ entries[flush.index].dirty /\ flush.done < flush.count
          /\ entries[flush.index].sector = flush.sector
          /\ entries[flush.index].count = flush.count
      BY <3>1 DEF Alone, IInv, CInv, FlushIsSane, FlushNames
    <3>4. ~IsFree(flush.index)
      BY <1>1, <3>3 DEF Alone, IInv, PagesHoldSectors
    <3>5. ASSUME NEW k \in Offsets, k < flush.done + 1
          PROVE  cache[flush.index][k] = nor'[flush.sector + k]
      <4>1. flush.sector + k \in Sectors /\ k \in Nat
        BY <1>1, <3>3, <3>4, <3>5, InPartition DEF Alone, Offsets
      <4>2. CASE k = flush.done
        BY <1>1, <3>1, <4>1, <4>2
      <4>3. CASE k # flush.done
        <5>1. nor'[flush.sector + k] = nor[flush.sector + k]
          BY <1>1, <3>1, <4>1, <4>3
        <5>2. k < flush.done
          BY <1>1, <3>5, <4>1, <4>3
        <5>3. QED
          BY <3>1, <5>1, <5>2 DEF Alone, CInv, ProgrammedSoFar
      <4>4. QED
        BY <4>2, <4>3
    <3>6. QED
      BY <1>2, <3>1, <3>2, <3>5
  <2>3. CASE pc'[t] \notin {"write", "program", "clear"}
    BY <1>2, <2>3
  <2>4. QED
    BY <1>1, <2>1, <2>2, <2>3
    DEF Act, Step, StartRead, StartWrite, StartFlush, LockAccess, FlushLock, LookupHit, LookupMiss,
        Load, LoadFails, CopyOut, CopyIn, MarkDirty, FlushClear, FlushDone, FlushFails, FlushReturn
<1>3. CASE u # t
  <2>1. pc'[u] = pc[u] /\ pc[u] \in FlushPcs /\ pc[u] \in {"write", "program", "clear"}
    BY <1>3, OthersWait DEF Alone, IInv, FlushPcs
  <2>2. flushMutex = u /\ flushMutex # t /\ flushMutex # NoThread
    BY <1>3, <2>1, ConstantsAssumption DEF Alone, IInv, MutexOwners
  <2>3. pc[t] \notin AccessPcs /\ pc[t] \notin FlushPcs
    BY <2>1, <2>2, NoFlushBeside DEF Alone, CInv, IInv, MutexOwners
  <2>4. flush' = flush /\ cache' = cache /\ nor' = nor
    BY <2>2, <2>3
    DEF Act, Step, StartRead, StartWrite, StartFlush, LockAccess, FlushLock, LookupHit, LookupMiss,
        Load, LoadFails, CopyOut, CopyIn, MarkDirty, FlushPick, FlushProgram, FlushClear, FlushDone,
        FlushFails, AccessPcs, FlushPcs
  <2>5. QED
    BY <2>1, <2>4 DEF Alone, CInv, ProgrammedSoFar
<1>4. QED
  BY <1>2, <1>3
-----------------------------------------------------------------------------

\* The flush in progress has a round left for every dirty page, and the pages
\* it still owes are dirty.
FlushCovers ==
    \A t \in Threads :
        pc[t] \in FlushPcs =>
            /\ Cardinality(Dirty) + flush.i <= NumberOfPages
            /\ \A s \in owed : \E p \in Dirty : entries[p].sector = s

\* Each round takes one page away from both.
LEMMA CoversStep ==
    ASSUME Alone, FlushCovers, FlushesAlone, NEW t \in Threads, Act(t)
    PROVE  FlushCovers'
<1> SUFFICES ASSUME NEW u \in Threads, pc'[u] \in FlushPcs
             PROVE  /\ Cardinality(Dirty') + flush'.i <= NumberOfPages
                    /\ \A s \in owed' : \E p \in Dirty' : entries'[p].sector = s
  BY DEF FlushCovers
<1>1. /\ pc \in [Threads -> {"idle", "lock", "flush"} \cup AccessPcs \cup FlushPcs]
      /\ entries \in [Pages -> [sector : Sectors \cup {CACHE_FREE},
                               count : 0 .. SectorsPerPage, dirty : BOOLEAN]]
      /\ flush.i \in Nat /\ flush.index \in Pages
      /\ NumberOfPages \in Nat
  BY ConstantsAssumption DEF Alone, IInv, TypeOK
<1>2. Cardinality(Dirty) \in 0 .. NumberOfPages /\ IsFiniteSet(Dirty) /\ Dirty \subseteq Pages
  BY DirtyFacts DEF Alone, IInv
<1>3. CASE u = t
  <2>1. CASE FlushLock(t)
    <3>1. flush'.i = 0 /\ Dirty' = Dirty /\ entries' = entries
          /\ owed' = {entries[p].sector : p \in Dirty}
      BY <2>1 DEF FlushLock, NoFlush, Dirty
    <3>2. QED
      BY <1>1, <1>2, <3>1
  <2>2. CASE FlushPick(t) \/ FlushProgram(t)
    <3>1. flush'.i = flush.i
      BY <2>2 DEF FlushPick, FlushProgram, Alone, IInv, TypeOK
    <3>2. Dirty' = Dirty /\ entries' = entries /\ owed' = owed
      BY <2>2 DEF FlushPick, FlushProgram, Dirty
    <3>3. pc[t] \in FlushPcs
      BY <2>2 DEF FlushPick, FlushProgram, FlushPcs
    <3>4. QED
      BY <3>1, <3>2, <3>3 DEF FlushCovers
  <2>3. CASE FlushClear(t)
    <3>1. /\ pc[t] \in FlushPcs /\ owed' = owed \ {flush.sector}
          /\ entries[flush.index].sector = flush.sector
      BY <2>3 DEF FlushClear, FlushPcs, Alone, CInv, FlushNames
    <3>2. flush'.i = flush.i + 1
      BY <2>3 DEF FlushClear, Alone, IInv, TypeOK
    <3>3. flush.index \in Dirty
      BY <1>1, <2>3 DEF FlushClear, Alone, IInv, FlushIsSane, Dirty
    <3>4. Dirty' = Dirty \ {flush.index}
      BY <1>1, <2>3 DEF FlushClear, Dirty
    <3>5. Cardinality(Dirty') = Cardinality(Dirty) - 1
      BY <1>2, <3>3, <3>4, FS_RemoveElement
    <3>6. Cardinality(Dirty) + flush.i <= NumberOfPages
      BY <3>1 DEF FlushCovers
    <3>7. ASSUME NEW s \in owed' PROVE \E p \in Dirty' : entries'[p].sector = s
      <4>1. PICK p \in Dirty : entries[p].sector = s
        BY <3>1, <3>7 DEF FlushCovers
      <4>2. p # flush.index
        BY <3>1, <3>7, <4>1
      <4>3. entries'[p] = entries[p]
        BY <1>1, <1>2, <2>3, <4>2 DEF FlushClear
      <4>4. QED
        BY <3>4, <4>1, <4>2, <4>3
    <3>8. QED
      BY <1>1, <1>2, <3>2, <3>5, <3>6, <3>7
  <2>4. CASE pc'[t] \notin FlushPcs
    BY <1>3, <2>4
  <2>5. QED
    BY <1>1, <2>1, <2>2, <2>3, <2>4
    DEF Act, Step, StartRead, StartWrite, StartFlush, LockAccess, LookupHit, LookupMiss,
        Load, LoadFails, CopyOut, CopyIn, MarkDirty, FlushDone, FlushFails, FlushReturn, FlushPcs
<1>4. CASE u # t
  <2>1. pc[u] \in FlushPcs
    BY <1>4, OthersWait DEF Alone, IInv
  <2>2. flushMutex = u /\ flushMutex # t /\ flushMutex # NoThread
    BY <1>4, <2>1, ConstantsAssumption DEF Alone, IInv, MutexOwners
  <2>3. pc[t] \notin AccessPcs /\ pc[t] \notin FlushPcs
    BY <2>1, <2>2, NoFlushBeside DEF Alone, CInv, IInv, MutexOwners
  <2>4. flush' = flush /\ entries' = entries /\ owed' = owed
    BY <2>2, <2>3
    DEF Act, Step, StartRead, StartWrite, StartFlush, LockAccess, FlushLock, LookupHit, LookupMiss,
        Load, LoadFails, CopyOut, CopyIn, MarkDirty, FlushPick, FlushProgram, FlushClear, FlushDone,
        FlushFails, AccessPcs, FlushPcs
  <2>5. Dirty' = Dirty
    BY <2>4 DEF Dirty
  <2>6. QED
    BY <2>1, <2>4, <2>5 DEF FlushCovers
<1>5. QED
  BY <1>3, <1>4

\* A flush whose loop is over leaves no dirty page and owes nothing.
LEMMA NothingOwed ==
    ASSUME Alone, FlushCovers, NEW t \in Threads, FlushDone(t)
    PROVE  Dirty = {} /\ owed = {}
<1>1. /\ Cardinality(Dirty) + flush.i <= NumberOfPages
      /\ \A s \in owed : \E p \in Dirty : entries[p].sector = s
  BY DEF FlushDone, FlushPcs, FlushCovers
<1>2. CASE flush.i = NumberOfPages
  <2>1. Cardinality(Dirty) = 0 /\ IsFiniteSet(Dirty)
    BY <1>1, <1>2, DirtyFacts, ConstantsAssumption DEF Alone, IInv
  <2>2. Dirty = {}
    BY <2>1, FS_EmptySet
  <2>3. QED
    BY <1>1, <2>2
<1>3. CASE Flushable = {}
  <2>1. ASSUME NEW p \in Dirty PROVE FALSE
    <3>1. entries[p].sector < CACHE_FREE
      BY <2>1, ConstantsAssumption
      DEF Dirty, Alone, IInv, TypeOK, PagesHoldSectors, IsFree, Sectors
    <3>2. QED
      BY <1>3, <2>1, <3>1 DEF Flushable
  <2>2. QED
    BY <1>1, <2>1
<1>4. QED
  BY <1>2, <1>3 DEF FlushDone, LoopOver

\* A task that gives up flushMutex outside the device has finished its loop.
LEMMA FlushEnds ==
    ASSUME Alone, [Next]_vars, NEW t \in Threads,
           pc[t] = "pick", flushMutex = t, flushMutex' # t
    PROVE  FlushDone(t)
<1>1. PICK u \in Threads : Act(u)
  BY DEF Next, Act, vars
<1>2. FlushDone(u) \/ FlushFails(u)
  BY <1>1, ConstantsAssumption
  DEF Act, Step, StartRead, StartWrite, StartFlush, LockAccess, FlushLock, LookupHit, LookupMiss,
      Load, LoadFails, CopyOut, CopyIn, MarkDirty, FlushPick, FlushProgram, FlushClear
<1>3. u = t
  BY <1>2 DEF FlushDone, FlushFails, FlushPcs, Alone, IInv, MutexOwners
<1>4. QED
  BY <1>2, <1>3 DEF FlushFails

\* What holds of flushes that run alone, whatever the device refuses.
THEOREM AloneHolds ==
    ASSUME FlushesAlone
    PROVE  Spec => [](Alone /\ FlushCovers)
<1>1. Init => CInv /\ FlushCovers
  <2> SUFFICES ASSUME Init PROVE CInv /\ FlushCovers
    OBVIOUS
  <2>1. FlushNames /\ OnlyEvictionsFlush /\ ProgrammedSoFar /\ IdleHasNone /\ FlushCovers
    BY DEF Init, FlushNames, OnlyEvictionsFlush, ProgrammedSoFar, IdleHasNone, FlushCovers, FlushPcs
  <2>2. FreeIsEmpty
    BY DEF Init, FreeIsEmpty
  <2>3. QED
    BY <2>1, <2>2 DEF CInv
<1>2. IInv /\ PInv /\ CInv /\ FlushCovers /\ [Next]_vars => CInv' /\ FlushCovers'
  <2> SUFFICES ASSUME Alone, FlushCovers, [Next]_vars
               PROVE  CInv' /\ FlushCovers'
    BY DEF Alone
  <2>1. CASE UNCHANGED vars
    BY <2>1 DEF vars, Alone, CInv, FlushNames, OnlyEvictionsFlush, FreeIsEmpty, IsFree,
                ProgrammedSoFar, IdleHasNone, FlushCovers, Dirty
  <2>2. ASSUME NEW t \in Threads, Act(t) PROVE CInv' /\ FlushCovers'
    <3>1. LoadsElsewhere
      BY NoFlushBeside DEF LoadsElsewhere, Alone, CInv, AccessPcs, FlushPcs
    <3>2. FlushNames'
      BY <2>2, <3>1, NamesStep DEF Alone, CInv
    <3>3. QED
      BY <2>2, <3>2, EvictionsStep, FreeStep, IdleStep, ProgrammedStep, CoversStep DEF CInv
  <2>3. QED
    BY <2>1, <2>2 DEF Next, Act
<1>3. QED
  BY <1>1, <1>2, Invariant, Places, PTL DEF Spec, Alone

\* When no flush runs beside a writer and no page load fails, a clean page
\* equals the flash, also when the device refuses writes: evictions, page
\* loads, short last pages and flushes that stop between two sectors lose no
\* write that a finished flush covered.
THEOREM FlushedIsInFlash ==
    ASSUME FlushesAlone, "read" \notin Faults
    PROVE  Spec => []CleanMatchesFlash
<1>1. Init => CleanMatchesFlash
  <2>1. Init => \A p \in Pages : entries[p].count = 0
    BY DEF Init
  <2>2. QED
    BY <2>1, ConstantsAssumption DEF CleanMatchesFlash, Offsets
<1>2. Alone /\ CleanMatchesFlash /\ [Next]_vars => CleanMatchesFlash'
  <2> SUFFICES ASSUME Alone, CleanMatchesFlash, [Next]_vars PROVE CleanMatchesFlash'
    OBVIOUS
  <2>1. CASE UNCHANGED vars
    BY <2>1 DEF vars, CleanMatchesFlash
  <2>2. ASSUME NEW t \in Threads, Act(t) PROVE CleanMatchesFlash'
    BY <2>2, CleanStep
  <2>3. QED
    BY <2>1, <2>2 DEF Next, Act
<1>3. Spec => []Alone
  BY AloneHolds, PTL
<1>4. QED
  BY <1>1, <1>2, <1>3, PTL DEF Spec

\* When no flush runs beside a writer, a flush that reports success has
\* written every page that was dirty when it began, whatever else the device
\* refused: numberOfPages rounds are enough.
THEOREM FlushesCover ==
    ASSUME FlushesAlone
    PROVE  Spec => FlushCoversAll
<1>1. Alone /\ FlushCovers /\ [Next]_vars
      => [\A t \in Threads : pc[t] = "pick" /\ flushMutex = t /\ flushMutex' # t
              => owed = {}]_flushMutex
  BY FlushEnds, NothingOwed
<1>2. QED
  BY <1>1, AloneHolds, PTL DEF Spec, FlushCoversAll
-----------------------------------------------------------------------------
\* The steps of the refinement start from this.
THEOREM KnownHolds ==
    ASSUME FlushesAlone, Faults = {}
    PROVE  Spec => []Known
<1>1. "read" \notin Faults /\ "write" \notin Faults
  OBVIOUS
<1>2. Spec => []Alone
  BY AloneHolds, PTL
<1>3. Spec => []CleanMatchesFlash
  BY <1>1, FlushedIsInFlash
<1>4. Spec => []VictimIsClean
  BY <1>1, EvictionIsSafe
<1>5. QED
  BY <1>2, <1>3, <1>4, PTL DEF Known
-----------------------------------------------------------------------------
\* What a reader gets is decided by the one page that holds the sector.
LEMMA ContentsAre ==
    ASSUME OnePagePerSector, NEW s \in Sectors
    PROVE  /\ \A p \in Pages : Hit(p, s) => Contents[s] = cache[p][s - entries[p].sector]
           /\ (\A p \in Pages : ~Hit(p, s)) => Contents[s] = nor[s]
<1>1. ASSUME NEW p \in Pages, Hit(p, s)
      PROVE  Contents[s] = cache[p][s - entries[p].sector]
  <2>1. (CHOOSE q \in Pages : Hit(q, s)) = p
    BY <1>1 DEF OnePagePerSector
  <2>2. QED
    BY <1>1, <2>1 DEF Contents
<1>2. QED
  BY <1>1 DEF Contents

\* The same after a step.
LEMMA ContentsAreNext ==
    ASSUME OnePagePerSector', NEW s \in Sectors
    PROVE  /\ \A p \in Pages : Hit(p, s)' => Contents'[s] = cache'[p][s - entries'[p].sector]
           /\ (\A p \in Pages : ~Hit(p, s)') => Contents'[s] = nor'[s]
<1>1. ASSUME NEW p \in Pages, Hit(p, s)'
      PROVE  Contents'[s] = cache'[p][s - entries'[p].sector]
  <2>1. (CHOOSE q \in Pages : Hit(q, s)') = p
    BY <1>1 DEF OnePagePerSector
  <2>2. QED
    BY <1>1, <2>1 DEF Contents
<1>2. QED
  BY <1>1 DEF Contents
\* In reachable states, and after a step between them, a sector is cached once.
LEMMA KnownOnce == Known => OnePagePerSector
<1>1. QED
  BY HeldOnce DEF Known, Alone, IInv, PInv

LEMMA KnownOnceNext == Known' => OnePagePerSector'
<1>1. QED
  BY KnownOnce, PTL

\* A page that is clean, while no task writes into it, holds what the flash has.
LEMMA CleanHit ==
    ASSUME Alone, CleanMatchesFlash, NEW p \in Pages, ~entries[p].dirty,
           \A u \in Threads : pc[u] # "mark", NEW s \in Sectors, Hit(p, s)
    PROVE  cache[p][s - entries[p].sector] = nor[s]
<1> DEFINE k == s - entries[p].sector
<1>1. /\ entries[p].sector \in Nat /\ entries[p].count \in Nat /\ s \in Nat
      /\ entries[p].count <= SectorsPerPage
  BY ConstantsAssumption DEF Alone, IInv, TypeOK, Sectors
<1>2. k \in Offsets /\ k < entries[p].count /\ entries[p].sector + k = s
  BY <1>1, ConstantsAssumption DEF Hit, Offsets
<1>3. QED
  BY <1>2 DEF CleanMatchesFlash

\* When no flush runs beside a writer and no page load fails, the flash alone
\* has what readers get when a flush reports success: a power loss after it
\* loses no write that had returned.
THEOREM FlushIsDurable ==
    ASSUME FlushesAlone, "read" \notin Faults
    PROVE  Spec => FlushMakesDurable
<1>1. ASSUME Alone, FlushCovers, CleanMatchesFlash, NEW t \in Threads, FlushDone(t),
             NEW s \in Sectors
      PROVE  nor[s] = Contents[s]
  <2>1. Dirty = {}
    BY <1>1, NothingOwed
  <2>2. \A u \in Threads : pc[u] # "mark"
    BY <1>1, NoFlushBeside DEF Alone, CInv, FlushDone, FlushPcs, AccessPcs
  <2>3. \A p \in Pages : Hit(p, s) => cache[p][s - entries[p].sector] = nor[s]
    BY <1>1, <2>1, <2>2, CleanHit DEF Dirty
  <2>4. OnePagePerSector
    BY <1>1, HeldOnce DEF Alone, IInv, PInv
  <2>5. QED
    BY <2>3, <2>4, ContentsAre
<1>2. Alone /\ FlushCovers /\ CleanMatchesFlash /\ [Next]_vars
      => [\A t \in Threads : pc[t] = "pick" /\ flushMutex = t /\ flushMutex' # t
              => \A s \in Sectors : nor[s] = Contents[s]]_flushMutex
  BY <1>1, FlushEnds
<1>3. QED
  BY <1>2, AloneHolds, FlushedIsInFlash, PTL DEF Spec, FlushMakesDurable

\* Where every page and the flash stay, so does what a reader gets.
LEMMA ContentsStay ==
    ASSUME OnePagePerSector, OnePagePerSector', nor' = nor, cache' = cache,
           \A p \in Pages : /\ entries'[p].sector = entries[p].sector
                            /\ entries'[p].count = entries[p].count
    PROVE  Contents' = Contents
<1>1. ASSUME NEW s \in Sectors PROVE Contents'[s] = Contents[s]
  <2>1. \A p \in Pages : Hit(p, s)' <=> Hit(p, s)
    BY DEF Hit
  <2>2. CASE \E p \in Pages : Hit(p, s)
    <3>1. PICK p \in Pages : Hit(p, s)
      BY <2>2
    <3>2. QED
      BY <2>1, <3>1, ContentsAre, ContentsAreNext
  <2>3. CASE \A p \in Pages : ~Hit(p, s)
    BY <2>1, <2>3, ContentsAre, ContentsAreNext
  <2>4. QED
    BY <2>2, <2>3
<1>2. QED
  BY <1>1 DEF Contents

\* What the page that a load replaces holds is in the flash.
LEMMA VictimIsWritten ==
    ASSUME Known, NEW t \in Threads, Load(t)
    PROVE  \A k \in Offsets : k < entries[page[t]].count =>
               cache[page[t]][k] = nor[entries[page[t]].sector + k]
<1>1. page[t] \in Pages
  BY DEF Known, Alone, IInv, TypeOK
<1>2. ~entries[page[t]].dirty
  BY DEF Load, Known, VictimIsClean
<1>3. OwnsAccess(t) /\ pc[t] # "mark"
  BY DEF Load, OwnsAccess, AccessPcs
<1>4. \A u \in Threads : pc[u] # "mark"
  BY <1>3 DEF Known, Alone, IInv, MutexOwners, OwnsAccess, AccessPcs
<1>5. QED
  BY <1>1, <1>2, <1>4 DEF Known, CleanMatchesFlash

\* "When the sector is swapped out, the data will be written to the disc"
\* (cache2.h:51): true when no flush runs beside a writer and no device
\* operation fails; nor_lost_write shows it false with a flush beside a writer.
THEOREM SwappedOutWritten ==
    ASSUME FlushesAlone, Faults = {}
    PROVE  Spec => SwappedOutIsWritten
<1>1. Known /\ [Next]_vars
      => [\A p \in Pages : entries'[p].sector # entries[p].sector =>
            \A k \in Offsets : k < entries[p].count =>
                cache[p][k] = nor[entries[p].sector + k]]_entries
  <2> SUFFICES ASSUME Known, [Next]_vars,
                      NEW p \in Pages, entries'[p].sector # entries[p].sector
               PROVE  \A k \in Offsets : k < entries[p].count =>
                          cache[p][k] = nor[entries[p].sector + k]
    OBVIOUS
  <2>1. PICK t \in Threads : Act(t)
    BY DEF Next, Act, vars
  <2>2. Load(t) /\ page[t] = p
    BY <2>1, RenameStep DEF Known, Alone
  <2>3. QED
    BY <2>2, VictimIsWritten
<1>2. QED
  BY <1>1, KnownHolds, PTL DEF Spec, SwappedOutIsWritten

\* A page is loaded with what readers got from the flash, and the page it
\* replaces leaves nothing but what the flash has.
LEMMA LoadKeeps ==
    ASSUME Known, Known', NEW t \in Threads, Load(t)
    PROVE  Contents' = Contents
<1> DEFINE base == PageBase(req[t].sector)
<1>0. PICK p \in Pages : p = page[t]
  BY DEF Known, Alone, IInv, TypeOK
<1>1. /\ entries \in [Pages -> [sector : Sectors \cup {CACHE_FREE},
                               count : 0 .. SectorsPerPage, dirty : BOOLEAN]]
      /\ cache \in [Pages -> [Offsets -> Data]] /\ nor \in [Sectors -> Data]
  BY DEF Known, Alone, IInv, TypeOK
<1>2. req[t].sector \in Sectors
  BY TransferFacts DEF Load, Known, Alone, IInv, RequestMatchesPc
<1>3. /\ base \in Sectors /\ base \in Nat /\ PageBase(base) = base
      /\ PageCount(base) \in 1 .. SectorsPerPage
      /\ \A q \in Pages : ~IsFree(q) => entries[q].sector # base
  BY <1>2, PageFacts, LoadStep DEF Known, Alone, Sectors
<1>4. /\ entries'[p].sector = base /\ entries'[p].count = PageCount(base) /\ nor' = nor
      /\ \A k \in Offsets : k < PageCount(base) => cache'[p][k] = nor[base + k]
      /\ \A q \in Pages : q # p => entries'[q] = entries[q] /\ cache'[q] = cache[q]
  BY <1>0, <1>1 DEF Load
<1>5. OnePagePerSector /\ OnePagePerSector'
  BY KnownOnce, KnownOnceNext
<1>6. \A k \in Offsets : k < entries[p].count => cache[p][k] = nor[entries[p].sector + k]
  BY <1>0, VictimIsWritten
<1> HIDE DEF base
<1>7. ASSUME NEW s \in Sectors PROVE Contents'[s] = Contents[s]
  <2>1. s \in Nat
    BY <1>7 DEF Sectors
  <2>2. CASE Hit(p, s)'
    <3>1. base <= s /\ s < base + PageCount(base) /\ s < base + SectorsPerPage
      BY <1>1, <1>3, <1>4, <2>1, <2>2, ConstantsAssumption DEF Hit
    <3>2. PageBase(s) = base
      BY <1>3, <3>1, BaseUnique
    <3>3. \A q \in Pages : ~Hit(q, s)
      <4>1. TypeOK /\ PagesAligned
        BY DEF Known, Alone, IInv, PInv
      <4>2. QED
        BY <1>3, <3>2, <4>1, HitFacts
    <3>4. s - base \in Offsets /\ s - base < PageCount(base)
      BY <1>3, <2>1, <3>1, ConstantsAssumption DEF Offsets
    <3>5. base + (s - base) = s
      BY <1>3, <2>1
    <3>6. Contents'[s] = nor[s]
      BY <1>1, <1>4, <1>5, <2>2, <3>4, <3>5, ContentsAreNext
    <3>7. QED
      BY <1>5, <3>3, <3>6, ContentsAre
  <2>3. CASE \E q \in Pages : q # p /\ Hit(q, s)
    <3>1. PICK q \in Pages : q # p /\ Hit(q, s)
      BY <2>3
    <3>2. Hit(q, s)'
      BY <1>4, <3>1 DEF Hit
    <3>3. QED
      BY <1>4, <1>5, <3>1, <3>2, ContentsAre, ContentsAreNext
  <2>4. CASE ~Hit(p, s)' /\ \A q \in Pages : q # p => ~Hit(q, s)
    <3>1. \A q \in Pages : ~Hit(q, s)'
      BY <1>4, <2>4 DEF Hit
    <3>2. Contents'[s] = nor[s]
      BY <1>4, <1>5, <3>1, ContentsAreNext
    <3>3. CASE Hit(p, s)
      <4>1. /\ entries[p].sector \in Nat /\ entries[p].count \in Nat
            /\ entries[p].count <= SectorsPerPage
        BY <1>1, ConstantsAssumption DEF Sectors
      <4>2. s - entries[p].sector \in Offsets /\ s - entries[p].sector < entries[p].count
        BY <2>1, <3>3, <4>1, ConstantsAssumption DEF Hit, Offsets
      <4>3. entries[p].sector + (s - entries[p].sector) = s
        BY <2>1, <4>1
      <4>4. QED
        BY <1>1, <1>5, <1>6, <3>2, <3>3, <4>2, <4>3, ContentsAre
    <3>4. CASE ~Hit(p, s)
      BY <1>5, <2>4, <3>2, <3>4, ContentsAre
    <3>5. QED
      BY <3>3, <3>4
  <2>5. QED
    BY <2>2, <2>3, <2>4
<1>8. QED
  BY <1>7 DEF Contents

\* The flash is programmed under a page that readers see instead of it.
LEMMA ProgramKeeps ==
    ASSUME Known, Known', NEW t \in Threads, FlushProgram(t)
    PROVE  Contents' = Contents
<1> DEFINE p == flush.index
           x == flush.sector + flush.done
<1>1. /\ nor \in [Sectors -> Data] /\ p \in Pages
      /\ flush.sector \in Nat /\ flush.count \in Nat /\ flush.done \in Nat
  <2>1. TypeOK
    BY DEF Known, Alone, IInv
  <2>2. QED
    BY <2>1, ConstantsAssumption DEF TypeOK, Sectors
<1>2. /\ flush.done < flush.count
      /\ entries[p].sector = flush.sector /\ entries[p].count = flush.count
  BY DEF FlushProgram, Known, Alone, IInv, CInv, FlushIsSane, FlushNames
<1>3. /\ entries' = entries /\ cache' = cache
      /\ \A s \in Sectors : s # x => nor'[s] = nor[s]
  BY <1>1 DEF FlushProgram
<1>4. Hit(p, x)
  BY <1>1, <1>2 DEF Hit
<1>5. OnePagePerSector /\ OnePagePerSector'
  BY KnownOnce, KnownOnceNext
<1> HIDE DEF p, x
<1>6. ASSUME NEW s \in Sectors PROVE Contents'[s] = Contents[s]
  <2>1. \A q \in Pages : Hit(q, s)' <=> Hit(q, s)
    BY <1>3 DEF Hit
  <2>2. CASE \E q \in Pages : Hit(q, s)
    <3>1. PICK q \in Pages : Hit(q, s)
      BY <2>2
    <3>2. QED
      BY <1>3, <1>5, <2>1, <3>1, ContentsAre, ContentsAreNext
  <2>3. CASE \A q \in Pages : ~Hit(q, s)
    <3>1. s # x
      BY <1>1, <1>4, <2>3
    <3>2. QED
      BY <1>3, <1>5, <2>1, <2>3, <3>1, ContentsAre, ContentsAreNext
  <2>4. QED
    BY <2>2, <2>3
<1>7. QED
  BY <1>6 DEF Contents
-----------------------------------------------------------------------------
\* The sectors of the two modules are the same.
LEMMA SameSectors == Sectors = Store!Sectors
<1>1. QED
  BY DEF Sectors, Store!Sectors

\* A transfer is a request that the store may be given.
LEMMA BeginStep ==
    ASSUME NEW t \in Threads, req[t] = NoRequest, NEW r \in Transfers,
           req' = [req EXCEPT ![t] = r], Contents' = Contents
    PROVE  Store!BeginAny(t)
<1>1. CASE r \in Reads
  <2>1. PICK x \in Extents : r = ReadRequest(x[1], x[2])
    BY <1>1 DEF Reads
  <2>2. x[1] \in Store!Sectors /\ x[2] \in 1 .. (EndOfPartition - x[1] + 1)
    BY SameSectors, ConstantsAssumption DEF Extents, Sectors
  <2>3. Store!Begin(t, Store!ReadRequest(x[1], x[2]))
    BY <2>1 DEF Store!Begin, ReadRequest, Store!ReadRequest, NoRequest, Store!NoRequest
  <2>4. QED
    BY <2>2, <2>3 DEF Store!BeginAny
<1>2. CASE r \in Writes
  <2>1. PICK x \in Extents, v \in Data : r = WriteRequest(x[1], x[2], v)
    BY <1>2 DEF Writes
  <2>2. x[1] \in Store!Sectors /\ x[2] \in 1 .. (EndOfPartition - x[1] + 1)
    BY SameSectors, ConstantsAssumption DEF Extents, Sectors
  <2>3. Store!Begin(t, Store!WriteRequest(x[1], x[2], v))
    BY <2>1 DEF Store!Begin, WriteRequest, Store!WriteRequest, NoRequest, Store!NoRequest
  <2>4. QED
    BY <2>2, <2>3 DEF Store!BeginAny
<1>3. QED
  BY <1>1, <1>2 DEF Transfers

\* The memcpy of a write puts the request's value into the sectors that the
\* page serves and into no other.
LEMMA CopyInPuts ==
    ASSUME Known, Known', NEW t \in Threads, CopyIn(t)
    PROVE  Store!Put(t, ChunkSize(t))
<1> DEFINE n == ChunkSize(t)
           r == req[t]
<1>0. PICK p \in Pages : p = page[t]
  BY DEF Known, Alone, IInv, TypeOK
<1>1. /\ n \in 1 .. r.num /\ r \in Transfers
      /\ r.sector \in Nat /\ r.num \in Nat /\ r.kind = "write"
      /\ r.sector + r.num - 1 <= EndOfPartition
      /\ Hit(p, r.sector)
  <2>1. pc[t] = "copy" /\ TypeOK /\ RequestMatchesPc /\ CopyHits /\ r.kind = "write"
    BY DEF CopyIn, Known, Alone, IInv
  <2>2. n \in 1 .. r.num /\ r \in Transfers
    BY <2>1, ChunkFacts
  <2>3. QED
    BY <1>0, <2>1, <2>2, TransferFacts, ConstantsAssumption DEF CopyHits, Sectors
<1>2. /\ entries[p].sector \in Nat /\ entries[p].count \in Nat
      /\ entries[p].count <= SectorsPerPage
      /\ cache \in [Pages -> [Offsets -> Data]]
      /\ n <= entries[p].sector + entries[p].count - r.sector
  <2>1. TypeOK
    BY DEF Known, Alone, IInv
  <2>2. /\ entries[p].sector \in Nat /\ entries[p].count \in Nat
        /\ entries[p].count <= SectorsPerPage
    BY <2>1, ConstantsAssumption DEF TypeOK, Sectors
  <2>3. QED
    BY <1>0, <1>1, <2>1, <2>2 DEF TypeOK, ChunkSize
<1>3. /\ entries' = entries /\ nor' = nor /\ req' = [req EXCEPT ![t] = Rest(r, n)]
      /\ cache' = [cache EXCEPT ![p] =
            [k \in Offsets |-> IF k >= r.sector - entries[p].sector
                                  /\ k < r.sector - entries[p].sector + n
                                 THEN r.val ELSE cache[p][k]]]
  BY <1>0 DEF CopyIn
<1> HIDE DEF n, r
<1>4. ASSUME NEW s \in Sectors
      PROVE  Contents'[s] = IF s \in r.sector .. (r.sector + n - 1) THEN r.val ELSE Contents[s]
  <2>1. s \in Nat /\ \A q \in Pages : Hit(q, s)' <=> Hit(q, s)
    BY <1>3 DEF Hit, Sectors
  <2>2. CASE Hit(p, s)
    <3> DEFINE k == s - entries[p].sector
    <3>1. k \in Offsets
      BY <1>2, <2>1, <2>2, ConstantsAssumption DEF Hit, Offsets
    <3>2. s \in r.sector .. (r.sector + n - 1)
          <=> k >= r.sector - entries[p].sector /\ k < r.sector - entries[p].sector + n
      BY <1>1, <1>2, <2>1
    <3>3. cache'[p][k] = IF s \in r.sector .. (r.sector + n - 1) THEN r.val ELSE cache[p][k]
      BY <1>2, <1>3, <3>1, <3>2
    <3>4. Contents'[s] = cache'[p][k]
      BY <1>3, <2>1, <2>2, KnownOnceNext, ContentsAreNext
    <3>5. Contents[s] = cache[p][k]
      BY <2>2, KnownOnce, ContentsAre
    <3>6. QED
      BY <3>3, <3>4, <3>5
  <2>3. CASE ~Hit(p, s)
    <3>1. s \notin r.sector .. (r.sector + n - 1)
      BY <1>1, <1>2, <2>1, <2>3 DEF Hit
    <3>2. \A q \in Pages : Hit(q, s) => cache'[q] = cache[q]
      BY <1>2, <1>3, <2>3
    <3>3. CASE \E q \in Pages : Hit(q, s)
      <4>1. PICK q \in Pages : Hit(q, s)
        BY <3>3
      <4>2. Hit(q, s)' /\ cache'[q] = cache[q] /\ entries'[q] = entries[q]
        BY <1>3, <2>1, <3>2, <4>1
      <4>3. Contents'[s] = cache'[q][s - entries'[q].sector]
        BY <4>2, KnownOnceNext, ContentsAreNext
      <4>4. Contents[s] = cache[q][s - entries[q].sector]
        BY <4>1, KnownOnce, ContentsAre
      <4>5. QED
        BY <3>1, <4>2, <4>3, <4>4
    <3>4. CASE \A q \in Pages : ~Hit(q, s)
      <4>1. Contents'[s] = nor[s]
        BY <1>3, <2>1, <3>4, KnownOnceNext, ContentsAreNext
      <4>2. Contents[s] = nor[s]
        BY <3>4, KnownOnce, ContentsAre
      <4>3. QED
        BY <3>1, <4>1, <4>2
    <3>5. QED
      BY <3>3, <3>4
  <2>4. QED
    BY <2>2, <2>3
<1>5. Contents' = [s \in Store!Sectors |->
                     IF s \in r.sector .. (r.sector + n - 1) THEN r.val ELSE Contents[s]]
  <2>1. Contents' = [s \in Sectors |-> Contents'[s]]
    BY DEF Contents
  <2>2. QED
    BY <1>4, <2>1, SameSectors
<1>6. req' = [req EXCEPT ![t] = Store!Rest(r, n)]
  BY <1>3 DEF Rest, Store!Rest, NoRequest, Store!NoRequest
<1>7. QED
  BY <1>1, <1>5, <1>6 DEF Store!Put, n, r

\* A page serves a part of a transfer that the store can serve in one step.
LEMMA ChunkInRange ==
    ASSUME Known, NEW t \in Threads, pc[t] = "copy"
    PROVE  /\ ChunkSize(t) \in 1 .. req[t].num
           /\ ChunkSize(t) \in 1 .. (EndOfPartition + 1)
<1>1. ChunkSize(t) \in 1 .. req[t].num /\ req[t] \in Transfers
  BY ChunkFacts DEF Known, Alone, IInv
<1>2. QED
  BY <1>1, TransferFacts, ConstantsAssumption DEF Sectors

\* Every step of the driver is one of the store or leaves it alone.
LEMMA StoreStep ==
    ASSUME Known, Known', NEW t \in Threads, Act(t), Faults = {}
    PROVE  Store!Next \/ UNCHANGED Store!vars
<1>1. req \in [Threads -> {NoRequest, FlushRequest} \cup Transfers]
  BY DEF Known, Alone, IInv, TypeOK
<1>2. OnePagePerSector /\ OnePagePerSector'
  BY KnownOnce, KnownOnceNext
<1>3. ASSUME nor' = nor, cache' = cache, entries' = entries PROVE Contents' = Contents
  BY <1>2, <1>3, ContentsStay
<1>4. CASE StartRead(t) \/ StartWrite(t)
  <2>1. PICK r \in Transfers : req' = [req EXCEPT ![t] = r]
    BY <1>4 DEF StartRead, StartWrite, Transfers
  <2>2. req[t] = NoRequest
    BY <1>4 DEF StartRead, StartWrite, Known, Alone, CInv, IdleHasNone
  <2>3. Contents' = Contents
    BY <1>3, <1>4 DEF StartRead, StartWrite
  <2>4. Store!BeginAny(t)
    BY <2>1, <2>2, <2>3, BeginStep
  <2>5. QED
    BY <2>4 DEF Store!Next
<1>5. CASE StartFlush(t)
  <2>1. req[t] = NoRequest /\ req' = [req EXCEPT ![t] = FlushRequest]
    BY <1>5 DEF StartFlush, Known, Alone, CInv, IdleHasNone
  <2>2. Contents' = Contents
    BY <1>3, <1>5 DEF StartFlush
  <2>3. Store!Begin(t, Store!FlushRequest)
    BY <2>1, <2>2
    DEF Store!Begin, FlushRequest, Store!FlushRequest, NoRequest, Store!NoRequest
  <2>4. QED
    BY <2>3 DEF Store!Next, Store!BeginAny
<1>6. CASE LockAccess(t) \/ FlushLock(t) \/ LookupHit(t) \/ LookupMiss(t) \/ FlushPick(t)
  <2>1. Contents' = Contents
    BY <1>3, <1>6 DEF LockAccess, FlushLock, LookupHit, LookupMiss, FlushPick
  <2>2. req' = req
    BY <1>6 DEF LockAccess, FlushLock, LookupHit, LookupMiss, FlushPick
  <2>3. QED
    BY <2>1, <2>2 DEF Store!vars
<1>7. CASE MarkDirty(t) \/ FlushClear(t)
  <2>1. nor' = nor /\ cache' = cache /\ req' = req /\ ~Load(t)
    BY <1>7 DEF MarkDirty, FlushClear, Load
  <2>2. \A p \in Pages : /\ entries'[p].sector = entries[p].sector
                         /\ entries'[p].count = entries[p].count
    BY <2>1, RenameStep DEF Known, Alone
  <2>3. Contents' = Contents
    BY <1>2, <2>1, <2>2, ContentsStay
  <2>4. QED
    BY <2>1, <2>3 DEF Store!vars
<1>8. CASE Load(t)
  <2>1. Contents' = Contents
    BY <1>8, LoadKeeps
  <2>2. req' = req
    BY <1>8 DEF Load
  <2>3. QED
    BY <2>1, <2>2 DEF Store!vars
<1>9. CASE FlushProgram(t)
  <2>1. Contents' = Contents
    BY <1>9, ProgramKeeps
  <2>2. req' = req
    BY <1>9 DEF FlushProgram
  <2>3. QED
    BY <2>1, <2>2 DEF Store!vars
<1>10. CASE CopyOut(t)
  <2>1. Contents' = Contents
    BY <1>3, <1>10 DEF CopyOut
  <2>2. req[t].kind = "read" /\ req' = [req EXCEPT ![t] = Rest(req[t], ChunkSize(t))]
    BY <1>10 DEF CopyOut
  <2>3. /\ ChunkSize(t) \in 1 .. req[t].num
        /\ ChunkSize(t) \in 1 .. (EndOfPartition + 1)
    BY <1>10, ChunkInRange DEF CopyOut
  <2>4. Store!Get(t, ChunkSize(t))
    BY <2>1, <2>2, <2>3 DEF Store!Get, Rest, Store!Rest, NoRequest, Store!NoRequest
  <2>5. QED
    BY <2>3, <2>4 DEF Store!Next
<1>11. CASE CopyIn(t)
  <2>1. ChunkSize(t) \in 1 .. (EndOfPartition + 1)
    BY <1>11, ChunkInRange DEF CopyIn
  <2>2. Store!Put(t, ChunkSize(t))
    BY <1>11, CopyInPuts
  <2>3. QED
    BY <2>1, <2>2 DEF Store!Next
<1>12. CASE FlushDone(t)
  <2>1. Contents' = Contents
    BY <1>3, <1>12 DEF FlushDone, FlushReturn
  <2>2. CASE accessMutex = t
    <3>1. req' = req
      BY <1>12, <2>2 DEF FlushDone, FlushReturn
    <3>2. QED
      BY <2>1, <3>1 DEF Store!vars
  <2>3. CASE accessMutex # t
    <3>1. req[t] # NoRequest
      BY <1>12, TransferFacts
      DEF FlushDone, FlushPcs, Known, Alone, IInv, RequestMatchesPc, NoRequest, FlushRequest
    <3>2. req' = [req EXCEPT ![t] = NoRequest]
      BY <1>12, <2>3 DEF FlushDone, FlushReturn
    <3>3. Store!End(t)
      BY <2>1, <3>1, <3>2 DEF Store!End, NoRequest, Store!NoRequest
    <3>4. QED
      BY <3>3 DEF Store!Next
  <2>4. QED
    BY <2>2, <2>3
<1>13. ~LoadFails(t) /\ ~FlushFails(t)
  BY DEF LoadFails, FlushFails
<1>14. QED
  BY <1>4, <1>5, <1>6, <1>7, <1>8, <1>9, <1>10, <1>11, <1>12, <1>13 DEF Act, Step

\* When no flush runs beside a writer and no device operation fails, the
\* driver is an array of sectors: for any number of tasks and pages, any page
\* and partition size, nothing but a write request changes what readers get.
THEOREM CacheIsTransparent ==
    ASSUME FlushesAlone, Faults = {}
    PROVE  Spec => ImplementsStore
<1>1. Init => Store!Init
  <2> SUFFICES ASSUME Init PROVE Store!Init
    OBVIOUS
  <2>1. \A s \in Sectors, p \in Pages : ~Hit(p, s)
    BY ConstantsAssumption DEF Init, Hit, Sectors
  <2>2. Contents = [s \in Sectors |-> nor[s]]
    BY <2>1 DEF Contents
  <2>3. Contents \in [Sectors -> Data]
    BY <2>2 DEF Init
  <2>4. req = [t \in Threads |-> Store!NoRequest]
    BY DEF Init, NoRequest, Store!NoRequest
  <2>5. QED
    BY <2>3, <2>4, SameSectors DEF Store!Init
<1>2. Known /\ Known' /\ [Next]_vars => [Store!Next]_(Store!vars)
  <2> SUFFICES ASSUME Known, Known', [Next]_vars
               PROVE  Store!Next \/ UNCHANGED Store!vars
    OBVIOUS
  <2>1. CASE UNCHANGED vars
    <3>1. Contents' = Contents
      BY <2>1, KnownOnce, KnownOnceNext, ContentsStay DEF vars
    <3>2. QED
      BY <2>1, <3>1 DEF vars, Store!vars
  <2>2. ASSUME NEW t \in Threads, Act(t) PROVE Store!Next \/ UNCHANGED Store!vars
    BY <2>2, StoreStep
  <2>3. QED
    BY <2>1, <2>2 DEF Next, Act
<1>3. Spec => []Known
  BY KnownHolds
<1>4. QED
  BY <1>1, <1>2, <1>3, PTL DEF Spec, ImplementsStore, Store!Spec
=============================================================================
