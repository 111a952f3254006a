--------------------------- MODULE NorCachePages ----------------------------
(***************************************************************************)
(* Proofs about which sectors the pages of NorCache hold, and where a      *)
(* flush programs them, for any number of tasks, pages and sectors.        *)
(***************************************************************************)
EXTENDS NorCacheProofs

\* A page that holds sectors holds all of those from a page boundary on.
PagesAligned ==
    \A p \in Pages :
        ~IsFree(p) => /\ entries[p].sector = PageBase(entries[p].sector)
                      /\ entries[p].count = PageCount(entries[p].sector)

\* No two pages begin at the same sector.
PagesDistinct ==
    \A p, q \in Pages : ~IsFree(p) /\ entries[p].sector = entries[q].sector => p = q

\* The place of a task between the search that finds no page and the load.
Misses(t) == \/ pc[t] = "load"
             \/ pc[t] \in {"flush"} \cup FlushPcs /\ req[t] \in Transfers

\* The sector of a task that is about to load a page is not cached.
MissStays == \A t \in Threads : Misses(t) => \A p \in Pages : ~Hit(p, req[t].sector)

PInv == PagesAligned /\ PagesDistinct /\ MissStays
-----------------------------------------------------------------------------
\* Multiples of the page size are at least that far apart.
LEMMA MultiplesApart ==
    ASSUME NEW n \in Nat \ {0}, NEW j \in Nat, NEW k \in Nat, NEW s \in Nat,
           j * n <= s, s < j * n + n, k * n <= s, s < k * n + n
    PROVE  j = k
<1>1. ASSUME NEW a \in Nat, NEW b \in Nat, a < b PROVE a * n + n <= b * n
  <2>1. b - a - 1 \in Nat
    BY <1>1
  <2>2. (b - a - 1) * n >= 0
    BY <2>1
  <2>3. (b - a - 1) * n = b * n - a * n - n
    OBVIOUS
  <2>4. a * n \in Nat /\ b * n \in Nat
    OBVIOUS
  <2>5. QED
    BY <2>2, <2>3, <2>4
<1>2. ~(j < k) /\ ~(k < j)
  BY <1>1
<1>3. QED
  BY <1>2

\* The page of a sector begins at the one boundary that is close enough.
LEMMA BaseUnique ==
    ASSUME NEW b \in Sectors, NEW s \in Sectors,
           b = PageBase(b), b <= s, s < b + SectorsPerPage
    PROVE  PageBase(s) = b
<1> DEFINE j == b \div SectorsPerPage
           k == s \div SectorsPerPage
<1>1. j \in Nat /\ k \in Nat /\ s \in Nat /\ b \in Nat
  BY ConstantsAssumption DEF Sectors
<1>2. k * SectorsPerPage <= s /\ s < k * SectorsPerPage + SectorsPerPage
  BY ConstantsAssumption DEF Sectors
<1>3. b = j * SectorsPerPage /\ PageBase(s) = k * SectorsPerPage
  BY DEF PageBase
<1> HIDE DEF j, k
<1>4. j = k
  BY <1>1, <1>2, <1>3, MultiplesApart, ConstantsAssumption
<1>5. QED
  BY <1>3, <1>4

LEMMA BaseOfBase == ASSUME NEW s \in Sectors PROVE PageBase(PageBase(s)) = PageBase(s)
<1> DEFINE b == PageBase(s)
           k == s \div SectorsPerPage
           j == b \div SectorsPerPage
<1>1. b \in Sectors /\ b \in Nat /\ k \in Nat /\ j \in Nat
  BY PageFacts, ConstantsAssumption DEF Sectors
<1>2. b = k * SectorsPerPage /\ PageBase(b) = j * SectorsPerPage
  BY DEF PageBase
<1>3. j * SectorsPerPage <= b /\ b < j * SectorsPerPage + SectorsPerPage
  BY <1>1, ConstantsAssumption
<1> HIDE DEF b, j, k
<1>4. j = k
  BY <1>1, <1>2, <1>3, MultiplesApart, ConstantsAssumption
<1>5. QED
  BY <1>2, <1>4 DEF b

\* A page that holds a sector begins where the page of that sector does.
LEMMA HitFacts ==
    ASSUME TypeOK, PagesAligned, NEW p \in Pages, NEW s \in Sectors
    PROVE  /\ Hit(p, s) => ~IsFree(p) /\ entries[p].sector = PageBase(s)
           /\ ~IsFree(p) /\ entries[p].sector = PageBase(s) => Hit(p, s)
<1>1. /\ entries[p].sector \in Sectors \cup {CACHE_FREE}
      /\ entries[p].count \in Nat /\ s \in Nat /\ s <= EndOfPartition
  BY ConstantsAssumption DEF TypeOK, Sectors
<1>2. ASSUME Hit(p, s) PROVE ~IsFree(p) /\ entries[p].sector = PageBase(s)
  <2>1. ~IsFree(p) /\ entries[p].sector \in Sectors
    BY <1>1, <1>2, ConstantsAssumption DEF Hit, IsFree
  <2>2. /\ entries[p].sector = PageBase(entries[p].sector)
        /\ entries[p].count = PageCount(PageBase(entries[p].sector))
    BY <2>1 DEF PagesAligned
  <2>3. entries[p].count <= SectorsPerPage
    BY <2>1, <2>2, PageFacts
  <2>4. entries[p].sector <= s /\ s < entries[p].sector + SectorsPerPage
    BY <1>1, <1>2, <2>1, <2>3, ConstantsAssumption DEF Hit, Sectors
  <2>5. QED
    BY <2>1, <2>2, <2>4, BaseUnique
<1>3. ASSUME ~IsFree(p), entries[p].sector = PageBase(s) PROVE Hit(p, s)
  <2>1. entries[p].count = PageCount(PageBase(s))
    BY <1>3 DEF PagesAligned
  <2>2. QED
    BY <1>3, <2>1, PageFacts DEF Hit
<1>4. QED
  BY <1>2, <1>3

\* Aligned and distinct pages hold no sector twice.
LEMMA HeldOnce == ASSUME TypeOK, PagesAligned, PagesDistinct PROVE OnePagePerSector
<1> SUFFICES ASSUME NEW s \in Sectors, NEW p \in Pages, NEW q \in Pages, Hit(p, s), Hit(q, s)
             PROVE  p = q
  BY DEF OnePagePerSector
<1>1. ~IsFree(p) /\ entries[p].sector = entries[q].sector
  BY HitFacts
<1>2. QED
  BY <1>1 DEF PagesDistinct
-----------------------------------------------------------------------------
\* Only a load renames a page: the one that the loading task has chosen.
LEMMA RenameStep ==
    ASSUME IInv, NEW t \in Threads, Act(t), NEW p \in Pages
    PROVE  \/ /\ entries'[p].sector = entries[p].sector
              /\ entries'[p].count = entries[p].count
           \/ /\ Load(t) /\ p = page[t]
              /\ entries'[p].sector = PageBase(req[t].sector)
              /\ entries'[p].count = PageCount(PageBase(req[t].sector))
<1>1. /\ entries \in [Pages -> [sector : Sectors \cup {CACHE_FREE},
                               count : 0 .. SectorsPerPage, dirty : BOOLEAN]]
      /\ flush.index \in Pages /\ page[t] \in Pages
  BY DEF IInv, TypeOK
<1>2. CASE Load(t)
  <2>1. entries' = [entries EXCEPT ![page[t]] =
                      [sector |-> PageBase(req[t].sector),
                       count |-> PageCount(PageBase(req[t].sector)),
                       dirty |-> entries[page[t]].dirty]]
    BY <1>2 DEF Load
  <2>2. QED
    BY <1>1, <1>2, <2>1
<1>3. CASE MarkDirty(t) \/ FlushClear(t)
  BY <1>1, <1>3 DEF MarkDirty, FlushClear
<1>4. CASE entries' = entries
  BY <1>4
<1>5. QED
  BY <1>2, <1>3, <1>4
  DEF Act, Step, StartRead, StartWrite, StartFlush, LockAccess, FlushLock, LookupHit, LookupMiss,
      LoadFails, CopyOut, CopyIn, FlushPick, FlushProgram, FlushDone, FlushFails, FlushReturn

\* A load takes an aligned place that no page has: its task has searched them
\* all, and no page was renamed since.
LEMMA LoadStep ==
    ASSUME IInv, PInv, NEW t \in Threads, Load(t)
    PROVE  /\ PageBase(req[t].sector) \in Sectors
           /\ PageBase(PageBase(req[t].sector)) = PageBase(req[t].sector)
           /\ \A p \in Pages : ~IsFree(p) => entries[p].sector # PageBase(req[t].sector)
<1>1. req[t].sector \in Sectors
  BY TransferFacts DEF Load, IInv, RequestMatchesPc
<1>2. \A p \in Pages : ~Hit(p, req[t].sector)
  BY DEF Load, PInv, MissStays, Misses
<1>3. QED
  BY <1>1, <1>2, PageFacts, BaseOfBase, HitFacts DEF IInv, PInv

\* Pages stay aligned, and no two of them come to hold the same sectors.
LEMMA PlaceStep ==
    ASSUME IInv, PInv, NEW t \in Threads, Act(t)
    PROVE  PagesAligned' /\ PagesDistinct'
<1> DEFINE base == PageBase(req[t].sector)
<1>1. ASSUME NEW p \in Pages, entries'[p].sector # CACHE_FREE
      PROVE  /\ entries'[p].sector = PageBase(entries'[p].sector)
             /\ entries'[p].count = PageCount(entries'[p].sector)
  <2>1. CASE entries'[p].sector = entries[p].sector /\ entries'[p].count = entries[p].count
    BY <1>1, <2>1 DEF PInv, PagesAligned, IsFree
  <2>2. CASE Load(t) /\ entries'[p].sector = base /\ entries'[p].count = PageCount(base)
    BY <2>2, LoadStep
  <2>3. QED
    BY <2>1, <2>2, RenameStep
<1>2. ASSUME NEW p \in Pages, NEW q \in Pages,
             entries'[p].sector # CACHE_FREE, entries'[p].sector = entries'[q].sector
      PROVE  p = q
  <2> DEFINE Kept(r)    == entries'[r].sector = entries[r].sector
             Renamed(r) == Load(t) /\ r = page[t] /\ entries'[r].sector = base
  <2>1. (Kept(p) \/ Renamed(p)) /\ (Kept(q) \/ Renamed(q))
    BY RenameStep
  <2>2. CASE Kept(p) /\ Kept(q)
    BY <1>2, <2>2 DEF PInv, PagesDistinct, IsFree
  <2>3. CASE Renamed(p) /\ Renamed(q)
    BY <2>3
  <2>4. CASE Renamed(p) /\ Kept(q)
    BY <1>2, <2>4, LoadStep DEF IsFree
  <2>5. CASE Kept(p) /\ Renamed(q)
    BY <1>2, <2>5, LoadStep DEF IsFree
  <2>6. QED
    BY <2>1, <2>2, <2>3, <2>4, <2>5
<1>3. PagesAligned'
  BY <1>1 DEF PagesAligned, IsFree, PageBase, PageCount
<1>4. PagesDistinct'
  BY <1>2 DEF PagesDistinct, IsFree
<1>5. QED
  BY <1>3, <1>4

\* A search that found nothing stays true until the load: accessMutex is held.
LEMMA MissStep ==
    ASSUME IInv, PInv, NEW t \in Threads, Act(t)
    PROVE  MissStays'
<1> SUFFICES ASSUME NEW u \in Threads, Misses(u)', NEW p \in Pages
             PROVE  ~Hit(p, req[u].sector)'
  BY DEF MissStays
<1>1. /\ pc \in [Threads -> {"idle", "lock", "flush"} \cup AccessPcs \cup FlushPcs]
      /\ req \in [Threads -> {NoRequest, FlushRequest} \cup Transfers]
      /\ accessMutex = t <=> OwnsAccess(t)
  BY DEF IInv, TypeOK, MutexOwners
<1>2. CASE u = t
  <2>1. CASE LookupMiss(t)
    BY <1>2, <2>1 DEF LookupMiss, Hit
  <2>2. CASE FlushLock(t) \/ FlushPick(t) \/ FlushProgram(t)
    <3>1. Misses(t) /\ entries' = entries /\ req' = req
      BY <1>1, <1>2, <2>2 DEF FlushLock, FlushPick, FlushProgram, Misses, FlushPcs
    <3>2. QED
      BY <1>2, <3>1 DEF PInv, MissStays, Hit
  <2>3. CASE FlushClear(t)
    <3>1. Misses(t) /\ req' = req
      BY <1>1, <1>2, <2>3 DEF FlushClear, Misses, FlushPcs
    <3>2. entries'[p].sector = entries[p].sector /\ entries'[p].count = entries[p].count
      BY <2>3, RenameStep DEF FlushClear, Load
    <3>3. QED
      BY <1>2, <3>1, <3>2 DEF PInv, MissStays, Hit
  <2>4. CASE FlushDone(t) \/ FlushFails(t)
    <3>1. FlushReturn(t) /\ pc[t] \in FlushPcs
      BY <2>4 DEF FlushDone, FlushFails, FlushPcs
    <3>2. accessMutex = t
      BY <1>1, <1>2, <3>1 DEF FlushReturn, Misses, FlushPcs
    <3>3. Misses(t) /\ entries' = entries /\ req' = req
      BY <1>1, <3>1, <3>2 DEF FlushReturn, Misses, OwnsAccess, AccessPcs, FlushPcs
    <3>4. QED
      BY <1>2, <3>3 DEF PInv, MissStays, Hit
  <2>5. CASE StartFlush(t)
    BY <1>1, <1>2, <2>5, TransferFacts DEF StartFlush, Misses, FlushPcs
  <2>6. CASE pc'[t] \notin {"load", "flush"} \cup FlushPcs
    BY <1>2, <2>6 DEF Misses
  <2>7. QED
    BY <1>1, <2>1, <2>2, <2>3, <2>4, <2>5, <2>6
    DEF Act, Step, StartRead, StartWrite, LockAccess, LookupHit, Load, LoadFails, CopyOut, CopyIn,
        MarkDirty, FlushPcs
<1>3. CASE u # t
  <2>1. Misses(u) /\ req'[u] = req[u]
    BY <1>3, OthersWait DEF IInv, Misses
  <2>2. accessMutex # t
    BY <1>3, <2>1 DEF IInv, MutexOwners, OwnsAccess, Misses, AccessPcs
  <2>3. entries'[p].sector = entries[p].sector /\ entries'[p].count = entries[p].count
    BY <2>2, EntriesStep
  <2>4. QED
    BY <2>1, <2>3 DEF PInv, MissStays, Hit
<1>4. QED
  BY <1>2, <1>3

\* The places of the pages are right in every reachable state.
THEOREM Places == Spec => []PInv
<1>1. Init => PInv
  <2> SUFFICES ASSUME Init PROVE PInv
    OBVIOUS
  <2>1. \A p \in Pages : IsFree(p)
    BY DEF Init, IsFree
  <2>2. \A t \in Threads : ~Misses(t)
    BY DEF Init, Misses, FlushPcs
  <2>3. QED
    BY <2>1, <2>2 DEF PInv, PagesAligned, PagesDistinct, MissStays
<1>2. IInv /\ PInv /\ [Next]_vars => PInv'
  <2> SUFFICES ASSUME IInv, PInv, [Next]_vars PROVE PInv'
    OBVIOUS
  <2>1. CASE UNCHANGED vars
    BY <2>1 DEF vars, PInv, PagesAligned, PagesDistinct, MissStays, Misses, Hit, IsFree,
                PageBase, PageCount
  <2>2. ASSUME NEW t \in Threads, Act(t) PROVE PInv'
    BY <2>2, PlaceStep, MissStep DEF PInv
  <2>3. QED
    BY <2>1, <2>2 DEF Next, Act
<1>3. QED
  BY <1>1, <1>2, Invariant, PTL DEF Spec

\* A sector is in one page at most, for any number of tasks, any sizes of
\* page and partition, and whatever device operations fail.
THEOREM PagesHoldOnce == Spec => []OnePagePerSector
<1>1. IInv /\ PInv => OnePagePerSector
  BY HeldOnce DEF IInv, PInv
<1>2. QED
  BY <1>1, Invariant, Places, PTL
-----------------------------------------------------------------------------
\* The sectors that the flush in progress programs are still those of its page.
FlushNames ==
    \A t \in Threads :
        pc[t] \in {"write", "program", "clear"} =>
            /\ flush.sector = entries[flush.index].sector
            /\ flush.count = entries[flush.index].count

\* No load replaces the page that a flush is programming.
LoadsElsewhere ==
    \A t, u \in Threads :
        pc[t] = "load" /\ pc[u] \in {"write", "program", "clear"} => page[t] # flush.index

LEMMA NamesStep ==
    ASSUME IInv, LoadsElsewhere, FlushNames, NEW t \in Threads, Act(t)
    PROVE  FlushNames'
<1> SUFFICES ASSUME NEW u \in Threads, pc'[u] \in {"write", "program", "clear"}
             PROVE  /\ flush'.sector = entries'[flush'.index].sector
                    /\ flush'.count = entries'[flush'.index].count
  BY DEF FlushNames
<1>1. /\ pc \in [Threads -> {"idle", "lock", "flush"} \cup AccessPcs \cup FlushPcs]
      /\ flush.index \in Pages
  BY DEF IInv, TypeOK
<1>2. CASE u = t
  <2>1. CASE FlushPick(t)
    BY <2>1 DEF FlushPick
  <2>2. CASE FlushProgram(t)
    <3>1. /\ flush'.sector = flush.sector /\ flush'.count = flush.count
          /\ flush'.index = flush.index /\ entries' = entries
      BY <2>2 DEF FlushProgram, IInv, TypeOK
    <3>2. pc[t] \in {"write", "program", "clear"}
      BY <2>2 DEF FlushProgram
    <3>3. QED
      BY <3>1, <3>2 DEF FlushNames
  <2>3. CASE pc'[t] \notin {"write", "program", "clear"}
    BY <1>2, <2>3
  <2>4. QED
    BY <1>1, <2>1, <2>2, <2>3
    DEF Act, Step, StartRead, StartWrite, StartFlush, LockAccess, FlushLock, LookupHit, LookupMiss,
        Load, LoadFails, CopyOut, CopyIn, MarkDirty, FlushClear, FlushDone, FlushFails, FlushReturn
<1>3. CASE u # t
  <2>1. pc[u] \in {"write", "program", "clear"}
    BY <1>3, OthersWait DEF IInv
  <2>2. flush' = flush
    <3>1. flushMutex = u /\ u # NoThread
      BY <2>1, ConstantsAssumption DEF IInv, MutexOwners, FlushPcs
    <3>2. QED
      BY <1>1, <1>3, <3>1, EntriesStep
  <2>3. ~(Load(t) /\ flush.index = page[t])
    BY <2>1 DEF Load, LoadsElsewhere
  <2>4. /\ entries'[flush.index].sector = entries[flush.index].sector
        /\ entries'[flush.index].count = entries[flush.index].count
    BY <1>1, <2>3, RenameStep
  <2>5. QED
    BY <2>1, <2>2, <2>4 DEF FlushNames
<1>4. QED
  BY <1>2, <1>3

\* The flash changes where the flush programs it, and there a reader is given
\* the page that the flush reads.
LEMMA ProgramStep ==
    ASSUME IInv, PInv, FlushNames, NEW t \in Threads, Act(t),
           NEW s \in Sectors, nor'[s] # nor[s]
    PROVE  nor'[s] = Contents[s]
<1> DEFINE p == flush.index
<1>1. FlushProgram(t)
  BY DEF Act, Step, StartRead, StartWrite, StartFlush, LockAccess, FlushLock, LookupHit, LookupMiss,
         Load, LoadFails, CopyOut, CopyIn, MarkDirty, FlushPick, FlushClear, FlushDone, FlushFails,
         FlushReturn
<1>2. /\ p \in Pages /\ flush.sector \in Nat /\ flush.count \in Nat /\ flush.done \in Nat
      /\ flush.done < flush.count
  BY <1>1, ConstantsAssumption DEF FlushProgram, IInv, TypeOK, FlushIsSane, Sectors
<1>3. s = flush.sector + flush.done /\ nor'[s] = cache[p][flush.done]
  BY <1>1 DEF FlushProgram, IInv, TypeOK
<1>4. entries[p].sector = flush.sector /\ entries[p].count = flush.count
  BY <1>1 DEF FlushProgram, FlushNames
<1>5. Hit(p, s)
  BY <1>2, <1>3, <1>4 DEF Hit
<1>6. \A q \in Pages : Hit(q, s) => q = p
  BY <1>2, <1>5, HeldOnce DEF IInv, PInv, OnePagePerSector
<1>7. (CHOOSE q \in Pages : Hit(q, s)) = p
  BY <1>2, <1>5, <1>6
<1>8. Contents[s] = cache[p][s - entries[p].sector]
  BY <1>2, <1>5, <1>7 DEF Contents
<1>9. s - entries[p].sector = flush.done
  BY <1>2, <1>3, <1>4
<1>10. QED
  BY <1>3, <1>8, <1>9

\* As long as the device takes every write, no flush programs a page at the
\* place of another one, however tasks evict and load pages beside it.
THEOREM FlashIsProgrammedInPlace ==
    ASSUME "write" \notin Faults
    PROVE  Spec => FlashTakesContents
<1>1. Init => FlushNames
  BY DEF Init, FlushNames
<1>2. IInv /\ VictimIsClean /\ FlushNames /\ [Next]_vars => FlushNames'
  <2> SUFFICES ASSUME IInv, VictimIsClean, FlushNames, [Next]_vars PROVE FlushNames'
    OBVIOUS
  <2>1. LoadsElsewhere
    BY DEF LoadsElsewhere, VictimIsClean, IInv, FlushIsSane
  <2>2. CASE UNCHANGED vars
    BY <2>2 DEF vars, FlushNames
  <2>3. ASSUME NEW t \in Threads, Act(t) PROVE FlushNames'
    BY <2>1, <2>3, NamesStep
  <2>4. QED
    BY <2>2, <2>3 DEF Next, Act
<1>3. IInv /\ PInv /\ FlushNames /\ [Next]_vars
      => [\A s \in Sectors : nor'[s] # nor[s] => nor'[s] = Contents[s]]_nor
  <2> SUFFICES ASSUME IInv, PInv, FlushNames, [Next]_vars,
                      NEW s \in Sectors, nor'[s] # nor[s]
               PROVE  nor'[s] = Contents[s]
    OBVIOUS
  <2>1. CASE UNCHANGED vars
    BY <2>1 DEF vars
  <2>2. ASSUME NEW t \in Threads, Act(t) PROVE nor'[s] = Contents[s]
    BY <2>2, ProgramStep
  <2>3. QED
    BY <2>1, <2>2 DEF Next, Act
<1>4. QED
  BY <1>1, <1>2, <1>3, Invariant, Places, EvictionIsSafe, PTL DEF Spec, FlashTakesContents
=============================================================================
