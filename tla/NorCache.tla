------------------------------ MODULE NorCache ------------------------------
(***************************************************************************)
(* The write-back page cache of the NOR driver                             *)
(* (sdk/share/fat/nor/cache2.c, called from nordrv_f.c).                   *)
(*                                                                         *)
(* Tasks of the FAT library read and write sectors under accessMutex, one  *)
(* cache page per locking.  _NOR_cache_flush, called by any task through   *)
(* ioctl(ITP_DEVICE_NOR, ITP_IOCTL_FLUSH) and by the eviction in           *)
(* _NOR_cache_getPage, holds flushMutex only: an explicit flush therefore  *)
(* runs beside the memcpy and the dirty = true of a writer.                *)
(*                                                                         *)
(* The model covers the driver between nor_initfunc and nor_release, so    *)
(* CacheValidFlush is true and norCache is not NULL.                       *)
(***************************************************************************)
EXTENDS Integers, FiniteSets, SectorRequests

CONSTANTS Threads,         \* the tasks that use the driver
          NoThread,        \* the owner of a mutex that is free
          FlushCallers,    \* the tasks that call ioctl FLUSH
          NumberOfPages,   \* cache->numberOfPages
          SectorsPerPage,  \* cache->sectorsPerPage
          EndOfPartition,  \* cache->endOfPartition, the last sector
          CACHE_FREE,      \* UINT_MAX in the code: above every sector
          Data,            \* the contents of a sector
          MaxRequest,      \* bound: the most sectors of one request
          Faults           \* which device operations may fail

ASSUME ConstantsAssumption ==
    /\ NoThread \notin Threads
    /\ FlushCallers \subseteq Threads
    /\ NumberOfPages \in Nat \ {0}
    /\ SectorsPerPage \in Nat \ {0}
    /\ EndOfPartition \in Nat
    /\ CACHE_FREE \in Nat /\ CACHE_FREE > EndOfPartition
    /\ MaxRequest \in Nat \ {0}
    /\ Faults \subseteq {"read", "write"}

Pages   == 0 .. (NumberOfPages - 1)
Sectors == 0 .. EndOfPartition
Offsets == 0 .. (SectorsPerPage - 1)

VARIABLES
    nor,          \* contents of the flash, by sector
    entries,      \* cacheEntries: sector, count and dirty of every page
    cache,        \* cacheEntries[i].cache: the data of every page
    older,        \* order of last_access: the pages used before this one
    accessMutex,  \* owner of NorContext.accessMutex
    flushMutex,   \* owner of NorContext.flushMutex
    pc,           \* where each task is in the driver
    req,          \* what remains of its request
    page,         \* the entry that getPage or findPage chose for it
    flush,        \* locals of the _NOR_cache_flush that owns flushMutex
    owed          \* history: base sectors dirty when that flush began and
                  \* not written back since

vars == <<nor, entries, cache, older, accessMutex, flushMutex, pc, req, page,
          flush, owed>>

NoFlush == [i |-> 0, index |-> 0, sector |-> 0, count |-> 0, done |-> 0]

Init ==
    /\ nor \in [Sectors -> Data]
    /\ entries = [p \in Pages |-> [sector |-> CACHE_FREE, count |-> 0, dirty |-> FALSE]]
    /\ cache = [p \in Pages |-> [k \in Offsets |-> nor[0]]]
    /\ older = [p \in Pages |-> {}]
    /\ accessMutex = NoThread
    /\ flushMutex = NoThread
    /\ pc = [t \in Threads |-> "idle"]
    /\ req = [t \in Threads |-> NoRequest]
    /\ page = [t \in Threads |-> 0]
    /\ flush = NoFlush
    /\ owed = {}
-----------------------------------------------------------------------------
(***************************************************************************)
(* Page lookup.                                                            *)
(***************************************************************************)
\* align base sector to page size
PageBaseUnaligned(s) == s  \* slip: the alignment is forgotten
PageBase(s) == (s \div SectorsPerPage) * SectorsPerPage

\* next_page - sector: the last page of the partition may be short
PageCountTooLong(base) ==  \* slip: a page of one sector too many
    IF base + SectorsPerPage > EndOfPartition
      THEN EndOfPartition + 1 - base ELSE SectorsPerPage + 1
PageCount(base) ==
    IF base + SectorsPerPage > EndOfPartition
      THEN EndOfPartition + 1 - base ELSE SectorsPerPage

Hit(p, s) == /\ s >= entries[p].sector
             /\ s < entries[p].sector + entries[p].count

\* findPage: strictly above the first sector of the page
FindsPage(p, s) == /\ entries[p].sector # CACHE_FREE
                   /\ s > entries[p].sector
                   /\ s - entries[p].sector < entries[p].count

IsFree(p) == entries[p].sector = CACHE_FREE

\* The entry that getPage replaces: the first free one, else the one with the
\* least last_access.
IsVictim(p) ==
    IF \E q \in Pages : IsFree(q)
      THEN IsFree(p) /\ \A q \in Pages : IsFree(q) => p <= q
      ELSE older[p] = {}

\* last_access = accessTime(): p becomes the most recently used page.
Touch(p) == [q \in Pages |-> IF q = p THEN Pages \ {p} ELSE older[q] \ {p}]

\* The entry chosen holds data that the flash does not have yet.
NeedsFlushNever(p) == FALSE  \* slip: the entry is reused without a flush
NeedsFlush(p) == ~IsFree(p) /\ entries[p].dirty

Dirty == {p \in Pages : entries[p].dirty}
-----------------------------------------------------------------------------
(***************************************************************************)
(* Requests: nor_readmultiplesector, nor_writemultiplesector and           *)
(* iteFatNorFlush are called by a task that is outside the driver.         *)
(***************************************************************************)
Extents == {r \in Sectors \X (1 .. MaxRequest) : r[1] + r[2] - 1 <= EndOfPartition}

Reads     == {ReadRequest(x[1], x[2]) : x \in Extents}
Writes    == {WriteRequest(x[1], x[2], v) : x \in Extents, v \in Data}
Transfers == Reads \cup Writes

StartRead(t) ==
    /\ pc[t] = "idle"
    /\ \E r \in Reads : req' = [req EXCEPT ![t] = r]
    /\ pc' = [pc EXCEPT ![t] = "lock"]
    /\ UNCHANGED <<nor, entries, cache, older, accessMutex, flushMutex, page, flush, owed>>

StartWrite(t) ==
    /\ pc[t] = "idle"
    /\ \E r \in Writes : req' = [req EXCEPT ![t] = r]
    /\ pc' = [pc EXCEPT ![t] = "lock"]
    /\ UNCHANGED <<nor, entries, cache, older, accessMutex, flushMutex, page, flush, owed>>

StartFlush(t) ==
    /\ pc[t] = "idle"
    /\ t \in FlushCallers
    /\ req' = [req EXCEPT ![t] = FlushRequest]
    /\ pc' = [pc EXCEPT ![t] = "flush"]
    /\ UNCHANGED <<nor, entries, cache, older, accessMutex, flushMutex, page, flush, owed>>
-----------------------------------------------------------------------------
(***************************************************************************)
(* _NOR_cache_readSectors and _NOR_cache_writeSectors, one page a time.    *)
(***************************************************************************)
LockAccess(t) ==
    /\ pc[t] = "lock"
    /\ accessMutex = NoThread
    /\ accessMutex' = t
    /\ pc' = [pc EXCEPT ![t] = "lookup"]
    /\ UNCHANGED <<nor, entries, cache, older, flushMutex, req, page, flush, owed>>

\* The sector is cached.  A write that findPage serves leaves last_access.
LookupHit(t) ==
    /\ pc[t] = "lookup"
    /\ \E p \in Pages :
          /\ Hit(p, req[t].sector)
          /\ page' = [page EXCEPT ![t] = p]
          /\ older' = IF req[t].kind = "write" /\ FindsPage(p, req[t].sector)
                        THEN older ELSE Touch(p)
    /\ pc' = [pc EXCEPT ![t] = "copy"]
    /\ UNCHANGED <<nor, entries, cache, accessMutex, flushMutex, req, flush, owed>>

\* The sector is not cached: choose an entry, and flush first if it is dirty.
LookupMiss(t) ==
    /\ pc[t] = "lookup"
    /\ \A p \in Pages : ~Hit(p, req[t].sector)
    /\ \E p \in Pages :
          /\ IsVictim(p)
          /\ page' = [page EXCEPT ![t] = p]
          /\ pc' = [pc EXCEPT ![t] =
                      IF NeedsFlush(p) THEN "flush" ELSE "load"]
    /\ UNCHANGED <<nor, entries, cache, older, accessMutex, flushMutex, req, flush, owed>>

\* norObject->mutex: a device read waits for a device write and conversely.
DeviceFree == \A u \in Threads : pc[u] # "program"

\* disc->readSectors fills the page, then the entry is renamed.
Load(t) ==
    LET p    == page[t]
        base == PageBase(req[t].sector)
    IN  /\ pc[t] = "load"
        /\ DeviceFree
        /\ cache' = [cache EXCEPT ![p] =
              [k \in Offsets |-> IF k < PageCount(base) THEN nor[base + k] ELSE cache[p][k]]]
        /\ entries' = [entries EXCEPT ![p] =
              [sector |-> base, count |-> PageCount(base), dirty |-> entries[p].dirty]]
        /\ older' = Touch(p)
        /\ pc' = [pc EXCEPT ![t] = "copy"]
        /\ UNCHANGED <<nor, accessMutex, flushMutex, req, page, flush, owed>>

\* disc->readSectors fails after n sectors: getPage returns NULL, the entry
\* keeps its old sector, and the request ends with an error.
LoadFails(t) ==
    LET p    == page[t]
        base == PageBase(req[t].sector)
    IN  /\ pc[t] = "load"
        /\ "read" \in Faults
        /\ DeviceFree
        /\ \E n \in 0 .. PageCount(base) :
              cache' = [cache EXCEPT ![p] =
                 [k \in Offsets |-> IF k < n THEN nor[base + k] ELSE cache[p][k]]]
        /\ accessMutex' = NoThread
        /\ req' = [req EXCEPT ![t] = NoRequest]
        /\ pc' = [pc EXCEPT ![t] = "idle"]
        /\ UNCHANGED <<nor, entries, older, flushMutex, page, flush, owed>>

\* secs_to_read, secs_to_write: what this page can serve of the request.
ChunkSize(t) ==
    LET avail == entries[page[t]].sector + entries[page[t]].count - req[t].sector
    IN  IF avail > req[t].num THEN req[t].num ELSE avail

CopyOut(t) ==
    /\ pc[t] = "copy"
    /\ req[t].kind = "read"
    /\ req' = [req EXCEPT ![t] = Rest(req[t], ChunkSize(t))]
    /\ accessMutex' = NoThread
    /\ pc' = [pc EXCEPT ![t] = IF req'[t] = NoRequest THEN "idle" ELSE "lock"]
    /\ UNCHANGED <<nor, entries, cache, older, flushMutex, page, flush, owed>>

\* memcpy into the page; entry->dirty = true follows as a step of its own,
\* because a flush in another task sees them one after the other.
CopyIn(t) ==
    LET p   == page[t]
        sec == req[t].sector - entries[p].sector
    IN  /\ pc[t] = "copy"
        /\ req[t].kind = "write"
        /\ cache' = [cache EXCEPT ![p] =
              [k \in Offsets |-> IF k >= sec /\ k < sec + ChunkSize(t)
                                   THEN req[t].val ELSE cache[p][k]]]
        /\ req' = [req EXCEPT ![t] = Rest(req[t], ChunkSize(t))]
        /\ pc' = [pc EXCEPT ![t] = "mark"]
        /\ UNCHANGED <<nor, entries, older, accessMutex, flushMutex, page, flush, owed>>

\* Slip: entry->dirty = true is forgotten.
MarkDirtyForgotten(t) ==
    /\ pc[t] = "mark"
    /\ accessMutex' = NoThread
    /\ pc' = [pc EXCEPT ![t] = IF req[t] = NoRequest THEN "idle" ELSE "lock"]
    /\ UNCHANGED <<nor, entries, cache, older, flushMutex, req, page, flush, owed>>

MarkDirty(t) ==
    /\ pc[t] = "mark"
    /\ entries' = [entries EXCEPT ![page[t]].dirty = TRUE]
    /\ accessMutex' = NoThread
    /\ pc' = [pc EXCEPT ![t] = IF req[t] = NoRequest THEN "idle" ELSE "lock"]
    /\ UNCHANGED <<nor, cache, older, flushMutex, req, page, flush, owed>>
-----------------------------------------------------------------------------
(***************************************************************************)
(* _NOR_cache_flush: at most numberOfPages times, write back the dirty     *)
(* page with the lowest sector and clear its flag.                         *)
(***************************************************************************)
FlushLock(t) ==
    /\ pc[t] = "flush"
    /\ flushMutex = NoThread
    /\ flushMutex' = t
    /\ flush' = NoFlush
    /\ owed' = {entries[p].sector : p \in Dirty}
    /\ pc' = [pc EXCEPT ![t] = "pick"]
    /\ UNCHANGED <<nor, entries, cache, older, accessMutex, req, page>>

Flushable == {p \in Dirty : entries[p].sector < CACHE_FREE}

FlushPick(t) ==
    /\ pc[t] = "pick"
    /\ flush.i < NumberOfPages
    /\ \E p \in Flushable :
          /\ \A q \in Flushable : entries[p].sector <= entries[q].sector
          /\ flush' = [i |-> flush.i, index |-> p, sector |-> entries[p].sector,
                       count |-> entries[p].count, done |-> 0]
    /\ pc' = [pc EXCEPT ![t] = "write"]
    /\ UNCHANGED <<nor, entries, cache, older, accessMutex, flushMutex, req, page, owed>>

\* disc->writeSectors reads the page while it programs the flash.  It holds
\* norObject->mutex from the first sector on.
FlushProgram(t) ==
    /\ pc[t] \in {"write", "program"}
    /\ nor' = [nor EXCEPT ![flush.sector + flush.done] = cache[flush.index][flush.done]]
    /\ flush' = [flush EXCEPT !.done = flush.done + 1]
    /\ pc' = [pc EXCEPT ![t] = IF flush.done + 1 = flush.count THEN "clear" ELSE "program"]
    /\ UNCHANGED <<entries, cache, older, accessMutex, flushMutex, req, page, owed>>

\* Slip: the rounds are not counted, so the flush runs until no page is dirty.
FlushClearUncounted(t) ==
    /\ pc[t] = "clear"
    /\ entries' = [entries EXCEPT ![flush.index].dirty = FALSE]
    /\ owed' = owed \ {flush.sector}
    /\ pc' = [pc EXCEPT ![t] = "pick"]
    /\ UNCHANGED <<nor, cache, older, accessMutex, flushMutex, req, page, flush>>

FlushClear(t) ==
    /\ pc[t] = "clear"
    /\ entries' = [entries EXCEPT ![flush.index].dirty = FALSE]
    /\ flush' = [flush EXCEPT !.i = flush.i + 1]
    /\ owed' = owed \ {flush.sector}
    /\ pc' = [pc EXCEPT ![t] = "pick"]
    /\ UNCHANGED <<nor, cache, older, accessMutex, flushMutex, req, page>>

\* _NOR_cache_flush returns to getPage, which ignores the result, or to the
\* caller of iteFatNorFlush.
FlushReturn(t) ==
    /\ flushMutex' = NoThread
    /\ owed' = {}
    /\ flush' = NoFlush
    /\ IF accessMutex = t
         THEN /\ pc' = [pc EXCEPT ![t] = "load"]
              /\ UNCHANGED req
         ELSE /\ pc' = [pc EXCEPT ![t] = "idle"]
              /\ req' = [req EXCEPT ![t] = NoRequest]
    /\ UNCHANGED <<nor, entries, cache, older, accessMutex, page>>

\* The loop is over: numberOfPages rounds, or "no more flush entry".
LoopOverEarly == flush.i = NumberOfPages - 1 \/ Flushable = {}  \* slip: off by one
LoopOver      == flush.i = NumberOfPages \/ Flushable = {}

FlushDone(t) ==
    /\ pc[t] = "pick"
    /\ LoopOver
    /\ FlushReturn(t)

\* disc->writeSectors fails part way through the page.
FlushFails(t) ==
    /\ pc[t] \in {"write", "program"}
    /\ "write" \in Faults
    /\ FlushReturn(t)
-----------------------------------------------------------------------------
Step(t) ==
    \/ LookupHit(t) \/ LookupMiss(t) \/ Load(t) \/ LoadFails(t)
    \/ CopyOut(t) \/ CopyIn(t) \/ MarkDirty(t)
    \/ FlushPick(t) \/ FlushProgram(t) \/ FlushClear(t)
    \/ FlushDone(t) \/ FlushFails(t)

Next == \E t \in Threads :
            \/ StartRead(t) \/ StartWrite(t) \/ StartFlush(t)
            \/ LockAccess(t) \/ FlushLock(t)
            \/ Step(t)

Spec == Init /\ [][Next]_vars

\* FreeRTOS gives a mutex to its waiters in turn, and a task inside the
\* driver runs on: SF for the two lock operations, WF for everything else.
Fairness == \A t \in Threads : /\ SF_vars(LockAccess(t))
                               /\ SF_vars(FlushLock(t))
                               /\ WF_vars(Step(t))

FairSpec == Spec /\ Fairness
-----------------------------------------------------------------------------
(***************************************************************************)
(* Properties.                                                             *)
(***************************************************************************)
FlushPcs  == {"pick", "write", "program", "clear"}
AccessPcs == {"lookup", "load", "copy", "mark"}

\* Every variable has its type.
TypeOK ==
    /\ nor \in [Sectors -> Data]
    /\ entries \in [Pages -> [sector : Sectors \cup {CACHE_FREE},
                             count : 0 .. SectorsPerPage, dirty : BOOLEAN]]
    /\ cache \in [Pages -> [Offsets -> Data]]
    /\ older \in [Pages -> SUBSET Pages]
    /\ accessMutex \in Threads \cup {NoThread}
    /\ flushMutex \in Threads \cup {NoThread}
    /\ pc \in [Threads -> {"idle", "lock", "flush"} \cup AccessPcs \cup FlushPcs]
    /\ req \in [Threads -> {NoRequest, FlushRequest} \cup Transfers]
    /\ page \in [Threads -> Pages]
    /\ flush \in [i : 0 .. NumberOfPages, index : Pages,
                  sector : Sectors \cup {0}, count : 0 .. SectorsPerPage,
                  done : 0 .. SectorsPerPage]
    /\ owed \subseteq Sectors

\* What a reader of sector s gets: the page that holds it, else the flash.
Contents ==
    [s \in Sectors |->
       IF \E p \in Pages : Hit(p, s)
         THEN LET p == CHOOSE p \in Pages : Hit(p, s)
              IN  cache[p][s - entries[p].sector]
         ELSE nor[s]]

Store == INSTANCE SectorStore WITH store <- Contents

\* The driver is an array of sectors: write-back, eviction and page loads
\* change no sector's contents, and a write changes those it names.
ImplementsStore == Store!Spec

\* A sector is cached in one page at most, or two tasks would see two values.
OnePagePerSector ==
    \A s \in Sectors, p, q \in Pages : Hit(p, s) /\ Hit(q, s) => p = q

\* getPage replaces a page only when its data has been written back: the
\* flush it makes inside leaves the entry it chose clean, whatever explicit
\* flushes run beside it.
VictimIsClean ==
    \A t \in Threads : pc[t] = "load" => ~entries[page[t]].dirty

\* A page that is not dirty, and that no task is writing into, equals the
\* flash: what a finished flush has written survives a power loss.
CleanMatchesFlash ==
    \A p \in Pages :
        ~entries[p].dirty /\ (\A t \in Threads : pc[t] = "mark" => page[t] # p)
        => \A k \in Offsets : k < entries[p].count =>
              cache[p][k] = nor[entries[p].sector + k]

\* The flash only ever takes a value that readers see at that sector: a page
\* is never programmed at the place of another one.
FlashTakesContents ==
    [][\A s \in Sectors : nor'[s] # nor[s] => nor'[s] = Contents[s]]_nor

\* "Flushes all dirty pages to disc, clearing the dirty flag" (cache2.c:422):
\* when a flush gives up flushMutex after its loop, every page that was dirty
\* when it took the mutex has been written back.
FlushCoversAll ==
    [][\A t \in Threads : pc[t] = "pick" /\ flushMutex = t /\ flushMutex' # t => owed = {}]_flushMutex

\* What a flush is for: when its loop is over, the flash alone has what readers
\* get, at every sector, so that a power loss now loses no finished write.
FlushMakesDurable ==
    [][\A t \in Threads : pc[t] = "pick" /\ flushMutex = t /\ flushMutex' # t =>
          \A s \in Sectors : nor[s] = Contents[s]]_flushMutex

\* "When the sector is swapped out, the data will be written to the disc"
\* (cache2.h:51): a page that takes another sector's data had reached the
\* flash with the data it held.
SwappedOutIsWritten ==
    [][\A p \in Pages : entries'[p].sector # entries[p].sector =>
         \A k \in Offsets : k < entries[p].count =>
             cache[p][k] = nor[entries[p].sector + k]]_entries

\* Every request returns: the two mutexes do not deadlock, and a flush ends
\* however often its pages are made dirty again.
RequestsReturn == \A t \in Threads : (pc[t] # "idle") ~> (pc[t] = "idle")
=============================================================================
