# The control board firmware: models, checks and proofs

The repository is the firmware of an ITE 9850 display control board: an
application (`src/project/ctrlboard`), an SDK (`src/sdk`: drivers, a FAT file
system on NOR flash, the upgrade library, media and network libraries) and the
FreeRTOS port it runs on (`src/openrtos`).  Paths below are relative to `src/`.

This directory holds TLA+ models of the parts that decide whether the board
keeps what it was told to keep and follows what the user plugs in.  Each model
is translated from the C code; `PROJECT.json` names, for every definition, the
lines it stands for.

## 1. Inventory

| component | state | operations | talks to | hard because |
|---|---|---|---|---|
| **NOR write-back cache** `sdk/share/fat/nor/cache2.c`, `nordrv_f.c`, `driver/itp/itp_nor.c` | pages of sectors with dirty flag and access time, two mutexes | read / write / flush of sectors; eviction inside a page load | FAT library above, `NorRead`/`NorWrite` below; `ioctl FLUSH` from any task | an explicit flush shares no lock with the writers |
| **Settings, backup, boot recovery** `project/ctrlboard/config.c`, `backup.c`, `main.c`, `share/upgrade/ug_filecrc.c`, `ug_reset.c` | `theConfig`, ini dictionary, save flags, `cfgMutex`; public and backup volume, each with a CRC file | `ConfigSave`, `ConfigUpdateCrc`, `ConfigSaveTask`, `BackupInit`, `BackupRestore`, `BackupSyncFile` | file system and NOR flush; the boot in `SDL_main` | power fails at any step; the boot must repair what is left without losing what was saved |
| **Cards, USB disks, drive letters** `driver/itp/itp_card.c`, `itp_usb_host.c`, `itp_usb_msc.c`, `itp_drive_openrtos.c`, `itp_fat.c`, `project/ctrlboard/storage.c` | card table, event queue, slot status, mounted disks, drive table, storage table | pin interrupt, poll of the USB slots, mount and unmount, `StorageCheck` | interrupt → queue → probe task → drive table → user interface | four actors, a bounded queue, stale status, a medium that changes during a mount |
| **Upgrade** `project/ctrlboard/upgrade.c`, `share/upgrade/ug_package.c`, `ug_mark.c`, `ug_file.c`, `ug_rawdata.c`, `ug_device.c`, `ug_partition.c` | package stream, result and flags of `upgrade.c`; in NOR: the mark, the backup area, the blocks of the system | open a package from a drive / FTP / web upload, check it, copy it to the backup area, write its blocks, mark start and end | storage, web server (hands over an upload, polls the result), boot loader (reads the mark, restores) | power loss between the steps; packages that break off; files wait in the NOR cache while marks and raw data do not |
| **POSIX layer** `driver/itp/itp_posix_openrtos.c` | per condition variable a count and a semaphore; per thread a FreeRTOS task and a control block; mutexes, message queues, timers | `pthread_*`, `sem_*`, `mq_*`, `timer_*` | every component; FreeRTOS below | count and semaphore change in different steps; time-outs race with signals; end, join and detach of a thread race for its control block |
| **Scene loop** `project/ctrlboard/scene.c`, `function_table.c` | command queue of 8, quit value, layers | `SceneLoad`, `SceneGotoMainMenu`, `SceneChangeLanguage`, `ScenePredraw` post; `SceneRun`, `SceneQuit` | all user interface code | a post that finds the queue full is dropped; queue closed while tasks post |
| **Photo loader** `project/ctrlboard/photo.c` | callback, quit flag, semaphore | `PhotoLoad`, the load task, `PhotoExit` | screen saver, scene loop | flags shared without a lock |
| **Screen saver** `screen.c` | countdown, last tick, off flag | `ScreenOn`, `ScreenOff`, `ScreenSaverCheck`, `ScreenSaverRefresh` | scene loop | tick wrap-around |
| **Watchdog** `driver/itp/itp_watchdog.c` | refresh timer | enable, disable, refresh | upgrade, exit | disabled around an upgrade |
| **USB device mode** `itp_usb_device.c`, `itp_usbd_fsg.c` | | unmounts the drives while a PC owns the disk | drive driver | not in the default build |
| **Other** media codecs, network stack, ITU toolkit, device drivers, boot loader, third-party libraries | | | | vendored or plain register I/O |

How they interact: the user interface (scene loop) changes `theConfig` and
calls `ConfigSave`; the save task writes through the FAT library into the NOR
cache and asks for a flush; `BackupSave` copies the result to the second
volume.  Cards and USB disks come in through an interrupt and a polling task
that feed one queue; the probe task turns events into drive letters; the scene
loop finds out by looking at the drive table.  At power on, `SDL_main` repairs
the volumes before anything else.

What makes each correct:

* cache: readers always see what was last written, whatever is cached,
  evicted or flushed; what a flush reports done is in the flash; every request
  returns;
* settings: a setting reaches the file; a save cut short by the power never
  costs settings that were saved before; the board comes up again;
* cards: letters are given once per partition and all taken back; the drives
  end up agreeing with the sockets, and the user interface with the drives;
* upgrade: at every instant the board has a complete system or what it takes to
  restore one; an interrupted upgrade is finished; every request is answered;
* POSIX layer: no wake-up lost, mutual exclusion; no control block used after it
  was freed, and none kept for ever;
* scene: a command that was accepted is carried out, quit is reached.

## 2. Modules

| module | models | stands on |
|---|---|---|
| `SectorRequests` | the requests the FAT library makes | |
| `SectorStore` | what the block driver promises: an array of sectors (abstract) | `SectorRequests` |
| `NorCache` | `cache2.c` under `nordrv_f.c` | `SectorRequests`, refines `SectorStore` |
| `NorCacheProofs` | theorems about `NorCache` | `NorCache` |
| `NorCachePages` | theorems about the places of its pages | `NorCacheProofs` |
| `NorCacheContents` | theorems about their data, and the refinement of `SectorStore` | `NorCachePages` |
| `ConfigStore` | `config.c`, `backup.c` and the boot | |
| `ConfigStoreProofs` | theorems about `ConfigStore` | `ConfigStore` |
| `HotPlug` | cards, USB disks, letters, `storage.c` | |
| `HotPlugProofs` | theorems about `HotPlug` | `HotPlug` |
| `Upgrade` | `upgrade.c`, `ug_package.c`, `ug_mark.c` and the next power-on | |
| `UpgradeProofs` | theorems about `Upgrade` | `Upgrade` |
| `CondVar` | condition variables of `itp_posix_openrtos.c` | |
| `CondVarProofs` | theorems about `CondVar` | `CondVar` |
| `Threads` | creation, end, join and detach of threads in `itp_posix_openrtos.c` | |
| `ThreadsProofs` | theorems about `Threads` | `Threads` |
| `MCNorCache`, `MCConfigStore`, `MCHotPlug`, `MCUpgrade`, `MCCondVar`, `MCThreads` | instances for TLC | |

### NorCache

One task at a time is inside the read/write path (`accessMutex`), one at a
time inside a flush (`flushMutex`); `pc[t]` is the task's place.

| action | code |
|---|---|
| `StartRead`, `StartWrite`, `StartFlush` | entry points of `nordrv_f.c`, `iteFatNorFlush` |
| `LockAccess` | `pthread_mutex_lock(&accessMutex)`; locks are given up between two pages of one request |
| `LookupHit`, `LookupMiss` | `_NOR_cache_getPage`: the search, the choice of a free or the oldest entry, the flush it needs |
| `Load`, `LoadFails` | the page read and the update of the entry; a failing read leaves the entry as it was with a partly new buffer |
| `CopyOut`, `CopyIn`, `MarkDirty` | the `memcpy` and, as a step of its own, `dirty = true` |
| `FlushLock`, `FlushPick`, `FlushProgram`, `FlushClear`, `FlushDone`, `FlushFails` | the loop of `_NOR_cache_flush`: find the lowest dirty page, program it sector by sector, `dirty = false` |

`older` is the order of `last_access` (a set of pages per page; ties are not
possible because the counter is incremented on every access).  `owed` is a
history variable: the pages that were dirty when the flush in progress began
and that it has not written yet.
`nor` is the flash by sector; the erase-and-program of a block below
`NorWrite` is taken as one sector write (the driver holds its own semaphore,
which is why `Load` and `FlushProgram` exclude each other through
`DeviceFree`).  Sector contents are model values.

### ConfigStore

A configuration is a version number; a volume holds an ini file and its CRC
file, each a version or one of the special contents *torn* and *missing*.
`files` is what the running system reads, `flash` what survives; they differ
for the volumes in `pending` until a flush.  `PowerLoss` leaves, for each
pending file, the old content, the new content or a damaged one (with
`EntriesLost` also none: a lost directory entry), and restarts the boot.

The save task is one action per step (`TakeCount`, `SetIni`, `OpenIni`,
`DumpIni`, `LockConfig`, `SaveCrc`, `SavedFlush`, `BackupSave`, `BackupFlush`,
`UnlockConfig`, `TestCount`, `StopSaving`, after `BeginSave`); the user interface runs beside it
(`ChangeSetting`, `StartSave`, `UpdateCrcLock`, `UpdateCrc`,
`UpdateCrcFlush`); the boot is `CheckIntact` … `ConfigInit` in the order of
`BackupInit`, the retry loop of `SDL_main` and `BackupSyncFile`.

A flush that no writer runs beside writes everything that is pending
(`FlushCoversAll` of `NorCache`).  The flush of `ConfigUpdateCrc` may run beside
`ConfigSavePublic`, which writes the ini file outside `cfgMutex`
(`config.c:164`).  Then it does what `nor_lost_write` shows of the cache: pages
of the ini file may be marked clean although the flash lacks them
(`FlushBeside`), later flushes leave them out (`Flush` with `cache = "lost"`),
and readers get the old data once the page has been replaced (`ReadAgain`).
`cache` says where this stands, the history variable `overlapped` that it has
happened since the board came up.  Only the ini file is missed: the CRC file
shares no write with the saver at that time.  In this tree `ConfigUpdateCrc` has
no caller (`ctrlboard.h:120` offers it); a flush from elsewhere, an `fsync` or
the FTP server, would have the same effect and is not modelled.

Assumed: a file is damaged while it is open for writing; at most one save task
exists (`AtMostOneSaver`, a conjunct of `ChangeSetting`).  The `theConfig` bytes
are compared as versions, so a CRC matches exactly the version it was made of.

### HotPlug

| action | code |
|---|---|
| `PlugReader`, `ChangeMedium`, `CardIntrHandler` | the user; the pin interrupt writes the table and posts without waiting |
| `MscConnect`, `MscDisconnect`, `MscPoll`, `MscSend`, `MscStatusReset`, `MscResetSend` | the USB host task and the polling task; the status is read in one step and sent in another, after a wait for room |
| `BootProbe` | `DriveMount(NULL)` from `itpInit` |
| `CardRefused` | `DriveMountCard` of an SD card that is in and that `iteSdInitializeEx` cannot initialise: the event is spent |
| `DriveProbe`, `DriveMountCard`, `FatMountPartition`, `DriveMounted`, `FatUnmountLetter`, `DriveUnmounted` | the probe task: one event, the test of the disk, one letter at a time |
| `StorageCheck` | the user interface's scan, which reports the first news |

`Letters` are the rows of `driveStatusTable` that the internal flash leaves
free.  Two history variables: `dropped`, the sockets whose last event found the
queue full, and `refused`, the SD cards whose last mount found no card that
initialises.  The default build has the USB reader only; the SD sockets are
those of a build with `SD0_ENABLE`/`SD1_ENABLE`.  A USB stick is a reader with
one slot whose medium stays.  `StorageCheck` is one step: a row that changes
behind the scan is seen at the next call.

### Upgrade

A package is a backup block and `Units` blocks of raw data or files, all of one
version; the content of a block on the device is a version or `Torn`.  `mark`,
`backup` and `flash` are the device, `cached` what the running system reads;
they differ for the files in `pending` until a flush.

| action | code |
|---|---|
| `StartRestore`, `StartSystem` | power-on: the boot loader asks `ugUpgradeCheck`; `ugRestoreStart` and `ugUpgradePackage` on the backup area, or `UpgradeInit` |
| `OpenUsbPackage`, `OpenFtpPackage`, `GetPackageSize`, `DownloadPackage` | the sources of a package; the two loops of FTP share one retry counter |
| `CheckCrc` | `ugCheckCrc`, for packages from a disk or a server |
| `ForgetStream`, `AwaitStream`, `TakeStream`, `WebDone` | the task of a web upgrade in `UpgradeProcess` |
| `ClearResult`, `SetStream`, `GetResult` | the web server's calls (`UpgradeSetStream`, `UpgradeIsFinished`), step by step, without a lock |
| `UpgradeStart`, `BackupFinish`, `FinishFlush`, `ClearMark` | `ug_mark.c` |
| `SkipBackup`, `WriteBackup`, `VerifyBackup`, `WriteUnit`, `VerifyUnit`, `EndTag` | the loop of `ugUpgradePackage` and its raw-data and file blocks |
| `TagCut`, `BlockCut` | the package breaks off: at a tag the loop ends with 0; with an error when a block cannot be read, written or verified, a disk is full, memory is short or the mark cannot be opened; in a restore as in an upgrade |
| `FlushAndExit`, `RestoreDone` | the end of the program and of a restore; the boot loader does not flush |
| `PowerLoss`, `PowerCycle` | memory is lost; a pending file has its old, its new or a torn content |

`brokenRestore` is a history variable: a restore has ended early, by an error or
by a power loss after its mark said BACKUPING, and no package has been backed up
or installed since.

The boot loader is not in the repository; what it does is taken from `ug.h` and
from what the library offers it.  The CRC check of `UpgradeInit` and
`UpgradeSetFileCrc` are steps of `ConfigStore`.

### CondVar

`count` and `tokens` are the fields of `itpCondition`; `inside` is the set of
threads whose program believes it holds the mutex, which after a time-out is
not the same as `owner`.

| action | code |
|---|---|
| `Lock`, `Unlock` | `pthread_mutex_lock`, `pthread_mutex_unlock` |
| `CountIn`, `UnlockToWait`, `TakeToken`, `LockAgain` | the four steps of `pthread_cond_wait` |
| `TimeOut`, `CountOut` | the semaphore of `pthread_cond_timedwait` was not given in time; `count--` and the return without the mutex |
| `SignalNobody`, `OneLess`, `Give`, `GiveFails`, `Undo` | `pthread_cond_signal`: `count--` in a critical section, the give after it, and `count++` when the semaphore refuses (`RefusedPlaces`) |
| `StartBroadcast`, `BroadcastNobody`, `BroadcastRound`, `BroadcastFails` | the loop of `pthread_cond_broadcast` |

### Threads

A member of `Threads` is a place for a task and its control block, used again
when both were given back.

| action | code |
|---|---|
| `CreateTask`, `SetHandle` | `itpPthreadCreate` before and after the task may run |
| `Start`, `Return`, `TestDetachState`, `Give`, `FreeOwn`, `DeleteOwn`, `CleanUp` | `vTaskCode`, `pthread_exit`, the idle task |
| `Join`, `TakeSemaphore`, `ReadValue`, `FreeJoined`, `DeleteJoined` | `pthread_join` |
| `Detach`, `DeleteSemaphore`, `ClearSemaphore` | `pthread_detach`, which takes no lock |

Three steps use memory that may be gone: the creator's `t->xHandle` of a thread
that was created detached, the detacher's `t->xSemaphore` after the thread has
read that it is detached, and the give to a semaphore that the detacher has
deleted.  Each sets the history variable `corrupted`; the model goes no further
then, because what the program does after it cannot be told.

## 3. What each run checks

| run | instance | states | question |
|---|---|---|---|
| `nor_one_task` | 1 task that also flushes, 2 pages of 2 sectors, 5 sectors (the last page is short) | 787 k | Is the cache an array of sectors (`ImplementsStore`)? Is a clean page equal to the flash (`CleanMatchesFlash`), cached once (`OnePagePerSector`), does a flush cover what was dirty (`FlushCoversAll`), and is what readers get in the flash when it is over (`FlushMakesDurable`)? |
| `nor_flush_beside` | 2 tasks, one flushes; 2 pages of 1 sector, 3 sectors | 4.6 M | Is the page chosen for eviction always written back (`VictimIsClean`), and is a page ever programmed at another's place (`FlashTakesContents`), with a flush beside the writer? |
| `nor_returns` | as above, read and write faults, requests of 1 sector, one content | 210 k | Does every request return (`RequestsReturn`)? |
| `nor_lost_write` ✗ | as `nor_flush_beside` | | "When the sector is swapped out, the data will be written": a write between programming and `dirty = false` is discarded |
| `cfg_power_loss` | 3 settings, 3 power losses, saves and CRC updates at any time, `fopen` may fail | 621 k | Does the boot come through (`BootNeverGivesUp`) and is no flushed save lost (`SavedIsRecoverable`), until a flush has run beside a write (`overlapped`)? |
| `cfg_saves` | 3 settings, 2 power losses that also lose directory entries, saves one after the other | 265 k | Is one copy sound at every instant (`OneCopyIsGood`) and does the board come up, both until a flush has run beside a write?  Do saves end and, while the cache loses nothing, reach the file? |
| `plug_events` | 1 SD socket, 1 USB slot, 2 letters, queue of 1 | 664 k | Are letters owned, given once, and do drives and user interface follow the cards?  Is an event lost other than to a full queue or to a card that does not initialise (`NoEventIsLost`)? |
| `upgrade_cut` | 3 blocks, one of raw data, 2 versions, 2 retries, 2 power losses and faults of blocks at any step, also of a restore | 168 k | Is there at every instant a system or what it takes to restore one (`Recoverable`), and is an interrupted upgrade finished, until a restore itself ends early? Does the mark of an upgrade go last (`ClearedWhenInstalled`)? Do upgrades end unless a download stalls, is the web server answered? |
| `upgrade_restore_cut` ✗ | as `upgrade_cut`, without faults of blocks | | "Checks last upgrade is success or not": a restore cut short leaves a mixed system that `ugUpgradeCheck` calls good |
| `cond_wakeups` | 4 threads, 2 with time-outs, a semaphore of 3 | 203 k | Do count and semaphore account for every waiting thread (`WaitersCounted`)? Does a signal that counts nobody leave no sleeper without a token (`NoWakeupIsLost`), do threads without time-outs exclude each other, do sleepers wake and broadcasts return? |
| `threads_end` | 2 threads, one of which may be detached after its creation, 2 values | 6.7 k | Is the control block there for the task and the user of a joined thread and for the task of a detached one (`BlockIsThere`)? Does a join return, with the right value, and is a detached thread given back, unless a freed block has been used? |
| `thread_detach` ✗ | as `threads_end` | | "Makes a thread's resources reclaimed immediately after it finishes execution": not those of a thread that has parked before it is detached |

✗: a run that TLC must find violated; `PROJECT.json` "findings" quotes the
line of the code's own documentation it contradicts.

**Bounds and why they are enough.**
*Cache.* Two pages are the least with a choice of victim, and a third page's
worth of sectors the least that forces evictions; two sectors a page and five
sectors give a short last page and requests that cross a page; a request of
two sectors is the least that gives up `accessMutex` half way.  Two tasks
suffice because the flush is the only operation that leaves `accessMutex`
aside.  `MaxRequest` and the sizes only bound the instance: the theorems of
section 5 hold for any.  `CACHE_FREE` is any number above the partition.
*Settings.* Two power losses are needed to reach a boot that repairs the
damage of an earlier repair; `MaxPowerLosses` 3 adds one more.  Three versions
distinguish the settings in memory, in the public file and in the backup.
*Cards.* Two letters for two disks and a queue of one make both resources run
out; with the code's three entries every shorter queue is passed on the way.
`MaxPartitions` is 1.
*Upgrade.* Two power losses reach the interruption of what the first one caused.
Three blocks give raw data between files, and with two versions the mixtures
that matter; `MaxRetry` 2 lets the first loop use up part of the counter or all
of it.
`BlockFaults` is FALSE only in `upgrade_restore_cut`, so that its counterexample
needs nothing but the power.
*Condition variables.* Four threads are two waiters, one of which times out, a
signal and a broadcast beside them; a semaphore of 3 (32 in the code) is full
within reach.  The exception of `NoWakeupIsLost` (a refused give that has not
put its count back) is met in this instance: without it TLC finds a signal that
counts nobody while a thread sleeps without a token.  `count` is not bounded by
a constant, it is finite because the semaphore refuses.
*Threads.* Two places, each used again and again; threads share nothing, so a
third would add nothing.

**Deadlock** is checked in every run: the systems have no final state (a user
can always act, or the tasks can), except a board that has stopped in an
assertion of the boot (`BootHasEnded`) and a program whose memory is corrupted
(last disjunct of `Threads!Next`), which stutter.

## 4. Fairness

* Tasks run (WF): FreeRTOS is preemptive and every task blocks between steps,
  so a task that can step gets the processor.
* Mutexes (SF on `LockAccess`, `FlushLock`, `LockConfig`): the waiters of a
  FreeRTOS mutex are woken in turn within a priority; SF says no waiter is
  passed over for ever.
* `SF(MscSend \/ MscResetSend)`: a task blocked in `mq_send` is woken when the
  probe task takes an event; an interrupt may fill the place again, but not
  always.
* `SF(MscDisconnect)`: it has raised `msc_task_stop`, which the poll loop tests
  at each slot, and joins.
* `Upgrade`: WF on what the upgrade task, the boot loader and the web server do
  by themselves, but none on `DownloadPackage`: `curl_easy_perform`
  (`upgrade.c:280`) has a time-out for the replies of the server only, so a
  download whose data stall may never return.  `UpgradeEnds` is stated for
  behaviours that do not stay in a download for ever.  The query of the size
  transfers no data and waits for replies only.
* `CondVar`: WF on the steps of a call that was begun and cannot be refused for
  ever by others; not on `LockAgain` (the mutex may be held for ever by a
  program) nor on `TimeOut` (the time need not run out), and no program need
  signal.
* `Threads`: WF on what ends by itself; start routines need not return.
* Nothing is assumed of the user, of power losses, of device faults or of the
  pin interrupts.  `PowerLoss` stops by its bound; liveness of `ConfigStore`
  and `Upgrade` is therefore about what follows the last one.

## 5. What is proved

`NorCacheProofs`, for any number of tasks, pages, sectors per page and sectors:

* `Invariant == Spec => []IInv` and `TypeCorrect == Spec => []TypeOK`, under
  any device fault;
* `EvictionIsSafe`: `Spec => []VictimIsClean` when the device takes every
  write.  The argument: while a task is in the read/write path it owns
  `accessMutex` (`MutexOwners`), so nobody can make a page dirty
  (`RequestMatchesPc`), so a flush it makes has at least as many rounds left
  as there are dirty pages (`EnoughRounds`), so when it ends no page is dirty.
  `PagesHoldSectors`, `FlushIsSane`, `CopyHits` and `MarksCached` are what
  makes these inductive: a dirty page holds sectors, the flush works on a
  dirty page within its length, a copy is made in the page that holds the
  sector.  Without `EnoughRounds` the loop's bound could cut the flush short,
  which is what happens to an explicit flush (section 6).
* `DriverGoesOn`: `Spec => []NoStandstill`, under any device fault.  While a
  task is in the driver, some task can take its next step; `CanGoOn` writes out
  the guard of each place.  A flush under way can always go on, because among
  finitely many dirty pages one has the lowest sector (`SomeLowest`, from the
  least-number principle of `WellFoundedInduction`); without one, the device is
  free and so is `flushMutex`, and the holder of `accessMutex` goes on: a lookup
  that misses finds a free page or a least recently used one (`SomeVictim`),
  because `older` is a strict order of the pages (`OlderIsOrder`: irreflexive and
  transitive), and a finite set so ordered has a least element.
* `RequestsEnd`: `Spec => []AmountsLeft /\ RequestsShrink`, under any device
  fault: each step of a request leaves less of it, in the order sectors to
  serve, place on the way to the next page, rounds of its flush, place in the
  round, sectors of the page being programmed, and the steps of other tasks
  leave it alone.  With `DriverGoesOn` it is the part of `RequestsReturn` that
  does not depend on scheduling: only unfair locks could keep a request.

`NorCachePages`, on the same invariant:

* `PagesHoldOnce`: `Spec => []OnePagePerSector`, under any device fault.  Pages
  are aligned and of the length their place gives (`PagesAligned`), so two
  pages that share a sector begin at the same one; and no two begin at the same
  one (`PagesDistinct`), because a load comes after a search that found no
  page, with `accessMutex` held in between (`MissStays`): the flush that may
  come between the two renames nothing.
* `FlashIsProgrammedInPlace`: `Spec => FlashTakesContents` when the device
  takes every write.  The flush keeps the sector and the length of the page it
  picked in locals (`FlushNames`); they stay those of the page because a load
  replaces a clean page (`EvictionIsSafe`) and the flush works on a dirty one.
  With a device write that fails, getPage replaces a dirty page, which may be
  the one an explicit flush has picked: the assumption is needed.

`NorCacheContents`, when `FlushesAlone` holds: either no task calls
`ioctl FLUSH`, so that all flushes are those of `getPage`, with any number of
tasks; or there is one task, which also flushes.  The assumption is needed: with
a flush beside a writer the properties are false (section 6).  What the device
may refuse is different for each:

* `FlushesCover`: `Spec => FlushCoversAll`, under any device fault;
* `FlushedIsInFlash`: `Spec => []CleanMatchesFlash`, when page loads do not fail
  (writes may);
* `FlushIsDurable`: `Spec => FlushMakesDurable`, likewise;
* `SwappedOutWritten`: `Spec => SwappedOutIsWritten`, the property that
  `nor_lost_write` refutes with a flush beside a writer, when no device
  operation fails;
* `CacheIsTransparent`: `Spec => ImplementsStore`, the refinement of
  `SectorStore`, when no device operation fails.

  Two layers carry them: `Alone` is what lonely flushes keep whatever the device
  refuses, `Known` adds what a device that refuses nothing gives.
  `CleanMatchesFlash` becomes inductive with `ProgrammedSoFar` (what the flush in
  progress has programmed is what its page holds), which only stays true because
  nobody writes into a page while a flush runs (`NoFlushBeside`).  The refinement
  has one step per action: a load leaves what readers get alone, because the page
  it replaces is clean and equals the flash, and no page held the place it takes
  (`LoadKeeps`); programming does, because the page hides the flash below it
  (`ProgramKeeps`); the `memcpy` of a write is the store's `Put` (`CopyInPuts`);
  all other steps are requests that begin, go on or end.

`ConfigStoreProofs`, for any number of settings and power losses:

* `TypeCorrect`, `OneCopyStaysGood` (`Spec => []OneCopyIsGood`) and
  `BootComesThrough` (`Spec => []BootNeverGivesUp`) for all values of the
  constants: also when directory entries are lost, settings change during a save
  and `fopen` fails.  The last two, and `SavedStays`, promise nothing once a flush
  of `ConfigUpdateCrc` has run beside a write of the ini file (`overlapped`): that
  the code loses settings then follows from `nor_lost_write`.  The invariant says
  for each step of the boot which volume is sound and whether it is on the flash
  (`BootSteps`), and for each step of the save task which of the two volumes is
  not being written (`RunSteps`).
* `SavedStays`: `Spec => []SavedIsRecoverable` when a power loss does not lose
  directory entries.  `SInv` adds that nothing on the way is older than what was
  saved, in memory, in the dictionary and in either volume.
* `SavesReachTheFile`: `Spec => []SettingsAreSaved` when saves do not overlap and
  files can be opened; both are needed (section 6), and so is that the cache has
  not lost a page of the file (`cache # "lost"` in the property).
* `SaveIsOnePass`: `Spec => []SaveGoesOn /\ SaveAdvances`, for all values of the
  constants.  A save that waits for `cfgMutex` waits for `ConfigUpdateCrc`, which
  has two steps to go and waits for nothing; and every step of a save comes
  nearer to its end.  The second needs `CountIsUp`: `cfgSavingCount` is a `bool`
  that is true from the first `ConfigSave` on, so the condition of the loop in
  `ConfigSaveTask` is never true and the loop is one pass.
* `BootIsFinite`: `Spec => []BootLeftIsNumber /\ BootAdvances`.  Every step of a
  boot lowers a number below 20, made of the retries that are left and the place
  of the boot: whatever a power loss has left, the boot restores once at most
  (`BootSteps`) and does not go in circles.

`UpgradeProofs`, for any number of blocks, versions, retries and power losses.
Whatever fails, and wherever the power does (`Always`, theorem `Steady`):

* `TypeCorrect`; `MarkGoesLast` (`Spec => ClearedWhenInstalled`): the blocks
  before the next one are in the cache with the version that is installed
  (`NewIsComing`), what is not pending is on the device (`CacheIsFlash`), and
  nothing is pending when the mark is cleared.  It is about upgrades: in a restore
  the mark is BACKUPING (`ug_mark.c:144`);
* `UpgradeGoesOn`: `Spec => []NeverStuck`.  The boot loader is never without
  something to start: a mark UPGRADING comes with a package in the backup area
  (`MarkMeansBackup`), because the area is overwritten only after
  `ugUpgradeStart` has replaced the mark;
* `UpgradeIsFinite`: `Spec => []LeftIsNumber /\ UpgradeAdvances`: every step
  lowers what is left of an upgrade, counted in blocks and in tries of a
  download, although both loops of `OpenFtpPackage` use one counter.

Until a restore itself ends early (`brokenRestore`; `Kept`, theorem `Invariant`);
`upgrade_restore_cut` shows that this exception is needed:

* `UpgradeIsRecoverable` (`Spec => []Recoverable`) and `CheckIsTrue`
  (`Spec => [](CheckTellsFailure \/ brokenRestore)`).  The invariant follows the
  package:
  until the backup is complete the old system is there and nothing is pending
  (`OldIsThere`); from then on the backup has the version that is being installed
  and the mark says so (`BackupIsThere`); and an upgrade that ends has either
  done all blocks or left the mark (`EndIsSafe`).  A restore can be begun again
  until its first step and not after that (`RestoreIsMarked`), which is why a power
  loss in it breaks the chain; the next package that is backed up mends it.
  `UploadIsFirst` is needed
  because the version of a web package changes outside the package loop.

`CondVarProofs`, for any number of threads, time-outs and any semaphore:

* `TypeCorrect`, `CountIsTrue` (`Spec => []WaitersCounted`), `WakeupsAreKept`
  (`Spec => NoWakeupIsLost`) and `UntimedAreExclusive`
  (`Spec => []UntimedExclude`).  `WaitersCounted` is inductive beside the types:
  each step moves one thread between two places and changes count or tokens by
  one.  Mutual exclusion needs `UntimedOwn`, which says where a thread that
  believes itself inside can be.
  `NoWakeupIsLost` excepts the moment between a give that the semaphore refuses and
  its `count++` (`Refused`), in which a signal may count nobody although somebody
  sleeps without a token.
* `CountStaysNear`: `Spec => []CountIsNear`.  From `WaitersCounted`: `count`, which
  goes below 0 (section 6) and which nothing resets, stays between the number of
  threads and minus that number and the limit of the semaphore.

`ThreadsProofs`, for any number of threads:

* `TypeCorrect`, `BlockOutlivesItsUses` (`Spec => []BlockIsThere`) and
  `JoinIsRight` (`Spec => []JoinGetsValue`).  The invariant says per thread who may
  still free the block: a joinable thread does not (`Joined`), a joiner does so
  after the thread has parked (`Taken`), a detached thread frees its own (`Owned`).
  It does not promise the block to the creator or the detacher of a detached
  thread, who may use it too late (section 6); it says that nothing else can
  (`OnlyDetachCorrupts`).
* `JoinersAreServed`: `Spec => []JoinerIsServed`, a joiner whose thread has parked
  finds the semaphore given, whichever of the two came first (`Signalled`);
* `BlocksAreFreedOnce`: `Spec => []NoBlockLeaks`, whoever gives a task back has
  freed its block, and nobody frees it twice (`Released`), as long as no freed
  block has been used.

`HotPlugProofs`, for any sockets, slots, letters, partitions and queue length:

* `TypeCorrect`, which includes that the queue never exceeds its length;
* `LettersOwned`: `Spec => []LettersAreOwned`;
* `MountsOnce`: `Spec => []MountedOnce`, whichever events report a card twice;
* `CurrentIsKnown`: `Spec => []CurrTypeHasLetter`.

  `MountedOnce` is not inductive: that a mount adds no letter too many needs
  `MountIsCounted` (the disk being mounted is not counted as mounted and has
  exactly the letters of the partitions done), and that a mount starts from no
  letter at all needs `LettersAreOwned`.

* `EventsReachDrives`: `Spec => []NoEventIsLost`.  The invariant (`EventInv`)
  follows the news of each disk: the last event of a disk in the queue says what
  its driver last found (`LastIsNews`), or nothing is queued and the probe task
  works on it, or has done so (`ProbeFollows`); until the boot has come to a disk,
  the card table stands for its events (`StatusIsTold`, `BootInOrder`).  Only a
  pin interrupt that met a full queue (`dropped`) or an SD card that does not
  initialise (`refused`) breaks this chain.
* `InterfaceCatchesUp`: `Spec => []NoNewsIsTrue /\ ReportsEnd`.  A `StorageCheck`
  that finds nothing to report means that the user interface agrees with the
  letters, but for a removal masked by the other kind of disk; and each report
  lowers the number of reports that are due (`NewsLeft`, at most 4).

The assumptions are the named `ASSUME`s of the modules: sizes are positive,
sets of disks and letters finite, slots and sockets distinct.

Every safety property of a passing run, the refinement included, is stated by a
theorem.  Left to TLC are the liveness properties (`RequestsReturn`, `SaveEnds`,
`BoardComesUp`, `DrivesFollowCards`, `StorageFollowsDrives`, `SleepersWake`,
`BroadcastReturns`, `InterruptedIsResumed`, `UpgradeEnds`, `WebIsAnswered`,
`JoinReturns`, `DetachedIsReclaimed`): fairness and ENABLED are beyond the prover.
What of them is a matter of single states and steps is proved: that the system can
go on (`DriverGoesOn`, `SaveGoesOn` in `SaveIsOnePass`, `UpgradeGoesOn`,
`JoinersAreServed`, `WakeupsAreKept`) and that each step brings the end nearer
(`RequestsEnd`, `SaveIsOnePass`, `BootIsFinite`, `UpgradeIsFinite`,
`InterfaceCatchesUp`).  In these the guards are written out by hand, since ENABLED
cannot be used, and that a falling number reaches its end is left to the reader.
TLC has checked the same formulas on the instances of section 3.  `SleepersWake`,
`BroadcastReturns` and `WebIsAnswered` have no such part beyond the invariants
above: their ends depend on what other tasks do meanwhile.

## 6. Where the code and its promises part

Shown by a run:

1. `cache2.c:469`: `dirty = false` without `accessMutex` discards a write made
   since the page was programmed (`nor_lost_write`).  For the same reason
   `ImplementsStore` is about flushes that no writer runs beside.
2. `ug_mark.c:144`: `ugUpgradeStart` writes BACKUPING also in a restore, over the
   UPGRADING that made the boot loader restore, and the backup block that would
   write UPGRADING again is skipped.  A second power loss leaves a mixed system
   that `ugUpgradeCheck` calls good, against `ug.h:38` (`upgrade_restore_cut`).
3. `itp_posix_openrtos.c:1369`: a thread tests `detachstate` once.  When it has
   parked before it is detached, nobody frees its task and its control block,
   against `ithread.h:874` (`thread_detach`); `curl_threads.c:86` relies on it.

Found while modelling, each a choice the models leave open or a reason for an
assumption above:

* `cache2.c:444`: the rounds of an explicit flush can be used up by one page that
  is made dirty again; the flush then ends with a page unwritten
  (`FlushCoversAll` needs `FlushesAlone`).
* `cache2.c:172`: a failed page load leaves an entry with another page's data
  under its old name ("read" is not in `Faults` in the theorems on contents).
* `config.c:16`: `cfgSavingCount` is a `bool`; a save asked for during a save is
  lost (`SettingsAreSaved` needs `SaveWhileSaving = FALSE`), and the loop that
  should notice it at `config.c:182` never repeats (`SaveIsOnePass`).
* `backup.c:316`: defaults are flushed before the backup is copied over them; a
  restore cut short between ends with the defaults copied over the backup
  (`SavedIsRecoverable` needs `EntriesLost = FALSE`, without which that branch is
  not taken).
* `itp_drive_openrtos.c:182`, `:236`: when `iteSdInitializeEx` fails although the
  card is in, its event is spent and nothing tries again until the card is taken
  out; `NoEventIsLost` and `DrivesFollowCards` except such a card.
* `itp_drive_openrtos.c:254`: a failed mount counts as mounted and is never tried
  again; `DrivesFollowCards` is about the flag, not about the letter.
* `itp_posix_openrtos.c:1742`: a time-out returns without the mutex, where
  `ithread.h:708` promises it locked; the program's unlock then does nothing.
  Hence `UntimedExclude` leaves the threads with time-outs out.
* `itp_posix_openrtos.c:1783`, `:1833`: between a give that is refused and the
  `count++` that takes it back, another signal may find nobody counted and return 0
  although a thread sleeps without a token.
* A signal may be counted for a thread that times out before the token comes:
  `count` then goes below 0, and signals and broadcasts make tokens nobody waits
  for, up to the limit of the semaphore: spurious wake-ups.  A broadcast that
  meets the limit returns `EINVAL`, as does one to more than 32 sleepers.
* A token has no addressee: a thread that waits after a broadcast may take the
  one of a thread that the broadcast was for (hence the second half of
  `SleepersWake`).
* `itp_posix_openrtos.c`, `pthread_cond_timedwait`: a deadline in the past makes a
  very long wait (`finish - start` is unsigned).
* `ug_package.c:80`: a package that breaks off at a tag ends with 0, where
  `ug.h:48` promises an error; the mark stays, so the next power-on restores.
* `ug_package.c:126`, `ug_file.c:154`: a restore that ends with an error leaves the
  mark BACKUPING and blocks of two versions, as a power loss in it does; the boot
  loader does not restore again (`brokenRestore`).
* `upgrade.c:280`: a download has no time-out for its data and may never return.
* `config.c:164`: the ini file is written outside `cfgMutex`; a flush of
  `ConfigUpdateCrc` at that time may drop the dirty flag of its pages, and a save
  then copies what never reached the flash (`overlapped`).
* `itp_posix_openrtos.c:1370`: the detacher uses the control block after the thread
  may have freed it, and a thread that tested `detachstate` before may give to the
  semaphore that the detacher has deleted (`:1189`, `:1305`; `queue.c:730` asserts
  or follows a null pointer).  The runs show both as `corrupted`.
* `itp_posix_openrtos.c:1261`: the creator writes the handle into the control
  block after the task has started; a thread that was created detached may have
  freed it (`corrupted`).  `BlockIsThere` is about joinable threads there.

## 7. Not modelled, and why

* `ConfigStore`: two save tasks at once.  `ConfigSave` tests `cfgIsSaving`,
  which the new task sets; a second call before that task runs would start
  another.  The model lets the created task run that statement before the next call
  (`AtMostOneSaver`); the hazard is listed.  Flushes of other callers beside a
  write, such as `fsync` (`itp_posix_openrtos.c:2374`) and the FTP server.
  Partitions are taken as aligned to erase blocks, so a damaged volume never
  damages its neighbour.  An exit during a save has the outcomes of a power
  loss.  The comparison of the special files and the shift of drive letters in
  `backup.c` are folded into "a public file is missing".
* `NorCache`: `nor_release` and the cache's destructor (a flush after it would
  use freed memory; nothing in the application does both); the wrap of
  `accessCounter` after 2^32 accesses, which changes only the choice of victim.
* `HotPlug`: USB device mode, NTFS, forced mount, unformatted partitions and
  write protection, not in the default build or without effect on letters; the
  second drive queue, which nothing reads; more than 26 letters (the bound on
  `Letters` stands for it); the mutual calls of `FatMount` and `FatUnmount`
  when the third NOR partition is missing.
* Code outside `src/`'s own logic (USB host library, `f_getpartition` and the
  rest of the FAT library, FreeRTOS) appears as the answers it gives.
* `Upgrade`: a write of a mark that fails (the functions return 0 all the same,
  `ug_mark.c:153` and `:187`); a package without a backup block, during which
  the mark stays BACKUPING, so that an interruption is not reported; a second `UpgradeSetStream` during a web
  upgrade, which nobody processes; an upload is not checked by CRC; the result of
  the flush is not looked at.  Blocks that create partitions, format a device or
  reset to factory run inside the same loop and are left out, as are directories.
  The order of the blocks is that of the package tool.
* `CondVar`: the depth of the recursive mutex, the destruction of a condition
  variable in use, `PTHREAD_COND_INITIALIZER`.
* `Threads`: `pthread_cancel` (deletes a task wherever it is and frees its block
  in either case), two joiners of one thread, thread keys and their destructors,
  creations that fail with `ENOMEM` or `EAGAIN`.
* The rest of the POSIX layer: message queues, read-write locks, timers and
  semaphores are single FreeRTOS calls; the other models take them as atomic.
* Scene loop: only the first `SceneLoad` of `SDL_main` posts to the queue; the
  other posts are called from action tables of the user interface's design, which
  is not in this tree.  Photo loader: `PhotoLoad` has no caller in this tree.
  Which calls may overlap cannot be read from the code, so nothing is modelled.
* Screen saver and watchdog: a countdown in floating point, and register writes.
* Codecs, network, toolkit, device drivers and third-party libraries: vendored
  code or register I/O without a protocol of their own worth a model.

## 8. Plan

Done: the modules of section 2, in the order cache, settings, cards, upgrade,
POSIX layer (the data, then what protects it, then what feeds and replaces it,
then what all of it runs on).

What would come next:

1. Two save tasks at once in `ConfigStore` (`config.c:214`).
2. `pthread_cancel` in `Threads`.
3. The order of `nor_release` and a flush in `NorCache` (`nordrv_f.c:179`).
4. The ring and list streams of `share/itc` that carry a download or an upload to
   the upgrade (`itc_bufferstream.c`), composed with `Upgrade`.
5. The scene queue, once a design that posts to it is part of the tree.

## 9. Running it

`tlc -config nor_one_task.cfg MCNorCache.tla` (the other runs likewise: the
module of a run is in `PROJECT.json`); `tlapm NorCacheProofs.tla`, and likewise
`NorCachePages`, `NorCacheContents`, `ConfigStoreProofs`, `HotPlugProofs`,
`UpgradeProofs`, `CondVarProofs` and `ThreadsProofs`.  The definitions marked
"slip" are plausible mistakes: each property of a passing run is violated when
the slip named in `PROJECT.json` "mutants" takes the place of the definition it
imitates.
