------------------------------ MODULE Upgrade ------------------------------
(***************************************************************************)
(* The firmware upgrade: UpgradeProcess of project/ctrlboard/upgrade.c,    *)
(* the package loop of ug_package.c with its raw-data and file blocks, and *)
(* the marks of ug_mark.c that tell the next power-on how far it came.     *)
(*                                                                         *)
(* A package is a backup block (a raw-data block of size 0, which copies   *)
(* the whole package to the backup area) followed by Units, each a block   *)
(* of raw data or a file.  A system is complete when all its units are of  *)
(* one version.  Files are written through the NOR cache: until the flush  *)
(* the flash may hold any part of them.  The marks, the backup area and    *)
(* raw data go to the device directly.                                     *)
(***************************************************************************)
EXTENDS Integers, FiniteSets

CONSTANTS
    Versions,       \* contents of packages
    Shipped,        \* the version the board was shipped with
    Torn,           \* what is left of a content that was written in part
    Units,          \* number of blocks after the backup block
    Raw,            \* blocks that are raw data; the others are files
    MaxRetry,       \* OpenFtpPackage: retry (10)
    BlockFaults,    \* reading, writing or verifying the package may fail
    MaxPowerLosses  \* bound of the model

ASSUME VersionsAssumption == Shipped \in Versions /\ Torn \notin Versions
ASSUME UnitsAssumption == Units \in Nat \ {0} /\ Raw \subseteq 1 .. Units
ASSUME RetryAssumption == MaxRetry \in Nat
ASSUME FaultsAssumption ==
    BlockFaults \in BOOLEAN /\ MaxPowerLosses \in Nat

VARIABLES
    mark,       \* the block at CFG_UPGRADE_MARK_POS
    backup,     \* the backup area
    flash,      \* [1 .. Units -> content on the device]
    cached,     \* [1 .. Units -> content as the running system reads it]
    pending,    \* files with writes that the cache has not flushed
    pc,
    source,     \* where the package comes from
    version,    \* the version of the package
    unit,       \* the block that is next, 0 for the backup block
    result,     \* ret of ugUpgradePackage and of its callers: 0 or not
    retry,      \* OpenFtpPackage
    web,        \* the web server's side of a web upgrade
    isReady,    \* upgradeIsReady
    stream,     \* upgradeStream is set
    isFinished, \* upgradeIsFinished
    losses,
    brokenRestore   \* history: a restore ended early, and no package has been
                    \* backed up or installed since

flashVars   == <<mark, backup, flash, cached, pending>>
packageVars == <<source, version, unit, retry>>
webVars     == <<web, isReady, stream, isFinished>>
lossVars    == <<losses, brokenRestore>>
vars == <<flashVars, pc, packageVars, result, webVars, lossVars>>

Blocks == 1 .. Units
Files  == Blocks \ Raw

Init ==
    /\ mark = "none"
    /\ backup = Torn
    /\ flash = [u \in Blocks |-> Shipped]
    /\ cached = flash
    /\ pending = {}
    /\ pc = "bootloader"
    /\ source = "none" /\ version = Shipped /\ unit = 0 /\ retry = 0
    /\ result = 0
    /\ web = "idle" /\ isReady = FALSE /\ stream = FALSE /\ isFinished = FALSE
    /\ losses = 0 /\ brokenRestore = FALSE

Goto(from, to) == pc = from /\ pc' = to

\* The caller of ugUpgradePackage goes on with its result.
Return(from, ret) == Goto(from, "closed") /\ result' = ret
-----------------------------------------------------------------------------
(***************************************************************************)
(* Power-on.  The boot loader asks ugUpgradeCheck, and restores from the   *)
(* backup area when an upgrade was not finished; it is not part of the     *)
(* repository, ug.h and the package library say what it calls.             *)
(***************************************************************************)
\* Slip: the mark is reported and 0 returned.
UpgradeCheckSaysGood == FALSE

UpgradeCheck == mark = "UPGRADING"

Restoring == source = "restore"

StartRestore ==
    /\ Goto("bootloader", "start")
    /\ UpgradeCheck
    /\ backup \in Versions
    /\ source' = "restore"
    /\ version' = backup
    /\ UNCHANGED <<flashVars, unit, retry, result, webVars, lossVars>>

\* UpgradeInit resets the flags.
StartSystem ==
    /\ Goto("bootloader", "running")
    /\ ~UpgradeCheck
    /\ source' = "none"
    /\ web' = "idle" /\ isReady' = FALSE /\ stream' = FALSE /\ isFinished' = FALSE
    /\ UNCHANGED <<flashVars, version, unit, retry, result, lossVars>>
-----------------------------------------------------------------------------
(***************************************************************************)
(* UpgradeProcess and the sources of a package.                            *)
(***************************************************************************)
\* QUIT_UPGRADE_FIRMWARE: the package is on a USB disk, or it is not.
OpenUsbPackage ==
    /\ pc = "running"
    /\ source' = "usb"
    /\ \/ /\ pc' = "check"
          /\ version' \in Versions
          /\ UNCHANGED result
       \/ /\ pc' = "closed"
          /\ result' = 1
          /\ UNCHANGED version
    /\ UNCHANGED <<flashVars, unit, retry, webVars, lossVars>>

OpenFtpPackage ==
    /\ Goto("running", "querying")
    /\ source' = "ftp"
    /\ retry' = MaxRetry
    /\ UNCHANGED <<flashVars, version, unit, result, webVars, lossVars>>

\* while (retry-- >= 0), twice, on one counter.
LoopTest(again) == (again <=> retry >= 0) /\ retry' = retry - 1

GetPackageSize ==
    /\ pc = "querying"
    /\ \/ LoopTest(TRUE) /\ pc' \in {"querying", "downloading"}
       \/ LoopTest(FALSE) /\ pc' = "downloading"
    /\ UNCHANGED <<flashVars, source, version, unit, result, webVars, lossVars>>

\* Slip: a download that fails starts with the size again.
DownloadPackageAgain ==
    /\ pc = "downloading"
    /\ \/ pc' = "querying" /\ retry' = MaxRetry /\ UNCHANGED version
       \/ pc' = "check" /\ retry' = retry - 1 /\ version' \in Versions
    /\ UNCHANGED <<flashVars, source, unit, result, webVars, lossVars>>

DownloadPackage ==
    /\ pc = "downloading"
    /\ \/ /\ LoopTest(TRUE)
          /\ \/ pc' = "downloading" /\ UNCHANGED version
             \/ pc' = "check" /\ version' \in Versions
          /\ UNCHANGED result
       \/ /\ LoopTest(FALSE)
          /\ pc' = "closed"
          /\ result' = 1
          /\ UNCHANGED version
    /\ UNCHANGED <<flashVars, source, unit, webVars, lossVars>>

\* A package from a disk or a server is installed only when its CRC matches.
CheckCrc ==
    /\ \/ Goto("check", "start") /\ UNCHANGED result
       \/ Return("check", 1)
    /\ UNCHANGED <<flashVars, packageVars, webVars, lossVars>>

\* QUIT_UPGRADE_WEB: the stream comes from the web server.
ForgetStream ==
    /\ Goto("running", "opening")
    /\ source' = "web"
    /\ stream' = FALSE
    /\ UNCHANGED <<flashVars, version, unit, retry, result, web, isReady, isFinished, lossVars>>

AwaitStream ==
    /\ Goto("opening", "awaiting")
    /\ isReady' = TRUE
    /\ UNCHANGED <<flashVars, packageVars, result, web, stream, isFinished, lossVars>>

TakeStream ==
    /\ Goto("awaiting", "start")
    /\ stream
    /\ UNCHANGED <<flashVars, packageVars, result, webVars, lossVars>>

\* The web server, outside the repository, as ctrlboard.h describes the calls:
\* it waits for UpgradeIsReady, hands over the upload (UpgradeSetStream) and
\* waits for UpgradeIsFinished.  The stream is the last thing it sets.
ClearResult ==
    /\ web = "idle" /\ isReady
    /\ web' = "handing"
    /\ version' \in Versions
    /\ isFinished' = FALSE
    /\ result' = 0
    /\ UNCHANGED <<flashVars, pc, source, unit, retry, isReady, stream, lossVars>>

SetStream ==
    /\ web = "handing"
    /\ web' = "handed"
    /\ stream' = TRUE
    /\ UNCHANGED <<flashVars, pc, packageVars, result, isReady, isFinished, lossVars>>

GetResult ==
    /\ web = "handed" /\ isFinished
    /\ web' = "told"
    /\ UNCHANGED <<flashVars, pc, packageVars, result, isReady, stream, isFinished, lossVars>>
-----------------------------------------------------------------------------
(***************************************************************************)
(* ugUpgradePackage.                                                       *)
(***************************************************************************)
UpgradeStart ==
    /\ Goto("start", "tag")
    /\ mark' = "BACKUPING"
    /\ unit' = 0
    /\ UNCHANGED <<backup, flash, cached, pending, source, version, retry, result, webVars, lossVars>>

\* Every fault of a block ends the package, in a restore too.
Break(from, ret) ==
    /\ BlockFaults
    /\ Return(from, ret)
    /\ brokenRestore' = (brokenRestore \/ Restoring)
    /\ UNCHANGED <<flashVars, packageVars, webVars, losses>>

\* The read of the header or of a tag fails: ret is still 0.
TagCut == Break("tag", 0)

\* The block cannot be read, written or verified, the disk is full, or memory
\* or the mark's block is not to be had: what was written of it stays.
BlockCut(at) == Break(at, 1)

NextBlock == unit' = unit + 1

SkipBackup ==
    /\ Goto("tag", "tag")
    /\ unit = 0 /\ Restoring
    /\ NextBlock
    /\ UNCHANGED <<flashVars, source, version, retry, result, webVars, lossVars>>

WriteBackup ==
    /\ Goto("tag", "copying")
    /\ unit = 0 /\ ~Restoring
    /\ backup' = Torn
    /\ UNCHANGED <<mark, flash, cached, pending, packageVars, result, webVars, lossVars>>

VerifyBackup ==
    /\ Goto("copying", "copied")
    /\ backup' = version
    /\ UNCHANGED <<mark, flash, cached, pending, packageVars, result, webVars, lossVars>>

\* Slip: the mark is left as it is.
BackupFinishUnmarked ==
    /\ Goto("copied", "tag")
    /\ NextBlock
    /\ UNCHANGED <<flashVars, source, version, retry, result, webVars, lossVars>>

BackupFinish ==
    /\ Goto("copied", "tag")
    /\ mark' = "UPGRADING"
    /\ NextBlock
    /\ brokenRestore' = FALSE
    /\ UNCHANGED <<backup, flash, cached, pending, source, version, retry, result, webVars, losses>>

\* Slip: the cache is in front of raw data too.
WriteUnitCached ==
    /\ Goto("tag", "writing")
    /\ unit \in Blocks
    /\ cached' = [cached EXCEPT ![unit] = Torn]
    /\ pending' = pending \cup {unit}
    /\ UNCHANGED <<mark, backup, flash, packageVars, result, webVars, lossVars>>

\* A file is emptied and filled in the cache, raw data on the device.
WriteUnit ==
    /\ Goto("tag", "writing")
    /\ unit \in Blocks
    /\ cached' = [cached EXCEPT ![unit] = Torn]
    /\ IF unit \in Raw
         THEN flash' = [flash EXCEPT ![unit] = Torn] /\ UNCHANGED pending
         ELSE pending' = pending \cup {unit} /\ UNCHANGED flash
    /\ UNCHANGED <<mark, backup, packageVars, result, webVars, lossVars>>

VerifyUnit ==
    /\ Goto("writing", "tag")
    /\ cached' = [cached EXCEPT ![unit] = version]
    /\ flash' = IF unit \in Raw THEN [flash EXCEPT ![unit] = version] ELSE flash
    /\ NextBlock
    /\ UNCHANGED <<mark, backup, pending, source, version, retry, result, webVars, lossVars>>

EndTag ==
    /\ Goto("tag", "finishing")
    /\ unit = Units + 1
    /\ UNCHANGED <<flashVars, packageVars, result, webVars, lossVars>>

Flush ==
    /\ flash' = [u \in Blocks |-> IF u \in pending THEN cached[u] ELSE flash[u]]
    /\ pending' = {}
    /\ UNCHANGED cached

\* Slip: the mark is cleared without the flush of the cache.
FinishFlushForgotten ==
    /\ Goto("finishing", "clearing")
    /\ UNCHANGED <<flashVars, packageVars, result, webVars, lossVars>>

FinishFlush ==
    /\ Goto("finishing", "clearing")
    /\ Flush
    /\ UNCHANGED <<mark, backup, packageVars, result, webVars, lossVars>>

ClearMark ==
    /\ Return("clearing", 0)
    /\ mark' = "none"
    /\ brokenRestore' = FALSE
    /\ UNCHANGED <<backup, flash, cached, pending, packageVars, webVars, losses>>
-----------------------------------------------------------------------------
(***************************************************************************)
(* After the package: the program flushes and leaves, the boot loader      *)
(* starts again, and the task of a web upgrade sleeps until the board is   *)
(* switched off.                                                           *)
(***************************************************************************)
FlushAndExit ==
    /\ Goto("closed", "bootloader")
    /\ source \in {"usb", "ftp"}
    /\ Flush
    /\ source' = "none" /\ unit' = 0
    /\ UNCHANGED <<mark, backup, version, retry, result, webVars, lossVars>>

\* Slip: the flag is not set.
WebDoneUntold ==
    /\ Goto("closed", "asleep")
    /\ source = "web"
    /\ UNCHANGED <<flashVars, packageVars, result, webVars, lossVars>>

WebDone ==
    /\ Goto("closed", "asleep")
    /\ source = "web"
    /\ isFinished' = TRUE
    /\ UNCHANGED <<flashVars, packageVars, result, web, isReady, stream, lossVars>>

\* What is left of a file that the cache had not flushed.
Remains(u) == IF u \in pending THEN {flash[u], cached[u], Torn} ELSE {flash[u]}

SwitchOff ==
    /\ flash' \in {f \in [Blocks -> Versions \cup {Torn}] : \A u \in Blocks : f[u] \in Remains(u)}
    /\ cached' = flash'
    /\ pending' = {}
    /\ pc' = "bootloader"
    /\ source' = "none" /\ unit' = 0
    /\ web' = "idle" /\ isReady' = FALSE /\ stream' = FALSE /\ isFinished' = FALSE
    /\ UNCHANGED <<mark, backup, version, retry, result>>

\* While it restores, the mark is BACKUPING: the restore is not begun again.
PowerLoss ==
    /\ losses < MaxPowerLosses
    /\ losses' = losses + 1
    /\ SwitchOff
    /\ brokenRestore' = (brokenRestore \/ (Restoring /\ mark = "BACKUPING"))

\* The boot loader starts again after the restore; it does not flush.
RestoreDone ==
    /\ pc = "closed" /\ Restoring
    /\ SwitchOff
    /\ UNCHANGED lossVars

\* The user switches the board off after a web upgrade.
PowerCycle ==
    /\ pc = "asleep"
    /\ SwitchOff
    /\ UNCHANGED lossVars
-----------------------------------------------------------------------------
BreakPlaces == {"start", "tag", "copying", "copied", "writing", "finishing"}

Package == \/ UpgradeStart \/ TagCut \/ (\E at \in BreakPlaces : BlockCut(at))
           \/ SkipBackup \/ WriteBackup \/ VerifyBackup \/ BackupFinish
           \/ WriteUnit \/ VerifyUnit \/ EndTag \/ FinishFlush \/ ClearMark

Process == \/ GetPackageSize \/ CheckCrc \/ AwaitStream \/ TakeStream
           \/ FlushAndExit \/ RestoreDone \/ WebDone

Loader == StartRestore \/ StartSystem

WebServer == SetStream \/ GetResult

User == OpenUsbPackage \/ OpenFtpPackage \/ ForgetStream \/ ClearResult \/ PowerCycle

Next == Package \/ Process \/ DownloadPackage \/ Loader \/ WebServer \/ User \/ PowerLoss

Spec == Init /\ [][Next]_vars

\* The task that upgrades, the boot loader and the web server run.  A download
\* has only a time-out for the replies of the server, none for its data: it may
\* never return.
FairSpec == Spec /\ WF_vars(Package) /\ WF_vars(Process) /\ WF_vars(Loader) /\ WF_vars(WebServer)
-----------------------------------------------------------------------------
(***************************************************************************)
(* Properties.                                                             *)
(***************************************************************************)
Contents == Versions \cup {Torn}

\* Every variable has its type.
TypeOK ==
    /\ mark \in {"none", "BACKUPING", "UPGRADING"}
    /\ backup \in Contents
    /\ flash \in [Blocks -> Contents]
    /\ cached \in [Blocks -> Contents]
    /\ pending \subseteq Files
    /\ pc \in {"bootloader", "running", "querying", "downloading", "check", "opening", "awaiting",
               "start", "tag", "copying", "copied", "writing", "finishing", "clearing",
               "closed", "asleep"}
    /\ source \in {"none", "usb", "ftp", "web", "restore"}
    /\ version \in Versions
    /\ unit \in 0 .. Units + 1
    /\ result \in {0, 1}
    /\ retry \in -3 .. MaxRetry
    /\ web \in {"idle", "handing", "handed", "told"}
    /\ isReady \in BOOLEAN /\ stream \in BOOLEAN /\ isFinished \in BOOLEAN
    /\ losses \in Nat /\ brokenRestore \in BOOLEAN

\* All units of one version, also if the power fails now.
CompleteWith(v) == \A u \in Blocks : flash[u] = v /\ (u \in pending => cached[u] = v)
Complete == \E v \in Versions : CompleteWith(v)

\* The board can be switched off at every instant: it has a complete system, or
\* a mark that makes the boot loader restore and a complete package to restore
\* from, the one that is being installed.  A restore has only the package; when
\* it ends early nothing is promised until the next package is backed up.
Recoverable ==
    \/ brokenRestore
    \/ Restoring /\ backup = version
    \/ Complete
    \/ /\ mark = "UPGRADING"
       /\ backup \in Versions
       /\ pc \in {"tag", "writing", "finishing", "clearing"} => backup = version

\* ug.h: "Checks last upgrade is success or not."  At power-on a system that
\* is not of one version is one that ugUpgradeCheck reports.
CheckTellsFailure == pc = "bootloader" /\ ~Complete => UpgradeCheck

\* The mark UPGRADING is taken away only when every block of the package is on
\* the device itself: not when some of it is still in the cache.  (A restore
\* overwrites that mark with BACKUPING at once: nothing is said of it here.)
ClearedWhenInstalled ==
    [][mark = "UPGRADING" /\ mark' = "none" => \A u \in Blocks : flash[u] = version]_vars

\* An interrupted upgrade is resumed at the next power-on and finished, unless
\* the restore itself ends early.
InterruptedIsResumed ==
    pc = "bootloader" /\ mark = "UPGRADING" ~> (mark = "none" /\ Complete) \/ brokenRestore

\* An upgrade that was begun comes to an end, whatever the server answers and
\* whatever breaks, unless a download stalls for ever.
UpgradeEnds ==
    []<>(pc # "downloading") =>
        (pc \in {"querying", "downloading", "check", "start"} ~> pc \in {"bootloader", "asleep"})

\* The web server learns the result of what it handed over.
WebIsAnswered == web = "handing" ~> web \in {"told", "idle"}
=============================================================================
