--------------------------- MODULE UpgradeProofs ---------------------------
(***************************************************************************)
(* Theorems about Upgrade, for any number of blocks, any division into raw *)
(* data and files, any versions, retries and number of power losses.       *)
(***************************************************************************)
EXTENDS Upgrade, TLAPS

\* The program has not begun a package.
Before == {"running", "querying", "downloading", "check", "opening", "awaiting"}

\* The old system is still there: no package, or its backup is being made.
Untouched == \/ pc \in Before \cup {"start", "copying", "copied"}
             \/ pc = "tag" /\ unit = 0

\* The blocks of a package are being installed.
Installing == \/ pc \in {"writing", "finishing", "clearing"}
              \/ pc = "tag" /\ unit # 0

\* No package is in hand.
Ended == pc \in {"closed", "asleep", "bootloader"}

\* What is not waiting in the cache is on the device.
CacheIsFlash == \A u \in Blocks : u \notin pending => cached[u] = flash[u]

\* Where the place and the counters of the package loop fit together.
PlacesFit ==
    /\ Restoring => pc \in {"start", "tag", "writing", "finishing", "clearing", "closed"}
    /\ pc = "bootloader" => source = "none"
    /\ pc \in {"opening", "awaiting"} => source = "web"
    /\ pc \in {"querying", "downloading", "check"} => source \in {"usb", "ftp"}
    /\ pc \in {"copying", "copied"} => unit = 0 /\ ~Restoring
    /\ pc = "writing" => unit \in Blocks /\ unit \in Raw \cup pending
    /\ pc = "tag" => unit \in 0 .. Units + 1
    /\ pc \in {"finishing", "clearing"} => unit = Units + 1
    /\ pc = "querying" => retry \in -1 .. MaxRetry
    /\ pc = "downloading" => retry \in -2 .. MaxRetry

\* The version is chosen before the stream is: no upload replaces a package.
UploadIsFirst ==
    /\ isReady => source = "web" /\ pc \notin Before \ {"awaiting"}
    /\ stream => web \in {"handed", "told"}
    /\ source = "web" /\ pc \notin Before => web \in {"handed", "told"}

OldIsThere ==
    Untouched =>
        /\ pending = {}
        /\ ~Restoring => mark # "UPGRADING" /\ (Complete \/ brokenRestore)

BackupIsThere ==
    /\ Restoring => backup = version
    /\ pc = "copied" => backup = version
    /\ Installing => backup = version /\ (Restoring \/ mark = "UPGRADING")

\* A restore is resumed until its first step, and not after that.
RestoreIsMarked ==
    /\ Restoring /\ pc = "start" => mark = "UPGRADING"
    /\ Restoring /\ pc \in {"tag", "writing", "finishing", "clearing"} => mark = "BACKUPING"

NewIsComing ==
    /\ Installing => \A u \in Blocks : u < unit => cached[u] = version
    /\ pc = "clearing" => pending = {}

EndIsSafe ==
    Ended => \/ brokenRestore
             \/ Complete /\ pending = {}
             \/ mark = "UPGRADING" /\ backup \in Versions /\ ~Restoring

NothingPends == pc = "bootloader" => pending = {}

\* What holds whatever fails,
Always == /\ TypeOK /\ CacheIsFlash /\ PlacesFit /\ UploadIsFirst
          /\ NewIsComing /\ NothingPends

\* and what holds until a restore ends early.
Kept == OldIsThere /\ BackupIsThere /\ RestoreIsMarked /\ EndIsSafe

IInv == Always /\ Kept
-----------------------------------------------------------------------------
(***************************************************************************)
(* The invariant.                                                          *)
(***************************************************************************)
LEMMA InitHolds == Init => IInv
<1> SUFFICES ASSUME Init PROVE IInv
  OBVIOUS
<1> USE VersionsAssumption, UnitsAssumption, RetryAssumption, FaultsAssumption DEF Init, Blocks
<1>1. TypeOK
  <2>1. flash \in [Blocks -> Contents] /\ cached \in [Blocks -> Contents]
    BY DEF Contents
  <2>2. unit \in 0 .. Units + 1 /\ retry \in -3 .. MaxRetry /\ losses \in Nat
    OBVIOUS
  <2>3. /\ mark = "none" /\ backup = Torn /\ pending = {} /\ pc = "bootloader" /\ source = "none"
        /\ version \in Versions /\ result = 0 /\ web = "idle"
        /\ isReady = FALSE /\ stream = FALSE /\ isFinished = FALSE
        /\ brokenRestore = FALSE
    OBVIOUS
  <2> HIDE DEF Init, Blocks
  <2> QED
    BY <2>1, <2>2, <2>3 DEF TypeOK, Contents
<1>2. CompleteWith(Shipped)
  BY DEF CompleteWith
<1> QED
  BY <1>1, <1>2
  DEF IInv, Always, Kept, CacheIsFlash, PlacesFit, UploadIsFirst, OldIsThere, BackupIsThere,
      RestoreIsMarked, NewIsComing, EndIsSafe, NothingPends, Untouched, Installing, Ended, Before,
      Restoring, Complete

\* What a board that is switched off keeps has the type of contents.
LEMMA SwitchOffKeeps ==
    ASSUME SwitchOff
    PROVE  /\ flash' \in [Blocks -> Contents]
           /\ \A u \in Blocks : flash'[u] \in Remains(u)
           /\ cached' = flash' /\ pending' = {} /\ pc' = "bootloader"
           /\ source' = "none" /\ unit' = 0
           /\ web' = "idle" /\ isReady' = FALSE /\ stream' = FALSE /\ isFinished' = FALSE
           /\ UNCHANGED <<mark, backup, version, retry, result>>
<1>1. flash' \in {f \in [Blocks -> Versions \cup {Torn}] : \A u \in Blocks : f[u] \in Remains(u)}
  BY DEF SwitchOff
<1>2. flash' \in [Blocks -> Contents] /\ \A u \in Blocks : flash'[u] \in Remains(u)
  BY <1>1 DEF Contents
<1> QED
  BY <1>2 DEF SwitchOff

\* Types are kept by every step.
LEMMA TypeStep == TypeOK /\ PlacesFit /\ [Next]_vars => TypeOK'
<1> SUFFICES ASSUME TypeOK, PlacesFit, [Next]_vars PROVE TypeOK'
  OBVIOUS
<1> USE VersionsAssumption, UnitsAssumption, RetryAssumption, FaultsAssumption
    DEF TypeOK, PlacesFit, Contents, Blocks, Files, Goto, flashVars, packageVars, webVars, lossVars
<1>1. CASE StartRestore
  BY <1>1 DEF StartRestore, UpgradeCheck
<1>2. CASE StartSystem
  BY <1>2 DEF StartSystem, UpgradeCheck
<1>3. CASE OpenUsbPackage
  BY <1>3 DEF OpenUsbPackage
<1>4. CASE OpenFtpPackage
  BY <1>4 DEF OpenFtpPackage
<1>5. CASE GetPackageSize
  BY <1>5 DEF GetPackageSize, LoopTest
<1>6. CASE DownloadPackage
  BY <1>6 DEF DownloadPackage, LoopTest
<1>7. CASE CheckCrc
  BY <1>7 DEF CheckCrc, Return
<1>8. CASE ForgetStream
  BY <1>8 DEF ForgetStream
<1>9. CASE AwaitStream
  BY <1>9 DEF AwaitStream
<1>10. CASE TakeStream
  BY <1>10 DEF TakeStream
<1>11. CASE ClearResult
  <2>1. /\ web' = "handing" /\ version' \in Versions /\ isFinished' = FALSE /\ result' = 0
        /\ UNCHANGED <<mark, backup, flash, cached, pending, pc, source, unit, retry, isReady, stream,
                       losses, brokenRestore>>
    BY <1>11 DEF ClearResult
  <2> QED
    BY <2>1, ZenonT(40)
<1>12. CASE SetStream
  BY <1>12 DEF SetStream
<1>13. CASE GetResult
  BY <1>13 DEF GetResult
<1>14. CASE UpgradeStart
  BY <1>14 DEF UpgradeStart
<1>15. CASE TagCut
  BY <1>15 DEF TagCut, Break, Return, BreakPlaces
<1>16. ASSUME NEW at \in BreakPlaces, BlockCut(at) PROVE TypeOK'
  BY <1>16 DEF BlockCut, Break, Return, BreakPlaces
<1>17. CASE SkipBackup
  BY <1>17 DEF SkipBackup, NextBlock
<1>18. CASE WriteBackup
  BY <1>18 DEF WriteBackup
<1>19. CASE VerifyBackup
  BY <1>19 DEF VerifyBackup
<1>20. CASE BackupFinish
  <2>1. mark' = "UPGRADING" /\ pc' = "tag" /\ unit' = unit + 1 /\ unit = 0 /\ brokenRestore' = FALSE
    BY <1>20 DEF BackupFinish, NextBlock
  <2>2. unit' \in 0 .. Units + 1
    BY <2>1
  <2> QED
    BY <1>20, <2>1, <2>2 DEF BackupFinish
<1>21. CASE WriteUnit
  <2>1. cached' \in [Blocks -> Contents] /\ flash' \in [Blocks -> Contents] /\ pending' \subseteq Files
    BY <1>21 DEF WriteUnit
  <2> QED
    BY <1>21, <2>1 DEF WriteUnit
<1>22. CASE VerifyUnit
  <2>1. cached' \in [Blocks -> Contents] /\ flash' \in [Blocks -> Contents]
    BY <1>22 DEF VerifyUnit
  <2> QED
    BY <1>22, <2>1 DEF VerifyUnit, NextBlock
<1>23. CASE EndTag
  BY <1>23 DEF EndTag
<1>24. CASE FinishFlush
  BY <1>24 DEF FinishFlush, Flush
<1>25. CASE ClearMark
  BY <1>25 DEF ClearMark, Return
<1>26. CASE FlushAndExit
  BY <1>26 DEF FlushAndExit, Flush
<1>27. CASE RestoreDone
  <2>1. SwitchOff
    BY <1>27 DEF RestoreDone
  <2> QED
    BY <2>1, <1>27, SwitchOffKeeps DEF RestoreDone, Remains
<1>28. CASE WebDone
  BY <1>28 DEF WebDone
<1>29. CASE PowerLoss
  <2>1. SwitchOff /\ losses' \in Nat /\ brokenRestore' \in BOOLEAN
    BY <1>29 DEF PowerLoss
  <2> QED
    BY <2>1, SwitchOffKeeps
<1>30. CASE PowerCycle
  <2>1. SwitchOff /\ losses' \in Nat /\ brokenRestore' \in BOOLEAN
    BY <1>30 DEF PowerCycle
  <2> QED
    BY <2>1, SwitchOffKeeps
<1>31. CASE UNCHANGED vars
  BY <1>31 DEF vars
<1> QED
  BY <1>1, <1>2, <1>3, <1>4, <1>5, <1>6, <1>7, <1>8, <1>9, <1>10, <1>11, <1>12, <1>13, <1>14,
     <1>15, <1>16, <1>17, <1>18, <1>19, <1>20, <1>21, <1>22, <1>23, <1>24, <1>25, <1>26, <1>27,
     <1>28, <1>29, <1>30, <1>31
  DEF Next, Package, Process, Loader, WebServer, User

(***************************************************************************)
(* What holds whatever fails.                                              *)
(***************************************************************************)
LEMMA AlwaysStep ==
    ASSUME Always, TypeOK', Next
    PROVE  Always'
<1> SUFFICES (CacheIsFlash /\ PlacesFit /\ UploadIsFirst /\ NewIsComing /\ NothingPends)'
  BY DEF Always
<1> USE VersionsAssumption, UnitsAssumption, RetryAssumption
    DEF Always, TypeOK, Contents, Blocks, Files, Goto, flashVars, packageVars, webVars, lossVars,
        CacheIsFlash, PlacesFit, UploadIsFirst, NewIsComing, NothingPends,
        Installing, Before, Restoring
<1>1. CASE StartRestore
  BY <1>1 DEF StartRestore, UpgradeCheck
<1>2. CASE StartSystem
  BY <1>2 DEF StartSystem, UpgradeCheck
<1>3. CASE OpenUsbPackage
  BY <1>3 DEF OpenUsbPackage
<1>4. CASE OpenFtpPackage
  BY <1>4 DEF OpenFtpPackage
<1>5. CASE GetPackageSize
  BY <1>5 DEF GetPackageSize, LoopTest
<1>6. CASE DownloadPackage
  BY <1>6 DEF DownloadPackage, LoopTest
<1>7. CASE CheckCrc
  BY <1>7 DEF CheckCrc, Return
<1>8. CASE ForgetStream
  BY <1>8 DEF ForgetStream
<1>9. CASE AwaitStream
  BY <1>9 DEF AwaitStream
<1>10. CASE TakeStream
  BY <1>10 DEF TakeStream
<1>11. CASE ClearResult
  BY <1>11 DEF ClearResult
<1>12. CASE SetStream
  BY <1>12 DEF SetStream
<1>13. CASE GetResult
  BY <1>13 DEF GetResult
<1>14. CASE UpgradeStart
  BY <1>14 DEF UpgradeStart
<1>15. CASE TagCut
  BY <1>15 DEF TagCut, Break, Return, BreakPlaces
<1>16. ASSUME NEW at \in BreakPlaces, BlockCut(at)
       PROVE  (CacheIsFlash /\ PlacesFit /\ UploadIsFirst /\ NewIsComing /\ NothingPends)'
  BY <1>16 DEF BlockCut, Break, Return, BreakPlaces
<1>17. CASE SkipBackup
  BY <1>17 DEF SkipBackup, NextBlock
<1>18. CASE WriteBackup
  BY <1>18 DEF WriteBackup
<1>19. CASE VerifyBackup
  BY <1>19 DEF VerifyBackup
<1>20. CASE BackupFinish
  BY <1>20 DEF BackupFinish, NextBlock
<1>21. CASE WriteUnit
  BY <1>21 DEF WriteUnit
<1>22. CASE VerifyUnit
  BY <1>22 DEF VerifyUnit, NextBlock
<1>23. CASE EndTag
  BY <1>23 DEF EndTag
<1>24. CASE FinishFlush
  BY <1>24 DEF FinishFlush, Flush
<1>25. CASE ClearMark
  BY <1>25 DEF ClearMark, Return
<1>26. CASE FlushAndExit
  BY <1>26 DEF FlushAndExit, Flush
<1>27. CASE RestoreDone
  <2>1. SwitchOff
    BY <1>27 DEF RestoreDone
  <2> QED
    BY <2>1, <1>27, SwitchOffKeeps DEF RestoreDone, Remains
<1>28. CASE WebDone
  BY <1>28 DEF WebDone
<1>29. CASE PowerLoss
  <2>1. SwitchOff
    BY <1>29 DEF PowerLoss
  <2> QED
    BY <2>1, <1>29, SwitchOffKeeps DEF PowerLoss, Remains
<1>30. CASE PowerCycle
  <2>1. SwitchOff
    BY <1>30 DEF PowerCycle
  <2> QED
    BY <2>1, <1>30, SwitchOffKeeps DEF PowerCycle, Remains
<1> QED
  BY <1>1, <1>2, <1>3, <1>4, <1>5, <1>6, <1>7, <1>8, <1>9, <1>10, <1>11, <1>12, <1>13, <1>14,
     <1>15, <1>16, <1>17, <1>18, <1>19, <1>20, <1>21, <1>22, <1>23, <1>24, <1>25, <1>26, <1>27,
     <1>28, <1>29, <1>30
  DEF Next, Package, Process, Loader, WebServer, User

(***************************************************************************)
(* What holds until a restore ends early.                                  *)
(***************************************************************************)
LEMMA KeptStep ==
    ASSUME IInv, Always', Next
    PROVE  Kept'
<1> USE VersionsAssumption, UnitsAssumption, RetryAssumption
    DEF IInv, Always, Kept, TypeOK, Contents, Blocks, Files, Goto, flashVars, packageVars, webVars, lossVars,
        CacheIsFlash, PlacesFit, UploadIsFirst, OldIsThere, BackupIsThere, RestoreIsMarked,
        NewIsComing, EndIsSafe, NothingPends, Untouched, Installing, Ended, Before, Restoring, Complete, CompleteWith
<1>1. CASE StartRestore
  BY <1>1 DEF StartRestore, UpgradeCheck
<1>2. CASE StartSystem
  BY <1>2 DEF StartSystem, UpgradeCheck
<1>3. CASE OpenUsbPackage
  BY <1>3 DEF OpenUsbPackage
<1>4. CASE OpenFtpPackage
  BY <1>4 DEF OpenFtpPackage
<1>5. CASE GetPackageSize
  BY <1>5 DEF GetPackageSize, LoopTest
<1>6. CASE DownloadPackage
  BY <1>6 DEF DownloadPackage, LoopTest
<1>7. CASE CheckCrc
  BY <1>7 DEF CheckCrc, Return
<1>8. CASE ForgetStream
  BY <1>8 DEF ForgetStream
<1>9. CASE AwaitStream
  BY <1>9 DEF AwaitStream
<1>10. CASE TakeStream
  BY <1>10 DEF TakeStream
<1>11. CASE ClearResult
  BY <1>11 DEF ClearResult
<1>12. CASE SetStream
  BY <1>12 DEF SetStream
<1>13. CASE GetResult
  BY <1>13 DEF GetResult
<1>14. CASE UpgradeStart
  BY <1>14 DEF UpgradeStart
<1>15. CASE TagCut
  BY <1>15 DEF TagCut, Break, Return, BreakPlaces
<1>16. ASSUME NEW at \in BreakPlaces, BlockCut(at) PROVE Kept'
  BY <1>16 DEF BlockCut, Break, Return, BreakPlaces
<1>17. CASE SkipBackup
  BY <1>17 DEF SkipBackup, NextBlock
<1>18. CASE WriteBackup
  BY <1>18 DEF WriteBackup
<1>19. CASE VerifyBackup
  BY <1>19 DEF VerifyBackup
<1>20. CASE BackupFinish
  BY <1>20 DEF BackupFinish, NextBlock
<1>21. CASE WriteUnit
  BY <1>21 DEF WriteUnit
<1>22. CASE VerifyUnit
  BY <1>22 DEF VerifyUnit, NextBlock
<1>23. CASE EndTag
  BY <1>23 DEF EndTag
<1>24. CASE FinishFlush
  BY <1>24 DEF FinishFlush, Flush
<1>25. CASE ClearMark
  BY <1>25 DEF ClearMark, Return
<1>26. CASE FlushAndExit
  BY <1>26 DEF FlushAndExit, Flush
<1>27. CASE RestoreDone
  <2>1. SwitchOff
    BY <1>27 DEF RestoreDone
  <2> QED
    BY <2>1, <1>27, SwitchOffKeeps DEF RestoreDone, Remains
<1>28. CASE WebDone
  BY <1>28 DEF WebDone
<1>29. CASE PowerLoss
  <2>1. SwitchOff /\ brokenRestore' = (brokenRestore \/ (Restoring /\ mark = "BACKUPING"))
    BY <1>29 DEF PowerLoss
  <2>2. CASE brokenRestore'
    BY <2>1, <2>2, SwitchOffKeeps
  <2>3. CASE ~brokenRestore' /\ pc \in {"start", "closed"} /\ Restoring
    BY <2>1, <2>3, SwitchOffKeeps DEF Remains
  <2>4. CASE ~brokenRestore' /\ pc \notin {"start", "closed"} /\ Restoring
    BY <2>1, <2>4
  <2>5. CASE ~brokenRestore' /\ ~Restoring /\ Installing
    BY <2>1, <2>5, SwitchOffKeeps
  <2>6. CASE ~brokenRestore' /\ ~Restoring /\ ~Installing
    BY <2>1, <2>6, SwitchOffKeeps DEF Remains
  <2> QED
    BY <2>2, <2>3, <2>4, <2>5, <2>6
<1>30. CASE PowerCycle
  <2>1. SwitchOff
    BY <1>30 DEF PowerCycle
  <2> QED
    BY <2>1, <1>30, SwitchOffKeeps DEF PowerCycle, Remains
<1> QED
  BY <1>1, <1>2, <1>3, <1>4, <1>5, <1>6, <1>7, <1>8, <1>9, <1>10, <1>11, <1>12, <1>13, <1>14,
     <1>15, <1>16, <1>17, <1>18, <1>19, <1>20, <1>21, <1>22, <1>23, <1>24, <1>25, <1>26, <1>27,
     <1>28, <1>29, <1>30
  DEF Next, Package, Process, Loader, WebServer, User

\* A step that changes nothing keeps both.
LEMMA StutterKeeps == UNCHANGED vars => (Always => Always') /\ (Kept => Kept')
BY DEF Always, Kept, vars, flashVars, packageVars, webVars, lossVars, TypeOK, Contents, CacheIsFlash, PlacesFit,
       UploadIsFirst, OldIsThere, BackupIsThere, RestoreIsMarked, NewIsComing, EndIsSafe, NothingPends, Untouched,
       Installing, Ended, Before, Restoring, Complete, CompleteWith

LEMMA AlwaysNext == Always /\ [Next]_vars => Always'
<1>1. Always /\ [Next]_vars => TypeOK'
  BY TypeStep DEF Always
<1> QED
  BY <1>1, AlwaysStep, StutterKeeps

LEMMA IInvStep == IInv /\ [Next]_vars => IInv'
<1> SUFFICES ASSUME IInv, [Next]_vars PROVE IInv'
  OBVIOUS
<1>1. Always'
  BY AlwaysNext DEF IInv
<1>2. Kept'
  BY <1>1, KeptStep, StutterKeeps DEF IInv
<1> QED
  BY <1>1, <1>2 DEF IInv

LEMMA InvariantImplies == IInv => Recoverable
<1> SUFFICES ASSUME IInv, ~Restoring, ~brokenRestore PROVE Recoverable
  BY DEF IInv, Kept, Recoverable, BackupIsThere
<1>1. CASE Untouched
  BY <1>1 DEF IInv, Kept, OldIsThere, Recoverable
<1>2. CASE Installing
  BY <1>2 DEF IInv, Always, Kept, TypeOK, BackupIsThere, Recoverable
<1>3. CASE Ended
  BY <1>3 DEF IInv, Kept, EndIsSafe, Ended, Recoverable
<1> QED
  BY <1>1, <1>2, <1>3 DEF IInv, Always, TypeOK, Untouched, Installing, Ended, Before

LEMMA ClearStep == Always /\ [Next]_vars =>
                     (mark = "UPGRADING" /\ mark' = "none" => \A u \in Blocks : flash[u] = version)
<1> SUFFICES ASSUME Always, [Next]_vars, mark = "UPGRADING", mark' = "none"
             PROVE  \A u \in Blocks : flash[u] = version
  OBVIOUS
<1>1. ClearMark
  BY DEF Next, Package, Process, Loader, WebServer, User, vars, flashVars, StartRestore, StartSystem,
     OpenUsbPackage, OpenFtpPackage, GetPackageSize, DownloadPackage, CheckCrc, ForgetStream,
     AwaitStream, TakeStream, ClearResult, SetStream, GetResult, UpgradeStart, TagCut, BlockCut, Break,
     BreakPlaces, SkipBackup, WriteBackup, VerifyBackup, BackupFinish, WriteUnit, VerifyUnit, EndTag, FinishFlush, FlushAndExit, RestoreDone, WebDone,
     PowerLoss, PowerCycle, SwitchOff
<1>2. pc = "clearing"
  BY <1>1 DEF ClearMark, Return, Goto
<1>3. unit = Units + 1 /\ pending = {} /\ \A u \in Blocks : u < unit => cached[u] = version
  BY <1>2 DEF Always, PlacesFit, NewIsComing, Installing
<1> QED
  BY <1>3, UnitsAssumption DEF Always, CacheIsFlash, Blocks
-----------------------------------------------------------------------------
(***************************************************************************)
(* Theorems.                                                               *)
(***************************************************************************)
\* What the package loop keeps, whatever fails.
THEOREM Steady == Spec => []Always
<1>1. Init => Always
  BY InitHolds DEF IInv
<1> QED
  BY <1>1, AlwaysNext, PTL DEF Spec

\* The invariant of the upgrade.
THEOREM Invariant == Spec => []IInv
  BY InitHolds, IInvStep, PTL DEF Spec

\* Marks, areas, blocks and counters have their types, and the tries of a
\* download (OpenFtpPackage) never run past their number, whatever fails.
THEOREM TypeCorrect == Spec => []TypeOK
<1>1. Always => TypeOK
  BY DEF Always
<1> QED
  BY <1>1, Steady, PTL

\* Power may be lost, or a block fail, at any step of an upgrade (ug_mark.c): the
\* board is left with a complete system, or with a mark and a complete backup to
\* restore.  A restore keeps the backup; once one has ended early, nothing is
\* said until the next package is backed up.
THEOREM UpgradeIsRecoverable == Spec => []Recoverable
  BY Invariant, InvariantImplies, PTL

\* ugUpgradeCheck reports every system that is not of one version, unless a
\* restore ended early; upgrade_restore_cut shows that it misses such a system.
THEOREM CheckIsTrue == Spec => [](CheckTellsFailure \/ brokenRestore)
<1>1. IInv => CheckTellsFailure \/ brokenRestore
  BY DEF IInv, Kept, EndIsSafe, Ended, CheckTellsFailure, UpgradeCheck
<1> QED
  BY <1>1, Invariant, PTL

\* ugUpgradeFinish takes the mark UPGRADING away only after the cache has been
\* flushed with every block of the package, whatever failed before.  In a restore
\* the mark is BACKUPING, so the theorem says nothing of one.
THEOREM MarkGoesLast == Spec => ClearedWhenInstalled
<1>1. Always /\ [Next]_vars =>
        [mark = "UPGRADING" /\ mark' = "none" => \A u \in Blocks : flash[u] = version]_vars
  BY ClearStep
<1> QED
  BY <1>1, Steady, PTL DEF Spec, ClearedWhenInstalled
-----------------------------------------------------------------------------
(***************************************************************************)
(* An upgrade is never stuck and cannot go on for ever: what is left of    *)
(* UpgradeEnds and InterruptedIsResumed without fairness.                  *)
(***************************************************************************)
\* The mark says UPGRADING only from the end of the backup block on, and then
\* the backup area holds a package.
MarkMeansBackup ==
    /\ mark = "UPGRADING" => backup \in Versions
    /\ pc = "copied" => backup \in Versions
    /\ pc \in {"copying", "copied"} \/ (pc = "tag" /\ unit = 0) => mark # "UPGRADING"

\* Whoever is upgrading has a package from somewhere.
SourceIsSet == pc \notin {"bootloader", "running"} => source # "none"

LEMMA InitMarks == Init => MarkMeansBackup /\ SourceIsSet
  BY DEF Init, MarkMeansBackup, SourceIsSet

LEMMA NextMarks ==
  Always /\ MarkMeansBackup /\ SourceIsSet /\ [Next]_vars => (MarkMeansBackup /\ SourceIsSet)'
<1> SUFFICES ASSUME Always, MarkMeansBackup, SourceIsSet, [Next]_vars
             PROVE  (MarkMeansBackup /\ SourceIsSet)'
  OBVIOUS
<1> USE UnitsAssumption DEF Always, TypeOK, MarkMeansBackup, SourceIsSet, Goto, flashVars, packageVars, webVars, lossVars
<1>1. CASE StartRestore
  BY <1>1 DEF StartRestore
<1>2. CASE StartSystem
  BY <1>2 DEF StartSystem
<1>3. CASE OpenUsbPackage
  BY <1>3 DEF OpenUsbPackage
<1>4. CASE OpenFtpPackage
  BY <1>4 DEF OpenFtpPackage
<1>5. CASE GetPackageSize
  BY <1>5 DEF GetPackageSize
<1>6. CASE DownloadPackage
  BY <1>6 DEF DownloadPackage
<1>7. CASE CheckCrc
  BY <1>7 DEF CheckCrc, Return
<1>8. CASE ForgetStream
  BY <1>8 DEF ForgetStream
<1>9. CASE AwaitStream
  BY <1>9 DEF AwaitStream
<1>10. CASE TakeStream
  BY <1>10 DEF TakeStream
<1>11. CASE ClearResult
  BY <1>11 DEF ClearResult
<1>12. CASE SetStream
  BY <1>12 DEF SetStream
<1>13. CASE GetResult
  BY <1>13 DEF GetResult
<1>14. CASE UpgradeStart
  BY <1>14 DEF UpgradeStart
<1>15. CASE TagCut
  BY <1>15 DEF TagCut, Break, Return
<1>16. ASSUME NEW at \in BreakPlaces, BlockCut(at) PROVE (MarkMeansBackup /\ SourceIsSet)'
  BY <1>16 DEF BlockCut, Break, Return, BreakPlaces
<1>17. CASE SkipBackup
  BY <1>17 DEF SkipBackup, NextBlock
<1>18. CASE WriteBackup
  BY <1>18 DEF WriteBackup
<1>19. CASE VerifyBackup
  BY <1>19 DEF VerifyBackup
<1>20. CASE BackupFinish
  BY <1>20 DEF BackupFinish, NextBlock
<1>21. CASE WriteUnit
  BY <1>21 DEF WriteUnit
<1>22. CASE VerifyUnit
  BY <1>22 DEF VerifyUnit, NextBlock
<1>23. CASE EndTag
  BY <1>23 DEF EndTag
<1>24. CASE FinishFlush
  BY <1>24 DEF FinishFlush
<1>25. CASE ClearMark
  BY <1>25 DEF ClearMark, Return
<1>26. CASE FlushAndExit
  BY <1>26 DEF FlushAndExit
<1>27. CASE RestoreDone
  <2>1. SwitchOff
    BY <1>27 DEF RestoreDone
  <2> QED
    BY <2>1, <1>27, SwitchOffKeeps DEF RestoreDone, Remains
<1>28. CASE WebDone
  BY <1>28 DEF WebDone
<1>29. CASE PowerLoss
  BY <1>29 DEF PowerLoss, SwitchOff
<1>30. CASE PowerCycle
  BY <1>30 DEF PowerCycle, SwitchOff
<1>31. CASE UNCHANGED vars
  BY <1>31 DEF vars
<1> QED
  BY <1>1, <1>2, <1>3, <1>4, <1>5, <1>6, <1>7, <1>8, <1>9, <1>10, <1>11, <1>12, <1>13, <1>14,
     <1>15, <1>16, <1>17, <1>18, <1>19, <1>20, <1>21, <1>22, <1>23, <1>24, <1>25, <1>26, <1>27,
     <1>28, <1>29, <1>30, <1>31
  DEF Next, Package, Process, Loader, WebServer, User

LEMMA MarksHold == Spec => [](MarkMeansBackup /\ SourceIsSet)
  BY InitMarks, Steady, NextMarks, PTL DEF Spec

\* The boot loader can start the system or a restore, the package loop has a
\* block or the end tag before it, and somebody goes on when it has returned.
NeverStuck ==
    /\ pc = "bootloader" => ~UpgradeCheck \/ backup \in Versions
    /\ pc = "tag" => unit = 0 \/ unit \in Blocks \/ unit = Units + 1
    /\ pc = "closed" => source \in {"usb", "ftp"} \/ Restoring \/ source = "web"

\* The steps that are left of an upgrade, at most: four for each block, and one
\* for each try that is left of a download, besides the fixed ones.
BlocksLeft == 4 * (Units + 1 - unit)
UpgradeLeft ==
    CASE pc \in {"bootloader", "running", "asleep"} -> 0
      [] pc = "closed" -> 1
      [] pc = "clearing" -> 2
      [] pc = "finishing" -> 3
      [] pc = "tag" -> 4 + BlocksLeft
      [] pc \in {"copying", "writing"} -> 3 + BlocksLeft
      [] pc = "copied" -> 2 + BlocksLeft
      [] pc = "start" -> 4 * Units + 9
      [] pc \in {"check", "awaiting"} -> 4 * Units + 10
      [] pc = "opening" -> 4 * Units + 11
      [] pc = "downloading" -> 4 * Units + 14 + retry
      [] pc = "querying" -> 4 * Units + 16 + retry

LeftIsNumber == UpgradeLeft \in Nat
UpgradeAdvances ==
    [][pc \notin {"bootloader", "running", "asleep"} /\ <<pc, unit, retry>>' # <<pc, unit, retry>>
          => UpgradeLeft' < UpgradeLeft]_vars

\* What is left is a number.
LEMMA LeftType == Always => LeftIsNumber
<1> SUFFICES ASSUME Always PROVE UpgradeLeft \in Nat
  BY DEF LeftIsNumber
<1>1. /\ Units \in Nat /\ MaxRetry \in Nat /\ unit \in 0 .. Units + 1
      /\ pc = "querying" => retry \in -1 .. MaxRetry
      /\ pc = "downloading" => retry \in -2 .. MaxRetry
      /\ pc \in {"bootloader", "running", "querying", "downloading", "check", "opening", "awaiting",
                 "start", "tag", "copying", "copied", "writing", "finishing", "clearing",
                 "closed", "asleep"}
  BY UnitsAssumption, RetryAssumption DEF Always, TypeOK, PlacesFit
<1>2. BlocksLeft \in Nat
  BY <1>1 DEF BlocksLeft
<1> QED
  BY <1>1, <1>2 DEF UpgradeLeft

\* Every step that leaves the place changes what is left, downwards.
LEMMA LeftFalls ==
  ASSUME Always, Next, pc \notin {"bootloader", "running", "asleep"},
         <<pc, unit, retry>>' # <<pc, unit, retry>>
  PROVE  UpgradeLeft' < UpgradeLeft
<1>1. /\ Units \in Nat \ {0} /\ MaxRetry \in Nat /\ unit \in 0 .. Units + 1 /\ retry \in Int
      /\ pc = "querying" => retry \in -1 .. MaxRetry
      /\ pc = "downloading" => retry \in -2 .. MaxRetry
      /\ pc \in {"querying", "downloading", "check", "opening", "awaiting", "start", "tag",
                 "copying", "copied", "writing", "finishing", "clearing", "closed"}
      /\ pc \in {"copying", "copied"} => unit = 0
      /\ pc = "writing" => unit \in 1 .. Units
      /\ pc \in {"finishing", "clearing"} => unit = Units + 1
  BY UnitsAssumption, RetryAssumption DEF Always, TypeOK, PlacesFit, Blocks
<1>2. CASE pc' \in {"bootloader", "asleep"}
  <2>1. UpgradeLeft' = 0
    BY <1>2 DEF UpgradeLeft
  <2>2. BlocksLeft \in Nat
    BY <1>1 DEF BlocksLeft
  <2>3. UpgradeLeft > 0
    BY <1>1, <2>2 DEF UpgradeLeft
  <2> QED
    BY <2>1, <2>3
<1>3. CASE pc' \notin {"bootloader", "asleep"}
  <2>1. \/ pc = "querying" /\ pc' \in {"querying", "downloading"} /\ retry' = retry - 1 /\ unit' = unit
        \/ pc = "downloading" /\ pc' \in {"downloading", "check", "closed"}
             /\ retry' = retry - 1 /\ unit' = unit
        \/ pc = "check" /\ pc' \in {"start", "closed"} /\ unit' = unit
        \/ pc \in BreakPlaces /\ pc' = "closed"
        \/ pc = "opening" /\ pc' = "awaiting"
        \/ pc = "awaiting" /\ pc' = "start"
        \/ pc = "start" /\ pc' = "tag" /\ unit' = 0
        \/ pc = "tag" /\ pc' = "tag" /\ unit' = unit + 1
        \/ pc = "tag" /\ pc' \in {"copying", "writing"} /\ unit' = unit
        \/ pc = "tag" /\ pc' = "finishing" /\ unit' = unit
        \/ pc = "copying" /\ pc' = "copied" /\ unit' = unit
        \/ pc = "clearing" /\ pc' = "closed"
        \/ pc \in {"copied", "writing"} /\ pc' = "tag" /\ unit' = unit + 1
        \/ pc = "finishing" /\ pc' = "clearing"
    BY <1>1, <1>3
    DEF Next, Package, Process, Loader, WebServer, User, Goto, Return, Break, LoopTest, NextBlock, packageVars,
        StartRestore, StartSystem, OpenUsbPackage, OpenFtpPackage, GetPackageSize, DownloadPackage,
        CheckCrc, ForgetStream, AwaitStream, TakeStream, ClearResult, SetStream, GetResult,
        UpgradeStart, TagCut, BlockCut, Break, BreakPlaces, SkipBackup, WriteBackup, VerifyBackup, BackupFinish,
        WriteUnit, VerifyUnit, EndTag, FinishFlush, ClearMark, FlushAndExit, RestoreDone, WebDone,
        PowerLoss, PowerCycle, SwitchOff
  <2> QED
    BY <1>1, <2>1 DEF UpgradeLeft, BlocksLeft, BreakPlaces
<1> QED
  BY <1>2, <1>3

\* ugUpgradeCheck, ugUpgradePackage: wherever the power fails, the boot loader
\* can go on (a mark UPGRADING comes with a package in the backup area), and so
\* can whoever upgrades.
THEOREM UpgradeGoesOn == Spec => []NeverStuck
<1>1. Always /\ MarkMeansBackup /\ SourceIsSet => NeverStuck
  BY UnitsAssumption DEF Always, TypeOK, PlacesFit, MarkMeansBackup, SourceIsSet, NeverStuck, UpgradeCheck,
     Restoring, Blocks
<1> QED
  BY <1>1, Steady, MarksHold, PTL

\* UpgradeProcess, ugUpgradePackage: the two loops of OpenFtpPackage on one
\* counter and the loop over the blocks come to an end.
THEOREM UpgradeIsFinite == Spec => []LeftIsNumber /\ UpgradeAdvances
<1>1. Always /\ [Next]_vars =>
        [pc \notin {"bootloader", "running", "asleep"} /\ <<pc, unit, retry>>' # <<pc, unit, retry>>
           => UpgradeLeft' < UpgradeLeft]_vars
  BY LeftFalls
<1> QED
  BY <1>1, LeftType, Steady, PTL DEF Spec, UpgradeAdvances
=============================================================================
