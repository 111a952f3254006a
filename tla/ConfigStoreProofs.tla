------------------------- MODULE ConfigStoreProofs -------------------------
(***************************************************************************)
(* Theorems about ConfigStore, for any number of settings and power        *)
(* losses, whether or not a power loss may lose directory entries, whether *)
(* or not settings change during a save, and whether or not fopen fails.   *)
(*                                                                         *)
(* Base holds always.  What is said about the contents of the flash holds  *)
(* until a flush of ConfigUpdateCrc has run beside a write of the ini      *)
(* file, and again when a boot has come through after that.                *)
(***************************************************************************)
EXTENDS ConfigStore, TLAPS

Sound(v)   == Consistent(files[v])
OnFlash(v) == files[v] = flash[v]

\* cfgMutex belongs to whoever is in its section; before the boot is over
\* neither the save task nor the user interface runs; no second save task.
Owners ==
    /\ sys # "run" => saver = "none" /\ ui = "idle"
    /\ isSaving <=> saver \notin {"none", "start"}
    /\ ui = "save" => saver # "start"
    /\ mutex = "saver" <=> saver \in {"crc", "flush", "backup", "flush_backup", "unlock"}
    /\ mutex = "ui" <=> ui \in {"crc", "flush"}

\* Only the flush of ConfigUpdateCrc meets a writer.
CacheSteps ==
    /\ sys # "run" => cache = "sound"
    /\ cache = "beside" => ui = "flush"
    /\ cache = "lost" => overlapped

\* What the boot leaves in the flash, whatever it has found there, and how
\* often it tries.
BootFlushes ==
    /\ sys # "reset" => retries <= 2
    /\ sys \in {"check", "crc_check", "restore", "sync", "init"} => pending = {} /\ files = flash
    /\ sys \in {"sync", "flush_sync", "init"} => Sound("public")
    /\ sys \in {"flush_sync", "init"} => files["backup"] = files["public"]
    /\ sys = "flush_sync" =>
         /\ OnFlash("public")
         /\ pending \subseteq {"backup"}
         /\ pending = {} => OnFlash("backup")

Base == TypeOK /\ Owners /\ CacheSteps /\ BootFlushes

\* What each step of the boot starts from.
BootSteps ==
    /\ sys = "check" => (Sound("public") \/ Sound("backup")) /\ retries = 0
    /\ sys \in {"default_public", "flush_default"} =>
         pending = {"public"} /\ OnFlash("backup") /\ Sound("backup")
    /\ sys = "default_backup" => pending = {"backup"} /\ OnFlash("public") /\ Sound("public")
    /\ sys = "restore" => Sound("backup")
    /\ sys = "flush_restore" =>
         /\ Sound("public") /\ Sound("backup")
         /\ \/ pending = {"public"} /\ OnFlash("backup")
            \/ pending = {"backup"} /\ OnFlash("public")
    /\ sys = "crc_check" =>
         /\ ~IsMissing("public") /\ ~IsMissing("backup")
         /\ Sound("public") \/ (retries = 0 /\ Sound("backup"))
    /\ sys = "sync" => ~IsMissing("backup")
    /\ sys # "run" => retries <= 1

\* The boot does not stop.
BootGoesOn == sys \notin {"halted", "reset"}

\* While the program runs one volume is sound and not being written: the
\* backup until the save has flushed the public one, then the public one.
RunSteps ==
    sys = "run" =>
      /\ saver # "flush_backup" => "backup" \notin pending /\ OnFlash("backup") /\ Sound("backup")
      /\ saver \notin {"dump", "lock", "crc", "flush"} => OnFlash("public") /\ Sound("public")
      /\ saver \in {"backup", "flush_backup"} => "public" \notin pending
      /\ saver = "flush_backup" => files["backup"] = files["public"]
      /\ files["public"].crc \in Versions \cup {PartialCrc}
      /\ saver = "dump" => files["public"].ini = Torn
      /\ saver \in {"lock", "crc"} => files["public"].ini \in Versions
      /\ saver = "flush" => Sound("public")

IInv == Base /\ ~overlapped /\ BootSteps /\ BootGoesOn /\ RunSteps
-----------------------------------------------------------------------------
(***************************************************************************)
(* Files and volumes.                                                      *)
(***************************************************************************)
\* The values that stand for files that are no versions are none.
LEMMA NoVersions ==
    /\ Torn \notin Versions /\ Missing \notin Versions /\ PartialCrc \notin Versions
    /\ Torn # Missing /\ Torn # PartialCrc /\ Missing # PartialCrc
    /\ 0 \in Versions
  BY ConstantsAssumption DEF Versions

\* What ugSetFileCrc leaves of a volume.
LEMMA CrcSet ==
  ASSUME NEW fs \in Contents
  PROVE  /\ SetFileCrc(fs) \in Contents
         /\ SetFileCrc(fs).ini = fs.ini
         /\ Consistent(fs) => SetFileCrc(fs) = fs
         /\ fs.crc \in Versions \cup {PartialCrc} /\ fs.ini \in Versions \cup {Torn} =>
              /\ SetFileCrc(fs).crc = IF fs.ini = Torn THEN PartialCrc ELSE fs.ini
              /\ fs.ini \in Versions => Consistent(SetFileCrc(fs))
  BY NoVersions DEF SetFileCrc, Contents, Consistent

\* The special contents of a volume have their type.
LEMMA ContentsOf == Default \in Contents /\ Consistent(Default) /\ Empty \in Contents
  BY NoVersions DEF Default, Empty, Contents, Consistent

Other(v) == IF v = "public" THEN "backup" ELSE "public"

\* What WriteVolume does to one volume and leaves of the other.
Written(v, fs) ==
    /\ files' \in [Volumes -> Contents]
    /\ files'[v] = fs /\ files'[Other(v)] = files[Other(v)]
    /\ flash' = flash
    /\ pending' = pending \cup {v} /\ pending' \subseteq Volumes

LEMMA VolumeWritten ==
  ASSUME Base, NEW v \in Volumes, NEW fs \in Contents, WriteVolume(v, fs)
  PROVE  Written(v, fs)
  BY DEF Base, TypeOK, WriteVolume, Written, Other, Volumes

\* The program runs: it is not the boot that goes on.
LEMMA BootIsOver ==
  ASSUME IInv, sys = "run", UNCHANGED bootVars
  PROVE  (BootSteps /\ BootGoesOn)'
  BY DEF IInv, BootFlushes, BootSteps, BootGoesOn, bootVars

\* What a volume holds is all that soundness looks at.
LEMMA SameSoundness ==
  ASSUME UNCHANGED diskVars, NEW v \in Volumes
  PROVE  Sound(v)' = Sound(v) /\ OnFlash(v)' = OnFlash(v)
  BY DEF Sound, OnFlash, Consistent, diskVars

\* Neither the disks nor the save task move.
LEMMA RunGoesOn ==
  ASSUME IInv, UNCHANGED diskVars, UNCHANGED <<sys, saver>>
  PROVE  RunSteps'
<1>1. /\ Sound("public")' = Sound("public") /\ Sound("backup")' = Sound("backup")
      /\ OnFlash("public")' = OnFlash("public") /\ OnFlash("backup")' = OnFlash("backup")
  BY SameSoundness DEF Volumes
<1>2. UNCHANGED <<files, pending, sys, saver>>
  BY DEF diskVars
<1>. QED BY <1>1, <1>2 DEF IInv, RunSteps

\* What a power loss leaves of a volume: what was in the flash when nothing
\* was being written to it.
LEMMA LossLeaves ==
  ASSUME TypeOK, NEW v \in Volumes, NEW fs \in AfterLoss(v)
  PROVE  /\ fs \in Contents
         /\ v \notin pending => fs = flash[v]
  BY NoVersions DEF AfterLoss, TypeOK, Contents
-----------------------------------------------------------------------------
(***************************************************************************)
(* What holds whether or not a flush has run beside a write.               *)
(***************************************************************************)
DiskTypes ==
    /\ files \in [Volumes -> Contents] /\ flash \in [Volumes -> Contents]
    /\ pending \subseteq Volumes
    /\ cache \in {"sound", "beside", "lost"} /\ overlapped \in BOOLEAN

\* Writes and flushes keep the types of files and flash.
LEMMA DisksTyped ==
  ASSUME TypeOK,
         \/ UNCHANGED diskVars
         \/ \E v \in Volumes, fs \in Contents : WriteVolume(v, fs)
         \/ Flush
         \/ FlushBeside
  PROVE  DiskTypes'
<1>. USE NoVersions DEF TypeOK, DiskTypes
<1>1. CASE UNCHANGED diskVars
  BY <1>1 DEF diskVars
<1>2. ASSUME NEW v \in Volumes, NEW fs \in Contents, WriteVolume(v, fs) PROVE DiskTypes'
  BY <1>2 DEF WriteVolume
<1>3. ASSUME NEW c \in MissedIni PROVE [files EXCEPT !["public"].ini = c] \in [Volumes -> Contents]
  BY DEF MissedIni, Contents, Volumes
<1>4. CASE Flush
  BY <1>3, <1>4 DEF Flush
<1>5. CASE FlushBeside
  BY <1>3, <1>5 DEF FlushBeside, Volumes
<1>. QED BY <1>1, <1>2, <1>4, <1>5

\* ConfigSave and ConfigUpdateCrc.
LEMMA UiBase ==
  ASSUME Base,
         ChangeSetting \/ StartSave \/ UpdateCrcLock \/ UpdateCrc \/
           UpdateCrcFlush
  PROVE  Base'
<1>. USE NoVersions, ContentsOf, CrcSet, DisksTyped DEF Base
<1>1. CASE ChangeSetting
  <2>1. DiskTypes'
    BY <1>1 DEF ChangeSetting
  <2>2. TypeOK'
    BY <1>1, <2>1, ConstantsAssumption DEF TypeOK, DiskTypes, ChangeSetting, bootVars, Versions
  <2>3. Owners'
    BY <1>1 DEF Owners, ChangeSetting, AtMostOneSaver, bootVars
  <2>4. CacheSteps'
    BY <1>1 DEF CacheSteps, Owners, ChangeSetting, diskVars, bootVars
  <2>5. BootFlushes'
    BY <1>1 DEF BootFlushes, Owners, ChangeSetting, bootVars
  <2>. QED BY <2>2, <2>3, <2>4, <2>5
<1>2. CASE StartSave
  <2>1. DiskTypes'
    BY <1>2 DEF StartSave
  <2>2. TypeOK'
    BY <1>2, <2>1 DEF TypeOK, DiskTypes, StartSave, bootVars
  <2>3. Owners'
    BY <1>2 DEF Owners, StartSave, bootVars
  <2>4. CacheSteps'
    BY <1>2 DEF CacheSteps, Owners, StartSave, diskVars, bootVars
  <2>5. BootFlushes'
    BY <1>2 DEF BootFlushes, Owners, StartSave, bootVars
  <2>. QED BY <2>2, <2>3, <2>4, <2>5
<1>3. CASE UpdateCrcLock
  <2>1. DiskTypes'
    BY <1>3 DEF UpdateCrcLock
  <2>2. TypeOK'
    BY <1>3, <2>1 DEF TypeOK, DiskTypes, UpdateCrcLock, bootVars
  <2>3. Owners'
    BY <1>3 DEF Owners, UpdateCrcLock, bootVars
  <2>4. CacheSteps'
    BY <1>3 DEF CacheSteps, Owners, UpdateCrcLock, diskVars, bootVars
  <2>5. BootFlushes'
    BY <1>3 DEF BootFlushes, Owners, UpdateCrcLock, bootVars
  <2>. QED BY <2>2, <2>3, <2>4, <2>5
<1>4. CASE UpdateCrc
  <2>1. SetFileCrc(files["public"]) \in Contents
    BY CrcSet DEF TypeOK, Volumes
  <2>2. DiskTypes'
    BY <1>4, <2>1 DEF UpdateCrc, Volumes
  <2>3. TypeOK'
    BY <1>4, <2>2 DEF TypeOK, DiskTypes, UpdateCrc, bootVars
  <2>4. Owners'
    BY <1>4 DEF Owners, UpdateCrc, bootVars
  <2>5. CacheSteps'
    BY <1>4 DEF CacheSteps, Owners, UpdateCrc, WriteVolume, diskVars, bootVars
  <2>6. BootFlushes'
    BY <1>4 DEF BootFlushes, Owners, UpdateCrc, bootVars
  <2>. QED BY <2>3, <2>4, <2>5, <2>6
<1>5. CASE UpdateCrcFlush
  <2>1. DiskTypes'
    BY <1>5 DEF UpdateCrcFlush
  <2>2. TypeOK'
    BY <1>5, <2>1 DEF TypeOK, DiskTypes, UpdateCrcFlush, bootVars
  <2>3. Owners'
    BY <1>5 DEF Owners, UpdateCrcFlush, bootVars
  <2>4. CacheSteps'
    BY <1>5 DEF CacheSteps, Owners, UpdateCrcFlush, Flush, FlushBeside, bootVars
  <2>5. BootFlushes'
    BY <1>5 DEF BootFlushes, Owners, UpdateCrcFlush, bootVars
  <2>. QED BY <2>2, <2>3, <2>4, <2>5
<1>. QED BY <1>1, <1>2, <1>3, <1>4, <1>5

\* ConfigSaveTask.
LEMMA SaverBase ==
  ASSUME Base,
         BeginSave \/ TakeCount \/ SetIni \/ OpenIni \/ OpenIniFails \/ DumpIni
           \/ LockConfig \/ SaveCrc \/ SavedFlush \/ BackupSave \/ BackupFlush
           \/ UnlockConfig \/ TestCount \/ StopSaving
  PROVE  Base'
<1>. USE NoVersions, ContentsOf, CrcSet, DisksTyped DEF Base
<1>1. CASE BeginSave
  <2>1. DiskTypes'
    BY <1>1 DEF BeginSave
  <2>2. TypeOK'
    BY <1>1, <2>1 DEF TypeOK, DiskTypes, BeginSave, SaverGoes, bootVars
  <2>3. Owners'
    BY <1>1 DEF Owners, BeginSave, SaverGoes, bootVars
  <2>4. CacheSteps'
    BY <1>1 DEF CacheSteps, Owners, BeginSave, SaverGoes, diskVars, bootVars
  <2>5. BootFlushes'
    BY <1>1 DEF BootFlushes, Owners, BeginSave, SaverGoes, bootVars
  <2>. QED BY <2>2, <2>3, <2>4, <2>5
<1>2. CASE TakeCount
  <2>1. DiskTypes'
    BY <1>2 DEF TakeCount
  <2>2. TypeOK'
    BY <1>2, <2>1 DEF TypeOK, DiskTypes, TakeCount, SaverGoes, bootVars
  <2>3. Owners'
    BY <1>2 DEF Owners, TakeCount, SaverGoes, bootVars
  <2>4. CacheSteps'
    BY <1>2 DEF CacheSteps, Owners, TakeCount, SaverGoes, diskVars, bootVars
  <2>5. BootFlushes'
    BY <1>2 DEF BootFlushes, Owners, TakeCount, SaverGoes, bootVars
  <2>. QED BY <2>2, <2>3, <2>4, <2>5
<1>3. CASE SetIni
  <2>1. DiskTypes'
    BY <1>3 DEF SetIni
  <2>2. TypeOK'
    BY <1>3, <2>1 DEF TypeOK, DiskTypes, SetIni, SaverGoes, bootVars
  <2>3. Owners'
    BY <1>3 DEF Owners, SetIni, SaverGoes, bootVars
  <2>4. CacheSteps'
    BY <1>3 DEF CacheSteps, Owners, SetIni, SaverGoes, diskVars, bootVars
  <2>5. BootFlushes'
    BY <1>3 DEF BootFlushes, Owners, SetIni, SaverGoes, bootVars
  <2>. QED BY <2>2, <2>3, <2>4, <2>5
<1>4. CASE OpenIni
  <2>1. [files["public"] EXCEPT !.ini = Torn] \in Contents
    BY DEF TypeOK, Volumes, Contents
  <2>2. DiskTypes'
    BY <1>4, <2>1 DEF OpenIni, Volumes
  <2>3. TypeOK'
    BY <1>4, <2>2 DEF TypeOK, DiskTypes, OpenIni, SaverGoes, bootVars
  <2>4. Owners'
    BY <1>4 DEF Owners, OpenIni, SaverGoes, bootVars
  <2>5. CacheSteps'
    BY <1>4 DEF CacheSteps, Owners, OpenIni, SaverGoes, WriteVolume, bootVars
  <2>6. BootFlushes'
    BY <1>4 DEF BootFlushes, Owners, OpenIni, SaverGoes, bootVars
  <2>. QED BY <2>3, <2>4, <2>5, <2>6
<1>5. CASE OpenIniFails
  <2>1. DiskTypes'
    BY <1>5 DEF OpenIniFails
  <2>2. TypeOK'
    BY <1>5, <2>1 DEF TypeOK, DiskTypes, OpenIniFails, SaverGoes, bootVars
  <2>3. Owners'
    BY <1>5 DEF Owners, OpenIniFails, SaverGoes, bootVars
  <2>4. CacheSteps'
    BY <1>5 DEF CacheSteps, Owners, OpenIniFails, SaverGoes, diskVars, bootVars
  <2>5. BootFlushes'
    BY <1>5 DEF BootFlushes, Owners, OpenIniFails, SaverGoes, bootVars
  <2>. QED BY <2>2, <2>3, <2>4, <2>5
<1>6. CASE DumpIni
  <2>1. [files["public"] EXCEPT !.ini = dict] \in Contents
    BY DEF TypeOK, Volumes, Contents
  <2>2. DiskTypes'
    BY <1>6, <2>1 DEF DumpIni, Volumes
  <2>3. TypeOK'
    BY <1>6, <2>2 DEF TypeOK, DiskTypes, DumpIni, SaverGoes, bootVars
  <2>4. Owners'
    BY <1>6 DEF Owners, DumpIni, SaverGoes, bootVars
  <2>5. CacheSteps'
    BY <1>6 DEF CacheSteps, Owners, DumpIni, SaverGoes, WriteVolume, bootVars
  <2>6. BootFlushes'
    BY <1>6 DEF BootFlushes, Owners, DumpIni, SaverGoes, bootVars
  <2>. QED BY <2>3, <2>4, <2>5, <2>6
<1>7. CASE LockConfig
  <2>1. DiskTypes'
    BY <1>7 DEF LockConfig
  <2>2. TypeOK'
    BY <1>7, <2>1 DEF TypeOK, DiskTypes, LockConfig, SaverGoes, bootVars
  <2>3. Owners'
    BY <1>7 DEF Owners, LockConfig, SaverGoes, bootVars
  <2>4. CacheSteps'
    BY <1>7 DEF CacheSteps, Owners, LockConfig, SaverGoes, diskVars, bootVars
  <2>5. BootFlushes'
    BY <1>7 DEF BootFlushes, Owners, LockConfig, SaverGoes, bootVars
  <2>. QED BY <2>2, <2>3, <2>4, <2>5
<1>8. CASE SaveCrc
  <2>1. SetFileCrc(files["public"]) \in Contents
    BY CrcSet DEF TypeOK, Volumes
  <2>2. DiskTypes'
    BY <1>8, <2>1 DEF SaveCrc, Volumes
  <2>3. TypeOK'
    BY <1>8, <2>2 DEF TypeOK, DiskTypes, SaveCrc, SaverGoes, bootVars
  <2>4. Owners'
    BY <1>8 DEF Owners, SaveCrc, SaverGoes, bootVars
  <2>5. CacheSteps'
    BY <1>8 DEF CacheSteps, Owners, SaveCrc, SaverGoes, WriteVolume, bootVars
  <2>6. BootFlushes'
    BY <1>8 DEF BootFlushes, Owners, SaveCrc, SaverGoes, bootVars
  <2>. QED BY <2>3, <2>4, <2>5, <2>6
<1>9. CASE SavedFlush
  <2>1. DiskTypes'
    BY <1>9 DEF SavedFlush
  <2>2. TypeOK'
    BY <1>9, <2>1 DEF TypeOK, DiskTypes, SavedFlush, SaverGoes, bootVars
  <2>3. Owners'
    BY <1>9 DEF Owners, SavedFlush, SaverGoes, bootVars
  <2>4. CacheSteps'
    BY <1>9 DEF CacheSteps, Owners, SavedFlush, SaverGoes, Flush, bootVars
  <2>5. BootFlushes'
    BY <1>9 DEF BootFlushes, Owners, SavedFlush, SaverGoes, bootVars
  <2>. QED BY <2>2, <2>3, <2>4, <2>5
<1>10. CASE BackupSave
  <2>1. files["public"] \in Contents
    BY DEF TypeOK, Volumes, Contents
  <2>2. DiskTypes'
    BY <1>10, <2>1 DEF BackupSave, Volumes
  <2>3. TypeOK'
    BY <1>10, <2>2 DEF TypeOK, DiskTypes, BackupSave, SaverGoes, bootVars
  <2>4. Owners'
    BY <1>10 DEF Owners, BackupSave, SaverGoes, bootVars
  <2>5. CacheSteps'
    BY <1>10 DEF CacheSteps, Owners, BackupSave, SaverGoes, WriteVolume, bootVars
  <2>6. BootFlushes'
    BY <1>10 DEF BootFlushes, Owners, BackupSave, SaverGoes, bootVars
  <2>. QED BY <2>3, <2>4, <2>5, <2>6
<1>11. CASE BackupFlush
  <2>1. DiskTypes'
    BY <1>11 DEF BackupFlush
  <2>2. TypeOK'
    BY <1>11, <2>1 DEF TypeOK, DiskTypes, BackupFlush, SaverGoes, bootVars
  <2>3. Owners'
    BY <1>11 DEF Owners, BackupFlush, SaverGoes, bootVars
  <2>4. CacheSteps'
    BY <1>11 DEF CacheSteps, Owners, BackupFlush, SaverGoes, Flush, bootVars
  <2>5. BootFlushes'
    BY <1>11 DEF BootFlushes, Owners, BackupFlush, SaverGoes, bootVars
  <2>. QED BY <2>2, <2>3, <2>4, <2>5
<1>12. CASE UnlockConfig
  <2>1. DiskTypes'
    BY <1>12 DEF UnlockConfig
  <2>2. TypeOK'
    BY <1>12, <2>1 DEF TypeOK, DiskTypes, UnlockConfig, SaverGoes, bootVars
  <2>3. Owners'
    BY <1>12 DEF Owners, UnlockConfig, SaverGoes, bootVars
  <2>4. CacheSteps'
    BY <1>12 DEF CacheSteps, Owners, UnlockConfig, SaverGoes, diskVars, bootVars
  <2>5. BootFlushes'
    BY <1>12 DEF BootFlushes, Owners, UnlockConfig, SaverGoes, bootVars
  <2>. QED BY <2>2, <2>3, <2>4, <2>5
<1>13. CASE TestCount
  <2>1. DiskTypes'
    BY <1>13 DEF TestCount
  <2>2. TypeOK'
    BY <1>13, <2>1 DEF TypeOK, DiskTypes, TestCount, bootVars
  <2>3. Owners'
    BY <1>13 DEF Owners, TestCount, bootVars
  <2>4. CacheSteps'
    BY <1>13 DEF CacheSteps, Owners, TestCount, diskVars, bootVars
  <2>5. BootFlushes'
    BY <1>13 DEF BootFlushes, Owners, TestCount, bootVars
  <2>. QED BY <2>2, <2>3, <2>4, <2>5
<1>14. CASE StopSaving
  <2>1. DiskTypes'
    BY <1>14 DEF StopSaving
  <2>2. TypeOK'
    BY <1>14, <2>1 DEF TypeOK, DiskTypes, StopSaving, SaverGoes, bootVars
  <2>3. Owners'
    BY <1>14 DEF Owners, StopSaving, SaverGoes, bootVars
  <2>4. CacheSteps'
    BY <1>14 DEF CacheSteps, Owners, StopSaving, SaverGoes, diskVars, bootVars
  <2>5. BootFlushes'
    BY <1>14 DEF BootFlushes, Owners, StopSaving, SaverGoes, bootVars
  <2>. QED BY <2>2, <2>3, <2>4, <2>5
<1>. QED BY <1>1, <1>2, <1>3, <1>4, <1>5, <1>6, <1>7, <1>8, <1>9, <1>10, <1>11, <1>12, <1>13, <1>14

\* The boot.
LEMMA BootBase ==
  ASSUME Base,
         CheckIntact \/ FormatPublic \/ DefaultPublic \/ DefaultFlush \/
           FormatBackup \/ DefaultBackup \/ Restore \/ RestoreFlush \/ CheckCrc
           \/ Sync \/ SyncFlush \/ ConfigInit
  PROVE  Base'
<1>. USE NoVersions, ContentsOf, CrcSet, DisksTyped DEF Base
<1>1. CASE CheckIntact
  <2>1. DiskTypes'
    BY <1>1 DEF CheckIntact
  <2>2. TypeOK'
    BY <1>1, <2>1 DEF TypeOK, DiskTypes, CheckIntact, BootGoes, saveVars
  <2>3. Owners'
    BY <1>1 DEF Owners, CheckIntact, BootGoes, saveVars
  <2>4. CacheSteps'
    BY <1>1 DEF CacheSteps, Owners, CheckIntact, BootGoes, saveVars, diskVars
  <2>5. BootFlushes'
    BY <1>1 DEF BootFlushes, CacheSteps, Sound, OnFlash, Consistent, TypeOK, Volumes,
      CheckIntact, BootGoes, saveVars, diskVars
  <2>. QED BY <2>2, <2>3, <2>4, <2>5
<1>2. CASE FormatPublic
  <2>1. Empty \in Contents
    BY ContentsOf
  <2>2. DiskTypes'
    BY <1>2, <2>1 DEF FormatPublic, Volumes
  <2>3. TypeOK'
    BY <1>2, <2>2 DEF TypeOK, DiskTypes, FormatPublic, BootGoes, saveVars
  <2>4. Owners'
    BY <1>2 DEF Owners, FormatPublic, BootGoes, saveVars
  <2>5. CacheSteps'
    BY <1>2 DEF CacheSteps, Owners, FormatPublic, BootGoes, WriteVolume, saveVars
  <2>6. BootFlushes'
    BY <1>2, <2>1 DEF BootFlushes, CacheSteps, Sound, OnFlash, Consistent, TypeOK, Volumes,
      FormatPublic, BootGoes, WriteVolume, saveVars
  <2>. QED BY <2>3, <2>4, <2>5, <2>6
<1>3. CASE DefaultPublic
  <2>1. Default \in Contents
    BY ContentsOf
  <2>2. DiskTypes'
    BY <1>3, <2>1 DEF DefaultPublic, Volumes
  <2>3. TypeOK'
    BY <1>3, <2>2 DEF TypeOK, DiskTypes, DefaultPublic, BootGoes, saveVars
  <2>4. Owners'
    BY <1>3 DEF Owners, DefaultPublic, BootGoes, saveVars
  <2>5. CacheSteps'
    BY <1>3 DEF CacheSteps, Owners, DefaultPublic, BootGoes, WriteVolume, saveVars
  <2>6. BootFlushes'
    BY <1>3, <2>1 DEF BootFlushes, CacheSteps, Sound, OnFlash, Consistent, TypeOK, Volumes,
      DefaultPublic, BootGoes, WriteVolume, saveVars
  <2>. QED BY <2>3, <2>4, <2>5, <2>6
<1>4. CASE DefaultFlush
  <2>1. DiskTypes'
    BY <1>4 DEF DefaultFlush
  <2>2. TypeOK'
    BY <1>4, <2>1 DEF TypeOK, DiskTypes, DefaultFlush, BootGoes, saveVars
  <2>3. Owners'
    BY <1>4 DEF Owners, DefaultFlush, BootGoes, saveVars
  <2>4. CacheSteps'
    BY <1>4 DEF CacheSteps, Owners, DefaultFlush, BootGoes, Flush, saveVars
  <2>5. BootFlushes'
    BY <1>4 DEF BootFlushes, CacheSteps, Sound, OnFlash, Consistent, TypeOK, Volumes,
      DefaultFlush, BootGoes, Flush, saveVars
  <2>. QED BY <2>2, <2>3, <2>4, <2>5
<1>5. CASE FormatBackup
  <2>1. Empty \in Contents
    BY ContentsOf
  <2>2. DiskTypes'
    BY <1>5, <2>1 DEF FormatBackup, Volumes
  <2>3. TypeOK'
    BY <1>5, <2>2 DEF TypeOK, DiskTypes, FormatBackup, BootGoes, saveVars
  <2>4. Owners'
    BY <1>5 DEF Owners, FormatBackup, BootGoes, saveVars
  <2>5. CacheSteps'
    BY <1>5 DEF CacheSteps, Owners, FormatBackup, BootGoes, WriteVolume, saveVars
  <2>6. BootFlushes'
    BY <1>5, <2>1 DEF BootFlushes, CacheSteps, Sound, OnFlash, Consistent, TypeOK, Volumes,
      FormatBackup, BootGoes, WriteVolume, saveVars
  <2>. QED BY <2>3, <2>4, <2>5, <2>6
<1>6. CASE DefaultBackup
  <2>1. Default \in Contents
    BY ContentsOf
  <2>2. DiskTypes'
    BY <1>6, <2>1 DEF DefaultBackup, Volumes
  <2>3. TypeOK'
    BY <1>6, <2>2 DEF TypeOK, DiskTypes, DefaultBackup, BootGoes, saveVars
  <2>4. Owners'
    BY <1>6 DEF Owners, DefaultBackup, BootGoes, saveVars
  <2>5. CacheSteps'
    BY <1>6 DEF CacheSteps, Owners, DefaultBackup, BootGoes, WriteVolume, saveVars
  <2>6. BootFlushes'
    BY <1>6, <2>1 DEF BootFlushes, CacheSteps, Sound, OnFlash, Consistent, TypeOK, Volumes,
      DefaultBackup, BootGoes, WriteVolume, saveVars
  <2>. QED BY <2>3, <2>4, <2>5, <2>6
<1>7. CASE Restore
  <2>1. files["backup"] \in Contents
    BY DEF TypeOK, Volumes, Contents
  <2>2. DiskTypes'
    BY <1>7, <2>1 DEF Restore, Volumes
  <2>3. TypeOK'
    BY <1>7, <2>2 DEF TypeOK, DiskTypes, Restore, saveVars
  <2>4. Owners'
    BY <1>7 DEF Owners, Restore, saveVars
  <2>5. CacheSteps'
    BY <1>7 DEF CacheSteps, Owners, Restore, WriteVolume, saveVars, diskVars
  <2>6. BootFlushes'
    BY <1>7, <2>1 DEF BootFlushes, CacheSteps, Sound, OnFlash, Consistent, TypeOK, Volumes,
      Restore, WriteVolume, saveVars, diskVars
  <2>. QED BY <2>3, <2>4, <2>5, <2>6
<1>8. CASE RestoreFlush
  <2>1. DiskTypes'
    BY <1>8 DEF RestoreFlush
  <2>2. TypeOK'
    BY <1>8, <2>1 DEF TypeOK, DiskTypes, RestoreFlush, BootGoes, saveVars
  <2>3. Owners'
    BY <1>8 DEF Owners, RestoreFlush, BootGoes, saveVars
  <2>4. CacheSteps'
    BY <1>8 DEF CacheSteps, Owners, RestoreFlush, BootGoes, Flush, saveVars
  <2>5. BootFlushes'
    BY <1>8 DEF BootFlushes, CacheSteps, Sound, OnFlash, Consistent, TypeOK, Volumes,
      RestoreFlush, BootGoes, Flush, saveVars
  <2>. QED BY <2>2, <2>3, <2>4, <2>5
<1>9. CASE CheckCrc
  <2>1. DiskTypes'
    BY <1>9 DEF CheckCrc
  <2>2. TypeOK'
    BY <1>9, <2>1 DEF TypeOK, DiskTypes, CheckCrc, saveVars, BootFlushes
  <2>3. Owners'
    BY <1>9 DEF Owners, CheckCrc, saveVars
  <2>4. CacheSteps'
    BY <1>9 DEF CacheSteps, Owners, CheckCrc, saveVars, diskVars
  <2>5. BootFlushes'
    BY <1>9 DEF BootFlushes, CacheSteps, Sound, OnFlash, Consistent, TypeOK, Volumes, CheckCrc,
      saveVars, diskVars
  <2>. QED BY <2>2, <2>3, <2>4, <2>5
<1>10. CASE Sync
  <2>1. files["public"] \in Contents
    BY DEF TypeOK, Volumes, Contents
  <2>2. DiskTypes'
    BY <1>10, <2>1 DEF Sync, Volumes
  <2>3. TypeOK'
    BY <1>10, <2>2 DEF TypeOK, DiskTypes, Sync, saveVars
  <2>4. Owners'
    BY <1>10 DEF Owners, Sync, saveVars
  <2>5. CacheSteps'
    BY <1>10 DEF CacheSteps, Owners, Sync, WriteVolume, saveVars, diskVars
  <2>6. BootFlushes'
    <3>1. sys = "sync" /\ pending = {} /\ files = flash /\ Sound("public") /\ UNCHANGED retries
      BY <1>10 DEF Sync, BootFlushes
    <3>2. CASE sys' = "halted"
      BY <3>1, <3>2 DEF BootFlushes
    <3>3. CASE sys' = "flush_sync" /\ files["backup"] = files["public"] /\ UNCHANGED diskVars
      BY <3>1, <3>3 DEF BootFlushes, Sound, OnFlash, diskVars
    <3>4. CASE sys' = "flush_sync" /\ WriteVolume("backup", files["public"])
      <4>1. Written("backup", files["public"])
        BY <2>1, <3>4, VolumeWritten DEF Volumes
      <4>. QED BY <3>1, <3>4, <4>1 DEF BootFlushes, Sound, OnFlash, Consistent, Written, Other
    <3>. QED BY <1>10, <3>2, <3>3, <3>4 DEF Sync, diskVars
  <2>. QED BY <2>3, <2>4, <2>5, <2>6
<1>11. CASE SyncFlush
  <2>1. DiskTypes'
    BY <1>11 DEF SyncFlush, Flush, diskVars
  <2>2. TypeOK'
    BY <1>11, <2>1 DEF TypeOK, DiskTypes, SyncFlush, BootGoes, saveVars
  <2>3. Owners'
    BY <1>11 DEF Owners, SyncFlush, BootGoes, saveVars
  <2>4. CacheSteps'
    BY <1>11 DEF CacheSteps, Owners, SyncFlush, BootGoes, Flush, saveVars, diskVars
  <2>5. BootFlushes'
    BY <1>11 DEF BootFlushes, CacheSteps, Sound, OnFlash, Consistent, TypeOK, Volumes,
      SyncFlush, BootGoes, Flush, saveVars, diskVars
  <2>. QED BY <2>2, <2>3, <2>4, <2>5
<1>12. CASE ConfigInit
  <2>1. DiskTypes'
    BY <1>12 DEF ConfigInit, TypeOK, DiskTypes
  <2>2. TypeOK'
    BY <1>12, <2>1 DEF TypeOK, DiskTypes, ConfigInit, BootGoes, BootFlushes, Sound, Consistent
  <2>3. Owners'
    BY <1>12 DEF Owners, ConfigInit, BootGoes
  <2>4. CacheSteps'
    BY <1>12 DEF CacheSteps, Owners, ConfigInit, BootGoes
  <2>5. BootFlushes'
    BY <1>12 DEF BootFlushes, CacheSteps, Sound, OnFlash, Consistent, TypeOK, Volumes,
      ConfigInit, BootGoes
  <2>. QED BY <2>2, <2>3, <2>4, <2>5
<1>. QED BY <1>1, <1>2, <1>3, <1>4, <1>5, <1>6, <1>7, <1>8, <1>9, <1>10, <1>11, <1>12

\* Every step keeps the types, the owners and the order of the flushes.
LEMMA NextBase == Base /\ [Next]_vars => Base'
<1>. SUFFICES ASSUME Base, [Next]_vars PROVE Base'
  OBVIOUS
<1>. USE NoVersions DEF Base
<1>1. CASE PowerLoss
  <2>1. PICK p \in AfterLoss("public"), b \in AfterLoss("backup") :
          flash' = [public |-> p, backup |-> b]
    BY <1>1 DEF PowerLoss
  <2>2. flash' \in [Volumes -> Contents]
    BY <2>1, LossLeaves DEF Volumes
  <2>3. losses' \in 0 .. MaxPowerLosses
    BY <1>1, ConstantsAssumption DEF PowerLoss, TypeOK
  <2>4. /\ files' = flash' /\ pending' = {} /\ cache' = "sound" /\ UNCHANGED <<saved, overlapped>>
        /\ theConfig' = 0 /\ dict' = 0 /\ mutex' = "none" /\ ui' = "idle" /\ saver' = "none"
        /\ sys' = "check" /\ retries' = 0
    BY <1>1 DEF PowerLoss
  <2>5. (savingCount \in BOOLEAN /\ isSaving \in BOOLEAN /\ count \in BOOLEAN /\ ~isSaving)'
    BY <1>1 DEF PowerLoss
  <2>6. TypeOK'
    BY <2>2, <2>3, <2>4, <2>5 DEF TypeOK
  <2>. QED BY <2>4, <2>5, <2>6 DEF Owners, CacheSteps, BootFlushes
<1>2. CASE ReadAgain
  <2>1. PICK c \in MissedIni : files' = [files EXCEPT !["public"].ini = c]
    BY <1>2 DEF ReadAgain
  <2>2. files' \in [Volumes -> Contents]
    BY <2>1 DEF MissedIni, TypeOK, Contents, Volumes
  <2>3. sys = "run"
    BY <1>2 DEF ReadAgain, CacheSteps
  <2>. QED BY <1>2, <2>2, <2>3
           DEF ReadAgain, TypeOK, Owners, CacheSteps, BootFlushes, saveVars, bootVars
<1>3. CASE BootHasEnded \/ UNCHANGED vars
  <2>1. UNCHANGED vars
    BY <1>3 DEF BootHasEnded
  <2>. QED BY <2>1 DEF TypeOK, Owners, CacheSteps, BootFlushes, Sound, OnFlash, vars, saveVars,
                       diskVars, bootVars
<1>. QED BY <1>1, <1>2, <1>3, UiBase, SaverBase, BootBase DEF Next, UiReturns, Saver, Boot
-----------------------------------------------------------------------------
(***************************************************************************)
(* The steps of the three tasks.                                           *)
(***************************************************************************)
\* ConfigSave and ConfigUpdateCrc.
LEMMA UiSteps ==
  ASSUME IInv, ~overlapped',
         ChangeSetting \/ StartSave \/ UpdateCrcLock \/ UpdateCrc \/
           UpdateCrcFlush
  PROVE  (BootSteps /\ BootGoesOn /\ RunSteps)'
<1>0. cache # "lost"
  BY DEF IInv, Base, CacheSteps
<1>. USE <1>0, NoVersions, ContentsOf DEF IInv, Base
<1>1. CASE ChangeSetting
  <2>1. sys = "run" /\ UNCHANGED bootVars
    BY <1>1 DEF Owners, bootVars, ChangeSetting, diskVars
  <2>2. (BootSteps /\ BootGoesOn)'
    BY <2>1, BootIsOver
  <2>3. UNCHANGED diskVars /\ UNCHANGED <<sys, saver>>
    BY <1>1 DEF ChangeSetting, bootVars
  <2>4. RunSteps'
    BY <2>3, RunGoesOn
  <2>. QED BY <2>2, <2>4
<1>2. CASE StartSave
  <2>1. sys = "run" /\ UNCHANGED bootVars
    BY <1>2 DEF Owners, bootVars, StartSave, diskVars
  <2>2. (BootSteps /\ BootGoesOn)'
    BY <2>1, BootIsOver
  <2>3. RunSteps'
    BY <1>2 DEF RunSteps, Sound, OnFlash, Consistent, TypeOK, Contents, Volumes, Owners,
      StartSave, diskVars, bootVars
  <2>. QED BY <2>2, <2>3
<1>3. CASE UpdateCrcLock
  <2>1. sys = "run" /\ UNCHANGED bootVars
    BY <1>3 DEF Owners, bootVars, UpdateCrcLock, diskVars
  <2>2. (BootSteps /\ BootGoesOn)'
    BY <2>1, BootIsOver
  <2>3. RunSteps'
    BY <1>3 DEF RunSteps, Sound, OnFlash, Consistent, TypeOK, Contents, Volumes, Owners,
      UpdateCrcLock, diskVars, bootVars
  <2>. QED BY <2>2, <2>3
<1>4. CASE UpdateCrc
  <2>1. SetFileCrc(files["public"]) \in Contents
    BY CrcSet DEF TypeOK, Contents, Volumes
  <2>2. \/ WriteVolume("public", SetFileCrc(files["public"]))
        \/ UNCHANGED diskVars
    BY <1>4 DEF UpdateCrc
  <2>3. \/ Written("public", SetFileCrc(files["public"]))
        \/ UNCHANGED diskVars
    BY <2>1, <2>2, VolumeWritten DEF Volumes
  <2>4. sys = "run" /\ UNCHANGED bootVars
    BY <1>4 DEF Owners, bootVars, UpdateCrc, diskVars
  <2>5. (BootSteps /\ BootGoesOn)'
    BY <2>4, BootIsOver
  <2>6. RunSteps'
    BY <1>4, <2>1, <2>3, CrcSet DEF RunSteps, Sound, OnFlash, Consistent, TypeOK, Contents,
      Volumes, Owners, Written, Other, UpdateCrc, diskVars, bootVars
  <2>. QED BY <2>5, <2>6
<1>5. CASE UpdateCrcFlush
  <2>1. sys = "run" /\ UNCHANGED bootVars
    BY <1>5 DEF Owners, bootVars, UpdateCrcFlush
  <2>2. (BootSteps /\ BootGoesOn)'
    BY <2>1, BootIsOver
  <2>3. Flush /\ saver # "dump"
    BY <1>5 DEF UpdateCrcFlush, FlushBeside
  <2>4. RunSteps'
    BY <1>5, <2>3 DEF RunSteps, Sound, OnFlash, Consistent, TypeOK, Contents, Volumes, Owners,
      UpdateCrcFlush, Flush, bootVars
  <2>. QED BY <2>2, <2>4
<1>. QED BY <1>1, <1>2, <1>3, <1>4, <1>5

\* ConfigSaveTask.
LEMMA SaverSteps ==
  ASSUME IInv,
         BeginSave \/ TakeCount \/ SetIni \/ OpenIni \/ OpenIniFails \/ DumpIni
           \/ LockConfig \/ SaveCrc \/ SavedFlush \/ BackupSave \/ BackupFlush \/ UnlockConfig
           \/ TestCount \/ StopSaving
  PROVE  (BootSteps /\ BootGoesOn /\ RunSteps)'
<1>0. cache # "lost"
  BY DEF IInv, Base, CacheSteps
<1>. USE <1>0, NoVersions, ContentsOf DEF IInv, Base
<1>1. CASE TakeCount
  <2>1. sys = "run" /\ UNCHANGED bootVars
    BY <1>1 DEF Owners, bootVars, TakeCount, SaverGoes, diskVars
  <2>2. (BootSteps /\ BootGoesOn)'
    BY <2>1, BootIsOver
  <2>3. RunSteps'
    BY <1>1 DEF RunSteps, Sound, OnFlash, Consistent, TypeOK, Contents, Volumes, Owners,
      TakeCount, SaverGoes, diskVars, bootVars
  <2>. QED BY <2>2, <2>3
<1>2. CASE SetIni
  <2>1. sys = "run" /\ UNCHANGED bootVars
    BY <1>2 DEF Owners, bootVars, SetIni, SaverGoes, diskVars
  <2>2. (BootSteps /\ BootGoesOn)'
    BY <2>1, BootIsOver
  <2>3. RunSteps'
    BY <1>2 DEF RunSteps, Sound, OnFlash, Consistent, TypeOK, Contents, Volumes, Owners, SetIni,
      SaverGoes, diskVars, bootVars
  <2>. QED BY <2>2, <2>3
<1>3. CASE OpenIni
  <2>1. [files["public"] EXCEPT !.ini = Torn] \in Contents
    BY DEF TypeOK, Contents, Volumes
  <2>2. WriteVolume("public", [files["public"] EXCEPT !.ini = Torn])
    BY <1>3 DEF OpenIni
  <2>3. Written("public", [files["public"] EXCEPT !.ini = Torn])
    BY <2>1, <2>2, VolumeWritten DEF Volumes
  <2>4. sys = "run" /\ UNCHANGED bootVars
    BY <1>3 DEF Owners, bootVars, OpenIni, SaverGoes
  <2>5. (BootSteps /\ BootGoesOn)'
    BY <2>4, BootIsOver
  <2>6. RunSteps'
    BY <1>3, <2>1, <2>3 DEF RunSteps, Sound, OnFlash, Consistent, TypeOK, Contents, Volumes,
      Owners, Written, Other, OpenIni, SaverGoes, bootVars
  <2>. QED BY <2>5, <2>6
<1>4. CASE OpenIniFails
  <2>1. sys = "run" /\ UNCHANGED bootVars
    BY <1>4 DEF Owners, bootVars, OpenIniFails, SaverGoes, diskVars
  <2>2. (BootSteps /\ BootGoesOn)'
    BY <2>1, BootIsOver
  <2>3. RunSteps'
    BY <1>4 DEF RunSteps, Sound, OnFlash, Consistent, TypeOK, Contents, Volumes, Owners,
      OpenIniFails, SaverGoes, diskVars, bootVars
  <2>. QED BY <2>2, <2>3
<1>5. CASE DumpIni
  <2>1. [files["public"] EXCEPT !.ini = dict] \in Contents
    BY DEF TypeOK, Contents, Volumes
  <2>2. WriteVolume("public", [files["public"] EXCEPT !.ini = dict])
    BY <1>5 DEF DumpIni
  <2>3. Written("public", [files["public"] EXCEPT !.ini = dict])
    BY <2>1, <2>2, VolumeWritten DEF Volumes
  <2>4. sys = "run" /\ UNCHANGED bootVars
    BY <1>5 DEF Owners, bootVars, DumpIni, SaverGoes
  <2>5. (BootSteps /\ BootGoesOn)'
    BY <2>4, BootIsOver
  <2>6. RunSteps'
    BY <1>5, <2>1, <2>3 DEF RunSteps, Sound, OnFlash, Consistent, TypeOK, Contents, Volumes,
      Owners, Written, Other, DumpIni, SaverGoes, bootVars
  <2>. QED BY <2>5, <2>6
<1>6. CASE LockConfig
  <2>1. sys = "run" /\ UNCHANGED bootVars
    BY <1>6 DEF Owners, bootVars, LockConfig, SaverGoes, diskVars
  <2>2. (BootSteps /\ BootGoesOn)'
    BY <2>1, BootIsOver
  <2>3. RunSteps'
    BY <1>6 DEF RunSteps, Sound, OnFlash, Consistent, TypeOK, Contents, Volumes, Owners,
      LockConfig, SaverGoes, diskVars, bootVars
  <2>. QED BY <2>2, <2>3
<1>7. CASE SaveCrc
  <2>1. SetFileCrc(files["public"]) \in Contents
    BY CrcSet DEF TypeOK, Contents, Volumes
  <2>2. WriteVolume("public", SetFileCrc(files["public"]))
    BY <1>7 DEF SaveCrc
  <2>3. Written("public", SetFileCrc(files["public"]))
    BY <2>1, <2>2, VolumeWritten DEF Volumes
  <2>4. sys = "run" /\ UNCHANGED bootVars
    BY <1>7 DEF Owners, bootVars, SaveCrc, SaverGoes
  <2>5. (BootSteps /\ BootGoesOn)'
    BY <2>4, BootIsOver
  <2>6. RunSteps'
    BY <1>7, <2>1, <2>3, CrcSet DEF RunSteps, Sound, OnFlash, Consistent, TypeOK, Contents,
      Volumes, Owners, Written, Other, SaveCrc, SaverGoes, bootVars
  <2>. QED BY <2>5, <2>6
<1>8. CASE SavedFlush
  <2>1. sys = "run" /\ UNCHANGED bootVars
    BY <1>8 DEF Owners, bootVars, SavedFlush, SaverGoes, Flush
  <2>2. (BootSteps /\ BootGoesOn)'
    BY <2>1, BootIsOver
  <2>3. RunSteps'
    BY <1>8 DEF RunSteps, Sound, OnFlash, Consistent, TypeOK, Contents, Volumes, Owners,
      SavedFlush, SaverGoes, Flush, bootVars
  <2>. QED BY <2>2, <2>3
<1>9. CASE BackupSave
  <2>1. files["public"] \in Contents
    BY DEF TypeOK, Contents, Volumes
  <2>2. WriteVolume("backup", files["public"])
    BY <1>9 DEF BackupSave
  <2>3. Written("backup", files["public"])
    BY <2>1, <2>2, VolumeWritten DEF Volumes
  <2>4. sys = "run" /\ UNCHANGED bootVars
    BY <1>9 DEF Owners, bootVars, BackupSave, SaverGoes
  <2>5. (BootSteps /\ BootGoesOn)'
    BY <2>4, BootIsOver
  <2>6. RunSteps'
    BY <1>9, <2>1, <2>3 DEF RunSteps, Sound, OnFlash, Consistent, TypeOK, Contents, Volumes,
      Owners, Written, Other, BackupSave, SaverGoes, bootVars
  <2>. QED BY <2>5, <2>6
<1>10. CASE BackupFlush
  <2>1. sys = "run" /\ UNCHANGED bootVars
    BY <1>10 DEF Owners, bootVars, BackupFlush, SaverGoes, Flush
  <2>2. (BootSteps /\ BootGoesOn)'
    BY <2>1, BootIsOver
  <2>3. RunSteps'
    BY <1>10 DEF RunSteps, Sound, OnFlash, Consistent, TypeOK, Contents, Volumes, Owners,
      BackupFlush, SaverGoes, Flush, bootVars
  <2>. QED BY <2>2, <2>3
<1>11. CASE UnlockConfig
  <2>1. sys = "run" /\ UNCHANGED bootVars
    BY <1>11 DEF Owners, bootVars, UnlockConfig, SaverGoes, diskVars
  <2>2. (BootSteps /\ BootGoesOn)'
    BY <2>1, BootIsOver
  <2>3. RunSteps'
    BY <1>11 DEF RunSteps, Sound, OnFlash, Consistent, TypeOK, Contents, Volumes, Owners,
      UnlockConfig, SaverGoes, diskVars, bootVars
  <2>. QED BY <2>2, <2>3
<1>12. CASE TestCount
  <2>1. sys = "run" /\ UNCHANGED bootVars
    BY <1>12 DEF Owners, bootVars, TestCount, diskVars
  <2>2. (BootSteps /\ BootGoesOn)'
    BY <2>1, BootIsOver
  <2>3. RunSteps'
    BY <1>12 DEF RunSteps, Sound, OnFlash, Consistent, TypeOK, Contents, Volumes, Owners,
      TestCount, diskVars, bootVars
  <2>. QED BY <2>2, <2>3
<1>13. CASE StopSaving
  <2>1. sys = "run" /\ UNCHANGED bootVars
    BY <1>13 DEF Owners, bootVars, StopSaving, SaverGoes, diskVars
  <2>2. (BootSteps /\ BootGoesOn)'
    BY <2>1, BootIsOver
  <2>3. RunSteps'
    BY <1>13 DEF RunSteps, Sound, OnFlash, Consistent, TypeOK, Contents, Volumes, Owners,
      StopSaving, SaverGoes, diskVars, bootVars
  <2>. QED BY <2>2, <2>3
<1>14. CASE BeginSave
  <2>1. sys = "run" /\ UNCHANGED bootVars
    BY <1>14 DEF Owners, bootVars, BeginSave, SaverGoes, diskVars
  <2>2. (BootSteps /\ BootGoesOn)'
    BY <2>1, BootIsOver
  <2>3. RunSteps'
    BY <1>14 DEF RunSteps, Sound, OnFlash, Consistent, TypeOK, Contents, Volumes, Owners,
      BeginSave, SaverGoes, diskVars, bootVars
  <2>. QED BY <2>2, <2>3
<1>. QED BY <1>1, <1>2, <1>3, <1>4, <1>5, <1>6, <1>7, <1>8, <1>9, <1>10, <1>11, <1>12, <1>13, <1>14

\* The boot.
LEMMA BootKept ==
  ASSUME IInv,
         CheckIntact \/ FormatPublic \/ DefaultPublic \/ DefaultFlush \/
           FormatBackup \/ DefaultBackup \/ Restore \/ RestoreFlush \/ CheckCrc
           \/ Sync \/ SyncFlush \/ ConfigInit
  PROVE  (BootSteps /\ BootGoesOn /\ RunSteps)'
<1>0. cache # "lost"
  BY DEF IInv, Base, CacheSteps
<1>. USE <1>0, NoVersions, ContentsOf DEF IInv, Base
<1>1. CASE CheckIntact
  <2>1. (BootSteps /\ BootGoesOn)'
    BY <1>1 DEF BootFlushes, BootSteps, BootGoesOn, Sound, OnFlash, Consistent, IsMissing, Files, TypeOK,
      Contents, Volumes, Owners, CheckIntact, BootGoes, saveVars, diskVars
  <2>2. RunSteps'
    BY <1>1 DEF RunSteps, Owners, CheckIntact, BootGoes, saveVars, diskVars
  <2>. QED BY <2>1, <2>2
<1>2. CASE FormatPublic
  <2>1. Empty \in Contents
    BY DEF TypeOK, Contents, Volumes
  <2>2. WriteVolume("public", Empty)
    BY <1>2 DEF FormatPublic
  <2>3. Written("public", Empty)
    BY <2>1, <2>2, VolumeWritten DEF Volumes
  <2>4. (BootSteps /\ BootGoesOn)'
    BY <1>2, <2>1, <2>3 DEF BootFlushes, BootSteps, BootGoesOn, Sound, OnFlash, Consistent, IsMissing, Files,
      TypeOK, Contents, Volumes, Owners, Written, Other, FormatPublic, BootGoes, saveVars
  <2>5. RunSteps'
    BY <1>2 DEF RunSteps, Owners, FormatPublic, BootGoes, saveVars
  <2>. QED BY <2>4, <2>5
<1>3. CASE DefaultPublic
  <2>1. Default \in Contents
    BY DEF TypeOK, Contents, Volumes
  <2>2. WriteVolume("public", Default)
    BY <1>3 DEF DefaultPublic
  <2>3. Written("public", Default)
    BY <2>1, <2>2, VolumeWritten DEF Volumes
  <2>4. (BootSteps /\ BootGoesOn)'
    BY <1>3, <2>1, <2>3 DEF BootFlushes, BootSteps, BootGoesOn, Sound, OnFlash, Consistent, IsMissing, Files,
      TypeOK, Contents, Volumes, Owners, Written, Other, DefaultPublic, BootGoes, saveVars
  <2>5. RunSteps'
    BY <1>3 DEF RunSteps, Owners, DefaultPublic, BootGoes, saveVars
  <2>. QED BY <2>4, <2>5
<1>4. CASE DefaultFlush
  <2>1. (BootSteps /\ BootGoesOn)'
    BY <1>4 DEF BootFlushes, BootSteps, BootGoesOn, Sound, OnFlash, Consistent, IsMissing, Files, TypeOK,
      Contents, Volumes, Owners, DefaultFlush, BootGoes, Flush, saveVars
  <2>2. RunSteps'
    BY <1>4 DEF RunSteps, Owners, DefaultFlush, BootGoes, Flush, saveVars
  <2>. QED BY <2>1, <2>2
<1>5. CASE FormatBackup
  <2>1. Empty \in Contents
    BY DEF TypeOK, Contents, Volumes
  <2>2. WriteVolume("backup", Empty)
    BY <1>5 DEF FormatBackup
  <2>3. Written("backup", Empty)
    BY <2>1, <2>2, VolumeWritten DEF Volumes
  <2>4. (BootSteps /\ BootGoesOn)'
    <3>1. sys = "check" /\ sys' = "default_backup" /\ retries' = retries
      BY <1>5 DEF FormatBackup, BootGoes
    <3>2. ~Sound("backup")
      BY <1>5 DEF FormatBackup, Sound, Consistent, Files
    <3>3. Sound("public") /\ OnFlash("public") /\ pending = {} /\ retries = 0
      BY <3>1, <3>2 DEF BootFlushes, BootSteps, OnFlash
    <3>4. files'["public"] = files["public"] /\ flash' = flash /\ pending' = {"backup"}
      BY <2>3, <3>3 DEF Written, Other
    <3>5. Sound("public")' /\ OnFlash("public")'
      BY <3>3, <3>4 DEF Sound, OnFlash, Consistent
    <3>. QED BY <3>1, <3>3, <3>4, <3>5 DEF BootSteps, BootGoesOn
  <2>5. RunSteps'
    BY <1>5 DEF RunSteps, Owners, FormatBackup, BootGoes, saveVars
  <2>. QED BY <2>4, <2>5
<1>6. CASE DefaultBackup
  <2>1. Default \in Contents
    BY DEF TypeOK, Contents, Volumes
  <2>2. WriteVolume("backup", Default)
    BY <1>6 DEF DefaultBackup
  <2>3. Written("backup", Default)
    BY <2>1, <2>2, VolumeWritten DEF Volumes
  <2>4. (BootSteps /\ BootGoesOn)'
    BY <1>6, <2>1, <2>3 DEF BootFlushes, BootSteps, BootGoesOn, Sound, OnFlash, Consistent, IsMissing, Files,
      TypeOK, Contents, Volumes, Owners, Written, Other, DefaultBackup, BootGoes, saveVars
  <2>5. RunSteps'
    BY <1>6 DEF RunSteps, Owners, DefaultBackup, BootGoes, saveVars
  <2>. QED BY <2>4, <2>5
<1>7. CASE Restore
  <2>1. files["backup"] \in Contents
    BY DEF TypeOK, Contents, Volumes
  <2>2. WriteVolume("public", files["backup"])
    BY <1>7 DEF Restore, BootFlushes, BootSteps, Sound, Consistent, IsMissing, Files
  <2>3. Written("public", files["backup"])
    BY <2>1, <2>2, VolumeWritten DEF Volumes
  <2>4. (BootSteps /\ BootGoesOn)'
    BY <1>7, <2>1, <2>3 DEF BootFlushes, BootSteps, BootGoesOn, Sound, OnFlash, Consistent, IsMissing, Files,
      TypeOK, Contents, Volumes, Owners, Written, Other, Restore, saveVars, diskVars
  <2>5. RunSteps'
    BY <1>7 DEF RunSteps, Owners, Restore, saveVars, diskVars
  <2>. QED BY <2>4, <2>5
<1>8. CASE RestoreFlush
  <2>1. (BootSteps /\ BootGoesOn)'
    BY <1>8 DEF BootFlushes, BootSteps, BootGoesOn, Sound, OnFlash, Consistent, IsMissing, Files, TypeOK,
      Contents, Volumes, Owners, RestoreFlush, BootGoes, Flush, saveVars
  <2>2. RunSteps'
    BY <1>8 DEF RunSteps, Owners, RestoreFlush, BootGoes, Flush, saveVars
  <2>. QED BY <2>1, <2>2
<1>9. CASE CheckCrc
  <2>1. (BootSteps /\ BootGoesOn)'
    BY <1>9 DEF BootFlushes, BootSteps, BootGoesOn, Sound, OnFlash, Consistent, IsMissing, Files, TypeOK,
      Contents, Volumes, Owners, CheckCrc, saveVars, diskVars
  <2>2. RunSteps'
    BY <1>9 DEF RunSteps, Owners, CheckCrc, saveVars, diskVars
  <2>. QED BY <2>1, <2>2
<1>10. CASE Sync
  <2>1. files["public"] \in Contents
    BY DEF TypeOK, Contents, Volumes
  <2>2. ~IsMissing("public") /\ ~IsMissing("backup")
    BY <1>10 DEF Sync, BootFlushes, BootSteps, Sound, Consistent, IsMissing, Files
  <2>3. \/ WriteVolume("backup", files["public"])
        \/ files["backup"] = files["public"] /\ UNCHANGED diskVars
    BY <1>10, <2>2 DEF Sync, diskVars
  <2>4. \/ Written("backup", files["public"])
        \/ files["backup"] = files["public"] /\ UNCHANGED diskVars
    BY <2>1, <2>3, VolumeWritten DEF Volumes
  <2>5. (BootSteps /\ BootGoesOn)'
    BY <1>10, <2>1, <2>4 DEF BootFlushes, BootSteps, BootGoesOn, Sound, OnFlash, Consistent, IsMissing,
      Files, TypeOK, Contents, Volumes, Owners, Written, Other, Sync, saveVars, diskVars
  <2>6. RunSteps'
    BY <1>10 DEF RunSteps, Owners, Sync, saveVars, diskVars
  <2>. QED BY <2>5, <2>6
<1>11. CASE SyncFlush
  <2>1. pending = {} => files = flash
    BY <1>11 DEF BootFlushes, BootSteps, BootGoes, SyncFlush, OnFlash, TypeOK, Volumes
  <2>2. files' = flash' /\ pending' = {} /\ files' = files
    BY <1>11, <2>1 DEF SyncFlush, BootGoes, Flush, Owners, diskVars
  <2>3. (BootSteps /\ BootGoesOn)'
    BY <1>11, <2>2 DEF BootFlushes, BootSteps, BootGoesOn, Sound, OnFlash, Consistent, IsMissing, Files,
      TypeOK, Contents, Volumes, Owners, SyncFlush, BootGoes, Flush, saveVars, diskVars
  <2>4. RunSteps'
    BY <1>11 DEF RunSteps, Owners, SyncFlush, BootGoes, Flush, saveVars, diskVars
  <2>. QED BY <2>3, <2>4
<1>12. CASE ConfigInit
  <2>1. (BootSteps /\ BootGoesOn)'
    BY <1>12 DEF BootFlushes, BootSteps, BootGoesOn, Sound, OnFlash, Consistent, IsMissing, Files, TypeOK,
      Contents, Volumes, Owners, ConfigInit, BootGoes, diskVars
  <2>2. RunSteps'
    BY <1>12 DEF RunSteps, BootFlushes, BootSteps, Sound, OnFlash, Consistent, TypeOK, Contents, Volumes,
      Owners, ConfigInit, BootGoes, diskVars
  <2>. QED BY <2>1, <2>2
<1>. QED BY <1>1, <1>2, <1>3, <1>4, <1>5, <1>6, <1>7, <1>8, <1>9, <1>10, <1>11, <1>12

\* A power loss at any step leaves a sound volume.
LEMMA PowerLossKeeps ==
  ASSUME IInv, PowerLoss
  PROVE  (BootSteps /\ BootGoesOn /\ RunSteps)'
<1>. PICK p \in AfterLoss("public"), b \in AfterLoss("backup") :
       flash' = [public |-> p, backup |-> b]
  BY DEF PowerLoss
<1>1. /\ p \in Contents /\ ("public" \notin pending => p = flash["public"])
      /\ b \in Contents /\ ("backup" \notin pending => b = flash["backup"])
  BY LossLeaves DEF IInv, Base, Volumes
<1>2. flash' \in [Volumes -> Contents] /\ flash'["public"] = p /\ flash'["backup"] = b
  BY <1>1 DEF Volumes
<1>3. files' = flash' /\ pending' = {} /\ sys' = "check" /\ retries' = 0
  BY DEF PowerLoss
<1>4. Consistent(p) \/ Consistent(b)
  <2>1. CASE sys = "run"
    BY <2>1, <1>1 DEF IInv, RunSteps, Sound, OnFlash
  <2>2. CASE sys # "run"
    BY <2>2, <1>1 DEF IInv, Base, TypeOK, BootFlushes, BootSteps, BootGoesOn, Sound, OnFlash
  <2>. QED BY <2>1, <2>2
<1>5. (BootSteps /\ BootGoesOn)'
  BY <1>2, <1>3, <1>4 DEF BootFlushes, BootSteps, BootGoesOn, Sound
<1>. QED BY <1>3, <1>5 DEF RunSteps

\* The invariant holds at the start.
LEMMA InitInv == Init => IInv
<1>. SUFFICES ASSUME Init PROVE IInv
  OBVIOUS
<1>1. PICK b \in {Default, Empty} : flash = [public |-> Default, backup |-> b]
  BY DEF Init
<1>2. flash \in [Volumes -> Contents] /\ flash["public"] = Default
  BY <1>1, ContentsOf DEF Volumes
<1>3. TypeOK
  <2>1. savingCount \in BOOLEAN /\ isSaving \in BOOLEAN /\ count \in BOOLEAN /\ overlapped \in BOOLEAN
    BY DEF Init
  <2>2. 0 \in 0 .. MaxPowerLosses
    BY ConstantsAssumption
  <2>. QED BY <1>2, <2>1, <2>2, NoVersions DEF Init, TypeOK
<1>. QED BY <1>2, <1>3, ContentsOf
         DEF Init, IInv, Base, Owners, CacheSteps, BootFlushes, BootSteps, BootGoesOn, RunSteps,
             Sound, OnFlash

\* A boot that has come through, also after an overlap, has repaired everything.
LEMMA ComesUpRepaired ==
  ASSUME Base, ConfigInit
  PROVE  (~overlapped /\ BootSteps /\ BootGoesOn /\ RunSteps)'
<1>1. /\ sys = "init" /\ sys' = "run" /\ saver' = "none" /\ overlapped' = FALSE
      /\ UNCHANGED <<files, flash, pending>>
  BY DEF Base, Owners, ConfigInit, BootGoes
<1>2. /\ pending = {} /\ files = flash
      /\ Consistent(files["public"]) /\ files["backup"] = files["public"]
  BY <1>1 DEF Base, BootFlushes, Sound
<1>3. (~overlapped /\ BootSteps /\ BootGoesOn)'
  BY <1>1 DEF BootSteps, BootGoesOn
<1>4. RunSteps'
  BY <1>1, <1>2 DEF RunSteps, Sound, OnFlash, Consistent
<1>. QED BY <1>3, <1>4

\* Only a boot that has come through takes an overlap back.
LEMMA OverlapStays ==
  ASSUME [Next]_vars, ~ConfigInit, ~overlapped'
  PROVE  ~overlapped
<1>1. CASE Boot \/ BootHasEnded \/ UNCHANGED vars
  BY <1>1 DEF Boot, BootGoes, CheckIntact, FormatPublic, DefaultPublic, DefaultFlush, FormatBackup,
              DefaultBackup, Restore, RestoreFlush, CheckCrc, Sync, SyncFlush, BootHasEnded,
              WriteVolume, Flush, vars, diskVars
<1>2. CASE Saver
  BY <1>2 DEF Saver, BeginSave, TakeCount, SetIni, OpenIni, OpenIniFails, DumpIni, LockConfig,
              SaveCrc, SavedFlush, BackupSave, BackupFlush, UnlockConfig, TestCount, StopSaving,
              WriteVolume, Flush, diskVars
<1>3. CASE ChangeSetting \/ UpdateCrcLock \/ UiReturns \/ ReadAgain \/ PowerLoss
  BY <1>3 DEF ChangeSetting, UpdateCrcLock, UiReturns, StartSave, UpdateCrc, UpdateCrcFlush, ReadAgain,
              PowerLoss, WriteVolume, Flush, FlushBeside, diskVars
<1>. QED BY <1>1, <1>2, <1>3 DEF Next

Inv == Base /\ (~overlapped => IInv)

\* Every step keeps the invariant.
LEMMA NextInv == Inv /\ [Next]_vars => Inv'
<1>. SUFFICES ASSUME Inv, [Next]_vars PROVE Inv'
  OBVIOUS
<1>1. Base'
  BY NextBase DEF Inv
<1>2. ASSUME ~overlapped' PROVE (BootSteps /\ BootGoesOn /\ RunSteps)'
  <2>1. CASE ConfigInit
    BY <2>1, ComesUpRepaired DEF Inv
  <2>2. CASE ~ConfigInit
    <3>1. IInv
      BY <1>2, <2>2, OverlapStays DEF Inv
    <3>2. ~ReadAgain
      BY <3>1 DEF IInv, Base, CacheSteps, ReadAgain
    <3>3. ~BootHasEnded
      BY <3>1 DEF IInv, BootGoesOn, BootHasEnded
    <3>4. CASE UNCHANGED vars
      BY <3>1, <3>4 DEF IInv, BootSteps, BootGoesOn, RunSteps, Sound, OnFlash, IsMissing, vars,
                        saveVars, diskVars, bootVars
    <3>. QED BY <1>2, <3>1, <3>2, <3>3, <3>4, UiSteps, SaverSteps, BootKept, PowerLossKeeps
             DEF Next, UiReturns, Saver, Boot
  <2>. QED BY <2>1, <2>2
<1>. QED BY <1>1, <1>2 DEF Inv, IInv

THEOREM Invariant == Spec => []Inv
<1>1. Init => Inv
  BY InitInv DEF Inv, IInv
<1>. QED BY <1>1, NextInv, PTL DEF Spec
-----------------------------------------------------------------------------
\* Every variable of ConfigStore has its type.
THEOREM TypeCorrect == Spec => []TypeOK
  BY Invariant, PTL DEF Inv, Base

\* ConfigSaveTask, BackupInit, BackupSyncFile: at every step one of the two
\* copies in the flash is sound, unless since the board came up a flush of
\* ConfigUpdateCrc has run beside a write of the ini file.
THEOREM OneCopyStaysGood == Spec => []OneCopyIsGood
<1>1. Inv => OneCopyIsGood
  <2>. SUFFICES ASSUME IInv PROVE Consistent(flash["public"]) \/ Consistent(flash["backup"])
    BY DEF OneCopyIsGood, Inv
  <2>1. CASE sys = "run"
    BY <2>1 DEF IInv, RunSteps, Sound, OnFlash
  <2>2. CASE sys # "run"
    BY <2>2 DEF IInv, Base, TypeOK, BootFlushes, BootSteps, BootGoesOn, Sound, OnFlash
  <2>. QED BY <2>1, <2>2
<1>. QED BY <1>1, Invariant, PTL

\* SDL_main: the boot meets no assert(0) and never resets to the factory state,
\* unless a flush had run beside a write before the power failed.
THEOREM BootComesThrough == Spec => []BootNeverGivesUp
<1>1. Inv => BootNeverGivesUp
  BY DEF Inv, IInv, BootGoesOn, BootNeverGivesUp
<1>. QED BY <1>1, Invariant, PTL
-----------------------------------------------------------------------------
(***************************************************************************)
(* What was saved stays, when a power loss leaves the directory entries.   *)
(***************************************************************************)
\* The versions in a volume's files are no older than what was saved.
Young(fs) == \A f \in Files : fs[f] \in Versions => fs[f] >= saved
Newer(fs) == Consistent(fs) /\ fs.ini >= saved

\* Without lost directory entries the public volume is always there.
PublicIsThere ==
    /\ \A f \in Files : files["public"][f] # Missing /\ flash["public"][f] # Missing
    /\ sys \notin {"default_public", "flush_default"}

\* What the boot finds is no older than what was saved, and what it restores neither.
BootKeeps ==
    sys # "run" =>
      /\ IF Consistent(flash["public"]) THEN flash["public"].ini >= saved ELSE Newer(flash["backup"])
      /\ sys = "restore" => Newer(files["backup"])
      /\ sys = "flush_restore" /\ pending = {"public"} =>
           files["public"] = files["backup"] /\ Newer(files["backup"])

\* Nothing that is written while the program runs is older than what was saved.
RunKeeps ==
    sys = "run" =>
      /\ saved <= theConfig
      /\ saver \in {"open", "dump"} => saved <= dict /\ dict <= theConfig
      /\ Young(files["public"]) /\ Young(flash["public"])
      /\ files["public"].ini \in Versions => files["public"].ini <= theConfig
      /\ saver \notin {"backup", "flush_backup"} => Newer(files["backup"])

SInv == PublicIsThere /\ BootKeeps /\ RunKeeps

\* ConfigSave and ConfigUpdateCrc write nothing older.
LEMMA UiSaves ==
  ASSUME IInv, ~overlapped', SInv,
         ChangeSetting \/ StartSave \/ UpdateCrcLock \/ UpdateCrc \/
           UpdateCrcFlush
  PROVE  SInv'
<1>0. cache # "lost"
  BY DEF IInv, Base, CacheSteps
<1>. USE <1>0, NoVersions, ContentsOf DEF IInv, Base, SInv
<1>1. CASE ChangeSetting
  <2>1. sys = "run" /\ sys' = "run"
    BY <1>1 DEF Owners, bootVars, ChangeSetting, diskVars
  <2>2. PublicIsThere'
    BY <2>1, <1>1 DEF PublicIsThere, Files, TypeOK, Volumes, Contents, ChangeSetting, diskVars,
      bootVars
  <2>3. BootKeeps'
    BY <2>1 DEF BootKeeps
  <2>4. RunKeeps'
    BY <2>1, <1>1 DEF RunKeeps, RunSteps, Young, Newer, Sound, OnFlash, Consistent,
      PublicIsThere, Files, TypeOK, Contents, Volumes, Versions, ChangeSetting, diskVars,
      bootVars
  <2>. QED BY <2>2, <2>3, <2>4
<1>2. CASE StartSave
  <2>1. sys = "run" /\ sys' = "run"
    BY <1>2 DEF Owners, bootVars, StartSave, diskVars
  <2>2. PublicIsThere'
    BY <2>1, <1>2 DEF PublicIsThere, Files, TypeOK, Volumes, Contents, StartSave, diskVars,
      bootVars
  <2>3. BootKeeps'
    BY <2>1 DEF BootKeeps
  <2>4. RunKeeps'
    BY <2>1, <1>2 DEF RunKeeps, RunSteps, Young, Newer, Sound, OnFlash, Consistent,
      PublicIsThere, Files, TypeOK, Contents, Volumes, Versions, Owners, StartSave, diskVars,
      bootVars
  <2>. QED BY <2>2, <2>3, <2>4
<1>3. CASE UpdateCrcLock
  <2>1. sys = "run" /\ sys' = "run"
    BY <1>3 DEF Owners, bootVars, UpdateCrcLock, diskVars
  <2>2. PublicIsThere'
    BY <2>1, <1>3 DEF PublicIsThere, Files, TypeOK, Volumes, Contents, UpdateCrcLock, diskVars,
      bootVars
  <2>3. BootKeeps'
    BY <2>1 DEF BootKeeps
  <2>4. RunKeeps'
    BY <2>1, <1>3 DEF RunKeeps, RunSteps, Young, Newer, Sound, OnFlash, Consistent,
      PublicIsThere, Files, TypeOK, Contents, Volumes, Versions, UpdateCrcLock, diskVars,
      bootVars
  <2>. QED BY <2>2, <2>3, <2>4
<1>4. CASE UpdateCrc
  <2>1. SetFileCrc(files["public"]) \in Contents
    BY CrcSet DEF TypeOK, Contents, Volumes
  <2>2. \/ WriteVolume("public", SetFileCrc(files["public"]))
        \/ UNCHANGED diskVars
    BY <1>4 DEF UpdateCrc
  <2>3. \/ Written("public", SetFileCrc(files["public"]))
        \/ UNCHANGED diskVars
    BY <2>1, <2>2, VolumeWritten DEF Volumes
  <2>4. sys = "run" /\ sys' = "run"
    BY <1>4 DEF Owners, bootVars, UpdateCrc, diskVars
  <2>5. PublicIsThere'
    BY <2>4, <1>4, <2>1, <2>3, CrcSet DEF PublicIsThere, Files, TypeOK, Volumes, Contents,
      RunSteps, Written, Other, diskVars, UpdateCrc, bootVars
  <2>6. BootKeeps'
    BY <2>4 DEF BootKeeps
  <2>7. RunKeeps'
    BY <2>4, <1>4, <2>1, <2>3, CrcSet DEF RunKeeps, RunSteps, Young, Newer, Sound, OnFlash,
      Consistent, PublicIsThere, Files, TypeOK, Contents, Volumes, Versions, Written, Other,
      diskVars, UpdateCrc, bootVars
  <2>. QED BY <2>5, <2>6, <2>7
<1>5. CASE UpdateCrcFlush
  <2>1. sys = "run" /\ sys' = "run"
    BY <1>5 DEF Owners, bootVars, UpdateCrcFlush
  <2>2. Flush
    BY <1>5 DEF UpdateCrcFlush, FlushBeside
  <2>3. PublicIsThere'
    BY <2>1, <1>5, <2>2 DEF PublicIsThere, Files, TypeOK, Volumes, Contents, UpdateCrcFlush, Flush,
      bootVars
  <2>4. BootKeeps'
    BY <2>1 DEF BootKeeps
  <2>5. RunKeeps'
    BY <2>1, <1>5, <2>2 DEF RunKeeps, RunSteps, Young, Newer, Sound, OnFlash, Consistent,
      PublicIsThere, Files, TypeOK, Contents, Volumes, Versions, UpdateCrcFlush, Flush, bootVars
  <2>. QED BY <2>3, <2>4, <2>5
<1>. QED BY <1>1, <1>2, <1>3, <1>4, <1>5

\* ConfigSaveTask writes nothing older.
LEMMA SaverSaves ==
  ASSUME IInv, SInv,
         BeginSave \/ TakeCount \/ SetIni \/ OpenIni \/ OpenIniFails \/ DumpIni
           \/ LockConfig \/ SaveCrc \/ SavedFlush \/ BackupSave \/ BackupFlush \/ UnlockConfig
           \/ TestCount \/ StopSaving
  PROVE  SInv'
<1>0. cache # "lost"
  BY DEF IInv, Base, CacheSteps
<1>. USE <1>0, NoVersions, ContentsOf DEF IInv, Base, SInv
<1>1. CASE TakeCount
  <2>1. sys = "run" /\ sys' = "run"
    BY <1>1 DEF Owners, bootVars, TakeCount, SaverGoes, diskVars
  <2>2. PublicIsThere'
    BY <2>1, <1>1 DEF PublicIsThere, Files, TypeOK, Volumes, Contents, TakeCount, SaverGoes,
      diskVars, bootVars
  <2>3. BootKeeps'
    BY <2>1 DEF BootKeeps
  <2>4. RunKeeps'
    BY <2>1, <1>1 DEF RunKeeps, RunSteps, Young, Newer, Sound, OnFlash, Consistent,
      PublicIsThere, Files, TypeOK, Contents, Volumes, Versions, TakeCount, SaverGoes, diskVars,
      bootVars
  <2>. QED BY <2>2, <2>3, <2>4
<1>2. CASE SetIni
  <2>1. sys = "run" /\ sys' = "run"
    BY <1>2 DEF Owners, bootVars, SetIni, SaverGoes, diskVars
  <2>2. PublicIsThere'
    BY <2>1, <1>2 DEF PublicIsThere, Files, TypeOK, Volumes, Contents, SetIni, SaverGoes,
      diskVars, bootVars
  <2>3. BootKeeps'
    BY <2>1 DEF BootKeeps
  <2>4. RunKeeps'
    BY <2>1, <1>2 DEF RunKeeps, RunSteps, Young, Newer, Sound, OnFlash, Consistent,
      PublicIsThere, Files, TypeOK, Contents, Volumes, Versions, SetIni, SaverGoes, diskVars,
      bootVars
  <2>. QED BY <2>2, <2>3, <2>4
<1>3. CASE OpenIni
  <2>1. [files["public"] EXCEPT !.ini = Torn] \in Contents
    BY DEF TypeOK, Contents, Volumes
  <2>2. WriteVolume("public", [files["public"] EXCEPT !.ini = Torn])
    BY <1>3 DEF OpenIni
  <2>3. Written("public", [files["public"] EXCEPT !.ini = Torn])
    BY <2>1, <2>2, VolumeWritten DEF Volumes
  <2>4. sys = "run" /\ sys' = "run"
    BY <1>3 DEF Owners, bootVars, OpenIni, SaverGoes
  <2>5. PublicIsThere'
    BY <2>4, <1>3, <2>1, <2>3 DEF PublicIsThere, Files, TypeOK, Volumes, Contents, Written,
      Other, OpenIni, SaverGoes, bootVars
  <2>6. BootKeeps'
    BY <2>4 DEF BootKeeps
  <2>7. RunKeeps'
    BY <2>4, <1>3, <2>1, <2>3 DEF RunKeeps, RunSteps, Young, Newer, Sound, OnFlash, Consistent,
      PublicIsThere, Files, TypeOK, Contents, Volumes, Versions, Written, Other, OpenIni,
      SaverGoes, bootVars
  <2>. QED BY <2>5, <2>6, <2>7
<1>4. CASE OpenIniFails
  <2>1. sys = "run" /\ sys' = "run"
    BY <1>4 DEF Owners, bootVars, OpenIniFails, SaverGoes, diskVars
  <2>2. PublicIsThere'
    BY <2>1, <1>4 DEF PublicIsThere, Files, TypeOK, Volumes, Contents, OpenIniFails, SaverGoes,
      diskVars, bootVars
  <2>3. BootKeeps'
    BY <2>1 DEF BootKeeps
  <2>4. RunKeeps'
    BY <2>1, <1>4 DEF RunKeeps, RunSteps, Young, Newer, Sound, OnFlash, Consistent,
      PublicIsThere, Files, TypeOK, Contents, Volumes, Versions, OpenIniFails, SaverGoes,
      diskVars, bootVars
  <2>. QED BY <2>2, <2>3, <2>4
<1>5. CASE DumpIni
  <2>1. [files["public"] EXCEPT !.ini = dict] \in Contents
    BY DEF TypeOK, Contents, Volumes
  <2>2. WriteVolume("public", [files["public"] EXCEPT !.ini = dict])
    BY <1>5 DEF DumpIni
  <2>3. Written("public", [files["public"] EXCEPT !.ini = dict])
    BY <2>1, <2>2, VolumeWritten DEF Volumes
  <2>4. sys = "run" /\ sys' = "run"
    BY <1>5 DEF Owners, bootVars, DumpIni, SaverGoes
  <2>5. PublicIsThere'
    BY <2>4, <1>5, <2>1, <2>3 DEF PublicIsThere, Files, TypeOK, Volumes, Contents, Written,
      Other, DumpIni, SaverGoes, bootVars
  <2>6. BootKeeps'
    BY <2>4 DEF BootKeeps
  <2>7. RunKeeps'
    BY <2>4, <1>5, <2>1, <2>3 DEF RunKeeps, RunSteps, Young, Newer, Sound, OnFlash, Consistent,
      PublicIsThere, Files, TypeOK, Contents, Volumes, Versions, Written, Other, DumpIni,
      SaverGoes, bootVars
  <2>. QED BY <2>5, <2>6, <2>7
<1>6. CASE LockConfig
  <2>1. sys = "run" /\ sys' = "run"
    BY <1>6 DEF Owners, bootVars, LockConfig, SaverGoes, diskVars
  <2>2. PublicIsThere'
    BY <2>1, <1>6 DEF PublicIsThere, Files, TypeOK, Volumes, Contents, LockConfig, SaverGoes,
      diskVars, bootVars
  <2>3. BootKeeps'
    BY <2>1 DEF BootKeeps
  <2>4. RunKeeps'
    BY <2>1, <1>6 DEF RunKeeps, RunSteps, Young, Newer, Sound, OnFlash, Consistent,
      PublicIsThere, Files, TypeOK, Contents, Volumes, Versions, LockConfig, SaverGoes,
      diskVars, bootVars
  <2>. QED BY <2>2, <2>3, <2>4
<1>7. CASE SaveCrc
  <2>1. SetFileCrc(files["public"]) \in Contents
    BY CrcSet DEF TypeOK, Contents, Volumes
  <2>2. WriteVolume("public", SetFileCrc(files["public"]))
    BY <1>7 DEF SaveCrc
  <2>3. Written("public", SetFileCrc(files["public"]))
    BY <2>1, <2>2, VolumeWritten DEF Volumes
  <2>4. sys = "run" /\ sys' = "run"
    BY <1>7 DEF Owners, bootVars, SaveCrc, SaverGoes
  <2>5. PublicIsThere'
    BY <2>4, <1>7, <2>1, <2>3, CrcSet DEF PublicIsThere, Files, TypeOK, Volumes, Contents,
      RunSteps, Written, Other, SaveCrc, SaverGoes, bootVars
  <2>6. BootKeeps'
    BY <2>4 DEF BootKeeps
  <2>7. RunKeeps'
    BY <2>4, <1>7, <2>1, <2>3, CrcSet DEF RunKeeps, RunSteps, Young, Newer, Sound, OnFlash,
      Consistent, PublicIsThere, Files, TypeOK, Contents, Volumes, Versions, Written, Other,
      SaveCrc, SaverGoes, bootVars
  <2>. QED BY <2>5, <2>6, <2>7
<1>8. CASE SavedFlush
  <2>1. sys = "run" /\ sys' = "run"
    BY <1>8 DEF Owners, bootVars, SavedFlush, SaverGoes, Flush
  <2>2. PublicIsThere'
    BY <2>1, <1>8 DEF PublicIsThere, Files, TypeOK, Volumes, Contents, SavedFlush, SaverGoes,
      Flush, bootVars
  <2>3. BootKeeps'
    BY <2>1 DEF BootKeeps
  <2>4. RunKeeps'
    BY <2>1, <1>8 DEF RunKeeps, RunSteps, Young, Newer, Sound, OnFlash, Consistent,
      PublicIsThere, Files, TypeOK, Contents, Volumes, Versions, SavedFlush, SaverGoes, Flush,
      bootVars
  <2>. QED BY <2>2, <2>3, <2>4
<1>9. CASE BackupSave
  <2>1. files["public"] \in Contents
    BY DEF TypeOK, Contents, Volumes
  <2>2. WriteVolume("backup", files["public"])
    BY <1>9 DEF BackupSave
  <2>3. Written("backup", files["public"])
    BY <2>1, <2>2, VolumeWritten DEF Volumes
  <2>4. sys = "run" /\ sys' = "run"
    BY <1>9 DEF Owners, bootVars, BackupSave, SaverGoes
  <2>5. PublicIsThere'
    BY <2>4, <1>9, <2>1, <2>3 DEF PublicIsThere, Files, TypeOK, Volumes, Contents, Written,
      Other, BackupSave, SaverGoes, bootVars
  <2>6. BootKeeps'
    BY <2>4 DEF BootKeeps
  <2>7. RunKeeps'
    BY <2>4, <1>9, <2>1, <2>3 DEF RunKeeps, RunSteps, Young, Newer, Sound, OnFlash, Consistent,
      PublicIsThere, Files, TypeOK, Contents, Volumes, Versions, Written, Other, BackupSave,
      SaverGoes, bootVars
  <2>. QED BY <2>5, <2>6, <2>7
<1>10. CASE BackupFlush
  <2>1. sys = "run" /\ sys' = "run"
    BY <1>10 DEF Owners, bootVars, BackupFlush, SaverGoes, Flush
  <2>2. PublicIsThere'
    BY <2>1, <1>10 DEF PublicIsThere, Files, TypeOK, Volumes, Contents, BackupFlush, SaverGoes,
      Flush, bootVars
  <2>3. BootKeeps'
    BY <2>1 DEF BootKeeps
  <2>4. RunKeeps'
    BY <2>1, <1>10 DEF RunKeeps, RunSteps, Young, Newer, Sound, OnFlash, Consistent,
      PublicIsThere, Files, TypeOK, Contents, Volumes, Versions, BackupFlush, SaverGoes, Flush,
      bootVars
  <2>. QED BY <2>2, <2>3, <2>4
<1>11. CASE UnlockConfig
  <2>1. sys = "run" /\ sys' = "run"
    BY <1>11 DEF Owners, bootVars, UnlockConfig, SaverGoes, diskVars
  <2>2. PublicIsThere'
    BY <2>1, <1>11 DEF PublicIsThere, Files, TypeOK, Volumes, Contents, UnlockConfig, SaverGoes,
      diskVars, bootVars
  <2>3. BootKeeps'
    BY <2>1 DEF BootKeeps
  <2>4. RunKeeps'
    BY <2>1, <1>11 DEF RunKeeps, RunSteps, Young, Newer, Sound, OnFlash, Consistent,
      PublicIsThere, Files, TypeOK, Contents, Volumes, Versions, UnlockConfig, SaverGoes,
      diskVars, bootVars
  <2>. QED BY <2>2, <2>3, <2>4
<1>12. CASE TestCount
  <2>1. sys = "run" /\ sys' = "run"
    BY <1>12 DEF Owners, bootVars, TestCount, diskVars
  <2>2. PublicIsThere'
    BY <2>1, <1>12 DEF PublicIsThere, Files, TypeOK, Volumes, Contents, TestCount, diskVars,
      bootVars
  <2>3. BootKeeps'
    BY <2>1 DEF BootKeeps
  <2>4. RunKeeps'
    BY <2>1, <1>12 DEF RunKeeps, RunSteps, Young, Newer, Sound, OnFlash, Consistent,
      PublicIsThere, Files, TypeOK, Contents, Volumes, Versions, TestCount, diskVars, bootVars
  <2>. QED BY <2>2, <2>3, <2>4
<1>13. CASE StopSaving
  <2>1. sys = "run" /\ sys' = "run"
    BY <1>13 DEF Owners, bootVars, StopSaving, SaverGoes, diskVars
  <2>2. PublicIsThere'
    BY <2>1, <1>13 DEF PublicIsThere, Files, TypeOK, Volumes, Contents, StopSaving, SaverGoes,
      diskVars, bootVars
  <2>3. BootKeeps'
    BY <2>1 DEF BootKeeps
  <2>4. RunKeeps'
    BY <2>1, <1>13 DEF RunKeeps, RunSteps, Young, Newer, Sound, OnFlash, Consistent,
      PublicIsThere, Files, TypeOK, Contents, Volumes, Versions, StopSaving, SaverGoes,
      diskVars, bootVars
  <2>. QED BY <2>2, <2>3, <2>4
<1>14. CASE BeginSave
  <2>1. sys = "run" /\ sys' = "run"
    BY <1>14 DEF Owners, bootVars, BeginSave, SaverGoes, diskVars
  <2>2. PublicIsThere'
    BY <2>1, <1>14 DEF PublicIsThere, Files, TypeOK, Volumes, Contents, BeginSave, SaverGoes,
      diskVars, bootVars
  <2>3. BootKeeps'
    BY <2>1 DEF BootKeeps
  <2>4. RunKeeps'
    BY <2>1, <1>14 DEF RunKeeps, RunSteps, Young, Newer, Sound, OnFlash, Consistent,
      PublicIsThere, Files, TypeOK, Contents, Volumes, Versions, BeginSave, SaverGoes,
      diskVars, bootVars
  <2>. QED BY <2>2, <2>3, <2>4
<1>. QED BY <1>1, <1>2, <1>3, <1>4, <1>5, <1>6, <1>7, <1>8, <1>9, <1>10, <1>11, <1>12, <1>13, <1>14

\* The boot restores nothing older.
LEMMA BootSaves ==
  ASSUME IInv, SInv,
         CheckIntact \/ FormatPublic \/ DefaultPublic \/ DefaultFlush \/
           FormatBackup \/ DefaultBackup \/ Restore \/ RestoreFlush \/ CheckCrc
           \/ Sync \/ SyncFlush \/ ConfigInit
  PROVE  SInv'
<1>0. cache # "lost"
  BY DEF IInv, Base, CacheSteps
<1>. USE <1>0, NoVersions, ContentsOf DEF IInv, Base, SInv
<1>1. CASE CheckIntact
  <2>1. PublicIsThere'
    BY <1>1 DEF PublicIsThere, BootFlushes, BootSteps, Sound, Consistent, IsMissing, Files, TypeOK, Volumes,
      Contents, CheckIntact, BootGoes, saveVars, diskVars
  <2>2. BootKeeps'
    BY <1>1 DEF BootKeeps, BootFlushes, BootSteps, BootGoesOn, PublicIsThere, Newer, Sound, OnFlash,
      Consistent, IsMissing, Files, TypeOK, Contents, Volumes, Versions, CheckIntact, BootGoes,
      saveVars, diskVars
  <2>3. RunKeeps'
    BY <1>1 DEF RunKeeps, Owners, CheckIntact, BootGoes, saveVars, diskVars
  <2>. QED BY <2>1, <2>2, <2>3
<1>2. CASE FormatPublic
  <2>1. Empty \in Contents
    BY DEF TypeOK, Contents, Volumes
  <2>2. WriteVolume("public", Empty)
    BY <1>2 DEF FormatPublic
  <2>3. Written("public", Empty)
    BY <2>1, <2>2, VolumeWritten DEF Volumes
  <2>4. PublicIsThere'
    BY <1>2, <2>1, <2>3 DEF PublicIsThere, BootFlushes, BootSteps, Sound, Consistent, IsMissing, Files,
      TypeOK, Volumes, Contents, Written, Other, FormatPublic, BootGoes, saveVars
  <2>5. BootKeeps'
    BY <1>2, <2>1, <2>3 DEF BootKeeps, BootFlushes, BootSteps, BootGoesOn, PublicIsThere, Newer, Sound,
      OnFlash, Consistent, IsMissing, Files, TypeOK, Contents, Volumes, Versions, Written,
      Other, FormatPublic, BootGoes, saveVars
  <2>6. RunKeeps'
    BY <1>2 DEF RunKeeps, Owners, FormatPublic, BootGoes, saveVars
  <2>. QED BY <2>4, <2>5, <2>6
<1>3. CASE DefaultPublic
  <2>1. Default \in Contents
    BY DEF TypeOK, Contents, Volumes
  <2>2. WriteVolume("public", Default)
    BY <1>3 DEF DefaultPublic
  <2>3. Written("public", Default)
    BY <2>1, <2>2, VolumeWritten DEF Volumes
  <2>4. PublicIsThere'
    BY <1>3, <2>1, <2>3 DEF PublicIsThere, BootFlushes, BootSteps, Sound, Consistent, IsMissing, Files,
      TypeOK, Volumes, Contents, Written, Other, DefaultPublic, BootGoes, saveVars
  <2>5. BootKeeps'
    BY <1>3, <2>1, <2>3 DEF BootKeeps, BootFlushes, BootSteps, BootGoesOn, PublicIsThere, Newer, Sound,
      OnFlash, Consistent, IsMissing, Files, TypeOK, Contents, Volumes, Versions, Written,
      Other, DefaultPublic, BootGoes, saveVars
  <2>6. RunKeeps'
    BY <1>3 DEF RunKeeps, Owners, DefaultPublic, BootGoes, saveVars
  <2>. QED BY <2>4, <2>5, <2>6
<1>4. CASE DefaultFlush
  <2>1. PublicIsThere'
    BY <1>4 DEF PublicIsThere, BootFlushes, BootSteps, Sound, Consistent, IsMissing, Files, TypeOK, Volumes,
      Contents, DefaultFlush, BootGoes, Flush, saveVars
  <2>2. BootKeeps'
    BY <1>4 DEF BootKeeps, BootFlushes, BootSteps, BootGoesOn, PublicIsThere, Newer, Sound, OnFlash,
      Consistent, IsMissing, Files, TypeOK, Contents, Volumes, Versions, DefaultFlush, BootGoes,
      Flush, saveVars
  <2>3. RunKeeps'
    BY <1>4 DEF RunKeeps, Owners, DefaultFlush, BootGoes, Flush, saveVars
  <2>. QED BY <2>1, <2>2, <2>3
<1>5. CASE FormatBackup
  <2>1. Empty \in Contents
    BY DEF TypeOK, Contents, Volumes
  <2>2. WriteVolume("backup", Empty)
    BY <1>5 DEF FormatBackup
  <2>3. Written("backup", Empty)
    BY <2>1, <2>2, VolumeWritten DEF Volumes
  <2>4. PublicIsThere'
    BY <1>5, <2>1, <2>3 DEF PublicIsThere, BootFlushes, BootSteps, Sound, Consistent, IsMissing, Files,
      TypeOK, Volumes, Contents, Written, Other, FormatBackup, BootGoes, saveVars
  <2>5. BootKeeps'
    BY <1>5, <2>1, <2>3 DEF BootKeeps, BootFlushes, BootSteps, BootGoesOn, PublicIsThere, Newer, Sound,
      OnFlash, Consistent, IsMissing, Files, TypeOK, Contents, Volumes, Versions, Written,
      Other, FormatBackup, BootGoes, saveVars
  <2>6. RunKeeps'
    BY <1>5 DEF RunKeeps, Owners, FormatBackup, BootGoes, saveVars
  <2>. QED BY <2>4, <2>5, <2>6
<1>6. CASE DefaultBackup
  <2>1. Default \in Contents
    BY DEF TypeOK, Contents, Volumes
  <2>2. WriteVolume("backup", Default)
    BY <1>6 DEF DefaultBackup
  <2>3. Written("backup", Default)
    BY <2>1, <2>2, VolumeWritten DEF Volumes
  <2>4. PublicIsThere'
    BY <1>6, <2>1, <2>3 DEF PublicIsThere, BootFlushes, BootSteps, Sound, Consistent, IsMissing, Files,
      TypeOK, Volumes, Contents, Written, Other, DefaultBackup, BootGoes, saveVars
  <2>5. BootKeeps'
    BY <1>6, <2>1, <2>3 DEF BootKeeps, BootFlushes, BootSteps, BootGoesOn, PublicIsThere, Newer, Sound,
      OnFlash, Consistent, IsMissing, Files, TypeOK, Contents, Volumes, Versions, Written,
      Other, DefaultBackup, BootGoes, saveVars
  <2>6. RunKeeps'
    BY <1>6 DEF RunKeeps, Owners, DefaultBackup, BootGoes, saveVars
  <2>. QED BY <2>4, <2>5, <2>6
<1>7. CASE Restore
  <2>1. files["backup"] \in Contents
    BY DEF TypeOK, Contents, Volumes
  <2>2. ~IsMissing("backup")
    BY <1>7 DEF Restore, BootFlushes, BootSteps, Sound, Consistent, IsMissing, Files
  <2>3. WriteVolume("public", files["backup"])
    BY <1>7, <2>2 DEF Restore
  <2>4. Written("public", files["backup"])
    BY <2>1, <2>3, VolumeWritten DEF Volumes
  <2>5. PublicIsThere'
    BY <1>7, <2>1, <2>4 DEF PublicIsThere, BootFlushes, BootSteps, Sound, Consistent, IsMissing, Files,
      TypeOK, Volumes, Contents, Written, Other, Restore, saveVars, diskVars
  <2>6. BootKeeps'
    BY <1>7, <2>1, <2>4 DEF BootKeeps, BootFlushes, BootSteps, BootGoesOn, PublicIsThere, Newer, Sound,
      OnFlash, Consistent, IsMissing, Files, TypeOK, Contents, Volumes, Versions, Written,
      Other, Restore, saveVars, diskVars
  <2>7. RunKeeps'
    BY <1>7 DEF RunKeeps, Owners, Restore, saveVars, diskVars
  <2>. QED BY <2>5, <2>6, <2>7
<1>8. CASE RestoreFlush
  <2>1. PublicIsThere'
    BY <1>8 DEF PublicIsThere, BootFlushes, BootSteps, Sound, Consistent, IsMissing, Files, TypeOK, Volumes,
      Contents, RestoreFlush, BootGoes, Flush, saveVars
  <2>2. BootKeeps'
    BY <1>8 DEF BootKeeps, BootFlushes, BootSteps, BootGoesOn, PublicIsThere, Newer, Sound, OnFlash,
      Consistent, IsMissing, Files, TypeOK, Contents, Volumes, Versions, RestoreFlush, BootGoes,
      Flush, saveVars
  <2>3. RunKeeps'
    BY <1>8 DEF RunKeeps, Owners, RestoreFlush, BootGoes, Flush, saveVars
  <2>. QED BY <2>1, <2>2, <2>3
<1>9. CASE CheckCrc
  <2>1. PublicIsThere'
    BY <1>9 DEF PublicIsThere, BootFlushes, BootSteps, Sound, Consistent, IsMissing, Files, TypeOK, Volumes,
      Contents, CheckCrc, saveVars, diskVars
  <2>2. BootKeeps'
    BY <1>9 DEF BootKeeps, BootFlushes, BootSteps, BootGoesOn, PublicIsThere, Newer, Sound, OnFlash,
      Consistent, IsMissing, Files, TypeOK, Contents, Volumes, Versions, CheckCrc, saveVars,
      diskVars
  <2>3. RunKeeps'
    BY <1>9 DEF RunKeeps, Owners, CheckCrc, saveVars, diskVars
  <2>. QED BY <2>1, <2>2, <2>3
<1>10. CASE Sync
  <2>1. files["public"] \in Contents
    BY DEF TypeOK, Contents, Volumes
  <2>2. ~IsMissing("public") /\ ~IsMissing("backup")
    BY <1>10 DEF Sync, BootFlushes, BootSteps, Sound, Consistent, IsMissing, Files
  <2>3. \/ WriteVolume("backup", files["public"])
        \/ files["backup"] = files["public"] /\ UNCHANGED diskVars
    BY <1>10, <2>2 DEF Sync, diskVars
  <2>4. \/ Written("backup", files["public"])
        \/ files["backup"] = files["public"] /\ UNCHANGED diskVars
    BY <2>1, <2>3, VolumeWritten DEF Volumes
  <2>5. PublicIsThere'
    BY <1>10, <2>1, <2>4 DEF PublicIsThere, BootFlushes, BootSteps, Sound, Consistent, IsMissing, Files,
      TypeOK, Volumes, Contents, Written, Other, diskVars, Sync, saveVars
  <2>6. BootKeeps'
    BY <1>10, <2>1, <2>4 DEF BootKeeps, BootFlushes, BootSteps, BootGoesOn, PublicIsThere, Newer, Sound,
      OnFlash, Consistent, IsMissing, Files, TypeOK, Contents, Volumes, Versions, Written,
      Other, diskVars, Sync, saveVars
  <2>7. RunKeeps'
    BY <1>10 DEF RunKeeps, Owners, Sync, saveVars, diskVars
  <2>. QED BY <2>5, <2>6, <2>7
<1>11. CASE SyncFlush
  <2>1. PublicIsThere'
    BY <1>11 DEF PublicIsThere, BootFlushes, BootSteps, Sound, Consistent, IsMissing, Files, TypeOK, Volumes,
      Contents, SyncFlush, BootGoes, Flush, saveVars, diskVars
  <2>2. BootKeeps'
    BY <1>11 DEF BootKeeps, BootFlushes, BootSteps, BootGoesOn, PublicIsThere, Newer, Sound, OnFlash,
      Consistent, IsMissing, Files, TypeOK, Contents, Volumes, Versions, SyncFlush, BootGoes,
      Flush, saveVars, diskVars
  <2>3. RunKeeps'
    BY <1>11 DEF RunKeeps, Owners, SyncFlush, BootGoes, Flush, saveVars, diskVars
  <2>. QED BY <2>1, <2>2, <2>3
<1>12. CASE ConfigInit
  <2>1. PublicIsThere'
    BY <1>12 DEF PublicIsThere, BootFlushes, BootSteps, Sound, Consistent, IsMissing, Files, TypeOK, Volumes,
      Contents, ConfigInit, BootGoes, diskVars
  <2>2. BootKeeps'
    BY <1>12 DEF BootKeeps, BootFlushes, BootSteps, BootGoesOn, PublicIsThere, Newer, Sound, OnFlash,
      Consistent, IsMissing, Files, TypeOK, Contents, Volumes, Versions, ConfigInit, BootGoes,
      diskVars
  <2>3. RunKeeps'
    BY <1>12 DEF RunKeeps, BootKeeps, BootFlushes, BootSteps, Young, Newer, Sound, OnFlash, Consistent,
      Files, TypeOK, Contents, Volumes, Versions, Owners, ConfigInit, BootGoes, diskVars
  <2>. QED BY <2>1, <2>2, <2>3
<1>. QED BY <1>1, <1>2, <1>3, <1>4, <1>5, <1>6, <1>7, <1>8, <1>9, <1>10, <1>11, <1>12

\* What a power loss leaves of a volume that was being written to: parts of
\* what was there and of what was written.
LEMMA LossMixes ==
  ASSUME EntriesLost = FALSE, TypeOK, NEW v \in Volumes, NEW fs \in AfterLoss(v)
  PROVE  /\ fs.ini \in {flash[v].ini, files[v].ini, Torn}
         /\ fs.crc \in {flash[v].crc, files[v].crc, Torn}
  BY DEF AfterLoss, TypeOK, Contents

\* After a power loss the boot finds nothing older than what was saved.
LEMMA PowerLossSaves ==
  ASSUME EntriesLost = FALSE, IInv, SInv, PowerLoss
  PROVE  SInv'
<1>. USE NoVersions
<1>. PICK p \in AfterLoss("public"), b \in AfterLoss("backup") :
       flash' = [public |-> p, backup |-> b]
  BY DEF PowerLoss
<1>1. /\ p \in Contents /\ ("public" \notin pending => p = flash["public"])
      /\ b \in Contents /\ ("backup" \notin pending => b = flash["backup"])
  BY LossLeaves DEF IInv, Base, Volumes
<1>2. /\ p.ini \in {flash["public"].ini, files["public"].ini, Torn}
      /\ p.crc \in {flash["public"].crc, files["public"].crc, Torn}
  BY LossMixes DEF IInv, Base, Volumes
<1>3. /\ flash'["public"] = p /\ flash'["backup"] = b
      /\ UNCHANGED saved /\ files' = flash' /\ sys' = "check"
  BY DEF PowerLoss
<1>4. p.ini # Missing /\ p.crc # Missing
  BY <1>2 DEF SInv, PublicIsThere, Files
<1>5. IF Consistent(p) THEN p.ini >= saved ELSE Newer(b)
  <2>1. CASE sys = "run"
    <3>1. Consistent(p) => p.ini >= saved
      BY <1>2, <2>1 DEF SInv, RunKeeps, Young, Files, Consistent
    <3>2. ~Consistent(p) => saver \notin {"backup", "flush_backup"}
      BY <1>1, <2>1 DEF IInv, RunSteps, Sound, OnFlash
    <3>3. saver \notin {"backup", "flush_backup"} => Newer(b)
      BY <1>1, <2>1 DEF IInv, SInv, RunSteps, RunKeeps, OnFlash
    <3>. QED BY <3>1, <3>2, <3>3
  <2>2. CASE sys # "run" /\ "public" \in pending
    <3>1. /\ sys = "flush_restore" /\ pending = {"public"}
          /\ files["public"] = files["backup"] /\ Newer(files["backup"]) /\ OnFlash("backup")
      BY <2>2 DEF IInv, Base, SInv, TypeOK, BootFlushes, BootSteps, BootGoesOn, BootKeeps, PublicIsThere
    <3>2. b = files["backup"]
      BY <1>1, <3>1 DEF OnFlash
    <3>3. Consistent(p) => p.ini >= saved
      BY <1>2, <2>2, <3>1 DEF SInv, BootKeeps, Consistent, Newer
    <3>. QED BY <3>1, <3>2, <3>3
  <2>3. CASE sys # "run" /\ "public" \notin pending
    <3>1. ~Consistent(p) => "backup" \notin pending
      BY <1>1, <2>3 DEF IInv, Base, TypeOK, BootFlushes, BootSteps, BootGoesOn, Sound, OnFlash
    <3>. QED BY <1>1, <2>3, <3>1 DEF SInv, BootKeeps
  <2>. QED BY <2>1, <2>2, <2>3
<1>. QED BY <1>3, <1>4, <1>5
         DEF SInv, PublicIsThere, BootKeeps, RunKeeps, Newer, Files

\* What was saved is kept at the start.
LEMMA InitSaves == Init => SInv
<1>. SUFFICES ASSUME Init PROVE SInv
  OBVIOUS
<1>1. PICK b \in {Default, Empty} : flash = [public |-> Default, backup |-> b]
  BY DEF Init
<1>2. flash["public"] = Default
  BY <1>1
<1>. QED BY <1>2, NoVersions
         DEF Init, SInv, PublicIsThere, BootKeeps, RunKeeps, Consistent, Default, Files, Versions

\* After an overlap what the board comes up with counts as saved.
LEMMA ComesUpSaved ==
  ASSUME Base, ConfigInit, overlapped
  PROVE  SInv'
<1>. USE NoVersions
<1>1. /\ sys = "init" /\ sys' = "run" /\ saver' = "none"
      /\ theConfig' = files["public"].ini /\ saved' = files["public"].ini
      /\ UNCHANGED <<files, flash>>
  BY DEF Base, Owners, ConfigInit, BootGoes
<1>2. /\ files = flash /\ Consistent(files["public"]) /\ files["backup"] = files["public"]
      /\ files["public"].ini \in Int
  BY <1>1 DEF Base, BootFlushes, Sound, Consistent, Versions
<1>. QED BY <1>1, <1>2
         DEF SInv, PublicIsThere, BootKeeps, RunKeeps, Young, Newer, Consistent, Files

SavedInv == ~overlapped => SInv

\* Every step keeps what was saved.
LEMMA NextSaves == EntriesLost = FALSE /\ Inv /\ SavedInv /\ [Next]_vars => SavedInv'
<1>. SUFFICES ASSUME EntriesLost = FALSE, Inv, SavedInv, [Next]_vars, ~overlapped' PROVE SInv'
  BY DEF SavedInv
<1>1. CASE ConfigInit /\ overlapped
  BY <1>1, ComesUpSaved DEF Inv
<1>2. CASE ~(ConfigInit /\ overlapped)
  <2>1. IInv /\ SInv
    BY <1>2, OverlapStays DEF Inv, SavedInv
  <2>2. ~ReadAgain /\ ~BootHasEnded
    BY <2>1 DEF IInv, Base, CacheSteps, BootGoesOn, ReadAgain, BootHasEnded
  <2>3. CASE UNCHANGED vars
    BY <2>1, <2>3 DEF SInv, PublicIsThere, BootKeeps, RunKeeps, Young, Newer,
                      vars, saveVars, diskVars, bootVars
  <2>. QED BY <2>1, <2>2, <2>3, UiSaves, SaverSaves, BootSaves, PowerLossSaves
           DEF Next, UiReturns, Saver, Boot
<1>. QED BY <1>1, <1>2

\* ConfigSaveTask, BackupInit, BackupRestore, BackupSyncFile: settings that
\* were flushed are never lost for older ones, when a power loss leaves the
\* directory entries and no flush has run beside a write since the board came up.
THEOREM SavedStays ==
  ASSUME EntriesLost = FALSE
  PROVE  Spec => []SavedIsRecoverable
<1>1. Spec => []SavedInv
  <2>1. Init => SavedInv
    BY InitSaves DEF SavedInv
  <2>. QED BY <2>1, NextSaves, Invariant, PTL DEF Spec
<1>2. Inv /\ SavedInv => SavedIsRecoverable
  <2>. SUFFICES ASSUME IInv, SInv PROVE Recoverable >= saved
    BY DEF SavedIsRecoverable, Inv, SavedInv
  <2>1. Consistent(flash["public"]) => flash["public"].ini >= saved
    BY DEF SInv, BootKeeps, RunKeeps, Young, Files, Consistent
  <2>2. ~Consistent(flash["public"]) => Newer(flash["backup"])
    <3>1. CASE sys = "run"
      BY <3>1 DEF IInv, SInv, RunSteps, RunKeeps, Sound, OnFlash
    <3>2. CASE sys # "run"
      BY <3>2 DEF SInv, BootKeeps
    <3>. QED BY <3>1, <3>2
  <2>. QED BY <2>1, <2>2 DEF Recoverable, Newer
<1>. QED BY <1>1, <1>2, Invariant, PTL
-----------------------------------------------------------------------------
(***************************************************************************)
(* Saves that are made one after the other write the settings in memory.   *)
(***************************************************************************)
OneAfterTheOther == ~SaveWhileSaving /\ "open" \notin Faults

\* From the copy of the settings to the end of the task the file, or what
\* will be written to it, holds what is in memory.
MemoryIsWritten ==
    sys = "run" /\ cache # "lost" =>
      /\ ui = "save" => saver = "none"
      /\ saver = "none" /\ ui # "save" => files["public"].ini = theConfig
      /\ saver \in {"open", "dump"} => dict = theConfig
      /\ saver \in {"lock", "crc", "flush", "backup", "flush_backup", "unlock", "test", "stop"} =>
           files["public"].ini = theConfig

\* ConfigSave and ConfigUpdateCrc.
LEMMA UiMemory ==
  ASSUME OneAfterTheOther, Base, MemoryIsWritten,
         ChangeSetting \/ StartSave \/ UpdateCrcLock \/ UpdateCrc \/
           UpdateCrcFlush
  PROVE  MemoryIsWritten'
<1>. USE CrcSet DEF Base, MemoryIsWritten, TypeOK, Volumes
<1>1. CASE ChangeSetting
  BY <1>1 DEF ChangeSetting, diskVars, bootVars, OneAfterTheOther, Owners
<1>2. CASE StartSave
  BY <1>2 DEF StartSave, diskVars, bootVars, Owners
<1>3. CASE UpdateCrcLock
  BY <1>3 DEF UpdateCrcLock, diskVars, bootVars
<1>4. CASE UpdateCrc
  BY <1>4 DEF UpdateCrc, diskVars, bootVars, WriteVolume, Owners
<1>5. CASE UpdateCrcFlush
  BY <1>5 DEF UpdateCrcFlush, Flush, FlushBeside, bootVars
<1>. QED BY <1>1, <1>2, <1>3, <1>4, <1>5

\* ConfigSaveTask.
LEMMA SaverMemory ==
  ASSUME OneAfterTheOther, Base, MemoryIsWritten,
         BeginSave \/ TakeCount \/ SetIni \/ OpenIni \/ OpenIniFails \/ DumpIni
           \/ LockConfig \/ SaveCrc \/ SavedFlush \/ BackupSave \/ BackupFlush \/ UnlockConfig
           \/ TestCount \/ StopSaving
  PROVE  MemoryIsWritten'
<1>. USE CrcSet DEF Base, MemoryIsWritten, TypeOK, Volumes
<1>1. CASE TakeCount
  BY <1>1 DEF TakeCount, SaverGoes, diskVars, bootVars
<1>2. CASE SetIni
  BY <1>2 DEF SetIni, SaverGoes, diskVars, bootVars
<1>3. CASE OpenIni
  BY <1>3 DEF OpenIni, SaverGoes, bootVars, WriteVolume
<1>4. CASE OpenIniFails
  BY <1>4 DEF OpenIniFails, SaverGoes, diskVars, bootVars, OneAfterTheOther
<1>5. CASE DumpIni
  BY <1>5 DEF DumpIni, SaverGoes, bootVars, WriteVolume
<1>6. CASE LockConfig
  BY <1>6 DEF LockConfig, SaverGoes, diskVars, bootVars
<1>7. CASE SaveCrc
  BY <1>7 DEF SaveCrc, SaverGoes, bootVars, WriteVolume
<1>8. CASE SavedFlush
  BY <1>8 DEF SavedFlush, SaverGoes, Flush, bootVars
<1>9. CASE BackupSave
  BY <1>9 DEF BackupSave, SaverGoes, bootVars, WriteVolume
<1>10. CASE BackupFlush
  BY <1>10 DEF BackupFlush, SaverGoes, Flush, bootVars
<1>11. CASE UnlockConfig
  BY <1>11 DEF UnlockConfig, SaverGoes, diskVars, bootVars
<1>12. CASE TestCount
  BY <1>12 DEF TestCount, diskVars, bootVars
<1>13. CASE StopSaving
  BY <1>13 DEF StopSaving, SaverGoes, diskVars, bootVars
<1>14. CASE BeginSave
  BY <1>14 DEF BeginSave, SaverGoes, diskVars, bootVars
<1>. QED BY <1>1, <1>2, <1>3, <1>4, <1>5, <1>6, <1>7, <1>8, <1>9, <1>10, <1>11, <1>12, <1>13, <1>14

\* Every step keeps them together.
LEMMA NextMemory ==
  OneAfterTheOther /\ Base /\ MemoryIsWritten /\ [Next]_vars => MemoryIsWritten'
<1>1. ASSUME Base, MemoryIsWritten, Boot PROVE MemoryIsWritten'
  <2>1. CASE ConfigInit
    BY <1>1, <2>1 DEF ConfigInit, BootGoes, MemoryIsWritten, Base, Owners, diskVars
  <2>2. CASE ~ConfigInit
    <3>1. sys # "run"
      BY <1>1, <2>2 DEF Boot, BootGoes, CheckIntact, FormatPublic, DefaultPublic, DefaultFlush,
        FormatBackup, DefaultBackup, Restore, RestoreFlush, CheckCrc, Sync, SyncFlush
    <3>2. sys' # "run"
      BY <1>1, <2>2 DEF Boot, BootGoes, CheckIntact, FormatPublic, DefaultPublic, DefaultFlush,
        FormatBackup, DefaultBackup, Restore, RestoreFlush, CheckCrc, Sync, SyncFlush
    <3>. QED BY <3>2 DEF MemoryIsWritten
  <2>. QED BY <2>1, <2>2
<1>2. ASSUME PowerLoss PROVE MemoryIsWritten'
  BY <1>2 DEF PowerLoss, MemoryIsWritten
<1>3. ASSUME MemoryIsWritten, UNCHANGED vars PROVE MemoryIsWritten'
  BY <1>3 DEF MemoryIsWritten, vars, saveVars, diskVars, bootVars
<1>4. ASSUME ReadAgain \/ BootHasEnded, MemoryIsWritten PROVE MemoryIsWritten'
  BY <1>3, <1>4 DEF ReadAgain, BootHasEnded, MemoryIsWritten
<1>. QED BY <1>1, <1>2, <1>3, <1>4, UiMemory, SaverMemory DEF Next, UiReturns, Saver

\* ConfigSave, ConfigSaveTask: when fopen does not fail and no setting changes
\* during a save, the file holds the settings in memory whenever nobody saves
\* and no page of it has been lost beside a flush.
THEOREM SavesReachTheFile ==
  ASSUME ~SaveWhileSaving, "open" \notin Faults
  PROVE  Spec => []SettingsAreSaved
<1>1. Init => MemoryIsWritten
  BY DEF Init, MemoryIsWritten
<1>2. OneAfterTheOther
  BY DEF OneAfterTheOther
<1>3. Spec => []MemoryIsWritten
  <2>1. Spec => []Base
    BY Invariant, PTL DEF Inv
  <2>. QED BY <1>1, <1>2, <2>1, NextMemory, PTL DEF Spec
<1>4. MemoryIsWritten => SettingsAreSaved
  BY DEF MemoryIsWritten, SettingsAreSaved
<1>. QED BY <1>3, <1>4, PTL
-----------------------------------------------------------------------------
(***************************************************************************)
(* The steps of a save and of a boot come to an end: what is left of       *)
(* SaveEnds and BoardComesUp without fairness.                             *)
(***************************************************************************)
\* cfgSavingCount is a bool: from the first ConfigSave on it is true.
CountIsUp ==
    /\ saver # "none" \/ ui = "save" => savingCount
    /\ saver \notin {"none", "start", "count"} => count

LEMMA InitCount == Init => CountIsUp
  BY DEF Init, CountIsUp

LEMMA NextCount == Base /\ CountIsUp /\ [Next]_vars => CountIsUp'
<1>. SUFFICES ASSUME Base, CountIsUp, [Next]_vars PROVE CountIsUp'
  OBVIOUS
<1>. USE DEF Base, TypeOK, Owners, CountIsUp, SaverGoes, saveVars
<1>1. CASE UiReturns
  <2>1. CASE StartSave
    BY <2>1 DEF StartSave
  <2>2. CASE UpdateCrc
    BY <2>2 DEF UpdateCrc
  <2>3. CASE UpdateCrcFlush
    BY <2>3 DEF UpdateCrcFlush
  <2>. QED BY <1>1, <2>1, <2>2, <2>3 DEF UiReturns
<1>2. CASE ChangeSetting
  BY <1>2 DEF ChangeSetting
<1>3. CASE UpdateCrcLock
  BY <1>3 DEF UpdateCrcLock
<1>4. CASE TakeCount
  BY <1>4 DEF TakeCount
<1>5. CASE Saver /\ ~TakeCount /\ ~BeginSave
  <2>1. saver \notin {"none", "start", "count"} /\ UNCHANGED <<savingCount, count, ui>>
    BY <1>5 DEF Saver, SetIni, OpenIni, OpenIniFails, DumpIni, LockConfig, SaveCrc, SavedFlush,
                BackupSave, BackupFlush, UnlockConfig, TestCount, StopSaving
  <2>. QED BY <2>1
<1>6. CASE Boot
  <2>1. UNCHANGED <<savingCount, ui, saver, count>>
    BY <1>6 DEF Boot, CheckIntact, FormatPublic, DefaultPublic, DefaultFlush, FormatBackup,
                DefaultBackup, Restore, RestoreFlush, CheckCrc, Sync, SyncFlush, ConfigInit
  <2>. QED BY <2>1
<1>7. CASE PowerLoss
  <2>1. ui' = "idle" /\ saver' = "none"
    BY <1>7 DEF PowerLoss
  <2>. QED BY <2>1
<1>8. CASE BeginSave
  BY <1>8 DEF BeginSave
<1>9. CASE ReadAgain
  BY <1>9 DEF ReadAgain
<1>10. CASE BootHasEnded \/ UNCHANGED vars
  BY <1>10 DEF BootHasEnded, vars
<1>. QED BY <1>1, <1>2, <1>3, <1>4, <1>5, <1>6, <1>7, <1>8, <1>9, <1>10 DEF Next

LEMMA CountInvariant == Spec => [](Base /\ CountIsUp)
<1>1. Spec => []Base
  BY Invariant, PTL DEF Inv
<1>. QED BY <1>1, InitCount, NextCount, PTL DEF Spec

\* How much of a save is left at each place of ConfigSaveTask.
SaveLeft(place) ==
    CASE place = "none" -> 0         [] place = "stop" -> 1    [] place = "test" -> 2
      [] place = "unlock" -> 3       [] place = "flush_backup" -> 4
      [] place = "backup" -> 5       [] place = "flush" -> 6   [] place = "crc" -> 7
      [] place = "lock" -> 8         [] place = "dump" -> 9    [] place = "open" -> 10
      [] place = "set" -> 11         [] place = "count" -> 12   [] place = "start" -> 13

\* A save that waits for cfgMutex waits for a task that has two steps to go
\* and needs nothing for them.
SaveGoesOn ==
    saver = "lock" => mutex = "none" \/ (mutex = "ui" /\ ui \in {"crc", "flush"})

\* Every step of a save brings it nearer to its end: the loop of
\* ConfigSaveTask is not repeated, also when settings change meanwhile.
SaveAdvances ==
    [][saver # "none" /\ saver' # saver => SaveLeft(saver') < SaveLeft(saver)]_vars

\* A boot is at one of these places, or starts again to check the CRC after
\* it has used up one of its retries.
BootPlace(place) ==
    CASE place = "run" -> 0          [] place = "init" -> 1    [] place = "flush_sync" -> 2
      [] place = "sync" -> 3         [] place = "crc_check" -> 4
      [] place = "flush_restore" -> 5
      [] place \in {"restore", "default_backup"} -> 6
      [] place = "flush_default" -> 7
      [] place = "default_public" -> 8
      [] place = "check" -> 9

BootLeft == 10 * (1 - retries) + BootPlace(sys)

\* Every step of the boot brings the board nearer to the running program,
\* and there are only so many.
BootLeftIsNumber == sys # "run" /\ ~overlapped => BootLeft \in 0 .. 19
BootAdvances ==
    [][sys # "run" /\ ~overlapped /\ losses' = losses /\ <<sys, retries>>' # <<sys, retries>>
          => BootLeft' < BootLeft]_vars

\* ConfigSaveTask: a save goes on and ends after one pass, whoever calls
\* ConfigSave or ConfigUpdateCrc meanwhile.
THEOREM SaveIsOnePass == Spec => []SaveGoesOn /\ SaveAdvances
<1>1. Base => SaveGoesOn
  BY DEF Base, TypeOK, Owners, SaveGoesOn
<1>2. Base /\ CountIsUp /\ [Next]_vars
        => [saver # "none" /\ saver' # saver => SaveLeft(saver') < SaveLeft(saver)]_vars
  <2>. SUFFICES ASSUME Base, CountIsUp, Next, saver # "none", saver' # saver
                PROVE  SaveLeft(saver') < SaveLeft(saver)
    OBVIOUS
  <2>1. CASE TestCount
    <3>1. count = TRUE /\ savingCount = TRUE
      BY <2>1 DEF Base, TypeOK, CountIsUp, TestCount
    <3>2. saver = "test" /\ saver' = "stop"
      BY <2>1, <3>1 DEF TestCount
    <3>. QED BY <3>2 DEF SaveLeft
  <2>2. CASE Saver /\ ~TestCount
    <3>1. <<saver, saver'>> \in
            {<<"start", "count">>, <<"count", "set">>, <<"set", "open">>, <<"open", "dump">>,
             <<"open", "lock">>, <<"dump", "lock">>, <<"lock", "crc">>, <<"crc", "flush">>, <<"flush", "backup">>,
             <<"backup", "flush_backup">>, <<"flush_backup", "unlock">>, <<"unlock", "test">>,
             <<"stop", "none">>}
      BY <2>2 DEF Saver, SaverGoes, BeginSave, TakeCount, SetIni, OpenIni, OpenIniFails, DumpIni, LockConfig,
                  SaveCrc, SavedFlush, BackupSave, BackupFlush, UnlockConfig, StopSaving
    <3>. QED BY <3>1 DEF SaveLeft
  <2>3. CASE PowerLoss
    <3>1. saver' = "none" /\ saver \in {"start", "count", "set", "open", "dump", "lock", "crc", "flush",
                                        "backup", "flush_backup", "unlock", "test", "stop"}
      BY <2>3 DEF PowerLoss, Base, TypeOK
    <3>. QED BY <3>1 DEF SaveLeft
  <2>4. CASE ChangeSetting \/ UpdateCrcLock \/ UiReturns
    <3>1. isSaving \/ saver = "start"
      BY DEF Base, Owners
    <3>. QED BY <2>4, <3>1 DEF ChangeSetting, UpdateCrcLock, UiReturns, StartSave, UpdateCrc, UpdateCrcFlush
  <2>5. CASE Boot
    BY <2>5 DEF Boot, CheckIntact, FormatPublic, DefaultPublic, DefaultFlush, FormatBackup, saveVars,
                DefaultBackup, Restore, RestoreFlush, CheckCrc, Sync, SyncFlush, ConfigInit
  <2>6. CASE ReadAgain \/ BootHasEnded
    BY <2>6 DEF ReadAgain, BootHasEnded, vars, saveVars
  <2>. QED BY <2>1, <2>2, <2>3, <2>4, <2>5, <2>6 DEF Next
<1>. QED BY <1>1, <1>2, CountInvariant, PTL DEF Spec, SaveAdvances

\* BackupInit, UpgradeInit and BackupSyncFile in SDL_main: the boot restores
\* once at most and cannot go in circles, whatever a power loss has left
\* when no flush had run beside a write.
THEOREM BootIsFinite == Spec => []BootLeftIsNumber /\ BootAdvances
<1>1. Inv => BootLeftIsNumber
  <2>. SUFFICES ASSUME IInv, sys # "run" PROVE BootLeft \in 0 .. 19
    BY DEF BootLeftIsNumber, Inv
  <2>1. BootPlace(sys) \in 0 .. 9
    BY DEF IInv, Base, TypeOK, BootGoesOn, BootPlace
  <2>2. retries \in {0, 1}
    BY DEF IInv, Base, TypeOK, BootSteps
  <2>. QED BY <2>1, <2>2 DEF BootLeft
<1>2. Inv /\ Inv' /\ [Next]_vars
        => [sys # "run" /\ ~overlapped /\ losses' = losses /\ <<sys, retries>>' # <<sys, retries>>
              => BootLeft' < BootLeft]_vars
  <2>. SUFFICES ASSUME IInv, Inv', Next, sys # "run", ~overlapped, losses' = losses,
                       <<sys, retries>>' # <<sys, retries>>
                PROVE  BootLeft' < BootLeft
    BY DEF Inv
  <2>1. ~PowerLoss
    BY DEF PowerLoss, IInv, Base, TypeOK
  <2>2. ~ChangeSetting /\ ~UpdateCrcLock /\ ~UiReturns /\ ~Saver /\ ~ReadAgain /\ ~BootHasEnded
    BY DEF IInv, Base, Owners, CacheSteps, ReadAgain, BootHasEnded, vars, bootVars, ChangeSetting, UpdateCrcLock, UiReturns, StartSave, UpdateCrc, UpdateCrcFlush,
           Saver, SaverGoes, BeginSave, TakeCount, SetIni, OpenIni, OpenIniFails, DumpIni, LockConfig, SaveCrc,
           SavedFlush, BackupSave, BackupFlush, UnlockConfig, TestCount, StopSaving
  <2>3. Boot /\ retries \in {0, 1}
    BY <2>1, <2>2 DEF Next, IInv, Base, TypeOK, BootSteps
  <2>4. (BootSteps /\ BootGoesOn)'
    BY <2>3, BootKept DEF Boot
  <2>5. sys' \notin {"halted", "reset"} /\ (sys' # "run" => retries' <= 1)
    BY <2>4 DEF BootSteps, BootGoesOn
  <2>6. CASE CheckCrc /\ ~Consistent(files["public"])
    <3>1. sys = "crc_check" /\ sys' = "restore" /\ retries' = retries + 1
      BY <2>3, <2>5, <2>6 DEF CheckCrc
    <3>. QED BY <2>3, <3>1 DEF BootLeft, BootPlace
  <2>7. CASE ~(CheckCrc /\ ~Consistent(files["public"]))
    <3>1. UNCHANGED retries /\ <<sys, sys'>> \in
            {<<"check", "crc_check">>, <<"check", "default_public">>, <<"check", "default_backup">>,
             <<"default_public", "flush_default">>, <<"flush_default", "restore">>,
             <<"default_backup", "flush_restore">>, <<"restore", "flush_restore">>,
             <<"flush_restore", "crc_check">>, <<"crc_check", "sync">>, <<"sync", "flush_sync">>,
             <<"flush_sync", "init">>, <<"init", "run">>}
      BY <2>3, <2>5, <2>7
      DEF Boot, BootGoes, CheckIntact, FormatPublic, DefaultPublic, DefaultFlush, FormatBackup,
          DefaultBackup, Restore, RestoreFlush, CheckCrc, Sync, SyncFlush, ConfigInit
    <3>. QED BY <2>3, <3>1 DEF BootLeft, BootPlace
  <2>. QED BY <2>6, <2>7
<1>. QED BY <1>1, <1>2, Invariant, PTL DEF Spec, BootAdvances
=============================================================================
