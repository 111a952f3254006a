----------------------------- MODULE ConfigStore -----------------------------
(***************************************************************************)
(* The settings of the control board across power losses: config.c saves   *)
(* them, backup.c keeps a second copy on the backup volume, and the boot   *)
(* in main.c repairs one copy from the other.                              *)
(*                                                                         *)
(* A volume holds two files that change: ctrlboard.ini (a version of the   *)
(* settings) and ite_crc.dat (the CRC of a version).  Writes go to the     *)
(* NOR cache; a flush makes them durable, and a power loss before it       *)
(* leaves any mixture of old, new and damaged files on that volume.  The   *)
(* flush of ConfigUpdateCrc may run beside a write of the ini file, which  *)
(* is outside cfgMutex: then it may mark pages clean that it has missed.   *)
(*                                                                         *)
(* Built with CFG_CHECK_FILES_CRC_ON_BOOTING and a NOR cache.              *)
(***************************************************************************)
EXTENDS Integers

CONSTANTS MaxVersion,       \* bound: how often the settings change
          MaxPowerLosses,   \* bound: how often the power fails
          Torn,             \* a damaged file
          Missing,          \* a file that does not open
          PartialCrc,       \* the CRC of a damaged file
          EntriesLost,      \* may a power loss also lose directory entries?
          SaveWhileSaving,  \* may ConfigSave be called during a save?
          Faults            \* "open": fopen of the ini file may fail

ASSUME ConstantsAssumption ==
    /\ MaxVersion \in Nat /\ MaxPowerLosses \in Nat
    /\ {Torn, Missing, PartialCrc} \cap Int = {}
    /\ Torn # Missing /\ Torn # PartialCrc /\ Missing # PartialCrc
    /\ EntriesLost \in BOOLEAN /\ SaveWhileSaving \in BOOLEAN
    /\ Faults \subseteq {"open"}

Versions == 0 .. MaxVersion
Volumes  == {"public", "backup"}
Files    == {"ini", "crc"}

VARIABLES
    theConfig,    \* the settings in memory
    savingCount,  \* cfgSavingCount, a bool: it saturates at TRUE
    isSaving,     \* cfgIsSaving
    mutex,        \* owner of cfgMutex: "none", "saver" or "ui"
    ui,           \* where the task that calls ConfigSave, ConfigUpdateCrc is
    saver,        \* where ConfigSaveTask is
    count,        \* its local savingCount
    dict,         \* cfgIni: the settings that are being written
    files,        \* the files of each volume as the program reads them
    flash,        \* the files of each volume as they are in the flash
    pending,      \* volumes written to since the last flush
    cache,        \* "sound"; "beside": a write runs beside the flush under way;
                  \* "lost": pages of A: may be marked clean but not be in the flash
    sys,          \* where the boot in main.c is; "run" when it is over
    retries,      \* restryCount of the boot
    losses,       \* power losses so far
    saved,        \* history: the settings of the last save that was flushed, or
                  \* that the board came up with after an overlap
    overlapped    \* history: since the board came up a flush has run beside a write

saveVars == <<theConfig, savingCount, isSaving, mutex, ui, saver, count, dict>>
diskVars == <<files, flash, pending, cache, overlapped>>
bootVars == <<sys, retries, losses>>
vars == <<saveVars, diskVars, bootVars, saved>>

Default == [ini |-> 0, crc |-> 0]           \* what A:/backup/B holds
Empty   == [ini |-> Missing, crc |-> Missing]

\* The board leaves the factory with the backup volume empty or filled.
Init ==
    /\ \E b \in {Default, Empty} : flash = [public |-> Default, backup |-> b]
    /\ files = flash
    /\ pending = {} /\ cache = "sound" /\ overlapped = FALSE
    /\ theConfig = 0 /\ savingCount = FALSE /\ isSaving = FALSE
    /\ mutex = "none" /\ ui = "idle" /\ saver = "none"
    /\ count = FALSE /\ dict = 0
    /\ sys = "check" /\ retries = 0 /\ losses = 0
    /\ saved = 0
-----------------------------------------------------------------------------
(***************************************************************************)
(* Files, volumes and the NOR cache.                                       *)
(***************************************************************************)
IsMissing(v) == \E f \in Files : files[v][f] = Missing

\* ugCheckFilesCrc succeeds: the record is sound and matches the settings.
Consistent(fs) == fs.ini \in Versions /\ fs.crc = fs.ini

\* ugSetFileCrc: nothing is recorded when a file does not open or the record
\* fails its own CRC.
SetFileCrc(fs) ==
    IF fs.crc \in {Missing, Torn} \/ fs.ini = Missing THEN fs
    ELSE [fs EXCEPT !.crc = IF fs.ini = Torn THEN PartialCrc ELSE fs.ini]

WriteVolume(v, fs) ==
    /\ files' = [files EXCEPT ![v] = fs]
    /\ pending' = pending \cup {v}
    /\ cache' = IF ui = "flush" /\ cache = "sound" THEN "beside" ELSE cache
    /\ UNCHANGED <<flash, overlapped>>

\* The ini file of A: in the flash, or read from it, when some of its pages have
\* been missed.  What else is on these pages is written before a flush starts.
MissedIni == {flash["public"].ini, files["public"].ini, Torn}

\* ioctl(ITP_DEVICE_NOR, ITP_IOCTL_FLUSH): a page that is marked clean is left out.
Flush ==
    /\ IF cache = "lost"
         THEN \E c \in MissedIni : flash' = [files EXCEPT !["public"].ini = c]
         ELSE flash' = files
    /\ pending' = {}
    /\ UNCHANGED <<files, cache, overlapped>>

\* The same while a page is being written: NorCacheFlush programs what it finds
\* in it and then clears its dirty flag, whatever came in meanwhile.
FlushBeside ==
    /\ \E c \in MissedIni : flash' = [files EXCEPT !["public"].ini = c]
    /\ pending' \in SUBSET {"public"}
    /\ cache' = "lost" /\ overlapped' = TRUE
    /\ UNCHANGED files

\* Such a page is replaced in the cache and read again from the flash.
ReadAgain ==
    /\ cache = "lost"
    /\ \E c \in MissedIni : files' = [files EXCEPT !["public"].ini = c]
    /\ UNCHANGED <<saveVars, bootVars, flash, pending, cache, overlapped, saved>>
-----------------------------------------------------------------------------
(***************************************************************************)
(* A task of the user interface.                                           *)
(***************************************************************************)
\* Assumed: a new ConfigSaveTask runs its first line before ConfigSave is called
\* again; otherwise there would be two.
AtMostOneSaver == saver # "start"

\* theConfig is changed, then ConfigSave is called.
ChangeSetting ==
    /\ sys = "run" /\ ui = "idle"
    /\ theConfig < MaxVersion
    /\ saver # "none" => SaveWhileSaving
    /\ AtMostOneSaver
    /\ theConfig' = theConfig + 1
    /\ savingCount' = TRUE
    /\ ui' = "save"
    /\ UNCHANGED <<isSaving, mutex, saver, count, dict, diskVars, bootVars, saved>>

\* if (cfgIsSaving) return; else a task is created.
StartSave ==
    /\ ui = "save"
    /\ ui' = "idle"
    /\ saver' = IF isSaving THEN saver ELSE "start"
    /\ UNCHANGED <<theConfig, savingCount, isSaving, mutex, count, dict, diskVars, bootVars, saved>>

UpdateCrcLockFree ==  \* slip: cfgMutex is not taken
    /\ sys = "run" /\ ui = "idle"
    /\ ui' = "crc"
    /\ UNCHANGED <<theConfig, savingCount, isSaving, mutex, saver, count, dict,
                   diskVars, bootVars, saved>>
UpdateCrcLock ==
    /\ sys = "run" /\ ui = "idle"
    /\ mutex = "none"
    /\ mutex' = "ui"
    /\ ui' = "crc"
    /\ UNCHANGED <<theConfig, savingCount, isSaving, saver, count, dict, diskVars, bootVars, saved>>

\* The ini file may be open for writing: then it does not open, or a part of
\* it is read.
UpdateCrc ==
    /\ ui = "crc"
    /\ \/ WriteVolume("public", SetFileCrc(files["public"]))
       \/ saver = "dump" /\ UNCHANGED diskVars
    /\ ui' = "flush"
    /\ UNCHANGED <<theConfig, savingCount, isSaving, mutex, saver, count, dict, bootVars, saved>>

UpdateCrcFlush ==
    /\ ui = "flush"
    /\ IF cache = "beside" \/ saver = "dump" THEN FlushBeside ELSE Flush
    /\ mutex' = "none"
    /\ ui' = "idle"
    /\ UNCHANGED <<theConfig, savingCount, isSaving, saver, count, dict, bootVars, saved>>
-----------------------------------------------------------------------------
(***************************************************************************)
(* ConfigSaveTask.                                                         *)
(***************************************************************************)
SaverGoes(from, to) == saver = from /\ saver' = to

BeginSave ==
    /\ SaverGoes("start", "count")
    /\ isSaving' = TRUE
    /\ UNCHANGED <<theConfig, savingCount, mutex, ui, count, dict, diskVars, bootVars, saved>>

TakeCount ==
    /\ SaverGoes("count", "set")
    /\ count' = savingCount
    /\ UNCHANGED <<theConfig, savingCount, isSaving, mutex, ui, dict, diskVars, bootVars, saved>>

SetIniForgotten ==  \* slip: a setting is not copied into the dictionary
    /\ SaverGoes("set", "open")
    /\ UNCHANGED <<theConfig, savingCount, isSaving, mutex, ui, count, dict, diskVars, bootVars, saved>>
SetIni ==
    /\ SaverGoes("set", "open")
    /\ dict' = theConfig
    /\ UNCHANGED <<theConfig, savingCount, isSaving, mutex, ui, count, diskVars, bootVars, saved>>

OpenIni ==
    /\ SaverGoes("open", "dump")
    /\ WriteVolume("public", [files["public"] EXCEPT !.ini = Torn])
    /\ UNCHANGED <<theConfig, savingCount, isSaving, mutex, ui, count, dict, bootVars, saved>>

OpenIniFails ==
    /\ SaverGoes("open", "lock")
    /\ "open" \in Faults
    /\ UNCHANGED <<theConfig, savingCount, isSaving, mutex, ui, count, dict, diskVars, bootVars, saved>>

DumpIni ==
    /\ SaverGoes("dump", "lock")
    /\ WriteVolume("public", [files["public"] EXCEPT !.ini = dict])
    /\ UNCHANGED <<theConfig, savingCount, isSaving, mutex, ui, count, dict, bootVars, saved>>

LockConfig ==
    /\ SaverGoes("lock", "crc")
    /\ mutex = "none"
    /\ mutex' = "saver"
    /\ UNCHANGED <<theConfig, savingCount, isSaving, ui, count, dict, diskVars, bootVars, saved>>

SaveCrc ==
    /\ SaverGoes("crc", "flush")
    /\ WriteVolume("public", SetFileCrc(files["public"]))
    /\ UNCHANGED <<theConfig, savingCount, isSaving, mutex, ui, count, dict, bootVars, saved>>

SavedFlushForgotten ==  \* slip: the backup is overwritten before the flush
    /\ SaverGoes("flush", "backup")
    /\ UNCHANGED <<theConfig, savingCount, isSaving, mutex, ui, count, dict, diskVars, bootVars, saved>>
SavedFlush ==
    /\ SaverGoes("flush", "backup")
    /\ Flush
    /\ saved' = IF files["public"].ini \in Versions THEN files["public"].ini ELSE saved
    /\ UNCHANGED <<theConfig, savingCount, isSaving, mutex, ui, count, dict, bootVars>>

\* BackupSave: _FileSyncFile from the public volume to the backup volume.
BackupSave ==
    /\ SaverGoes("backup", "flush_backup")
    /\ WriteVolume("backup", files["public"])
    /\ UNCHANGED <<theConfig, savingCount, isSaving, mutex, ui, count, dict, bootVars, saved>>

BackupFlush ==
    /\ SaverGoes("flush_backup", "unlock")
    /\ Flush
    /\ UNCHANGED <<theConfig, savingCount, isSaving, mutex, ui, count, dict, bootVars, saved>>

UnlockForgotten ==  \* slip: cfgMutex stays locked
    /\ SaverGoes("unlock", "test")
    /\ UNCHANGED <<theConfig, savingCount, isSaving, mutex, ui, count, dict, diskVars, bootVars, saved>>
UnlockConfig ==
    /\ SaverGoes("unlock", "test")
    /\ mutex' = "none"
    /\ UNCHANGED <<theConfig, savingCount, isSaving, ui, count, dict, diskVars, bootVars, saved>>

\* while (savingCount != cfgSavingCount)
TestCount ==
    /\ saver = "test"
    /\ saver' = IF count # savingCount THEN "count" ELSE "stop"
    /\ UNCHANGED <<theConfig, savingCount, isSaving, mutex, ui, count, dict, diskVars, bootVars, saved>>

StopSaving ==
    /\ SaverGoes("stop", "none")
    /\ isSaving' = FALSE
    /\ UNCHANGED <<theConfig, savingCount, mutex, ui, count, dict, diskVars, bootVars, saved>>
-----------------------------------------------------------------------------
(***************************************************************************)
(* The boot: BackupInit, then UpgradeInit with up to two BackupRestore,    *)
(* BackupSyncFile and ConfigInit.                                          *)
(***************************************************************************)
BootGoes(from, to) == sys = from /\ sys' = to

\* _CheckBackupStatus looks at both copies of one listed file after another;
\* the first file that does not open decides.
CheckIntact ==
    /\ BootGoes("check", "crc_check")
    /\ \A v \in Volumes : ~IsMissing(v)
    /\ UNCHANGED <<saveVars, diskVars, retries, losses, saved>>

\* NEED_RESTORE_FROM_BACKUP: format the public volume, then fill it with the
\* default files, flush, and copy the backup over them.
FormatPublic ==
    /\ BootGoes("check", "default_public")
    /\ IsMissing("public")
    /\ WriteVolume("public", Empty)
    /\ UNCHANGED <<saveVars, retries, losses, saved>>

DefaultPublic ==
    /\ BootGoes("default_public", "flush_default")
    /\ WriteVolume("public", Default)
    /\ UNCHANGED <<saveVars, retries, losses, saved>>

DefaultFlush ==
    /\ BootGoes("flush_default", "restore")
    /\ Flush
    /\ UNCHANGED <<saveVars, retries, losses, saved>>

\* NEED_RESTORE_DEFAULT: format the backup volume and fill it with the
\* default files.
FormatBackup ==
    /\ BootGoes("check", "default_backup")
    /\ \E f \in Files : files["backup"][f] = Missing /\ files["public"][f] # Missing
    /\ WriteVolume("backup", Empty)
    /\ UNCHANGED <<saveVars, retries, losses, saved>>

DefaultBackup ==
    /\ BootGoes("default_backup", "flush_restore")
    /\ WriteVolume("backup", Default)
    /\ UNCHANGED <<saveVars, retries, losses, saved>>

\* _FileSyncFile from the backup volume to the public volume; its assert(0)
\* stops the boot when a backup file does not open.
RestoreWrongWay ==  \* slip: source and destination are swapped
    /\ sys = "restore"
    /\ WriteVolume("backup", files["public"]) /\ sys' = "flush_restore"
    /\ UNCHANGED <<saveVars, retries, losses, saved>>
Restore ==
    /\ sys = "restore"
    /\ IF IsMissing("backup")
         THEN sys' = "halted" /\ UNCHANGED diskVars
         ELSE sys' = "flush_restore" /\ WriteVolume("public", files["backup"])
    /\ UNCHANGED <<saveVars, retries, losses, saved>>

RestoreFlush ==
    /\ BootGoes("flush_restore", "crc_check")
    /\ Flush
    /\ UNCHANGED <<saveVars, retries, losses, saved>>

\* UpgradeInit: on a wrong CRC restore from the backup, twice at most, then
\* leave with QUIT_RESET_FACTORY.
CheckCrcSkipped ==  \* slip: the result of UpgradeInit is not looked at
    /\ BootGoes("crc_check", "sync")
    /\ UNCHANGED <<saveVars, diskVars, retries, losses, saved>>
CheckCrc ==
    /\ sys = "crc_check"
    /\ IF Consistent(files["public"])
         THEN sys' = "sync" /\ UNCHANGED retries
         ELSE /\ retries' = retries + 1
              /\ sys' = IF retries' > 2 THEN "reset" ELSE "restore"
    /\ UNCHANGED <<saveVars, diskVars, losses, saved>>

\* BackupSyncFile: a file of the backup that differs is replaced.
Sync ==
    /\ sys = "sync"
    /\ IF IsMissing("public") \/ IsMissing("backup")
         THEN sys' = "halted" /\ UNCHANGED diskVars
         ELSE /\ sys' = "flush_sync"
              /\ IF files["backup"] = files["public"] THEN UNCHANGED diskVars
                 ELSE WriteVolume("backup", files["public"])
    /\ UNCHANGED <<saveVars, retries, losses, saved>>

SyncFlush ==
    /\ BootGoes("flush_sync", "init")
    /\ IF pending = {} THEN UNCHANGED diskVars ELSE Flush
    /\ UNCHANGED <<saveVars, retries, losses, saved>>

ConfigInit ==
    /\ BootGoes("init", "run")
    /\ theConfig' = files["public"].ini
    /\ dict' = theConfig'
    /\ saved' = IF overlapped THEN files["public"].ini ELSE saved
    /\ overlapped' = FALSE
    /\ UNCHANGED <<savingCount, isSaving, mutex, ui, saver, count, files, flash, pending, cache,
                   retries, losses>>
-----------------------------------------------------------------------------
\* What the flash may hold of volume v after a power loss.
AfterLoss(v) ==
    IF v \notin pending THEN {flash[v]}
    ELSE [ini : {flash[v].ini, files[v].ini, Torn} \cup (IF EntriesLost THEN {Missing} ELSE {}),
          crc : {flash[v].crc, files[v].crc, Torn} \cup (IF EntriesLost THEN {Missing} ELSE {})]

\* The power fails and comes back; memory is lost.  A program exit during a
\* save has one of these outcomes too.
PowerLoss ==
    /\ losses < MaxPowerLosses
    /\ losses' = losses + 1
    /\ \E p \in AfterLoss("public"), b \in AfterLoss("backup") :
          flash' = [public |-> p, backup |-> b]
    /\ files' = flash'
    /\ pending' = {} /\ cache' = "sound"
    /\ theConfig' = 0 /\ savingCount' = FALSE /\ isSaving' = FALSE
    /\ mutex' = "none" /\ ui' = "idle" /\ saver' = "none"
    /\ count' = FALSE /\ dict' = 0
    /\ sys' = "check" /\ retries' = 0
    /\ UNCHANGED <<saved, overlapped>>

\* assert(0) of backup.c has stopped the program, or it has left to be reset to
\* the factory state, which is not modelled.
BootHasEnded == sys \in {"halted", "reset"} /\ UNCHANGED vars

UiReturns == StartSave \/ UpdateCrc \/ UpdateCrcFlush
Saver == BeginSave \/ TakeCount \/ SetIni \/ OpenIni \/ OpenIniFails \/ DumpIni \/ LockConfig \/ SaveCrc
         \/ SavedFlush \/ BackupSave \/ BackupFlush \/ UnlockConfig \/ TestCount \/ StopSaving
Boot == CheckIntact \/ FormatPublic \/ DefaultPublic \/ DefaultFlush \/ FormatBackup
        \/ DefaultBackup \/ Restore \/ RestoreFlush \/ CheckCrc \/ Sync \/ SyncFlush \/ ConfigInit

Next == ChangeSetting \/ UpdateCrcLock \/ UiReturns \/ Saver \/ ReadAgain \/ Boot \/ BootHasEnded
        \/ PowerLoss

Spec == Init /\ [][Next]_vars

\* The tasks run on; cfgMutex goes to its waiters in turn.
Fairness == /\ WF_vars(Boot) /\ WF_vars(UiReturns)
            /\ WF_vars(Saver) /\ SF_vars(LockConfig)

FairSpec == Spec /\ Fairness
-----------------------------------------------------------------------------
(***************************************************************************)
(* Properties.                                                             *)
(***************************************************************************)
Contents == [ini : Versions \cup {Torn, Missing},
             crc : Versions \cup {Torn, Missing, PartialCrc}]

\* Every variable has its type.
TypeOK ==
    /\ theConfig \in Versions /\ dict \in Versions
    /\ savingCount \in BOOLEAN /\ isSaving \in BOOLEAN /\ count \in BOOLEAN
    /\ mutex \in {"none", "saver", "ui"}
    /\ ui \in {"idle", "save", "crc", "flush"}
    /\ saver \in {"none", "start", "count", "set", "open", "dump", "lock", "crc", "flush", "backup",
                  "flush_backup", "unlock", "test", "stop"}
    /\ files \in [Volumes -> Contents] /\ flash \in [Volumes -> Contents]
    /\ pending \subseteq Volumes
    /\ cache \in {"sound", "beside", "lost"} /\ overlapped \in BOOLEAN
    /\ sys \in {"check", "default_public", "flush_default", "default_backup", "restore",
                "flush_restore", "crc_check", "sync", "flush_sync", "init", "run",
                "halted", "reset"}
    /\ retries \in 0 .. 3
    /\ losses \in 0 .. MaxPowerLosses
    /\ saved \in Versions

\* At every instant one of the two copies in the flash is sound: a save never
\* has both volumes half written, whatever else takes cfgMutex.  This and what
\* rests on it holds until a flush of ConfigUpdateCrc has run beside a write of
\* the ini file, and again when the board has come up after it.
OneCopyIsGood == overlapped \/ Consistent(flash["public"]) \/ Consistent(flash["backup"])

\* The boot neither runs into an assert(0) of backup.c nor leaves with
\* QUIT_RESET_FACTORY, which would erase the settings.
BootNeverGivesUp == overlapped \/ sys \notin {"halted", "reset"}

\* The settings that a boot would find after a power loss at this instant.
Recoverable == IF Consistent(flash["public"]) THEN flash["public"].ini
               ELSE IF Consistent(flash["backup"]) THEN flash["backup"].ini
               ELSE -1

\* Settings that a save has flushed are never lost for older ones: neither by
\* a later save that is cut short, nor by the repairs of the boot.
SavedIsRecoverable == overlapped \/ Recoverable >= saved

\* "Saves the public part of configuration to file." (ctrlboard.h:123): when
\* nobody is saving, the file holds the settings in memory (unless a page of it
\* has been lost, see FlushBeside).
SettingsAreSaved ==
    cache # "lost" /\ sys = "run" /\ ui = "idle" /\ saver = "none" => files["public"].ini = theConfig

\* Every save comes to an end, unless the power fails.
SaveEnds == isSaving ~> ~isSaving

\* After a power loss the board comes up again, unless a flush had run beside a
\* write.
BoardComesUp == sys # "run" /\ ~overlapped ~> sys = "run"
=============================================================================
