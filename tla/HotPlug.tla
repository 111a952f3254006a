------------------------------ MODULE HotPlug ------------------------------
(***************************************************************************)
(* Memory cards and USB disks that come and go: itp_card.c (detect pin and *)
(* event queue), itp_usb_msc.c (the task that polls the slots of a USB     *)
(* reader), itp_drive_openrtos.c (the probe task), itp_fat.c (drive        *)
(* letters) and project/ctrlboard/storage.c (what the user interface       *)
(* believes is plugged in).                                                *)
(*                                                                         *)
(* A disk is a number of ITPDisk, and the letters are the rows of          *)
(* driveStatusTable that the internal flash leaves free.  A medium is its  *)
(* number of FAT partitions, 0 when there is none.                         *)
(***************************************************************************)
EXTENDS Integers, Sequences, FiniteSets

CONSTANTS
    FirstMsc,       \* ITP_DISK_MSC00, the first slot of the USB reader
    MSC_MAX_LUN,    \* slots of the reader that are polled
    Sds,            \* disks that are SD sockets with a detect pin
    Removable,      \* disks whose medium can be taken out
    Letters,        \* free rows of driveStatusTable
    MaxPartitions,  \* most partitions of a medium
    QUEUE_LEN,      \* itp_card.c: events that cardQueue holds
    NoLetter

Luns  == FirstMsc .. FirstMsc + MSC_MAX_LUN - 1
Disks == Luns \cup Sds

ASSUME DisksAssumption ==
    /\ FirstMsc \in Nat /\ MSC_MAX_LUN \in Nat \ {0}
    /\ Sds \subseteq Nat /\ IsFiniteSet(Sds) /\ Luns \cap Sds = {}
    /\ Removable \subseteq Disks
ASSUME LettersAssumption ==
    /\ Letters \subseteq Nat /\ IsFiniteSet(Letters) /\ Letters # {}
    /\ NoLetter \notin Letters
ASSUME SizesAssumption ==
    MaxPartitions \in Nat \ {0} /\ QUEUE_LEN \in Nat \ {0}

VARIABLES
    reader,            \* the reader is in the USB port
    media,             \* [Disks -> partitions of the medium in it]
    cardStatusTable,   \* [Disks -> inserted]
    cardQueue,         \* events on their way to the probe task
    dropped,           \* sockets whose latest event found the queue full
    host,              \* UsbHostDetectHandler: reader seen, or being let go
    lun,               \* position of MscPollHandler or MscStatusReset
    lunStatus,         \* MSC_LUN_IS_ACTIVE
    probe,             \* the probe task, and itpInit before it
    todo,              \* cards that DriveMount(NULL) has to look at
    driveDiskAvail,    \* [Disks -> BOOLEAN]
    refused,           \* history: cards that are in and could not be initialised
    drives,            \* driveStatusTable: [Letters -> disk and avail]
    storageTable,      \* the letters that the user interface knows of
    storageCurrType    \* usb, sd or internal

usbVars     == <<host, lun, lunStatus>>
cardVars    == <<cardStatusTable, dropped>>
driveVars   == <<probe, todo, driveDiskAvail, refused, drives>>
storageVars == <<storageTable, storageCurrType>>
vars == <<reader, media, cardVars, cardQueue, usbVars, driveVars, storageVars>>

NextLun == IF lun = FirstMsc + MSC_MAX_LUN - 1 THEN FirstMsc ELSE lun + 1

Present(d) == media[d] > 0 /\ (d \in Luns => reader)

Event(d, ins) == [disk |-> d, inserted |-> ins]
At(pc, d)     == [pc |-> pc, disk |-> d, parts |-> 0, part |-> 0]

Init ==
    /\ reader \in BOOLEAN
    /\ media \in [Disks -> 0 .. MaxPartitions]
    /\ \A d \in Disks \ Removable : media[d] > 0
    /\ dropped = {}
    /\ cardStatusTable = [d \in Disks |-> d \in Sds /\ media[d] > 0]
    /\ cardQueue = <<>>
    /\ host = "out"
    /\ lun = FirstMsc
    /\ lunStatus = [d \in Luns |-> FALSE]
    /\ probe = At("boot", FirstMsc)
    /\ todo = Disks
    /\ driveDiskAvail = [d \in Disks |-> FALSE]
    /\ refused = {}
    /\ drives = [s \in Letters |-> [disk |-> -1, avail |-> FALSE]]
    /\ storageTable = [usb |-> NoLetter, sd |-> NoLetter]
    /\ storageCurrType = "internal"
-----------------------------------------------------------------------------
(***************************************************************************)
(* The user.                                                               *)
(***************************************************************************)
PlugReader ==
    /\ reader' = ~reader
    /\ UNCHANGED <<media, cardVars, cardQueue, usbVars, driveVars, storageVars>>

OtherMedium(d) == {m \in 0 .. MaxPartitions : (m = 0) # (media[d] = 0)}

\* A slot of the reader; a USB stick is a reader whose medium stays.
ChangeMedium(d) ==
    /\ d \in Luns \cap Removable
    /\ \E m \in OtherMedium(d) : media' = [media EXCEPT ![d] = m]
    /\ UNCHANGED <<reader, cardVars, cardQueue, usbVars, driveVars, storageVars>>

\* An SD socket: either edge of its detect pin interrupts whatever task runs,
\* and CardIntrHandler cannot wait for room in the queue.
CardIntrHandler(d) ==
    /\ d \in Sds \cap Removable
    /\ \E m \in OtherMedium(d) :
          /\ media' = [media EXCEPT ![d] = m]
          /\ cardStatusTable' = [cardStatusTable EXCEPT ![d] = m > 0]
          /\ IF Len(cardQueue) < QUEUE_LEN
               THEN /\ cardQueue' = Append(cardQueue, Event(d, m > 0))
                    /\ dropped' = dropped \ {d}
               ELSE /\ dropped' = dropped \cup {d}
                    /\ UNCHANGED cardQueue
    /\ UNCHANGED <<reader, usbVars, driveVars, storageVars>>
-----------------------------------------------------------------------------
(***************************************************************************)
(* The USB host task and MscPollHandler.                                   *)
(***************************************************************************)
\* CardWrite puts the event into the table first; the send waits for room.
CardWrite(d, ins) ==
    /\ cardStatusTable' = [cardStatusTable EXCEPT ![d] = ins]
    /\ UNCHANGED dropped

MscConnect ==
    /\ host = "out" /\ reader
    /\ host' = "polling"
    /\ lun' = FirstMsc
    /\ UNCHANGED <<lunStatus, reader, media, cardVars, cardQueue, driveVars, storageVars>>

\* iteMscGetStatus of one slot; news go to cardQueue as they were seen then.
MscPoll ==
    /\ host = "polling"
    /\ IF Present(lun) # lunStatus[lun]
         THEN /\ CardWrite(lun, Present(lun))
              /\ host' = "sending"
              /\ UNCHANGED lun
         ELSE /\ lun' = NextLun
              /\ UNCHANGED <<host, cardVars>>
    /\ UNCHANGED <<lunStatus, reader, media, cardQueue, driveVars, storageVars>>

\* Slip: the send does not wait for room in the queue.
MscSendNoRoom ==
    /\ host = "sending"
    /\ cardQueue' = Append(cardQueue, Event(lun, ~lunStatus[lun]))
    /\ lunStatus' = [lunStatus EXCEPT ![lun] = ~lunStatus[lun]]
    /\ lun' = NextLun
    /\ host' = "polling"
    /\ UNCHANGED <<reader, media, cardVars, driveVars, storageVars>>

MscSend ==
    /\ host = "sending"
    /\ Len(cardQueue) < QUEUE_LEN
    /\ cardQueue' = Append(cardQueue, Event(lun, ~lunStatus[lun]))
    /\ lunStatus' = [lunStatus EXCEPT ![lun] = ~lunStatus[lun]]
    /\ lun' = NextLun
    /\ host' = "polling"
    /\ UNCHANGED <<reader, media, cardVars, driveVars, storageVars>>

\* MscDisconnect joins the poll task, which is then not in a send.
MscDisconnect ==
    /\ host = "polling" /\ ~reader
    /\ host' = "reset"
    /\ lun' = FirstMsc
    /\ UNCHANGED <<lunStatus, reader, media, cardVars, cardQueue, driveVars, storageVars>>

NextReset == /\ lunStatus' = [lunStatus EXCEPT ![lun] = FALSE]
             /\ lun' = NextLun
             /\ host' = IF NextLun = FirstMsc THEN "out" ELSE "reset"

\* Slip: the active slots are forgotten without an event.
MscStatusResetSilent ==
    /\ host = "reset"
    /\ NextReset
    /\ UNCHANGED <<reader, media, cardVars, cardQueue, driveVars, storageVars>>

MscStatusReset ==
    /\ host = "reset"
    /\ IF lunStatus[lun]
         THEN /\ CardWrite(lun, FALSE)
              /\ host' = "resetting"
              /\ UNCHANGED <<lun, lunStatus>>
         ELSE NextReset /\ UNCHANGED cardVars
    /\ UNCHANGED <<reader, media, cardQueue, driveVars, storageVars>>

MscResetSend ==
    /\ host = "resetting"
    /\ Len(cardQueue) < QUEUE_LEN
    /\ cardQueue' = Append(cardQueue, Event(lun, FALSE))
    /\ NextReset
    /\ UNCHANGED <<reader, media, cardVars, driveVars, storageVars>>
-----------------------------------------------------------------------------
(***************************************************************************)
(* The probe task.  DriveMount(NULL) at boot runs before it, in the order  *)
(* of the card table.                                                      *)
(***************************************************************************)
Unchanged == UNCHANGED <<reader, media, cardVars, usbVars, storageVars>>

BootProbe ==
    /\ probe.pc = "boot"
    /\ \/ todo = {} /\ probe' = At("read", FirstMsc) /\ UNCHANGED todo
       \/ \E d \in todo :
             /\ \A e \in todo : d <= e
             /\ todo' = todo \ {d}
             /\ probe' = IF cardStatusTable[d] THEN At("mount", d) ELSE probe
    /\ UNCHANGED <<driveDiskAvail, refused, drives, cardQueue>> /\ Unchanged

Booted == todo = {} /\ probe.pc # "boot"
Done   == At(IF todo = {} THEN "read" ELSE "boot", FirstMsc)

DriveProbe ==
    /\ probe.pc = "read"
    /\ cardQueue # <<>>
    /\ cardQueue' = Tail(cardQueue)
    /\ probe' = At(IF Head(cardQueue).inserted THEN "mount" ELSE "unmount",
                 Head(cardQueue).disk)
    /\ UNCHANGED <<todo, driveDiskAvail, refused, drives>> /\ Unchanged

\* Slip: a disk that is mounted already is mounted again.
MustMountAlways(d) == d \in Sds => Present(d)
MustMount(d) ==
    /\ ~driveDiskAvail[d]
    /\ d \in Sds => Present(d)

\* DriveMountCard, then f_getpartition.
DriveMountCard ==
    /\ probe.pc = "mount"
    /\ IF MustMount(probe.disk)
         THEN /\ probe' = [pc |-> "letters", disk |-> probe.disk, part |-> 0,
                           parts |-> IF Present(probe.disk) THEN media[probe.disk] ELSE 0]
              /\ refused' = refused \ {probe.disk}
         ELSE /\ probe' = Done
              /\ UNCHANGED refused
    /\ UNCHANGED <<todo, driveDiskAvail, drives, cardQueue>> /\ Unchanged

\* DriveMountCard of an SD card that is in and that iteSdInitializeEx cannot
\* initialise: the event is spent, and there is no other until the card is out.
CardRefused ==
    /\ probe.pc = "mount"
    /\ probe.disk \in Sds /\ MustMount(probe.disk)
    /\ probe' = Done
    /\ refused' = refused \cup {probe.disk}
    /\ UNCHANGED <<todo, driveDiskAvail, drives, cardQueue>> /\ Unchanged

Free       == {s \in Letters : ~drives[s].avail}
LettersOf(d) == {s \in Letters : drives[s].avail /\ drives[s].disk = d}

\* f_initvolumepartition gives partition probe.part + 1 the first free letter.
VolumeInits == /\ Free # {}
               /\ Present(probe.disk)
               /\ probe.part < media[probe.disk]

FatMountPartition ==
    /\ probe.pc = "letters"
    /\ probe.part < probe.parts
    /\ VolumeInits
    /\ \E s \in Free :
          /\ \A r \in Free : s <= r
          /\ drives' = [drives EXCEPT ![s] = [disk |-> probe.disk, avail |-> TRUE]]
    /\ probe' = [probe EXCEPT !.part = probe.part + 1]
    /\ UNCHANGED <<todo, driveDiskAvail, refused, cardQueue>> /\ Unchanged

\* Every partition has a letter, or the mount failed: DriveMountDisk drops
\* the result, and DriveMountCard takes the disk for mounted.
DriveMounted ==
    /\ probe.pc = "letters"
    /\ probe.part < probe.parts => ~VolumeInits
    /\ driveDiskAvail' = [driveDiskAvail EXCEPT ![probe.disk] = TRUE]
    /\ probe' = Done
    /\ UNCHANGED <<todo, refused, drives, cardQueue>> /\ Unchanged

\* DriveUnmountCard and FatUnmount, one letter a step.
FatUnmountLetter ==
    /\ probe.pc = "unmount"
    /\ driveDiskAvail[probe.disk]
    /\ \E s \in LettersOf(probe.disk) :
          /\ \A r \in LettersOf(probe.disk) : s <= r
          /\ drives' = [drives EXCEPT ![s] = [disk |-> probe.disk, avail |-> FALSE]]
    /\ UNCHANGED <<probe, todo, driveDiskAvail, refused, cardQueue>> /\ Unchanged

\* Slip: driveDiskAvail is reset while the disk still has letters.
DriveUnmountedEarly ==
    /\ probe.pc = "unmount"
    /\ driveDiskAvail' = [driveDiskAvail EXCEPT ![probe.disk] = FALSE]
    /\ refused' = refused \ {probe.disk}
    /\ probe' = Done
    /\ UNCHANGED <<todo, drives, cardQueue>> /\ Unchanged

DriveUnmounted ==
    /\ probe.pc = "unmount"
    /\ driveDiskAvail[probe.disk] => LettersOf(probe.disk) = {}
    /\ driveDiskAvail' = [driveDiskAvail EXCEPT ![probe.disk] = FALSE]
    /\ refused' = refused \ {probe.disk}
    /\ probe' = Done
    /\ UNCHANGED <<todo, drives, cardQueue>> /\ Unchanged
-----------------------------------------------------------------------------
(***************************************************************************)
(* StorageCheck: the user interface looks at the letters in turn and       *)
(* reports the first news; a letter that changes behind it is left for the *)
(* next call.                                                              *)
(***************************************************************************)
Kind(d)  == IF d \in Luns THEN "usb" ELSE "sd"
Other(k) == IF k = "usb" THEN "sd" ELSE "usb"

StorageInserted(s) ==
    LET k == Kind(drives[s].disk)
    IN  /\ drives[s].avail
        /\ storageTable[k] = NoLetter
        /\ storageTable' = [storageTable EXCEPT ![k] = s]
        /\ storageCurrType' = IF storageCurrType = "internal" THEN k ELSE storageCurrType

\* Slip: the current storage stays at the disk that is gone.
StorageRemovedKeepsType(s) ==
    LET k == Kind(drives[s].disk)
    IN  /\ ~drives[s].avail
        /\ storageTable[k] = s
        /\ storageTable' = [storageTable EXCEPT ![k] = NoLetter]
        /\ UNCHANGED storageCurrType

StorageRemoved(s) ==
    LET k == Kind(drives[s].disk)
    IN  /\ ~drives[s].avail
        /\ storageTable[k] = s
        /\ storageTable' = [storageTable EXCEPT ![k] = NoLetter]
        /\ storageCurrType' =
              IF storageCurrType # k THEN storageCurrType
              ELSE IF storageTable[Other(k)] # NoLetter THEN Other(k) ELSE "internal"

\* Slip: only insertions are looked for.
HasNewsInserted(s) ==
    /\ drives[s].disk \in Disks
    /\ drives[s].avail
    /\ storageTable[Kind(drives[s].disk)] = NoLetter

HasNews(s) ==
    /\ drives[s].disk \in Disks
    /\ LET k == Kind(drives[s].disk)
       IN  IF drives[s].avail THEN storageTable[k] = NoLetter ELSE storageTable[k] = s

StorageCheck ==
    /\ Booted
    /\ \E s \in Letters :
          /\ HasNews(s)
          /\ \A r \in Letters : HasNews(r) => s <= r
          /\ StorageInserted(s) \/ StorageRemoved(s)
    /\ UNCHANGED <<reader, media, cardVars, cardQueue, usbVars, driveVars>>
-----------------------------------------------------------------------------
ProbeTask == \/ BootProbe \/ DriveProbe \/ DriveMountCard \/ CardRefused
             \/ FatMountPartition \/ DriveMounted \/ FatUnmountLetter \/ DriveUnmounted

UsbTask == \/ MscConnect \/ MscPoll \/ MscSend
           \/ MscDisconnect \/ MscStatusReset \/ MscResetSend

Next ==
    \/ PlugReader
    \/ \E d \in Disks : ChangeMedium(d)
    \/ \E d \in Sds : CardIntrHandler(d)
    \/ UsbTask \/ ProbeTask \/ StorageCheck

Spec == Init /\ [][Next]_vars

\* Tasks run.  SF for what a send or a poll in between disables:
\* MscDisconnect has set msc_task_stop and waits in a join, and a task that
\* waits for room in the queue gets its turn.
Fairness == /\ WF_vars(MscConnect \/ MscPoll \/ MscStatusReset)
            /\ SF_vars(MscDisconnect)
            /\ SF_vars(MscSend \/ MscResetSend)
            /\ WF_vars(ProbeTask)
            /\ WF_vars(StorageCheck)

FairSpec == Spec /\ Fairness
-----------------------------------------------------------------------------
(***************************************************************************)
(* Properties.                                                             *)
(***************************************************************************)
\* Every variable has its type.
TypeOK ==
    /\ reader \in BOOLEAN
    /\ media \in [Disks -> 0 .. MaxPartitions]
    /\ dropped \subseteq Sds
    /\ cardStatusTable \in [Disks -> BOOLEAN]
    /\ cardQueue \in Seq([disk : Disks, inserted : BOOLEAN])
    /\ Len(cardQueue) <= QUEUE_LEN
    /\ host \in {"out", "polling", "sending", "reset", "resetting"}
    /\ lun \in Luns
    /\ lunStatus \in [Luns -> BOOLEAN]
    /\ probe \in [pc : {"boot", "read", "mount", "letters", "unmount"}, disk : Disks,
                  parts : 0 .. MaxPartitions, part : 0 .. MaxPartitions]
    /\ todo \subseteq Disks
    /\ driveDiskAvail \in [Disks -> BOOLEAN]
    /\ refused \subseteq Sds
    /\ drives \in [Letters -> [disk : Disks \cup {-1}, avail : BOOLEAN]]
    /\ storageTable \in [usb : Letters \cup {NoLetter}, sd : Letters \cup {NoLetter}]
    /\ storageCurrType \in {"usb", "sd", "internal"}

\* A letter belongs to a disk that the probe task counts as mounted, or is
\* mounting: no letter is left behind that no removal will ever take away.
LettersAreOwned ==
    \A s \in Letters : drives[s].avail =>
        \/ driveDiskAvail[drives[s].disk]
        \/ probe.pc = "letters" /\ probe.disk = drives[s].disk

\* However many events report the same card (the boot looks at the table
\* while the event is queued), its partitions get their letters once.
MountedOnce == \A d \in Disks : Cardinality(LettersOf(d)) <= MaxPartitions

\* The current storage is one that the user interface has a letter for.
CurrTypeHasLetter ==
    storageCurrType # "internal" => storageTable[storageCurrType] # NoLetter

\* What the driver of disk d has last found, told or not.
Known(d) == IF d \in Luns THEN lunStatus[d] ELSE media[d] > 0

\* News of disk d are on their way to the probe task, or it works on them.
OnItsWay(d) == \/ lun = d /\ host \in {"sending", "resetting"}
               \/ \E i \in 1 .. Len(cardQueue) : cardQueue[i].disk = d
               \/ probe.pc \in {"mount", "letters", "unmount"} /\ probe.disk = d
               \/ d \in todo

\* News of a card are only lost to a full queue: when nothing is on its way,
\* a disk is mounted exactly if its card is in, and has no letter if not.  The
\* exception is an SD card whose initialisation failed, which stays unmounted.
NoEventIsLost ==
    \A d \in Disks \ dropped :
        ~OnItsWay(d) => /\ driveDiskAvail[d] => Known(d)
                        /\ Known(d) => driveDiskAvail[d] \/ d \in refused
                        /\ LettersOf(d) # {} => Known(d)

\* A card that stays out loses its letters and one that stays in is mounted
\* or tried, but for an SD socket whose last event found the queue full and
\* for an SD card that was tried once and could not be initialised.
DrivesFollowCards ==
    \A d \in Disks :
        /\ <>[](~Present(d)) => <>[](LettersOf(d) = {} \/ d \in dropped)
        /\ <>[]Present(d) => <>[](driveDiskAvail[d] \/ d \in dropped \/ d \in refused)

\* When the user leaves the cards alone, the user interface comes to know of
\* a disk of each kind exactly when one has a letter, but for a removal that
\* is masked by a disk of the other kind that has taken the letter since.
StorageFollowsDrives ==
    (\A d \in Disks : <>[]Present(d) \/ <>[](~Present(d))) =>
        <>[](\A k \in {"usb", "sd"} :
               IF \E s \in Letters : drives[s].avail /\ Kind(drives[s].disk) = k
                 THEN storageTable[k] # NoLetter
                 ELSE storageTable[k] = NoLetter \/ Kind(drives[storageTable[k]].disk) # k)
=============================================================================
