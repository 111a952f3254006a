--------------------------- MODULE HotPlugProofs ---------------------------
(***************************************************************************)
(* Proofs about HotPlug for any sockets, slots, letters and queue length.  *)
(***************************************************************************)
EXTENDS HotPlug, FiniteSetTheorems, SequenceTheorems, TLAPS

\* While a disk is being mounted it is not counted as mounted yet, and it has
\* one letter for each partition done.
MountIsCounted ==
    probe.pc = "letters" =>
        /\ ~driveDiskAvail[probe.disk]
        /\ probe.part <= probe.parts
        /\ Cardinality(LettersOf(probe.disk)) = probe.part

\* The inductive invariant.
IInv == /\ TypeOK
        /\ LettersAreOwned
        /\ CurrTypeHasLetter
        /\ MountIsCounted
        /\ MountedOnce
-----------------------------------------------------------------------------
\* The slots of the reader are visited inside their range.
LEMMA LunFacts ==
    /\ FirstMsc \in Luns
    /\ Luns \subseteq Disks /\ Sds \subseteq Disks
    /\ \A d \in Disks : d \in Nat
    /\ lun \in Luns => NextLun \in Luns
BY DisksAssumption DEF Luns, Disks, NextLun

\* A position of the probe task at any disk has the task's type.
LEMMA AtType ==
    ASSUME NEW pc \in {"boot", "read", "mount", "letters", "unmount"}, NEW d \in Disks
    PROVE  At(pc, d) \in [pc : {"boot", "read", "mount", "letters", "unmount"}, disk : Disks,
                          parts : 0 .. MaxPartitions, part : 0 .. MaxPartitions]
BY SizesAssumption DEF At

\* After an event the probe task is back at the queue, or at the boot's cards.
LEMMA DoneType ==
    /\ Done \in [pc : {"boot", "read", "mount", "letters", "unmount"}, disk : Disks,
                  parts : 0 .. MaxPartitions, part : 0 .. MaxPartitions]
    /\ Done.pc \in {"boot", "read"}
BY AtType, LunFacts DEF Done, At
-----------------------------------------------------------------------------
\* What the user, the interrupt and the USB tasks do leaves the drives alone.
Outside ==
    \/ PlugReader
    \/ \E d \in Disks : ChangeMedium(d)
    \/ \E d \in Sds : CardIntrHandler(d)
    \/ UsbTask

LEMMA OutsideFrame ==
    ASSUME Outside
    PROVE  UNCHANGED <<driveVars, storageVars>>
BY DEF Outside, PlugReader, ChangeMedium, CardIntrHandler, UsbTask, MscConnect,
       MscPoll, MscSend, MscDisconnect, MscStatusReset, MscResetSend

\* The probe task leaves the user interface alone.
LEMMA ProbeFrame ==
    ASSUME ProbeTask
    PROVE  UNCHANGED storageVars
BY DEF ProbeTask, BootProbe, DriveProbe, DriveMountCard, CardRefused, FatMountPartition,
       DriveMounted, FatUnmountLetter, DriveUnmounted, Unchanged

\* StorageCheck only reads the drives.
LEMMA StorageFrame ==
    ASSUME StorageCheck
    PROVE  UNCHANGED driveVars
BY DEF StorageCheck

\* The three parts of the next-state relation.
LEMMA NextCases == Next <=> Outside \/ ProbeTask \/ StorageCheck
BY DEF Next, Outside
-----------------------------------------------------------------------------
\* The part of TypeOK that is about the cards and the USB tasks.
CardsTypeOK ==
    /\ reader \in BOOLEAN
    /\ media \in [Disks -> 0 .. MaxPartitions]
    /\ dropped \subseteq Sds
    /\ cardStatusTable \in [Disks -> BOOLEAN]
    /\ cardQueue \in Seq([disk : Disks, inserted : BOOLEAN])
    /\ Len(cardQueue) <= QUEUE_LEN
    /\ host \in {"out", "polling", "sending", "reset", "resetting"}
    /\ lun \in Luns
    /\ lunStatus \in [Luns -> BOOLEAN]

DrivesTypeOK ==
    /\ probe \in [pc : {"boot", "read", "mount", "letters", "unmount"}, disk : Disks,
                  parts : 0 .. MaxPartitions, part : 0 .. MaxPartitions]
    /\ todo \subseteq Disks
    /\ driveDiskAvail \in [Disks -> BOOLEAN]
    /\ refused \subseteq Sds
    /\ drives \in [Letters -> [disk : Disks \cup {-1}, avail : BOOLEAN]]

StorageTypeOK ==
    /\ storageTable \in [usb : Letters \cup {NoLetter}, sd : Letters \cup {NoLetter}]
    /\ storageCurrType \in {"usb", "sd", "internal"}

\* TypeOK is its three parts.
LEMMA TypeParts == TypeOK <=> CardsTypeOK /\ DrivesTypeOK /\ StorageTypeOK
BY DEF TypeOK, CardsTypeOK, DrivesTypeOK, StorageTypeOK

\* An event that finds room keeps the queue within its length.
LEMMA QueueGrows ==
    ASSUME CardsTypeOK, NEW d \in Disks, NEW b \in BOOLEAN, Len(cardQueue) < QUEUE_LEN
    PROVE  /\ Append(cardQueue, Event(d, b)) \in Seq([disk : Disks, inserted : BOOLEAN])
           /\ Len(Append(cardQueue, Event(d, b))) <= QUEUE_LEN
<1>1. Event(d, b) \in [disk : Disks, inserted : BOOLEAN]
    BY DEF Event
<1>2. cardQueue \in Seq([disk : Disks, inserted : BOOLEAN])
    BY DEF CardsTypeOK
<1>3. Append(cardQueue, Event(d, b)) \in Seq([disk : Disks, inserted : BOOLEAN])
    BY <1>1, <1>2
<1>4. Len(Append(cardQueue, Event(d, b))) = Len(cardQueue) + 1 /\ Len(cardQueue) \in Nat
    BY <1>1, <1>2
<1>5. QED
    BY <1>3, <1>4, SizesAssumption

\* The answer of a slot is a Boolean.
LEMMA PresentType == ASSUME CardsTypeOK, NEW d \in Disks PROVE Present(d) \in BOOLEAN
BY DEF CardsTypeOK, Present

\* What happens to the cards and in the USB tasks keeps their types.
LEMMA OutsideType == ASSUME CardsTypeOK, Outside PROVE CardsTypeOK'
<1> USE LunFacts, SizesAssumption DEF CardsTypeOK
<1>1. CASE PlugReader
    BY <1>1 DEF PlugReader, cardVars, usbVars
<1>2. CASE \E d \in Disks : ChangeMedium(d)
    BY <1>2 DEF ChangeMedium, OtherMedium, cardVars, usbVars
<1>3. ASSUME NEW d \in Sds, CardIntrHandler(d) PROVE CardsTypeOK'
    <2>1. PICK m \in OtherMedium(d) :
              /\ media' = [media EXCEPT ![d] = m]
              /\ cardStatusTable' = [cardStatusTable EXCEPT ![d] = m > 0]
              /\ IF Len(cardQueue) < QUEUE_LEN
                   THEN /\ cardQueue' = Append(cardQueue, Event(d, m > 0))
                        /\ dropped' = dropped \ {d}
                   ELSE /\ dropped' = dropped \cup {d}
                        /\ UNCHANGED cardQueue
        BY <1>3 DEF CardIntrHandler
    <2>2. m \in 0 .. MaxPartitions /\ (m > 0) \in BOOLEAN /\ d \in Disks
        BY DEF OtherMedium
    <2>3. media' \in [Disks -> 0 .. MaxPartitions] /\ cardStatusTable' \in [Disks -> BOOLEAN]
        BY <2>1, <2>2
    <2>4. dropped' \subseteq Sds
        BY <2>1
    <2>5. cardQueue' \in Seq([disk : Disks, inserted : BOOLEAN]) /\ Len(cardQueue') <= QUEUE_LEN
        <3>1. CASE Len(cardQueue) < QUEUE_LEN
            BY <3>1, <2>1, <2>2, QueueGrows
        <3>2. CASE ~(Len(cardQueue) < QUEUE_LEN)
            BY <3>2, <2>1
        <3>3. QED BY <3>1, <3>2
    <2>6. UNCHANGED <<reader, usbVars>>
        BY <1>3 DEF CardIntrHandler
    <2>7. QED BY <2>3, <2>4, <2>5, <2>6 DEF usbVars
<1>4. CASE UsbTask
    <2>1. lun \in Luns /\ lun \in Disks /\ FirstMsc \in Luns /\ NextLun \in Luns
        OBVIOUS
    <2>2. CASE MscConnect
        BY <2>1, <2>2 DEF MscConnect, cardVars
    <2>3. CASE MscPoll
        BY <2>1, <2>3, PresentType DEF MscPoll, CardWrite, cardVars
    <2>4. CASE MscSend
        BY <2>1, <2>4, QueueGrows DEF MscSend, cardVars
    <2>5. CASE MscDisconnect
        BY <2>1, <2>5 DEF MscDisconnect, cardVars
    <2>6. CASE MscStatusReset
        BY <2>1, <2>6 DEF MscStatusReset, CardWrite, NextReset, cardVars
    <2>7. CASE MscResetSend
        BY <2>1, <2>7, QueueGrows DEF MscResetSend, NextReset, cardVars
    <2>8. QED BY <1>4, <2>2, <2>3, <2>4, <2>5, <2>6, <2>7 DEF UsbTask
<1>5. QED BY <1>1, <1>2, <1>3, <1>4 DEF Outside

\* The probe task takes events off the queue and leaves the rest of the cards.
LEMMA ProbeCards == ASSUME CardsTypeOK, ProbeTask PROVE CardsTypeOK'
<1>1. Unchanged
    BY DEF ProbeTask, BootProbe, DriveProbe, DriveMountCard, CardRefused, FatMountPartition,
           DriveMounted, FatUnmountLetter, DriveUnmounted
<1>2. CASE DriveProbe
    <2>1. cardQueue \in Seq([disk : Disks, inserted : BOOLEAN]) /\ cardQueue # <<>>
        BY <1>2 DEF DriveProbe, CardsTypeOK
    <2>2. /\ Tail(cardQueue) \in Seq([disk : Disks, inserted : BOOLEAN])
          /\ Len(Tail(cardQueue)) = Len(cardQueue) - 1
          /\ Len(cardQueue) \in Nat
        BY <2>1
    <2>3. QED BY <1>1, <1>2, <2>2, SizesAssumption DEF DriveProbe, Unchanged, CardsTypeOK, cardVars, usbVars
<1>3. CASE ~DriveProbe
    <2>1. UNCHANGED cardQueue
        BY <1>3 DEF ProbeTask, BootProbe, DriveMountCard, CardRefused, FatMountPartition,
                    DriveMounted, FatUnmountLetter, DriveUnmounted
    <2>2. QED BY <1>1, <2>1 DEF Unchanged, CardsTypeOK, cardVars, usbVars
<1>4. QED BY <1>2, <1>3

\* The probe task keeps the types of its own state.
LEMMA ProbeType == ASSUME CardsTypeOK, DrivesTypeOK, ProbeTask PROVE DrivesTypeOK'
<1> USE DEF DrivesTypeOK
<1>1. CASE BootProbe
    BY <1>1, AtType, LunFacts DEF BootProbe
<1>2. CASE DriveProbe
    <2>1. Head(cardQueue) \in [disk : Disks, inserted : BOOLEAN]
        <3>1. cardQueue \in Seq([disk : Disks, inserted : BOOLEAN]) /\ cardQueue # <<>>
            BY <1>2 DEF DriveProbe, CardsTypeOK
        <3>2. QED BY <3>1, HeadTailProperties
    <2>2. QED BY <1>2, <2>1, AtType DEF DriveProbe
<1>3. CASE DriveMountCard
    BY <1>3, DoneType, SizesAssumption DEF DriveMountCard, CardsTypeOK
<1>4. CASE FatMountPartition
    <2>1. PICK s \in Letters : drives' = [drives EXCEPT ![s] = [disk |-> probe.disk, avail |-> TRUE]]
        BY <1>4 DEF FatMountPartition, Free
    <2>2. drives' \in [Letters -> [disk : Disks \cup {-1}, avail : BOOLEAN]]
        BY <2>1
    <2>3. probe' = [probe EXCEPT !.part = probe.part + 1] /\ probe.part < probe.parts
        BY <1>4 DEF FatMountPartition
    <2>4. probe.part + 1 \in 0 .. MaxPartitions
        BY <2>3, SizesAssumption
    <2>5. probe' \in [pc : {"boot", "read", "mount", "letters", "unmount"}, disk : Disks,
                      parts : 0 .. MaxPartitions, part : 0 .. MaxPartitions]
        BY <2>3, <2>4
    <2>6. QED BY <1>4, <2>2, <2>5 DEF FatMountPartition
<1>5. CASE DriveMounted
    BY <1>5, DoneType DEF DriveMounted
<1>6. CASE FatUnmountLetter
    <2>1. PICK s \in Letters : drives' = [drives EXCEPT ![s] = [disk |-> probe.disk, avail |-> FALSE]]
        BY <1>6 DEF FatUnmountLetter, LettersOf
    <2>2. drives' \in [Letters -> [disk : Disks \cup {-1}, avail : BOOLEAN]]
        BY <2>1
    <2>3. QED BY <1>6, <2>2 DEF FatUnmountLetter
<1>7. CASE DriveUnmounted
    BY <1>7, DoneType DEF DriveUnmounted
<1>8. CASE CardRefused
    BY <1>8, DoneType DEF CardRefused
<1>9. QED BY <1>1, <1>2, <1>3, <1>4, <1>5, <1>6, <1>7, <1>8 DEF ProbeTask

\* StorageCheck keeps the letters of the user interface, and the current
\* storage is one of them.
LEMMA StorageStep ==
    ASSUME StorageTypeOK, CurrTypeHasLetter, StorageCheck
    PROVE  StorageTypeOK' /\ CurrTypeHasLetter'
<1>1. PICK s \in Letters : StorageInserted(s) \/ StorageRemoved(s)
    BY DEF StorageCheck
<1> DEFINE k == Kind(drives[s].disk)
<1>2. k \in {"usb", "sd"} /\ Other(k) \in {"usb", "sd"} /\ Other(k) # k
    BY DEF Kind, Other
<1>3. /\ storageTable \in [usb : Letters \cup {NoLetter}, sd : Letters \cup {NoLetter}]
      /\ storageCurrType \in {"usb", "sd", "internal"}
      /\ storageCurrType # "internal" => storageTable[storageCurrType] # NoLetter
    BY DEF StorageTypeOK, CurrTypeHasLetter
<1> HIDE DEF k
<1>4. CASE StorageInserted(s)
    <2>1. /\ storageTable' = [storageTable EXCEPT ![k] = s]
          /\ storageCurrType' = IF storageCurrType = "internal" THEN k ELSE storageCurrType
        BY <1>4 DEF StorageInserted, k
    <2>2. QED BY <1>2, <1>3, <2>1, LettersAssumption DEF StorageTypeOK, CurrTypeHasLetter
<1>5. CASE StorageRemoved(s)
    <2>1. /\ storageTable' = [storageTable EXCEPT ![k] = NoLetter]
          /\ storageCurrType' =
                IF storageCurrType # k THEN storageCurrType
                ELSE IF storageTable[Other(k)] # NoLetter THEN Other(k) ELSE "internal"
        BY <1>5 DEF StorageRemoved, k
    <2>2. QED BY <1>2, <1>3, <2>1 DEF StorageTypeOK, CurrTypeHasLetter
<1>6. QED BY <1>1, <1>4, <1>5
-----------------------------------------------------------------------------
\* The letters of a disk are a finite set, whatever the letters are.
LEMMA LettersOfFinite == ASSUME NEW d PROVE IsFiniteSet(LettersOf(d))
BY FS_Subset, LettersAssumption DEF LettersOf

\* A disk that is not counted as mounted and is not being mounted has no letter.
LEMMA UnmountedHasNone ==
    ASSUME LettersAreOwned, NEW d, ~driveDiskAvail[d], probe.pc # "letters"
    PROVE  LettersOf(d) = {}
BY DEF LettersAreOwned, LettersOf

\* A letter given to the disk that is being mounted is one more of its letters
\* and of no other disk's.
LEMMA LetterGiven ==
    ASSUME DrivesTypeOK, NEW s \in Free, NEW p,
           drives' = [drives EXCEPT ![s] = [disk |-> p, avail |-> TRUE]]
    PROVE  /\ LettersOf(p)' = LettersOf(p) \cup {s}
           /\ s \notin LettersOf(p)
           /\ \A d \in Disks : d # p => LettersOf(d)' = LettersOf(d)
<1>1. s \in Letters /\ ~drives[s].avail
    BY DEF Free
<1>2. \A r \in Letters : drives'[r] = IF r = s THEN [disk |-> p, avail |-> TRUE] ELSE drives[r]
    BY <1>1 DEF DrivesTypeOK
<1>3. s \notin LettersOf(p)
    BY <1>1 DEF LettersOf
<1>4. LettersOf(p)' = LettersOf(p) \cup {s}
    BY <1>1, <1>2 DEF LettersOf
<1>5. ASSUME NEW d \in Disks, d # p PROVE LettersOf(d)' = LettersOf(d)
    BY <1>1, <1>2, <1>5 DEF LettersOf
<1>6. QED BY <1>3, <1>4, <1>5

\* The letter taken from a disk is gone, and no disk gets one.
LEMMA LetterTaken ==
    ASSUME DrivesTypeOK, NEW s \in Letters, NEW p,
           drives' = [drives EXCEPT ![s] = [disk |-> p, avail |-> FALSE]]
    PROVE  /\ \A d : LettersOf(d)' \subseteq LettersOf(d)
           /\ \A r \in Letters : drives'[r].avail => drives'[r] = drives[r] /\ drives[r].avail
<1>1. \A r \in Letters : drives'[r] = IF r = s THEN [disk |-> p, avail |-> FALSE] ELSE drives[r]
    BY DEF DrivesTypeOK
<1>2. \A r \in Letters : drives'[r].avail => drives'[r] = drives[r] /\ drives[r].avail
    BY <1>1
<1>3. QED BY <1>2 DEF LettersOf
-----------------------------------------------------------------------------
\* Mounting and unmounting leave no letter behind.
LEMMA LettersAreOwnedStep ==
    ASSUME DrivesTypeOK, LettersAreOwned, ProbeTask
    PROVE  LettersAreOwned'
<1> USE DEF LettersAreOwned
<1>1. CASE BootProbe
    BY <1>1 DEF BootProbe, At
<1>2. CASE DriveProbe
    BY <1>2 DEF DriveProbe
<1>3. CASE DriveMountCard
    BY <1>3 DEF DriveMountCard
<1>4. CASE FatMountPartition
    <2>1. PICK s \in Free : drives' = [drives EXCEPT ![s] = [disk |-> probe.disk, avail |-> TRUE]]
        BY <1>4 DEF FatMountPartition
    <2>2. /\ probe.pc = "letters"
          /\ probe'.pc = "letters" /\ probe'.disk = probe.disk
          /\ UNCHANGED driveDiskAvail
        BY <1>4 DEF FatMountPartition, DrivesTypeOK
    <2>3. \A r \in Letters : drives'[r] = IF r = s THEN [disk |-> probe.disk, avail |-> TRUE] ELSE drives[r]
        BY <2>1 DEF DrivesTypeOK
    <2>4. QED BY <2>2, <2>3
<1>5. CASE DriveMounted
    BY <1>5 DEF DriveMounted, DrivesTypeOK
<1>6. CASE FatUnmountLetter
    <2>1. PICK s \in Letters : drives' = [drives EXCEPT ![s] = [disk |-> probe.disk, avail |-> FALSE]]
        BY <1>6 DEF FatUnmountLetter, LettersOf
    <2>2. QED BY <1>6, <2>1, LetterTaken DEF FatUnmountLetter
<1>7. CASE DriveUnmounted
    <2>1. /\ probe.pc = "unmount"
          /\ driveDiskAvail[probe.disk] => LettersOf(probe.disk) = {}
          /\ driveDiskAvail' = [driveDiskAvail EXCEPT ![probe.disk] = FALSE]
          /\ UNCHANGED drives
        BY <1>7 DEF DriveUnmounted
    <2>2. LettersOf(probe.disk) = {}
        BY <2>1, UnmountedHasNone
    <2>3. ASSUME NEW s \in Letters, drives[s].avail
          PROVE  driveDiskAvail'[drives[s].disk]
        <3>1. driveDiskAvail[drives[s].disk] /\ drives[s].disk # probe.disk
            BY <2>1, <2>2, <2>3 DEF LettersOf
        <3>2. QED BY <2>1, <3>1 DEF DrivesTypeOK
    <2>4. QED BY <2>1, <2>3
<1>8. CASE CardRefused
    BY <1>8 DEF CardRefused
<1>9. QED BY <1>1, <1>2, <1>3, <1>4, <1>5, <1>6, <1>7, <1>8 DEF ProbeTask

\* A mount starts with no letter and counts each one it gives.
LEMMA MountIsCountedStep ==
    ASSUME DrivesTypeOK, CardsTypeOK, LettersAreOwned, MountIsCounted, ProbeTask
    PROVE  MountIsCounted'
<1>1. CASE BootProbe
    BY <1>1 DEF BootProbe, MountIsCounted, At
<1>2. CASE DriveProbe
    BY <1>2 DEF DriveProbe, MountIsCounted, At
<1>3. CASE DriveMountCard
    <2>1. CASE MustMount(probe.disk)
        <3>1. /\ probe.pc = "mount" /\ ~driveDiskAvail[probe.disk]
              /\ probe'.disk = probe.disk /\ probe'.part = 0 /\ probe'.parts \in Nat
              /\ UNCHANGED <<drives, driveDiskAvail>>
            BY <1>3, <2>1, SizesAssumption DEF DriveMountCard, MustMount, CardsTypeOK, DrivesTypeOK
        <3>2. LettersOf(probe.disk) = {}
            BY <3>1, UnmountedHasNone
        <3>3. LettersOf(probe.disk)' = {}
            BY <3>1, <3>2 DEF LettersOf
        <3>4. QED BY <3>1, <3>3, FS_EmptySet DEF MountIsCounted
    <2>2. CASE ~MustMount(probe.disk)
        BY <1>3, <2>2, DoneType DEF DriveMountCard, MountIsCounted
    <2>3. QED BY <2>1, <2>2
<1>4. CASE FatMountPartition
    <2> DEFINE p == probe.disk
    <2>1. PICK s \in Free : drives' = [drives EXCEPT ![s] = [disk |-> p, avail |-> TRUE]]
        BY <1>4 DEF FatMountPartition
    <2>2. /\ probe.pc = "letters" /\ probe.part < probe.parts
          /\ probe'.disk = p /\ probe'.parts = probe.parts /\ probe'.part = probe.part + 1
          /\ UNCHANGED driveDiskAvail
          /\ probe.part \in Nat /\ probe.parts \in Nat
        BY <1>4 DEF FatMountPartition, DrivesTypeOK
    <2>3. ~driveDiskAvail[p] /\ Cardinality(LettersOf(p)) = probe.part
        BY <2>2 DEF MountIsCounted
    <2>4. {r \in Letters : drives'[r].avail /\ drives'[r].disk = p} = LettersOf(p) \cup {s} /\ s \notin LettersOf(p)
        BY <2>1, LetterGiven DEF LettersOf
    <2>5. Cardinality(LettersOf(p) \cup {s}) = probe.part + 1
        BY <2>3, <2>4, LettersOfFinite, FS_AddElement
    <2>6. LettersOf(probe.disk)' = LettersOf(p) \cup {s}
        BY <2>2, <2>4 DEF LettersOf
    <2>7. QED BY <2>2, <2>3, <2>5, <2>6 DEF MountIsCounted
<1>5. CASE DriveMounted
    BY <1>5, DoneType DEF DriveMounted, MountIsCounted
<1>6. CASE FatUnmountLetter
    BY <1>6 DEF FatUnmountLetter, MountIsCounted
<1>7. CASE DriveUnmounted
    BY <1>7, DoneType DEF DriveUnmounted, MountIsCounted
<1>8. CASE CardRefused
    BY <1>8, DoneType DEF CardRefused, MountIsCounted
<1>9. QED BY <1>1, <1>2, <1>3, <1>4, <1>5, <1>6, <1>7, <1>8 DEF ProbeTask

\* A disk gets no more letters than its partitions.
LEMMA MountedOnceStep ==
    ASSUME DrivesTypeOK, MountIsCounted, MountedOnce, ProbeTask
    PROVE  MountedOnce'
<1>1. CASE FatMountPartition
    <2>0. PICK p : p = probe.disk
        OBVIOUS
    <2>1. PICK s \in Free : drives' = [drives EXCEPT ![s] = [disk |-> p, avail |-> TRUE]]
        BY <1>1, <2>0 DEF FatMountPartition
    <2>2. /\ probe.pc = "letters" /\ probe.part < probe.parts
          /\ probe.part \in Nat /\ probe.parts \in 0 .. MaxPartitions
        BY <1>1, SizesAssumption DEF FatMountPartition, DrivesTypeOK
    <2>3. Cardinality(LettersOf(p)) = probe.part
        BY <2>0, <2>2 DEF MountIsCounted
    <2>4. /\ LettersOf(p)' = LettersOf(p) \cup {s} /\ s \notin LettersOf(p)
          /\ \A d \in Disks : d # p => LettersOf(d)' = LettersOf(d)
        BY <2>1, LetterGiven
    <2>5. Cardinality(LettersOf(p) \cup {s}) = probe.part + 1
        BY <2>3, <2>4, LettersOfFinite, FS_AddElement
    <2>6. QED BY <2>2, <2>4, <2>5, SizesAssumption DEF MountedOnce
<1>2. CASE FatUnmountLetter
    <2>1. PICK s \in Letters : drives' = [drives EXCEPT ![s] = [disk |-> probe.disk, avail |-> FALSE]]
        BY <1>2 DEF FatUnmountLetter, LettersOf
    <2>2. \A d : LettersOf(d)' \subseteq LettersOf(d)
        BY <2>1, LetterTaken
    <2>3. \A d : /\ Cardinality(LettersOf(d)') <= Cardinality(LettersOf(d))
                 /\ Cardinality(LettersOf(d)') \in Nat /\ Cardinality(LettersOf(d)) \in Nat
        BY <2>2, LettersOfFinite, FS_Subset, FS_CardinalityType
    <2>4. QED BY <2>3, SizesAssumption DEF MountedOnce
<1>3. CASE ~FatMountPartition /\ ~FatUnmountLetter
    <2>1. UNCHANGED drives
        BY <1>3 DEF ProbeTask, BootProbe, DriveProbe, DriveMountCard, CardRefused, DriveMounted, DriveUnmounted
    <2>2. QED BY <2>1 DEF MountedOnce, LettersOf
<1>4. QED BY <1>1, <1>2, <1>3
-----------------------------------------------------------------------------
\* At power on no disk is mounted and no letter is given.
LEMMA InitIInv == ASSUME Init PROVE IInv
<1>1. CardsTypeOK
    <2>1. cardQueue \in Seq([disk : Disks, inserted : BOOLEAN]) /\ Len(cardQueue) <= QUEUE_LEN
        BY SizesAssumption DEF Init
    <2>2. QED BY <2>1, LunFacts DEF Init, CardsTypeOK
<1>2. DrivesTypeOK
    BY AtType, LunFacts DEF Init, DrivesTypeOK
<1>3. StorageTypeOK
    BY DEF Init, StorageTypeOK
<1>4. LettersAreOwned /\ CurrTypeHasLetter /\ MountIsCounted
    BY DEF Init, LettersAreOwned, CurrTypeHasLetter, MountIsCounted, At
<1>5. \A d : LettersOf(d) = {}
    BY DEF Init, LettersOf
<1>6. MountedOnce
    BY <1>5, FS_EmptySet, SizesAssumption DEF MountedOnce
<1>7. QED BY <1>1, <1>2, <1>3, <1>4, <1>6, TypeParts DEF IInv

\* Every step keeps the invariant.
LEMMA NextIInv == ASSUME IInv, [Next]_vars PROVE IInv'
<1>1. CardsTypeOK /\ DrivesTypeOK /\ StorageTypeOK
    BY TypeParts DEF IInv
<1>2. LettersAreOwned /\ CurrTypeHasLetter /\ MountIsCounted /\ MountedOnce
    BY DEF IInv
<1>3. ASSUME CardsTypeOK', UNCHANGED driveVars, StorageTypeOK', CurrTypeHasLetter'
      PROVE  IInv'
    <2>1. DrivesTypeOK' /\ LettersAreOwned' /\ MountIsCounted' /\ MountedOnce'
        BY <1>1, <1>2, <1>3 DEF driveVars, DrivesTypeOK, LettersAreOwned, MountIsCounted,
                                MountedOnce, LettersOf
    <2>2. TypeOK'
        BY <1>3, <2>1 DEF TypeOK, CardsTypeOK, DrivesTypeOK, StorageTypeOK
    <2>3. QED BY <1>3, <2>1, <2>2 DEF IInv
<1>4. ASSUME UNCHANGED storageVars PROVE StorageTypeOK' /\ CurrTypeHasLetter'
    BY <1>1, <1>2, <1>4 DEF storageVars, StorageTypeOK, CurrTypeHasLetter
<1>5. CASE Outside
    BY <1>1, <1>3, <1>4, <1>5, OutsideType, OutsideFrame
<1>6. CASE ProbeTask
    <2>1. StorageTypeOK' /\ CurrTypeHasLetter'
        BY <1>4, <1>6, ProbeFrame
    <2>2. CardsTypeOK' /\ DrivesTypeOK'
        BY <1>1, <1>6, ProbeCards, ProbeType
    <2>3. LettersAreOwned' /\ MountIsCounted' /\ MountedOnce'
        BY <1>1, <1>2, <1>6, LettersAreOwnedStep, MountIsCountedStep, MountedOnceStep
    <2>4. TypeOK'
        BY <2>1, <2>2 DEF TypeOK, CardsTypeOK, DrivesTypeOK, StorageTypeOK
    <2>5. QED BY <2>1, <2>3, <2>4 DEF IInv
<1>7. CASE StorageCheck
    <2>1. CardsTypeOK'
        BY <1>1, <1>7 DEF StorageCheck, CardsTypeOK, cardVars, usbVars
    <2>2. QED BY <1>1, <1>2, <1>3, <1>7, <2>1, StorageStep, StorageFrame
<1>8. CASE UNCHANGED vars
    <2>1. CardsTypeOK' /\ UNCHANGED driveVars /\ UNCHANGED storageVars
        BY <1>1, <1>8 DEF vars, driveVars, storageVars, CardsTypeOK, cardVars, usbVars
    <2>2. QED BY <1>3, <1>4, <2>1
<1>9. QED BY <1>5, <1>6, <1>7, <1>8, NextCases

\* The invariant holds of every behaviour.
LEMMA IInvHolds == Spec => []IInv
<1>1. Init => IInv
    BY InitIInv
<1>2. IInv /\ [Next]_vars => IInv'
    BY NextIInv
<1>3. QED BY <1>1, <1>2, PTL DEF Spec

\* The types of the state of the cards, the tasks and the user interface.
THEOREM TypeCorrect == Spec => []TypeOK
<1>1. IInv => TypeOK
    BY DEF IInv
<1>2. QED BY <1>1, IInvHolds, PTL

\* FatMount gives a letter to a disk that is being mounted, DriveUnmountCard
\* counts a disk as unmounted once it has none left: no letter is lost.
THEOREM LettersOwned == Spec => []LettersAreOwned
<1>1. IInv => LettersAreOwned
    BY DEF IInv
<1>2. QED BY <1>1, IInvHolds, PTL

\* However many sockets, letters and queued events there are, and whichever
\* events report a card again, DriveMountCard mounts its partitions once.
THEOREM MountsOnce == Spec => []MountedOnce
<1>1. IInv => MountedOnce
    BY DEF IInv
<1>2. QED BY <1>1, IInvHolds, PTL

\* StorageCheck never leaves the current storage at a disk without a letter.
THEOREM CurrentIsKnown == Spec => []CurrTypeHasLetter
<1>1. IInv => CurrTypeHasLetter
    BY DEF IInv
<1>2. QED BY <1>1, IInvHolds, PTL
-----------------------------------------------------------------------------
(***************************************************************************)
(* No event is lost: from the detect pin or the poll of a slot, through    *)
(* cardStatusTable at boot and cardQueue after it, to driveDiskAvail.      *)
(***************************************************************************)
Sending(d)    == lun = d /\ host \in {"sending", "resetting"}
ProbeAt(d)    == probe.pc \in {"mount", "letters", "unmount"} /\ probe.disk = d
NoneQueued(d) == \A i \in 1 .. Len(cardQueue) : cardQueue[i].disk # d

\* The last event of disk d in the queue says b.
LastSays(d, b) ==
    \E i \in 1 .. Len(cardQueue) :
        /\ cardQueue[i].disk = d /\ cardQueue[i].inserted = b
        /\ \A j \in 1 .. Len(cardQueue) : j > i => cardQueue[j].disk # d

\* cardStatusTable is ahead of lunStatus by the event that is being sent; a reset
\* sends removals only.
StatusIsTold ==
    /\ \A d \in Luns : cardStatusTable[d] = IF Sending(d) THEN ~lunStatus[d] ELSE lunStatus[d]
    /\ \A d \in Sds : cardStatusTable[d] = (media[d] > 0)
    /\ host = "resetting" => lunStatus[lun]

\* The boot mounts a disk after it has taken it off its list, and no event is
\* read before the list is empty.
BootInOrder ==
    /\ probe.pc = "read" => todo = {}
    /\ \A d \in todo : ~ProbeAt(d) /\ ~driveDiskAvail[d]

\* The last event of a disk is the news.
LastIsNews == \A d \in Disks \ dropped : NoneQueued(d) \/ LastSays(d, Known(d))

\* A disk is mounted exactly if its card is known to be in, or it is an SD card
\* that could not be initialised.
Served(d) == /\ driveDiskAvail[d] => Known(d)
             /\ Known(d) => driveDiskAvail[d] \/ d \in refused

\* With no event left, the probe task is doing or has done what they said.
ProbeFollows ==
    \A d \in Disks \ (dropped \cup todo) :
        NoneQueued(d) /\ ~Sending(d) =>
            IF ProbeAt(d) THEN Known(d) <=> probe.pc # "unmount"
                          ELSE Served(d)

EventInv == StatusIsTold /\ BootInOrder /\ LastIsNews /\ ProbeFollows

\* Steps that neither send nor take an event, and after which what is known
\* of a disk has changed only if its event was dropped.
LEMMA NothingSent ==
    ASSUME EventInv, UNCHANGED <<cardQueue, probe, todo, driveDiskAvail, refused>>,
           dropped \subseteq dropped',
           \A d \in Disks \ dropped' :
               Known(d)' = Known(d) /\ (Sending(d) => Sending(d)')
    PROVE  BootInOrder' /\ LastIsNews' /\ ProbeFollows'
<1>1. BootInOrder'
    BY DEF EventInv, BootInOrder, ProbeAt
<1>2. ASSUME NEW d \in Disks \ dropped' PROVE NoneQueued(d)' \/ LastSays(d, Known(d))'
    <2>1. Known(d)' = Known(d) /\ d \in Disks \ dropped
        BY <1>2
    <2>2. NoneQueued(d) \/ LastSays(d, Known(d))
        BY <2>1 DEF EventInv, LastIsNews
    <2>3. QED BY <2>1, <2>2 DEF NoneQueued, LastSays
<1>3. ASSUME NEW d \in Disks \ (dropped' \cup todo'), NoneQueued(d)', ~Sending(d)'
      PROVE  IF ProbeAt(d)' THEN Known(d)' <=> probe'.pc # "unmount"
                            ELSE Served(d)'
    <2>1. Known(d)' = Known(d) /\ ~Sending(d) /\ NoneQueued(d)
        BY <1>3 DEF NoneQueued
    <2>2. d \in Disks \ (dropped \cup todo)
        BY <1>3
    <2>3. IF ProbeAt(d) THEN Known(d) <=> probe.pc # "unmount" ELSE Served(d)
        BY <2>1, <2>2 DEF EventInv, ProbeFollows
    <2>4. ProbeAt(d)' = ProbeAt(d)
        BY DEF ProbeAt
    <2>5. QED BY <2>1, <2>3, <2>4 DEF Served
<1>4. QED BY <1>1, <1>2, <1>3 DEF LastIsNews, ProbeFollows

\* An event at the end of the queue.
LEMMA AppendFacts ==
    ASSUME CardsTypeOK, NEW c \in Disks, NEW b \in BOOLEAN,
           cardQueue' = Append(cardQueue, Event(c, b))
    PROVE  /\ ~NoneQueued(c)' /\ LastSays(c, b)'
           /\ \A d \in Disks \ {c} : /\ NoneQueued(d)' <=> NoneQueued(d)
                                     /\ \A v \in BOOLEAN : LastSays(d, v) => LastSays(d, v)'
<1> DEFINE n == Len(cardQueue)
<1>1. n \in Nat /\ cardQueue \in Seq([disk : Disks, inserted : BOOLEAN])
    BY DEF CardsTypeOK
<1>2. /\ Len(cardQueue') = n + 1
      /\ cardQueue'[n + 1] = Event(c, b)
      /\ \A i \in 1 .. n : cardQueue'[i] = cardQueue[i]
    BY <1>1 DEF Event
<1>3. cardQueue'[n + 1].disk = c /\ cardQueue'[n + 1].inserted = b
    BY <1>2 DEF Event
<1>4. n + 1 \in 1 .. Len(cardQueue') /\ \A j \in 1 .. Len(cardQueue') : j <= n + 1
    BY <1>1, <1>2
<1> HIDE DEF n
<1>5. ~NoneQueued(c)' /\ LastSays(c, b)'
    BY <1>1, <1>3, <1>4 DEF NoneQueued, LastSays
<1>6. ASSUME NEW d \in Disks \ {c}
      PROVE  /\ NoneQueued(d)' <=> NoneQueued(d)
             /\ \A v \in BOOLEAN : LastSays(d, v) => LastSays(d, v)'
    <2>1. \A i \in 1 .. n + 1 : i \in 1 .. n \/ i = n + 1
        BY <1>1
    <2>2. NoneQueued(d)' <=> NoneQueued(d)
        BY <1>1, <1>2, <1>3, <1>6, <2>1 DEF NoneQueued, n
    <2>3. ASSUME NEW v \in BOOLEAN, LastSays(d, v) PROVE LastSays(d, v)'
        <3>1. PICK i \in 1 .. n : /\ cardQueue[i].disk = d /\ cardQueue[i].inserted = v
                                  /\ \A j \in 1 .. n : j > i => cardQueue[j].disk # d
            BY <2>3 DEF LastSays, n
        <3>2. i \in 1 .. n + 1 /\ cardQueue'[i] = cardQueue[i]
            BY <1>1, <1>2
        <3>3. \A j \in 1 .. n + 1 : j > i => cardQueue'[j].disk # d
            BY <1>2, <1>3, <1>6, <2>1, <3>1
        <3>4. QED BY <1>2, <3>1, <3>2, <3>3 DEF LastSays
    <2>4. QED BY <2>2, <2>3
<1>7. QED BY <1>5, <1>6

\* What is known of a disk is a Boolean.
LEMMA KnownType == ASSUME CardsTypeOK, NEW d \in Disks PROVE Known(d) \in BOOLEAN
<1>1. CASE d \in Luns
    BY <1>1 DEF CardsTypeOK, Known
<1>2. CASE d \notin Luns
    <2>1. Known(d) = (media[d] > 0)
        BY <1>2 DEF Known
    <2>2. (media[d] > 0) \in BOOLEAN
        OBVIOUS
    <2>3. QED BY <2>1, <2>2
<1>3. QED BY <1>1, <1>2

\* Steps that send the news of disk c.
LEMMA OneSent ==
    ASSUME EventInv, CardsTypeOK, CardsTypeOK', NEW c \in Disks,
           cardQueue' = Append(cardQueue, Event(c, Known(c)')),
           UNCHANGED <<probe, todo, driveDiskAvail, refused>>,
           dropped \subseteq dropped' \cup {c},
           \A d \in Disks \ {c} : Known(d)' = Known(d) /\ (Sending(d) => Sending(d)')
    PROVE  BootInOrder' /\ LastIsNews' /\ ProbeFollows'
<1>1. BootInOrder'
    BY DEF EventInv, BootInOrder, ProbeAt
<1>2. PICK b \in BOOLEAN : b = Known(c)'
    <2>1. CASE c \in Luns
        BY <2>1 DEF CardsTypeOK, Known
    <2>2. CASE c \notin Luns
        <3>1. Known(c)' = (media'[c] > 0)
            BY <2>2 DEF Known
        <3>2. (media'[c] > 0) \in BOOLEAN
            OBVIOUS
        <3>3. QED BY <3>1, <3>2
    <2>3. QED BY <2>1, <2>2
<1>3. /\ ~NoneQueued(c)' /\ LastSays(c, Known(c))'
      /\ \A d \in Disks \ {c} : /\ NoneQueued(d)' <=> NoneQueued(d)
                                /\ \A v \in BOOLEAN : LastSays(d, v) => LastSays(d, v)'
    <2>1. /\ ~NoneQueued(c)' /\ LastSays(c, b)'
          /\ \A d \in Disks \ {c} : /\ NoneQueued(d)' <=> NoneQueued(d)
                                    /\ \A v \in BOOLEAN : LastSays(d, v) => LastSays(d, v)'
        BY <1>2, AppendFacts
    <2>2. LastSays(c, Known(c))'
        BY <1>2, <2>1 DEF LastSays
    <2>3. QED BY <2>1, <2>2
<1>4. ASSUME NEW d \in Disks \ dropped' PROVE NoneQueued(d)' \/ LastSays(d, Known(d))'
    <2>1. CASE d = c
        BY <1>3, <2>1
    <2>2. CASE d # c
        <3>1. NoneQueued(d) \/ LastSays(d, Known(d))
            BY <1>4, <2>2 DEF EventInv, LastIsNews
        <3>2. Known(d) \in BOOLEAN /\ Known(d)' = Known(d)
            BY <2>2, KnownType
        <3>3. CASE NoneQueued(d)
            BY <1>3, <2>2, <3>3
        <3>4. CASE LastSays(d, Known(d))
            <4>1. PICK v \in BOOLEAN : v = Known(d)
                BY <3>2
            <4>2. LastSays(d, v)'
                BY <1>3, <2>2, <3>4, <4>1
            <4>3. QED BY <3>2, <4>1, <4>2 DEF LastSays
        <3>5. QED BY <3>1, <3>3, <3>4
    <2>3. QED BY <2>1, <2>2
<1>5. ASSUME NEW d \in Disks \ (dropped' \cup todo'), NoneQueued(d)', ~Sending(d)'
      PROVE  IF ProbeAt(d)' THEN Known(d)' <=> probe'.pc # "unmount"
                            ELSE Served(d)'
    <2>1. d # c
        BY <1>3, <1>5
    <2>2. Known(d)' = Known(d) /\ ~Sending(d) /\ NoneQueued(d) /\ d \in Disks \ (dropped \cup todo)
        BY <1>3, <1>5, <2>1
    <2>3. IF ProbeAt(d) THEN Known(d) <=> probe.pc # "unmount" ELSE Served(d)
        BY <2>2 DEF EventInv, ProbeFollows
    <2>4. ProbeAt(d)' = ProbeAt(d)
        BY DEF ProbeAt
    <2>5. QED BY <2>2, <2>3, <2>4 DEF Served
<1>6. QED BY <1>1, <1>4, <1>5 DEF LastIsNews, ProbeFollows

\* The user, the interrupt and the USB tasks.
LEMMA OutsideEvents ==
    ASSUME CardsTypeOK, CardsTypeOK', EventInv, Outside
    PROVE  EventInv'
<1>1. UNCHANGED <<probe, todo, driveDiskAvail, refused>>
    BY OutsideFrame DEF driveVars
<1>2. StatusIsTold
    BY DEF EventInv
<1>3. \A d \in Disks : d \in Luns \/ d \in Sds
    BY DEF Disks
<1>4. ASSUME StatusIsTold', UNCHANGED <<cardQueue, dropped>>,
             \A d \in Disks : Known(d)' = Known(d) /\ (Sending(d) => Sending(d)')
      PROVE  EventInv'
    BY <1>1, <1>4, NothingSent DEF EventInv
<1>5. CASE PlugReader
    <2>1. UNCHANGED <<media, cardStatusTable, dropped, cardQueue, host, lun, lunStatus>>
        BY <1>5 DEF PlugReader, cardVars, usbVars
    <2>2. StatusIsTold'
        BY <1>2, <2>1 DEF StatusIsTold, Sending
    <2>3. \A d \in Disks : Known(d)' = Known(d) /\ (Sending(d) => Sending(d)')
        BY <2>1 DEF Known, Sending
    <2>4. QED BY <1>4, <2>1, <2>2, <2>3
<1>6. ASSUME NEW c \in Disks, ChangeMedium(c) PROVE EventInv'
    <2>1. /\ c \in Luns /\ \A d \in Disks \ {c} : media'[d] = media[d]
          /\ UNCHANGED <<cardStatusTable, dropped, cardQueue, host, lun, lunStatus>>
        BY <1>6 DEF ChangeMedium, cardVars, usbVars, CardsTypeOK
    <2>2. \A d \in Sds : d \in Disks \ {c}
        BY <2>1, DisksAssumption DEF Disks
    <2>3. StatusIsTold'
        BY <1>2, <2>1, <2>2 DEF StatusIsTold, Sending
    <2>4. \A d \in Disks : Known(d)' = Known(d) /\ (Sending(d) => Sending(d)')
        BY <2>1 DEF Known, Sending
    <2>5. QED BY <1>4, <2>1, <2>3, <2>4
<1>7. ASSUME NEW c \in Sds, CardIntrHandler(c) PROVE EventInv'
    <2>1. PICK m \in 0 .. MaxPartitions :
              /\ media' = [media EXCEPT ![c] = m]
              /\ cardStatusTable' = [cardStatusTable EXCEPT ![c] = m > 0]
              /\ IF Len(cardQueue) < QUEUE_LEN
                   THEN /\ cardQueue' = Append(cardQueue, Event(c, m > 0))
                        /\ dropped' = dropped \ {c}
                   ELSE /\ dropped' = dropped \cup {c}
                        /\ UNCHANGED cardQueue
        BY <1>7 DEF CardIntrHandler, OtherMedium
    <2>2. UNCHANGED <<host, lun, lunStatus>>
        BY <1>7 DEF CardIntrHandler, usbVars
    <2>3. c \in Disks /\ c \notin Luns
        BY DisksAssumption DEF Disks
    <2>4. /\ media'[c] = m /\ cardStatusTable'[c] = (m > 0)
          /\ \A d \in Disks \ {c} : media'[d] = media[d] /\ cardStatusTable'[d] = cardStatusTable[d]
        BY <2>1, <2>3 DEF CardsTypeOK
    <2>5. StatusIsTold'
        <3>1. \A d \in Luns : d \in Disks \ {c}
            BY <2>3 DEF Disks
        <3>2. \A d \in Sds : d = c \/ d \in Disks \ {c}
            BY DEF Disks
        <3>3. QED BY <1>2, <2>2, <2>4, <3>1, <3>2 DEF StatusIsTold, Sending
    <2>6. Known(c)' = (m > 0)
        BY <2>3, <2>4 DEF Known
    <2>7. \A d \in Disks \ {c} : Known(d)' = Known(d) /\ (Sending(d) => Sending(d)')
        BY <2>2, <2>4 DEF Known, Sending
    <2>8. CASE Len(cardQueue) < QUEUE_LEN
        <3>1. cardQueue' = Append(cardQueue, Event(c, Known(c)')) /\ dropped' = dropped \ {c}
            BY <2>1, <2>6, <2>8
        <3>2. dropped \subseteq dropped' \cup {c}
            BY <3>1
        <3>3. QED BY <1>1, <2>3, <2>5, <2>7, <3>1, <3>2, OneSent DEF EventInv
    <2>9. CASE ~(Len(cardQueue) < QUEUE_LEN)
        <3>1. dropped \subseteq dropped' /\ UNCHANGED cardQueue
            BY <2>1, <2>9
        <3>2. \A d \in Disks \ dropped' : d \in Disks \ {c}
            BY <2>1, <2>9
        <3>3. QED BY <1>1, <2>5, <2>7, <3>1, <3>2, NothingSent DEF EventInv
    <2>10. QED BY <2>8, <2>9
<1>8. ASSUME UNCHANGED <<media, cardQueue, dropped, lunStatus>>,
             StatusIsTold', host \notin {"sending", "resetting"}
      PROVE  EventInv'
    <2>1. \A d \in Disks : Known(d)' = Known(d)
        BY <1>8 DEF Known
    <2>2. \A d \in Disks : ~Sending(d)
        BY <1>8 DEF Sending
    <2>3. QED BY <1>4, <1>8, <2>1, <2>2
<1>9. CASE MscConnect \/ MscDisconnect
    <2>1. /\ UNCHANGED <<media, cardStatusTable, cardQueue, dropped, lunStatus>>
          /\ host \in {"out", "polling"} /\ host' \in {"polling", "reset"}
        BY <1>9 DEF MscConnect, MscDisconnect, cardVars
    <2>2. StatusIsTold' /\ \A d \in Luns : ~Sending(d)
        BY <1>2, <2>1 DEF StatusIsTold, Sending
    <2>3. QED BY <1>8, <2>1, <2>2
<1>10. CASE MscPoll
    <2>1. UNCHANGED <<media, cardQueue, dropped, lunStatus>> /\ host = "polling"
        BY <1>10 DEF MscPoll, CardWrite, cardVars
    <2>2. \A d \in Luns : ~Sending(d) /\ cardStatusTable[d] = lunStatus[d]
        BY <1>2, <2>1 DEF StatusIsTold, Sending
    <2>3. CASE Present(lun) # lunStatus[lun]
        <3>1. cardStatusTable' = [cardStatusTable EXCEPT ![lun] = Present(lun)] /\ host' = "sending"
              /\ lun' = lun
            BY <1>10, <2>3 DEF MscPoll, CardWrite
        <3>2. lun \in Luns /\ lun \in Disks /\ \A d \in Sds : d \in Disks /\ d # lun
            BY DisksAssumption DEF CardsTypeOK, Disks
        <3>3. Present(lun) \in BOOLEAN /\ lunStatus[lun] \in BOOLEAN
            BY <3>2, PresentType DEF CardsTypeOK
        <3>4. Present(lun) = ~lunStatus[lun]
            BY <2>3, <3>3, Zenon
        <3>5. /\ cardStatusTable'[lun] = ~lunStatus[lun]
              /\ \A d \in Disks \ {lun} : cardStatusTable'[d] = cardStatusTable[d]
            BY <3>1, <3>2, <3>4 DEF CardsTypeOK
        <3>6. \A d \in Luns : Sending(d)' <=> d = lun
            BY <3>1 DEF Sending
        <3>7. \A d \in Luns : cardStatusTable'[d] = IF Sending(d)' THEN ~lunStatus'[d] ELSE lunStatus'[d]
            BY <2>1, <2>2, <3>5, <3>6 DEF Disks
        <3>8. \A d \in Sds : cardStatusTable'[d] = (media'[d] > 0)
            BY <1>2, <2>1, <3>2, <3>5 DEF StatusIsTold
        <3>9. QED BY <1>8, <2>1, <2>2, <3>1, <3>7, <3>8 DEF StatusIsTold
    <2>4. CASE Present(lun) = lunStatus[lun]
        <3>1. UNCHANGED cardStatusTable /\ host' = "polling"
            BY <1>10, <2>1, <2>4 DEF MscPoll, cardVars
        <3>2. StatusIsTold'
            BY <1>2, <2>1, <3>1 DEF StatusIsTold, Sending
        <3>3. QED BY <1>8, <2>1, <2>2, <3>2
    <2>5. QED BY <2>3, <2>4
<1>11. CASE MscStatusReset
    <2>1. UNCHANGED <<media, cardQueue, dropped>> /\ host = "reset"
        BY <1>11 DEF MscStatusReset, CardWrite, cardVars
    <2>2. \A d \in Luns : ~Sending(d) /\ cardStatusTable[d] = lunStatus[d]
        BY <1>2, <2>1 DEF StatusIsTold, Sending
    <2>3. CASE lunStatus[lun]
        <3>1. cardStatusTable' = [cardStatusTable EXCEPT ![lun] = FALSE] /\ host' = "resetting"
              /\ lun' = lun /\ lunStatus' = lunStatus
            BY <1>11, <2>3 DEF MscStatusReset, CardWrite
        <3>2. lun \in Luns /\ lun \in Disks /\ \A d \in Sds : d \in Disks /\ d # lun
            BY DisksAssumption DEF CardsTypeOK, Disks
        <3>3. /\ cardStatusTable'[lun] = FALSE
              /\ \A d \in Disks \ {lun} : cardStatusTable'[d] = cardStatusTable[d]
            BY <3>1, <3>2 DEF CardsTypeOK
        <3>4. \A d \in Luns : Sending(d)' <=> d = lun
            BY <3>1 DEF Sending
        <3>5. \A d \in Luns : cardStatusTable'[d] = IF Sending(d)' THEN ~lunStatus'[d] ELSE lunStatus'[d]
            BY <2>2, <2>3, <3>1, <3>3, <3>4 DEF Disks
        <3>6. \A d \in Sds : cardStatusTable'[d] = (media'[d] > 0)
            BY <1>2, <2>1, <3>2, <3>3 DEF StatusIsTold
        <3>7. QED BY <1>8, <2>1, <2>2, <2>3, <3>1, <3>5, <3>6 DEF StatusIsTold
    <2>4. CASE ~lunStatus[lun]
        <3>1. /\ UNCHANGED cardStatusTable /\ host' \in {"out", "reset"}
              /\ lunStatus' = [lunStatus EXCEPT ![lun] = FALSE]
            BY <1>11, <2>4 DEF MscStatusReset, NextReset, cardVars
        <3>2. lunStatus' = lunStatus
            BY <2>4, <3>1 DEF CardsTypeOK
        <3>3. StatusIsTold'
            BY <1>2, <2>1, <2>2, <3>1, <3>2 DEF StatusIsTold, Sending
        <3>4. QED BY <1>8, <2>1, <2>2, <3>2, <3>3
    <2>5. QED BY <2>3, <2>4
<1>12. CASE MscSend \/ MscResetSend
    <2>1. lun \in Luns /\ lun \in Disks /\ Sending(lun)
        BY <1>12 DEF MscSend, MscResetSend, CardsTypeOK, Disks, Sending
    <2>2. cardStatusTable[lun] = ~lunStatus[lun]
        BY <1>2, <2>1 DEF StatusIsTold
    <2>3. \A d \in Sds : d \in Disks /\ d # lun
        BY <2>1, DisksAssumption DEF Disks
    <2>4. \E b \in BOOLEAN : /\ b = ~lunStatus[lun]
                            /\ cardQueue' = Append(cardQueue, Event(lun, b))
                            /\ lunStatus' = [lunStatus EXCEPT ![lun] = b]
        <3>1. CASE MscSend
            BY <2>1, <3>1 DEF MscSend, CardsTypeOK
        <3>2. CASE MscResetSend
            <4>1. lunStatus[lun]
                BY <1>2, <3>2 DEF MscResetSend, StatusIsTold
            <4>2. QED BY <3>2, <4>1 DEF MscResetSend, NextReset
        <3>3. QED BY <1>12, <3>1, <3>2
    <2>5. /\ UNCHANGED <<media, cardStatusTable, dropped>>
          /\ host' \in {"polling", "out", "reset"}
        BY <1>12 DEF MscSend, MscResetSend, NextReset, cardVars
    <2>6. /\ lunStatus'[lun] = ~lunStatus[lun]
          /\ \A d \in Luns \ {lun} : lunStatus'[d] = lunStatus[d] /\ ~Sending(d)
        BY <2>1, <2>4 DEF CardsTypeOK, Sending
    <2>7. \A d \in Luns : ~Sending(d)' /\ cardStatusTable'[d] = lunStatus'[d]
        BY <1>2, <2>2, <2>5, <2>6 DEF StatusIsTold, Sending
    <2>8. StatusIsTold'
        BY <1>2, <2>5, <2>7 DEF StatusIsTold
    <2>9. PICK c \in Luns : c = lun
        BY <2>1
    <2>10. Known(c)' = ~lunStatus[lun]
        BY <2>1, <2>6, <2>9 DEF Known
    <2>11. cardQueue' = Append(cardQueue, Event(c, Known(c)'))
        BY <2>4, <2>9, <2>10
    <2>12. \A d \in Disks \ {lun} : Known(d)' = Known(d) /\ (Sending(d) => Sending(d)')
        BY <2>5, <2>6 DEF Known, Sending
    <2>13. dropped \subseteq dropped' \cup {c}
        BY <2>5
    <2>14. c \in Disks /\ \A d \in Disks \ {c} : Known(d)' = Known(d) /\ (Sending(d) => Sending(d)')
        BY <2>1, <2>9, <2>12
    <2>15. QED BY <1>1, <2>8, <2>11, <2>13, <2>14, OneSent DEF EventInv
<1>13. QED BY <1>5, <1>6, <1>7, <1>9, <1>10, <1>11, <1>12 DEF Outside, UsbTask

\* The first event of the queue is taken.
LEMMA TailFacts ==
    ASSUME CardsTypeOK, cardQueue # <<>>, cardQueue' = Tail(cardQueue), NEW d \in Disks
    PROVE  /\ Head(cardQueue) = cardQueue[1]
           /\ NoneQueued(d) => NoneQueued(d)' /\ Head(cardQueue).disk # d
           /\ \A v \in BOOLEAN : LastSays(d, v) =>
                 \/ ~NoneQueued(d)' /\ LastSays(d, v)'
                 \/ NoneQueued(d)' /\ Head(cardQueue).disk = d /\ Head(cardQueue).inserted = v
<1> DEFINE n == Len(cardQueue)
<1>1. cardQueue \in Seq([disk : Disks, inserted : BOOLEAN]) /\ n \in Nat /\ n >= 1
    BY DEF CardsTypeOK
<1>2. /\ Head(cardQueue) = cardQueue[1]
      /\ Len(cardQueue') = n - 1
      /\ \A i \in 1 .. n - 1 : cardQueue'[i] = cardQueue[i + 1]
    BY <1>1
<1>3. 1 \in 1 .. n /\ \A i \in 1 .. n - 1 : i + 1 \in 1 .. n
    BY <1>1
<1>4. NoneQueued(d) => NoneQueued(d)' /\ Head(cardQueue).disk # d
    BY <1>2, <1>3 DEF NoneQueued
<1>5. ASSUME NEW v \in BOOLEAN, LastSays(d, v)
      PROVE  \/ ~NoneQueued(d)' /\ LastSays(d, v)'
             \/ NoneQueued(d)' /\ Head(cardQueue).disk = d /\ Head(cardQueue).inserted = v
    <2>1. PICK i \in 1 .. n : /\ cardQueue[i].disk = d /\ cardQueue[i].inserted = v
                              /\ \A j \in 1 .. n : j > i => cardQueue[j].disk # d
        BY <1>5 DEF LastSays
    <2>2. CASE i = 1
        <3>1. \A j \in 1 .. n - 1 : cardQueue'[j].disk # d
            BY <1>1, <1>2, <1>3, <2>1, <2>2
        <3>2. QED BY <1>2, <2>1, <2>2, <3>1 DEF NoneQueued
    <2>3. CASE i # 1
        <3>1. i - 1 \in 1 .. n - 1 /\ cardQueue'[i - 1] = cardQueue[i]
            BY <1>1, <1>2, <2>3
        <3>2. \A j \in 1 .. n - 1 : j > i - 1 => cardQueue'[j].disk # d
            BY <1>1, <1>2, <1>3, <2>1
        <3>3. QED BY <1>2, <2>1, <3>1, <3>2 DEF NoneQueued, LastSays
    <2>4. QED BY <2>2, <2>3
<1>6. QED BY <1>2, <1>4, <1>5

\* Steps of the probe task that take no event: only the disk it works on
\* matters.
LEMMA ProbeWorks ==
    ASSUME EventInv, CardsTypeOK, UNCHANGED <<media, cardVars, usbVars, cardQueue>>,
           BootInOrder',
           \A d \in Disks \ todo : ~ProbeAt(d) =>
               /\ ~ProbeAt(d)' /\ driveDiskAvail'[d] = driveDiskAvail[d]
               /\ d \in refused => d \in refused',
           \A d \in Disks \ (todo' \cup dropped) :
               NoneQueued(d) /\ ~Sending(d) /\ (ProbeAt(d) \/ d \in todo) =>
                   IF ProbeAt(d)' THEN Known(d) <=> probe'.pc # "unmount"
                                  ELSE Served(d)'
    PROVE  EventInv'
<1>1. UNCHANGED <<cardStatusTable, dropped, host, lun, lunStatus, media, cardQueue>>
    BY DEF cardVars, usbVars
<1>2. \A d \in Disks : /\ Known(d)' = Known(d) /\ Sending(d)' = Sending(d)
                       /\ NoneQueued(d)' = NoneQueued(d)
    BY <1>1 DEF Known, Sending, NoneQueued
<1>3. StatusIsTold'
    BY <1>1 DEF EventInv, StatusIsTold, Sending
<1>4. LastIsNews'
    <2>1. ASSUME NEW d \in Disks \ dropped' PROVE NoneQueued(d)' \/ LastSays(d, Known(d))'
        <3>1. NoneQueued(d) \/ LastSays(d, Known(d))
            BY <1>1, <2>1 DEF EventInv, LastIsNews
        <3>2. QED BY <1>1, <1>2, <3>1 DEF LastSays
    <2>2. QED BY <2>1 DEF LastIsNews
<1>5. ASSUME NEW d \in Disks \ (dropped' \cup todo'), NoneQueued(d)', ~Sending(d)'
      PROVE  IF ProbeAt(d)' THEN Known(d)' <=> probe'.pc # "unmount"
                            ELSE Served(d)'
    <2>1. NoneQueued(d) /\ ~Sending(d) /\ Known(d)' = Known(d) /\ d \in Disks \ (todo' \cup dropped)
        BY <1>1, <1>2, <1>5
    <2>2. CASE ProbeAt(d) \/ d \in todo
        BY <2>1, <2>2
    <2>3. CASE ~ProbeAt(d) /\ d \notin todo
        <3>1. Served(d)
            BY <2>1, <2>3 DEF EventInv, ProbeFollows
        <3>2. QED BY <2>1, <2>3, <3>1 DEF Served
    <2>4. QED BY <2>2, <2>3
<1>6. QED BY <1>3, <1>4, <1>5 DEF EventInv, ProbeFollows

\* The probe task.
LEMMA ProbeEvents ==
    ASSUME CardsTypeOK, DrivesTypeOK, EventInv, ProbeTask
    PROVE  EventInv'
<1>1. UNCHANGED <<media, cardVars, usbVars>>
    BY DEF ProbeTask, BootProbe, DriveProbe, DriveMountCard, CardRefused, FatMountPartition,
           DriveMounted, FatUnmountLetter, DriveUnmounted, Unchanged
<1>2. BootInOrder /\ StatusIsTold
    BY DEF EventInv
<1>3. /\ Done.pc = IF todo = {} THEN "read" ELSE "boot"
      /\ Done.pc \in {"read", "boot"}
    BY DEF Done, At
<1>4. CASE BootProbe
    <2>1. probe.pc = "boot" /\ UNCHANGED <<driveDiskAvail, refused, cardQueue>> /\ \A d \in Disks : ~ProbeAt(d)
        BY <1>4 DEF BootProbe, ProbeAt
    <2>2. CASE todo = {} /\ probe' = At("read", FirstMsc) /\ UNCHANGED todo
        <3>1. \A d \in Disks : ~ProbeAt(d)'
            BY <2>2 DEF ProbeAt, At
        <3>2. BootInOrder'
            BY <2>2 DEF BootInOrder
        <3>3. QED BY <1>1, <2>1, <2>2, <3>1, <3>2, ProbeWorks
    <2>3. ASSUME NEW c \in todo, todo' = todo \ {c},
                 probe' = IF cardStatusTable[c] THEN At("mount", c) ELSE probe
          PROVE  EventInv'
        <3>1. c \in Disks /\ ~driveDiskAvail[c]
            BY <1>2, <2>3 DEF BootInOrder, DrivesTypeOK
        <3>2. /\ ProbeAt(c)' <=> cardStatusTable[c]
              /\ \A d \in Disks \ {c} : ~ProbeAt(d)'
              /\ cardStatusTable[c] => probe'.pc = "mount"
              /\ ~cardStatusTable[c] => probe'.pc = "boot"
            BY <2>1, <2>3 DEF ProbeAt, At
        <3>3. BootInOrder'
            BY <1>2, <2>1, <2>3, <3>1, <3>2 DEF BootInOrder, DrivesTypeOK
        <3>4. ~Sending(c) => (Known(c) <=> cardStatusTable[c])
            BY <1>2, <3>1 DEF StatusIsTold, Known, Disks
        <3>5. \A d \in Disks \ todo : d \in Disks \ {c}
            BY <2>3
        <3>6. \A d \in Disks \ todo' : d \in todo => d = c
            BY <2>3
        <3>7. ~driveDiskAvail'[c] /\ (Known(c)' <=> Known(c))
            BY <1>1, <2>1, <3>1 DEF Known, usbVars
        <3>8. ~Sending(c) /\ ~ProbeAt(c)' => Served(c)'
            BY <3>2, <3>4, <3>7 DEF Served
        <3>9. QED BY <1>1, <2>1, <3>1, <3>2, <3>3, <3>4, <3>5, <3>6, <3>8, ProbeWorks
    <2>4. QED BY <1>4, <2>2, <2>3 DEF BootProbe
<1>5. CASE DriveProbe
    <2> DEFINE e == Head(cardQueue)
    <2>1. /\ probe.pc = "read" /\ cardQueue # <<>> /\ cardQueue' = Tail(cardQueue)
          /\ probe' = At(IF e.inserted THEN "mount" ELSE "unmount", e.disk)
          /\ UNCHANGED <<todo, driveDiskAvail, refused>>
        BY <1>5 DEF DriveProbe
    <2>2. todo = {} /\ todo' = {} /\ \A d \in Disks : ~ProbeAt(d)
        BY <1>2, <2>1 DEF BootInOrder, ProbeAt
    <2>3. /\ probe'.pc = IF e.inserted THEN "mount" ELSE "unmount"
          /\ \A d \in Disks : ProbeAt(d)' <=> d = e.disk
        BY <2>1 DEF ProbeAt, At
    <2> HIDE DEF e
    <2>4. BootInOrder'
        BY <2>2, <2>3 DEF BootInOrder
    <2>5. UNCHANGED <<cardStatusTable, dropped, host, lun, lunStatus, media>>
        BY <1>1 DEF cardVars, usbVars
    <2>6. \A d \in Disks : Known(d)' = Known(d) /\ Sending(d)' = Sending(d) /\ Known(d) \in BOOLEAN
        BY <2>5, KnownType DEF Known, Sending
    <2>7. StatusIsTold'
        BY <1>2, <2>5 DEF StatusIsTold, Sending
    <2>8. ASSUME NEW d \in Disks \ dropped'
          PROVE  /\ NoneQueued(d)' \/ LastSays(d, Known(d))'
                 /\ NoneQueued(d)' /\ ~Sending(d)' =>
                      IF ProbeAt(d)' THEN Known(d)' <=> probe'.pc # "unmount"
                                     ELSE Served(d)'
        <3>1. PICK v \in BOOLEAN : v = Known(d)
            BY <2>6
        <3>2. NoneQueued(d) \/ LastSays(d, v)
            BY <2>5, <2>8, <3>1 DEF EventInv, LastIsNews
        <3>3. CASE NoneQueued(d)
            <4>1. NoneQueued(d)' /\ e.disk # d
                BY <2>1, <3>3, TailFacts DEF e
            <4>2. ~Sending(d) => Served(d)
                BY <2>2, <2>5, <2>8, <3>3 DEF EventInv, ProbeFollows
            <4>3. QED BY <2>1, <2>3, <2>6, <4>1, <4>2 DEF Served
        <3>4. CASE LastSays(d, v)
            <4>1. \/ ~NoneQueued(d)' /\ LastSays(d, v)'
                  \/ NoneQueued(d)' /\ e.disk = d /\ e.inserted = v
                BY <2>1, <3>4, TailFacts DEF e
            <4>2. CASE ~NoneQueued(d)' /\ LastSays(d, v)'
                <5>1. LastSays(d, Known(d))'
                    BY <2>6, <3>1, <4>2 DEF LastSays
                <5>2. QED BY <4>2, <5>1
            <4>3. CASE NoneQueued(d)' /\ e.disk = d /\ e.inserted = v
                BY <2>3, <2>6, <3>1, <4>3
            <4>4. QED BY <4>1, <4>2, <4>3
        <3>5. QED BY <3>2, <3>3, <3>4
    <2>9. QED BY <2>4, <2>7, <2>8 DEF EventInv, LastIsNews, ProbeFollows
<1>6. ASSUME NEW c \in Disks, ProbeAt(c), UNCHANGED <<cardQueue, todo>>,
             \A d \in Disks \ {c} : /\ driveDiskAvail'[d] = driveDiskAvail[d]
                                    /\ d \in refused => d \in refused',
             \/ /\ probe'.disk = c /\ probe'.pc = "letters" /\ probe.pc # "unmount"
                /\ UNCHANGED driveDiskAvail
             \/ /\ probe' = Done
                /\ c \notin dropped /\ NoneQueued(c) /\ ~Sending(c) =>
                     Served(c)'
             \/ probe' = probe /\ UNCHANGED driveDiskAvail
      PROVE  EventInv'
    <2>1. c \notin todo /\ \A d \in Disks : ProbeAt(d) => d = c
        BY <1>2, <1>6 DEF BootInOrder, ProbeAt
    <2>2. \A d \in Disks : ProbeAt(d)' => d = c
        BY <1>3, <1>6, <2>1 DEF ProbeAt
    <2>3. BootInOrder'
        BY <1>2, <1>3, <1>6, <2>1, <2>2 DEF BootInOrder, DrivesTypeOK
    <2>4. c \notin dropped /\ NoneQueued(c) /\ ~Sending(c) =>
              IF ProbeAt(c)' THEN Known(c) <=> probe'.pc # "unmount"
                             ELSE Served(c)'
        <3>1. c \notin dropped /\ NoneQueued(c) /\ ~Sending(c) =>
                  (Known(c) <=> probe.pc # "unmount")
            BY <1>6, <2>1 DEF EventInv, ProbeFollows
        <3>2. QED BY <1>3, <1>6, <3>1 DEF ProbeAt
    <2>5. QED BY <1>1, <1>6, <2>1, <2>2, <2>3, <2>4, ProbeWorks
<1>7. CASE DriveMountCard
    <2>1. PICK c \in Disks : c = probe.disk
        BY DEF DrivesTypeOK
    <2>2. ProbeAt(c) /\ probe.pc = "mount" /\ UNCHANGED <<cardQueue, todo, driveDiskAvail>>
        BY <1>7, <2>1 DEF DriveMountCard, ProbeAt
    <2>3. CASE MustMount(c)
        <3>1. /\ probe'.disk = c /\ probe'.pc = "letters"
              /\ \A d \in Disks \ {c} : d \in refused => d \in refused'
            BY <1>7, <2>1, <2>3 DEF DriveMountCard
        <3>2. QED BY <1>6, <2>2, <3>1
    <2>4. CASE ~MustMount(c)
        <3>1. probe' = Done /\ UNCHANGED refused
            BY <1>7, <2>1, <2>4 DEF DriveMountCard
        <3>2. ASSUME c \notin dropped, NoneQueued(c), ~Sending(c)
              PROVE  Served(c)'
            <4>1. c \notin todo
                BY <1>2, <2>2 DEF BootInOrder
            <4>2. Known(c)
                BY <2>2, <3>2, <4>1 DEF EventInv, ProbeFollows
            <4>3. c \in Sds => Present(c)
                BY <4>2, DisksAssumption DEF Known, Present
            <4>4. driveDiskAvail[c]
                BY <2>4, <4>3 DEF MustMount
            <4>5. Known(c)'
                BY <1>1, <4>2 DEF Known, usbVars
            <4>6. QED BY <2>2, <4>4, <4>5 DEF Served
        <3>3. QED BY <1>6, <2>2, <3>1, <3>2
    <2>5. QED BY <2>3, <2>4
<1>8. CASE FatMountPartition
    <2>1. PICK c \in Disks : c = probe.disk
        BY DEF DrivesTypeOK
    <2>2. /\ ProbeAt(c) /\ probe.pc = "letters" /\ UNCHANGED <<cardQueue, todo, driveDiskAvail>>
          /\ UNCHANGED refused
          /\ probe'.pc = "letters" /\ probe'.disk = c
        BY <1>8, <2>1 DEF FatMountPartition, ProbeAt, DrivesTypeOK
    <2>3. QED BY <1>6, <2>2
<1>9. CASE DriveMounted
    <2>1. PICK c \in Disks : c = probe.disk
        BY DEF DrivesTypeOK
    <2>2. /\ ProbeAt(c) /\ probe.pc = "letters" /\ UNCHANGED <<cardQueue, todo, refused>>
          /\ probe' = Done
          /\ driveDiskAvail'[c] = TRUE
          /\ \A d \in Disks \ {c} : driveDiskAvail'[d] = driveDiskAvail[d]
        BY <1>9, <2>1 DEF DriveMounted, ProbeAt, DrivesTypeOK
    <2>3. c \notin todo
        BY <1>2, <2>2 DEF BootInOrder
    <2>4. c \notin dropped /\ NoneQueued(c) /\ ~Sending(c) => Known(c)
        BY <2>2, <2>3 DEF EventInv, ProbeFollows
    <2>5. Known(c)' = Known(c)
        BY <1>1 DEF Known, usbVars
    <2>6. c \notin dropped /\ NoneQueued(c) /\ ~Sending(c) => Served(c)'
        BY <2>2, <2>4, <2>5 DEF Served
    <2>7. QED BY <1>6, <2>2, <2>6
<1>10. CASE FatUnmountLetter
    <2>1. PICK c \in Disks : c = probe.disk
        BY DEF DrivesTypeOK
    <2>2. ProbeAt(c) /\ UNCHANGED <<cardQueue, todo, driveDiskAvail, refused, probe>>
        BY <1>10, <2>1 DEF FatUnmountLetter, ProbeAt
    <2>3. QED BY <1>6, <2>2
<1>11. CASE DriveUnmounted
    <2>1. PICK c \in Disks : c = probe.disk
        BY DEF DrivesTypeOK
    <2>2. /\ ProbeAt(c) /\ probe.pc = "unmount" /\ UNCHANGED <<cardQueue, todo>> /\ probe' = Done
          /\ driveDiskAvail'[c] = FALSE
          /\ \A d \in Disks \ {c} : /\ driveDiskAvail'[d] = driveDiskAvail[d]
                                    /\ d \in refused => d \in refused'
        BY <1>11, <2>1 DEF DriveUnmounted, ProbeAt, DrivesTypeOK
    <2>3. c \notin todo
        BY <1>2, <2>2 DEF BootInOrder
    <2>4. c \notin dropped /\ NoneQueued(c) /\ ~Sending(c) => ~Known(c)
        BY <2>2, <2>3 DEF EventInv, ProbeFollows
    <2>5. ~driveDiskAvail'[c] /\ (Known(c)' <=> Known(c))
        BY <1>1, <2>2 DEF Known, usbVars
    <2>6. c \notin dropped /\ NoneQueued(c) /\ ~Sending(c) => Served(c)'
        BY <2>4, <2>5 DEF Served
    <2>7. QED BY <1>6, <2>2, <2>6
<1>12. CASE CardRefused
    <2>1. PICK c \in Disks : c = probe.disk
        BY DEF DrivesTypeOK
    <2>2. /\ ProbeAt(c) /\ UNCHANGED <<cardQueue, todo, driveDiskAvail>> /\ probe' = Done
          /\ ~driveDiskAvail[c] /\ refused' = refused \cup {c}
        BY <1>12, <2>1 DEF CardRefused, MustMount, ProbeAt
    <2>3. Served(c)'
        BY <2>2 DEF Served
    <2>4. QED BY <1>6, <2>2, <2>3
<1>13. QED BY <1>4, <1>5, <1>7, <1>8, <1>9, <1>10, <1>11, <1>12 DEF ProbeTask

\* Before the boot nothing is queued and nothing is mounted.
LEMMA InitEvents == ASSUME Init PROVE EventInv
<1>1. \A d \in Disks : NoneQueued(d) /\ ~ProbeAt(d) /\ ~driveDiskAvail[d] /\ d \in todo
    BY DEF Init, NoneQueued, ProbeAt, At
<1>2. StatusIsTold
    <2>1. \A d \in Luns : d \in Disks /\ d \notin Sds
        BY DisksAssumption DEF Disks
    <2>2. host = "out" /\ \A d \in Luns : ~Sending(d)
        BY DEF Init, Sending
    <2>3. \A d \in Luns : ~cardStatusTable[d] /\ ~lunStatus[d]
        BY <2>1 DEF Init
    <2>4. \A d \in Luns : cardStatusTable[d] \in BOOLEAN /\ lunStatus[d] \in BOOLEAN
        BY <2>1 DEF Init
    <2>5. \A d \in Luns : cardStatusTable[d] = lunStatus[d]
        BY <2>3, <2>4
    <2>6. \A d \in Sds : cardStatusTable[d] = (media[d] > 0)
        BY LunFacts DEF Init
    <2>7. QED BY <2>2, <2>5, <2>6 DEF StatusIsTold
<1>3. BootInOrder
    BY <1>1 DEF Init, BootInOrder, At
<1>4. QED BY <1>1, <1>2, <1>3 DEF EventInv, LastIsNews, ProbeFollows

\* Every step keeps track of the news.
LEMMA NextEvents == ASSUME IInv, IInv', EventInv, [Next]_vars PROVE EventInv'
<1>1. CardsTypeOK /\ CardsTypeOK' /\ DrivesTypeOK
    BY TypeParts DEF IInv, TypeOK, CardsTypeOK
<1>2. CASE Outside
    BY <1>1, <1>2, OutsideEvents
<1>3. CASE ProbeTask
    BY <1>1, <1>3, ProbeEvents
<1>4. CASE StorageCheck \/ UNCHANGED vars
    <2>1. UNCHANGED <<media, cardStatusTable, dropped, cardQueue, host, lun, lunStatus,
                      probe, todo, driveDiskAvail, refused>>
        BY <1>4 DEF StorageCheck, vars, cardVars, usbVars, driveVars
    <2>2. \A d \in Disks : Known(d)' = Known(d) /\ (Sending(d) => Sending(d)')
        BY <2>1 DEF Known, Sending
    <2>3. StatusIsTold'
        BY <2>1 DEF EventInv, StatusIsTold, Sending
    <2>4. BootInOrder' /\ LastIsNews' /\ ProbeFollows'
        BY <2>1, <2>2, NothingSent
    <2>5. QED BY <2>3, <2>4 DEF EventInv
<1>5. QED BY <1>2, <1>3, <1>4, NextCases

\* Whatever the user, the interrupt, the polls, the boot and the probe task
\* do in whatever order, the news of a card reach driveDiskAvail, but for
\* those that CardIntrHandler could not queue and for an SD card that
\* iteSdInitializeEx could not initialise when its event was taken.
THEOREM EventsReachDrives == Spec => []NoEventIsLost
<1>1. Init => EventInv
    BY InitEvents
<1>2. IInv /\ IInv' /\ EventInv /\ [Next]_vars => EventInv'
    BY NextEvents
<1>3. IInv /\ EventInv => NoEventIsLost
    <2> SUFFICES ASSUME IInv, EventInv, NEW d \in Disks \ dropped, ~OnItsWay(d)
                 PROVE  /\ driveDiskAvail[d] => Known(d)
                        /\ Known(d) => driveDiskAvail[d] \/ d \in refused
                        /\ LettersOf(d) # {} => Known(d)
        BY DEF NoEventIsLost
    <2>1. d \notin todo /\ NoneQueued(d) /\ ~Sending(d) /\ ~ProbeAt(d)
        BY DEF OnItsWay, NoneQueued, Sending, ProbeAt
    <2>2. /\ driveDiskAvail[d] => Known(d)
          /\ Known(d) => driveDiskAvail[d] \/ d \in refused
        BY <2>1 DEF EventInv, ProbeFollows, Served
    <2>3. LettersOf(d) # {} => driveDiskAvail[d]
        BY <2>1 DEF IInv, LettersAreOwned, LettersOf, ProbeAt
    <2>4. QED BY <2>2, <2>3
<1>4. QED BY <1>1, <1>2, <1>3, IInvHolds, PTL DEF Spec
-----------------------------------------------------------------------------
(***************************************************************************)
(* The user interface catches up with the letters: what is left of         *)
(* StorageFollowsDrives without fairness.                                  *)
(***************************************************************************)
\* Letters that are in use, or that the user interface knows of, are of a disk.
LettersOfDisks ==
    /\ \A s \in Letters : drives[s].avail => drives[s].disk \in Disks
    /\ \A k \in {"usb", "sd"} :
          storageTable[k] # NoLetter => drives[storageTable[k]].disk \in Disks

LEMMA InitLetters == Init => LettersOfDisks
BY DEF Init, LettersOfDisks

LEMMA NextLetters == ASSUME IInv, LettersOfDisks, [Next]_vars PROVE LettersOfDisks'
<1>1. DrivesTypeOK /\ StorageTypeOK
    BY TypeParts DEF IInv
<1>2. CASE Outside \/ UNCHANGED vars
    <2>1. UNCHANGED <<drives, storageTable>>
        BY <1>2, OutsideFrame DEF vars, driveVars, storageVars
    <2>2. QED BY <2>1 DEF LettersOfDisks
<1>3. CASE ProbeTask
    <2>1. UNCHANGED storageTable
        BY <1>3, ProbeFrame DEF storageVars
    <2>2. \/ UNCHANGED drives
          \/ \E s \in Letters, b \in BOOLEAN :
                drives' = [drives EXCEPT ![s] = [disk |-> probe.disk, avail |-> b]]
        BY <1>3 DEF ProbeTask, BootProbe, DriveProbe, DriveMountCard, CardRefused, FatMountPartition,
                    Free, DriveMounted, FatUnmountLetter, LettersOf, DriveUnmounted
    <2>3. probe.disk \in Disks
        BY <1>1 DEF DrivesTypeOK
    <2>4. CASE UNCHANGED drives
        BY <2>1, <2>4 DEF LettersOfDisks
    <2>5. ASSUME NEW s \in Letters, NEW b \in BOOLEAN,
                 drives' = [drives EXCEPT ![s] = [disk |-> probe.disk, avail |-> b]]
          PROVE  LettersOfDisks'
        <3>1. \A r \in Letters : \/ drives'[r] = drives[r]
                                 \/ drives'[r].disk = probe.disk
            BY <1>1, <2>5 DEF DrivesTypeOK
        <3>2. \A k \in {"usb", "sd"} : storageTable'[k] # NoLetter => storageTable'[k] \in Letters
            BY <1>1, <2>1 DEF StorageTypeOK
        <3>3. \A r \in Letters : drives'[r].avail => drives'[r].disk \in Disks
            BY <2>3, <3>1 DEF LettersOfDisks
        <3>4. \A k \in {"usb", "sd"} :
                 storageTable'[k] # NoLetter => drives'[storageTable'[k]].disk \in Disks
            BY <2>1, <2>3, <3>1, <3>2 DEF LettersOfDisks
        <3>5. QED BY <3>3, <3>4 DEF LettersOfDisks
    <2>6. QED BY <2>2, <2>4, <2>5
<1>4. CASE StorageCheck
    <2>1. PICK s \in Letters : HasNews(s) /\ (StorageInserted(s) \/ StorageRemoved(s))
        BY <1>4 DEF StorageCheck
    <2>2. UNCHANGED drives /\ drives[s].disk \in Disks
        BY <1>4, <2>1, StorageFrame DEF driveVars, HasNews
    <2>3. \A k \in {"usb", "sd"} : storageTable'[k] \in {storageTable[k], s, NoLetter}
        BY <1>1, <2>1 DEF StorageInserted, StorageRemoved, StorageTypeOK
    <2>4. QED BY <2>2, <2>3 DEF LettersOfDisks
<1>5. QED BY <1>2, <1>3, <1>4, NextCases

LEMMA LettersHold == Spec => []LettersOfDisks
<1>1. IInv /\ LettersOfDisks /\ [Next]_vars => LettersOfDisks'
    BY NextLetters
<1>2. QED BY <1>1, InitLetters, IInvHolds, PTL DEF Spec

\* When StorageCheck finds no news, the user interface has a letter of each
\* kind that has one, and of a kind that has none only one that is masked.
NoNewsIsTrue ==
    (\A s \in Letters : ~HasNews(s)) =>
        \A k \in {"usb", "sd"} :
            IF \E s \in Letters : drives[s].avail /\ Kind(drives[s].disk) = k
              THEN storageTable[k] # NoLetter
              ELSE storageTable[k] = NoLetter \/ Kind(drives[storageTable[k]].disk) # k

\* The calls of StorageCheck that the user interface is behind for one kind:
\* one to see a removal, one to see a letter.
Behind(k) ==
    CASE storageTable[k] = NoLetter -> 1
      [] storageTable[k] # NoLetter ->
           LET d == drives[storageTable[k]]
           IN  IF ~d.avail /\ Kind(d.disk) = k THEN 2 ELSE 0
NewsLeft == Behind("usb") + Behind("sd")

\* Every report brings the user interface nearer to the letters as they are.
ReportsEnd == [][StorageCheck => NewsLeft' < NewsLeft]_vars

LEMMA NoNews == ASSUME IInv, LettersOfDisks PROVE NoNewsIsTrue
<1>1. SUFFICES ASSUME \A s \in Letters : ~HasNews(s), NEW k \in {"usb", "sd"}
               PROVE  IF \E s \in Letters : drives[s].avail /\ Kind(drives[s].disk) = k
                        THEN storageTable[k] # NoLetter
                        ELSE storageTable[k] = NoLetter \/ Kind(drives[storageTable[k]].disk) # k
    BY DEF NoNewsIsTrue
<1>2. StorageTypeOK
    BY TypeParts DEF IInv
<1>3. ASSUME NEW s \in Letters, drives[s].avail, Kind(drives[s].disk) = k
      PROVE  storageTable[k] # NoLetter
    BY <1>1, <1>3 DEF HasNews, LettersOfDisks
<1>4. ASSUME storageTable[k] # NoLetter, ~drives[storageTable[k]].avail
      PROVE  Kind(drives[storageTable[k]].disk) # k
    <2>1. storageTable[k] \in Letters /\ drives[storageTable[k]].disk \in Disks
        BY <1>2, <1>4 DEF StorageTypeOK, LettersOfDisks
    <2>2. QED BY <1>1, <1>4, <2>1 DEF HasNews
<1>5. storageTable[k] # NoLetter => storageTable[k] \in Letters
    BY <1>2 DEF StorageTypeOK
<1>6. QED BY <1>3, <1>4, <1>5

LEMMA ReportCounts == ASSUME IInv, LettersOfDisks, StorageCheck PROVE NewsLeft' < NewsLeft
<1>1. StorageTypeOK
    BY TypeParts DEF IInv
<1>2. PICK s \in Letters : HasNews(s) /\ (StorageInserted(s) \/ StorageRemoved(s))
    BY DEF StorageCheck
<1>3. UNCHANGED drives /\ s # NoLetter
    BY StorageFrame, LettersAssumption DEF driveVars
<1>4. PICK k \in {"usb", "sd"} : k = Kind(drives[s].disk)
    BY DEF Kind
<1>5. Behind("usb") \in 0 .. 2 /\ Behind("sd") \in 0 .. 2
    BY DEF Behind
<1>6. Behind(k)' < Behind(k) /\ \A j \in {"usb", "sd"} \ {k} : Behind(j)' = Behind(j)
    <2>1. CASE StorageInserted(s)
        <3>1. drives[s].avail /\ storageTable[k] = NoLetter /\ storageTable' = [storageTable EXCEPT ![k] = s]
            BY <1>4, <2>1 DEF StorageInserted
        <3>2. storageTable'[k] = s /\ \A j \in {"usb", "sd"} \ {k} : storageTable'[j] = storageTable[j]
            BY <1>1, <1>3, <3>1 DEF StorageTypeOK
        <3>3. Behind(k) = 1 /\ Behind(k)' = 0
            BY <1>3, <1>4, <3>1, <3>2 DEF Behind
        <3>4. \A j \in {"usb", "sd"} \ {k} : Behind(j)' = Behind(j)
            BY <1>3, <3>2 DEF Behind
        <3>5. QED BY <3>3, <3>4
    <2>2. CASE StorageRemoved(s)
        <3>1. ~drives[s].avail /\ storageTable[k] = s /\ storageTable' = [storageTable EXCEPT ![k] = NoLetter]
            BY <1>4, <2>2 DEF StorageRemoved
        <3>2. storageTable'[k] = NoLetter /\ \A j \in {"usb", "sd"} \ {k} : storageTable'[j] = storageTable[j]
            BY <1>1, <1>3, <3>1 DEF StorageTypeOK
        <3>3. Behind(k) = 2 /\ Behind(k)' = 1
            BY <1>3, <1>4, <3>1, <3>2 DEF Behind
        <3>4. \A j \in {"usb", "sd"} \ {k} : Behind(j)' = Behind(j)
            BY <1>3, <3>2 DEF Behind
        <3>5. QED BY <3>3, <3>4
    <2>3. QED BY <1>2, <2>1, <2>2
<1>7. Behind("usb")' \in 0 .. 2 /\ Behind("sd")' \in 0 .. 2
    BY DEF Behind
<1>8. CASE k = "usb"
    BY <1>5, <1>6, <1>7, <1>8 DEF NewsLeft
<1>9. CASE k = "sd"
    BY <1>5, <1>6, <1>7, <1>9 DEF NewsLeft
<1>10. QED BY <1>8, <1>9

\* StorageCheck: it reports until the user interface agrees with the letters,
\* and after as many calls as there are news it has nothing more to report.
THEOREM InterfaceCatchesUp == Spec => []NoNewsIsTrue /\ ReportsEnd
<1>1. IInv /\ LettersOfDisks => NoNewsIsTrue
    BY NoNews
<1>2. IInv /\ LettersOfDisks /\ [Next]_vars => [StorageCheck => NewsLeft' < NewsLeft]_vars
    BY ReportCounts
<1>3. QED BY <1>1, <1>2, IInvHolds, LettersHold, PTL DEF Spec, ReportsEnd
=============================================================================
