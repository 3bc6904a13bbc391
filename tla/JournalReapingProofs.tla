----------------------- MODULE JournalReapingProofs -------------------------
(***************************************************************************)
(* No journal block is reaped while it is needed, for any number of zones, *)
(* writes, pages and slab journal blocks and any size of journal.          *)
(***************************************************************************)
EXTENDS JournalReaping, FiniteSetTheorems, TLAPS

-----------------------------------------------------------------------------
(* The inductive invariant.                                                *)

(* The order of the journal's sequence numbers.                            *)
Ordered ==
  /\ 1 <= blockMapHead /\ blockMapHead <= blockMapReapHead
  /\ 1 <= slabJournalHead /\ slabJournalHead <= slabJournalReapHead
  /\ blockMapReapHead <= recycled /\ slabJournalReapHead <= recycled
  /\ recycled <= recycleTo /\ recycleTo <= tail
  /\ lastWriteAcknowledged <= tail
  /\ tail <= blockMapHead + Size /\ tail <= slabJournalHead + Size

(* What the steps of the journal thread and its administrative states say. *)
Moded ==
  /\ recycleTo = tail => entryCount = EntriesPerBlock \/ recycled = tail
  /\ step = "recycle" => recycled < recycleTo
  /\ step \in {"idle", "drain", "drainThenReap"} => recycled = recycleTo
  /\ step \in {"drain", "drainThenReap"} => isDraining
  /\ admin # "normal" => /\ recycled = recycleTo /\ tail <= recycled + 1
                         /\ \A v \in DataVIOs : stage[v] = "idle"
                         /\ \A z \in LogicalZones : zoneStep[z] = "idle"
  /\ admin \in {"saving", "saved"} => \A p \in Pages : pageLock[p] = 0
  /\ admin = "saved" => recycled = tail

(* A block which somebody needs is between the reap head and the tail.     *)
Needed ==
  /\ \A v \in DataVIOs : stage[v] # "idle" =>
       /\ blockMapReapHead <= increment[v] /\ slabJournalReapHead <= increment[v]
       /\ increment[v] < tail
       /\ stage[v] = "decremented" => increment[v] <= decrement[v] /\ decrement[v] < tail
  /\ \A p \in Pages : pageLock[p] # 0 => blockMapReapHead <= pageLock[p] /\ pageLock[p] < tail
  /\ \A b \in SlabBlocks : slabLock[b] # 0 =>
       slabJournalReapHead <= slabLock[b] /\ slabLock[b] < tail
  /\ \A z \in Zones : zoneOldLock[z] # 0 =>
       blockMapReapHead <= zoneOldLock[z] /\ zoneOldLock[z] < tail

(* The update in progress in a zone has a DataVIO of its own.              *)
Updating ==
  /\ \A z \in Zones :
       /\ zoneStep[z] \in {"releaseOld", "releaseEntry"} => zoneVIO[z] # NoVIO
       /\ zoneVIO[z] # NoVIO => stage[zoneVIO[z]] = "updating" /\ zoneStep[z] # "idle"
       /\ zoneOldLock[z] # 0 <=> zoneStep[z] = "releaseOld"
       /\ z \in PhysicalZones => zoneVIO[z] = NoVIO
  /\ \A y, z \in Zones : y # z /\ zoneVIO[y] = zoneVIO[z] => zoneVIO[z] = NoVIO

(* The journal zone's references to a lock: those of the DataVIOs, and     *)
(* while the block is not recycled its own and those of its free entries.  *)
journalZoneCount(l) == journalCounters[l] - journalDecrementCounts[l]
EntryHolders(l) == {v \in DataVIOs : stage[v] # "idle" /\ BlockNumber(increment[v]) = l}
surplus(l) == journalZoneCount(l) - Cardinality(EntryHolders(l))
ownLocks(s) == IF s = tail - 1 THEN 1 + EntriesPerBlock - entryCount ELSE 1

JournalCounted ==
  /\ \A s \in recycled .. tail - 1 : surplus(BlockNumber(s)) = ownLocks(s)
  /\ \A l \in Locks : (\A s \in recycled .. tail - 1 : BlockNumber(s) # l) => surplus(l) = 0

(* What isLocked() has read stays true until it has read the rest.         *)
ReadValid ==
  /\ step = "blockMapZone" => /\ blockMapReapHead < lastWriteAcknowledged
                              /\ ~isJournalZoneLocked(BlockNumber(blockMapReapHead))
  /\ step = "slabZone" => /\ slabJournalReapHead < lastWriteAcknowledged
                          /\ ~isJournalZoneLocked(BlockNumber(slabJournalReapHead))

Inv ==
  /\ TypeOK
  /\ Ordered
  /\ Moded
  /\ Needed
  /\ Updating
  /\ JournalCounted
  /\ CountsMatchHolders
  /\ ReadValid

-----------------------------------------------------------------------------
(* getRecoveryJournalBlockNumber() is a block of the journal.              *)
LEMMA BlockNumberInRange == \A s \in Nat : BlockNumber(s) \in Locks
  BY SizeAssumption DEF BlockNumber, Locks

(* Two sequence numbers less than a journal apart share a block only when  *)
(* they are equal.                                                         *)
LEMMA BlockNumberInjective ==
  \A a, b \in Nat : BlockNumber(a) = BlockNumber(b) /\ a < b + Size /\ b < a + Size => a = b
<1>1. ASSUME NEW a \in Nat, NEW b \in Nat, a % Size = b % Size, a < b + Size, b < a + Size
      PROVE  a = b
  <2> DEFINE q == a \div Size
             r == b \div Size
  <2>1. q \in Int /\ r \in Int /\ a = Size * q + (a % Size) /\ b = Size * r + (b % Size)
    BY SizeAssumption
  <2>2. a % Size \in Int
    BY SizeAssumption
  <2>3. a - b = Size * (q - r)
    BY <1>1, <2>1, <2>2, SizeAssumption
  <2>4. \A n \in Nat \ {0}, k \in Int : (k > 0 => n * k >= n) /\ (k < 0 => n * k <= -n)
    OBVIOUS
  <2>5. q - r \in Int /\ ~(q - r > 0) /\ ~(q - r < 0)
    <3> HIDE DEF q, r
    <3> QED BY <1>1, <2>1, <2>3, <2>4, SizeAssumption
  <2> HIDE DEF q, r
  <2> QED BY <1>1, <2>1, <2>3, <2>5, SizeAssumption
<1> QED BY Zenon, <1>1 DEF BlockNumber

(* The initial state satisfies the type invariant.                         *)
LEMMA InitTypeOK == Init => TypeOK
<1> SUFFICES ASSUME Init PROVE TypeOK
  BY Zenon
<1>1. LockCounterTypeOK
  <2>1. state \in LockCounterStates
    BY Zenon DEF Init, makeLockCounter, LockCounterStates
  <2>3. enqueued \in BOOLEAN
    BY Zenon DEF Init, makeLockCounter
  <2>2. /\ logicalZoneCounts \in [Locks -> Int] /\ physicalZoneCounts \in [Locks -> Int]
        /\ journalCounters \in [Locks -> Int] /\ journalDecrementCounts \in [Locks -> Int]
    <3>1. [l \in Locks |-> 0] \in [Locks -> Int]
      OBVIOUS
    <3> QED BY <3>1, Zenon DEF Init, makeLockCounter
  <2>4. counters \in [Zones -> [Locks -> Int]]
    <3>1. [l \in Locks |-> 0] \in [Locks -> Int]
      OBVIOUS
    <3> QED BY <3>1, Zenon DEF Init, makeLockCounter
  <2> QED BY Zenon, <2>1, <2>2, <2>3, <2>4 DEF LockCounterTypeOK
<1>4. reaping \in BOOLEAN
  BY Zenon DEF Init
<1>2. /\ admin \in AdminStates /\ step \in Steps
      /\ tail \in Sequence /\ entryCount \in 0 .. EntriesPerBlock
      /\ recycled \in Sequence /\ recycleTo \in Sequence /\ lastWriteAcknowledged \in Sequence
      /\ blockMapHead \in Sequence /\ slabJournalHead \in Sequence
      /\ blockMapReapHead \in Sequence /\ slabJournalReapHead \in Sequence
  BY ReapingAssumption DEF Init, AdminStates, Steps, Sequence
<1>3. /\ stage \in [DataVIOs -> Stages]
      /\ increment \in [DataVIOs -> Nat] /\ decrement \in [DataVIOs -> Nat]
      /\ pageLock \in [Pages -> Nat] /\ slabLock \in [SlabBlocks -> Nat]
      /\ zoneStep \in [Zones -> ZoneSteps]
      /\ zoneVIO \in [Zones -> DataVIOs \cup {NoVIO}]
      /\ zoneOldLock \in [Zones -> Nat]
  BY Zenon DEF Init, Stages, ZoneSteps, Sequence
<1> QED BY Zenon, <1>1, <1>2, <1>3, <1>4 DEF TypeOK

(* A zone's acquisitions and releases preserve the counter's type.         *)
LEMMA AcquireType ==
  ASSUME LockCounterTypeOK, NEW z \in Zones, NEW l \in Locks, acquireLockCountReference(z, l)
  PROVE  LockCounterTypeOK'
  BY DEF LockCounterTypeOK, acquireLockCountReference, addToZoneCount

LEMMA ReleaseType ==
  ASSUME LockCounterTypeOK, NEW z \in Zones, NEW l \in Locks, releaseLockCountReference(z, l)
  PROVE  LockCounterTypeOK'
  BY DEF LockCounterTypeOK, releaseLockCountReference, addToZoneCount

(* Recycling the active block keeps the counts numbers.                    *)
LEMMA ReleaseActiveBlockType == TypeOK => releaseActiveBlock \in [Locks -> Int]
<1> SUFFICES ASSUME TypeOK PROVE releaseActiveBlock \in [Locks -> Int]
  BY Zenon
<1>1. journalCounters \in [Locks -> Int] /\ entryCount \in 0 .. EntriesPerBlock
  BY Zenon DEF TypeOK, LockCounterTypeOK
<1>2. tail - 1 \in Nat
  BY DEF TypeOK, Sequence
<1> QED BY <1>1, <1>2, ReapingAssumption, BlockNumberInRange DEF releaseActiveBlock

(* Every step preserves the type invariant.                                *)
LEMMA NextTypeOK == TypeOK /\ Updating /\ [Next]_vars => TypeOK'
<1> SUFFICES ASSUME TypeOK, Updating, [Next]_vars PROVE TypeOK'
  BY Zenon
<1> USE ReapingAssumption, SizeAssumption, BlockNumberInRange
        DEF TypeOK, LockCounterTypeOK, Sequence, Zones
<1>1. ASSUME NEW v \in DataVIOs, AssignIncrement(v) PROVE TypeOK'
  BY <1>1 DEF AssignIncrement, assignEntry, prepareToAssignEntry, entryBlock, needsNewBlock,
       initializeLockCount, lockVars, countVars, zoneCountVars, headVars, reapVars, zoneVars, Stages
<1>2. ASSUME NEW v \in DataVIOs, AssignDecrement(v) PROVE TypeOK'
  BY <1>2 DEF AssignDecrement, assignEntry, prepareToAssignEntry, entryBlock, needsNewBlock,
       initializeLockCount, releaseJournalZoneReference, zoneCountVars, headVars, reapVars,
       zoneVars, Stages, Steps
<1>3. ASSUME NEW s \in 1 .. tail, NEW n \in 1 .. tail, CompleteWrite(s, n) PROVE TypeOK'
  BY <1>3 DEF CompleteWrite, lockVars, countVars, zoneCountVars, vioVars, zoneVars, headVars,
       reapVars, Steps
<1>4. ASSUME RecycleBlock PROVE TypeOK'
  BY <1>4 DEF RecycleBlock, releaseJournalZoneReference, zoneCountVars, vioVars, zoneVars,
       headVars, reapVars, Steps
<1>5. ASSUME NotifyInline PROVE TypeOK'
  BY <1>5, Zenon DEF NotifyInline, attemptInlineNotification, countVars, zoneCountVars, vioVars,
       zoneVars, blockVars, headVars, reapVars, Steps, done, LockCounterStates
<1>6. ASSUME ReapCallback PROVE TypeOK'
  BY <1>6, Zenon DEF ReapCallback, acknowledgeUnlock, countVars, zoneCountVars, vioVars, zoneVars,
       blockVars, headVars, reapVars, Steps, done, startReaping, LockCounterStates
<1>7. ASSUME ReapBlockMap PROVE TypeOK'
  BY <1>7 DEF ReapBlockMap, lockVars, countVars, zoneCountVars, vioVars, zoneVars, blockVars,
       headVars, Steps
<1>8. ASSUME ReapSlabJournal PROVE TypeOK'
  BY <1>8 DEF ReapSlabJournal, lockVars, countVars, zoneCountVars, vioVars, zoneVars, blockVars,
       headVars, Steps
<1>9. ASSUME FinishReap PROVE TypeOK'
  BY <1>9, Zenon DEF FinishReap, finishReaping, lockVars, countVars, zoneCountVars, vioVars, zoneVars,
       blockVars, headVars, reapVars, Steps, done
<1>10. ASSUME CheckForDrainComplete PROVE TypeOK'
  <2> USE <1>10 DEF CheckForDrainComplete, countVars, zoneCountVars, vioVars, zoneVars, headVars,
        reapVars, Steps, AdminStates, LockCounterStates
  <2>1. CASE reaping \/ state = "notifying"
    BY <2>1, Zenon DEF lockVars
  <2>2. CASE ~(reaping \/ state = "notifying")
    <3>1. releaseActiveBlock \in [Locks -> Int]
      BY ReleaseActiveBlockType, Zenon
    <3> QED BY <2>2, <3>1, Zenon
  <2> QED BY <2>1, <2>2, Zenon
<1>11. ASSUME DequeueCallback PROVE TypeOK'
  BY <1>11, Zenon DEF DequeueCallback, countVars, zoneCountVars, vioVars, zoneVars, blockVars,
       headVars, reapVars, Steps
<1>12. ASSUME CompleteReaping PROVE TypeOK'
  BY <1>12, Zenon DEF CompleteReaping, finishReaping, lockVars, countVars, zoneCountVars, vioVars,
       zoneVars, blockVars, reapVars, Steps
<1>13. ASSUME NEW operation \in {"suspending", "saving"}, Drain(operation) PROVE TypeOK'
  BY Zenon, <1>13 DEF Drain, lockVars, countVars, zoneCountVars, vioVars, zoneVars, blockVars,
       headVars, reapVars, Steps, AdminStates
<1>14. ASSUME Resume PROVE TypeOK'
  <2> USE <1>14 DEF Resume, resumeLockCounter, countVars, zoneCountVars, vioVars, zoneVars,
        blockVars, headVars, reapVars, Steps, AdminStates, LockCounterStates
  <2>1. CASE admin = "saved"
    BY <2>1, Zenon
  <2>2. CASE admin # "saved"
    BY <2>2, Zenon
  <2> QED BY <2>1, <2>2, Zenon
<1>15. ASSUME NEW v \in DataVIOs, NEW p \in Pages, UpdateBlockMapPage(v, p) PROVE TypeOK'
  <2> USE <1>15 DEF UpdateBlockMapPage, journalVars, blockVars, headVars, reapVars, Stages,
        ZoneSteps
  <2>1. CASE pageLock[p] = 0 \/ pageLock[p] > increment[v]
    <3>1. LockCounterTypeOK'
      BY Zenon, <2>1, AcquireType
    <3> HIDE DEF LockCounterTypeOK
    <3>2. pageLock' \in [Pages -> Nat]
      BY <2>1
    <3>3. zoneOldLock' \in [Zones -> Nat]
      BY <2>1
    <3> QED BY <2>1, <3>1, <3>2, <3>3
  <2>2. CASE ~(pageLock[p] = 0 \/ pageLock[p] > increment[v])
    BY <2>2, Zenon DEF lockVars, countVars, zoneCountVars
  <2> QED BY Zenon, <2>1, <2>2
<1>16. ASSUME NEW v \in DataVIOs, NEW b \in SlabBlocks, AddSlabJournalEntry(v, b) PROVE TypeOK'
  <2> USE <1>16 DEF AddSlabJournalEntry, journalVars, blockVars, headVars, reapVars, Stages
  <2>1. CASE slabLock[b] = 0
    <3>1. LockCounterTypeOK'
      BY Zenon, <2>1, AcquireType
    <3> HIDE DEF LockCounterTypeOK
    <3> QED BY <2>1, <3>1
  <2>2. CASE slabLock[b] # 0
    BY <2>2 DEF lockVars, countVars, zoneCountVars
  <2> QED BY Zenon, <2>1, <2>2
<1>17. ASSUME NEW z \in Zones, ReleaseOldLock(z) PROVE TypeOK'
  BY <1>17 DEF ReleaseOldLock, releaseLockCountReference, addToZoneCount, vioVars, journalVars,
       blockVars, headVars, reapVars, ZoneSteps
<1>18. ASSUME NEW z \in Zones, Notify(z) PROVE TypeOK'
  BY <1>18, Zenon DEF Notify, attemptNotification, countVars, zoneCountVars, vioVars, journalVars,
       blockVars, headVars, reapVars, ZoneSteps, LockCounterStates
<1>19. ASSUME NEW z \in Zones, ReleaseEntryLock(z) PROVE TypeOK'
  <2> USE <1>19 DEF ReleaseEntryLock, releaseJournalZoneReferenceFromOtherZone, zoneCountVars,
        journalVars, blockVars, headVars, reapVars, ZoneSteps, Stages
  <2>1. LockCounterTypeOK'
    BY DEF Updating
  <2>2. stage' \in [DataVIOs -> Stages]
    BY Zenon
  <2> QED BY Zenon, <2>1, <2>2
<1>20. ASSUME NEW p \in Pages, PageWritten(p) PROVE TypeOK'
  BY <1>20 DEF PageWritten, releaseLockCountReference, addToZoneCount, vioVars, journalVars,
       blockVars, headVars, reapVars, ZoneSteps
<1>21. ASSUME NEW b \in SlabBlocks, ReleaseJournalLocks(b) PROVE TypeOK'
  BY <1>21 DEF ReleaseJournalLocks, releaseLockCountReference, addToZoneCount, vioVars,
       journalVars, blockVars, headVars, reapVars, ZoneSteps
<1>22. CASE UNCHANGED vars
  BY Zenon, <1>22 DEF vars, lockVars, countVars, zoneCountVars, vioVars, zoneVars, journalVars, blockVars,
       headVars, reapVars
<1> QED
  BY <1>1, <1>2, <1>3, <1>4, <1>5, <1>6, <1>7, <1>8, <1>9, <1>10, <1>11, <1>12, <1>13, <1>14,
     <1>15, <1>16, <1>17, <1>18, <1>19, <1>20, <1>21, <1>22, Zenon
     DEF Next, JournalNext, ZoneNext, ZoneStep, JournalStep

-----------------------------------------------------------------------------
(* A step of the zones leaves the journal thread's variables alone.        *)
LEMMA ZoneFrame == ZoneNext => UNCHANGED journalVars
  BY Zenon DEF ZoneNext, ZoneStep, UpdateBlockMapPage, AddSlabJournalEntry, ReleaseOldLock, Notify,
         ReleaseEntryLock, PageWritten, ReleaseJournalLocks

(* A step of the journal thread leaves the zones and their counts alone.   *)
LEMMA JournalFrame == JournalNext => UNCHANGED <<zoneVars, zoneCountVars>>
<1> SUFFICES ASSUME JournalNext PROVE UNCHANGED <<zoneVars, zoneCountVars>>
  BY Zenon
<1> USE DEF lockVars, countVars
<1>1. ASSUME NEW v \in DataVIOs, AssignIncrement(v) \/ AssignDecrement(v)
      PROVE  UNCHANGED <<zoneVars, zoneCountVars>>
  BY Zenon, <1>1 DEF AssignIncrement, AssignDecrement, initializeLockCount, releaseJournalZoneReference,
       zoneCountVars
<1>2. CASE JournalStep
  BY <1>2, Zenon DEF JournalStep, RecycleBlock, NotifyInline, ReapCallback, ReapBlockMap, ReapSlabJournal,
       FinishReap, CheckForDrainComplete, releaseJournalZoneReference, attemptInlineNotification,
       acknowledgeUnlock, zoneCountVars
<1>3. CASE \E s, n \in 1 .. tail : CompleteWrite(s, n)
  BY Zenon, <1>3 DEF CompleteWrite
<1>4. CASE DequeueCallback \/ CompleteReaping \/ Resume
  BY <1>4, Zenon DEF DequeueCallback, CompleteReaping, Resume, resumeLockCounter
<1>5. CASE \E operation \in {"suspending", "saving"} : Drain(operation)
  BY Zenon, <1>5 DEF Drain
<1> QED BY Zenon, <1>1, <1>2, <1>3, <1>4, <1>5 DEF JournalNext

-----------------------------------------------------------------------------
(* The holders of a lock are finitely many.                                *)
LEMMA EntryHoldersFinite ==
  \A l : IsFiniteSet(EntryHolders(l)) /\ Cardinality(EntryHolders(l)) \in Nat
<1> SUFFICES ASSUME NEW l
             PROVE  IsFiniteSet(EntryHolders(l)) /\ Cardinality(EntryHolders(l)) \in Nat
  BY Zenon
<1>1. EntryHolders(l) \subseteq DataVIOs
  BY Zenon DEF EntryHolders
<1> QED BY Zenon, <1>1, ReapingAssumption, FS_Subset, FS_CardinalityType

(* A block whose journal zone lock is free has been recycled, and no       *)
(* DataVIO has its entry there.                                            *)
LEMMA UnlockedIsRecycled ==
  ASSUME TypeOK, JournalCounted, NEW s \in Nat, s < tail, ~isJournalZoneLocked(BlockNumber(s))
  PROVE  s < recycled /\ EntryHolders(BlockNumber(s)) = {}
<1> DEFINE l == BlockNumber(s)
<1>1. l \in Locks
  BY Zenon, BlockNumberInRange
<1>2. journalZoneCount(l) = 0
  BY <1>1 DEF journalZoneCount, isJournalZoneLocked, TypeOK, LockCounterTypeOK
<1>3. \A t \in recycled .. tail - 1 : BlockNumber(t) # l
  <2> SUFFICES ASSUME NEW t \in recycled .. tail - 1, BlockNumber(t) = l PROVE FALSE
    BY Zenon
  <2>1. ownLocks(t) \in Int /\ ownLocks(t) >= 1
    BY ReapingAssumption DEF ownLocks, TypeOK
  <2>2. journalZoneCount(l) - Cardinality(EntryHolders(l)) = ownLocks(t)
    BY Zenon DEF JournalCounted, surplus
  <2>3. Cardinality(EntryHolders(l)) \in Nat
    BY Zenon, EntryHoldersFinite
  <2> QED BY <1>2, <2>1, <2>2, <2>3
<1>4. s < recycled
  BY <1>3 DEF TypeOK, Sequence
<1>5. Cardinality(EntryHolders(l)) = 0
  BY <1>1, <1>2, <1>3, EntryHoldersFinite DEF JournalCounted, surplus
<1>6. EntryHolders(l) = {}
  BY Zenon, <1>5, EntryHoldersFinite, FS_EmptySet
<1> QED BY Zenon, <1>4, <1>6

(* Every step preserves the order of the sequence numbers.                 *)
LEMMA NextOrdered == Inv /\ [Next]_vars => Ordered'
<1> SUFFICES ASSUME Inv, [Next]_vars PROVE Ordered'
  BY Zenon
<1> USE SizeAssumption DEF Inv, Ordered, TypeOK, Sequence
<1>1. ASSUME assignEntry PROVE Ordered'
  BY <1>1 DEF assignEntry, prepareToAssignEntry, getRecoveryJournalHead, Least, headVars, reapVars
<1>2. ASSUME NEW s \in 1 .. tail, NEW n \in 1 .. tail, CompleteWrite(s, n) PROVE Ordered'
  BY <1>2 DEF CompleteWrite, headVars, reapVars
<1>3. ASSUME RecycleBlock PROVE Ordered'
  BY <1>3 DEF RecycleBlock, headVars, reapVars, Moded
<1>4. ASSUME ReapBlockMap PROVE Ordered'
  <2>1. blockMapReapHead' # blockMapReapHead => blockMapReapHead < recycled
    BY <1>4, UnlockedIsRecycled DEF ReapBlockMap, ReadValid
  <2> QED BY <1>4, <2>1 DEF ReapBlockMap, blockVars, headVars
<1>5. ASSUME ReapSlabJournal PROVE Ordered'
  <2>1. slabJournalReapHead' # slabJournalReapHead => slabJournalReapHead < recycled
    BY <1>5, UnlockedIsRecycled DEF ReapSlabJournal, ReadValid
  <2> QED BY <1>5, <2>1 DEF ReapSlabJournal, blockVars, headVars
<1>6. ASSUME FinishReap \/ CompleteReaping PROVE Ordered'
  BY <1>6 DEF FinishReap, CompleteReaping, finishReaping, blockVars, headVars, reapVars
<1>7. ASSUME CheckForDrainComplete PROVE Ordered'
  BY <1>7 DEF CheckForDrainComplete, headVars, reapVars, Moded
<1>8. ASSUME Resume PROVE Ordered'
  <2>1. CASE admin = "saved"
    BY <1>8, <2>1 DEF Resume, blockVars, Moded
  <2>2. CASE admin # "saved"
    BY Zenon, <1>8, <2>2 DEF Resume, blockVars, reapVars
  <2> QED BY Zenon, <2>1, <2>2
<1>9. ASSUME NotifyInline \/ ReapCallback \/ DequeueCallback PROVE Ordered'
  BY <1>9, Zenon DEF NotifyInline, ReapCallback, DequeueCallback, blockVars, headVars, reapVars
<1>10. ASSUME NEW operation \in {"suspending", "saving"}, Drain(operation) PROVE Ordered'
  BY Zenon, <1>10 DEF Drain, blockVars, headVars, reapVars
<1>11. ASSUME UNCHANGED journalVars PROVE Ordered'
  BY Zenon, <1>11 DEF journalVars, blockVars, headVars, reapVars
<1> HIDE DEF Inv, Ordered, TypeOK
<1> QED
  BY Zenon, <1>1, <1>2, <1>3, <1>4, <1>5, <1>6, <1>7, <1>8, <1>9, <1>10, <1>11, ZoneFrame
     DEF Next, JournalNext, JournalStep, AssignIncrement, AssignDecrement, vars

(* Every step preserves what the modes of the journal say.                 *)
LEMMA NextModed == Inv /\ [Next]_vars => Moded'
<1> SUFFICES ASSUME Inv, [Next]_vars PROVE Moded'
  OBVIOUS
<1> USE ReapingAssumption DEF Inv, Moded, isDraining
<1>1. ASSUME NEW v \in DataVIOs, AssignIncrement(v) \/ AssignDecrement(v) PROVE Moded'
  BY <1>1 DEF AssignIncrement, AssignDecrement, assignEntry, prepareToAssignEntry, Ordered, TypeOK,
       Sequence, needsNewBlock, entryBlock
<1>2. ASSUME NEW s \in 1 .. tail, NEW n \in 1 .. tail, CompleteWrite(s, n) PROVE Moded'
  BY <1>2 DEF CompleteWrite, TypeOK, Sequence, Ordered
<1>3. ASSUME RecycleBlock PROVE Moded'
  BY SMTT(30), <1>3 DEF RecycleBlock, TypeOK, Sequence, Ordered, zoneVars, vioVars
<1>4. ASSUME ReapBlockMap \/ ReapSlabJournal PROVE Moded'
  BY <1>4 DEF ReapBlockMap, ReapSlabJournal, blockVars, zoneVars, vioVars
<1>5. ASSUME FinishReap PROVE Moded'
  BY <1>5 DEF FinishReap, finishReaping, done, blockVars, zoneVars, vioVars, TypeOK, Sequence,
       Ordered
<1>6. ASSUME CompleteReaping PROVE Moded'
  BY Zenon, <1>6 DEF CompleteReaping, blockVars, zoneVars, vioVars
<1>7. ASSUME CheckForDrainComplete PROVE Moded'
  BY <1>7 DEF CheckForDrainComplete, TypeOK, Sequence, Ordered, zoneVars, vioVars, AdminStates
<1>8. ASSUME Resume PROVE Moded'
  BY Zenon, <1>8 DEF Resume, isQuiescent, blockVars, zoneVars, vioVars
<1>9. ASSUME NotifyInline \/ ReapCallback \/ DequeueCallback PROVE Moded'
  <2> USE DEF startReaping, done, blockVars, zoneVars, vioVars, TypeOK, Sequence, Ordered
  <2>1. CASE NotifyInline
    <3>1. step' = "callback" \/ step' = done
      BY <2>1, Zenon DEF NotifyInline
    <3>2. UNCHANGED <<admin, blockVars, zoneVars, vioVars>>
      BY <2>1, Zenon DEF NotifyInline
    <3>3. recycled <= recycleTo /\ recycled \in Nat /\ recycleTo \in Nat
      BY Zenon
    <3> QED BY <3>1, <3>2, <3>3
  <2>2. CASE ReapCallback
    BY <2>2 DEF ReapCallback
  <2>3. CASE DequeueCallback
    BY Zenon, <2>3 DEF DequeueCallback
  <2> QED BY Zenon, <1>9, <2>1, <2>2, <2>3
<1>10. ASSUME NEW operation \in {"suspending", "saving"}, Drain(operation) PROVE Moded'
  BY <1>10 DEF Drain, allCommitted, blockVars, zoneVars, vioVars, TypeOK, Sequence, Ordered
<1>11. ASSUME NEW v \in DataVIOs, NEW p \in Pages, UpdateBlockMapPage(v, p) PROVE Moded'
  BY Zenon, <1>11 DEF UpdateBlockMapPage, journalVars, blockVars
<1>12. ASSUME NEW v \in DataVIOs, NEW b \in SlabBlocks, AddSlabJournalEntry(v, b) PROVE Moded'
  BY Zenon, <1>12 DEF AddSlabJournalEntry, journalVars, blockVars
<1>13. ASSUME NEW z \in Zones, ZoneStep(z) PROVE Moded'
  <2>1. CASE ReleaseOldLock(z)
    BY <2>1 DEF ReleaseOldLock, journalVars, blockVars, vioVars
  <2>2. CASE Notify(z)
    BY <2>2 DEF Notify, journalVars, blockVars, vioVars
  <2>3. CASE ReleaseEntryLock(z)
    BY <2>3 DEF ReleaseEntryLock, journalVars, blockVars, TypeOK
  <2> QED BY Zenon, <1>13, <2>1, <2>2, <2>3 DEF ZoneStep
<1>14. ASSUME NEW p \in Pages, PageWritten(p) PROVE Moded'
  BY Zenon, <1>14 DEF PageWritten, journalVars, blockVars, vioVars
<1>15. ASSUME NEW b \in SlabBlocks, ReleaseJournalLocks(b) PROVE Moded'
  BY <1>15, ZonesAssumption, ReapingAssumption
     DEF ReleaseJournalLocks, journalVars, blockVars, vioVars, TypeOK, Zones
<1>16. CASE UNCHANGED vars
  BY Zenon, <1>16 DEF vars, journalVars, blockVars, zoneVars, vioVars
<1> HIDE DEF Inv, Moded
<1> QED
  BY <1>1, <1>2, <1>3, <1>4, <1>5, <1>6, <1>7, <1>8, <1>9, <1>10, <1>11, <1>12, <1>13, <1>14,
     <1>15, <1>16
     DEF Next, JournalNext, ZoneNext, JournalStep

-----------------------------------------------------------------------------
(* The pages, slab journal blocks and updates of a zone are finitely many. *)
LEMMA HoldersFinite ==
  \A z, l : /\ IsFiniteSet(PageHolders(z, l)) /\ Cardinality(PageHolders(z, l)) \in Nat
            /\ IsFiniteSet(SlabHolders(z, l)) /\ Cardinality(SlabHolders(z, l)) \in Nat
            /\ IsFiniteSet(UpdateHolders(z, l)) /\ Cardinality(UpdateHolders(z, l)) \in Nat
<1> SUFFICES ASSUME NEW z, NEW l
             PROVE  /\ IsFiniteSet(PageHolders(z, l)) /\ Cardinality(PageHolders(z, l)) \in Nat
                    /\ IsFiniteSet(SlabHolders(z, l)) /\ Cardinality(SlabHolders(z, l)) \in Nat
                    /\ IsFiniteSet(UpdateHolders(z, l)) /\ Cardinality(UpdateHolders(z, l)) \in Nat
  BY Zenon
<1>1. PageHolders(z, l) \subseteq Pages /\ SlabHolders(z, l) \subseteq SlabBlocks
  BY Zenon DEF PageHolders, SlabHolders
<1>2. UpdateHolders(z, l) \subseteq {z} /\ IsFiniteSet({z})
  BY Zenon, FS_Singleton DEF UpdateHolders
<1> QED BY Zenon, <1>1, <1>2, ReapingAssumption, FS_Subset, FS_CardinalityType

(* The holders of a lock are counted by a natural number.                  *)
LEMMA HoldersNumber ==
  \A z, l : Cardinality(PageHolders(z, l)) + Cardinality(SlabHolders(z, l)) + Cardinality(UpdateHolders(z, l)) \in Nat
  BY HoldersFinite

(* A DataVIO in the journal has its increment entry in one of its blocks.  *)
LEMMA IncrementHasBlock ==
  ASSUME Inv, NEW v \in DataVIOs, stage[v] # "idle"
  PROVE  increment[v] \in Nat \ {0} /\ (stage[v] = "decremented" => decrement[v] \in Nat \ {0})
<1>1. increment[v] \in Nat /\ decrement[v] \in Nat /\ slabJournalReapHead \in Nat \ {0}
  BY Zenon DEF Inv, TypeOK, Sequence
<1>2. slabJournalReapHead <= increment[v] /\ (stage[v] = "decremented" => increment[v] <= decrement[v])
  BY Zenon DEF Inv, Needed
<1> QED BY <1>1, <1>2

(* The entry which addEntryFromWaiter() adds is in a block of the journal. *)
LEMMA EntryHasBlock ==
  ASSUME Inv, NEW v \in DataVIOs, NEW b \in SlabBlocks, AddSlabJournalEntry(v, b)
  PROVE  \E s \in Nat : s = (IF stage[v] = "incremented" THEN increment[v] ELSE decrement[v]) /\ s # 0
<1>1. stage[v] \in {"incremented", "decremented"}
  BY Zenon DEF AddSlabJournalEntry
<1> QED BY Zenon, <1>1, IncrementHasBlock

(* A lock whose zone count is zero is held by no zone of that type.        *)
LEMMA FreeLockHasNoHolders ==
  ASSUME TypeOK, CountsMatchHolders, NEW l \in Locks
  PROVE  /\ logicalZoneCounts[l] = 0 => \A z \in LogicalZones :
              PageHolders(z, l) = {} /\ UpdateHolders(z, l) = {}
         /\ physicalZoneCounts[l] = 0 => \A z \in PhysicalZones : SlabHolders(z, l) = {}
<1>1. ASSUME NEW z \in Zones, counters[z][l] = 0
      PROVE  PageHolders(z, l) = {} /\ SlabHolders(z, l) = {} /\ UpdateHolders(z, l) = {}
  <2>1. /\ Cardinality(PageHolders(z, l)) = 0 /\ Cardinality(SlabHolders(z, l)) = 0
        /\ Cardinality(UpdateHolders(z, l)) = 0
    BY <1>1, HoldersFinite DEF CountsMatchHolders
  <2> QED BY Zenon, <2>1, HoldersFinite, FS_EmptySet
<1>2. ASSUME NEW S, IsFiniteSet(S), Cardinality({z \in S : counters[z][l] # 0}) = 0
      PROVE  \A z \in S : counters[z][l] = 0
  <2>1. IsFiniteSet({z \in S : counters[z][l] # 0})
    BY Zenon, <1>2, FS_Subset
  <2>2. {z \in S : counters[z][l] # 0} = {}
    BY Zenon, <1>2, <2>1, FS_EmptySet
  <2> QED BY Zenon, <2>2
<1>3. logicalZoneCounts[l] = 0 => \A z \in LogicalZones : counters[z][l] = 0
  BY <1>2, ZonesAssumption, Zenon DEF CountsMatchHolders
<1>4. physicalZoneCounts[l] = 0 => \A z \in PhysicalZones : counters[z][l] = 0
  BY <1>2, ZonesAssumption, Zenon DEF CountsMatchHolders
<1> QED BY Zenon, <1>1, <1>3, <1>4 DEF Zones

(* Every step keeps the blocks which are needed: the reaper passes a block *)
(* only when nobody needs it, and nobody comes to need a reaped block.     *)
LEMMA NextNeeded == Inv /\ [Next]_vars => Needed'
<1> SUFFICES ASSUME Inv, [Next]_vars PROVE Needed'
  OBVIOUS
<1> USE ReapingAssumption, SizeAssumption DEF Inv, Needed
<1>1. ASSUME NEW v \in DataVIOs, AssignIncrement(v) \/ AssignDecrement(v) PROVE Needed'
  <2>1. /\ entryBlock \in Nat /\ recycled <= entryBlock /\ entryBlock < tail' /\ tail <= tail'
        /\ tail - 1 <= entryBlock
    BY <1>1 DEF AssignIncrement, AssignDecrement, assignEntry, entryBlock, needsNewBlock, Ordered,
         TypeOK, Sequence
  <2>2. CASE AssignIncrement(v)
    BY <2>1, <2>2 DEF AssignIncrement, assignEntry, Ordered, TypeOK, Sequence, zoneVars, reapVars
  <2>3. CASE AssignDecrement(v)
    BY <2>1, <2>3 DEF AssignDecrement, assignEntry, Ordered, TypeOK, Sequence, zoneVars, reapVars
  <2> QED BY Zenon, <1>1, <2>2, <2>3
<1>2. ASSUME ReapBlockMap PROVE Needed'
  <2> DEFINE l == BlockNumber(blockMapReapHead)
  <2>1. UNCHANGED <<stage, increment, decrement, pageLock, slabLock, zoneOldLock, tail,
                    slabJournalReapHead>>
    BY Zenon, <1>2 DEF ReapBlockMap, vioVars, zoneVars, blockVars
  <2>2. CASE blockMapReapHead' = blockMapReapHead
    BY Zenon, <2>1, <2>2
  <2>3. CASE blockMapReapHead' # blockMapReapHead
    <3>1. l \in Locks /\ logicalZoneCounts[l] = 0 /\ blockMapReapHead' = blockMapReapHead + 1
      BY Zenon, <1>2, <2>3, BlockNumberInRange DEF ReapBlockMap, zoneCountHeld, TypeOK, Sequence
    <3>2. EntryHolders(l) = {}
      BY SMTT(30), <1>2, <2>3, UnlockedIsRecycled DEF ReapBlockMap, ReadValid, TypeOK, Sequence, Ordered
    <3>3. \A v \in DataVIOs : stage[v] # "idle" => increment[v] # blockMapReapHead
      BY Zenon, <3>2 DEF EntryHolders
    <3>4. \A z \in LogicalZones : PageHolders(z, l) = {} /\ UpdateHolders(z, l) = {}
      BY Zenon, <3>1, FreeLockHasNoHolders
    <3>5. \A p \in Pages : pageLock[p] # 0 => pageLock[p] # blockMapReapHead
      BY Zenon, <3>4 DEF PageHolders
    <3>6. \A z \in Zones : zoneOldLock[z] # 0 => zoneOldLock[z] # blockMapReapHead
      BY Zenon, <3>4 DEF UpdateHolders, Updating, Zones
    <3> QED BY <2>1, <3>1, <3>3, <3>5, <3>6 DEF TypeOK, Sequence
  <2> QED BY Zenon, <2>2, <2>3
<1>3. ASSUME ReapSlabJournal PROVE Needed'
  <2> DEFINE l == BlockNumber(slabJournalReapHead)
  <2>1. UNCHANGED <<stage, increment, decrement, pageLock, slabLock, zoneOldLock, tail,
                    blockMapReapHead>>
    BY ZenonT(30), <1>3 DEF ReapSlabJournal, vioVars, zoneVars, blockVars
  <2>2. CASE slabJournalReapHead' = slabJournalReapHead
    BY Zenon, <2>1, <2>2
  <2>3. CASE slabJournalReapHead' # slabJournalReapHead
    <3>1. l \in Locks /\ physicalZoneCounts[l] = 0 /\ slabJournalReapHead' = slabJournalReapHead + 1
      BY Zenon, <1>3, <2>3, BlockNumberInRange DEF ReapSlabJournal, zoneCountHeld, TypeOK, Sequence
    <3>2. EntryHolders(l) = {}
      BY <1>3, <2>3, UnlockedIsRecycled DEF ReapSlabJournal, ReadValid, TypeOK, Sequence, Ordered
    <3>3. \A v \in DataVIOs : stage[v] # "idle" => increment[v] # slabJournalReapHead
      BY Zenon, <3>2 DEF EntryHolders
    <3>4. \A z \in PhysicalZones : SlabHolders(z, l) = {}
      BY Zenon, <3>1, FreeLockHasNoHolders
    <3>5. \A b \in SlabBlocks : slabLock[b] # 0 => slabLock[b] # slabJournalReapHead
      BY Zenon, <3>4 DEF SlabHolders
    <3> QED BY <2>1, <3>1, <3>3, <3>5 DEF TypeOK, Sequence
  <2> QED BY Zenon, <2>2, <2>3
<1>4. ASSUME Resume PROVE Needed'
  <2>1. CASE admin = "saved"
    <3>1. /\ \A v \in DataVIOs : stage[v] = "idle"
          /\ \A p \in Pages : pageLock[p] = 0
      BY Zenon, <2>1 DEF Moded
    <3>2. /\ \A b \in SlabBlocks : slabLock[b] = 0
          /\ \A z \in Zones : zoneOldLock[z] = 0
      BY Zenon, <1>4, <2>1 DEF Resume, Updating
    <3> QED BY ZenonT(30), <1>4, <2>1, <3>1, <3>2 DEF Resume, vioVars, zoneVars, blockVars
  <2>2. CASE admin # "saved"
    BY Zenon, <1>4, <2>2 DEF Resume, vioVars, zoneVars, blockVars, reapVars
  <2> QED BY Zenon, <2>1, <2>2
<1>5. ASSUME UNCHANGED <<vioVars, zoneVars, reapVars, tail>> PROVE Needed'
  BY Zenon, <1>5 DEF vioVars, zoneVars, reapVars
<1>6. ASSUME NEW v \in DataVIOs, NEW p \in Pages, UpdateBlockMapPage(v, p) PROVE Needed'
  <2>1. increment[v] \in Nat /\ blockMapReapHead <= increment[v] /\ increment[v] < tail
    BY Zenon, <1>6 DEF UpdateBlockMapPage, TypeOK
  <2> QED BY <1>6, <2>1 DEF UpdateBlockMapPage, journalVars, blockVars, reapVars, TypeOK, Zones
<1>7. ASSUME NEW v \in DataVIOs, NEW b \in SlabBlocks, AddSlabJournalEntry(v, b) PROVE Needed'
  <2> DEFINE recoveryBlock == IF stage[v] = "incremented" THEN increment[v] ELSE decrement[v]
  <2>1. recoveryBlock \in Nat /\ slabJournalReapHead <= recoveryBlock /\ recoveryBlock < tail
    BY <1>7 DEF AddSlabJournalEntry, TypeOK, Sequence
  <2> QED BY Zenon, <1>7, <2>1 DEF AddSlabJournalEntry, journalVars, blockVars, reapVars, TypeOK
<1>8. ASSUME NEW z \in Zones, ZoneStep(z) PROVE Needed'
  <2>1. CASE ReleaseOldLock(z)
    BY Zenon, <2>1 DEF ReleaseOldLock, journalVars, blockVars, reapVars, vioVars, TypeOK
  <2>2. CASE Notify(z)
    BY Zenon, <2>2 DEF Notify, journalVars, blockVars, reapVars, vioVars
  <2>3. CASE ReleaseEntryLock(z)
    BY Zenon, <2>3 DEF ReleaseEntryLock, journalVars, blockVars, reapVars, TypeOK
  <2> QED BY Zenon, <1>8, <2>1, <2>2, <2>3 DEF ZoneStep
<1>9. ASSUME NEW p \in Pages, PageWritten(p) PROVE Needed'
  BY Zenon, <1>9 DEF PageWritten, journalVars, blockVars, reapVars, vioVars, TypeOK
<1>10. ASSUME NEW b \in SlabBlocks, ReleaseJournalLocks(b) PROVE Needed'
  BY Zenon, <1>10 DEF ReleaseJournalLocks, journalVars, blockVars, reapVars, vioVars, TypeOK
<1> HIDE DEF Inv, Needed
<1>11. CASE JournalStep
  BY <1>2, <1>3, <1>5, <1>11, Zenon DEF JournalStep, RecycleBlock, NotifyInline, ReapCallback, FinishReap,
     CheckForDrainComplete, blockVars
<1>12. CASE \E s, n \in 1 .. tail : CompleteWrite(s, n)
  BY Zenon, <1>5, <1>12 DEF CompleteWrite
<1>13. CASE DequeueCallback \/ CompleteReaping \/ \E op \in {"suspending", "saving"} : Drain(op)
  BY Zenon, <1>5, <1>13 DEF DequeueCallback, CompleteReaping, Drain, blockVars
<1>14. CASE UNCHANGED vars
  BY Zenon, <1>5, <1>14 DEF vars, journalVars, blockVars
<1> QED
  BY Zenon, <1>1, <1>4, <1>6, <1>7, <1>8, <1>9, <1>10, <1>11, <1>12, <1>13, <1>14
     DEF Next, JournalNext, ZoneNext

(* Every step keeps the updates in progress apart.                         *)
LEMMA NextUpdating == Inv /\ [Next]_vars => Updating'
<1> SUFFICES ASSUME Inv, [Next]_vars PROVE Updating'
  OBVIOUS
<1> USE ReapingAssumption, ZonesAssumption DEF Inv, Updating, TypeOK, Zones
<1>1. ASSUME NEW v \in DataVIOs, AssignIncrement(v) \/ AssignDecrement(v) PROVE Updating'
  BY <1>1 DEF AssignIncrement, AssignDecrement, zoneVars
<1>2. ASSUME UNCHANGED <<vioVars, zoneVars>> PROVE Updating'
  BY <1>2 DEF vioVars, zoneVars
<1>3. ASSUME NEW v \in DataVIOs, NEW p \in Pages, UpdateBlockMapPage(v, p) PROVE Updating'
  BY SMTT(30), <1>3 DEF UpdateBlockMapPage
<1>4. ASSUME NEW v \in DataVIOs, NEW b \in SlabBlocks, AddSlabJournalEntry(v, b) PROVE Updating'
  BY SMTT(30), <1>4 DEF AddSlabJournalEntry
<1>5. ASSUME NEW z \in Zones, ZoneStep(z) PROVE Updating'
  <2>1. CASE ReleaseOldLock(z)
    BY Zenon, <2>1 DEF ReleaseOldLock, vioVars
  <2>2. CASE Notify(z)
    BY Zenon, <2>2 DEF Notify, vioVars
  <2>3. CASE ReleaseEntryLock(z)
    BY <2>3 DEF ReleaseEntryLock
  <2> QED BY Zenon, <1>5, <2>1, <2>2, <2>3 DEF ZoneStep
<1>6. ASSUME NEW p \in Pages, PageWritten(p) PROVE Updating'
  BY Zenon, <1>6 DEF PageWritten, vioVars
<1>7. ASSUME NEW b \in SlabBlocks, ReleaseJournalLocks(b) PROVE Updating'
  BY Zenon, <1>7 DEF ReleaseJournalLocks, vioVars
<1> HIDE DEF Inv, Updating, TypeOK
<1>8. CASE JournalStep
  BY <1>2, <1>8, Zenon DEF JournalStep, RecycleBlock, NotifyInline, ReapCallback, ReapBlockMap,
     ReapSlabJournal, FinishReap, CheckForDrainComplete
<1>9. CASE \E s, n \in 1 .. tail : CompleteWrite(s, n)
  BY Zenon, <1>2, <1>9 DEF CompleteWrite
<1>10. CASE DequeueCallback \/ CompleteReaping \/ Resume
            \/ \E op \in {"suspending", "saving"} : Drain(op)
  BY Zenon, <1>2, <1>10 DEF DequeueCallback, CompleteReaping, Resume, Drain
<1>11. CASE UNCHANGED vars
  BY Zenon, <1>2, <1>11 DEF vars
<1> QED
  BY Zenon, <1>1, <1>3, <1>4, <1>5, <1>6, <1>7, <1>8, <1>9, <1>10, <1>11 DEF Next, JournalNext, ZoneNext

(* What the first read of isLocked() has seen is still true at the second: *)
(* no other thread can drop or take a journal zone reference to a block    *)
(* which has none.                                                         *)
LEMMA NextReadValid == Inv /\ [Next]_vars => ReadValid'
<1> SUFFICES ASSUME Inv, [Next]_vars PROVE ReadValid'
  OBVIOUS
<1> USE DEF ReadValid, isJournalZoneLocked
<1>1. CASE ReapBlockMap \/ ReapSlabJournal
  <2>1. journalCounters' = journalCounters /\ journalDecrementCounts' = journalDecrementCounts
    BY Zenon, <1>1 DEF ReapBlockMap, ReapSlabJournal, lockVars, countVars
  <2>2. CASE ReapBlockMap
    BY SMTT(30), <2>1, <2>2 DEF ReapBlockMap, Inv, TypeOK, Sequence
  <2>3. CASE ReapSlabJournal
    BY SMTT(30), <2>1, <2>3 DEF ReapSlabJournal, Inv, TypeOK, Sequence
  <2> QED BY Zenon, <1>1, <2>2, <2>3
<1>2. ASSUME step' \notin {"blockMapZone", "slabZone"} PROVE ReadValid'
  BY Zenon, <1>2
<1>3. CASE JournalNext /\ ~(ReapBlockMap \/ ReapSlabJournal)
  <2> HIDE DEF ReadValid
  <2>1. ASSUME NEW v \in DataVIOs, AssignIncrement(v) \/ AssignDecrement(v)
        PROVE  step' \notin {"blockMapZone", "slabZone"}
    BY Zenon, <2>1 DEF AssignIncrement, AssignDecrement, assignEntry, prepareToAssignEntry
  <2>2. CASE RecycleBlock \/ NotifyInline \/ ReapCallback \/ FinishReap \/ CheckForDrainComplete
    BY <1>2, <2>2, Zenon DEF RecycleBlock, NotifyInline, ReapCallback, FinishReap, CheckForDrainComplete,
       startReaping, done
  <2>3. CASE \E s, n \in 1 .. tail : CompleteWrite(s, n)
    BY Zenon, <1>2, <2>3 DEF CompleteWrite
  <2>4. CASE DequeueCallback \/ CompleteReaping \/ Resume
              \/ \E op \in {"suspending", "saving"} : Drain(op)
    BY Zenon, <1>2, <2>4 DEF DequeueCallback, CompleteReaping, Resume, Drain
  <2> QED BY Zenon, <1>2, <1>3, <2>1, <2>2, <2>3, <2>4 DEF JournalNext, JournalStep
<1>4. ASSUME UNCHANGED journalVars, journalCounters' = journalCounters,
             journalDecrementCounts' = journalDecrementCounts
      PROVE  ReadValid'
  BY Zenon, <1>4 DEF journalVars, reapVars, Inv
<1>5. ASSUME NEW z \in Zones, ReleaseEntryLock(z) PROVE ReadValid'
  <2> DEFINE l == BlockNumber(increment[zoneVIO[z]])
  <2>1. zoneVIO[z] \in DataVIOs /\ stage[zoneVIO[z]] # "idle" /\ l \in Locks
    BY <1>5, BlockNumberInRange DEF ReleaseEntryLock, Inv, Updating, TypeOK
  <2>2. zoneVIO[z] \in EntryHolders(l)
    BY Zenon, <2>1 DEF EntryHolders
  <2>3. \A s \in Nat : s < tail /\ ~isJournalZoneLocked(BlockNumber(s)) => BlockNumber(s) # l
    BY Zenon, <2>2, UnlockedIsRecycled DEF Inv
  <2>4. /\ journalCounters' = journalCounters
        /\ \A k \in Locks : k # l => journalDecrementCounts'[k] = journalDecrementCounts[k]
    BY Zenon, <1>5 DEF ReleaseEntryLock, releaseJournalZoneReferenceFromOtherZone, Inv, TypeOK,
         LockCounterTypeOK
  <2>5. UNCHANGED journalVars
    BY Zenon, <1>5 DEF ReleaseEntryLock
  <2>6. ASSUME NEW s \in Nat, s < lastWriteAcknowledged, ~isJournalZoneLocked(BlockNumber(s))
        PROVE  ~isJournalZoneLocked(BlockNumber(s))'
    <3>1. BlockNumber(s) # l /\ BlockNumber(s) \in Locks
      BY <2>3, <2>6, BlockNumberInRange DEF Inv, Ordered, TypeOK, Sequence
    <3> QED BY Zenon, <2>4, <2>6, <3>1
  <2> QED BY Zenon, <2>5, <2>6 DEF journalVars, reapVars, Inv, TypeOK, Sequence
<1> HIDE DEF ReadValid
<1>6. CASE ZoneNext
  <2>1. UNCHANGED journalVars
    BY Zenon, <1>6, ZoneFrame
  <2>2. CASE \E v \in DataVIOs, p \in Pages : UpdateBlockMapPage(v, p)
    BY Zenon, <1>4, <2>1, <2>2 DEF UpdateBlockMapPage, acquireLockCountReference, lockVars, countVars
  <2>3. CASE \E v \in DataVIOs, b \in SlabBlocks : AddSlabJournalEntry(v, b)
    BY Zenon, <1>4, <2>1, <2>3 DEF AddSlabJournalEntry, acquireLockCountReference, lockVars, countVars
  <2>4. CASE \E z \in Zones : ReleaseOldLock(z) \/ Notify(z)
    BY <1>4, <2>1, <2>4, Zenon DEF ReleaseOldLock, Notify, releaseLockCountReference, attemptNotification,
       countVars
  <2>5. CASE \/ \E p \in Pages : PageWritten(p)
             \/ \E b \in SlabBlocks : ReleaseJournalLocks(b)
    BY <1>4, <2>1, <2>5, Zenon DEF PageWritten, ReleaseJournalLocks, releaseLockCountReference
  <2> QED BY Zenon, <1>5, <1>6, <2>2, <2>3, <2>4, <2>5 DEF ZoneNext, ZoneStep
<1>7. CASE UNCHANGED vars
  BY Zenon, <1>4, <1>7 DEF vars, lockVars, countVars
<1> QED BY Zenon, <1>1, <1>3, <1>6, <1>7 DEF Next

-----------------------------------------------------------------------------
(* The counts of the lock counter: the journal zone's count of each lock,  *)
(* and what one update of a zone's count does.                             *)

(* The surplus of a lock is a number.                                      *)
LEMMA SurplusType == TypeOK => \A l \in Locks : surplus(l) \in Int /\ journalZoneCount(l) \in Int
  BY EntryHoldersFinite DEF TypeOK, LockCounterTypeOK, surplus, journalZoneCount

(* The blocks which are not recycled have locks of their own.              *)
LEMMA WindowInjective ==
  TypeOK /\ Ordered => \A s, t \in recycled .. tail - 1 : BlockNumber(s) = BlockNumber(t) => s = t
  BY SizeAssumption, BlockNumberInjective DEF TypeOK, Ordered, Sequence

(* A step which changes neither the counts nor who holds them preserves    *)
(* the journal zone's counts.                                              *)
LEMMA SurplusFrame ==
  ASSUME JournalCounted, UNCHANGED <<journalCounters, journalDecrementCounts, increment>>,
         \A v \in DataVIOs : stage[v] = "idle" <=> stage'[v] = "idle",
         UNCHANGED <<recycled, tail, entryCount>>
  PROVE  JournalCounted'
<1>1. ASSUME NEW l PROVE EntryHolders(l)' = EntryHolders(l)
  BY Zenon DEF EntryHolders
<1>2. ASSUME NEW l PROVE surplus(l)' = surplus(l)
  BY Zenon, <1>1 DEF surplus, journalZoneCount
<1> QED BY Zenon, <1>2 DEF JournalCounted, ownLocks

(* When the journal needs a new block, nobody holds the lock of that block. *)
LEMMA NewBlockIsFree ==
  ASSUME Inv, assignEntry, needsNewBlock
  PROVE  /\ EntryHolders(BlockNumber(tail)) = {}
         /\ \A s \in recycled .. tail - 1 : BlockNumber(s) # BlockNumber(tail)
         /\ \A p \in Pages : pageLock[p] # 0 => BlockNumber(pageLock[p]) # BlockNumber(tail)
         /\ \A b \in SlabBlocks : slabLock[b] # 0 => BlockNumber(slabLock[b]) # BlockNumber(tail)
         /\ \A z \in Zones : zoneOldLock[z] # 0 => BlockNumber(zoneOldLock[z]) # BlockNumber(tail)
<1> USE DEF Inv, TypeOK, Sequence
<1>1. tail + 1 <= blockMapHead + Size /\ tail + 1 <= slabJournalHead + Size
  BY SizeAssumption DEF assignEntry, prepareToAssignEntry, getRecoveryJournalHead, Least
<1>2. ASSUME NEW s \in Nat, s < tail, blockMapHead <= s \/ slabJournalHead <= s
      PROVE  BlockNumber(s) # BlockNumber(tail)
  BY <1>1, <1>2, BlockNumberInjective, SizeAssumption
<1>3. \A v \in DataVIOs : stage[v] # "idle" => BlockNumber(increment[v]) # BlockNumber(tail)
  BY <1>2 DEF Needed, Ordered
<1>4. EntryHolders(BlockNumber(tail)) = {}
  BY Zenon, <1>3 DEF EntryHolders
<1>5. \A s \in recycled .. tail - 1 : BlockNumber(s) # BlockNumber(tail)
  BY <1>2 DEF Ordered
<1>6. \A p \in Pages : pageLock[p] # 0 => BlockNumber(pageLock[p]) # BlockNumber(tail)
  BY <1>2 DEF Needed, Ordered
<1>7. \A b \in SlabBlocks : slabLock[b] # 0 => BlockNumber(slabLock[b]) # BlockNumber(tail)
  BY <1>2 DEF Needed, Ordered
<1>8. \A z \in Zones : zoneOldLock[z] # 0 => BlockNumber(zoneOldLock[z]) # BlockNumber(tail)
  BY <1>2 DEF Needed, Ordered
<1> QED BY Zenon, <1>4, <1>5, <1>6, <1>7, <1>8

(* Giving an entry to a DataVIO, as an increment or as a decrement, turns  *)
(* one free entry of the block into a reference of the DataVIO, or into    *)
(* none; a new block starts with all of them.                              *)
LEMMA AssignCounted ==
  ASSUME Inv, NEW v \in DataVIOs, AssignIncrement(v) \/ AssignDecrement(v)
  PROVE  JournalCounted'
<1> USE ReapingAssumption
<1>0. PICK l0 \in Locks : l0 = BlockNumber(entryBlock)
  BY BlockNumberInRange DEF entryBlock, Inv, TypeOK, Sequence
<1> DEFINE E(l) == Cardinality(EntryHolders(l))
<1>1. entryBlock \in Nat /\ tail \in Nat /\ recycled \in Nat /\ recycled <= tail
  BY BlockNumberInRange DEF entryBlock, Inv, TypeOK, Sequence, Ordered
<1>2. assignEntry
  BY Zenon DEF AssignIncrement, AssignDecrement
<1>3. \A l \in Locks : l # l0 => EntryHolders(l)' = EntryHolders(l)
  <2>1. CASE AssignIncrement(v)
    BY Zenon, <1>0, <2>1 DEF AssignIncrement, EntryHolders, Inv, TypeOK
  <2>2. CASE AssignDecrement(v)
    BY Zenon, <1>0, <2>2 DEF AssignDecrement, EntryHolders, Inv, TypeOK
  <2> QED BY Zenon, <2>1, <2>2
<1>4. \A l \in Locks : l # l0 => journalZoneCount(l)' = journalZoneCount(l)
  <2>1. CASE needsNewBlock
    BY Zenon, <1>0, <2>1 DEF AssignIncrement, AssignDecrement, initializeLockCount, journalZoneCount, entryBlock,
         Inv, TypeOK, LockCounterTypeOK
  <2>2. CASE ~needsNewBlock
    BY Zenon, <1>0, <2>2 DEF AssignIncrement, AssignDecrement, releaseJournalZoneReference, journalZoneCount,
         lockVars, countVars, Inv, TypeOK, LockCounterTypeOK
  <2> QED BY Zenon, <2>1, <2>2
<1>5. \A l \in Locks : l # l0 => surplus(l)' = surplus(l)
  BY Zenon, <1>3, <1>4 DEF surplus
<1>6. AssignIncrement(v) => E(l0)' = E(l0) + 1
  <2> SUFFICES ASSUME AssignIncrement(v) PROVE E(l0)' = E(l0) + 1
    BY Zenon
  <2>1. EntryHolders(l0)' = EntryHolders(l0) \cup {v} /\ v \notin EntryHolders(l0)
    BY <1>0 DEF AssignIncrement, EntryHolders, Inv, TypeOK
  <2> QED BY <2>1, FS_AddElement, EntryHoldersFinite, Zenon
<1>7. AssignDecrement(v) => E(l0)' = E(l0)
  <2> SUFFICES ASSUME AssignDecrement(v) PROVE E(l0)' = E(l0)
    BY Zenon
  <2>1. EntryHolders(l0)' = EntryHolders(l0)
    BY Zenon DEF AssignDecrement, EntryHolders, Inv, TypeOK
  <2> QED BY Zenon, <2>1
<1>8. E(l0) \in Nat
  BY Zenon, EntryHoldersFinite
<1> HIDE DEF E
<1>9. CASE needsNewBlock
  <2>1. entryBlock = tail /\ tail' = tail + 1 /\ entryCount' = 1 /\ recycled' = recycled
    BY Zenon, <1>2, <1>9 DEF entryBlock, assignEntry
  <2>2. E(l0) = 0 /\ \A s \in recycled .. tail - 1 : BlockNumber(s) # l0
    BY <1>0, <1>2, <1>9, <2>1, NewBlockIsFree, FS_EmptySet, Zenon DEF E
  <2>3. surplus(l0)' = EntriesPerBlock
    <3>1. CASE AssignIncrement(v)
      <4>1. journalZoneCount(l0)' = EntriesPerBlock + 1
        BY <1>0, <1>1, <1>9, <2>1, <3>1 DEF AssignIncrement, initializeLockCount, journalZoneCount, Inv, TypeOK,
             LockCounterTypeOK
      <4> QED BY <1>6, <2>2, <3>1, <4>1 DEF surplus, E
    <3>2. CASE AssignDecrement(v)
      <4>1. journalZoneCount(l0)' = EntriesPerBlock
        BY <1>0, <1>1, <1>9, <2>1, <3>2 DEF AssignDecrement, initializeLockCount, journalZoneCount, Inv, TypeOK,
             LockCounterTypeOK
      <4> QED BY <1>7, <2>2, <3>2, <4>1 DEF surplus, E
    <3> QED BY Zenon, <3>1, <3>2
  <2>4. \A s \in recycled .. tail - 1 : surplus(BlockNumber(s)) = 1
    BY <1>1, <1>9 DEF Inv, JournalCounted, ownLocks, needsNewBlock, TypeOK
  <2>5. ASSUME NEW s \in (recycled .. tail - 1)' PROVE (surplus(BlockNumber(s)) = ownLocks(s))'
    <3>1. CASE s = tail
      BY <1>0, <1>1, <2>1, <2>3, <3>1 DEF ownLocks
    <3>2. CASE s # tail
      <4>1. s \in recycled .. tail - 1 /\ s # tail' - 1
        BY <1>1, <2>1, <3>2
      <4>2. BlockNumber(s) \in Locks
        BY <1>1, <4>1, BlockNumberInRange
      <4> QED BY Zenon, <1>5, <2>2, <2>4, <4>1, <4>2 DEF ownLocks
    <3> QED BY Zenon, <3>1, <3>2
  <2>6. ASSUME NEW l \in Locks, (\A s \in recycled .. tail - 1 : BlockNumber(s) # l)'
        PROVE  surplus(l)' = 0
    <3>1. l # l0 /\ \A s \in recycled .. tail - 1 : BlockNumber(s) # l
      BY <1>0, <1>1, <2>1, <2>6
    <3> QED BY Zenon, <1>5, <3>1 DEF Inv, JournalCounted
  <2> QED BY Zenon, <2>5, <2>6 DEF JournalCounted
<1>10. CASE ~needsNewBlock
  <2>1. /\ entryBlock = tail - 1 /\ tail' = tail /\ entryCount' = entryCount + 1
        /\ recycled' = recycled /\ recycled <= tail - 1
    BY <1>1, <1>2, <1>10 DEF entryBlock, assignEntry, needsNewBlock
  <2>2. surplus(l0)' = surplus(l0) - 1
    <3>1. CASE AssignIncrement(v)
      <4>1. journalZoneCount(l0)' = journalZoneCount(l0)
        BY Zenon, <1>10, <3>1 DEF AssignIncrement, journalZoneCount, lockVars, countVars
      <4>2. journalZoneCount(l0) \in Int
        BY Zenon, <1>1, SurplusType DEF Inv
      <4> QED BY <1>6, <1>8, <3>1, <4>1, <4>2 DEF surplus, E
    <3>2. CASE AssignDecrement(v)
      <4>1. journalZoneCount(l0)' = journalZoneCount(l0) - 1
        BY <1>0, <1>1, <1>10, <3>2 DEF AssignDecrement, releaseJournalZoneReference, journalZoneCount,
             Inv, TypeOK, LockCounterTypeOK
      <4>2. journalZoneCount(l0) \in Int
        BY <1>1, SurplusType DEF Inv
      <4> QED BY <1>7, <1>8, <3>2, <4>1, <4>2 DEF surplus, E
    <3> QED BY Zenon, <3>1, <3>2
  <2>3. surplus(l0) = 1 + EntriesPerBlock - entryCount
    BY <1>0, <1>1, <2>1 DEF Inv, JournalCounted, ownLocks
  <2>4. ASSUME NEW s \in (recycled .. tail - 1)' PROVE (surplus(BlockNumber(s)) = ownLocks(s))'
    <3>1. CASE s = tail - 1
      BY <1>0, <1>1, <2>1, <2>2, <2>3, <3>1 DEF ownLocks, Inv, TypeOK
    <3>2. CASE s # tail - 1
      <4>1. s \in recycled .. tail - 1 /\ tail - 1 \in recycled .. tail - 1 /\ s \in Nat
        BY <1>1, <2>1
      <4>2. BlockNumber(s) # l0 /\ BlockNumber(s) \in Locks
        BY Zenon, <1>0, <2>1, <3>2, <4>1, WindowInjective, BlockNumberInRange DEF Inv
      <4> QED BY Zenon, <1>5, <2>1, <3>2, <4>1, <4>2 DEF ownLocks, Inv, JournalCounted
    <3> QED BY Zenon, <3>1, <3>2
  <2>5. ASSUME NEW l \in Locks, (\A s \in recycled .. tail - 1 : BlockNumber(s) # l)'
        PROVE  surplus(l)' = 0
    <3>1. l # l0 /\ \A s \in recycled .. tail - 1 : BlockNumber(s) # l
      BY <1>0, <1>1, <2>1, <2>5
    <3> QED BY <1>5, <3>1 DEF Inv, JournalCounted
  <2> QED BY <2>4, <2>5 DEF JournalCounted
<1> QED BY Zenon, <1>9, <1>10

(* Recycling a full block gives up the last of its own locks.              *)
LEMMA RecycleCounted == ASSUME Inv, RecycleBlock PROVE JournalCounted'
<1>0. PICK l0 \in Locks : l0 = BlockNumber(recycled)
  BY Zenon, BlockNumberInRange DEF Inv, TypeOK, Sequence
<1>1. /\ recycled' = recycled + 1 /\ tail' = tail /\ entryCount' = entryCount
      /\ recycled < tail /\ recycled \in Nat /\ tail \in Nat
      /\ recycled = tail - 1 => entryCount = EntriesPerBlock
  BY DEF RecycleBlock, Inv, Moded, Ordered, TypeOK, Sequence
<1>2. \A l : EntryHolders(l)' = EntryHolders(l)
  BY Zenon DEF RecycleBlock, EntryHolders, vioVars
<1>3. \A l \in Locks : l # l0 => surplus(l)' = surplus(l)
  BY Zenon, <1>0, <1>2 DEF RecycleBlock, releaseJournalZoneReference, surplus, journalZoneCount, Inv, TypeOK,
       LockCounterTypeOK
<1>4. surplus(l0) = 1
  BY <1>0, <1>1, ReapingAssumption DEF Inv, JournalCounted, ownLocks
<1>5. surplus(l0)' = 0
  <2>1. journalZoneCount(l0)' = journalZoneCount(l0) - 1
    BY <1>0 DEF RecycleBlock, releaseJournalZoneReference, journalZoneCount, Inv, TypeOK,
         LockCounterTypeOK
  <2>2. journalZoneCount(l0) \in Int /\ Cardinality(EntryHolders(l0)) \in Nat
    BY Zenon, <1>0, SurplusType, EntryHoldersFinite DEF Inv
  <2> QED BY <1>2, <1>4, <2>1, <2>2 DEF surplus
<1>6. ASSUME NEW s \in (recycled .. tail - 1)' PROVE (surplus(BlockNumber(s)) = ownLocks(s))'
  <2>1. s \in recycled .. tail - 1 /\ s # recycled /\ recycled \in recycled .. tail - 1 /\ s \in Nat
    BY <1>1
  <2>2. BlockNumber(s) # l0 /\ BlockNumber(s) \in Locks
    BY Zenon, <1>0, <2>1, WindowInjective, BlockNumberInRange DEF Inv
  <2> QED BY <1>1, <1>3, <2>1, <2>2 DEF Inv, JournalCounted, ownLocks
<1>7. ASSUME NEW l \in Locks, (\A s \in recycled .. tail - 1 : BlockNumber(s) # l)'
      PROVE  surplus(l)' = 0
  <2>1. CASE l = l0
    BY Zenon, <1>5, <2>1
  <2>2. CASE l # l0
    <3>1. \A s \in recycled .. tail - 1 : BlockNumber(s) # l
      BY <1>0, <1>1, <1>7, <2>2
    <3> QED BY Zenon, <1>3, <2>2, <3>1 DEF Inv, JournalCounted
  <2> QED BY Zenon, <2>1, <2>2
<1> QED BY Zenon, <1>6, <1>7 DEF JournalCounted

(* The end of a save gives up all the locks of the active block.           *)
LEMMA DrainCounted == ASSUME Inv, CheckForDrainComplete PROVE JournalCounted'
<1> USE DEF CheckForDrainComplete
<1>1. \A l : EntryHolders(l)' = EntryHolders(l)
  BY Zenon DEF EntryHolders, vioVars
<1>2. CASE /\ recycled' = recycled
           /\ journalCounters' = journalCounters /\ journalDecrementCounts' = journalDecrementCounts
  BY Zenon, <1>2, SurplusFrame DEF Inv, vioVars
<1>3. CASE ~(recycled' = recycled /\ journalCounters' = journalCounters
             /\ journalDecrementCounts' = journalDecrementCounts)
  <2>1. /\ recycled' = tail /\ tail' = tail /\ admin = "saving"
        /\ journalCounters' = releaseActiveBlock
        /\ journalDecrementCounts' = journalDecrementCounts
    BY Zenon, <1>3 DEF releaseActiveBlock, lockVars, countVars
  <2>2. recycled \in Nat /\ tail \in Nat /\ recycled <= tail /\ tail <= recycled + 1
    BY Zenon, <2>1 DEF Inv, Ordered, Moded, TypeOK, Sequence
  <2>3. ASSUME NEW l \in Locks PROVE surplus(l)' = 0
    <3>1. CASE recycled < tail /\ l = BlockNumber(tail - 1)
      <4>1. surplus(l) = 1 + EntriesPerBlock - entryCount
        BY <2>2, <3>1 DEF Inv, JournalCounted, ownLocks
      <4>2. journalZoneCount(l)' = journalZoneCount(l) - (EntriesPerBlock - entryCount + 1)
        BY <2>1, <3>1, ReapingAssumption
           DEF releaseActiveBlock, journalZoneCount, Inv, TypeOK, LockCounterTypeOK
      <4>3. /\ journalZoneCount(l) \in Int /\ Cardinality(EntryHolders(l)) \in Nat
            /\ EntriesPerBlock \in Nat /\ entryCount \in Int
        BY SurplusType, EntryHoldersFinite, ReapingAssumption DEF Inv, TypeOK
      <4> QED BY <1>1, <4>1, <4>2, <4>3 DEF surplus
    <3>2. CASE ~(recycled < tail /\ l = BlockNumber(tail - 1))
      <4>1. \A s \in recycled .. tail - 1 : BlockNumber(s) # l
        BY <2>2, <3>2
      <4>2. surplus(l) = 0
        BY Zenon, <4>1 DEF Inv, JournalCounted
      <4>3. journalZoneCount(l)' = journalZoneCount(l)
        BY Zenon, <2>1, <3>2, ReapingAssumption
           DEF releaseActiveBlock, journalZoneCount, Inv, TypeOK, LockCounterTypeOK
      <4> QED BY Zenon, <1>1, <4>2, <4>3 DEF surplus
    <3> QED BY Zenon, <3>1, <3>2
  <2> QED BY <2>1, <2>2, <2>3 DEF JournalCounted
<1> QED BY Zenon, <1>2, <1>3

(* A DataVIO which is done gives up its reference.                         *)
LEMMA ReleaseEntryCounted == ASSUME Inv, NEW z \in Zones, ReleaseEntryLock(z) PROVE JournalCounted'
<1>0. PICK v \in DataVIOs : v = zoneVIO[z] /\ stage[v] # "idle"
  BY DEF ReleaseEntryLock, Inv, Updating, TypeOK
<1>1. PICK l0 \in Locks : l0 = BlockNumber(increment[v])
  BY Zenon, BlockNumberInRange DEF Inv, TypeOK
<1>2. \A l \in Locks : l # l0 => EntryHolders(l)' = EntryHolders(l)
  BY Zenon, <1>0, <1>1 DEF ReleaseEntryLock, EntryHolders, Inv, TypeOK
<1>3. EntryHolders(l0)' = EntryHolders(l0) \ {v} /\ v \in EntryHolders(l0)
  BY Zenon, <1>0, <1>1 DEF ReleaseEntryLock, EntryHolders, Inv, TypeOK
<1>4. Cardinality(EntryHolders(l0))' = Cardinality(EntryHolders(l0)) - 1
  BY <1>3, FS_RemoveElement, EntryHoldersFinite, Zenon
<1>5. journalZoneCount(l0)' = journalZoneCount(l0) - 1
  BY <1>0, <1>1 DEF ReleaseEntryLock, releaseJournalZoneReferenceFromOtherZone, journalZoneCount, Inv,
       TypeOK, LockCounterTypeOK
<1>6. \A l \in Locks : l # l0 => journalZoneCount(l)' = journalZoneCount(l)
  BY Zenon, <1>0, <1>1 DEF ReleaseEntryLock, releaseJournalZoneReferenceFromOtherZone, journalZoneCount, Inv,
       TypeOK, LockCounterTypeOK
<1>7. ASSUME NEW l \in Locks PROVE surplus(l)' = surplus(l)
  <2>1. CASE l = l0
    <3>1. journalZoneCount(l0) \in Int /\ Cardinality(EntryHolders(l0)) \in Nat
      BY Zenon, <1>1, SurplusType, EntryHoldersFinite DEF Inv
    <3> QED BY <1>4, <1>5, <2>1, <3>1 DEF surplus
  <2>2. CASE l # l0
    BY Zenon, <1>2, <1>6, <2>2 DEF surplus
  <2> QED BY Zenon, <2>1, <2>2
<1>8. UNCHANGED <<recycled, tail, entryCount>>
  BY Zenon DEF ReleaseEntryLock, journalVars, blockVars
<1>9. \A s \in recycled .. tail - 1 : BlockNumber(s) \in Locks
  BY BlockNumberInRange DEF Inv, TypeOK, Sequence
<1> QED BY Zenon, <1>7, <1>8, <1>9 DEF Inv, JournalCounted, ownLocks

(* Every step keeps the journal zone's counts exact.                       *)
LEMMA NextJournalCounted == Inv /\ [Next]_vars => JournalCounted'
<1> SUFFICES ASSUME Inv, [Next]_vars PROVE JournalCounted'
  BY Zenon
<1>0. JournalCounted
  BY Zenon DEF Inv
<1>1. CASE \E v \in DataVIOs : AssignIncrement(v) \/ AssignDecrement(v)
  BY Zenon, <1>1, AssignCounted
<1>2. ASSUME UNCHANGED <<journalCounters, journalDecrementCounts, recycled, tail, entryCount, vioVars>>
      PROVE  JournalCounted'
  BY Zenon, <1>0, <1>2, SurplusFrame DEF vioVars
<1>3. CASE JournalStep
  <2>1. CASE NotifyInline \/ ReapCallback \/ ReapBlockMap \/ ReapSlabJournal \/ FinishReap
    BY <1>2, <2>1, Zenon DEF NotifyInline, ReapCallback, ReapBlockMap, ReapSlabJournal, FinishReap,
       attemptInlineNotification, acknowledgeUnlock, lockVars, countVars, blockVars
  <2> QED BY Zenon, <1>3, <2>1, RecycleCounted, DrainCounted DEF JournalStep
<1>4. CASE \E s, n \in 1 .. tail : CompleteWrite(s, n)
  BY Zenon, <1>2, <1>4 DEF CompleteWrite, lockVars, countVars
<1>5. CASE DequeueCallback \/ CompleteReaping \/ Resume
           \/ \E op \in {"suspending", "saving"} : Drain(op)
  BY <1>2, <1>5, Zenon DEF DequeueCallback, CompleteReaping, Resume, Drain, resumeLockCounter, lockVars,
     countVars, blockVars
<1>6. CASE \E v \in DataVIOs, p \in Pages : UpdateBlockMapPage(v, p)
  <2>1. /\ \A v \in DataVIOs : stage[v] = "idle" <=> stage'[v] = "idle"
        /\ UNCHANGED <<recycled, tail, entryCount, increment>>
    BY Zenon, <1>6 DEF UpdateBlockMapPage, journalVars, blockVars, Inv, TypeOK
  <2>2. UNCHANGED <<journalCounters, journalDecrementCounts>>
    BY Zenon, <1>6 DEF UpdateBlockMapPage, acquireLockCountReference, lockVars, countVars
  <2> QED BY Zenon, <1>0, <2>1, <2>2, SurplusFrame
<1>7. CASE \E v \in DataVIOs, b \in SlabBlocks : AddSlabJournalEntry(v, b)
  <2>1. /\ \A v \in DataVIOs : stage[v] = "idle" <=> stage'[v] = "idle"
        /\ UNCHANGED <<recycled, tail, entryCount, increment>>
    BY Zenon, <1>7 DEF AddSlabJournalEntry, journalVars, blockVars, Inv, TypeOK
  <2>2. UNCHANGED <<journalCounters, journalDecrementCounts>>
    BY Zenon, <1>7 DEF AddSlabJournalEntry, acquireLockCountReference, lockVars, countVars
  <2> QED BY <1>0, <2>1, <2>2, SurplusFrame
<1>8. CASE \E z \in Zones : ReleaseOldLock(z) \/ Notify(z)
  BY <1>2, <1>8, Zenon DEF ReleaseOldLock, Notify, releaseLockCountReference, attemptNotification, countVars,
     journalVars, blockVars
<1>9. CASE \/ \E p \in Pages : PageWritten(p)
           \/ \E b \in SlabBlocks : ReleaseJournalLocks(b)
  BY <1>2, <1>9, Zenon DEF PageWritten, ReleaseJournalLocks, releaseLockCountReference, journalVars, blockVars
<1>10. CASE UNCHANGED vars
  BY Zenon, <1>2, <1>10 DEF vars, lockVars, countVars, journalVars, blockVars
<1> QED
  BY Zenon, <1>1, <1>3, <1>4, <1>5, <1>6, <1>7, <1>8, <1>9, <1>10, ReleaseEntryCounted
     DEF Next, JournalNext, ZoneNext, ZoneStep

-----------------------------------------------------------------------------
(* The two halves of CountsMatchHolders.                                   *)
HoldersCounted ==
  \A z \in Zones, l \in Locks :
    counters[z][l] = Cardinality(PageHolders(z, l)) + Cardinality(SlabHolders(z, l))
                      + Cardinality(UpdateHolders(z, l))
ZonesCounted ==
  \A l \in Locks :
    /\ logicalZoneCounts[l] = Cardinality({z \in LogicalZones : counters[z][l] # 0})
    /\ physicalZoneCounts[l] = Cardinality({z \in PhysicalZones : counters[z][l] # 0})

(* Acquiring a reference keeps the zone counts exact.                      *)
LEMMA AcquireZonesCounted ==
  ASSUME LockCounterTypeOK, ZonesCounted, NEW z \in Zones, NEW l0 \in Locks,
         counters[z][l0] \in Nat, acquireLockCountReference(z, l0)
  PROVE  ZonesCounted'
<1> DEFINE Holding(S, l) == {y \in S : counters[y][l] # 0}
<1> USE ZonesAssumption DEF Zones
<1>1. ASSUME NEW S, S \subseteq Zones, NEW l \in Locks, l # l0 \/ z \notin S \/ counters[z][l0] # 0
      PROVE  Holding(S, l)' = Holding(S, l)
  BY <1>1 DEF acquireLockCountReference, LockCounterTypeOK
<1>2. ASSUME NEW S, S \subseteq Zones, IsFiniteSet(S), z \in S, counters[z][l0] = 0
      PROVE  Cardinality(Holding(S, l0)') = Cardinality(Holding(S, l0)) + 1
  <2>1. Holding(S, l0)' = Holding(S, l0) \cup {z} /\ z \notin Holding(S, l0)
    BY <1>2 DEF acquireLockCountReference, LockCounterTypeOK
  <2>2. IsFiniteSet(Holding(S, l0))
    BY Zenon, <1>2, FS_Subset
  <2> HIDE DEF Holding
  <2> QED BY <2>1, <2>2, FS_AddElement, Zenon
<1>3. ASSUME NEW l \in Locks
      PROVE  logicalZoneCounts'[l] = Cardinality(Holding(LogicalZones, l)')
  <2>1. CASE l = l0 /\ z \in LogicalZones /\ counters[z][l0] = 0
    <3>1. logicalZoneCounts'[l] = logicalZoneCounts[l] + 1
      BY Zenon, <2>1 DEF acquireLockCountReference, addToZoneCount, LockCounterTypeOK
    <3>2. logicalZoneCounts[l] = Cardinality(Holding(LogicalZones, l))
      BY Zenon DEF ZonesCounted
    <3> HIDE DEF Holding
    <3>3. Cardinality(Holding(LogicalZones, l)') = Cardinality(Holding(LogicalZones, l)) + 1
      BY Zenon, <1>2, <2>1
    <3> QED BY Zenon, <3>1, <3>2, <3>3
  <2>2. CASE ~(l = l0 /\ z \in LogicalZones /\ counters[z][l0] = 0)
    <3>1. logicalZoneCounts'[l] = logicalZoneCounts[l]
      BY <2>2 DEF acquireLockCountReference, addToZoneCount, LockCounterTypeOK
    <3>2. logicalZoneCounts[l] = Cardinality(Holding(LogicalZones, l))
      BY Zenon DEF ZonesCounted
    <3> HIDE DEF Holding
    <3>3. Holding(LogicalZones, l)' = Holding(LogicalZones, l)
      BY Zenon, <1>1, <2>2
    <3> QED BY Zenon, <3>1, <3>2, <3>3
  <2> QED BY Zenon, <2>1, <2>2
<1>4. ASSUME NEW l \in Locks
      PROVE  physicalZoneCounts'[l] = Cardinality(Holding(PhysicalZones, l)')
  <2>1. CASE l = l0 /\ z \in PhysicalZones /\ counters[z][l0] = 0
    <3>1. physicalZoneCounts'[l] = physicalZoneCounts[l] + 1
      BY Zenon, <2>1 DEF acquireLockCountReference, addToZoneCount, LockCounterTypeOK
    <3>2. physicalZoneCounts[l] = Cardinality(Holding(PhysicalZones, l))
      BY Zenon DEF ZonesCounted
    <3> HIDE DEF Holding
    <3>3. Cardinality(Holding(PhysicalZones, l)') = Cardinality(Holding(PhysicalZones, l)) + 1
      BY Zenon, <1>2, <2>1
    <3> QED BY Zenon, <3>1, <3>2, <3>3
  <2>2. CASE ~(l = l0 /\ z \in PhysicalZones /\ counters[z][l0] = 0)
    <3>1. physicalZoneCounts'[l] = physicalZoneCounts[l]
      BY <2>2 DEF acquireLockCountReference, addToZoneCount, LockCounterTypeOK
    <3>2. physicalZoneCounts[l] = Cardinality(Holding(PhysicalZones, l))
      BY Zenon DEF ZonesCounted
    <3> HIDE DEF Holding
    <3>3. Holding(PhysicalZones, l)' = Holding(PhysicalZones, l)
      BY Zenon, <1>1, <2>2
    <3> QED BY Zenon, <3>1, <3>2, <3>3
  <2> QED BY Zenon, <2>1, <2>2
<1> QED BY <1>3, <1>4, Zenon DEF ZonesCounted

(* Releasing a reference which is held keeps the zone counts exact.        *)
LEMMA ReleaseZonesCounted ==
  ASSUME LockCounterTypeOK, ZonesCounted, NEW z \in Zones, NEW l0 \in Locks,
         counters[z][l0] \in Nat \ {0}, releaseLockCountReference(z, l0)
  PROVE  ZonesCounted'
<1> DEFINE Holding(S, l) == {y \in S : counters[y][l] # 0}
<1> USE ZonesAssumption DEF Zones
<1>1. ASSUME NEW S, S \subseteq Zones, NEW l \in Locks, l # l0 \/ z \notin S \/ counters[z][l0] # 1
      PROVE  Holding(S, l)' = Holding(S, l)
  BY <1>1 DEF releaseLockCountReference, LockCounterTypeOK
<1>2. ASSUME NEW S, S \subseteq Zones, IsFiniteSet(S), z \in S, counters[z][l0] = 1
      PROVE  Cardinality(Holding(S, l0)') = Cardinality(Holding(S, l0)) - 1
  <2>1. Holding(S, l0)' = Holding(S, l0) \ {z} /\ z \in Holding(S, l0)
    BY <1>2 DEF releaseLockCountReference, LockCounterTypeOK
  <2>2. IsFiniteSet(Holding(S, l0))
    BY Zenon, <1>2, FS_Subset
  <2> HIDE DEF Holding
  <2> QED BY <2>1, <2>2, FS_RemoveElement, Zenon
<1>3. ASSUME NEW l \in Locks
      PROVE  logicalZoneCounts'[l] = Cardinality(Holding(LogicalZones, l)')
  <2>1. CASE l = l0 /\ z \in LogicalZones /\ counters[z][l0] = 1
    <3>1. logicalZoneCounts'[l] = logicalZoneCounts[l] - 1
      BY Zenon, <2>1 DEF releaseLockCountReference, addToZoneCount, LockCounterTypeOK
    <3>2. logicalZoneCounts[l] = Cardinality(Holding(LogicalZones, l))
      BY Zenon DEF ZonesCounted
    <3> HIDE DEF Holding
    <3>3. Cardinality(Holding(LogicalZones, l)') = Cardinality(Holding(LogicalZones, l)) - 1
      BY Zenon, <1>2, <2>1
    <3> QED BY Zenon, <3>1, <3>2, <3>3
  <2>2. CASE ~(l = l0 /\ z \in LogicalZones /\ counters[z][l0] = 1)
    <3>1. logicalZoneCounts'[l] = logicalZoneCounts[l]
      BY <2>2 DEF releaseLockCountReference, addToZoneCount, LockCounterTypeOK
    <3>2. logicalZoneCounts[l] = Cardinality(Holding(LogicalZones, l))
      BY Zenon DEF ZonesCounted
    <3> HIDE DEF Holding
    <3>3. Holding(LogicalZones, l)' = Holding(LogicalZones, l)
      BY Zenon, <1>1, <2>2
    <3> QED BY Zenon, <3>1, <3>2, <3>3
  <2> QED BY Zenon, <2>1, <2>2
<1>4. ASSUME NEW l \in Locks
      PROVE  physicalZoneCounts'[l] = Cardinality(Holding(PhysicalZones, l)')
  <2>1. CASE l = l0 /\ z \in PhysicalZones /\ counters[z][l0] = 1
    <3>1. physicalZoneCounts'[l] = physicalZoneCounts[l] - 1
      BY Zenon, <2>1 DEF releaseLockCountReference, addToZoneCount, LockCounterTypeOK
    <3>2. physicalZoneCounts[l] = Cardinality(Holding(PhysicalZones, l))
      BY Zenon DEF ZonesCounted
    <3> HIDE DEF Holding
    <3>3. Cardinality(Holding(PhysicalZones, l)') = Cardinality(Holding(PhysicalZones, l)) - 1
      BY Zenon, <1>2, <2>1
    <3> QED BY Zenon, <3>1, <3>2, <3>3
  <2>2. CASE ~(l = l0 /\ z \in PhysicalZones /\ counters[z][l0] = 1)
    <3>1. physicalZoneCounts'[l] = physicalZoneCounts[l]
      BY <2>2 DEF releaseLockCountReference, addToZoneCount, LockCounterTypeOK
    <3>2. physicalZoneCounts[l] = Cardinality(Holding(PhysicalZones, l))
      BY Zenon DEF ZonesCounted
    <3> HIDE DEF Holding
    <3>3. Holding(PhysicalZones, l)' = Holding(PhysicalZones, l)
      BY Zenon, <1>1, <2>2
    <3> QED BY Zenon, <3>1, <3>2, <3>3
  <2> QED BY Zenon, <2>1, <2>2
<1> QED BY <1>3, <1>4, Zenon DEF ZonesCounted

(* What an acquisition and a release do to the private counts.             *)
LEMMA AcquireCounters ==
  ASSUME LockCounterTypeOK, NEW z \in Zones, NEW l0 \in Locks, acquireLockCountReference(z, l0)
  PROVE  \A y \in Zones, l \in Locks :
           counters'[y][l] = counters[y][l] + (IF y = z /\ l = l0 THEN 1 ELSE 0)
  BY DEF LockCounterTypeOK, acquireLockCountReference

LEMMA ReleaseCounters ==
  ASSUME LockCounterTypeOK, NEW z \in Zones, NEW l0 \in Locks, releaseLockCountReference(z, l0)
  PROVE  \A y \in Zones, l \in Locks :
           counters'[y][l] = counters[y][l] - (IF y = z /\ l = l0 THEN 1 ELSE 0)
  BY DEF LockCounterTypeOK, releaseLockCountReference

(* A page takes over the lock of a DataVIO; its own, if it had one, moves  *)
(* to the update in progress.                                              *)
LEMMA UpdateCounted ==
  ASSUME Inv, NEW v \in DataVIOs, NEW p \in Pages, UpdateBlockMapPage(v, p)
  PROVE  CountsMatchHolders'
<1> DEFINE old == pageLock[p]
<1>0. /\ TypeOK /\ LockCounterTypeOK /\ HoldersCounted /\ ZonesCounted /\ Updating
  BY Zenon DEF Inv, TypeOK, CountsMatchHolders, HoldersCounted, ZonesCounted
<1>1. PICK z \in LogicalZones : z = PageZone[p]
  BY Zenon, ReapingAssumption
<1>2. z \in Zones /\ zoneStep[z] = "idle" /\ zoneOldLock[z] = 0
  BY Zenon, <1>0, <1>1 DEF Zones, UpdateBlockMapPage, Updating
<1>3. CASE ~(old = 0 \/ old > increment[v])
  <2>1. UNCHANGED <<lockVars, pageLock, zoneOldLock, slabLock>>
    BY Zenon, <1>3 DEF UpdateBlockMapPage
  <2> QED BY <2>1 DEF Inv, CountsMatchHolders, PageHolders, SlabHolders, UpdateHolders, lockVars,
       countVars, zoneCountVars
<1>4. CASE old = 0 \/ old > increment[v]
  <2>0. PICK l0 \in Locks : l0 = BlockNumber(increment[v])
    BY Zenon, <1>0, BlockNumberInRange DEF TypeOK
  <2>1. acquireLockCountReference(z, l0)
    BY Zenon, <1>1, <1>4, <2>0 DEF UpdateBlockMapPage
  <2>2. /\ pageLock' = [pageLock EXCEPT ![p] = increment[v]]
        /\ zoneOldLock' = [zoneOldLock EXCEPT ![z] = old]
        /\ slabLock' = slabLock
        /\ increment[v] # 0
    BY Zenon, <1>1, <1>4, IncrementHasBlock DEF UpdateBlockMapPage
  <2>3. counters[z][l0] \in Nat
    BY Zenon, <1>0, <1>2, HoldersNumber DEF HoldersCounted
  <2>4. ZonesCounted'
    BY Zenon, <1>0, <1>2, <2>1, <2>3, AcquireZonesCounted
  <2>5. ASSUME NEW y \in Zones, NEW l \in Locks
        PROVE  (counters[y][l] = Cardinality(PageHolders(y, l)) + Cardinality(SlabHolders(y, l))
                                  + Cardinality(UpdateHolders(y, l)))'
    <3> DEFINE gained == y = z /\ l = l0
               moved  == y = z /\ old # 0 /\ l = BlockNumber(old)
    <3>0. /\ Cardinality(PageHolders(y, l)) \in Nat /\ Cardinality(SlabHolders(y, l)) \in Nat
          /\ Cardinality(UpdateHolders(y, l)) \in Nat
          /\ IsFiniteSet(PageHolders(y, l)) /\ IsFiniteSet(UpdateHolders(y, l))
      BY Zenon, HoldersFinite
    <3>1. counters'[y][l] = counters[y][l] + (IF gained THEN 1 ELSE 0)
      BY <1>0, <1>2, <2>1, AcquireCounters
    <3>2. SlabHolders(y, l)' = SlabHolders(y, l)
      BY Zenon, <2>2 DEF SlabHolders
    <3>3. Cardinality(UpdateHolders(y, l)') = Cardinality(UpdateHolders(y, l)) + (IF moved THEN 1 ELSE 0)
      <4>1. CASE moved
        <5>1. UpdateHolders(y, l) = {} /\ UpdateHolders(y, l)' = {z}
          BY Zenon, <1>0, <1>2, <2>2, <4>1 DEF UpdateHolders, TypeOK
        <5>2. Cardinality(UpdateHolders(y, l)) = 0 /\ Cardinality(UpdateHolders(y, l)') = 1
          BY Zenon, <5>1, FS_EmptySet, FS_Singleton
        <5> HIDE DEF moved
        <5> QED BY <4>1, <5>2
      <4>2. CASE ~moved
        <5>1. UpdateHolders(y, l)' = UpdateHolders(y, l)
          BY Zenon, <1>0, <1>2, <2>2, <4>2 DEF UpdateHolders, TypeOK
        <5> QED BY <3>0, <4>2, <5>1
      <4> QED BY Zenon, <4>1, <4>2
    <3>4. Cardinality(PageHolders(y, l)')
            = Cardinality(PageHolders(y, l)) + (IF gained THEN 1 ELSE 0) - (IF moved THEN 1 ELSE 0)
      <4>1. CASE gained /\ ~moved
        <5>1. PageHolders(y, l)' = PageHolders(y, l) \cup {p} /\ p \notin PageHolders(y, l)
          BY Zenon, <1>0, <1>1, <2>0, <2>2, <4>1 DEF PageHolders, TypeOK
        <5>2. Cardinality(PageHolders(y, l)') = Cardinality(PageHolders(y, l)) + 1
          BY <3>0, <5>1, FS_AddElement, Zenon
        <5> HIDE DEF gained, moved
        <5> QED BY <3>0, <4>1, <5>2
      <4>2. CASE ~gained /\ moved
        <5>1. PageHolders(y, l)' = PageHolders(y, l) \ {p} /\ p \in PageHolders(y, l)
          BY Zenon, <1>0, <1>1, <2>0, <2>2, <4>2 DEF PageHolders, TypeOK
        <5>2. Cardinality(PageHolders(y, l)') = Cardinality(PageHolders(y, l)) - 1
          BY <3>0, <5>1, FS_RemoveElement, Zenon
        <5> HIDE DEF gained, moved
        <5> QED BY <3>0, <4>2, <5>2
      <4>3. CASE gained <=> moved
        <5>1. PageHolders(y, l)' = PageHolders(y, l)
          BY Zenon, <1>0, <1>1, <2>0, <2>2, <4>3 DEF PageHolders, TypeOK
        <5> QED BY <3>0, <4>3, <5>1
      <4> QED BY Zenon, <4>1, <4>2, <4>3
    <3>5. counters[y][l] = Cardinality(PageHolders(y, l)) + Cardinality(SlabHolders(y, l))
                            + Cardinality(UpdateHolders(y, l))
      BY Zenon, <1>0 DEF HoldersCounted
    <3> HIDE DEF gained, moved
    <3> QED BY <3>0, <3>1, <3>2, <3>3, <3>4, <3>5
  <2> QED BY <2>4, <2>5, Zenon DEF CountsMatchHolders, ZonesCounted
<1> QED BY Zenon, <1>3, <1>4
-----------------------------------------------------------------------------
(* The steps which change the counts, and the theorems.                    *)

(* The first entry of a slab journal block takes a reference.              *)
LEMMA AddEntryCounted ==
  ASSUME Inv, NEW v \in DataVIOs, NEW b \in SlabBlocks, AddSlabJournalEntry(v, b)
  PROVE  CountsMatchHolders'
<1>0. /\ TypeOK /\ LockCounterTypeOK /\ HoldersCounted /\ ZonesCounted
  BY Zenon DEF Inv, TypeOK, CountsMatchHolders, HoldersCounted, ZonesCounted
<1>1. PICK z \in PhysicalZones : z = SlabBlockZone[b]
  BY Zenon, ReapingAssumption
<1>2. z \in Zones
  BY Zenon, <1>1 DEF Zones
<1>3. CASE slabLock[b] # 0
  <2>1. UNCHANGED <<lockVars, pageLock, zoneOldLock, slabLock>>
    BY Zenon, <1>3 DEF AddSlabJournalEntry
  <2> QED BY Zenon, <2>1 DEF Inv, CountsMatchHolders, PageHolders, SlabHolders, UpdateHolders, lockVars,
       countVars, zoneCountVars
<1>4. CASE slabLock[b] = 0
  <2>0. PICK s \in Nat : /\ s = (IF stage[v] = "incremented" THEN increment[v] ELSE decrement[v])
                         /\ s # 0
    BY Zenon, EntryHasBlock
  <2>1. PICK l0 \in Locks : l0 = BlockNumber(s)
    BY Zenon, BlockNumberInRange
  <2>2. /\ acquireLockCountReference(z, l0)
        /\ slabLock' = [slabLock EXCEPT ![b] = s]
        /\ pageLock' = pageLock /\ zoneOldLock' = zoneOldLock
    BY Zenon, <1>1, <1>4, <2>0, <2>1 DEF AddSlabJournalEntry
  <2>3. counters[z][l0] \in Nat
    BY Zenon, <1>0, <1>2, HoldersNumber DEF HoldersCounted
  <2>4. ZonesCounted'
    BY Zenon, <1>0, <1>2, <2>2, <2>3, AcquireZonesCounted
  <2>5. ASSUME NEW y \in Zones, NEW l \in Locks
        PROVE  (counters[y][l] = Cardinality(PageHolders(y, l)) + Cardinality(SlabHolders(y, l))
                                  + Cardinality(UpdateHolders(y, l)))'
    <3>0. /\ Cardinality(PageHolders(y, l)) \in Nat /\ Cardinality(SlabHolders(y, l)) \in Nat
          /\ Cardinality(UpdateHolders(y, l)) \in Nat /\ IsFiniteSet(SlabHolders(y, l))
      BY Zenon, HoldersFinite
    <3>1. counters'[y][l] = counters[y][l] + (IF y = z /\ l = l0 THEN 1 ELSE 0)
      BY <1>0, <1>2, <2>2, AcquireCounters
    <3>2. PageHolders(y, l)' = PageHolders(y, l) /\ UpdateHolders(y, l)' = UpdateHolders(y, l)
      BY Zenon, <2>2 DEF PageHolders, UpdateHolders
    <3>3. CASE y = z /\ l = l0
      <4>1. SlabHolders(y, l)' = SlabHolders(y, l) \cup {b} /\ b \notin SlabHolders(y, l)
        BY Zenon, <1>0, <1>1, <1>4, <2>0, <2>1, <2>2, <3>3 DEF SlabHolders, TypeOK
      <4>2. Cardinality(SlabHolders(y, l)') = Cardinality(SlabHolders(y, l)) + 1
        BY <3>0, <4>1, FS_AddElement, Zenon
      <4> QED BY <1>0, <3>0, <3>1, <3>2, <3>3, <4>2 DEF HoldersCounted
    <3>4. CASE ~(y = z /\ l = l0)
      <4>1. SlabHolders(y, l)' = SlabHolders(y, l)
        BY Zenon, <1>0, <1>1, <1>4, <2>0, <2>1, <2>2, <3>4 DEF SlabHolders, TypeOK
      <4> QED BY <1>0, <3>0, <3>1, <3>2, <3>4, <4>1 DEF HoldersCounted
    <3> QED BY Zenon, <3>3, <3>4
  <2> QED BY <2>4, <2>5, Zenon DEF CountsMatchHolders, ZonesCounted
<1> QED BY Zenon, <1>3, <1>4

(* A release by one of the holders of a lock, which thereby stops being    *)
(* one, keeps the counts exact.                                            *)
holders(z, l) == Cardinality(PageHolders(z, l)) + Cardinality(SlabHolders(z, l))
                  + Cardinality(UpdateHolders(z, l))

LEMMA ReleaseCounted ==
  ASSUME Inv, NEW z \in Zones, NEW l0 \in Locks, releaseLockCountReference(z, l0),
         holders(z, l0)' \in Nat,
         \A y \in Zones, l \in Locks :
           holders(y, l)' = holders(y, l) - (IF y = z /\ l = l0 THEN 1 ELSE 0)
  PROVE  CountsMatchHolders'
<1>0. /\ LockCounterTypeOK /\ HoldersCounted /\ ZonesCounted
  BY Zenon DEF Inv, TypeOK, CountsMatchHolders, HoldersCounted, ZonesCounted
<1>1. \A y \in Zones, l \in Locks : counters[y][l] = holders(y, l) /\ holders(y, l) \in Nat
  BY <1>0, HoldersFinite DEF HoldersCounted, holders
<1>2. counters[z][l0] \in Nat \ {0}
  BY <1>1
<1>3. ZonesCounted'
  BY Zenon, <1>0, <1>2, ReleaseZonesCounted
<1>4. \A y \in Zones, l \in Locks : counters'[y][l] = holders(y, l)'
  BY <1>0, <1>1, ReleaseCounters
<1> QED BY <1>3, <1>4, Zenon DEF CountsMatchHolders, ZonesCounted, holders

(* updateBlockMapPage() drops the newer lock its page held.                *)
LEMMA ReleaseOldCounted ==
  ASSUME Inv, NEW z \in Zones, ReleaseOldLock(z) PROVE CountsMatchHolders'
<1>0. TypeOK /\ Updating /\ zoneOldLock[z] # 0
  BY Zenon DEF Inv, Updating, ReleaseOldLock
<1>1. PICK l0 \in Locks : l0 = BlockNumber(zoneOldLock[z])
  BY Zenon, <1>0, BlockNumberInRange DEF TypeOK
<1>2. /\ releaseLockCountReference(z, l0) /\ zoneOldLock' = [zoneOldLock EXCEPT ![z] = 0]
      /\ pageLock' = pageLock /\ slabLock' = slabLock
  BY Zenon, <1>1 DEF ReleaseOldLock
<1>3. ASSUME NEW y \in Zones, NEW l \in Locks
      PROVE  /\ holders(y, l)' = holders(y, l) - (IF y = z /\ l = l0 THEN 1 ELSE 0)
             /\ holders(y, l)' \in Nat
  <2>0. /\ Cardinality(PageHolders(y, l)) \in Nat /\ Cardinality(SlabHolders(y, l)) \in Nat
        /\ Cardinality(UpdateHolders(y, l)) \in Nat
    BY Zenon, HoldersFinite
  <2>1. PageHolders(y, l)' = PageHolders(y, l) /\ SlabHolders(y, l)' = SlabHolders(y, l)
    BY Zenon, <1>2 DEF PageHolders, SlabHolders
  <2>2. CASE y = z /\ l = l0
    <3>1. UpdateHolders(y, l) = {z} /\ UpdateHolders(y, l)' = {}
      BY Zenon, <1>0, <1>1, <1>2, <2>2 DEF UpdateHolders, TypeOK
    <3>2. Cardinality(UpdateHolders(y, l)) = 1 /\ Cardinality(UpdateHolders(y, l)') = 0
      BY Zenon, <3>1, FS_EmptySet, FS_Singleton
    <3> QED BY <2>0, <2>1, <2>2, <3>2 DEF holders
  <2>3. CASE ~(y = z /\ l = l0)
    <3>1. UpdateHolders(y, l)' = UpdateHolders(y, l)
      BY Zenon, <1>0, <1>1, <1>2, <2>3 DEF UpdateHolders, TypeOK
    <3> QED BY <2>0, <2>1, <2>3, <3>1 DEF holders
  <2> QED BY Zenon, <2>2, <2>3
<1> QED BY Zenon, <1>2, <1>3, ReleaseCounted

(* A written page drops its lock.                                          *)
LEMMA PageWrittenCounted ==
  ASSUME Inv, NEW p \in Pages, PageWritten(p) PROVE CountsMatchHolders'
<1>0. TypeOK /\ pageLock[p] # 0
  BY Zenon DEF Inv, PageWritten
<1>1. PICK z \in LogicalZones : z = PageZone[p]
  BY Zenon, ReapingAssumption
<1>2. PICK l0 \in Locks : l0 = BlockNumber(pageLock[p])
  BY Zenon, <1>0, BlockNumberInRange DEF TypeOK
<1>3. /\ z \in Zones
      /\ releaseLockCountReference(z, l0) /\ pageLock' = [pageLock EXCEPT ![p] = 0]
      /\ zoneOldLock' = zoneOldLock /\ slabLock' = slabLock
  BY Zenon, <1>1, <1>2 DEF PageWritten, Zones
<1>4. ASSUME NEW y \in Zones, NEW l \in Locks
      PROVE  /\ holders(y, l)' = holders(y, l) - (IF y = z /\ l = l0 THEN 1 ELSE 0)
             /\ y = z /\ l = l0 => holders(y, l)' \in Nat
  <2>0. /\ Cardinality(PageHolders(y, l)) \in Nat /\ Cardinality(SlabHolders(y, l)) \in Nat
        /\ Cardinality(UpdateHolders(y, l)) \in Nat /\ IsFiniteSet(PageHolders(y, l))
    BY Zenon, HoldersFinite
  <2>1. UpdateHolders(y, l)' = UpdateHolders(y, l) /\ SlabHolders(y, l)' = SlabHolders(y, l)
    BY Zenon, <1>3 DEF UpdateHolders, SlabHolders
  <2>2. CASE y = z /\ l = l0
    <3>1. PageHolders(y, l)' = PageHolders(y, l) \ {p} /\ p \in PageHolders(y, l)
      BY Zenon, <1>0, <1>1, <1>2, <1>3, <2>2 DEF PageHolders, TypeOK
    <3>2. /\ Cardinality(PageHolders(y, l)') = Cardinality(PageHolders(y, l)) - 1
          /\ Cardinality(PageHolders(y, l)') \in Nat
      BY <2>0, <3>1, FS_RemoveElement, FS_CardinalityType
    <3> QED BY <2>0, <2>1, <2>2, <3>2 DEF holders
  <2>3. CASE ~(y = z /\ l = l0)
    <3>1. PageHolders(y, l)' = PageHolders(y, l)
      BY Zenon, <1>0, <1>1, <1>2, <1>3, <2>3 DEF PageHolders, TypeOK
    <3> QED BY <2>0, <2>1, <2>3, <3>1 DEF holders
  <2> QED BY Zenon, <2>2, <2>3
<1> QED BY Zenon, <1>3, <1>4, ReleaseCounted

(* A committed slab journal block drops its lock.                          *)
LEMMA SlabReleaseCounted ==
  ASSUME Inv, NEW b \in SlabBlocks, ReleaseJournalLocks(b) PROVE CountsMatchHolders'
<1>0. TypeOK /\ slabLock[b] # 0
  BY Zenon DEF Inv, ReleaseJournalLocks
<1>1. PICK z \in PhysicalZones : z = SlabBlockZone[b]
  BY Zenon, ReapingAssumption
<1>2. PICK l0 \in Locks : l0 = BlockNumber(slabLock[b])
  BY Zenon, <1>0, BlockNumberInRange DEF TypeOK
<1>3. /\ z \in Zones
      /\ releaseLockCountReference(z, l0) /\ slabLock' = [slabLock EXCEPT ![b] = 0]
      /\ zoneOldLock' = zoneOldLock /\ pageLock' = pageLock
  BY Zenon, <1>1, <1>2 DEF ReleaseJournalLocks, Zones
<1>4. ASSUME NEW y \in Zones, NEW l \in Locks
      PROVE  /\ holders(y, l)' = holders(y, l) - (IF y = z /\ l = l0 THEN 1 ELSE 0)
             /\ y = z /\ l = l0 => holders(y, l)' \in Nat
  <2>0. /\ Cardinality(PageHolders(y, l)) \in Nat /\ Cardinality(SlabHolders(y, l)) \in Nat
        /\ Cardinality(UpdateHolders(y, l)) \in Nat /\ IsFiniteSet(SlabHolders(y, l))
    BY Zenon, HoldersFinite
  <2>1. UpdateHolders(y, l)' = UpdateHolders(y, l) /\ PageHolders(y, l)' = PageHolders(y, l)
    BY <1>3 DEF UpdateHolders, PageHolders
  <2>2. CASE y = z /\ l = l0
    <3>1. SlabHolders(y, l)' = SlabHolders(y, l) \ {b} /\ b \in SlabHolders(y, l)
      BY Zenon, <1>0, <1>1, <1>2, <1>3, <2>2 DEF SlabHolders, TypeOK
    <3>2. /\ Cardinality(SlabHolders(y, l)') = Cardinality(SlabHolders(y, l)) - 1
          /\ Cardinality(SlabHolders(y, l)') \in Nat
      BY <2>0, <3>1, FS_RemoveElement, FS_CardinalityType
    <3> QED BY <2>0, <2>1, <2>2, <3>2 DEF holders
  <2>3. CASE ~(y = z /\ l = l0)
    <3>1. SlabHolders(y, l)' = SlabHolders(y, l)
      BY Zenon, <1>0, <1>1, <1>2, <1>3, <2>3 DEF SlabHolders, TypeOK
    <3> QED BY <2>0, <2>1, <2>3, <3>1 DEF holders
  <2> QED BY <2>2, <2>3
<1> QED BY <1>3, <1>4, ReleaseCounted

(* Every step keeps the counts of the lock counter exact.                  *)
LEMMA NextCountsMatchHolders == Inv /\ [Next]_vars => CountsMatchHolders'
<1> SUFFICES ASSUME Inv, [Next]_vars PROVE CountsMatchHolders'
  OBVIOUS
<1>1. ASSUME UNCHANGED <<counters, logicalZoneCounts, physicalZoneCounts>>,
             UNCHANGED <<pageLock, slabLock, zoneOldLock>>
      PROVE  CountsMatchHolders'
  BY <1>1, Zenon DEF Inv, CountsMatchHolders, PageHolders, SlabHolders, UpdateHolders
<1>2. CASE JournalNext
  BY Zenon, <1>1, <1>2, JournalFrame DEF zoneVars, zoneCountVars
<1>3. ASSUME NEW z \in Zones, Notify(z) \/ ReleaseEntryLock(z) PROVE CountsMatchHolders'
  BY <1>1, <1>3, Zenon DEF Notify, ReleaseEntryLock, attemptNotification,
     releaseJournalZoneReferenceFromOtherZone, countVars, zoneCountVars
<1>4. CASE ZoneNext
  BY Zenon, <1>3, <1>4, UpdateCounted, AddEntryCounted, ReleaseOldCounted, PageWrittenCounted,
     SlabReleaseCounted DEF ZoneNext, ZoneStep
<1>5. CASE UNCHANGED vars
  BY Zenon, <1>1, <1>5 DEF vars, lockVars, countVars, zoneCountVars, zoneVars
<1> QED BY Zenon, <1>2, <1>4, <1>5 DEF Next

-----------------------------------------------------------------------------
(* The journal starts with no block, no reference and no reap.             *)
LEMMA InitInv == Init => Inv
<1> SUFFICES ASSUME Init PROVE Inv
  BY Zenon
<1>1. TypeOK
  BY Zenon, InitTypeOK
<1>2. Ordered
  BY SizeAssumption DEF Init, Ordered
<1>3. Moded
  BY Zenon, ReapingAssumption DEF Init, Moded, Zones
<1>4. Needed
  BY Zenon DEF Init, Needed
<1>5. Updating
  BY Zenon DEF Init, Updating
<1>6. JournalCounted
  <2>0. \A l \in Locks : journalCounters[l] = 0 /\ journalDecrementCounts[l] = 0
    BY Zenon DEF Init, makeLockCounter
  <2>1. \A l \in Locks : EntryHolders(l) = {} /\ journalZoneCount(l) = 0
    BY <2>0 DEF Init, EntryHolders, journalZoneCount
  <2>2. \A l \in Locks : surplus(l) = 0
    BY <2>1, FS_EmptySet DEF surplus
  <2>3. recycled .. tail - 1 = {}
    BY DEF Init
  <2> QED BY Zenon, <2>2, <2>3 DEF JournalCounted
<1>7. CountsMatchHolders
  <2>1. ASSUME NEW z \in Zones, NEW l \in Locks
        PROVE  /\ PageHolders(z, l) = {} /\ SlabHolders(z, l) = {} /\ UpdateHolders(z, l) = {}
               /\ counters[z][l] = 0
    BY Zenon DEF Init, makeLockCounter, PageHolders, SlabHolders, UpdateHolders
  <2>2. ASSUME NEW l \in Locks
        PROVE  /\ logicalZoneCounts[l] = 0 /\ physicalZoneCounts[l] = 0
               /\ {z \in LogicalZones : counters[z][l] # 0} = {}
               /\ {z \in PhysicalZones : counters[z][l] # 0} = {}
    BY <2>1, Zenon DEF Init, makeLockCounter, Zones
  <2>3. Cardinality({}) = 0
    BY Zenon, FS_EmptySet
  <2>4. \A z \in Zones, l \in Locks :
          counters[z][l] = Cardinality(PageHolders(z, l)) + Cardinality(SlabHolders(z, l))
                            + Cardinality(UpdateHolders(z, l))
    <3> SUFFICES ASSUME NEW z \in Zones, NEW l \in Locks
                 PROVE  counters[z][l] = Cardinality(PageHolders(z, l)) + Cardinality(SlabHolders(z, l))
                                          + Cardinality(UpdateHolders(z, l))
      BY Zenon
    <3>1. /\ Cardinality(PageHolders(z, l)) = 0 /\ Cardinality(SlabHolders(z, l)) = 0
          /\ Cardinality(UpdateHolders(z, l)) = 0
      BY Zenon, <2>1, <2>3
    <3> QED BY <2>1, <3>1
  <2> QED BY <2>2, <2>3, <2>4, Zenon DEF CountsMatchHolders
<1>8. ReadValid
  BY Zenon DEF Init, ReadValid
<1> QED BY Zenon, <1>1, <1>2, <1>3, <1>4, <1>5, <1>6, <1>7, <1>8 DEF Inv

(* Every step preserves the inductive invariant.                           *)
LEMMA NextInv == Inv /\ [Next]_vars => Inv'
<1> SUFFICES ASSUME Inv, [Next]_vars PROVE Inv'
  BY Zenon
<1>1. TypeOK'
  BY Zenon, NextTypeOK DEF Inv
<1> QED
  BY Zenon, <1>1, NextOrdered, NextModed, NextNeeded, NextUpdating, NextJournalCounted,
     NextCountsMatchHolders, NextReadValid DEF Inv

(* The inductive invariant holds in every reachable state.                 *)
THEOREM Invariance == Spec => []Inv
  BY InitInv, NextInv, PTL DEF Spec

(* The counts, sequence numbers and states of the journal, its lock        *)
(* counter and the zones always have their types.                          *)
THEOREM TypeCorrect == Spec => []TypeOK
<1>1. Inv => TypeOK
  BY Zenon DEF Inv
<1> QED BY <1>1, Invariance, PTL

(* reapRecoveryJournal() never reaps a block which a DataVIO, a block map  *)
(* page or a slab journal block still needs, although isLocked() reads the *)
(* counts one at a time and without a common lock.                         *)
THEOREM ReapingIsSafe == Spec => []NoPrematureReap
<1>1. Inv => NoPrematureReap
  BY Zenon DEF Inv, TypeOK, Sequence, Needed, NoPrematureReap
<1> QED BY <1>1, Invariance, PTL

(* The counts of the lock counter are exactly the references held.         *)
THEOREM CountsAreExact == Spec => []CountsMatchHolders
<1>1. Inv => CountsMatchHolders
  BY Zenon DEF Inv
<1> QED BY <1>1, Invariance, PTL

(* initializeLockCount() only ever initializes a lock which nobody holds.  *)
THEOREM NewLockIsFree == Spec => InitializedLockIsFree
<1> DEFINE l0 == BlockNumber(tail)
           Free == ~isJournalZoneLocked(l0) /\ logicalZoneCounts[l0] = 0 /\ physicalZoneCounts[l0] = 0
<1>1. Inv /\ [Next]_vars => [tail' # tail => Free]_vars
  <2> SUFFICES ASSUME Inv, Next, tail' # tail PROVE Free
    BY Zenon
  <2>1. ~ZoneNext
    BY Zenon, ZoneFrame DEF journalVars, blockVars
  <2>2. assignEntry /\ needsNewBlock
    BY <2>1, Zenon DEF Next, JournalNext, AssignIncrement, AssignDecrement, assignEntry, CompleteWrite,
       JournalStep, RecycleBlock, NotifyInline, ReapCallback, ReapBlockMap, ReapSlabJournal,
       FinishReap, CheckForDrainComplete, DequeueCallback, CompleteReaping, Drain, Resume, blockVars
  <2>3. PICK l \in Locks : l = l0
    BY Zenon, BlockNumberInRange DEF Inv, TypeOK, Sequence
  <2>4. /\ EntryHolders(l) = {}
        /\ \A s \in recycled .. tail - 1 : BlockNumber(s) # l
        /\ \A z \in Zones : PageHolders(z, l) = {} /\ SlabHolders(z, l) = {} /\ UpdateHolders(z, l) = {}
    BY Zenon, <2>2, <2>3, NewBlockIsFree DEF PageHolders, SlabHolders, UpdateHolders
  <2>5. Cardinality({}) = 0
    BY Zenon, FS_EmptySet
  <2>6. surplus(l) = 0 /\ journalZoneCount(l) = 0
    BY <2>3, <2>4, <2>5, SurplusType DEF Inv, JournalCounted, surplus
  <2>7. ~isJournalZoneLocked(l)
    <3>1. journalCounters[l] \in Int /\ journalDecrementCounts[l] \in Int
      BY Zenon DEF Inv, TypeOK, LockCounterTypeOK
    <3> QED BY <2>6, <3>1 DEF isJournalZoneLocked, journalZoneCount
  <2>8. \A z \in Zones : counters[z][l] = 0
    <3> SUFFICES ASSUME NEW z \in Zones PROVE counters[z][l] = 0
      BY Zenon
    <3>1. /\ Cardinality(PageHolders(z, l)) = 0 /\ Cardinality(SlabHolders(z, l)) = 0
          /\ Cardinality(UpdateHolders(z, l)) = 0
      BY Zenon, <2>4, <2>5
    <3> QED BY <3>1 DEF Inv, CountsMatchHolders
  <2>9. {z \in LogicalZones : counters[z][l] # 0} = {} /\ {z \in PhysicalZones : counters[z][l] # 0} = {}
    BY Zenon, <2>8 DEF Zones
  <2>10. logicalZoneCounts[l] = 0 /\ physicalZoneCounts[l] = 0
    BY Zenon, <2>3, <2>5, <2>9 DEF Inv, CountsMatchHolders
  <2> QED BY Zenon, <2>3, <2>7, <2>10
<1> QED BY <1>1, Invariance, PTL DEF Spec, InitializedLockIsFree

(* A reap never goes on while the flush of an earlier one is out, and      *)
(* neither does while the journal is suspended or saved.                   *)
ReapsAlone ==
  /\ step \in {"drainThenReap", "blockMapJournal", "blockMapZone", "slabJournal", "slabZone", "finish"}
       => ~reaping /\ ~isQuiescent
  /\ isQuiescent => ~reaping

LEMMA NextReapsAlone == Inv /\ ReapsAlone /\ [Next]_vars => ReapsAlone'
<1> SUFFICES ASSUME Inv, ReapsAlone, [Next]_vars PROVE ReapsAlone'
  BY Zenon
<1> USE DEF ReapsAlone, isQuiescent
<1>1. CASE ZoneNext
  BY <1>1, ZoneFrame DEF journalVars, headVars
<1>2. ASSUME NEW v \in DataVIOs, AssignIncrement(v) \/ AssignDecrement(v) PROVE ReapsAlone'
  BY <1>2 DEF AssignIncrement, AssignDecrement, assignEntry, headVars
<1>3. ASSUME NEW s, NEW n, CompleteWrite(s, n) PROVE ReapsAlone'
  BY Zenon, <1>3 DEF CompleteWrite, headVars
<1>4. CASE RecycleBlock \/ NotifyInline
  <2>1. step' \in {"notify", "callback", "recycle", "idle"}
    BY <1>4, Zenon DEF RecycleBlock, NotifyInline, done
  <2>2. UNCHANGED <<admin, reaping>>
    BY <1>4, Zenon DEF RecycleBlock, NotifyInline, headVars
  <2> QED BY Zenon, <2>1, <2>2
<1>5. CASE ReapCallback \/ DequeueCallback
  BY <1>5 DEF ReapCallback, DequeueCallback, startReaping, done, headVars
<1>6. CASE ReapBlockMap \/ ReapSlabJournal
  BY <1>6 DEF ReapBlockMap, ReapSlabJournal, headVars
<1>7. CASE FinishReap \/ CompleteReaping
  BY Zenon, <1>7 DEF Inv, Moded, isDraining, FinishReap, CompleteReaping, finishReaping, done, headVars
<1>8. CASE CheckForDrainComplete
  BY Zenon, <1>8 DEF CheckForDrainComplete, headVars, Inv, Moded, isDraining
<1>9. CASE Resume
  BY Zenon, <1>9 DEF Resume
<1>10. ASSUME NEW operation \in {"suspending", "saving"}, Drain(operation) PROVE ReapsAlone'
  BY Zenon, <1>10 DEF Drain, headVars
<1>11. CASE UNCHANGED vars
  BY Zenon, <1>11 DEF vars, journalVars, headVars
<1> QED
  BY Zenon, <1>1, <1>2, <1>3, <1>4, <1>5, <1>6, <1>7, <1>8, <1>9, <1>10, <1>11
     DEF Next, JournalNext, JournalStep

(* A flush of the journal covers exactly the reap heads it was issued for. *)
THEOREM FlushCoversReap == Spec => ReapHeadsWaitForFlush
<1>1. Init => ReapsAlone
  BY Zenon DEF Init, ReapsAlone, isQuiescent
<1>2. Inv /\ ReapsAlone /\ [Next]_vars => [reaping /\ reaping' => UNCHANGED reapVars]_vars
  <2> SUFFICES ASSUME Inv, ReapsAlone, Next, reaping, reaping' PROVE UNCHANGED reapVars
    BY Zenon
  <2>1. CASE ZoneNext
    BY Zenon, <2>1, ZoneFrame DEF journalVars
  <2>2. CASE JournalNext
    BY <2>2, Zenon DEF JournalNext, JournalStep, ReapsAlone, AssignIncrement, AssignDecrement, assignEntry,
       CompleteWrite, RecycleBlock, NotifyInline, ReapCallback, ReapBlockMap, ReapSlabJournal,
       FinishReap, CheckForDrainComplete, DequeueCallback, CompleteReaping, finishReaping, Drain,
       Resume, isQuiescent, reapVars
  <2> QED BY Zenon, <2>1, <2>2 DEF Next
<1> QED BY <1>1, <1>2, NextReapsAlone, Invariance, PTL DEF Spec, ReapHeadsWaitForFlush

(* A lock is initialized only when it is free, and reaping waits for its   *)
(* flush, in every journal.                                                *)
THEOREM ReapingInOrder == Spec => ReapingIsOrderly
  BY NewLockIsFree, FlushCoversReap, PTL DEF ReapingIsOrderly
=============================================================================
