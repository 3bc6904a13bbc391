--------------------------- MODULE JournalReaping ---------------------------
(***************************************************************************)
(* Who may reap a recovery journal block, and when.                        *)
(*                                                                         *)
(* This module composes the lock counter with its users, at the            *)
(* granularity of accesses to shared memory:                               *)
(*   - the journal thread, which gives entries to DataVIOs, recycles       *)
(*     committed tail blocks, answers unlock notifications and reaps       *)
(*     (recoveryJournal.c);                                                *)
(*   - the logical zones, whose block map pages take over the lock of a    *)
(*     DataVIO and drop it once they are written (blockMapPage.c,          *)
(*     blockMap.c);                                                        *)
(*   - the physical zones, whose slab journal blocks lock the recovery     *)
(*     journal block of their first entry until they are committed         *)
(*     (slabJournal.c).                                                    *)
(* Which writes of a tail block contain which entries is abstracted here;  *)
(* module RecoveryJournal models it.                                       *)
(***************************************************************************)
EXTENDS Integers, FiniteSets

-----------------------------------------------------------------------------
(***************************************************************************)
(* The lock counter of the recovery journal (vdo/base/lockCounter.c).      *)
(*                                                                         *)
(* There is one lock per on-disk journal block.  A lock is held by three   *)
(* parties: the journal zone (a private count, minus a count of decrements *)
(* made by other threads), the logical zones and the physical zones (one   *)
(* private count per zone, and an atomic count of the zones whose private  *)
(* count is not zero).  The zone whose release makes such an atomic count  *)
(* zero tries to notify the owner of the counter, the journal thread.      *)
(*                                                                         *)
(* A step of a zone is one access to shared memory: the private count of a *)
(* zone changes together with the atomic operation that follows it, and    *)
(* the compare-and-swap of attemptNotification() is a step of its own.     *)
(***************************************************************************)

CONSTANTS LogicalZones,   \* the logical zones: holders for block map pages
          PhysicalZones,  \* the physical zones: holders for slab journals
          Size            \* the number of locks: blocks in the on-disk journal

Zones == LogicalZones \cup PhysicalZones
Locks == 0 .. Size - 1

ASSUME ZonesAssumption ==
  /\ IsFiniteSet(LogicalZones) /\ IsFiniteSet(PhysicalZones)
  /\ LogicalZones \cap PhysicalZones = {}
ASSUME SizeAssumption == Size \in Nat \ {0}

VARIABLES
  state,                  \* "not notifying", "notifying" or "suspended"
  enqueued,               \* the counter's completion waits for the journal thread
  logicalZoneCounts,      \* per lock, how many logical zones hold it
  physicalZoneCounts,     \* per lock, how many physical zones hold it
  journalCounters,        \* per lock, the journal thread's own count
  journalDecrementCounts, \* per lock, the decrements made by other threads
  counters                \* per zone and lock, the zone's private count

zoneCountVars == <<logicalZoneCounts, physicalZoneCounts, counters>>
countVars == <<zoneCountVars, journalCounters, journalDecrementCounts>>
lockVars == <<state, enqueued, countVars>>

LockCounterStates == {"not notifying", "notifying", "suspended"}

LockCounterTypeOK ==
  /\ state \in LockCounterStates
  /\ enqueued \in BOOLEAN
  /\ logicalZoneCounts \in [Locks -> Int]
  /\ physicalZoneCounts \in [Locks -> Int]
  /\ journalCounters \in [Locks -> Int]
  /\ journalDecrementCounts \in [Locks -> Int]
  /\ counters \in [Zones -> [Locks -> Int]]

makeLockCounter ==
  /\ state = "not notifying"
  /\ enqueued = FALSE
  /\ logicalZoneCounts = [l \in Locks |-> 0]
  /\ physicalZoneCounts = [l \in Locks |-> 0]
  /\ journalCounters = [l \in Locks |-> 0]
  /\ journalDecrementCounts = [l \in Locks |-> 0]
  /\ counters = [z \in Zones |-> [l \in Locks |-> 0]]

-----------------------------------------------------------------------------
(* What the counter tells the journal thread.                              *)

isJournalZoneLocked(l) == journalCounters[l] # journalDecrementCounts[l]

(* isLocked() reads the journal zone's counts first, then the zone count;  *)
(* the two reads are separate steps of the reaper.                         *)
zoneCountHeld(l, type) ==
  IF type = "logical" THEN logicalZoneCounts[l] # 0 ELSE physicalZoneCounts[l] # 0

-----------------------------------------------------------------------------
(* The operations of the zones.                                            *)

addToZoneCount(z, l, delta) ==
  /\ logicalZoneCounts' = IF z \in LogicalZones
                          THEN [logicalZoneCounts EXCEPT ![l] = @ + delta]
                          ELSE logicalZoneCounts
  /\ physicalZoneCounts' = IF z \in LogicalZones
                           THEN physicalZoneCounts
                           ELSE [physicalZoneCounts EXCEPT ![l] = @ + delta]

acquireLockCountReference(z, l) ==
  /\ addToZoneCount(z, l, IF counters[z][l] = 0 THEN 1 ELSE 0)
  /\ counters' = [counters EXCEPT ![z][l] = @ + 1]
  /\ UNCHANGED <<state, enqueued, journalCounters, journalDecrementCounts>>

(* Mutant: the zone is given up one release too late.                      *)
releaseLockCountReference_offByOne(z, l) ==
  /\ addToZoneCount(z, l, IF counters[z][l] = 0 THEN -1 ELSE 0)
  /\ counters' = [counters EXCEPT ![z][l] = @ - 1]
  /\ UNCHANGED <<state, enqueued, journalCounters, journalDecrementCounts>>

releaseLockCountReference(z, l) ==
  /\ addToZoneCount(z, l, IF counters[z][l] = 1 THEN -1 ELSE 0)
  /\ counters' = [counters EXCEPT ![z][l] = @ - 1]
  /\ UNCHANGED <<state, enqueued, journalCounters, journalDecrementCounts>>

(* The release above leaves its zone obliged to notify the owner.          *)
isLastHolder(z, l) ==
  /\ counters[z][l] = 1
  /\ (IF z \in LogicalZones THEN logicalZoneCounts[l] ELSE physicalZoneCounts[l]) = 1

(* attemptNotification() on another thread: the callback is enqueued.      *)
attemptNotification ==
  /\ state' = IF state = "not notifying" THEN "notifying" ELSE state
  /\ enqueued' = (enqueued \/ state = "not notifying")
  /\ UNCHANGED countVars

releaseJournalZoneReferenceFromOtherZone(l) ==
  /\ journalDecrementCounts' = [journalDecrementCounts EXCEPT ![l] = @ + 1]
  /\ UNCHANGED <<state, enqueued, zoneCountVars, journalCounters>>

-----------------------------------------------------------------------------
(* The operations of the journal thread.                                   *)

initializeLockCount(l, value) ==
  /\ journalCounters' = [journalCounters EXCEPT ![l] = value]
  /\ journalDecrementCounts' = [journalDecrementCounts EXCEPT ![l] = 0]
  /\ UNCHANGED <<state, enqueued, zoneCountVars>>

releaseJournalZoneReference(l) ==
  /\ journalCounters' = [journalCounters EXCEPT ![l] = @ - 1]
  /\ UNCHANGED <<state, enqueued, zoneCountVars, journalDecrementCounts>>

(* attemptNotification() on the journal thread itself: invokeCallback()    *)
(* runs the callback at once instead of enqueueing it.                     *)
attemptInlineNotification ==
  /\ state' = IF state = "not notifying" THEN "notifying" ELSE state
  /\ UNCHANGED <<enqueued, countVars>>

acknowledgeUnlock ==
  /\ state' = "not notifying"
  /\ UNCHANGED <<enqueued, countVars>>

suspendLockCounter ==
  /\ state \in {"suspended", "not notifying"}
  /\ state' = "suspended"
  /\ UNCHANGED <<enqueued, countVars>>

resumeLockCounter ==
  /\ state = "suspended"
  /\ state' = "not notifying"
  /\ UNCHANGED <<enqueued, countVars>>

-----------------------------------------------------------------------------
CONSTANTS
  DataVIOs,         \* the writes in progress
  Pages,            \* block map pages, each holding at most one lock
  SlabBlocks,       \* slab journal blocks, each holding at most one lock
  PageZone,         \* the logical zone of each page
  SlabBlockZone,    \* the physical zone of each slab journal block
  EntriesPerBlock,  \* entries in one recovery journal block
  Synchronous,      \* WRITE_POLICY_SYNC: reaping needs no flush
  MaxTail,          \* bound: sequence numbers stay below it
  NoVIO             \* "no DataVIO"

ASSUME ReapingAssumption ==
  /\ IsFiniteSet(DataVIOs) /\ IsFiniteSet(Pages) /\ IsFiniteSet(SlabBlocks)
  /\ PageZone \in [Pages -> LogicalZones]
  /\ SlabBlockZone \in [SlabBlocks -> PhysicalZones]
  /\ EntriesPerBlock \in Nat \ {0}
  /\ Synchronous \in BOOLEAN
  /\ MaxTail \in Nat \ {0}
  /\ NoVIO \notin DataVIOs

VARIABLES
  \* the recovery journal, all of it private to the journal thread
  admin,                 \* "normal", "suspending", "saving", "suspended", "saved"
  tail,                  \* the next sequence number
  entryCount,            \* entries in the newest block, tail - 1
  recycled,              \* blocks below it have given up their own lock
  recycleTo,             \* blocks below it are ready to be recycled
  lastWriteAcknowledged, \* the newest block to which a write has finished
  blockMapHead, slabJournalHead,
  blockMapReapHead, slabJournalReapHead,
  reaping,               \* a flush has been launched to finish a reap
  step,                  \* where the journal thread is in its handler
  \* the DataVIOs
  stage,                 \* what the write has done so far
  increment, decrement,  \* the blocks of its journal entries
  \* the zones
  pageLock,              \* the block each page locks, or 0
  slabLock,              \* the block each slab journal block locks, or 0
  zoneStep,              \* where each zone thread is in its handler
  zoneVIO, zoneOldLock   \* the locals of updateBlockMapPage()

blockVars == <<tail, entryCount, recycled, recycleTo>>
headVars == <<blockMapHead, slabJournalHead, reaping>>
reapVars == <<blockMapReapHead, slabJournalReapHead>>
journalVars == <<admin, blockVars, lastWriteAcknowledged, headVars, reapVars, step>>
vioVars == <<stage, increment, decrement>>
zoneVars == <<pageLock, slabLock, zoneStep, zoneVIO, zoneOldLock>>
vars == <<lockVars, journalVars, vioVars, zoneVars>>

-----------------------------------------------------------------------------
Stages == {"idle", "incremented", "increfed", "decremented", "decrefed", "updating"}
ZoneSteps == {"idle", "releaseOld", "notify", "releaseEntry"}
Steps == {"idle", "recycle", "notify", "callback", "blockMapJournal", "blockMapZone",
          "slabJournal", "slabZone", "finish", "drain", "drainThenReap"}
AdminStates == {"normal", "suspending", "saving", "suspended", "saved"}

(* Sequence numbers start at 1; a lock field of 0 is no lock at all.       *)
Sequence == Nat \ {0}

TypeOK ==
  /\ LockCounterTypeOK
  /\ admin \in AdminStates
  /\ tail \in Sequence /\ entryCount \in 0 .. EntriesPerBlock
  /\ recycled \in Sequence /\ recycleTo \in Sequence
  /\ lastWriteAcknowledged \in Sequence
  /\ blockMapHead \in Sequence /\ slabJournalHead \in Sequence
  /\ blockMapReapHead \in Sequence /\ slabJournalReapHead \in Sequence
  /\ reaping \in BOOLEAN /\ step \in Steps
  /\ stage \in [DataVIOs -> Stages]
  /\ increment \in [DataVIOs -> Nat] /\ decrement \in [DataVIOs -> Nat]
  /\ pageLock \in [Pages -> Nat] /\ slabLock \in [SlabBlocks -> Nat]
  /\ zoneStep \in [Zones -> ZoneSteps]
  /\ zoneVIO \in [Zones -> DataVIOs \cup {NoVIO}]
  /\ zoneOldLock \in [Zones -> Nat]

(* getRecoveryJournalBlockNumber(); the size is a power of two.            *)
BlockNumber(sequence) == sequence % Size

Least(a, b) == IF a < b THEN a ELSE b
getRecoveryJournalHead == Least(blockMapHead, slabJournalHead)

Init ==
  /\ makeLockCounter
  /\ admin = "normal"
  /\ tail = 1 /\ entryCount = 0 /\ recycled = 1 /\ recycleTo = 1
  /\ lastWriteAcknowledged = 1
  /\ blockMapHead = 1 /\ slabJournalHead = 1
  /\ blockMapReapHead = 1 /\ slabJournalReapHead = 1
  /\ reaping = FALSE /\ step = "idle"
  /\ stage = [v \in DataVIOs |-> "idle"]
  /\ increment = [v \in DataVIOs |-> 0] /\ decrement = [v \in DataVIOs |-> 0]
  /\ pageLock = [p \in Pages |-> 0] /\ slabLock = [b \in SlabBlocks |-> 0]
  /\ zoneStep = [z \in Zones |-> "idle"]
  /\ zoneVIO = [z \in Zones |-> NoVIO]
  /\ zoneOldLock = [z \in Zones |-> 0]

-----------------------------------------------------------------------------
(* The journal thread: assigning entries.                                  *)

isDraining == admin \in {"suspending", "saving"}
isQuiescent == admin \in {"suspended", "saved"}

(* A DataVIO goes on once the write of its entry's block has finished.     *)
isCommitted(sequence) == sequence <= lastWriteAcknowledged

(* Mutant: a full block takes further entries until it is recycled.        *)
needsNewBlock_neverFull == recycled = tail

(* isRecoveryBlockFull(activeBlock): there is no room in the newest block, *)
(* or it has been recycled.                                                *)
needsNewBlock == entryCount = EntriesPerBlock \/ recycled = tail
entryBlock == IF needsNewBlock THEN tail ELSE tail - 1

(* Mutant: one block too many fits the journal.                            *)
prepareToAssignEntry_offByOne ==
  /\ step = "idle" /\ admin = "normal"
  /\ needsNewBlock => /\ tail < MaxTail
                      /\ tail - getRecoveryJournalHead <= Size

(* The on-disk journal has room for the new block.                         *)
prepareToAssignEntry ==
  /\ step = "idle" /\ admin = "normal"
  /\ needsNewBlock => /\ tail < MaxTail
                      /\ (tail + 1) - getRecoveryJournalHead <= Size

assignEntry ==
  /\ prepareToAssignEntry
  /\ tail' = IF needsNewBlock THEN tail + 1 ELSE tail
  /\ entryCount' = IF needsNewBlock THEN 1 ELSE entryCount + 1
  /\ UNCHANGED <<admin, recycled, recycleTo, lastWriteAcknowledged, headVars,
                 reapVars>>

AssignIncrement(v) ==
  /\ stage[v] = "idle"
  /\ assignEntry
  /\ IF needsNewBlock
     THEN initializeLockCount(BlockNumber(tail), EntriesPerBlock + 1)
     ELSE UNCHANGED lockVars
  /\ stage' = [stage EXCEPT ![v] = "incremented"]
  /\ increment' = [increment EXCEPT ![v] = entryBlock]
  /\ UNCHANGED <<decrement, step, zoneVars>>

(* The lock of a decrement entry is dropped at once: the lock of the       *)
(* DataVIO's increment protects both of its entries.                       *)
AssignDecrement(v) ==
  /\ stage[v] \in {"incremented", "increfed"} /\ isCommitted(increment[v])
  /\ assignEntry
  /\ IF needsNewBlock
     THEN initializeLockCount(BlockNumber(tail), EntriesPerBlock)
     ELSE releaseJournalZoneReference(BlockNumber(entryBlock))
  /\ LET l == BlockNumber(entryBlock)
     IN  step' = IF journalCounters'[l] # journalDecrementCounts'[l] THEN "idle" ELSE "notify"
  /\ stage' = [stage EXCEPT ![v] = "decremented"]
  /\ decrement' = [decrement EXCEPT ![v] = entryBlock]
  /\ UNCHANGED <<increment, zoneVars>>

-----------------------------------------------------------------------------
(* The journal thread: the end of a write.                                 *)

(* The handler goes on recycling, or is done.                              *)
done == IF recycled < recycleTo THEN "recycle" ELSE "idle"

(* completeWrite(): a write of block s has finished, and all the blocks    *)
(* below n are full and completely committed.                              *)
CompleteWrite(s, n) ==
  /\ step = "idle" /\ admin = "normal"
  /\ s \in recycled .. tail - 1
  /\ lastWriteAcknowledged' = IF s > lastWriteAcknowledged THEN s ELSE lastWriteAcknowledged
  /\ n \in recycled .. s + 1
  /\ n = tail => entryCount = EntriesPerBlock
  /\ recycleTo' = n
  /\ step' = IF recycled < n THEN "recycle" ELSE "idle"
  /\ UNCHANGED <<lockVars, vioVars, zoneVars, admin, tail, entryCount, recycled,
                 headVars, reapVars>>

(* recycleJournalBlock() on a full block: only its own lock is left.       *)
RecycleBlock ==
  /\ step = "recycle"
  /\ releaseJournalZoneReference(BlockNumber(recycled))
  /\ recycled' = recycled + 1
  /\ LET l == BlockNumber(recycled)
     IN  step' = IF journalCounters'[l] = journalDecrementCounts'[l] THEN "notify"
                 ELSE IF recycled + 1 < recycleTo THEN "recycle" ELSE "idle"
  /\ UNCHANGED <<vioVars, zoneVars, admin, tail, entryCount, recycleTo,
                 lastWriteAcknowledged, headVars, reapVars>>

NotifyInline ==
  /\ step = "notify"
  /\ attemptInlineNotification
  /\ step' = IF state = "not notifying" THEN "callback" ELSE done
  /\ UNCHANGED <<vioVars, zoneVars, admin, blockVars, lastWriteAcknowledged,
                 headVars, reapVars>>

-----------------------------------------------------------------------------
(* The journal thread: answering notifications and reaping.                *)

(* The early returns of reapRecoveryJournal().                             *)
startReaping == IF reaping \/ isQuiescent THEN done ELSE "blockMapJournal"

DequeueCallback ==
  /\ step = "idle" /\ enqueued
  /\ enqueued' = FALSE
  /\ step' = "callback"
  /\ UNCHANGED <<state, countVars, vioVars, zoneVars, admin, blockVars,
                 lastWriteAcknowledged, headVars, reapVars>>

(* Mutant: the callback does not check whether it ends a drain.            *)
ReapCallback_ignoresDrain ==
  /\ step = "callback"
  /\ acknowledgeUnlock
  /\ step' = IF isDraining THEN "idle" ELSE startReaping
  /\ UNCHANGED <<vioVars, zoneVars, admin, blockVars, lastWriteAcknowledged,
                 headVars, reapVars>>

(* The acknowledgement precedes the reaping, so that an unlock which finds *)
(* a notification in progress is seen by the reap that follows.            *)
ReapCallback ==
  /\ step = "callback"
  /\ acknowledgeUnlock
  /\ step' = IF isDraining THEN "drain" ELSE startReaping
  /\ UNCHANGED <<vioVars, zoneVars, admin, blockVars, lastWriteAcknowledged,
                 headVars, reapVars>>

(* Mutant: isLocked() reads the zone count before the journal zone counts. *)
ReapBlockMap_zoneCountFirst ==
  /\ \/ /\ step = "blockMapJournal"
        /\ step' = IF \/ blockMapReapHead >= lastWriteAcknowledged
                      \/ zoneCountHeld(BlockNumber(blockMapReapHead), "logical")
                   THEN "slabJournal" ELSE "blockMapZone"
        /\ UNCHANGED blockMapReapHead
     \/ /\ step = "blockMapZone"
        /\ IF isJournalZoneLocked(BlockNumber(blockMapReapHead))
           THEN step' = "slabJournal" /\ UNCHANGED blockMapReapHead
           ELSE step' = "blockMapJournal" /\ blockMapReapHead' = blockMapReapHead + 1
  /\ UNCHANGED <<lockVars, vioVars, zoneVars, admin, blockVars,
                 lastWriteAcknowledged, headVars, slabJournalReapHead>>

(* One read of isLocked() for the block at the block map reap head: its    *)
(* journal zone counts, then its logical zone count.                       *)
ReapBlockMap ==
  /\ \/ /\ step = "blockMapJournal"
        /\ step' = IF \/ blockMapReapHead >= lastWriteAcknowledged
                      \/ isJournalZoneLocked(BlockNumber(blockMapReapHead))
                   THEN "slabJournal" ELSE "blockMapZone"
        /\ UNCHANGED blockMapReapHead
     \/ /\ step = "blockMapZone"
        /\ IF zoneCountHeld(BlockNumber(blockMapReapHead), "logical")
           THEN step' = "slabJournal" /\ UNCHANGED blockMapReapHead
           ELSE step' = "blockMapJournal" /\ blockMapReapHead' = blockMapReapHead + 1
  /\ UNCHANGED <<lockVars, vioVars, zoneVars, admin, blockVars,
                 lastWriteAcknowledged, headVars, slabJournalReapHead>>

(* The same for the slab journal reap head and the physical zones.         *)
ReapSlabJournal ==
  /\ \/ /\ step = "slabJournal"
        /\ step' = IF \/ slabJournalReapHead >= lastWriteAcknowledged
                      \/ isJournalZoneLocked(BlockNumber(slabJournalReapHead))
                   THEN "finish" ELSE "slabZone"
        /\ UNCHANGED slabJournalReapHead
     \/ /\ step = "slabZone"
        /\ IF zoneCountHeld(BlockNumber(slabJournalReapHead), "physical")
           THEN step' = "finish" /\ UNCHANGED slabJournalReapHead
           ELSE step' = "slabJournal" /\ slabJournalReapHead' = slabJournalReapHead + 1
  /\ UNCHANGED <<lockVars, vioVars, zoneVars, admin, blockVars,
                 lastWriteAcknowledged, headVars, blockMapReapHead>>

finishReaping ==
  /\ blockMapHead' = blockMapReapHead
  /\ slabJournalHead' = slabJournalReapHead
  /\ reaping' = FALSE

(* The end of reapRecoveryJournal(): nothing happened, or the heads move   *)
(* at once (synchronous), or a flush is launched first.                    *)
FinishReap ==
  /\ step = "finish"
  /\ IF blockMapReapHead = blockMapHead /\ slabJournalReapHead = slabJournalHead
     THEN step' = done /\ UNCHANGED headVars
     ELSE IF Synchronous
     THEN step' = (IF isDraining THEN "drain" ELSE done) /\ finishReaping
     ELSE step' = done /\ reaping' = TRUE /\ UNCHANGED <<blockMapHead,
                                                         slabJournalHead>>
  /\ UNCHANGED <<lockVars, vioVars, zoneVars, admin, blockVars,
                 lastWriteAcknowledged, reapVars>>

(* Mutant: no second reap for the locks released during the flush.         *)
CompleteReaping_once ==
  /\ step = "idle" /\ reaping
  /\ finishReaping
  /\ step' = IF isDraining THEN "drain" ELSE "idle"
  /\ UNCHANGED <<lockVars, vioVars, zoneVars, admin, blockVars,
                 lastWriteAcknowledged, reapVars>>

CompleteReaping ==
  /\ step = "idle" /\ reaping
  /\ finishReaping
  /\ step' = IF isDraining THEN "drainThenReap" ELSE "blockMapJournal"
  /\ UNCHANGED <<lockVars, vioVars, zoneVars, admin, blockVars,
                 lastWriteAcknowledged, reapVars>>

-----------------------------------------------------------------------------
(* The journal thread: suspending, saving and resuming.                    *)

(* Every entry is committed and every full block recycled.                 *)
allCommitted ==
  /\ lastWriteAcknowledged >= tail - 1
  /\ recycled >= (IF entryCount = EntriesPerBlock THEN tail ELSE tail - 1)

(* drainRecoveryJournal(): the writes are done, and the block map has been *)
(* drained, which for a save means that its pages have been written.       *)
Drain(operation) ==
  /\ step = "idle" /\ admin = "normal"
  /\ \A v \in DataVIOs : stage[v] = "idle"
  /\ \A z \in LogicalZones : zoneStep[z] = "idle"
  /\ operation = "saving" => \A p \in Pages : pageLock[p] = 0
  /\ allCommitted
  /\ admin' = operation
  /\ step' = "drain"
  /\ UNCHANGED <<lockVars, vioVars, zoneVars, blockVars, lastWriteAcknowledged,
                 headVars, reapVars>>

(* The locks which recycling the active block of a saved journal gives up: *)
(* those of its unused entries, and its own.                               *)
releaseActiveBlock ==
  IF admin = "saving" /\ recycled < tail
  THEN [journalCounters EXCEPT
          ![BlockNumber(tail - 1)] = @ - (EntriesPerBlock - entryCount + 1)]
  ELSE journalCounters

(* checkForDrainComplete(): the drain ends unless a reap is in progress or *)
(* a notification is, in which case its callback checks again.             *)
CheckForDrainComplete ==
  /\ step \in {"drain", "drainThenReap"}
  /\ IF reaping \/ state = "notifying"
     THEN UNCHANGED <<lockVars, admin, recycled, recycleTo>>
     ELSE /\ state' = "suspended"
          /\ journalCounters' = releaseActiveBlock
          /\ recycled' = IF admin = "saving" THEN tail ELSE recycled
          /\ recycleTo' = recycled'
          /\ admin' = IF admin = "saving" THEN "saved" ELSE "suspended"
          /\ UNCHANGED <<enqueued, zoneCountVars, journalDecrementCounts>>
  /\ step' = IF step = "drainThenReap" /\ admin' = admin THEN "blockMapJournal" ELSE "idle"
  /\ UNCHANGED <<vioVars, zoneVars, tail, entryCount, lastWriteAcknowledged,
                 headVars, reapVars>>

(* resumeRecoveryJournal(): a saved journal starts afresh at its tail (the *)
(* slab depot, drained after the journal, has released its locks); then a  *)
(* reap makes up for the notifications missed while suspended.             *)
Resume ==
  /\ step = "idle" /\ isQuiescent
  /\ admin = "saved" => /\ \A b \in SlabBlocks : slabLock[b] = 0
                        /\ \A z \in Zones : zoneStep[z] = "idle"
  /\ admin' = "normal"
  /\ resumeLockCounter
  /\ IF admin = "saved"
     THEN /\ lastWriteAcknowledged' = tail
          /\ blockMapHead' = tail /\ slabJournalHead' = tail
          /\ blockMapReapHead' = tail /\ slabJournalReapHead' = tail
     ELSE UNCHANGED <<lastWriteAcknowledged, blockMapHead, slabJournalHead, reapVars>>
  /\ step' = IF reaping THEN "idle" ELSE "blockMapJournal"
  /\ UNCHANGED <<vioVars, zoneVars, blockVars, reaping>>

-----------------------------------------------------------------------------
(* The zones.                                                              *)

(* The first part of updateBlockMapPage(): the page locks the block of the *)
(* DataVIO's increment unless it already locks an older one.               *)
UpdateBlockMapPage(v, p) ==
  LET z         == PageZone[p]
      oldLocked == pageLock[p]
      newLocked == increment[v]
  IN /\ zoneStep[z] = "idle"
     /\ \/ stage[v] \in {"increfed", "decrefed"}
        \/ stage[v] = "decremented" /\ isCommitted(decrement[v])
     /\ IF oldLocked = 0 \/ oldLocked > newLocked
        THEN /\ acquireLockCountReference(z, BlockNumber(newLocked))
             /\ pageLock' = [pageLock EXCEPT ![p] = newLocked]
             /\ zoneOldLock' = [zoneOldLock EXCEPT ![z] = oldLocked]
             /\ zoneStep' = [zoneStep EXCEPT
                               ![z] = IF oldLocked > 0 THEN "releaseOld" ELSE "releaseEntry"]
        ELSE /\ zoneStep' = [zoneStep EXCEPT ![z] = "releaseEntry"]
             /\ UNCHANGED <<lockVars, pageLock, zoneOldLock>>
     /\ zoneVIO' = [zoneVIO EXCEPT ![z] = v]
     /\ stage' = [stage EXCEPT ![v] = "updating"]
     /\ UNCHANGED <<increment, decrement, slabLock, journalVars>>

(* The page held a newer lock, which it no longer needs.                   *)
ReleaseOldLock(z) ==
  LET l == BlockNumber(zoneOldLock[z])
  IN /\ zoneStep[z] = "releaseOld"
     /\ releaseLockCountReference(z, l)
     /\ zoneStep' = [zoneStep EXCEPT ![z] = IF isLastHolder(z, l) THEN "notify"
                                            ELSE "releaseEntry"]
     /\ zoneOldLock' = [zoneOldLock EXCEPT ![z] = 0]
     /\ UNCHANGED <<pageLock, slabLock, zoneVIO, vioVars, journalVars>>

Notify(z) ==
  /\ zoneStep[z] = "notify"
  /\ attemptNotification
  /\ zoneStep' = [zoneStep EXCEPT ![z] = IF zoneVIO[z] = NoVIO THEN "idle"
                                         ELSE "releaseEntry"]
  /\ UNCHANGED <<pageLock, slabLock, zoneVIO, zoneOldLock, vioVars, journalVars>>

(* The end of updateBlockMapPage(): the DataVIO gives up its own lock.     *)
ReleaseEntryLock(z) ==
  /\ zoneStep[z] = "releaseEntry"
  /\ releaseJournalZoneReferenceFromOtherZone(BlockNumber(increment[zoneVIO[z]]))
  /\ stage' = [stage EXCEPT ![zoneVIO[z]] = "idle"]
  /\ zoneVIO' = [zoneVIO EXCEPT ![z] = NoVIO]
  /\ zoneStep' = [zoneStep EXCEPT ![z] = "idle"]
  /\ UNCHANGED <<increment, decrement, pageLock, slabLock, zoneOldLock, journalVars>>

(* handlePageWrite(), finishPageWrite(): the page is on disk.  The block   *)
(* map is drained before the journal is, and resumed after it.             *)
PageWritten(p) ==
  LET z == PageZone[p]
      l == BlockNumber(pageLock[p])
  IN /\ zoneStep[z] = "idle" /\ pageLock[p] # 0 /\ admin = "normal"
     /\ releaseLockCountReference(z, l)
     /\ zoneStep' = [zoneStep EXCEPT ![z] = IF isLastHolder(z, l) THEN "notify" ELSE "idle"]
     /\ pageLock' = [pageLock EXCEPT ![p] = 0]
     /\ UNCHANGED <<slabLock, zoneVIO, zoneOldLock, vioVars, journalVars>>

(* addEntryFromWaiter(): the first entry of slab journal block b locks the *)
(* recovery journal block of its DataVIO's entry.                          *)
AddSlabJournalEntry(v, b) ==
  LET z             == SlabBlockZone[b]
      recoveryBlock == IF stage[v] = "incremented" THEN increment[v] ELSE decrement[v]
  IN /\ zoneStep[z] = "idle"
     /\ stage[v] \in {"incremented", "decremented"} /\ isCommitted(recoveryBlock)
     /\ slabLock[b] <= recoveryBlock
     /\ IF slabLock[b] = 0
        THEN /\ acquireLockCountReference(z, BlockNumber(recoveryBlock))
             /\ slabLock' = [slabLock EXCEPT ![b] = recoveryBlock]
        ELSE UNCHANGED <<lockVars, slabLock>>
     /\ stage' = [stage EXCEPT ![v] = IF @ = "incremented" THEN "increfed" ELSE "decrefed"]
     /\ UNCHANGED <<increment, decrement, pageLock, zoneStep, zoneVIO, zoneOldLock,
                    journalVars>>

(* releaseJournalLocks(): slab journal block b is committed.               *)
ReleaseJournalLocks(b) ==
  LET z == SlabBlockZone[b]
      l == BlockNumber(slabLock[b])
  IN /\ zoneStep[z] = "idle" /\ slabLock[b] # 0
     /\ releaseLockCountReference(z, l)
     /\ zoneStep' = [zoneStep EXCEPT ![z] = IF isLastHolder(z, l) THEN "notify" ELSE "idle"]
     /\ slabLock' = [slabLock EXCEPT ![b] = 0]
     /\ UNCHANGED <<pageLock, zoneVIO, zoneOldLock, vioVars, journalVars>>

-----------------------------------------------------------------------------
(* The steps of the journal thread inside a handler.                       *)
JournalStep ==
  \/ RecycleBlock \/ NotifyInline \/ ReapCallback \/ ReapBlockMap \/ ReapSlabJournal
  \/ FinishReap \/ CheckForDrainComplete

ZoneStep(z) == ReleaseOldLock(z) \/ Notify(z) \/ ReleaseEntryLock(z)

JournalNext ==
  \/ \E v \in DataVIOs : AssignIncrement(v) \/ AssignDecrement(v)
  \/ \E s, n \in 1 .. tail : CompleteWrite(s, n)
  \/ JournalStep
  \/ DequeueCallback
  \/ CompleteReaping
  \/ \E operation \in {"suspending", "saving"} : Drain(operation)
  \/ Resume

ZoneNext ==
  \/ \E v \in DataVIOs, p \in Pages : UpdateBlockMapPage(v, p)
  \/ \E v \in DataVIOs, b \in SlabBlocks : AddSlabJournalEntry(v, b)
  \/ \E z \in Zones : ZoneStep(z)
  \/ \E p \in Pages : PageWritten(p)
  \/ \E b \in SlabBlocks : ReleaseJournalLocks(b)

Next == JournalNext \/ ZoneNext

Spec == Init /\ [][Next]_vars

(* Every thread takes the next step of its handler, every queued callback  *)
(* is run, every flush and every write ends, and every dirty page and slab *)
(* journal block is eventually written.                                    *)
fullTo == IF entryCount = EntriesPerBlock THEN tail ELSE tail - 1

Fairness ==
  /\ WF_vars(JournalStep)
  /\ WF_vars(DequeueCallback)
  /\ WF_vars(CompleteReaping)
  /\ WF_vars(CompleteWrite(tail - 1, fullTo))
  /\ \A z \in Zones : WF_vars(ZoneStep(z))
  /\ \A v \in DataVIOs : WF_vars(/\ stage[v] # "idle"
                                 /\ \/ \E p \in Pages : UpdateBlockMapPage(v, p)
                                    \/ \E b \in SlabBlocks : AddSlabJournalEntry(v, b))
  /\ \A p \in Pages : WF_vars(PageWritten(p))
  /\ \A b \in SlabBlocks : WF_vars(ReleaseJournalLocks(b))

FairSpec == Spec /\ Fairness

-----------------------------------------------------------------------------
(* Properties.                                                             *)

(* The locks which a zone's pages, its slab journal blocks and the update  *)
(* in progress in it hold on a lock of the counter.                        *)
PageHolders(z, l) ==
  {p \in Pages : PageZone[p] = z /\ pageLock[p] # 0 /\ BlockNumber(pageLock[p]) = l}
SlabHolders(z, l) ==
  {b \in SlabBlocks : SlabBlockZone[b] = z /\ slabLock[b] # 0 /\ BlockNumber(slabLock[b]) = l}
UpdateHolders(z, l) ==
  {y \in {z} : zoneOldLock[y] # 0 /\ BlockNumber(zoneOldLock[y]) = l}

(* reapRecoveryJournal() reaps no block that is still needed: a DataVIO's  *)
(* block until its page lock has taken over, the block a page locks for    *)
(* the block map head, and the block a slab journal block locks for the    *)
(* slab journal head.  The hand-over from the DataVIO to the page races    *)
(* the two reads of isLocked().                                            *)
NoPrematureReap ==
  /\ \A v \in DataVIOs : stage[v] # "idle" =>
        increment[v] >= blockMapReapHead /\ increment[v] >= slabJournalReapHead
  /\ \A p \in Pages : pageLock[p] # 0 => pageLock[p] >= blockMapReapHead
  /\ \A b \in SlabBlocks : slabLock[b] # 0 => slabLock[b] >= slabJournalReapHead

(* The counts of the lock counter are exactly the references held:         *)
(* releaseReference() never underflows, and a zone count is the number of  *)
(* zones whose own count is not zero.                                      *)
CountsMatchHolders ==
  /\ \A z \in Zones, l \in Locks :
       counters[z][l] = Cardinality(PageHolders(z, l)) + Cardinality(SlabHolders(z, l))
                         + Cardinality(UpdateHolders(z, l))
  /\ \A l \in Locks :
       /\ logicalZoneCounts[l] = Cardinality({z \in LogicalZones : counters[z][l] # 0})
       /\ physicalZoneCounts[l] = Cardinality({z \in PhysicalZones : counters[z][l] # 0})

(* initializeLockCount() never overwrites a lock which is still held: when *)
(* the tail wraps around the on-disk journal, the block's previous life is *)
(* over for the journal, the block map and the slab journals.              *)
InitializedLockIsFree ==
  [][tail' # tail =>
       LET l == BlockNumber(tail)
       IN  ~isJournalZoneLocked(l) /\ logicalZoneCounts[l] = 0 /\ physicalZoneCounts[l] = 0]_vars

(* The reap heads stand still while the flush is out: finishReaping() must *)
(* not move a head past a block whose unlock the flush does not cover.     *)
ReapHeadsWaitForFlush ==
  [][reaping /\ reaping' => UNCHANGED reapVars]_vars

(* Every block is reaped once a newer one has been recycled, as long as    *)
(* the journal stays in operation: the unlocks which do not notify (those  *)
(* of releaseJournalZoneReferenceFromOtherZone(), and those made while the *)
(* counter is notifying or suspended) are all made up for.                 *)
BlocksAreReaped ==
  <>[](admin = "normal") =>
    \A s \in 1 .. MaxTail : s + 1 < recycled ~> getRecoveryJournalHead > s

(* A drain of the journal ends, whatever notification or reap is under way *)
(* when it starts.                                                         *)
DrainCompletes == isDraining ~> isQuiescent

(* A lock is initialised only when it is free, and the reap heads wait for *)
(* the flush which covers them.                                            *)
ReapingIsOrderly == InitializedLockIsFree /\ ReapHeadsWaitForFlush
=============================================================================
