--------------------------- MODULE RecoveryJournal ---------------------------
(***************************************************************************)
(* The journal thread of vdo/base/recoveryJournal.c: entries are assigned  *)
(* to in-memory tail blocks, the blocks are written, their waiters         *)
(* released in order, and the blocks recycled and reaped.  A handler runs  *)
(* to its end before the next one, but its calls nest: releasing the last  *)
(* lock of a block reaps inline, and a reap may assign entries.  So the    *)
(* journal is one record, every function of the source is an operator from *)
(* journals to journals, and an action applies a handler to the journal.   *)
(* JournalReaping has the interleaving of the lock counter's accesses.     *)
(***************************************************************************)
EXTENDS Integers, Sequences, SequencesExt, FiniteSets

CONSTANTS
  DataVIOs,          \* the writes in progress
  Blocks,            \* the in-memory tail blocks
  NoBlock,           \* NULL
  Size,              \* on-disk blocks
  EntriesPerBlock,
  WritePolicy,       \* "sync", "async" or "async-unsafe"
  Drains,            \* the drains which may happen, of "suspending" and "saving"
  Errors,            \* whether writes and flushes may fail
  MaxTail            \* no write starts once the tail has got there

ASSUME RecoveryJournalAssumption ==
  /\ Size \in Nat \ {0} /\ EntriesPerBlock \in Nat \ {0}
  /\ WritePolicy \in {"sync", "async", "async-unsafe"}
  /\ Drains \subseteq {"suspending", "saving"} /\ Errors \in BOOLEAN

VARIABLES
  journal,           \* the RecoveryJournal, its blocks and its lock counter
  logicalLocks,      \* the blocks locked by some block map page
  physicalLocks      \* the blocks locked by some slab journal block

vars == <<journal, logicalLocks, physicalLocks>>

-----------------------------------------------------------------------------
Locks == 0 .. Size - 1
BlockNumber(sequence) == sequence % Size

(* getRecoveryJournalLength(): some blocks are reserved.                   *)
getRecoveryJournalLength == Size - (IF Size \div 4 > 8 THEN 8 ELSE Size \div 4)

(* What has become of the last entry of a DataVIO.                         *)
Results == {"waiting", "committed", "failed"}
Operations == {"none", "increment", "decrement", "block map increment"}

freshBlock == [sequence |-> 0, entryCount |-> 0, uncommitted |-> 0, entriesInCommit |-> 0,
               committing |-> FALSE, entryWaiters |-> <<>>, commitWaiters |-> <<>>]

(* makeRecoveryJournal() and openRecoveryJournal().                        *)
makeRecoveryJournal ==
  [block |-> [b \in Blocks |-> freshBlock],
   freeTailBlocks |-> SetToSeq(Blocks), activeTailBlocks |-> <<>>, activeBlock |-> NoBlock,
   pendingWrites |-> <<>>, pendingWriteCount |-> 0,
   tail |-> 1, lastWriteAcknowledged |-> 1,
   blockMapHead |-> 1, slabJournalHead |-> 1, blockMapReapHead |-> 1, slabJournalReapHead |-> 1,
   reaping |-> FALSE,
   availableSpace |-> EntriesPerBlock * getRecoveryJournalLength, pendingDecrementCount |-> 0,
   incrementWaiters |-> <<>>, decrementWaiters |-> <<>>, addingEntries |-> FALSE,
   commitPoint |-> <<0, 0>>,
   point |-> [v \in DataVIOs |-> <<0, 0>>], recoverySequence |-> [v \in DataVIOs |-> 0],
   operation |-> [v \in DataVIOs |-> "none"], result |-> [v \in DataVIOs |-> "committed"],
   locks |-> [l \in Locks |-> 0], counterState |-> "not notifying", notified |-> FALSE,
   state |-> "normal", readOnly |-> FALSE, asserts |-> {}]

getRecoveryJournalHead(j) ==
  IF j.blockMapHead < j.slabJournalHead THEN j.blockMapHead ELSE j.slabJournalHead

isRecoveryBlockFull(j, b) == b = NoBlock \/ j.block[b].entryCount = EntriesPerBlock
isRecoveryBlockDirty(j, b) == j.block[b].uncommitted > 0
isRecoveryBlockEmpty(j, b) == j.block[b].entryCount = 0

(* An ASSERT_LOG_ONLY() of the source: what fails is remembered.           *)
assert(j, holds, what) == IF holds THEN j ELSE [j EXCEPT !.asserts = @ \cup {what}]

isDraining(j) == j.state \in {"suspending", "saving"}
isQuiescent(j) == j.state \in {"suspended", "saved"}

continueWaiter(j, v, result) == [j EXCEPT !.result[v] = result]

notifyAllWaiters(j, waiters, result) ==
  [j EXCEPT !.result = [v \in DataVIOs |-> IF \E i \in DOMAIN waiters : waiters[i] = v
                                           THEN result ELSE @[v]]]

(* One handler may reach any of these functions from any other: call()     *)
(* names the function, and is defined below, after all of them.            *)
RECURSIVE call(_, _, _)

enterJournalReadOnlyMode(j) == call("checkForDrainComplete", [j EXCEPT !.readOnly = TRUE], 0)

-----------------------------------------------------------------------------
(* Releasing locks and reaping.                                            *)

(* Is the block locked for the head of the given type of zone?             *)
isLocked(j, sequence, zoneLocks) == j.locks[BlockNumber(sequence)] # 0 \/ BlockNumber(sequence) \in zoneLocks

(* How far a reap head advances from s.                                    *)
RECURSIVE advanceReapHead(_, _, _)
advanceReapHead(j, s, zoneLocks) ==
  IF s < j.lastWriteAcknowledged /\ ~isLocked(j, s, zoneLocks)
  THEN advanceReapHead(j, s + 1, zoneLocks) ELSE s

reapRecoveryJournal(j) ==
  IF j.reaping \/ isQuiescent(j) THEN j
  ELSE LET r == [j EXCEPT !.blockMapReapHead = advanceReapHead(j, @, logicalLocks),
                          !.slabJournalReapHead = advanceReapHead(j, @, physicalLocks)]
       IN  IF r.blockMapReapHead = r.blockMapHead /\ r.slabJournalReapHead = r.slabJournalHead
           THEN r
           ELSE IF WritePolicy # "sync" THEN [r EXCEPT !.reaping = TRUE] ELSE call("finishReaping", r, 0)

(* The callback of the lock counter, which acknowledges before it reaps.   *)
reapRecoveryJournalCallback(j) ==
  LET a == [j EXCEPT !.counterState = "not notifying"]
  IN  IF isDraining(a) THEN call("checkForDrainComplete", a, 0) ELSE reapRecoveryJournal(a)

(* releaseJournalBlockReference(): the last one notifies, and on the       *)
(* journal thread the callback is run at once.                             *)
releaseJournalBlockReference(j, l) ==
  LET r == [assert(j, j.locks[l] > 0, "journal zone lock counter must not underflow")
            EXCEPT !.locks[l] = @ - 1]
  IN  IF r.locks[l] = 0 /\ r.counterState = "not notifying"
      THEN call("reapRecoveryJournalCallback", [r EXCEPT !.counterState = "notifying"], 0)
      ELSE r

releaseReferences(j, b, n) ==
  IF n = 0 THEN j
  ELSE call("releaseReferences",
            releaseJournalBlockReference(j, BlockNumber(j.block[b].sequence)), [b |-> b, n |-> n - 1])

(* finishReaping() has room for waiters and may be the end of a drain.     *)
assignEntries(j) ==
  IF j.addingEntries THEN j
  ELSE LET d == call("assignEntriesFromQueue", [j EXCEPT !.addingEntries = TRUE], TRUE)
           i == IF d.decrementWaiters = <<>> THEN call("assignEntriesFromQueue", d, FALSE) ELSE d
       IN  [call("writeBlocks", i, 0) EXCEPT !.addingEntries = FALSE]

(* Mutant: the space of a block is given back by each of the two heads.    *)
finishReaping_countsBothHeads(j) ==
  LET r == [j EXCEPT !.blockMapHead = j.blockMapReapHead,
                     !.slabJournalHead = j.slabJournalReapHead,
                     !.reaping = FALSE]
      blocksReaped == (r.blockMapHead - j.blockMapHead) + (r.slabJournalHead - j.slabJournalHead)
  IN  call("checkForDrainComplete",
           call("assignEntries", [r EXCEPT !.availableSpace = @ + blocksReaped * EntriesPerBlock], 0), 0)

finishReaping(j) ==
  LET r == [j EXCEPT !.blockMapHead = j.blockMapReapHead,
                     !.slabJournalHead = j.slabJournalReapHead,
                     !.reaping = FALSE]
      blocksReaped == getRecoveryJournalHead(r) - getRecoveryJournalHead(j)
  IN  call("checkForDrainComplete",
           call("assignEntries", [r EXCEPT !.availableSpace = @ + blocksReaped * EntriesPerBlock], 0), 0)

-----------------------------------------------------------------------------
(* Recycling blocks.                                                       *)

(* Mutant: the active block stays active although it has been freed.       *)
recycleJournalBlock_keepsActive(j, b) ==
  LET freed == [j EXCEPT !.activeTailBlocks = Remove(@, b), !.freeTailBlocks = Append(Remove(@, b), b)]
      unused == call("releaseReferences", freed, [b |-> b, n |-> EntriesPerBlock - j.block[b].entryCount])
  IN  call("releaseReferences", unused, [b |-> b, n |-> IF isRecoveryBlockEmpty(unused, b) THEN 0 ELSE 1])

recycleJournalBlock(j, b) ==
  LET freed == [j EXCEPT !.activeTailBlocks = Remove(@, b), !.freeTailBlocks = Append(Remove(@, b), b)]
      unused == call("releaseReferences", freed, [b |-> b, n |-> EntriesPerBlock - j.block[b].entryCount])
      own == call("releaseReferences", unused, [b |-> b, n |-> IF isRecoveryBlockEmpty(unused, b) THEN 0 ELSE 1])
  IN  IF own.activeBlock = b THEN [own EXCEPT !.activeBlock = NoBlock] ELSE own

(* The oldest active blocks which are full and committed, or in read-only  *)
(* mode merely not being written.                                          *)
recycleJournalBlocks(j) ==
  IF j.activeTailBlocks = <<>> THEN j
  ELSE LET b == Head(j.activeTailBlocks)
       IN  IF \/ j.block[b].committing
              \/ ~j.readOnly /\ (isRecoveryBlockDirty(j, b) \/ ~isRecoveryBlockFull(j, b))
           THEN j ELSE call("recycleJournalBlocks", recycleJournalBlock(j, b), 0)

(* continueCommittedWaiter() for each of the waiters, oldest first.        *)
continueCommittedWaiters(j, waiters) ==
  FoldLeft(LAMBDA k, v :
             LET inOrder == \/ k.commitPoint[1] < k.point[v][1]
                            \/ k.commitPoint[1] = k.point[v][1] /\ k.commitPoint[2] < k.point[v][2]
             IN  [continueWaiter(assert(k, inOrder, "DataVIOs released from recovery journal in order"),
                                 v, IF k.readOnly THEN "failed" ELSE "committed")
                  EXCEPT !.commitPoint = k.point[v]],
           j, waiters)

(* The waiters of the i-th active block and of those after it, until one   *)
(* is being written, or is not full or not wholly committed.               *)
RECURSIVE notifyCommitWaitersFrom(_, _)

notifyCommitWaitersFrom(j, i) ==
  IF i > Len(j.activeTailBlocks) \/ j.block[j.activeTailBlocks[i]].committing THEN j
  ELSE LET b == j.activeTailBlocks[i]
           c == [continueCommittedWaiters(j, j.block[b].commitWaiters)
                 EXCEPT !.block[b].commitWaiters = <<>>]
           e == [continueCommittedWaiters(c, j.block[b].entryWaiters)
                 EXCEPT !.block[b].entryWaiters = <<>>]
       IN  IF j.readOnly THEN notifyCommitWaitersFrom(e, i + 1)
           ELSE IF isRecoveryBlockDirty(c, b) \/ ~isRecoveryBlockFull(c, b) THEN c
           ELSE notifyCommitWaitersFrom(c, i + 1)

notifyCommitWaiters(j) == notifyCommitWaitersFrom(j, 1)

-----------------------------------------------------------------------------
(* Assigning entries.                                                      *)

(* A block from the end of the free list becomes the active one, and NULL  *)
(* does if there is none.                                                  *)
advanceTail(j) ==
  IF j.freeTailBlocks = <<>> THEN [j EXCEPT !.activeBlock = NoBlock]
  ELSE LET b == Last(j.freeTailBlocks)
       IN  [j EXCEPT !.freeTailBlocks = Front(@), !.activeBlock = b,
                     !.activeTailBlocks = Append(@, b),
                     !.block[b] = [@ EXCEPT !.sequence = j.tail, !.entryCount = 0, !.uncommitted = 0],
                     !.tail = @ + 1]

(* Mutant: an increment takes the room of a decrement.                     *)
checkForEntrySpace_noReserve(j, decrement) == j.availableSpace > 0
(* An increment leaves room for the decrements which are to come.          *)
checkForEntrySpace(j, decrement) ==
  IF decrement THEN j.availableSpace > 0 ELSE j.availableSpace - j.pendingDecrementCount > 1

initializeLockCount(j, l) ==
  [assert(j, j.locks[l] = 0, "count to be initialized not in use") EXCEPT !.locks[l] = EntriesPerBlock + 1]

(* A full block is queued to be written, and at once in synchronous mode.  *)
scheduleBlockWrite(j, b) ==
  IF j.block[b].committing THEN j
  ELSE IF Contains(j.pendingWrites, b)
  THEN enterJournalReadOnlyMode(assert(j, FALSE, "new waiter must not already be in a waiter queue"))
  ELSE LET q == [j EXCEPT !.pendingWrites = Append(@, b)]
       IN  IF WritePolicy = "async" THEN q ELSE call("writeBlocks", q, 0)

(* The lock of a decrement entry is released at once: the lock of the      *)
(* DataVIO's increment protects it.                                        *)
assignEntry(j, v) ==
  LET b == j.activeBlock
      p == [j EXCEPT !.point[v] = <<j.block[b].sequence, j.block[b].entryCount>>]
      o == CASE j.operation[v] = "increment" -> [p EXCEPT !.pendingDecrementCount = @ + 1]
             [] j.operation[v] = "decrement" ->
                  [assert(call("releaseReferences", p, [b |-> b, n |-> 1]), j.pendingDecrementCount # 0, "decrement follows increment")
                   EXCEPT !.pendingDecrementCount = @ - 1]
             [] OTHER -> p
      e == [o EXCEPT !.availableSpace = @ - 1,
                     !.block[b].entryCount = @ + 1, !.block[b].uncommitted = @ + 1,
                     !.block[b].entryWaiters = Append(@, v)]
  IN  IF isRecoveryBlockFull(e, b) THEN scheduleBlockWrite(e, b) ELSE e

(* Is there room for an entry?  If so, the active block has some.          *)
prepareToAssignEntry(j, decrement) ==
  LET t    == IF isRecoveryBlockFull(j, j.activeBlock) THEN advanceTail(j) ELSE j
      b    == t.activeBlock
      full == t.tail - getRecoveryJournalHead(t) > Size
  IN  IF ~checkForEntrySpace(j, decrement)
      THEN [ready |-> FALSE,
            journal |-> IF decrement
                        THEN enterJournalReadOnlyMode(assert(j, FALSE, "room to make a decrement entry")) ELSE j]
      ELSE IF b = NoBlock \/ (isRecoveryBlockEmpty(t, b) /\ full) THEN [ready |-> FALSE, journal |-> t]
      ELSE [ready |-> TRUE,
            journal |-> IF isRecoveryBlockEmpty(t, b)
                        THEN initializeLockCount(t, BlockNumber(t.block[b].sequence)) ELSE t]

(* The waiters of one of the queues are served until there is no room.     *)
assignEntriesFromQueue(j, decrement) ==
  LET queue == IF decrement THEN j.decrementWaiters ELSE j.incrementWaiters
      p == prepareToAssignEntry(j, decrement)
      dequeued == IF decrement THEN [p.journal EXCEPT !.decrementWaiters = Tail(@)]
                  ELSE [p.journal EXCEPT !.incrementWaiters = Tail(@)]
  IN  IF queue = <<>> THEN j
      ELSE IF ~p.ready THEN p.journal
      ELSE call("assignEntriesFromQueue", assignEntry(dequeued, Head(queue)), decrement)

-----------------------------------------------------------------------------
(* Writing blocks.                                                         *)

canCommitRecoveryBlock(j, b) ==
  b # NoBlock /\ ~j.block[b].committing /\ j.block[b].entryWaiters # <<>> /\ ~j.readOnly

(* The queued entries go to the block, and their DataVIOs wait for it to   *)
(* be written; an increment's DataVIO holds the lock of its entry.         *)
commitRecoveryBlock(j, b) ==
  LET entries == j.block[b].entryWaiters
  IN  [j EXCEPT !.block[b].entriesInCommit = Len(entries),
                !.block[b].entryWaiters = <<>>,
                !.block[b].commitWaiters = @ \o entries,
                !.block[b].committing = TRUE,
                !.recoverySequence = [v \in DataVIOs |->
                   IF Contains(entries, v) /\ j.operation[v] # "decrement" THEN j.block[b].sequence ELSE @[v]],
                !.pendingWriteCount = @ + 1]

writeBlock(j, b) ==
  IF j.readOnly THEN j
  ELSE IF canCommitRecoveryBlock(j, b) THEN commitRecoveryBlock(j, b)
  ELSE enterJournalReadOnlyMode(assert(j, FALSE, "should never call commitRecoveryBlock"))

(* Mutant: only full blocks are written.                                   *)
writeBlocks_fullOnly(j) ==
  IF WritePolicy # "async" \/ j.pendingWriteCount = 0
  THEN FoldLeft(writeBlock, [j EXCEPT !.pendingWrites = <<>>], j.pendingWrites) ELSE j

(* The full blocks, unless the asynchronous policy makes them wait; then   *)
(* the active one if nothing else is being written.                        *)
writeBlocks(j) ==
  LET w == IF WritePolicy # "async" \/ j.pendingWriteCount = 0
           THEN FoldLeft(writeBlock, [j EXCEPT !.pendingWrites = <<>>], j.pendingWrites) ELSE j
  IN  IF w.pendingWriteCount = 0 /\ canCommitRecoveryBlock(w, w.activeBlock)
      THEN writeBlock(w, w.activeBlock) ELSE w

(* The write of block b has ended; errors differ by the read-only mode.    *)
completeWrite(j, b) ==
  LET n == [j EXCEPT !.pendingWriteCount = @ - 1,
                     !.block[b].uncommitted = @ - j.block[b].entriesInCommit,
                     !.block[b].entriesInCommit = 0,
                     !.block[b].committing = FALSE,
                     !.lastWriteAcknowledged = IF j.block[b].sequence > @ THEN j.block[b].sequence ELSE @]
      a == assert(n, n.activeTailBlocks # <<>> /\ n.block[b].sequence >= n.block[Head(n.activeTailBlocks)].sequence,
                  "completed journal write is still active")
      c == notifyCommitWaiters(a)
      s == IF isRecoveryBlockDirty(c, b) /\ isRecoveryBlockFull(c, b) THEN scheduleBlockWrite(c, b) ELSE c
  IN  call("checkForDrainComplete", call("writeBlocks", call("recycleJournalBlocks", s, 0), 0), 0)

-----------------------------------------------------------------------------
(* Draining.                                                               *)

hasBlockWaiters(j) ==
  /\ j.activeTailBlocks # <<>>
  /\ LET first == j.block[Head(j.activeTailBlocks)]
     IN  first.entryWaiters # <<>> \/ first.commitWaiters # <<>>

failWaiters(j) ==
  [notifyAllWaiters(j, j.decrementWaiters \o j.incrementWaiters, "failed")
   EXCEPT !.decrementWaiters = <<>>, !.incrementWaiters = <<>>]

isIdle(j) ==
  /\ ~j.reaping /\ ~hasBlockWaiters(j) /\ j.counterState # "notifying"
  /\ j.incrementWaiters = <<>> /\ j.decrementWaiters = <<>>

recycleActiveBlock(j) == IF j.activeBlock = NoBlock THEN j ELSE recycleJournalBlock(j, j.activeBlock)

saveJournal(j) ==
  [assert(j, j.activeTailBlocks = <<>>, "all blocks in a journal being saved must be inactive")
   EXCEPT !.state = "saved"]

(* The end of a drain, when nothing waits, no reap is in progress and no   *)
(* notification is: the lock counter is suspended.                         *)
finishDrain(j) ==
  IF ~isDraining(j) \/ ~isIdle(j) THEN j
  ELSE IF j.state = "suspending" THEN [j EXCEPT !.counterState = "suspended", !.state = "suspended"]
  ELSE saveJournal(recycleActiveBlock(
         assert([j EXCEPT !.counterState = "suspended"],
                j.readOnly \/ j.activeBlock = NoBlock \/ ~isRecoveryBlockDirty(j, j.activeBlock),
                "journal being saved has clean active block")))

(* In read-only mode every waiter is released first.                       *)
checkForDrainComplete(j) ==
  finishDrain(IF j.readOnly
              THEN failWaiters(call("recycleJournalBlocks", notifyCommitWaiters(j), 0)) ELSE j)

(* initializeJournalState(): a saved journal starts afresh at its tail.    *)
initializeJournalState(j) ==
  [j EXCEPT !.lastWriteAcknowledged = j.tail, !.blockMapHead = j.tail, !.slabJournalHead = j.tail,
            !.blockMapReapHead = j.tail, !.slabJournalReapHead = j.tail]

resumeRecoveryJournal(j) ==
  LET n == [j EXCEPT !.state = "normal"]
      i == IF j.state = "saved" THEN initializeJournalState(n) ELSE n
  IN  IF j.readOnly THEN n
      ELSE IF j.counterState = "suspended"
      THEN call("reapRecoveryJournal", [i EXCEPT !.counterState = "not notifying"], 0) ELSE i

-----------------------------------------------------------------------------
(* The handlers of the journal thread.                                     *)

addRecoveryJournalEntry(j, v, operation) ==
  LET a == [j EXCEPT !.operation[v] = operation, !.result[v] = "waiting"]
  IN  IF j.readOnly THEN continueWaiter(a, v, "failed")
      ELSE call("assignEntries", IF operation = "decrement"
                                 THEN [a EXCEPT !.decrementWaiters = Append(@, v)]
                                 ELSE [a EXCEPT !.incrementWaiters = Append(@, v)], 0)

(* The named function, on journal j with argument x.                       *)
call(function, j, x) ==
  CASE function = "checkForDrainComplete"   -> checkForDrainComplete(j)
    [] function = "recycleJournalBlocks"    -> recycleJournalBlocks(j)
    [] function = "releaseReferences"       -> releaseReferences(j, x.b, x.n)
    [] function = "assignEntries"           -> assignEntries(j)
    [] function = "assignEntriesFromQueue"  -> assignEntriesFromQueue(j, x)
    [] function = "writeBlocks"             -> writeBlocks(j)
    [] function = "completeWrite"           -> completeWrite(j, x)
    [] function = "finishReaping"           -> finishReaping(j)
    [] function = "reapRecoveryJournal"     -> reapRecoveryJournal(j)
    [] function = "reapRecoveryJournalCallback" -> reapRecoveryJournalCallback(j)

idle(v) == journal.operation[v] = "none" \/ journal.result[v] = "failed"
lockOf(v) == BlockNumber(journal.recoverySequence[v])
zoneVars == <<logicalLocks, physicalLocks>>

(* A write maps a data block, or a page of the block map's tree.           *)
AddIncrement(v, operation) ==
  /\ journal.operation[v] = "none" /\ journal.state = "normal" /\ journal.tail < MaxTail
  /\ journal' = addRecoveryJournalEntry(journal, v, operation)
  /\ UNCHANGED zoneVars

mayDecrement(v) == journal.operation[v] = "increment" /\ journal.result[v] = "committed"

(* The slab journal entry of the increment is made, unless its block       *)
(* already locks an older one; then the decrement is journalled.           *)
AddDecrement(v) ==
  /\ mayDecrement(v)
  /\ journal' = addRecoveryJournalEntry(journal, v, "decrement")
  /\ physicalLocks' \in {physicalLocks, physicalLocks \cup {lockOf(v)}}
  /\ UNCHANGED logicalLocks

mayUpdate(v) ==
  journal.operation[v] \in {"decrement", "block map increment"} /\ journal.result[v] = "committed"

(* The block map page is updated and takes over the lock of the entry.     *)
UpdateBlockMap(v) ==
  /\ mayUpdate(v)
  /\ journal' = [journal EXCEPT !.operation[v] = "none", !.recoverySequence[v] = 0,
                                !.locks[lockOf(v)] = @ - 1]
  /\ logicalLocks' = logicalLocks \cup {lockOf(v)}
  /\ UNCHANGED physicalLocks

CompleteWrite(b) ==
  /\ journal.block[b].committing
  /\ journal' = call("completeWrite", journal, b)
  /\ UNCHANGED zoneVars

HandleWriteError(b) ==
  /\ Errors /\ journal.block[b].committing
  /\ journal' = call("completeWrite", enterJournalReadOnlyMode(journal), b)
  /\ UNCHANGED zoneVars

CompleteReaping ==
  /\ journal.reaping
  /\ journal' = call("reapRecoveryJournal", call("finishReaping", journal, 0), 0)
  /\ UNCHANGED zoneVars

HandleFlushError ==
  /\ Errors /\ journal.reaping
  /\ journal' = enterJournalReadOnlyMode([journal EXCEPT !.reaping = FALSE])
  /\ UNCHANGED zoneVars

(* notifyRecoveryJournalOfReadOnlyMode(): another thread has failed.       *)
NotifyReadOnly ==
  /\ Errors /\ ~journal.readOnly
  /\ journal' = call("checkForDrainComplete", [journal EXCEPT !.readOnly = TRUE], 0)
  /\ UNCHANGED zoneVars

ReapCallback ==
  /\ journal.notified
  /\ journal' = call("reapRecoveryJournalCallback", [journal EXCEPT !.notified = FALSE], 0)
  /\ UNCHANGED zoneVars

(* drainRecoveryJournal(): the logical zones and the block map have been   *)
(* drained; for a save the block map's pages have been written.            *)
Drain(operation) ==
  /\ journal.state = "normal"
  /\ \A v \in DataVIOs : idle(v)
  /\ operation = "saving" => logicalLocks = {} \/ journal.readOnly
  /\ journal' = call("checkForDrainComplete", [journal EXCEPT !.state = operation], 0)
  /\ UNCHANGED zoneVars

(* The slab depot, drained after the journal, has been saved too.          *)
mayResume ==
  isQuiescent(journal) /\ (journal.state = "saved" => physicalLocks = {} \/ journal.readOnly)

Resume ==
  /\ mayResume
  /\ journal' = resumeRecoveryJournal(journal)
  /\ UNCHANGED zoneVars

-----------------------------------------------------------------------------
(* The other zones release their locks; the last one notifies.             *)

attemptNotification ==
  journal' = IF journal.counterState = "not notifying"
             THEN [journal EXCEPT !.counterState = "notifying", !.notified = TRUE] ELSE journal

ReleaseLogical(l) ==
  /\ l \in logicalLocks /\ journal.state = "normal"
  /\ logicalLocks' = logicalLocks \ {l}
  /\ attemptNotification
  /\ UNCHANGED physicalLocks

ReleasePhysical(l) ==
  /\ l \in physicalLocks
  /\ physicalLocks' = physicalLocks \ {l}
  /\ attemptNotification
  /\ UNCHANGED logicalLocks

-----------------------------------------------------------------------------
Init ==
  /\ journal = makeRecoveryJournal
  /\ logicalLocks = {} /\ physicalLocks = {}

Next ==
  \/ \E v \in DataVIOs, operation \in {"increment", "block map increment"} : AddIncrement(v, operation)
  \/ \E v \in DataVIOs : AddDecrement(v) \/ UpdateBlockMap(v)
  \/ \E b \in Blocks : CompleteWrite(b) \/ HandleWriteError(b)
  \/ CompleteReaping \/ HandleFlushError \/ NotifyReadOnly \/ ReapCallback \/ Resume
  \/ \E operation \in Drains : Drain(operation)
  \/ \E l \in Locks : ReleaseLogical(l) \/ ReleasePhysical(l)

Spec == Init /\ [][Next]_vars

(* Writes and flushes end, queued callbacks are run, DataVIOs go on, and   *)
(* pages and slab journal blocks are eventually written.  Each action is   *)
(* enabled exactly when its guard holds, which says the same as WF_vars    *)
(* and spares TLC the evaluation of ENABLED.                               *)
Fairness ==
  /\ \A b \in Blocks : []<>~journal.block[b].committing \/ []<><<CompleteWrite(b)>>_vars
  /\ []<>~journal.reaping \/ []<><<CompleteReaping>>_vars
  /\ []<>~journal.notified \/ []<><<ReapCallback>>_vars
  /\ []<>~mayResume \/ []<><<Resume>>_vars
  /\ \A v \in DataVIOs :
       /\ []<>~mayDecrement(v) \/ []<><<AddDecrement(v)>>_vars
       /\ []<>~mayUpdate(v) \/ []<><<UpdateBlockMap(v)>>_vars
  /\ \A l \in Locks :
       /\ []<>~(l \in logicalLocks /\ journal.state = "normal") \/ []<><<ReleaseLogical(l)>>_vars
       /\ []<>(l \notin physicalLocks) \/ []<><<ReleasePhysical(l)>>_vars

FairSpec == Spec /\ Fairness

-----------------------------------------------------------------------------
(* Properties.                                                             *)

waitersOf(b) == ToSet(journal.block[b].entryWaiters) \cup ToSet(journal.block[b].commitWaiters)

TypeOK ==
  /\ journal.tail \in 1 .. MaxTail + 2 * Cardinality(DataVIOs)
  /\ journal.pendingWriteCount = Cardinality({b \in Blocks : journal.block[b].committing})
  /\ journal.availableSpace \in Nat
  /\ journal.pendingDecrementCount \in 0 .. Cardinality(DataVIOs)
  /\ journal.operation \in [DataVIOs -> Operations] /\ journal.result \in [DataVIOs -> Results]
  /\ journal.locks \in [Locks -> 0 .. EntriesPerBlock + 1]
  /\ logicalLocks \subseteq Locks /\ physicalLocks \subseteq Locks

(* No assertion of the journal fails: DataVIOs are released in the order   *)
(* of their journal points although writes end in any order, there is      *)
(* always room for a decrement, no lock in use is initialised, no block is *)
(* written twice at once, and a saved journal is clean.                    *)
NoAssertionFails == journal.asserts = {}

(* Every in-memory block is either free or active; the active ones hold    *)
(* consecutive sequence numbers up to the tail, and only the last of them  *)
(* may be the active block or have room.                                   *)
BlocksAreInOrder ==
  LET ring == journal.activeTailBlocks
  IN  /\ ToSet(ring) \cap ToSet(journal.freeTailBlocks) = {}
      /\ Len(ring) + Len(journal.freeTailBlocks) = Cardinality(Blocks)
      /\ \A i \in DOMAIN ring :
           /\ journal.block[ring[i]].sequence = journal.tail - 1 - Len(ring) + i
           /\ i < Len(ring) => isRecoveryBlockFull(journal, ring[i])
      /\ journal.activeBlock # NoBlock => ring # <<>> /\ journal.activeBlock = Last(ring)

(* A DataVIO waits exactly when it is in one queue of the journal, and     *)
(* once: none is lost, and none is continued twice.                        *)
WaitersAreQueued ==
  LET queues == <<journal.incrementWaiters, journal.decrementWaiters>>
                \o [i \in DOMAIN journal.activeTailBlocks |->
                      LET b == journal.block[journal.activeTailBlocks[i]]
                      IN  b.commitWaiters \o b.entryWaiters]
      all == FlattenSeq(queues)
  IN  /\ ToSet(all) = {v \in DataVIOs : journal.result[v] = "waiting"}
      /\ Cardinality(ToSet(all)) = Len(all)
      /\ \A b \in ToSet(journal.freeTailBlocks) : waitersOf(b) = {}

(* writeBlocks(): "when this function terminates we must either have no    *)
(* VIOs waiting in the journal or have some outstanding IO to provide a    *)
(* future wakeup", of the DataVIOs which have an entry.                    *)
WaitersHaveWakeup ==
  (\E i \in DOMAIN journal.activeTailBlocks : waitersOf(journal.activeTailBlocks[i]) # {})
    => journal.pendingWriteCount > 0

(* While the journal is in operation, availableSpace is "the number of     *)
(* free entries in the journal": what its length leaves beside the blocks  *)
(* from the head to the tail, and what is left of the newest one.          *)
AvailableSpaceIsFree ==
  journal.state = "normal" /\ ~journal.readOnly =>
    journal.availableSpace =
      EntriesPerBlock * (getRecoveryJournalLength - (journal.tail - getRecoveryJournalHead(journal)))
      + (IF journal.activeTailBlocks = <<>> THEN 0
         ELSE EntriesPerBlock - journal.block[Last(journal.activeTailBlocks)].entryCount)

(* isJournalZoneLocked(): "journal zone lock counter must not underflow".  *)
(* A block gives up its locks only once.                                   *)
LockCounterDoesNotUnderflow == "journal zone lock counter must not underflow" \notin journal.asserts

(* Every DataVIO which waits in the journal is released.                   *)
WaitersAreServed ==
  \A v \in DataVIOs : journal.result[v] = "waiting" ~> journal.result[v] # "waiting"

(* Every drain of the journal ends.                                        *)
DrainCompletes == isDraining(journal) ~> ~isDraining(journal)

(* The journal's books balance: TypeOK, BlocksAreInOrder, WaitersAreQueued. *)
JournalIsConsistent == TypeOK /\ BlocksAreInOrder /\ WaitersAreQueued

(* Nothing waits in the journal for ever, neither a DataVIO nor a drain.   *)
JournalMakesProgress == WaitersAreServed /\ DrainCompletes
=============================================================================
