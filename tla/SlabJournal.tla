----------------------------- MODULE SlabJournal -----------------------------
(***************************************************************************)
(* One slab of the slab depot: its journal (vdo/base/slabJournal.c), its   *)
(* reference counts, its entry in the slab summary (slabSummary.c), its    *)
(* administrative state (slab.c) and the pool of VIOs they write with.     *)
(* All of it is the state of one physical zone thread, the record z, and   *)
(* each function of the source is an operator from z to z.  The functions  *)
(* call one another in cycles, through call().                             *)
(*                                                                         *)
(* A waiter is a tuple: <<"write">> and <<"flush">> of the journal and     *)
(* <<"ref", r>> and <<"load", r>> of a reference block wait for a VIO,     *)
(* <<"journal">> and <<"clean">> for a summary update.  The entry of an    *)
(* operation is [rp, b, type, held]: its recovery journal point, a number, *)
(* its block, "inc", "dec" or "map", and whether a PBN lock protects b.    *)
(***************************************************************************)
EXTENDS AdminState, RefCounts, Storage

CONSTANTS JournalSize,            \* slabJournalBlocks
          FlushingThreshold, BlockingThreshold, ScrubbingThreshold,
          FullEntriesPerBlock,    \* entries of a block with block map increments
          RecoveryEntriesPerBlock, \* entries of a recovery journal block
          PoolSize                \* VIO_POOL_SIZE

RECURSIVE call(_, _, _)

slot(sequence) == sequence % JournalSize
recoveryBlock(rp) == rp \div RecoveryEntriesPerBlock
slabJournalPoint(sequence, count) == sequence * EntriesPerBlock + count

assertThat(z, condition, what) == IF condition THEN z ELSE [z EXCEPT !.asserts = @ \union {what}]

isUnrecoveredSlab(z) == z.status # "rebuilt"
slabIsRebuilding(z) == z.status = "rebuilding"
isReplayingSlab(z) == z.status = "replaying"
isSlabOpen(z) == ~isQuiescing(z.admin) /\ ~isQuiescent(z.admin)
hasRefCounts(z) == z.refs # <<>>
isReaping(z) == z.head # z.unreapable
isSlabJournalBlank(z) == z.tail = 1 /\ z.entries = <<>>
mustMakeEntriesToFlush(z) == ~slabIsRebuilding(z) /\ z.waiters # <<>>

isSlabJournalActive(z) ==
  mustMakeEntriesToFlush(z) \/ isReaping(z) \/ z.waitingToCommit \/ z.uncommitted # <<>> \/ z.updating

areRefCountsActive(z) ==
  \/ hasActiveIO(z.refs)
  \/ z.refs.dirtyBlocks # <<>> /\ z.admin.state \notin {"suspending", "recovering"}

blockIsFull(z) == Len(z.entries) = IF z.mapped THEN FullEntriesPerBlock ELSE EntriesPerBlock

journalLength(z) == z.tail - z.head
requiresFlushing(z) == journalLength(z) >= FlushingThreshold
requiresReaping(z) == journalLength(z) >= BlockingThreshold
requiresScrubbing(z) == journalLength(z) >= ScrubbingThreshold

flushingDeadline ==
  IF BlockingThreshold - FlushingThreshold > 5 THEN BlockingThreshold - 5 ELSE FlushingThreshold

initializeJournalState(z) ==
  [z EXCEPT !.unreapable = z.head, !.nextCommit = z.tail, !.summarized = z.tail,
            !.lastSummarized = z.tail, !.entries = <<>>, !.mapped = FALSE]

-----------------------------------------------------------------------------
(* The administrative state of the slab (slab.c).  Whoever waits for an    *)
(* operation is told as soon as it ends.                                   *)
finishSlabOperation(z) ==
  LET ended == [z EXCEPT !.admin = endOperation(z.admin)]
  IN  IF released(z.admin, ended.admin) THEN call("notify", ended, z.admin.waiter) ELSE ended

checkIfSlabDrained(z) ==
  IF isDraining(z.admin) /\ ~isSlabJournalActive(z) /\ ~(hasRefCounts(z) /\ areRefCountsActive(z))
  THEN finishSlabOperation(z) ELSE z

abortSlabJournalWaiters(z) == checkIfSlabDrained([z EXCEPT !.waiters = <<>>])
enterJournalReadOnlyMode(z) == abortSlabJournalWaiters([z EXCEPT !.readOnly = TRUE])
enterRefCountsReadOnlyMode(z) == checkIfSlabDrained([z EXCEPT !.readOnly = TRUE])

-----------------------------------------------------------------------------
(* The pool of VIOs (vioPool.c).                                           *)
acquireVIO(z, waiter) ==
  IF z.available = 0 THEN [z EXCEPT !.poolWaiters = Append(@, waiter)]
  ELSE call("granted", [z EXCEPT !.available = @ - 1], waiter)

returnVIO(z) ==
  IF z.poolWaiters = <<>> THEN [z EXCEPT !.available = @ + 1]
  ELSE call("granted", [z EXCEPT !.poolWaiters = Tail(@)], Head(z.poolWaiters))

(* A write without a flush reaches the storage when it is launched, one    *)
(* with a flush once the flush is done.                                    *)
launchWriteMetadataVIO(z, l, version) ==
  [z EXCEPT !.disk = issueWrite(@, l, version), !.io = @ \union {[kind |-> "write", at |-> l, flush |-> FALSE]}]

launchWriteMetadataVIOWithFlush(z, l, version) ==
  [z EXCEPT !.io = @ \union {[kind |-> "write", at |-> l, flush |-> TRUE, version |-> version]}]

-----------------------------------------------------------------------------
(* The slab summary.                                                       *)
checkForSummaryDrainComplete(z) ==
  IF isDraining(z.summaryAdmin) /\ ~z.writing
  THEN [z EXCEPT !.summaryAdmin = endOperation(@)] ELSE z

finishUpdatingSlabSummaryBlock(z) ==
  LET notified == FoldLeft(LAMBDA y, w : call("summaryUpdated", y, [waiter |-> w, ok |-> ~z.readOnly]),
                           [z EXCEPT !.current = <<>>], z.current)
      written == [notified EXCEPT !.writing = FALSE]
  IN  IF written.next # <<>> THEN call("launchSummaryWrite", written, 0)
      ELSE checkForSummaryDrainComplete(written)

(* launchWrite()                                                           *)
launchSummaryWrite(z) ==
  IF z.writing THEN z
  ELSE LET begun == [z EXCEPT !.current = z.next, !.next = <<>>, !.writing = TRUE]
       IN  IF z.readOnly THEN finishUpdatingSlabSummaryBlock(begun)
           ELSE launchWriteMetadataVIOWithFlush(begun, <<"summary", 0>>, z.entry)

updateSlabSummaryEntry(z, waiter, offset, load, clean) ==
  IF z.readOnly \/ isDraining(z.summaryAdmin) \/ isQuiescent(z.summaryAdmin)
  THEN call("summaryUpdated", z, [waiter |-> waiter, ok |-> FALSE])
  ELSE launchSummaryWrite([z EXCEPT !.entry = [offset |-> offset, load |-> z.entry.load \/ load,
                                               dirty |-> ~clean],
                                    !.next = Append(@, waiter)])

-----------------------------------------------------------------------------
(* Reaping: the blocks at the head of the journal which nobody needs.      *)
finishReaping(z) == checkIfSlabDrained(call("addEntries", [z EXCEPT !.head = z.unreapable], 0))

(* completeReaping(), which handleFlushError() also ends in.               *)
completeReaping(z, ok) ==
  call("reap", finishReaping(returnVIO(IF ok THEN z ELSE enterJournalReadOnlyMode(z))), 0)

firstUnreapable(z) ==
  least({s \in z.unreapable .. z.tail : s = z.tail \/ z.lock[slot(s)] > 0})

reapSlabJournal(z) ==
  IF \/ isReaping(z)
     \/ isUnrecoveredSlab(z) \/ ~isNormal(z.admin) \/ z.readOnly
     \/ firstUnreapable(z) = z.unreapable
  THEN z
  ELSE LET reaped == [z EXCEPT !.unreapable = firstUnreapable(z)]
       IN  IF z.policy = "sync" THEN finishReaping(reaped) ELSE acquireVIO(reaped, <<"flush">>)

adjustSlabJournalBlockReference(z, sequence, adjustment) ==
  IF sequence = 0 \/ isReplayingSlab(z) THEN z
  ELSE LET adjusted == [assertThat(z, z.lock[slot(sequence)] + adjustment >= 0, "lock count underflow")
                          EXCEPT !.lock[slot(sequence)] = @ + adjustment]
       IN  IF adjusted.lock[slot(sequence)] = 0 THEN reapSlabJournal(adjusted) ELSE adjusted

(* updateTailBlockLocation(): record in the summary how far the journal is *)
(* committed.  The counts must be loaded once the journal was ever reaped. *)
updateTailBlockLocation(z) ==
  IF z.updating \/ z.readOnly \/ z.lastSummarized >= z.nextCommit THEN checkIfSlabDrained(z)
  ELSE updateSlabSummaryEntry([z EXCEPT !.summarized = z.nextCommit, !.updating = TRUE],
                              <<"journal">>, slot(z.nextCommit), z.head > 1, FALSE)

(* The journal's lock on the recovery journal.                             *)
acquireRecoveryJournalBlockReference(z, sequence) == [z EXCEPT !.recoveryLocks[sequence] = @ + 1]
releaseRecoveryJournalBlockReference(z, sequence) ==
  IF sequence = 0 THEN z
  ELSE [assertThat(z, z.recoveryLocks[sequence] > 0, "recovery lock underflow")
          EXCEPT !.recoveryLocks[sequence] = @ - 1]

(* releaseJournalLocks(): the summary is up to date.                       *)
releaseSummarized(z, sequence) ==
  adjustSlabJournalBlockReference(
    releaseRecoveryJournalBlockReference(z, z.recoveryStart[slot(sequence)]), sequence, -1)

releaseJournalLocks(z, ok) ==
  IF ~ok THEN enterJournalReadOnlyMode([z EXCEPT !.updating = FALSE])
  ELSE LET first == z.lastSummarized
           resumed == IF z.partial /\ z.summarized = z.tail
                      THEN call("addEntries", [z EXCEPT !.partial = FALSE], 0) ELSE z
           last == resumed.summarized - 1
           released1 == FoldLeft(releaseSummarized, [resumed EXCEPT !.lastSummarized = resumed.summarized],
                                 [i \in 1 .. last - first + 1 |-> last - i + 1])
       IN  updateTailBlockLocation(reapSlabJournal([released1 EXCEPT !.updating = FALSE]))

-----------------------------------------------------------------------------
(* Writing the tail block.                                                 *)
markSlabJournalClean(z) == [z EXCEPT !.recoveryLock = 0]

(* Mutant: the journal stays dirty when its tail is committed.             *)
commitDirtyTail(z) ==
  IF z.entries = <<>> \/ z.readOnly \/ z.waitingToCommit THEN z
  ELSE acquireVIO([z EXCEPT !.waitingToCommit = TRUE], <<"write">>)

commitSlabJournalTail(z) ==
  IF z.entries = <<>> \/ z.readOnly \/ z.waitingToCommit THEN z
  ELSE acquireVIO([markSlabJournalClean(z) EXCEPT !.waitingToCommit = TRUE], <<"write">>)

(* writeSlabJournalBlock(): the block's unused entries give up their locks *)
(* and no entry is made while the write of a partial block is outstanding. *)
writeSlabJournalBlock(z) ==
  LET unused == EntriesPerBlock - Len(z.entries)
      block == [sequence |-> z.tail, head |-> z.head, entries |-> z.entries, point |-> z.recoveryPoint]
      pushed == [z EXCEPT !.uncommitted = Append(@, z.tail)]
      unlocked == IF unused = 0 THEN pushed
                  ELSE [adjustSlabJournalBlockReference(pushed, z.tail, -unused)
                          EXCEPT !.partial = ~blockIsFull(z)]
      written == launchWriteMetadataVIO(unlocked, <<"journal", slot(z.tail)>>, block)
      next == [written EXCEPT !.tail = @ + 1, !.entries = <<>>, !.mapped = FALSE, !.waitingToCommit = FALSE]
  IN  IF z.admin.state = "waitingForRecovery" THEN finishSlabOperation(next)
      ELSE call("addEntries", next, 0)

blockCommitted(z) ==
  updateTailBlockLocation([z EXCEPT !.nextCommit = IF z.uncommitted = <<>> THEN z.tail ELSE Head(z.uncommitted)])

completeWrite(z, sequence, ok) ==
  LET done == returnVIO([z EXCEPT !.uncommitted = SelectSeq(@, LAMBDA s : s # sequence)])
  IN  IF ok THEN blockCommitted(done) ELSE enterJournalReadOnlyMode(done)

(* addEntry(): append an entry, and write the block once it is full.       *)
addEntry(z, e) ==
  IF ~(z.recoveryPoint < e.rp)
  THEN call("abortSlabJournalWaiters", [assertThat(z, FALSE, "recovery point is not increasing") EXCEPT !.readOnly = TRUE], 0)
  ELSE LET added == [assertThat(z, e.type = "map" => Len(z.entries) < FullEntriesPerBlock, "no room for full entry")
                       EXCEPT !.entries = Append(@, [b |-> e.b, type |-> e.type]),
                              !.mapped = @ \/ e.type = "map",
                              !.recoveryPoint = e.rp]
       IN  IF blockIsFull(added) THEN call("commitSlabJournalTail", added, 0) ELSE added

-----------------------------------------------------------------------------
(* Writing reference blocks.                                               *)
writeReferenceBlock(z, r) ==
  launchWriteMetadataVIOWithFlush(
    [z EXCEPT !.refs.block[r].release = z.refs.block[r].lock, !.refs.block[r].dirty = FALSE],
    <<"counts", r>>, packReferenceBlock(z.refs, r))

launchReferenceBlockWrite(z, r) ==
  IF z.readOnly THEN z
  ELSE acquireVIO([z EXCEPT !.refs.active = @ + 1, !.refs.block[r].writing = TRUE], <<"ref", r>>)

saveOldest(z, n) ==
  FoldLeft(launchReferenceBlockWrite,
           [z EXCEPT !.refs.dirtyBlocks = SubSeq(@, n + 1, Len(@))], SubSeq(z.refs.dirtyBlocks, 1, n))

saveSeveralReferenceBlocks(z, flushDivisor) ==
  LET dirty == Len(z.refs.dirtyBlocks)
  IN  IF dirty = 0 THEN z
      ELSE saveOldest(z, IF dirty \div flushDivisor = 0 THEN 1 ELSE dirty \div flushDivisor)

saveDirtyReferenceBlocks(z) == checkIfSlabDrained(saveOldest(z, Len(z.refs.dirtyBlocks)))

updateSlabSummaryAsClean(z) ==
  updateSlabSummaryEntry([z EXCEPT !.refs.updating = TRUE], <<"clean">>, z.entry.offset, TRUE, TRUE)

referenceBlockWritten(y, r) ==
  CASE y.readOnly -> checkIfSlabDrained(y)
    [] ~y.readOnly /\ y.refs.block[r].dirty ->
         LET queued == [y EXCEPT !.refs.dirtyBlocks = Append(@, r)]
         IN  IF isDraining(y.admin) THEN saveDirtyReferenceBlocks(queued) ELSE queued
    [] OTHER -> IF ~hasActiveIO(y.refs) /\ y.refs.dirtyBlocks = <<>> THEN updateSlabSummaryAsClean(y) ELSE y

finishReferenceBlockWrite(z, r) ==
  LET unlocked == adjustSlabJournalBlockReference([z EXCEPT !.refs.active = @ - 1], z.refs.block[r].release, -1)
  IN  referenceBlockWritten([returnVIO(unlocked) EXCEPT !.refs.block[r].writing = FALSE], r)

handleIOError(z) == enterRefCountsReadOnlyMode([returnVIO(z) EXCEPT !.refs.active = @ - 1])

finishSummaryUpdate(z, ok) ==
  LET done == [z EXCEPT !.refs.updating = FALSE]
  IN  IF ok \/ z.readOnly THEN checkIfSlabDrained(done) ELSE enterRefCountsReadOnlyMode(done)

finishReferenceBlockLoad(z, r) ==
  checkIfSlabDrained(
    returnVIO([z EXCEPT !.refs = unpackReferenceBlock(@, r, contents(z.disk, <<"counts", r>>))]))

(* The first entry ever: every reference block locks the first block.      *)
acquireDirtyBlockLocks(z) ==
  adjustSlabJournalBlockReference(
    [z EXCEPT !.refs = [dirtyAllReferenceBlocks(z.refs) EXCEPT
                          !.block = [r \in ReferenceBlocks |-> [@[r] EXCEPT !.lock = 1]]]],
    1, ReferenceBlockCount)

-----------------------------------------------------------------------------
(* Making entries.                                                         *)
markSlabJournalDirty(z, sequence) ==
  [assertThat(z, z.recoveryLock = 0, "slab journal was dirty") EXCEPT !.recoveryLock = sequence]

withAdjustedCount(z, e, u, point) ==
  LET kept == e.held /\ u.refs.count[e.b] = ProvisionalReferenceCount
      y == [assertThat(z, u.ok, "invalid reference count operation")
              EXCEPT !.refs = u.refs,
                     !.provisional = IF kept THEN @ \union {e.b} ELSE IF e.type = "dec" THEN @ ELSE @ \ {e.b}]
  IN  IF u.released THEN adjustSlabJournalBlockReference(y, point \div EntriesPerBlock, -1) ELSE y

modifySlabReferenceCount(z, e, point) ==
  IF isUnrecoveredSlab(z) THEN adjustSlabJournalBlockReference(z, point \div EntriesPerBlock, -1)
  ELSE withAdjustedCount(z, e, adjustReferenceCount(z.refs, e.b, e.type, e.held, point), point)

(* The first entry of a block locks the recovery journal, and starts to    *)
(* write reference blocks once the journal is long.                        *)
startTailBlock(z, e) ==
  LET sequence == recoveryBlock(e.rp)
      locked == markSlabJournalDirty(
                  acquireRecoveryJournalBlockReference([z EXCEPT !.recoveryStart[slot(z.tail)] = sequence], sequence),
                  sequence)
      toDeadline == IF journalLength(z) <= flushingDeadline THEN flushingDeadline - journalLength(z) ELSE 0
  IN  IF requiresFlushing(locked) THEN saveSeveralReferenceBlocks(locked, toDeadline + 1) ELSE locked

makeEntry(z, e) ==
  [modifySlabReferenceCount(addEntry(z, e), e, slabJournalPoint(z.tail, Len(z.entries))) EXCEPT !.made = @ + 1]

addEntryFromWaiter(z) ==
  LET e == Head(z.waiters)
      y == [z EXCEPT !.waiters = Tail(@)]
  IN  makeEntry(IF z.entries = <<>> THEN startTailBlock(y, e) ELSE y, e)

(* One turn of the loop of addEntries(): a new block is locked until every *)
(* entry is in a written reference block and the block is summarized.      *)
lockNewBlock(z) ==
  LET locked == [z EXCEPT !.lock[slot(z.tail)] = EntriesPerBlock + 1]
  IN  IF z.tail = 1 THEN acquireDirtyBlockLocks(locked) ELSE locked

makeNextEntry(z) ==
  LET y == IF Head(z.waiters).type = "map" /\ Len(z.entries) >= FullEntriesPerBlock
           THEN commitSlabJournalTail(z) ELSE z
      busy == z.partial \/ slabIsRebuilding(z) \/ z.waitingToCommit \/ y.waitingToCommit
      diskFull == y.entries = <<>> /\ y.lock[slot(y.tail)] > 0
  IN  CASE z.waiters = <<>> -> z
        [] z.waiters # <<>> /\ busy -> IF z.waitingToCommit \/ z.partial \/ slabIsRebuilding(z) THEN z ELSE y
        [] z.waiters # <<>> /\ ~busy /\ requiresReaping(y) -> saveDirtyReferenceBlocks(y)
        [] z.waiters # <<>> /\ ~busy /\ ~requiresReaping(y) /\ diskFull ->
             saveDirtyReferenceBlocks(assertThat(y, y.head + JournalSize = y.tail /\ BlockingThreshold >= JournalSize,
                                                 "new block has locks"))
        [] OTHER -> call("makeNextEntry", addEntryFromWaiter(IF y.entries = <<>> THEN lockNewBlock(y) ELSE y), 0)

commitIfDraining(z) ==
  IF isDraining(z.admin) /\ z.admin.state # "suspending" /\ z.waiters = <<>> THEN commitSlabJournalTail(z) ELSE z

addEntries(z) ==
  IF z.adding THEN z
  ELSE commitIfDraining([makeNextEntry([z EXCEPT !.adding = TRUE]) EXCEPT !.adding = FALSE])

(* addSlabJournalEntry(); increaseScrubbingPriority() moves a slab in the  *)
(* scrubber's queues, which the allocator's model has.                     *)
addSlabJournalEntry(z, e) ==
  IF ~isSlabOpen(z) THEN assertThat(z, FALSE, "entry for a slab which is not open")
  ELSE IF z.readOnly THEN z
  ELSE addEntries([z EXCEPT !.waiters = Append(@, e)])

(* releaseRecoveryJournalLock(): the recovery journal wants its block.     *)
releaseRecoveryJournalLock(z, sequence) ==
  LET checked == assertThat(z, sequence <= z.recoveryLock, "recovery lock is older than the recovery journal head")
  IN  IF sequence = z.recoveryLock /\ ~z.readOnly THEN commitSlabJournalTail(checked) ELSE checked

-----------------------------------------------------------------------------
(* Recovery: replaying entries of the recovery journal into the slab       *)
(* journal.  An entry it already has is skipped; the block's lock and its  *)
(* recoveryStart are not used.  The result says whether to go on.          *)
replayInto(y, e) ==
  LET full == journalLength(y) >= JournalSize
      advanced == IF full THEN [y EXCEPT !.head = @ + 1, !.unreapable = @ + 1] ELSE y
      marked == IF y.status = "rebuilt" THEN [advanced EXCEPT !.status = "replaying"] ELSE advanced
  IN  IF y.waitingToCommit
      THEN [z |-> [y EXCEPT !.admin = [begin(y.admin, "waitingForRecovery", "replay") EXCEPT !.starting = FALSE]],
            added |-> FALSE]
      ELSE [z |-> addEntry(marked, e), added |-> TRUE]

attemptReplayIntoSlabJournal(z, e) ==
  IF ~(z.recoveryPoint < e.rp) THEN [z |-> z, added |-> TRUE]
  ELSE replayInto(IF Len(z.entries) >= FullEntriesPerBlock /\ (z.mapped \/ e.type = "map")
                  THEN call("commitSlabJournalTail", z, 0) ELSE z, e)

(* setDecodedState(): the journal as its last summarized block says.       *)
decodeSlabJournal(z) ==
  LET last == (z.entry.offset + JournalSize - 1) % JournalSize
      block == contents(z.disk, <<"journal", last>>)
  IN  IF (z.entry.offset = 0 /\ ~z.entry.load) \/ block.sequence = 0 THEN z
      ELSE initializeJournalState(
             [z EXCEPT !.tail = block.sequence + 1, !.recoveryPoint = block.point,
                       !.head = IF z.entry.dirty THEN block.head ELSE block.sequence + 1])

reopenSlabJournal(z) ==
  LET checked == assertThat(z, z.entries = <<>> /\ \A s \in DOMAIN z.lock : z.lock[s] = 0,
                            "reopened journal is not empty")
  IN  addEntries(initializeJournalState([checked EXCEPT !.head = z.tail]))

-----------------------------------------------------------------------------
(* Draining (slab.c, drainSlabJournal() and drainRefCounts()).             *)
drainSlabJournal(z) ==
  LET checked == assertThat(z, isQuiescing(z.admin) => ~(slabIsRebuilding(z) /\ z.waiters # <<>>),
                            "slab is rebuilding with waiters")
  IN  IF z.admin.state \in {"rebuilding", "suspending", "saveForScrubbing"} THEN checked
      ELSE commitSlabJournalTail(checked)

loadReferenceBlocks(z) ==
  FoldLeft(LAMBDA y, r : acquireVIO(y, <<"load", r>>),
           [z EXCEPT !.refs.free = DataBlocks, !.refs.active = ReferenceBlockCount],
           [i \in 1 .. ReferenceBlockCount |-> i - 1])

drainRefCounts(z) ==
  CASE z.admin.state = "scrubbing" -> IF z.entry.load THEN loadReferenceBlocks(z) ELSE z
    [] z.admin.state = "saveForScrubbing" ->
         saveDirtyReferenceBlocks(IF z.entry.load THEN z ELSE [z EXCEPT !.refs = dirtyAllReferenceBlocks(@)])
    [] z.admin.state = "saving" -> IF isUnrecoveredSlab(z) THEN z ELSE saveDirtyReferenceBlocks(z)
    [] z.admin.state \in {"recovering", "suspending"} -> z

initiateDrain(z) ==
  LET y == drainSlabJournal(IF z.admin.state = "scrubbing" THEN [z EXCEPT !.status = "rebuilding"] ELSE z)
  IN  checkIfSlabDrained(IF hasRefCounts(y) THEN drainRefCounts(y) ELSE y)

(* startSlabAction() of a drain, with whoever waits for it.                *)
drainStarted(z, waiter) ==
  LET ended == [z EXCEPT !.admin = started(@)]
  IN  IF released(z.admin, ended.admin) THEN call("notify", ended, waiter) ELSE ended

startSlabDrain(z, operation, waiter) ==
  IF ~mayBegin(z.admin, operation) THEN assertThat(z, FALSE, "slab operation refused")
  ELSE drainStarted(initiateDrain([z EXCEPT !.admin = begin(@, operation, waiter)]), waiter)

-----------------------------------------------------------------------------
(* Scrubbing a slab (vdo/base/slabScrubber.c): load the reference counts,  *)
(* apply the slab journal to them, and save them.                          *)
abortScrubbing(z) == [z EXCEPT !.readOnly = TRUE, !.scrubbing = "aborted"]

slabScrubbed(z) == reopenSlabJournal([z EXCEPT !.status = "rebuilt", !.scrubbing = "no"])

startScrubbing(z) ==
  IF ~z.entry.dirty THEN slabScrubbed(z)
  ELSE [z EXCEPT !.scrubbing = "reading", !.io = @ \union {[kind |-> "extent"]}]

applyBlockEntries(outcome, block) ==
  FoldLeft(LAMBDA u, i : IF ~u.ok THEN u
                         ELSE replayReferenceCountChange(u.refs, slabJournalPoint(block.sequence, i - 1),
                                                         block.entries[i].b, block.entries[i].type),
           outcome, [i \in 1 .. Len(block.entries) |-> i])

(* applyJournalEntries(): the blocks from the head which the last block    *)
(* names to the tail, each of which must be the one expected there.        *)
applyJournalEntries(z) ==
  LET block(sequence) == contents(z.disk, <<"journal", slot(sequence)>>)
      end == z.tail - 1
      first == block(end).head
      range == [i \in 1 .. end - first + 1 |-> first + i - 1]
      outcome == FoldLeft(LAMBDA u, s : IF ~u.ok \/ block(s).sequence # s THEN [u EXCEPT !.ok = FALSE]
                                        ELSE applyBlockEntries(u, block(s)),
                          [ok |-> TRUE, refs |-> z.refs], range)
      lastApplied == IF range = <<>> THEN z.refs.point
                     ELSE slabJournalPoint(end, Len(block(end).entries) - 1)
  IN  IF ~outcome.ok \/ lastApplied < z.refs.point
      THEN abortScrubbing(assertThat([z EXCEPT !.refs = outcome.refs], FALSE, "slab journal does not fit the counts"))
      ELSE call("startSlabDrain", [z EXCEPT !.refs = outcome.refs, !.scrubbing = "saving"],
                [operation |-> "saveForScrubbing", waiter |-> "scrubbed"])

(* Whoever waited for an operation of the slab.                            *)
notify(z, waiter) ==
  CASE waiter = "startScrubbing" -> IF z.readOnly THEN abortScrubbing(z) ELSE startScrubbing(z)
    [] waiter = "scrubbed" -> IF z.readOnly THEN abortScrubbing(z) ELSE slabScrubbed(z)
    [] OTHER -> z      \* the replay and the allocator, which go on in a step of their own

granted(z, waiter) ==
  CASE waiter[1] = "write" -> writeSlabJournalBlock(z)
    [] waiter[1] = "flush" -> [z EXCEPT !.io = @ \union {[kind |-> "flush"]}]
    [] waiter[1] = "ref" -> writeReferenceBlock(z, waiter[2])
    [] waiter[1] = "load" -> [z EXCEPT !.io = @ \union {[kind |-> "load", block |-> waiter[2]]}]

summaryUpdated(z, update) ==
  IF update.waiter = <<"journal">> THEN releaseJournalLocks(z, update.ok) ELSE finishSummaryUpdate(z, update.ok)

call(f, z, arg) ==
  CASE f = "addEntries" -> addEntries(z)
    [] f = "makeNextEntry" -> makeNextEntry(z)
    [] f = "reap" -> reapSlabJournal(z)
    [] f = "granted" -> granted(z, arg)
    [] f = "notify" -> notify(z, arg)
    [] f = "summaryUpdated" -> summaryUpdated(z, arg)
    [] f = "launchSummaryWrite" -> launchSummaryWrite(z)
    [] f = "finishUpdatingSlabSummaryBlock" -> finishUpdatingSlabSummaryBlock(z)
    [] f = "addSlabJournalEntry" -> addSlabJournalEntry(z, arg)
    [] f = "commitSlabJournalTail" -> commitSlabJournalTail(z)
    [] f = "completeWrite" -> completeWrite(z, arg.sequence, arg.ok)
    [] f = "completeReaping" -> completeReaping(z, arg)
    [] f = "finishReferenceBlockWrite" -> finishReferenceBlockWrite(z, arg)
    [] f = "finishReferenceBlockLoad" -> finishReferenceBlockLoad(z, arg)
    [] f = "handleIOError" -> handleIOError(z)
    [] f = "abortSlabJournalWaiters" -> abortSlabJournalWaiters(z)
    [] f = "applyJournalEntries" -> applyJournalEntries(z)
    [] f = "startSlabDrain" -> startSlabDrain(z, arg.operation, arg.waiter)
=============================================================================
