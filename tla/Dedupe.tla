------------------------------- MODULE Dedupe -------------------------------
(***************************************************************************)
(* Writes with deduplication and compression: the write path of            *)
(* vdo/base/vioWrite.c through the hash zone, the physical zones, the      *)
(* packer's compressed blocks and the block map.  Every write has a        *)
(* logical block of its own.  The callbacks of different threads           *)
(* interleave; a DataVIO runs one callback at a time.                      *)
(***************************************************************************)
EXTENDS HashLock

CONSTANTS
  MaxCompressionSlots,  \* MAX_COMPRESSION_SLOTS, 14 in the code
  Instances         \* the combinations which are explored: records of the fields
                    \* vios         the number of DataVIOs
                    \* writes       the number of writes they start
                    \* data         what is written, a subset of Data \cup {Zero}
                    \* async        the write policy
                    \* compressing  whether compression is on
                    \* faults       whether the disk may fill up or fail

VARIABLES
  d,                \* the record of HashLock, with contents, map, bin and result
  expected,         \* the data last mapped for the logical block of each write
  instance, active, \* one of Instances, and its DataVIOs
  writes            \* the number of writes which were started

vars == <<d, expected, instance, active, writes>>

Slots == 0 .. MaxCompressionSlots

Locations == [pbn : Blocks, slot : Slots]

idleBin == [pbn |-> NoBlock, outgoing |-> <<>>]

Init ==
  /\ instance \in Instances
  /\ active \in kSubset(instance.vios, DataVIOs)
  /\ d = [pbnLock |-> [p \in Blocks |-> unlocked], counters |-> [p \in Blocks |-> 0], asserts |-> {},
            lock |-> [l \in Locks |-> initializeHashLock], lockMap |-> [n \in Names |-> NoLock],
            hashLock |-> [v \in DataVIOs |-> NoLock], step |-> [v \in DataVIOs |-> "idle"],
            isDuplicate |-> [v \in DataVIOs |-> FALSE], duplicate |-> [v \in DataVIOs |-> zeroLocation],
            newMapped |-> [v \in DataVIOs |-> zeroLocation], mapped |-> [v \in DataVIOs |-> zeroLocation],
            allocation |-> [v \in DataVIOs |-> NoBlock], allocationLock |-> [v \in DataVIOs |-> FALSE],
            mayNotCompress |-> [v \in DataVIOs |-> FALSE], data |-> [v \in DataVIOs |-> Zero],
            failed |-> [v \in DataVIOs |-> FALSE],
            contents |-> [p \in Blocks |-> <<>>],          \* the data in each slot of a block
            map |-> [v \in DataVIOs |-> zeroLocation],     \* the block map
            bin |-> idleBin,                               \* the output bin of the packer
            async |-> instance.async, compressing |-> instance.compressing, readOnly |-> FALSE]
  /\ expected = [v \in DataVIOs |-> Zero]
  /\ writes = 0

run(new) == d' = new /\ UNCHANGED <<expected, instance, active, writes>>

at(v, step) == d.step[v] = step

lockOf(v) == d.hashLock[v]

fail(x, v) == [x EXCEPT !.failed[v] = TRUE]

-----------------------------------------------------------------------------
(* The start of a write.                                                   *)

(* readOldBlockMapping() reads what only this write may change: it is the  *)
(* holder of the logical lock.                                             *)
readOldBlockMapping(x, v) ==
  launch([x EXCEPT !.mapped[v] = x.map[v]], v, IF x.map[v] = zeroLocation THEN "putMapped" ELSE "decrement")

(* launchWriteDataVIO() and continueWriteWithBlockMapSlot().               *)
LaunchWriteDataVIO(v) ==
  /\ at(v, "idle") /\ v \in active /\ writes < instance.writes /\ ~d.readOnly
  /\ \E data \in instance.data :
       LET launched == [d EXCEPT !.data[v] = data]
       IN  d' = IF data = Zero THEN readOldBlockMapping(launched, v) ELSE launch(launched, v, "allocate")
  /\ writes' = writes + 1
  /\ UNCHANGED <<expected, instance, active>>

(* prepareForDedupe(): a synchronous write remembers the block it wrote.   *)
prepareForDedupe(x, v) ==
  launch(IF x.async THEN x ELSE [x EXCEPT !.mapped[v] = x.newMapped[v]], v, "lockHash")

(* allocateAndLockBlock() and continueWriteAfterAllocation().              *)
ContinueWriteAfterAllocation(v) ==
  /\ at(v, "allocate")
  /\ \/ \E p \in freeBlocks(d) :
          LET allocated == [allocateAndLock(d, p, "write") EXCEPT !.allocation[v] = p, !.allocationLock[v] = TRUE,
                              !.newMapped[v] = [pbn |-> p, slot |-> 0]]
          IN  run(IF d.async THEN prepareForDedupe(allocated, v) ELSE launch(allocated, v, "write"))
     \/ instance.faults /\ run(prepareForDedupe(d, v))

LockHashInZone(v) ==
  /\ at(v, "lockHash")
  /\ LET acquired == acquireHashLock(d, v)
     IN  run(IF acquired.hashLock[v] = NoLock THEN compressData(acquired, v) ELSE enterHashLock(acquired, v))

-----------------------------------------------------------------------------
(* The steps of an agent.                                                  *)

(* finishQuerying(): the advice of the index may be out of date.           *)
FinishQuerying(v) ==
  /\ at(v, "query")
  /\ LET l == lockOf(v)
         x == assertHashLockAgent(d, v)
     IN  \/ \E advice \in Locations :
              run(startLocking([setDuplicateLocation(x, v, advice) EXCEPT !.lock[l].duplicate = advice], l, v))
         \/ run(startWriting([x EXCEPT !.lock[l].updateAdvice = ~hasAllocation(d, v)], l, v))

giveUpDuplicate(x, v) == launch([x EXCEPT !.isDuplicate[v] = FALSE], v, "finishLocking")

mayLockDuplicate(p) == getAvailableReferences(d, p) > 0 /\ (isLocked(d, p) => isPBNReadLock(d, p))

(* lockDuplicatePBN() on the thread of the block's physical zone.          *)
LockDuplicatePBN(v) ==
  /\ at(v, "lockDuplicatePBN")
  /\ LET p        == d.duplicate[v].pbn
         attempt  == attemptPBNLock(d, p, "read")
         limited  == IF isLocked(d, p) THEN attempt
                     ELSE [acquireProvisionalReference(attempt, p)
                           EXCEPT !.pbnLock[p].incrementLimit = getAvailableReferences(d, p)]
         asserted == assertThat(limited, d.lock[lockOf(v)].duplicateLock = NoBlock,
                                "hash lock must not already hold a duplicate lock")
         acquired == [asserted EXCEPT !.pbnLock[p].holderCount = @ + 1, !.lock[lockOf(v)].duplicateLock = p]
     IN  IF ~mayLockDuplicate(p) THEN run(giveUpDuplicate(IF getAvailableReferences(d, p) = 0 THEN d ELSE attempt, v))
         ELSE run(launch(acquired, v, "finishLocking"))

FinishLocking(v) ==
  /\ at(v, "finishLocking")
  /\ LET l == lockOf(v)
         x == assertHashLockAgent(d, v)
         p == d.lock[l].duplicateLock
     IN  run(CASE ~d.isDuplicate[v] -> startWriting([x EXCEPT !.lock[l].updateAdvice = TRUE], l, v)
               [] d.isDuplicate[v] /\ ~d.lock[l].verified -> launch(setHashLockState(x, l, "verifying"), v, "verify")
               [] d.isDuplicate[v] /\ d.lock[l].verified /\ ~canClaim(d, p) ->
                    startUnlocking([claimPBNLockIncrement(x, p) EXCEPT !.isDuplicate[v] = FALSE,
                                      !.lock[l].verified = FALSE, !.lock[l].updateAdvice = TRUE], l, v)
               [] OTHER -> startDeduping(claimPBNLockIncrement(x, p), l, v, FALSE))

(* What is read at a location.                                             *)
read(location) ==
  LET c == d.contents[location.pbn]
  IN  IF location.slot \in DOMAIN c THEN c[location.slot] ELSE Zero

(* Mutant: the advice of the index is trusted.                             *)
VerifyDuplication_trustsAdvice(v) == at(v, "verify") /\ run(launch(d, v, "finishVerifying"))

(* verifyDuplication() reads the block and compares.                       *)
VerifyDuplication(v) ==
  /\ at(v, "verify")
  /\ \/ run(launch([d EXCEPT !.isDuplicate[v] = read(d.duplicate[v]) = d.data[v]], v, "finishVerifying"))
     \/ instance.faults /\ run(launch(fail(d, v), v, "finishVerifying"))

FinishVerifying(v) ==
  /\ at(v, "finishVerifying")
  /\ LET l         == lockOf(v)
         x         == assertHashLockAgent(d, v)
         p         == d.lock[l].duplicateLock
         duplicate == d.isDuplicate[v]
         claimed   == [IF duplicate THEN claimPBNLockIncrement(x, p) ELSE x EXCEPT !.lock[l].verified = duplicate]
     IN  run(CASE d.failed[v] -> abortHashLock(x, v)
               [] ~d.failed[v] /\ duplicate /\ canClaim(d, p) -> startDeduping(claimed, l, v, FALSE)
               [] OTHER -> startUnlocking([claimed EXCEPT !.isDuplicate[v] = FALSE, !.lock[l].verified = FALSE,
                                                          !.lock[l].updateAdvice = TRUE], l, v))

(* Mutant: the hash lock forgets its PBN lock without releasing it.        *)
UnlockDuplicatePBN_forgets(v) ==
  /\ at(v, "unlockDuplicatePBN")
  /\ run(launch([d EXCEPT !.lock[lockOf(v)].duplicateLock = NoBlock], v,
                IF d.lock[lockOf(v)].state = "bypassing" THEN "finishBypassing" ELSE "finishUnlocking"))

(* unlockDuplicatePBN() on the thread of the block's physical zone.        *)
UnlockDuplicatePBN(v) ==
  /\ at(v, "unlockDuplicatePBN")
  /\ LET l        == lockOf(v)
         asserted == assertThat(d, d.lock[l].duplicateLock = d.duplicate[v].pbn, "must have a duplicate lock to release")
         released == [releasePBNLock(asserted, d.duplicate[v].pbn) EXCEPT !.lock[l].duplicateLock = NoBlock]
     IN  run(launch(released, v, IF d.lock[l].state = "bypassing" THEN "finishBypassing" ELSE "finishUnlocking"))

FinishBypassing(v) ==
  /\ at(v, "finishBypassing")
  /\ run(exitHashLock(assertHashLockAgent(d, v), v))

(* finishUnlocking(): the first waiter must lock and verify again.         *)
FinishUnlocking(v) ==
  /\ at(v, "finishUnlocking")
  /\ LET l        == lockOf(v)
         x        == assertHashLockAgent(d, v)
         reverify == [x EXCEPT !.lock[l].verified = FALSE]
         next     == Head(d.lock[l].waiters)
         retired  == exitHashLock(setAgent(dequeueLockWaiter(reverify, l), l, next), v)
     IN  run(CASE ~d.lock[l].verified -> startWriting(x, l, v)
               [] d.lock[l].verified /\ hasWaiters(d, l) ->
                    startLocking(setDuplicateLocation(retired, next, d.lock[l].duplicate), l, next)
               [] OTHER -> exitHashLock(reverify, v))

FinishUpdating(v) ==
  /\ at(v, "update")
  /\ LET l == lockOf(v)
         x == [assertHashLockAgent(d, v) EXCEPT !.lock[l].updateAdvice = FALSE]
     IN  run(CASE hasWaiters(d, l) -> startDeduping(x, l, v, TRUE)
               [] ~hasWaiters(d, l) /\ d.lock[l].duplicateLock # NoBlock -> startUnlocking(x, l, v)
               [] OTHER -> exitHashLock(startBypassing(x, l, NoVIO), v))

-----------------------------------------------------------------------------
(* Compression.                                                            *)

(* A write leaves the packer: it does not compress, it was canceled, the   *)
(* packer was flushed, or it was alone.                                    *)
leavePacker(x, v) == abortDeduplication(cancelCompression(x, v), v)

LeavePacker(v) == at(v, "compress") /\ run(leavePacker(d, v))

(* A batch goes to the output bin and the bin's writer gets a block.       *)
LaunchCompressedWrite ==
  /\ d.bin = idleBin
  /\ \E batch \in {s \in SUBSET {v \in DataVIOs : at(v, "compress") /\ ~d.mayNotCompress[v]} :
                       Cardinality(s) \in 2 .. MaxCompressionSlots} :
       LET outgoing == SetToSeq(batch)
           packed   == [d EXCEPT !.step = [v \in DataVIOs |-> IF v \in batch THEN "packed" ELSE @[v]]]
       IN  \/ \E p \in freeBlocks(d) :
                run([allocateAndLock(packed, p, "compressed") EXCEPT !.bin = [pbn |-> p, outgoing |-> outgoing]])
           \/ instance.faults /\ run(FoldLeft(leavePacker, d, outgoing))

(* shareCompressedWriteLock(): the first share downgrades the lock.        *)
shareCompressedBlock(x, v, p, slot) ==
  LET location   == [pbn |-> p, slot |-> slot]
      downgraded == IF isPBNReadLock(x, p) THEN x ELSE downgradePBNWriteLock(x, p)
      asserted   == assertThat(downgraded, x.lock[x.hashLock[v]].duplicateLock = NoBlock,
                               "a duplicate PBN lock should not exist when writing")
      claimed    == claimPBNLockIncrement(asserted, p)
  IN  [launch(claimed, v, "incrementForCompression")
       EXCEPT !.newMapped[v] = location, !.duplicate[v] = location,
              !.lock[x.hashLock[v]].duplicate = location, !.lock[x.hashLock[v]].duplicateLock = p,
              !.pbnLock[p].holderCount = @ + 1]

FinishCompressedWrite ==
  /\ d.bin # idleBin
  /\ LET p        == d.bin.pbn
         outgoing == d.bin.outgoing
         done     == [d EXCEPT !.bin = idleBin]
         written  == [done EXCEPT !.contents[p] = [i \in DOMAIN outgoing |-> d.data[outgoing[i]]]]
         share(x, i) == shareCompressedBlock(x, outgoing[i], p, i)
     IN  \/ run(FoldLeft(share, written, [i \in DOMAIN outgoing |-> i]))
         \/ instance.faults /\ run(FoldLeft(leavePacker, releasePBNLock(done, p), outgoing))

-----------------------------------------------------------------------------
(* The callbacks which check the result of the DataVIO first.              *)
checkedSteps ==
  {"share", "write", "incrementForWrite", "incrementForCompression", "decrement", "putMapped",
   "finishWrite"}

(* The journal, the reference counts and the block map.                    *)

(* The old mapping is looked up unless it is the block which a synchronous *)
(* write has written.                                                      *)
afterIncrement(x, v) ==
  IF x.async \/ ~hasAllocation(x, v) THEN readOldBlockMapping(x, v) ELSE launch(x, v, "decrement")

(* shareBlock() to incrementForDedupe().                                   *)
IncrementForDedupe(v) ==
  /\ at(v, "share") /\ ~d.failed[v]
  /\ LET shared == [assertThat(d, d.lock[lockOf(v)].duplicateLock = d.duplicate[v].pbn, "shared block must be locked")
                    EXCEPT !.newMapped[v] = d.duplicate[v]]
     IN  run(afterIncrement(incrementForData(shared, d.duplicate[v].pbn, TRUE), v))

IncrementForCompression(v) ==
  /\ at(v, "incrementForCompression") /\ ~d.failed[v]
  /\ run(afterIncrement(incrementForData(d, d.newMapped[v].pbn, TRUE), v))

WriteBlock(v) ==
  /\ at(v, "write") /\ ~d.failed[v]
  /\ run(launch([d EXCEPT !.contents[d.allocation[v]] = [slot \in {0} |-> d.data[v]],
                          !.newMapped[v] = [pbn |-> d.allocation[v], slot |-> 0]], v, "incrementForWrite"))

IncrementForWrite(v) ==
  /\ at(v, "incrementForWrite") /\ ~d.failed[v]
  /\ LET p == d.allocation[v]
     IN  run(readOldBlockMapping(incrementForData(downgradePBNWriteLock(d, p), p, TRUE), v))

releaseAllocationLock(x, v) ==
  LET p == x.allocation[v]
  IN  IF ~x.allocationLock[v] THEN x
      ELSE [releasePBNLock(x, p) EXCEPT !.allocationLock[v] = FALSE,
              !.allocation[v] = IF x.pbnLock[p].hasProvisionalReference THEN NoBlock ELSE p]

(* decrementForDedupe(), decrementForWrite(): the lock on a block which is *)
(* about to lose its reference goes first.                                 *)
Decrement(v) ==
  /\ at(v, "decrement") /\ ~d.failed[v]
  /\ LET p        == d.mapped[v].pbn
         released == IF d.allocation[v] = p THEN releaseAllocationLock(d, v) ELSE d
     IN  run(launch(decrementForData(released, p, isLocked(released, p)), v, "putMapped"))

PutMappedBlock(v) ==
  /\ at(v, "putMapped") /\ ~d.failed[v]
  /\ LET put == [d EXCEPT !.map[v] = d.newMapped[v]]
     IN  d' = CASE d.data[v] = Zero -> finishDataVIO(put, v)
                [] d.data[v] # Zero /\ lockOf(v) # NoLock -> launch(put, v, "finishWrite")
                [] d.data[v] # Zero /\ lockOf(v) = NoLock /\ ~d.async -> prepareForDedupe(put, v)
                [] OTHER -> finishDataVIO(put, v)
  /\ expected' = [expected EXCEPT ![v] = d.data[v]]
  /\ UNCHANGED <<instance, active, writes>>

FinishWriteDataVIO(v) == at(v, "finishWrite") /\ ~d.failed[v] /\ run(continueHashLock(d, v))

(* abortOnError(): the write of data fails, or the VDO is read-only, or    *)
(* the DataVIO has failed before and has gone on without its hash lock.    *)
AbortOnError(v) ==
  /\ \/ instance.faults /\ at(v, "write") /\ ~d.failed[v]
     \/ (d.readOnly \/ d.failed[v]) /\ d.step[v] \in checkedSteps
  /\ LET x == fail([d EXCEPT !.readOnly = @ \/ d.async], v)
     IN  run(IF lockOf(v) # NoLock THEN launch(x, v, "finishWithError") ELSE finishDataVIO(x, v))

FinishWriteDataVIOWithError(v) == at(v, "finishWithError") /\ run(abortHashLock(d, v))

-----------------------------------------------------------------------------
(* performCleanupStage().                                                  *)

ReleaseAllocatedLock(v) ==
  at(v, "releaseAllocated") /\ run(afterReleaseAllocated(releaseAllocationLock(d, v), v))

CleanHashLock(v) == at(v, "cleanHashLock") /\ run(releaseLogicalLock(releaseHashLock(d, v), v))

-----------------------------------------------------------------------------
Next ==
  \/ \E v \in DataVIOs :
       \/ LaunchWriteDataVIO(v) \/ ContinueWriteAfterAllocation(v) \/ LockHashInZone(v)
       \/ FinishQuerying(v) \/ LockDuplicatePBN(v) \/ FinishLocking(v) \/ VerifyDuplication(v)
       \/ FinishVerifying(v) \/ UnlockDuplicatePBN(v) \/ FinishBypassing(v) \/ FinishUnlocking(v)
       \/ FinishUpdating(v) \/ LeavePacker(v) \/ IncrementForDedupe(v) \/ IncrementForCompression(v)
       \/ WriteBlock(v) \/ IncrementForWrite(v) \/ Decrement(v)
       \/ PutMappedBlock(v) \/ FinishWriteDataVIO(v) \/ AbortOnError(v) \/ FinishWriteDataVIOWithError(v)
       \/ ReleaseAllocatedLock(v) \/ CleanHashLock(v)
  \/ LaunchCompressedWrite \/ FinishCompressedWrite

Spec == Init /\ [][Next]_vars

-----------------------------------------------------------------------------
(* Properties.                                                             *)

(* The data last mapped for a logical block are what its block holds: no   *)
(* block is allocated or written while a logical block refers to it, or is *)
(* about to, although advice is stale, blocks are freed and reused, and    *)
(* verification, writing and counting are steps of different threads.      *)
(* (A write which has given up its old block holds its logical lock.)      *)
DataIsIntact ==
  \A v \in DataVIOs : d.map[v] # zeroLocation /\ ~at(v, "putMapped") => read(d.map[v]) = expected[v]

(* The references of block p: the mappings, but for those which are being  *)
(* replaced and have been decremented, and the increments not yet mapped.  *)
references(p) ==
  Cardinality({v \in DataVIOs : d.map[v].pbn = p /\ ~at(v, "putMapped")})
    + Cardinality({v \in DataVIOs : d.newMapped[v].pbn = p /\ d.step[v] \in {"decrement", "putMapped"}})

(* Until the VDO is read-only, the count of every block is the number of   *)
(* its references; a block without any is kept by a provisional reference  *)
(* exactly as long as a lock owns it.                                      *)
ReferencesAreCounted ==
  ~d.readOnly => \A p \in Blocks :
    LET provisional == d.counters[p] = provisionalReferenceCount
    IN  /\ (IF provisional THEN 0 ELSE d.counters[p]) = references(p)
        /\ provisional = d.pbnLock[p].hasProvisionalReference

(* Every lock on a block is held by as many writes, hash locks and bins as *)
(* its count says: it is not released early and never leaks.               *)
HoldersAreCounted ==
  \A p \in Blocks :
    /\ d.pbnLock[p].holderCount = Cardinality({v \in DataVIOs : d.allocationLock[v] /\ d.allocation[v] = p})
                                  + Cardinality({l \in Locks : d.lock[l].duplicateLock = p})
                                  + (IF d.bin.pbn = p THEN 1 ELSE 0)
    /\ isLocked(d, p) = (d.pbnLock[p].holderCount > 0)

(* A write waits only in the lock it shares, and only while an agent of    *)
(* that lock is at work which will not stay in the packer.                 *)
NoWaiterIsForgotten ==
  /\ \A v \in DataVIOs : at(v, "wait") => Contains(d.lock[lockOf(v)].waiters, v)
  /\ \A l \in Locks : hasWaiters(d, l) =>
       LET agent == d.lock[l].agent
       IN  /\ agent # NoVIO /\ d.hashLock[agent] = l /\ d.step[agent] \notin {"wait", "idle"}
           /\ at(agent, "compress") => d.mayNotCompress[agent]

(* No assertion of the hash locks, the PBN locks, their pools and the      *)
(* reference counts fails, and no count overflows: every reference which a *)
(* hash lock makes was claimed.                                            *)
NoAssertionFails == d.asserts = {}

(* "hash lock returned to zone must not reference a PBN lock": no hash     *)
(* lock goes back to the pool of its zone with the lock on a block, unless *)
(* the VDO is read-only.                                                   *)
ReturnedLockIsEmpty == d.readOnly \/ "hash lock returned to zone must not reference a PBN lock" \notin d.asserts

(* The reference counts of the blocks and the holders of their locks are   *)
(* counted right.                                                          *)
BlocksAreAccountedFor == ReferencesAreCounted /\ HoldersAreCounted
=============================================================================
