------------------------------ MODULE HashLock ------------------------------
(***************************************************************************)
(* Hash locks (vdo/base/hashLock.c, hashZone.c): the writes in progress    *)
(* whose data have the same name share a lock, and one of them, the agent, *)
(* asks the index, verifies its advice, or writes, for all of them.  The   *)
(* others wait, and then refer to the block the agent has found.           *)
(*                                                                         *)
(* The record of the physical blocks has these fields in addition:         *)
(*   lock, lockMap     the locks, and the one registered for each name     *)
(*   hashLock, step, isDuplicate, duplicate, newMapped, mapped, allocation,*)
(*   allocationLock, mayNotCompress, data       the fields of each DataVIO *)
(*   async, compressing, readOnly               the state of the VDO       *)
(* A function of the source is an operator from records to records; step   *)
(* is the callback each DataVIO will run next.                             *)
(***************************************************************************)
EXTENDS Integers, FiniteSets, Sequences, SequencesExt

CONSTANTS
  DataVIOs,                  \* the requests in progress at once (vdo/base/dataVIO.h)
  NoVIO                      \* NULL

-----------------------------------------------------------------------------
(***************************************************************************)
(* The locks on physical blocks (vdo/base/pbnLock.c, pbnLockPool.c,        *)
(* physicalZone.c) and the reference counts they protect (refCounts.c).  A *)
(* block which nothing refers to may be held by a provisional reference,   *)
(* which a lock owns.  A read lock knows how many references the block can *)
(* still take, and hash locks claim them before they are made.             *)
(*                                                                         *)
(* The operators take and return a record with these fields:               *)
(*   pbnLock        the lock on each block (pbnOperations), or unlocked    *)
(*   counters       the reference count of each block                      *)
(*   asserts        the assertions which have failed                       *)
(* A block has one lock, so the block stands for it.                       *)
(***************************************************************************)

CONSTANTS
  Blocks,                    \* the data blocks
  NoBlock,                   \* ZERO_BLOCK
  MaximumReferenceCount,     \* 254 in the code
  LockPoolCapacity           \* the PBN locks of a zone

ASSUME PhysicalZoneAssumption == MaximumReferenceCount \in Nat \ {0, 1} /\ NoBlock \notin Blocks

(* PROVISIONAL_REFERENCE_COUNT is past every count.                        *)
provisionalReferenceCount == MaximumReferenceCount + 1

unlocked == [type |-> "none", holderCount |-> 0, hasProvisionalReference |-> FALSE,
             incrementLimit |-> 0, incrementsClaimed |-> 0]

PBNLocks == [type : {"none", "read", "write", "compressed"}, holderCount : Nat,
             hasProvisionalReference : BOOLEAN, incrementLimit : 0 .. MaximumReferenceCount,
             incrementsClaimed : 0 .. MaximumReferenceCount + 1]

assertThat(z, condition, what) == IF condition THEN z ELSE [z EXCEPT !.asserts = @ \cup {what}]

-----------------------------------------------------------------------------
(* Reference counts of data blocks.                                        *)

getAvailableReferences(z, p) ==
  IF z.counters[p] = provisionalReferenceCount THEN MaximumReferenceCount - 1
  ELSE MaximumReferenceCount - z.counters[p]

(* incrementForData(), with the lock of p if the caller holds it.          *)
incrementForData(z, p, locked) ==
  [assertThat(z, z.counters[p] # MaximumReferenceCount, "Incrementing a block already having 254 references")
   EXCEPT !.counters[p] = CASE @ = provisionalReferenceCount -> 1 [] @ = MaximumReferenceCount -> @ [] OTHER -> @ + 1,
          !.pbnLock[p].hasProvisionalReference = @ /\ ~locked]

(* decrementForData(): a locked block does not become unreferenced.        *)
decrementForData(z, p, locked) ==
  CASE z.counters[p] = 0 -> assertThat(z, FALSE, "Decrementing free block")
    [] z.counters[p] \in {1, provisionalReferenceCount} /\ locked ->
         [z EXCEPT !.counters[p] = provisionalReferenceCount,
                   !.pbnLock[p].hasProvisionalReference = TRUE]
    [] z.counters[p] \in {1, provisionalReferenceCount} /\ ~locked -> [z EXCEPT !.counters[p] = 0]
    [] OTHER -> [z EXCEPT !.counters[p] = @ - 1]

(* A decrement of the journal finds the lock of the block, if any.         *)
isLocked(z, p) == z.pbnLock[p].type # "none"

freeBlocks(z) == {p \in Blocks : z.counters[p] = 0}

-----------------------------------------------------------------------------
(* Locks.                                                                  *)

isPBNReadLock(z, p) == z.pbnLock[p].type = "read"

(* The lock is borrowed from the pool before it is known to be needed.     *)
attemptPBNLock(z, p, type) ==
  LET held     == {q \in Blocks : isLocked(z, q)}
      borrowed == assertThat(z, Cardinality(held) < LockPoolCapacity, "must always be able to borrow a PBN lock")
  IN  IF isLocked(z, p) THEN borrowed ELSE [borrowed EXCEPT !.pbnLock[p] = [unlocked EXCEPT !.type = type]]

(* The holder of the lock of a block written alone has made a reference;   *)
(* the writer of a compressed block has not, and gives up its hold.        *)
downgradePBNWriteLock(z, p) ==
  LET lock == z.pbnLock[p]
  IN  [assertThat(z, lock.type \in {"write", "compressed"} /\ lock.holderCount = 1,
                  "PBN write lock should have one holder")
       EXCEPT !.pbnLock[p] =
         IF lock.type = "write" THEN [lock EXCEPT !.type = "read", !.incrementLimit = MaximumReferenceCount - 1]
         ELSE [lock EXCEPT !.type = "read", !.incrementLimit = MaximumReferenceCount, !.holderCount = 0]]

(* claimPBNLockIncrement(): whether one can be claimed, and the claim.     *)
(* Claims past the limit are not told apart.                               *)
canClaim(z, p) == z.pbnLock[p].incrementsClaimed < z.pbnLock[p].incrementLimit

claimPBNLockIncrement(z, p) ==
  [z EXCEPT !.pbnLock[p].incrementsClaimed = IF @ > z.pbnLock[p].incrementLimit THEN @ ELSE @ + 1]

releaseProvisionalReference(z, p) ==
  IF z.pbnLock[p].hasProvisionalReference THEN decrementForData(z, p, FALSE) ELSE z

releasePBNLock(z, p) ==
  LET held == assertThat(z, z.pbnLock[p].holderCount > 0, "should not be releasing a lock that is not held")
  IN  IF held.pbnLock[p].holderCount > 1 THEN [held EXCEPT !.pbnLock[p].holderCount = @ - 1]
      ELSE [releaseProvisionalReference(held, p) EXCEPT !.pbnLock[p] = unlocked]

(* acquireProvisionalReference() for a block which has just been locked.   *)
acquireProvisionalReference(z, p) ==
  IF z.counters[p] # 0 THEN z
  ELSE [z EXCEPT !.counters[p] = provisionalReferenceCount, !.pbnLock[p].hasProvisionalReference = TRUE]

(* allocateUnreferencedBlock() and attemptPBNWriteLock() of block p.       *)
allocateAndLock(z, p, type) ==
  LET locked == attemptPBNLock([z EXCEPT !.counters[p] = provisionalReferenceCount], p, type)
  IN  [assertThat(locked, locked.pbnLock[p].holderCount = 0, "Newly allocated block was spuriously locked")
       EXCEPT !.pbnLock[p].holderCount = 1, !.pbnLock[p].hasProvisionalReference = TRUE]

-----------------------------------------------------------------------------
CONSTANTS
  Locks,          \* the pool of a hash zone: one lock for each DataVIO
  NoLock,         \* NULL
  Data,           \* what may be written
  Zero,           \* the data of a zero block or a trim
  Names,
  chunkName       \* the name of each data

(* A location is a block, and a slot in it or 0 for all of it.             *)
zeroLocation == [pbn |-> NoBlock, slot |-> 0]

initializeHashLock ==
  [state |-> "initializing", hash |-> "none", registered |-> FALSE, updateAdvice |-> FALSE,
   verified |-> FALSE, duplicate |-> zeroLocation, duplicateLock |-> NoBlock, agent |-> NoVIO,
   waiters |-> <<>>]

(* The duplicateRing of a lock.                                            *)
holders(d, l) == {v \in DataVIOs : d.hashLock[v] = l}

referenceCount(d, l) == Cardinality(holders(d, l))

hasWaiters(d, l) == d.lock[l].waiters # <<>>

hasAllocation(d, v) == d.allocation[v] # NoBlock

launch(d, v, step) == [d EXCEPT !.step[v] = step]

setHashLockState(d, l, state) == [d EXCEPT !.lock[l].state = state]

setAgent(d, l, v) == [d EXCEPT !.lock[l].agent = v]

setDuplicateLocation(d, v, source) ==
  [d EXCEPT !.duplicate[v] = source, !.isDuplicate[v] = source.pbn # NoBlock]

assertHashLockAgent(d, v) == assertThat(d, d.lock[d.hashLock[v]].agent = v, "must be the hash lock agent")

-----------------------------------------------------------------------------
(* What vioWrite.c does for the hash lock.                                 *)

(* releaseLogicalLock(), and the DataVIO is ready for another request.     *)
releaseLogicalLock(d, v) ==
  [assertThat(d, ~d.allocationLock[v] /\ d.hashLock[v] = NoLock, "complete DataVIO has no locks")
   EXCEPT !.step[v] = "idle", !.isDuplicate[v] = FALSE, !.duplicate[v] = zeroLocation,
          !.newMapped[v] = zeroLocation, !.mapped[v] = zeroLocation, !.allocation[v] = NoBlock,
          !.mayNotCompress[v] = FALSE, !.failed[v] = FALSE, !.data[v] = Zero]

(* finishDataVIO(): the first stage of the clean-up.                       *)
afterReleaseAllocated(d, v) ==
  IF d.hashLock[v] # NoLock THEN launch(d, v, "cleanHashLock") ELSE releaseLogicalLock(d, v)

finishDataVIO(d, v) == IF hasAllocation(d, v) THEN launch(d, v, "releaseAllocated") ELSE afterReleaseAllocated(d, v)

(* abortDeduplication(): a synchronous write has already been done.        *)
abortDeduplication(d, v) ==
  CASE ~hasAllocation(d, v) -> finishDataVIO(d, v)
    [] hasAllocation(d, v) /\ d.async -> launch(d, v, "write")
    [] hasAllocation(d, v) /\ ~d.async /\ d.hashLock[v] = NoLock -> finishDataVIO(d, v)
    [] OTHER -> launch(d, v, "finishWrite")

mayCompressDataVIO(d, v) ==
  hasAllocation(d, v) /\ d.compressing /\ d.hashLock[v] # NoLock /\ ~d.mayNotCompress[v]

compressData(d, v) ==
  LET asserted == assertThat(d, ~d.isDuplicate[v], "compressing a non-duplicate block")
  IN  IF mayCompressDataVIO(d, v) THEN launch(asserted, v, "compress") ELSE abortDeduplication(asserted, v)

cancelCompression(d, v) == [d EXCEPT !.mayNotCompress[v] = TRUE]

-----------------------------------------------------------------------------
(* The hash zone.                                                          *)

unusedLocks(d) == {l \in Locks : d.lock[l].state = "initializing" /\ holders(d, l) = {}}

(* acquireHashLockFromZone(): a lock is taken from the pool first.  Its    *)
(* choice does not matter.                                                 *)
acquireHashLockFromZone(d, name, replaceLock) ==
  LET l        == CHOOSE k \in unusedLocks(d) : TRUE
      asserted == assertThat(d, replaceLock = NoLock \/ d.lockMap[name] = replaceLock,
                             "old lock must have been in the lock map")
      replaced == IF replaceLock = NoLock THEN asserted ELSE [asserted EXCEPT !.lock[replaceLock].registered = FALSE]
  IN  CASE unusedLocks(d) = {} -> assertThat(d, FALSE, "never need to wait for a free hash lock")
        [] unusedLocks(d) # {} /\ d.lockMap[name] # replaceLock -> d
        [] OTHER -> [replaced EXCEPT !.lockMap[name] = l, !.lock[l].hash = name, !.lock[l].registered = TRUE]

returnHashLockToZone(d, l) ==
  LET lock     == d.lock[l]
      asserted == assertThat(assertThat(d, lock.waiters = <<>>, "hash lock returned to zone must have no waiters"),
                             lock.duplicateLock = NoBlock, "hash lock returned to zone must not reference a PBN lock")
      mapped   == assertThat(asserted, lock.registered = (d.lockMap[lock.hash] = l),
                             "hash lock being released must have been mapped")
  IN  [mapped EXCEPT !.lockMap[lock.hash] = IF lock.registered THEN NoLock ELSE @,
                     !.lock[l] = initializeHashLock]

(* setHashLock(dataVIO, NULL), and then what releaseHashLock() does.       *)
leaveHashLock(d, v) ==
  LET l == d.hashLock[v]
  IN  [assertThat(d, d.lock[l].state \in {"bypassing", "unlocking"} \/ referenceCount(d, l) > 1,
                  "hash locks should only become unreferenced in a terminal state")
       EXCEPT !.hashLock[v] = NoLock]

releaseHashLock(d, v) ==
  LET l    == d.hashLock[v]
      left == leaveHashLock(d, v)
  IN  IF l = NoLock THEN d
      ELSE IF referenceCount(left, l) > 0 THEN left ELSE returnHashLockToZone(left, l)

exitHashLock(d, v) == finishDataVIO(releaseHashLock(d, v), v)

(* acquireHashLock(): a write whose data only have the same name as those  *)
(* of the lock goes without it.                                            *)
isHashCollision(d, l, v) == \E u \in holders(d, l) : d.data[u] # d.data[v]

acquireHashLock(d, v) ==
  LET name     == chunkName[d.data[v]]
      acquired == acquireHashLockFromZone(d, name, NoLock)
      l        == acquired.lockMap[name]
  IN  IF isHashCollision(acquired, l, v) THEN acquired ELSE [acquired EXCEPT !.hashLock[v] = l]

-----------------------------------------------------------------------------
(* Waiting.                                                                *)

waitOnHashLock(d, l, v) ==
  LET waiting == launch([d EXCEPT !.lock[l].waiters = Append(@, v)], v, "wait")
  IN  IF d.lock[l].state = "writing" THEN cancelCompression(waiting, d.lock[l].agent) ELSE waiting

dequeueLockWaiter(d, l) == [d EXCEPT !.lock[l].waiters = Tail(@)]

compressWaiter(d, v) == compressData([d EXCEPT !.isDuplicate[v] = FALSE], v)

-----------------------------------------------------------------------------
(* Bypassing: everyone writes for themselves.  agent may be NoVIO.         *)

(* Mutant: the waiters are left in the lock.                               *)
startBypassing_keepsWaiters(d, l, agent) ==
  LET bypassing == [d EXCEPT !.lock[l].state = "bypassing", !.lock[l].updateAdvice = FALSE]
  IN  CASE d.lock[l].duplicateLock # NoBlock /\ agent # NoVIO ->
             launch([bypassing EXCEPT !.duplicate[agent] = d.lock[l].duplicate], agent, "unlockDuplicatePBN")
        [] d.lock[l].duplicateLock = NoBlock /\ agent # NoVIO -> compressWaiter(setAgent(bypassing, l, NoVIO), agent)
        [] OTHER -> bypassing

startBypassing(d, l, agent) ==
  LET lock      == d.lock[l]
      bypassing == [d EXCEPT !.lock[l].state = "bypassing", !.lock[l].updateAdvice = FALSE, !.lock[l].waiters = <<>>]
      notified  == FoldLeft(compressWaiter, bypassing, lock.waiters)
  IN  CASE lock.duplicateLock # NoBlock /\ agent # NoVIO ->
             launch([notified EXCEPT !.duplicate[agent] = lock.duplicate], agent, "unlockDuplicatePBN")
        [] lock.duplicateLock = NoBlock /\ agent # NoVIO -> compressWaiter(setAgent(notified, l, NoVIO), agent)
        [] OTHER -> assertThat(notified, lock.waiters = <<>> /\ lock.duplicateLock = NoBlock,
                               "hash lock holding a PBN lock must have an agent")

abortHashLock(d, v) ==
  LET l    == d.hashLock[v]
      lock == d.lock[l]
  IN  CASE lock.state = "bypassing" -> exitHashLock(d, v)
        [] lock.state # "bypassing" /\ v # lock.agent /\ (lock.agent # NoVIO \/ referenceCount(d, l) > 1) ->
             exitHashLock(assertThat(d, lock.agent = NoVIO, "only active agent should call abortHashLock"), v)
        [] OTHER -> startBypassing(setAgent(d, l, v), l, v)

-----------------------------------------------------------------------------
(* The steps of the agent.                                                 *)

startUnlocking(d, l, agent) == launch(setHashLockState(d, l, "unlocking"), agent, "unlockDuplicatePBN")

startUpdating(d, l, agent) ==
  LET asserted == assertThat(d, d.lock[l].verified /\ d.lock[l].updateAdvice, "should only update advice if needed")
  IN  launch(setHashLockState(asserted, l, "updating"), agent, "update")

startLocking(d, l, agent) ==
  LET asserted == assertThat(d, d.lock[l].duplicateLock = NoBlock,
                             "must not acquire a duplicate lock when already holding it")
  IN  launch(setHashLockState(asserted, l, "locking"), agent, "lockDuplicatePBN")

(* selectWritingAgent(): the first waiter with an allocation takes over,   *)
(* and the agent is the first of the waiters.                              *)
selectWritingAgent(d, l) ==
  LET lock    == d.lock[l]
      able    == {i \in DOMAIN lock.waiters : hasAllocation(d, lock.waiters[i])}
      i       == CHOOSE k \in able : \A j \in able : k <= j
  IN  IF able = {} THEN d
      ELSE launch([d EXCEPT !.lock[l].agent = lock.waiters[i],
                            !.lock[l].waiters = <<lock.agent>> \o RemoveAt(lock.waiters, i)], lock.agent, "wait")

startWriting(d, l, agent) ==
  LET writing  == setHashLockState(d, l, "writing")
      selected == IF hasAllocation(d, agent) THEN writing ELSE selectWritingAgent(writing, l)
      writer   == selected.lock[l].agent
  IN  CASE ~hasAllocation(selected, writer) -> startBypassing(selected, l, writer)
        [] hasAllocation(selected, writer) /\ hasWaiters(selected, l) ->
             compressData(cancelCompression(selected, writer), writer)
        [] OTHER -> compressData(selected, writer)

(* enterForkedLock() for each waiter, in forkHashLock().                   *)
forkHashLock(d, oldLock, newAgent) ==
  LET acquired == acquireHashLockFromZone(d, d.lock[oldLock].hash, oldLock)
      newLock  == acquired.lockMap[d.lock[oldLock].hash]
      forked   == [acquired EXCEPT !.lock[oldLock].updateAdvice = FALSE, !.lock[newLock].updateAdvice = TRUE,
                                   !.lock[oldLock].waiters = <<>>,
                                   !.hashLock = [v \in DataVIOs |->
                                      IF v = newAgent \/ Contains(d.lock[oldLock].waiters, v) THEN newLock ELSE @[v]],
                                   !.lock[newLock].agent = newAgent,
                                   !.isDuplicate[newAgent] = FALSE]
      asserted == assertThat(forked, holders(forked, oldLock) # {},
                             "hash locks should only become unreferenced in a terminal state")
      enter(x, v) == waitOnHashLock(x, newLock, v)
  IN  startWriting(FoldLeft(enter, asserted, d.lock[oldLock].waiters), newLock, newAgent)

(* Mutant: an increment is not claimed before the write is launched.       *)
launchDedupe_noClaim(d, l, v, hasClaim) == launch(setDuplicateLocation(d, v, d.lock[l].duplicate), v, "share")

launchDedupe(d, l, v, hasClaim) ==
  LET p       == d.lock[l].duplicateLock
      claimed == IF hasClaim THEN d ELSE claimPBNLockIncrement(d, p)
  IN  IF hasClaim \/ canClaim(d, p)
      THEN launch(setDuplicateLocation(claimed, v, d.lock[l].duplicate), v, "share")
      ELSE forkHashLock(claimed, l, v)

finishDeduping(d, l, v) ==
  LET asserted == assertThat(d, d.lock[l].agent = NoVIO /\ ~hasWaiters(d, l), "shouldn't have an agent in DEDUPING")
      agent    == setAgent(asserted, l, v)
  IN  CASE referenceCount(d, l) > 1 -> exitHashLock(asserted, v)
        [] referenceCount(d, l) = 1 /\ d.lock[l].updateAdvice -> startUpdating(agent, l, v)
        [] OTHER -> startUnlocking(agent, l, v)

(* The downgraded lock on the block which the agent wrote becomes the      *)
(* duplicate lock.                                                         *)
transferAllocationLock(d, l, v) ==
  LET p == d.allocation[v]
  IN  [assertThat(d, p = d.newMapped[v].pbn /\ d.allocationLock[v] /\ isPBNReadLock(d, p),
                  "must have downgraded the allocation lock before transfer")
       EXCEPT !.allocation[v] = NoBlock, !.allocationLock[v] = FALSE, !.duplicate[v] = d.newMapped[v],
              !.lock[l].duplicate = d.newMapped[v], !.lock[l].duplicateLock = p]

startDeduping(d, l, agent, agentIsDone) ==
  LET transferred == IF d.lock[l].duplicateLock = NoBlock THEN transferAllocationLock(d, l, agent) ELSE d
      asserted    == assertThat(transferred, isPBNReadLock(d, transferred.lock[l].duplicateLock),
                                "duplicateLock must be a PBN read lock")
      deduping    == setAgent(setHashLockState(asserted, l, "deduping"), l, NoVIO)
      launched    == IF agentIsDone THEN deduping ELSE launchDedupe(deduping, l, agent, TRUE)
      next(x, v)  == IF hasWaiters(x, l) THEN launchDedupe(dequeueLockWaiter(x, l), l, v, FALSE) ELSE x
      all         == FoldLeft(next, launched, d.lock[l].waiters)
  IN  IF agentIsDone THEN finishDeduping(all, l, agent) ELSE all

finishWriting(d, l, agent) ==
  LET written == [d EXCEPT !.lock[l].duplicate = d.newMapped[agent], !.lock[l].verified = TRUE,
                           !.lock[l].updateAdvice = @ \/ (d.newMapped[agent].slot # 0 /\ d.lock[l].registered)]
      lock    == written.lock[l]
  IN  CASE hasWaiters(d, l) -> startDeduping(written, l, agent, TRUE)
        [] ~hasWaiters(d, l) /\ lock.updateAdvice -> startUpdating(written, l, agent)
        [] ~hasWaiters(d, l) /\ ~lock.updateAdvice /\ lock.duplicateLock # NoBlock ->
             startUnlocking(setDuplicateLocation(written, agent, lock.duplicate), l, agent)
        [] OTHER -> exitHashLock(startBypassing(written, l, NoVIO), agent)

enterHashLock(d, v) ==
  LET l == d.hashLock[v]
  IN  CASE d.lock[l].state = "initializing" ->
             launch(setHashLockState(setAgent(d, l, v), l, "querying"), v, "query")
        [] d.lock[l].state = "bypassing" -> compressData(d, v)
        [] d.lock[l].state = "deduping" -> launchDedupe(d, l, v, FALSE)
        [] OTHER -> waitOnHashLock(d, l, v)

continueHashLock(d, v) ==
  LET l == d.hashLock[v]
  IN  CASE d.lock[l].state = "writing" -> finishWriting(assertHashLockAgent(d, v), l, v)
        [] d.lock[l].state = "deduping" -> finishDeduping(d, l, v)
        [] d.lock[l].state = "bypassing" -> finishDataVIO(d, v)
        [] OTHER -> compressData(assertThat(d, FALSE, "hash lock must not be in unimplemented state"), v)
=============================================================================
