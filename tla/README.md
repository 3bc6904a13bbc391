# A TLA+ model of kvdo

kvdo is the kernel side of VDO, a device-mapper target which deduplicates and
compresses blocks, with UDS, the index in which it looks duplicates up. This
directory holds TLA+ modules translated from its source, the TLC
configurations which check them on small instances, and TLAPS proofs of the
results which matter most. `PROJECT.json` lists every part of the system,
modelled or not, and the source lines behind each definition.

    tlc -workers 2 -config X.cfg M        one run (the tables below)
    tlapm M.tla                           the proofs of module M

## The system

A VDO is divided into zones, each served by one thread: logical zones (the
mapping of logical blocks), physical zones (slabs, their reference counts and
journals), hash zones (deduplication), the journal thread, the packer thread
and the admin thread. Zones share almost nothing. They hand each other
completions, callbacks which run on the work queue of the target thread, so a
handler runs to its end without interruption and interleavings happen between
handlers and at the few atomic variables which threads share.

A write comes as a bio. The kernel layer takes a permit and a DataKVIO for it.
Inside the VDO it is a DataVIO which locks its logical block, allocates a
physical block, is deduplicated or compressed, makes an increment entry in the
recovery journal and then in a slab journal, the same for the block it
replaces, and changes a block map page. Pages, slab journal blocks and
reference blocks are written lazily; while they are not, they hold locks on
recovery journal blocks, which may be reaped only when nobody holds one. After
a crash the recovery journal is replayed. The index is asked for advice on the
way, with a timeout.

## Modules and code

A module keeps the names of the source. Where handlers nest calls, the state of
a thread is one record, every function of the source is an operator from
records to records, and an action applies a whole handler. Where threads race
on atomics, each access is a step of its own.

| Module | Models (`vdo/base/` unless stated) | State and actions |
|---|---|---|
| `JournalReaping` | `lockCounter.c`; reaping in `recoveryJournal.c`, page locks in `blockMapPage.c`, block locks in `slabJournal.c` | per-lock counts and heads; one action per atomic access of journal thread and zones |
| `RecoveryJournal` | `recoveryJournal.c`, `recoveryJournalBlock.c` | the journal record; entry assignment, block writes, flushes, reaping inline, drains |
| `ReadOnlyNotifier` | `readOnlyNotifier.c` | the two compare-and-swap words and each thread's copy; every swap is a step |
| `SuspendResume` | `vdoSuspend.c`, `vdoResume.c`, `superBlock.c` | the notifier composed with the phases of suspend and resume and with saves of the super block |
| `FlushPromise` | `flush.h` | abstract: what a flush promises |
| `Flush` | `flush.c`, generations of `logicalZone.c`, `kernel/kvdoFlush.c` | flusher, zones' rings and oldest generations, kernel flush bios |
| `WritePath` | `packer.c`, `compressionState.c`, `dataVIO.c`, `vioWrite.c`, with `Flush` | packer bins, compression states, logical locks, drains |
| `HashLock`, `Dedupe` | `hashLock.c`, `hashZone.c`, `pbnLock.c`, `physicalZone.c`, `vioWrite.c`, `kernel/verify.c` | hash locks and their agents, locks on physical blocks, stages of a write |
| `AdminState` | `adminState.c` | drains and resumes, as operators |
| `RefCounts`, `SlabJournal`, `Slab` | `refCounts.c`, `slabJournal.c`, `slabSummary.c`, `slab.c` | one slab with its writes, saves, crashes, recovery |
| `BlockAllocator` | `blockAllocator.c`, `slabScrubber.c`, `priorityTable.c` | slabs in the priority table, scrubbing, drains |
| `DirtyLists`, `PageCache` | `dirtyLists.c`, `vdoPageCache.c`, `blockMap.c` | page states, loads, evictions, batched writes |
| `BlockMapTree`, `Forest` | `blockMapTree.c`, `forest.c` | interior pages with generations and the flusher; growth, traversal |
| `Recovery`, `Rebuild` | `vdoRecovery.c`, `recoveryUtils.c`, `blockMapRecovery.c`, `referenceCountRebuild.c`, `heap.c` | the journal sector by sector, replay, rebuild |
| `Encoding`, `SuperBlock`, `Admin` | `uds/buffer.c`, `fixedLayout.c`, `vdoLayout.c`, `header.c`, `slabDepot.c`, `vdoLoad.c`, `vdo.c`, `vdoResize*.c`, `adminCompletion.c` | the stack of completions of load, recovery, growth; crashes |
| `ActionManager` | `actionManager.c` | two queued actions over zones, default actions |
| `HashMap` | `intMap.c`, `pointerMap.c` | hopscotch lists |
| `IndexState`, `Index` | `uds/indexLayout.c`, `indexState.c`, `indexCheckpoint.c`, `index.c`, `indexZone.c`, `chapterWriter.c` | save slots, checkpoints, chapters, load and replay |
| `Volume` | `uds/volume.c`, `pageCache.c`, `indexPageMap.c` | lock-free searches against invalidation, read queue |
| `UDSIndex` | `kernel/udsIndex.c`, `uds/indexSession.c` | requests with timeouts, session states under two mutexes |
| `KernelLayer` | `kernel/dmvdo.c`, `kernelLayer.c`, `kernelVDO.c`, `deviceRegistry.c` | tables, layers and their parts, names |
| `Requests` | `kernel/limiter.c`, `deadlockQueue.c`, `bufferPool.c`, `batchProcessor.c`, `dataKVIO.c` | permits, DataKVIOs, batches, sleepers |
| `WorkQueue` | `kernel/workQueue.c`, `uds/util/funnelQueue.c` | put in two steps, sleep and wake, delayed items, end |
| `Storage` | external | versions of each block which a crash may leave |

`MCStorage`, `MCSystem` and `MCWritePath` put parts which share no state side by side: a
behaviour is one of a single part, chosen at its start. In the first two each
property is the conjunction of the corresponding properties of the parts. The
composition of parts which do share state is in `JournalReaping`,
`SuspendResume`, `WritePath`, `Dedupe`, `Slab`, `Admin` and `Index`.

## Runs

Passing runs:

| Run | Module, cfg | What it shows |
|---|---|---|
| `journal_reaping` | `MCJournalReaping` | No block is reaped while a write, a page or a slab journal block needs it, though `isLocked()` reads the counts one at a time; counts are exact; a lock is initialised only when free; under fairness recycled blocks are reaped and drains end. |
| `recovery_journal` | `RecoveryJournal` | Entries commit in order, each waiter is released once, available space is what is free, no assertion fails, and waiters and drains end, with failing writes and read-only mode. |
| `write_path` | `MCWritePath` | `WritePath`: a canceled write is always taken out of the packer, drained components are quiet, flushes, writes and suspends end. `SuspendResume`: errors racing a suspend are neither lost nor announced twice; the super block says clean only of a clean VDO; every thread learns of an error. |
| `dedupe` | `MCDedupe` | Data stay intact, reference counts and locks are exact, no write is left in the queue of a hash lock. |
| `storage` | `MCStorage` | Slab, allocator, page cache, trees, recovery, rebuild and forest; the flusher with the kernel's bios implements `FlushPromise`. |
| `system` | `MCSystem` | Administration, index, volume, session, hash map, action manager, kernel layer, requests and work queue. |

Violation runs, each against one statement of the code itself (quoted in
`PROJECT.json`):

| Run | What happens |
|---|---|
| `journal_sync_wakeup` | In synchronous mode recycling a block reaps inline, may reuse that block, and leaves its entries without a write. |
| `journal_saved_space` | A resume after a save forgets the space of the blocks it dropped. |
| `journal_save_underflow` | A save which ends read-only recycles its active block from within its own recycling. |
| `dedupe_bypass` | A bypassed hash lock is returned with the lock of a compressed block. |
| `forest_boundary` | `computeBoundary()` allows a root one page too many when the leaf pages divide evenly, so a traversal follows the mapped entry just past the end of the logical space where it says it erases it. |
| `default_action` | `finishActionCallback()` looks for a default action while the operation is still in progress and so finds none: a request which came meanwhile is left when the manager is idle. |

### Bounds

Every unbounded counter is capped by a named constant or by the budget in a
setting; the cap is in the guard of the action which counts.

- `journal_reaping`: a ring of two blocks and `MaxTail = 4`, so that every block
  is reused; two pages in two zones and a slab block, so that both types of
  zone race; two writes.
- `recovery_journal`: a ring of three with two tail blocks of two entries, so
  that it fills up, waits and wraps. The violation runs use three writes over
  a ring of four.
- `write_path`: a bin which two of three fragments fill; two writes for one
  block. One zone only: `Flush` has several. Four threads, one of each kind; the
  listeners are those the code registers.
- `dedupe`: three writes, three blocks, a reference limit of two, so that it is
  reached. Compression and faults are not combined here because of
  `dedupe_bypass`.
- `storage` and `system`: sets of settings, each with a few crashes, faults,
  saves or growths, which together fire every action; `MCStorage.tla` and
  `MCSystem.tla` list them. The slab journal has four blocks: with three, the
  summary entry of a used journal cannot be told from that of a blank one,
  which no real size allows. The flusher has two zones, writes, flushes and bios.
  `forest_boundary` and `default_action` use one part of these with a single
  setting.

Only `dedupe` uses symmetry (of writes and blocks, for invariants).

### Fairness

Fairness is assumed of what the system's threads and devices do of their own
accord: a thread takes the next step of a handler which it has begun, a work
queue runs what is enqueued, writes and flushes of the device end (with or
without an error), and pages and slab journal blocks are eventually written,
as the journal's eras and `slabDepot.c` ask for it. It is never assumed that a
new write, flush, suspend or error comes. `RecoveryJournal` writes weak
fairness out with the guards of its actions, which spares TLC `ENABLED`.
Elsewhere waiting forever is a safety property: when no step is under way,
nobody waits. `CHECK_DEADLOCK FALSE` is set where a bounded system may finish
its work.

## Proofs

Each theorem holds for every value of the constants which the named
assumptions allow; TLC evaluates the assumptions in a run.

**Reaping** (`JournalReapingProofs`). `TypeCorrect`, `ReapingIsSafe`,
`CountsAreExact`, `NewLockIsFree`, `FlushCoversReap`, `ReapingInOrder`: for any
number of zones, writes, pages, slab blocks and any size of the ring. `NoPrematureReap` is not
inductive: `isLocked()` reads three counts at three times. `Inv` adds what a
step in progress has read and that it cannot become false (`ReadValid`), who
needs which block (`Needed`), the journal's own count (`JournalCounted`), the
updates of zones which are half done (`Updating`), and the order of the heads.
Assumptions: `ZonesAssumption`, `SizeAssumption`, `ReapingAssumption`.

**Read-only notifier** (the first half of `SuspendResumeProofs`). `TypeCorrect`,
`DisallowingWorks`, `NoErrorIsLost`, `ListenersAreCalledOnce` and the action
property `ReadOnlyMonotone`, for any threads and listeners. `IInv` says how far
a notification has come: threads before the completion's have heard
everything, those after it nothing. Assumption: `ThreadsAssumption`.

**Suspend and resume** (`SuspendResumeProofs`). `ImplementsNotifier`: every
behaviour of the composition is one of the notifier, so its results carry over.
`VDOTypeCorrect`, `SuspendIsNotDisturbed`, `NoticesGivenOnce`,
`SuperBlockIsAlwaysRight`, `CleanOnlyWithoutError`. `VInv` adds who saves the
super block and with what, and where an error may be which nobody has been
told of: on a thread of a component not drained yet. Assumption:
`RolesAssumption`.

**Flush** (`FlushProofs`). `FlusherKeepsPromise` is a refinement, step by step:
the flusher and the zones implement `FlushPromise`. `KernelUsesFlusher` shows
that the kernel's bios only use the flusher as it expects, hence
`FlushKeepsPromise`. Also `FlushTypeCorrect`, `AssertionsHold` and the action
property `OldestGenerationAdvances`. `FInv` says what generations mean: the two
queues have consecutive ones, a zone is in that of the first flush it has not
been told of, rings are sorted, and what `completeFlushes()` has read is no
newer than what it would read now. Assumption: `FlushAssumption`.

**Requests** (`RequestsInvariant`, `RequestsLimiters`, `RequestsProofs`). For any
request limit, any bios, any number of threads waiting for idleness, any faults,
messages and changes of the discard limit: `RequestsKeepPermits`,
`RequestsAssertNothingFalse`, `RequestsNobodyWaitsForever`,
`RequestsRestoreCompression`. `RInv` has twelve parts. The permits add up only
together with what a batch has cleaned and not yet released (`Permits`); a
batch is exclusive from its schedule to the end of its loop by its state and
after that by its lock (`Batched`). `Wakeups` is the one which needs thought.
Wakeups of a limiter are exclusive and a thread waiting for idleness may take
one, so while a bio sleeps the permits out, the wakeups owed and the bios awake
are at least the limit minus the number of such threads which are not ahead of
a sleeping bio (`Spared`). This is why the property excepts a request limit not
above the number of those threads. Assumption: `SettingsAreProper`, an
hypothesis of the theorems, evaluated for the checked settings by `MCSystem`.
The `system` run checks these four properties as conjuncts of its own.

**Work queue** (`WorkQueueProofs`). For any threads, items, priority lists and
any clock: `NobodyEverWaitsForever` (a worker asleep has no work, delayed items
have their timer, a worker exits only when nothing is left and nobody puts
anything after that) and `NoWorkQueueAssertionFails` (each item comes out once,
in the order of the puts, and is never in the queue twice). Neither is
inductive. `WorkQueueInv`, which `WorkQueueIsInvariant` shows to be one, adds:

- `Chained`: the entries of a list, from its oldest to its newest, are the items
  put and not yet taken with the stub at some place among them or at none, and
  each is linked to the next or is to be linked by just the thread which put
  that one. Without it nothing bounds what `getOldest()` sees of a list in
  which a put is half done. The lemmas on chains are about the four things the
  code does to one: exchange, link, take the oldest, put the stub.
- `Marked` and `Linking`: what is marked as queued is in one list or delayed,
  once, and only one thread is to link it; so chains have no loops.
- `Timed`: the timer is set, or about to be set by one thread, just while items
  are delayed and its handler does not run.
- `Awakened`: what is in a list in which an idle worker found nothing was put by
  a thread which has yet to look whether the worker is idle, and if the worker
  is no longer idle somebody is about to wake it. This is why the worker must
  poll again after `idle` is set and why a put looks at `idle` after the link.
- `Finished`: once the worker polls for the last time nobody puts items.

`WorkQueueInv` was checked by TLC before it was proved, with three items on two
priority lists. Assumption: `isProper`, an hypothesis
of the theorems, evaluated by `MCSystem`, which checks both properties as
conjuncts of its own.

**Action manager** (`ActionManagerProofs`). For any number of zones, commands,
requests and faults: `EveryCommandIsAnswered`, `TheZonesAgree`,
`EveryRequestIsServed`, `NoManagerAssertionFails`. `ManagerInv`, which
`ManagerIsInvariant` shows to be inductive, adds to the properties what each
kind of action does (`isKnown`), that the current action is the operation in
progress and what state follows it (`Operating`), and what each zone is before
and after the acting zone reaches it (`InZones`). An action is launched when it
is the only one held (`Ready`). `RequestsAreServed` speaks of requests which find
the manager idle and its owner in normal operation; `Taken` is what keeps it, and
`default_action` shows what becomes of the others. It can fail to start only if the owner is
quiescent, because an action which waits suits the state which follows unless
that is so; hence finishing it launches no other and finds no default action.
This is why a failed launch is modelled without recursion, and
`NoManagerAssertionFails` includes that there was nothing else to launch.
Operations are operators on records, so the invariant is one of a record, and
the predicates `launchIs`, `finishIs` and `toZoneIs` say field by field what they
return. TLC checked the
invariant before it was proved. Assumption: `hasZones`, an hypothesis of the
theorems, evaluated by `MCSystem`, which checks the four properties as
conjuncts of its own.

## Only model-checked

- Liveness under fairness (`BlocksAreReaped`, `DrainCompletes`,
  `JournalMakesProgress`, `EveryThreadLearns`, `NothingWaitsForThePacker`,
  `SuspendCompletes`): the prover has neither fairness nor `ENABLED`.
- Everything about `BlockMapTree`, `Forest`, `HashMap`, `Index`,
  `PageCache`, `Rebuild`, `RecoveryJournal`, `Slab`, `SlabJournal`, `Volume` and
  `WritePath`: their handlers call one another in cycles, or their algorithms
  recur, and are recursive operators, about which the provers can prove
  nothing.
- `BlockAllocator`, `Dedupe`, `HashLock`, `Recovery`, `SuperBlock` and `Admin`
  fold over sequences or sets; what a fold computes needs induction over data,
  which is out of reach as well.
- `KernelLayer` and `UDSIndex` have neither; no proof has been written for them.

## Exceptions in the properties

Some properties are stated with exceptions because the code has them. Each is a
case TLC reaches; the comment on the property describes it.

- Slab: `finishReferenceBlockWrite()` does not look whether a slab has drained
  when the last write of a suspend ends while other blocks are dirty
  (`SuspendIsForgotten`); nobody reaps when a slab is resumed whose journal had
  reached its blocking threshold and whose last locks were released when nothing
  could be reaped (`ResumeIsBlocked`).
- Allocator: a slab of high priority is on no list after a
  suspension (`forgotten`); a bit of the search vector may stay set when a slab
  was returned to the table while its journal was blank (`returned`).
- Block map: `BoundaryIsNotTooLow` asks for an exact boundary except where
  `forest_boundary` shows it is one page too high; a failed load leaves those who
  wait for a free page (`vdoPageCache.c:717`); a failed tree page write leaves the
  flusher set (`blockMapTree.c:477`).
- Rebuild: when the last page of the block map is exactly full, its first slot is
  taken for the end of the logical space and its mappings are removed
  (`referenceCountRebuild.c:417`).
- Action manager: a request which finds the manager busy may be missed
  (`actionManager.c:323`, `default_action`).
- Administration: the growth of a read-only VDO does not end (`vdoResize.c:75`,
  `vdoResizeLogical.c:68`), since `finishOperationWithResult()` does nothing
  before the operation has started; a size which has as many slabs as one
  prepared before is accepted but cannot be grown to, since the depot keeps the
  earlier size (`isPreparedForAnotherSize`, `slabDepot.c:915`); the super block
  may say recovering while the VDO is in use (`exposed`, `vdoSuspend.c:92`).
- Index: an old saved open chapter stays valid (`indexComponent.c:707`); after a
  step failed, those who wait for the chapter writer are not asked for; names
  which were deleted, lost with an open chapter, did not fit, or seem to be held
  by a torn chapter are not asked for (`hidden`); a chapter which could not be
  written is missing (`lost`, `index.c:294`); with several zones and a checkpoint
  at every chapter a save may be of no use (`wasted`).
- Volume cache: a zone which had to wait for a place in the read queue hides the
  page if it was cached meanwhile (`volume.c:136`).
- Index session: a timeout outside the lock (`ruined`, `udsIndex.c:281`), suspend
  against open and close (`refused`), a load failing in a suspend
  (`LoadFailsDuringSuspend`), a resume overtaken (`ResumeIsOvertaken`,
  `index.c:743`), the timer firing in a free (`TimerFiresDuringFree`).
- Kernel layer: tables accepted and not applied (`unapplied`), names taken over
  in procfs (`evicted`), two devices starting at once (`raced`).
- Requests: `overtaken` (a bio queued after the last completion), `stranded` and
  a discard limit of zero, `overlapped` and `overwritten` waits, and the
  exclusive wakeups described above.
- Work queue: of the late uses of a finished queue only a put or a setting of the
  timer is excluded, not a late wakeup (`late`).

## Abstractions and what is not modelled

- Device, kernel and library code are external: storage keeps the versions which
  a crash may leave and a completed flush makes completed writes stable; page
  and block writes are atomic, journal writes are torn by sector in `Recovery`.
  Memory is sequentially consistent, as the fences ask.
- Reads, partial writes, bio merging, statistics, sysfs, logging, LZ4, hashing
  and memory allocation are left out. So is the failure of `enqueueWaiter()`,
  which cannot happen for a waiter in no queue, and a VDO with a single thread.
- `JournalReaping` abstracts which write of a tail block has which entries;
  `RecoveryJournal` has that, with the locks of zones taken and released whole.
- `SuspendResume` drains a component in one step; the drains themselves are in
  the modules of the components.
- `WritePath` leaves out reads and the flag `writingBatches`; `Dedupe` gives
  every write a logical block of its own and merges the release of the logical
  lock with reading the old mapping. Index errors never reach a hash lock.
- `PageCache` leaves out rebuild mode and pages found bad. `BlockMapTree` has
  one tree; an entry of it is invalid when its block is not one for data.
  `Forest` does not say where in memory a page past the end of its level is.
- `Index` is dense, with the master index as an exact map and secondary nonces
  free of collisions; time advances between saves. `Volume` leaves out
  synchronous reads, the sparse cache and the exit of readers.
- `UDSIndex` merges a compare-and-swap with the section under the state lock
  which follows it, and a callback with the decrement of the statistic `active`;
  which requests are too old is arbitrary.
- `Admin`: the checksum of a buffer is the buffer; the close of the journal in a
  failed load and each drain are one step; no logical block is mapped, so the
  counts a rebuild finds do not change. The maxima of `validateVDOConfig()` are
  above TLC's integers.
- `KernelLayer`: the device mapper calls as its interface allows; registry
  lookups are atomic; old table versions and the grow message are left out.
- `Requests`: requests are writes and discards, acknowledged through the bio-ack
  queue; what VDO does with one is arbitrary, a put on the funnel queue
  is atomic, and so is a release of a discard permit with its wakeup.
- `WorkQueue`: a round-robin queue is several simple ones.

`PROJECT.json` gives the reason for every part which is left out.
