----------------------------- MODULE BlockMapTree -----------------------------
(***************************************************************************)
(* The trees of the block map in one zone (vdo/base/blockMapTree.c): how   *)
(* data VIOs find the block map page of a logical block, loading and       *)
(* allocating interior pages on the way, and how changed interior pages    *)
(* are written.  A page is written only after a flush issued since its     *)
(* last change.  One page at a time is the flusher: its own write flushes  *)
(* first, and the pages of its generation are written after it.            *)
(*                                                                         *)
(* There is one tree.  Its fictional root at the height BlockMapTreeHeight *)
(* only gives the address of the real root, the one page below it.  A page *)
(* is named by its height and index, and a slot by the page it leads to.   *)
(* The zone is one record t; the source's functions are operators on it.   *)
(***************************************************************************)
EXTENDS Storage, DirtyLists, AdminState

CONSTANTS
  TreeSettings,          \* the lookups, pools and faults to check, see Init
  BlockMapTreeHeight,
  EntriesPerPage,
  Generations,           \* 2^8 in the source
  MaxTreeJournalBlock    \* a bound on the recovery journal blocks filled

VARIABLES t, lookups

vars == <<t, lookups>>

treeRun(new) == t' = new

assertThat(z, condition, what) == IF condition THEN z ELSE [z EXCEPT !.asserts = @ \cup {what}]

-----------------------------------------------------------------------------
(* The shape of the tree                                                   *)

NoBlock == 0
Nobody == 0
rootPBN == 1

ancestor(leaf, height) == <<height, leaf \div EntriesPerPage ^ height>>
top == <<BlockMapTreeHeight, 0>>

pagesAt(height) == {<<height, i>> : i \in 0 .. EntriesPerPage ^ (BlockMapTreeHeight - 1 - height) - 1}
treePages == UNION {pagesAt(h) : h \in 1 .. BlockMapTreeHeight - 1}
leafPages == pagesAt(0)

parentOf(page) == <<page[1] + 1, page[2] \div EntriesPerPage>>
slotOf(page) == page[2] % EntriesPerPage
slots == 0 .. EntriesPerPage - 1

makeTreePage ==
  [pbn |-> NoBlock, entries |-> [s \in slots |-> NoBlock], initialized |-> FALSE, generation |-> 0,
   writing |-> FALSE, writingGeneration |-> 0, recoveryLock |-> 0, writingRecoveryLock |-> 0]

(* The entry for a page in the page above it, and in that of a version.    *)
mappingOf(z, page) == IF parentOf(page) = top THEN rootPBN ELSE z.page[parentOf(page)].entries[slotOf(page)]

version(page) == [entries |-> page.entries, initialized |-> page.initialized]

-----------------------------------------------------------------------------
RECURSIVE call(_, _, _)

each(f, z, queue) == FoldLeft(LAMBDA y, x : call(f, y, x), z, queue)

isTreeZoneActive(z) == z.activeLookups # 0 \/ z.flushWaiters # <<>> \/ z.available < z.poolSize

checkForDrainComplete(z) ==
  IF isDraining(z.admin) /\ ~isTreeZoneActive(z) THEN [z EXCEPT !.admin = endOperation(@)] ELSE z

enterZoneReadOnlyMode(z) == checkForDrainComplete([z EXCEPT !.readOnly = TRUE, !.flushWaiters = <<>>])

launch(z, request) ==
  [assertThat(z, ~isQuiescent(z.admin), "no I/O while quiescent") EXCEPT !.io = @ \cup {request}]

-----------------------------------------------------------------------------
(* The pool of VIOs (vioPool.c).  A waiter is a page to write or a data    *)
(* VIO which loads a page.                                                 *)

acquireVIOFromPool(z, waiter) ==
  IF z.available > 0 THEN call("useVIO", [z EXCEPT !.available = @ - 1], waiter)
  ELSE [z EXCEPT !.poolWaiters = Append(@, waiter)]

returnVIOToPool(z) ==
  IF z.poolWaiters = <<>> THEN [z EXCEPT !.available = @ + 1]
  ELSE call("useVIO", [z EXCEPT !.poolWaiters = Tail(@)], Head(z.poolWaiters))

returnToPool(z) == checkForDrainComplete(returnVIOToPool(z))

writer(page) == [kind |-> "page", page |-> page]
loader(vio) == [kind |-> "vio", vio |-> vio]

isWaiting(z, page) == page \in Range(z.flushWaiters) \/ writer(page) \in Range(z.poolWaiters)

-----------------------------------------------------------------------------
(* Generations and the writing of pages                                    *)

nextGeneration(g) == (g + 1) % Generations

inCyclicRange(lower, value, upper) ==
  (IF value < lower THEN value + Generations ELSE value) <= (IF upper < lower THEN upper + Generations ELSE upper)

isInUse(z, g) == inCyclicRange(z.oldestGeneration, g, z.generation)
isNotOlder(z, a, b) == inCyclicRange(b, a, z.generation)

releaseGeneration(z, g) ==
  LET counts == [z.dirtyPageCounts EXCEPT ![g] = @ - 1]
      skip(oldest, k) == IF counts[oldest] = 0 /\ oldest # z.generation THEN nextGeneration(oldest) ELSE oldest
  IN  [assertThat(z, z.dirtyPageCounts[g] > 0, "dirty page count underflow") EXCEPT
         !.dirtyPageCounts = counts, !.oldestGeneration = FoldLeft(skip, @, times(Generations))]

(* Mutant: a page which moves to a new generation is still counted in its  *)
(* old one.                                                                *)
setGenerationOnly(z, page, g, decrementOld) ==
  IF decrementOld /\ z.page[page].generation = g THEN z
  ELSE [z EXCEPT !.page[page].generation = g, !.dirtyPageCounts[g] = @ + 1]

setGeneration(z, page, g, decrementOld) ==
  LET old == z.page[page].generation
      set == [z EXCEPT !.page[page].generation = g, !.dirtyPageCounts[g] = @ + 1]
  IN  CASE decrementOld /\ old = g -> z
        [] decrementOld -> releaseGeneration(set, old)
        [] OTHER -> set

(* attemptIncrement() fails while the next generation is still in use.     *)
mayIncrement(z) == z.oldestGeneration # nextGeneration(z.generation)
incremented(z) == [z EXCEPT !.generation = nextGeneration(@)]

enqueuePage(z, page) ==
  IF z.flusher = top /\ mayIncrement(z)
  THEN acquireVIOFromPool([incremented(z) EXCEPT !.flusher = page], writer(page))
  ELSE [z EXCEPT !.flushWaiters = Append(@, page)]

treeWrite(page, v, preflush, last) ==
  [kind |-> "write", page |-> page, version |-> v, preflush |-> preflush, last |-> last]

startWriting(z, request) == [z EXCEPT !.disk = issueWrite(@, z.page[request.page].pbn, request.version)]

launchWrite(z, request) == IF request.preflush THEN launch(z, request) ELSE startWriting(launch(z, request), request)

(* writeInitializedPage() writes the copy which was made of the page.      *)
writeInitializedPage(z, page, copy) ==
  launchWrite(z, treeWrite(page, [copy EXCEPT !.initialized = TRUE], z.flusher = page, TRUE))

writePage(z, page) ==
  LET p == z.page[page]
      writing == [z EXCEPT !.page[page].writing = TRUE, !.page[page].writingGeneration = p.generation,
                           !.page[page].writingRecoveryLock = p.recoveryLock, !.page[page].recoveryLock = 0,
                           !.page[page].initialized = TRUE]
      checked == assertThat(z, z.flusher = page \/ (isInUse(z, p.generation) /\ isInUse(z, z.generation)),
                            "generation(s) are out of range")
  IN  CASE z.flusher # page /\ isNotOlder(z, p.generation, z.generation) ->
             returnToPool(call("enqueuePage", checked, page))
        [] p.initialized -> writeInitializedPage(writing, page, version(p))
        [] OTHER -> launchWrite(writing, treeWrite(page, version(p), FALSE, FALSE))

(* writePageIfNotDirtied() for a page which waited for the flusher.        *)
writePageIfNotDirtied(z, page, g) ==
  IF z.page[page].generation = g THEN acquireVIOFromPool(z, writer(page)) ELSE call("enqueuePage", z, page)

giveUpFlusher(z) == [z EXCEPT !.flusher = top]

writeNextFlusher(z) ==
  writePage([incremented(z) EXCEPT !.flusher = Head(z.flushWaiters), !.flushWaiters = Tail(@)], Head(z.flushWaiters))

finishFlusher(z, page, dirty) ==
  CASE dirty -> returnToPool(call("enqueuePage", z, page))
    [] ~dirty /\ z.flusher = top /\ z.flushWaiters # <<>> /\ mayIncrement(z) -> writeNextFlusher(z)
    [] OTHER -> returnToPool(z)

afterFlush(z, page, dirty) ==
  IF dirty /\ mayIncrement(z) THEN call("writePage", incremented(z), page)
  ELSE call("finishFlusher", giveUpFlusher(z), <<page, dirty>>)

finishPageWrite(z, page) ==
  LET p == z.page[page]
      dirty == p.writingGeneration # p.generation
      written == releaseGeneration([z EXCEPT !.page[page].writingRecoveryLock = 0, !.page[page].writing = FALSE],
                                   p.writingGeneration)
      notify == [k \in DOMAIN z.flushWaiters |-> <<z.flushWaiters[k], p.writingGeneration>>]
  IN  IF z.flusher = page
      THEN afterFlush(each("writePageIfNotDirtied", [written EXCEPT !.flushWaiters = <<>>], notify), page, dirty)
      ELSE call("finishFlusher", written, <<page, dirty>>)

(* handleWriteError() leaves the flusher in place.                         *)
handleWriteError(z) == returnToPool(enterZoneReadOnlyMode(z))

(* writeExpiredElements() with writeDirtyPagesCallback().                  *)
expirePage(z, page, g) ==
  LET dirty == setGeneration([assertThat(z, ~isWaiting(z, page), "Newly expired page not already waiting to write")
                                EXCEPT !.dirtyLists = takeOff(@, page)], page, g, FALSE)
  IN  IF z.page[page].writing THEN dirty ELSE call("enqueuePage", dirty, page)

writeDirtyPagesCallback(z) == FoldLeft(LAMBDA y, page : expirePage(y, page, z.generation), z, z.dirtyLists.expired)

-----------------------------------------------------------------------------
(* Lookups.  A lock is on the page which is being loaded or allocated.     *)

wanted(z, vio) == ancestor(z.work[vio].leaf, z.height[vio] - 1)

releasePageLock(z, vio) ==
  LET page == ancestor(z.work[vio].leaf, z.lockHeight[vio])
  IN  [assertThat(z, z.lockHolder[page] = vio, "block map page mismatch") EXCEPT
         !.lockHolder[page] = Nobody, !.waiters[vio] = <<>>]

hasPageLock(z, vio) == vio \in {z.lockHolder[page] : page \in DOMAIN z.lockHolder}

(* finishLookup(): pbn is that of the block map page which was found, if   *)
(* any.  It must be the one which was allocated.                           *)
finishLookup(z, vio, result, pbn) ==
  [assertThat(z, result = "found" => pbn = z.allocated[ancestor(z.work[vio].leaf, 0)],
              "the lookup finds the page which was allocated")
     EXCEPT !.activeLookups = @ - 1, !.result[vio] = result, !.height[vio] = 0]

abortLookupForWaiter(z, vio, result) ==
  CASE result = "noSpace" /\ ~z.work[vio].write -> finishLookup(z, vio, "found", NoBlock)
    [] result = "noSpace" -> finishLookup(z, vio, "noSpace", NoBlock)
    [] OTHER -> finishLookup(z, vio, "failed", NoBlock)

abortLookup(z, vio, result) ==
  LET entered == IF result = "noSpace" THEN z ELSE enterZoneReadOnlyMode(z)
      told == FoldLeft(LAMBDA y, w : abortLookupForWaiter(y, w, result), releasePageLock(entered, vio), z.waiters[vio])
  IN  finishLookup(IF hasPageLock(z, vio) THEN told ELSE entered, vio, result, NoBlock)

(* attemptPageLock() for a page which nobody has locked; the others wait.  *)
lockOrWait(z, vio, locked(_)) ==
  LET page == wanted(z, vio)
      holder == z.lockHolder[page]
  IN  IF holder = Nobody
      THEN locked([z EXCEPT !.lockHolder[page] = vio, !.lockHeight[vio] = page[1]])
      ELSE [z EXCEPT !.waiters[holder] = Append(@, vio)]

loadBlockMapPage(z, vio) == lockOrWait(z, vio, LAMBDA y : acquireVIOFromPool(y, loader(vio)))

(* loadPage() has the VIO it needs.                                        *)
loadPage(z, vio) == launch(z, [kind |-> "read", vio |-> vio])

(* allocateBlockMapPage(): reads and trims do without the page.            *)
allocateBlockMapPage(z, vio) ==
  IF ~z.work[vio].write THEN finishLookup(z, vio, "found", NoBlock)
  ELSE lockOrWait(z, vio, LAMBDA y : [y EXCEPT !.allocating = @ \cup {vio}])

(* The entry leads to a block which is not one for data.                   *)
isInvalidTreeEntry(z, pbn) == pbn # NoBlock /\ pbn \notin DOMAIN z.disk

(* continueWithLoadedPage(), and the end of lookupBlockMapPBN(): the page  *)
(* at the lookup's height is in memory.                                    *)
continueWithLoadedPage(z, vio) ==
  LET pbn == mappingOf(z, wanted(z, vio))
  IN  CASE isInvalidTreeEntry(z, pbn) -> call("abortLookup", z, <<vio, "failed">>)
        [] pbn = NoBlock -> allocateBlockMapPage(z, vio)
        [] pbn \in DOMAIN z.disk /\ z.height[vio] = 1 -> finishLookup(z, vio, "found", pbn)
        [] OTHER -> loadBlockMapPage(z, vio)

isLoaded(z, page) == page = top \/ (page \in treePages /\ z.page[page].pbn # NoBlock)

lookupBlockMapPBN(z, vio) ==
  LET active == [z EXCEPT !.activeLookups = @ + 1, !.result[vio] = "active"]
      leaf == z.work[vio].leaf
      loaded == {h \in 1 .. BlockMapTreeHeight : isLoaded(z, ancestor(leaf, h))}
  IN  IF isDraining(z.admin) THEN finishLookup(active, vio, "failed", NoBlock)
      ELSE call("continueWithLoadedPage", [active EXCEPT !.height[vio] = Min(loaded)], vio)

descend(z, vio) == [z EXCEPT !.height[vio] = @ - 1]

(* finishBlockMapPageLoad(): a page which is not valid on storage is taken *)
(* for a new one.                                                          *)
finishBlockMapPageLoad(z, vio) ==
  LET page == wanted(z, vio)
      pbn == mappingOf(z, page)
      read == contents(z.disk, pbn)
      loaded == [z EXCEPT !.page[page].pbn = pbn, !.page[page].initialized = read.initialized,
                          !.page[page].entries = IF read.initialized THEN read.entries
                                                 ELSE [s \in slots |-> NoBlock]]
      unlocked == releasePageLock(returnVIOToPool(descend(loaded, vio)), vio)
  IN  call("continueWithLoadedPage", each("continueLoadForWaiter", unlocked, z.waiters[vio]), vio)

handleIOError(z, vio) == call("abortLookup", returnVIOToPool(z), <<vio, "failed">>)

(* continueAllocationForWaiter(), and the end of finishBlockMapAllocation()*)
continueAllocation(z, vio, pbn) ==
  IF z.height[vio] = 0 THEN finishLookup(z, vio, "found", pbn) ELSE allocateBlockMapPage(z, vio)

(* updateBlockMapPage(), for the page above the one which was allocated.   *)
updateBlockMapPage(z, vio, page, pbn) ==
  LET parent == parentOf(page)
      old == z.page[parent].recoveryLock
      sequence == z.recoverySequenceNumber[vio]
  IN  [z EXCEPT !.page[parent].entries[slotOf(page)] = pbn, !.recoverySequenceNumber[vio] = 0,
                !.page[parent].recoveryLock = IF old = 0 \/ old > sequence THEN sequence ELSE old,
                !.allocated[page] = pbn]

dirtyPage(z, parent, old) ==
  CASE isWaiting(z, parent) /\ z.flusher # parent -> setGeneration(z, parent, z.generation, TRUE)
    [] isWaiting(z, parent) -> z
    [] OTHER -> writeDirtyPagesCallback([z EXCEPT !.dirtyLists =
                  addToDirtyLists(@, parent, old, z.page[parent].recoveryLock)])

formatInterior(z, page, pbn) ==
  IF page \notin treePages THEN z
  ELSE [z EXCEPT !.page[page].pbn = pbn, !.page[page].initialized = FALSE,
                 !.page[page].entries = [s \in slots |-> NoBlock]]

finishBlockMapAllocation(z, vio) ==
  LET page == wanted(z, vio)
      parent == parentOf(page)
      pbn == z.allocation[vio]
      recorded == dirtyPage(updateBlockMapPage(assertThat(z, z.allocated[page] = NoBlock, "a page is allocated once"),
                                               vio, page, pbn), parent, z.page[parent].recoveryLock)
      unlocked == releasePageLock(formatInterior(descend([recorded EXCEPT !.allocation[vio] = NoBlock], vio),
                                                 page, pbn), vio)
      notify == [k \in DOMAIN z.waiters[vio] |-> <<z.waiters[vio][k], pbn>>]
  IN  call("continueAllocation", each("continueAllocationForWaiter", unlocked, notify), <<vio, pbn>>)

call(f, z, x) ==
  CASE f = "useVIO" -> IF x.kind = "page" THEN writePage(z, x.page) ELSE loadPage(z, x.vio)
    [] f = "enqueuePage" -> enqueuePage(z, x)
    [] f = "writePage" -> writePage(z, x)
    [] f = "writePageIfNotDirtied" -> writePageIfNotDirtied(z, x[1], x[2])
    [] f = "finishFlusher" -> finishFlusher(z, x[1], x[2])
    [] f = "continueWithLoadedPage" -> continueWithLoadedPage(z, x)
    [] f = "continueLoadForWaiter" -> continueWithLoadedPage(descend(z, x), x)
    [] f = "continueAllocation" -> continueAllocation(z, x[1], x[2])
    [] f = "continueAllocationForWaiter" -> continueAllocation(descend(z, x[1]), x[1], x[2])
    [] f = "abortLookup" -> abortLookup(z, x[1], x[2])

-----------------------------------------------------------------------------
(* The rest of the VDO: data VIOs, the block allocator, the journal and    *)
(* the storage                                                             *)

vioNumbers == DOMAIN t.work

(* s has the lookups, the number of VIOs in the pool, the pages which are  *)
(* on storage at first, the blocks which may be allocated, the faults and  *)
(* the drains.                                                             *)
Init ==
  \E s \in TreeSettings :
    LET stored(page) == IF page \in DOMAIN s.stored THEN s.stored[page] ELSE NoBlock
        entriesOf(page) == [k \in slots |-> stored(<<page[1] - 1, page[2] * EntriesPerPage + k>>)]
        initially(pbn) ==
          IF \E page \in treePages : stored(page) = pbn
          THEN [entries |-> entriesOf(CHOOSE page \in treePages : stored(page) = pbn), initialized |-> TRUE]
          ELSE [entries |-> [k \in slots |-> NoBlock], initialized |-> FALSE]
        vios == DOMAIN s.work
    IN
    /\ lookups = [journalBlock |-> 1, era |-> 1, head |-> 1, faults |-> s.faults, drains |-> s.drains,
                  sequence |-> [page \in treePages \cup leafPages |-> 0], nextPBN |-> s.firstFree, lastPBN |-> s.lastFree]
    /\ t = [page |-> [p \in treePages |-> makeTreePage], activeLookups |-> 0, flushWaiters |-> <<>>, flusher |-> top,
            poolSize |-> s.poolSize, available |-> s.poolSize, poolWaiters |-> <<>>,
            generation |-> 0, oldestGeneration |-> 0, dirtyPageCounts |-> [g \in 0 .. Generations - 1 |-> 0],
            dirtyLists |-> makeDirtyLists(1), lockHolder |-> [p \in treePages \cup leafPages |-> Nobody],
            lockHeight |-> [v \in vios |-> 0], waiters |-> [v \in vios |-> <<>>], height |-> [v \in vios |-> 0],
            allocating |-> {}, allocation |-> [v \in vios |-> NoBlock],
            recoverySequenceNumber |-> [v \in vios |-> 0], result |-> [v \in vios |-> "new"], work |-> s.work,
            admin |-> adminState("normal"), readOnly |-> FALSE, io |-> {},
            disk |-> blank(rootPBN .. s.lastFree, initially),
            allocated |-> [p \in treePages \cup leafPages |-> stored(p)],
            journaled |-> DOMAIN s.stored, stable |-> DOMAIN s.stored, asserts |-> {}]

Lookup(vio) ==
  /\ t.result[vio] = "new" /\ ~isQuiescent(t.admin)
  /\ treeRun(lookupBlockMapPBN(t, vio))
  /\ UNCHANGED lookups

(* continueBlockMapPageAllocation() with a block, and the commit of its    *)
(* entry in the recovery journal and then the slab journal.                *)
JournalBlockMapAllocation(vio) ==
  LET page == wanted(t, vio)
  IN  /\ vio \in t.allocating /\ ~t.readOnly
      /\ lookups.nextPBN <= lookups.lastPBN
      /\ lookups' = [lookups EXCEPT !.nextPBN = @ + 1, !.sequence[page] = lookups.journalBlock]
      /\ treeRun([t EXCEPT !.allocating = @ \ {vio}, !.allocation[vio] = lookups.nextPBN,
                           !.recoverySequenceNumber[vio] = lookups.journalBlock, !.journaled = @ \cup {page}])

(* allocationFailure(): there is no block, or the VDO is read-only.        *)
AllocationFailure(vio) ==
  /\ UNCHANGED lookups
  /\ \/ /\ vio \in t.allocating /\ ~t.readOnly
        /\ lookups.nextPBN > lookups.lastPBN
        /\ treeRun(call("abortLookup", [t EXCEPT !.allocating = @ \ {vio}], <<vio, "noSpace">>))
     \/ /\ t.readOnly /\ (vio \in t.allocating \/ t.allocation[vio] # NoBlock)
        /\ treeRun(call("abortLookup", [t EXCEPT !.allocating = @ \ {vio}, !.allocation[vio] = NoBlock],
                        <<vio, "failed">>))

FinishBlockMapAllocation(vio) ==
  /\ t.allocation[vio] # NoBlock
  /\ treeRun(finishBlockMapAllocation(t, vio))
  /\ UNCHANGED lookups

FillJournalBlock ==
  /\ lookups.journalBlock < MaxTreeJournalBlock /\ ~t.readOnly
  /\ \E page \in DOMAIN lookups.sequence : lookups.sequence[page] = lookups.journalBlock
  /\ lookups' = [lookups EXCEPT !.journalBlock = @ + 1]
  /\ UNCHANGED t

(* advanceZoneTreePeriod()                                                 *)
AdvanceEra ==
  /\ lookups.era < lookups.journalBlock /\ t.admin.state = "normal"
  /\ lookups' = [lookups EXCEPT !.era = lookups.journalBlock]
  /\ treeRun(writeDirtyPagesCallback([t EXCEPT !.dirtyLists = updatePeriod(@, lookups.journalBlock)]))

journalLocks ==
  {t.recoverySequenceNumber[vio] : vio \in vioNumbers}
    \cup UNION {{t.page[p].recoveryLock, t.page[p].writingRecoveryLock} : p \in treePages}

ReapJournal ==
  LET reapable == Min((journalLocks \ {0}) \cup {lookups.journalBlock})
  IN  /\ reapable > lookups.head /\ ~t.readOnly
      /\ lookups' = [lookups EXCEPT !.head = reapable]
      /\ treeRun([t EXCEPT !.disk = flushDisk(@), !.stable = t.journaled])

ended(request) == [t EXCEPT !.io = @ \ {request}]

EndRead(request) ==
  /\ request.kind = "read"
  /\ \/ treeRun(finishBlockMapPageLoad(ended(request), request.vio)) /\ UNCHANGED lookups
     \/ /\ lookups.faults > 0
        /\ lookups' = [lookups EXCEPT !.faults = @ - 1]
        /\ treeRun(handleIOError(ended(request), request.vio))

FlushBeforeWrite(request) ==
  /\ request.kind = "write" /\ request.preflush
  /\ LET unflushed == [request EXCEPT !.preflush = FALSE]
     IN  treeRun(startWriting([ended(request) EXCEPT !.io = @ \cup {unflushed}, !.disk = flushDisk(@),
                                                     !.stable = t.journaled], unflushed))
  /\ UNCHANGED lookups

EndWrite(request) ==
  LET written == [ended(request) EXCEPT !.disk = completeWriteTo(@, t.page[request.page].pbn, TRUE)]
  IN  /\ request.kind = "write" /\ ~request.preflush
      /\ \/ /\ treeRun(IF request.last THEN finishPageWrite(written, request.page)
                       ELSE writeInitializedPage(written, request.page, request.version))
            /\ UNCHANGED lookups
         \/ /\ lookups.faults > 0
            /\ lookups' = [lookups EXCEPT !.faults = @ - 1]
            /\ treeRun(handleWriteError(ended(request)))

(* initiateDrain() of a zone whose page cache is quiet.  Data VIOs have    *)
(* finished before.                                                        *)
drainZoneTrees(z) ==
  IF z.admin.state = "suspending" THEN z
  ELSE writeDirtyPagesCallback([z EXCEPT !.dirtyLists = flushDirtyLists(@)])

Drain(operation) ==
  /\ lookups.drains > 0 /\ mayBegin(t.admin, operation) /\ t.activeLookups = 0
  /\ lookups' = [lookups EXCEPT !.drains = @ - 1]
  /\ LET drained == checkForDrainComplete(drainZoneTrees([t EXCEPT !.admin = begin(@, operation, "vdo")]))
     IN  treeRun([drained EXCEPT !.admin = started(@)])

resumeBlockMapZone ==
  /\ isQuiescent(t.admin)
  /\ treeRun([t EXCEPT !.admin = resumeIfQuiescent(@)])
  /\ UNCHANGED lookups

Next ==
  \/ \E vio \in vioNumbers : \/ Lookup(vio) \/ JournalBlockMapAllocation(vio)
                             \/ AllocationFailure(vio) \/ FinishBlockMapAllocation(vio)
  \/ FillJournalBlock
  \/ AdvanceEra
  \/ ReapJournal
  \/ \E request \in t.io : EndRead(request) \/ FlushBeforeWrite(request) \/ EndWrite(request)
  \/ \E operation \in {"suspending", "saving"} : Drain(operation)
  \/ resumeBlockMapZone

Spec == Init /\ [][Next]_vars

-----------------------------------------------------------------------------
(* The types of the zone's state.                                          *)
TypeOK ==
  /\ \A page \in treePages :
       /\ t.page[page].pbn \in DOMAIN t.disk \cup {NoBlock}
       /\ t.page[page].generation \in 0 .. Generations - 1
  /\ t.flusher \in treePages \cup {top}
  /\ t.available \in 0 .. t.poolSize
  /\ t.lockHolder \in [treePages \cup leafPages -> vioNumbers \cup {Nobody}]
  /\ t.result \in [vioNumbers -> {"new", "active", "found", "noSpace", "failed"}]

(* No assertion of blockMapTree.c fails, every lookup finds the page which *)
(* was allocated, and no page is allocated twice.                          *)
NoAssertionFails == t.asserts = {}

(* The entry of an allocation may leave the recovery journal only when     *)
(* every version of the page above it which may survive a crash has it.    *)
ReapedAllocationsAreOnStorage ==
  \A page \in treePages \cup leafPages :
    (t.allocated[page] # NoBlock /\ parentOf(page) # top /\ lookups.sequence[page] \in 1 .. lookups.head - 1) =>
      \A v \in surviving(t.disk[t.page[parentOf(page)].pbn]) :
        v.initialized /\ v.entries[slotOf(page)] = t.allocated[page]

(* No initialized page on storage leads to a page whose allocation a crash *)
(* may undo: a page which has been changed since the flusher's flush waits *)
(* for another one.                                                        *)
AllocationsAreJournaled ==
  \A page \in treePages \cup leafPages :
    (parentOf(page) # top /\ isLoaded(t, parentOf(page))) =>
      \A v \in surviving(t.disk[t.page[parentOf(page)].pbn]) :
        v.initialized /\ v.entries[slotOf(page)] # NoBlock => page \in t.stable

isDirtyIn(page, g) == t.page[page].generation = g /\ isWaiting(t, page)
isWrittenIn(page, g) == t.page[page].writing /\ t.page[page].writingGeneration = g
isDirtiedAgainIn(page, g) ==
  t.page[page].writing /\ t.page[page].generation = g /\ t.page[page].writingGeneration # g

(* dirtyPageCounts has the number of pages of each generation which wait   *)
(* to be written or are being written, none of a generation outside the    *)
(* range in use, and a page being written is of an older generation than   *)
(* the current one, so that a change to it is noticed.                     *)
GenerationsAreCounted ==
  ~t.readOnly =>
    \A g \in 0 .. Generations - 1 :
      /\ t.dirtyPageCounts[g] = Cardinality({p \in treePages : isDirtyIn(p, g)})
                                + Cardinality({p \in treePages : isWrittenIn(p, g)})
                                + Cardinality({p \in treePages : isDirtiedAgainIn(p, g)})
      /\ t.dirtyPageCounts[g] > 0 => isInUse(t, g)
      /\ \A p \in treePages : isWrittenIn(p, g) => g # t.generation

(* A page which holds a lock on the journal will be written.               *)
LockedPagesAreDirty ==
  ~t.readOnly => \A p \in treePages : t.page[p].recoveryLock # 0 =>
    onDirtyList(t.dirtyLists, p) \/ isWaiting(t, p)
      \/ (t.page[p].writing /\ t.page[p].generation # t.page[p].writingGeneration)

(* The write of the flusher failed, and handleWriteError() left it in      *)
(* place: pages which expire later wait for it.                            *)
isFlusherDead == t.readOnly /\ t.flusher # top

(* While neither the storage nor the allocator has to answer, no lookup,   *)
(* no page to be written and no drain waits.  The exception is a flusher   *)
(* whose write failed.                                                     *)
NothingIsStuck ==
  (t.io = {} /\ t.allocating = {} /\ \A vio \in vioNumbers : t.allocation[vio] = NoBlock) =>
    /\ t.activeLookups = 0 /\ t.poolWaiters = <<>>
    /\ t.flushWaiters # <<>> \/ isDraining(t.admin) => isFlusherDead

(* A zone which has been saved has all its allocations on storage, and     *)
(* holds no lock on the journal.                                           *)
SavedZoneIsOnStorage ==
  t.admin.state = "saved" /\ ~t.readOnly =>
    /\ journalLocks \subseteq {0}
    /\ \A page \in treePages :
         t.page[page].pbn # NoBlock /\ (\E s \in slots : t.page[page].entries[s] # NoBlock) =>
           contents(t.disk, t.page[page].pbn) = [entries |-> t.page[page].entries, initialized |-> TRUE]
=============================================================================
