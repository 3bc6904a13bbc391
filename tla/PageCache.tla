------------------------------ MODULE PageCache ------------------------------
(***************************************************************************)
(* The cache of block map leaf pages of one zone (vdo/base/vdoPageCache.c) *)
(* with its callers in blockMap.c and blockMapPage.c.  Data VIOs get pages *)
(* to look up and to change mappings, pages which became dirty too long    *)
(* ago are written, and pages are evicted when the cache is full.  A dirty *)
(* page holds a lock on the recovery journal block of its oldest change    *)
(* until it has been written; it is written after a flush, so that the     *)
(* entries of its changes are in the journal before the changes are on     *)
(* storage.                                                                *)
(*                                                                         *)
(* The cache is one record c, and a function of the source is an operator  *)
(* from such records to records.  Callbacks of page completions run at     *)
(* once, since they are on the cache's thread.  The contents of a page are *)
(* the set of the data VIOs whose mappings it has.                         *)
(***************************************************************************)
EXTENDS Storage, DirtyLists, AdminState

CONSTANTS
  CacheSettings,  \* the caches, the work and the faults to check, see Init
  MaxJournalBlock \* a bound on the recovery journal blocks filled

VARIABLES c, vdo

vars == <<c, vdo>>

NoPage == 0

cacheRun(new) == c' = new

assertThat(z, condition, what) == IF condition THEN z ELSE [z EXCEPT !.asserts = @ \cup {what}]

-----------------------------------------------------------------------------
(* Page states, rings and the page map                                     *)

isValid(info) == info.state \in {"resident", "dirty", "outgoing"}
isPresent(info) == info.state \in {"resident", "dirty"}
isInFlight(info) == info.state \in {"incoming", "outgoing"}

makePageInfo ==
  [state |-> "free", pbn |-> NoPage, busy |-> 0, writeStatus |-> "normal", waiting |-> <<>>,
   mappings |-> {}, initialized |-> FALSE, recoveryLock |-> 0]

(* A page is on at most one of these rings, through its list node.         *)
unsplice(z, p) ==
  [z EXCEPT !.freeList = without(@, p), !.outgoingList = without(@, p), !.dirtyLists = takeOff(@, p)]

updateLru(z, p) == [z EXCEPT !.lruList = Append(without(@, p), p)]

setInfoState(z, p, newState) ==
  LET changed == [z EXCEPT !.info[p].state = newState]
      off == unsplice(changed, p)
  IN  CASE z.info[p].state = newState -> z
        [] newState \in {"free", "failed"} -> [off EXCEPT !.freeList = Append(@, p)]
        [] newState = "outgoing" -> [off EXCEPT !.outgoingList = Append(@, p)]
        [] newState = "dirty" -> changed
        [] OTHER -> off

(* pageMap has the last page to be given a page number, if any.            *)
setInfoPBN(z, p, pbn) ==
  LET old == z.info[p].pbn
      removed == IF old = NoPage THEN z.pageMap ELSE [z.pageMap EXCEPT ![old] = NoPage]
  IN  [assertThat(z, pbn = NoPage \/ old = NoPage, "Must free a page before reusing it.") EXCEPT
         !.info[p].pbn = pbn,
         !.pageMap = IF pbn = NoPage THEN removed ELSE [removed EXCEPT ![pbn] = p]]

resetPageInfo(z, p) ==
  LET reset == setInfoState(setInfoPBN(z, p, NoPage), p, "free")
  IN  [assertThat(reset, z.info[p].busy = 0 /\ z.info[p].waiting = <<>>, "VDO Page must not be busy")
         EXCEPT !.lruList = without(@, p)]

selectLRUPage(z) == SelectSeq(z.lruList, LAMBDA p : z.info[p].busy = 0 /\ ~isInFlight(z.info[p]))

isPageCacheActive(z) == z.outstandingReads # 0 \/ z.outstandingWrites # 0

(* checkForDrainComplete(), of a zone whose trees are quiet.               *)
checkForDrainComplete(z) ==
  IF isDraining(z.admin) /\ ~isPageCacheActive(z) THEN [z EXCEPT !.admin = endOperation(@)] ELSE z

enterReadOnlyMode(z) == [z EXCEPT !.readOnly = TRUE]

launch(z, request) ==
  [assertThat(z, ~isQuiescent(z.admin), "VDO page cache may issue I/O") EXCEPT !.io = @ \cup {request}]

flushRequest(z) == [kind |-> "flush", covers |-> z.journaled]
pageWrite(p, preflush) == [kind |-> "write", page |-> p, preflush |-> preflush]
pageRead(p) == [kind |-> "read", page |-> p]

(* The page as a version on storage.                                       *)
version(info) == [mappings |-> info.mappings, initialized |-> info.initialized]

startWriting(z, p) == [z EXCEPT !.disk = issueWrite(@, z.info[p].pbn, version(z.info[p]))]

-----------------------------------------------------------------------------
(* Functions which call each other go through this operator.               *)
RECURSIVE call(_, _, _)

(* Work for each member of a queue which was emptied first.                *)
each(f, z, queue) == FoldLeft(LAMBDA y, x : call(f, y, x), z, queue)

finish(z, vio, result) == [z EXCEPT !.result[vio] = result]

distributeErrorOverQueue(z, queue) == FoldLeft(LAMBDA y, vio : finish(y, vio, "failed"), z, queue)

takeWaiting(z, p) == [z EXCEPT !.info[p].waiting = <<>>]

distributePageOverQueue(z, p, queue) ==
  each("completeWithPage", [updateLru(takeWaiting(z, p), p) EXCEPT !.info[p].busy = @ + Len(queue)],
       [k \in DOMAIN queue |-> <<p, queue[k]>>])

setPersistentError(z) ==
  LET failed == distributeErrorOverQueue([enterReadOnlyMode(z) EXCEPT !.freeWaiters = <<>>, !.waiterCount = 0],
                                         z.freeWaiters)
  IN  FoldLeft(LAMBDA y, p : distributeErrorOverQueue(takeWaiting(y, p), y.info[p].waiting), failed,
               times(Len(z.info)))

discardPageIfNeeded(z) == IF z.waiterCount > z.discardCount THEN call("discardAPage", z, 0) ELSE z

(* releaseVDOPageCompletion() of a completion which succeeded.             *)
releaseVDOPageCompletion(z, p) ==
  LET freed == [z EXCEPT !.info[p].busy = @ - 1]
  IN  IF freed.info[p].busy # 0 THEN freed
      ELSE IF freed.info[p].writeStatus = "deferred"
      THEN discardPageIfNeeded(call("launchPageSave", [freed EXCEPT !.info[p].writeStatus = "normal"], p))
      ELSE discardPageIfNeeded(freed)

schedulePageSave(z, p) ==
  IF z.info[p].busy > 0 THEN [z EXCEPT !.info[p].writeStatus = "deferred"]
  ELSE setInfoState([z EXCEPT !.pagesToFlush = @ + 1, !.outstandingWrites = @ + 1], p, "outgoing")

(* writeExpiredElements() with writeDirtyPagesCallback(), of a cache whose *)
(* dirty lists have new expired pages.                                     *)
writeDirtyPagesCallback(z) ==
  IF z.dirtyLists.expired = <<>> THEN z
  ELSE call("savePages", FoldLeft(LAMBDA y, p : schedulePageSave(unsplice(y, p), p), z, z.dirtyLists.expired), 0)

(* updateBlockMapPage() and markCompletedVDOPageDirty(): the page's lock   *)
(* moves to an older journal block, and the data VIO gives up its own.     *)
updateBlockMapPage(z, p, vio) ==
  LET old == z.info[p].recoveryLock
      sequence == z.recoverySequenceNumber[vio]
      new == IF old = 0 \/ old > sequence THEN sequence ELSE old
      updated == [z EXCEPT !.info[p].mappings = @ \cup {vio}, !.info[p].recoveryLock = new,
                           !.recoverySequenceNumber[vio] = 0, !.mapped[z.info[p].pbn] = @ \cup {vio}]
      dirty == setInfoState(updated, p, "dirty")
  IN  writeDirtyPagesCallback([dirty EXCEPT !.dirtyLists = addToDirtyLists(@, p, old, new)])

(* getMappingFromFetchedPage(): the mappings must be those which were put. *)
getMapping(z, p) ==
  assertThat(z, z.info[p].mappings = z.mapped[z.info[p].pbn], "the mapping read is the one last written")

completeWithPage(z, p, vio) ==
  LET writable == z.work[vio].writable
      available == IF writable THEN isPresent(z.info[p]) ELSE isValid(z.info[p])
      used == IF writable THEN updateBlockMapPage(z, p, vio) ELSE getMapping(z, p)
  IN  IF available THEN finish(releaseVDOPageCompletion(used, p), vio, "done")
      ELSE finish(assertThat(z, FALSE, "Requested cache page is not valid"), vio, "failed")

launchPageLoad(z, p, pbn) ==
  LET assigned == setInfoState(setInfoPBN(z, p, pbn), p, "incoming")
  IN  launch(assertThat([assigned EXCEPT !.outstandingReads = @ + 1], z.info[p].busy = 0,
                        "Page is not busy before loading."), pageRead(p))

allocateFreePage(z, p) ==
  LET pbn == z.work[Head(z.freeWaiters)].pbn
      matching == SelectSeq(z.freeWaiters, LAMBDA vio : z.work[vio].pbn = pbn)
      moved == [resetPageInfo(z, p) EXCEPT
                  !.freeWaiters = SelectSeq(@, LAMBDA vio : z.work[vio].pbn # pbn),
                  !.info[p].waiting = matching, !.waiterCount = @ - Len(matching)]
  IN  IF z.freeWaiters = <<>> THEN z ELSE launchPageLoad(moved, p, pbn)

discardAPage(z) ==
  LET unused == selectLRUPage(z)
      p == Head(unused)
  IN  IF unused = <<>> THEN z
      ELSE IF z.info[p].state # "dirty" THEN allocateFreePage(z, p)
      ELSE call("launchPageSave", [z EXCEPT !.discardCount = @ + 1, !.info[p].writeStatus = "discard"], p)

(* Mutant: the pages are written without the flush.                        *)
savePagesUnflushed(z) ==
  IF z.pagesInFlush > 0 \/ z.pagesToFlush = 0 THEN z
  ELSE call("writePages", [z EXCEPT !.pagesInFlush = z.pagesToFlush, !.pagesToFlush = 0], 0)

(* savePages(): without the synchronous write policy, a flush first makes  *)
(* the journal entries of the pages' changes stable.                       *)
savePages(z) ==
  LET inFlush == [z EXCEPT !.pagesInFlush = z.pagesToFlush, !.pagesToFlush = 0]
  IN  CASE z.pagesInFlush > 0 \/ z.pagesToFlush = 0 -> z
        [] z.policy = "sync" -> call("writePages", inFlush, 0)
        [] OTHER -> launch(inFlush, flushRequest(z))

handlePageWriteError(z, p) ==
  LET failed == setPersistentError(setInfoState(z, p, "dirty"))
      wasDiscard == failed.info[p].writeStatus = "discard"
      finished == [failed EXCEPT !.outstandingWrites = @ - 1, !.info[p].writeStatus = "normal"]
  IN  checkForDrainComplete(IF wasDiscard THEN finished ELSE discardPageIfNeeded(finished))

writeOutgoingPage(z) ==
  LET p == Head(z.outgoingList)
      chopped == unsplice(z, p)
  IN  IF z.readOnly THEN call("handlePageWriteError", chopped, p)
      ELSE startWriting(launch(chopped, pageWrite(p, FALSE)), p)

writePages(z) ==
  LET written == FoldLeft(LAMBDA y, k : writeOutgoingPage(y), [z EXCEPT !.pagesInFlush = 0], times(z.pagesInFlush))
  IN  IF z.pagesToFlush > 0 THEN call("savePages", written, 0) ELSE written

call(f, z, x) ==
  CASE f = "completeWithPage" -> completeWithPage(z, x[1], x[2])
    [] f = "discardAPage" -> discardAPage(z)
    [] f = "launchPageSave" -> savePages(schedulePageSave(z, x))
    [] f = "savePages" -> savePages(z)
    [] f = "writePages" -> writePages(z)
    [] f = "handlePageWriteError" -> handlePageWriteError(z, x)

-----------------------------------------------------------------------------
(* Getting a page                                                          *)

enqueueForPage(z, p, vio) == [z EXCEPT !.info[p].waiting = Append(@, vio)]

(* getVDOPageAsync(), after setupMappedBlock() found the zone not draining *)
getVDOPageAsync(z, vio) ==
  LET request == z.work[vio]
      p == z.pageMap[request.pbn]
      info == z.info[p]
      free == Head(z.freeList)
      asked == [z EXCEPT !.result[vio] = "waiting"]
  IN  CASE request.writable /\ z.readOnly -> finish(z, vio, "failed")
        [] p # NoPage /\ (info.writeStatus = "deferred" \/ info.state = "incoming"
                          \/ (info.state = "outgoing" /\ request.writable)) -> enqueueForPage(asked, p, vio)
        [] p # NoPage /\ isValid(info) ->
             call("completeWithPage", [updateLru(asked, p) EXCEPT !.info[p].busy = @ + 1], <<p, vio>>)
        [] z.freeList # <<>> -> launchPageLoad(enqueueForPage(unsplice(asked, free), free, vio), free, request.pbn)
        [] OTHER -> call("discardAPage", [asked EXCEPT !.waiterCount = @ + 1, !.freeWaiters = Append(@, vio)], 0)

-----------------------------------------------------------------------------
(* The ends of the cache's I/O                                             *)

(* runReadHook() and pageIsLoaded(): a page which was never initialized is *)
(* taken for an empty one.                                                 *)
pageIsLoaded(z, p) ==
  LET read == contents(z.disk, z.info[p].pbn)
      loaded == [z EXCEPT !.info[p].initialized = read.initialized, !.info[p].recoveryLock = 0,
                          !.info[p].mappings = IF read.initialized THEN read.mappings ELSE {}]
      resident == setInfoState(loaded, p, "resident")
  IN  checkForDrainComplete([distributePageOverQueue(resident, p, z.info[p].waiting)
                               EXCEPT !.outstandingReads = @ - 1])

handleLoadError(z, p) ==
  LET failed == setInfoState(enterReadOnlyMode(z), p, "failed")
      told == distributeErrorOverQueue(takeWaiting(failed, p), z.info[p].waiting)
  IN  checkForDrainComplete([resetPageInfo(told, p) EXCEPT !.outstandingReads = @ - 1])

(* Mutant: a page which was used again after its discard began finds no    *)
(* other page for the waiters.                                             *)
pageIsWrittenOutForItself(z, p) ==
  LET wasDiscard == z.info[p].writeStatus = "discard"
      reclaimed == ~wasDiscard \/ z.info[p].busy > 0 \/ z.info[p].waiting # <<>>
      written == [z EXCEPT !.info[p].recoveryLock = 0, !.info[p].writeStatus = "normal",
                           !.outstandingWrites = @ - 1, !.discardCount = IF wasDiscard THEN @ - 1 ELSE @]
      shared == distributePageOverQueue(setInfoState(written, p, "resident"), p, z.info[p].waiting)
  IN  IF ~z.info[p].initialized
      THEN launch([z EXCEPT !.info[p].initialized = TRUE], pageWrite(p, TRUE))
      ELSE checkForDrainComplete(IF reclaimed THEN shared ELSE allocateFreePage(shared, p))

(* pageIsWrittenOut(): handlePageWrite() has a new page written again, as  *)
(* an initialized one, and releases the lock of any other.                 *)
pageIsWrittenOut(z, p) ==
  LET wasDiscard == z.info[p].writeStatus = "discard"
      reclaimed == ~wasDiscard \/ z.info[p].busy > 0 \/ z.info[p].waiting # <<>>
      written == [z EXCEPT !.info[p].recoveryLock = 0, !.info[p].writeStatus = "normal",
                           !.outstandingWrites = @ - 1]
      shared == distributePageOverQueue(setInfoState(written, p, "resident"), p, z.info[p].waiting)
      counted == IF wasDiscard THEN [shared EXCEPT !.discardCount = @ - 1] ELSE shared
  IN  IF ~z.info[p].initialized
      THEN launch([z EXCEPT !.info[p].initialized = TRUE], pageWrite(p, TRUE))
      ELSE checkForDrainComplete(IF reclaimed THEN discardPageIfNeeded(counted) ELSE allocateFreePage(counted, p))

-----------------------------------------------------------------------------
(* The rest of the VDO: data VIOs, the recovery journal, and the storage.  *)

vioNumbers == DOMAIN c.work

(* s has the requests of the data VIOs, the number of pages in the cache,  *)
(* the write policy, whether I/O may fail and how often the VDO suspends.  *)
Init ==
  \E s \in CacheSettings :
    /\ vdo = [journalBlock |-> 1, era |-> 1, head |-> 1, sequence |-> [v \in DOMAIN s.work |-> 0],
              faults |-> s.faults, drains |-> s.drains]
    /\ c = [info |-> [p \in 1 .. s.pages |-> makePageInfo], pageMap |-> [pbn \in s.pbns |-> NoPage],
            freeList |-> times(s.pages), outgoingList |-> <<>>, lruList |-> <<>>,
            dirtyLists |-> makeDirtyLists(1), outstandingReads |-> 0, outstandingWrites |-> 0,
            pagesInFlush |-> 0, pagesToFlush |-> 0, discardCount |-> 0, waiterCount |-> 0, freeWaiters |-> <<>>,
            admin |-> adminState("normal"), readOnly |-> FALSE, io |-> {}, policy |-> s.policy,
            disk |-> blank(s.pbns, LAMBDA l : [mappings |-> {}, initialized |-> FALSE]),
            journaled |-> {}, stable |-> {}, mapped |-> [pbn \in s.pbns |-> {}],
            work |-> s.work, result |-> [v \in DOMAIN s.work |-> "new"],
            recoverySequenceNumber |-> [v \in DOMAIN s.work |-> 0], asserts |-> {}]

(* The journal commits the entry of a data VIO which changes a mapping.    *)
JournalEntry(vio) ==
  /\ c.work[vio].writable /\ c.result[vio] = "new" /\ vio \notin c.journaled
  /\ ~c.readOnly /\ c.admin.state = "normal"
  /\ vdo' = [vdo EXCEPT !.sequence[vio] = vdo.journalBlock]
  /\ cacheRun([c EXCEPT !.recoverySequenceNumber[vio] = vdo.journalBlock, !.journaled = @ \cup {vio},
                        !.stable = IF c.policy = "sync" THEN @ \cup {vio} ELSE @])

(* getMappedBlockAsync() or putMappedBlockAsync().                         *)
MapBlock(vio) ==
  /\ c.result[vio] = "new"
  /\ c.work[vio].writable => vio \in c.journaled
  /\ ~isQuiescent(c.admin)
  /\ cacheRun(IF isDraining(c.admin) THEN finish(c, vio, "failed") ELSE getVDOPageAsync(c, vio))
  /\ UNCHANGED vdo

FillJournalBlock ==
  /\ vdo.journalBlock < MaxJournalBlock /\ ~c.readOnly
  /\ \E vio \in vioNumbers : vdo.sequence[vio] = vdo.journalBlock
  /\ vdo' = [vdo EXCEPT !.journalBlock = @ + 1]
  /\ UNCHANGED c

(* advanceVDOPageCachePeriod(): the block map follows the journal.         *)
AdvanceEra ==
  /\ vdo.era < vdo.journalBlock /\ c.admin.state = "normal"
  /\ vdo' = [vdo EXCEPT !.era = vdo.journalBlock]
  /\ cacheRun(writeDirtyPagesCallback([c EXCEPT !.dirtyLists = updatePeriod(@, vdo.journalBlock)]))

(* The blocks which a page or a data VIO still needs.                      *)
journalLocks ==
  {c.recoverySequenceNumber[vio] : vio \in vioNumbers} \cup {c.info[p].recoveryLock : p \in DOMAIN c.info}

(* The journal reaps the blocks nobody has a lock on, after a flush.       *)
ReapJournal ==
  LET reapable == Min((journalLocks \ {0}) \cup {vdo.journalBlock})
  IN  /\ reapable > vdo.head /\ ~c.readOnly
      /\ vdo' = [vdo EXCEPT !.head = reapable]
      /\ cacheRun([c EXCEPT !.disk = flushDisk(@), !.stable = c.journaled])

ended(request) == [c EXCEPT !.io = @ \ {request}]

EndRead(request) ==
  /\ request.kind = "read"
  /\ \/ cacheRun(pageIsLoaded(ended(request), request.page)) /\ UNCHANGED vdo
     \/ /\ vdo.faults > 0
        /\ vdo' = [vdo EXCEPT !.faults = @ - 1]
        /\ cacheRun(handleLoadError(ended(request), request.page))

(* A write which flushes first reaches the storage only then.              *)
FlushBeforeWrite(request) ==
  /\ request.kind = "write" /\ request.preflush
  /\ cacheRun(startWriting([ended(request) EXCEPT !.io = @ \cup {pageWrite(request.page, FALSE)},
                                           !.disk = flushDisk(@), !.stable = c.journaled], request.page))
  /\ UNCHANGED vdo

EndWrite(request) ==
  /\ request.kind = "write" /\ ~request.preflush
  /\ \/ /\ cacheRun(pageIsWrittenOut(
                      [ended(request) EXCEPT !.disk = completeWriteTo(@, c.info[request.page].pbn,
                                                                      c.policy # "sync")],
                      request.page))
        /\ UNCHANGED vdo
     \/ /\ vdo.faults > 0
        /\ vdo' = [vdo EXCEPT !.faults = @ - 1]
        /\ cacheRun(call("handlePageWriteError", ended(request), request.page))

(* writePages() or handleFlushError().                                     *)
EndFlush(request) ==
  /\ request.kind = "flush"
  /\ \/ /\ cacheRun(call("writePages", [ended(request) EXCEPT !.disk = flushDisk(@),
                                                              !.stable = @ \cup request.covers], 0))
        /\ UNCHANGED vdo
     \/ /\ vdo.faults > 0
        /\ vdo' = [vdo EXCEPT !.faults = @ - 1]
        /\ cacheRun(call("writePages", setPersistentError(ended(request)), 0))

EnterReadOnlyMode ==
  /\ vdo.faults > 0 /\ ~c.readOnly
  /\ vdo' = [vdo EXCEPT !.faults = @ - 1]
  /\ cacheRun(enterReadOnlyMode(c))

drainVDOPageCache(z) ==
  IF z.admin.state = "suspending" THEN z
  ELSE call("savePages", writeDirtyPagesCallback([z EXCEPT !.dirtyLists = flushDirtyLists(@)]), 0)

(* drainZone(): data VIOs have finished before the block map drains.       *)
Drain(operation) ==
  /\ vdo.drains > 0 /\ mayBegin(c.admin, operation)
  /\ \A vio \in vioNumbers : c.result[vio] # "waiting" /\ (vio \in c.journaled => c.result[vio] # "new")
  /\ vdo' = [vdo EXCEPT !.drains = @ - 1]
  /\ LET drained == checkForDrainComplete(drainVDOPageCache([c EXCEPT !.admin = begin(@, operation, "vdo")]))
     IN  cacheRun([drained EXCEPT !.admin = started(@)])

resumeBlockMapZone ==
  /\ isQuiescent(c.admin)
  /\ cacheRun([c EXCEPT !.admin = resumeIfQuiescent(@)])
  /\ UNCHANGED vdo

Next ==
  \/ \E vio \in vioNumbers : JournalEntry(vio) \/ MapBlock(vio)
  \/ FillJournalBlock
  \/ AdvanceEra
  \/ ReapJournal
  \/ \E request \in c.io :
       EndRead(request) \/ FlushBeforeWrite(request) \/ EndWrite(request) \/ EndFlush(request)
  \/ EnterReadOnlyMode
  \/ \E operation \in {"suspending", "saving"} : Drain(operation)
  \/ resumeBlockMapZone

Spec == Init /\ [][Next]_vars

-----------------------------------------------------------------------------
pageNumbers == DOMAIN c.info
blockNumbers == DOMAIN c.mapped
VIOResults == {"new", "waiting", "done", "failed"}

(* The types of the cache's state.                                         *)
TypeOK ==
  /\ \A p \in pageNumbers :
       /\ c.info[p].state \in {"free", "incoming", "failed", "resident", "dirty", "outgoing"}
       /\ c.info[p].pbn \in blockNumbers \cup {NoPage}
       /\ c.info[p].busy \in Nat /\ c.info[p].recoveryLock \in Nat
       /\ c.info[p].mappings \subseteq vioNumbers
  /\ c.pageMap \in [blockNumbers -> pageNumbers \cup {NoPage}]
  /\ c.result \in [vioNumbers -> VIOResults]
  /\ {c.outstandingReads, c.outstandingWrites, c.pagesInFlush, c.pagesToFlush, c.discardCount,
       c.waiterCount} \subseteq Nat

(* Neither does an assertion of vdoPageCache.c fail, nor is a data VIO     *)
(* given a page without every mapping put there before it, whether the     *)
(* page stayed in the cache or was evicted and read again.                 *)
NoAssertionFails == c.asserts = {}

(* The entry of a change may leave the recovery journal only when every    *)
(* version of the page which may survive a crash has the change: the lock  *)
(* updateBlockMapPage() moves and handlePageWrite() releases covers it     *)
(* until then, also when changes reach a page out of the journal's order.  *)
ReapedChangesAreOnStorage ==
  \A pbn \in blockNumbers : \A vio \in c.mapped[pbn] :
    vdo.sequence[vio] < vdo.head =>
      \A v \in surviving(c.disk[pbn]) : v.initialized /\ vio \in v.mappings

(* No initialized page on storage has a change whose journal entry a crash *)
(* may lose: that is what the flush of savePages() is for, and the first   *)
(* write of a new page as an uninitialized one.                            *)
ChangesAreJournaled ==
  \A pbn \in blockNumbers : \A v \in surviving(c.disk[pbn]) : v.initialized => v.mappings \subseteq c.stable

count(S(_)) == Cardinality({p \in pageNumbers : S(c.info[p])})

(* What the functions of the cache rely on between callbacks: its counts   *)
(* are those of the pages' states, a page is in the page map exactly while *)
(* it has a number and on the LRU list while it has contents, and a dirty  *)
(* page is on a dirty list, so that it will be written.                    *)
CacheIsConsistent ==
  /\ c.waiterCount = Len(c.freeWaiters)
  /\ c.outstandingReads = count(LAMBDA i : i.state = "incoming")
  /\ c.outstandingWrites = count(LAMBDA i : i.state = "outgoing")
  /\ c.pagesInFlush + c.pagesToFlush = Len(c.outgoingList)
  /\ \A p \in pageNumbers :
       /\ c.info[p].busy = 0 /\ c.info[p].writeStatus # "deferred"
       /\ isValid(c.info[p]) => p \in Range(c.lruList)
       /\ p \in Range(c.freeList) <=> c.info[p].state = "free"
       /\ c.info[p].waiting # <<>> => isInFlight(c.info[p])
       /\ ~c.readOnly =>
            /\ c.info[p].pbn # NoPage => c.pageMap[c.info[p].pbn] = p
            /\ onDirtyList(c.dirtyLists, p) <=> c.info[p].state = "dirty"
            /\ c.info[p].recoveryLock # 0 <=> c.info[p].state = "dirty" \/ (c.info[p].state = "outgoing")
  /\ ~c.readOnly => c.discardCount = count(LAMBDA i : i.writeStatus = "discard")

(* A page could not be read, and handleLoadError() freed its place without *)
(* giving it to those who wait for one.                                    *)
isLeftWaiting(vio) == vio \in Range(c.freeWaiters) /\ c.freeList # <<>> /\ c.readOnly

(* While nobody waits for the storage, no data VIO waits for the cache and *)
(* no drain waits to finish: a page which becomes free serves a waiter,    *)
(* and the end of the last write ends a drain.  The exception is the one   *)
(* after a read error.                                                     *)
NothingIsStuck ==
  c.io = {} => /\ ~isDraining(c.admin)
               /\ \A vio \in vioNumbers : c.result[vio] = "waiting" => isLeftWaiting(vio)

(* A block map zone which has been saved has every mapping on storage and  *)
(* holds no lock on the journal.                                           *)
SavedZoneIsOnStorage ==
  c.admin.state = "saved" /\ ~c.readOnly =>
    /\ journalLocks \subseteq {0}
    /\ \A pbn \in blockNumbers :
         c.mapped[pbn] # {} => contents(c.disk, pbn) = [mappings |-> c.mapped[pbn], initialized |-> TRUE]
=============================================================================
