------------------------------- MODULE Volume -------------------------------
(***************************************************************************)
(* The volume of the deduplication index while requests are served         *)
(* (uds/volume.c, pageCache.c and indexPageMap.c): the zones look for      *)
(* records in the pages of closed chapters, through a cache of pages which *)
(* they read without a lock; reader threads fill the cache from a queue of *)
(* reads; the chapter writer overwrites the oldest chapter and donates its *)
(* index pages to the cache; and the last zone to open a chapter forgets   *)
(* the pages of the chapter which will be overwritten next.                *)
(*                                                                         *)
(* The data of a page is the virtual chapter it belongs to and, for index  *)
(* pages, its delta lists.  Every chapter holds a record of every name.    *)
(* cp_lastUsed is kept as the rank of the page, and an InvalidateCounter   *)
(* as the page searched: a thread which waits for searches keeps the set   *)
(* of zones whose counter has not changed.  Synchronous reads are those of *)
(* a rebuild, before there are requests, and are not modelled.             *)
(***************************************************************************)
EXTENDS Integers, Sequences, FiniteSets, FiniteSetsExt, Functions

CONSTANTS
  Chapters,       \* chapters per volume
  IndexPages,     \* index pages per chapter; there is one record page
  Lists,          \* delta lists per chapter
  Packed,         \* Packed[i], the last list on each index page but the last, of every i-th chapter
  CacheEntries,
  QueueSize,
  ZoneCount,
  ReaderCount,
  RequestList,    \* of each request, the delta list of its name
  LastChapter,    \* bound on the chapters opened
  MaxErrors       \* bound on the reads which fail

VARIABLE vl

Zones == 0 .. ZoneCount - 1
Readers == 1 .. ReaderCount
Requests == DOMAIN RequestList
pagesPerChapter == IndexPages + 1
Pages == 1 .. Chapters * pagesPerChapter
nobody == <<"nobody", 0>>

-----------------------------------------------------------------------------
(* Geometry and the index page map                                         *)

mapToPhysicalChapter(virtual) == virtual % Chapters
mapToPhysicalPage(chapter, page) == 1 + pagesPerChapter * chapter + page
mapToPageNumber(physicalPage) == (physicalPage - 1) % pagesPerChapter
mapToChapterNumber(physicalPage) == (physicalPage - 1) \div pagesPerChapter
isRecordPage(physicalPage) == mapToPageNumber(physicalPage) >= IndexPages

(* packOpenChapterIndexPage(): the last list of an index page of a chapter.*)
lastPacked(virtual, page) ==
  IF page = IndexPages - 1 THEN Lists - 1 ELSE Packed[1 + (virtual % Len(Packed))][page + 1]

updateIndexPageMap(v, virtual, page) ==
  IF page = IndexPages - 1 THEN v
  ELSE [v EXCEPT !.map[mapToPhysicalChapter(virtual) * (IndexPages - 1) + page] = lastPacked(virtual, page)]

findIndexPageNumber(v, list, chapter) ==
  LET slot == chapter * (IndexPages - 1)
      fits == {i \in 0 .. IndexPages - 2 : list <= v.map[slot + i]}
  IN  IF fits = {} THEN IndexPages - 1 ELSE Min(fits)

getListNumberBounds(v, chapter, page) ==
  LET slot == chapter * (IndexPages - 1)
  IN  <<IF page = 0 THEN 0 ELSE v.map[slot + page - 1] + 1,
        IF page = IndexPages - 1 THEN Lists - 1 ELSE v.map[slot + page]>>

(* The contents of a page as the chapter writer makes it.                  *)
pageData(virtual, page) ==
  [virtual |-> virtual,
   bounds |-> IF page >= IndexPages THEN <<0, Lists - 1>>
              ELSE <<IF page = 0 THEN 0 ELSE lastPacked(virtual, page - 1) + 1, lastPacked(virtual, page)>>]

(* initChapterIndexPage(): is the page what the index page map says?       *)
initChapterIndexPage(v, physicalPage, data) ==
  /\ mapToPhysicalChapter(data.virtual) = mapToChapterNumber(physicalPage)
  /\ data.bounds = getListNumberBounds(v, mapToChapterNumber(physicalPage), mapToPageNumber(physicalPage))

-----------------------------------------------------------------------------
(* The page cache                                                          *)

noPage == 0
invalidEntry == CacheEntries
queuedFlag == CacheEntries + 1   \* added to a place in the queue
isQueued(value) == value >= queuedFlag

(* getPageNoStats(): the entry of the cache which has the page, or -1.     *)
getPageFromCache(v, page) == IF v.index[page] < CacheEntries THEN v.index[page] ELSE -1

clearPage(v, entry) == [v EXCEPT !.cache[entry].page = noPage, !.cache[entry].lastUsed = 0]

(* The ranks of the pages, without gaps.                                   *)
compressed(cache) ==
  LET used == {cache[c].lastUsed : c \in DOMAIN cache} \ {0}
  IN  [c \in DOMAIN cache |-> [cache[c] EXCEPT !.lastUsed = Cardinality({u \in used : u <= cache[c].lastUsed})]]

makePageMostRecent(v, entry) ==
  [v EXCEPT !.cache = compressed([@ EXCEPT ![entry].lastUsed = CacheEntries + 1])]

getLeastRecentPage(v) ==
  LET candidates == {c \in DOMAIN v.cache : ~v.cache[c].readPending}
      oldest == Min({v.cache[c].lastUsed : c \in candidates})
  IN  Max({c \in candidates : v.cache[c].lastUsed = oldest})

(* A mutant: nobody is waited for.                                         *)
waitForNoSearches(v, page) == {}

(* waitForPendingSearches(): the zones to wait for.                        *)
waitForPendingSearches(v, page) == {z \in Zones : v.searching[z] = page}

(* A zone's counter changes, which those who wait for it see.              *)
setInvalidateCounter(v, zone, page) ==
  LET seen(threads) == [t \in DOMAIN threads |-> [threads[t] EXCEPT !.wait = @ \ {zone}]]
  IN  [v EXCEPT !.searching[zone] = page, !.zones = seen(@), !.readers = seen(@),
                !.writer.wait = @ \ {zone}]

beginPendingSearch(v, page, zone) ==
  [setInvalidateCounter(v, zone, page) EXCEPT
     !.asserts = @ \cup (IF v.searching[zone] # noPage THEN {"search is not pending"} ELSE {})]
endPendingSearch(v, zone) ==
  [setInvalidateCounter(v, zone, noPage) EXCEPT
     !.asserts = @ \cup (IF v.searching[zone] = noPage THEN {"search is pending"} ELSE {})]

(* selectVictimInCache(), up to its wait for the searches of the page.     *)
selectVictimInCache(v, entry) ==
  LET page == v.cache[entry].page
  IN  [v EXCEPT !.cache[entry].readPending = TRUE,
                !.index = IF page = noPage THEN @ ELSE [@ EXCEPT ![page] = invalidEntry]]
victimWait(v, entry) ==
  IF v.cache[entry].page = noPage THEN {} ELSE waitForPendingSearches(v, v.cache[entry].page)

putPageInCache(v, page, entry) ==
  LET filled == [clearPage(v, entry) EXCEPT !.cache[entry].page = page]
  IN  [makePageMostRecent(filled, entry) EXCEPT
         !.cache[entry].readPending = FALSE, !.index[page] = entry,
         !.asserts = @ \cup (IF v.cache[entry].readPending THEN {} ELSE {"pending read"})]

cancelPageInCache(v, page, entry) ==
  IF ~v.cache[entry].readPending THEN [v EXCEPT !.asserts = @ \cup {"pending read"}]
  ELSE [clearPage(v, entry) EXCEPT !.cache[entry].readPending = FALSE, !.index[page] = invalidEntry]

(* findInvalidateAndMakeLeastRecent(), up to its wait.                     *)
findInvalidateAndMakeLeastRecent(v, page) ==
  LET entry == v.index[page]
  IN  IF isQueued(entry) THEN [v EXCEPT !.queue[entry - queuedFlag].invalid = TRUE]
      ELSE IF entry = invalidEntry THEN v
      ELSE [v EXCEPT !.index[page] = invalidEntry,
                     !.asserts = @ \cup (IF v.cache[entry].page = page THEN {} ELSE {"page is in cache"})]

-----------------------------------------------------------------------------
(* The queue of reads                                                      *)

next(place) == (place + 1) % QueueSize
readQueueIsFull(v) == v.first = next(v.last)

(* enqueueRead(), when there is room or the page is already queued.  A     *)
(* cached page is hidden by the read: `hidden' notes that it happened.     *)
mayEnqueue(v, page) == isQueued(v.index[page]) \/ ~readQueueIsFull(v)
enqueueRead(v, request, page) ==
  IF isQueued(v.index[page])
  THEN [v EXCEPT !.queue[v.index[page] - queuedFlag].requests = Append(@, request)]
  ELSE [v EXCEPT !.queue[v.last] = [page |-> page, invalid |-> FALSE, reserved |-> FALSE, requests |-> <<request>>],
                 !.index[page] = queuedFlag + v.last, !.last = next(v.last),
                 !.hidden = @ \/ v.index[page] < CacheEntries]

reserveReadQueueEntry(v) ==
  LET page == v.queue[v.lastRead].page
  IN  [v EXCEPT !.queue[v.lastRead].reserved = TRUE, !.lastRead = next(@),
                !.index[page] = IF v.queue[v.lastRead].invalid /\ isQueued(@) THEN invalidEntry ELSE @]

(* A reservation is invalid also if another thread took the page.          *)
isInvalid(v, place) == v.queue[place].invalid \/ ~isQueued(v.index[v.queue[place].page])

emptyPlace == [page |-> noPage, invalid |-> FALSE, reserved |-> FALSE, requests |-> <<>>]

RECURSIVE advanceFirst(_)
advanceFirst(v) ==
  IF v.first # v.lastRead /\ ~v.queue[v.first].reserved
  THEN advanceFirst([v EXCEPT !.first = next(@)]) ELSE v

(* What was in the place is not looked at again.                           *)
releaseReadQueueEntry(v, place) == advanceFirst([v EXCEPT !.queue[place] = emptyPlace])

-----------------------------------------------------------------------------
(* The threads                                                             *)

(* The chapters which a zone may look for on the volume: neither its open  *)
(* chapter, nor the one before, which it has in memory, nor an expired one.*)
searchable(v, zone) == v.zones[zone].newest - Chapters + 1 .. v.zones[zone].newest - 2

zoneOf(request) == request % ZoneCount

(* The initial state: a volume full of chapters and an empty cache.        *)
makeVolume ==
  [volume |-> [p \in Pages |-> pageData(mapToChapterNumber(p), mapToPageNumber(p))],
   map |-> [slot \in 0 .. Chapters * (IndexPages - 1) - 1 |->
              lastPacked(slot \div (IndexPages - 1), slot % (IndexPages - 1))],
   cache |-> [c \in 0 .. CacheEntries - 1 |->
                [page |-> noPage, readPending |-> FALSE, lastUsed |-> 0, data |-> pageData(0, 0)]],
   index |-> [p \in Pages |-> invalidEntry],
   queue |-> [q \in 0 .. QueueSize - 1 |-> emptyPlace], first |-> 0, lastRead |-> 0, last |-> 0,
   searching |-> [z \in Zones |-> noPage], mutex |-> nobody,
   zones |-> [z \in Zones |-> [pc |-> "idle", newest |-> Chapters, request |-> 0, page |-> noPage,
                               entry |-> -1, left |-> 0, wait |-> {}]],
   readers |-> [r \in Readers |-> [pc |-> "idle", place |-> 0, entry |-> -1, wait |-> {}]],
   writer |-> [pc |-> "idle", page |-> 0, entry |-> -1, wait |-> {}], written |-> Chapters - 1,
   requests |-> [r \in Requests |-> [status |-> "new", virtual |-> 0, known |-> FALSE]],
   errors |-> 0, hidden |-> FALSE, corrupt |-> FALSE, asserts |-> {}]

Init == vl = makeVolume

-----------------------------------------------------------------------------
(* A zone                                                                  *)

finishRequest(v, request) ==
  [v EXCEPT !.requests[request] = [status |-> "new", virtual |-> 0, known |-> FALSE]]

(* A search begins for a page of the request's chapter.                    *)
searchPage(v, zone, request, page) ==
  [beginPendingSearch(v, page, zone) EXCEPT !.zones[zone].pc = "lookup",
     !.zones[zone].request = request, !.zones[zone].page = page, !.requests[request].status = "zone"]

searchVolumePageCache(v, zone, request, virtual) ==
  LET chapter == mapToPhysicalChapter(virtual)
  IN  searchPage([v EXCEPT !.requests[request].virtual = virtual], zone, request,
                 mapToPhysicalPage(chapter, findIndexPageNumber(v, RequestList[request], chapter)))

(* A request whose record the master index places in a chapter on the      *)
(* volume.                                                                 *)
StartRequest ==
  \E request \in Requests :
    LET zone == zoneOf(request)
    IN  /\ vl.zones[zone].pc = "idle" /\ vl.requests[request].status = "new"
        /\ \E virtual \in searchable(vl, zone) : vl' = searchVolumePageCache(vl, zone, request, virtual)

(* restartRequest(): the page was read, or was invalid.                    *)
RestartRequest ==
  \E request \in Requests :
    LET zone == zoneOf(request)
        r == vl.requests[request]
    IN  /\ vl.zones[zone].pc = "idle" /\ r.status = "ready"
        /\ vl' = IF r.known \/ r.virtual \notin searchable(vl, zone) THEN finishRequest(vl, request)
                 ELSE searchVolumePageCache(vl, zone, request, r.virtual)

foundPage(v, zone, entry) ==
  [(IF zone = 0 THEN makePageMostRecent(v, entry) ELSE v) EXCEPT
     !.zones[zone].pc = "search", !.zones[zone].entry = entry]

(* A mutant: the search stays pending while the zone waits for the mutex.  *)
LookUpWithoutEnd ==
  \E zone \in Zones :
    /\ vl.zones[zone].pc = "lookup"
    /\ \E entry \in {getPageFromCache(vl, vl.zones[zone].page)} :
         vl' = IF entry # -1 THEN foundPage(vl, zone, entry) ELSE [vl EXCEPT !.zones[zone].pc = "lock"]

(* getPageProtected(), before it needs the mutex.                          *)
LookUp ==
  \E zone \in Zones :
    /\ vl.zones[zone].pc = "lookup"
    /\ \E entry \in {getPageFromCache(vl, vl.zones[zone].page)} :
         vl' = IF entry # -1 THEN foundPage(vl, zone, entry)
               ELSE [endPendingSearch(vl, zone) EXCEPT !.zones[zone].pc = "lock"]

(* The search is pending again before the mutex is released.               *)
enqueuePageRead(v, zone) ==
  [beginPendingSearch(enqueueRead(v, v.zones[zone].request, v.zones[zone].page), v.zones[zone].page, zone)
     EXCEPT !.zones[zone].pc = "queued", !.requests[v.zones[zone].request].status = "queued"]

LockAndLookUp ==
  \E zone \in Zones :
    /\ vl.zones[zone].pc = "lock" /\ vl.mutex = nobody
    /\ \E entry \in {getPageFromCache(vl, vl.zones[zone].page)} :
         vl' = IF entry # -1 THEN foundPage(beginPendingSearch(vl, vl.zones[zone].page, zone), zone, entry)
               ELSE IF mayEnqueue(vl, vl.zones[zone].page) THEN enqueuePageRead(vl, zone)
               ELSE [vl EXCEPT !.zones[zone].pc = "full"]

(* waitForReadQueueNotFull(), after which the read is queued even if the   *)
(* page has been cached meanwhile.                                         *)
WaitForReadQueueNotFull ==
  \E zone \in Zones :
    /\ vl.zones[zone].pc = "full" /\ vl.mutex = nobody /\ ~readQueueIsFull(vl)
    /\ vl' = enqueuePageRead(vl, zone)

noRequest(v, zone) ==
  [v EXCEPT !.zones[zone].pc = "idle", !.zones[zone].request = 0, !.zones[zone].page = noPage,
            !.zones[zone].entry = -1]

(* UDS_QUEUED is returned.                                                 *)
LeaveQueued ==
  \E zone \in Zones :
    /\ vl.zones[zone].pc = "queued"
    /\ vl' = noRequest(endPendingSearch(vl, zone), zone)

(* searchCachedIndexPage() and then searchCachedRecordPage() search the    *)
(* page and end the pending search.                                        *)
SearchPage ==
  \E zone \in Zones :
    LET z == vl.zones[zone]
        ended == [endPendingSearch(vl, zone) EXCEPT !.zones[zone].entry = -1]
    IN  /\ z.pc = "search"
        /\ vl' = IF isRecordPage(z.page) THEN finishRequest(noRequest(ended, zone), z.request)
                 ELSE searchPage(ended, zone, z.request, mapToPhysicalPage(mapToChapterNumber(z.page), IndexPages))

(* openNextChapter(): the chapter before is on the volume by then; the     *)
(* last zone to open the chapter forgets the one it will overwrite.        *)
OpenNextChapter ==
  \E zone \in Zones :
    LET newest == vl.zones[zone].newest + 1
        isLast == \A other \in Zones \ {zone} : vl.zones[other].newest >= newest
    IN  /\ vl.zones[zone].pc = "idle" /\ newest <= LastChapter
        /\ vl.written >= newest - 2
        /\ vl' = [vl EXCEPT !.zones[zone].newest = newest,
                            !.zones[zone].pc = IF isLast THEN "forgetLock" ELSE "idle"]

ForgetLock ==
  \E zone \in Zones :
    /\ vl.zones[zone].pc = "forgetLock" /\ vl.mutex = nobody
    /\ vl' = [vl EXCEPT !.mutex = <<"zone", zone>>, !.zones[zone].pc = "forget", !.zones[zone].left = 0]

(* forgetChapter() holds the mutex while it invalidates each page.         *)
invalidateNext(v, zone) ==
  LET page == mapToPhysicalPage(mapToPhysicalChapter(v.zones[zone].newest), v.zones[zone].left)
      entry == getPageFromCache(v, page)
  IN  [findInvalidateAndMakeLeastRecent(v, page) EXCEPT
         !.zones[zone].left = @ + 1, !.zones[zone].entry = entry,
         !.zones[zone].wait = IF entry = -1 THEN {} ELSE waitForPendingSearches(v, page)]

ForgetPage ==
  \E zone \in Zones :
    LET z == vl.zones[zone]
        cleared == IF z.entry = -1 THEN vl ELSE clearPage(vl, z.entry)
    IN  /\ z.pc = "forget" /\ z.wait = {}
        /\ vl' = IF z.left < pagesPerChapter THEN invalidateNext(cleared, zone)
                 ELSE [noRequest(cleared, zone) EXCEPT !.mutex = nobody, !.zones[zone].left = 0]

-----------------------------------------------------------------------------
(* A reader thread                                                         *)

restartAll(v, place, known) ==
  [v EXCEPT !.requests = [r \in Requests |->
     IF r \in Range(v.queue[place].requests)
     THEN [v.requests[r] EXCEPT !.status = "ready", !.known = known] ELSE v.requests[r]]]

failAll(v, place) ==
  [v EXCEPT !.requests = [r \in Requests |->
     IF r \in Range(v.queue[place].requests)
     THEN [status |-> "new", virtual |-> 0, known |-> FALSE] ELSE v.requests[r]]]

idleReader(v, reader) ==
  [releaseReadQueueEntry(v, v.readers[reader].place) EXCEPT
     !.readers[reader] = [pc |-> "idle", place |-> 0, entry |-> -1, wait |-> {}]]

(* waitToReserveReadQueueEntry(); an invalid read only restarts its        *)
(* requests.                                                               *)
ReserveEntry ==
  \E reader \in Readers :
    LET place == vl.lastRead
        entry == getLeastRecentPage(vl)
        reserved == [reserveReadQueueEntry(vl) EXCEPT !.readers[reader].place = place]
    IN  /\ vl.readers[reader].pc = "idle" /\ vl.mutex = nobody /\ vl.lastRead # vl.last
        /\ vl' = IF isInvalid(vl, place) THEN idleReader(restartAll(reserved, place, FALSE), reader)
                 ELSE [selectVictimInCache(reserved, entry) EXCEPT
                         !.mutex = <<"reader", reader>>, !.readers[reader].pc = "victim",
                         !.readers[reader].entry = entry, !.readers[reader].wait = victimWait(vl, entry)]

LeaveMutex ==
  \E reader \in Readers :
    /\ vl.readers[reader].pc = "victim" /\ vl.readers[reader].wait = {}
    /\ vl' = [vl EXCEPT !.mutex = nobody, !.readers[reader].pc = "read"]

(* readVolumePage() into the buffer of the cached page.                    *)
ReadVolumePage ==
  \E reader \in Readers :
    LET r == vl.readers[reader]
    IN  /\ r.pc = "read"
        /\ vl' = [vl EXCEPT !.cache[r.entry].data = vl.volume[vl.queue[r.place].page],
                            !.readers[reader].pc = "finish"]

(* The read fails, and is cancelled without the mutex.                     *)
FailToReadPage ==
  \E reader \in Readers :
    LET r == vl.readers[reader]
    IN  /\ r.pc = "read" /\ vl.errors < MaxErrors
        /\ vl' = [cancelPageInCache(vl, vl.queue[r.place].page, r.entry) EXCEPT
                    !.errors = @ + 1, !.readers[reader].pc = "failed", !.readers[reader].entry = -1]

FinishFailedRead ==
  \E reader \in Readers :
    /\ vl.readers[reader].pc = "failed" /\ vl.mutex = nobody
    /\ vl' = idleReader(failAll(vl, vl.readers[reader].place), reader)

(* readThreadFunction(), after the read.                                   *)
finishRead(v, place, entry) ==
  LET page == v.queue[place].page
  IN  IF v.queue[place].invalid THEN restartAll(cancelPageInCache(v, page, entry), place, FALSE)
      ELSE IF isRecordPage(page) \/ initChapterIndexPage(v, page, v.cache[entry].data)
      THEN restartAll(putPageInCache(v, page, entry), place, isRecordPage(page))
      ELSE [failAll(cancelPageInCache(v, page, entry), place) EXCEPT !.corrupt = TRUE]

FinishRead ==
  \E reader \in Readers :
    LET r == vl.readers[reader]
    IN  /\ r.pc = "finish" /\ vl.mutex = nobody
        /\ vl' = idleReader(finishRead(vl, r.place, r.entry), reader)

-----------------------------------------------------------------------------
(* The chapter writer                                                      *)

writerPage(v) == mapToPhysicalPage(mapToPhysicalChapter(v.written + 1), v.writer.page)

(* writeChapter(), once all zones closed the chapter.                      *)
StartWriting ==
  /\ vl.writer.pc = "idle"
  /\ \A zone \in Zones : vl.zones[zone].newest > vl.written + 1
  /\ vl' = [vl EXCEPT !.writer.pc = "write", !.writer.page = 0]

writeIndexPages(v, data) ==
  [updateIndexPageMap(v, v.written + 1, v.writer.page) EXCEPT
     !.volume[writerPage(v)] = data, !.writer.pc = "donate"]
writeRecordPages(v, data) ==
  [v EXCEPT !.volume[writerPage(v)] = data, !.writer.pc = "idle", !.writer.page = 0, !.written = @ + 1]

WritePage ==
  /\ vl.writer.pc = "write"
  /\ \E data \in {pageData(vl.written + 1, vl.writer.page)} :
       vl' = IF isRecordPage(writerPage(vl)) THEN writeRecordPages(vl, data) ELSE writeIndexPages(vl, data)

(* donateIndexPageLocked()                                                 *)
Donate ==
  /\ vl.writer.pc = "donate" /\ vl.mutex = nobody
  /\ \E entry \in {getLeastRecentPage(vl)} :
       vl' = [selectVictimInCache(vl, entry) EXCEPT
                !.mutex = <<"writer", 0>>, !.writer.pc = "victim", !.writer.entry = entry,
                !.writer.wait = victimWait(vl, entry)]

FinishDonation ==
  /\ vl.writer.pc = "victim" /\ vl.writer.wait = {}
  /\ LET entry == vl.writer.entry
         swapped == [vl EXCEPT !.cache[entry].data = pageData(vl.written + 1, vl.writer.page)]
     IN  vl' = [putPageInCache(swapped, writerPage(vl), entry) EXCEPT
                  !.mutex = nobody, !.writer.pc = "write", !.writer.page = @ + 1, !.writer.entry = -1,
                  !.corrupt = @ \/ ~initChapterIndexPage(vl, writerPage(vl), swapped.cache[entry].data)]

Next ==
  \/ StartRequest \/ RestartRequest \/ LookUp \/ LockAndLookUp \/ WaitForReadQueueNotFull \/ LeaveQueued
  \/ SearchPage \/ OpenNextChapter \/ ForgetLock \/ ForgetPage
  \/ ReserveEntry \/ LeaveMutex \/ ReadVolumePage \/ FailToReadPage \/ FinishFailedRead \/ FinishRead
  \/ StartWriting \/ WritePage \/ Donate \/ FinishDonation

-----------------------------------------------------------------------------
(* Properties                                                              *)

(* A search sees its chapter: while a zone searches a cached page, and     *)
(* when a reader thread answers a request from the page it read, the page  *)
(* is the one asked for and holds the chapter the request looks for.  No   *)
(* reader, eviction, donation or new chapter replaces it meanwhile, though *)
(* the zone holds no lock.  The exception: a zone which had to wait for a  *)
(* place in the queue hides the page if it was cached meanwhile.  When the *)
(* hidden page is evicted the index forgets the read in progress, and so   *)
(* does forgetChapter().                                                   *)
SearchesSeeTheirChapter ==
  \/ vl.hidden
  \/ /\ \A zone \in Zones :
          LET z == vl.zones[zone]
              data == vl.cache[z.entry].data
          IN  z.pc = "search" =>
                /\ vl.cache[z.entry].page = z.page
                /\ data.virtual = vl.requests[z.request].virtual
                /\ data.bounds[1] <= RequestList[z.request] /\ RequestList[z.request] <= data.bounds[2]
     /\ \A reader \in Readers :
          LET r == vl.readers[reader]
              place == vl.queue[r.place]
          IN  r.pc = "finish" /\ ~place.invalid =>
                \A i \in DOMAIN place.requests :
                  vl.cache[r.entry].data.virtual = vl.requests[place.requests[i]].virtual
     /\ ~vl.corrupt

(* The cache's index, its pages, the queue of reads and the requests fit   *)
(* together: a page found has no read pending, a queued page is at its     *)
(* place in the queue, and a queued request is at just one place.          *)
CacheIsSound ==
  /\ \A page \in Pages :
       LET value == vl.index[page]
       IN  /\ value < CacheEntries => vl.cache[value].page = page /\ ~vl.cache[value].readPending
           /\ isQueued(value) => vl.queue[value - queuedFlag].page = page
  /\ \A request \in Requests :
       vl.requests[request].status = "queued" <=>
         Cardinality({q \in DOMAIN vl.queue : request \in Range(vl.queue[q].requests)}) = 1

(* Nobody waits forever: whoever holds the mutex waits only for zones      *)
(* which search, and which need neither the mutex nor a place in the queue *)
(* to end their search; and a full queue has a reader which works on it.   *)
NobodyWaitsForever ==
  LET holder == CASE vl.mutex[1] = "zone" -> vl.zones[vl.mutex[2]].wait
                  [] vl.mutex[1] = "reader" -> vl.readers[vl.mutex[2]].wait
                  [] vl.mutex[1] = "writer" -> vl.writer.wait
                  [] OTHER -> {}
  IN  /\ \A zone \in holder : vl.zones[zone].pc \in {"lookup", "search", "queued"}
      /\ \A zone \in Zones : vl.zones[zone].pc = "full" /\ readQueueIsFull(vl) =>
           \/ vl.lastRead # vl.last
           \/ \E reader \in Readers : vl.readers[reader].pc # "idle"

(* No assertion on the pages, the read queue or the counters of searches   *)
(* fails (pageCache.c, volume.c).                                          *)
NoAssertionFails == vl.asserts = {}
=============================================================================
