--------------------------------- MODULE Index ---------------------------------
(***************************************************************************)
(* The deduplication index (uds/index.c, indexZone.c, chapterWriter.c,     *)
(* openChapter.c, openChapterZone.c, indexInternals.c and the search for   *)
(* the ends of the volume in volume.c): zones which fill an open chapter   *)
(* each, the thread which writes closed chapters to the volume,            *)
(* checkpoints, saves, crashes, and loading, replaying or rebuilding.      *)
(*                                                                         *)
(* The index is dense.  The master index is an exact map, so that there    *)
(* are no collisions, and it never grows too large.  A chapter on the      *)
(* volume has a virtual chapter number in its index pages (-1 when they    *)
(* are corrupt or were never written), the names which its index pages     *)
(* lead to and those on its record pages.                                  *)
(***************************************************************************)
EXTENDS IndexState

CONSTANT Settings  \* of records [chapters, frequency, records, zones, names, actions, last, saves, crashes, faults]

VARIABLE s

areSamePhysicalChapter(t, c1, c2) == c1 % t.cfg.chapters = c2 % t.cfg.chapters
mapToPhysicalChapter(t, v) == v % t.cfg.chapters

Zones(t) == 0 .. t.zoneCount - 1
allZones(t) == SetToSortSeq(Zones(t), <)

assert(t, name, condition) == IF condition THEN t ELSE [t EXCEPT !.asserts = @ \union {name}]

-----------------------------------------------------------------------------
(* The master index                                                        *)

(* Forget the entries of a zone outside of the chapters to be kept.        *)
keepChapters(t, z, low, high) ==
  [t EXCEPT !.mi = [n \in DOMAIN t.mi |-> IF nameZone(n, t.zoneCount) = z /\ t.mi[n] \notin low .. high THEN -1 ELSE t.mi[n]]]

(* Moving to the same open chapter counts as moving back, which removes    *)
(* the entries of the open chapter.                                        *)
setMasterIndexZoneOpenChapter(t, z, v) ==
  LET low == t.mz[z].low
      high == t.mz[z].high
      newLow == IF v >= t.cfg.chapters THEN v - t.cfg.chapters + 1 ELSE 0
      move(l, keep) == [keepChapters(t, z, l, keep) EXCEPT !.mz[z] = [low |-> l, high |-> v]]
  IN  CASE v <= low -> move(v, v - 1)
        [] low < v /\ v <= high -> move(low, v - 1)
        [] v > high /\ newLow < low -> move(low, v)
        [] v > high /\ newLow >= low /\ newLow <= high -> move(newLow, v)
        [] OTHER -> move(v, v)

setMasterIndexOpenChapter(t, v) == FoldLeft(LAMBDA u, z : setMasterIndexZoneOpenChapter(u, z, v), t, allZones(t))

-----------------------------------------------------------------------------
(* Open chapters                                                           *)

makeOpenChapter == [size |-> 0, names |-> {}, last |-> -1]
resetOpenChapter == makeOpenChapter
capacity(t) == t.cfg.records \div t.zoneCount

searchOpenChapter(open, n) == n \in open.names

(* A name which is there already gets new data only.                       *)
putOpenChapter(open, n) ==
  IF n \in open.names THEN open ELSE [size |-> open.size + 1, names |-> open.names \union {n}, last |-> n]

removeFromOpenChapter(open, n) == [open EXCEPT !.names = @ \ {n}]

(* A chapter which no zone has filled is not written.                      *)
fillDeltaChapterIndex(t) ==
  LET full == {z \in Zones(t) : t.zones[z].writing.size = capacity(t)}
  IN  assert(assert(t, "some open chapter zone filled", full # {}),
             "chapter fill record not deleted",
             full # {} => LET w == t.zones[Min(full)].writing IN w.last \in w.names)

writtenNames(t) == UNION {t.zones[z].writing.names : z \in Zones(t)}

-----------------------------------------------------------------------------
(* Requests                                                                *)

badChapter == [vcn |-> -1, names |-> {}, records |-> {}]

(* The index pages of the physical chapter lead to the record pages.       *)
searchVolumePageCache(t, n, v) ==
  LET chapter == t.volume[mapToPhysicalChapter(t, v)] IN n \in chapter.names /\ n \in chapter.records

getRecordFromZone(t, z, n, v) ==
  LET zone == t.zones[z]
  IN  CASE v = zone.newest -> searchOpenChapter(zone.open, n)
        [] zone.newest > 0 /\ v = zone.newest - 1 /\ zone.writing.size > 0 -> searchOpenChapter(zone.writing, n)
        [] OTHER -> searchVolumePageCache(t, n, v)

(* A full open chapter is closed.                                          *)
putRecordInZone(t, z, n) ==
  LET open == putOpenChapter(t.zones[z].open, n)
  IN  [t EXCEPT !.zones[z].open = open, !.zones[z].pc = IF open.size = capacity(t) THEN "swap" ELSE @]

(* A query here is one with an update.                                     *)
searchIndexZone(t, z, n, action) ==
  LET chapter == t.zones[z].newest
      found == t.mi[n] # -1 /\ getRecordFromZone(t, z, n, t.mi[n])
      moved == putRecordInZone([t EXCEPT !.mi[n] = chapter], z, n)
  IN  CASE found /\ t.mi[n] # chapter -> moved
        [] found /\ t.mi[n] = chapter -> IF action = "update" THEN putRecordInZone(t, z, n) ELSE t
        [] OTHER -> IF action = "query" THEN t ELSE moved

removeFromIndexZone(t, z, n) ==
  LET open == t.mi[n] = t.zones[z].newest
      removed == [t EXCEPT !.mi[n] = -1, !.hidden = @ \union {n}]
  IN  IF t.mi[n] = -1 \/ ~getRecordFromZone(t, z, n, t.mi[n]) THEN t
      ELSE IF open THEN [removed EXCEPT !.zones[z].open = removeFromOpenChapter(@, n)]
      ELSE removed

dispatchIndexZoneRequest(t, z, n, action) ==
  IF action = "delete" THEN removeFromIndexZone(t, z, n) ELSE searchIndexZone(t, z, n, action)

-----------------------------------------------------------------------------
(* Closing a chapter in a zone                                             *)

(* The zone's thread waits until the chapter before has been written.      *)
mayFinishPreviousChapter(t, z) == t.newest >= t.zones[z].newest

swapOpenChapter(t, z) ==
  [t EXCEPT !.zones[z].open = t.zones[z].writing, !.zones[z].writing = t.zones[z].open]

reapOldestChapter(t, z) ==
  setMasterIndexZoneOpenChapter(
    assert(t, "newest and oldest span", t.zones[z].newest - t.zones[z].oldest <= t.cfg.chapters),
    z, t.zones[z].newest)

stopZone(t, z) == [t EXCEPT !.zones[z].pc = "idle", !.failed = TRUE]

(* The part of processCheckpointing() which holds the mutex, and what the  *)
(* zone does next.                                                         *)
startedCheckpoint(r, z) == IF ok(r) THEN [r.s EXCEPT !.zones[z].pc = "perform"] ELSE stopZone(r.s, z)

processCheckpointing(t, z, newVirtualChapter) ==
  LET action == getCheckpointAction(t.cp, newVirtualChapter)
  IN  CASE action = "idle" -> [t EXCEPT !.zones[z].pc = "close"]
        [] action = "start" -> startedCheckpoint(doCheckpointStart(t, newVirtualChapter), z)
        [] action = "continue" -> [t EXCEPT !.zones[z].pc = "perform"]
        [] action = "finish" -> [t EXCEPT !.zones[z].pc = "finish"]
        [] action = "abort" -> [doCheckpointAbort(t, z).s EXCEPT !.zones[z].pc = "close"]

(* openNextChapter() as far as the checkpoint's mutex is held.             *)
openNextChapter(t, z) ==
  LET swapped == [swapOpenChapter(t, z) EXCEPT !.zones[z].newest = @ + 1]
      reaped == [reapOldestChapter(swapped, z) EXCEPT !.zones[z].open = resetOpenChapter]
  IN  IF t.writer.result # "success" THEN stopZone(t, z)
      ELSE processCheckpointing(reaped, z, reaped.zones[z].newest)

startClosingChapter(t) == [t EXCEPT !.writer.zonesToWrite = @ + 1]

announceChapterClosed(t, z, v) ==
  [t EXCEPT !.zones = [y \in DOMAIN t.zones |-> IF y = z THEN t.zones[y]
                                               ELSE [t.zones[y] EXCEPT !.messages = @ \union {v}]]]

(* The rest of openNextChapter().  forgetChapter() is about caches.        *)
closeChapterInZone(t, z) ==
  LET zone == t.zones[z]
      started == startClosingChapter(t)
      announced == IF started.writer.zonesToWrite = 1 THEN announceChapterClosed(started, z, zone.newest - 1) ELSE started
  IN  [announced EXCEPT !.zones[z].pc = "idle",
                        !.zones[z].oldest = IF areSamePhysicalChapter(t, zone.newest, zone.oldest) THEN @ + 1 ELSE @]

(* The first zone to close a chapter makes the others close it.            *)
handleChapterClosed(t, z, v) ==
  [t EXCEPT !.zones[z].messages = @ \ {v}, !.zones[z].pc = IF t.zones[z].newest = v THEN "swap" ELSE @]

-----------------------------------------------------------------------------
(* The chapter writer                                                      *)

advanceActiveChapters(t) ==
  LET newest == t.newest + 1
  IN  [t EXCEPT !.newest = newest, !.oldest = IF areSamePhysicalChapter(t, newest, t.oldest) THEN @ + 1 ELSE @]

(* closeChapters() until it writes the chapter.                            *)
beginChapter(t) ==
  LET discarded == discardIndexComponent([t EXCEPT !.hasSaved = FALSE], "open chapter")
      next == IF t.hasSaved THEN discarded ELSE t
  IN  [next EXCEPT !.writer.pc = "writing", !.undiscarded = @ \/ (t.hasSaved /\ discarded.disk = t.disk)]

newChapter(t) == [vcn |-> t.newest, names |-> writtenNames(t), records |-> writtenNames(t)]

(* closeOpenChapter() writes the index pages and the record pages, and     *)
(* updates the index page map.                                             *)
closeOpenChapter(t) ==
  LET p == mapToPhysicalChapter(t, t.newest)
  IN  [fillDeltaChapterIndex(t) EXCEPT !.volume[p] = newChapter(t), !.ipm[p] = t.newest]

(* The chapter is over whether or not it could be written.                 *)
finishChapter(t, r) ==
  [advanceActiveChapters(r.s) EXCEPT !.writer = [pc |-> "idle", zonesToWrite |-> 0, result |-> r.result]]

-----------------------------------------------------------------------------
(* Loading                                                                 *)

(* What loading from the latest save finds.                                *)
readMasterIndex(t, slot) ==
  LET saved == {t.disk[findLayoutRegion(t.layout, slot, "master index", z).startBlock] :
                 z \in 0 .. t.layout.index.saves[slot].numZones - 1}
      high == (CHOOSE m \in saved : TRUE).high
      records == UNION {m.records : m \in saved}
  IN  IF \E m \in saved : ~m.started \/ ~m.guard \/ m.high # high THEN failure(t)
      ELSE success([t EXCEPT !.mz = [z \in Zones(t) |->
                                      [low |-> IF high >= t.cfg.chapters THEN high - t.cfg.chapters + 1 ELSE 0, high |-> high]],
                             !.mi = [n \in DOMAIN t.mi |-> IF \E r \in records : r[1] = n
                                                          THEN (CHOOSE r \in records : r[1] = n)[2] ELSE -1]])

(* The last slot of each zone's open chapter is left free.                 *)
readOpenChapters(t, saved) ==
  LET mine(z) == {n \in saved.records : nameZone(n, t.zoneCount) = z}
      kept(z) == IF Cardinality(mine(z)) < capacity(t) THEN mine(z)
                 ELSE CHOOSE k \in kSubset(capacity(t) - 1, mine(z)) : TRUE
      open(z) == [size |-> Cardinality(kept(z)), names |-> kept(z), last |-> -1]
  IN  [t EXCEPT !.zones = [z \in Zones(t) |-> [t.zones[z] EXCEPT !.open = open(z)]],
                !.hidden = @ \union UNION {mine(z) \ kept(z) : z \in Zones(t)}]

(* Components are read in order; only the open chapter may be missing.     *)
loadIndexState(t) ==
  LET slot == findLatestIndexSaveSlot(t.layout)
      isl == t.layout.index.saves[slot]
      state == readIndexStateData(t, isl.indexStateBuffer)
      oc == findLayoutRegion(t.layout, slot, "open chapter", 0)
      noOpen == oc = none \/ ~t.disk[oc.startBlock].magic
      opened == IF noOpen THEN state.s ELSE readOpenChapters(state.s, t.disk[oc.startBlock])
      mi == readMasterIndex(opened, slot)
  IN  IF slot = noSlot THEN [s |-> t, result |-> "error", replay |-> FALSE]
      ELSE IF ~ok(state) \/ ~ok(mi) THEN [s |-> t, result |-> "error", replay |-> FALSE]
      ELSE [s |-> [mi.s EXCEPT !.ipm = t.disk[isl.indexPageMap.startBlock]], result |-> "success", replay |-> noOpen]

Infinity == 1000  \* UINT64_MAX

probeChapter(t, p) == IF mapToPhysicalChapter(t, t.volume[p].vcn) = p /\ t.volume[p].vcn >= 0 THEN t.volume[p].vcn ELSE -1
probeWrapper(t, p) == IF probeChapter(t, p) = -1 THEN Infinity ELSE probeChapter(t, p)

(* Skip back over chapters which are not there, by larger and larger       *)
(* spans, then close in.  A probe of the end of the volume is a lookup for *)
(* a rebuild, for which every bad page is a UDS_CORRUPT_COMPONENT: the     *)
(* mismatch with the page map, a UDS_CORRUPT_DATA, is not looked for.      *)
findRealEndOfVolume(t) ==
  LET RECURSIVE search(_, _, _)
      search(limit, span, tries) ==
        LET chapter == IF span > limit THEN 0 ELSE limit - span
        IN  IF limit = 0 THEN 0
            ELSE IF probeChapter(t, chapter) # -1
            THEN IF span = 1 THEN limit ELSE search(limit, span \div 2, 0)
            ELSE search(chapter, IF tries >= 1 THEN span * 2 ELSE span, tries + 1)
  IN  search(t.cfg.chapters, 1, 0)

(* A binary search for the lowest chapter, then back from there to the     *)
(* first good one.                                                         *)
findVolumeChapterBoundariesImpl(t, limit) ==
  LET first == probeWrapper(t, 0)
      RECURSIVE bisect(_, _)
      bisect(l, r) == IF l >= r THEN l
                      ELSE LET chapter == (l + r) \div 2
                           IN  IF first <= probeWrapper(t, chapter) THEN bisect(chapter + 1, r) ELSE bisect(l, chapter)
      right == bisect(0, limit)
      RECURSIVE scan(_, _)
      scan(r, bad) == LET before == (r + limit - 1) % limit
                      IN  IF probeWrapper(t, before) # Infinity THEN probeWrapper(t, before)
                          ELSE IF bad + 1 >= limit THEN Infinity ELSE scan(before, bad + 1)
  IN  [lowest |-> probeWrapper(t, right % limit), highest |-> scan(right, 0)]

(* The ends of the volume: empty, corrupt, or the lowest and highest       *)
(* virtual chapters.                                                       *)
findVolumeChapterBoundaries(t) ==
  LET limit == findRealEndOfVolume(t)
      ends == findVolumeChapterBoundariesImpl(t, limit)
  IN  IF limit = 0 THEN [result |-> "empty"]
      ELSE IF Infinity \in {ends.lowest, ends.highest} \/ ends.lowest > ends.highest THEN [result |-> "error"]
      ELSE [result |-> "success", lowest |-> ends.lowest, highest |-> ends.highest]

(* The open chapter shadows the chapter which it will overwrite.           *)
setBoundaries(t, ends) ==
  LET newest == ends.highest + 1
  IN  [t EXCEPT !.newest = newest, !.oldest = IF newest = ends.lowest + t.cfg.chapters THEN ends.lowest + 1 ELSE ends.lowest]

replayRecord(t, n, v) == [t EXCEPT !.mi[n] = v]

rebuildIndexPageMap(t, v) == [t EXCEPT !.ipm[mapToPhysicalChapter(t, v)] = v]

(* A chapter between the ends which cannot be read makes the replay fail.  *)
replayVolume(t, from) ==
  LET upto == t.newest
      start == setMasterIndexOpenChapter(setMasterIndexOpenChapter(t, upto), from)
      replayChapter(u, v) ==
        LET mapped == rebuildIndexPageMap(setMasterIndexOpenChapter(u, v), v)
        IN  IF probeChapter(u, mapToPhysicalChapter(u, v)) # v THEN failure(u)
            ELSE success(FoldSet(LAMBDA n, w : replayRecord(w, n, v), mapped,
                                 u.volume[mapToPhysicalChapter(u, v)].records))
      r == untilFailure(replayChapter, start, SetToSortSeq(from .. upto - 1, <))
  IN  IF ok(r) THEN success(setMasterIndexOpenChapter(r.s, upto)) ELSE r

replayIndexFromCheckpoint(t, lastCheckpointChapter) ==
  LET ends == findVolumeChapterBoundaries(t)
      bounded == setBoundaries(t, ends)
  IN  CASE ends.result = "error" -> failure(t)
        [] ends.result = "empty" -> IF t.newest # 0 THEN failure(t) ELSE success(t)
        [] ends.result = "success" -> replayVolume(bounded, Max({lastCheckpointChapter, bounded.oldest}))

setActiveChapters(t) ==
  [t EXCEPT !.zones = [z \in Zones(t) |-> [t.zones[z] EXCEPT !.newest = t.newest, !.oldest = t.oldest]]]

finishLoading(r, replay) ==
  IF ok(r) THEN success([setActiveChapters(r.s) EXCEPT !.loaded = IF replay THEN "replay" ELSE "load"]) ELSE r

loadIndexFrom(state) ==
  finishLoading(IF ok(state) /\ state.replay THEN replayIndexFromCheckpoint(state.s, Max({state.s.lastCheckpoint, 0})) ELSE state,
                state.replay)

loadIndex(t) == loadIndexFrom(loadIndexState(t))

(* The master index and the zones are as a failed load left them.          *)
rebuildIndex(t) ==
  LET ends == findVolumeChapterBoundaries(t)
      bounded == setBoundaries(t, ends)
      r == replayVolume(setMasterIndexOpenChapter(bounded, 0), bounded.oldest)
  IN  CASE ends.result = "error" -> failure(t)
        [] ends.result = "empty" ->
             success([setMasterIndexOpenChapter([t EXCEPT !.newest = 0, !.oldest = 0], 0) EXCEPT !.loaded = "empty"])
        [] ends.result = "success" ->
             IF ok(r) THEN success([setActiveChapters(r.s) EXCEPT !.loaded = "rebuild"]) ELSE r

makeIndexZone == [newest |-> 0, oldest |-> 0, open |-> makeOpenChapter, writing |-> makeOpenChapter, pc |-> "idle",
                  status |-> 0, result |-> "success", messages |-> {}]

(* A new Index over what is on the storage.                                *)
allocateIndex(t, zoneCount) ==
  [t EXCEPT !.zoneCount = zoneCount, !.zones = [z \in 0 .. zoneCount - 1 |-> makeIndexZone],
            !.newest = 0, !.oldest = 0, !.lastCheckpoint = 0, !.prevCheckpoint = 0, !.hasSaved = TRUE,
            !.mi = [n \in DOMAIN t.mi |-> -1], !.mz = [z \in 0 .. zoneCount - 1 |-> [low |-> 0, high |-> 0]],
            !.ipm = [p \in DOMAIN t.ipm |-> -1], !.st = makeIndexState(zoneCount),
            !.cp = makeIndexCheckpoint(t.cfg.frequency), !.failed = FALSE, !.saver = "idle", !.asserts = {},
            !.writer = [pc |-> "idle", zonesToWrite |-> 0, result |-> "success"]]

(* The names whose newest record is not on the volume.                     *)
unwritten(t) ==
  LET chapter(n) == t.volume[mapToPhysicalChapter(t, t.mi[n])]
  IN  {n \in DOMAIN t.mi : t.mi[n] # -1 /\ (chapter(n).vcn # t.mi[n] \/ n \notin chapter(n).records)}

(* makeIndex() with LOAD_REBUILD: load the index, or else rebuild it.      *)
finishMakingIndex(t, r) ==
  IF ~ok(r) THEN [r.s EXCEPT !.up = FALSE, !.failed = TRUE]
  ELSE [r.s EXCEPT !.hasSaved = r.s.loaded = "load", !.needToSave = r.s.loaded # "load", !.up = TRUE,
                   !.wasted = r.s.loaded = "rebuild" /\ t.committed,
                   !.stale = @ \/ (r.s.loaded = "load" /\ \E p \in DOMAIN t.volume : t.volume[p].vcn >= r.s.newest),
                   !.hidden = IF r.s.loaded = "replay" THEN @ \union unwritten(t) ELSE @]

loadOrRebuild(index, loaded) == IF ok(loaded) THEN loaded ELSE rebuildIndex(index)

makeIndexFrom(t, index) == finishMakingIndex(t, loadOrRebuild(index, loadIndex(index)))

makeIndexOver(t, zoneCount, layout) ==
  IF layout.result # "success" THEN [t EXCEPT !.up = FALSE, !.failed = TRUE]
  ELSE makeIndexFrom(t, allocateIndex([t EXCEPT !.layout = layout.layout], zoneCount))

makeIndex(t, zoneCount) == makeIndexOver(t, zoneCount, loadIndexLayout(t.disk))

-----------------------------------------------------------------------------
(* The behaviour of the whole                                              *)

(* A new index: saveSingleFileConfiguration() and makeIndex() with         *)
(* LOAD_CREATE.                                                            *)
createIndex(cfg, zoneCount) ==
  LET layout == createIndexLayout
      new == [cfg |-> cfg, up |-> TRUE, disk |-> saveSingleFileConfiguration(<<>>, layout), layout |-> layout,
              volume |-> [p \in 0 .. cfg.chapters - 1 |-> badChapter], zoneCount |-> zoneCount,
              zones |-> <<>>, newest |-> 0, oldest |-> 0, lastCheckpoint |-> 0, prevCheckpoint |-> 0,
              hasSaved |-> FALSE, needToSave |-> TRUE, loaded |-> "create",
              mi |-> [n \in cfg.names |-> -1], mz |-> <<>>, ipm |-> [p \in 0 .. cfg.chapters - 1 |-> -1],
              writer |-> <<>>, cp |-> <<>>, st |-> <<>>, saver |-> "idle", clock |-> 1, failed |-> FALSE,
              hidden |-> {}, committed |-> FALSE, lost |-> {}, undiscarded |-> FALSE, stale |-> FALSE, wasted |-> FALSE, asserts |-> {},
              saves |-> cfg.saves, crashes |-> cfg.crashes, faults |-> cfg.faults]
  IN  [allocateIndex(discardIndexStateData([new EXCEPT !.st = makeIndexState(zoneCount)]), zoneCount)
         EXCEPT !.hasSaved = FALSE]

Init == \E cfg \in Settings : \E zoneCount \in cfg.zones : s = createIndex(cfg, zoneCount)

(* The thread of a zone has nothing to do.                                 *)
idle(z) == s.zones[z].pc = "idle"

(* A step which may fail uses up a fault when it does.                     *)
faulty(fail) == fail => s.faults > 0
used(t, fail) == IF fail THEN [t EXCEPT !.faults = @ - 1] ELSE t

(* A request is processed by the thread of its zone.                       *)
Request(n, action) ==
  LET z == nameZone(n, s.zoneCount)
  IN  /\ idle(z) /\ s.saver = "idle" /\ ~s.failed
      /\ s.zones[z].newest < s.cfg.last
      /\ s' = dispatchIndexZoneRequest([s EXCEPT !.needToSave = TRUE], z, n, action)

HandleChapterClosed(z) ==
  \E v \in s.zones[z].messages : idle(z) /\ s' = handleChapterClosed(s, z, v)

OpenNextChapter(z) ==
  /\ s.zones[z].pc = "swap"
  /\ mayFinishPreviousChapter(s, z)
  /\ s' = openNextChapter(s, z)

performed(r, z) ==
  [r.s EXCEPT !.zones[z].pc = "performed", !.zones[z].result = r.result, !.zones[z].status = r.status]

(* doCheckpointProcess() without the mutex.                                *)
DoCheckpointProcess(z, fail, done) ==
  /\ s.zones[z].pc = "perform" /\ faulty(fail)
  /\ s' = used(performed(performIndexStateCheckpointInZone(s, z, fail, done), z), fail)

(* doCheckpointFinish() without the mutex.                                 *)
DoCheckpointFinish(z, fail) ==
  /\ s.zones[z].pc = "finish" /\ faulty(fail)
  /\ s' = used(performed(finishIndexStateCheckpointInZone(s, z, fail), z), fail)

(* Either of them, with the mutex again.                                   *)
ZoneIsDone(z) ==
  LET zone == s.zones[z]
  IN  /\ zone.pc = "performed"
      /\ \E r \in {zoneIsDone(s, zone.result, zone.status)} :
            s' = IF ok(r) THEN [r.s EXCEPT !.zones[z].pc = "close"] ELSE stopZone(r.s, z)

CloseChapterInZone(z) == s.zones[z].pc = "close" /\ s' = closeChapterInZone(s, z)

BeginChapter ==
  /\ s.writer.pc = "idle" /\ s.writer.zonesToWrite = s.zoneCount
  /\ s' = beginChapter(s)

(* What may be in the place of a chapter which was not written completely: *)
(* what was there, some of its index pages, or all of them and not the     *)
(* record pages.                                                           *)
tornChapters(t) ==
  LET old == t.volume[mapToPhysicalChapter(t, t.newest)]
  IN  {old, badChapter, [newChapter(t) EXCEPT !.records = old.records]}

(* The index goes on without the chapter, until a zone asks for the result *)
(* of writing it.                                                          *)
failToWrite(t, chapter) ==
  [t EXCEPT !.volume[mapToPhysicalChapter(t, t.newest)] = chapter, !.lost = @ \union {t.newest},
            !.hidden = @ \union writtenNames(t) \union chapter.records]

FailToWriteChapter ==
  /\ s.writer.pc = "writing" /\ faulty(TRUE)
  /\ \E chapter \in tornChapters(s) :
       \E t \in {failToWrite(s, chapter)} : s' = used(finishChapter(t, failure(t)), TRUE)

(* The chapter writer's part of a checkpoint may fail.                     *)
FinishChapter(fail) ==
  /\ s.writer.pc = "writing" /\ faulty(fail)
  /\ \E t \in {closeOpenChapter(s)} :
       s' = used(finishChapter(t, processChapterWriterCheckpointSaves(t, fail)), fail)

(* saveIndex() begins when no request is in progress.                      *)
RequestSave ==
  /\ s.saver = "idle" /\ s.needToSave /\ ~s.failed /\ s.saves > 0
  /\ s' = [s EXCEPT !.saver = "wait", !.saves = @ - 1]

(* waitForIdleChapterWriter() and what follows until components are        *)
(* written.  The requests which were in progress are over.                 *)
saveIsPrepared(prepared) ==
  IF ok(prepared) THEN [prepared.s EXCEPT !.saver = "write"]
  ELSE [restoreCheckpoint(prepared.s) EXCEPT !.saver = "idle"]

beginSaving(r) ==
  IF ~ok(r) THEN [r.s EXCEPT !.saver = "idle"]
  ELSE saveIsPrepared(prepareToSaveIndexState(beginSave(r.s, r.s.newest), "save"))

SaveBegins(fail) ==
  /\ s.saver = "wait" /\ s.writer.zonesToWrite = 0 /\ (\A z \in Zones(s) : idle(z)) /\ faulty(fail)
  /\ s' = used(beginSaving(finishCheckpointing(s, fail)), fail)

SaveWrites(fail) ==
  /\ s.saver = "write" /\ faulty(fail)
  /\ \E r \in {writeIndexComponents(s, fail)} :
       s' = used(IF ok(r) THEN [r.s EXCEPT !.saver = "commit"]
                 ELSE [restoreCheckpoint(r.s) EXCEPT !.saver = "idle"], fail)

SaveCommits ==
  /\ s.saver = "commit"
  /\ s' = [completeIndexSaving(s).s EXCEPT !.saver = "idle", !.hasSaved = TRUE, !.needToSave = FALSE]

(* A crash while a chapter is being written leaves some of it, or all.     *)
afterCrash(t) ==
  IF t.writer.pc # "writing" THEN {t.volume}
  ELSE {[t.volume EXCEPT ![mapToPhysicalChapter(t, t.newest)] = c] : c \in tornChapters(t) \union {newChapter(t)}}

Crash ==
  /\ s.up /\ s.crashes > 0
  /\ \E volume \in afterCrash(s), zoneCount \in s.cfg.zones :
       s' = makeIndex([s EXCEPT !.crashes = @ - 1, !.volume = volume,
                                !.hidden = @ \union UNION {volume[p].records \ volume[p].names : p \in DOMAIN volume}], zoneCount)

Next ==
  \/ \E n \in s.cfg.names, action \in s.cfg.actions : Request(n, action)
  \/ \E z \in Zones(s) :
       \/ HandleChapterClosed(z)
       \/ OpenNextChapter(z)
       \/ \E fail, done \in BOOLEAN : DoCheckpointProcess(z, fail, done)
       \/ \E fail \in BOOLEAN : DoCheckpointFinish(z, fail)
       \/ ZoneIsDone(z)
       \/ CloseChapterInZone(z)
  \/ BeginChapter
  \/ FailToWriteChapter
  \/ \E fail \in BOOLEAN : FinishChapter(fail)
  \/ RequestSave
  \/ \E fail \in BOOLEAN : SaveBegins(fail)
  \/ \E fail \in BOOLEAN : SaveWrites(fail)
  \/ SaveCommits
  \/ Crash

Spec == Init /\ [][Next]_s

-----------------------------------------------------------------------------
(* Properties                                                              *)

(* The virtual chapters which hold a record of a name.  A chapter which a  *)
(* zone's master index has given up no longer counts.                      *)
holders(n) ==
  LET z == nameZone(n, s.zoneCount)
      zone == s.zones[z]
      written(v) == s.volume[mapToPhysicalChapter(s, v)]
  IN  {v \in Max({zone.oldest, s.mz[z].low}) .. zone.newest :
         \/ v \in s.oldest .. s.newest - 1 /\ written(v).vcn = v /\ n \in written(v).records /\ n \in written(v).names
         \/ v = zone.newest /\ n \in zone.open.names
         \/ v = zone.newest - 1 /\ s.newest = v /\ n \in zone.writing.names}

(* The master index leads to the newest record of every name, in whatever  *)
(* state its chapter is and after any crash, and never outside of the      *)
(* chapters which the index keeps (indexZone.c, index.c replayVolume()).   *)
(* Hidden are the names which were deleted, those whose newest record was  *)
(* lost with the open chapter, those which no longer fit into it, and      *)
(* those which a chapter whose record pages were not written yet seems to  *)
(* hold when it is replayed.                                               *)
RecordsAreFound ==
  \A n \in s.cfg.names :
     /\ holders(n) # {} /\ n \notin s.hidden => s.mi[n] = Max(holders(n))
     /\ s.mi[n] # -1 => LET zone == s.zones[nameZone(n, s.zoneCount)] IN s.mi[n] \in zone.oldest .. zone.newest

(* The chapters between the oldest and the newest are on the volume and in *)
(* the index page map, and zones are at most one chapter ahead of the      *)
(* chapter writer and agree with their master index about the oldest.      *)
ChaptersAreNumbered ==
  /\ \A v \in s.oldest .. s.newest - 1 :
        LET p == mapToPhysicalChapter(s, v) IN v \in s.lost \/ s.stale \/ (s.volume[p].vcn = v /\ s.ipm[p] = v)
  /\ \A z \in Zones(s) : /\ s.zones[z].newest \in {s.newest, s.newest + 1}
                         /\ idle(z) /\ ~s.failed /\ s.lost = {} /\ ~s.stale => s.mz[z].low = s.zones[z].oldest

(* After a crash the index comes up, from the latest save or checkpoint if *)
(* there ever was one: only where that misses the guard of a zone's master *)
(* index, or zones have skipped its start, must the whole volume be read.  *)
(* An open chapter which has been closed since is not loaded again, unless *)
(* discarding it missed the save (chapterWriter.c, indexComponent.c).      *)
SavesAreLoadable ==
  /\ s.up \/ s.lost # {} \/ s.stale
  /\ s.stale => s.undiscarded
  /\ s.wasted => s.cfg.frequency > 2 \/ (s.cfg.frequency = 1 /\ s.cfg.zones # {1})

(* A zone which waits for the chapter before to be written, or a save      *)
(* which waits for the chapter writer, waits for something that goes on,   *)
(* as long as no step has failed (indexZone.c, chapterWriter.c).           *)
NobodyWaitsForever ==
  ((\E z \in Zones(s) : s.zones[z].pc = "swap") \/ s.saver = "wait") /\ ~s.failed =>
    \/ s.writer.pc = "writing" \/ s.writer.zonesToWrite = s.zoneCount
    \/ \E z \in Zones(s) : \/ s.zones[z].pc = "swap" /\ mayFinishPreviousChapter(s, z)
                           \/ s.zones[z].pc \in {"perform", "performed", "finish", "close"}
                           \/ idle(z) /\ s.zones[z].messages # {}
    \/ s.saver = "wait" /\ s.writer.zonesToWrite = 0 /\ \A z \in Zones(s) : idle(z)

(* The assertions of openChapter.c and indexZone.c hold.                   *)
NoAssertionFails == s.asserts = {}

=============================================================================
