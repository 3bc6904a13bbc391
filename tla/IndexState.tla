------------------------------ MODULE IndexState ------------------------------
(***************************************************************************)
(* Saving the parts of the deduplication index, at once or bit by bit      *)
(* while it works (uds/indexState.c, indexComponent.c, indexStateData.c,   *)
(* indexCheckpoint.c, masterIndexOps.c).                                   *)
(*                                                                         *)
(* Each operator takes the record s of the whole index, whose fields these *)
(* use are layout, disk, st (the IndexState), cp (the IndexCheckpoint),    *)
(* zoneCount, newest, oldest, lastCheckpoint, prevCheckpoint, mi (the      *)
(* master index, an exact map from names to virtual chapters), ipm (the    *)
(* index page map) and zones.  An operation which may fail returns a       *)
(* record with the new s, a result and, where the code has it, a status.   *)
(* fail says whether the write which the operation makes fails.            *)
(***************************************************************************)
EXTENDS Encoding, FiniteSetsExt, Functions

-----------------------------------------------------------------------------
(***************************************************************************)
(* How the deduplication index is laid out on its storage                  *)
(* (uds/indexLayout.c): consecutive regions described by tables of         *)
(* regions, one table in the super block and one in the header of each     *)
(* slot for a saved index, and the choice of the slots which saves and     *)
(* loads use.                                                              *)
(*                                                                         *)
(* A layout is a record; so is each slot.  The storage is a function from  *)
(* the first block of a region to what was written there.  Allocation      *)
(* failures, the sizes of the configuration's geometry (constants here)    *)
(* and the written-only flags read and written of a slot are left out.     *)
(***************************************************************************)

CONSTANTS
  Offset,            \* the first block of the index on its storage
  VolumeBlocks,
  MasterIndexBlocks, \* computeMasterIndexSaveBlocks()
  PageMapBlocks,
  OpenChapterBlocks

none == <<>>
noSlot == -1

-----------------------------------------------------------------------------
(* Encoding and decoding                                                   *)

encodeRegionHeader(h) ==
  <<u64("REGION_MAGIC"), u64(h.regionBlocks), u16(h.type), u16(h.version), u16(h.numRegions), u16(h.payload)>>

decodeRegionHeader(buffer) ==
  LET v == values(buffer, <<8, 8, 2, 2, 2, 2>>)
  IN  [magic |-> v[1], regionBlocks |-> v[2], type |-> v[3], version |-> v[4], numRegions |-> v[5], payload |-> v[6]]

encodeLayoutRegion(r) == <<u64(r.startBlock), u64(r.numBlocks), u32(r.checksum), u16(r.kind), u16(r.instance)>>

decodeLayoutRegion(buffer) ==
  LET v == values(buffer, <<8, 8, 4, 2, 2>>)
  IN  [startBlock |-> v[1], numBlocks |-> v[2], checksum |-> v[3], kind |-> v[4], instance |-> v[5]]

encodeIndexSaveData(d) == <<u64(d.timestamp), u64(d.nonce), u32(d.version), u32(0)>>

decodeIndexSaveData(buffer) ==
  LET v == values(buffer, <<8, 8, 4, 4>>)
  IN  [timestamp |-> v[1], nonce |-> v[2], version |-> v[3]]

encodeSuperBlockData(s) ==
  <<[width |-> 32, value |-> s.magicLabel], [width |-> 32, value |-> s.nonceInfo], u64(s.nonce), u32(s.version),
    u32(s.blockSize), u16(s.numIndexes), u16(s.maxSaves), u32(0), u64(s.openChapterBlocks), u64(s.pageMapBlocks)>>

decodeSuperBlockData(buffer) ==
  LET v == values(buffer, <<32, 32, 8, 4, 4, 2, 2, 4, 8, 8>>)
  IN  [magicLabel |-> v[1], nonceInfo |-> v[2], nonce |-> v[3], version |-> v[4], blockSize |-> v[5],
       numIndexes |-> v[6], maxSaves |-> v[7], openChapterBlocks |-> v[9], pageMapBlocks |-> v[10]]

zeroSaveData == [timestamp |-> 0, nonce |-> 0, version |-> 0]
saveDataSize == contentLength(encodeIndexSaveData(zeroSaveData))

-----------------------------------------------------------------------------
(* Making a layout                                                         *)

(* Blocks are of one size here, so that computeSizes() is about blocks.    *)
computeSizes(numCheckpoints) ==
  LET saves == 2 + numCheckpoints
      saveBlocks == 1 + MasterIndexBlocks + PageMapBlocks + OpenChapterBlocks
      subIndexBlocks == VolumeBlocks + saves * saveBlocks
  IN  [numSaves |-> saves, saveBlocks |-> saveBlocks, subIndexBlocks |-> subIndexBlocks,
       totalBlocks |-> 3 + subIndexBlocks]

udsComputeIndexSize(numCheckpoints) == computeSizes(numCheckpoints).totalBlocks

setupLayout(start, size, kind, instance) ==
  [startBlock |-> start, numBlocks |-> size, checksum |-> 0, kind |-> kind, instance |-> instance]

endOf(r) == r.startBlock + r.numBlocks

resetIndexSaveLayout(start, saveBlocks, pageMapBlocks, instance) ==
  LET save == setupLayout(start, saveBlocks, "save", instance)
      header == setupLayout(start, 1, "header", 0)
      map == setupLayout(endOf(header), pageMapBlocks, "index page map", 0)
  IN  [indexSave |-> save, header |-> header, indexPageMap |-> map, numZones |-> 0,
       freeSpace |-> setupLayout(endOf(map), endOf(save) - endOf(map), "scratch", 0),
       masterIndexZones |-> <<>>, openChapter |-> none, saveType |-> "no save",
       saveData |-> zeroSaveData, indexStateBuffer |-> <<>>]

(* A secondary nonce is a hash of these; distinct arguments hash to        *)
(* distinct nonces.                                                        *)
generateSecondaryNonce(nonce, data) == <<nonce, data>>
generateMasterNonce(info) == <<"master", info>>

defineSubIndexNonce(masterNonce, start, indexId) == generateSecondaryNonce(masterNonce, <<start, indexId>>)

setupSubIndex(start, sls, instance, masterNonce) ==
  LET volume == setupLayout(start, VolumeBlocks, "volume", 0)
  IN  [subIndex |-> setupLayout(start, sls.subIndexBlocks, "index", instance),
       volume |-> volume,
       saves |-> [i \in 0 .. sls.numSaves - 1 |->
                   resetIndexSaveLayout(endOf(volume) + i * sls.saveBlocks, sls.saveBlocks, PageMapBlocks, i)],
       nonce |-> defineSubIndexNonce(masterNonce, start, instance)]

generateSuperBlockData(maxSaves) ==
  [magicLabel |-> "SINGLE_FILE_MAGIC_1", nonceInfo |-> "unique", nonce |-> generateMasterNonce("unique"),
   version |-> 2, blockSize |-> 1, numIndexes |-> 1, maxSaves |-> maxSaves,
   openChapterBlocks |-> OpenChapterBlocks, pageMapBlocks |-> PageMapBlocks]

initSingleFileLayout(sls) ==
  LET super == generateSuperBlockData(sls.numSaves)
      header == setupLayout(Offset, 1, "header", 0)
      config == setupLayout(endOf(header), 1, "config", 0)
      index == setupSubIndex(endOf(config), sls, 0, super.nonce)
  IN  [super |-> super, header |-> header, config |-> config, index |-> index,
       seal |-> setupLayout(endOf(index.subIndex), 1, "seal", 0), totalBlocks |-> sls.totalBlocks]

(* The regions of a slot which is about to be written, for this many       *)
(* zones.                                                                  *)
populateIndexSaveLayout(isl, super, numZones, saveType) ==
  LET header == setupLayout(isl.indexSave.startBlock, 1, "header", 0)
      map == setupLayout(endOf(header), super.pageMapBlocks, "index page map", 0)
      blocksAvail == isl.indexSave.numBlocks - (endOf(map) - isl.indexSave.startBlock) - super.openChapterBlocks
      miBlockCount == IF numZones > 0 THEN blocksAvail \div numZones ELSE 0
      afterZones == endOf(map) + numZones * miBlockCount
      hasOpen == saveType = "save" /\ isl.openChapter # none
      open == setupLayout(afterZones, super.openChapterBlocks, "open chapter", 0)
      next == IF hasOpen THEN endOf(open) ELSE afterZones
  IN  [isl EXCEPT !.header = header, !.indexPageMap = map,
                  !.masterIndexZones =
                    [z \in 1 .. numZones |->
                      setupLayout(endOf(map) + (z - 1) * miBlockCount, miBlockCount, "master index", z - 1)],
                  !.openChapter = IF hasOpen THEN open ELSE @,
                  !.freeSpace = setupLayout(next, isl.indexSave.numBlocks - (next - isl.indexSave.startBlock),
                                            "scratch", 0)]

-----------------------------------------------------------------------------
(* Writing tables of regions                                               *)

encodeRegions(regions) == FlattenSeq([i \in DOMAIN regions |-> encodeLayoutRegion(regions[i])])

makeSingleFileRegionTable(layout) ==
  <<layout.header, layout.config, layout.index.subIndex, layout.index.volume>>
    \o [i \in 1 .. layout.super.maxSaves |-> layout.index.saves[i - 1].indexSave]
    \o <<layout.seal>>

writeSingleFileHeader(layout, regions) ==
  LET super == encodeSuperBlockData(layout.super)
  IN  encodeRegionHeader([regionBlocks |-> layout.totalBlocks, type |-> "super", version |-> 1,
                          numRegions |-> Len(regions), payload |-> contentLength(super)])
        \o encodeRegions(regions) \o super

makeIndexSaveRegionTable(isl) ==
  <<isl.header, isl.indexPageMap>> \o isl.masterIndexZones
    \o (IF isl.openChapter # none THEN <<isl.openChapter>> ELSE <<>>)
    \o (IF isl.freeSpace.numBlocks > 0 THEN <<isl.freeSpace>> ELSE <<>>)

regionTypeForSaveType(saveType) == IF saveType \in {"save", "checkpoint"} THEN saveType ELSE "unsaved"

writeIndexSaveHeader(isl, regions) ==
  LET data == encodeIndexSaveData(isl.saveData) \o isl.indexStateBuffer
  IN  encodeRegionHeader([regionBlocks |-> isl.indexSave.numBlocks, type |-> regionTypeForSaveType(isl.saveType),
                          version |-> 1, numRegions |-> Len(regions), payload |-> contentLength(data)])
        \o encodeRegions(regions) \o data

(* The header of a slot is one block, so it is written as a whole.         *)
writeIndexSaveLayout(disk, isl) ==
  (isl.header.startBlock :> writeIndexSaveHeader(isl, makeIndexSaveRegionTable(isl))) @@ disk

(* The slots' headers are written before the super block, so that an index *)
(* with a super block has all of them.                                     *)
saveSubIndexRegions(disk, layout) ==
  FoldSet(LAMBDA j, d : writeIndexSaveLayout(d, layout.index.saves[j]), disk, 0 .. layout.super.maxSaves - 1)

saveSingleFileConfiguration(disk, layout) ==
  (layout.header.startBlock :> writeSingleFileHeader(layout, makeSingleFileRegionTable(layout)))
    @@ saveSubIndexRegions(disk, layout)

createIndexLayout == initSingleFileLayout(computeSizes(0))

-----------------------------------------------------------------------------
(* Reading tables of regions                                               *)

readLayout(disk, r) == IF r.startBlock \in DOMAIN disk THEN disk[r.startBlock] ELSE <<>>

(* What follows the table is the payload.                                  *)
loadRegionTable(block) ==
  LET header == decodeRegionHeader(SubSeq(block, 1, 6))
      regionAt(i) == decodeLayoutRegion(SubSeq(block, 7 + 5 * (i - 1), 11 + 5 * (i - 1)))
  IN  IF Len(block) < 6 \/ header.magic # "REGION_MAGIC" THEN [result |-> "UDS_NO_INDEX"]
      ELSE IF header.version # 1 THEN [result |-> "UDS_UNSUPPORTED_VERSION"]
      ELSE [result |-> "success", header |-> header,
            regions |-> [i \in 1 .. header.numRegions |-> regionAt(i)],
            payload |-> SubSeq(block, 7 + 5 * header.numRegions, Len(block))]

readSuperBlockData(payload, savedSize) ==
  LET super == decodeSuperBlockData(payload)
  IN  IF \/ savedSize # contentLength(payload)
         \/ super.magicLabel # "SINGLE_FILE_MAGIC_1"
         \/ super.numIndexes # 1
         \/ generateMasterNonce(super.nonceInfo) # super.nonce
      THEN [result |-> "UDS_CORRUPT_COMPONENT"]
      ELSE [result |-> "success", super |-> super]

readIndexSaveData(payload, savedSize) ==
  LET data == decodeIndexSaveData(SubSeq(payload, 1, 4))
  IN  IF savedSize = 0 THEN [result |-> "success", saveData |-> zeroSaveData, buffer |-> <<>>]
      ELSE IF savedSize < saveDataSize THEN [result |-> "UDS_CORRUPT_COMPONENT"]
      ELSE IF data.version > 1 THEN [result |-> "UDS_UNSUPPORTED_VERSION"]
      ELSE [result |-> "success", saveData |-> data,
            buffer |-> IF data.version # 0 THEN SubSeq(payload, 5, Len(payload)) ELSE <<>>]

(* A RegionIterator: the regions left, and those taken so far.             *)
iterator(regions, nextBlock) == [left |-> regions, nextBlock |-> nextBlock, taken |-> <<>>, result |-> "success"]

iterError(iter) == [iter EXCEPT !.result = "UDS_UNEXPECTED_RESULT"]

(* e is what is expected: a number of blocks, or 0, a kind and an          *)
(* instance.                                                               *)
expectLayout(expect, iter, e) ==
  IF iter.result # "success" THEN iter
  ELSE IF iter.left = <<>> THEN IF expect THEN iterError(iter) ELSE iter
  ELSE IF Head(iter.left).startBlock # iter.nextBlock THEN iterError(iter)
  ELSE IF Head(iter.left).kind # e.kind THEN IF expect THEN iterError(iter) ELSE iter
  ELSE IF \/ Head(iter.left).instance # e.instance
          \/ e.numBlocks > 0 /\ Head(iter.left).numBlocks # e.numBlocks
       THEN iterError(iter)
  ELSE [iter EXCEPT !.taken = Append(@, Head(iter.left)), !.nextBlock = @ + Head(iter.left).numBlocks,
                    !.left = Tail(@)]

a(numBlocks, kind, instance) == [numBlocks |-> numBlocks, kind |-> kind, instance |-> instance]

expectAll(iter, expected) == FoldLeft(LAMBDA it, e : expectLayout(TRUE, it, e), iter, expected)

(* The regions of the sub-index are inside the region of the index.        *)
expectSubIndex(iter, super, instance) ==
  LET whole == expectLayout(TRUE, iter, a(0, "index", instance))
      parts == expectAll([whole EXCEPT !.nextBlock = iter.nextBlock],
                         <<a(0, "volume", 0)>> \o [i \in 1 .. super.maxSaves |-> a(0, "save", i - 1)])
  IN  IF parts.result = "success" /\ parts.nextBlock # whole.nextBlock THEN iterError(parts) ELSE parts

(* What allocateSingleFileParts() allocates, filled in as far as the super *)
(* block tells.                                                            *)
reconstituteSingleFileLayout(super, table, firstBlock) ==
  LET top == expectAll(iterator(table.regions, firstBlock), <<a(1, "header", 0), a(1, "config", 0)>>)
      iter == expectLayout(TRUE, expectSubIndex(top, super, 0), a(1, "seal", 0))
      t == iter.taken
  IN  IF iter.result # "success" THEN [result |-> iter.result]
      ELSE IF iter.nextBlock # firstBlock + table.header.regionBlocks THEN [result |-> "UDS_UNEXPECTED_RESULT"]
      ELSE [result |-> "success", super |-> super, totalBlocks |-> table.header.regionBlocks,
            header |-> t[1], config |-> t[2], seal |-> t[Len(t)], subIndex |-> t[3], volume |-> t[4],
            saves |-> [i \in 0 .. super.maxSaves - 1 |-> t[5 + i]],
            nonce |-> defineSubIndexNonce(super.nonce, t[3].startBlock, 0)]

loadSuperBlock(block, firstBlock) ==
  LET table == loadRegionTable(block)
  IN  IF table.result # "success" THEN table
      ELSE IF table.header.type # "super" THEN [result |-> "UDS_CORRUPT_COMPONENT"]
      ELSE LET data == readSuperBlockData(table.payload, table.header.payload)
           IN  IF data.result # "success" THEN data
               ELSE IF data.super.blockSize # 1 THEN [result |-> "UDS_WRONG_INDEX_CONFIG"]
               ELSE reconstituteSingleFileLayout(data.super, table, firstBlock)

zoneExpectations(n) == [z \in 1 .. n |-> a(0, "master index", z - 1)]

reconstructIndexSave(isl, saveData, super, table) ==
  LET saveType == IF table.header.type \in {"save", "checkpoint"} THEN table.header.type ELSE "no save"
      start == [isl EXCEPT !.saveData = saveData, !.saveType = saveType]
      top == expectAll(iterator(table.regions, isl.indexSave.startBlock),
                       <<a(1, "header", 0), a(0, "index page map", 0)>>)
      counts == {k \in 0 .. Len(top.left) : Len(expectAll(top, zoneExpectations(k)).taken) = Len(top.taken) + k}
      zones == Max(counts)
      afterZones == expectAll(top, zoneExpectations(zones))
      afterOpen == IF saveType = "save" THEN expectLayout(TRUE, afterZones, a(0, "open chapter", 0)) ELSE afterZones
      free == expectLayout(FALSE, afterOpen, a(0, "scratch", 0))
      end == endOf(isl.indexSave)
      foundFree == Len(free.taken) > Len(afterOpen.taken)
  IN  IF \/ table.regions = <<>>
         \/ Len(table.regions) = 1 /\ table.regions[1].kind = "scratch"
      THEN [result |-> "success", isl |-> populateIndexSaveLayout(start, super, 0, "no save")]
      ELSE IF \/ free.result # "success"
              \/ free.left # <<>>
              \/ foundFree /\ free.nextBlock # end
      THEN [result |-> "UDS_UNEXPECTED_RESULT"]
      ELSE [result |-> "success",
            isl |-> [start EXCEPT !.numZones = zones, !.header = free.taken[1], !.indexPageMap = free.taken[2],
                                  !.masterIndexZones = SubSeq(free.taken, 3, 2 + zones),
                                  !.openChapter = IF saveType = "save" THEN free.taken[3 + zones] ELSE none,
                                  !.freeSpace = IF foundFree THEN Last(free.taken)
                                                ELSE setupLayout(free.nextBlock, end - free.nextBlock, "scratch", 0)]]

loadIndexSave(isl, super, block) ==
  LET table == loadRegionTable(block)
  IN  IF table.result # "success" THEN table
      ELSE IF \/ table.header.regionBlocks # isl.indexSave.numBlocks
              \/ table.header.type \notin {"save", "checkpoint", "unsaved"}
      THEN [result |-> "UDS_CORRUPT_COMPONENT"]
      ELSE LET data == readIndexSaveData(table.payload, table.header.payload)
           IN  IF data.result # "success" THEN data
               ELSE reconstructIndexSave([isl EXCEPT !.indexStateBuffer = data.buffer], data.saveData, super, table)

(* A slot as it is before its header is read.                              *)
unreadSave(region) == [resetIndexSaveLayout(region.startBlock, region.numBlocks, PageMapBlocks, region.instance)
                         EXCEPT !.indexSave = region]

(* One slot whose header cannot be read makes the whole load fail.         *)
gatherSubIndex(top, loaded) ==
  LET bad == {j \in DOMAIN loaded : loaded[j].result # "success"}
  IN  IF bad # {} THEN [result |-> loaded[Min(bad)].result]
      ELSE [result |-> "success",
            layout |-> [super |-> top.super, header |-> top.header, config |-> top.config, seal |-> top.seal,
                        totalBlocks |-> top.totalBlocks,
                        index |-> [subIndex |-> top.subIndex, volume |-> top.volume, nonce |-> top.nonce,
                                   saves |-> [j \in DOMAIN loaded |-> loaded[j].isl]]]]

loadSubIndexRegions(disk, top) ==
  IF top.result # "success" THEN top
  ELSE gatherSubIndex(top, [j \in DOMAIN top.saves |->
                             loadIndexSave(unreadSave(top.saves[j]), top.super, readLayout(disk, top.saves[j]))])

loadIndexLayout(disk) == loadSubIndexRegions(disk, loadSuperBlock(readLayout(disk, [startBlock |-> Offset]), Offset))

-----------------------------------------------------------------------------
(* The slots                                                               *)

generateIndexSaveNonce(volumeNonce, isl) ==
  generateSecondaryNonce(volumeNonce, <<isl.saveData.timestamp, isl.saveData.version, isl.indexSave.startBlock>>)

validateIndexSaveLayout(isl, volumeNonce) ==
  /\ isl.saveType # "no save"
  /\ isl.numZones # 0
  /\ isl.saveData.timestamp # 0
  /\ isl.saveData.nonce = generateIndexSaveNonce(volumeNonce, isl)

validSaves(layout) ==
  {i \in DOMAIN layout.index.saves : validateIndexSaveLayout(layout.index.saves[i], layout.index.nonce)}

timestamp(layout, i) == layout.index.saves[i].saveData.timestamp

(* The oldest valid slot, or the first which is not valid.                 *)
selectOldestIndexSaveLayout(layout) ==
  LET time(i) == IF i \in validSaves(layout) THEN timestamp(layout, i) ELSE 0
  IN  CHOOSE i \in DOMAIN layout.index.saves :
        \A j \in DOMAIN layout.index.saves : time(i) < time(j) \/ (time(i) = time(j) /\ i <= j)

(* Among saves of the same time the first is the latest.                   *)
selectLatestIndexSaveLayout(layout) ==
  LET valid == validSaves(layout)
  IN  IF valid = {} THEN noSlot
      ELSE CHOOSE i \in valid :
             \A j \in valid : \/ timestamp(layout, i) > timestamp(layout, j)
                              \/ timestamp(layout, i) = timestamp(layout, j) /\ i <= j

findLatestIndexSaveSlot(layout) == selectLatestIndexSaveLayout(layout)

(* No header says yet that this slot has been saved.                       *)
instantiateIndexSaveLayout(isl, super, volumeNonce, numZones, saveType, now) ==
  LET sized == [isl EXCEPT !.openChapter = IF saveType = "checkpoint" THEN none
                                           ELSE IF @ = none THEN setupLayout(0, 0, none, 0) ELSE @,
                           !.numZones = numZones]
      populated == [populateIndexSaveLayout(sized, super, numZones, saveType)
                      EXCEPT !.indexStateBuffer = <<>>, !.saveType = saveType,
                             !.saveData = [timestamp |-> now, nonce |-> 0, version |-> 1]]
  IN  [populated EXCEPT !.saveData.nonce = generateIndexSaveNonce(volumeNonce, populated)]

(* Each of these works on ld, which has the layout in memory and the       *)
(* storage: [layout, disk].                                                *)
invalidateOldSave(ld, i) ==
  LET isl == ld.layout.index.saves[i]
      reset == resetIndexSaveLayout(isl.indexSave.startBlock, isl.indexSave.numBlocks,
                                    ld.layout.super.pageMapBlocks, isl.indexSave.instance)
  IN  [layout |-> [ld.layout EXCEPT !.index.saves[i] = reset], disk |-> writeIndexSaveLayout(ld.disk, reset)]

setupIndexSaveSlot(ld, slot, numZones, saveType, now) ==
  LET invalid == invalidateOldSave(ld, slot)
  IN  [invalid EXCEPT !.layout.index.saves[slot] =
        instantiateIndexSaveLayout(@, ld.layout.super, ld.layout.index.nonce, numZones, saveType, now)]

(* Without the state of the index nothing is committed.                    *)
commitIndexSave(ld, slot) ==
  IF ld.layout.index.saves[slot].indexStateBuffer = <<>> THEN ld
  ELSE [ld EXCEPT !.disk = writeIndexSaveLayout(@, ld.layout.index.saves[slot])]

mutilateIndexSaveInfo(isl) ==
  [isl EXCEPT !.saveData = zeroSaveData, !.saveType = "no save", !.numZones = 0, !.indexStateBuffer = <<>>]

cancelIndexSave(ld, slot) == [ld EXCEPT !.layout.index.saves[slot] = mutilateIndexSaveInfo(@)]

discardIndexSaves(ld, all) ==
  IF all THEN FoldSet(LAMBDA i, l : invalidateOldSave(l, i), ld, DOMAIN ld.layout.index.saves)
  ELSE LET latest == selectLatestIndexSaveLayout(ld.layout)
       IN  IF latest = noSlot THEN ld ELSE invalidateOldSave(ld, latest)

(* none where the save has no such region.                                 *)
findLayoutRegion(layout, slot, kind, zone) ==
  LET isl == layout.index.saves[slot]
  IN  CASE kind = "index page map" -> isl.indexPageMap
        [] kind = "open chapter" -> isl.openChapter
        [] kind = "master index" -> IF zone < isl.numZones THEN isl.masterIndexZones[zone + 1] ELSE none

-----------------------------------------------------------------------------
NoLastCheckpoint == -1

(* MAX_COMPONENT_COUNT components, in the order in which they are added.   *)
Components == <<"index state", "open chapter", "master index", "index page map">>
saveOnly(c) == c = "open chapter"
chapterSync(c) == c \in {"index state", "index page map"}
multiZone(c) == c = "master index"
ioStorage(c) == c # "index state"

componentZones(s, c) == IF multiZone(c) THEN 0 .. s.zoneCount - 1 ELSE {0}

CheckpointComponents == SelectSeq(Components, LAMBDA c : ~saveOnly(c))

success(s) == [s |-> s, result |-> "success"]
failure(s) == [s |-> s, result |-> "error"]
ok(r) == r.result = "success"

(* Apply op to each of a sequence until one fails.                         *)
untilFailure(op(_, _), s, seq) == FoldLeft(LAMBDA r, x : IF ok(r) THEN op(r.s, x) ELSE r, success(s), seq)

zoneSeq(s, c) == SetToSortSeq(componentZones(s, c), <)

-----------------------------------------------------------------------------
(* What the components write and read                                      *)

writeIndexStateData(s) ==
  <<u32(-1), u32(301), u64(s.newest), u64(s.oldest), u64(s.lastCheckpoint), u32(0), u32(0)>>

readIndexStateData(s, buffer) ==
  LET v == values(buffer, <<4, 4, 8, 8, 8, 4, 4>>)
  IN  IF <<v[1], v[2]>> # <<-1, 301>> \/ <<v[6], v[7]>> # <<0, 0>> THEN failure(s)
      ELSE success([s EXCEPT !.newest = v[3], !.oldest = v[4], !.lastCheckpoint = v[5]])

nameZone(n, zoneCount) == n % zoneCount

(* startSavingMasterIndex() writes the header; a delta list is written     *)
(* before it next changes, so that what is saved is what the zone had when *)
(* its save began.  finishSavingMasterIndex() writes the remaining lists,  *)
(* and a guard list comes last.                                            *)
startSavingMasterIndex(s, z) ==
  [started |-> TRUE, guard |-> FALSE, high |-> s.zones[z].newest,
   records |-> {<<n, s.mi[n]>> : n \in {m \in DOMAIN s.mi : s.mi[m] # -1 /\ nameZone(m, s.zoneCount) = z}}]

nothingSaved == [started |-> FALSE, guard |-> FALSE, high |-> -1, records |-> {}]

(* writeMasterIndex(): done is what isSavingMasterIndexDone() would say.   *)
writeMasterIndex(s, z, command, done) ==
  CASE command = "start" ->
         [s |-> [s EXCEPT !.st.buffer["master index"][z] = startSavingMasterIndex(s, z)], completed |-> FALSE]
    [] command = "continue" -> [s |-> s, completed |-> done]
    [] command = "finish" ->
         [s |-> [s EXCEPT !.st.buffer["master index"][z].guard = TRUE], completed |-> TRUE]
    [] command = "abort" -> [s |-> s, completed |-> TRUE]

(* The saver of a component which has no incremental writer.  Sizes are    *)
(* of the records which are not deleted.                                   *)
saver(s, c) ==
  CASE c = "index state" -> [s EXCEPT !.layout.index.saves[s.st.saveSlot].indexStateBuffer = writeIndexStateData(s)]
    [] c = "open chapter" ->
         [s EXCEPT !.st.buffer[c][0] = [magic |-> TRUE, records |-> UNION {s.zones[z].open.names : z \in DOMAIN s.zones}]]
    [] c = "index page map" -> [s EXCEPT !.st.buffer[c][0] = s.ipm]

wrapSaverAsIncremental(s, c, command) ==
  [s |-> IF command \in {"start", "continue", "finish"} THEN saver(s, c) ELSE s, completed |-> TRUE]

(* getIncrementalWriter() chooses.                                         *)
incremental(s, c, z, command, done) ==
  IF c = "master index" THEN writeMasterIndex(s, z, command, done) ELSE wrapSaverAsIncremental(s, c, command)

-----------------------------------------------------------------------------
(* One component                                                           *)

setPhase(s, c, z, phase) == [s EXCEPT !.st.phase[c][z] = phase]

makeWriteZones(s, c) == [s EXCEPT !.st.phase[c] = [z \in componentZones(s, c) |-> "idle"]]

(* A writer needs a region of its kind in the slot.                        *)
openBufferedWriters(s, c) ==
  LET zs == componentZones(s, c)
      opened == [s EXCEPT !.st.phase[c] = [z \in zs |-> "start"],
                          !.st.writer[c] = [z \in zs |-> ioStorage(c)],
                          !.st.buffer[c] = [z \in zs |-> nothingSaved]]
  IN  IF \/ \E z \in zs : z \in DOMAIN s.st.writer[c] /\ s.st.writer[c][z]
         \/ ioStorage(c) /\ \E z \in zs : findLayoutRegion(s.layout, s.st.saveSlot, c, z) = none
      THEN failure(s)
      ELSE success(opened)

startIndexComponentSave(s, c) == openBufferedWriters(makeWriteZones(s, c), c)

(* Flush the writer to its region and free it.                             *)
closeBufferedWriter(s, c, z) ==
  IF ~s.st.writer[c][z] THEN s
  ELSE [s EXCEPT !.st.writer[c][z] = FALSE,
                 !.disk = (findLayoutRegion(s.layout, s.st.saveSlot, c, z).startBlock :> s.st.buffer[c][z]) @@ @]

freeWriteZones(s, c) ==
  [s EXCEPT !.st.phase[c] = [z \in componentZones(s, c) |-> "idle"],
            !.st.writer[c] = [z \in componentZones(s, c) |-> FALSE]]

(* indexComponentSaverIncrementalWrapper() for the master index.           *)
writeZone(s, c, z) ==
  LET begun == incremental(s, c, z, "start", FALSE)
      done == IF begun.completed THEN begun.s ELSE incremental(begun.s, c, z, "finish", FALSE).s
  IN  closeBufferedWriter(done, c, z)

writeIndexComponent(s, c, fail) ==
  LET started == startIndexComponentSave(s, c)
  IN  IF ~ok(started) THEN started
      ELSE IF fail THEN failure(freeWriteZones(started.s, c))
      ELSE success(FoldLeft(LAMBDA t, z : writeZone(t, c, z), started.s, zoneSeq(s, c)))

(* Completion statuses, least first.                                       *)
NotCompleted == 0
JustCompleted == 1
CompletedPreviously == 2

withStatus(s, status) == [s |-> s, result |-> "success", status |-> status]
failedStatus(s) == [s |-> s, result |-> "error", status |-> NotCompleted]

failedPhase(phase) == IF phase = "abort" THEN "idle" ELSE "abort"

performIndexComponentZoneSave(s, c, z, fail, done) ==
  LET phase == s.st.phase[c][z]
      r == incremental(s, c, z, phase, done)
  IN  CASE phase = "idle" -> withStatus(s, CompletedPreviously)
        [] phase = "done" -> withStatus(setPhase(s, c, z, "idle"), JustCompleted)
        [] phase \notin {"idle", "done"} /\ chapterSync(c) -> withStatus(s, NotCompleted)
        [] OTHER ->
             IF fail THEN failedStatus(setPhase(s, c, z, failedPhase(phase)))
             ELSE IF r.completed THEN withStatus(setPhase(r.s, c, z, "idle"), JustCompleted)
             ELSE withStatus(setPhase(r.s, c, z, IF phase = "start" THEN "continue" ELSE phase), NotCompleted)

performIndexComponentChapterWriterSave(s, c, fail) ==
  LET phase == s.st.phase[c][0]
      r == incremental(s, c, 0, phase, FALSE)
  IN  IF phase \in {"idle", "done"} THEN success(s)
      ELSE IF fail THEN failure(setPhase(s, c, 0, failedPhase(phase)))
      ELSE success(setPhase(r.s, c, 0, "done"))

(* A phase which is done stays so here.                                    *)
finishIndexComponentZoneSave(s, c, z, fail) ==
  LET phase == s.st.phase[c][z]
      r == incremental(s, c, z, "finish", FALSE)
  IN  CASE phase = "idle" -> withStatus(s, CompletedPreviously)
        [] phase = "done" -> withStatus(s, JustCompleted)
        [] phase = "abort" -> withStatus(s, NotCompleted)
        [] OTHER -> IF fail THEN failedStatus(setPhase(s, c, z, "abort"))
                    ELSE withStatus(setPhase(r.s, c, z, "idle"), JustCompleted)

finishIndexComponentIncrementalSave(s, c) ==
  FoldLeft(LAMBDA t, z :
             LET busy == t.st.phase[c][z] \notin {"idle", "done"}
                 done == IF busy THEN setPhase(incremental(t, c, z, "finish", FALSE).s, c, z, "idle") ELSE t
             IN  closeBufferedWriter(done, c, z),
           s, zoneSeq(s, c))

abortIndexComponentZoneSave(s, c, z) ==
  IF s.st.phase[c][z] \in {"idle", "done"} THEN withStatus(s, CompletedPreviously)
  ELSE withStatus(setPhase(incremental(s, c, z, "abort", FALSE).s, c, z, "idle"), JustCompleted)

abortIndexComponentIncrementalSave(s, c) ==
  FoldLeft(LAMBDA t, z : closeBufferedWriter(abortIndexComponentZoneSave(t, c, z).s, c, z), s, zoneSeq(s, c))

(* The errors of opening and writing the region are not returned: the      *)
(* function's result is that of looking for the slot.                      *)
discardIndexComponent(s, c) ==
  LET slot == findLatestIndexSaveSlot(s.layout)
      region == findLayoutRegion(s.layout, slot, c, 0)
  IN  IF slot = noSlot \/ region = none THEN s
      ELSE [s EXCEPT !.disk = (region.startBlock :> [magic |-> FALSE, records |-> {}]) @@ @]

-----------------------------------------------------------------------------
(* All components                                                          *)

makeIndexState(zoneCount) ==
  [saving |-> FALSE, saveSlot |-> noSlot,
   phase |-> [c \in ToSet(Components) |-> <<>>], writer |-> [c \in ToSet(Components) |-> <<>>],
   buffer |-> [c \in ToSet(Components) |-> <<>>]]

(* The time of day is taken to have advanced since the last save.          *)
prepareToSaveIndexState(s, saveType) ==
  LET slot == selectOldestIndexSaveLayout(s.layout)
      ld == setupIndexSaveSlot([layout |-> s.layout, disk |-> s.disk], slot, s.zoneCount, saveType, s.clock)
  IN  IF s.st.saving THEN failure(s)
      ELSE success([s EXCEPT !.layout = ld.layout, !.disk = ld.disk, !.st.saveSlot = slot, !.clock = @ + 1])

completeIndexSaving(s) ==
  LET ld == commitIndexSave([layout |-> s.layout, disk |-> s.disk], s.st.saveSlot)
  IN  success([s EXCEPT !.st.saving = FALSE, !.st.saveSlot = noSlot, !.layout = ld.layout, !.disk = ld.disk,
                        !.committed = TRUE])

cleanupSave(s) ==
  LET ld == cancelIndexSave([layout |-> s.layout, disk |-> s.disk], s.st.saveSlot)
  IN  [s EXCEPT !.st.saveSlot = noSlot, !.layout = ld.layout, !.disk = ld.disk]

(* The part of saveIndexState() after prepareToSaveIndexState().           *)
writeIndexComponents(s, fail) ==
  LET r == untilFailure(LAMBDA t, c : writeIndexComponent(t, c, fail /\ c = "master index"), s, Components)
  IN  IF ok(r) THEN r ELSE failure(cleanupSave(r.s))

abortIndexStateCheckpoint(s) ==
  [cleanupSave(FoldLeft(abortIndexComponentIncrementalSave, s, CheckpointComponents)) EXCEPT !.st.saving = FALSE]

startIndexStateCheckpoint(s) ==
  LET prepared == prepareToSaveIndexState(s, "checkpoint")
      r == untilFailure(startIndexComponentSave, [prepared.s EXCEPT !.st.saving = TRUE], CheckpointComponents)
  IN  IF ~ok(prepared) THEN prepared
      ELSE IF ok(r) THEN r ELSE failure(abortIndexStateCheckpoint(r.s))

performIndexStateCheckpointChapterSynchronizedSaves(s, fail) ==
  IF ~s.st.saving THEN success(s)
  ELSE untilFailure(LAMBDA t, c : performIndexComponentChapterWriterSave(t, c, fail /\ c = "index page map"),
                    s, SelectSeq(CheckpointComponents, chapterSync))

(* The status is the least of those of the components.                     *)
doIndexStateCheckpointInZone(s, z, compFunc(_, _)) ==
  IF ~s.st.saving THEN withStatus(s, CompletedPreviously)
  ELSE FoldLeft(LAMBDA r, c :
                  IF ~ok(r) THEN r
                  ELSE LET next == compFunc(r.s, c)
                       IN  [next EXCEPT !.status = IF @ < r.status THEN @ ELSE r.status],
                withStatus(s, CompletedPreviously),
                IF z > 0 THEN SelectSeq(CheckpointComponents, multiZone) ELSE CheckpointComponents)

performIndexStateCheckpointInZone(s, z, fail, done) ==
  doIndexStateCheckpointInZone(s, z, LAMBDA t, c : performIndexComponentZoneSave(t, c, z, fail, done))

finishIndexStateCheckpointInZone(s, z, fail) ==
  doIndexStateCheckpointInZone(s, z, LAMBDA t, c : finishIndexComponentZoneSave(t, c, z, fail /\ c = "master index"))

abortIndexStateCheckpointInZone(s, z) ==
  doIndexStateCheckpointInZone(s, z, LAMBDA t, c : abortIndexComponentZoneSave(t, c, z))

finishIndexStateCheckpoint(s) ==
  IF ~s.st.saving THEN success(s)
  ELSE completeIndexSaving(FoldLeft(finishIndexComponentIncrementalSave, s, CheckpointComponents))

discardIndexStateData(s) ==
  LET ld == discardIndexSaves([layout |-> s.layout, disk |-> s.disk], TRUE)
  IN  [s EXCEPT !.layout = ld.layout, !.disk = ld.disk, !.st.saveSlot = noSlot]

discardLastIndexStateSave(s) ==
  LET ld == discardIndexSaves([layout |-> s.layout, disk |-> s.disk], FALSE)
  IN  [s EXCEPT !.layout = ld.layout, !.disk = ld.disk, !.st.saveSlot = noSlot]

-----------------------------------------------------------------------------
(* Checkpoints: cp.state is none, busy (CHECKPOINT_IN_PROGRESS) or         *)
(* aborting.                                                               *)

makeIndexCheckpoint(frequency) == [state |-> "none", zonesBusy |-> 0, frequency |-> frequency, chapter |-> 0]

beginSave(s, openChapterNumber) ==
  [s EXCEPT !.prevCheckpoint = s.lastCheckpoint,
            !.lastCheckpoint = IF openChapterNumber = 0 THEN NoLastCheckpoint ELSE openChapterNumber - 1]

getCheckpointAction(cp, virtualChapter) ==
  CASE cp.frequency = 0 -> "idle"
    [] cp.frequency > 0 /\ cp.state = "aborting" -> "abort"
    [] cp.frequency > 0 /\ cp.state = "busy" ->
         IF virtualChapter % cp.frequency = cp.frequency - 1 THEN "finish" ELSE "continue"
    [] OTHER -> IF virtualChapter % cp.frequency = 0 THEN "start" ELSE "idle"

restoreCheckpoint(s) == [s EXCEPT !.lastCheckpoint = s.prevCheckpoint]

abortCheckpointing(s) ==
  IF s.cp.state = "none" THEN s ELSE restoreCheckpoint([s EXCEPT !.cp.state = "aborting"])

processChapterWriterCheckpointSaves(s, fail) ==
  LET r == performIndexStateCheckpointChapterSynchronizedSaves(s, fail)
  IN  IF s.cp.state # "busy" THEN success(s)
      ELSE IF ok(r) THEN r
      ELSE failure(restoreCheckpoint([r.s EXCEPT !.cp.state = "aborting"]))

(* The part of doCheckpointStart() which holds the mutex.                  *)
doCheckpointStart(s, virtualChapter) ==
  LET begun == beginSave([s EXCEPT !.cp.chapter = virtualChapter], virtualChapter)
      r == startIndexStateCheckpoint(begun)
  IN  IF ok(r) THEN success([r.s EXCEPT !.cp.state = "busy", !.cp.zonesBusy = s.zoneCount])
      ELSE failure(restoreCheckpoint(r.s))

(* The parts of doCheckpointProcess() and doCheckpointFinish() which take  *)
(* the mutex again, r being what the part without it returned.             *)
zoneIsDone(s, result, status) ==
  IF result # "success" THEN failure(abortCheckpointing(s))
  ELSE IF status # JustCompleted THEN success(s)
  ELSE IF s.cp.zonesBusy # 1 THEN success([s EXCEPT !.cp.zonesBusy = @ - 1])
  ELSE LET r == finishIndexStateCheckpoint([s EXCEPT !.cp.zonesBusy = 0])
       IN  [r EXCEPT !.s.cp.state = "none"]

doCheckpointAbort(s, z) ==
  LET r == abortIndexStateCheckpointInZone(s, z)
  IN  IF r.status # JustCompleted THEN success(r.s)
      ELSE IF s.cp.zonesBusy # 1 THEN success([r.s EXCEPT !.cp.zonesBusy = @ - 1])
      ELSE success([abortIndexStateCheckpoint(r.s) EXCEPT !.cp.zonesBusy = 0, !.cp.state = "none"])

(* doCheckpointFinish() for one zone of an index with nothing else to do.  *)
doCheckpointFinish(s, z, fail) ==
  LET r == finishIndexStateCheckpointInZone(s, z, fail)
  IN  zoneIsDone(r.s, r.result, r.status)

finishCheckpointing(s, fail) ==
  LET synced == processChapterWriterCheckpointSaves(s, FALSE)
      zonesDone == FoldLeft(LAMBDA r, z : IF ok(r) /\ r.s.cp.state = "busy" THEN doCheckpointFinish(r.s, z, fail) ELSE r,
                            success(synced.s), SetToSortSeq(0 .. s.zoneCount - 1, <))
      finished == finishIndexStateCheckpoint(zonesDone.s)
  IN  IF ~ok(synced) THEN synced
      ELSE IF ~ok(zonesDone) \/ zonesDone.s.cp.state # "busy" THEN zonesDone
      ELSE [finished EXCEPT !.s.cp.state = "none"]
=============================================================================
