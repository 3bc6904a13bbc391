------------------------------ MODULE SuperBlock ------------------------------
(***************************************************************************)
(* What a VDO records of itself in its super block, and how it is read     *)
(* back: base/superBlock.c and the components of vdo.c, recoveryJournal.c, *)
(* slabDepot.c and blockMap.c.  A VDO which can not be decoded is none.    *)
(*                                                                         *)
(* A buffer is a sequence of fields with their sizes (see Encoding).  The  *)
(* checksum of a buffer is the buffer itself, so that two contents never   *)
(* have the same checksum.                                                 *)
(***************************************************************************)
EXTENDS Encoding

-----------------------------------------------------------------------------
(***************************************************************************)
(* The slab depot as a whole: how many slabs there are, which zone has     *)
(* which slab, what is kept of them in the slab summary, and how the depot *)
(* is recorded, loaded and grown (base/slabDepot.c, slabSummary.c).        *)
(*                                                                         *)
(* The summary has one copy of its entries for each possible physical      *)
(* zone, one block each here.  A zone writes the entries of its slabs in   *)
(* its own copy only, so a load must combine the copies of the zones there *)
(* were before.  The value of an entry is the number of the update which   *)
(* made it.                                                                *)
(***************************************************************************)

-----------------------------------------------------------------------------
(***************************************************************************)
(* Where the parts of a VDO are on its storage, and how the super block    *)
(* records it: base/fixedLayout.c, vdoLayout.c, header.c, superBlock.c and *)
(* the encoding of the components (vdo.c, recoveryJournal.c, slabDepot.c,  *)
(* blockMap.c).                                                            *)
(*                                                                         *)
(* A layout is a record; its list of partitions is a sequence with the     *)
(* head first.  "none" stands for a NULL pointer.  Allocations do not      *)
(* fail.                                                                   *)
(***************************************************************************)

none == <<>>
ok == "VDO_SUCCESS"
allFreeBlocks == -1
outOfRange == -1

-----------------------------------------------------------------------------
(* Fixed layouts                                                           *)

makeFixedLayout(totalBlocks, startOffset) ==
  [firstFree |-> startOffset, lastFree |-> startOffset + totalBlocks, partitions |-> <<>>]

getFixedLayoutBlocksAvailable(layout) == layout.lastFree - layout.firstFree

getTotalFixedLayoutSize(layout) ==
  FoldSeq(LAMBDA p, n : p.count + n, getFixedLayoutBlocksAvailable(layout), layout.partitions)

hasPartition(layout, id) == \E i \in DOMAIN layout.partitions : layout.partitions[i].id = id

getPartition(layout, id) ==
  LET found == SelectSeq(layout.partitions, LAMBDA p : p.id = id)
  IN  IF found = <<>> THEN none ELSE Head(found)

translateToPBN(partition, block) ==
  IF block < partition.base \/ block - partition.base >= partition.count THEN outOfRange
  ELSE partition.offset + (block - partition.base)

translateFromPBN(partition, pbn) ==
  IF pbn < partition.offset \/ pbn - partition.offset >= partition.count THEN outOfRange
  ELSE pbn - partition.offset + partition.base

allocatePartition(layout, id, offset, base, count) ==
  [layout EXCEPT !.partitions = <<[id |-> id, offset |-> offset, base |-> base, count |-> count]>> \o @]

(* A layout which could not be made is none.                               *)
makeFixedLayoutPartition(layout, id, wanted, direction, base) ==
  LET free == getFixedLayoutBlocksAvailable(layout)
      count == IF wanted = allFreeBlocks THEN free ELSE wanted
      offset == IF direction = "FROM_END" THEN layout.lastFree - count ELSE layout.firstFree
      made == allocatePartition(layout, id, offset, base, count)
  IN  IF \/ wanted = allFreeBlocks /\ free = 0
         \/ wanted > free
         \/ hasPartition(layout, id)
      THEN none
      ELSE IF direction = "FROM_END" THEN [made EXCEPT !.lastFree = @ - count]
      ELSE [made EXCEPT !.firstFree = @ + count]

-----------------------------------------------------------------------------
(* Headers                                                                 *)

version(major, minor) == <<u32(major), u32(minor)>>

encodeHeader(h) == <<u32(h.id), u32(h.major), u32(h.minor), u64(h.size)>>

headerWidths == <<4, 4, 4, 8>>
encodedHeaderSize == 20

decodeHeader(buffer) ==
  LET v == values(buffer, headerWidths)
  IN  [id |-> v[1], major |-> v[2], minor |-> v[3], size |-> v[4]]

validateVersion(expected, actual) == expected.major = actual.major /\ expected.minor = actual.minor

validateHeader(expected, actual, exactSize) ==
  /\ expected.id = actual.id
  /\ validateVersion(expected, actual)
  /\ expected.size <= actual.size
  /\ exactSize => expected.size >= actual.size

afterHeader(buffer) == skipForward(buffer, Len(headerWidths))

-----------------------------------------------------------------------------
(* The encoding of a layout                                                *)

layoutHeader == [id |-> "FIXED_LAYOUT", major |-> 3, minor |-> 0, size |-> 17]
partitionWidths == <<1, 8, 8, 8>>

getEncodedSize(layout) == 17 + 25 * Len(layout.partitions)

encodePartitions_3_0(layout) ==
  FlattenSeq([i \in DOMAIN layout.partitions |->
    LET p == layout.partitions[i] IN <<u8(p.id), u64(p.offset), u64(p.base), u64(p.count)>>])

encodeLayout_3_0(layout) == <<u64(layout.firstFree), u64(layout.lastFree), u8(Len(layout.partitions))>>

encodeFixedLayout(layout) ==
  encodeHeader([layoutHeader EXCEPT !.size = getEncodedSize(layout)])
    \o encodeLayout_3_0(layout) \o encodePartitions_3_0(layout)

(* Decoding pushes each partition on the front of the list, so the list    *)
(* comes back in the opposite order.                                       *)
decodePartitions_3_0(buffer, count, layout) ==
  FoldLeft(LAMBDA l, i :
             LET v == values(skipForward(buffer, 4 * (i - 1)), partitionWidths)
             IN  allocatePartition(l, v[1], v[2], v[3], v[4]),
           layout, [i \in 1 .. count |-> i])

decodeFixedLayout(buffer) ==
  LET header == decodeHeader(buffer)
      v == values(afterHeader(buffer), <<8, 8, 1>>)
      body == skipForward(afterHeader(buffer), 3)
  IN  IF ~validateHeader(layoutHeader, header, FALSE) \/ contentLength(body) < 25 * v[3] THEN none
      ELSE [layout |-> decodePartitions_3_0(body, v[3], [firstFree |-> v[1], lastFree |-> v[2], partitions |-> <<>>]),
            rest |-> skipForward(body, 4 * v[3])]

-----------------------------------------------------------------------------
(* The layout of a VDO                                                     *)

requiredPartitions ==
  {"BLOCK_MAP_PARTITION", "BLOCK_ALLOCATOR_PARTITION", "RECOVERY_JOURNAL_PARTITION", "SLAB_SUMMARY_PARTITION"}

makeVDOFixedLayout(physicalBlocks, startingOffset, blockMapBlocks, journalBlocks, summaryBlocks) ==
  IF startingOffset + blockMapBlocks + journalBlocks + summaryBlocks > physicalBlocks THEN none
  ELSE
    LET empty == makeFixedLayout(physicalBlocks - startingOffset, startingOffset)
        withMap == makeFixedLayoutPartition(empty, "BLOCK_MAP_PARTITION", blockMapBlocks, "FROM_BEGINNING", 0)
        withSummary == makeFixedLayoutPartition(withMap, "SLAB_SUMMARY_PARTITION", summaryBlocks, "FROM_END", 0)
        withJournal == makeFixedLayoutPartition(withSummary, "RECOVERY_JOURNAL_PARTITION", journalBlocks, "FROM_END", 0)
    IN  makeFixedLayoutPartition(withJournal, "BLOCK_ALLOCATOR_PARTITION", allFreeBlocks, "FROM_BEGINNING",
                                 blockMapBlocks)

makeVDOLayout(physicalBlocks, startingOffset, blockMapBlocks, journalBlocks, summaryBlocks) ==
  [layout |-> makeVDOFixedLayout(physicalBlocks, startingOffset, blockMapBlocks, journalBlocks, summaryBlocks),
   nextLayout |-> none, previousLayout |-> none, startingOffset |-> startingOffset, copy |-> none]

getVDOPartition(vdoLayout, id) == getPartition(vdoLayout.layout, id)
getPartitionFromNextLayout(vdoLayout, id) == getPartition(vdoLayout.nextLayout, id)
getPartitionSize(vdoLayout, id) == getVDOPartition(vdoLayout, id).count
getPartitionOffset(vdoLayout, id) == getVDOPartition(vdoLayout, id).offset

decodeVDOLayout(buffer) ==
  LET decoded == decodeFixedLayout(buffer)
  IN  IF decoded = none THEN none
      ELSE IF \E id \in requiredPartitions : ~hasPartition(decoded.layout, id) THEN none
      ELSE [layout |-> [layout |-> decoded.layout, nextLayout |-> none, previousLayout |-> none, copy |-> none,
                        startingOffset |-> getPartition(decoded.layout, "BLOCK_MAP_PARTITION").offset],
            rest |-> decoded.rest]

getVDOSize(layout, startingOffset) == getTotalFixedLayoutSize(layout) + startingOffset

getNextVDOLayoutSize(vdoLayout) ==
  IF vdoLayout.nextLayout = none THEN 0 ELSE getVDOSize(vdoLayout.nextLayout, vdoLayout.startingOffset)

getNextBlockAllocatorPartitionSize(vdoLayout) ==
  IF vdoLayout.nextLayout = none THEN 0
  ELSE getPartitionFromNextLayout(vdoLayout, "BLOCK_ALLOCATOR_PARTITION").count

(* The result of preparing and the layout after it.                        *)
prepareToGrowVDOLayout(vdoLayout, oldPhysicalBlocks, newPhysicalBlocks) ==
  LET next == makeVDOFixedLayout(newPhysicalBlocks, vdoLayout.startingOffset,
                                 getPartitionSize(vdoLayout, "BLOCK_MAP_PARTITION"),
                                 getPartitionSize(vdoLayout, "RECOVERY_JOURNAL_PARTITION"),
                                 getPartitionSize(vdoLayout, "SLAB_SUMMARY_PARTITION"))
      minNewSize == oldPhysicalBlocks + getPartitionSize(vdoLayout, "SLAB_SUMMARY_PARTITION")
                    + getPartitionSize(vdoLayout, "RECOVERY_JOURNAL_PARTITION")
  IN  IF getNextVDOLayoutSize(vdoLayout) = newPhysicalBlocks THEN [result |-> ok, layout |-> vdoLayout]
      ELSE IF next = none
      THEN [result |-> "VDO_NO_SPACE", layout |-> [vdoLayout EXCEPT !.nextLayout = none, !.copy = none]]
      ELSE IF minNewSize > newPhysicalBlocks
      THEN [result |-> "VDO_INCREMENT_TOO_SMALL", layout |-> [vdoLayout EXCEPT !.nextLayout = none, !.copy = none]]
      ELSE [result |-> ok,
            layout |-> [vdoLayout EXCEPT !.nextLayout = next, !.copy = IF @ = none THEN <<"copy", 0>> ELSE @]]

growVDOLayout(vdoLayout) ==
  [vdoLayout EXCEPT !.previousLayout = vdoLayout.layout, !.layout = vdoLayout.nextLayout, !.nextLayout = none]

finishVDOLayoutGrowth(vdoLayout) == [vdoLayout EXCEPT !.previousLayout = none, !.nextLayout = none, !.copy = none]

-----------------------------------------------------------------------------
CONSTANTS
  SlabSize,         \* blocks in a slab
  MaxSlabs,         \* MAX_SLABS
  MaxZones          \* MAX_PHYSICAL_ZONES

slabNumbers == 0 .. MaxSlabs - 1
copies == 0 .. MaxZones - 1

(* The entry of a slab which was never updated.                            *)
initialEntries == [n \in slabNumbers |-> 0]

computeSlabCount(firstBlock, lastBlock) == (lastBlock - firstBlock) \div SlabSize

-----------------------------------------------------------------------------
(* Recording the depot                                                     *)

depotHeader == [id |-> "SLAB_DEPOT", major |-> 2, minor |-> 0, size |-> 73]
depotWidths == [i \in 1 .. 9 |-> 8] \o <<1>>

encodeSlabConfig(config) ==
  <<u64(config.slabBlocks), u64(config.dataBlocks), u64(config.referenceCountBlocks), u64(config.slabJournalBlocks),
    u64(config.flushing), u64(config.blocking), u64(config.scrubbing)>>

decodeSlabConfig(v) ==
  [slabBlocks |-> v[1], dataBlocks |-> v[2], referenceCountBlocks |-> v[3], slabJournalBlocks |-> v[4],
   flushing |-> v[5], blocking |-> v[6], scrubbing |-> v[7]]

encodeSlabDepot(depot) ==
  encodeHeader(depotHeader) \o encodeSlabConfig(depot.slabConfig)
    \o <<u64(depot.firstBlock), u64(depot.lastBlock),
         u8(IF depot.zoneCount = 0 THEN depot.oldZoneCount ELSE depot.zoneCount)>>

configureState(blockCount, firstBlock) ==
  LET slabs == blockCount \div SlabSize
  IN  IF slabs = 0 THEN [result |-> "VDO_NO_SPACE"]
      ELSE IF slabs > MaxSlabs THEN [result |-> "VDO_TOO_MANY_SLABS"]
      ELSE [result |-> ok, lastBlock |-> firstBlock + slabs * SlabSize]

(* The slabs of a depot are consecutive; a slab belongs to the zone of its *)
(* number modulo the number of zones.  newSlabs has the old slabs too.     *)
allocateSlabs(depot, slabCount) ==
  [depot EXCEPT
    !.newSlabs = depot.slabs \o
      [i \in 1 .. slabCount - depot.slabCount |->
        LET n == depot.slabCount + i - 1
        IN  [start |-> depot.firstBlock + n * SlabSize, zone |-> n % depot.zoneCount, number |-> n]],
    !.newSlabCount = slabCount]

abandonNewSlabs(depot) ==
  IF depot.newSlabs = none THEN depot
  ELSE [depot EXCEPT !.newSlabCount = 0, !.newSlabs = none, !.newSize = 0]

(* none when there are more zones than slabs.                              *)
allocateDepot(config, firstBlock, lastBlock, oldZoneCount, zoneCount, origin) ==
  LET slabCount == computeSlabCount(firstBlock, lastBlock)
      depot == [slabConfig |-> config, firstBlock |-> firstBlock, lastBlock |-> lastBlock,
                oldZoneCount |-> oldZoneCount, zoneCount |-> zoneCount, slabs |-> <<>>, slabCount |-> 0,
                newSlabs |-> none, newSlabCount |-> 0, newSize |-> 0, newLastBlock |-> 0,
                origin |-> origin, entries |-> [z \in copies |-> initialEntries], zonesToScrub |-> 0]
      allocated == allocateSlabs(depot, slabCount)
  IN  IF zoneCount > slabCount THEN none
      ELSE [allocated EXCEPT !.slabs = allocated.newSlabs, !.slabCount = slabCount, !.newSlabs = none,
                             !.newSlabCount = 0]

(* origin is where the summary's partition is.                             *)
decodeSlabDepot(buffer, zoneCount, origin) ==
  LET v == values(afterHeader(buffer), depotWidths)
  IN  IF ~validateHeader(depotHeader, decodeHeader(buffer), TRUE) THEN none
      ELSE [depot |-> allocateDepot(decodeSlabConfig(v), v[8], v[9], v[10], zoneCount, origin),
            rest |-> skipForward(afterHeader(buffer), Len(depotWidths))]

-----------------------------------------------------------------------------
(* Finding blocks                                                          *)

getSlabNumber(depot, pbn) ==
  IF pbn < depot.firstBlock THEN -1
  ELSE LET n == (pbn - depot.firstBlock) \div SlabSize IN IF n >= depot.slabCount THEN -1 ELSE n

isPhysicalDataBlock(depot, pbn) ==
  \/ pbn = 0
  \/ getSlabNumber(depot, pbn) # -1 /\ (pbn - depot.firstBlock) % SlabSize < depot.slabConfig.dataBlocks

-----------------------------------------------------------------------------
(* The summary                                                             *)

(* The copy the entry of a slab is in.                                     *)
getSlabSummaryForZone(depot, slab) == slab % depot.zoneCount

updateSlabSummaryEntry(depot, slab, entry) ==
  [depot EXCEPT !.entries[getSlabSummaryForZone(depot, slab)][slab] = entry]

combineZones(entries, zonesToCombine) ==
  LET combined == [n \in slabNumbers |-> IF zonesToCombine > 1 THEN entries[n % zonesToCombine][n] ELSE entries[0][n]]
  IN  [z \in copies |-> combined]

setSlabSummaryOrigin(depot, partition) == [depot EXCEPT !.origin = partition.offset]

-----------------------------------------------------------------------------
(* Growing                                                                 *)

getNewDepotSize(depot) == IF depot.newSlabs = none THEN 0 ELSE depot.newSize

prepareToGrowSlabDepot(depot, newSize) ==
  LET state == configureState(newSize, depot.firstBlock)
      newSlabCount == computeSlabCount(depot.firstBlock, state.lastBlock)
  IN  IF newSize \div SlabSize <= depot.slabCount THEN [result |-> "VDO_INCREMENT_TOO_SMALL", depot |-> depot]
      ELSE IF state.result # ok THEN [result |-> state.result, depot |-> depot]
      ELSE IF newSlabCount <= depot.slabCount THEN [result |-> "VDO_INCREMENT_TOO_SMALL", depot |-> depot]
      ELSE IF newSlabCount = depot.newSlabCount THEN [result |-> ok, depot |-> depot]
      ELSE [result |-> ok,
            depot |-> [allocateSlabs(abandonNewSlabs(depot), newSlabCount) EXCEPT
                        !.newSize = newSize, !.newLastBlock = state.lastBlock]]

updateSlabDepotSize(depot) == [depot EXCEPT !.lastBlock = depot.newLastBlock]

finishRegistration(depot) ==
  [depot EXCEPT !.slabCount = depot.newSlabCount, !.slabs = depot.newSlabs, !.newSlabs = none, !.newSlabCount = 0]

-----------------------------------------------------------------------------
sectorSize == 512
nonce == 7
currentRelease == 6

-----------------------------------------------------------------------------
(* The super block                                                         *)

superBlockHeader == [id |-> "SUPER_BLOCK", major |-> 12, minor |-> 0, size |-> 8]

(* A super block must be in a single sector, or a torn write could break   *)
(* it; a buffer which is too small fails the encoding.                     *)
encodeSuperBlock(components) ==
  LET content == encodeHeader([superBlockHeader EXCEPT !.size = @ + contentLength(components)])
                 \o <<u32(currentRelease)>> \o components
  IN  IF contentLength(content) + 4 > sectorSize THEN none ELSE content \o <<u32(content)>>

(* The components, none when they are damaged.                             *)
decodeSuperBlock(buffer) ==
  LET header == decodeHeader(buffer)
      content == SubSeq(buffer, 1, Len(buffer) - 1)
      fields == Len(headerWidths) + 1
  IN  IF ~validateHeader(superBlockHeader, header, FALSE) \/ header.size > sectorSize - encodedHeaderSize THEN none
      ELSE IF Last(buffer) # u32(content) THEN none
      ELSE [release |-> values(afterHeader(buffer), <<4>>)[1], components |-> skipForward(content, fields)]

-----------------------------------------------------------------------------
(* The VDO itself                                                          *)

masterVersion == version(67, 0)
componentVersion == version(41, 0)

encodeMasterVersion == masterVersion

encodeVDOConfig(config) ==
  <<u64(config.logicalBlocks), u64(config.physicalBlocks), u64(config.slabSize), u64(config.recoveryJournalSize),
    u64(config.slabJournalBlocks)>>

encodeVDOComponent(vdo) ==
  componentVersion
    \o <<u32(vdo.state), u64(vdo.completeRecoveries), u64(vdo.readOnlyRecoveries)>>
    \o encodeVDOConfig(vdo.config) \o <<u64(nonce)>>

decodeVDOConfig(v) ==
  [logicalBlocks |-> v[1], physicalBlocks |-> v[2], slabSize |-> v[3], recoveryJournalSize |-> v[4],
   slabJournalBlocks |-> v[5]]

validateVDOVersion(super) ==
  super.release = currentRelease /\ SubSeq(super.components, 1, 2) = masterVersion

decodeVDOComponent(buffer) ==
  LET v == values(skipForward(buffer, 2), <<4, 8, 8, 8, 8, 8, 8, 8, 8>>)
  IN  IF SubSeq(buffer, 1, 2) # componentVersion THEN none
      ELSE [state |-> v[1], completeRecoveries |-> v[2], readOnlyRecoveries |-> v[3],
            config |-> decodeVDOConfig(SubSeq(v, 4, 8)), nonce |-> v[9], rest |-> skipForward(buffer, 11)]

MAX_SLAB_BITS == 23

isPowerOfTwo(n) == \E k \in 0 .. MAX_SLAB_BITS : n = 2 ^ k

COUNTS_PER_BLOCK == 8 * (512 - 8)

getSavedReferenceCountSize(blockCount) == (blockCount + COUNTS_PER_BLOCK - 1) \div COUNTS_PER_BLOCK

(* configureSlab(), as far as it can fail: the slab has room for its       *)
(* journal, the blocks of its reference counts and one block of data.      *)
canConfigureSlab(slabSize, slabJournalBlocks) ==
  slabSize - slabJournalBlocks > getSavedReferenceCountSize(slabSize - slabJournalBlocks)

(* MAXIMUM_PHYSICAL_BLOCKS and MAXIMUM_LOGICAL_BLOCKS are 2^36 and 2^40,   *)
(* above every number TLC has.                                             *)
validateVDOConfig(config, blockCount) ==
  /\ isPowerOfTwo(config.slabSize)
  /\ config.slabJournalBlocks \in 2 .. config.slabSize
  /\ canConfigureSlab(config.slabSize, config.slabJournalBlocks)
  /\ config.physicalBlocks \in 1 .. blockCount
  /\ config.logicalBlocks > 0
  /\ isPowerOfTwo(config.recoveryJournalSize)

-----------------------------------------------------------------------------
(* The recovery journal and the block map                                  *)

journalHeader == [id |-> "RECOVERY_JOURNAL", major |-> 7, minor |-> 0, size |-> 24]

encodeRecoveryJournal(journal) ==
  encodeHeader(journalHeader)
    \o <<u64(IF journal.saved THEN journal.tail ELSE journal.head), u64(journal.logicalBlocksUsed),
         u64(journal.blockMapDataBlocks)>>

setJournalTail(journal, tail) == [journal EXCEPT !.tail = tail]

initializeJournalState(journal) == [journal EXCEPT !.head = journal.tail]

makeRecoveryJournal(partition, recoveryCount) ==
  [partition |-> partition, recoveryCount |-> recoveryCount, tail |-> 1, head |-> 1, saved |-> FALSE,
   logicalBlocksUsed |-> 0, blockMapDataBlocks |-> 0]

decodeRecoveryJournal(journal, buffer) ==
  LET v == values(afterHeader(buffer), <<8, 8, 8>>)
  IN  IF ~validateHeader(journalHeader, decodeHeader(buffer), TRUE) THEN none
      ELSE [journal |-> initializeJournalState([setJournalTail(journal, v[1]) EXCEPT
                          !.logicalBlocksUsed = v[2], !.blockMapDataBlocks = v[3]]),
            rest |-> skipForward(afterHeader(buffer), 3)]

initializeRecoveryJournalPostRecovery(journal, recoveryCount, tail) ==
  initializeJournalState([setJournalTail(journal, tail + 1) EXCEPT !.recoveryCount = recoveryCount])

initializeRecoveryJournalPostRebuild(journal, recoveryCount, tail, logicalBlocksUsed, blockMapDataBlocks) ==
  [initializeRecoveryJournalPostRecovery(journal, recoveryCount, tail) EXCEPT
    !.logicalBlocksUsed = logicalBlocksUsed, !.blockMapDataBlocks = blockMapDataBlocks]

(* A mutant: the journal stays in its old partition.                       *)
keepRecoveryJournalPartition(journal, partition) == journal

setRecoveryJournalPartition(journal, partition) == [journal EXCEPT !.partition = partition]

blockMapHeader == [id |-> "BLOCK_MAP", major |-> 2, minor |-> 0, size |-> 32]

encodeBlockMap(map) ==
  encodeHeader(blockMapHeader) \o <<u64(1), u64(map.flatPageCount), u64(map.rootOrigin), u64(map.rootCount)>>

makeBlockMap(logicalBlocks, flatPageCount, rootOrigin, rootCount) ==
  [entryCount |-> logicalBlocks, nextEntryCount |-> 0, flatPageCount |-> flatPageCount, rootOrigin |-> rootOrigin,
   rootCount |-> rootCount]

decodeBlockMap(buffer, logicalBlocks) ==
  LET v == values(afterHeader(buffer), <<8, 8, 8, 8>>)
  IN  IF ~validateHeader(blockMapHeader, decodeHeader(buffer), TRUE) \/ v[1] # 1 THEN none
      ELSE [map |-> makeBlockMap(logicalBlocks, v[2], v[3], v[4]), rest |-> skipForward(afterHeader(buffer), 4)]

-----------------------------------------------------------------------------
(* All of it                                                               *)

encodeVDO(vdo) ==
  encodeMasterVersion \o encodeVDOComponent(vdo) \o encodeFixedLayout(vdo.layout.layout)
    \o encodeRecoveryJournal(vdo.journal) \o encodeSlabDepot(vdo.depot) \o encodeBlockMap(vdo.blockMap)

checkVDOComponent(component, blockCount) ==
  IF component = none THEN none
  ELSE IF component.nonce # nonce \/ ~validateVDOConfig(component.config, blockCount) THEN none ELSE component

startVDODecode(super, blockCount) ==
  IF super = none THEN none
  ELSE IF ~validateVDOVersion(super) THEN none
  ELSE checkVDOComponent(decodeVDOComponent(skipForward(super.components, 2)), blockCount)

(* finishVDODecode(): the components after the layout, in the order they   *)
(* were encoded.                                                           *)
finishDecodingMap(journal, depot, map) ==
  IF map = none THEN none ELSE [journal |-> journal, depot |-> depot, blockMap |-> map.map, rest |-> map.rest]

finishDecodingDepot(component, journal, depot) ==
  IF depot = none THEN none
  ELSE IF depot.depot = none THEN none
  ELSE finishDecodingMap(journal, depot.depot, decodeBlockMap(depot.rest, component.config.logicalBlocks))

finishDecodingJournal(component, layout, journal, zoneCount) ==
  IF journal = none THEN none
  ELSE finishDecodingDepot(component, journal.journal,
         decodeSlabDepot(journal.rest, zoneCount, getPartitionOffset(layout, "SLAB_SUMMARY_PARTITION")))

finishVDODecode(component, layout, buffer, zoneCount) ==
  finishDecodingJournal(component, layout,
    decodeRecoveryJournal(makeRecoveryJournal(getVDOPartition(layout, "RECOVERY_JOURNAL_PARTITION"),
                                              component.completeRecoveries), buffer),
    zoneCount)
=============================================================================
