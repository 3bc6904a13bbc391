------------------------------- MODULE Recovery -------------------------------
(***************************************************************************)
(* Recovery from a crash (vdo/base/vdoRecovery.c, recoveryUtils.c and      *)
(* blockMapRecovery.c): the recovery journal which a crash left, sector by *)
(* sector, is read, entries are replayed into the slab journals, decrefs   *)
(* which were lost are made up for, and then entries are replayed into the *)
(* block map.  A crash may interrupt any of this, and recovery starts      *)
(* again.                                                                  *)
(*                                                                         *)
(* The VDO which runs before the crash is as simple as recovery allows.    *)
(* Each write journals an increment for its block, a decrement for the     *)
(* block the logical block was mapped to, and then changes the block map.  *)
(* One journal write is outstanding at a time, and flushes first.  The     *)
(* block map and the slabs write what is stable in the journal (PageCache  *)
(* and Slab have how they do it), one slab has all reference counts, and   *)
(* each logical block has a block map page of its own.                     *)
(***************************************************************************)
EXTENDS Storage, SequencesExt, Functions

CONSTANTS
  LogicalBlocks, PhysicalBlocks,   \* physical blocks are numbered from 1
  RecoveryJournalSize,             \* in blocks
  ReservedBlocks,                  \* RECOVERY_JOURNAL_RESERVED_BLOCKS
  SectorsPerBlock,                 \* with the one of the header
  EntriesPerSector,
  EntriesPerLastSector,
  Workloads                        \* what is written: sequences of logical and
                                   \* physical blocks, and how many crashes there are

VARIABLES journal, map, slab, super, vdo

vars == <<journal, map, slab, super, vdo>>

ZeroBlock == 0
entriesPerBlock == EntriesPerSector * (SectorsPerBlock - 2) + EntriesPerLastSector
dataSectors == 1 .. SectorsPerBlock - 1

none == [sequenceNumber |-> 0]

-----------------------------------------------------------------------------
(* The journal on storage                                                  *)

blockNumber(sequence) == sequence % RecoveryJournalSize
checkByte(sequence) == (sequence \div RecoveryJournalSize) % 2

increment(lbn, pbn) == [operation |-> "increment", slot |-> lbn, pbn |-> pbn]
decrement(lbn, pbn) == [operation |-> "decrement", slot |-> lbn, pbn |-> pbn]

(* The sectors of a block with these entries.                              *)
sectorOf(entries, s) ==
  SubSeq(entries, (s - 1) * EntriesPerSector + 1, IF s * EntriesPerSector < Len(entries) THEN s * EntriesPerSector
                                                  ELSE Len(entries))

headerSector(block, v, recoveryCount) ==
  [sequenceNumber |-> block.sequenceNumber, entryCount |-> Len(block.entries), checkByte |-> checkByte(block.sequenceNumber),
   recoveryCount |-> recoveryCount, blockMapHead |-> v.blockMapHead, slabJournalHead |-> v.slabJournalHead,
   logicalBlocksUsed |-> block.usedBefore]

(* A sector is set up when the one before it is full.                      *)
dataSector(block, s, recoveryCount) ==
  IF Len(block.entries) >= (s - 1) * EntriesPerSector
  THEN [checkByte |-> checkByte(block.sequenceNumber), recoveryCount |-> recoveryCount,
        entries |-> sectorOf(block.entries, s)]
  ELSE [checkByte |-> 2, recoveryCount |-> 0, entries |-> <<>>]

sectors == (0 .. RecoveryJournalSize - 1) \X (0 .. SectorsPerBlock - 1)

(* commitRecoveryBlock() writes all of the block.                          *)
writeBlock(disk, block, v, recoveryCount) ==
  FoldSet(LAMBDA s, d : issueWrite(d, <<blockNumber(block.sequenceNumber), s>>,
                                   IF s = 0 THEN headerSector(block, v, recoveryCount) ELSE dataSector(block, s, recoveryCount)),
          disk, 0 .. SectorsPerBlock - 1)

written(disk) == FoldSet(LAMBDA l, d : completeWriteTo(d, l, TRUE), disk, DOMAIN disk)

-----------------------------------------------------------------------------
(* Finding the entries                                                     *)

header(disk, sequence) == contents(disk, <<blockNumber(sequence), 0>>)
sector(disk, sequence, s) == contents(disk, <<blockNumber(sequence), s>>)

isValidBlock(h, recoveryCount) == h.sequenceNumber # 0 /\ h.recoveryCount = recoveryCount
isExactBlock(h, sequence, recoveryCount) == h.sequenceNumber = sequence /\ isValidBlock(h, recoveryCount)
isCongruentBlock(h, b, recoveryCount) == isValidBlock(h, recoveryCount) /\ blockNumber(h.sequenceNumber) = b
isValidSector(h, s) == h.checkByte = s.checkByte /\ h.recoveryCount = s.recoveryCount

(* findHeadAndTail(), given the tail of the journal when it was loaded.    *)
findHeadAndTail(disk, tail, recoveryCount) ==
  LET found == {h \in {contents(disk, <<b, 0>>) : b \in 0 .. RecoveryJournalSize - 1} : isValidBlock(h, recoveryCount)}
      headers == {h \in found : h = header(disk, h.sequenceNumber)}
  IN  [found |-> \E h \in headers : h.sequenceNumber >= tail,
       highestTail |-> Max({tail} \cup {h.sequenceNumber : h \in headers}),
       blockMapHead |-> Max({0} \cup {h.blockMapHead : h \in headers}),
       slabJournalHead |-> Max({0} \cup {h.slabJournalHead : h \in headers})]

(* The usable entries of a block: sectors up to the first torn or short    *)
(* one, and no more entries than the header counts.                        *)
entriesOfSector(disk, sequence, s, limit) ==
  LET entries == sector(disk, sequence, s).entries IN SubSeq(entries, 1, Min({Len(entries), limit}))

takeSector(disk, sequence, taken, s) ==
  LET h == header(disk, sequence)
      left == h.entryCount - Len(taken.entries)
      usable == entriesOfSector(disk, sequence, s, left)
  IN  IF taken.ended \/ ~isValidSector(h, sector(disk, sequence, s)) THEN [taken EXCEPT !.ended = TRUE]
      ELSE [entries |-> taken.entries \o usable,
            ended |-> Len(usable) < EntriesPerSector \/ Len(usable) = left]

usableEntries(disk, sequence) ==
  FoldLeft(LAMBDA taken, s : takeSector(disk, sequence, taken, s), [entries |-> <<>>, ended |-> FALSE],
           [s \in dataSectors |-> s]).entries

pointAt(sequence, k) == <<sequence, k>>
beforePoint(a, b) == a[1] < b[1] \/ (a[1] = b[1] /\ a[2] < b[2])

(* findContiguousRange(): the entries from the head on, with their places, *)
(* up to the first block which is missing, not full or torn.               *)
takeBlock(disk, taken, sequence, recoveryCount) ==
  LET h == header(disk, sequence)
      entries == usableEntries(disk, sequence)
  IN  IF taken.ended \/ ~isExactBlock(h, sequence, recoveryCount) \/ h.entryCount > entriesPerBlock
      THEN [taken EXCEPT !.ended = TRUE]
      ELSE [tail |-> IF entries = <<>> THEN taken.tail ELSE sequence,
            entries |-> taken.entries \o
                        [k \in DOMAIN entries |-> [entry |-> entries[k], point |-> pointAt(sequence, k - 1)]],
            ended |-> h.entryCount # entriesPerBlock \/ Len(entries) < h.entryCount]

findContiguousRange(disk, heads, recoveryCount) ==
  LET first == Min({heads.blockMapHead, heads.slabJournalHead})
  IN  FoldLeft(LAMBDA taken, k : takeBlock(disk, taken, first + k - 1, recoveryCount),
               [tail |-> first, entries |-> <<>>, ended |-> FALSE], [k \in 1 .. heads.highestTail + 1 - first |-> k])

isMapped(pbn) == pbn # ZeroBlock

(* computeUsages(): the blocks in use when the tail was opened, and its    *)
(* entries.                                                                *)
computeUsages(disk, range) ==
  LET inTail == SelectSeq(range.entries, LAMBDA e : e.point[1] = range.tail /\ isMapped(e.entry.pbn))
  IN  header(disk, range.tail).logicalBlocksUsed
        + FoldLeft(LAMBDA n, e : IF e.entry.operation = "increment" THEN n + 1 ELSE n - 1, 0, inTail)

(* findMissingDecrefs() goes back over the entries.  For each slot it       *)
(* remembers a decref whose increment is still to come (Paired), or which  *)
(* missing decref awaits the increment before its own; 0 is neither.       *)
Paired == -1

(* Mutant: only the block map is asked which block a missing decref is of. *)
seenOnce(scan, entry) ==
  LET slot == entry.slot
      mark == scan.slots[slot]
  IN  CASE entry.operation = "decrement" -> [scan EXCEPT !.slots[slot] = IF @ = 0 THEN Paired ELSE @]
        [] entry.operation = "increment" /\ mark = 0 ->
             [missing |-> Append(scan.missing, [slot |-> slot, pbn |-> ZeroBlock, complete |-> FALSE]),
              slots |-> [scan.slots EXCEPT ![slot] = Len(scan.missing) + 1]]
        [] OTHER -> [scan EXCEPT !.slots[slot] = 0]

seen(scan, entry) ==
  LET slot == entry.slot
      mark == scan.slots[slot]
  IN  IF entry.operation = "decrement" THEN [scan EXCEPT !.slots[slot] = IF @ = 0 THEN Paired ELSE @]
      ELSE IF mark = Paired THEN [scan EXCEPT !.slots[slot] = 0]
      ELSE IF mark = 0 THEN [missing |-> Append(scan.missing, [slot |-> slot, pbn |-> ZeroBlock, complete |-> FALSE]),
                             slots |-> [scan.slots EXCEPT ![slot] = Len(scan.missing) + 1]]
      ELSE [missing |-> [scan.missing EXCEPT ![mark].pbn = entry.pbn, ![mark].complete = TRUE],
            slots |-> [scan.slots EXCEPT ![slot] = 0]]

(* Each gets a journal point of its own, after all entries of the tail.    *)
findMissingDecrefs(range) ==
  LET missing == FoldRight(LAMBDA e, scan : seen(scan, e.entry), range.entries,
                           [missing |-> <<>>, slots |-> [l \in LogicalBlocks |-> 0]]).missing
  IN  [k \in DOMAIN missing |-> missing[k] @@ [point |-> pointAt(range.tail, entriesPerBlock + k - 1)]]

(* The pages which are not known from the journal are fetched.             *)
fetched(missing, pages) ==
  [k \in DOMAIN missing |-> IF missing[k].complete THEN missing[k]
                            ELSE [missing[k] EXCEPT !.pbn = contents(pages, missing[k].slot), !.complete = TRUE]]

-----------------------------------------------------------------------------
(* The VDO before a crash                                                  *)

idle == [state |-> "idle"]

(* A VDO whose journal begins at a block.  base is what is mapped then, and*)
(* found is for what recovery finds.                                       *)
started(sequence, base, used, script, crashes) ==
  [phase |-> "running", first |-> sequence, entries |-> <<>>, committed |-> 0, stable |-> 0, writing |-> 0,
   usedBefore |-> <<used>>, used |-> used, blockMapHead |-> sequence, slabJournalHead |-> sequence, applied |-> 0,
   memory |-> base, lock |-> [l \in LogicalBlocks |-> 0], vio |-> [l \in LogicalBlocks |-> idle],
   writingPages |-> {}, base |-> base, script |-> script, crashes |-> crashes]

sequenceOf(v, index) == v.first + (index - 1) \div entriesPerBlock
pointOf(v, index) == pointAt(sequenceOf(v, index), (index - 1) % entriesPerBlock)
tailOf(v) == sequenceOf(v, Len(v.entries) + 1)

(* The block and what was in use when it was opened.                       *)
blockOf(v, sequence) ==
  LET before == (sequence - v.first) * entriesPerBlock
  IN  [sequenceNumber |-> sequence, usedBefore |-> v.usedBefore[sequence - v.first + 1],
       entries |-> SubSeq(v.entries, before + 1, Min({before + entriesPerBlock, Len(v.entries)}))]

(* getRecoveryJournalLength() keeps blocks back, so that no write of a     *)
(* block overwrites one which is the head as far as storage knows.         *)
hasRoomFor(v, length) == tailOf(v) - length < Min({v.blockMapHead, v.slabJournalHead})

hasRoom(v) == hasRoomFor(v, RecoveryJournalSize - ReservedBlocks)

assignEntry(v, entry) ==
  LET change == IF ~isMapped(entry.pbn) THEN 0 ELSE IF entry.operation = "increment" THEN 1 ELSE -1
      opened == IF Len(v.entries) % entriesPerBlock = 0 /\ v.entries # <<>> THEN Append(v.usedBefore, v.used) ELSE v.usedBefore
  IN  [v EXCEPT !.entries = Append(@, entry), !.used = @ + change, !.usedBefore = opened]

(* The next write of the workload, to a logical block without one.         *)
Write(lbn) ==
  /\ vdo.phase = "running" /\ vdo.script # <<>> /\ Head(vdo.script)[1] = lbn /\ vdo.vio[lbn] = idle /\ hasRoom(vdo)
  /\ LET pbn == Head(vdo.script)[2]
     IN  vdo' = [assignEntry(vdo, increment(lbn, pbn)) EXCEPT
                  !.script = Tail(@),
                  !.vio[lbn] = [state |-> "incrementing", pbn |-> pbn, increment |-> Len(vdo.entries) + 1]]
  /\ UNCHANGED <<journal, map, slab, super>>

JournalDecrement(lbn) ==
  /\ vdo.phase = "running" /\ vdo.vio[lbn].state = "incrementing"
  /\ vdo.committed >= vdo.vio[lbn].increment /\ hasRoom(vdo)
  /\ vdo' = [assignEntry(vdo, decrement(lbn, vdo.memory[lbn])) EXCEPT
               !.vio[lbn] = [@ EXCEPT !.state = "decrementing"] @@ [decrement |-> Len(vdo.entries) + 1]]
  /\ UNCHANGED <<journal, map, slab, super>>

PutMapping(lbn) ==
  /\ vdo.phase = "running" /\ vdo.vio[lbn].state = "decrementing" /\ vdo.committed >= vdo.vio[lbn].decrement
  /\ lbn \notin vdo.writingPages
  /\ vdo' = [vdo EXCEPT !.memory[lbn] = vdo.vio[lbn].pbn, !.vio[lbn] = idle,
                        !.lock[lbn] = IF @ = 0 THEN sequenceOf(vdo, vdo.vio[lbn].increment) ELSE @]
  /\ UNCHANGED <<journal, map, slab, super>>

(* A flush of the storage makes what has been written stable.              *)
flush(v) == [v EXCEPT !.stable = v.committed]

CommitBlock ==
  /\ vdo.phase = "running" /\ vdo.writing = 0 /\ vdo.committed < Len(vdo.entries)
  /\ LET block == blockOf(vdo, sequenceOf(vdo, vdo.committed + 1)) IN
     /\ journal' = writeBlock(flushDisk(journal), block, vdo, super.recoveryCount)
     /\ vdo' = [flush(vdo) EXCEPT !.writing = (block.sequenceNumber - vdo.first) * entriesPerBlock + Len(block.entries)]
  /\ map' = flushDisk(map)
  /\ UNCHANGED <<slab, super>>

EndCommit ==
  /\ vdo.phase = "running" /\ vdo.writing > 0
  /\ journal' = written(journal)
  /\ vdo' = [vdo EXCEPT !.committed = vdo.writing, !.writing = 0]
  /\ UNCHANGED <<map, slab, super>>

(* A dirty page is written after a flush; its lock is held until then.     *)
WritePage(lbn) ==
  /\ vdo.phase = "running" /\ vdo.lock[lbn] # 0 /\ lbn \notin vdo.writingPages
  /\ map' = issueWrite(flushDisk(map), lbn, vdo.memory[lbn])
  /\ journal' = flushDisk(journal)
  /\ vdo' = [flush(vdo) EXCEPT !.writingPages = @ \cup {lbn}]
  /\ UNCHANGED <<slab, super>>

EndPageWrite(lbn) ==
  /\ vdo.phase = "running" /\ lbn \in vdo.writingPages
  /\ map' = completeWriteTo(map, lbn, TRUE)
  /\ vdo' = [vdo EXCEPT !.writingPages = @ \ {lbn}, !.lock[lbn] = 0]
  /\ UNCHANGED <<journal, slab, super>>

applied(counts, entry) ==
  IF ~isMapped(entry.pbn) THEN counts
  ELSE [counts EXCEPT ![entry.pbn] = IF entry.operation = "increment" THEN @ + 1 ELSE @ - 1]

(* The slab journal and slab summary make an entry durable after a flush.  *)
UpdateSlab ==
  /\ vdo.phase = "running" /\ vdo.applied < vdo.committed
  /\ slab' = [point |-> pointOf(vdo, vdo.applied + 1), counts |-> applied(slab.counts, vdo.entries[vdo.applied + 1])]
  /\ vdo' = [flush(vdo) EXCEPT !.applied = @ + 1]
  /\ journal' = flushDisk(journal) /\ map' = flushDisk(map)
  /\ UNCHANGED super

(* reapRecoveryJournal() moves the heads, after a flush, up to the first   *)
(* block with a lock or the last one whose write was acknowledged.         *)
lastWriteAcknowledged(v) == IF v.committed = 0 THEN v.first ELSE sequenceOf(v, v.committed)

lockedBlocks(v) ==
  {v.lock[l] : l \in {l \in LogicalBlocks : v.lock[l] # 0}}
    \cup {sequenceOf(v, v.vio[l].increment) : l \in {l \in LogicalBlocks : v.vio[l] # idle}} \cup {lastWriteAcknowledged(v)}

ReapJournal ==
  /\ vdo.phase = "running"
  /\ journal' = flushDisk(journal) /\ map' = flushDisk(map)
  /\ vdo' = [flush(vdo) EXCEPT !.blockMapHead = Min(lockedBlocks(vdo)), !.slabJournalHead = Min({sequenceOf(vdo, vdo.applied + 1), lastWriteAcknowledged(vdo)})]
  /\ vdo' # vdo
  /\ UNCHANGED <<slab, super>>

-----------------------------------------------------------------------------
(* Crashes and recovery                                                    *)

(* The volatile state is lost.  What was journaled, and how much of it was *)
(* stable, is kept only to state what recovery must find.                  *)
Crash ==
  /\ vdo.crashes > 0
  /\ journal' \in crashed(journal, LAMBDA l, S : S)
  /\ map' \in crashed(map, LAMBDA l, S : S)
  /\ vdo' = [phase |-> "crashed", first |-> vdo.first, entries |-> vdo.entries, stable |-> vdo.stable,
             base |-> vdo.base, script |-> vdo.script, crashes |-> vdo.crashes - 1]
  /\ UNCHANGED <<slab, super>>

entriesFrom(range, sequence) == SelectSeq(range.entries, LAMBDA e : e.point[1] >= sequence)

(* What is to be added to the slab journals: entries and missing decrefs.  *)
slabEntries(range, heads, missing) ==
  entriesFrom(range, heads.slabJournalHead)
    \o [k \in DOMAIN missing |-> [entry |-> decrement(missing[k].slot, missing[k].pbn), point |-> missing[k].point]]

(* The last increment of a slot is what the block map gets.                *)
recoveredMappings(range, heads) ==
  FoldLeft(LAMBDA m, e : IF e.entry.operation = "increment" THEN (e.entry.slot :> e.entry.pbn) @@ m ELSE m,
           <<>>, entriesFrom(range, heads.blockMapHead))

numberOfMapped(missing) == Cardinality({k \in DOMAIN missing : isMapped(missing[k].pbn)})

(* prepareToApplyJournalEntries() and findSlabJournalEntries(); a depot    *)
(* whose slab journals were saved already is not replayed into.            *)
applyJournal(heads, range) ==
  LET found == heads.found /\ range.entries # <<>>
      missing == fetched(findMissingDecrefs(range), map)
      corrupt == heads.blockMapHead > range.tail \/ heads.slabJournalHead > range.tail
      next == IF corrupt THEN "corrupt" ELSE IF ~found THEN "finishing" ELSE IF super.replaying THEN "map" ELSE "slabs"
  IN  [phase |-> next, first |-> vdo.first, entries |-> vdo.entries, stable |-> vdo.stable, base |-> vdo.base,
       script |-> vdo.script, crashes |-> vdo.crashes, highestTail |-> heads.highestTail,
       found |-> IF found THEN range.entries ELSE <<>>,
       used |-> IF next = "slabs" THEN computeUsages(journal, range) - numberOfMapped(missing) ELSE super.used,
       toSlabs |-> IF next = "slabs" THEN slabEntries(range, heads, missing) ELSE <<>>,
       toMap |-> IF found THEN recoveredMappings(range, heads) ELSE <<>>]

rangeFrom(heads) ==
  IF heads.found THEN findContiguousRange(journal, heads, super.recoveryCount)
  ELSE [tail |-> heads.highestTail, entries |-> <<>>, ended |-> TRUE]

LoadJournal ==
  /\ vdo.phase = "crashed"
  /\ \E heads \in {findHeadAndTail(journal, super.tail, super.recoveryCount)} :
       \E range \in {rangeFrom(heads)} : vdo' = applyJournal(heads, range)
  /\ UNCHANGED <<journal, map, slab, super>>

(* attemptReplayIntoSlabJournal() skips what the slab has already.         *)
ReplayIntoSlab ==
  /\ vdo.phase = "slabs" /\ vdo.toSlabs # <<>>
  /\ LET e == Head(vdo.toSlabs)
     IN  slab' = IF isMapped(e.entry.pbn) /\ beforePoint(slab.point, e.point)
                 THEN [point |-> e.point, counts |-> applied(slab.counts, e.entry)] ELSE slab
  /\ vdo' = [vdo EXCEPT !.toSlabs = Tail(@)]
  /\ UNCHANGED <<journal, map, super>>

SaveProgress ==
  /\ vdo.phase = "slabs" /\ vdo.toSlabs = <<>>
  /\ super' = [super EXCEPT !.replaying = TRUE, !.used = vdo.used]
  /\ vdo' = [vdo EXCEPT !.phase = "map"]
  /\ UNCHANGED <<journal, map, slab>>

RecoverPage(lbn) ==
  /\ vdo.phase = "map" /\ lbn \in DOMAIN vdo.toMap
  /\ map' = issueWrite(map, lbn, vdo.toMap[lbn])
  /\ vdo' = [vdo EXCEPT !.toMap = [l \in DOMAIN @ \ {lbn} |-> @[l]]]
  /\ UNCHANGED <<journal, slab, super>>

FlushBlockMap ==
  /\ vdo.phase = "map" /\ DOMAIN vdo.toMap = {}
  /\ map' = [l \in LogicalBlocks |-> [versions |-> <<contents(map, l)>>, done |-> 1]]
  /\ vdo' = [vdo EXCEPT !.phase = "finishing"]
  /\ UNCHANGED <<journal, slab, super>>

(* finishRecovery(), and the super block of the VDO which runs again.      *)
FinishRecovery ==
  /\ vdo.phase = "finishing"
  /\ super' = [tail |-> vdo.highestTail + 1, recoveryCount |-> super.recoveryCount + 1, used |-> vdo.used, replaying |-> FALSE]
  /\ vdo' = started(vdo.highestTail + 1, [l \in LogicalBlocks |-> contents(map, l)], vdo.used, vdo.script, vdo.crashes)
  /\ UNCHANGED <<journal, map, slab>>

-----------------------------------------------------------------------------

Init ==
  /\ journal = blank(sectors, LAMBDA l : IF l[2] = 0
                                        THEN [sequenceNumber |-> 0, entryCount |-> 0, checkByte |-> 2, recoveryCount |-> 0]
                                        ELSE [checkByte |-> 2, recoveryCount |-> 0, entries |-> <<>>])
  /\ map = blank(LogicalBlocks, LAMBDA l : ZeroBlock)
  /\ slab = [point |-> pointAt(0, 0), counts |-> [p \in PhysicalBlocks |-> 0]]
  /\ super = [tail |-> 1, recoveryCount |-> 0, used |-> 0, replaying |-> FALSE]
  /\ \E w \in Workloads : vdo = started(1, [l \in LogicalBlocks |-> ZeroBlock], 0, w.script, w.crashes)

Next ==
  \/ \E lbn \in LogicalBlocks : Write(lbn) \/ JournalDecrement(lbn) \/ PutMapping(lbn) \/ WritePage(lbn) \/ EndPageWrite(lbn) \/ RecoverPage(lbn)
  \/ CommitBlock \/ EndCommit \/ UpdateSlab \/ ReapJournal
  \/ Crash \/ LoadJournal \/ ReplayIntoSlab \/ SaveProgress \/ FlushBlockMap \/ FinishRecovery

Spec == Init /\ [][Next]_vars

-----------------------------------------------------------------------------

isRecovering == vdo.phase \in {"slabs", "map", "finishing"}

mapped == [l \in LogicalBlocks |-> contents(map, l)]

(* The types of what is on storage, and of what recovery has found.        *)
TypeOK ==
  /\ super.replaying \in BOOLEAN /\ {super.tail, super.recoveryCount, super.used} \subseteq Nat
  /\ slab.counts \in [PhysicalBlocks -> Int] /\ slab.point \in Nat \X Nat
  /\ mapped \in [LogicalBlocks -> PhysicalBlocks \cup {ZeroBlock}]
  /\ vdo.phase \in {"running", "crashed", "slabs", "map", "finishing", "corrupt"}

(* Whatever sectors of the block being written survive a crash,            *)
(* prepareToApplyJournalEntries() never takes the journal for corrupt, and *)
(* findHeadAndTail() and findContiguousRange() find entries which were     *)
(* journaled one after the other, each at its journal point, including all *)
(* those which were stable when the VDO crashed.  No torn sector, and none *)
(* of an earlier lap or of before an earlier recovery, is taken for part of*)
(* the journal.                                                            *)
FoundIsWhatWasJournaled ==
  /\ vdo.phase # "corrupt"
  /\ isRecovering =>
       \E n \in vdo.stable .. Len(vdo.entries) :
          \E k \in 0 .. n :
             vdo.found = [i \in 1 .. n - k |-> [entry |-> vdo.entries[k + i], point |-> pointOf(vdo, k + i)]]

(* When recovery is done, each block has as many references as there are   *)
(* mappings to it, although entries were replayed into slabs which had     *)
(* some of them, decrefs were missing (findMissingDecrefs()), and a crash  *)
(* may have interrupted an earlier recovery; and logicalBlocksUsed is the  *)
(* number of blocks which are mapped.                                      *)
RecoveredCountsAreRight ==
  vdo.phase = "finishing" =>
    /\ \A p \in PhysicalBlocks : slab.counts[p] = Cardinality({l \in LogicalBlocks : mapped[l] = p})
    /\ vdo.used = Cardinality({l \in LogicalBlocks : isMapped(mapped[l])})

(* When recovery is done, the block map is what it was after some entry of *)
(* the journal, and no increment which was stable is lost.                 *)
RecoveredMapIsRight ==
  vdo.phase = "finishing" =>
    \E n \in vdo.stable .. Len(vdo.entries) :
      \A l \in LogicalBlocks :
        mapped[l] = FoldLeft(LAMBDA m, e : IF e.slot = l /\ e.operation = "increment" THEN e.pbn ELSE m,
                             vdo.base[l], SubSeq(vdo.entries, 1, n))
=============================================================================
