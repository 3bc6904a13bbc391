------------------------------ MODULE RefCounts ------------------------------
(***************************************************************************)
(* The reference counts of a slab (vdo/base/refCounts.c) as operators on a *)
(* RefCounts record: one counter per data block, the reference blocks they *)
(* are saved in, the queue of dirty blocks and the allocation cursor.  A   *)
(* point in the slab journal is the number sequence * EntriesPerBlock +    *)
(* entry, so that an earlier point is a smaller number and 0 is no point.  *)
(***************************************************************************)
EXTENDS Integers, Sequences, FiniteSets, Functions, SequencesExt

CONSTANTS DataBlocks,             \* the data blocks of the slab
          CountsPerBlock,         \* COUNTS_PER_BLOCK: counters in a reference block
          EntriesPerBlock,        \* of a slab journal block
          MaximumReferenceCount   \* MAXIMUM_REFERENCE_COUNT, 254 in the code

Counters == 0 .. DataBlocks - 1
ReferenceBlockCount == (DataBlocks + CountsPerBlock - 1) \div CountsPerBlock
ReferenceBlocks == 0 .. ReferenceBlockCount - 1

EmptyReferenceCount == 0
ProvisionalReferenceCount == 255

getReferenceBlock(b) == b \div CountsPerBlock
countersOf(r) == {b \in Counters : getReferenceBlock(b) = r}

makeRefCounts ==
  [count |-> [b \in Counters |-> EmptyReferenceCount], free |-> DataBlocks, point |-> 0,
   block |-> [r \in ReferenceBlocks |->
                [allocated |-> 0, lock |-> 0, release |-> 0, dirty |-> FALSE, writing |-> FALSE]],
   commit |-> [b \in Counters |-> 0],     \* commitPoints: every counter is a sector of its own
   dirtyBlocks |-> <<>>, active |-> 0, updating |-> FALSE, cursor |-> [block |-> 0, index |-> 0]]

(* The status of a counter.                                                *)
referenceCountToStatus(n) ==
  CASE n = EmptyReferenceCount -> "free"
    [] n = 1 -> "single"
    [] n = ProvisionalReferenceCount -> "provisional"
    [] OTHER -> "shared"

getAvailableReferences(c, b) ==
  IF c.count[b] = ProvisionalReferenceCount THEN MaximumReferenceCount - 1
  ELSE MaximumReferenceCount - c.count[b]

hasActiveIO(c) == c.active > 0 \/ c.updating

dirtyBlock(c, r) ==
  IF c.block[r].dirty THEN c
  ELSE [c EXCEPT !.block[r].dirty = TRUE,
                 !.dirtyBlocks = IF c.block[r].writing THEN @ ELSE Append(@, r)]

dirtyAllReferenceBlocks(c) == FoldLeft(dirtyBlock, c, [i \in 1 .. ReferenceBlockCount |-> i - 1])

-----------------------------------------------------------------------------
(* Changing a counter: the outcomes of the three kinds of operation.  held *)
(* says that a PBN lock protects the block.                                *)
setCounter(c, b, n, allocated) ==
  [c EXCEPT !.count[b] = n, !.block[getReferenceBlock(b)].allocated = @ + allocated, !.free = @ - allocated]

changed(c, b, n, allocated) == [ok |-> TRUE, refs |-> setCounter(c, b, n, allocated), free |-> allocated # 0]
invalid(c) == [ok |-> FALSE, refs |-> c, free |-> FALSE]

incrementForData(c, b) ==
  CASE c.count[b] = EmptyReferenceCount -> changed(c, b, 1, 1)
    [] c.count[b] = ProvisionalReferenceCount -> changed(c, b, 1, 0)
    [] OTHER -> IF c.count[b] >= MaximumReferenceCount THEN invalid(c)
                ELSE changed(c, b, c.count[b] + 1, 0)

decrementForData(c, b, held) ==
  CASE c.count[b] = EmptyReferenceCount -> invalid(c)
    [] c.count[b] \in {1, ProvisionalReferenceCount} ->
         IF held THEN changed(c, b, ProvisionalReferenceCount, 0)
         ELSE changed(c, b, EmptyReferenceCount, -1)
    [] OTHER -> changed(c, b, c.count[b] - 1, 0)

incrementForBlockMap(c, b, normalOperation) ==
  CASE c.count[b] = EmptyReferenceCount ->
         IF normalOperation THEN invalid(c) ELSE changed(c, b, MaximumReferenceCount, 1)
    [] c.count[b] = ProvisionalReferenceCount ->
         IF normalOperation THEN changed(c, b, MaximumReferenceCount, 0) ELSE invalid(c)
    [] OTHER -> invalid(c)

(* updateReferenceCount(): the decrement of a provisional reference leaves *)
(* the slab journal point alone, as it is in no journal.                   *)
updatedTo(u, provisional, point) ==
  [ok |-> u.ok, free |-> u.free, provisional |-> u.ok /\ provisional,
   refs |-> IF u.ok /\ ~provisional /\ point > 0 THEN [u.refs EXCEPT !.point = point] ELSE u.refs]

updateReferenceCount(c, b, type, held, point, normalOperation) ==
  updatedTo(CASE type = "inc" -> incrementForData(c, b)
              [] type = "dec" -> decrementForData(c, b, held)
              [] type = "map" -> incrementForBlockMap(c, b, normalOperation),
            type = "dec" /\ c.count[b] = ProvisionalReferenceCount, point)

(* adjustReferenceCount(), up to the slab journal locks: the entry's lock  *)
(* is released (released) if its block is dirty and holds a lock already,  *)
(* and otherwise becomes the lock of the block.                            *)
withBlockLock(u, r, point) ==
  LET locked == u.refs.block[r].dirty /\ u.refs.block[r].lock > 0
  IN  [ok |-> u.ok, free |-> u.free, released |-> u.ok /\ ~u.provisional /\ locked,
       refs |-> IF ~u.ok \/ u.provisional \/ locked THEN u.refs
                ELSE dirtyBlock([u.refs EXCEPT !.block[r].lock = point \div EntriesPerBlock], r)]

adjustReferenceCount(c, b, type, held, point) ==
  withBlockLock(updateReferenceCount(c, b, type, held, point, TRUE), getReferenceBlock(b), point)

(* replayReferenceCountChange(): an entry which the counts on disk already *)
(* include is skipped.                                                     *)
dirtied(u, b) == IF u.ok THEN [u EXCEPT !.refs = dirtyBlock(u.refs, getReferenceBlock(b))] ELSE u

(* Mutant: entries which the counts include already are replayed as well.  *)
replayEveryReferenceCountChange(c, point, b, type) ==
  dirtied(updateReferenceCount(c, b, type, FALSE, point, FALSE), b)

replayReferenceCountChange(c, point, b, type) ==
  IF ~(c.commit[b] < point) THEN [ok |-> TRUE, refs |-> c, free |-> FALSE]
  ELSE dirtied(updateReferenceCount(c, b, type, FALSE, point, FALSE), b)

-----------------------------------------------------------------------------
(* Allocation: the cursor searches the rest of its reference block, then   *)
(* every later block of the slab, and wraps to the start when it is done.  *)
minimum(m, n) == IF m < n THEN m ELSE n
endIndex(r) == minimum((r + 1) * CountsPerBlock, DataBlocks)

findFreeBlock(c, start, end) == {b \in start .. end - 1 : c.count[b] = EmptyReferenceCount}

searchCurrentReferenceBlock(c, r, start) ==
  IF c.block[r].allocated < CountsPerBlock THEN findFreeBlock(c, start, endIndex(r)) ELSE {}

searchReferenceBlocks(c) ==
  searchCurrentReferenceBlock(c, c.cursor.block, c.cursor.index)
  \union UNION {searchCurrentReferenceBlock(c, r, r * CountsPerBlock) :
                  r \in {q \in ReferenceBlocks : q > c.cursor.block}}

least(S) == CHOOSE n \in S : \A m \in S : n <= m

makeProvisionalReference(c, b) == setCounter(c, b, ProvisionalReferenceCount, 1)

allocateUnreferencedBlock(c) ==
  LET found == searchReferenceBlocks(c)
  IN  IF found = {} THEN [block |-> -1, refs |-> [c EXCEPT !.cursor = [block |-> 0, index |-> 0]]]
      ELSE LET b == least(found)
           IN  [block |-> b,
                refs |-> [makeProvisionalReference(c, b) EXCEPT
                            !.cursor = [block |-> getReferenceBlock(b), index |-> b + 1]]]

-----------------------------------------------------------------------------
(* Reference blocks on disk: the counters, each with its sector's commit   *)
(* point, which is that of the whole RefCounts when the block was packed.  *)
packReferenceBlock(c, r) == [b \in countersOf(r) |-> [count |-> c.count[b], commit |-> c.point]]

clearProvisionalReferences(n) == IF n = ProvisionalReferenceCount THEN EmptyReferenceCount ELSE n

(* finishReferenceBlockLoad(), up to the return of the VIO.                *)
unpackReferenceBlock(c, r, packed) ==
  LET counts == [b \in countersOf(r) |-> clearProvisionalReferences(packed[b].count)]
      points == {packed[b].commit : b \in countersOf(r)} \union {c.point}
      allocated == Cardinality({b \in countersOf(r) : counts[b] # EmptyReferenceCount})
  IN  [c EXCEPT !.count = counts @@ @,
                !.commit = [b \in countersOf(r) |-> packed[b].commit] @@ @,
                !.point = CHOOSE p \in points : \A q \in points : p >= q,
                !.block[r].allocated = allocated,
                !.active = @ - 1,
                !.free = @ - allocated]
=============================================================================
