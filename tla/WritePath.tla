------------------------------ MODULE WritePath ------------------------------
(***************************************************************************)
(* Writes, flushes and suspends together: the logical block locks and the  *)
(* stages of a write (vdo/base/dataVIO.c, vioWrite.c) with the packer, the *)
(* flusher and the kernel's flushes.  A write which waits for a logical    *)
(* block keeps the write which holds it from staying in the packer.        *)
(***************************************************************************)
EXTENDS Flush, SequencesExt

-----------------------------------------------------------------------------
(***************************************************************************)
(* The packer (vdo/base/packer.c) and the compression state of a DataVIO   *)
(* (compressionState.c): compressed writes wait in input bins until a bin  *)
(* is full or a flush comes, go to output bins in batches, and are written *)
(* as one block.  Another thread may cancel the compression of a write; if *)
(* the write was already packing, the canceler must come to the packer and *)
(* take it out.  A compression state changes by compare-and-swap only, so  *)
(* each change is atomic.  The packer is one record, and a function of the *)
(* source is an operator from packers to packers.                          *)
(***************************************************************************)

CONSTANTS
  CompressedSize,    \* the compressed size of each write
  InputBinCount, OutputBins,
  BinDataSize,       \* the room in a bin
  MaxSlots           \* the fragments in a compressed block

VARIABLES
  packer,            \* bins, queues, and where each write is on the compression path
  compressing        \* whether compression is on

(* VIOCompressionStatus, in its order.                                     *)
preCompressor == 0
compressor == 1
packing == 2
postPacker == 3

(* Where a write is: "written" has left the packer, in a compressed block  *)
(* or not.  "packer" is in one of its queues.                              *)
Places == {"idle", "lock", "write", "compress", "packer", "written"}

makePacker ==
  [inputBins |-> [b \in 1 .. InputBinCount |-> [freeSpace |-> BinDataSize, incoming |-> <<>>]],
   canceledBin |-> <<>>, batchedDataVIOs |-> <<>>,
   outgoing |-> [o \in OutputBins |-> <<>>],
   output |-> [o \in OutputBins |-> "idle"],      \* or "writing" or "completing"
   flushGeneration |-> 0, state |-> "normal", readOnly |-> FALSE,
   status |-> [v \in DataVIOs |-> preCompressor],
   mayNotCompress |-> [v \in DataVIOs |-> FALSE],
   place |-> [v \in DataVIOs |-> "idle"],
   asserts |-> {}]

(* f(x), with x evaluated once: TLC would evaluate it wherever f uses it.  *)
apply(f(_), x) == CHOOSE y \in {f(z) : z \in {x}} : TRUE

-----------------------------------------------------------------------------
(* The compression state.                                                  *)

advanceStatus(p, v) ==
  [p EXCEPT !.status[v] = IF @ = postPacker \/ p.mayNotCompress[v] THEN postPacker ELSE @ + 1]

setCompressionDone(p, v) ==
  IF p.status[v] = postPacker THEN p
  ELSE [p EXCEPT !.status[v] = postPacker, !.mayNotCompress[v] = TRUE]

(* What cancelCompression() returns: the write must be taken out.          *)
mustBeRemoved(p, v) == p.status[v] = packing /\ ~p.mayNotCompress[v]

cancelCompression(p, v) ==
  IF p.status[v] = postPacker THEN p ELSE [p EXCEPT !.mayNotCompress[v] = TRUE]

-----------------------------------------------------------------------------
(* The packer thread.                                                      *)

abortPacking(p, v) == [setCompressionDone(p, v) EXCEPT !.place[v] = "written"]

abortAll(p, vios) == FoldLeft(abortPacking, p, vios)

idleOutputBins(p) == {o \in OutputBins : p.output[o] = "idle"}

(* Mutant: a drain does not wait for the output bins.                      *)
checkForDrainComplete_early(p) ==
  IF p.state = "suspending" /\ p.canceledBin = <<>> THEN [p EXCEPT !.state = "suspended"] ELSE p

checkForDrainComplete(p) ==
  IF p.state = "suspending" /\ p.canceledBin = <<>> /\ idleOutputBins(p) = OutputBins
  THEN [p EXCEPT !.state = "suspended"] ELSE p

(* insertInSortedList() for the b-th input bin: it goes before the first   *)
(* bin with more free space.                                               *)
insertInSortedList(p, b) ==
  LET bin    == p.inputBins[b]
      others == RemoveAt(p.inputBins, b)
      before == {i \in DOMAIN others : others[i].freeSpace <= bin.freeSpace}
      place  == 1 + (CHOOSE n \in 0 .. Len(others) : before = 1 .. n)
  IN  [p EXCEPT !.inputBins = InsertAt(others, place, bin)]

(* Mutant: a canceled write is dropped from its bin.                       *)
batch_dropsCanceled(p, v) ==
  IF p.mayNotCompress[v] THEN abortPacking(p, v)
  ELSE [advanceStatus(p, v) EXCEPT !.batchedDataVIOs = Append(@, v)]

(* A write of a bin is batched; if it was canceled, it goes to the         *)
(* canceled bin and waits for its canceler.                                *)
batch(p, v) ==
  LET a == advanceStatus(p, v)
  IN  IF a.mayNotCompress[v] THEN [a EXCEPT !.canceledBin = Append(@, v)]
      ELSE [a EXCEPT !.batchedDataVIOs = Append(@, v)]

startNewBatch(p, b) ==
  [FoldLeft(batch, p, p.inputBins[b].incoming)
   EXCEPT !.inputBins[b] = [freeSpace |-> BinDataSize, incoming |-> <<>>]]

addDataVIOToInputBin(p, b, v) ==
  LET size  == CompressedSize[v]
      n     == IF p.inputBins[b].freeSpace < size THEN startNewBatch(p, b) ELSE p
      added == [n EXCEPT !.inputBins[b] = [freeSpace |-> @.freeSpace - size, incoming |-> Append(@.incoming, v)]]
      full(q) == q.inputBins[b].freeSpace = 0 \/ Len(q.inputBins[b].incoming) = MaxSlots
      close(q) == IF full(q) THEN startNewBatch(q, b) ELSE q
      sort(q)  == insertInSortedList(q, b)
  IN  apply(sort, apply(close, added))

sizeOf(vios) == FoldLeft(LAMBDA sum, v : sum + CompressedSize[v], 0, vios)

(* getNextBatch(): as many of the batched writes as fit, in their order.   *)
nextBatchLength(p) ==
  CHOOSE n \in 0 .. Len(p.batchedDataVIOs) :
    LET fits(k) == k <= MaxSlots /\ sizeOf(SubSeq(p.batchedDataVIOs, 1, k)) <= BinDataSize
    IN  fits(n) /\ (n = Len(p.batchedDataVIOs) \/ ~fits(n + 1))

(* writeNextBatch() and launchCompressedWrite() with the idle bin o.  One  *)
(* write alone is not worth a compressed block.                            *)
writeNextBatch(p, o) ==
  LET n    == nextBatchLength(p)
      vios == SubSeq(p.batchedDataVIOs, 1, n)
      rest == [p EXCEPT !.batchedDataVIOs = SubSeq(@, n + 1, Len(@))]
  IN  IF n = 1 \/ p.readOnly THEN abortAll(rest, vios)
      ELSE [rest EXCEPT !.outgoing[o] = vios, !.output[o] = "writing"]

(* Until no write is batched or no output bin is idle.                     *)
RECURSIVE writePendingBatches(_)
writePendingBatches(p) ==
  IF p.batchedDataVIOs = <<>> \/ idleOutputBins(p) = {} THEN p
  ELSE apply(writePendingBatches, writeNextBatch(p, CHOOSE o \in idleOutputBins(p) : TRUE))

(* selectInputBin(): the fullest bin with room, or else the fullest one if *)
(* it holds more than the write would; 0 for NULL.                         *)
selectInputBin(p, v) ==
  LET size == CompressedSize[v]
      fits == {b \in DOMAIN p.inputBins : p.inputBins[b].freeSpace >= size}
  IN  IF fits # {} THEN CHOOSE b \in fits : \A c \in fits : b <= c
      ELSE IF size >= BinDataSize - p.inputBins[1].freeSpace THEN 0 ELSE 1

(* attemptPacking() of a write whose flush generation is g.                *)
attemptPacking(p, v, g) ==
  LET b == selectInputBin(p, v)
      a == advanceStatus(p, v)
  IN  IF p.state # "normal" \/ g < p.flushGeneration \/ b = 0 THEN abortPacking(p, v)
      ELSE IF a.status[v] # packing THEN abortPacking(a, v)
      ELSE apply(writePendingBatches, addDataVIOToInputBin([a EXCEPT !.place[v] = "packer"], b, v))

(* The bins keep their order: all end up empty.                            *)
writeAllNonEmptyBins(p) ==
  apply(writePendingBatches, FoldLeft(startNewBatch, p, [b \in 1 .. InputBinCount |-> b]))

flushPacker(p) == IF p.state = "normal" THEN writeAllNonEmptyBins(p) ELSE p

incrementPackerFlushGeneration(p) == flushPacker([p EXCEPT !.flushGeneration = @ + 1])

(* The last write of a bin takes the slot of the one removed.              *)
removeSlot(vios, slot) == SubSeq([vios EXCEPT ![slot] = Last(vios)], 1, Len(vios) - 1)

slotOf(vios, v) == CHOOSE slot \in DOMAIN vios : vios[slot] = v

removeFromPacker(p, v) ==
  LET bins == {b \in DOMAIN p.inputBins : Contains(p.inputBins[b].incoming, v)}
      b    == CHOOSE c \in bins : TRUE
      r    == IF bins # {}
              THEN insertInSortedList(
                     [p EXCEPT !.inputBins[b] =
                        [freeSpace |-> @.freeSpace + CompressedSize[v],
                         incoming  |-> removeSlot(@.incoming, slotOf(@.incoming, v))]], b)
              ELSE IF Contains(p.canceledBin, v)
              THEN [p EXCEPT !.canceledBin = removeSlot(@, slotOf(@, v))]
              ELSE [p EXCEPT !.asserts = @ \cup {"DataVIO in packer has an input bin"}]
  IN  apply(checkForDrainComplete, abortPacking(r, v))

initiateDrain(p) == apply(checkForDrainComplete, writeAllNonEmptyBins([p EXCEPT !.state = "suspending"]))

-----------------------------------------------------------------------------
(* The writes of the output bins.                                          *)

(* finishCompressedWrite() on a physical zone thread: the writes of the    *)
(* block go on.  If no block was allocated or the write failed, they wait  *)
(* for completeOutputBin().                                                *)
FinishCompressedWrite(o) ==
  /\ packer.output[o] = "writing"
  /\ \/ packer' = [packer EXCEPT !.output[o] = "completing"]
     \/ packer' = [packer EXCEPT !.output[o] = "completing", !.outgoing[o] = <<>>,
                                 !.place = [v \in DataVIOs |->
                                    IF Contains(packer.outgoing[o], v) THEN "written" ELSE @[v]]]
  /\ UNCHANGED compressing

completeOutputBin(p, o) ==
  apply(checkForDrainComplete, apply(writePendingBatches,
    [abortAll(p, p.outgoing[o]) EXCEPT !.outgoing[o] = <<>>, !.output[o] = "idle"]))

-----------------------------------------------------------------------------
CONSTANTS
  NoVIO,             \* NULL
  lbn                \* the logical block each write is for, each in a page and a tree of its own

VARIABLES
  lockHolderOf,      \* lbnOperations: the write holding each logical block
  waiters,           \* the writes waiting for the logical block of each write
  lockHolder,        \* the write which each canceler is to take out of the packer
  suspension         \* the progress of a suspend or resume

lockVars == <<lockHolderOf, waiters, lockHolder>>
packerVars == <<packer, compressing>>
pathVars == <<flushVars, kernelVars, packerVars, lockVars, suspension>>

LBNs == {lbn[v] : v \in DataVIOs}

computeLogicalZone(v) == lbn[v] % (LastZone + 1)

PathInit ==
  /\ FlushInit /\ KernelInit
  /\ packer = makePacker /\ compressing = TRUE
  /\ lockHolderOf = [l \in LBNs |-> NoVIO]
  /\ waiters = [v \in DataVIOs |-> <<>>]
  /\ lockHolder = [v \in DataVIOs |-> NoVIO]
  /\ suspension = "running"

(* The thread of the packer and the flusher is not in completeFlushes().   *)
onPackerThread == step = "none"

-----------------------------------------------------------------------------
(* Logical zone threads.                                                   *)

(* A DataVIO which is prepared for a new request has no history.           *)
prepareDataVIO(p, v, place) ==
  [p EXCEPT !.status[v] = preCompressor, !.mayNotCompress[v] = FALSE, !.place[v] = place]

(* launchWriteDataVIO(): what becomes of a write which has got its logical *)
(* block; in read-only mode it fails.                                      *)
launched == IF packer.readOnly THEN "written" ELSE "write"

(* attemptLogicalBlockLock() when the block is free.                       *)
AcquireLogicalBlockLock(v) ==
  /\ suspension = "running" /\ packer.place[v] = "idle"
  /\ lockHolderOf[lbn[v]] = NoVIO
  /\ lockHolderOf' = [lockHolderOf EXCEPT ![lbn[v]] = v]
  /\ packer' = prepareDataVIO(packer, v, launched)
  /\ IF packer.readOnly THEN UNCHANGED flushVars ELSE acquireFlushGenerationLock(v, computeLogicalZone(v))
  /\ UNCHANGED <<kernelVars, compressing, waiters, lockHolder, suspension>>

(* Mutant: the write which holds the block stays in the packer.            *)
WaitForLogicalBlockLock_noCancel(v) ==
  LET holder == lockHolderOf[lbn[v]]
  IN  /\ suspension = "running" /\ packer.place[v] = "idle"
      /\ holder # NoVIO
      /\ waiters' = [waiters EXCEPT ![holder] = Append(@, v)]
      /\ packer' = prepareDataVIO(packer, v, "lock")
      /\ UNCHANGED <<flushVars, kernelVars, compressing, lockHolderOf, lockHolder, suspension>>

(* attemptLogicalBlockLock() when it is not: the holder is kept from       *)
(* blocking in the packer.                                                 *)
WaitForLogicalBlockLock(v) ==
  LET holder == lockHolderOf[lbn[v]]
  IN  /\ suspension = "running" /\ packer.place[v] = "idle"
      /\ holder # NoVIO
      /\ waiters' = [waiters EXCEPT ![holder] = Append(@, v)]
      /\ packer' = cancelCompression(prepareDataVIO(packer, v, "lock"), holder)
      /\ lockHolder' = IF mustBeRemoved(packer, holder) THEN [lockHolder EXCEPT ![v] = holder] ELSE lockHolder
      /\ UNCHANGED <<flushVars, kernelVars, compressing, lockHolderOf, suspension>>

(* releaseLogicalBlockLock(): the block goes to the first of the waiters,  *)
(* which may not block in the packer if there are others.                  *)
handOver(p, next, rest) ==
  [IF rest = <<>> THEN p ELSE cancelCompression(p, next) EXCEPT !.place[next] = launched]

releaseLogicalBlockLock(p, v) ==
  LET next == Head(waiters[v])
      rest == Tail(waiters[v])
  IN  IF waiters[v] = <<>>
      THEN /\ lockHolderOf' = [lockHolderOf EXCEPT ![lbn[v]] = NoVIO]
           /\ packer' = p
           /\ UNCHANGED waiters
      ELSE /\ lockHolderOf' = [lockHolderOf EXCEPT ![lbn[v]] = next]
           /\ waiters' = [waiters EXCEPT ![v] = <<>>, ![next] = @ \o rest]
           /\ packer' = handOver(p, next, rest)

(* releaseLogicalLock(): a write which failed at once has no generation    *)
(* lock to release.                                                        *)
ReleaseLogicalLock(v) ==
  /\ packer.place[v] = "written"
  /\ releaseLogicalBlockLock(prepareDataVIO(packer, v, "idle"), v)
  /\ IF hasFlushGenerationLock[v]
     THEN LET z == computeLogicalZone(v)
              i == CHOOSE k \in DOMAIN writeVIOs[z] : writeVIOs[z][k] = v
          IN  releaseFlushGenerationLock(
                z, i, IF waiters[v] = <<>> \/ packer.readOnly THEN <<>> ELSE <<Head(waiters[v])>>)
     ELSE UNCHANGED flushVars
  /\ UNCHANGED <<kernelVars, compressing, lockHolder, suspension>>

-----------------------------------------------------------------------------
(* The stages of a write on other threads.                                 *)

movePacker(p) ==
  /\ packer' = p
  /\ UNCHANGED <<flushVars, kernelVars, compressing, lockVars, suspension>>

(* compressData(), for a write which is not a duplicate; a write without   *)
(* an allocation is not compressed.  A duplicate is done without it.       *)
CompressData(v) ==
  /\ packer.place[v] = "write"
  /\ LET a    == advanceStatus(packer, v)
         done == setCompressionDone(packer, v)
     IN  \/ movePacker([packer EXCEPT !.place[v] = "written"])
         \/ movePacker([done EXCEPT !.place[v] = "written"])
         \/ /\ compressing
            /\ movePacker([a EXCEPT !.place[v] = IF a.status[v] = compressor THEN "compress" ELSE "written"])

(* Mutant: compression is not looked at again when the write is packed.    *)
mayPackDataVIO_always(v) == TRUE

mayPackDataVIO(v) ==
  CompressedSize[v] < BinDataSize /\ compressing /\ ~packer.mayNotCompress[v]

PackCompressedData(v) ==
  /\ onPackerThread /\ packer.place[v] = "compress"
  /\ movePacker(IF mayPackDataVIO(v) THEN attemptPacking(packer, v, writeGeneration[v])
                ELSE abortPacking(packer, v))

RemoveLockHolderFromPacker(v) ==
  /\ onPackerThread /\ lockHolder[v] # NoVIO
  /\ packer' = removeFromPacker(packer, lockHolder[v])
  /\ lockHolder' = [lockHolder EXCEPT ![v] = NoVIO]
  /\ UNCHANGED <<flushVars, kernelVars, compressing, lockHolderOf, waiters, suspension>>

CompleteOutputBin(o) ==
  /\ onPackerThread /\ packer.output[o] = "completing"
  /\ movePacker(completeOutputBin(packer, o))

CompressedWrite(o) ==
  /\ FinishCompressedWrite(o)
  /\ UNCHANGED <<flushVars, kernelVars, lockVars, suspension>>

(* flushPackerCallback() flushes the packer too.                           *)
FlushPacker ==
  /\ FlushPackerCallback
  /\ packer' = incrementPackerFlushGeneration(packer)
  /\ UNCHANGED <<kernelVars, compressing, lockVars, suspension>>

GoReadOnly ==
  /\ ~packer.readOnly
  /\ movePacker([packer EXCEPT !.readOnly = TRUE])

-----------------------------------------------------------------------------
(* Suspend and resume.                                                     *)

adminStep(from, to) == suspension = from /\ suspension' = to

(* waitForNoRequestsActive(): compression is turned off, which flushes the *)
(* packer.                                                                 *)
WaitForNoRequestsActive ==
  /\ onPackerThread /\ adminStep("running", "waiting")
  /\ compressing' = FALSE
  /\ packer' = flushPacker(packer)
  /\ UNCHANGED <<flushVars, kernelVars, lockVars>>

(* No request is left; compression is on again and the packer is drained.  *)
SuspendPacker ==
  /\ onPackerThread /\ adminStep("waiting", "packer")
  /\ \A v \in DataVIOs : packer.place[v] = "idle"
  /\ compressing' = TRUE
  /\ packer' = initiateDrain(packer)
  /\ UNCHANGED <<flushVars, kernelVars, lockVars>>

DrainLogicalZones ==
  \/ /\ packer.state = "suspended" /\ adminStep("packer", "zones")
     /\ UNCHANGED flushVars
  \/ /\ suspension = "zones" /\ UNCHANGED suspension
     /\ \E z \in Zones : DrainLogicalZone(z)
  \/ /\ \A z \in Zones : zoneState[z] = "suspended"
     /\ adminStep("zones", "suspended")
     /\ UNCHANGED flushVars

ResumeLogicalZones ==
  /\ suspension = "suspended" /\ UNCHANGED suspension
  /\ \E z \in Zones : ResumeLogicalZone(z)

ResumePacker ==
  /\ onPackerThread /\ \A z \in Zones : zoneState[z] = "normal"
  /\ adminStep("suspended", "running")
  /\ packer' = [packer EXCEPT !.state = "normal"]
  /\ UNCHANGED <<flushVars, kernelVars, compressing, lockVars>>

-----------------------------------------------------------------------------
(* A step of the flusher or of a zone which concerns nothing else.         *)
flushOnly == UNCHANGED <<kernelVars, packerVars, lockVars, suspension>>
kernelOnly == UNCHANGED <<packerVars, lockVars, suspension>>
adminOnly == UNCHANGED <<kernelVars, packerVars, lockVars>>

PathNext ==
  \/ \E v \in DataVIOs : AcquireLogicalBlockLock(v) \/ WaitForLogicalBlockLock(v)
  \/ \E v \in DataVIOs : \/ ReleaseLogicalLock(v) \/ CompressData(v) \/ PackCompressedData(v)
                         \/ RemoveLockHolderFromPacker(v)
  \/ \E o \in OutputBins : CompressedWrite(o) \/ CompleteOutputBin(o)
  \/ \E z \in Zones : (AttemptGenerationCompleteNotification(z) \/ NotifyFlusher(z)) /\ flushOnly
  \/ (IncrementGeneration \/ FinishNotification \/ LoadOldestLockedGeneration
        \/ ReturnFromCompleteFlushes) /\ flushOnly
  \/ FlushPacker \/ GoReadOnly
  \/ \E bio \in Bios : launchKVDOFlush(bio) /\ suspension = "running" /\ kernelOnly
  \/ \E f \in Flushes : (\/ enqueueKVDOFlush(f) \/ kvdoFlushWork(f) \/ kvdoCompleteFlushWork(f)
                         \/ releaseKVDOFlush(f)) /\ kernelOnly
  \/ kvdoCompleteFlush /\ kernelOnly
  \/ WaitForNoRequestsActive \/ SuspendPacker \/ ResumePacker
  \/ (DrainLogicalZones \/ ResumeLogicalZones) /\ adminOnly

PathSpec == PathInit /\ [][PathNext]_pathVars

(* Each write, output bin, zone, flush, notification and suspend is at one *)
(* step at a time, and does not stay there: threads run what is enqueued   *)
(* for them, and storage answers.  Requests need not come.                 *)
PathFairness ==
  /\ \A v \in DataVIOs : WF_pathVars(\/ ReleaseLogicalLock(v) \/ CompressData(v) \/ PackCompressedData(v)
                                      \/ RemoveLockHolderFromPacker(v))
  /\ \A o \in OutputBins : WF_pathVars(CompressedWrite(o) \/ CompleteOutputBin(o))
  /\ \A z \in Zones : WF_pathVars((AttemptGenerationCompleteNotification(z) \/ NotifyFlusher(z)) /\ flushOnly)
  /\ \A f \in Flushes : WF_pathVars((\/ enqueueKVDOFlush(f) \/ kvdoFlushWork(f) \/ kvdoCompleteFlushWork(f)
                                      \/ releaseKVDOFlush(f)) /\ kernelOnly)
  /\ WF_pathVars(((IncrementGeneration \/ FinishNotification) /\ flushOnly) \/ FlushPacker)
  /\ WF_pathVars(\/ (LoadOldestLockedGeneration \/ ReturnFromCompleteFlushes) /\ flushOnly
                 \/ kvdoCompleteFlush /\ kernelOnly)
  /\ WF_pathVars(SuspendPacker \/ (DrainLogicalZones /\ adminOnly))

FairPathSpec == PathSpec /\ PathFairness

-----------------------------------------------------------------------------
(* Properties.                                                             *)

(* Every component has its type.                                           *)
PathTypeOK ==
  /\ FlushTypeOK
  /\ waitingFlushes \subseteq Bios /\ spareKVDOFlush \in Flushes \cup {NoFlush}
  /\ flushStep \in [Flushes -> FlushSteps] /\ bios \in [Flushes -> SUBSET Bios]
  /\ \A b \in 1 .. InputBinCount :
       /\ packer.inputBins[b].freeSpace \in 0 .. BinDataSize
       /\ packer.inputBins[b].freeSpace = BinDataSize - sizeOf(packer.inputBins[b].incoming)
  /\ packer.status \in [DataVIOs -> preCompressor .. postPacker]
  /\ packer.mayNotCompress \in [DataVIOs -> BOOLEAN] /\ packer.place \in [DataVIOs -> Places]
  /\ packer.output \in [OutputBins -> {"idle", "writing", "completing"}]
  /\ packer.state \in {"normal", "suspending", "suspended"} /\ compressing \in BOOLEAN
  /\ lockHolderOf \in [LBNs -> DataVIOs \cup {NoVIO}] /\ waiters \in [DataVIOs -> Seq(DataVIOs)]
  /\ lockHolder \in [DataVIOs -> DataVIOs \cup {NoVIO}]
  /\ suspension \in {"running", "waiting", "packer", "zones", "suspended"}

(* The writes which a canceler may still find in the packer.               *)
removable ==
  UNION {ToSet(packer.inputBins[b].incoming) : b \in 1 .. InputBinCount} \cup ToSet(packer.canceledBin)

(* A write whose compression is canceled on a logical zone thread races    *)
(* with the packer thread which batches it: removeLockHolderFromPacker()   *)
(* always finds its write in an input bin or in the canceled bin (the      *)
(* assertion of removeFromPacker()), the write which comes to remove it is *)
(* still waiting for the logical block, and a canceled write in the packer *)
(* has exactly one write which will come, or it would stay for ever.       *)
CanceledIsRemoved ==
  /\ packer.asserts = {}
  /\ \A v \in DataVIOs : lockHolder[v] # NoVIO =>
       /\ packer.place[v] = "lock"
       /\ lockHolder[v] \in removable /\ packer.mayNotCompress[lockHolder[v]]
  /\ \A v \in removable : packer.mayNotCompress[v] =>
       Cardinality({u \in DataVIOs : lockHolder[u] = v}) = 1

(* When the packer has been drained, no output bin is being written and    *)
(* nothing is in the packer; when a logical zone has been, no write holds  *)
(* a generation and its completion is not on its way to the flusher: the   *)
(* next phase of the suspend and a later resume rely on it.                *)
SuspendedIsQuiet ==
  /\ packer.state = "suspended" =>
       /\ \A o \in OutputBins : packer.output[o] = "idle"
       /\ removable = {} /\ packer.batchedDataVIOs = <<>>
  /\ \A z \in Zones : zoneState[z] = "suspended" =>
       writeVIOs[z] = <<>> /\ ~notifying[z] /\ zoneCompletion[z] = "none"

(* Every flush bio which is submitted completes, whatever waits in the     *)
(* packer, whether or not a KVDOFlush can be allocated, and although a     *)
(* suspend may begin: none is in progress for ever.                        *)
FlushesComplete == \A bio \in Bios : []<>(bio \notin submitted)

(* A write which waits for a logical block gets it: the holder never stays *)
(* in the packer waiting for company.                                      *)
WaitersGetLock == \A v \in DataVIOs : []<>(packer.place[v] # "lock")

(* A suspend which was started completes: no write is left in the packer   *)
(* to wait for others which can no longer come, and every drain ends.      *)
SuspendCompletes == []<>(suspension \in {"running", "suspended"})

(* The packer's bins, batches and cancellations fit together.              *)
PackerIsConsistent == PathTypeOK /\ CanceledIsRemoved

(* Nothing waits for ever for a write which sits in the packer, neither a  *)
(* flush nor a write for the same logical block.                           *)
NothingWaitsForThePacker == FlushesComplete /\ WaitersGetLock
=============================================================================
