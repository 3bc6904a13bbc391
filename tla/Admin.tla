--------------------------------- MODULE Admin ---------------------------------
(***************************************************************************)
(* The administration of a VDO: loading, recovering and rebuilding it,     *)
(* suspending and resuming, entering read-only mode, and growing its       *)
(* physical and logical space (base/vdoLoad.c, vdo.c, readOnlyRebuild.c,   *)
(* vdoRecovery.c, vdoResize.c, vdoResizeLogical.c, partitionCopy.c,        *)
(* adminCompletion.c), with the machine crashing at any time.              *)
(*                                                                         *)
(* What the journal blocks and the slab summary entries mean is in other   *)
(* modules (RecoveryJournal, Recovery, Rebuild, Slab); here only where     *)
(* they are and which is the latest.  A block of the storage is a tuple:   *)
(* <<"super", buffer>>, <<"journal", sequence number, recovery count>> or  *)
(* <<"summary", entries>>.                                                 *)
(*                                                                         *)
(* The completions of an operation form a stack: the sub-task of the admin *)
(* completion at the bottom, and on it those of a recovery or a rebuild.   *)
(* Each has a callback and an error handler; ready is the result of the    *)
(* one on the top when it is to be called.                                 *)
(***************************************************************************)
EXTENDS SuperBlock, AdminState

CONSTANTS
  JournalSize,      \* blocks of the recovery journal
  InitialBlocks,    \* blocks of the VDO when it was formatted
  Storage,          \* blocks of the storage under the VDO
  LogicalSizes,     \* logical sizes, the first one the smallest
  Stride,           \* STRIDE_LENGTH: blocks a copy moves at a time
  Budgets           \* how many journal and summary writes, crashes, faults and commands to try
                    \* together, and to which physical sizes; a fault is a failed read or write or
                    \* an error of another thread

VARIABLE s

idle == [op |-> "none", arg |-> 0]
noIO == [writes |-> {}, busy |-> FALSE, failed |-> FALSE]
blank == <<"blank">>

-----------------------------------------------------------------------------
(* Completions                                                             *)

top(z) == z.tasks[Len(z.tasks)]

prepareCompletion(z, callback, handler) ==
  [z EXCEPT !.tasks[Len(z.tasks)] = [callback |-> callback, handler |-> handler]]

push(z, callback, handler) ==
  [z EXCEPT !.tasks = Append(@, [callback |-> callback, handler |-> handler])]

(* setCompletionResult() keeps the first error.                            *)
finishCompletion(z, result) == [z EXCEPT !.ready = IF @ \in {"", ok} THEN result ELSE @]

completeCompletion(z) == finishCompletion(z, ok)

(* The one below is finished with the result; below the lowest is the      *)
(* admin completion, for which the caller waits.                           *)
finishParentCallback(z) ==
  IF Len(z.tasks) = 1
  THEN [z EXCEPT !.tasks = <<>>, !.ready = "", !.returned = IF z.adminResult = ok THEN z.ready ELSE z.adminResult]
  ELSE [z EXCEPT !.tasks = SubSeq(@, 1, Len(@) - 1)]

finishParent(z, result) == finishParentCallback([z EXCEPT !.ready = result])

resetCompletion(z) == [z EXCEPT !.ready = ""]

(* Every admin operation of this model has a caller of its own, so that    *)
(* the flag is only found set when one never finished.                     *)
performAdminOperation(z, op, arg, action, handler) ==
  [z EXCEPT !.call = [op |-> op, arg |-> arg], !.returned = "", !.adminResult = ok, !.phase = 0,
            !.tasks = <<[callback |-> action, handler |-> handler]>>, !.ready = ok]

-----------------------------------------------------------------------------
(* Reading and writing                                                     *)

onDisk(z, pbn) == IF pbn \in DOMAIN z.disk THEN z.disk[pbn] ELSE blank

writeMetadataExtent(z, writes) == [resetCompletion(z) EXCEPT !.io = [writes |-> writes, busy |-> TRUE, failed |-> FALSE]]

readMetadataExtent(z) == writeMetadataExtent(z, {})

(* The copies of the summary entries and where they are.                   *)
summaryWrites(depot, zones) == {<<depot.origin + zone, <<"summary", depot.entries[zone]>>>> : zone \in zones}

readEntries(z, origin) ==
  [zone \in copies |-> IF onDisk(z, origin + zone) = blank THEN initialEntries ELSE z.disk[origin + zone][2]]

-----------------------------------------------------------------------------
(* The super block                                                         *)

(* saveSuperBlockAsync(): parent is who waits for the write, the task or   *)
(* the read-only notifier.                                                 *)
finishSave(z, parent, result) ==
  IF parent = "task" THEN finishCompletion(z, result) ELSE [z EXCEPT !.vdo.notifier = "saved"]

saveSuperBlockAsync(z, content, parent) ==
  LET y == IF parent = "task" THEN resetCompletion(z) ELSE z
  IN  IF z.vdo.super.unwriteable THEN finishSave(y, parent, "VDO_READ_ONLY")
      ELSE IF z.vdo.super.parent # "none" THEN finishSave([y EXCEPT !.busyErrors = @ + 1], parent, "VDO_COMPONENT_BUSY")
      ELSE IF content = none THEN finishSave(y, parent, "UDS_BUFFER_ERROR")
      ELSE [y EXCEPT !.vdo.super.parent = parent, !.vdo.super.content = content]

saveVDOComponentsAsync(z, parent) == saveSuperBlockAsync(z, encodeSuperBlock(encodeVDO(z.vdo)), parent)

finishSuperBlockParent(z, result) ==
  finishSave([z EXCEPT !.vdo.super.parent = "none", !.vdo.super.content = none], z.vdo.super.parent, result)

handleSaveError(z) == finishSuperBlockParent([z EXCEPT !.vdo.super.unwriteable = TRUE], "EIO")

-----------------------------------------------------------------------------
(* Read-only mode                                                          *)

inReadOnlyMode(z) == z.vdo.state = "READ_ONLY_MODE"
isReadOnly(z) == z.vdo.adminReadOnly

(* The notifier's state is as in readOnlyNotifier.c; while it notifies,    *)
(* "NOTIFYING" is before the VDO is told and "saving" and "saved" are when *)
(* it was.                                                                 *)
enterReadOnlyMode(z, onAdminThread) ==
  LET y == IF onAdminThread THEN [z EXCEPT !.vdo.adminReadOnly = TRUE] ELSE z
  IN  IF z.vdo.readOnlyError THEN y
      ELSE [y EXCEPT !.vdo.readOnlyError = TRUE,
                     !.vdo.notifier = IF @ = "MAY_NOTIFY" THEN "NOTIFYING" ELSE @]

notifyVDOOfReadOnlyMode(z) ==
  saveVDOComponentsAsync([z EXCEPT !.vdo.adminReadOnly = TRUE, !.vdo.notifier = "saving",
                                   !.vdo.state = "READ_ONLY_MODE"], "notifier")

finishEnteringReadOnlyMode(z) ==
  LET y == [z EXCEPT !.vdo.notifier = "NOTIFIED", !.vdo.waiting = FALSE]
  IN  IF z.vdo.waiting THEN completeCompletion(y) ELSE y

waitUntilNotEnteringReadOnlyMode(z) ==
  CASE z.vdo.notifier = "MAY_NOTIFY" -> completeCompletion([z EXCEPT !.vdo.notifier = "MAY_NOT_NOTIFY"])
    [] z.vdo.notifier \in {"MAY_NOT_NOTIFY", "NOTIFIED"} -> completeCompletion(z)
    [] OTHER -> [z EXCEPT !.vdo.waiting = TRUE]

allowReadOnlyModeEntry(z) ==
  IF z.vdo.notifier # "MAY_NOT_NOTIFY" THEN completeCompletion(z)
  ELSE IF ~z.vdo.readOnlyError THEN completeCompletion([z EXCEPT !.vdo.notifier = "MAY_NOTIFY"])
  ELSE [z EXCEPT !.vdo.notifier = "NOTIFYING", !.vdo.waiting = TRUE]

-----------------------------------------------------------------------------
(* Loading: reading and decoding the super block                           *)

noSuper == [parent |-> "none", content |-> none, unwriteable |-> FALSE]

(* A VDO whose super block is being read.                                  *)
allocateVDO == [super |-> noSuper, decoded |-> FALSE]

preLoadCallback(z) == readMetadataExtent(prepareCompletion([z EXCEPT !.vdo = allocateVDO], "loadVDOComponents", "abortLoad"))

makeReadOnlyNotifier(readOnly) == IF readOnly THEN "NOTIFIED" ELSE "MAY_NOTIFY"

makeVDO(component, layout, parts) ==
  IF parts = none THEN none
  ELSE [decoded |-> TRUE, super |-> noSuper, state |-> component.state, loadState |-> component.state,
        completeRecoveries |-> component.completeRecoveries, readOnlyRecoveries |-> component.readOnlyRecoveries,
        config |-> component.config, layout |-> layout, journal |-> parts.journal, depot |-> parts.depot,
        blockMap |-> parts.blockMap, rest |-> parts.rest, closeRequired |-> FALSE, adminState |-> adminState("normal"),
        adminReadOnly |-> component.state = "READ_ONLY_MODE", readOnlyError |-> component.state = "READ_ONLY_MODE",
        notifier |-> makeReadOnlyNotifier(component.state = "READ_ONLY_MODE"), waiting |-> FALSE, scrubbing |-> FALSE,
        online |-> FALSE, highestTail |-> 0]

(* A mutant: the notifier is not told that the VDO was read-only.          *)
decodeAsWritable(component, layout, zoneCount) ==
  LET vdo == makeVDO(component, layout.layout, finishVDODecode(component, layout.layout, layout.rest, zoneCount))
  IN  IF layout = none THEN none ELSE IF vdo = none THEN none
      ELSE [vdo EXCEPT !.adminReadOnly = FALSE, !.readOnlyError = FALSE, !.notifier = makeReadOnlyNotifier(FALSE)]

(* The decoded VDO, none if it can not be decoded.  The threads of the VDO *)
(* have zoneCount physical zones this time.                                *)
decodeAfterLayout(component, layout, zoneCount) ==
  IF layout = none THEN none
  ELSE makeVDO(component, layout.layout, finishVDODecode(component, layout.layout, layout.rest, zoneCount))

decodeAfterComponent(component, zoneCount) ==
  IF component = none THEN none ELSE decodeAfterLayout(component, decodeVDOLayout(component.rest), zoneCount)

decodeVDO(super, zoneCount, blockCount) == decodeAfterComponent(startVDODecode(super, blockCount), zoneCount)

finishLoadingComponents(z, vdo) ==
  IF vdo = none THEN finishCompletion(resetCompletion(z), "VDO_BAD_CONFIGURATION")
  ELSE completeCompletion([z EXCEPT !.vdo = vdo])

(* The storage is as large as it is, whatever the VDO uses of it.          *)
loadVDOComponents(z) ==
  finishLoadingComponents(prepareCompletion(z, "finishParentCallback", "abortLoad"),
                          decodeVDO(decodeSuperBlock(z.disk[0][2]), z.call.arg, Storage))

-----------------------------------------------------------------------------
(* Loading: the slab depot                                                 *)

(* loadSlabSummary(): what follows when the extent was read or written.    *)
(* The allocators load their slabs when the summary is done (see           *)
(* BlockAllocator).                                                        *)
loadSlabDepot(z, operation, callback, handler) ==
  LET y == prepareCompletion(z, callback, handler)
  IN  IF operation \in {"formatting", "loadingForRebuild"}
      THEN writeMetadataExtent(y, summaryWrites(z.vdo.depot, copies))
      ELSE readMetadataExtent(push(y, "finishLoadingSummary", "finishParentCallback"))

(* A mutant: the entries are combined as if written by today's zones.      *)
finishLoadingSummaryOfToday(z) ==
  LET depot == [z.vdo.depot EXCEPT !.entries = combineZones(readEntries(z, z.vdo.depot.origin), z.vdo.depot.zoneCount)]
  IN  writeMetadataExtent(prepareCompletion([z EXCEPT !.vdo.depot = depot], "finishParentCallback", "finishParentCallback"),
                          summaryWrites(depot, copies))

finishLoadingSummary(z) ==
  LET depot == [z.vdo.depot EXCEPT !.entries = combineZones(readEntries(z, z.vdo.depot.origin), z.vdo.depot.oldZoneCount)]
  IN  writeMetadataExtent(prepareCompletion([z EXCEPT !.vdo.depot = depot], "finishParentCallback", "finishParentCallback"),
                          summaryWrites(depot, copies))

-----------------------------------------------------------------------------
(* Loading: the whole                                                      *)

wasNew(z) == z.vdo.loadState = "NEW"
requiresReadOnlyRebuild(z) == z.vdo.loadState \in {"FORCE_REBUILD", "REBUILD_FOR_UPGRADE"}
requiresRebuild(z) == z.vdo.state \in {"DIRTY", "FORCE_REBUILD", "REPLAYING", "REBUILD_FOR_UPGRADE"}
requiresRecovery(z) == z.vdo.loadState \in {"DIRTY", "REPLAYING", "RECOVERING"}
isReplaying(z) == z.vdo.state = "REPLAYING"
inRecoveryMode(z) == z.vdo.state = "RECOVERING"

enterRecoveryMode(z) == IF inReadOnlyMode(z) THEN z ELSE [z EXCEPT !.vdo.state = "RECOVERING"]

leaveRecoveryMode(z) ==
  IF inReadOnlyMode(z) THEN z
  ELSE [z EXCEPT !.vdo.state = "DIRTY", !.asserts = @ \union IF inRecoveryMode(z) THEN {} ELSE {"in recovery mode"}]

(* loadJournalAsync(): all of the journal's partition.                     *)
loadJournalAsync(z) == readMetadataExtent(z)

launchRebuild(z) ==
  LET y == IF z.vdo.loadState = "REBUILD_FOR_UPGRADE" THEN z ELSE [z EXCEPT !.vdo.readOnlyRecoveries = @ + 1]
  IN  loadSlabDepot(push(push(y, "finishRebuild", "finishParentCallback"), "", ""),
                    "loadingForRebuild", "loadJournal", "finishParentCallback")

launchRecovery(z) ==
  loadJournalAsync(push(push(z, "finishRecovery", "finishParentCallback"),
                        "prepareToApplyJournalEntries", "finishParentCallback"))

loadCallback(z) ==
  LET y == [z EXCEPT !.vdo.closeRequired = TRUE, !.vdo.journal.saved = FALSE]
  IN  IF isReadOnly(z) THEN finishParent(y, "VDO_READ_ONLY")
      ELSE IF requiresReadOnlyRebuild(z) THEN launchRebuild(prepareCompletion(y, "makeDirty", "abortLoad"))
      ELSE IF requiresRebuild(z) THEN launchRecovery(prepareCompletion(y, "makeDirty", "continueLoadReadOnly"))
      ELSE loadSlabDepot(y, IF wasNew(z) THEN "formatting" ELSE "loading", "makeDirty", "continueLoadReadOnly")

makeDirty(z) ==
  IF isReadOnly(z) THEN finishParent(z, "VDO_READ_ONLY")
  ELSE saveVDOComponentsAsync(
         [prepareCompletion(z, "prepareToComeOnline", "continueLoadReadOnly") EXCEPT !.vdo.state = "DIRTY"], "task")

(* prepareToAllocate(): every zone is to be scrubbed.                      *)
prepareToComeOnline(z) ==
  completeCompletion([prepareCompletion(resetCompletion(z), "scrubSlabs", "handleScrubbingError") EXCEPT
                       !.vdo.depot.zonesToScrub = z.vdo.depot.zoneCount])

hasUnrecoveredSlabs(z) == z.vdo.depot.zonesToScrub > 0

(* The zones go on scrubbing after the load has finished.                  *)
scrubSlabs(z) ==
  IF ~hasUnrecoveredSlabs(z) THEN finishParentCallback(z)
  ELSE LET y == IF requiresRecovery(z) THEN enterRecoveryMode(z) ELSE z
       IN  completeCompletion(prepareCompletion([resetCompletion(y) EXCEPT !.vdo.scrubbing = TRUE],
                                                "finishParentCallback", "continueLoadReadOnly"))

finishScrubbingSlabs(z) == IF inRecoveryMode(z) THEN leaveRecoveryMode(z) ELSE z

notifyZoneFinishedScrubbing(z) ==
  LET y == [z EXCEPT !.vdo.depot.zonesToScrub = @ - 1]
  IN  IF hasUnrecoveredSlabs(y) THEN y ELSE finishScrubbingSlabs([y EXCEPT !.vdo.scrubbing = FALSE])

waitForReadOnlyMode(z) ==
  waitUntilNotEnteringReadOnlyMode([prepareCompletion(z, "finishParentCallback", "finishParentCallback") EXCEPT
                                     !.ready = "", !.adminResult = "VDO_READ_ONLY"])

continueLoadReadOnly(z) == waitForReadOnlyMode(enterReadOnlyMode(z, TRUE))

handleScrubbingError(z) == continueLoadReadOnly(z)

(* The journal is closed if there is one.                                  *)
abortLoad(z) ==
  IF ~z.vdo.decoded THEN finishParentCallback(z)
  ELSE waitUntilNotEnteringReadOnlyMode([prepareCompletion(z, "finishAborting", "finishAborting") EXCEPT
                                          !.adminResult = z.ready, !.ready = ""])

finishAborting(z) == finishParentCallback([z EXCEPT !.vdo.closeRequired = FALSE])

-----------------------------------------------------------------------------
(* Recovery                                                                *)

(* The sequence numbers of the journal blocks on the storage which belong  *)
(* to this journal and are where they should be.                           *)
isCongruentRecoveryJournalBlock(block, recoveryCount, i) ==
  block # blank /\ block[1] = "journal" /\ block[3] = recoveryCount /\ block[2] % JournalSize = i

journalBlocks(z, journal) ==
  {onDisk(z, journal.partition.offset + i)[2] :
    i \in {k \in 0 .. JournalSize - 1 :
            isCongruentRecoveryJournalBlock(onDisk(z, journal.partition.offset + k), journal.recoveryCount, k)}}

findHeadAndTail(z, journal) ==
  LET found == {seq \in journalBlocks(z, journal) : seq >= journal.tail}
  IN  [foundEntries |-> found # {}, tail |-> CHOOSE seq \in found \union {journal.tail} :
                                               \A other \in found \union {journal.tail} : other <= seq]

prepareToApplyJournalEntries(z) ==
  LET range == findHeadAndTail(z, z.vdo.journal)
      y == [z EXCEPT !.vdo.highestTail = range.tail]
  IN  IF ~range.foundEntries THEN loadSlabDepot(y, "loadingForRecovery", "finishParentCallback", "finishParentCallback")
      ELSE IF isReplaying(z) THEN loadSlabDepot(y, "loadingForRecovery", "launchBlockMapRecovery", "finishParentCallback")
      ELSE loadSlabDepot(y, "loadingForRecovery", "finishRecoveringDepot", "finishParentCallback")

(* The entries replayed into the slab journals change the summary of at    *)
(* most one slab here (-1 for none).  The drain of the depot commits it.   *)
finishRecoveringDepot(z, slab) ==
  LET entry == z.lastEntry + 1
      depot == IF slab = -1 THEN z.vdo.depot ELSE updateSlabSummaryEntry(z.vdo.depot, slab, entry)
      y == IF slab = -1 THEN z ELSE [z EXCEPT !.vdo.depot = depot, !.lastEntry = entry, !.truth.replayed = <<slab, entry>>]
  IN  writeMetadataExtent(prepareCompletion(y, "startSuperBlockSave", "finishParentCallback"),
                          summaryWrites(depot, IF slab = -1 THEN {} ELSE {getSlabSummaryForZone(depot, slab)}))

startSuperBlockSave(z) ==
  saveVDOComponentsAsync(
    [prepareCompletion(z, "launchBlockMapRecovery", "finishParentCallback") EXCEPT !.vdo.state = "REPLAYING"], "task")

(* Recovering the block map is in Recovery; it ends here, perhaps with an  *)
(* error.                                                                  *)
launchBlockMapRecovery(z) == readMetadataExtent(prepareCompletion(z, "finishParentCallback", "finishParentCallback"))

finishRecovery(z) ==
  finishParentCallback([z EXCEPT
    !.vdo.completeRecoveries = @ + 1,
    !.vdo.journal = initializeRecoveryJournalPostRecovery(z.vdo.journal, z.vdo.completeRecoveries + 1, z.vdo.highestTail)])

-----------------------------------------------------------------------------
(* Rebuild                                                                 *)

loadJournal(z) == loadJournalAsync(prepareCompletion(z, "applyJournalEntries", "finishParentCallback"))

(* Recovering the block map and rebuilding the reference counts are in     *)
(* Rebuild; each may fail.                                                 *)
applyJournalEntries(z) ==
  readMetadataExtent(prepareCompletion([z EXCEPT !.vdo.highestTail = findHeadAndTail(z, z.vdo.journal).tail],
                                       "launchReferenceCountRebuild", "finishParentCallback"))

launchReferenceCountRebuild(z) ==
  readMetadataExtent(prepareCompletion(z, "finishReferenceCountRebuild", "finishParentCallback"))

(* The drain of the depot saves every slab and its summary entry.          *)
finishReferenceCountRebuild(z) ==
  LET entry == z.lastEntry + 1
      slabs == {z.vdo.depot.slabs[i].number : i \in DOMAIN z.vdo.depot.slabs}
      rebuilt == [zone \in copies |-> [n \in slabNumbers |->
                   IF n \in slabs /\ getSlabSummaryForZone(z.vdo.depot, n) = zone THEN entry
                   ELSE z.vdo.depot.entries[zone][n]]]
      y == [z EXCEPT !.vdo.completeRecoveries = IF z.vdo.loadState = "REBUILD_FOR_UPGRADE" THEN @ ELSE @ + 1,
                     !.vdo.depot.entries = rebuilt, !.lastEntry = entry,
                     !.truth.summary = [n \in slabNumbers |-> IF n \in slabs THEN entry ELSE 0]]
  IN  writeMetadataExtent(prepareCompletion(y, "finishParentCallback", "finishParentCallback"),
                          summaryWrites(y.vdo.depot, 0 .. y.vdo.depot.zoneCount - 1))

(* The counts of the rebuild are in Rebuild; no logical block is mapped    *)
(* here, so those it finds are those the super block had.                  *)
finishRebuild(z) ==
  finishParentCallback([z EXCEPT !.vdo.journal =
    initializeRecoveryJournalPostRebuild(z.vdo.journal, z.vdo.completeRecoveries, z.vdo.highestTail,
                                         z.vdo.journal.logicalBlocksUsed, z.vdo.journal.blockMapDataBlocks)])

-----------------------------------------------------------------------------
(* Suspending and resuming, the drains as one step (see SuspendResume)     *)

(* finishOperationWithResult(): nothing happens when there is no operation *)
(* in progress.                                                            *)
finishOperationWithResult(z, result) ==
  IF ~isOperating(z.vdo.adminState) THEN [resetCompletion(z) EXCEPT !.lostFinish = TRUE]
  ELSE [z EXCEPT !.vdo.adminState = endOperation([@ EXCEPT !.starting = FALSE]), !.tasks = <<>>, !.ready = "",
                 !.returned = IF z.adminResult = ok THEN result ELSE z.adminResult]

(* startOperationWithWaiter(): the waiter is the admin completion.         *)
startOperation(z, operation) == [z EXCEPT !.vdo.adminState = started(begin(@, operation, "admin"))]

nextPhase(z) == [z EXCEPT !.phase = @ + 1, !.ready = ""]

preserveErrorAndContinue(z) == [z EXCEPT !.adminResult = IF @ = ok THEN z.ready ELSE @, !.ready = ok]

writeSuperBlockForSuspend(z) ==
  IF z.vdo.state = "REPLAYING" THEN finishCompletion(z, "UDS_BAD_STATE")
  ELSE saveVDOComponentsAsync([z EXCEPT !.vdo.state = IF @ \in {"DIRTY", "NEW"} THEN "CLEAN" ELSE @], "task")

suspendCallback(z) ==
  CASE z.phase = 0 ->
         LET y == startOperation(nextPhase(z), z.call.arg)
         IN  IF ~z.vdo.closeRequired THEN finishOperationWithResult(y, ok) ELSE waitUntilNotEnteringReadOnlyMode(y)
    [] z.phase = 1 ->
         completeCompletion([nextPhase(z) EXCEPT
           !.vdo.journal.saved = z.call.arg = "saving",
           !.adminResult = IF @ = ok /\ z.vdo.readOnlyError THEN "VDO_READ_ONLY" ELSE @])
    [] z.phase = 2 ->
         IF z.call.arg = "suspending" \/ z.adminResult # ok THEN finishOperationWithResult(nextPhase(z), ok)
         ELSE writeSuperBlockForSuspend(nextPhase(z))
    [] OTHER -> finishOperationWithResult(z, z.ready)

writeSuperBlockForResume(z) ==
  CASE z.vdo.state \in {"CLEAN", "NEW"} -> saveVDOComponentsAsync([z EXCEPT !.vdo.state = "DIRTY"], "task")
    [] z.vdo.state = "REPLAYING" -> finishCompletion(z, "UDS_BAD_STATE")
    [] OTHER -> completeCompletion(z)

resumeCallback(z) ==
  CASE z.phase = 0 -> writeSuperBlockForResume(startOperation(nextPhase(z), "resuming"))
    [] z.phase = 1 -> allowReadOnlyModeEntry(nextPhase(z))
    [] z.phase = 2 -> finishCompletion([nextPhase(z) EXCEPT !.vdo.journal.saved = FALSE],
                                       IF isReadOnly(z) THEN "VDO_READ_ONLY" ELSE ok)
    [] OTHER -> finishOperationWithResult(z, z.ready)

-----------------------------------------------------------------------------
(* Copying a partition                                                     *)

getStrideSize(copy) == IF copy.end - copy.index < Stride THEN copy.end - copy.index ELSE Stride

copyPartitionStride(z) ==
  IF translateToPBN(z.copy.source, z.copy.index) = outOfRange
  THEN finishCompletion(prepareCompletion(resetCompletion(z), "finishParentCallback", "finishParentCallback"), "VDO_OUT_OF_RANGE")
  ELSE readMetadataExtent(prepareCompletion(z, "completeReadForCopy", "finishParentCallback"))

completeReadForCopy(z) ==
  LET from == translateToPBN(z.copy.source, z.copy.index)
      to == translateToPBN(z.copy.target, z.copy.index)
  IN  writeMetadataExtent(prepareCompletion(z, "completeWriteForCopy", "finishParentCallback"),
                          {<<to + i, onDisk(z, from + i)>> : i \in 0 .. getStrideSize(z.copy) - 1})

completeWriteForCopy(z) ==
  LET y == [z EXCEPT !.copy.index = @ + getStrideSize(z.copy)]
  IN  IF y.copy.index >= y.copy.end THEN finishParentCallback(y) ELSE copyPartitionStride(y)

validatePartitionCopy(source, target) ==
  /\ source.count <= target.count
  /\ source.offset + source.count <= target.offset \/ target.offset + target.count <= source.offset

copyPartition(z, id) ==
  LET source == getVDOPartition(z.vdo.layout, id)
      target == getPartitionFromNextLayout(z.vdo.layout, id)
  IN  IF ~validatePartitionCopy(source, target)
      THEN finishCompletion([resetCompletion(z) EXCEPT !.asserts = @ \union {"partition copy"}], "UDS_ASSERTION_FAILED")
      ELSE copyPartitionStride([push(resetCompletion(z), "", "") EXCEPT
             !.copy = [source |-> source, target |-> target, index |-> 0, end |-> source.count]])

-----------------------------------------------------------------------------
(* Growing the physical space                                              *)

finishGrowth(z, result) ==
  finishOperationWithResult([z EXCEPT !.vdo.layout = finishVDOLayoutGrowth(@)], result)

growPhysicalCallback(z) ==
  CASE z.phase = 0 ->
         IF isReadOnly(z) THEN finishGrowth(nextPhase(z), "VDO_READ_ONLY")
         ELSE copyPartition(startOperation(nextPhase(z), "suspendedOperation"), "RECOVERY_JOURNAL_PARTITION")
    [] z.phase = 1 -> copyPartition(nextPhase(z), "SLAB_SUMMARY_PARTITION")
    [] z.phase = 2 ->
         LET layout == growVDOLayout(z.vdo.layout)
         IN  saveVDOComponentsAsync(
               [nextPhase(z) EXCEPT !.vdo.layout = layout, !.vdo.depot = updateSlabDepotSize(@),
                  !.vdo.config.physicalBlocks = getVDOSize(layout.layout, layout.startingOffset)], "task")
    [] z.phase = 3 ->
         completeCompletion([nextPhase(z) EXCEPT !.vdo.depot = finishRegistration(@),
           !.asserts = @ \union IF z.vdo.depot.newSlabs = none THEN {"new slabs to use"} ELSE {}])
    [] z.phase = 4 ->
         finishGrowth([nextPhase(z) EXCEPT
           !.vdo.depot = setSlabSummaryOrigin(@, getVDOPartition(z.vdo.layout, "SLAB_SUMMARY_PARTITION")),
           !.vdo.journal = setRecoveryJournalPartition(@, getVDOPartition(z.vdo.layout, "RECOVERY_JOURNAL_PARTITION"))],
           z.ready)
    [] OTHER -> finishGrowth(enterReadOnlyMode(z, TRUE), z.ready)

handleGrowthError(z) == growPhysicalCallback([z EXCEPT !.phase = 5])

(* What the operation used is as before it.                                *)
return(z, result) ==
  [z EXCEPT !.call = idle, !.returned = "", !.adminResult = ok, !.phase = 0, !.copy = none]

(* A command which returns before any operation is started.                *)
fails(z, op, n, result) == return([z EXCEPT !.call = [op |-> op, arg |-> n]], result)

performGrowPhysical(z, n) ==
  IF z.vdo.config.physicalBlocks = n THEN fails(z, "growPhysical", n, ok)
  ELSE IF n # getNextVDOLayoutSize(z.vdo.layout)
  THEN fails([z EXCEPT !.vdo.layout = finishVDOLayoutGrowth(@), !.vdo.depot = abandonNewSlabs(@)],
             "growPhysical", n, "VDO_PARAMETER_MISMATCH")
  ELSE IF getNewDepotSize(z.vdo.depot) # getNextBlockAllocatorPartitionSize(z.vdo.layout)
  THEN fails(z, "growPhysical", n, "VDO_PARAMETER_MISMATCH")
  ELSE performAdminOperation(z, "growPhysical", n, "growPhysicalCallback", "handleGrowthError")

checkMayGrowPhysical(z) ==
  finishParent(z, IF isReadOnly(z) THEN "VDO_READ_ONLY"
                  ELSE IF inRecoveryMode(z) THEN "VDO_RETRY_AFTER_REBUILD" ELSE ok)

prepareToGrowPhysical(z, n) ==
  IF n < z.vdo.config.physicalBlocks THEN fails(z, "prepareToGrowPhysical", n, "VDO_NOT_IMPLEMENTED")
  ELSE IF n = z.vdo.config.physicalBlocks
  THEN fails([z EXCEPT !.vdo.layout = finishVDOLayoutGrowth(@), !.vdo.depot = abandonNewSlabs(@), !.prepared = 0],
             "prepareToGrowPhysical", n, "VDO_PARAMETER_MISMATCH")
  ELSE performAdminOperation(z, "prepareToGrowPhysical", n, "checkMayGrowPhysical", "finishParentCallback")

(* The rest of prepareToGrowPhysical(), when it may grow.                  *)
prepareLayoutAndDepot(z, n) ==
  LET layout == prepareToGrowVDOLayout(z.vdo.layout, z.vdo.config.physicalBlocks, n)
      depot == prepareToGrowSlabDepot(z.vdo.depot, getNextBlockAllocatorPartitionSize(layout.layout))
      y == [z EXCEPT !.vdo.layout = layout.layout]
  IN  IF layout.result # ok THEN return([y EXCEPT !.prepared = 0], layout.result)
      ELSE IF depot.result # ok
      THEN return([y EXCEPT !.vdo.layout = finishVDOLayoutGrowth(@), !.vdo.depot = depot.depot, !.prepared = 0], depot.result)
      ELSE return([y EXCEPT !.vdo.depot = depot.depot, !.prepared = n], ok)

-----------------------------------------------------------------------------
(* Growing the logical space                                               *)

growLogicalCallback(z) ==
  CASE z.phase = 0 ->
         IF isReadOnly(z) THEN finishCompletion(nextPhase(z), "VDO_READ_ONLY")
         ELSE saveVDOComponentsAsync([startOperation(nextPhase(z), "suspendedOperation") EXCEPT
                                       !.vdo.config.logicalBlocks = z.vdo.blockMap.nextEntryCount], "task")
    [] z.phase = 1 -> completeCompletion([nextPhase(z) EXCEPT !.vdo.blockMap.entryCount = z.vdo.blockMap.nextEntryCount,
                                                              !.vdo.blockMap.nextEntryCount = 0])
    [] z.phase = 2 -> finishOperationWithResult(z, z.ready)
    [] OTHER -> finishOperationWithResult(enterReadOnlyMode(z, TRUE), z.ready)

abandonBlockMapGrowth(map) == [map EXCEPT !.nextEntryCount = 0]

handleLogicalGrowthError(z) ==
  LET y == [z EXCEPT !.vdo.config.logicalBlocks = z.vdo.blockMap.entryCount, !.vdo.blockMap = abandonBlockMapGrowth(@)]
  IN  growLogicalCallback([IF z.phase = 1 THEN y ELSE z EXCEPT !.phase = 3])

performGrowLogical(z, n) ==
  IF z.vdo.blockMap.nextEntryCount # n THEN fails(z, "growLogical", n, "VDO_PARAMETER_MISMATCH")
  ELSE performAdminOperation(z, "growLogical", n, "growLogicalCallback", "handleLogicalGrowthError")

prepareToGrowBlockMap(map, n) ==
  IF map.nextEntryCount = n THEN map
  ELSE [abandonBlockMapGrowth(map) EXCEPT !.nextEntryCount = IF n < map.entryCount THEN map.entryCount ELSE n]

prepareToGrowLogical(z, n) ==
  IF n <= z.vdo.config.logicalBlocks THEN fails(z, "prepareToGrowLogical", n, "VDO_PARAMETER_MISMATCH")
  ELSE fails([z EXCEPT !.vdo.blockMap = prepareToGrowBlockMap(@, n)], "prepareToGrowLogical", n, ok)

-----------------------------------------------------------------------------
(* The formatted storage                                                   *)

(* What the formatter leaves: a super block, and nothing in the journal    *)
(* and the summary.                                                        *)
formatted ==
  LET layout == makeVDOLayout(InitialBlocks, 1, 1, JournalSize, MaxZones)
      allocator == getVDOPartition(layout, "BLOCK_ALLOCATOR_PARTITION")
      state == configureState(allocator.count, allocator.offset)
      config == [slabBlocks |-> SlabSize, dataBlocks |-> SlabSize - 3, referenceCountBlocks |-> 1,
                 slabJournalBlocks |-> 2, flushing |-> 2, blocking |-> 2, scrubbing |-> 2]
  IN  [state |-> "NEW", completeRecoveries |-> 0, readOnlyRecoveries |-> 0,
       config |-> [logicalBlocks |-> Head(LogicalSizes), physicalBlocks |-> InitialBlocks, slabSize |-> SlabSize,
                   recoveryJournalSize |-> JournalSize, slabJournalBlocks |-> 2],
       layout |-> layout, journal |-> makeRecoveryJournal(none, 0),
       depot |-> [slabConfig |-> config, firstBlock |-> allocator.offset, lastBlock |-> state.lastBlock,
                  zoneCount |-> 0, oldZoneCount |-> 0],
       blockMap |-> makeBlockMap(Head(LogicalSizes), 0, 1, 1)]

Init ==
  \E b \in Budgets : s = [disk |-> 0 :> <<"super", encodeSuperBlock(encodeVDO(formatted))>>,
       vdo |-> none, tasks |-> <<>>, ready |-> "", phase |-> 0, call |-> idle, returned |-> "", adminResult |-> ok,
       io |-> noIO, copy |-> none, prepared |-> 0,
       lastEntry |-> 0, truth |-> [tail |-> 0, summary |-> initialEntries, replayed |-> none],
       writes |-> b.writes, crashes |-> b.crashes, faults |-> b.faults, commands |-> b.commands, sizes |-> b.sizes,
       asserts |-> {}, busyErrors |-> 0, lostFinish |-> FALSE,
       exposed |-> FALSE]

-----------------------------------------------------------------------------
(* The steps of an operation                                               *)

isUp == s.vdo # none /\ s.vdo.decoded

invoked(name) ==
  /\ s.tasks # <<>>
  /\ s.ready # ""
  /\ name = IF s.ready = ok THEN top(s).callback ELSE top(s).handler

FinishParentCallback == invoked("finishParentCallback") /\ s' = finishParentCallback(s)
PreLoadCallback == invoked("preLoadCallback") /\ s' = preLoadCallback(s)
LoadVDOComponents == invoked("loadVDOComponents") /\ s' = loadVDOComponents(s)
AbortLoad == invoked("abortLoad") /\ s' = abortLoad(s)
FinishAborting == invoked("finishAborting") /\ s' = finishAborting(s)
LoadCallback == invoked("loadCallback") /\ s' = loadCallback(s)
FinishLoadingSummary == invoked("finishLoadingSummary") /\ s' = finishLoadingSummary(s)
MakeDirty == invoked("makeDirty") /\ s' = makeDirty(s)
PrepareToComeOnline == invoked("prepareToComeOnline") /\ s' = prepareToComeOnline(s)
ScrubSlabs == invoked("scrubSlabs") /\ s' = scrubSlabs(s)
ContinueLoadReadOnly == invoked("continueLoadReadOnly") /\ s' = continueLoadReadOnly(s)
PrepareToApplyJournalEntries == invoked("prepareToApplyJournalEntries") /\ s' = prepareToApplyJournalEntries(s)
FinishRecoveringDepot ==
  /\ invoked("finishRecoveringDepot")
  /\ \E slab \in {-1} \union 0 .. s.vdo.depot.slabCount - 1 : s' = finishRecoveringDepot(s, slab)
StartSuperBlockSave == invoked("startSuperBlockSave") /\ s' = startSuperBlockSave(s)
LaunchBlockMapRecovery == invoked("launchBlockMapRecovery") /\ s' = launchBlockMapRecovery(s)
FinishRecovery == invoked("finishRecovery") /\ s' = finishRecovery(s)
LoadJournal == invoked("loadJournal") /\ s' = loadJournal(s)
ApplyJournalEntries == invoked("applyJournalEntries") /\ s' = applyJournalEntries(s)
LaunchReferenceCountRebuild == invoked("launchReferenceCountRebuild") /\ s' = launchReferenceCountRebuild(s)
FinishReferenceCountRebuild == invoked("finishReferenceCountRebuild") /\ s' = finishReferenceCountRebuild(s)
FinishRebuild == invoked("finishRebuild") /\ s' = finishRebuild(s)
SuspendCallback == invoked("suspendCallback") /\ s' = suspendCallback(s)
ResumeCallback == invoked("resumeCallback") /\ s' = resumeCallback(s)
PreserveErrorAndContinue ==
  /\ invoked("preserveErrorAndContinue")
  /\ s' = IF s.call.op = "suspend" THEN suspendCallback(preserveErrorAndContinue(s))
          ELSE resumeCallback(preserveErrorAndContinue(s))
CompleteReadForCopy == invoked("completeReadForCopy") /\ s' = completeReadForCopy(s)
CompleteWriteForCopy == invoked("completeWriteForCopy") /\ s' = completeWriteForCopy(s)
GrowPhysicalCallback == invoked("growPhysicalCallback") /\ s' = growPhysicalCallback(s)
HandleGrowthError == invoked("handleGrowthError") /\ s' = handleGrowthError(s)
CheckMayGrowPhysical == invoked("checkMayGrowPhysical") /\ s' = checkMayGrowPhysical(s)
GrowLogicalCallback == invoked("growLogicalCallback") /\ s' = growLogicalCallback(s)
HandleLogicalGrowthError == invoked("handleLogicalGrowthError") /\ s' = handleLogicalGrowthError(s)

-----------------------------------------------------------------------------
(* Other threads, and the storage                                          *)

(* A block of an extent is written; one which fails may be written or not. *)
ExtentBlock ==
  \E w \in s.io.writes, fails1 \in BOOLEAN, lands \in BOOLEAN :
    /\ fails1 => s.faults > 0
    /\ ~fails1 => lands
    /\ s' = [s EXCEPT !.io.writes = @ \ {w}, !.disk = IF lands THEN w[1] :> w[2] @@ @ ELSE @,
                      !.io.failed = @ \/ fails1, !.faults = IF fails1 THEN @ - 1 ELSE @]

(* The thread on which a load fails may itself have made the VDO read-only.*)
ExtentDone ==
  \E fails1, tells \in BOOLEAN :
    LET done == [s EXCEPT !.io = noIO, !.faults = IF fails1 THEN @ - 1 ELSE @]
    IN  /\ s.io.busy /\ s.io.writes = {}
        /\ fails1 => s.faults > 0 /\ ~s.io.failed
        /\ tells => isUp /\ s.call.op = "load" /\ (fails1 \/ s.io.failed)
        /\ s' = finishCompletion(IF tells THEN enterReadOnlyMode(done, FALSE) ELSE done,
                                 IF fails1 \/ s.io.failed THEN "EIO" ELSE ok)

recordedState(content) == decodeVDOComponent(skipForward(decodeSuperBlock(content).components, 2)).state

superBlockLands(z) ==
  LET content == z.vdo.super.content
      y == [z EXCEPT !.disk[0] = <<"super", content>>,
                     !.exposed = @ \/ (recordedState(content) = "RECOVERING" /\ ~z.vdo.journal.saved)]
  IN  IF z.truth.replayed # none /\ recordedState(content) = "REPLAYING"
      THEN [y EXCEPT !.truth.summary[z.truth.replayed[1]] = z.truth.replayed[2], !.truth.replayed = none]
      ELSE y

SuperBlockWritten ==
  /\ isUp /\ s.vdo.super.parent # "none"
  /\ \/ s' = finishSuperBlockParent(superBlockLands(s), ok)
     \/ /\ s.faults > 0
        /\ \E z \in {s, superBlockLands(s)} : s' = handleSaveError([z EXCEPT !.faults = @ - 1])

NotifyVDO == isUp /\ s.vdo.notifier = "NOTIFYING" /\ s' = notifyVDOOfReadOnlyMode(s)
FinishEnteringReadOnlyMode == isUp /\ s.vdo.notifier = "saved" /\ s' = finishEnteringReadOnlyMode(s)

isOnline == isUp /\ s.vdo.online /\ s.vdo.adminState.state = "normal"

(* Another thread finds an error, while the VDO is in use or is drained.   *)
OtherThreadFails ==
  /\ isUp /\ s.faults > 0
  /\ isOnline \/ (s.call.op = "suspend" /\ s.phase = 1)
  /\ s' = enterReadOnlyMode([s EXCEPT !.faults = @ - 1], FALSE)

ZoneFinishesScrubbing ==
  /\ isUp /\ s.vdo.scrubbing /\ s.vdo.adminState.state = "normal"
  /\ s' = notifyZoneFinishedScrubbing(s)

JournalWrite ==
  /\ isOnline /\ ~s.vdo.readOnlyError /\ s.writes > 0
  /\ s.vdo.journal.tail - s.vdo.journal.head < JournalSize
  /\ s' = [s EXCEPT !.writes = @ - 1, !.vdo.journal.tail = @ + 1, !.truth.tail = s.vdo.journal.tail,
                    !.disk = (s.vdo.journal.partition.offset + (s.vdo.journal.tail % JournalSize)
                                :> <<"journal", s.vdo.journal.tail, s.vdo.journal.recoveryCount>>) @@ @]

(* Everything in the journal is in the slab journals and the block map.    *)
JournalReap ==
  /\ isOnline /\ ~s.vdo.readOnlyError /\ s.vdo.journal.head # s.vdo.journal.tail
  /\ s' = [s EXCEPT !.vdo.journal.head = s.vdo.journal.tail]

SummaryWrite ==
  \E i \in 1 .. MaxSlabs :
    /\ isOnline /\ ~s.vdo.readOnlyError /\ s.writes > 0 /\ i \in DOMAIN s.vdo.depot.slabs
    /\ LET slab == s.vdo.depot.slabs[i].number
           zone == getSlabSummaryForZone(s.vdo.depot, slab)
           depot == updateSlabSummaryEntry(s.vdo.depot, slab, s.lastEntry + 1)
       IN  s' = [s EXCEPT !.writes = @ - 1, !.vdo.depot = depot, !.lastEntry = @ + 1,
                          !.truth.summary[slab] = s.lastEntry + 1,
                          !.disk = (depot.origin + zone :> <<"summary", depot.entries[zone]>>) @@ @]

-----------------------------------------------------------------------------
(* Commands, and crashes                                                   *)

mayCommand == s.call = idle /\ s.commands > 0
commanded == [s EXCEPT !.commands = @ - 1]

recorded(z) == decodeVDO(decodeSuperBlock(z.disk[0][2]), 1, Storage)

summaryFound(z, vdo) == combineZones(readEntries(z, vdo.depot.origin), vdo.depot.oldZoneCount)[0]

(* A replayed summary entry counts when it would be found.                 *)
isFound(z, replayed) == replayed # none /\ summaryFound(z, recorded(z))[replayed[1]] = replayed[2]

down(z) ==
  [z EXCEPT !.vdo = none, !.tasks = <<>>, !.ready = "", !.call = idle, !.returned = "", !.io = noIO, !.copy = none,
            !.prepared = 0, !.truth.replayed = none,
            !.truth.summary = IF isFound(z, z.truth.replayed) THEN [@ EXCEPT ![z.truth.replayed[1]] = z.truth.replayed[2]]
                              ELSE @]

Load == mayCommand /\ s.vdo = none
        /\ \E zones \in 1 .. MaxZones :
             s' = performAdminOperation(commanded, "prepareToLoad", zones, "preLoadCallback", "preLoadCallback")

Suspend == mayCommand /\ isOnline
           /\ \E how \in {"suspending", "saving"} :
                s' = [performAdminOperation(commanded, "suspend", how, "suspendCallback", "preserveErrorAndContinue") EXCEPT
                       !.vdo.online = FALSE]

isSuspended == isUp /\ s.vdo.adminState.state \in {"suspended", "saved"}

Resume == s.call = idle /\ isSuspended
          /\ s' = [performAdminOperation(s, "resume", 0, "resumeCallback", "preserveErrorAndContinue") EXCEPT
                     !.exposed = @ \/ recordedState(s.disk[0][2]) = "RECOVERING"]

Stop == s.call = idle /\ isSuspended /\ s' = down(s)

PrepareToGrowPhysical == mayCommand /\ isOnline /\ \E n \in s.sizes : s' = prepareToGrowPhysical(commanded, n)
PerformGrowPhysical == mayCommand /\ isSuspended /\ \E n \in s.sizes : s' = performGrowPhysical([commanded EXCEPT !.prepared = 0], n)
PrepareToGrowLogical ==
  mayCommand /\ isOnline /\ \E i \in DOMAIN LogicalSizes : s' = prepareToGrowLogical(commanded, LogicalSizes[i])
PerformGrowLogical ==
  mayCommand /\ isSuspended /\ \E i \in DOMAIN LogicalSizes : s' = performGrowLogical(commanded, LogicalSizes[i])

(* The caller of an operation goes on when it is finished.                 *)
Return ==
  /\ s.returned # ""
  /\ s' = CASE s.call.op = "prepareToLoad" ->
                 IF s.returned \in {ok, "VDO_READ_ONLY"}
                 THEN performAdminOperation(s, "load", s.call.arg, "loadCallback", "loadCallback")
                 ELSE down(return(s, s.returned))
            [] s.call.op = "load" ->
                 IF s.returned \in {ok, "VDO_READ_ONLY"} THEN [return(s, s.returned) EXCEPT !.vdo.online = TRUE]
                 ELSE down(return(s, s.returned))
            [] s.call.op = "resume" -> [return(s, s.returned) EXCEPT !.vdo.online = s.returned = ok]
            [] s.call.op = "prepareToGrowPhysical" /\ s.returned = ok -> prepareLayoutAndDepot(s, s.call.arg)
            [] OTHER -> return(s, s.returned)

(* The user asks for a rebuild (vdoForceRebuild): saveReconfiguredVDO()    *)
(* writes the component again and keeps the rest.                          *)
saveReconfiguredVDO(disk, state) ==
  LET super == decodeSuperBlock(disk[0][2])
      component == decodeVDOComponent(skipForward(super.components, 2))
      components == encodeMasterVersion \o encodeVDOComponent([component EXCEPT !.state = state]) \o component.rest
  IN  0 :> <<"super", encodeSuperBlock(components)>> @@ disk

ForceRebuild ==
  /\ s.vdo = none /\ recordedState(s.disk[0][2]) = "READ_ONLY_MODE"
  /\ s' = [s EXCEPT !.disk = saveReconfiguredVDO(@, "FORCE_REBUILD")]

Crash == s.vdo # none /\ s.crashes > 0 /\ s' = [down(s) EXCEPT !.crashes = @ - 1]

Progress ==
  \/ FinishParentCallback \/ PreLoadCallback \/ LoadVDOComponents \/ AbortLoad \/ FinishAborting \/ LoadCallback
  \/ FinishLoadingSummary \/ MakeDirty \/ PrepareToComeOnline \/ ScrubSlabs \/ ContinueLoadReadOnly
  \/ PrepareToApplyJournalEntries \/ FinishRecoveringDepot \/ StartSuperBlockSave \/ LaunchBlockMapRecovery
  \/ FinishRecovery \/ LoadJournal \/ ApplyJournalEntries \/ LaunchReferenceCountRebuild
  \/ FinishReferenceCountRebuild \/ FinishRebuild \/ SuspendCallback \/ ResumeCallback \/ PreserveErrorAndContinue
  \/ CompleteReadForCopy \/ CompleteWriteForCopy \/ GrowPhysicalCallback \/ HandleGrowthError \/ CheckMayGrowPhysical
  \/ GrowLogicalCallback \/ HandleLogicalGrowthError
  \/ ExtentBlock \/ ExtentDone \/ SuperBlockWritten \/ NotifyVDO \/ FinishEnteringReadOnlyMode \/ Return

Next ==
  \/ Progress
  \/ OtherThreadFails \/ ZoneFinishesScrubbing \/ JournalWrite \/ JournalReap \/ SummaryWrite
  \/ Load \/ Suspend \/ Resume \/ Stop \/ PrepareToGrowPhysical \/ PerformGrowPhysical \/ PrepareToGrowLogical
  \/ PerformGrowLogical \/ ForceRebuild \/ Crash

Spec == Init /\ [][Next]_s

-----------------------------------------------------------------------------
(* Properties                                                              *)

isJournalFound(vdo, range) ==
  CASE vdo.state \in {"DIRTY", "REPLAYING", "FORCE_REBUILD", "READ_ONLY_MODE"} ->
         IF s.truth.tail >= vdo.journal.tail THEN range.tail = s.truth.tail ELSE ~range.foundEntries
    [] vdo.state \in {"CLEAN", "NEW", "RECOVERING"} -> s.truth.tail < vdo.journal.tail

isSummaryFound(slabs, found) ==
  \A i \in DOMAIN slabs :
    \/ found[slabs[i].number] = s.truth.summary[slabs[i].number]
    \/ s.truth.replayed # none /\ s.truth.replayed = <<slabs[i].number, found[slabs[i].number]>>

isRecoverable(vdo) ==
  /\ vdo # none
  /\ vdo.rest = <<>>
  /\ s.exposed \/ isJournalFound(vdo, findHeadAndTail(s, vdo.journal))
  /\ vdo.state \in {"DIRTY", "REPLAYING", "RECOVERING", "CLEAN"} => isSummaryFound(vdo.depot.slabs, summaryFound(s, vdo))

(* If the machine crashed now, a load would decode the super block, all of *)
(* it.  From the state it finds it would know whether the journal must be  *)
(* replayed, and would find its last block, with the partition, the start  *)
(* and the recovery count recorded; and it would find the latest summary   *)
(* entry of each slab in the copy of its zone, whatever the number of      *)
(* zones was and will be.  Not so for the journal when the state           *)
(* RECOVERING was recorded and the VDO then used (exposed): the logical    *)
(* size may be grown while slabs are scrubbed, and a VDO saved then may be *)
(* resumed, and requiresRebuild() does not hold for that state.            *)
ACrashIsRecoverable == isRecoverable(recorded(s))

(* The partitions of a layout are apart from each other and the slabs are  *)
(* in the allocator's.                                                     *)
isLaidOut(vdo) ==
  LET parts == vdo.layout.layout.partitions
      allocator == getVDOPartition(vdo.layout, "BLOCK_ALLOCATOR_PARTITION")
  IN  /\ \A i, j \in DOMAIN parts :
           i < j => \/ parts[i].offset + parts[i].count <= parts[j].offset
                    \/ parts[j].offset + parts[j].count <= parts[i].offset
      /\ \A i \in DOMAIN parts : parts[i].offset >= 1 /\ parts[i].offset + parts[i].count <= vdo.config.physicalBlocks
      /\ vdo.depot.firstBlock = allocator.offset
      /\ vdo.depot.lastBlock \in allocator.offset .. allocator.offset + allocator.count

(* prepareToGrowSlabDepot() returns early when it has prepared as many     *)
(* slabs before, and keeps the size it was given then; growing will fail.  *)
isPreparedForAnotherSize ==
  /\ getNewDepotSize(s.vdo.depot) # getNextBlockAllocatorPartitionSize(s.vdo.layout)
  /\ getNewDepotSize(s.vdo.depot) \div SlabSize = getNextBlockAllocatorPartitionSize(s.vdo.layout) \div SlabSize

partsAgree(onStorage) ==
  /\ isLaidOut(onStorage)
  /\ isUp /\ s.vdo.online /\ ~s.vdo.readOnlyError =>
       /\ s.vdo.journal.partition = getVDOPartition(s.vdo.layout, "RECOVERY_JOURNAL_PARTITION")
       /\ s.vdo.depot.origin = getPartitionOffset(s.vdo.layout, "SLAB_SUMMARY_PARTITION")
       /\ s.vdo.depot.slabCount = computeSlabCount(s.vdo.depot.firstBlock, s.vdo.depot.lastBlock)
       /\ s.vdo.blockMap.entryCount = onStorage.config.logicalBlocks
       /\ s.vdo.depot.slabCount = onStorage.depot.slabCount
  /\ isUp /\ s.prepared # 0 /\ s.call = idle /\ s.vdo.config.physicalBlocks # s.prepared =>
       /\ getNextVDOLayoutSize(s.vdo.layout) = s.prepared
       /\ isPreparedForAnotherSize \/ getNewDepotSize(s.vdo.depot) = getNextBlockAllocatorPartitionSize(s.vdo.layout)

(* What the VDO records fits together at every moment; and when it is in   *)
(* use, its journal and its summary are where its layout says they are and *)
(* it has the slabs and the logical blocks which are recorded.  A size for *)
(* which the preparation succeeded can be grown to, except one with as     *)
(* many slabs as a size prepared before: prepareToGrowSlabDepot() keeps    *)
(* the earlier size, and growPhysical() will refuse the later one.         *)
PartsAgree == partsAgree(recorded(s))

(* There is something which will continue the operation.                   *)
isGoingOn ==
  \/ s.returned # ""
  \/ s.tasks # <<>> /\ s.ready # ""
  \/ s.io.busy
  \/ isUp /\ s.vdo.super.parent # "none"
  \/ isUp /\ s.vdo.waiting /\ s.vdo.notifier \in {"NOTIFYING", "saved"}

(* An operation which was started does not stop before its caller returns: *)
(* always its next completion is to be called, or a read or a write is in  *)
(* progress, or the notifier it waits for is at work.  The growth of a VDO *)
(* which is read-only is excepted: growPhysicalCallback() and              *)
(* growLogicalCallback() finish it before it is an operation of the admin  *)
(* state, finishOperationWithResult() does nothing, and its caller waits   *)
(* for ever.                                                               *)
OperationsFinish ==
  s.call # idle =>
    \/ isGoingOn
    \/ s.lostFinish /\ isReadOnly(s) /\ s.call.op \in {"growPhysical", "growLogical"}

(* Once the super block says read-only, only the user's tool takes it back *)
(* (makeDirty(), saveVDOComponentsAsync(), the users of inReadOnlyMode()): *)
(* no load, suspend, resume or growth which was on its way when the VDO    *)
(* became read-only writes another state over it.                          *)
KeepsReadOnly ==
  recordedState(s.disk[0][2]) = "READ_ONLY_MODE" =>
    recordedState(s'.disk[0][2]) \in {"READ_ONLY_MODE", "FORCE_REBUILD"} /\ (s'.disk[0] # s.disk[0] => s.vdo = none \/ inReadOnlyMode(s))

ReadOnlyIsKept == [][KeepsReadOnly]_s

(* No assertion fails: a VDO leaves recovery mode only from it, partitions *)
(* are copied to where they fit, and there are slabs to use after a grow;  *)
(* and nobody saves the super block while another save is in progress      *)
(* (leaveRecoveryMode(), copyPartitionAsync(), useNewSlabs(),              *)
(* saveSuperBlockAsync()).                                                 *)
NoAssertionFails == s.asserts = {} /\ s.busyErrors = 0
=============================================================================
