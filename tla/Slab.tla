-------------------------------- MODULE Slab --------------------------------
(***************************************************************************)
(* A slab in operation: data VIOs allocate its blocks and make entries for *)
(* them, its metadata is written and reaped, it is saved, suspended and    *)
(* resumed, and it is recovered and scrubbed after a crash.                *)
(*                                                                         *)
(* Entries come in the order of the recovery journal.  ops are the entries *)
(* which it has committed, of which the first stable are on stable storage *)
(* and the first made are in the slab journal.  Each one says which block  *)
(* was the head of the recovery journal when it was committed; base is the *)
(* first block of that journal since it was last replayed or loaded.       *)
(***************************************************************************)
EXTENDS SlabJournal

CONSTANTS Instances,        \* the settings checked: [script, policy, others, faults, crashes, saves]
          MaxProvisional,   \* blocks which are allocated and not yet referenced
          MaxRecoveryBlocks

VARIABLES z, host

vars == <<z, host>>

LocationsOfSlab ==
  {<<"journal", s>> : s \in 0 .. JournalSize - 1} \union {<<"counts", r>> : r \in ReferenceBlocks}
    \union {<<"summary", 0>>}

makeSlabJournal ==
  [head |-> 1, unreapable |-> 1, tail |-> 1, nextCommit |-> 1, summarized |-> 1, lastSummarized |-> 1,
   entries |-> <<>>, mapped |-> FALSE, recoveryPoint |-> 0,
   lock |-> [s \in 0 .. JournalSize - 1 |-> 0], recoveryStart |-> [s \in 0 .. JournalSize - 1 |-> 0],
   recoveryLock |-> 0, adding |-> FALSE, waitingToCommit |-> FALSE, updating |-> FALSE, partial |-> FALSE,
   uncommitted |-> <<>>, waiters |-> <<>>]

(* A slab in memory, as its zone makes it when the VDO is loaded.          *)
makeSlab(disk, policy, made, asserts) ==
  makeSlabJournal @@
  [refs |-> <<>>, status |-> "rebuilt", admin |-> adminState("normal"), scrubbing |-> "no",
   entry |-> contents(disk, <<"summary", 0>>), writing |-> FALSE, current |-> <<>>, next |-> <<>>,
   summaryAdmin |-> adminState("normal"),
   available |-> PoolSize, poolWaiters |-> <<>>, io |-> {}, disk |-> disk, readOnly |-> FALSE,
   policy |-> policy, made |-> made, provisional |-> {}, recoveryLocks |-> [s \in 1 .. MaxRecoveryBlocks |-> 0],
   asserts |-> asserts]

formatted ==
  LET initial(l) == CASE l[1] = "journal" -> [sequence |-> 0, head |-> 0, entries |-> <<>>, point |-> 0]
                      [] l[1] = "counts" -> [b \in countersOf(l[2]) |-> [count |-> 0, commit |-> 0]]
                      [] l[1] = "summary" -> [offset |-> 0, load |-> FALSE, dirty |-> FALSE]
  IN  blank(LocationsOfSlab, initial)

SlabInit ==
  \E i \in Instances :
    /\ z = [makeSlab(formatted, i.policy, 0, {}) EXCEPT !.refs = makeRefCounts]
    /\ host = [settings |-> i, phase |-> "online", ops |-> <<>>, stable |-> 0, head |-> 1, base |-> 1,
               nextPoint |-> RecoveryEntriesPerBlock, open |-> FALSE,
               replayed |-> FALSE, next |-> 1, crashes |-> 0, saves |-> 0, step |-> "none"]

(* The count which the operations so far give a block.                     *)
countAfter(ops, b) ==
  FoldLeft(LAMBDA n, e : CASE e.b # b -> n
                           [] e.b = b /\ e.type = "inc" -> n + 1
                           [] e.b = b /\ e.type = "dec" -> n - 1
                           [] e.b = b /\ e.type = "map" -> MaximumReferenceCount, 0, ops)

(* The operations which data VIOs do, in this order.                       *)
Script == host.settings.script

run(new) == z' = new
flushEverything == host' = [host EXCEPT !.stable = Len(host.ops)]

online == host.phase = "online" /\ host.step = "none"
queuedForAllocation == z.status = "rebuilt" /\ hasRefCounts(z)

-----------------------------------------------------------------------------
(* Data VIOs: allocateBlock() opens the slab if it has to.                 *)
Allocate ==
  /\ online /\ ~z.readOnly /\ queuedForAllocation
  /\ Len(host.ops) + Cardinality(z.provisional) < Len(Script)
  /\ Cardinality(z.provisional) < MaxProvisional
  /\ LET refs == IF ~host.open /\ isSlabJournalBlank(z) THEN dirtyAllReferenceBlocks(z.refs) ELSE z.refs
         found == allocateUnreferencedBlock(refs)
     IN  /\ found.block # -1
         /\ run([z EXCEPT !.refs = found.refs, !.provisional = @ \union {found.block}])
         /\ host' = [host EXCEPT !.open = TRUE]

(* releaseBlockReference(): a VIO gives up its provisional reference.      *)
Release(b) ==
  /\ host.phase = "online" /\ b \in z.provisional /\ z.refs.count[b] = ProvisionalReferenceCount
  /\ \A i \in z.made + 1 .. Len(host.ops) : host.ops[i].b # b
  /\ run([z EXCEPT !.refs = adjustReferenceCount(z.refs, b, "dec", FALSE, 0).refs, !.provisional = @ \ {b}])
  /\ UNCHANGED host

(* The next operation of the script: a new reference to an allocated       *)
(* block, another reference to a referenced one, or the end of one.        *)
nextEntry(ops) ==
  LET type == Script[Len(ops) + 1]
      used(n) == {b \in Counters : countAfter(ops, b) \in 1 .. n}
      unused == {b \in z.provisional : countAfter(ops, b) = 0}
      entry(S, t, held) == {[rp |-> 0, b |-> least(S), type |-> t, held |-> held, head |-> host.head] : x \in IF S = {} THEN {} ELSE {0}}
  IN  CASE type = "new" -> entry(unused, "inc", FALSE)
        [] type = "map" -> entry(unused, "map", FALSE)
        [] type = "dup" -> entry(IF isUnrecoveredSlab(z) THEN {} ELSE used(MaximumReferenceCount - 1), "inc", FALSE)
        [] type = "dec" -> entry(used(MaximumReferenceCount - 1), "dec", FALSE)
        [] type = "decHeld" -> entry(used(1), "dec", TRUE)

(* The recovery journal commits a block of entries: it flushes, and writes *)
(* with FUA only if its policy is synchronous.                             *)
Commit ==
  /\ online /\ ~z.readOnly /\ Len(host.ops) < Len(Script)
  /\ recoveryBlock(host.nextPoint) <= MaxRecoveryBlocks
  /\ \E e \in nextEntry(host.ops) :
       LET first == [e EXCEPT !.rp = host.nextPoint]
           more == IF (host.nextPoint + 1) % RecoveryEntriesPerBlock = 0 \/ Len(host.ops) + 1 = Len(Script) THEN {}
                   ELSE nextEntry(Append(host.ops, first))
           batch == <<first>> \o (IF more = {} THEN <<>>
                                  ELSE <<[(CHOOSE m \in more : TRUE) EXCEPT !.rp = host.nextPoint + 1]>>)
           ops == host.ops \o batch
       IN  /\ host' = [host EXCEPT !.ops = ops, !.nextPoint = @ + Len(batch),
                                   !.stable = IF z.policy = "sync" THEN Len(ops) ELSE Len(host.ops)]
           /\ run([z EXCEPT !.disk = flushDisk(@)])

(* The next committed entry reaches the slab journal.                      *)
Deliver ==
  LET n == z.made + Len(z.waiters) + 1
  IN  /\ online /\ ~z.readOnly /\ n <= Len(host.ops)
      /\ run(call("addSlabJournalEntry", z, host.ops[n]))
      /\ UNCHANGED host

-----------------------------------------------------------------------------
(* The storage: the flush before a write, and the end of each request,     *)
(* which may fail where faults are allowed.                                *)
FlushBeforeWrite(i) ==
  /\ i \in z.io /\ i.kind = "write" /\ i.flush
  /\ run([z EXCEPT !.io = (@ \ {i}) \union {[kind |-> "write", at |-> i.at, flush |-> FALSE]},
                   !.disk = issueWrite(flushDisk(@), i.at, i.version)])
  /\ flushEverything

outcomes == IF host.settings.faults /\ ~z.readOnly THEN BOOLEAN ELSE {TRUE}

(* finishUpdate() and handleWriteError() of the summary.                   *)
summaryWritten(y, ok) ==
  call("finishUpdatingSlabSummaryBlock", IF ok THEN y ELSE [y EXCEPT !.readOnly = TRUE], 0)

EndWrite(i) ==
  /\ i \in z.io /\ i.kind = "write" /\ ~i.flush
  /\ \E ok \in outcomes :
       LET y == [z EXCEPT !.io = @ \ {i}, !.disk = IF ok THEN completeWriteTo(@, i.at, z.policy # "sync") ELSE @]
           written == z.disk[i.at].versions[Len(z.disk[i.at].versions)]
       IN  run(CASE i.at[1] = "journal" -> call("completeWrite", y, [sequence |-> written.sequence, ok |-> ok])
                 [] i.at[1] = "counts" -> call(IF ok THEN "finishReferenceBlockWrite" ELSE "handleIOError", y, i.at[2])
                 [] i.at[1] = "summary" -> summaryWritten(y, ok))
  /\ UNCHANGED host

(* completeReaping() and handleFlushError()                                *)
EndFlush(i) ==
  /\ i \in z.io /\ i.kind = "flush"
  /\ \E ok \in outcomes :
       LET y == [z EXCEPT !.io = @ \ {i}]
       IN  /\ run(call("completeReaping", IF ok THEN [y EXCEPT !.disk = flushDisk(@)] ELSE y, ok))
           /\ IF ok THEN flushEverything ELSE UNCHANGED host

EndLoad(i) ==
  /\ i \in z.io /\ i.kind = "load"
  /\ \E ok \in outcomes :
       run(call(IF ok THEN "finishReferenceBlockLoad" ELSE "handleIOError", [z EXCEPT !.io = @ \ {i}], i.block))
  /\ UNCHANGED host

EndReadOfJournal(i) ==
  /\ i \in z.io /\ i.kind = "extent"
  /\ \E ok \in outcomes :
       LET y == [z EXCEPT !.io = @ \ {i}]
       IN  run(IF ok THEN call("applyJournalEntries", y, 0) ELSE abortScrubbing(y))
  /\ UNCHANGED host

-----------------------------------------------------------------------------
(* The recovery journal: it reaps up to the oldest block which somebody    *)
(* still needs, once a flush has made what released the locks stable, and  *)
(* asks slab journals to commit the tail blocks which keep its head.       *)
neededBlocks ==
  {recoveryBlock(host.ops[i].rp) : i \in z.made + 1 .. Len(host.ops)}
    \union {s \in DOMAIN z.recoveryLocks : z.recoveryLocks[s] > 0}
    \union {recoveryBlock(host.nextPoint)}

ReapRecoveryJournal ==
  /\ host.phase = "online" /\ ~z.readOnly
  /\ least(neededBlocks) > host.head
  /\ host' = [host EXCEPT !.head = least(neededBlocks), !.stable = Len(host.ops)]
  /\ run([z EXCEPT !.disk = flushDisk(@)])

CommitOldestSlabJournalTailBlocks ==
  /\ online /\ z.recoveryLock # 0 /\ host.head = z.recoveryLock
  /\ run(releaseRecoveryJournalLock(z, host.head))
  /\ UNCHANGED host

EnterReadOnlyMode ==
  /\ host.settings.faults /\ ~z.readOnly
  /\ run(call("abortSlabJournalWaiters", [z EXCEPT !.readOnly = TRUE], 0))
  /\ UNCHANGED host

-----------------------------------------------------------------------------
(* Scrubbing starts when the scrubber comes to the slab (scrubNextSlab()). *)
StartScrubbing ==
  /\ isUnrecoveredSlab(z) /\ z.scrubbing = "no" /\ ~z.readOnly
  /\ host.phase \in {"scrubbing", "online"} /\ host.step = "none"
  /\ run(call("startSlabDrain", [z EXCEPT !.scrubbing = "loading"], [operation |-> "scrubbing", waiter |-> "startScrubbing"]))
  /\ UNCHANGED host

(* A drain of the allocator (doDrainStep()): the scrubber, the slab, the   *)
(* summary.  No data VIO is active.                                        *)
Drain(operation) ==
  /\ online /\ host.saves < host.settings.saves
  /\ z.made = Len(host.ops) /\ z.waiters = <<>> /\ z.provisional = {}
  /\ host' = [host EXCEPT !.step = "scrubber", !.phase = operation, !.open = FALSE, !.saves = @ + 1]
  /\ UNCHANGED z

DrainSlabs ==
  /\ host.step = "scrubber" /\ z.scrubbing \in {"no", "aborted"}
  /\ run(call("startSlabDrain", z, [operation |-> host.phase, waiter |-> "allocator"]))
  /\ host' = [host EXCEPT !.step = "slabs"]

startSummaryDrain(y) ==
  LET drained == checkForSummaryDrainComplete([y EXCEPT !.summaryAdmin = begin(@, host.phase, "allocator")])
  IN  [drained EXCEPT !.summaryAdmin = started(@)]

DrainSummary ==
  /\ host.step = "slabs" /\ ~isOperating(z.admin)
  /\ run(startSummaryDrain(z))
  /\ host' = [host EXCEPT !.step = "summary"]

DrainFinished ==
  /\ host.step = "summary" /\ ~isOperating(z.summaryAdmin)
  /\ run(assertThat(z, z.available = PoolSize, "VIO pool busy after a drain"))
  /\ host' = [host EXCEPT !.step = "drained"]

(* doResumeStep()                                                          *)
Resume ==
  /\ host.phase \in {"saving", "suspending"} /\ host.step = "drained" /\ ~z.readOnly
  /\ run([z EXCEPT !.summaryAdmin = resumeIfQuiescent(@),
                   !.admin = endOperation([begin(@, "resuming", "allocator") EXCEPT !.starting = FALSE])])
  /\ host' = [host EXCEPT !.phase = "online", !.step = "none"]

-----------------------------------------------------------------------------
(* Loading.  After a clean shutdown the super block was saved, with a      *)
(* flush, and the counts are allocated at once; after a crash the recovery *)
(* journal is replayed first, unless it was already.                       *)
firstToReplay(ops) ==
  LET n == Len(ops)
      last == recoveryBlock(ops[n].rp)
  IN  IF n = 0 \/ last < host.base THEN n + 1
      ELSE least({i \in 1 .. n : recoveryBlock(ops[i].rp) >= ops[n].head} \union {n + 1})

prepareSlabForAllocation(y) ==
  IF ~y.entry.load /\ ~y.entry.dirty
  THEN y
  ELSE [y EXCEPT !.status = "requiresScrubbing"]

scrubFirst(y, loadType) ==
  /\ y.status = "requiresScrubbing"
  /\ (loadType = "normal" /\ ~y.entry.dirty) \/ requiresScrubbing(y) \/ ~host.settings.others

prepareToAllocate(y, loadType) ==
  LET prepared == prepareSlabForAllocation([y EXCEPT !.refs = makeRefCounts])
      last == IF host.ops = <<>> THEN 0 ELSE recoveryBlock(host.ops[Len(host.ops)].rp)
      block == IF last < host.head THEN host.head ELSE last + 1
  IN  /\ run(prepared)
      /\ host' = [host EXCEPT !.phase = IF scrubFirst(prepared, loadType) THEN "scrubbing" ELSE "online",
                              !.step = "none", !.replayed = FALSE, !.stable = Len(host.ops),
                              !.nextPoint = block * RecoveryEntriesPerBlock, !.head = block, !.base = block]

Restart ==
  /\ host.phase = "saving" /\ host.step = "drained" /\ ~z.readOnly
  /\ prepareToAllocate(decodeSlabJournal(makeSlab(flushDisk(z.disk), z.policy, z.made, z.asserts)), "normal")

(* A torn write leaves each sector of a reference block at some version.   *)
torn(l, S) ==
  IF l[1] # "counts" THEN S
  ELSE {f \in [countersOf(l[2]) -> UNION {{v[b] : b \in countersOf(l[2])} : v \in S}] :
          \A b \in countersOf(l[2]) : \E v \in S : f[b] = v[b]}

Crash ==
  /\ host.crashes < host.settings.crashes
  /\ \E disk \in crashed(z.disk, torn), k \in host.stable .. Len(host.ops) :
       /\ run(decodeSlabJournal(makeSlab(disk, z.policy, k, z.asserts)))
       /\ host' = [host EXCEPT !.ops = SubSeq(@, 1, k), !.stable = k, !.crashes = @ + 1, !.step = "none",
                               !.open = FALSE, !.phase = IF host.replayed THEN "replayed" ELSE "replay",
                               !.next = firstToReplay(SubSeq(host.ops, 1, k))]

RECURSIVE addSlabJournalEntries(_, _)
addSlabJournalEntries(attempt, n) ==
  IF n > Len(host.ops) \/ ~attempt.added THEN [z |-> attempt.z, next |-> IF attempt.added THEN n ELSE n - 1]
  ELSE addSlabJournalEntries(attemptReplayIntoSlabJournal(attempt.z, host.ops[n]), n + 1)

Replay ==
  /\ host.phase = "replay" /\ ~isOperating(z.admin) /\ ~z.readOnly
  /\ \E replayed \in {addSlabJournalEntries([z |-> z, added |-> TRUE], host.next)} :
       /\ run(replayed.z)
       /\ host' = [host EXCEPT !.next = replayed.next,
                               !.phase = IF replayed.next > Len(host.ops) THEN "recovering" ELSE "replay",
                               !.step = IF replayed.next > Len(host.ops) THEN "scrubber" ELSE "none"]

(* startSuperBlockSave() and, once the block map is recovered, the super   *)
(* block which makes the VDO dirty again and numbers the next recovery.    *)
SaveReplaying ==
  /\ host.phase = "recovering" /\ host.step = "drained" /\ ~z.readOnly
  /\ run([z EXCEPT !.disk = flushDisk(@)])
  /\ host' = [host EXCEPT !.phase = "replayed", !.replayed = TRUE, !.step = "none"]

FinishRecovery ==
  /\ host.phase = "replayed" /\ ~z.readOnly
  /\ prepareToAllocate([z EXCEPT !.disk = flushDisk(@)], "recovery")

(* The high priority slabs are scrubbed.                                   *)
GoOnline ==
  /\ host.phase = "scrubbing" /\ z.status = "rebuilt"
  /\ host' = [host EXCEPT !.phase = "online"]
  /\ UNCHANGED z

Next ==
  \/ Allocate
  \/ \E b \in Counters : Release(b)
  \/ Commit
  \/ Deliver
  \/ \E i \in z.io : FlushBeforeWrite(i) \/ EndWrite(i) \/ EndFlush(i) \/ EndLoad(i) \/ EndReadOfJournal(i)
  \/ ReapRecoveryJournal
  \/ CommitOldestSlabJournalTailBlocks
  \/ EnterReadOnlyMode
  \/ StartScrubbing
  \/ \E operation \in {"saving", "suspending"} : Drain(operation)
  \/ DrainSlabs \/ DrainSummary \/ DrainFinished
  \/ Resume \/ Restart
  \/ Crash \/ Replay \/ SaveReplaying \/ FinishRecovery \/ GoOnline

Spec == SlabInit /\ [][Next]_vars

-----------------------------------------------------------------------------
(* The types of the slab's state and of what it is asked to do.            *)
TypeOK ==
  /\ z.head <= z.unreapable /\ z.unreapable <= z.tail
  /\ z.available \in 0 .. PoolSize
  /\ z.made \in 0 .. Len(host.ops)

(* The counts of a slab which is in use are those of the entries made, at  *)
(* every moment and after every crash, save and scrubbing; a block which   *)
(* nothing references is provisional exactly while a data VIO holds it.    *)
CountsAreRight ==
  z.status = "rebuilt" /\ hasRefCounts(z) /\ ~z.readOnly =>
    \A b \in Counters :
      LET n == countAfter(SubSeq(host.ops, 1, z.made), b)
      IN  z.refs.count[b] = IF n = 0 /\ b \in z.provisional THEN ProvisionalReferenceCount ELSE n

(* No assertion of the slab depot fails.                                   *)
NoAssertionFails == z.asserts = {}

(* The numbers kept beside the counters agree with them, and the queue of  *)
(* dirty blocks holds exactly those which no write has been started for.   *)
CountsAreConsistent ==
  hasRefCounts(z) /\ z.status = "rebuilt" =>
    /\ z.refs.free = Cardinality({b \in Counters : z.refs.count[b] = 0})
    /\ \A r \in ReferenceBlocks :
         z.refs.block[r].allocated = Cardinality({b \in countersOf(r) : z.refs.count[b] # 0})
    /\ ~z.readOnly =>
         /\ IsInjective(z.refs.dirtyBlocks)
         /\ Range(z.refs.dirtyBlocks) = {r \in ReferenceBlocks : z.refs.block[r].dirty /\ ~z.refs.block[r].writing}

(* A suspended slab whose last reference block write ends while others are *)
(* dirty: finishReferenceBlockWrite() does not look whether it has drained.*)
SuspendIsForgotten == z.admin.state = "suspending" /\ z.refs.dirtyBlocks # <<>>

(* A slab which was drained when its journal had reached the blocking      *)
(* threshold: its last locks were released when nothing could be reaped,   *)
(* and nobody reaps when it is resumed.                                    *)
ResumeIsBlocked == host.saves > 0 /\ requiresReaping(z) /\ \A s \in DOMAIN z.lock : z.lock[s] = 0

(* When the storage owes nothing, nobody waits for it: no drain is under   *)
(* way, the pool has its VIOs back, every entry is made, and the recovery  *)
(* journal is held by the tail block at most.                              *)
NothingIsStuck ==
  z.io = {} /\ host.phase # "replay" =>
    /\ z.poolWaiters = <<>> /\ (~z.readOnly => z.available = PoolSize)
    /\ ~isOperating(z.admin) \/ SuspendIsForgotten
    /\ ~isOperating(z.summaryAdmin)
    /\ ~isUnrecoveredSlab(z) /\ ~z.readOnly =>
         /\ z.waiters = <<>> \/ ResumeIsBlocked
         /\ ~isReaping(z)
         /\ {s \in DOMAIN z.recoveryLocks : z.recoveryLocks[s] > 0} \subseteq {z.recoveryLock}
=============================================================================
