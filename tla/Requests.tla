------------------------------- MODULE Requests --------------------------------
(***************************************************************************)
(* The way of a bio through the kernel side of VDO: kernel/kernelLayer.c   *)
(* takes its permits from the limiters (limiter.c) or, on a thread of VDO  *)
(* itself, may queue it to avoid a deadlock (deadlockQueue.c); dataKVIO.c  *)
(* takes a DataKVIO from the pool (bufferPool.c), acknowledges the bio and *)
(* returns the DataKVIO in batches (batchProcessor.c) which release the    *)
(* permits; and a suspend, a removal or a message waits until no request   *)
(* is active.                                                              *)
(*                                                                         *)
(* What VDO does with a request is arbitrary, except that one in the       *)
(* packer may stay there until compression is turned off.  Flushes are in  *)
(* Flush; the sizes of discards are in blocks.                             *)
(***************************************************************************)
EXTENDS Integers, Sequences, FiniteSets

(* Of [requestLimit, bios, waiters, limits, faults, messages]: the bios    *)
(* [kind, blocks, onVDOThread], each with a thread of its own; how many    *)
(* wait for no requests; the discard limits which are set; the errors of   *)
(* VDO; the messages about compression.                                    *)
CONSTANT Settings

Bio == [kind : {"read", "write", "discard"}, blocks : Nat, onVDOThread : BOOLEAN]

(* A pool has a buffer at least, a bio which discards has a block at       *)
(* least.                                                                  *)
SettingsAreProper ==
  \A s \in Settings :
    /\ s.requestLimit \in Nat \ {0}
    /\ s.bios \in Seq(Bio)
    /\ \A b \in DOMAIN s.bios : s.bios[b].kind = "discard" => s.bios[b].blocks > 0
    /\ s.waiters \in Nat /\ s.limits \subseteq Nat /\ s.faults \in Nat /\ s.messages \in Nat

VARIABLE rq

none == 0

Bios == DOMAIN rq.bios
isDiscardBio(b) == rq.bios[b].kind = "discard"
Waiters == DOMAIN rq.waiters
KVIOs == DOMAIN rq.kvios
Runs == 1 .. 2
waiterThread(i) == -i

initializeLimiter(limit) == [active |-> 0, limit |-> limit, waiterQueue |-> <<>>]
makeBufferPool(size) == [k \in 1 .. size |-> [pc |-> "free", bio |-> none, remainingDiscard |-> 0, hasDiscardPermit |-> FALSE]]
noRun == [pc |-> "none", count |-> 0]

(* schedulers is the number of threads which are about to schedule: after  *)
(* they put an item or, at the end of a run, found one.                    *)
makeBatchProcessor == [queue |-> <<>>, state |-> "idle", schedulers |-> 0, lock |-> none, runs |-> [i \in Runs |-> noRun]]

Init ==
  \E s \in Settings :
    rq = [requests |-> initializeLimiter(s.requestLimit), discards |-> initializeLimiter((s.requestLimit * 3) \div 4),
          kvios |-> makeBufferPool(s.requestLimit), batch |-> makeBatchProcessor, deadlockQueue |-> <<>>,
          bios |-> s.bios, pcs |-> [b \in DOMAIN s.bios |-> "new"], acked |-> [b \in DOMAIN s.bios |-> 0],
          waiters |-> [i \in 1 .. s.waiters |-> [pc |-> "idle", wasCompressing |-> FALSE]],
          compressing |-> TRUE, wanted |-> TRUE, limits |-> s.limits, faults |-> s.faults, messages |-> s.messages,
          overtaken |-> FALSE, overlapped |-> FALSE, overwritten |-> FALSE, stranded |-> FALSE, asserts |-> {}]

assert(r, holds, what) == IF holds THEN r ELSE [r EXCEPT !.asserts = @ \cup {what}]

-----------------------------------------------------------------------------
(* Limiters                                                                *)

takePermitLocked(limiter) == limiter.active < limiter.limit

take(limiter) == [limiter EXCEPT !.active = @ + 1]

(* limiterPoll()                                                           *)
limiterPoll(limiter) == IF takePermitLocked(limiter) THEN take(limiter) ELSE limiter

(* Exclusive waiters are woken in their order, and leave the queue.        *)
wake(limiter, count) == [limiter EXCEPT !.waiterQueue = SubSeq(@, count + 1, Len(@))]

limiterRelease(limiter) == wake([limiter EXCEPT !.active = @ - 1], 1)

(* A thread which waits for a permit, or for idleness, is blocked while it *)
(* is in the queue.                                                        *)
sleep(limiter, thread) == [limiter EXCEPT !.waiterQueue = Append(@, thread)]
inQueue(queue, thread) == \E i \in DOMAIN queue : queue[i] = thread
isAsleep(limiter, thread) == inQueue(limiter.waiterQueue, thread)

-----------------------------------------------------------------------------
(* DataKVIOs                                                               *)

freeKVIOs(r) == {k \in DOMAIN r.kvios : r.kvios[k].pc = "free"}

(* With its permits; a DataKVIO is always there for a request permit.      *)
kvdoLaunchDataKVIOFromBio(r, b, hasDiscardPermit) ==
  LET checked == assert(r, freeKVIOs(r) # {}, "there is a DataKVIO for each permit")
      k == CHOOSE k \in freeKVIOs(r) : TRUE
      discard == r.bios[b].kind = "discard"
      released == [checked EXCEPT !.requests = limiterRelease(@), !.discards = IF hasDiscardPermit THEN limiterRelease(@) ELSE @,
                                  !.acked[b] = @ + 1, !.pcs[b] = "launched"]
  IN  IF freeKVIOs(r) = {} THEN released
      ELSE [checked EXCEPT !.pcs[b] = "launched",
              !.kvios[k] = [pc |-> "vdo", bio |-> b, remainingDiscard |-> IF discard THEN r.bios[b].blocks ELSE 0,
                            hasDiscardPermit |-> discard /\ hasDiscardPermit]]

(* A bio is acknowledged once, whoever gets to it first.                   *)
kvdoAcknowledgeDataKVIO(r, k) ==
  LET b == r.kvios[k].bio IN IF b = none THEN r ELSE [r EXCEPT !.kvios[k].bio = none, !.acked[b] = @ + 1]

-----------------------------------------------------------------------------
(* Returning DataKVIOs in batches                                          *)

scheduleBatchProcessing(r) ==
  LET i == CHOOSE i \in Runs : r.batch.runs[i].pc = "none"
  IN  IF r.batch.state # "idle" THEN r
      ELSE [assert(r, \E j \in Runs : r.batch.runs[j].pc = "none", "the work item is in no queue") EXCEPT
              !.batch.state = "enqueued", !.batch.runs[i].pc = "queued"]

(* The put; the schedule is a later step of the thread, when the DataKVIO  *)
(* may be in other use again.                                              *)
addToBatchProcessor(r, k) == [r EXCEPT !.batch.queue = Append(@, k), !.kvios[k].pc = "queued", !.batch.schedulers = @ + 1]

Schedule == rq.batch.schedulers > 0 /\ rq' = [scheduleBatchProcessing(rq) EXCEPT !.batch.schedulers = @ - 1]

BatchStarts(i) ==
  /\ rq.batch.runs[i].pc = "queued" /\ rq.batch.lock = none
  /\ rq' = [rq EXCEPT !.batch.lock = i, !.batch.runs[i].pc = "loop"]

(* returnDataKVIOBatchToPool(): one item; the lock may be given up after   *)
(* it.                                                                     *)
cleanDataKVIO(r, k) ==
  [kvdoAcknowledgeDataKVIO(r, k) EXCEPT !.kvios[k].pc = "cleaned", !.batch.queue = Tail(@)]

CleanNext(i) ==
  /\ rq.batch.runs[i].pc = "loop" /\ rq.batch.queue # <<>>
  /\ \E pc \in {"loop", "resched"} :
       rq' = [cleanDataKVIO(rq, Head(rq.batch.queue)) EXCEPT !.batch.runs[i] = [pc |-> pc, count |-> @.count + 1],
                !.batch.lock = IF pc = "resched" THEN none ELSE i]

condReschedBatchProcessor(i) ==
  /\ rq.batch.runs[i].pc = "resched" /\ rq.batch.lock = none
  /\ rq' = [rq EXCEPT !.batch.lock = i, !.batch.runs[i].pc = "loop"]

cleaned(r) == {k \in DOMAIN r.kvios : r.kvios[k].pc = "cleaned"}

freeBuffersToPool(r) ==
  [r EXCEPT !.kvios = [k \in DOMAIN r.kvios |-> IF k \in cleaned(r) THEN [r.kvios[k] EXCEPT !.pc = "free", !.hasDiscardPermit = FALSE] ELSE r.kvios[k]]]

FreeBuffers(i) ==
  /\ rq.batch.runs[i].pc = "loop" /\ rq.batch.queue = <<>> /\ rq.batch.runs[i].count > 0
  /\ rq' = [freeBuffersToPool(rq) EXCEPT !.batch.runs[i].pc = "complete"]

(* A queued bio gets the permit of a completed request.                    *)
LaunchQueued(i) ==
  /\ rq.batch.runs[i].pc = "complete" /\ rq.batch.runs[i].count > 0 /\ rq.deadlockQueue # <<>>
  /\ LET b == Head(rq.deadlockQueue)
         polled == isDiscardBio(b) /\ takePermitLocked(rq.discards)
         r == [rq EXCEPT !.deadlockQueue = Tail(@), !.batch.runs[i].count = @ - 1,
                         !.discards = IF isDiscardBio(b) THEN limiterPoll(@) ELSE @]
     IN  rq' = kvdoLaunchDataKVIOFromBio(r, b, polled)

(* completeManyRequests() releases the rest, and wakes waiters after the   *)
(* unlock.                                                                 *)
completeManyRequests(i) ==
  \/ /\ rq.batch.runs[i].pc = "complete" /\ (rq.batch.runs[i].count = 0 \/ rq.deadlockQueue = <<>>)
     /\ rq' = [rq EXCEPT !.requests.active = @ - rq.batch.runs[i].count, !.batch.runs[i].pc = "wake"]
  \/ /\ rq.batch.runs[i].pc = "wake"
     /\ rq' = [rq EXCEPT !.requests = wake(@, rq.batch.runs[i].count), !.batch.runs[i] = [pc |-> "loop", count |-> 0]]

(* The end of batchProcessorWork(): the state, and then another look at    *)
(* the queue.                                                              *)
BatchEnds(i) ==
  \/ /\ rq.batch.runs[i].pc = "loop" /\ rq.batch.queue = <<>> /\ rq.batch.runs[i].count = 0
     /\ rq' = [rq EXCEPT !.batch.state = "idle", !.batch.runs[i].pc = "check"]
  \/ /\ rq.batch.runs[i].pc = "check"
     /\ rq' = [rq EXCEPT !.batch.lock = none, !.batch.runs[i].pc = "none",
                         !.batch.schedulers = @ + (IF rq.batch.queue = <<>> THEN 0 ELSE 1)]

-----------------------------------------------------------------------------
(* Mapping bios                                                            *)

(* On one of VDO's own threads, which must not wait.                       *)
launchDataKVIOFromVDOThread(b) ==
  LET polled == isDiscardBio(b) /\ takePermitLocked(rq.discards)
      r == [rq EXCEPT !.requests = limiterPoll(@), !.discards = IF isDiscardBio(b) THEN limiterPoll(@) ELSE @]
  IN  IF takePermitLocked(rq.requests) THEN kvdoLaunchDataKVIOFromBio(r, b, polled)
      ELSE [rq EXCEPT !.pcs[b] = "refused"]

kvdoMapBio(b) ==
  /\ rq.pcs[b] = "new"
  /\ rq' = IF rq.bios[b].onVDOThread THEN launchDataKVIOFromVDOThread(b)
           ELSE [rq EXCEPT !.pcs[b] = IF isDiscardBio(b) THEN "wantDiscard" ELSE "wantRequest"]

(* All requests may have been completed since the poll.                    *)
addToDeadlockQueue(b) ==
  /\ rq.pcs[b] = "refused"
  /\ rq' = [rq EXCEPT !.pcs[b] = "deadlocked", !.deadlockQueue = Append(@, b),
                      !.overtaken = @ \/ takePermitLocked(rq.requests)]

limiterWaitForOneFree(b) ==
  \/ /\ rq.pcs[b] = "wantDiscard" /\ ~isAsleep(rq.discards, b)
     /\ rq' = IF takePermitLocked(rq.discards) THEN [rq EXCEPT !.discards = take(@), !.pcs[b] = "wantRequest"]
              ELSE [rq EXCEPT !.discards = sleep(@, b)]
  \/ /\ rq.pcs[b] = "wantRequest" /\ ~isAsleep(rq.requests, b)
     /\ rq' = IF takePermitLocked(rq.requests) THEN [rq EXCEPT !.requests = take(@), !.pcs[b] = "launch"]
              ELSE [rq EXCEPT !.requests = sleep(@, b)]

Launch(b) ==
  /\ rq.pcs[b] = "launch"
  /\ rq' = kvdoLaunchDataKVIOFromBio(rq, b, isDiscardBio(b))

(* The limit of discards is changed without a look at those who wait.      *)
poolDiscardsLimitStore ==
  \E value \in rq.limits :
    rq' = [rq EXCEPT !.limits = @ \ {value}, !.discards.limit = value,
             !.stranded = @ \/ (rq.discards.waiterQueue # <<>> /\ value > rq.discards.limit)]

-----------------------------------------------------------------------------
(* What VDO does with a request                                            *)

(* A discard is acknowledged with its last block.                          *)
kvdoAcknowledgeDataVIO(k) ==
  /\ rq.kvios[k].pc = "vdo" /\ rq.kvios[k].bio # none /\ rq.bios[rq.kvios[k].bio].kind # "read"
  /\ rq.kvios[k].remainingDiscard <= 1
  /\ rq' = [rq EXCEPT !.kvios[k].pc = "acknowledge"]

(* On the bio acknowledgement queue.                                       *)
kvdoAcknowledgeDataKVIOThenContinue(k) ==
  /\ rq.kvios[k].pc = "acknowledge"
  /\ rq' = [kvdoAcknowledgeDataKVIO(rq, k) EXCEPT !.kvios[k].pc = "vdo"]

(* In the packer until enough others come, or compression is turned off.   *)
Pack(k) ==
  /\ rq.kvios[k].pc = "vdo" /\ rq.compressing /\ rq.kvios[k].remainingDiscard = 0
  /\ rq.kvios[k].bio # none => rq.bios[rq.kvios[k].bio].kind = "write"
  /\ rq' = [rq EXCEPT !.kvios[k].pc = "packed"]

Unpack(k) == rq.kvios[k].pc = "packed" /\ rq' = [rq EXCEPT !.kvios[k].pc = "vdo"]

kvdoCompleteDataKVIO(r, k) ==
  IF r.kvios[k].bio # none THEN [r EXCEPT !.kvios[k].pc = "acknowledgeThenComplete"] ELSE addToBatchProcessor(r, k)

kvdoAcknowledgeThenCompleteDataKVIO(k) ==
  /\ rq.kvios[k].pc = "acknowledgeThenComplete"
  /\ rq' = addToBatchProcessor(kvdoAcknowledgeDataKVIO(rq, k), k)

(* A mutant: the discard permit is kept when a block fails.                *)
kvdoFailDiscardKVIO(r, k, failed) ==
  LET remaining == r.kvios[k].remainingDiscard - 1
      next == [r EXCEPT !.kvios[k].remainingDiscard = remaining]
      released == [next EXCEPT !.kvios[k].hasDiscardPermit = FALSE,
                               !.discards = IF r.kvios[k].hasDiscardPermit THEN limiterRelease(@) ELSE @]
  IN  IF failed THEN kvdoCompleteDataKVIO([next EXCEPT !.kvios[k].remainingDiscard = 0], k)
      ELSE IF remaining = 0 THEN kvdoCompleteDataKVIO(released, k) ELSE next

(* The callback of a discard, which goes on with the next block.           *)
kvdoContinueDiscardKVIO(r, k, failed) ==
  LET remaining == r.kvios[k].remainingDiscard - 1
      next == [r EXCEPT !.kvios[k].remainingDiscard = remaining]
      released == [next EXCEPT !.kvios[k].remainingDiscard = 0, !.kvios[k].hasDiscardPermit = FALSE,
                               !.discards = IF r.kvios[k].hasDiscardPermit THEN limiterRelease(@) ELSE @]
  IN  IF failed \/ remaining = 0 THEN kvdoCompleteDataKVIO(released, k) ELSE next

Finish(k) ==
  /\ rq.kvios[k].pc = "vdo"
  /\ \E failed \in BOOLEAN :
       /\ failed => rq.faults > 0 /\ rq.kvios[k].remainingDiscard > 0
       /\ rq' = [IF rq.kvios[k].remainingDiscard > 0 THEN kvdoContinueDiscardKVIO(rq, k, failed) ELSE kvdoCompleteDataKVIO(rq, k)
                   EXCEPT !.faults = @ - (IF failed THEN 1 ELSE 0)]

-----------------------------------------------------------------------------
(* Waiting until no request is active                                      *)

setKVDOCompressing(r, enable) ==
  [r EXCEPT !.compressing = enable,
            !.kvios = [k \in DOMAIN r.kvios |-> IF ~enable /\ r.kvios[k].pc = "packed" THEN [r.kvios[k] EXCEPT !.pc = "vdo"] ELSE r.kvios[k]]]

isWaiting(r, i) == r.waiters[i].pc \in {"wait", "restore"}

(* Its steps: a look at the limiter, turning compression off, the wait,    *)
(* and turning it on again.                                                *)
waitForNoRequestsActive(i) ==
  \/ /\ rq.waiters[i].pc = "idle"
     /\ rq' = [rq EXCEPT !.waiters[i].pc = IF rq.requests.active = 0 THEN "done" ELSE "turnOff"]
  \/ /\ rq.waiters[i].pc = "turnOff"
     /\ rq' = [setKVDOCompressing(rq, FALSE) EXCEPT !.waiters[i] = [pc |-> "wait", wasCompressing |-> rq.compressing],
                 !.overlapped = @ \/ \E j \in Waiters : isWaiting(rq, j)]
  \/ /\ rq.waiters[i].pc = "restore"
     /\ rq' = [IF rq.waiters[i].wasCompressing THEN setKVDOCompressing(rq, TRUE) ELSE rq EXCEPT
                 !.waiters[i] = [pc |-> "done", wasCompressing |-> FALSE]]

limiterWaitForIdle(i) ==
  /\ rq.waiters[i].pc = "wait" /\ ~isAsleep(rq.requests, waiterThread(i))
  /\ rq' = IF rq.requests.active > 0 THEN [rq EXCEPT !.requests = sleep(@, waiterThread(i))]
           ELSE [rq EXCEPT !.waiters[i].pc = "restore"]

(* A "compression" message.                                                *)
CompressionMessage ==
  /\ rq.messages > 0
  /\ rq' = [setKVDOCompressing(rq, ~rq.wanted) EXCEPT !.wanted = ~@, !.messages = @ - 1,
              !.overwritten = @ \/ \E i \in Waiters : isWaiting(rq, i)]

Next ==
  \/ \E b \in Bios : kvdoMapBio(b) \/ addToDeadlockQueue(b) \/ limiterWaitForOneFree(b) \/ Launch(b)
  \/ \E k \in KVIOs : \/ kvdoAcknowledgeDataVIO(k) \/ kvdoAcknowledgeDataKVIOThenContinue(k) \/ Pack(k) \/ Unpack(k)
                      \/ kvdoAcknowledgeThenCompleteDataKVIO(k) \/ Finish(k)
  \/ Schedule
  \/ \E i \in Runs : \/ BatchStarts(i) \/ CleanNext(i) \/ condReschedBatchProcessor(i) \/ FreeBuffers(i)
                     \/ LaunchQueued(i) \/ completeManyRequests(i) \/ BatchEnds(i)
  \/ \E i \in Waiters : waitForNoRequestsActive(i) \/ limiterWaitForIdle(i)
  \/ poolDiscardsLimitStore \/ CompressionMessage

Spec == Init /\ [][Next]_rq

-----------------------------------------------------------------------------
(* Properties                                                              *)

count(S) == Cardinality(S)
heldByRuns == rq.batch.runs[1].count + rq.batch.runs[2].count
isReleasing(i) == rq.batch.runs[i].pc = "wake"

(* A limiter counts just the permits which are held: a request permit by a *)
(* thread about to launch its bio, by a DataKVIO in use or by a batch      *)
(* about to release it, a discard permit by a thread which waits to launch *)
(* or by a DataKVIO; no permit is lost or released twice on the ways with  *)
(* an error, with a queued bio or with a discard of several blocks; and a  *)
(* bio is acknowledged once, before its request permit is released         *)
(* (limiterReleaseMany(), completeManyRequests(),                          *)
(* kvdoContinueDiscardKVIO(), kvdoAcknowledgeDataKVIO()).                  *)
PermitsAreKept ==
  /\ rq.requests.active =
       count({b \in Bios : rq.pcs[b] = "launch"}) + count({k \in KVIOs : rq.kvios[k].pc # "free"} \ cleaned(rq))
       + (IF \E i \in Runs : isReleasing(i) THEN 0 ELSE heldByRuns)
  /\ rq.discards.active =
       count({b \in Bios : isDiscardBio(b) /\ rq.pcs[b] \in {"wantRequest", "launch"} /\ ~rq.bios[b].onVDOThread})
       + count({k \in KVIOs : rq.kvios[k].hasDiscardPermit})
  /\ \A b \in Bios :
       rq.acked[b] = IF rq.pcs[b] = "launched" /\ \A k \in KVIOs : rq.kvios[k].bio # b THEN 1 ELSE 0

isAwake(b) == ~isAsleep(rq.requests, b) /\ ~isAsleep(rq.discards, b)

(* Something is under way, which does not depend on anyone else.           *)
busy ==
  \/ \E b \in Bios : rq.pcs[b] \in {"launch", "refused"} \/ (rq.pcs[b] \in {"wantDiscard", "wantRequest"} /\ isAwake(b))
  \/ \E k \in KVIOs : rq.kvios[k].pc \notin {"free", "packed", "queued"}
  \/ rq.batch.schedulers > 0 \/ \E i \in Runs : rq.batch.runs[i].pc # "none"
  \/ \E i \in Waiters : rq.waiters[i].pc \in {"turnOff", "restore"} \/ (rq.waiters[i].pc = "wait" /\ ~isAsleep(rq.requests, waiterThread(i)))

(* Nobody waits for what does not come.  When nothing is under way no      *)
(* DataKVIO is left in the batch and nobody waits for the end of all       *)
(* requests, even if some would stay in the packer; and when none is in    *)
(* the packer no bio is in the deadlock queue or waits for a permit.       *)
(* Except: a bio which was put in the deadlock queue after a request had   *)
(* completed; a discard, when the limit is 0 or was raised while discards  *)
(* waited for it; a bio whose wakeup went to a thread waiting for          *)
(* idleness, if there may be as many of these as requests, and then a      *)
(* discard which waits for the discard permit of such a bio; and one of    *)
(* two threads waiting for idleness, as a release of one permit wakes only *)
(* one of them and the first to end turns compression on again, or one     *)
(* which a message turned compression on for (limiterWaitForIdle(),        *)
(* limiterWaitForOneFree(), batchProcessorWork()).                         *)
NobodyWaitsForever ==
  /\ ~busy => rq.batch.queue = <<>>
  /\ ~busy /\ (\E i \in Waiters : rq.waiters[i].pc = "wait") => rq.overlapped \/ rq.overwritten
  /\ ~busy /\ (\A k \in KVIOs : rq.kvios[k].pc # "packed") =>
       /\ rq.deadlockQueue # <<>> => rq.overtaken
       /\ \A b \in Bios : isAsleep(rq.discards, b) =>
            rq.discards.limit = 0 \/ rq.stranded \/ \E d \in Bios : isDiscardBio(d) /\ isAsleep(rq.requests, d)
       /\ \A b \in Bios : isAsleep(rq.requests, b) => rq.requests.limit <= Len(rq.waiters)

(* Waits for no requests leave compression as it was, even if they         *)
(* overlap, unless a message changed it meanwhile: then what the message   *)
(* said may be undone (waitForNoRequestsActive()).                         *)
CompressionIsRestored ==
  (\A i \in Waiters : ~isWaiting(rq, i)) => rq.compressing = rq.wanted \/ rq.overwritten

(* There is a DataKVIO for each request permit, as a batch returns the     *)
(* DataKVIOs before it releases the permits (returnDataKVIOBatchToPool()); *)
(* and a batch's work item is never put on its queue twice                 *)
(* (scheduleBatchProcessing()).                                            *)
NoAssertionFails == rq.asserts = {}

=============================================================================
