------------------------- MODULE RequestsInvariant --------------------------
(***************************************************************************)
(* What Requests says of permits, of the assertions of the request path,   *)
(* of compression and of those who wait, for every limit, every number of  *)
(* bios and every number of threads which wait for no requests.            *)
(*                                                                         *)
(* The permits add up only with what the steps of a batch have left undone *)
(* (Permits), a batch is exclusive only because of its state and its lock  *)
(* (Batched), and nobody sleeps in vain because each wakeup which a        *)
(* limiter owes is counted with the permits which are out (Wakeups).       *)
(*                                                                         *)
(* The launch of a bio, the threads which wait for no requests and the     *)
(* settings keep the invariant, and it holds first.                        *)
(***************************************************************************)
EXTENDS Requests, FiniteSetTheorems, TLAPS

(* The time every leaf is given.                                           *)
USE SMTT(30)

-----------------------------------------------------------------------------
(* Types                                                                   *)

BioPCs == {"new", "wantDiscard", "wantRequest", "launch", "refused", "deadlocked", "launched"}
KVIOPCs == {"free", "vdo", "acknowledge", "packed", "acknowledgeThenComplete", "queued", "cleaned"}
RunPCs == {"none", "queued", "loop", "resched", "complete", "wake", "check"}
WaiterPCs == {"idle", "turnOff", "wait", "restore", "done"}
Limiter == [active : Int, limit : Nat, waiterQueue : Seq(Int)]
KVIO == [pc : KVIOPCs, bio : Nat, remainingDiscard : Nat, hasDiscardPermit : BOOLEAN]
Run == [pc : RunPCs, count : Nat]
Batch == [queue : Seq(Nat), state : {"idle", "enqueued"}, schedulers : Nat, lock : 0 .. 2, runs : [Runs -> Run]]
Waiter == [pc : WaiterPCs, wasCompressing : BOOLEAN]

RequestsTypeOK ==
  /\ rq \in [requests : Limiter, discards : Limiter, kvios : [KVIOs -> KVIO], batch : Batch, deadlockQueue : Seq(Nat),
             bios : Seq(Bio), pcs : [Bios -> BioPCs], acked : [Bios -> Nat], waiters : Seq(Waiter),
             compressing : BOOLEAN, wanted : BOOLEAN, limits : SUBSET Nat, faults : Int, messages : Int,
             overtaken : BOOLEAN, overlapped : BOOLEAN, overwritten : BOOLEAN, stranded : BOOLEAN,
             asserts : SUBSET STRING]
  /\ KVIOs = 1 .. rq.requests.limit /\ rq.requests.limit > 0

-----------------------------------------------------------------------------
(* The inductive invariant                                                 *)

ActivePCs == {"queued", "loop", "resched", "complete", "wake"}
LockedPCs == {"loop", "complete", "wake", "check"}
CountingPCs == {"loop", "resched", "complete", "wake"}

(* A batch is one at a time: from the schedule to the end of its loop by   *)
(* its state, and while it has the lock by that.                           *)
Batched ==
  /\ \A i \in Runs : rq.batch.runs[i].pc \in ActivePCs => rq.batch.state = "enqueued"
  /\ rq.batch.state = "enqueued" => \E i \in Runs : rq.batch.runs[i].pc \in ActivePCs
  /\ \A i, j \in Runs : rq.batch.runs[i].pc \in ActivePCs /\ rq.batch.runs[j].pc \in ActivePCs => i = j
  /\ \A i \in Runs : rq.batch.lock = i <=> rq.batch.runs[i].pc \in LockedPCs
  /\ \A i \in Runs : rq.batch.runs[i].count > 0 => rq.batch.runs[i].pc \in CountingPCs
  /\ rq.batch.queue # <<>> => rq.batch.schedulers > 0 \/ \E i \in Runs : rq.batch.runs[i].pc # "none"

(* Just the queued DataKVIOs are in the batch, once each.                  *)
Queued ==
  /\ \A p \in 1 .. Len(rq.batch.queue) : rq.batch.queue[p] \in KVIOs /\ rq.kvios[rq.batch.queue[p]].pc = "queued"
  /\ \A p, q \in 1 .. Len(rq.batch.queue) : rq.batch.queue[p] = rq.batch.queue[q] => p = q
  /\ \A k \in KVIOs : rq.kvios[k].pc = "queued" => \E p \in 1 .. Len(rq.batch.queue) : rq.batch.queue[p] = k
Launching == {b \in Bios : rq.pcs[b] = "launch"}
Used == {k \in KVIOs : rq.kvios[k].pc # "free"} \ cleaned(rq)
counted(i, pcs) == IF rq.batch.runs[i].pc \in pcs THEN rq.batch.runs[i].count ELSE 0
Held == counted(1, CountingPCs \ {"wake"}) + counted(2, CountingPCs \ {"wake"})
Owed == counted(1, {"wake"}) + counted(2, {"wake"})
Cleaning == counted(1, {"loop", "resched"}) + counted(2, {"loop", "resched"})

(* The request permits which are out, the DataKVIOs which a batch has not  *)
(* returned yet and the limit.                                             *)
Permits ==
  /\ rq.requests.active = Cardinality(Launching) + Cardinality(Used) + Held
  /\ Cardinality(cleaned(rq)) = Cleaning
  /\ rq.requests.active <= rq.requests.limit
Holding == {b \in Bios : isDiscardBio(b) /\ rq.pcs[b] \in {"wantRequest", "launch"} /\ ~rq.bios[b].onVDOThread}
WithPermit == {k \in KVIOs : rq.kvios[k].hasDiscardPermit}

Discards ==
  /\ rq.discards.active = Cardinality(Holding) + Cardinality(WithPermit)
  /\ \A k \in KVIOs : rq.kvios[k].hasDiscardPermit => rq.kvios[k].remainingDiscard > 0 /\ rq.kvios[k].pc \in {"vdo", "acknowledge"}
  /\ \A b \in Bios : isDiscardBio(b) => rq.bios[b].blocks > 0
  /\ \A b \in Bios : rq.pcs[b] \in {"wantDiscard", "wantRequest", "launch"} => ~rq.bios[b].onVDOThread
  /\ \A b \in Bios : rq.pcs[b] = "wantDiscard" => isDiscardBio(b)

(* A bio is with one DataKVIO at most, and only once it was launched.      *)
Acknowledged ==
  /\ \A k \in KVIOs : rq.kvios[k].bio # none => rq.kvios[k].bio \in Bios /\ rq.pcs[rq.kvios[k].bio] = "launched"
  /\ \A k, l \in KVIOs : rq.kvios[k].bio # none /\ rq.kvios[k].bio = rq.kvios[l].bio => k = l
  /\ \A k \in KVIOs : rq.kvios[k].pc \in {"free", "queued", "cleaned"} => rq.kvios[k].bio = none
  /\ \A b \in Bios : rq.acked[b] = IF rq.pcs[b] = "launched" /\ \A k \in KVIOs : rq.kvios[k].bio # b THEN 1 ELSE 0

Deadlocked ==
  /\ \A p \in 1 .. Len(rq.deadlockQueue) : rq.deadlockQueue[p] \in Bios /\ rq.pcs[rq.deadlockQueue[p]] = "deadlocked"
  /\ \A p, q \in 1 .. Len(rq.deadlockQueue) : rq.deadlockQueue[p] = rq.deadlockQueue[q] => p = q
  /\ rq.deadlockQueue # <<>> => rq.overtaken \/ rq.requests.active = rq.requests.limit
Restoring == {i \in Waiters : isWaiting(rq, i) /\ rq.waiters[i].wasCompressing}

(* Just one of the threads which wait is to turn compression on again, if  *)
(* it was on.                                                              *)
Compression ==
  /\ rq.overwritten \/ IF rq.wanted /\ ~rq.compressing THEN \E i \in Waiters : Restoring = {i} ELSE Restoring = {}
  /\ rq.overwritten \/ (rq.compressing => rq.wanted)
  /\ rq.overlapped \/ \A i, j \in Waiters : isWaiting(rq, i) /\ isWaiting(rq, j) => i = j
  /\ rq.overlapped \/ rq.overwritten \/ \A i \in Waiters : isWaiting(rq, i) => ~rq.compressing
  /\ ~rq.compressing => \A k \in KVIOs : rq.kvios[k].pc # "packed"
sleeper(p) == rq.requests.waiterQueue[p]
Sleepers == 1 .. Len(rq.requests.waiterQueue)

Sleeping ==
  /\ \A p \in Sleepers :
       \/ sleeper(p) \in Bios /\ rq.pcs[sleeper(p)] = "wantRequest"
       \/ \E i \in Waiters : sleeper(p) = waiterThread(i) /\ rq.waiters[i].pc = "wait"
  /\ \A p, q \in Sleepers : sleeper(p) = sleeper(q) => p = q
Awake == {b \in Bios : rq.pcs[b] = "wantRequest" /\ ~isAsleep(rq.requests, b)}

(* The threads which wait for idleness and will be woken before some bio.  *)
Ahead == {i \in Waiters : \E p, q \in Sleepers : p < q /\ sleeper(p) = waiterThread(i) /\ sleeper(q) \in Bios}

(* The bios which are awake, and the threads which are not ahead of any    *)
(* bio.                                                                    *)
Spared == Awake \cup {waiterThread(i) : i \in Waiters \ Ahead}

(* While a bio sleeps the permits which are out, the wakeups owed and the  *)
(* bios awake are as many as the limit, but for a wakeup which went to     *)
(* each of the threads which are not ahead of it.                          *)
Wakeups ==
  /\ (\E p \in Sleepers : sleeper(p) \in Bios) => rq.requests.active + Owed + Cardinality(Spared) >= rq.requests.limit
  /\ (\E p \in Sleepers : sleeper(p) \notin Bios) => rq.overlapped \/ rq.requests.active + Owed + Cardinality(Awake) > 0
DiscardSleepers == 1 .. Len(rq.discards.waiterQueue)
AwakeDiscards == {b \in Bios : rq.pcs[b] = "wantDiscard" /\ ~isAsleep(rq.discards, b)}

(* Only discards wait for discard permits.                                 *)
WaitingDiscards ==
  /\ \A p \in DiscardSleepers :
       rq.discards.waiterQueue[p] \in Bios /\ rq.pcs[rq.discards.waiterQueue[p]] = "wantDiscard"
  /\ \A p, q \in DiscardSleepers : rq.discards.waiterQueue[p] = rq.discards.waiterQueue[q] => p = q
  /\ rq.discards.waiterQueue # <<>> =>
       rq.stranded \/ rq.discards.active + Cardinality(AwakeDiscards) >= rq.discards.limit

RInv ==
  /\ RequestsTypeOK /\ NoAssertionFails
  /\ Batched /\ Queued /\ Permits /\ Discards /\ Acknowledged /\ Deadlocked /\ Compression /\ Sleeping /\ Wakeups
  /\ WaitingDiscards

-----------------------------------------------------------------------------
(* Finite sets and queues                                                  *)

(* An element more.                                                        *)
LEMMA OneMore ==
  ASSUME NEW S, IsFiniteSet(S), NEW x, x \notin S
  PROVE  IsFiniteSet(S \cup {x}) /\ Cardinality(S \cup {x}) = Cardinality(S) + 1
  BY Zenon, FS_AddElement

(* An element less.                                                        *)
LEMMA OneLess ==
  ASSUME NEW S, IsFiniteSet(S), NEW x, x \in S
  PROVE  IsFiniteSet(S \ {x}) /\ Cardinality(S \ {x}) = Cardinality(S) - 1
  BY Zenon, FS_RemoveElement

(* As many numbers as counted.                                             *)
LEMMA UpTo ==
  ASSUME NEW n \in Nat
  PROVE  IsFiniteSet(1 .. n) /\ Cardinality(1 .. n) = n
<1>1. 1 \in Int /\ n \in Int
  OBVIOUS
<1>2. IsFiniteSet(1 .. n) /\ Cardinality(1 .. n) = IF 1 > n THEN 0 ELSE n - 1 + 1
  BY Zenon, <1>1, FS_Interval
<1> QED
  BY <1>2

(* The DataKVIOs, the bios and the threads are finitely many.              *)
LEMMA FinitelyMany ==
  ASSUME RequestsTypeOK
  PROVE  /\ IsFiniteSet(KVIOs) /\ Cardinality(KVIOs) = rq.requests.limit
         /\ IsFiniteSet(Bios) /\ Bios \subseteq Nat \ {none}
         /\ IsFiniteSet(Waiters) /\ Cardinality(Waiters) = Len(rq.waiters) /\ Waiters \subseteq Nat \ {0}
<1>1. Bios = 1 .. Len(rq.bios) /\ Len(rq.bios) \in Nat /\ Waiters = 1 .. Len(rq.waiters) /\ Len(rq.waiters) \in Nat
  BY DEF RequestsTypeOK, Bios, Waiters
<1>2. KVIOs = 1 .. rq.requests.limit /\ rq.requests.limit \in Nat /\ rq.requests.limit > 0
  BY Zenon DEF RequestsTypeOK, Limiter
<1>3. IsFiniteSet(1 .. rq.requests.limit) /\ Cardinality(1 .. rq.requests.limit) = rq.requests.limit
  BY Zenon, <1>2, UpTo
<1>4. IsFiniteSet(1 .. Len(rq.waiters)) /\ Cardinality(1 .. Len(rq.waiters)) = Len(rq.waiters)
  BY Zenon, <1>1, UpTo
<1>5. IsFiniteSet(1 .. Len(rq.bios))
  BY Zenon, <1>1, UpTo
<1> QED
  BY <1>1, <1>2, <1>3, <1>4, <1>5 DEF none

-----------------------------------------------------------------------------
(* What a conjunct of the invariant does not depend on.                    *)

(* A batch is not disturbed by what happens elsewhere.                     *)
LEMMA FrameBatched ==
  ASSUME Batched, rq'.batch = rq.batch
  PROVE  Batched'
  BY Zenon DEF Batched

(* The queue of a batch depends on the DataKVIOs.                          *)
LEMMA FrameQueued ==
  ASSUME Queued, rq'.batch.queue = rq.batch.queue, rq'.kvios = rq.kvios
  PROVE  Queued'
  BY Zenon DEF Queued, KVIOs

(* Request permits depend on who is about to launch, the DataKVIOs in use  *)
(* and the counts of the batch.                                            *)
LEMMA FramePermits ==
  ASSUME Permits, rq'.requests.active = rq.requests.active, rq'.requests.limit = rq.requests.limit,
         Launching' = Launching, Used' = Used, cleaned(rq)' = cleaned(rq), rq'.batch.runs = rq.batch.runs
  PROVE  Permits'
  BY Zenon DEF Permits, Held, Cleaning, counted

(* Discard permits depend on bios and DataKVIOs.                           *)
LEMMA FrameDiscards ==
  ASSUME Discards, rq'.discards.active = rq.discards.active, rq'.kvios = rq.kvios, rq'.bios = rq.bios, rq'.pcs = rq.pcs
  PROVE  Discards'
  BY Zenon DEF Discards, Holding, WithPermit, KVIOs, Bios, isDiscardBio

(* So do acknowledgements.                                                 *)
LEMMA FrameAcknowledged ==
  ASSUME Acknowledged, rq'.kvios = rq.kvios, rq'.bios = rq.bios, rq'.pcs = rq.pcs, rq'.acked = rq.acked
  PROVE  Acknowledged'
  BY DEF Acknowledged, KVIOs, Bios

(* The deadlock queue depends on bios and on the request limiter.          *)
LEMMA FrameDeadlocked ==
  ASSUME Deadlocked, rq'.deadlockQueue = rq.deadlockQueue, rq'.bios = rq.bios, rq'.pcs = rq.pcs,
         rq'.overtaken = rq.overtaken, rq'.requests.active = rq.requests.active, rq'.requests.limit = rq.requests.limit
  PROVE  Deadlocked'
  BY Zenon DEF Deadlocked, Bios

(* Compression depends on those who wait and on what is in the packer.     *)
LEMMA FrameCompression ==
  ASSUME Compression, rq'.compressing = rq.compressing, rq'.wanted = rq.wanted, rq'.overwritten = rq.overwritten,
         rq'.overlapped = rq.overlapped, rq'.waiters = rq.waiters, rq'.kvios = rq.kvios
  PROVE  Compression'
  BY DEF Compression, Restoring, isWaiting, Waiters, KVIOs

(* Who sleeps depends on the queue of the limiter.                         *)
LEMMA FrameSleeping ==
  ASSUME Sleeping, rq'.requests.waiterQueue = rq.requests.waiterQueue, rq'.bios = rq.bios, rq'.pcs = rq.pcs, rq'.waiters = rq.waiters
  PROVE  Sleeping'
  BY DEF Sleeping, Sleepers, sleeper, Bios, Waiters

(* Wakeups depend on the limiter, on bios and on the counts of the batch.  *)
LEMMA FrameWakeups ==
  ASSUME Wakeups, rq'.requests = rq.requests, rq'.bios = rq.bios, rq'.pcs = rq.pcs,
         Waiters' = Waiters, Owed' = Owed, rq'.overlapped = rq.overlapped
  PROVE  Wakeups'
<1>1. Awake' = Awake
  BY Zenon DEF Awake, Bios, isAsleep
<1>2. Ahead' = Ahead /\ Sleepers' = Sleepers /\ Bios' = Bios
  BY Zenon DEF Ahead, Sleepers, sleeper, Bios
<1> QED
  BY Zenon, <1>1, <1>2 DEF Wakeups, Spared, sleeper

(* Those of discards depend on the other limiter.                          *)
LEMMA FrameWaitingDiscards ==
  ASSUME WaitingDiscards, rq'.discards = rq.discards, rq'.bios = rq.bios, rq'.pcs = rq.pcs, rq'.stranded = rq.stranded
  PROVE  WaitingDiscards'
<1>1. AwakeDiscards' = AwakeDiscards
  BY Zenon DEF AwakeDiscards, Bios, isAsleep
<1> QED
  BY Zenon, <1>1 DEF WaitingDiscards, DiscardSleepers, Bios

-----------------------------------------------------------------------------
(* The batch                                                               *)

changed(i, pc, state, lock, schedulers) ==
  [rq.batch EXCEPT !.state = state, !.lock = lock, !.schedulers = schedulers, !.runs = [@ EXCEPT ![i].pc = pc]]

(* What a step of a run from one place to another changes.                 *)
LEMMA ChangedBatch ==
  ASSUME RequestsTypeOK, NEW i \in Runs, NEW pc \in RunPCs, NEW state \in {"idle", "enqueued"}, NEW lock \in 0 .. 2,
         NEW schedulers \in Nat, NEW batch, batch = changed(i, pc, state, lock, schedulers)
  PROVE  /\ batch \in Batch
         /\ batch.state = state /\ batch.lock = lock /\ batch.queue = rq.batch.queue
         /\ batch.schedulers = schedulers
         /\ \A j \in Runs : batch.runs[j].pc = (IF j = i THEN pc ELSE rq.batch.runs[j].pc)
                            /\ batch.runs[j].count = rq.batch.runs[j].count
<1> DEFINE runs == [rq.batch.runs EXCEPT ![i].pc = pc]
<1>1. rq.batch \in Batch
  BY Zenon DEF RequestsTypeOK
<1>2. runs \in [Runs -> Run]
  BY Zenon, <1>1 DEF Batch, Run
<1>3. \A j \in Runs : runs[j].pc = (IF j = i THEN pc ELSE rq.batch.runs[j].pc) /\ runs[j].count = rq.batch.runs[j].count
  BY Zenon, <1>1 DEF Batch, Run
<1>4. batch = [rq.batch EXCEPT !.state = state, !.lock = lock, !.schedulers = schedulers, !.runs = runs]
  BY Zenon DEF changed
<1> HIDE DEF runs
<1>5. /\ batch \in Batch /\ batch.state = state /\ batch.lock = lock /\ batch.queue = rq.batch.queue
      /\ batch.schedulers = schedulers /\ batch.runs = runs
  BY <1>1, <1>2, <1>4, Zenon DEF Batch
<1> QED
  BY Zenon, <1>3, <1>5

(* The other run is as it was.                                             *)
LEMMA ChangedOthers ==
  ASSUME RequestsTypeOK, NEW i \in Runs, NEW j \in Runs, j # i, NEW pc, NEW state, NEW lock, NEW schedulers
  PROVE  changed(i, pc, state, lock, schedulers).runs[j] = rq.batch.runs[j]
  BY Zenon DEF RequestsTypeOK, Batch, changed

-----------------------------------------------------------------------------
(* A DataKVIO                                                              *)

aloneChanges(k) == KVIOs' = KVIOs /\ \A l \in KVIOs : l # k => rq'.kvios[l] = rq.kvios[l]

(* A queue without its first.                                              *)
LEMMA Rest ==
  ASSUME NEW S, NEW q \in Seq(S), NEW n \in Nat
  PROVE  /\ SubSeq(q, n + 1, Len(q)) \in Seq(S)
         /\ n <= Len(q) => /\ Len(SubSeq(q, n + 1, Len(q))) = Len(q) - n
                           /\ \A p \in 1 .. Len(q) - n : SubSeq(q, n + 1, Len(q))[p] = q[p + n]
         /\ n >= Len(q) => SubSeq(q, n + 1, Len(q)) = <<>>
<1>1. CASE n >= Len(q)
  <2>1. SubSeq(q, n + 1, Len(q)) = <<>>
    BY <1>1
  <2> QED
    BY <1>1, <2>1
<1>2. CASE n < Len(q)
  BY <1>2
<1> QED
  BY <1>1, <1>2

Distinct(q) == \A p, r \in 1 .. Len(q) : q[p] = q[r] => p = r
after(q, n) == SubSeq(q, n + 1, Len(q))

(* Who is still in a queue without its first ones.                         *)
LEMMA StillQueued ==
  ASSUME NEW q \in Seq(Int), NEW n \in Nat, n <= Len(q), Distinct(q), NEW w, w = after(q, n)
  PROVE  /\ w \in Seq(Int) /\ Len(w) = Len(q) - n
         /\ \A p \in 1 .. Len(w) : p + n \in 1 .. Len(q) /\ w[p] = q[p + n]
         /\ \A c : inQueue(w, c) <=> inQueue(q, c) /\ \A p \in 1 .. n : q[p] # c
<1>1. w \in Seq(Int) /\ Len(w) = Len(q) - n /\ Len(q) \in Nat /\ \A p \in 1 .. Len(q) - n : w[p] = q[p + n]
  BY Rest DEF after
<1>2. \A p \in 1 .. Len(w) : p + n \in 1 .. Len(q) /\ w[p] = q[p + n]
  BY <1>1
<1>3. ASSUME NEW c
      PROVE  inQueue(w, c) <=> inQueue(q, c) /\ \A p \in 1 .. n : q[p] # c
  <2>1. ASSUME NEW p \in 1 .. Len(w), w[p] = c
        PROVE  (\E r \in 1 .. Len(q) : q[r] = c) /\ \A r \in 1 .. n : q[r] # c
    <3>1. p + n \in 1 .. Len(q) /\ q[p + n] = c
      BY Zenon, <1>2, <2>1
    <3>2. \A r \in 1 .. n : r \in 1 .. Len(q) /\ r # p + n
      BY <1>1
    <3> QED
      BY Zenon, <3>1, <3>2 DEF Distinct
  <2>2. ASSUME NEW p \in 1 .. Len(q), q[p] = c, \A r \in 1 .. n : q[r] # c
        PROVE  \E r \in 1 .. Len(w) : w[r] = c
    <3>1. p \notin 1 .. n
      BY Zenon, <2>2
    <3>2. p - n \in 1 .. Len(w) /\ (p - n) + n = p
      BY <1>1, <3>1
    <3> QED
      BY <1>2, <2>2, <3>2, Zenon
  <2> QED
    BY <2>1, <2>2 DEF inQueue
<1> QED
  BY Zenon, <1>1, <1>2, <1>3

(* The pieces of the state which a request changes have their types.       *)
LEMMA Pieces ==
  ASSUME RequestsTypeOK
  PROVE  /\ rq.kvios \in [KVIOs -> KVIO] /\ rq.batch \in Batch /\ rq.requests \in Limiter /\ rq.discards \in Limiter
         /\ rq.acked \in [Bios -> Nat] /\ rq.pcs \in [Bios -> BioPCs] /\ rq.faults \in Int
         /\ rq \in [DOMAIN rq -> {rq[x] : x \in DOMAIN rq}]
         /\ {"kvios", "batch", "discards", "acked", "faults"} \subseteq DOMAIN rq
  BY Zenon DEF RequestsTypeOK

kviosWith(k, v) == [rq.kvios EXCEPT ![k] = v]

-----------------------------------------------------------------------------
(* A batch at work                                                         *)

(* The counts of a batch change with the one run which does.               *)
LEMMA CountsChange ==
  ASSUME rq.batch \in Batch, rq'.batch \in Batch, NEW i \in Runs, \A j \in Runs : j # i => rq'.batch.runs[j] = rq.batch.runs[j],
         NEW CONSTANT pcs
  PROVE  /\ counted(i, pcs) \in Nat /\ counted(i, pcs)' \in Nat
         /\ counted(1, pcs) + counted(2, pcs) \in Nat
         /\ counted(1, pcs)' + counted(2, pcs)' = counted(1, pcs) + counted(2, pcs) + counted(i, pcs)' - counted(i, pcs)
<1>1. \A j \in Runs : counted(j, pcs) \in Nat /\ counted(j, pcs)' \in Nat
  BY Zenon DEF counted, Batch, Run
<1>2. \A j \in Runs : j # i => counted(j, pcs)' = counted(j, pcs)
  BY Zenon DEF counted
<1>3. CASE i = 1
  BY <1>1, <1>2, <1>3 DEF Runs
<1>4. CASE i = 2
  BY <1>1, <1>2, <1>4 DEF Runs
<1> QED
  BY <1>3, <1>4 DEF Runs

(* The sets which are counted are finite.                                  *)
LEMMA FiniteCounts ==
  ASSUME RequestsTypeOK
  PROVE  /\ IsFiniteSet(Used) /\ Cardinality(Used) \in Nat /\ IsFiniteSet(Launching) /\ Cardinality(Launching) \in Nat
         /\ IsFiniteSet(cleaned(rq)) /\ Cardinality(cleaned(rq)) \in Nat
         /\ IsFiniteSet(Awake) /\ Cardinality(Awake) \in Nat
<1>1. Used \subseteq KVIOs /\ Launching \subseteq Bios /\ cleaned(rq) \subseteq KVIOs /\ Awake \subseteq Bios
  BY Zenon DEF Used, Launching, cleaned, Awake, KVIOs
<1> QED
  BY Zenon, <1>1, FinitelyMany, FS_Subset, FS_CardinalityType

(* What the permits depend on, when a batch changes.                       *)
LEMMA PermitsOfBatch ==
  ASSUME RequestsTypeOK, RequestsTypeOK', Permits, NEW i \in Runs, \A j \in Runs : j # i => rq'.batch.runs[j] = rq.batch.runs[j],
         rq'.bios = rq.bios, rq'.pcs = rq.pcs, rq'.requests.limit = rq.requests.limit, Used' = Used,
         counted(i, CountingPCs \ {"wake"})' - counted(i, CountingPCs \ {"wake"}) = rq'.requests.active - rq.requests.active,
         rq'.requests.active <= rq.requests.active,
         Cardinality(cleaned(rq)') = Cleaning'
  PROVE  Permits'
<1>1. Launching' = Launching
  BY Zenon DEF Launching, Bios
<1>2. rq.batch \in Batch /\ rq'.batch \in Batch /\ rq.requests.active \in Int /\ rq'.requests.active \in Int /\ rq.requests.limit \in Nat
  BY Zenon DEF RequestsTypeOK, Limiter
<1>3. Held \in Nat /\ Held' = Held + counted(i, CountingPCs \ {"wake"})' - counted(i, CountingPCs \ {"wake"})
      /\ counted(i, CountingPCs \ {"wake"}) \in Nat /\ counted(i, CountingPCs \ {"wake"})' \in Nat
  BY Zenon, <1>2, CountsChange DEF Held
<1>4. Cardinality(Launching) \in Nat /\ Cardinality(Used) \in Nat
  BY Zenon, FiniteCounts
<1> QED
  BY <1>1, <1>2, <1>3, <1>4 DEF Permits

-----------------------------------------------------------------------------
(* What a step of a bio, or of a limiter, changes                          *)

mapped(requests, discards, kvios, batch, deadlockQueue, pcs, overtaken) ==
  [rq EXCEPT !.requests = requests, !.discards = discards, !.kvios = kvios, !.batch = batch,
             !.deadlockQueue = deadlockQueue, !.pcs = pcs, !.overtaken = overtaken]

restIsSame ==
  /\ rq'.bios = rq.bios /\ rq'.acked = rq.acked /\ rq'.waiters = rq.waiters /\ rq'.compressing = rq.compressing
  /\ rq'.wanted = rq.wanted /\ rq'.overlapped = rq.overlapped /\ rq'.overwritten = rq.overwritten
  /\ rq'.stranded = rq.stranded /\ rq'.asserts = rq.asserts

(* The pieces of the state which such a step changes have their types.     *)
LEMMA MapPieces ==
  ASSUME RequestsTypeOK
  PROVE  /\ rq.requests \in Limiter /\ rq.discards \in Limiter /\ rq.kvios \in [KVIOs -> KVIO] /\ rq.batch \in Batch
         /\ rq.deadlockQueue \in Seq(Nat) /\ rq.pcs \in [Bios -> BioPCs] /\ rq.overtaken \in BOOLEAN
         /\ rq \in [DOMAIN rq -> {rq[x] : x \in DOMAIN rq}]
         /\ {"requests", "discards", "kvios", "batch", "deadlockQueue", "pcs", "overtaken"} \subseteq DOMAIN rq
  BY Zenon DEF RequestsTypeOK

(* What such a step changes.                                               *)
LEMMA MapAlone ==
  ASSUME RequestsTypeOK, NEW requests \in Limiter, requests.limit = rq.requests.limit, NEW discards \in Limiter,
         NEW kvios \in [KVIOs -> KVIO], NEW batch \in Batch, NEW deadlockQueue \in Seq(Nat), NEW pcs \in [Bios -> BioPCs],
         NEW overtaken \in BOOLEAN, rq' = mapped(requests, discards, kvios, batch, deadlockQueue, pcs, overtaken)
  PROVE  /\ RequestsTypeOK' /\ restIsSame /\ rq'.requests = requests /\ rq'.discards = discards /\ rq'.kvios = kvios
         /\ rq'.batch = batch /\ rq'.deadlockQueue = deadlockQueue /\ rq'.pcs = pcs /\ rq'.overtaken = overtaken
         /\ Bios' = Bios /\ KVIOs' = KVIOs /\ Waiters' = Waiters
<1>1. /\ restIsSame /\ rq'.requests = requests /\ rq'.discards = discards /\ rq'.kvios = kvios
      /\ rq'.batch = batch /\ rq'.deadlockQueue = deadlockQueue /\ rq'.pcs = pcs /\ rq'.overtaken = overtaken
  BY Zenon DEF RequestsTypeOK, restIsSame, mapped
<1>2. Bios' = Bios /\ KVIOs' = KVIOs /\ Waiters' = Waiters
  BY Zenon, <1>1 DEF KVIOs, Bios, Waiters, restIsSame, RequestsTypeOK
<1>3. RequestsTypeOK'
  BY <1>1, <1>2, Zenon DEF RequestsTypeOK, restIsSame, mapped
<1> QED
  BY Zenon, <1>1, <1>2, <1>3

(* A limiter with a permit less.                                           *)
LEMMA TakenPermit ==
  ASSUME NEW limiter \in Limiter
  PROVE  /\ take(limiter) \in Limiter /\ take(limiter).active = limiter.active + 1 /\ take(limiter).limit = limiter.limit
         /\ take(limiter).waiterQueue = limiter.waiterQueue
<1> DEFINE active == limiter.active + 1
<1>1. active \in Int /\ take(limiter) = [limiter EXCEPT !.active = active]
  BY DEF Limiter, take
<1> HIDE DEF active
<1>2. /\ take(limiter) \in Limiter /\ take(limiter).active = active /\ take(limiter).limit = limiter.limit
      /\ take(limiter).waiterQueue = limiter.waiterQueue
  BY Zenon, <1>1 DEF Limiter
<1> QED
  BY Zenon, <1>2 DEF active

(* What a batch counts is a number.                                        *)
LEMMA CountsAreNumbers ==
  ASSUME RequestsTypeOK
  PROVE  Held \in Nat /\ Owed \in Nat /\ Cleaning \in Nat
<1>1. \A i \in Runs : rq.batch.runs[i].count \in Nat
  BY Zenon DEF RequestsTypeOK, Batch, Run
<1>2. \A i \in Runs : \A pcs : counted(i, pcs) \in Nat
  BY Zenon, <1>1 DEF counted
<1> QED
  BY <1>2 DEF Held, Owed, Cleaning, Runs

-----------------------------------------------------------------------------
(* Wakeups                                                                 *)

(* The sets which wakeups count are finite.                                *)
LEMMA FiniteWakeups ==
  ASSUME RequestsTypeOK
  PROVE  /\ IsFiniteSet(Awake) /\ Cardinality(Awake) \in Nat /\ IsFiniteSet(Spared) /\ Cardinality(Spared) \in Nat
         /\ IsFiniteSet(AwakeDiscards) /\ Cardinality(AwakeDiscards) \in Nat
         /\ Cardinality(Spared \ Awake) <= Len(rq.waiters) /\ Cardinality(Spared) <= Cardinality(Awake) + Len(rq.waiters)
<1>1. Awake \subseteq Bios /\ AwakeDiscards \subseteq Bios
  BY Zenon DEF Awake, AwakeDiscards
<1>2. IsFiniteSet(Awake) /\ Cardinality(Awake) \in Nat /\ IsFiniteSet(AwakeDiscards) /\ Cardinality(AwakeDiscards) \in Nat
  BY Zenon, <1>1, FinitelyMany, FS_Subset, FS_CardinalityType
<1> DEFINE T == {waiterThread(i) : i \in Waiters \ Ahead}
           f == [t \in T |-> -t]
<1>3. f \in Injection(T, Waiters)
  <2>1. \A i \in Waiters : i \in Int /\ -(-i) = i
    BY FinitelyMany
  <2>2. \A t \in T : -t \in Waiters
    BY Zenon, <2>1 DEF waiterThread
  <2>3. \A t, u \in T : -t = -u => t = u
    BY <2>1 DEF waiterThread
  <2> QED
    BY Zenon, <2>2, <2>3 DEF Injection, IsInjective
<1>4. IsFiniteSet(T) /\ Cardinality(T) <= Cardinality(Waiters)
  <2> HIDE DEF T, f
  <2> QED
    BY Zenon, <1>3, FinitelyMany, FS_Injection
<1>5. Cardinality(T) \in Nat /\ Cardinality(T) <= Len(rq.waiters)
  BY Zenon, <1>4, FinitelyMany, FS_CardinalityType
<1> HIDE DEF T
<1>6. IsFiniteSet(Awake \cup T) /\ Cardinality(Awake \cup T) = Cardinality(Awake) + Cardinality(T) - Cardinality(Awake \cap T)
  BY Zenon, <1>2, <1>4, FS_Union
<1>7. Cardinality(Awake \cap T) \in Nat /\ Cardinality(Awake \cup T) \in Nat
  BY Zenon, <1>2, <1>6, FS_Subset, FS_CardinalityType
<1>8. Spared = Awake \cup T
  BY Zenon DEF Spared, T
<1>9. Cardinality(Spared) <= Cardinality(Awake) + Len(rq.waiters)
  BY <1>2, <1>5, <1>6, <1>7, <1>8
<1>10. Spared \ Awake \subseteq T
  BY Zenon, <1>8
<1>11. Cardinality(Spared \ Awake) <= Cardinality(T) /\ Cardinality(Spared \ Awake) \in Nat
  BY Zenon, <1>4, <1>10, FS_Subset, FS_CardinalityType
<1> QED
  BY <1>2, <1>5, <1>6, <1>7, <1>8, <1>9, <1>11, FinitelyMany

-----------------------------------------------------------------------------
(* A bio before its launch                                                 *)

pcsWith(b, pc) == [rq.pcs EXCEPT ![b] = pc]

(* Who is in a queue has a place in it.                                    *)
LEMMA HasItsPlace ==
  ASSUME NEW q \in Seq(Int), NEW c
  PROVE  inQueue(q, c) <=> \E p \in 1 .. Len(q) : q[p] = c
  BY DEF inQueue

(* Who sleeps in a limiter has a place in its queue.                       *)
LEMMA SleeperHasItsPlace ==
  ASSUME RequestsTypeOK, NEW c
  PROVE  /\ isAsleep(rq.requests, c) <=> \E p \in Sleepers : sleeper(p) = c
         /\ isAsleep(rq.discards, c) <=> \E p \in DiscardSleepers : rq.discards.waiterQueue[p] = c
<1>1. PICK q, r : q = rq.requests.waiterQueue /\ r = rq.discards.waiterQueue
  BY Zenon
<1>2. q \in Seq(Int) /\ r \in Seq(Int)
  BY Zenon, <1>1, Pieces DEF Limiter
<1>3. (inQueue(q, c) <=> \E p \in 1 .. Len(q) : q[p] = c) /\ (inQueue(r, c) <=> \E p \in 1 .. Len(r) : r[p] = c)
  BY Zenon, <1>2, HasItsPlace
<1> QED
  BY <1>1, <1>3, Zenon DEF isAsleep, Sleepers, sleeper, DiscardSleepers

-----------------------------------------------------------------------------
(* The launch of a bio                                                     *)

(* A DataKVIO is free for each request permit which is held, or can be     *)
(* taken, without one.                                                     *)
LEMMA ADataKVIOIsFree ==
  ASSUME RequestsTypeOK, Permits,
         \/ rq.requests.active < rq.requests.limit \/ Launching # {}
         \/ \E i \in Runs : rq.batch.runs[i].pc = "complete" /\ rq.batch.runs[i].count > 0
  PROVE  freeKVIOs(rq) # {}
<1>1. /\ IsFiniteSet(Used) /\ Cardinality(Used) \in Nat /\ IsFiniteSet(Launching) /\ Cardinality(Launching) \in Nat
      /\ IsFiniteSet(cleaned(rq)) /\ Cardinality(cleaned(rq)) \in Nat
  BY Zenon, FiniteCounts
<1>2. rq.requests.active \in Int /\ rq.requests.limit \in Nat
  BY Zenon DEF RequestsTypeOK, Limiter
<1>3. \A i \in Runs : rq.batch.runs[i].count \in Nat
  BY Zenon DEF RequestsTypeOK, Batch, Run
<1> DEFINE h(i) == counted(i, CountingPCs \ {"wake"})
           l(i) == counted(i, {"loop", "resched"})
<1>4. \A i \in Runs : h(i) \in Nat /\ l(i) \in Nat /\ l(i) <= h(i)
  BY <1>3 DEF counted, CountingPCs
<1>5. \A i \in Runs : rq.batch.runs[i].pc = "complete" => h(i) = rq.batch.runs[i].count /\ l(i) = 0
  BY Zenon DEF counted, CountingPCs
<1>6. Held = h(1) + h(2) /\ Cleaning = l(1) + l(2)
  BY Zenon DEF Held, Cleaning
<1> HIDE DEF h, l
<1>7. Held \in Nat /\ Cleaning \in Nat /\ Cleaning <= Held
  BY <1>4, <1>6 DEF Runs
<1>8. (\E i \in Runs : rq.batch.runs[i].pc = "complete" /\ rq.batch.runs[i].count > 0) => Cleaning < Held
  BY <1>3, <1>4, <1>5, <1>6 DEF Runs
<1>9. Launching # {} => Cardinality(Launching) > 0
  BY <1>1, FS_EmptySet
<1>10. Cardinality(Used) + Cardinality(cleaned(rq)) < rq.requests.limit
  BY <1>1, <1>2, <1>7, <1>8, <1>9 DEF Permits
<1>11. Used \cap cleaned(rq) = {}
  BY Zenon DEF Used
<1>12. Cardinality(Used \cup cleaned(rq)) = Cardinality(Used) + Cardinality(cleaned(rq)) - Cardinality(Used \cap cleaned(rq))
  BY Zenon, <1>1, FS_Union
<1>13. Cardinality(Used \cap cleaned(rq)) = 0
  BY Zenon, <1>11, FS_EmptySet
<1>14. Cardinality(Used \cup cleaned(rq)) < rq.requests.limit
  BY <1>1, <1>2, <1>10, <1>12, <1>13
<1>15. Used \cup cleaned(rq) # KVIOs
  <2> DEFINE U == Used \cup cleaned(rq)
  <2> HIDE DEF U
  <2>1. Cardinality(U) < rq.requests.limit /\ Cardinality(KVIOs) = rq.requests.limit
    BY Zenon, <1>14, FinitelyMany DEF U
  <2>2. U # KVIOs
    BY <1>2, <2>1
  <2> QED
    BY Zenon, <2>2 DEF U
<1>16. PICK k \in KVIOs : k \notin Used \cup cleaned(rq)
  BY Zenon, <1>15 DEF Used, cleaned, KVIOs
<1> QED
  BY Zenon, <1>16 DEF Used, freeKVIOs, KVIOs

launches(b, k) ==
  /\ restIsSame /\ rq'.overtaken = rq.overtaken /\ rq'.batch.queue = rq.batch.queue
  /\ rq'.requests.waiterQueue = rq.requests.waiterQueue /\ rq'.requests.limit = rq.requests.limit
  /\ rq'.discards.waiterQueue = rq.discards.waiterQueue /\ rq'.discards.limit = rq.discards.limit
  /\ Bios' = Bios /\ Waiters' = Waiters
  /\ \A c \in Bios : rq'.pcs[c] = (IF c = b THEN "launched" ELSE rq.pcs[c])
  /\ aloneChanges(k) /\ rq.kvios[k].pc = "free" /\ rq'.kvios[k].pc = "vdo" /\ rq'.kvios[k].bio = b
  /\ rq'.kvios[k].remainingDiscard = (IF isDiscardBio(b) THEN rq.bios[b].blocks ELSE 0)
  /\ rq'.kvios[k].hasDiscardPermit \in BOOLEAN /\ (rq'.kvios[k].hasDiscardPermit => isDiscardBio(b))

(* The DataKVIO has the permit from now on.                                *)
LEMMA LaunchPermits ==
  ASSUME RequestsTypeOK, RequestsTypeOK', Permits, NEW b \in Bios, NEW k \in KVIOs, launches(b, k),
         rq'.requests.active - Held' = rq.requests.active - Held + (IF rq.pcs[b] = "launch" THEN 0 ELSE 1),
         Cleaning' = Cleaning, rq'.requests.active <= rq.requests.limit, Held' \in Nat
  PROVE  Permits'
<1>1. /\ IsFiniteSet(Used) /\ Cardinality(Used) \in Nat /\ IsFiniteSet(Launching) /\ Cardinality(Launching) \in Nat
      /\ Held \in Nat /\ rq.requests.active \in Int /\ rq'.requests.active \in Int
  BY FiniteCounts, CountsAreNumbers, Zenon DEF RequestsTypeOK, Limiter
<1>2. KVIOs' = KVIOs /\ \A l \in KVIOs : l # k => rq'.kvios[l].pc = rq.kvios[l].pc
  BY Zenon DEF launches, aloneChanges
<1>3. Used' = Used \cup {k} /\ k \notin Used /\ cleaned(rq)' = cleaned(rq)
  BY <1>2 DEF Used, cleaned, KVIOs, launches
<1>4. Cardinality(Used') = Cardinality(Used) + 1
  BY Zenon, <1>1, <1>3, OneMore
<1>5. Cardinality(Launching') = Cardinality(Launching) - (IF rq.pcs[b] = "launch" THEN 1 ELSE 0)
  <2>1. CASE rq.pcs[b] = "launch"
    <3>1. Launching' = Launching \ {b} /\ b \in Launching
      BY Zenon, <2>1 DEF Launching, launches
    <3> QED
      BY Zenon, <1>1, <2>1, <3>1, OneLess
  <2>2. CASE rq.pcs[b] # "launch"
    <3>1. Launching' = Launching
      BY <2>2 DEF Launching, launches
    <3> QED
      BY <1>1, <2>2, <3>1
  <2> QED
    BY Zenon, <2>1, <2>2
<1>6. rq'.requests.active = Cardinality(Launching') + Cardinality(Used') + Held'
  <2>1. rq.requests.active = Cardinality(Launching) + Cardinality(Used) + Held
    BY Zenon DEF Permits
  <2> QED
    BY <1>1, <1>4, <1>5, <2>1
<1> QED
  BY Zenon, <1>3, <1>6 DEF Permits, launches

(* So it has the discard permit, if there was one.                         *)
LEMMA LaunchDiscards ==
  ASSUME RequestsTypeOK, Discards, NEW b \in Bios, NEW k \in KVIOs, launches(b, k),
         rq'.discards.active = rq.discards.active + (IF rq'.kvios[k].hasDiscardPermit THEN 1 ELSE 0) - (IF b \in Holding THEN 1 ELSE 0)
  PROVE  Discards'
<1>1. \A l \in KVIOs : l # k => /\ rq'.kvios[l].hasDiscardPermit = rq.kvios[l].hasDiscardPermit
                                /\ rq'.kvios[l].remainingDiscard = rq.kvios[l].remainingDiscard
                                /\ rq'.kvios[l].pc = rq.kvios[l].pc
  BY Zenon DEF launches, aloneChanges
<1>2. KVIOs' = KVIOs /\ Bios' = Bios /\ \A c \in Bios : isDiscardBio(c)' <=> isDiscardBio(c)
  BY Zenon DEF launches, aloneChanges, restIsSame, isDiscardBio
<1>3. ~rq.kvios[k].hasDiscardPermit
  BY Zenon DEF Discards, launches
<1>4. \A l \in KVIOs : rq'.kvios[l].hasDiscardPermit => rq'.kvios[l].remainingDiscard > 0 /\ rq'.kvios[l].pc \in {"vdo", "acknowledge"}
  BY <1>1 DEF Discards, launches
<1>5. Holding' = Holding \ {b}
  BY Zenon, <1>2 DEF Holding, launches, restIsSame
<1>6. /\ IsFiniteSet(Holding) /\ Cardinality(Holding) \in Nat /\ IsFiniteSet(WithPermit) /\ Cardinality(WithPermit) \in Nat
  <2>1. Holding \subseteq Bios /\ WithPermit \subseteq KVIOs
    BY Zenon DEF Holding, WithPermit
  <2> QED
    BY Zenon, <2>1, FinitelyMany, FS_Subset, FS_CardinalityType
<1>7. Cardinality(Holding') = Cardinality(Holding) - (IF b \in Holding THEN 1 ELSE 0)
  <2>1. CASE b \in Holding
    BY Zenon, <1>5, <1>6, <2>1, OneLess
  <2>2. CASE b \notin Holding
    <3>1. Holding' = Holding
      BY Zenon, <1>5, <2>2
    <3> QED
      BY <1>6, <2>2, <3>1
  <2> QED
    BY Zenon, <2>1, <2>2
<1>8. Cardinality(WithPermit') = Cardinality(WithPermit) + (IF rq'.kvios[k].hasDiscardPermit THEN 1 ELSE 0)
  <2>1. CASE rq'.kvios[k].hasDiscardPermit
    <3>1. WithPermit' = WithPermit \cup {k} /\ k \notin WithPermit
      BY Zenon, <1>1, <1>2, <1>3, <2>1 DEF WithPermit
    <3> QED
      BY Zenon, <1>6, <2>1, <3>1, OneMore
  <2>2. CASE ~rq'.kvios[k].hasDiscardPermit
    <3>1. WithPermit' = WithPermit
      BY Zenon, <1>1, <1>2, <1>3, <2>2 DEF WithPermit
    <3> QED
      BY <1>6, <2>2, <3>1
  <2> QED
    BY Zenon, <2>1, <2>2
<1>9. rq'.discards.active = Cardinality(Holding') + Cardinality(WithPermit')
  <2>1. rq.discards.active = Cardinality(Holding) + Cardinality(WithPermit)
    BY Zenon DEF Discards
  <2> QED
    BY <1>6, <1>7, <1>8, <2>1
<1>10. \A c \in Bios : rq'.pcs[c] \in {"wantDiscard", "wantRequest", "launch"} => ~rq'.bios[c].onVDOThread
  BY Zenon DEF Discards, launches, restIsSame
<1>11. \A c \in Bios : rq'.pcs[c] = "wantDiscard" => isDiscardBio(c)
  BY Zenon DEF Discards, launches
<1> QED
  BY Zenon, <1>2, <1>4, <1>9, <1>10, <1>11 DEF Discards, launches, restIsSame

(* It has the bio, which is not acknowledged.                              *)
LEMMA LaunchAcknowledged ==
  ASSUME RequestsTypeOK, Acknowledged, NEW b \in Bios, NEW k \in KVIOs, launches(b, k), rq.pcs[b] # "launched"
  PROVE  Acknowledged'
<1>1. KVIOs' = KVIOs /\ \A l \in KVIOs : l # k => rq'.kvios[l].bio = rq.kvios[l].bio /\ rq'.kvios[l].pc = rq.kvios[l].pc
  BY Zenon DEF launches, aloneChanges
<1>2. \A l \in KVIOs : rq.kvios[l].bio # b
  BY FinitelyMany DEF Acknowledged
<1>3. rq.kvios[k].bio = none
  BY Zenon DEF Acknowledged, launches
<1>4. \A l \in KVIOs : rq'.kvios[l].bio # none => rq'.kvios[l].bio \in Bios /\ rq'.pcs[rq'.kvios[l].bio] = "launched"
  BY <1>1, <1>2 DEF Acknowledged, launches
<1>5. \A l, m \in KVIOs : rq'.kvios[l].bio # none /\ rq'.kvios[l].bio = rq'.kvios[m].bio => l = m
  BY <1>1, <1>2 DEF Acknowledged, launches
<1>6. \A l \in KVIOs : rq'.kvios[l].pc \in {"free", "queued", "cleaned"} => rq'.kvios[l].bio = none
  BY <1>1 DEF Acknowledged, launches
<1>7. ASSUME NEW c \in Bios
      PROVE  rq'.acked[c] = IF rq'.pcs[c] = "launched" /\ \A l \in KVIOs : rq'.kvios[l].bio # c THEN 1 ELSE 0
  <2>1. CASE c = b
    <3>1. rq.acked[b] = 0
      BY Zenon DEF Acknowledged
    <3> QED
      BY Zenon, <2>1, <3>1 DEF launches, restIsSame
  <2>2. CASE c # b
    <3>1. (\A l \in KVIOs : rq'.kvios[l].bio # c) <=> (\A l \in KVIOs : rq.kvios[l].bio # c)
      BY <1>1, <1>3, <2>2, FinitelyMany DEF launches
    <3> QED
      BY <2>2, <3>1 DEF Acknowledged, launches, restIsSame
  <2> QED
    BY Zenon, <2>1, <2>2
<1> QED
  BY Zenon, <1>1, <1>4, <1>5, <1>6, <1>7 DEF Acknowledged, launches

(* What has to be known of a launch.                                       *)
LEMMA LaunchStep ==
  ASSUME RInv, RequestsTypeOK', NEW b \in Bios, NEW k \in KVIOs, launches(b, k),
         rq.pcs[b] \notin {"launched", "wantRequest", "wantDiscard"},
         rq'.requests.active - Held' = rq.requests.active - Held + (IF rq.pcs[b] = "launch" THEN 0 ELSE 1),
         Cleaning' = Cleaning, Owed' = Owed, rq'.requests.active <= rq.requests.limit, rq'.requests.active >= rq.requests.active, Held' \in Nat,
         rq'.discards.active = rq.discards.active + (IF rq'.kvios[k].hasDiscardPermit THEN 1 ELSE 0) - (IF b \in Holding THEN 1 ELSE 0),
         rq'.discards.active >= rq.discards.active,
         Batched', Deadlocked'
  PROVE  RInv'
<1>0. RequestsTypeOK /\ Permits /\ Discards /\ Acknowledged /\ Queued /\ Sleeping /\ Wakeups /\ Compression /\ WaitingDiscards
  BY Zenon DEF RInv
<1>1. Permits' /\ Discards' /\ Acknowledged'
  BY Zenon, <1>0, LaunchPermits, LaunchDiscards, LaunchAcknowledged
<1>2. KVIOs' = KVIOs /\ \A l \in KVIOs : l # k => rq'.kvios[l].pc = rq.kvios[l].pc
  BY Zenon DEF launches, aloneChanges
<1>3. Queued'
  <2>1. \A p \in 1 .. Len(rq.batch.queue) : rq.batch.queue[p] \in KVIOs /\ rq.batch.queue[p] # k
    BY Zenon, <1>0 DEF Queued, launches
  <2> QED
    BY <1>0, <1>2, <2>1 DEF Queued, launches
<1>4. Compression'
  BY <1>0, <1>2 DEF Compression, Restoring, isWaiting, launches, restIsSame
<1>5. \A c \in Bios : /\ (rq'.pcs[c] = "wantRequest" <=> rq.pcs[c] = "wantRequest")
                      /\ (rq'.pcs[c] = "wantDiscard" <=> rq.pcs[c] = "wantDiscard")
  BY Zenon DEF launches
<1>6. Sleepers' = Sleepers /\ (\A p : sleeper(p)' = sleeper(p)) /\ DiscardSleepers' = DiscardSleepers
  BY Zenon DEF Sleepers, sleeper, DiscardSleepers, launches
<1>7. Sleeping'
  BY <1>0, <1>5, <1>6 DEF Sleeping, launches, restIsSame
<1>8. Awake' = Awake /\ AwakeDiscards' = AwakeDiscards /\ Ahead' = Ahead
  BY Zenon, <1>5, <1>6 DEF Awake, AwakeDiscards, Ahead, isAsleep, launches
<1>9. Spared' = Spared
  BY Zenon, <1>8 DEF Spared, launches
<1>10. /\ rq.requests.active \in Int /\ rq'.requests.active \in Int /\ rq.requests.limit \in Nat
       /\ rq.discards.active \in Int /\ rq'.discards.active \in Int /\ rq.discards.limit \in Nat
       /\ Cardinality(Awake) \in Nat /\ Cardinality(Spared) \in Nat /\ Cardinality(AwakeDiscards) \in Nat /\ Owed \in Nat
  BY <1>0, FiniteWakeups, CountsAreNumbers, Zenon DEF RequestsTypeOK, Limiter
<1>11. Wakeups'
  <2>1. (\E p \in Sleepers : sleeper(p) \in Bios) => rq'.requests.active + Owed' + Cardinality(Spared') >= rq'.requests.limit
    BY <1>0, <1>9, <1>10 DEF Wakeups, launches
  <2>2. (\E p \in Sleepers : sleeper(p) \notin Bios) => rq'.overlapped \/ rq'.requests.active + Owed' + Cardinality(Awake') > 0
    BY <1>0, <1>8, <1>10 DEF Wakeups, launches, restIsSame
  <2> QED
    BY Zenon, <1>6, <2>1, <2>2 DEF Wakeups, launches
<1>12. WaitingDiscards'
  <2>1. rq'.discards.waiterQueue # <<>> => rq'.stranded \/ rq'.discards.active + Cardinality(AwakeDiscards') >= rq'.discards.limit
    BY <1>0, <1>8, <1>10 DEF WaitingDiscards, launches, restIsSame
  <2> QED
    BY <1>0, <1>5, <1>6, <2>1 DEF WaitingDiscards, launches
<1>13. NoAssertionFails'
  BY Zenon DEF RInv, NoAssertionFails, launches, restIsSame
<1> QED
  BY <1>1, <1>3, <1>4, <1>7, <1>11, <1>12, <1>13 DEF RInv

launched(b, has) ==
  [pc |-> "vdo", bio |-> b, remainingDiscard |-> IF isDiscardBio(b) THEN rq.bios[b].blocks ELSE 0,
   hasDiscardPermit |-> isDiscardBio(b) /\ has]

(* What a launch changes.                                                  *)
LEMMA LaunchAlone ==
  ASSUME RequestsTypeOK, NEW requests \in Limiter, requests.limit = rq.requests.limit, requests.waiterQueue = rq.requests.waiterQueue,
         NEW discards \in Limiter, discards.limit = rq.discards.limit, discards.waiterQueue = rq.discards.waiterQueue,
         NEW batch \in Batch, batch.queue = rq.batch.queue, NEW deadlockQueue \in Seq(Nat), NEW b \in Bios, NEW has \in BOOLEAN,
         NEW k \in KVIOs, rq.kvios[k].pc = "free",
         rq' = mapped(requests, discards, kviosWith(k, launched(b, has)), batch, deadlockQueue, pcsWith(b, "launched"), rq.overtaken)
  PROVE  /\ RequestsTypeOK' /\ launches(b, k) /\ rq'.requests = requests /\ rq'.discards = discards /\ rq'.batch = batch
         /\ rq'.deadlockQueue = deadlockQueue /\ rq'.kvios[k].hasDiscardPermit = (isDiscardBio(b) /\ has)
<1> DEFINE pcs == pcsWith(b, "launched")
           v == launched(b, has)
           kvios == kviosWith(k, v)
<1>1. pcs \in [Bios -> BioPCs] /\ \A c \in Bios : pcs[c] = (IF c = b THEN "launched" ELSE rq.pcs[c])
  BY Zenon, MapPieces DEF pcsWith, BioPCs
<1>2. /\ v \in KVIO /\ v.pc = "vdo" /\ v.bio = b /\ v.remainingDiscard = (IF isDiscardBio(b) THEN rq.bios[b].blocks ELSE 0)
      /\ v.hasDiscardPermit = (isDiscardBio(b) /\ has)
  <2>1. rq.bios[b].blocks \in Nat /\ b \in Nat
    <3> DEFINE bios == rq.bios
    <3>1. bios \in Seq(Bio) /\ b \in DOMAIN bios /\ b \in Nat
      BY Zenon, FinitelyMany DEF RequestsTypeOK, Bios
    <3> HIDE DEF bios
    <3>2. bios[b] \in Bio
      BY <3>1
    <3> QED
      BY Zenon, <3>1, <3>2 DEF Bio, bios
  <2>2. isDiscardBio(b) \in BOOLEAN
    BY Zenon DEF isDiscardBio
  <2> QED
    BY Zenon, <2>1, <2>2 DEF launched, KVIO, KVIOPCs
<1> HIDE DEF v
<1>3. kvios \in [KVIOs -> KVIO] /\ kvios[k] = v /\ \A l \in KVIOs : l # k => kvios[l] = rq.kvios[l]
  BY Zenon, <1>2, MapPieces DEF kviosWith
<1>4. rq' = mapped(requests, discards, kvios, batch, deadlockQueue, pcs, rq.overtaken)
  BY Zenon DEF v
<1>5. rq.overtaken \in BOOLEAN
  BY Zenon, MapPieces
<1> HIDE DEF pcs, kvios
<1>6. /\ RequestsTypeOK' /\ restIsSame /\ rq'.requests = requests /\ rq'.discards = discards /\ rq'.kvios = kvios
      /\ rq'.batch = batch /\ rq'.deadlockQueue = deadlockQueue /\ rq'.pcs = pcs /\ rq'.overtaken = rq.overtaken
      /\ Bios' = Bios /\ KVIOs' = KVIOs /\ Waiters' = Waiters
  BY <1>1, <1>3, <1>4, <1>5, MapAlone
<1>7. aloneChanges(k)
  BY Zenon, <1>3, <1>6 DEF aloneChanges
<1>8. rq'.kvios[k].hasDiscardPermit \in BOOLEAN /\ (rq'.kvios[k].hasDiscardPermit => isDiscardBio(b))
  BY Zenon, <1>2, <1>3, <1>6 DEF KVIO
<1> QED
  BY <1>1, <1>2, <1>3, <1>6, <1>7, <1>8 DEF launches

launchedFrom(r, b, has) ==
  [pc |-> "vdo", bio |-> b, remainingDiscard |-> IF r.bios[b].kind = "discard" THEN r.bios[b].blocks ELSE 0,
   hasDiscardPermit |-> r.bios[b].kind = "discard" /\ has]
launchedWith(r, b, k, v) == [r EXCEPT !.pcs[b] = "launched", !.kvios[k] = v]

(* kvdoLaunchDataKVIOFromBio(), when a DataKVIO is free.                   *)
LEMMA LaunchWithDataKVIO ==
  ASSUME NEW r, NEW b, NEW has, freeKVIOs(r) # {}
  PROVE  \E k \in freeKVIOs(r) : kvdoLaunchDataKVIOFromBio(r, b, has) = launchedWith(r, b, k, launchedFrom(r, b, has))
<1> DEFINE k == CHOOSE k \in freeKVIOs(r) : TRUE
<1>1. k \in freeKVIOs(r)
  BY Zenon
<1>2. assert(r, freeKVIOs(r) # {}, "there is a DataKVIO for each permit") = r
  BY Zenon DEF assert
<1>3. kvdoLaunchDataKVIOFromBio(r, b, has) = launchedWith(r, b, k, launchedFrom(r, b, has))
  BY <1>2, Zenon DEF kvdoLaunchDataKVIOFromBio, launchedWith, launchedFrom
<1> QED
  BY <1>1, <1>3, Zenon

prepared(requests, discards, batch, deadlockQueue) ==
  [rq EXCEPT !.requests = requests, !.discards = discards, !.batch = batch, !.deadlockQueue = deadlockQueue]

(* A launch after the permits were taken.                                  *)
LEMMA LaunchFrom ==
  ASSUME RequestsTypeOK, NEW requests, NEW discards, NEW batch, NEW deadlockQueue, NEW b \in Bios, NEW has, freeKVIOs(rq) # {},
         NEW r, r = prepared(requests, discards, batch, deadlockQueue)
  PROVE  \E k \in KVIOs :
           /\ rq.kvios[k].pc = "free"
           /\ kvdoLaunchDataKVIOFromBio(r, b, has) =
                mapped(requests, discards, kviosWith(k, launched(b, has)), batch, deadlockQueue, pcsWith(b, "launched"), rq.overtaken)
<1>1. r.kvios = rq.kvios /\ r.pcs = rq.pcs /\ r.bios = rq.bios
  BY Zenon DEF prepared, RequestsTypeOK
<1>2. freeKVIOs(r) = freeKVIOs(rq)
  BY Zenon, <1>1 DEF freeKVIOs
<1>3. PICK k \in freeKVIOs(r) : kvdoLaunchDataKVIOFromBio(r, b, has) = launchedWith(r, b, k, launchedFrom(r, b, has))
  <2>1. freeKVIOs(r) # {}
    BY Zenon, <1>2
  <2> QED
    BY Zenon, <2>1, LaunchWithDataKVIO
<1>4. k \in KVIOs /\ rq.kvios[k].pc = "free"
  BY Zenon, <1>2 DEF freeKVIOs, KVIOs
<1> DEFINE v == launched(b, has)
<1>5. launchedFrom(r, b, has) = v
  BY <1>1, Zenon DEF launched, launchedFrom, isDiscardBio
<1>6. kvdoLaunchDataKVIOFromBio(r, b, has) = launchedWith(r, b, k, v)
  BY <1>3, <1>5, Zenon
<1> HIDE DEF v
<1>7. launchedWith(r, b, k, v) = [r EXCEPT !.pcs = pcsWith(b, "launched"), !.kvios = kviosWith(k, v)]
  <2>1. DOMAIN r = DOMAIN rq
    BY Zenon, MapPieces DEF prepared
  <2>2. r \in [DOMAIN r -> {r[x] : x \in DOMAIN r}]
    <3>1. r = [x \in DOMAIN rq |-> r[x]]
      BY MapPieces, Zenon DEF prepared
    <3> QED
      BY Zenon, <2>1, <3>1
  <2>3. "pcs" \in DOMAIN r /\ "kvios" \in DOMAIN r
    BY Zenon, <2>1, MapPieces
  <2> QED
    BY <1>1, <2>2, <2>3, Zenon DEF pcsWith, kviosWith, launchedWith
<1> DEFINE pcs == pcsWith(b, "launched")
           kvios == kviosWith(k, v)
<1> HIDE DEF pcs, kvios
<1>8. [r EXCEPT !.pcs = pcs, !.kvios = kvios] = mapped(requests, discards, kvios, batch, deadlockQueue, pcs, rq.overtaken)
  BY MapPieces, Zenon DEF prepared, mapped
<1>9. kvdoLaunchDataKVIOFromBio(r, b, has) =
        mapped(requests, discards, kviosWith(k, v), batch, deadlockQueue, pcsWith(b, "launched"), rq.overtaken)
  BY <1>6, <1>7, <1>8, Zenon DEF pcs, kvios
<1> QED
  BY <1>4, <1>9, Zenon DEF v

(* A bio with its permits is launched.                                     *)
LEMMA LaunchRInv ==
  ASSUME RInv, NEW b \in Bios, Launch(b)
  PROVE  RInv'
<1>0. RequestsTypeOK /\ Permits /\ Discards /\ Deadlocked /\ Batched
  BY Zenon DEF RInv
<1>1. rq.pcs[b] = "launch"
  BY Zenon DEF Launch
<1> DEFINE has == isDiscardBio(b)
<1>2. has \in BOOLEAN
  BY Zenon DEF isDiscardBio
<1>3. freeKVIOs(rq) # {}
  <2>1. Launching # {}
    BY Zenon, <1>1 DEF Launching
  <2> QED
    BY Zenon, <1>0, <2>1, ADataKVIOIsFree
<1>4. rq = prepared(rq.requests, rq.discards, rq.batch, rq.deadlockQueue)
  BY <1>0, MapPieces, Zenon DEF prepared
<1>5. rq' = kvdoLaunchDataKVIOFromBio(rq, b, has)
  BY Zenon DEF Launch
<1> HIDE DEF has
<1>6. PICK k \in KVIOs :
        /\ rq.kvios[k].pc = "free"
        /\ rq' = mapped(rq.requests, rq.discards, kviosWith(k, launched(b, has)), rq.batch, rq.deadlockQueue,
                        pcsWith(b, "launched"), rq.overtaken)
  BY <1>0, <1>3, <1>4, <1>5, LaunchFrom
<1>7. rq.requests \in Limiter /\ rq.discards \in Limiter /\ rq.deadlockQueue \in Seq(Nat) /\ rq.batch \in Batch
  BY Zenon, <1>0, MapPieces
<1>8. /\ RequestsTypeOK' /\ launches(b, k) /\ rq'.requests = rq.requests /\ rq'.discards = rq.discards /\ rq'.batch = rq.batch
      /\ rq'.deadlockQueue = rq.deadlockQueue /\ rq'.kvios[k].hasDiscardPermit = (isDiscardBio(b) /\ has)
  <2>1. RequestsTypeOK
    BY Zenon, <1>0
  <2> QED
    BY <1>2, <1>6, <1>7, <2>1, LaunchAlone
<1>9. Held' = Held /\ Cleaning' = Cleaning /\ Owed' = Owed /\ Held \in Nat
  BY Zenon, <1>0, <1>8, CountsAreNumbers DEF Held, Cleaning, Owed, counted
<1>10. /\ rq.requests.active \in Int /\ rq.requests.limit \in Nat /\ rq.requests.active <= rq.requests.limit /\ rq.discards.active \in Int
  BY Zenon, <1>0, <1>7 DEF Limiter, Permits
<1>11. /\ rq'.requests.active - Held' = rq.requests.active - Held + 0 /\ rq'.requests.active = rq.requests.active
  BY <1>8, <1>9, <1>10
<1>12. rq'.kvios[k].hasDiscardPermit <=> b \in Holding
  BY <1>0, <1>1, <1>8, Zenon DEF Holding, Discards, has
<1>13. /\ rq'.discards.active = rq.discards.active + (IF rq'.kvios[k].hasDiscardPermit THEN 1 ELSE 0) - (IF b \in Holding THEN 1 ELSE 0)
       /\ rq'.discards.active >= rq.discards.active
  <2>1. rq'.discards.active = rq.discards.active
    BY Zenon, <1>8
  <2>2. CASE b \in Holding
    BY <1>10, <1>12, <2>1, <2>2
  <2>3. CASE b \notin Holding
    BY <1>10, <1>12, <2>1, <2>3
  <2> QED
    BY Zenon, <2>2, <2>3
<1>14. Batched'
  BY Zenon, <1>0, <1>8, FrameBatched
<1>15. Deadlocked'
  <2>1. \A p \in 1 .. Len(rq.deadlockQueue) : rq.deadlockQueue[p] \in Bios /\ rq'.pcs[rq.deadlockQueue[p]] = "deadlocked"
    BY <1>0, <1>1, <1>8 DEF Deadlocked, launches
  <2> QED
    BY <1>0, <1>8, <2>1 DEF Deadlocked, launches
<1> QED
  BY <1>1, <1>8, <1>9, <1>10, <1>11, <1>13, <1>14, <1>15, LaunchStep

polled(b) == IF isDiscardBio(b) THEN limiterPoll(rq.discards) ELSE rq.discards
hasPolled(b) == isDiscardBio(b) /\ takePermitLocked(rq.discards)

(* A poll of the discard limiter, for a discard.                           *)
LEMMA PolledDiscards ==
  ASSUME RequestsTypeOK, NEW b \in Bios
  PROVE  /\ polled(b) \in Limiter /\ polled(b).limit = rq.discards.limit /\ polled(b).waiterQueue = rq.discards.waiterQueue
         /\ hasPolled(b) \in BOOLEAN
         /\ polled(b).active = rq.discards.active + (IF hasPolled(b) THEN 1 ELSE 0) /\ rq.discards.active \in Int
<1>1. rq.discards \in Limiter /\ rq.discards.active \in Int
  BY Zenon, MapPieces DEF Limiter
<1>2. hasPolled(b) \in BOOLEAN
  BY Zenon DEF hasPolled, isDiscardBio, takePermitLocked
<1>3. CASE hasPolled(b)
  <2>1. polled(b) = take(rq.discards)
    BY Zenon, <1>3 DEF hasPolled, polled, limiterPoll
  <2> QED
    BY Zenon, <1>1, <1>2, <1>3, <2>1, TakenPermit
<1>4. CASE ~hasPolled(b)
  <2>1. polled(b) = rq.discards
    BY Zenon, <1>4 DEF hasPolled, polled, limiterPoll
  <2> QED
    BY <1>1, <1>2, <1>4, <2>1
<1> QED
  BY Zenon, <1>3, <1>4

(* A bio on a thread of VDO is launched if there is a permit.              *)
LEMMA LaunchFromVDOThreadRInv ==
  ASSUME RInv, NEW b \in Bios, rq.pcs[b] = "new", rq.bios[b].onVDOThread, takePermitLocked(rq.requests),
         rq' = launchDataKVIOFromVDOThread(b)
  PROVE  RInv'
<1>0. RequestsTypeOK /\ Permits /\ Discards /\ Deadlocked /\ Batched
  BY Zenon DEF RInv
<1> DEFINE has == hasPolled(b)
           discards == polled(b)
           requests == take(rq.requests)
           r == prepared(requests, discards, rq.batch, rq.deadlockQueue)
<1>1. /\ rq.requests \in Limiter /\ rq.deadlockQueue \in Seq(Nat) /\ rq.batch \in Batch
      /\ rq.requests.active \in Int /\ rq.requests.limit \in Nat /\ rq.requests.active < rq.requests.limit
  BY Zenon, <1>0, MapPieces DEF Limiter, takePermitLocked
<1>2. freeKVIOs(rq) # {}
  BY Zenon, <1>0, <1>1, ADataKVIOIsFree
<1>3. r = [rq EXCEPT !.requests = limiterPoll(@), !.discards = IF isDiscardBio(b) THEN limiterPoll(@) ELSE @]
  BY <1>0, MapPieces, Zenon DEF prepared, limiterPoll, polled
<1>4. rq' = kvdoLaunchDataKVIOFromBio(r, b, has)
  <2> HIDE DEF r
  <2> QED
    BY <1>3, Zenon DEF launchDataKVIOFromVDOThread, hasPolled
<1>5. /\ requests \in Limiter /\ requests.active = rq.requests.active + 1 /\ requests.limit = rq.requests.limit
      /\ requests.waiterQueue = rq.requests.waiterQueue
  BY Zenon, <1>1, TakenPermit
<1>6. /\ discards \in Limiter /\ discards.limit = rq.discards.limit /\ discards.waiterQueue = rq.discards.waiterQueue
      /\ has \in BOOLEAN /\ discards.active = rq.discards.active + (IF has THEN 1 ELSE 0) /\ rq.discards.active \in Int
  BY Zenon, <1>0, PolledDiscards
<1>6a. has => isDiscardBio(b)
  BY Zenon DEF hasPolled
<1>7. r = prepared(requests, discards, rq.batch, rq.deadlockQueue)
  BY Zenon
<1> HIDE DEF has, discards, requests, r
<1>8. PICK k \in KVIOs :
        /\ rq.kvios[k].pc = "free"
        /\ rq' = mapped(requests, discards, kviosWith(k, launched(b, has)), rq.batch, rq.deadlockQueue, pcsWith(b, "launched"), rq.overtaken)
  <2>1. \E k \in KVIOs :
          /\ rq.kvios[k].pc = "free"
          /\ kvdoLaunchDataKVIOFromBio(r, b, has) =
               mapped(requests, discards, kviosWith(k, launched(b, has)), rq.batch, rq.deadlockQueue, pcsWith(b, "launched"), rq.overtaken)
    BY <1>0, <1>2, <1>7, LaunchFrom
  <2> QED
    BY Zenon, <1>4, <2>1
<1>9. /\ RequestsTypeOK' /\ launches(b, k) /\ rq'.requests = requests /\ rq'.discards = discards /\ rq'.batch = rq.batch
      /\ rq'.deadlockQueue = rq.deadlockQueue /\ rq'.kvios[k].hasDiscardPermit = (isDiscardBio(b) /\ has)
  <2>1. RequestsTypeOK
    BY Zenon, <1>0
  <2> QED
    BY <1>1, <1>5, <1>6, <1>8, <2>1, LaunchAlone
<1>10. Held' = Held /\ Cleaning' = Cleaning /\ Owed' = Owed /\ Held \in Nat
  BY Zenon, <1>0, <1>9, CountsAreNumbers DEF Held, Cleaning, Owed, counted
<1>11. /\ rq'.requests.active - Held' = rq.requests.active - Held + 1 /\ rq'.requests.active <= rq.requests.limit
       /\ rq'.requests.active >= rq.requests.active
  BY <1>1, <1>5, <1>9, <1>10
<1>12. b \notin Holding
  BY Zenon DEF Holding
<1>13. /\ rq'.discards.active = rq.discards.active + (IF rq'.kvios[k].hasDiscardPermit THEN 1 ELSE 0) - (IF b \in Holding THEN 1 ELSE 0)
       /\ rq'.discards.active >= rq.discards.active
  <2>1. rq'.kvios[k].hasDiscardPermit <=> has
    BY Zenon, <1>6, <1>6a, <1>9
  <2>2. CASE has
    BY <1>6, <1>9, <1>12, <2>1, <2>2
  <2>3. CASE ~has
    BY <1>6, <1>9, <1>12, <2>1, <2>3
  <2> QED
    BY Zenon, <2>2, <2>3
<1>14. Batched'
  BY Zenon, <1>0, <1>9, FrameBatched
<1>15. Deadlocked'
  <2>1. \A p \in 1 .. Len(rq.deadlockQueue) : rq.deadlockQueue[p] \in Bios /\ rq'.pcs[rq.deadlockQueue[p]] = "deadlocked"
    BY <1>0, <1>9 DEF Deadlocked, launches
  <2>2. rq.deadlockQueue # <<>> => rq.overtaken
    BY <1>0, <1>1 DEF Deadlocked
  <2> QED
    BY <1>0, <1>9, <2>1, <2>2 DEF Deadlocked, launches
<1> QED
  BY Zenon, <1>9, <1>10, <1>11, <1>13, <1>14, <1>15, LaunchStep

countingDown(i, n) == [rq.batch EXCEPT !.runs = [@ EXCEPT ![i].count = n]]

(* A batch gives up a permit.                                              *)
LEMMA CountedDown ==
  ASSUME RequestsTypeOK, NEW i \in Runs, NEW n \in Nat, NEW batch, batch = countingDown(i, n)
  PROVE  /\ batch \in Batch /\ batch.queue = rq.batch.queue /\ batch.state = rq.batch.state /\ batch.lock = rq.batch.lock
         /\ batch.schedulers = rq.batch.schedulers
         /\ \A j \in Runs : batch.runs[j].pc = rq.batch.runs[j].pc
         /\ batch.runs[i].count = n /\ \A j \in Runs : j # i => batch.runs[j] = rq.batch.runs[j]
<1> DEFINE runs == [rq.batch.runs EXCEPT ![i].count = n]
<1>1. rq.batch \in Batch
  BY Zenon, MapPieces
<1>2. /\ runs \in [Runs -> Run] /\ runs[i].count = n /\ \A j \in Runs : runs[j].pc = rq.batch.runs[j].pc
      /\ \A j \in Runs : j # i => runs[j] = rq.batch.runs[j]
  BY <1>1, Zenon DEF Batch, Run
<1>3. batch = [rq.batch EXCEPT !.runs = runs]
  BY Zenon DEF countingDown
<1> HIDE DEF runs
<1>4. /\ batch \in Batch /\ batch.queue = rq.batch.queue /\ batch.state = rq.batch.state /\ batch.lock = rq.batch.lock
      /\ batch.schedulers = rq.batch.schedulers /\ batch.runs = runs
  BY Zenon, <1>1, <1>2, <1>3 DEF Batch
<1> QED
  BY Zenon, <1>2, <1>4

(* A bio of the deadlock queue is launched with the permit of a completed  *)
(* request.                                                                *)
LEMMA LaunchQueuedRInv ==
  ASSUME RInv, NEW i \in Runs, LaunchQueued(i)
  PROVE  RInv'
<1>0. RequestsTypeOK /\ Permits /\ Discards /\ Deadlocked /\ Batched
  BY Zenon DEF RInv
<1> DEFINE q == rq.deadlockQueue
           b == Head(q)
           tail == Tail(q)
           n == rq.batch.runs[i].count - 1
           has == hasPolled(b)
           discards == polled(b)
           batch == countingDown(i, n)
           r == prepared(rq.requests, discards, batch, tail)
<1>1. rq.batch.runs[i].pc = "complete" /\ rq.batch.runs[i].count > 0 /\ q # <<>>
  BY Zenon DEF LaunchQueued
<1>2. /\ rq.requests \in Limiter /\ rq.batch \in Batch /\ q \in Seq(Nat)
      /\ rq.requests.active \in Int /\ rq.requests.limit \in Nat /\ rq.requests.active <= rq.requests.limit
  BY Zenon, <1>0, MapPieces DEF Limiter, Permits
<1>3. /\ tail \in Seq(Nat) /\ Len(tail) = Len(q) - 1 /\ Len(q) \in Nat /\ Len(q) > 0 /\ b = q[1]
      /\ \A p \in 1 .. Len(tail) : p + 1 \in 1 .. Len(q) /\ tail[p] = q[p + 1]
  <2>1. q \in Seq(Nat) /\ q # <<>>
    BY Zenon, <1>1, <1>2
  <2> HIDE DEF q
  <2> QED
    BY <2>1
<1>4. b \in Bios /\ rq.pcs[b] = "deadlocked"
  BY <1>0, <1>3 DEF Deadlocked
<1>5. rq.batch.runs[i].count \in Nat /\ n \in Nat /\ n + 1 = rq.batch.runs[i].count
  <2>1. rq.batch.runs[i].count \in Nat
    BY Zenon, <1>2 DEF Batch, Run
  <2> QED
    BY <1>1, <2>1
<1>6. freeKVIOs(rq) # {}
  BY Zenon, <1>0, <1>1, ADataKVIOIsFree
<1>7. r = [rq EXCEPT !.deadlockQueue = Tail(@), !.batch.runs[i].count = @ - 1,
                     !.discards = IF isDiscardBio(b) THEN limiterPoll(@) ELSE @]
  <2>1. [rq.batch EXCEPT !.runs[i].count = @ - 1] = batch
    <3>1. batch = [rq.batch EXCEPT !.runs = [@ EXCEPT ![i].count = rq.batch.runs[i].count - 1]]
      BY Zenon DEF countingDown
    <3> QED
      BY Zenon, <1>2, <3>1 DEF Batch
  <2>2. [rq EXCEPT !.deadlockQueue = Tail(@), !.batch.runs[i].count = @ - 1, !.discards = IF isDiscardBio(b) THEN limiterPoll(@) ELSE @]
          = [rq EXCEPT !.deadlockQueue = tail, !.batch = [rq.batch EXCEPT !.runs[i].count = @ - 1], !.discards = discards]
    <3> HIDE DEF b
    <3> QED
      BY Zenon, <1>0, MapPieces DEF polled
  <2> HIDE DEF batch, tail, discards, b
  <2>3. [rq EXCEPT !.deadlockQueue = tail, !.batch = batch, !.discards = discards] = r
    BY <1>0, MapPieces, Zenon DEF prepared
  <2> QED
    BY <2>1, <2>2, <2>3, Zenon
<1>8. rq' = kvdoLaunchDataKVIOFromBio(r, b, has)
  <2> HIDE DEF r
  <2> QED
    BY <1>7, Zenon DEF LaunchQueued, hasPolled
<1>9. /\ discards \in Limiter /\ discards.limit = rq.discards.limit /\ discards.waiterQueue = rq.discards.waiterQueue
      /\ has \in BOOLEAN /\ discards.active = rq.discards.active + (IF has THEN 1 ELSE 0) /\ rq.discards.active \in Int
  BY Zenon, <1>0, <1>4, PolledDiscards
<1>10. has => isDiscardBio(b)
  BY Zenon DEF hasPolled
<1>11. /\ batch \in Batch /\ batch.queue = rq.batch.queue /\ batch.state = rq.batch.state /\ batch.lock = rq.batch.lock
       /\ batch.schedulers = rq.batch.schedulers
       /\ \A j \in Runs : batch.runs[j].pc = rq.batch.runs[j].pc
       /\ batch.runs[i].count = n /\ \A j \in Runs : j # i => batch.runs[j] = rq.batch.runs[j]
  <2>1. RequestsTypeOK /\ batch = countingDown(i, n)
    BY Zenon, <1>0
  <2> HIDE DEF batch, n
  <2> QED
    BY <1>5, <2>1, CountedDown
<1>12. r = prepared(rq.requests, discards, batch, tail)
  BY Zenon
<1> HIDE DEF has, discards, batch, tail, r, b, n
<1>13. PICK k \in KVIOs :
        /\ rq.kvios[k].pc = "free"
        /\ rq' = mapped(rq.requests, discards, kviosWith(k, launched(b, has)), batch, tail, pcsWith(b, "launched"), rq.overtaken)
  <2>1. \E k \in KVIOs :
          /\ rq.kvios[k].pc = "free"
          /\ kvdoLaunchDataKVIOFromBio(r, b, has) =
               mapped(rq.requests, discards, kviosWith(k, launched(b, has)), batch, tail, pcsWith(b, "launched"), rq.overtaken)
    BY <1>0, <1>4, <1>6, <1>12, LaunchFrom
  <2> QED
    BY Zenon, <1>8, <2>1
<1>14. /\ RequestsTypeOK' /\ launches(b, k) /\ rq'.requests = rq.requests /\ rq'.discards = discards /\ rq'.batch = batch
       /\ rq'.deadlockQueue = tail /\ rq'.kvios[k].hasDiscardPermit = (isDiscardBio(b) /\ has)
  <2>1. RequestsTypeOK
    BY Zenon, <1>0
  <2> QED
    BY <1>2, <1>3, <1>4, <1>9, <1>11, <1>13, <2>1, LaunchAlone
<1>15. Held' = Held - 1 /\ Cleaning' = Cleaning /\ Owed' = Owed /\ Held \in Nat /\ Held' \in Nat
  <2>1. /\ counted(i, CountingPCs \ {"wake"}) = n + 1 /\ counted(i, CountingPCs \ {"wake"})' = n
        /\ counted(i, {"wake"}) = 0 /\ counted(i, {"wake"})' = 0
        /\ counted(i, {"loop", "resched"}) = 0 /\ counted(i, {"loop", "resched"})' = 0
    BY Zenon, <1>1, <1>5, <1>11, <1>14 DEF counted, CountingPCs
  <2>2. rq'.batch \in Batch /\ \A j \in Runs : j # i => rq'.batch.runs[j] = rq.batch.runs[j]
    BY Zenon, <1>11, <1>14
  <2>3. Held \in Nat /\ Held' = Held + n - (n + 1)
    BY <1>2, <2>1, <2>2, CountsChange DEF Held
  <2>4. Cleaning \in Nat /\ Cleaning' = Cleaning + 0 - 0
    BY <1>2, <2>1, <2>2, CountsChange DEF Cleaning
  <2>5. Owed \in Nat /\ Owed' = Owed + 0 - 0
    BY Zenon, <1>2, <2>1, <2>2, CountsChange DEF Owed
  <2>6. Held' \in Nat
    <3>1. \A j \in Runs : counted(j, CountingPCs \ {"wake"})' \in Nat
      BY Zenon, <2>2 DEF counted, Batch, Run
    <3> QED
      BY <3>1 DEF Held, Runs
  <2> QED
    BY <1>5, <2>3, <2>4, <2>5, <2>6
<1>16. /\ rq'.requests.active - Held' = rq.requests.active - Held + 1 /\ rq'.requests.active = rq.requests.active
  BY <1>2, <1>14, <1>15
<1>17. b \notin Holding
  BY Zenon, <1>4 DEF Holding
<1>18. /\ rq'.discards.active = rq.discards.active + (IF rq'.kvios[k].hasDiscardPermit THEN 1 ELSE 0) - (IF b \in Holding THEN 1 ELSE 0)
       /\ rq'.discards.active >= rq.discards.active
  <2>1. rq'.kvios[k].hasDiscardPermit <=> has
    BY Zenon, <1>9, <1>10, <1>14
  <2>2. CASE has
    BY <1>9, <1>14, <1>17, <2>1, <2>2
  <2>3. CASE ~has
    BY <1>9, <1>14, <1>17, <2>1, <2>3
  <2> QED
    BY Zenon, <2>2, <2>3
<1>19. Batched'
  <2>1. \A j \in Runs : batch.runs[j].count > 0 => rq.batch.runs[j].count > 0
    BY Zenon, <1>1, <1>11
  <2> QED
    BY <1>0, <1>11, <1>14, <2>1 DEF Batched
<1>20. Deadlocked'
  <2>0. /\ \A p \in 1 .. Len(q) : q[p] \in Bios /\ rq.pcs[q[p]] = "deadlocked"
        /\ \A p, s \in 1 .. Len(q) : q[p] = q[s] => p = s
    BY Zenon, <1>0 DEF Deadlocked
  <2> HIDE DEF q
  <2>1. \A p \in 1 .. Len(tail) : tail[p] \in Bios /\ tail[p] # b /\ rq.pcs[tail[p]] = "deadlocked"
    <3>1. ASSUME NEW p \in 1 .. Len(tail) PROVE tail[p] \in Bios /\ tail[p] # b /\ rq.pcs[tail[p]] = "deadlocked"
      <4>1. p + 1 \in 1 .. Len(q) /\ 1 \in 1 .. Len(q) /\ p + 1 # 1 /\ tail[p] = q[p + 1] /\ b = q[1]
        BY <1>3
      <4> QED
        BY Zenon, <2>0, <4>1
    <3> QED
      BY Zenon, <3>1
  <2>2. \A p \in 1 .. Len(tail) : tail[p] \in Bios /\ rq'.pcs[tail[p]] = "deadlocked"
    BY Zenon, <1>14, <2>1 DEF launches
  <2>3. \A p, s \in 1 .. Len(tail) : tail[p] = tail[s] => p = s
    <3>1. \A p, s \in 1 .. Len(tail) : p \in Int /\ s \in Int /\ (p + 1 = s + 1 => p = s)
      OBVIOUS
    <3> QED
      BY <1>3, <2>0, <3>1
  <2>4. rq.overtaken \/ rq.requests.active = rq.requests.limit
    BY Zenon, <1>0, <1>1 DEF Deadlocked, q
  <2> QED
    BY Zenon, <1>14, <1>16, <2>2, <2>3, <2>4 DEF Deadlocked, launches
<1> QED
  BY <1>2, <1>4, <1>14, <1>15, <1>16, <1>18, <1>19, <1>20, LaunchStep

-----------------------------------------------------------------------------
(* Waiting until no request is active                                      *)

turned(kvios, waiters, compressing, wanted, messages, overlapped, overwritten) ==
  [rq EXCEPT !.kvios = kvios, !.waiters = waiters, !.compressing = compressing, !.wanted = wanted, !.messages = messages,
             !.overlapped = overlapped, !.overwritten = overwritten]

limitersAreSame ==
  /\ rq'.requests = rq.requests /\ rq'.discards = rq.discards /\ rq'.batch = rq.batch /\ rq'.deadlockQueue = rq.deadlockQueue
  /\ rq'.bios = rq.bios /\ rq'.pcs = rq.pcs /\ rq'.acked = rq.acked /\ rq'.overtaken = rq.overtaken
  /\ rq'.stranded = rq.stranded /\ rq'.asserts = rq.asserts

(* The pieces of the state which such a step changes have their types.     *)
LEMMA WaitPieces ==
  ASSUME RequestsTypeOK
  PROVE  /\ rq.kvios \in [KVIOs -> KVIO] /\ rq.waiters \in Seq(Waiter) /\ rq.compressing \in BOOLEAN /\ rq.wanted \in BOOLEAN
         /\ rq.messages \in Int /\ rq.overlapped \in BOOLEAN /\ rq.overwritten \in BOOLEAN
         /\ rq \in [DOMAIN rq -> {rq[x] : x \in DOMAIN rq}]
         /\ {"kvios", "waiters", "compressing", "wanted", "messages", "overlapped", "overwritten"} \subseteq DOMAIN rq
  BY Zenon DEF RequestsTypeOK

(* What such a step changes.                                               *)
LEMMA WaitAlone ==
  ASSUME RequestsTypeOK, NEW kvios \in [KVIOs -> KVIO], NEW waiters \in Seq(Waiter), NEW compressing \in BOOLEAN,
         NEW wanted \in BOOLEAN, NEW messages \in Int, NEW overlapped \in BOOLEAN, NEW overwritten \in BOOLEAN,
         rq' = turned(kvios, waiters, compressing, wanted, messages, overlapped, overwritten)
  PROVE  /\ RequestsTypeOK' /\ limitersAreSame /\ rq'.kvios = kvios /\ rq'.waiters = waiters /\ rq'.compressing = compressing
         /\ rq'.wanted = wanted /\ rq'.overlapped = overlapped /\ rq'.overwritten = overwritten /\ KVIOs' = KVIOs
<1>1. /\ limitersAreSame /\ rq'.kvios = kvios /\ rq'.waiters = waiters /\ rq'.compressing = compressing
      /\ rq'.wanted = wanted /\ rq'.overlapped = overlapped /\ rq'.overwritten = overwritten
  BY Zenon DEF RequestsTypeOK, limitersAreSame, turned
<1>2. Bios' = Bios /\ KVIOs' = KVIOs
  BY Zenon, <1>1 DEF KVIOs, Bios, limitersAreSame, RequestsTypeOK
<1>3. RequestsTypeOK'
  <2>1. rq' \in [requests : Limiter, discards : Limiter, kvios : [KVIOs -> KVIO], batch : Batch, deadlockQueue : Seq(Nat),
                 bios : Seq(Bio), pcs : [Bios -> BioPCs], acked : [Bios -> Nat], waiters : Seq(Waiter),
                 compressing : BOOLEAN, wanted : BOOLEAN, limits : SUBSET Nat, faults : Int, messages : Int,
                 overtaken : BOOLEAN, overlapped : BOOLEAN, overwritten : BOOLEAN, stranded : BOOLEAN,
                 asserts : SUBSET STRING]
    <3> DEFINE Flag == BOOLEAN
               Texts == SUBSET STRING
               Values == SUBSET Nat
    <3>1. rq \in [requests : Limiter, discards : Limiter, kvios : [KVIOs -> KVIO], batch : Batch, deadlockQueue : Seq(Nat),
                  bios : Seq(Bio), pcs : [Bios -> BioPCs], acked : [Bios -> Nat], waiters : Seq(Waiter),
                  compressing : Flag, wanted : Flag, limits : Values, faults : Int, messages : Int,
                  overtaken : Flag, overlapped : Flag, overwritten : Flag, stranded : Flag,
                  asserts : Texts]
      BY Zenon DEF RequestsTypeOK
    <3>2. compressing \in Flag /\ wanted \in Flag /\ overlapped \in Flag /\ overwritten \in Flag
      BY Zenon
    <3> HIDE DEF Flag, Texts, Values
    <3>3. rq' \in [requests : Limiter, discards : Limiter, kvios : [KVIOs -> KVIO], batch : Batch, deadlockQueue : Seq(Nat),
                   bios : Seq(Bio), pcs : [Bios -> BioPCs], acked : [Bios -> Nat], waiters : Seq(Waiter),
                   compressing : Flag, wanted : Flag, limits : Values, faults : Int, messages : Int,
                   overtaken : Flag, overlapped : Flag, overwritten : Flag, stranded : Flag,
                   asserts : Texts]
      BY <3>1, <3>2, Zenon DEF turned
    <3> QED
      BY Zenon, <3>3 DEF Flag, Texts, Values
  <2>2. KVIOs = 1 .. rq'.requests.limit /\ rq'.requests.limit > 0
    BY Zenon, <1>1 DEF RequestsTypeOK, limitersAreSame
  <2> QED
    BY Zenon, <1>2, <2>1, <2>2 DEF RequestsTypeOK
<1> QED
  BY Zenon, <1>1, <1>2, <1>3

(* Nothing but who is in the packer.                                       *)
unpacks ==
  \A k \in KVIOs :
    \/ rq'.kvios[k] = rq.kvios[k]
    \/ /\ rq.kvios[k].pc = "packed" /\ rq'.kvios[k].pc = "vdo" /\ rq'.kvios[k].bio = rq.kvios[k].bio
       /\ rq'.kvios[k].hasDiscardPermit = rq.kvios[k].hasDiscardPermit

(* What has to be known of such a step.                                    *)
LEMMA WaitStep ==
  ASSUME RInv, RequestsTypeOK', limitersAreSame, KVIOs' = KVIOs, unpacks, Waiters' = Waiters, rq.overlapped => rq'.overlapped,
         Compression', Sleeping'
  PROVE  RInv'
<1>0. RequestsTypeOK /\ Permits /\ Discards /\ Acknowledged /\ Queued /\ Wakeups
  BY Zenon DEF RInv
<1>1. \A k \in KVIOs : /\ rq'.kvios[k].bio = rq.kvios[k].bio
                       /\ (rq'.kvios[k].pc = "free" <=> rq.kvios[k].pc = "free")
                       /\ (rq'.kvios[k].pc = "queued" <=> rq.kvios[k].pc = "queued")
                       /\ (rq'.kvios[k].pc = "cleaned" <=> rq.kvios[k].pc = "cleaned")
  BY Zenon DEF unpacks
<1>2. Queued'
  BY <1>0, <1>1 DEF Queued, limitersAreSame
<1>3. Permits'
  <2>1. Launching' = Launching
    BY Zenon DEF Launching, Bios, limitersAreSame
  <2>2. Used' = Used /\ cleaned(rq)' = cleaned(rq)
    BY Zenon, <1>1 DEF Used, cleaned, KVIOs
  <2> QED
    BY Zenon, <1>0, <2>1, <2>2, FramePermits DEF limitersAreSame
<1>4. Discards'
  <2>1. \A k \in KVIOs : rq.kvios[k].pc = "packed" => ~rq.kvios[k].hasDiscardPermit
    BY Zenon, <1>0 DEF Discards
  <2>2. \A k \in KVIOs : rq'.kvios[k].hasDiscardPermit = rq.kvios[k].hasDiscardPermit
    BY Zenon DEF unpacks
  <2>3. WithPermit' = WithPermit /\ Holding' = Holding /\ Bios' = Bios
    BY Zenon, <2>2 DEF WithPermit, Holding, Bios, isDiscardBio, limitersAreSame
  <2>4. \A k \in KVIOs : rq'.kvios[k].hasDiscardPermit => rq'.kvios[k].remainingDiscard > 0 /\ rq'.kvios[k].pc \in {"vdo", "acknowledge"}
    BY Zenon, <1>0, <2>1 DEF Discards, unpacks
  <2> QED
    BY Zenon, <1>0, <2>3, <2>4 DEF Discards, isDiscardBio, limitersAreSame
<1>5. Acknowledged'
  BY <1>0, <1>1 DEF Acknowledged, Bios, limitersAreSame
<1>6. NoAssertionFails' /\ Batched' /\ Deadlocked' /\ WaitingDiscards'
  BY Zenon, FrameBatched, FrameDeadlocked, FrameWaitingDiscards DEF RInv, NoAssertionFails, limitersAreSame
<1>7. Wakeups'
  <2>1. Awake' = Awake
    BY Zenon DEF Awake, Bios, isAsleep, limitersAreSame
  <2>2. Ahead' = Ahead /\ Sleepers' = Sleepers /\ Bios' = Bios
    BY DEF Ahead, Sleepers, sleeper, Bios, limitersAreSame
  <2>3. Owed' = Owed
    BY Zenon DEF Owed, counted, limitersAreSame
  <2> QED
    BY Zenon, <1>0, <2>1, <2>2, <2>3 DEF Wakeups, Spared, sleeper, limitersAreSame
<1> QED
  BY Zenon, <1>2, <1>3, <1>4, <1>5, <1>6, <1>7 DEF RInv

waitersWith(i, w) == [rq.waiters EXCEPT ![i] = w]

(* A thread which goes on.                                                 *)
LEMMA WaiterGoesOn ==
  ASSUME RequestsTypeOK, NEW i \in Waiters, NEW w \in Waiter
  PROVE  /\ waitersWith(i, w) \in Seq(Waiter) /\ DOMAIN waitersWith(i, w) = Waiters
         /\ \A j \in Waiters : waitersWith(i, w)[j] = (IF j = i THEN w ELSE rq.waiters[j])
<1> DEFINE s == rq.waiters
<1>1. s \in Seq(Waiter) /\ i \in DOMAIN s
  BY Zenon DEF RequestsTypeOK, Waiters
<1> HIDE DEF s
<1>2. /\ [s EXCEPT ![i] = w] \in Seq(Waiter) /\ DOMAIN [s EXCEPT ![i] = w] = DOMAIN s
      /\ \A j \in DOMAIN s : [s EXCEPT ![i] = w][j] = (IF j = i THEN w ELSE s[j])
  BY <1>1
<1> QED
  BY Zenon, <1>2 DEF s, waitersWith, Waiters

(* Those who sleep still wait, if the one who goes on is not asleep.       *)
LEMMA SleepingGoesOn ==
  ASSUME RequestsTypeOK, Sleeping, limitersAreSame, Waiters' = Waiters, NEW i \in Waiters, ~isAsleep(rq.requests, waiterThread(i)),
         \A j \in Waiters : j # i => rq'.waiters[j] = rq.waiters[j]
  PROVE  Sleeping'
<1>1. \A p \in Sleepers : sleeper(p) # waiterThread(i)
  BY DEF isAsleep, inQueue, Sleepers, sleeper
<1>2. Sleepers' = Sleepers /\ (\A p : sleeper(p)' = sleeper(p)) /\ Bios' = Bios /\ rq'.pcs = rq.pcs
  BY Zenon DEF Sleepers, sleeper, Bios, limitersAreSame
<1>3. \A p \in Sleepers : \/ sleeper(p) \in Bios /\ rq.pcs[sleeper(p)] = "wantRequest"
                          \/ \E j \in Waiters : sleeper(p) = waiterThread(j) /\ rq'.waiters[j].pc = "wait"
  BY Zenon, <1>1 DEF Sleeping
<1> QED
  BY Zenon, <1>2, <1>3 DEF Sleeping

(* Who is not waiting is not asleep.                                       *)
LEMMA OnlyWaitersSleep ==
  ASSUME RequestsTypeOK, Sleeping, NEW i \in Waiters, rq.waiters[i].pc # "wait"
  PROVE  ~isAsleep(rq.requests, waiterThread(i))
<1>1. \A j \in Waiters : waiterThread(i) = waiterThread(j) => i = j
  BY FinitelyMany DEF waiterThread
<1>2. waiterThread(i) \notin Bios
  BY FinitelyMany DEF waiterThread
<1> QED
  BY <1>1, <1>2 DEF Sleeping, Sleepers, sleeper, isAsleep, inQueue

unpacked(enable) ==
  [k \in KVIOs |-> IF ~enable /\ rq.kvios[k].pc = "packed" THEN [rq.kvios[k] EXCEPT !.pc = "vdo"] ELSE rq.kvios[k]]

emptied(enable, kvios) ==
  /\ \A k \in KVIOs :
       \/ kvios[k] = rq.kvios[k]
       \/ /\ rq.kvios[k].pc = "packed" /\ kvios[k].pc = "vdo" /\ kvios[k].bio = rq.kvios[k].bio
          /\ kvios[k].hasDiscardPermit = rq.kvios[k].hasDiscardPermit
  /\ ~enable => \A k \in KVIOs : kvios[k].pc # "packed"

(* setKVDOCompressing() empties the packer if it turns compression off.    *)
LEMMA Unpacked ==
  ASSUME RequestsTypeOK, NEW enable \in BOOLEAN
  PROVE  /\ unpacked(enable) \in [KVIOs -> KVIO] /\ emptied(enable, unpacked(enable))
         /\ setKVDOCompressing(rq, enable) = [rq EXCEPT !.compressing = enable, !.kvios = unpacked(enable)]
<1>1. rq.kvios \in [KVIOs -> KVIO]
  BY Zenon, MapPieces
<1>2. \A k \in KVIOs : [rq.kvios[k] EXCEPT !.pc = "vdo"] \in KVIO
  BY Zenon, <1>1 DEF KVIO, KVIOPCs
<1>3. unpacked(enable) \in [KVIOs -> KVIO]
  BY Zenon, <1>1, <1>2 DEF unpacked
<1>4. emptied(enable, unpacked(enable))
  BY Zenon, <1>1 DEF unpacked, emptied, KVIO
<1>5. setKVDOCompressing(rq, enable) = [rq EXCEPT !.compressing = enable, !.kvios = unpacked(enable)]
  BY Zenon DEF setKVDOCompressing, unpacked, KVIOs
<1> QED
  BY Zenon, <1>3, <1>4, <1>5

(* A step of a thread which waits, but for what it says of compression.    *)
LEMMA WaiterStep ==
  ASSUME RInv, NEW i \in Waiters, ~isAsleep(rq.requests, waiterThread(i)), NEW w \in Waiter, NEW compressing \in BOOLEAN,
         NEW kvios \in [KVIOs -> KVIO], emptied(compressing, kvios), NEW overlapped \in BOOLEAN, rq.overlapped => overlapped,
         rq' = turned(kvios, waitersWith(i, w), compressing, rq.wanted, rq.messages, overlapped, rq.overwritten)
  PROVE  /\ RequestsTypeOK' /\ rq'.compressing = compressing /\ rq'.wanted = rq.wanted /\ rq'.overlapped = overlapped
         /\ rq'.overwritten = rq.overwritten /\ Waiters' = Waiters
         /\ \A j \in Waiters : rq'.waiters[j] = (IF j = i THEN w ELSE rq.waiters[j])
         /\ ~compressing => \A k \in KVIOs' : rq'.kvios[k].pc # "packed"
         /\ Compression' => RInv'
<1>0. RequestsTypeOK /\ Sleeping
  BY Zenon DEF RInv
<1> DEFINE waiters == waitersWith(i, w)
<1>1. waiters \in Seq(Waiter) /\ DOMAIN waiters = Waiters /\ \A j \in Waiters : waiters[j] = (IF j = i THEN w ELSE rq.waiters[j])
  BY Zenon, <1>0, WaiterGoesOn
<1>2. rq.wanted \in BOOLEAN /\ rq.messages \in Int /\ rq.overwritten \in BOOLEAN
  BY Zenon, <1>0, WaitPieces
<1>3. rq' = turned(kvios, waiters, compressing, rq.wanted, rq.messages, overlapped, rq.overwritten)
  BY Zenon
<1> HIDE DEF waiters
<1>4. /\ RequestsTypeOK' /\ limitersAreSame /\ rq'.kvios = kvios /\ rq'.waiters = waiters /\ rq'.compressing = compressing
      /\ rq'.wanted = rq.wanted /\ rq'.overlapped = overlapped /\ rq'.overwritten = rq.overwritten /\ KVIOs' = KVIOs
  BY <1>0, <1>1, <1>2, <1>3, WaitAlone
<1>5. Waiters' = Waiters
  BY Zenon, <1>1, <1>4 DEF Waiters
<1>6. \A j \in Waiters : rq'.waiters[j] = (IF j = i THEN w ELSE rq.waiters[j])
  BY Zenon, <1>1, <1>4
<1>7. unpacks
  BY Zenon, <1>4 DEF unpacks, emptied
<1>8. ~compressing => \A k \in KVIOs' : rq'.kvios[k].pc # "packed"
  BY Zenon, <1>4 DEF emptied
<1>9. Sleeping'
  BY Zenon, <1>0, <1>4, <1>5, <1>6, SleepingGoesOn
<1>10. rq.overlapped => rq'.overlapped
  BY Zenon, <1>4
<1>11. Compression' => RInv'
  BY Zenon, <1>4, <1>5, <1>7, <1>9, <1>10, WaitStep
<1> QED
  BY Zenon, <1>4, <1>5, <1>6, <1>8, <1>11

(* A thread which starts to wait, or is done with it, but restores.        *)
LEMMA StillWaitingRInv ==
  ASSUME RInv, NEW i \in Waiters, ~isAsleep(rq.requests, waiterThread(i)), NEW pc \in WaiterPCs,
         rq.waiters[i].pc \in {"wait", "restore"} <=> pc \in {"wait", "restore"},
         rq' = [rq EXCEPT !.waiters[i].pc = pc]
  PROVE  RInv'
<1>0. RequestsTypeOK /\ Compression
  BY Zenon DEF RInv
<1> DEFINE w == [rq.waiters[i] EXCEPT !.pc = pc]
<1>1. rq.waiters[i] \in Waiter
  <2> DEFINE s == rq.waiters
  <2>1. s \in Seq(Waiter) /\ i \in DOMAIN s
    BY Zenon, <1>0 DEF RequestsTypeOK, Waiters
  <2> HIDE DEF s
  <2>2. s[i] \in Waiter
    BY <2>1
  <2> QED
    BY Zenon, <2>2 DEF s
<1>2. w \in Waiter /\ w.pc = pc /\ w.wasCompressing = rq.waiters[i].wasCompressing
  BY Zenon, <1>1 DEF Waiter
<1>3. rq' = turned(rq.kvios, waitersWith(i, w), rq.compressing, rq.wanted, rq.messages, rq.overlapped, rq.overwritten)
  <2>1. rq' = [rq EXCEPT !.waiters = waitersWith(i, w)]
    BY Zenon, <1>0, WaitPieces DEF waitersWith
  <2> HIDE DEF w
  <2> QED
    BY <1>0, <2>1, WaitPieces, Zenon DEF turned
<1> HIDE DEF w
<1>4. emptied(rq.compressing, rq.kvios)
  BY Zenon, <1>0 DEF emptied, Compression
<1>5. rq.compressing \in BOOLEAN /\ rq.overlapped \in BOOLEAN /\ rq.kvios \in [KVIOs -> KVIO]
  BY Zenon, <1>0, WaitPieces
<1>6. /\ RequestsTypeOK' /\ rq'.compressing = rq.compressing /\ rq'.wanted = rq.wanted /\ rq'.overlapped = rq.overlapped
      /\ rq'.overwritten = rq.overwritten /\ Waiters' = Waiters
      /\ \A j \in Waiters : rq'.waiters[j] = (IF j = i THEN w ELSE rq.waiters[j])
      /\ ~rq.compressing => \A k \in KVIOs' : rq'.kvios[k].pc # "packed"
      /\ Compression' => RInv'
  BY <1>2, <1>3, <1>4, <1>5, WaiterStep
<1>7. \A j \in Waiters : isWaiting(rq, j)' <=> isWaiting(rq, j)
  BY Zenon, <1>2, <1>6 DEF isWaiting
<1>8. Restoring' = Restoring
  BY <1>2, <1>6, <1>7 DEF Restoring
<1>9. Compression'
  BY Zenon, <1>0, <1>6, <1>7, <1>8 DEF Compression
<1> QED
  BY Zenon, <1>6, <1>9

(* waitForNoRequestsActive() turns compression off.                        *)
LEMMA TurnOffRInv ==
  ASSUME RInv, NEW i \in Waiters, rq.waiters[i].pc = "turnOff",
         rq' = [setKVDOCompressing(rq, FALSE) EXCEPT !.waiters[i] = [pc |-> "wait", wasCompressing |-> rq.compressing],
                  !.overlapped = @ \/ \E j \in Waiters : isWaiting(rq, j)]
  PROVE  RInv'
<1>0. RequestsTypeOK /\ Compression /\ Sleeping
  BY Zenon DEF RInv
<1> DEFINE w == [pc |-> "wait", wasCompressing |-> rq.compressing]
           overlapped == rq.overlapped \/ \E j \in Waiters : isWaiting(rq, j)
           kvios == unpacked(FALSE)
<1>1. w \in Waiter /\ w.pc = "wait" /\ w.wasCompressing = rq.compressing
  BY Zenon, <1>0, WaitPieces DEF Waiter, WaiterPCs
<1>2. overlapped \in BOOLEAN /\ (rq.overlapped => overlapped) /\ (overlapped <=> rq.overlapped \/ \E j \in Waiters : isWaiting(rq, j))
  BY Zenon, <1>0, WaitPieces
<1>3. kvios \in [KVIOs -> KVIO] /\ emptied(FALSE, kvios) /\ setKVDOCompressing(rq, FALSE) = [rq EXCEPT !.compressing = FALSE, !.kvios = kvios]
  BY <1>0, Unpacked, Zenon
<1>4. rq' = turned(kvios, waitersWith(i, w), FALSE, rq.wanted, rq.messages, overlapped, rq.overwritten)
  <2> HIDE DEF kvios, w
  <2>1. rq' = [[rq EXCEPT !.compressing = FALSE, !.kvios = kvios] EXCEPT !.waiters[i] = w, !.overlapped = @ \/ \E j \in Waiters : isWaiting(rq, j)]
    BY <1>3, Zenon DEF w
  <2>2. rq' = [rq EXCEPT !.compressing = FALSE, !.kvios = kvios, !.waiters = waitersWith(i, w), !.overlapped = overlapped]
    BY Zenon, <1>0, <2>1, WaitPieces DEF waitersWith
  <2> HIDE DEF overlapped
  <2> QED
    BY <1>0, <2>2, WaitPieces, Zenon DEF turned
<1> HIDE DEF w, overlapped, kvios
<1>5. ~isAsleep(rq.requests, waiterThread(i))
  BY Zenon, <1>0, OnlyWaitersSleep
<1>6. /\ RequestsTypeOK' /\ rq'.compressing = FALSE /\ rq'.wanted = rq.wanted /\ rq'.overlapped = overlapped
      /\ rq'.overwritten = rq.overwritten /\ Waiters' = Waiters
      /\ \A j \in Waiters : rq'.waiters[j] = (IF j = i THEN w ELSE rq.waiters[j])
      /\ \A k \in KVIOs' : rq'.kvios[k].pc # "packed"
      /\ Compression' => RInv'
  <2> DEFINE off == FALSE
  <2>1. off \in BOOLEAN /\ ~off /\ emptied(off, kvios)
        /\ rq' = turned(kvios, waitersWith(i, w), off, rq.wanted, rq.messages, overlapped, rq.overwritten)
    BY <1>3, <1>4, ZenonT(30)
  <2> HIDE DEF off
  <2>2. /\ RequestsTypeOK' /\ rq'.compressing = off /\ rq'.wanted = rq.wanted /\ rq'.overlapped = overlapped
        /\ rq'.overwritten = rq.overwritten /\ Waiters' = Waiters
        /\ \A j \in Waiters : rq'.waiters[j] = (IF j = i THEN w ELSE rq.waiters[j])
        /\ ~off => \A k \in KVIOs' : rq'.kvios[k].pc # "packed"
        /\ Compression' => RInv'
    <3>1. w \in Waiter /\ kvios \in [KVIOs -> KVIO] /\ overlapped \in BOOLEAN /\ (rq.overlapped => overlapped)
      BY Zenon, <1>1, <1>2, <1>3
    <3> QED
      BY ONLY RInv, i \in Waiters, <1>5, <2>1, <3>1, WaiterStep
  <2> QED
    BY <2>1, <2>2, Zenon DEF off
<1>7. ~isWaiting(rq, i) /\ isWaiting(rq, i)' /\ \A j \in Waiters : j # i => (isWaiting(rq, j)' <=> isWaiting(rq, j))
  BY <1>1, <1>6, Zenon DEF isWaiting
<1>8. Restoring' = (IF rq.compressing THEN Restoring \cup {i} ELSE Restoring)
  BY <1>1, <1>6, <1>7, ZenonT(30) DEF Restoring
<1>9. rq'.overwritten \/ IF rq'.wanted /\ ~rq'.compressing THEN \E j \in Waiters : Restoring' = {j} ELSE Restoring' = {}
  <2>1. CASE rq.compressing /\ ~rq.overwritten
    <3>1. rq.wanted /\ Restoring = {}
      BY Zenon, <1>0, <2>1 DEF Compression
    <3> QED
      BY <1>6, <1>8, <2>1, <3>1, ZenonT(30)
  <2>2. CASE ~rq.compressing /\ ~rq.overwritten
    BY <1>0, <1>6, <1>8, <2>2, ZenonT(30) DEF Compression
  <2> QED
    BY <1>6, <2>1, <2>2, Zenon
<1>10. rq'.overlapped \/ \A j, l \in Waiters : isWaiting(rq, j)' /\ isWaiting(rq, l)' => j = l
  BY <1>2, <1>6, <1>7, ZenonT(30)
<1>11. Compression'
  BY <1>6, <1>9, <1>10, Zenon DEF Compression
<1> QED
  BY Zenon, <1>6, <1>11

(* It turns compression on again if it was on.                             *)
LEMMA RestoreRInv ==
  ASSUME RInv, NEW i \in Waiters, rq.waiters[i].pc = "restore",
         rq' = [IF rq.waiters[i].wasCompressing THEN setKVDOCompressing(rq, TRUE) ELSE rq EXCEPT
                  !.waiters[i] = [pc |-> "done", wasCompressing |-> FALSE]]
  PROVE  RInv'
<1>0. RequestsTypeOK /\ Compression /\ Sleeping
  BY Zenon DEF RInv
<1> DEFINE w == [pc |-> "done", wasCompressing |-> FALSE]
           was == rq.waiters[i].wasCompressing
           compressing == was \/ rq.compressing
           kvios == IF was THEN unpacked(TRUE) ELSE rq.kvios
<1>1. w \in Waiter /\ w.pc = "done"
  BY Zenon DEF Waiter, WaiterPCs
<1>2. compressing \in BOOLEAN /\ rq.overlapped \in BOOLEAN /\ rq.kvios \in [KVIOs -> KVIO]
  BY Zenon, <1>0, WaitPieces
<1>3. kvios \in [KVIOs -> KVIO] /\ emptied(compressing, kvios)
      /\ rq' = turned(kvios, waitersWith(i, w), compressing, rq.wanted, rq.messages, rq.overlapped, rq.overwritten)
  <2>1. CASE was
    <3> DEFINE un == unpacked(TRUE)
    <3>1. un \in [KVIOs -> KVIO] /\ emptied(TRUE, un) /\ setKVDOCompressing(rq, TRUE) = [rq EXCEPT !.compressing = TRUE, !.kvios = un]
      BY <1>0, Unpacked, Zenon
    <3>2. kvios = un /\ compressing = TRUE
      BY Zenon, <2>1
    <3> HIDE DEF un, w
    <3>3. rq' = [[rq EXCEPT !.compressing = TRUE, !.kvios = un] EXCEPT !.waiters[i] = w]
      BY <2>1, <3>1, Zenon DEF w
    <3>4. rq' = [rq EXCEPT !.compressing = TRUE, !.kvios = un, !.waiters = waitersWith(i, w)]
      BY <1>0, <3>3, WaitPieces, Zenon DEF waitersWith
    <3>5. rq' = turned(un, waitersWith(i, w), TRUE, rq.wanted, rq.messages, rq.overlapped, rq.overwritten)
      BY <1>0, <3>4, WaitPieces, Zenon DEF turned
    <3> HIDE DEF kvios, compressing
    <3> QED
      BY <3>1, <3>2, <3>5, Zenon
  <2>2. CASE ~was
    <3>1. kvios = rq.kvios /\ compressing = rq.compressing
      BY Zenon, <1>0, <2>2, WaitPieces
    <3> HIDE DEF kvios, compressing, w
    <3>2. rq' = [rq EXCEPT !.waiters[i] = w]
      BY <2>2, Zenon DEF w
    <3>3. rq' = [rq EXCEPT !.waiters = waitersWith(i, w)]
      BY <1>0, <3>2, WaitPieces, Zenon DEF waitersWith
    <3>4. rq' = turned(rq.kvios, waitersWith(i, w), rq.compressing, rq.wanted, rq.messages, rq.overlapped, rq.overwritten)
      BY <1>0, <3>3, WaitPieces, Zenon DEF turned
    <3>5. emptied(rq.compressing, rq.kvios)
      BY Zenon, <1>0 DEF emptied, Compression
    <3> QED
      BY <1>2, <3>1, <3>4, <3>5, Zenon
  <2> QED
    BY <2>1, <2>2, Zenon
<1>4. /\ (was => compressing) /\ (~was => (compressing <=> rq.compressing))
  BY Zenon
<1>5. ~isAsleep(rq.requests, waiterThread(i))
  BY Zenon, <1>0, OnlyWaitersSleep
<1> HIDE DEF w, compressing, kvios
<1>6. /\ RequestsTypeOK' /\ rq'.compressing = compressing /\ rq'.wanted = rq.wanted /\ rq'.overlapped = rq.overlapped
      /\ rq'.overwritten = rq.overwritten /\ Waiters' = Waiters
      /\ \A j \in Waiters : rq'.waiters[j] = (IF j = i THEN w ELSE rq.waiters[j])
      /\ ~compressing => \A k \in KVIOs' : rq'.kvios[k].pc # "packed"
      /\ Compression' => RInv'
  <2>1. w \in Waiter
    BY Zenon, <1>1
  <2> QED
    BY ONLY RInv, i \in Waiters, <1>2, <1>3, <1>5, <2>1, WaiterStep
<1>7. isWaiting(rq, i) /\ ~isWaiting(rq, i)' /\ \A j \in Waiters : j # i => (isWaiting(rq, j)' <=> isWaiting(rq, j))
  BY <1>1, <1>6, Zenon DEF isWaiting
<1>8. Restoring' = Restoring \ {i} /\ (i \in Restoring <=> was)
  BY <1>6, <1>7, Zenon DEF Restoring
<1>9. rq'.overlapped \/ \A j \in Waiters : ~isWaiting(rq, j)'
  BY <1>0, <1>6, <1>7, Zenon DEF Compression
<1>10. /\ rq'.overwritten \/ IF rq'.wanted /\ ~rq'.compressing THEN \E j \in Waiters : Restoring' = {j} ELSE Restoring' = {}
       /\ rq'.overwritten \/ (rq'.compressing => rq'.wanted)
  <2>1. CASE was /\ ~rq.overwritten
    <3>1. i \in Restoring
      BY Zenon, <1>8, <2>1
    <3>2. rq.wanted /\ ~rq.compressing /\ \E j \in Waiters : Restoring = {j}
      BY Zenon, <1>0, <2>1, <3>1 DEF Compression
    <3>3. Restoring' = {}
      BY Zenon, <1>8, <3>1, <3>2
    <3> QED
      BY <1>4, <1>6, <2>1, <3>2, <3>3, Zenon
  <2>2. CASE ~was /\ ~rq.overwritten
    <3>1. Restoring' = Restoring
      BY Zenon, <1>8, <2>2
    <3> QED
      BY Zenon, <1>0, <1>4, <1>6, <2>2, <3>1 DEF Compression
  <2> QED
    BY <1>6, <2>1, <2>2, Zenon
<1>11. Compression'
  BY <1>6, <1>9, <1>10, Zenon DEF Compression
<1> QED
  BY Zenon, <1>6, <1>11

(* A message about compression.                                            *)
LEMMA CompressionMessageRInv ==
  ASSUME RInv, CompressionMessage
  PROVE  RInv'
<1>0. RequestsTypeOK /\ Compression /\ Sleeping
  BY Zenon DEF RInv
<1> DEFINE wanted == ~rq.wanted
           kvios == unpacked(wanted)
           messages == rq.messages - 1
           overwritten == rq.overwritten \/ \E i \in Waiters : isWaiting(rq, i)
<1>1. /\ wanted \in BOOLEAN /\ messages \in Int /\ rq.waiters \in Seq(Waiter) /\ rq.overlapped \in BOOLEAN
      /\ overwritten \in BOOLEAN /\ (overwritten <=> rq.overwritten \/ \E i \in Waiters : isWaiting(rq, i))
  BY <1>0, WaitPieces
<1> HIDE DEF kvios, messages, wanted
<1>2. kvios \in [KVIOs -> KVIO] /\ emptied(wanted, kvios) /\ setKVDOCompressing(rq, wanted) = [rq EXCEPT !.compressing = wanted, !.kvios = kvios]
  BY <1>0, <1>1, Unpacked, Zenon DEF kvios
<1>3. rq' = turned(kvios, rq.waiters, wanted, wanted, messages, rq.overlapped, overwritten)
  <2>1. rq' = [setKVDOCompressing(rq, wanted) EXCEPT !.wanted = ~@, !.messages = @ - 1, !.overwritten = @ \/ \E i \in Waiters : isWaiting(rq, i)]
    BY Zenon DEF CompressionMessage, wanted
  <2>2. rq' = [[rq EXCEPT !.compressing = wanted, !.kvios = kvios] EXCEPT !.wanted = ~@, !.messages = @ - 1,
                 !.overwritten = @ \/ \E i \in Waiters : isWaiting(rq, i)]
    BY <1>2, <2>1, Zenon
  <2>3. rq' = [rq EXCEPT !.compressing = wanted, !.kvios = kvios, !.wanted = ~@, !.messages = @ - 1, !.overwritten = overwritten]
    BY Zenon, <1>0, <2>2, WaitPieces
  <2>4. rq' = [rq EXCEPT !.compressing = wanted, !.kvios = kvios, !.wanted = wanted, !.messages = messages, !.overwritten = overwritten]
    BY Zenon, <2>3 DEF wanted, messages
  <2> HIDE DEF overwritten
  <2> QED
    BY <1>0, <2>4, WaitPieces, Zenon DEF turned
<1> HIDE DEF overwritten
<1>4. /\ RequestsTypeOK' /\ limitersAreSame /\ rq'.kvios = kvios /\ rq'.waiters = rq.waiters /\ rq'.compressing = wanted
      /\ rq'.wanted = wanted /\ rq'.overlapped = rq.overlapped /\ rq'.overwritten = overwritten /\ KVIOs' = KVIOs
  <2>1. RequestsTypeOK
    BY Zenon, <1>0
  <2> QED
    BY <1>1, <1>2, <1>3, <2>1, WaitAlone
<1>5. Waiters' = Waiters /\ unpacks
  BY Zenon, <1>2, <1>4 DEF Waiters, unpacks, emptied
<1>6. \A j \in Waiters : isWaiting(rq, j)' <=> isWaiting(rq, j)
  BY Zenon, <1>4 DEF isWaiting
<1>7. Compression'
  <2>1. rq'.overwritten \/ \A j \in Waiters : ~isWaiting(rq, j)'
    BY Zenon, <1>1, <1>4, <1>6
  <2>2. rq'.overwritten \/ Restoring' = {}
    BY Zenon, <1>5, <2>1 DEF Restoring
  <2>3. rq'.overlapped \/ \A i, j \in Waiters : isWaiting(rq, i)' /\ isWaiting(rq, j)' => i = j
    BY Zenon, <1>0, <1>4, <1>6 DEF Compression
  <2>4. ~rq'.compressing => \A k \in KVIOs' : rq'.kvios[k].pc # "packed"
    BY Zenon, <1>2, <1>4 DEF emptied
  <2> QED
    BY Zenon, <1>4, <1>5, <2>1, <2>2, <2>3, <2>4 DEF Compression
<1>8. Sleeping'
  BY Zenon, <1>0, <1>4, FrameSleeping DEF limitersAreSame
<1>9. rq.overlapped => rq'.overlapped
  BY Zenon, <1>4
<1> QED
  BY Zenon, <1>4, <1>5, <1>7, <1>8, <1>9, WaitStep

(* A new limit of discards.                                                *)
LEMMA PoolDiscardsLimitStoreRInv ==
  ASSUME RInv, poolDiscardsLimitStore
  PROVE  RInv'
<1>0. RequestsTypeOK /\ WaitingDiscards
  BY Zenon DEF RInv
<1>1. PICK value \in rq.limits :
        rq' = [rq EXCEPT !.limits = @ \ {value}, !.discards.limit = value,
                 !.stranded = @ \/ (rq.discards.waiterQueue # <<>> /\ value > rq.discards.limit)]
  BY Zenon DEF poolDiscardsLimitStore
<1> DEFINE limits == rq.limits \ {value}
           discards == [rq.discards EXCEPT !.limit = value]
           stranded == rq.stranded \/ (rq.discards.waiterQueue # <<>> /\ value > rq.discards.limit)
<1>2. /\ rq.limits \in SUBSET Nat /\ rq.discards \in Limiter /\ rq.stranded \in BOOLEAN
      /\ rq \in [DOMAIN rq -> {rq[x] : x \in DOMAIN rq}] /\ {"limits", "discards", "stranded"} \subseteq DOMAIN rq
  BY Zenon, <1>0 DEF RequestsTypeOK
<1>3. value \in Nat /\ limits \in SUBSET Nat /\ stranded \in BOOLEAN
  BY Zenon, <1>2
<1>4. discards \in Limiter /\ discards.active = rq.discards.active /\ discards.limit = value /\ discards.waiterQueue = rq.discards.waiterQueue
  BY Zenon, <1>2, <1>3 DEF Limiter
<1>5. rq' = [rq EXCEPT !.limits = limits, !.discards = discards, !.stranded = stranded]
  BY Zenon, <1>1, <1>2
<1>6. stranded <=> (rq.stranded \/ (rq.discards.waiterQueue # <<>> /\ value > rq.discards.limit))
  BY Zenon, <1>3
<1> HIDE DEF limits, discards, stranded
<1>7. /\ rq'.requests = rq.requests /\ rq'.discards = discards /\ rq'.kvios = rq.kvios /\ rq'.batch = rq.batch
      /\ rq'.deadlockQueue = rq.deadlockQueue /\ rq'.bios = rq.bios /\ rq'.pcs = rq.pcs /\ rq'.acked = rq.acked
      /\ rq'.waiters = rq.waiters /\ rq'.compressing = rq.compressing /\ rq'.wanted = rq.wanted /\ rq'.overtaken = rq.overtaken
      /\ rq'.overlapped = rq.overlapped /\ rq'.overwritten = rq.overwritten /\ rq'.stranded = stranded /\ rq'.asserts = rq.asserts
  BY Zenon, <1>0, <1>5 DEF RequestsTypeOK
<1>8. Bios' = Bios /\ KVIOs' = KVIOs /\ Waiters' = Waiters
  BY Zenon, <1>7 DEF Bios, KVIOs, Waiters
<1>9. RequestsTypeOK'
  BY <1>0, <1>3, <1>4, <1>5, <1>7, <1>8, Zenon DEF RequestsTypeOK
<1>10. WaitingDiscards'
  <2>1. AwakeDiscards' = AwakeDiscards /\ DiscardSleepers' = DiscardSleepers /\ Cardinality(AwakeDiscards) \in Nat
    BY Zenon, <1>0, <1>4, <1>7, <1>8, FiniteWakeups DEF AwakeDiscards, DiscardSleepers, isAsleep
  <2>2. rq.discards.active \in Int /\ rq.discards.limit \in Nat
    BY Zenon, <1>2 DEF Limiter
  <2>3. rq'.discards.waiterQueue # <<>> => rq'.stranded \/ rq'.discards.active + Cardinality(AwakeDiscards') >= rq'.discards.limit
    BY <1>0, <1>3, <1>4, <1>6, <1>7, <2>1, <2>2 DEF WaitingDiscards
  <2> QED
    BY <1>0, <1>4, <1>7, <1>8, <2>1, <2>3 DEF WaitingDiscards
<1>11. NoAssertionFails' /\ Batched' /\ Queued' /\ Discards' /\ Acknowledged' /\ Deadlocked' /\ Compression' /\ Sleeping'
  BY Zenon, <1>4, <1>7, FrameBatched, FrameQueued, FrameDiscards, FrameAcknowledged, FrameDeadlocked, FrameCompression, FrameSleeping
     DEF RInv, NoAssertionFails
<1>12. Permits' /\ Wakeups'
  <2>1. Launching' = Launching /\ Used' = Used /\ cleaned(rq)' = cleaned(rq) /\ Owed' = Owed
    BY Zenon, <1>7, <1>8 DEF Launching, Used, cleaned, KVIOs, Owed, counted
  <2> QED
    BY Zenon, <1>7, <1>8, <2>1, FramePermits, FrameWakeups DEF RInv
<1> QED
  BY Zenon, <1>9, <1>10, <1>11, <1>12 DEF RInv

-----------------------------------------------------------------------------
(* The invariant                                                           *)

(* A new layer has all permits in its limiters and all DataKVIOs in its    *)
(* pool, and nobody waits (makeKernelLayer()).                             *)
LEMMA InitRInv ==
  ASSUME SettingsAreProper, Init
  PROVE  RInv
<1>1. PICK s \in Settings :
        rq = [requests |-> initializeLimiter(s.requestLimit), discards |-> initializeLimiter((s.requestLimit * 3) \div 4),
              kvios |-> makeBufferPool(s.requestLimit), batch |-> makeBatchProcessor, deadlockQueue |-> <<>>,
              bios |-> s.bios, pcs |-> [b \in DOMAIN s.bios |-> "new"], acked |-> [b \in DOMAIN s.bios |-> 0],
              waiters |-> [i \in 1 .. s.waiters |-> [pc |-> "idle", wasCompressing |-> FALSE]],
              compressing |-> TRUE, wanted |-> TRUE, limits |-> s.limits, faults |-> s.faults, messages |-> s.messages,
              overtaken |-> FALSE, overlapped |-> FALSE, overwritten |-> FALSE, stranded |-> FALSE, asserts |-> {}]
  BY Zenon DEF Init
<1>2. /\ s.requestLimit \in Nat \ {0} /\ s.bios \in Seq(Bio) /\ s.waiters \in Nat /\ s.limits \subseteq Nat
      /\ s.faults \in Int /\ s.messages \in Int
      /\ \A b \in DOMAIN s.bios : s.bios[b].kind = "discard" => s.bios[b].blocks > 0
  BY DEF SettingsAreProper
<1> DEFINE limit == s.requestLimit
           requests == initializeLimiter(limit)
           discards == initializeLimiter((limit * 3) \div 4)
           kvios == makeBufferPool(limit)
           pcs == [b \in DOMAIN s.bios |-> "new"]
           acked == [b \in DOMAIN s.bios |-> 0]
           waiters == [i \in 1 .. s.waiters |-> [pc |-> "idle", wasCompressing |-> FALSE]]
<1>3. (limit * 3) \div 4 \in Nat
  BY <1>2
<1>4. /\ requests \in Limiter /\ requests.active = 0 /\ requests.limit = limit /\ requests.waiterQueue = <<>>
      /\ discards \in Limiter /\ discards.active = 0 /\ discards.waiterQueue = <<>>
  <2>1. ASSUME NEW n \in Nat PROVE /\ initializeLimiter(n) \in Limiter /\ initializeLimiter(n).active = 0
                                   /\ initializeLimiter(n).limit = n /\ initializeLimiter(n).waiterQueue = <<>>
    BY DEF initializeLimiter, Limiter
  <2> HIDE DEF limit
  <2>2. limit \in Nat
    BY Zenon, <1>2 DEF limit
  <2> QED
    BY Zenon, <1>3, <2>1, <2>2
<1>5. /\ kvios \in [1 .. limit -> KVIO] /\ DOMAIN kvios = 1 .. limit
      /\ \A k \in 1 .. limit : kvios[k].pc = "free" /\ kvios[k].bio = none /\ kvios[k].hasDiscardPermit = FALSE
  <2> DEFINE Flag == BOOLEAN
             fresh == [pc |-> "free", bio |-> none, remainingDiscard |-> 0, hasDiscardPermit |-> FALSE]
  <2>1. FALSE \in Flag /\ KVIO = [pc : KVIOPCs, bio : Nat, remainingDiscard : Nat, hasDiscardPermit : Flag]
    BY Zenon DEF KVIO
  <2> HIDE DEF Flag
  <2>2. fresh \in KVIO /\ fresh.pc = "free" /\ fresh.bio = none /\ fresh.hasDiscardPermit = FALSE
    BY <2>1, Zenon DEF KVIOPCs, none
  <2>3. kvios = [k \in 1 .. limit |-> fresh]
    BY Zenon DEF makeBufferPool
  <2> HIDE DEF fresh, kvios, limit
  <2> QED
    BY Zenon, <2>2, <2>3
<1>6. /\ makeBatchProcessor \in Batch /\ makeBatchProcessor.queue = <<>> /\ makeBatchProcessor.state = "idle"
      /\ makeBatchProcessor.lock = none /\ \A i \in Runs : makeBatchProcessor.runs[i].pc = "none" /\ makeBatchProcessor.runs[i].count = 0
  BY DEF makeBatchProcessor, Batch, noRun, Run, RunPCs, none
<1>7. waiters \in Seq(Waiter) /\ DOMAIN waiters = 1 .. s.waiters /\ \A i \in 1 .. s.waiters : waiters[i].pc = "idle"
  <2> DEFINE Flag == BOOLEAN
             idle == [pc |-> "idle", wasCompressing |-> FALSE]
  <2>1. FALSE \in Flag /\ Waiter = [pc : WaiterPCs, wasCompressing : Flag]
    BY Zenon DEF Waiter
  <2> HIDE DEF Flag
  <2>2. idle \in Waiter /\ idle.pc = "idle"
    BY <2>1, Zenon DEF WaiterPCs
  <2>3. waiters = [i \in 1 .. s.waiters |-> idle]
    BY Zenon
  <2> HIDE DEF idle, waiters
  <2>4. waiters \in [1 .. s.waiters -> Waiter]
    BY Zenon, <2>2, <2>3
  <2> QED
    BY <1>2, <2>2, <2>3, <2>4
<1>8. pcs \in [DOMAIN s.bios -> BioPCs] /\ acked \in [DOMAIN s.bios -> Nat]
  BY Zenon DEF BioPCs
<1>9. \A b \in DOMAIN s.bios : pcs[b] = "new" /\ acked[b] = 0
  BY Zenon
<1> HIDE DEF requests, discards, kvios, pcs, acked, waiters
<1>10. /\ rq.requests = requests /\ rq.discards = discards /\ rq.kvios = kvios /\ rq.batch = makeBatchProcessor /\ rq.deadlockQueue = <<>>
       /\ rq.bios = s.bios /\ rq.pcs = pcs /\ rq.acked = acked /\ rq.waiters = waiters /\ rq.compressing = TRUE /\ rq.wanted = TRUE
       /\ rq.limits = s.limits /\ rq.faults = s.faults /\ rq.messages = s.messages /\ rq.overtaken = FALSE /\ rq.overlapped = FALSE
       /\ rq.overwritten = FALSE /\ rq.stranded = FALSE /\ rq.asserts = {}
  BY Zenon, <1>1 DEF requests, discards, kvios, pcs, acked, waiters
<1>11. Bios = DOMAIN s.bios /\ KVIOs = 1 .. limit /\ Waiters = 1 .. s.waiters
  BY Zenon, <1>5, <1>7, <1>10 DEF Bios, KVIOs, Waiters
<1>12. RequestsTypeOK
  <2>1. rq = [requests |-> requests, discards |-> discards, kvios |-> kvios, batch |-> makeBatchProcessor, deadlockQueue |-> <<>>,
              bios |-> s.bios, pcs |-> pcs, acked |-> acked, waiters |-> waiters,
              compressing |-> TRUE, wanted |-> TRUE, limits |-> s.limits, faults |-> s.faults, messages |-> s.messages,
              overtaken |-> FALSE, overlapped |-> FALSE, overwritten |-> FALSE, stranded |-> FALSE, asserts |-> {}]
    BY <1>1, Zenon DEF requests, discards, kvios, pcs, acked, waiters
  <2> DEFINE Flag == BOOLEAN
             Texts == SUBSET STRING
             Values == SUBSET Nat
  <2>2. TRUE \in Flag /\ FALSE \in Flag /\ {} \in Texts /\ s.limits \in Values
    BY Zenon, <1>2
  <2>3. RequestsTypeOK <=>
          /\ rq \in [requests : Limiter, discards : Limiter, kvios : [KVIOs -> KVIO], batch : Batch, deadlockQueue : Seq(Nat),
                     bios : Seq(Bio), pcs : [Bios -> BioPCs], acked : [Bios -> Nat], waiters : Seq(Waiter),
                     compressing : Flag, wanted : Flag, limits : Values, faults : Int, messages : Int,
                     overtaken : Flag, overlapped : Flag, overwritten : Flag, stranded : Flag, asserts : Texts]
          /\ KVIOs = 1 .. rq.requests.limit /\ rq.requests.limit > 0
    BY Zenon DEF RequestsTypeOK
  <2> HIDE DEF Flag, Texts, Values
  <2>4. <<>> \in Seq(Nat) /\ makeBatchProcessor \in Batch
    BY <1>6
  <2>5. KVIOs = 1 .. rq.requests.limit /\ rq.requests.limit > 0
    BY <1>2, <1>4, <1>10, <1>11
  <2>6. kvios \in [KVIOs -> KVIO] /\ pcs \in [Bios -> BioPCs] /\ acked \in [Bios -> Nat]
    BY Zenon, <1>5, <1>8, <1>11
  <2> QED
    BY <1>2, <1>4, <1>7, <2>1, <2>2, <2>3, <2>4, <2>5, <2>6, Zenon
<1>13. Cardinality({}) = 0
  BY Zenon, FS_EmptySet
<1>14. Batched /\ Queued /\ Deadlocked /\ Sleeping /\ NoAssertionFails
  <2>1. Batched
    BY <1>6, <1>10 DEF Batched, ActivePCs, LockedPCs, CountingPCs, Runs, none
  <2>2. Queued
    BY <1>5, <1>6, <1>10, <1>11 DEF Queued
  <2>3. Deadlocked /\ Sleeping /\ NoAssertionFails
    BY <1>4, <1>10 DEF Deadlocked, Sleeping, Sleepers, NoAssertionFails
  <2> QED
    BY Zenon, <2>1, <2>2, <2>3
<1>15. Permits
  <2>1. Launching = {} /\ Used = {} /\ cleaned(rq) = {}
    BY <1>5, <1>9, <1>10, <1>11 DEF Launching, Used, cleaned, KVIOs
  <2>2. Held = 0 /\ Cleaning = 0
    BY <1>6, <1>10 DEF Held, Cleaning, counted, Runs
  <2> QED
    BY <1>2, <1>4, <1>10, <1>13, <2>1, <2>2 DEF Permits
<1>16. Discards
  <2>1. Holding = {} /\ WithPermit = {}
    BY Zenon, <1>5, <1>9, <1>10, <1>11 DEF Holding, WithPermit
  <2>2. rq.discards.active = Cardinality(Holding) + Cardinality(WithPermit)
    BY <1>4, <1>10, <1>13, <2>1
  <2> QED
    BY <1>2, <1>5, <1>9, <1>10, <1>11, <2>2 DEF Discards, isDiscardBio
<1>17. Acknowledged
  BY Zenon, <1>5, <1>9, <1>10, <1>11 DEF Acknowledged
<1>18. Compression
  <2>1. \A i \in Waiters : ~isWaiting(rq, i)
    BY Zenon, <1>7, <1>10, <1>11 DEF isWaiting
  <2>2. Restoring = {}
    BY Zenon, <2>1 DEF Restoring
  <2> QED
    BY Zenon, <1>10, <2>1, <2>2 DEF Compression
<1>19. Wakeups /\ WaitingDiscards
  <2>1. Sleepers = {} /\ DiscardSleepers = {} /\ rq.discards.waiterQueue = <<>>
    BY <1>4, <1>10 DEF Sleepers, DiscardSleepers
  <2> QED
    BY Zenon, <2>1 DEF Wakeups, WaitingDiscards
<1> QED
  BY Zenon, <1>12, <1>14, <1>15, <1>16, <1>17, <1>18, <1>19 DEF RInv

=============================================================================
