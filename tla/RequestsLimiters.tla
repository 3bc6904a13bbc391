-------------------------- MODULE RequestsLimiters --------------------------
(***************************************************************************)
(* The steps of a bio before its launch, of the threads which sleep in a   *)
(* limiter and of the wakeups which it owes them keep the invariant of     *)
(* RequestsInvariant, and so does the schedule of a batch of DataKVIOs,    *)
(* its start and its end.                                                  *)
(***************************************************************************)
EXTENDS RequestsInvariant

(* The time every leaf is given.                                           *)
USE SMTT(30)

-----------------------------------------------------------------------------
(* What a step of a bio, or of a limiter, changes                          *)

(* A limiter with a thread more in its queue.                              *)
LEMMA SleepingThread ==
  ASSUME NEW limiter \in Limiter, NEW t \in Int
  PROVE  /\ sleep(limiter, t) \in Limiter /\ sleep(limiter, t).active = limiter.active /\ sleep(limiter, t).limit = limiter.limit
         /\ sleep(limiter, t).waiterQueue = Append(limiter.waiterQueue, t)
<1> DEFINE q == Append(limiter.waiterQueue, t)
<1>1. q \in Seq(Int) /\ sleep(limiter, t) = [limiter EXCEPT !.waiterQueue = q]
  BY DEF Limiter, sleep
<1> HIDE DEF q
<1>2. /\ sleep(limiter, t) \in Limiter /\ sleep(limiter, t).active = limiter.active /\ sleep(limiter, t).limit = limiter.limit
      /\ sleep(limiter, t).waiterQueue = q
  BY Zenon, <1>1 DEF Limiter
<1> QED
  BY Zenon, <1>2 DEF q

(* A limiter which has woken some.                                         *)
LEMMA WokenLimiter ==
  ASSUME NEW limiter \in Limiter, NEW n \in Nat
  PROVE  /\ wake(limiter, n) \in Limiter /\ wake(limiter, n).active = limiter.active /\ wake(limiter, n).limit = limiter.limit
         /\ wake(limiter, n).waiterQueue = after(limiter.waiterQueue, n)
<1> DEFINE q == after(limiter.waiterQueue, n)
<1>0. limiter.waiterQueue \in Seq(Int)
  BY Zenon DEF Limiter
<1>1. q \in Seq(Int)
  BY Zenon, <1>0, Rest DEF after
<1>2. wake(limiter, n) = [limiter EXCEPT !.waiterQueue = q]
  BY Zenon DEF wake, after
<1> HIDE DEF q
<1>3. /\ wake(limiter, n) \in Limiter /\ wake(limiter, n).active = limiter.active /\ wake(limiter, n).limit = limiter.limit
      /\ wake(limiter, n).waiterQueue = q
  BY <1>1, <1>2, Zenon DEF Limiter
<1> QED
  BY Zenon, <1>3 DEF q

-----------------------------------------------------------------------------
(* Wakeups                                                                 *)

(* The threads are finitely many.                                          *)
LEMMA FiniteThreads ==
  ASSUME RequestsTypeOK
  PROVE  IsFiniteSet(Bios \cup {waiterThread(i) : i \in Waiters})
<1> DEFINE T == {waiterThread(i) : i \in Waiters}
           f == [t \in T |-> -t]
<1>1. \A i \in Waiters : i \in Int /\ -(-i) = i
  BY FinitelyMany
<1>2. f \in Injection(T, Waiters)
  BY <1>1 DEF waiterThread, Injection, IsInjective
<1> HIDE DEF T, f
<1>3. IsFiniteSet(T)
  BY Zenon, <1>2, FinitelyMany, FS_Injection
<1>4. IsFiniteSet(Bios \cup T)
  BY <1>3, FinitelyMany, FS_Union, Zenon
<1> QED
  BY Zenon, <1>4 DEF T

(* Nobody's wakeup is lost while the permits which are out and the wakeups *)
(* owed become no fewer.                                                   *)
LEMMA WakeupsKept ==
  ASSUME RequestsTypeOK, Wakeups, rq'.requests.waiterQueue = rq.requests.waiterQueue, rq'.requests.limit = rq.requests.limit,
         rq'.bios = rq.bios, rq'.pcs = rq.pcs, Waiters' = Waiters, rq'.overlapped = rq.overlapped,
         rq'.requests.active \in Int, Owed \in Nat, Owed' \in Nat, rq'.requests.active + Owed' >= rq.requests.active + Owed
  PROVE  Wakeups'
<1>1. Awake' = Awake
  BY Zenon DEF Awake, Bios, isAsleep
<1>2. Ahead' = Ahead /\ Sleepers' = Sleepers /\ Bios' = Bios
  BY Zenon DEF Ahead, Sleepers, sleeper, Bios
<1>3. Spared' = Spared
  BY Zenon, <1>1, <1>2 DEF Spared
<1>4. rq.requests.active \in Int /\ rq.requests.limit \in Nat
  BY Zenon DEF RequestsTypeOK, Limiter
<1>5. Cardinality(Awake) \in Nat /\ Cardinality(Spared) \in Nat
  BY Zenon, FiniteWakeups
<1> QED
  BY <1>1, <1>2, <1>3, <1>4, <1>5 DEF Wakeups, sleeper

(* As many as were woken are awake, or are not ahead of a bio any more.    *)
LEMMA SparedWoken ==
  ASSUME RequestsTypeOK, RequestsTypeOK', Sleeping, NEW n \in Nat, n <= Len(rq.requests.waiterQueue),
         rq'.requests.waiterQueue = after(rq.requests.waiterQueue, n), rq'.bios = rq.bios, rq'.pcs = rq.pcs, rq'.waiters = rq.waiters,
         NEW s \in Sleepers, s > n, sleeper(s) \in Bios
  PROVE  Cardinality(Spared') >= Cardinality(Spared) + n
<1> DEFINE q == rq.requests.waiterQueue
           W == {q[p] : p \in 1 .. n}
           f == [p \in 1 .. n |-> q[p]]
<1>1. q \in Seq(Int) /\ Distinct(q) /\ Len(q) \in Nat
  <2>1. q \in Seq(Int)
    BY Zenon DEF RequestsTypeOK, Limiter
  <2>2. Distinct(q)
    BY Zenon DEF Sleeping, Sleepers, sleeper, Distinct
  <2> HIDE DEF q
  <2> QED
    BY <2>1, <2>2
<1>2. /\ \A p \in 1 .. Len(q) - n : p + n \in 1 .. Len(q) /\ rq'.requests.waiterQueue[p] = q[p + n]
      /\ Len(rq'.requests.waiterQueue) = Len(q) - n
      /\ \A c : inQueue(rq'.requests.waiterQueue, c) <=> (inQueue(q, c) /\ \A p \in 1 .. n : q[p] # c)
  <2> DEFINE w == rq'.requests.waiterQueue
  <2>1. w = after(q, n) /\ n <= Len(q) /\ n \in Nat
    BY Zenon
  <2> HIDE DEF q, w, W, f
  <2>2. /\ Len(w) = Len(q) - n
        /\ \A p \in 1 .. Len(w) : p + n \in 1 .. Len(q) /\ w[p] = q[p + n]
        /\ \A c : inQueue(w, c) <=> inQueue(q, c) /\ \A p \in 1 .. n : q[p] # c
    BY ONLY <1>1, <2>1, StillQueued
  <2> QED
    BY Zenon, <2>2 DEF w
<1>3. Bios' = Bios /\ Waiters' = Waiters
  BY Zenon DEF Bios, Waiters
<1>4. 1 .. n \subseteq 1 .. Len(q)
  BY <1>1
<1>5. Awake \subseteq Awake'
  BY Zenon, <1>2, <1>3 DEF Awake, isAsleep
<1>6. Ahead' \subseteq Ahead
  <2> SUFFICES ASSUME NEW i \in Ahead' PROVE i \in Ahead
    BY Zenon
  <2>1. PICK a, b \in 1 .. Len(q) - n : a < b /\ q[a + n] = waiterThread(i) /\ q[b + n] \in Bios
    BY <1>2, <1>3, ZenonT(30) DEF Ahead, Sleepers, sleeper
  <2>2. a + n \in Sleepers /\ b + n \in Sleepers /\ a + n < b + n
    BY <1>2, <2>1 DEF Sleepers
  <2> QED
    BY Zenon, <1>3, <2>1, <2>2 DEF Ahead, sleeper
<1>7. Spared \subseteq Spared'
  BY Zenon, <1>3, <1>5, <1>6 DEF Spared
<1>8. \A i, j \in Waiters : waiterThread(i) = waiterThread(j) => i = j
  BY FinitelyMany DEF waiterThread
<1>9. \A i \in Waiters : waiterThread(i) \notin Bios
  BY FinitelyMany DEF waiterThread
<1>10. ASSUME NEW p \in 1 .. n PROVE q[p] \in Spared' /\ q[p] \notin Spared
  <2>1. p \in Sleepers /\ sleeper(p) = q[p] /\ p < s
    BY <1>4 DEF Sleepers, sleeper
  <2>2. inQueue(q, q[p]) /\ ~inQueue(rq'.requests.waiterQueue, q[p])
    <3>1. PICK r, c : r = q /\ c = q[p]
      BY Zenon
    <3>2. r \in Seq(Int) /\ \E i \in 1 .. Len(r) : r[i] = c
      BY Zenon, <1>1, <1>4, <3>1
    <3>3. inQueue(r, c)
      BY Zenon, <3>2, HasItsPlace
    <3>4. ~inQueue(rq'.requests.waiterQueue, q[p])
      BY <1>2, Zenon
    <3> QED
      BY Zenon, <3>1, <3>3, <3>4
  <2>3. CASE q[p] \in Bios
    <3>1. rq.pcs[q[p]] = "wantRequest"
      BY Zenon, <1>9, <2>1, <2>3 DEF Sleeping
    <3>2. q[p] \in Awake' /\ q[p] \notin Awake
      BY Zenon, <1>3, <2>2, <2>3, <3>1 DEF Awake, isAsleep
    <3> QED
      BY Zenon, <1>9, <2>3, <3>2 DEF Spared
  <2>4. CASE q[p] \notin Bios
    <3>1. PICK i \in Waiters : q[p] = waiterThread(i)
      BY Zenon, <2>1, <2>4 DEF Sleeping
    <3>2. i \in Ahead
      BY Zenon, <2>1, <3>1 DEF Ahead
    <3>3. q[p] \notin Spared
      BY Zenon, <1>8, <2>4, <3>1, <3>2 DEF Spared, Awake
    <3>4. i \notin Ahead'
      BY <2>2, <3>1 DEF Ahead, Sleepers, sleeper, inQueue
    <3> QED
      BY Zenon, <1>3, <3>1, <3>3, <3>4 DEF Spared
  <2> QED
    BY Zenon, <2>3, <2>4
<1>11. f \in Bijection(1 .. n, W)
  BY <1>1, <1>4, Zenon DEF Bijection, Injection, Surjection, IsInjective, Distinct
<1>12. IsFiniteSet(1 .. n) /\ Cardinality(1 .. n) = n
  BY Zenon, UpTo
<1>13. IsFiniteSet(W) /\ Cardinality(W) = n
  <2> HIDE DEF W, f
  <2> QED
    BY Zenon, <1>11, <1>12, FS_Bijection DEF ExistsBijection
<1>14. W \subseteq Spared' /\ W \cap Spared = {}
  BY Zenon, <1>10
<1> HIDE DEF W, f, q
<1>15. IsFiniteSet(Spared) /\ Cardinality(Spared) \in Nat
  BY Zenon, FiniteWakeups
<1>16. IsFiniteSet(Spared')
  <2>1. Spared' \subseteq Bios \cup {waiterThread(i) : i \in Waiters}
    BY Zenon, <1>3 DEF Spared, Awake
  <2> QED
    BY Zenon, <2>1, FiniteThreads, FS_Subset
<1>17. Cardinality(Spared \cup W) = Cardinality(Spared) + Cardinality(W) - Cardinality(Spared \cap W)
  BY Zenon, <1>13, <1>15, FS_Union
<1>18. Cardinality(Spared \cap W) = 0
  BY <1>14, FS_EmptySet, Zenon
<1>19. Cardinality(Spared \cup W) <= Cardinality(Spared') /\ Cardinality(Spared') \in Nat /\ Cardinality(Spared \cup W) \in Nat
  BY Zenon, <1>7, <1>14, <1>16, FS_Subset, FS_CardinalityType
<1> QED
  BY <1>13, <1>15, <1>17, <1>18, <1>19

(* Who is left asleep by limiterReleaseMany(), and whom it wakes.          *)
LEMMA WakeupsWoken ==
  ASSUME RequestsTypeOK, RequestsTypeOK', Permits, Compression, Sleeping, Wakeups, NEW n \in Nat,
         rq'.requests.waiterQueue = after(rq.requests.waiterQueue, n), rq'.requests.active = rq.requests.active,
         rq'.requests.limit = rq.requests.limit, rq'.bios = rq.bios, rq'.pcs = rq.pcs, rq'.waiters = rq.waiters,
         rq'.overlapped = rq.overlapped, Owed \in Nat, Owed' \in Nat, Owed = Owed' + n, Held \in Nat
  PROVE  Sleeping' /\ Wakeups'
<1> DEFINE q == rq.requests.waiterQueue
           w == rq'.requests.waiterQueue
<1>1. q \in Seq(Int) /\ Distinct(q) /\ Len(q) \in Nat
  <2>1. q \in Seq(Int)
    BY Zenon DEF RequestsTypeOK, Limiter
  <2>2. Distinct(q)
    BY Zenon DEF Sleeping, Sleepers, sleeper, Distinct
  <2> HIDE DEF q
  <2> QED
    BY <2>1, <2>2
<1>2. CASE n >= Len(q)
  <2>1. w = <<>>
    BY Zenon, <1>1, <1>2, Rest DEF after
  <2>2. Sleepers' = {}
    BY <2>1 DEF Sleepers
  <2> QED
    BY Zenon, <2>2 DEF Sleeping, Wakeups
<1>3. CASE n < Len(q)
  <2>1. w = after(q, n) /\ n <= Len(q)
    BY <1>1, <1>3
  <2>2. /\ Len(w) = Len(q) - n
        /\ \A p \in 1 .. Len(w) : p + n \in 1 .. Len(q) /\ w[p] = q[p + n]
        /\ \A c : inQueue(w, c) <=> inQueue(q, c) /\ \A p \in 1 .. n : q[p] # c
    <3> HIDE DEF q, w
    <3>1. n <= Len(q) /\ Distinct(q) /\ w = after(q, n) /\ q \in Seq(Int)
      BY Zenon, <1>1, <2>1
    <3> QED
      BY ONLY n \in Nat, <3>1, StillQueued
  <2>3. Bios' = Bios /\ Waiters' = Waiters
    BY Zenon DEF Bios, Waiters
  <2>4. \A p \in Sleepers' : p + n \in Sleepers /\ sleeper(p)' = sleeper(p + n)
    BY Zenon, <2>2 DEF Sleepers, sleeper
  <2>5. Sleeping'
    <3>1. \A p \in Sleepers' : \/ sleeper(p)' \in Bios /\ rq.pcs[sleeper(p)'] = "wantRequest"
                               \/ \E i \in Waiters : sleeper(p)' = waiterThread(i) /\ rq.waiters[i].pc = "wait"
      BY Zenon, <2>4 DEF Sleeping
    <3>2. \A p, r \in Sleepers' : p \in Int /\ r \in Int /\ (p + n = r + n => p = r)
      BY DEF Sleepers
    <3>3. \A p, r \in Sleepers' : sleeper(p)' = sleeper(r)' => p = r
      BY Zenon, <2>4, <3>2 DEF Sleeping
    <3> QED
      BY Zenon, <2>3, <3>1, <3>3 DEF Sleeping
  <2>6. rq.requests.active \in Nat /\ rq.requests.limit \in Nat
    <3>1. rq.requests.limit \in Nat
      BY Zenon DEF RequestsTypeOK, Limiter
    <3>2. Cardinality(Launching) \in Nat /\ Cardinality(Used) \in Nat
      BY Zenon, FiniteCounts
    <3> QED
      BY <3>1, <3>2 DEF Permits
  <2>7. /\ IsFiniteSet(Awake') /\ Cardinality(Awake') \in Nat /\ Cardinality(Awake) \in Nat /\ Cardinality(Spared) \in Nat
        /\ Cardinality(Spared') \in Nat
    <3>1. Awake' \subseteq Bios /\ Spared' \subseteq Bios \cup {waiterThread(i) : i \in Waiters}
      BY Zenon, <2>3 DEF Awake, Spared
    <3>2. IsFiniteSet(Awake') /\ Cardinality(Awake') \in Nat
      BY Zenon, <3>1, FinitelyMany, FS_Subset, FS_CardinalityType
    <3>3. Cardinality(Spared') \in Nat
      BY Zenon, <3>1, FiniteThreads, FS_Subset, FS_CardinalityType
    <3> QED
      BY Zenon, <3>2, <3>3, FiniteWakeups
  <2>8. ASSUME NEW p \in Sleepers', sleeper(p)' \in Bios
        PROVE  rq.requests.active + Owed' + Cardinality(Spared') >= rq.requests.limit
    <3>1. p + n \in Sleepers /\ sleeper(p + n) \in Bios /\ p + n > n
      BY <2>4, <2>8 DEF Sleepers
    <3>2. rq.requests.active + Owed + Cardinality(Spared) >= rq.requests.limit
      BY Zenon, <3>1 DEF Wakeups
    <3>3. Cardinality(Spared') >= Cardinality(Spared) + n
      BY Zenon, <2>1, <3>1, SparedWoken
    <3> QED
      BY <2>6, <2>7, <3>2, <3>3
  <2>9. ASSUME NEW p \in Sleepers', sleeper(p)' \notin Bios
        PROVE  rq.overlapped \/ rq.requests.active + Owed' + Cardinality(Awake') > 0
    <3>1. p + n \in Sleepers /\ sleeper(p + n) \notin Bios /\ p \in Int /\ p > 0
      BY <2>4, <2>9 DEF Sleepers
    <3>2. PICK j \in Waiters : sleeper(p + n) = waiterThread(j) /\ rq.waiters[j].pc = "wait"
      BY Zenon, <3>1 DEF Sleeping
    <3>3. CASE n = 0
      <4>1. Awake \subseteq Awake'
        BY Zenon, <2>2, <2>3, <3>3 DEF Awake, isAsleep
      <4>2. Cardinality(Awake) <= Cardinality(Awake')
        BY Zenon, <2>7, <4>1, FS_Subset
      <4>3. rq.overlapped \/ rq.requests.active + Owed + Cardinality(Awake) > 0
        BY Zenon, <3>1 DEF Wakeups
      <4> QED
        BY <2>6, <2>7, <3>3, <4>2, <4>3
    <3>4. CASE n > 0
      <4>1. 1 \in Sleepers /\ sleeper(1) = q[1] /\ 1 # p + n /\ 1 \in 1 .. n
        BY <1>1, <1>3, <3>1, <3>4 DEF Sleepers, sleeper
      <4>2. sleeper(1) # sleeper(p + n)
        BY Zenon, <3>1, <4>1 DEF Sleeping
      <4>3. CASE sleeper(1) \in Bios
        <5>1. sleeper(1) \in Awake'
          <6>1. rq.pcs[sleeper(1)] = "wantRequest"
            <7>1. \A i \in Waiters : waiterThread(i) \notin Bios
              BY FinitelyMany DEF waiterThread
            <7> QED
              BY Zenon, <4>1, <4>3, <7>1 DEF Sleeping
          <6> QED
            BY <2>2, <2>3, <4>1, <4>3, <6>1 DEF Awake, isAsleep
        <5>2. Cardinality(Awake') # 0
          BY Zenon, <2>7, <5>1, FS_EmptySet
        <5>3. Cardinality(Awake') > 0
          BY <2>7, <5>2
        <5>4. rq.requests.active + Owed' + Cardinality(Awake') > 0
          BY <2>6, <2>7, <5>3
        <5> QED
          BY Zenon, <5>4
      <4>4. CASE sleeper(1) \notin Bios
        <5>1. PICK i \in Waiters : sleeper(1) = waiterThread(i) /\ rq.waiters[i].pc = "wait"
          BY Zenon, <4>1, <4>4 DEF Sleeping
        <5>2. i # j
          BY Zenon, <3>2, <4>2, <5>1
        <5> QED
          BY Zenon, <3>2, <5>1, <5>2 DEF Compression, isWaiting
      <4> QED
        BY Zenon, <4>3, <4>4
    <3> QED
      BY <3>3, <3>4
  <2> QED
    BY Zenon, <2>3, <2>5, <2>8, <2>9 DEF Wakeups
<1> QED
  BY <1>1, <1>2, <1>3

-----------------------------------------------------------------------------
(* completeManyRequests()                                                  *)

(* A batch which releases its permits, or wakes those who wait, leaves the *)
(* rest alone.                                                             *)
LEMMA ReleaseStep ==
  ASSUME RInv, RequestsTypeOK', restIsSame, rq'.discards = rq.discards, rq'.kvios = rq.kvios, rq'.batch.queue = rq.batch.queue,
         rq'.deadlockQueue = rq.deadlockQueue, rq'.pcs = rq.pcs, rq'.overtaken = rq.overtaken,
         Batched', Permits', Deadlocked', Sleeping', Wakeups'
  PROVE  RInv'
<1>1. NoAssertionFails'
  BY Zenon DEF RInv, NoAssertionFails, restIsSame
<1>2. Queued' /\ Discards' /\ Acknowledged'
  BY Zenon, FrameQueued, FrameDiscards, FrameAcknowledged DEF RInv, restIsSame
<1>3. Compression' /\ WaitingDiscards'
  BY Zenon, FrameCompression, FrameWaitingDiscards DEF RInv, restIsSame
<1> QED
  BY Zenon, <1>1, <1>2, <1>3 DEF RInv

(* It releases the permits, and then wakes as many of those who wait.      *)
LEMMA CompleteManyRequestsRInv ==
  ASSUME RInv, NEW i \in Runs, completeManyRequests(i)
  PROVE  RInv'
<1>0. RequestsTypeOK /\ Batched /\ Permits /\ Compression /\ Sleeping /\ Wakeups
  BY Zenon DEF RInv
<1> DEFINE n == rq.batch.runs[i].count
<1>1. n \in Nat /\ rq.batch \in Batch /\ rq.requests \in Limiter /\ rq.requests.active \in Int
  BY Zenon, <1>0, MapPieces DEF Batch, Run, Limiter
<1>2. CASE /\ rq.batch.runs[i].pc = "complete" /\ (n = 0 \/ rq.deadlockQueue = <<>>)
           /\ rq' = [rq EXCEPT !.requests.active = @ - n, !.batch.runs[i].pc = "wake"]
  <2> DEFINE active == rq.requests.active - n
             requests == [rq.requests EXCEPT !.active = active]
             batch == changed(i, "wake", rq.batch.state, rq.batch.lock, rq.batch.schedulers)
  <2>1. active \in Int
    BY <1>1
  <2>2. rq' = mapped(requests, rq.discards, rq.kvios, batch, rq.deadlockQueue, rq.pcs, rq.overtaken)
    <3>1. [rq.batch EXCEPT !.runs[i].pc = "wake"] = batch
      BY <1>0, Pieces, Zenon DEF changed, Batch
    <3>2. rq' = [rq EXCEPT !.requests = requests, !.batch = [rq.batch EXCEPT !.runs[i].pc = "wake"]]
      BY Zenon, <1>0, <1>2, MapPieces
    <3> HIDE DEF batch, requests
    <3> QED
      BY <1>0, <3>1, <3>2, MapPieces, Zenon DEF mapped
  <2>3. /\ requests \in Limiter /\ requests.active = active /\ requests.limit = rq.requests.limit
        /\ requests.waiterQueue = rq.requests.waiterQueue
    <3> HIDE DEF active
    <3> QED
      BY Zenon, <1>1, <2>1 DEF Limiter
  <2>4. /\ batch \in Batch
        /\ batch.state = rq.batch.state /\ batch.lock = rq.batch.lock /\ batch.queue = rq.batch.queue
        /\ batch.schedulers = rq.batch.schedulers
        /\ \A j \in Runs : batch.runs[j].pc = (IF j = i THEN "wake" ELSE rq.batch.runs[j].pc)
                           /\ batch.runs[j].count = rq.batch.runs[j].count
    <3>1. "wake" \in RunPCs /\ rq.batch.state \in {"idle", "enqueued"} /\ rq.batch.lock \in 0 .. 2 /\ rq.batch.schedulers \in Nat
      BY Zenon, <1>1 DEF RunPCs, Batch
    <3>2. batch = changed(i, "wake", rq.batch.state, rq.batch.lock, rq.batch.schedulers)
      BY Zenon
    <3>3. RequestsTypeOK
      BY Zenon, <1>0
    <3> HIDE DEF batch, requests, n, active
    <3> QED
      BY <3>1, <3>2, <3>3, ChangedBatch
  <2>5. \A j \in Runs : j # i => batch.runs[j] = rq.batch.runs[j]
    BY <1>0, ChangedOthers
  <2> HIDE DEF requests, batch, active
  <2>6. /\ RequestsTypeOK' /\ restIsSame /\ rq'.requests = requests /\ rq'.discards = rq.discards /\ rq'.kvios = rq.kvios
        /\ rq'.batch = batch /\ rq'.deadlockQueue = rq.deadlockQueue /\ rq'.pcs = rq.pcs /\ rq'.overtaken = rq.overtaken
        /\ Bios' = Bios /\ KVIOs' = KVIOs /\ Waiters' = Waiters
    BY <1>0, <2>2, <2>3, <2>4, MapPieces, MapAlone
  <2>7. Batched'
    <3>1. rq.batch.runs[i].pc = "complete" /\ rq'.batch = batch
      BY ZenonT(30), <1>2, <2>6
    <3> QED
      BY <1>0, <2>4, <3>1 DEF Batched, ActivePCs, LockedPCs, CountingPCs
  <2>8. /\ counted(i, CountingPCs \ {"wake"}) = n /\ counted(i, CountingPCs \ {"wake"})' = 0
        /\ counted(i, {"wake"}) = 0 /\ counted(i, {"wake"})' = n
        /\ counted(i, {"loop", "resched"}) = 0 /\ counted(i, {"loop", "resched"})' = 0
    BY <1>2, <2>4, <2>6 DEF counted, CountingPCs
  <2>9. \A j \in Runs : j # i => rq'.batch.runs[j] = rq.batch.runs[j]
    BY Zenon, <2>5, <2>6
  <2>10. /\ Owed \in Nat /\ Owed' = Owed + n /\ Cleaning' = Cleaning
    <3>1. rq'.batch \in Batch
      BY Zenon, <2>4, <2>6
    <3>2. Owed \in Nat /\ Owed' = Owed + n - 0
      BY <1>1, <2>8, <2>9, <3>1, CountsChange DEF Owed
    <3>3. Cleaning \in Nat /\ Cleaning' = Cleaning + 0 - 0
      BY <1>1, <2>8, <2>9, <3>1, CountsChange DEF Cleaning
    <3> QED
      BY <1>1, <3>2, <3>3
  <2>11. Permits'
    <3>1. Used' = Used /\ cleaned(rq)' = cleaned(rq)
      BY Zenon, <2>6 DEF Used, cleaned, KVIOs
    <3>2. /\ rq'.requests.active - rq.requests.active = counted(i, CountingPCs \ {"wake"})' - counted(i, CountingPCs \ {"wake"})
          /\ rq'.requests.active <= rq.requests.active
      BY <1>1, <2>3, <2>6, <2>8 DEF active
    <3>3. Cardinality(cleaned(rq)') = Cleaning'
      BY Zenon, <1>0, <2>10, <3>1 DEF Permits
    <3>4. rq'.bios = rq.bios /\ rq'.pcs = rq.pcs /\ rq'.requests.limit = rq.requests.limit
      BY Zenon, <2>3, <2>6 DEF restIsSame
    <3> QED
      BY <1>0, <2>6, <2>9, <3>1, <3>2, <3>3, <3>4, PermitsOfBatch
  <2>12. Deadlocked'
    <3>1. CASE n = 0
      <4>1. rq'.requests.active = rq.requests.active
        BY <1>1, <2>3, <2>6, <3>1 DEF active
      <4> QED
        BY Zenon, <2>3, <2>6, <4>1, FrameDeadlocked DEF RInv, restIsSame
    <3>2. CASE rq.deadlockQueue = <<>>
      BY <2>6, <3>2 DEF Deadlocked
    <3> QED
      BY Zenon, <1>2, <3>1, <3>2
  <2>13. Sleeping'
    BY Zenon, <1>0, <2>3, <2>6, FrameSleeping DEF restIsSame
  <2>14. Wakeups'
    <3>1. rq'.requests.active \in Int /\ Owed' \in Nat /\ rq'.requests.active + Owed' >= rq.requests.active + Owed
      BY <1>1, <2>1, <2>3, <2>6, <2>10 DEF active
    <3> QED
      BY ZenonT(30), <1>0, <2>3, <2>6, <2>10, <3>1, WakeupsKept DEF restIsSame
  <2> QED
    BY <2>4, <2>6, <2>7, <2>11, <2>12, <2>13, <2>14, ReleaseStep
<1>3. CASE /\ rq.batch.runs[i].pc = "wake"
           /\ rq' = [rq EXCEPT !.requests = wake(@, n), !.batch.runs[i] = [pc |-> "loop", count |-> 0]]
  <2> DEFINE requests == wake(rq.requests, n)
             run == [pc |-> "loop", count |-> 0]
             batch == [rq.batch EXCEPT !.runs = [@ EXCEPT ![i] = run]]
  <2>2. rq' = mapped(requests, rq.discards, rq.kvios, batch, rq.deadlockQueue, rq.pcs, rq.overtaken)
    <3> HIDE DEF run, requests
    <3>1. rq' = [rq EXCEPT !.requests = requests, !.batch = batch]
      BY Zenon, <1>0, <1>3, MapPieces DEF run, requests, Batch
    <3> HIDE DEF batch
    <3> QED
      BY <1>0, <3>1, MapPieces, Zenon DEF mapped
  <2>3. /\ requests \in Limiter /\ requests.active = rq.requests.active /\ requests.limit = rq.requests.limit
        /\ requests.waiterQueue = after(rq.requests.waiterQueue, n)
    BY Zenon, <1>1, WokenLimiter
  <2>4. /\ batch \in Batch
        /\ batch.state = rq.batch.state /\ batch.lock = rq.batch.lock /\ batch.queue = rq.batch.queue
        /\ batch.schedulers = rq.batch.schedulers
        /\ \A j \in Runs : batch.runs[j] = (IF j = i THEN run ELSE rq.batch.runs[j])
    <3>1. run \in Run
      BY Zenon DEF Run, RunPCs
    <3> HIDE DEF run
    <3> QED
      BY Zenon, <1>1, <3>1 DEF Batch
  <2>5. run.pc = "loop" /\ run.count = 0
    BY Zenon
  <2> HIDE DEF requests, batch, run
  <2>6. /\ RequestsTypeOK' /\ restIsSame /\ rq'.requests = requests /\ rq'.discards = rq.discards /\ rq'.kvios = rq.kvios
        /\ rq'.batch = batch /\ rq'.deadlockQueue = rq.deadlockQueue /\ rq'.pcs = rq.pcs /\ rq'.overtaken = rq.overtaken
        /\ Bios' = Bios /\ KVIOs' = KVIOs /\ Waiters' = Waiters
    BY <1>0, <2>2, <2>3, <2>4, MapPieces, MapAlone
  <2>7. Batched'
    <3>1. ~(0 > 0)
      OBVIOUS
    <3>2. ASSUME NEW j \in Runs
          PROVE  /\ rq'.batch.runs[j].pc \in ActivePCs <=> rq.batch.runs[j].pc \in ActivePCs
                 /\ rq'.batch.runs[j].pc \in LockedPCs <=> rq.batch.runs[j].pc \in LockedPCs
                 /\ rq'.batch.runs[j].pc = "none" <=> rq.batch.runs[j].pc = "none"
                 /\ rq'.batch.runs[j].count > 0 => rq'.batch.runs[j].pc \in CountingPCs
      <4>1. CASE j = i
        BY Zenon, <1>3, <2>4, <2>5, <2>6, <3>1, <4>1 DEF ActivePCs, LockedPCs
      <4>2. CASE j # i
        BY Zenon, <1>0, <2>4, <2>6, <4>2 DEF Batched
      <4> QED BY Zenon, <4>1, <4>2
    <3> QED BY Zenon, <1>0, <2>4, <2>6, <3>2 DEF Batched
  <2>8. /\ counted(i, CountingPCs \ {"wake"}) = 0 /\ counted(i, CountingPCs \ {"wake"})' = 0
        /\ counted(i, {"wake"}) = n /\ counted(i, {"wake"})' = 0
        /\ counted(i, {"loop", "resched"}) = 0 /\ counted(i, {"loop", "resched"})' = 0
    BY Zenon, <1>3, <2>4, <2>5, <2>6 DEF counted, CountingPCs
  <2>9. \A j \in Runs : j # i => rq'.batch.runs[j] = rq.batch.runs[j]
    BY Zenon, <2>4, <2>6
  <2>10. Owed \in Nat /\ Owed' \in Nat /\ Owed = Owed' + n /\ Cleaning' = Cleaning /\ Held \in Nat
    <3>1. rq'.batch \in Batch
      BY Zenon, <2>4, <2>6
    <3>2. Owed \in Nat /\ Owed' = Owed + 0 - n
      BY Zenon, <1>1, <2>8, <2>9, <3>1, CountsChange DEF Owed
    <3>3. Cleaning \in Nat /\ Cleaning' = Cleaning + 0 - 0
      BY Zenon, <1>1, <2>8, <2>9, <3>1, CountsChange DEF Cleaning
    <3>4. Held \in Nat
      BY Zenon, <1>1, <2>9, <3>1, CountsChange DEF Held
    <3>5. Owed' \in Nat
      BY <3>1 DEF Owed, counted, Batch, Run, Runs
    <3> QED
      BY <1>1, <3>2, <3>3, <3>4, <3>5
  <2>11. Permits'
    <3>1. Used' = Used /\ cleaned(rq)' = cleaned(rq)
      BY <2>6 DEF Used, cleaned, KVIOs
    <3>2. /\ rq'.requests.active - rq.requests.active = counted(i, CountingPCs \ {"wake"})' - counted(i, CountingPCs \ {"wake"})
          /\ rq'.requests.active <= rq.requests.active
      BY <1>1, <2>3, <2>6, <2>8
    <3>3. Cardinality(cleaned(rq)') = Cleaning'
      BY Zenon, <1>0, <2>10, <3>1 DEF Permits
    <3>4. rq'.bios = rq.bios /\ rq'.pcs = rq.pcs /\ rq'.requests.limit = rq.requests.limit
      BY Zenon, <2>3, <2>6 DEF restIsSame
    <3> QED
      BY <1>0, <2>6, <2>9, <3>1, <3>2, <3>3, <3>4, PermitsOfBatch
  <2>12. Deadlocked'
    BY Zenon, <2>3, <2>6, FrameDeadlocked DEF RInv, restIsSame
  <2>13. Sleeping' /\ Wakeups'
    BY Zenon, <1>0, <1>1, <2>3, <2>6, <2>10, WakeupsWoken DEF restIsSame
  <2> QED
    BY Zenon, <2>4, <2>6, <2>7, <2>11, <2>12, <2>13, ReleaseStep
<1> QED
  BY Zenon, <1>2, <1>3 DEF completeManyRequests

-----------------------------------------------------------------------------
(* A bio before its launch                                                 *)

bioMoves(b, pc) ==
  /\ restIsSame /\ rq'.kvios = rq.kvios /\ rq'.batch = rq.batch
  /\ rq'.requests.waiterQueue = rq.requests.waiterQueue /\ rq'.requests.limit = rq.requests.limit
  /\ rq'.discards.waiterQueue = rq.discards.waiterQueue /\ rq'.discards.limit = rq.discards.limit
  /\ Bios' = Bios /\ KVIOs' = KVIOs /\ Waiters' = Waiters
  /\ \A c \in Bios : rq'.pcs[c] = (IF c = b THEN pc ELSE rq.pcs[c])

(* A bio about to launch has a request permit.                             *)
LEMMA BioPermits ==
  ASSUME RequestsTypeOK, Permits, NEW b \in Bios, NEW pc \in BioPCs, bioMoves(b, pc), rq.pcs[b] # "launch",
         rq'.requests.active = rq.requests.active + (IF pc = "launch" THEN 1 ELSE 0), rq'.requests.active <= rq.requests.limit
  PROVE  Permits' /\ Owed' = Owed
<1>1. Used' = Used /\ cleaned(rq)' = cleaned(rq) /\ Held' = Held /\ Owed' = Owed /\ Cleaning' = Cleaning
  BY Zenon DEF bioMoves, Used, cleaned, KVIOs, Held, Owed, Cleaning, counted
<1>2. /\ IsFiniteSet(Launching) /\ Cardinality(Launching) \in Nat /\ Cardinality(Used) \in Nat /\ Cardinality(cleaned(rq)) \in Nat
      /\ rq.requests.active \in Int
  BY Zenon, FiniteCounts DEF RequestsTypeOK, Limiter
<1>3. Held \in Int
  BY DEF Held, counted, RequestsTypeOK, Batch, Run, Runs
<1>4. Cardinality(Launching') = Cardinality(Launching) + (IF pc = "launch" THEN 1 ELSE 0)
  <2>1. CASE pc = "launch"
    <3>1. Launching' = Launching \cup {b} /\ b \notin Launching
      BY Zenon, <2>1 DEF Launching, bioMoves
    <3> QED
      BY Zenon, <1>2, <2>1, <3>1, OneMore
  <2>2. CASE pc # "launch"
    <3>1. Launching' = Launching
      BY Zenon, <2>2 DEF Launching, bioMoves
    <3> QED
      BY <1>2, <2>2, <3>1
  <2> QED
    BY Zenon, <2>1, <2>2
<1>5. rq'.requests.active = Cardinality(Launching') + Cardinality(Used') + Held'
  <2>1. rq.requests.active = Cardinality(Launching) + Cardinality(Used) + Held
    BY Zenon DEF Permits
  <2> QED
    BY <1>1, <1>2, <1>3, <1>4, <2>1
<1> QED
  BY Zenon, <1>1, <1>5 DEF Permits, bioMoves

(* A discard has its permit from the time it is given to the launch.       *)
LEMMA BioDiscards ==
  ASSUME RequestsTypeOK, Discards, NEW b \in Bios, NEW pc \in BioPCs, bioMoves(b, pc), b \in Holding => b \in Holding',
         rq'.discards.active = rq.discards.active + (IF b \in Holding' /\ b \notin Holding THEN 1 ELSE 0),
         pc \in {"wantDiscard", "wantRequest", "launch"} => ~rq.bios[b].onVDOThread, pc = "wantDiscard" => isDiscardBio(b)
  PROVE  Discards'
<1>1. WithPermit' = WithPermit /\ Bios' = Bios /\ KVIOs' = KVIOs /\ \A c \in Bios : isDiscardBio(c)' <=> isDiscardBio(c)
  BY Zenon DEF bioMoves, restIsSame, WithPermit, isDiscardBio
<1>2. \A c \in Bios : c # b => (c \in Holding' <=> c \in Holding)
  BY Zenon DEF bioMoves, Holding, restIsSame, isDiscardBio
<1>3. /\ IsFiniteSet(Holding) /\ Cardinality(Holding) \in Nat /\ Cardinality(WithPermit) \in Nat /\ Holding' \subseteq Bios /\ Holding \subseteq Bios
  <2>1. Holding' \subseteq Bios /\ Holding \subseteq Bios /\ WithPermit \subseteq KVIOs
    BY Zenon, <1>1 DEF Holding, WithPermit
  <2> QED
    BY Zenon, <2>1, FinitelyMany, FS_Subset, FS_CardinalityType
<1>4. Cardinality(Holding') = Cardinality(Holding) + (IF b \in Holding' /\ b \notin Holding THEN 1 ELSE 0)
  <2>1. CASE b \in Holding' /\ b \notin Holding
    <3>1. Holding' = Holding \cup {b}
      BY Zenon, <1>2, <1>3, <2>1
    <3> QED
      BY Zenon, <1>3, <2>1, <3>1, OneMore
  <2>2. CASE ~(b \in Holding' /\ b \notin Holding)
    <3>1. Holding' = Holding
      BY <1>2, <1>3, <2>2
    <3> QED
      BY <1>3, <2>2, <3>1
  <2> QED
    BY Zenon, <2>1, <2>2
<1>5. rq'.discards.active = Cardinality(Holding') + Cardinality(WithPermit')
  <2>1. rq.discards.active = Cardinality(Holding) + Cardinality(WithPermit)
    BY Zenon DEF Discards
  <2> HIDE DEF Holding
  <2> QED
    BY <1>1, <1>3, <1>4, <2>1
<1>6. \A c \in Bios : rq'.pcs[c] \in {"wantDiscard", "wantRequest", "launch"} => ~rq'.bios[c].onVDOThread
  BY Zenon DEF Discards, bioMoves, restIsSame
<1>7. \A c \in Bios : rq'.pcs[c] = "wantDiscard" => isDiscardBio(c)
  BY Zenon DEF Discards, bioMoves
<1> QED
  BY Zenon, <1>1, <1>5, <1>6, <1>7 DEF Discards, bioMoves, restIsSame

(* No DataKVIO has the bio yet.                                            *)
LEMMA BioAcknowledged ==
  ASSUME RequestsTypeOK, Acknowledged, NEW b \in Bios, NEW pc \in BioPCs, bioMoves(b, pc), rq.pcs[b] # "launched", pc # "launched"
  PROVE  Acknowledged'
  BY DEF Acknowledged, bioMoves, restIsSame

(* Who sleeps, and whose wakeups there are, when an awake bio goes on.     *)
LEMMA BioWakeups ==
  ASSUME RequestsTypeOK, Sleeping, Wakeups, NEW b \in Bios, NEW pc \in BioPCs, bioMoves(b, pc), ~isAsleep(rq.requests, b),
         rq'.requests.active = rq.requests.active + (IF pc = "launch" THEN 1 ELSE 0), Owed' = Owed,
         rq.pcs[b] = "wantRequest" => pc = "launch", rq.requests.active >= 0
  PROVE  Sleeping' /\ Wakeups'
<1>1. Sleepers' = Sleepers /\ \A p \in Sleepers : sleeper(p)' = sleeper(p)
  BY Zenon DEF Sleepers, sleeper, bioMoves
<1>2. \A p \in Sleepers : sleeper(p) # b
  BY DEF isAsleep, inQueue, Sleepers, sleeper
<1>3. Sleeping'
  <2>1. \A p \in Sleepers : \/ sleeper(p) \in Bios /\ rq'.pcs[sleeper(p)] = "wantRequest"
                            \/ \E i \in Waiters : sleeper(p) = waiterThread(i) /\ rq'.waiters[i].pc = "wait"
    BY Zenon, <1>2 DEF Sleeping, bioMoves, restIsSame
  <2> QED
    BY <1>1, <2>1 DEF Sleeping, bioMoves
<1>4. Ahead' = Ahead
  BY <1>1 DEF Ahead, bioMoves
<1>5. \A c \in Bios : c # b => (c \in Awake' <=> c \in Awake)
  BY Zenon DEF Awake, bioMoves, isAsleep
<1>6. Awake \ {b} \subseteq Awake' /\ Spared \ {b} \subseteq Spared'
  BY Zenon, <1>4, <1>5 DEF Awake, Spared, bioMoves
<1>7. pc # "launch" => (b \in Awake => b \in Awake')
  BY Zenon DEF Awake
<1>8. /\ IsFiniteSet(Spared') /\ IsFiniteSet(Awake') /\ Cardinality(Spared') \in Nat /\ Cardinality(Awake') \in Nat
  <2>1. Awake' \subseteq Bios /\ Spared' \subseteq Bios \cup {waiterThread(i) : i \in Waiters}
    BY Zenon DEF Awake, Spared, bioMoves
  <2> QED
    BY Zenon, <2>1, FinitelyMany, FiniteThreads, FS_Subset, FS_CardinalityType
<1>9. IsFiniteSet(Awake) /\ IsFiniteSet(Spared) /\ Cardinality(Awake) \in Nat /\ Cardinality(Spared) \in Nat
  BY Zenon, FiniteWakeups
<1>10. rq.requests.active \in Int /\ rq.requests.limit \in Nat /\ rq'.requests.limit = rq.requests.limit /\ Owed \in Nat
  BY DEF RequestsTypeOK, Limiter, bioMoves, Owed, counted, Batch, Run, Runs
<1>11. CASE pc = "launch"
  <2>1. Cardinality(Spared \ {b}) >= Cardinality(Spared) - 1 /\ Cardinality(Spared \ {b}) \in Nat
    <3>1. CASE b \in Spared
      BY <1>9, <3>1, FS_Subset, FS_CardinalityType, OneLess
    <3>2. CASE b \notin Spared
      <4>1. Spared \ {b} = Spared
        BY Zenon, <3>2
      <4> QED
        BY <1>9, <4>1
    <3> QED
      BY Zenon, <3>1, <3>2
  <2>2. Cardinality(Spared \ {b}) <= Cardinality(Spared')
    BY Zenon, <1>6, <1>8, FS_Subset
  <2>3. (\E p \in Sleepers : sleeper(p) \in Bios) => rq'.requests.active + Owed' + Cardinality(Spared') >= rq'.requests.limit
    BY <1>8, <1>9, <1>10, <1>11, <2>1, <2>2 DEF Wakeups
  <2>4. rq'.requests.active + Owed' + Cardinality(Awake') > 0
    BY <1>8, <1>10, <1>11
  <2> QED
    BY Zenon, <1>1, <1>3, <2>3, <2>4 DEF Wakeups, bioMoves
<1>12. CASE pc # "launch"
  <2>1. Awake \subseteq Awake' /\ Spared \subseteq Spared'
    BY Zenon, <1>4, <1>6, <1>7, <1>12 DEF Spared, bioMoves
  <2>2. Cardinality(Awake) <= Cardinality(Awake') /\ Cardinality(Spared) <= Cardinality(Spared')
    BY Zenon, <1>8, <2>1, FS_Subset
  <2>3. rq'.requests.active = rq.requests.active
    BY <1>10, <1>12
  <2>4. (\E p \in Sleepers : sleeper(p) \in Bios) => rq'.requests.active + Owed' + Cardinality(Spared') >= rq'.requests.limit
    BY <1>8, <1>9, <1>10, <2>2, <2>3 DEF Wakeups
  <2>5. (\E p \in Sleepers : sleeper(p) \notin Bios) => rq'.overlapped \/ rq'.requests.active + Owed' + Cardinality(Awake') > 0
    BY <1>8, <1>9, <1>10, <2>2, <2>3 DEF Wakeups, bioMoves, restIsSame
  <2> QED
    BY Zenon, <1>1, <1>3, <2>4, <2>5 DEF Wakeups, bioMoves
<1> QED
  BY Zenon, <1>11, <1>12

(* Who waits for a discard permit.                                         *)
LEMMA BioWaitingDiscards ==
  ASSUME RequestsTypeOK, WaitingDiscards, NEW b \in Bios, NEW pc \in BioPCs, bioMoves(b, pc), ~isAsleep(rq.discards, b),
         rq'.discards.active \in Int, rq'.discards.active >= rq.discards.active + (IF rq.pcs[b] = "wantDiscard" THEN 1 ELSE 0)
  PROVE  WaitingDiscards'
<1>1. DiscardSleepers' = DiscardSleepers /\ \A p \in DiscardSleepers : rq'.discards.waiterQueue[p] = rq.discards.waiterQueue[p]
  BY Zenon DEF DiscardSleepers, bioMoves
<1>2. \A p \in DiscardSleepers : rq.discards.waiterQueue[p] # b
  BY DEF isAsleep, inQueue, DiscardSleepers
<1>3. \A p \in DiscardSleepers : rq.discards.waiterQueue[p] \in Bios /\ rq'.pcs[rq.discards.waiterQueue[p]] = "wantDiscard"
  BY Zenon, <1>2 DEF WaitingDiscards, bioMoves
<1>4. AwakeDiscards \ {b} \subseteq AwakeDiscards' /\ AwakeDiscards' \subseteq Bios
  BY Zenon DEF AwakeDiscards, bioMoves, isAsleep
<1>5. IsFiniteSet(AwakeDiscards) /\ Cardinality(AwakeDiscards) \in Nat /\ IsFiniteSet(AwakeDiscards') /\ Cardinality(AwakeDiscards') \in Nat
  BY Zenon, <1>4, FiniteWakeups, FinitelyMany, FS_Subset, FS_CardinalityType
<1>6. Cardinality(AwakeDiscards \ {b}) <= Cardinality(AwakeDiscards') /\ Cardinality(AwakeDiscards \ {b}) \in Nat
  BY Zenon, <1>4, <1>5, FS_Subset, FS_CardinalityType
<1>7. Cardinality(AwakeDiscards \ {b}) = Cardinality(AwakeDiscards) - (IF rq.pcs[b] = "wantDiscard" THEN 1 ELSE 0)
  <2>1. CASE rq.pcs[b] = "wantDiscard"
    <3>1. b \in AwakeDiscards
      BY Zenon, <2>1 DEF AwakeDiscards
    <3> QED
      BY Zenon, <1>5, <2>1, <3>1, OneLess
  <2>2. CASE rq.pcs[b] # "wantDiscard"
    <3>1. AwakeDiscards \ {b} = AwakeDiscards
      BY Zenon, <2>2 DEF AwakeDiscards
    <3> DEFINE S == AwakeDiscards \ {b}
    <3> HIDE DEF S
    <3>2. Cardinality(S) = Cardinality(AwakeDiscards) - 0
      <4>1. S = AwakeDiscards
        BY Zenon, <3>1 DEF S
      <4> QED
        BY <1>5, <4>1
    <3>3. Cardinality(AwakeDiscards \ {b}) = Cardinality(AwakeDiscards) - 0
      BY Zenon, <3>2 DEF S
    <3> QED
      BY Zenon, <2>2, <3>3
  <2> QED
    BY Zenon, <2>1, <2>2
<1>8. rq.discards.active \in Int /\ rq.discards.limit \in Nat
  BY Zenon DEF RequestsTypeOK, Limiter
<1>9. rq.discards.active + Cardinality(AwakeDiscards) <= rq'.discards.active + Cardinality(AwakeDiscards')
  BY <1>5, <1>6, <1>7, <1>8
<1>10. rq'.discards.waiterQueue # <<>> => rq'.stranded \/ rq'.discards.active + Cardinality(AwakeDiscards') >= rq'.discards.limit
  BY <1>5, <1>8, <1>9 DEF WaitingDiscards, bioMoves, restIsSame
<1>11. \A p, q \in DiscardSleepers : rq'.discards.waiterQueue[p] = rq'.discards.waiterQueue[q] => p = q
  BY Zenon, <1>1 DEF WaitingDiscards
<1> QED
  BY Zenon, <1>1, <1>3, <1>10, <1>11 DEF WaitingDiscards, bioMoves

(* The deadlock queue, while there is a permit or none is taken.           *)
LEMMA BioDeadlocked ==
  ASSUME RequestsTypeOK, Deadlocked, NEW b \in Bios, NEW pc \in BioPCs, bioMoves(b, pc), rq.pcs[b] # "deadlocked",
         rq'.deadlockQueue = rq.deadlockQueue, rq'.overtaken = rq.overtaken,
         rq'.requests.active = rq.requests.active \/ rq.requests.active < rq.requests.limit
  PROVE  Deadlocked'
<1>1. \A p \in 1 .. Len(rq.deadlockQueue) : rq.deadlockQueue[p] \in Bios /\ rq'.pcs[rq.deadlockQueue[p]] = "deadlocked"
  BY Zenon DEF Deadlocked, bioMoves
<1>2. rq.requests.active \in Int /\ rq.requests.limit \in Nat
  BY Zenon DEF RequestsTypeOK, Limiter
<1>3. rq'.deadlockQueue # <<>> => rq'.overtaken \/ rq'.requests.active = rq'.requests.limit
  BY <1>2 DEF Deadlocked, bioMoves
<1> QED
  BY Zenon, <1>1, <1>3 DEF Deadlocked, bioMoves

(* What has to be known of a step of a bio.                                *)
LEMMA BioStep ==
  ASSUME RInv, RequestsTypeOK', NEW b \in Bios, NEW pc \in BioPCs, bioMoves(b, pc),
         rq.pcs[b] \notin {"launch", "launched"}, pc # "launched", ~isAsleep(rq.requests, b), ~isAsleep(rq.discards, b),
         rq.pcs[b] = "wantRequest" => pc = "launch", pc = "wantDiscard" => isDiscardBio(b),
         pc \in {"wantDiscard", "wantRequest", "launch"} => ~rq.bios[b].onVDOThread,
         rq'.requests.active = rq.requests.active + (IF pc = "launch" THEN 1 ELSE 0), rq'.requests.active <= rq.requests.limit,
         b \in Holding => b \in Holding', rq.pcs[b] = "wantDiscard" => b \in Holding' /\ b \notin Holding,
         rq'.discards.active = rq.discards.active + (IF b \in Holding' /\ b \notin Holding THEN 1 ELSE 0),
         Deadlocked'
  PROVE  RInv'
<1>1. rq.discards.active \in Int /\ rq'.discards.active \in Int /\ rq.requests.active \in Int
  BY Zenon DEF RInv, RequestsTypeOK, Limiter
<1>2. rq.requests.active >= 0
  <2>1. Cardinality(Launching) \in Nat /\ Cardinality(Used) \in Nat
    BY Zenon, FiniteCounts DEF RInv
  <2>2. Held \in Nat
    BY Zenon, CountsAreNumbers DEF RInv
  <2> QED
    BY <2>1, <2>2 DEF RInv, Permits
<1>3. Permits' /\ Owed' = Owed
  BY Zenon, BioPermits DEF RInv
<1>4. Discards'
  BY Zenon, BioDiscards DEF RInv
<1>5. Acknowledged'
  BY Zenon, BioAcknowledged DEF RInv
<1>6. Sleeping' /\ Wakeups'
  BY Zenon, <1>2, <1>3, BioWakeups DEF RInv
<1>7. rq'.discards.active >= rq.discards.active + (IF rq.pcs[b] = "wantDiscard" THEN 1 ELSE 0)
  BY <1>1
<1>8. WaitingDiscards'
  BY Zenon, <1>1, <1>7, BioWaitingDiscards DEF RInv
<1>9. NoAssertionFails' /\ Batched' /\ Queued' /\ Compression'
  BY Zenon, FrameBatched, FrameQueued, FrameCompression DEF RInv, NoAssertionFails, bioMoves, restIsSame
<1> QED
  BY ZenonT(30), <1>3, <1>4, <1>5, <1>6, <1>8, <1>9 DEF RInv

(* Who is not waiting is not asleep.                                       *)
LEMMA OnlyThoseWhoWaitSleep ==
  ASSUME RequestsTypeOK, Sleeping, WaitingDiscards, NEW b \in Bios
  PROVE  /\ rq.pcs[b] # "wantRequest" => ~isAsleep(rq.requests, b)
         /\ rq.pcs[b] # "wantDiscard" => ~isAsleep(rq.discards, b)
<1>1. \A i \in Waiters : waiterThread(i) # b
  BY FinitelyMany DEF waiterThread
<1>2. rq.pcs[b] # "wantRequest" => ~isAsleep(rq.requests, b)
  BY <1>1, SleeperHasItsPlace DEF Sleeping
<1>3. rq.pcs[b] # "wantDiscard" => ~isAsleep(rq.discards, b)
  BY Zenon, SleeperHasItsPlace DEF WaitingDiscards
<1> QED
  BY Zenon, <1>2, <1>3

(* What the step of a bio to another place changes.                        *)
LEMMA BioGoesOn ==
  ASSUME RequestsTypeOK, NEW requests \in Limiter, requests.limit = rq.requests.limit, requests.waiterQueue = rq.requests.waiterQueue,
         NEW discards \in Limiter, discards.limit = rq.discards.limit, discards.waiterQueue = rq.discards.waiterQueue,
         NEW deadlockQueue \in Seq(Nat), NEW overtaken \in BOOLEAN, NEW b \in Bios, NEW pc \in BioPCs,
         rq' = mapped(requests, discards, rq.kvios, rq.batch, deadlockQueue, pcsWith(b, pc), overtaken)
  PROVE  /\ RequestsTypeOK' /\ bioMoves(b, pc) /\ rq'.requests = requests /\ rq'.discards = discards
         /\ rq'.deadlockQueue = deadlockQueue /\ rq'.overtaken = overtaken
<1> DEFINE pcs == pcsWith(b, pc)
<1>1. pcs \in [Bios -> BioPCs] /\ \A c \in Bios : pcs[c] = (IF c = b THEN pc ELSE rq.pcs[c])
  BY Zenon, MapPieces DEF pcsWith
<1>2. rq' = mapped(requests, discards, rq.kvios, rq.batch, deadlockQueue, pcs, overtaken)
  BY Zenon
<1> HIDE DEF pcs
<1>3. /\ RequestsTypeOK' /\ restIsSame /\ rq'.requests = requests /\ rq'.discards = discards /\ rq'.kvios = rq.kvios
      /\ rq'.batch = rq.batch /\ rq'.deadlockQueue = deadlockQueue /\ rq'.pcs = pcs /\ rq'.overtaken = overtaken
      /\ Bios' = Bios /\ KVIOs' = KVIOs /\ Waiters' = Waiters
  <2>1. rq.kvios \in [KVIOs -> KVIO] /\ rq.batch \in Batch
    BY Zenon, MapPieces
  <2> QED
    BY <1>1, <1>2, <2>1, MapAlone
<1> QED
  BY Zenon, <1>1, <1>3 DEF bioMoves

(* The way of a bio which is not on a thread of VDO, or is refused there.  *)
LEMMA BioIsMappedRInv ==
  ASSUME RInv, NEW b \in Bios, rq.pcs[b] = "new", NEW pc \in {"wantDiscard", "wantRequest", "refused"},
         pc = "wantDiscard" => isDiscardBio(b), pc = "wantRequest" => ~isDiscardBio(b),
         pc # "refused" => ~rq.bios[b].onVDOThread, rq' = [rq EXCEPT !.pcs[b] = pc]
  PROVE  RInv'
<1>0. RequestsTypeOK /\ Sleeping /\ WaitingDiscards /\ Deadlocked
  BY Zenon DEF RInv
<1>1. rq' = mapped(rq.requests, rq.discards, rq.kvios, rq.batch, rq.deadlockQueue, pcsWith(b, pc), rq.overtaken)
  <2>1. rq' = [rq EXCEPT !.pcs = pcsWith(b, pc)]
    BY Zenon, <1>0, MapPieces DEF pcsWith
  <2> QED
    BY <1>0, <2>1, MapPieces, Zenon DEF mapped
<1>2. pc \in BioPCs
  BY Zenon DEF BioPCs
<1>3. /\ RequestsTypeOK' /\ bioMoves(b, pc) /\ rq'.requests = rq.requests /\ rq'.discards = rq.discards
      /\ rq'.deadlockQueue = rq.deadlockQueue /\ rq'.overtaken = rq.overtaken
  <2>1. RequestsTypeOK
    BY Zenon, <1>0
  <2>2. rq.requests \in Limiter /\ rq.discards \in Limiter /\ rq.deadlockQueue \in Seq(Nat) /\ rq.overtaken \in BOOLEAN
    BY Zenon, <1>0, MapPieces
  <2> QED
    BY ONLY b \in Bios, <1>1, <1>2, <2>1, <2>2, BioGoesOn
<1>4. ~isAsleep(rq.requests, b) /\ ~isAsleep(rq.discards, b)
  BY Zenon, <1>0, OnlyThoseWhoWaitSleep
<1>5. b \notin Holding /\ b \notin Holding'
  BY Zenon, <1>3 DEF Holding, bioMoves, restIsSame, isDiscardBio
<1>6. Deadlocked'
  BY Zenon, <1>0, <1>2, <1>3, BioDeadlocked
<1>7. /\ rq.requests.active \in Int /\ rq.requests.active <= rq.requests.limit /\ rq.discards.active \in Int
  BY Zenon DEF RInv, RequestsTypeOK, Limiter, Permits
<1>8. rq'.requests.active = rq.requests.active + 0 /\ rq'.discards.active = rq.discards.active + 0
  BY <1>3, <1>7
<1> QED
  BY ZenonT(30), <1>2, <1>3, <1>4, <1>5, <1>6, <1>7, <1>8, BioStep

(* addToDeadlockQueue() may put a bio there when there is a permit again.  *)
LEMMA AddToDeadlockQueueRInv ==
  ASSUME RInv, NEW b \in Bios, addToDeadlockQueue(b)
  PROVE  RInv'
<1>0. RequestsTypeOK /\ Sleeping /\ WaitingDiscards /\ Deadlocked /\ Permits
  BY Zenon DEF RInv
<1>1. rq.pcs[b] = "refused"
  BY Zenon DEF addToDeadlockQueue
<1> DEFINE q == rq.deadlockQueue
           queue == Append(q, b)
           overtaken == rq.overtaken \/ takePermitLocked(rq.requests)
           pc == "deadlocked"
<1>2. q \in Seq(Nat) /\ b \in Nat
  BY Zenon, <1>0, MapPieces, FinitelyMany
<1>3. /\ queue \in Seq(Nat) /\ Len(queue) = Len(q) + 1 /\ Len(q) \in Nat /\ queue[Len(q) + 1] = b
      /\ \A p \in 1 .. Len(q) : queue[p] = q[p]
  <2> HIDE DEF q
  <2> QED
    BY <1>2
<1>4. overtaken \in BOOLEAN
  BY Zenon, <1>0, MapPieces DEF takePermitLocked
<1>5. rq' = mapped(rq.requests, rq.discards, rq.kvios, rq.batch, queue, pcsWith(b, pc), overtaken)
  <2>1. rq' = [rq EXCEPT !.pcs = pcsWith(b, pc), !.deadlockQueue = queue, !.overtaken = overtaken]
    BY Zenon, <1>0, MapPieces DEF addToDeadlockQueue, pcsWith
  <2> HIDE DEF queue, overtaken, pc
  <2> QED
    BY <1>0, <2>1, MapPieces, Zenon DEF mapped
<1>6. pc \in BioPCs /\ pc \notin {"wantDiscard", "wantRequest", "launch", "launched"} /\ pc = "deadlocked"
  BY Zenon DEF BioPCs
<1> HIDE DEF queue, overtaken, pc
<1>7. /\ RequestsTypeOK' /\ bioMoves(b, pc) /\ rq'.requests = rq.requests /\ rq'.discards = rq.discards
      /\ rq'.deadlockQueue = queue /\ rq'.overtaken = overtaken
  <2>1. RequestsTypeOK
    BY Zenon, <1>0
  <2> QED
    BY <1>3, <1>4, <1>5, <1>6, <2>1, MapPieces, BioGoesOn
<1>8. ~isAsleep(rq.requests, b) /\ ~isAsleep(rq.discards, b)
  BY Zenon, <1>0, <1>1, OnlyThoseWhoWaitSleep
<1>9. b \notin Holding /\ b \notin Holding'
  BY Zenon, <1>1, <1>6, <1>7 DEF Holding, bioMoves
<1>10. rq.requests.active \in Int /\ rq.requests.active <= rq.requests.limit /\ rq.discards.active \in Int /\ rq.requests.limit \in Nat
  BY Zenon, <1>0 DEF RequestsTypeOK, Limiter, Permits
<1>11. Deadlocked'
  <2>1. \A p \in 1 .. Len(q) : q[p] \in Bios /\ q[p] # b /\ rq'.pcs[q[p]] = "deadlocked"
    BY Zenon, <1>0, <1>1, <1>7 DEF Deadlocked, bioMoves
  <2>2. \A p \in 1 .. Len(queue) : p \in 1 .. Len(q) \/ p = Len(q) + 1
    BY <1>3
  <2>3. \A p \in 1 .. Len(queue) : queue[p] \in Bios /\ rq'.pcs[queue[p]] = "deadlocked"
    <3>1. rq'.pcs[b] = "deadlocked"
      BY Zenon, <1>6, <1>7 DEF bioMoves
    <3> QED
      BY ONLY <1>3, <2>1, <2>2, <3>1, b \in Bios
  <2>4. \A p, r \in 1 .. Len(queue) : queue[p] = queue[r] => p = r
    BY <1>0, <1>3, <2>1, <2>2, Zenon DEF Deadlocked
  <2>5. overtaken \/ rq.requests.active = rq.requests.limit
    BY <1>10 DEF overtaken, takePermitLocked
  <2> QED
    BY Zenon, <1>7, <2>3, <2>4, <2>5 DEF Deadlocked, bioMoves
<1>12. rq'.requests.active = rq.requests.active + 0 /\ rq'.discards.active = rq.discards.active + 0
  BY <1>7, <1>10
<1> QED
  BY <1>1, <1>6, <1>7, <1>8, <1>9, <1>10, <1>11, <1>12, BioStep

(* A discard gets its permit.                                              *)
LEMMA DiscardPermitRInv ==
  ASSUME RInv, NEW b \in Bios, rq.pcs[b] = "wantDiscard", ~isAsleep(rq.discards, b), takePermitLocked(rq.discards),
         rq' = [rq EXCEPT !.discards = take(@), !.pcs[b] = "wantRequest"]
  PROVE  RInv'
<1>0. RequestsTypeOK /\ Sleeping /\ WaitingDiscards /\ Deadlocked /\ Permits /\ Discards
  BY Zenon DEF RInv
<1> DEFINE pc == "wantRequest"
           discards == take(rq.discards)
<1>1. rq' = mapped(rq.requests, discards, rq.kvios, rq.batch, rq.deadlockQueue, pcsWith(b, pc), rq.overtaken)
  <2>1. rq' = [rq EXCEPT !.discards = discards, !.pcs = pcsWith(b, pc)]
    BY Zenon, <1>0, MapPieces DEF pcsWith
  <2> HIDE DEF discards, pc
  <2> QED
    BY <1>0, <2>1, MapPieces, Zenon DEF mapped
<1>2. pc \in BioPCs /\ pc = "wantRequest"
  BY Zenon DEF BioPCs
<1>3. rq.requests \in Limiter /\ rq.discards \in Limiter /\ rq.deadlockQueue \in Seq(Nat) /\ rq.overtaken \in BOOLEAN
  BY Zenon, <1>0, MapPieces
<1>4. /\ discards \in Limiter /\ discards.active = rq.discards.active + 1 /\ discards.limit = rq.discards.limit
      /\ discards.waiterQueue = rq.discards.waiterQueue
  BY Zenon, <1>3, TakenPermit
<1> HIDE DEF discards, pc
<1>5. /\ RequestsTypeOK' /\ bioMoves(b, pc) /\ rq'.requests = rq.requests /\ rq'.discards = discards
      /\ rq'.deadlockQueue = rq.deadlockQueue /\ rq'.overtaken = rq.overtaken
  <2>1. RequestsTypeOK
    BY Zenon, <1>0
  <2> QED
    BY ONLY b \in Bios, <1>1, <1>2, <1>3, <1>4, <2>1, BioGoesOn
<1>6. ~isAsleep(rq.requests, b)
  BY Zenon, <1>0, OnlyThoseWhoWaitSleep
<1>7. isDiscardBio(b) /\ ~rq.bios[b].onVDOThread
  BY Zenon, <1>0 DEF Discards
<1>8. b \notin Holding /\ b \in Holding'
  BY Zenon, <1>2, <1>5, <1>7 DEF Holding, bioMoves, restIsSame, isDiscardBio
<1>9. Deadlocked'
  BY Zenon, <1>0, <1>2, <1>5, BioDeadlocked
<1>10. /\ rq.requests.active \in Int /\ rq.requests.active <= rq.requests.limit
  BY Zenon, <1>0, <1>3 DEF Limiter, Permits
<1>11. rq'.requests.active = rq.requests.active + 0 /\ rq'.discards.active = rq.discards.active + 1
  BY <1>4, <1>5, <1>10
<1> QED
  BY <1>2, <1>5, <1>6, <1>7, <1>8, <1>9, <1>10, <1>11, BioStep

(* A bio gets its request permit.                                          *)
LEMMA RequestPermitRInv ==
  ASSUME RInv, NEW b \in Bios, rq.pcs[b] = "wantRequest", ~isAsleep(rq.requests, b), takePermitLocked(rq.requests),
         rq' = [rq EXCEPT !.requests = take(@), !.pcs[b] = "launch"]
  PROVE  RInv'
<1>0. RequestsTypeOK /\ Sleeping /\ WaitingDiscards /\ Deadlocked /\ Permits /\ Discards
  BY Zenon DEF RInv
<1> DEFINE pc == "launch"
           requests == take(rq.requests)
<1>1. rq' = mapped(requests, rq.discards, rq.kvios, rq.batch, rq.deadlockQueue, pcsWith(b, pc), rq.overtaken)
  <2>1. rq' = [rq EXCEPT !.requests = requests, !.pcs = pcsWith(b, pc)]
    BY Zenon, <1>0, MapPieces DEF pcsWith
  <2> HIDE DEF requests, pc
  <2> QED
    BY <1>0, <2>1, MapPieces, Zenon DEF mapped
<1>2. pc \in BioPCs /\ pc = "launch"
  BY Zenon DEF BioPCs
<1>3. rq.requests \in Limiter /\ rq.discards \in Limiter /\ rq.deadlockQueue \in Seq(Nat) /\ rq.overtaken \in BOOLEAN
  BY Zenon, <1>0, MapPieces
<1>4. /\ requests \in Limiter /\ requests.active = rq.requests.active + 1 /\ requests.limit = rq.requests.limit
      /\ requests.waiterQueue = rq.requests.waiterQueue
  BY Zenon, <1>3, TakenPermit
<1> HIDE DEF requests, pc
<1>5. /\ RequestsTypeOK' /\ bioMoves(b, pc) /\ rq'.requests = requests /\ rq'.discards = rq.discards
      /\ rq'.deadlockQueue = rq.deadlockQueue /\ rq'.overtaken = rq.overtaken
  <2>1. RequestsTypeOK
    BY Zenon, <1>0
  <2> QED
    BY ONLY b \in Bios, <1>1, <1>2, <1>3, <1>4, <2>1, BioGoesOn
<1>6. ~isAsleep(rq.discards, b)
  BY Zenon, <1>0, OnlyThoseWhoWaitSleep
<1>7. ~rq.bios[b].onVDOThread
  BY Zenon, <1>0 DEF Discards
<1>8. b \in Holding <=> b \in Holding'
  BY <1>2, <1>5, <1>7 DEF Holding, bioMoves, restIsSame, isDiscardBio
<1>9. rq.requests.active \in Int /\ rq.requests.limit \in Nat /\ rq.requests.active < rq.requests.limit /\ rq.discards.active \in Int
  BY Zenon, <1>3 DEF Limiter, takePermitLocked
<1>10. Deadlocked'
  BY ZenonT(30), <1>0, <1>2, <1>5, <1>9, BioDeadlocked
<1>11. /\ rq'.requests.active = rq.requests.active + 1 /\ rq'.requests.active <= rq.requests.limit
       /\ rq'.discards.active = rq.discards.active + 0
  BY <1>4, <1>5, <1>9
<1> QED
  BY <1>2, <1>5, <1>6, <1>7, <1>8, <1>10, <1>11, BioStep

(* A queue with another at its end.                                        *)
LEMMA Queues ==
  ASSUME NEW q \in Seq(Int), NEW t \in Int, NEW w, w = Append(q, t)
  PROVE  /\ w \in Seq(Int) /\ Len(w) = Len(q) + 1 /\ Len(q) \in Nat /\ w[Len(q) + 1] = t
         /\ \A p \in 1 .. Len(w) : p \in 1 .. Len(q) \/ p = Len(q) + 1
         /\ \A p \in 1 .. Len(q) : p \in 1 .. Len(w) /\ w[p] = q[p]
<1>1. /\ w \in Seq(Int) /\ Len(w) = Len(q) + 1 /\ Len(q) \in Nat /\ w[Len(q) + 1] = t
      /\ \A p \in 1 .. Len(q) : w[p] = q[p]
  OBVIOUS
<1>2. /\ \A p \in 1 .. Len(w) : p \in 1 .. Len(q) \/ p = Len(q) + 1
      /\ \A p \in 1 .. Len(q) : p \in 1 .. Len(w)
  BY <1>1
<1> QED
  BY Zenon, <1>1, <1>2

(* A discard waits for its permit.                                         *)
LEMMA DiscardSleepsRInv ==
  ASSUME RInv, NEW b \in Bios, rq.pcs[b] = "wantDiscard", ~isAsleep(rq.discards, b), ~takePermitLocked(rq.discards),
         rq' = [rq EXCEPT !.discards = sleep(@, b)]
  PROVE  RInv'
<1>0. RequestsTypeOK /\ WaitingDiscards
  BY Zenon DEF RInv
<1> DEFINE discards == sleep(rq.discards, b)
           q == rq.discards.waiterQueue
           w == discards.waiterQueue
<1>1. rq' = mapped(rq.requests, discards, rq.kvios, rq.batch, rq.deadlockQueue, rq.pcs, rq.overtaken)
  <2> HIDE DEF discards
  <2>1. rq' = [rq EXCEPT !.discards = discards]
    BY Zenon, <1>0, MapPieces DEF discards
  <2> QED
    BY <1>0, <2>1, MapPieces, Zenon DEF mapped
<1>2. rq.discards \in Limiter /\ q \in Seq(Int) /\ rq.discards.active \in Int /\ rq.discards.limit \in Nat /\ b \in Int
  BY <1>0, MapPieces, FinitelyMany DEF Limiter
<1>3. discards \in Limiter /\ discards.active = rq.discards.active /\ discards.limit = rq.discards.limit /\ w = Append(q, b)
  BY <1>2, SleepingThread, Zenon
<1> HIDE DEF discards, q, w
<1>4. /\ w \in Seq(Int) /\ Len(w) = Len(q) + 1 /\ Len(q) \in Nat /\ w[Len(q) + 1] = b
      /\ \A p \in 1 .. Len(w) : p \in 1 .. Len(q) \/ p = Len(q) + 1
      /\ \A p \in 1 .. Len(q) : p \in 1 .. Len(w) /\ w[p] = q[p]
  BY <1>2, <1>3, Queues
<1>5. /\ RequestsTypeOK' /\ restIsSame /\ rq'.requests = rq.requests /\ rq'.discards = discards /\ rq'.kvios = rq.kvios
      /\ rq'.batch = rq.batch /\ rq'.deadlockQueue = rq.deadlockQueue /\ rq'.pcs = rq.pcs /\ rq'.overtaken = rq.overtaken
      /\ Bios' = Bios /\ KVIOs' = KVIOs /\ Waiters' = Waiters
  <2>1. /\ rq.requests \in Limiter /\ rq.kvios \in [KVIOs -> KVIO] /\ rq.batch \in Batch
        /\ rq.deadlockQueue \in Seq(Nat) /\ rq.pcs \in [Bios -> BioPCs] /\ rq.overtaken \in BOOLEAN
    BY Zenon, <1>0, MapPieces
  <2> QED
    BY <1>0, <1>1, <1>3, <2>1, MapAlone
<1>6. WaitingDiscards'
  <2>0. rq'.discards.waiterQueue = w
    BY Zenon, <1>5 DEF w
  <2>1. DiscardSleepers' = 1 .. Len(w) /\ DiscardSleepers = 1 .. Len(q)
    BY Zenon, <2>0 DEF DiscardSleepers, q
  <2>2. \A p \in 1 .. Len(q) : q[p] \in Bios /\ q[p] # b /\ rq.pcs[q[p]] = "wantDiscard"
    BY <1>0, <2>1 DEF WaitingDiscards, q, isAsleep, inQueue
  <2>3. \A p \in 1 .. Len(w) : w[p] \in Bios /\ rq.pcs[w[p]] = "wantDiscard"
    BY Zenon, <1>4, <2>2
  <2>4. \A p, r \in 1 .. Len(q) : q[p] = q[r] => p = r
    BY Zenon, <1>0, <2>1 DEF WaitingDiscards, q
  <2>5. \A p, r \in 1 .. Len(w) : w[p] = w[r] => p = r
    BY <1>4, <2>2, <2>4
  <2>6. IsFiniteSet(AwakeDiscards') /\ Cardinality(AwakeDiscards') \in Nat
    <3>1. AwakeDiscards' \subseteq Bios
      BY Zenon, <1>5 DEF AwakeDiscards
    <3> QED
      BY ZenonT(30), <1>0, <3>1, FinitelyMany, FS_Subset, FS_CardinalityType
  <2>7. rq'.discards.active + Cardinality(AwakeDiscards') >= rq'.discards.limit
    BY <1>2, <1>3, <1>5, <2>6 DEF takePermitLocked
  <2> QED
    BY <1>5, <2>0, <2>1, <2>3, <2>5, <2>7 DEF WaitingDiscards
<1>7. NoAssertionFails' /\ Batched' /\ Queued' /\ Compression' /\ Sleeping'
  BY <1>5, FrameBatched, FrameQueued, FrameCompression, FrameSleeping DEF RInv, NoAssertionFails, restIsSame
<1>8. Discards' /\ Acknowledged' /\ Deadlocked'
  BY <1>3, <1>5, FrameDiscards, FrameAcknowledged, FrameDeadlocked DEF RInv, restIsSame
<1>9. Permits' /\ Wakeups'
  <2>1. Launching' = Launching /\ Used' = Used /\ cleaned(rq)' = cleaned(rq) /\ Owed' = Owed
    BY <1>5 DEF Launching, Used, cleaned, KVIOs, Owed, counted
  <2> QED
    BY Zenon, <1>5, <2>1, FramePermits, FrameWakeups DEF RInv, restIsSame
<1> QED
  BY <1>5, <1>6, <1>7, <1>8, <1>9 DEF RInv

(* A bio waits for a request permit, or a thread for idleness.             *)
LEMMA SleepsRInv ==
  ASSUME RInv, NEW t, ~isAsleep(rq.requests, t),
         \/ t \in Bios /\ rq.pcs[t] = "wantRequest" /\ ~takePermitLocked(rq.requests)
         \/ \E i \in Waiters : t = waiterThread(i) /\ rq.waiters[i].pc = "wait" /\ rq.requests.active > 0,
         rq' = [rq EXCEPT !.requests = sleep(@, t)]
  PROVE  RInv'
<1>0. RequestsTypeOK /\ Sleeping /\ Wakeups
  BY Zenon DEF RInv
<1> DEFINE requests == sleep(rq.requests, t)
           q == rq.requests.waiterQueue
           w == requests.waiterQueue
<1>1. rq' = mapped(requests, rq.discards, rq.kvios, rq.batch, rq.deadlockQueue, rq.pcs, rq.overtaken)
  <2> HIDE DEF requests
  <2>1. rq' = [rq EXCEPT !.requests = requests]
    BY Zenon, <1>0, MapPieces DEF requests
  <2> QED
    BY <1>0, <2>1, MapPieces, Zenon DEF mapped
<1>2. rq.requests \in Limiter /\ q \in Seq(Int) /\ rq.requests.active \in Int /\ rq.requests.limit \in Nat /\ rq.requests.limit > 0
  BY Zenon, <1>0, MapPieces DEF Limiter, RequestsTypeOK
<1>2a. t \in Int
  BY <1>0, FinitelyMany DEF waiterThread
<1>3. requests \in Limiter /\ requests.active = rq.requests.active /\ requests.limit = rq.requests.limit /\ w = Append(q, t)
  BY <1>2, <1>2a, SleepingThread, Zenon
<1> HIDE DEF requests, q, w
<1>4. /\ w \in Seq(Int) /\ Len(w) = Len(q) + 1 /\ Len(q) \in Nat /\ w[Len(q) + 1] = t
      /\ \A p \in 1 .. Len(w) : p \in 1 .. Len(q) \/ p = Len(q) + 1
      /\ \A p \in 1 .. Len(q) : p \in 1 .. Len(w) /\ w[p] = q[p]
      /\ \A c : inQueue(w, c) <=> inQueue(q, c) \/ c = t
  <2>1. q \in Seq(Int) /\ t \in Int /\ w = Append(q, t)
    BY Zenon, <1>2, <1>2a, <1>3
  <2>2. /\ w \in Seq(Int) /\ Len(w) = Len(q) + 1 /\ Len(q) \in Nat /\ w[Len(q) + 1] = t
        /\ \A p \in 1 .. Len(w) : p \in 1 .. Len(q) \/ p = Len(q) + 1
        /\ \A p \in 1 .. Len(q) : p \in 1 .. Len(w) /\ w[p] = q[p]
    BY <2>1, Queues
  <2>3. Len(q) + 1 \in 1 .. Len(w)
    BY <2>2
  <2>4. ASSUME NEW c PROVE inQueue(w, c) <=> inQueue(q, c) \/ c = t
    BY <2>2, <2>3 DEF inQueue
  <2> QED
    BY Zenon, <2>2, <2>4
<1>5. /\ RequestsTypeOK' /\ restIsSame /\ rq'.requests = requests /\ rq'.discards = rq.discards /\ rq'.kvios = rq.kvios
      /\ rq'.batch = rq.batch /\ rq'.deadlockQueue = rq.deadlockQueue /\ rq'.pcs = rq.pcs /\ rq'.overtaken = rq.overtaken
      /\ Bios' = Bios /\ KVIOs' = KVIOs /\ Waiters' = Waiters
  <2>1. /\ rq.discards \in Limiter /\ rq.kvios \in [KVIOs -> KVIO] /\ rq.batch \in Batch
        /\ rq.deadlockQueue \in Seq(Nat) /\ rq.pcs \in [Bios -> BioPCs] /\ rq.overtaken \in BOOLEAN
    BY Zenon, <1>0, MapPieces
  <2> QED
    BY <1>0, <1>1, <1>3, <2>1, MapAlone
<1>6. rq'.requests.waiterQueue = w /\ Sleepers' = 1 .. Len(w) /\ Sleepers = 1 .. Len(q)
  BY Zenon, <1>5 DEF Sleepers, w, q
<1>6a. (\A p : sleeper(p) = q[p]) /\ (\A p : sleeper(p)' = w[p])
  BY Zenon, <1>6 DEF sleeper, q
<1>7. Sleeping'
  <2>2. \A p \in 1 .. Len(q) : /\ \/ q[p] \in Bios /\ rq.pcs[q[p]] = "wantRequest"
                                  \/ \E i \in Waiters : q[p] = waiterThread(i) /\ rq.waiters[i].pc = "wait"
                               /\ q[p] # t
    BY <1>0, <1>6, <1>6a DEF Sleeping, q, isAsleep, inQueue
  <2>3. \A p \in 1 .. Len(w) : \/ w[p] \in Bios /\ rq.pcs[w[p]] = "wantRequest"
                               \/ \E i \in Waiters : w[p] = waiterThread(i) /\ rq.waiters[i].pc = "wait"
    BY <1>4, <2>2
  <2>4. \A p, r \in 1 .. Len(q) : q[p] = q[r] => p = r
    BY Zenon, <1>0, <1>6, <1>6a DEF Sleeping
  <2>5. \A p, r \in 1 .. Len(w) : w[p] = w[r] => p = r
    BY <1>4, <2>2, <2>4
  <2> QED
    BY <1>5, <1>6, <1>6a, <2>3, <2>5 DEF Sleeping, restIsSame
<1>8. Wakeups'
  <2>1. Owed' = Owed /\ Owed \in Nat
    BY <1>0, <1>5, CountsAreNumbers DEF Owed, counted
  <2>2. /\ IsFiniteSet(Awake') /\ Cardinality(Awake') \in Nat /\ IsFiniteSet(Spared') /\ Cardinality(Spared') \in Nat
    <3>1. Awake' \subseteq Bios /\ Spared' \subseteq Bios \cup {waiterThread(i) : i \in Waiters}
      BY Zenon, <1>5 DEF Awake, Spared
    <3> QED
      BY <1>0, <3>1, FinitelyMany, FiniteThreads, FS_Subset, FS_CardinalityType
  <2>3. CASE t \in Bios /\ ~takePermitLocked(rq.requests)
    <3>1. rq.requests.active >= rq.requests.limit
      BY <1>2, <2>3 DEF takePermitLocked
    <3>2. /\ rq'.requests.active + Owed' + Cardinality(Spared') >= rq'.requests.limit
          /\ rq'.requests.active + Owed' + Cardinality(Awake') > 0
      BY <1>2, <1>3, <1>5, <2>1, <2>2, <3>1
    <3> QED
      BY Zenon, <3>2 DEF Wakeups
  <2>4. CASE \E i \in Waiters : t = waiterThread(i) /\ rq.requests.active > 0
    <3>1. t \notin Bios
      BY <1>0, <2>4, FinitelyMany DEF waiterThread
    <3>2. Awake' = Awake
      <4>1. \A b \in Bios : isAsleep(rq.requests, b)' <=> isAsleep(rq.requests, b)
        BY Zenon, <1>4, <1>6, <3>1 DEF isAsleep, q
      <4> QED
        BY Zenon, <1>5, <4>1 DEF Awake
    <3>3. Ahead' \subseteq Ahead
      <4> SUFFICES ASSUME NEW i \in Ahead' PROVE i \in Ahead
        BY Zenon
      <4>1. PICK a, c \in 1 .. Len(w) : a < c /\ w[a] = waiterThread(i) /\ w[c] \in Bios
        BY Zenon, <1>5, <1>6, <1>6a DEF Ahead
      <4>2. c \in 1 .. Len(q)
        BY Zenon, <1>4, <3>1, <4>1
      <4>3. a \in 1 .. Len(q)
        BY <1>4, <4>1, <4>2
      <4> QED
        BY <1>4, <1>5, <1>6, <1>6a, <4>1, <4>2, <4>3 DEF Ahead
    <3>4. Spared \subseteq Spared'
      BY Zenon, <1>5, <3>2, <3>3 DEF Spared
    <3>5. Cardinality(Spared) <= Cardinality(Spared') /\ Cardinality(Spared) \in Nat
      BY ZenonT(30), <1>0, <2>2, <3>4, FS_Subset, FiniteWakeups
    <3>6. (\E p \in Sleepers' : sleeper(p)' \in Bios) => \E p \in Sleepers : sleeper(p) \in Bios
      BY Zenon, <1>4, <1>6, <1>6a, <3>1
    <3>7. (\E p \in Sleepers : sleeper(p) \in Bios) => rq.requests.active + Owed + Cardinality(Spared) >= rq.requests.limit
      BY Zenon, <1>0 DEF Wakeups
    <3>8. (\E p \in Sleepers' : sleeper(p)' \in Bios) => rq'.requests.active + Owed' + Cardinality(Spared') >= rq'.requests.limit
      <4>1. rq'.requests.active = rq.requests.active /\ rq'.requests.limit = rq.requests.limit
        BY Zenon, <1>3, <1>5
      <4>2. rq.requests.active + Owed + Cardinality(Spared) >= rq.requests.limit =>
              rq'.requests.active + Owed' + Cardinality(Spared') >= rq'.requests.limit
        BY <1>2, <2>1, <2>2, <3>5, <4>1
      <4> QED
        BY Zenon, <3>6, <3>7, <4>2
    <3>9. rq'.requests.active + Owed' + Cardinality(Awake') > 0
      BY <1>2, <1>3, <1>5, <2>1, <2>2, <2>4
    <3> QED
      BY Zenon, <1>5, <3>8, <3>9 DEF Wakeups
  <2> QED
    BY Zenon, <2>3, <2>4
<1>9. NoAssertionFails' /\ Batched' /\ Queued' /\ Compression' /\ WaitingDiscards'
  BY ZenonT(30), <1>5, FrameBatched, FrameQueued, FrameCompression, FrameWaitingDiscards DEF RInv, NoAssertionFails, restIsSame
<1>10. Discards' /\ Acknowledged' /\ Deadlocked'
  BY ZenonT(30), <1>3, <1>5, FrameDiscards, FrameAcknowledged, FrameDeadlocked DEF RInv, restIsSame
<1>11. Permits'
  <2>1. Launching' = Launching /\ Used' = Used /\ cleaned(rq)' = cleaned(rq)
    BY Zenon, <1>5 DEF Launching, Used, cleaned, KVIOs
  <2> QED
    BY ZenonT(30), <1>3, <1>5, <2>1, FramePermits DEF RInv
<1> QED
  BY Zenon, <1>5, <1>7, <1>8, <1>9, <1>10, <1>11 DEF RInv

(* limiterWaitForOneFree(), for each of the two limiters.                  *)
LEMMA LimiterWaitForOneFreeRInv ==
  ASSUME RInv, NEW b \in Bios, limiterWaitForOneFree(b)
  PROVE  RInv'
<1>1. CASE rq.pcs[b] = "wantDiscard" /\ ~isAsleep(rq.discards, b) /\ takePermitLocked(rq.discards)
           /\ rq' = [rq EXCEPT !.discards = take(@), !.pcs[b] = "wantRequest"]
  BY <1>1, DiscardPermitRInv, Zenon
<1>2. CASE rq.pcs[b] = "wantDiscard" /\ ~isAsleep(rq.discards, b) /\ ~takePermitLocked(rq.discards)
           /\ rq' = [rq EXCEPT !.discards = sleep(@, b)]
  BY Zenon, <1>2, DiscardSleepsRInv
<1>3. CASE rq.pcs[b] = "wantRequest" /\ ~isAsleep(rq.requests, b) /\ takePermitLocked(rq.requests)
           /\ rq' = [rq EXCEPT !.requests = take(@), !.pcs[b] = "launch"]
  BY <1>3, RequestPermitRInv, Zenon
<1>4. CASE rq.pcs[b] = "wantRequest" /\ ~isAsleep(rq.requests, b) /\ ~takePermitLocked(rq.requests)
           /\ rq' = [rq EXCEPT !.requests = sleep(@, b)]
  BY Zenon, <1>4, SleepsRInv
<1> QED
  BY Zenon, <1>1, <1>2, <1>3, <1>4 DEF limiterWaitForOneFree

-----------------------------------------------------------------------------
(* The batch                                                               *)

(* A batch can be scheduled when it is idle: one of the work items is in   *)
(* no queue.                                                               *)
LEMMA ARunIsFree ==
  ASSUME RequestsTypeOK, Batched, rq.batch.state = "idle"
  PROVE  \E i \in Runs : rq.batch.runs[i].pc = "none"
<1>1. \A i \in Runs : rq.batch.runs[i].pc \in RunPCs \ ActivePCs
  BY Zenon DEF RequestsTypeOK, Batch, Run, Batched
<1>2. \A i \in Runs : rq.batch.runs[i].pc \in {"none", "check"}
  BY Zenon, <1>1 DEF RunPCs, ActivePCs
<1>3. rq.batch.runs[1].pc = "check" => rq.batch.lock = 1
  BY DEF Batched, LockedPCs, Runs
<1>4. rq.batch.runs[2].pc = "check" => rq.batch.lock = 2
  BY DEF Batched, LockedPCs, Runs
<1> QED
  BY <1>2, <1>3, <1>4 DEF Runs

othersAreSame ==
  /\ rq'.requests = rq.requests /\ rq'.discards = rq.discards /\ rq'.kvios = rq.kvios /\ rq'.deadlockQueue = rq.deadlockQueue
  /\ rq'.bios = rq.bios /\ rq'.pcs = rq.pcs /\ rq'.acked = rq.acked /\ rq'.waiters = rq.waiters
  /\ rq'.compressing = rq.compressing /\ rq'.wanted = rq.wanted /\ rq'.overtaken = rq.overtaken
  /\ rq'.overlapped = rq.overlapped /\ rq'.overwritten = rq.overwritten /\ rq'.stranded = rq.stranded
  /\ rq'.asserts = rq.asserts

(* A change of the batch alone.                                            *)
LEMMA BatchAlone ==
  ASSUME RequestsTypeOK, NEW batch \in Batch, rq' = [rq EXCEPT !.batch = batch]
  PROVE  RequestsTypeOK' /\ othersAreSame /\ rq'.batch = batch
<1>1. othersAreSame /\ rq'.batch = batch
  BY Zenon DEF RequestsTypeOK, othersAreSame
<1>2. RequestsTypeOK'
  BY <1>1, Zenon DEF RequestsTypeOK, KVIOs, Bios, othersAreSame
<1> QED
  BY Zenon, <1>1, <1>2

(* What of the invariant a change of the batch alone may disturb.          *)
LEMMA BatchStep ==
  ASSUME RInv, RequestsTypeOK', othersAreSame, rq'.batch.queue = rq.batch.queue, Batched', Permits', Owed' = Owed
  PROVE  RInv'
<1>1. NoAssertionFails'
  BY DEF RInv, NoAssertionFails, othersAreSame
<1>2. Queued' /\ Discards' /\ Acknowledged' /\ Deadlocked'
  BY ZenonT(30), FrameQueued, FrameDiscards, FrameAcknowledged, FrameDeadlocked DEF RInv, othersAreSame
<1>3. Compression' /\ Sleeping' /\ Wakeups' /\ WaitingDiscards'
  BY Zenon, FrameCompression, FrameSleeping, FrameWakeups, FrameWaitingDiscards DEF RInv, othersAreSame, Waiters
<1> QED
  BY Zenon, <1>1, <1>2, <1>3 DEF RInv

(* The run of a batch which changes changes no count, or none that counts. *)
LEMMA RunStep ==
  ASSUME RequestsTypeOK, Permits, NEW i \in Runs, NEW pc \in RunPCs,
         rq'.requests = rq.requests, rq'.kvios = rq.kvios, rq'.bios = rq.bios, rq'.pcs = rq.pcs,
         \A j \in Runs : rq'.batch.runs[j].pc = (IF j = i THEN pc ELSE rq.batch.runs[j].pc)
                         /\ rq'.batch.runs[j].count = rq.batch.runs[j].count,
         \/ rq.batch.runs[i].count = 0
         \/ rq.batch.runs[i].pc \in {"loop", "resched"} /\ pc \in {"loop", "resched"}
  PROVE  Permits' /\ Owed' = Owed
<1>1. Launching' = Launching /\ Used' = Used /\ cleaned(rq)' = cleaned(rq)
  BY Zenon DEF Launching, Used, cleaned, Bios, KVIOs
<1>3. \A j \in Runs : /\ counted(j, CountingPCs \ {"wake"})' = counted(j, CountingPCs \ {"wake"})
                      /\ counted(j, {"wake"})' = counted(j, {"wake"})
                      /\ counted(j, {"loop", "resched"})' = counted(j, {"loop", "resched"})
  BY Zenon DEF counted, CountingPCs
<1>4. Held' = Held /\ Owed' = Owed /\ Cleaning' = Cleaning
  BY <1>3 DEF Held, Owed, Cleaning, Runs
<1> QED
  BY Zenon, <1>1, <1>4 DEF Permits

(* A run which is not between its first item and the wakeup counts none.   *)
LEMMA NothingCounted ==
  ASSUME RequestsTypeOK, Batched, NEW i \in Runs, rq.batch.runs[i].pc \notin CountingPCs
  PROVE  rq.batch.runs[i].count = 0
<1>1. rq.batch.runs[i].count \in Nat
  BY Zenon DEF RequestsTypeOK, Batch, Run
<1>2. ~(rq.batch.runs[i].count > 0)
  BY DEF Batched
<1> QED
  BY <1>1, <1>2

(* Such a step keeps the invariant if it counts as many items as before    *)
(* and the batch is still exclusive.                                       *)
LEMMA ChangedRInv ==
  ASSUME RInv, RequestsTypeOK', othersAreSame, NEW i \in Runs, NEW pc \in RunPCs, rq'.batch.queue = rq.batch.queue,
         \A j \in Runs : rq'.batch.runs[j].pc = (IF j = i THEN pc ELSE rq.batch.runs[j].pc)
                         /\ rq'.batch.runs[j].count = rq.batch.runs[j].count,
         Batched',
         \/ rq.batch.runs[i].count = 0
         \/ rq.batch.runs[i].pc \in {"loop", "resched"} /\ pc \in {"loop", "resched"}
  PROVE  RInv'
<1>1. Permits' /\ Owed' = Owed
  BY Zenon, RunStep DEF RInv, othersAreSame
<1> QED
  BY <1>1, BatchStep

(* scheduleBatchProcessing() puts a work item on its queue only if the     *)
(* batch is idle.                                                          *)
LEMMA ScheduleRInv ==
  ASSUME RInv, Schedule
  PROVE  RInv'
<1>a. rq \in [DOMAIN rq -> {rq[x] : x \in DOMAIN rq}] /\ "batch" \in DOMAIN rq /\ rq.batch \in Batch
  BY Zenon DEF RInv, RequestsTypeOK
<1>b. RequestsTypeOK /\ Batched
  BY DEF RInv
<1> DEFINE schedulers == rq.batch.schedulers - 1
<1>c. schedulers \in Nat
  BY <1>a DEF Batch, Schedule
<1>1. CASE rq.batch.state # "idle"
  <2> DEFINE batch == [rq.batch EXCEPT !.schedulers = schedulers]
  <2>1. rq' = [rq EXCEPT !.batch = batch]
    BY <1>1, <1>a DEF Schedule, scheduleBatchProcessing
  <2> HIDE DEF schedulers
  <2>2. batch \in Batch /\ batch.runs = rq.batch.runs /\ batch.queue = rq.batch.queue /\ batch.state = rq.batch.state /\ batch.lock = rq.batch.lock
    BY Zenon, <1>a, <1>c DEF Batch
  <2> HIDE DEF batch
  <2>3. RequestsTypeOK' /\ othersAreSame /\ rq'.batch = batch
    BY <1>b, <2>1, <2>2, BatchAlone
  <2>4. Batched'
    BY <1>1, <1>a, <1>b, <2>2, <2>3 DEF Batch, Batched, ActivePCs
  <2>5. Permits' /\ Owed' = Owed
    <3>1. Launching' = Launching /\ Used' = Used /\ cleaned(rq)' = cleaned(rq)
      BY <2>3 DEF othersAreSame, Launching, Used, cleaned, Bios, KVIOs
    <3> QED
      BY ZenonT(30), <2>2, <2>3, <3>1, FramePermits DEF RInv, othersAreSame, Owed, counted
  <2> QED
    BY ZenonT(30), <2>2, <2>3, <2>4, <2>5, BatchStep
<1>2. CASE rq.batch.state = "idle"
  <2> DEFINE i == CHOOSE i \in Runs : rq.batch.runs[i].pc = "none"
  <2>1. \E j \in Runs : rq.batch.runs[j].pc = "none"
    BY Zenon, <1>2, <1>b, ARunIsFree
  <2>2. i \in Runs /\ rq.batch.runs[i].pc = "none"
    BY <2>1
  <2>3. scheduleBatchProcessing(rq) = [rq EXCEPT !.batch.state = "enqueued", !.batch.runs[i].pc = "queued"]
    <3>1. assert(rq, \E j \in Runs : rq.batch.runs[j].pc = "none", "the work item is in no queue") = rq
      BY <2>1, Zenon DEF assert
    <3> QED
      BY <1>2, <3>1, Zenon DEF scheduleBatchProcessing
  <2> HIDE DEF i
  <2> DEFINE batch == changed(i, "queued", "enqueued", rq.batch.lock, schedulers)
  <2>4. rq' = [rq EXCEPT !.batch = batch]
    <3> DEFINE scheduled == [rq.batch EXCEPT !.state = "enqueued", !.runs = [@ EXCEPT ![i].pc = "queued"]]
    <3>1. rq' = [scheduleBatchProcessing(rq) EXCEPT !.batch.schedulers = @ - 1]
      BY Zenon DEF Schedule
    <3>2. scheduleBatchProcessing(rq) = [rq EXCEPT !.batch = scheduled]
      BY <2>3, <1>a, Zenon DEF Batch
    <3>3. rq' = [rq EXCEPT !.batch = [scheduled EXCEPT !.schedulers = @ - 1]]
      BY <3>1, <1>a, <3>2, Zenon
    <3>4. [scheduled EXCEPT !.schedulers = @ - 1] = batch
      BY <1>a, Zenon DEF Batch, changed
    <3> QED
      BY Zenon, <3>3, <3>4
  <2> HIDE DEF schedulers, batch
  <2>5. /\ batch \in Batch
        /\ batch.state = "enqueued" /\ batch.lock = rq.batch.lock /\ batch.queue = rq.batch.queue
        /\ batch.schedulers = schedulers
        /\ \A j \in Runs : batch.runs[j].pc = (IF j = i THEN "queued" ELSE rq.batch.runs[j].pc)
                           /\ batch.runs[j].count = rq.batch.runs[j].count
    <3>1. "queued" \in RunPCs /\ "enqueued" \in {"idle", "enqueued"} /\ rq.batch.lock \in 0 .. 2
      BY Zenon, <1>a DEF Batch, RunPCs
    <3> QED
      BY <1>b, <1>c, <2>2, <3>1, ChangedBatch DEF batch
  <2>6. RequestsTypeOK' /\ othersAreSame /\ rq'.batch = batch
    BY ZenonT(30), <1>b, <2>4, <2>5, BatchAlone
  <2>7. Batched'
    BY <1>2, <1>b, <2>2, <2>5, <2>6 DEF Batched, ActivePCs, LockedPCs, CountingPCs
  <2>8. rq.batch.runs[i].count = 0
    BY ZenonT(30), <1>b, <2>2, NothingCounted DEF CountingPCs
  <2> QED
    BY <2>2, <2>5, <2>6, <2>7, <2>8, ChangedRInv DEF RunPCs
<1> QED
  BY <1>1, <1>2

(* A run starts, or goes on, when nobody has the lock.                     *)
LEMMA BatchStartsRInv ==
  ASSUME RInv, NEW i \in Runs, BatchStarts(i) \/ condReschedBatchProcessor(i)
  PROVE  RInv'
<1>a. rq \in [DOMAIN rq -> {rq[x] : x \in DOMAIN rq}] /\ "batch" \in DOMAIN rq /\ rq.batch \in Batch
  BY Zenon DEF RInv, RequestsTypeOK
<1>b. RequestsTypeOK /\ Batched
  BY DEF RInv
<1>c. \A j \in Runs : j # 0
  BY DEF Runs
<1>1. rq.batch.runs[i].pc \in {"queued", "resched"} /\ rq.batch.lock = 0
  BY Zenon DEF BatchStarts, condReschedBatchProcessor, none
<1> DEFINE batch == changed(i, "loop", rq.batch.state, i, rq.batch.schedulers)
<1>2. rq' = [rq EXCEPT !.batch = batch]
  <2>1. rq' = [rq EXCEPT !.batch.lock = i, !.batch.runs[i].pc = "loop"]
    BY DEF BatchStarts, condReschedBatchProcessor
  <2>2. rq' = [rq EXCEPT !.batch = [rq.batch EXCEPT !.lock = i, !.runs = [@ EXCEPT ![i].pc = "loop"]]]
    BY <1>a, <2>1, Zenon DEF Batch
  <2>3. [rq.batch EXCEPT !.lock = i, !.runs = [@ EXCEPT ![i].pc = "loop"]] = batch
    BY <1>a, Zenon DEF Batch, changed
  <2> QED
    BY Zenon, <2>2, <2>3
<1> HIDE DEF batch
<1>3. /\ batch \in Batch
      /\ batch.state = rq.batch.state /\ batch.lock = i /\ batch.queue = rq.batch.queue
      /\ batch.schedulers = rq.batch.schedulers
      /\ \A j \in Runs : batch.runs[j].pc = (IF j = i THEN "loop" ELSE rq.batch.runs[j].pc)
                         /\ batch.runs[j].count = rq.batch.runs[j].count
  <2>1. "loop" \in RunPCs /\ rq.batch.state \in {"idle", "enqueued"} /\ i \in 0 .. 2 /\ rq.batch.schedulers \in Nat
    BY <1>a DEF RunPCs, Batch, Runs
  <2> DEFINE lock == i
  <2>2. batch = changed(i, "loop", rq.batch.state, lock, rq.batch.schedulers) /\ lock \in 0 .. 2
    BY ZenonT(30), <2>1 DEF batch
  <2> HIDE DEF lock
  <2>3. /\ batch \in Batch
        /\ batch.state = rq.batch.state /\ batch.lock = lock /\ batch.queue = rq.batch.queue
        /\ batch.schedulers = rq.batch.schedulers
        /\ \A j \in Runs : batch.runs[j].pc = (IF j = i THEN "loop" ELSE rq.batch.runs[j].pc)
                           /\ batch.runs[j].count = rq.batch.runs[j].count
    BY <1>b, <2>1, <2>2, ChangedBatch
  <2> QED
    BY <2>3 DEF lock
<1>4. RequestsTypeOK' /\ othersAreSame /\ rq'.batch = batch
  BY ZenonT(30), <1>b, <1>2, <1>3, BatchAlone
<1>5. Batched'
  BY <1>b, <1>c, <1>1, <1>3, <1>4 DEF Batched, ActivePCs, LockedPCs, CountingPCs
<1>6. rq.batch.runs[i].count = 0 \/ (rq.batch.runs[i].pc \in {"loop", "resched"} /\ "loop" \in {"loop", "resched"})
  BY <1>b, <1>1, NothingCounted DEF CountingPCs
<1> QED
  BY <1>3, <1>4, <1>5, <1>6, ChangedRInv DEF RunPCs

(* The end of a run: the state is idle before the second look at the       *)
(* queue.                                                                  *)
LEMMA BatchEndsRInv ==
  ASSUME RInv, NEW i \in Runs, BatchEnds(i)
  PROVE  RInv'
<1>a. rq \in [DOMAIN rq -> {rq[x] : x \in DOMAIN rq}] /\ "batch" \in DOMAIN rq /\ rq.batch \in Batch
  BY DEF RInv, RequestsTypeOK
<1>b. RequestsTypeOK /\ Batched
  BY Zenon DEF RInv
<1>c. \A j \in Runs : j # 0
  BY DEF Runs
<1>1. CASE rq.batch.runs[i].pc = "loop"
  <2>1. rq.batch.queue = <<>> /\ rq.batch.runs[i].count = 0
    BY <1>1 DEF BatchEnds
  <2> DEFINE batch == changed(i, "check", "idle", rq.batch.lock, rq.batch.schedulers)
  <2>2. rq' = [rq EXCEPT !.batch = batch]
    <3>1. rq' = [rq EXCEPT !.batch.state = "idle", !.batch.runs[i].pc = "check"]
      BY <1>1 DEF BatchEnds
    <3>2. rq' = [rq EXCEPT !.batch = [rq.batch EXCEPT !.state = "idle", !.runs = [@ EXCEPT ![i].pc = "check"]]]
      BY <1>a, <3>1, Zenon DEF Batch
    <3>3. [rq.batch EXCEPT !.state = "idle", !.runs = [@ EXCEPT ![i].pc = "check"]] = batch
      BY <1>a, ZenonT(30) DEF Batch, changed
    <3> QED
      BY Zenon, <3>2, <3>3
  <2> HIDE DEF batch
  <2>3. /\ batch \in Batch
        /\ batch.state = "idle" /\ batch.lock = rq.batch.lock /\ batch.queue = rq.batch.queue
        /\ batch.schedulers = rq.batch.schedulers
        /\ \A j \in Runs : batch.runs[j].pc = (IF j = i THEN "check" ELSE rq.batch.runs[j].pc)
                           /\ batch.runs[j].count = rq.batch.runs[j].count
    <3>1. "check" \in RunPCs /\ "idle" \in {"idle", "enqueued"} /\ rq.batch.lock \in 0 .. 2 /\ rq.batch.schedulers \in Nat
      BY Zenon, <1>a DEF RunPCs, Batch
    <3> QED
      BY <1>b, <3>1, ChangedBatch DEF batch
  <2>4. RequestsTypeOK' /\ othersAreSame /\ rq'.batch = batch
    BY <1>b, <2>2, <2>3, BatchAlone
  <2>5. Batched'
    BY <1>b, <1>1, <2>1, <2>3, <2>4 DEF Batched, ActivePCs, LockedPCs, CountingPCs
  <2> QED
    BY ZenonT(30), <2>1, <2>3, <2>4, <2>5, ChangedRInv DEF RunPCs
<1>2. CASE rq.batch.runs[i].pc = "check"
  <2> DEFINE schedulers == rq.batch.schedulers + (IF rq.batch.queue = <<>> THEN 0 ELSE 1)
             batch == changed(i, "none", rq.batch.state, 0, schedulers)
  <2>1. schedulers \in Nat /\ (rq.batch.queue # <<>> => schedulers > 0)
    BY <1>a DEF Batch
  <2>2. rq' = [rq EXCEPT !.batch = batch]
    <3>1. rq' = [rq EXCEPT !.batch.lock = 0, !.batch.runs[i].pc = "none", !.batch.schedulers = @ + (IF rq.batch.queue = <<>> THEN 0 ELSE 1)]
      BY <1>2 DEF BatchEnds, none
    <3>2. rq' = [rq EXCEPT !.batch = [rq.batch EXCEPT !.lock = 0, !.runs = [@ EXCEPT ![i].pc = "none"], !.schedulers = schedulers]]
      BY <1>a, <3>1, Zenon DEF Batch
    <3> HIDE DEF schedulers
    <3>3. [rq.batch EXCEPT !.lock = 0, !.runs = [@ EXCEPT ![i].pc = "none"], !.schedulers = schedulers] = batch
      BY <1>a, ZenonT(30) DEF Batch, changed
    <3> QED
      BY Zenon, <3>2, <3>3
  <2> HIDE DEF schedulers, batch
  <2>3. /\ batch \in Batch
        /\ batch.state = rq.batch.state /\ batch.lock = 0 /\ batch.queue = rq.batch.queue
        /\ batch.schedulers = schedulers
        /\ \A j \in Runs : batch.runs[j].pc = (IF j = i THEN "none" ELSE rq.batch.runs[j].pc)
                           /\ batch.runs[j].count = rq.batch.runs[j].count
    <3>1. "none" \in RunPCs /\ rq.batch.state \in {"idle", "enqueued"} /\ 0 \in 0 .. 2
      BY <1>a DEF RunPCs, Batch
    <3> QED
      BY <1>b, <2>1, <3>1, ChangedBatch DEF batch
  <2>4. RequestsTypeOK' /\ othersAreSame /\ rq'.batch = batch
    BY ZenonT(30), <1>b, <2>2, <2>3, BatchAlone
  <2>5. rq.batch.runs[i].count = 0
    BY <1>b, <1>2, NothingCounted DEF CountingPCs
  <2>6. Batched'
    BY <1>b, <1>c, <1>2, <2>1, <2>3, <2>4, <2>5 DEF Batched, ActivePCs, LockedPCs, CountingPCs
  <2> QED
    BY <2>3, <2>4, <2>5, <2>6, ChangedRInv DEF RunPCs
<1> QED
  BY Zenon, <1>1, <1>2 DEF BatchEnds

=============================================================================
