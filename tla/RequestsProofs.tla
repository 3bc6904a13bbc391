--------------------------- MODULE RequestsProofs ---------------------------
(***************************************************************************)
(* The steps of a request which VDO has, and of the batch when it cleans   *)
(* DataKVIOs and frees them, keep the invariant of RequestsInvariant,      *)
(* which is one; and the theorems about requests, permits, compression and *)
(* those who wait.                                                         *)
(***************************************************************************)
EXTENDS RequestsLimiters

(* The time every leaf is given.                                           *)
USE SMTT(30)

-----------------------------------------------------------------------------
(* A DataKVIO                                                              *)

InUsePCs == {"vdo", "acknowledge", "packed", "acknowledgeThenComplete"}

mapIsSame ==
  /\ rq'.requests = rq.requests /\ rq'.deadlockQueue = rq.deadlockQueue /\ rq'.bios = rq.bios /\ rq'.pcs = rq.pcs
  /\ rq'.waiters = rq.waiters /\ rq'.compressing = rq.compressing /\ rq'.wanted = rq.wanted
  /\ rq'.overtaken = rq.overtaken /\ rq'.overlapped = rq.overlapped /\ rq'.overwritten = rq.overwritten
  /\ rq'.stranded = rq.stranded /\ rq'.asserts = rq.asserts

made(kvios, batch, discards, acked, faults) ==
  [rq EXCEPT !.kvios = kvios, !.batch = batch, !.discards = discards, !.acked = acked, !.faults = faults]

(* What a request changes.                                                 *)
LEMMA RequestAlone ==
  ASSUME RequestsTypeOK, NEW kvios \in [KVIOs -> KVIO], NEW batch \in Batch, NEW discards \in Limiter,
         NEW acked \in [Bios -> Nat], NEW faults \in Int,
         rq' = made(kvios, batch, discards, acked, faults)
  PROVE  /\ RequestsTypeOK' /\ mapIsSame /\ rq'.kvios = kvios /\ rq'.batch = batch /\ rq'.discards = discards
         /\ rq'.acked = acked
<1>1. /\ mapIsSame /\ rq'.kvios = kvios /\ rq'.batch = batch /\ rq'.discards = discards
      /\ rq'.acked = acked /\ rq'.faults = faults
  BY DEF RequestsTypeOK, mapIsSame, made
<1>2. KVIOs' = KVIOs /\ Bios' = Bios
  BY Zenon, <1>1 DEF KVIOs, Bios, mapIsSame, RequestsTypeOK
<1>3. RequestsTypeOK'
  BY <1>1, <1>2, Zenon DEF RequestsTypeOK, mapIsSame, made
<1> QED
  BY <1>1, <1>3

(* A DataKVIO in use has the permit of a request, whatever is done with it *)
(* until it is returned.                                                   *)
LEMMA InUsePermits ==
  ASSUME RequestsTypeOK, Permits, mapIsSame, rq'.batch.runs = rq.batch.runs, NEW k \in KVIOs, aloneChanges(k),
         rq.kvios[k].pc \in InUsePCs, rq'.kvios[k].pc \in InUsePCs \cup {"queued"}
  PROVE  Permits' /\ Owed' = Owed
<1>1. Launching' = Launching
  BY DEF Launching, mapIsSame, Bios
<1>2. \A l \in KVIOs : l # k => rq'.kvios[l].pc = rq.kvios[l].pc
  BY Zenon DEF aloneChanges
<1>3. Used' = Used
  BY <1>2 DEF Used, aloneChanges, cleaned, KVIOs, InUsePCs
<1>4. cleaned(rq)' = cleaned(rq)
  BY Zenon, <1>2 DEF aloneChanges, cleaned, KVIOs, InUsePCs
<1> QED
  BY Zenon, <1>1, <1>3, <1>4, FramePermits DEF mapIsSame, Owed, counted

(* A discard permit is kept or released with the last block.               *)
LEMMA DiscardPermits ==
  ASSUME RequestsTypeOK, Discards, mapIsSame, NEW k \in KVIOs, aloneChanges(k), rq'.kvios[k].hasDiscardPermit \in BOOLEAN,
         rq'.kvios[k].hasDiscardPermit =>
            rq.kvios[k].hasDiscardPermit /\ rq'.kvios[k].remainingDiscard > 0 /\ rq'.kvios[k].pc \in {"vdo", "acknowledge"},
         rq'.discards.active = rq.discards.active - (IF rq.kvios[k].hasDiscardPermit /\ ~rq'.kvios[k].hasDiscardPermit THEN 1 ELSE 0)
  PROVE  Discards'
<1>1. \A l \in KVIOs : l # k => /\ rq'.kvios[l].hasDiscardPermit = rq.kvios[l].hasDiscardPermit
                                /\ rq'.kvios[l].remainingDiscard = rq.kvios[l].remainingDiscard
                                /\ rq'.kvios[l].pc = rq.kvios[l].pc
  BY Zenon DEF aloneChanges
<1>2. \A l \in KVIOs' : rq'.kvios[l].hasDiscardPermit => rq'.kvios[l].remainingDiscard > 0 /\ rq'.kvios[l].pc \in {"vdo", "acknowledge"}
  BY Zenon, <1>1 DEF Discards, aloneChanges
<1>3. Holding' = Holding /\ Bios' = Bios
  BY Zenon DEF Holding, Bios, isDiscardBio, mapIsSame
<1>4. rq'.discards.active = Cardinality(Holding) + Cardinality(WithPermit')
  <2>0. IsFiniteSet(WithPermit) /\ Cardinality(WithPermit) \in Nat
    <3>1. WithPermit \subseteq KVIOs
      BY Zenon DEF WithPermit
    <3> QED
      BY <3>1, FinitelyMany, FS_Subset, FS_CardinalityType
  <2>1. CASE rq.kvios[k].hasDiscardPermit /\ ~rq'.kvios[k].hasDiscardPermit
    <3>1. WithPermit' = WithPermit \ {k} /\ k \in WithPermit
      BY Zenon, <1>1, <2>1 DEF WithPermit, aloneChanges
    <3>2. Cardinality(WithPermit') = Cardinality(WithPermit) - 1
      BY Zenon, <2>0, <3>1, OneLess
    <3>3. rq'.discards.active = rq.discards.active - 1
      BY <2>1
    <3>4. Cardinality(Holding) \in Nat
      BY FinitelyMany, FS_Subset, FS_CardinalityType DEF Holding
    <3> QED
      BY <3>2, <3>3, <3>4, <2>0 DEF Discards
  <2>2. CASE ~(rq.kvios[k].hasDiscardPermit /\ ~rq'.kvios[k].hasDiscardPermit)
    <3>1. WithPermit' = WithPermit
      BY Zenon, <1>1, <2>2 DEF WithPermit, aloneChanges
    <3>2. rq'.discards.active = rq.discards.active - 0
      BY Zenon, <2>2
    <3>3. rq.discards.active \in Int
      BY DEF RequestsTypeOK, Limiter
    <3> QED
      BY <3>1, <3>2, <3>3 DEF Discards
  <2> QED
    BY Zenon, <2>1, <2>2
<1> QED
  BY <1>2, <1>3, <1>4 DEF Discards, isDiscardBio, mapIsSame

acknowledges(k) ==
  \/ rq'.kvios[k].bio = rq.kvios[k].bio /\ rq'.acked = rq.acked
  \/ /\ rq.kvios[k].bio # none /\ rq'.kvios[k].bio = none
     /\ \A b \in Bios : rq'.acked[b] = (IF b = rq.kvios[k].bio THEN rq.acked[b] + 1 ELSE rq.acked[b])

(* A bio is acknowledged when its DataKVIO gives it up.                    *)
LEMMA BiosAcknowledged ==
  ASSUME RequestsTypeOK, Acknowledged, mapIsSame, NEW k \in KVIOs, aloneChanges(k), acknowledges(k),
         rq'.kvios[k].pc \in {"free", "queued", "cleaned"} => rq'.kvios[k].bio = none
  PROVE  Acknowledged'
<1>1. \A l \in KVIOs : l # k => rq'.kvios[l].bio = rq.kvios[l].bio /\ rq'.kvios[l].pc = rq.kvios[l].pc
  BY Zenon DEF aloneChanges
<1>2. Bios' = Bios /\ rq'.pcs = rq.pcs /\ KVIOs' = KVIOs
  BY Zenon DEF mapIsSame, Bios, aloneChanges
<1>3. none \notin Bios
  BY Zenon, FinitelyMany
<1>4. \A l \in KVIOs : rq'.kvios[l].bio = rq.kvios[l].bio \/ (l = k /\ rq'.kvios[l].bio = none)
  BY Zenon, <1>1 DEF acknowledges
<1>5. \A b \in Bios : rq'.acked[b] = IF rq'.pcs[b] = "launched" /\ \A l \in KVIOs : rq'.kvios[l].bio # b THEN 1 ELSE 0
  <2> SUFFICES ASSUME NEW b \in Bios
               PROVE  rq'.acked[b] = IF rq.pcs[b] = "launched" /\ \A l \in KVIOs : rq'.kvios[l].bio # b THEN 1 ELSE 0
    BY Zenon, <1>2
  <2>0. rq.acked[b] = IF rq.pcs[b] = "launched" /\ \A l \in KVIOs : rq.kvios[l].bio # b THEN 1 ELSE 0
    BY DEF Acknowledged
  <2>1. CASE rq'.kvios[k].bio = rq.kvios[k].bio /\ rq'.acked = rq.acked
    BY Zenon, <1>1, <2>0, <2>1
  <2>2. CASE /\ rq.kvios[k].bio # none /\ rq'.kvios[k].bio = none
             /\ \A c \in Bios : rq'.acked[c] = (IF c = rq.kvios[k].bio THEN rq.acked[c] + 1 ELSE rq.acked[c])
    <3>1. CASE b = rq.kvios[k].bio
      <4>1. rq.pcs[b] = "launched" /\ \A l \in KVIOs : l # k => rq.kvios[l].bio # b
        BY Zenon, <2>2, <3>1 DEF Acknowledged
      <4>2. \A l \in KVIOs : rq'.kvios[l].bio # b
        BY Zenon, <1>1, <1>3, <2>2, <4>1
      <4>3. rq.acked[b] = 0
        BY <2>0, <3>1
      <4> QED
        BY <2>2, <3>1, <4>1, <4>2, <4>3
    <3>2. CASE b # rq.kvios[k].bio
      <4>1. (\A l \in KVIOs : rq'.kvios[l].bio # b) <=> (\A l \in KVIOs : rq.kvios[l].bio # b)
        BY <1>1, <1>3, <2>2, <3>2
      <4> QED
        BY Zenon, <2>0, <2>2, <3>2, <4>1
    <3> QED
      BY Zenon, <3>1, <3>2
  <2> QED
    BY Zenon, <2>1, <2>2 DEF acknowledges
<1>6. /\ \A l \in KVIOs : rq'.kvios[l].bio # none => rq'.kvios[l].bio \in Bios /\ rq.pcs[rq'.kvios[l].bio] = "launched"
      /\ \A l, m \in KVIOs : rq'.kvios[l].bio # none /\ rq'.kvios[l].bio = rq'.kvios[m].bio => l = m
  BY <1>4 DEF Acknowledged
<1>7. \A l \in KVIOs : rq'.kvios[l].pc \in {"free", "queued", "cleaned"} => rq'.kvios[l].bio = none
  BY Zenon, <1>1 DEF Acknowledged
<1> QED
  BY <1>2, <1>5, <1>6, <1>7 DEF Acknowledged

releases(k) ==
  \/ rq'.discards = rq.discards
  \/ /\ rq'.discards.limit = rq.discards.limit /\ rq'.discards.active = rq.discards.active - 1
     /\ rq'.discards.waiterQueue = SubSeq(rq.discards.waiterQueue, 2, Len(rq.discards.waiterQueue))

(* A released discard permit wakes the first discard which waits for it.   *)
LEMMA DiscardsWoken ==
  ASSUME RequestsTypeOK, WaitingDiscards, NEW k, releases(k), rq'.bios = rq.bios, rq'.pcs = rq.pcs, rq'.stranded = rq.stranded
  PROVE  WaitingDiscards'
<1> DEFINE q == rq.discards.waiterQueue
           w == rq'.discards.waiterQueue
<1>1. CASE rq'.discards = rq.discards
  BY Zenon, <1>1, FrameWaitingDiscards
<1>2. CASE /\ rq'.discards.limit = rq.discards.limit /\ rq'.discards.active = rq.discards.active - 1
           /\ w = SubSeq(q, 2, Len(q))
  <2>0. q \in Seq(Int) /\ rq.discards.active \in Int /\ rq.discards.limit \in Int
    BY DEF RequestsTypeOK, Limiter
  <2>1. CASE Len(q) <= 1
    <3>1. w = <<>>
      <4>1. SubSeq(q, 1 + 1, Len(q)) = <<>>
        BY <2>0, <2>1, Rest
      <4> QED
        BY <1>2, <4>1
    <3> QED
      BY <3>1 DEF WaitingDiscards, DiscardSleepers
  <2>2. CASE Len(q) > 1
    <3>0. Distinct(q)
      BY DEF WaitingDiscards, DiscardSleepers, Distinct
    <3>1. /\ w \in Seq(Int) /\ Len(w) = Len(q) - 1
          /\ \A p \in 1 .. Len(w) : p + 1 \in 1 .. Len(q) /\ w[p] = q[p + 1]
          /\ \A c : inQueue(w, c) <=> inQueue(q, c) /\ \A p \in 1 .. 1 : q[p] # c
      <4> DEFINE n == 1
      <4>1. w = after(q, n) /\ n \in Nat /\ n <= Len(q)
        BY <1>2, <2>0, <2>2 DEF after
      <4>2. q \in Seq(Int)
        BY Zenon, <2>0
      <4> HIDE DEF w, q, n
      <4>3. /\ w \in Seq(Int) /\ Len(w) = Len(q) - n
            /\ \A p \in 1 .. Len(w) : p + n \in 1 .. Len(q) /\ w[p] = q[p + n]
            /\ \A c : inQueue(w, c) <=> inQueue(q, c) /\ \A p \in 1 .. n : q[p] # c
        BY <4>1, <4>2, <3>0, StillQueued
      <4> QED
        BY Zenon, <4>3 DEF n
    <3> DEFINE b == q[1]
    <3>2. b \in Bios /\ rq.pcs[b] = "wantDiscard"
      BY <2>0, <2>2 DEF WaitingDiscards, DiscardSleepers
    <3>3. AwakeDiscards' = AwakeDiscards \cup {b}
      <4>1. \A c : inQueue(w, c) <=> inQueue(q, c) /\ b # c
        BY <3>1
      <4>2. Bios' = Bios
        BY Zenon DEF Bios
      <4> QED
        BY Zenon, <4>1, <4>2, <3>2 DEF AwakeDiscards, isAsleep
    <3>4. b \notin AwakeDiscards
      <4>1. isAsleep(rq.discards, b)
        BY <2>0, <2>2 DEF isAsleep, inQueue
      <4> QED
        BY <4>1 DEF AwakeDiscards
    <3>5. IsFiniteSet(AwakeDiscards) /\ Cardinality(AwakeDiscards) \in Nat
      <4>1. AwakeDiscards \subseteq Bios
        BY DEF AwakeDiscards
      <4> QED
        BY Zenon, <4>1, FinitelyMany, FS_Subset, FS_CardinalityType
    <3>6. Cardinality(AwakeDiscards') = Cardinality(AwakeDiscards) + 1
      BY Zenon, <3>3, <3>4, <3>5, OneMore
    <3>7. rq.stranded \/ rq.discards.active + Cardinality(AwakeDiscards) >= rq.discards.limit
      BY <2>2 DEF WaitingDiscards
    <3>8. rq'.stranded \/ rq'.discards.active + Cardinality(AwakeDiscards') >= rq'.discards.limit
      BY <1>2, <2>0, <3>5, <3>6, <3>7
    <3>9. \A p \in 1 .. Len(w) : w[p] \in Bios /\ rq.pcs[w[p]] = "wantDiscard"
      <4>1. \A p \in 1 .. Len(q) : q[p] \in Bios /\ rq.pcs[q[p]] = "wantDiscard"
        BY Zenon DEF WaitingDiscards, DiscardSleepers
      <4> HIDE DEF q, w
      <4> QED
        BY <3>1, <4>1, Zenon
    <3>10. \A p, r \in 1 .. Len(w) : w[p] = w[r] => p = r
      BY <3>0, <3>1 DEF Distinct
    <3> QED
      BY Zenon, <3>8, <3>9, <3>10 DEF WaitingDiscards, DiscardSleepers, Bios
  <2> QED
    BY <2>0, <2>1, <2>2
<1> QED
  BY Zenon, <1>1, <1>2 DEF releases

returned(k) ==
  /\ rq'.batch.state = rq.batch.state /\ rq'.batch.lock = rq.batch.lock /\ rq'.batch.runs = rq.batch.runs
  /\ rq'.batch.queue = Append(rq.batch.queue, k) /\ rq'.batch.schedulers > 0

(* A step of a DataKVIO in use, which may return it: what is left to show. *)
LEMMA KVIOStep ==
  ASSUME RInv, RequestsTypeOK', mapIsSame, NEW k \in KVIOs, aloneChanges(k), rq.kvios[k].pc \in InUsePCs,
         \/ rq'.kvios[k].pc \in InUsePCs /\ rq'.batch = rq.batch
         \/ rq'.kvios[k].pc = "queued" /\ returned(k),
         rq'.kvios[k].pc = "packed" => rq.compressing,
         Discards', Acknowledged', releases(k)
  PROVE  RInv'
<1>0. RequestsTypeOK /\ Batched /\ Queued
  BY DEF RInv
<1>1. \A l \in KVIOs : l # k => rq'.kvios[l].pc = rq.kvios[l].pc
  BY Zenon DEF aloneChanges
<1>2. Batched' /\ Queued'
  <2>1. CASE rq'.kvios[k].pc \in InUsePCs /\ rq'.batch = rq.batch
    <3>1. Batched'
      BY Zenon, <1>0, <2>1, FrameBatched
    <3>2. Queued'
      BY <1>0, <1>1, <2>1 DEF Queued, aloneChanges, InUsePCs
    <3> QED
      BY <3>1, <3>2
  <2>2. CASE rq'.kvios[k].pc = "queued" /\ returned(k)
    <3>1. Batched'
      BY <1>0, <2>2 DEF Batched, returned
    <3> DEFINE q == rq.batch.queue
               w == rq'.batch.queue
    <3>1a. q \in Seq(Nat)
      BY Zenon, <1>0 DEF RequestsTypeOK, Batch
    <3>1b. k \in Nat
      BY <1>0 DEF RequestsTypeOK
    <3>2. q \in Seq(Nat) /\ k \in Nat
      BY Zenon, <3>1a, <3>1b
    <3>3. w = Append(q, k)
      BY <2>2 DEF returned
    <3>4. /\ Len(w) = Len(q) + 1 /\ Len(q) \in Nat /\ w[Len(q) + 1] = k
          /\ \A p \in 1 .. Len(w) : p # Len(q) + 1 => p \in 1 .. Len(q) /\ w[p] = q[p]
          /\ \A p \in 1 .. Len(q) : p \in 1 .. Len(w) /\ w[p] = q[p]
      BY <3>2, <3>3
    <3>5. \A p \in 1 .. Len(q) : q[p] \in KVIOs /\ rq.kvios[q[p]].pc = "queued"
      BY Zenon, <1>0 DEF Queued
    <3>6. \A p \in 1 .. Len(q) : q[p] # k
      BY <3>5 DEF InUsePCs
    <3>7. \A p, r \in 1 .. Len(q) : q[p] = q[r] => p = r
      BY Zenon, <1>0 DEF Queued
    <3>8. \A l \in KVIOs : rq.kvios[l].pc = "queued" => \E p \in 1 .. Len(q) : q[p] = l
      BY <1>0 DEF Queued
    <3> HIDE DEF q, w
    <3>9. \A p \in 1 .. Len(w) : w[p] \in KVIOs /\ rq'.kvios[w[p]].pc = "queued"
      BY <1>1, <2>2, <3>4, <3>5, <3>6
    <3>10. \A p, r \in 1 .. Len(w) : w[p] = w[r] => p = r
      BY <3>4, <3>6, <3>7
    <3>11. \A l \in KVIOs : rq'.kvios[l].pc = "queued" => \E p \in 1 .. Len(w) : w[p] = l
      <4> SUFFICES ASSUME NEW l \in KVIOs, rq'.kvios[l].pc = "queued"
                   PROVE  \E p \in 1 .. Len(w) : w[p] = l
        OBVIOUS
      <4>1. CASE l = k
        BY <3>4, <4>1
      <4>2. CASE l # k
        BY Zenon, <1>1, <3>4, <3>8, <4>2
      <4> QED
        BY Zenon, <4>1, <4>2
    <3>12. Queued'
      BY <3>9, <3>10, <3>11 DEF Queued, aloneChanges, w
    <3> QED
      BY <3>1, <3>12
  <2> QED
    BY Zenon, <2>1, <2>2
<1>3. Permits' /\ Owed' = Owed
  <2>1. rq'.batch.runs = rq.batch.runs
    BY DEF returned
  <2> QED
    BY Zenon, <2>1, InUsePermits DEF RInv
<1>4. NoAssertionFails' /\ Deadlocked'
  BY Zenon, FrameDeadlocked DEF RInv, mapIsSame, NoAssertionFails
<1>5. Compression'
  BY <1>1 DEF RInv, Compression, mapIsSame, Restoring, isWaiting, Waiters, aloneChanges
<1>6. Sleeping' /\ Wakeups'
  BY Zenon, <1>3, FrameSleeping, FrameWakeups DEF RInv, mapIsSame, Waiters
<1>7. WaitingDiscards'
  BY Zenon, DiscardsWoken DEF RInv, mapIsSame
<1> QED
  BY Zenon, <1>2, <1>3, <1>4, <1>5, <1>6, <1>7 DEF RInv

(* A DataKVIO goes from one thread to another and keeps all it has.        *)
LEMMA KVIOMoves ==
  ASSUME RInv, NEW k \in KVIOs, NEW pc \in InUsePCs, rq.kvios[k].pc \in InUsePCs,
         pc = "packed" => rq.compressing, rq.kvios[k].hasDiscardPermit => pc \in {"vdo", "acknowledge"},
         rq' = [rq EXCEPT !.kvios[k].pc = pc]
  PROVE  RInv'
<1>0. RequestsTypeOK
  BY DEF RInv
<1> DEFINE kvios == [rq.kvios EXCEPT ![k].pc = pc]
<1>1. rq' = made(kvios, rq.batch, rq.discards, rq.acked, rq.faults)
  BY <1>0, Pieces, Zenon DEF made
<1>2. /\ kvios \in [KVIOs -> KVIO] /\ \A l \in KVIOs : l # k => kvios[l] = rq.kvios[l]
      /\ kvios[k].pc = pc /\ kvios[k].bio = rq.kvios[k].bio /\ kvios[k].remainingDiscard = rq.kvios[k].remainingDiscard
      /\ kvios[k].hasDiscardPermit = rq.kvios[k].hasDiscardPermit
  BY <1>0, Pieces DEF KVIO, KVIOPCs, InUsePCs
<1> HIDE DEF kvios
<1>3. /\ RequestsTypeOK' /\ mapIsSame /\ rq'.kvios = kvios /\ rq'.batch = rq.batch /\ rq'.discards = rq.discards
      /\ rq'.acked = rq.acked
  BY <1>0, <1>1, <1>2, Pieces, RequestAlone
<1>4. aloneChanges(k)
  BY Zenon, <1>2, <1>3 DEF aloneChanges, KVIOs
<1>5. Discards'
  <2>1. rq.kvios[k].hasDiscardPermit \in BOOLEAN
    BY <1>0, Pieces DEF KVIO
  <2>2. rq.kvios[k].hasDiscardPermit => rq.kvios[k].remainingDiscard > 0
    BY Zenon DEF RInv, Discards
  <2>3. rq'.discards.active = rq.discards.active - 0
    BY <1>0, <1>3, Pieces DEF Limiter
  <2> QED
    BY <1>0, <1>2, <1>3, <1>4, <2>1, <2>2, <2>3, DiscardPermits DEF RInv
<1>6. Acknowledged'
  BY Zenon, <1>0, <1>2, <1>3, <1>4, BiosAcknowledged DEF RInv, acknowledges, InUsePCs
<1>7. releases(k)
  BY <1>3 DEF releases
<1> QED
  BY ZenonT(30), <1>2, <1>3, <1>4, <1>5, <1>6, <1>7, KVIOStep

(* kvdoAcknowledgeDataVIO(), and the way into the packer and out of it.    *)
LEMMA KVIOMovesRInv ==
  ASSUME RInv, NEW k \in KVIOs, kvdoAcknowledgeDataVIO(k) \/ Pack(k) \/ Unpack(k)
  PROVE  RInv'
<1>1. rq.kvios[k].hasDiscardPermit => rq.kvios[k].remainingDiscard > 0 /\ rq.kvios[k].pc \in {"vdo", "acknowledge"}
  BY DEF RInv, Discards
<1>2. CASE kvdoAcknowledgeDataVIO(k)
  BY <1>2, KVIOMoves, Zenon DEF kvdoAcknowledgeDataVIO, InUsePCs
<1>3. CASE Pack(k)
  <2>1. rq.kvios[k].remainingDiscard = 0 /\ rq.kvios[k].pc = "vdo" /\ rq.compressing /\ rq' = [rq EXCEPT !.kvios[k].pc = "packed"]
    BY <1>3 DEF Pack
  <2>2. ~rq.kvios[k].hasDiscardPermit
    BY <1>1, <2>1
  <2> QED
    BY <2>1, <2>2, KVIOMoves, Zenon DEF InUsePCs
<1>4. CASE Unpack(k)
  BY <1>4, KVIOMoves, Zenon DEF Unpack, InUsePCs
<1> QED
  BY Zenon, <1>2, <1>3, <1>4

batchWith(k) == [rq.batch EXCEPT !.queue = Append(@, k), !.schedulers = @ + 1]
ackedWith(b) == [rq.acked EXCEPT ![b] = @ + 1]

(* The limiter without a permit.                                           *)
LEMMA ReleasedLimiter ==
  ASSUME NEW limiter \in Limiter
  PROVE  /\ limiterRelease(limiter) \in Limiter /\ limiterRelease(limiter).limit = limiter.limit
         /\ limiterRelease(limiter).active = limiter.active - 1
         /\ limiterRelease(limiter).waiterQueue = SubSeq(limiter.waiterQueue, 2, Len(limiter.waiterQueue))
<1> DEFINE q == limiter.waiterQueue
           w == SubSeq(q, 1 + 1, Len(q))
<1>1. q \in Seq(Int)
  BY Zenon DEF Limiter
<1>2. w \in Seq(Int)
  BY Zenon, <1>1, Rest
<1> DEFINE active == limiter.active - 1
<1>3. limiterRelease(limiter) = [limiter EXCEPT !.active = active, !.waiterQueue = w]
  BY DEF limiterRelease, wake, Limiter
<1>4. w = SubSeq(limiter.waiterQueue, 2, Len(limiter.waiterQueue)) /\ active \in Int
  BY DEF Limiter
<1> HIDE DEF w, active
<1>5. /\ limiterRelease(limiter) \in Limiter /\ limiterRelease(limiter).limit = limiter.limit
      /\ limiterRelease(limiter).active = active /\ limiterRelease(limiter).waiterQueue = w
  BY <1>2, <1>3, <1>4, Zenon DEF Limiter
<1> QED
  BY <1>4, <1>5 DEF active

(* A step of a DataKVIO in use, with its bio, its discard permit and the   *)
(* batch it may be returned with.                                          *)
LEMMA KVIOBecomes ==
  ASSUME RInv, NEW k \in KVIOs, NEW v \in KVIO, NEW batch, NEW discards, NEW acked, NEW faults \in Int,
         rq' = made(kviosWith(k, v), batch, discards, acked, faults), rq.kvios[k].pc \in InUsePCs,
         \/ v.pc \in InUsePCs \ {"packed"} /\ batch = rq.batch
         \/ v.pc = "queued" /\ v.bio = none /\ batch = batchWith(k),
         v.hasDiscardPermit => rq.kvios[k].hasDiscardPermit /\ v.remainingDiscard > 0 /\ v.pc \in {"vdo", "acknowledge"},
         discards = IF rq.kvios[k].hasDiscardPermit /\ ~v.hasDiscardPermit THEN limiterRelease(rq.discards) ELSE rq.discards,
         \/ v.bio = rq.kvios[k].bio /\ acked = rq.acked
         \/ v.bio = none /\ rq.kvios[k].bio # none /\ acked = ackedWith(rq.kvios[k].bio)
  PROVE  RInv'
<1>0. RequestsTypeOK
  BY DEF RInv
<1>1. /\ kviosWith(k, v) \in [KVIOs -> KVIO] /\ kviosWith(k, v)[k] = v
      /\ \A l \in KVIOs : l # k => kviosWith(k, v)[l] = rq.kvios[l]
  BY Zenon, <1>0, Pieces DEF kviosWith
<1>2. rq.kvios[k].hasDiscardPermit \in BOOLEAN /\ v.hasDiscardPermit \in BOOLEAN
  BY Zenon, <1>0, Pieces DEF KVIO
<1>3. discards \in Limiter
  BY <1>0, Pieces, ReleasedLimiter
<1>4. /\ acked \in [Bios -> Nat]
      /\ \/ v.bio = rq.kvios[k].bio /\ acked = rq.acked
         \/ /\ rq.kvios[k].bio # none /\ v.bio = none
            /\ \A b \in Bios : acked[b] = (IF b = rq.kvios[k].bio THEN rq.acked[b] + 1 ELSE rq.acked[b])
  <2>1. rq.acked \in [Bios -> Nat]
    BY Zenon, <1>0, Pieces
  <2>2. rq.kvios[k].bio # none => rq.kvios[k].bio \in Bios
    BY Zenon DEF RInv, Acknowledged
  <2> QED
    BY <2>1, <2>2 DEF ackedWith
<1>5. /\ batchWith(k) \in Batch /\ batchWith(k).queue = Append(rq.batch.queue, k) /\ batchWith(k).schedulers > 0
      /\ batchWith(k).state = rq.batch.state /\ batchWith(k).lock = rq.batch.lock /\ batchWith(k).runs = rq.batch.runs
  <2>1. rq.batch \in Batch
    BY Zenon, <1>0, Pieces
  <2>2. k \in Nat
    BY <1>0 DEF RequestsTypeOK
  <2>3. Append(rq.batch.queue, k) \in Seq(Nat) /\ rq.batch.schedulers + 1 \in Nat \ {0}
    BY <2>1, <2>2 DEF Batch
  <2> DEFINE queue == Append(rq.batch.queue, k)
             schedulers == rq.batch.schedulers + 1
  <2>4. batchWith(k) = [rq.batch EXCEPT !.queue = queue, !.schedulers = schedulers] /\ queue \in Seq(Nat) /\ schedulers \in Nat /\ schedulers > 0
    BY <2>3 DEF batchWith
  <2> HIDE DEF queue, schedulers
  <2>5. /\ batchWith(k) \in Batch /\ batchWith(k).queue = queue /\ batchWith(k).schedulers = schedulers
        /\ batchWith(k).state = rq.batch.state /\ batchWith(k).lock = rq.batch.lock /\ batchWith(k).runs = rq.batch.runs
    BY <2>1, <2>4, Zenon DEF Batch
  <2> QED
    BY <2>4, <2>5 DEF queue
<1>6. batch \in Batch
  BY <1>0, <1>5, Pieces
<1>7. /\ RequestsTypeOK' /\ mapIsSame /\ rq'.kvios = kviosWith(k, v) /\ rq'.batch = batch /\ rq'.discards = discards
      /\ rq'.acked = acked
  BY <1>0, <1>1, <1>3, <1>4, <1>6, RequestAlone
<1>8. aloneChanges(k) /\ rq'.kvios[k] = v
  BY <1>0, <1>1, <1>7, Pieces DEF aloneChanges, KVIOs
<1>9. /\ rq'.discards.active = rq.discards.active - (IF rq.kvios[k].hasDiscardPermit /\ ~v.hasDiscardPermit THEN 1 ELSE 0)
      /\ releases(k)
  <2>1. rq.discards \in Limiter /\ rq.discards.active \in Int
    BY Zenon, <1>0, Pieces DEF Limiter
  <2>2. CASE rq.kvios[k].hasDiscardPermit /\ ~v.hasDiscardPermit
    BY <1>7, <2>1, <2>2, ReleasedLimiter DEF releases
  <2>3. CASE ~(rq.kvios[k].hasDiscardPermit /\ ~v.hasDiscardPermit)
    BY <1>7, <2>1, <2>3 DEF releases
  <2> QED
    BY <2>2, <2>3
<1>10. Discards'
  BY <1>0, <1>2, <1>7, <1>8, <1>9, DiscardPermits, ZenonT(30) DEF RInv
<1>11. Acknowledged'
  <2>1. acknowledges(k)
    BY Zenon, <1>4, <1>7, <1>8 DEF acknowledges
  <2>2. v.pc \in {"free", "queued", "cleaned"} => v.bio = none
    BY Zenon DEF InUsePCs
  <2>3. rq'.kvios[k].pc \in {"free", "queued", "cleaned"} => rq'.kvios[k].bio = none
    BY Zenon, <1>8, <2>2
  <2>4. Acknowledged
    BY Zenon DEF RInv
  <2> QED
    BY <1>0, <1>7, <1>8, <2>1, <2>3, <2>4, BiosAcknowledged, Zenon
<1>12. \/ rq'.kvios[k].pc \in InUsePCs /\ rq'.batch = rq.batch
       \/ rq'.kvios[k].pc = "queued" /\ returned(k)
  BY <1>5, <1>7, <1>8, Zenon DEF returned
<1>13. rq'.kvios[k].pc # "packed"
  BY Zenon, <1>8
<1> QED
  BY <1>7, <1>8, <1>9, <1>10, <1>11, <1>12, <1>13, KVIOStep, Zenon

(* kvdoAcknowledgeDataKVIO() for a DataKVIO which goes on.                 *)
LEMMA AcknowledgeThenContinueRInv ==
  ASSUME RInv, NEW k \in KVIOs, kvdoAcknowledgeDataKVIOThenContinue(k)
  PROVE  RInv'
<1>0. RequestsTypeOK /\ rq.kvios[k].pc = "acknowledge"
  BY DEF RInv, kvdoAcknowledgeDataKVIOThenContinue
<1> DEFINE b == rq.kvios[k].bio
           v == [rq.kvios[k] EXCEPT !.bio = none, !.pc = "vdo"]
           acked == IF b = none THEN rq.acked ELSE ackedWith(b)
<1>1. rq' = made(kviosWith(k, v), rq.batch, rq.discards, acked, rq.faults)
  <2>1. CASE b = none
    <3>1. rq' = [rq EXCEPT !.kvios[k].pc = "vdo"]
      BY <2>1 DEF kvdoAcknowledgeDataKVIOThenContinue, kvdoAcknowledgeDataKVIO
    <3>2. v = [rq.kvios[k] EXCEPT !.pc = "vdo"]
      BY <1>0, <2>1, Pieces, Zenon DEF KVIO
    <3> HIDE DEF v
    <3> QED
      BY <1>0, <2>1, <3>1, <3>2, Pieces, Zenon DEF made, kviosWith
  <2>2. CASE b # none
    <3>1. rq' = [[rq EXCEPT !.kvios[k].bio = none, !.acked[b] = @ + 1] EXCEPT !.kvios[k].pc = "vdo"]
      BY <2>2 DEF kvdoAcknowledgeDataKVIOThenContinue, kvdoAcknowledgeDataKVIO
    <3> QED
      BY <1>0, <2>2, <3>1, Pieces, Zenon DEF made, kviosWith, ackedWith
  <2> QED
    BY <2>1, <2>2
<1>2. /\ v \in KVIO /\ v.pc = "vdo" /\ v.bio = none /\ v.hasDiscardPermit = rq.kvios[k].hasDiscardPermit
      /\ v.remainingDiscard = rq.kvios[k].remainingDiscard
  BY <1>0, Pieces, Zenon DEF KVIO, KVIOPCs, none
<1> HIDE DEF v
<1>3. (v.bio = b /\ acked = rq.acked) \/ (v.bio = none /\ b # none /\ acked = ackedWith(b))
  BY Zenon, <1>2
<1>4. rq.kvios[k].hasDiscardPermit => rq.kvios[k].remainingDiscard > 0
  BY DEF RInv, Discards
<1>5. rq.faults \in Int
  BY Zenon, <1>0, Pieces
<1> HIDE DEF acked
<1> QED
  BY ZenonT(30), <1>0, <1>1, <1>2, <1>3, <1>4, <1>5, KVIOBecomes DEF InUsePCs

(* kvdoAcknowledgeDataKVIO() for a DataKVIO which is then returned.        *)
LEMMA AcknowledgeThenCompleteRInv ==
  ASSUME RInv, NEW k \in KVIOs, kvdoAcknowledgeThenCompleteDataKVIO(k)
  PROVE  RInv'
<1>0. RequestsTypeOK /\ rq.kvios[k].pc = "acknowledgeThenComplete"
  BY DEF RInv, kvdoAcknowledgeThenCompleteDataKVIO
<1> DEFINE b == rq.kvios[k].bio
           v == [rq.kvios[k] EXCEPT !.bio = none, !.pc = "queued"]
           acked == IF b = none THEN rq.acked ELSE ackedWith(b)
<1>1. rq' = made(kviosWith(k, v), batchWith(k), rq.discards, acked, rq.faults)
  <2>1. CASE b = none
    <3>1. rq' = [rq EXCEPT !.batch.queue = Append(@, k), !.kvios[k].pc = "queued", !.batch.schedulers = @ + 1]
      BY <2>1 DEF kvdoAcknowledgeThenCompleteDataKVIO, kvdoAcknowledgeDataKVIO, addToBatchProcessor
    <3>2. v = [rq.kvios[k] EXCEPT !.pc = "queued"]
      BY <1>0, <2>1, Pieces, Zenon DEF KVIO
    <3> HIDE DEF v
    <3> QED
      BY <1>0, <2>1, <3>1, <3>2, Pieces, ZenonT(30) DEF made, kviosWith, batchWith, Batch
  <2>2. CASE b # none
    <3>1. rq' = [[rq EXCEPT !.kvios[k].bio = none, !.acked[b] = @ + 1] EXCEPT
                   !.batch.queue = Append(@, k), !.kvios[k].pc = "queued", !.batch.schedulers = @ + 1]
      BY Zenon, <2>2 DEF kvdoAcknowledgeThenCompleteDataKVIO, kvdoAcknowledgeDataKVIO, addToBatchProcessor
    <3> QED
      BY <1>0, <2>2, <3>1, Pieces, ZenonT(30) DEF made, kviosWith, ackedWith, batchWith, Batch
  <2> QED
    BY <2>1, <2>2
<1>2. /\ v \in KVIO /\ v.pc = "queued" /\ v.bio = none /\ v.hasDiscardPermit = rq.kvios[k].hasDiscardPermit
      /\ v.remainingDiscard = rq.kvios[k].remainingDiscard
  BY <1>0, Pieces, Zenon DEF KVIO, KVIOPCs, none
<1> HIDE DEF v
<1>3. (v.bio = b /\ acked = rq.acked) \/ (v.bio = none /\ b # none /\ acked = ackedWith(b))
  BY Zenon, <1>2
<1>4. ~rq.kvios[k].hasDiscardPermit
  BY <1>0 DEF RInv, Discards
<1>5. rq.faults \in Int
  BY Zenon, <1>0, Pieces
<1> HIDE DEF acked
<1> QED
  BY ZenonT(30), <1>0, <1>1, <1>2, <1>3, <1>4, <1>5, KVIOBecomes DEF InUsePCs

completed(k) ==
  [rq.kvios[k] EXCEPT !.remainingDiscard = 0, !.hasDiscardPermit = FALSE,
                      !.pc = IF rq.kvios[k].bio # none THEN "acknowledgeThenComplete" ELSE "queued"]
completedBatch(k) == IF rq.kvios[k].bio # none THEN rq.batch ELSE batchWith(k)
completedDiscards(k) == IF rq.kvios[k].hasDiscardPermit THEN limiterRelease(rq.discards) ELSE rq.discards

(* The end of a request, or of a discard of which nothing remains.         *)
LEMMA CompletesRInv ==
  ASSUME RInv, NEW k \in KVIOs, rq.kvios[k].pc = "vdo", NEW faults \in Int,
         rq' = made(kviosWith(k, completed(k)), completedBatch(k), completedDiscards(k), rq.acked, faults)
  PROVE  RInv'
<1>0. RequestsTypeOK
  BY Zenon DEF RInv
<1> DEFINE v == completed(k)
           batch == completedBatch(k)
           discards == completedDiscards(k)
<1>1. rq.kvios[k] \in KVIO
  BY <1>0, Pieces
<1>2. /\ v \in KVIO /\ v.bio = rq.kvios[k].bio /\ v.hasDiscardPermit = FALSE
      /\ v.pc = IF rq.kvios[k].bio # none THEN "acknowledgeThenComplete" ELSE "queued"
  BY <1>1, Zenon DEF KVIO, KVIOPCs, completed
<1> HIDE DEF v
<1>3. \/ v.pc \in InUsePCs \ {"packed"} /\ batch = rq.batch
      \/ v.pc = "queued" /\ v.bio = none /\ batch = batchWith(k)
  BY Zenon, <1>2 DEF InUsePCs, completedBatch
<1>4. discards = IF rq.kvios[k].hasDiscardPermit /\ ~v.hasDiscardPermit THEN limiterRelease(rq.discards) ELSE rq.discards
  BY Zenon, <1>2 DEF completedDiscards
<1>5. rq' = made(kviosWith(k, v), batch, discards, rq.acked, faults)
  BY Zenon DEF v
<1>6. rq.kvios[k].pc \in InUsePCs
  BY Zenon DEF InUsePCs
<1> HIDE DEF batch, discards
<1> QED
  BY <1>2, <1>3, <1>4, <1>5, <1>6, KVIOBecomes

(* What VDO does at the end of a request or of a block of a discard:       *)
(* kvdoContinueDiscardKVIO() or kvdoCompleteDataKVIO().                    *)
LEMMA FinishRInv ==
  ASSUME RInv, NEW k \in KVIOs, Finish(k)
  PROVE  RInv'
<1>0. RequestsTypeOK /\ rq.kvios[k].pc = "vdo" /\ rq.kvios[k] \in KVIO
  BY Zenon, Pieces DEF RInv, Finish
<1> DEFINE remaining == rq.kvios[k].remainingDiscard
           has == rq.kvios[k].hasDiscardPermit
           v == completed(k)
           batch == completedBatch(k)
           discards == completedDiscards(k)
<1>1. PICK failed \in BOOLEAN :
        rq' = [IF remaining > 0 THEN kvdoContinueDiscardKVIO(rq, k, failed) ELSE kvdoCompleteDataKVIO(rq, k)
                 EXCEPT !.faults = @ - (IF failed THEN 1 ELSE 0)]
  BY Zenon DEF Finish
<1> DEFINE faults == rq.faults - (IF failed THEN 1 ELSE 0)
<1>2. faults \in Int
  BY <1>0, Pieces
<1>3. CASE ~(remaining > 0)
  <2>1. remaining = 0 /\ ~has /\ has \in BOOLEAN
    BY <1>0, <1>3 DEF KVIO, RInv, Discards
  <2>2. kvdoCompleteDataKVIO(rq, k) = [rq EXCEPT !.kvios = kviosWith(k, v), !.batch = batch]
    <3>1. v = [rq.kvios[k] EXCEPT !.pc = IF rq.kvios[k].bio # none THEN "acknowledgeThenComplete" ELSE "queued"]
      BY <1>0, <2>1, Zenon DEF KVIO, completed
    <3> HIDE DEF v
    <3> QED
      BY <1>0, <3>1, Pieces, Zenon DEF completedBatch, kvdoCompleteDataKVIO, addToBatchProcessor, kviosWith, batchWith, Batch
  <2>3. rq' = made(kviosWith(k, v), batch, discards, rq.acked, faults)
    <3> HIDE DEF v, batch
    <3> QED
      BY <1>0, <1>1, <1>3, <2>1, <2>2, Pieces, ZenonT(30) DEF made, completedDiscards
  <2> HIDE DEF faults
  <2> QED
    BY Zenon, <1>0, <1>2, <2>3, CompletesRInv
<1>4. CASE remaining > 0 /\ ~failed /\ remaining - 1 # 0
  <2> DEFINE u == [rq.kvios[k] EXCEPT !.remainingDiscard = remaining - 1]
  <2>1. rq' = made(kviosWith(k, u), rq.batch, rq.discards, rq.acked, faults)
    <3>1. kvdoContinueDiscardKVIO(rq, k, failed) = [rq EXCEPT !.kvios[k].remainingDiscard = remaining - 1]
      BY <1>4 DEF kvdoContinueDiscardKVIO
    <3>2. [rq EXCEPT !.kvios[k].remainingDiscard = remaining - 1] = [rq EXCEPT !.kvios = kviosWith(k, u)]
      BY Zenon DEF kviosWith
    <3> HIDE DEF u
    <3> QED
      BY <1>0, <1>1, <1>4, <3>1, <3>2, Pieces, ZenonT(30) DEF made
  <2>2. remaining - 1 \in Nat /\ remaining - 1 > 0
    BY <1>0, <1>4 DEF KVIO
  <2> DEFINE less == remaining - 1
  <2>3. u = [rq.kvios[k] EXCEPT !.remainingDiscard = less] /\ less \in Nat /\ less > 0
    BY Zenon, <2>2
  <2> HIDE DEF less, u
  <2>4. /\ u \in KVIO /\ u.pc = "vdo" /\ u.bio = rq.kvios[k].bio /\ u.hasDiscardPermit = rq.kvios[k].hasDiscardPermit
        /\ u.remainingDiscard > 0
    BY Zenon, <1>0, <2>3 DEF KVIO
  <2> HIDE DEF faults
  <2> QED
    BY Zenon, <1>0, <1>2, <2>1, <2>4, KVIOBecomes DEF InUsePCs
<1>5. CASE remaining > 0 /\ (failed \/ remaining - 1 = 0)
  <2> DEFINE r == [[rq EXCEPT !.kvios[k].remainingDiscard = remaining - 1] EXCEPT
                     !.kvios[k].remainingDiscard = 0, !.kvios[k].hasDiscardPermit = FALSE,
                     !.discards = IF has THEN limiterRelease(@) ELSE @]
             u == [rq.kvios[k] EXCEPT !.remainingDiscard = 0, !.hasDiscardPermit = FALSE]
  <2>1. kvdoContinueDiscardKVIO(rq, k, failed) = kvdoCompleteDataKVIO(r, k)
    BY <1>5 DEF kvdoContinueDiscardKVIO
  <2>2. r = [rq EXCEPT !.kvios = kviosWith(k, u), !.discards = discards]
    <3>1. r = [rq EXCEPT !.kvios = [[rq.kvios EXCEPT ![k].remainingDiscard = remaining - 1] EXCEPT ![k].remainingDiscard = 0, ![k].hasDiscardPermit = FALSE],
                         !.discards = discards]
      BY <1>0, Pieces, Zenon DEF completedDiscards
    <3>2. [[rq.kvios EXCEPT ![k].remainingDiscard = remaining - 1] EXCEPT ![k].remainingDiscard = 0, ![k].hasDiscardPermit = FALSE] = kviosWith(k, u)
      <4>1. [[rq.kvios[k] EXCEPT !.remainingDiscard = remaining - 1] EXCEPT !.remainingDiscard = 0, !.hasDiscardPermit = FALSE] = u
        BY <1>0, Zenon DEF KVIO
      <4> HIDE DEF u
      <4> QED
        BY <1>0, <4>1, Pieces, Zenon DEF kviosWith
    <3> QED
      BY <3>1, <3>2, Zenon
  <2>3. u.bio = rq.kvios[k].bio /\ v = [u EXCEPT !.pc = IF rq.kvios[k].bio # none THEN "acknowledgeThenComplete" ELSE "queued"]
    BY Zenon, <1>0 DEF KVIO, completed
  <2> HIDE DEF r, u, v, discards
  <2>4. kviosWith(k, u)[k] = u /\ r.kvios = kviosWith(k, u) /\ r.batch = rq.batch /\ r.kvios[k].bio = rq.kvios[k].bio
    BY Zenon, <1>0, <2>2, <2>3, Pieces DEF kviosWith
  <2>5. [kviosWith(k, u) EXCEPT ![k] = v] = kviosWith(k, v)
    BY <1>0, Pieces DEF kviosWith
  <2>6. kvdoCompleteDataKVIO(r, k) = [rq EXCEPT !.kvios = kviosWith(k, v), !.batch = batch, !.discards = discards]
    <3>1. CASE rq.kvios[k].bio # none
      <4>1. kvdoCompleteDataKVIO(r, k) = [r EXCEPT !.kvios = [kviosWith(k, u) EXCEPT ![k] = v]]
        BY <2>2, <2>3, <2>4, <3>1, Zenon DEF kvdoCompleteDataKVIO
      <4> QED
        BY <1>0, <2>2, <2>5, <3>1, <4>1, Pieces, ZenonT(30) DEF completedBatch
    <3>2. CASE rq.kvios[k].bio = none
      <4>1. kvdoCompleteDataKVIO(r, k) = [r EXCEPT !.batch = batchWith(k), !.kvios = [kviosWith(k, u) EXCEPT ![k] = v]]
        BY <1>0, <2>2, <2>3, <2>4, <3>2, Pieces, ZenonT(30) DEF kvdoCompleteDataKVIO, addToBatchProcessor, batchWith, Batch
      <4> QED
        BY <1>0, <2>2, <2>5, <3>2, <4>1, Pieces, ZenonT(30) DEF completedBatch
    <3> QED
      BY Zenon, <3>1, <3>2
  <2>7. rq' = made(kviosWith(k, v), batch, discards, rq.acked, faults)
    <3> HIDE DEF batch
    <3> QED
      BY <1>0, <1>1, <1>5, <2>1, <2>6, Pieces, ZenonT(30) DEF made
  <2> HIDE DEF faults
  <2> QED
    BY <1>0, <1>2, <2>7, CompletesRInv DEF v, discards
<1> QED
  BY <1>3, <1>4, <1>5

-----------------------------------------------------------------------------
(* A batch at work                                                         *)

(* returnDataKVIOBatchToPool() takes the DataKVIO at the head of the queue.*)
LEMMA CleanNextRInv ==
  ASSUME RInv, NEW i \in Runs, CleanNext(i)
  PROVE  RInv'
<1>0. RequestsTypeOK /\ Batched /\ Queued
  BY DEF RInv
<1> DEFINE q == rq.batch.queue
           k == Head(q)
           kvios == [rq.kvios EXCEPT ![k].pc = "cleaned"]
<1>1. q \in Seq(Nat) /\ q # <<>> /\ Len(q) \in Nat /\ Len(q) > 0 /\ k = q[1]
  <2>1. q \in Seq(Nat)
    BY Zenon, <1>0, Pieces DEF Batch
  <2>2. q # <<>>
    BY DEF CleanNext
  <2> HIDE DEF q
  <2> QED
    BY <2>1, <2>2
<1>2. k \in KVIOs /\ rq.kvios[k].pc = "queued" /\ rq.kvios[k].bio = none /\ ~rq.kvios[k].hasDiscardPermit
  <2>1. k \in KVIOs /\ rq.kvios[k].pc = "queued"
    BY <1>0, <1>1 DEF Queued
  <2>2. rq.kvios[k].bio = none
    BY Zenon, <2>1 DEF RInv, Acknowledged
  <2>3. ~rq.kvios[k].hasDiscardPermit
    BY Zenon, <2>1 DEF RInv, Discards
  <2> QED
    BY <2>1, <2>2, <2>3
<1>3. PICK pc \in {"loop", "resched"} :
        rq' = [cleanDataKVIO(rq, k) EXCEPT !.batch.runs[i] = [pc |-> pc, count |-> @.count + 1],
                 !.batch.lock = IF pc = "resched" THEN none ELSE i]
  BY Zenon DEF CleanNext
<1>4. rq.batch.runs[i].pc = "loop"
  BY Zenon DEF CleanNext
<1> DEFINE run == [pc |-> pc, count |-> rq.batch.runs[i].count + 1]
           lock == IF pc = "resched" THEN 0 ELSE i
           batch == [rq.batch EXCEPT !.queue = Tail(@), !.lock = lock, !.runs = [@ EXCEPT ![i] = run]]
<1>5. rq' = made(kvios, batch, rq.discards, rq.acked, rq.faults)
  <2>1. cleanDataKVIO(rq, k) = [rq EXCEPT !.kvios[k].pc = "cleaned", !.batch.queue = Tail(@)]
    BY <1>2 DEF cleanDataKVIO, kvdoAcknowledgeDataKVIO
  <2>2. cleanDataKVIO(rq, k) = [rq EXCEPT !.kvios = kvios, !.batch = [rq.batch EXCEPT !.queue = Tail(@)]]
    BY Zenon, <2>1, <1>0, Pieces
  <2> DEFINE first == [rq.batch EXCEPT !.queue = Tail(@)]
             rest == [first EXCEPT !.runs = [@ EXCEPT ![i] = run], !.lock = lock]
  <2>3. rq.batch \in Batch /\ rq.batch.runs[i] \in Run
    BY Zenon, <1>0, Pieces DEF Batch
  <2>5. first \in Batch /\ first.runs = rq.batch.runs
    <3>1. Tail(q) \in Seq(Nat)
      BY <1>1
    <3> DEFINE tail == Tail(q)
    <3>2. first = [rq.batch EXCEPT !.queue = tail] /\ tail \in Seq(Nat)
      BY Zenon, <3>1
    <3> HIDE DEF tail
    <3> QED
      BY <2>3, <3>2, Zenon DEF Batch
  <2>6. rest = batch
    <3> HIDE DEF run
    <3> QED
      BY <2>3, Zenon DEF Batch
  <2>7. rq' = [rq EXCEPT !.kvios = kvios, !.batch = rest]
    <3>1. rq' = [cleanDataKVIO(rq, k) EXCEPT !.batch.runs[i] = [pc |-> pc, count |-> @.count + 1], !.batch.lock = lock]
      BY <1>3 DEF none
    <3>2. cleanDataKVIO(rq, k).batch.runs[i].count + 1 = rq.batch.runs[i].count + 1
      BY <1>0, <2>2, <2>5, Pieces, Zenon
    <3>3. rq' = [cleanDataKVIO(rq, k) EXCEPT !.batch.runs[i] = run, !.batch.lock = lock]
      BY <3>1, <3>2, Zenon
    <3>4. cleanDataKVIO(rq, k) = [rq EXCEPT !.kvios = kvios, !.batch = first]
      BY Zenon, <2>2
    <3> DEFINE c == cleanDataKVIO(rq, k)
    <3>5. c.batch = first /\ rq' = [c EXCEPT !.batch.runs[i] = run, !.batch.lock = lock] /\ c = [rq EXCEPT !.kvios = kvios, !.batch = first]
      BY <1>0, <3>3, <3>4, Pieces, Zenon
    <3> HIDE DEF kvios, first, q, k, run, lock, c
    <3>6. rq' = [c EXCEPT !.batch = rest]
      BY <1>0, <2>5, <3>5, Pieces, Zenon DEF Batch
    <3> HIDE DEF rest
    <3> QED
      BY <1>0, <3>5, <3>6, Pieces, Zenon
  <2> HIDE DEF batch, kvios, rest, first
  <2> QED
    BY <1>0, <2>6, <2>7, Pieces, Zenon DEF made
<1>6. /\ kvios \in [KVIOs -> KVIO] /\ kvios[k].pc = "cleaned" /\ kvios[k].bio = none /\ kvios[k].hasDiscardPermit = rq.kvios[k].hasDiscardPermit
      /\ \A l \in KVIOs : l # k => kvios[l] = rq.kvios[l]
  BY Zenon, <1>0, <1>2, Pieces DEF KVIO, KVIOPCs
<1>7. /\ batch \in Batch /\ batch.queue = Tail(q) /\ batch.lock = lock /\ batch.state = rq.batch.state
      /\ batch.schedulers = rq.batch.schedulers /\ batch.runs[i] = run /\ \A j \in Runs : j # i => batch.runs[j] = rq.batch.runs[j]
  <2>1. rq.batch \in Batch /\ Tail(q) \in Seq(Nat) /\ lock \in 0 .. 2 /\ run \in Run
    BY <1>0, <1>1, Pieces DEF Batch, Run, RunPCs, Runs
  <2> DEFINE runs == [rq.batch.runs EXCEPT ![i] = run]
  <2>2. runs \in [Runs -> Run] /\ runs[i] = run /\ \A j \in Runs : j # i => runs[j] = rq.batch.runs[j]
    BY Zenon, <2>1 DEF Batch
  <2> HIDE DEF runs, lock, run
  <2>3. batch = [rq.batch EXCEPT !.queue = Tail(q), !.lock = lock, !.runs = runs]
    BY Zenon DEF runs
  <2> HIDE DEF q
  <2> QED
    BY <2>1, <2>2, <2>3, Zenon DEF Batch
<1>8. /\ RequestsTypeOK' /\ mapIsSame /\ rq'.kvios = kvios /\ rq'.batch = batch /\ rq'.discards = rq.discards
      /\ rq'.acked = rq.acked
  <2> HIDE DEF kvios, batch
  <2> QED
    BY <1>0, <1>5, <1>6, <1>7, Pieces, RequestAlone
<1> HIDE DEF kvios, batch, q, k
<1>9. aloneChanges(k) /\ rq'.kvios[k].pc = "cleaned"
  BY Zenon, <1>0, <1>6, <1>8, Pieces DEF aloneChanges, KVIOs
<1>10. \A l \in KVIOs : l # k => rq'.kvios[l].pc = rq.kvios[l].pc
  BY <1>9 DEF aloneChanges
<1>11. Batched'
  <2>1. \A j \in Runs : j # 0
    BY DEF Runs
  <2>2. rq.batch.runs[i].count + 1 > 0
    BY <1>0, Pieces DEF Batch, Run
  <2>3. rq'.batch.runs[i].pc = pc /\ \A j \in Runs : j # i => rq'.batch.runs[j].pc = rq.batch.runs[j].pc /\ rq'.batch.runs[j].count = rq.batch.runs[j].count
    BY <1>7, <1>8
  <2>4. rq'.batch.state = rq.batch.state /\ rq'.batch.lock = lock /\ rq.batch.lock = i
    BY Zenon, <1>0, <1>4, <1>7, <1>8 DEF Batched, LockedPCs
  <2> QED
    BY <1>0, <1>4, <2>1, <2>3, <2>4 DEF Batched, ActivePCs, LockedPCs, CountingPCs
<1>12. Queued'
  <2> DEFINE w == rq'.batch.queue
  <2>1. w = Tail(q)
    BY <1>7, <1>8
  <2>2. Len(w) = Len(q) - 1 /\ \A p \in 1 .. Len(w) : p + 1 \in 1 .. Len(q) /\ p + 1 # 1 /\ w[p] = q[p + 1]
    BY <1>1, <2>1
  <2>3. /\ \A p \in 1 .. Len(q) : q[p] \in KVIOs /\ rq.kvios[q[p]].pc = "queued"
        /\ \A p, r \in 1 .. Len(q) : q[p] = q[r] => p = r
        /\ \A l \in KVIOs : rq.kvios[l].pc = "queued" => \E p \in 1 .. Len(q) : q[p] = l
    BY Zenon, <1>0 DEF Queued, q
  <2> HIDE DEF w
  <2>4. \A p \in 1 .. Len(w) : w[p] # k
    BY <1>1, <2>2, <2>3
  <2>5. \A p \in 1 .. Len(w) : w[p] \in KVIOs /\ rq'.kvios[w[p]].pc = "queued"
    BY <1>10, <2>2, <2>3, <2>4
  <2>6. \A p, r \in 1 .. Len(w) : w[p] = w[r] => p = r
    BY <2>2, <2>3
  <2>7. ASSUME NEW l \in KVIOs, rq'.kvios[l].pc = "queued"
        PROVE  \E p \in 1 .. Len(w) : w[p] = l
    <3>1. l # k
      BY <1>9, <2>7
    <3>2. PICK p \in 1 .. Len(q) : q[p] = l
      BY Zenon, <1>10, <2>3, <2>7, <3>1
    <3>3. p - 1 \in 1 .. Len(w) /\ (p - 1) + 1 = p
      BY <1>1, <2>2, <3>1, <3>2
    <3> QED
      BY <2>2, <3>2, <3>3, Zenon
  <2> QED
    BY <1>9, <2>5, <2>6, <2>7 DEF Queued, aloneChanges, w
<1>13. Permits' /\ Owed' = Owed
  <2>1. Launching' = Launching
    BY <1>8 DEF Launching, mapIsSame, Bios
  <2>2. Used' = Used \ {k} /\ k \in Used
    BY Zenon, <1>2, <1>9, <1>10 DEF Used, aloneChanges, cleaned, KVIOs
  <2>3. cleaned(rq)' = cleaned(rq) \cup {k} /\ k \notin cleaned(rq)
    BY <1>2, <1>9, <1>10 DEF aloneChanges, cleaned, KVIOs
  <2>4. Cardinality(Used') = Cardinality(Used) - 1 /\ Cardinality(cleaned(rq)') = Cardinality(cleaned(rq)) + 1
    BY ZenonT(30), <1>0, <2>2, <2>3, FiniteCounts, OneMore, OneLess
  <2>5. rq.batch \in Batch /\ rq'.batch \in Batch /\ \A j \in Runs : j # i => rq'.batch.runs[j] = rq.batch.runs[j]
    BY <1>0, <1>7, <1>8, Pieces
  <2>6. rq.batch.runs[i].count \in Nat /\ rq'.batch.runs[i].pc = pc /\ rq'.batch.runs[i].count = rq.batch.runs[i].count + 1
    BY <2>5, <1>7, <1>8 DEF Batch, Run
  <2>7. /\ counted(i, CountingPCs \ {"wake"})' = counted(i, CountingPCs \ {"wake"}) + 1
        /\ counted(i, {"loop", "resched"})' = counted(i, {"loop", "resched"}) + 1
        /\ counted(i, {"wake"})' = counted(i, {"wake"})
    BY Zenon, <1>4, <2>6 DEF counted, CountingPCs
  <2>8. Held' = Held + 1 /\ Held \in Nat
    BY <2>5, <2>7, CountsChange DEF Held
  <2>9. Cleaning' = Cleaning + 1 /\ Cleaning \in Nat
    BY <2>5, <2>7, CountsChange DEF Cleaning
  <2>10. Owed' = Owed
    BY <2>5, <2>7, CountsChange DEF Owed
  <2> QED
    BY <1>0, <1>8, <2>1, <2>4, <2>8, <2>9, <2>10, FiniteCounts DEF RInv, Permits, mapIsSame
<1>14. Discards'
  <2>1. rq.discards.active \in Int /\ rq'.kvios[k].hasDiscardPermit = FALSE
    BY <1>0, <1>2, <1>6, <1>8, Pieces DEF Limiter, KVIO
  <2>2. rq'.discards.active = rq.discards.active - (IF rq.kvios[k].hasDiscardPermit /\ ~rq'.kvios[k].hasDiscardPermit THEN 1 ELSE 0)
    BY <1>2, <1>8, <2>1
  <2> QED
    BY <1>0, <1>2, <1>8, <1>9, <2>1, <2>2, DiscardPermits, ZenonT(30) DEF RInv
<1>15. Acknowledged'
  BY <1>0, <1>2, <1>6, <1>8, <1>9, BiosAcknowledged DEF RInv, acknowledges
<1>16. NoAssertionFails' /\ Deadlocked'
  BY <1>8, FrameDeadlocked DEF RInv, mapIsSame, NoAssertionFails
<1>17. Compression'
  BY <1>8, <1>9, <1>10 DEF RInv, Compression, mapIsSame, Restoring, isWaiting, Waiters, aloneChanges
<1>18. Sleeping' /\ Wakeups' /\ WaitingDiscards'
  BY ZenonT(30), <1>8, <1>13, FrameSleeping, FrameWakeups, FrameWaitingDiscards DEF RInv, mapIsSame, Waiters
<1> QED
  BY <1>8, <1>11, <1>12, <1>13, <1>14, <1>15, <1>16, <1>17, <1>18 DEF RInv

(* A run from the first item to the wakeup is the only one which counts.   *)
LEMMA OneCounts ==
  ASSUME RequestsTypeOK, Batched, NEW i \in Runs, rq.batch.runs[i].pc \in ActivePCs, NEW j \in Runs, j # i
  PROVE  rq.batch.runs[j].count = 0 /\ \A pcs : counted(j, pcs) = 0
<1>1. rq.batch.runs[j].pc \notin CountingPCs
  BY Zenon DEF Batched, CountingPCs, ActivePCs
<1>2. rq.batch.runs[j].count = 0
  BY Zenon, <1>1, NothingCounted
<1> QED
  BY <1>2 DEF counted

(* freeBuffersToPool() returns the DataKVIOs of the batch.                 *)
LEMMA FreeBuffersRInv ==
  ASSUME RInv, NEW i \in Runs, FreeBuffers(i)
  PROVE  RInv'
<1>0. RequestsTypeOK /\ Batched
  BY DEF RInv
<1>1. rq.batch.runs[i].pc = "loop"
  BY DEF FreeBuffers
<1> DEFINE kvios == [k \in KVIOs |-> IF k \in cleaned(rq) THEN [rq.kvios[k] EXCEPT !.pc = "free", !.hasDiscardPermit = FALSE] ELSE rq.kvios[k]]
           batch == changed(i, "complete", rq.batch.state, rq.batch.lock, rq.batch.schedulers)
<1>2. rq' = made(kvios, batch, rq.discards, rq.acked, rq.faults)
  <2>1. rq' = [[rq EXCEPT !.kvios = kvios] EXCEPT !.batch.runs[i].pc = "complete"]
    BY DEF FreeBuffers, freeBuffersToPool, KVIOs
  <2>2. [rq.batch EXCEPT !.runs[i].pc = "complete"] = batch
    BY <1>0, Pieces, Zenon DEF changed, Batch
  <2> HIDE DEF kvios
  <2>3. rq' = [rq EXCEPT !.kvios = kvios, !.batch = [rq.batch EXCEPT !.runs[i].pc = "complete"]]
    BY Zenon, <1>0, <2>1, Pieces
  <2> HIDE DEF batch
  <2> QED
    BY <1>0, <2>2, <2>3, Pieces, Zenon DEF made
<1>3. /\ kvios \in [KVIOs -> KVIO]
      /\ \A k \in KVIOs : /\ rq.kvios[k].pc = "cleaned" => kvios[k].pc = "free" /\ kvios[k].bio = rq.kvios[k].bio /\ kvios[k].hasDiscardPermit = FALSE
                          /\ rq.kvios[k].pc # "cleaned" => kvios[k] = rq.kvios[k]
  <2>1. rq.kvios \in [KVIOs -> KVIO]
    BY Zenon, <1>0, Pieces
  <2>2. \A k \in KVIOs : k \in cleaned(rq) <=> rq.kvios[k].pc = "cleaned"
    BY DEF cleaned, KVIOs
  <2> QED
    BY <2>1, <2>2, Zenon DEF KVIO, KVIOPCs
<1>4. /\ batch \in Batch
      /\ batch.state = rq.batch.state /\ batch.lock = rq.batch.lock /\ batch.queue = rq.batch.queue
      /\ batch.schedulers = rq.batch.schedulers
      /\ \A j \in Runs : batch.runs[j].pc = (IF j = i THEN "complete" ELSE rq.batch.runs[j].pc)
                         /\ batch.runs[j].count = rq.batch.runs[j].count
  <2>1. "complete" \in RunPCs /\ rq.batch.state \in {"idle", "enqueued"} /\ rq.batch.lock \in 0 .. 2 /\ rq.batch.schedulers \in Nat
    BY Zenon, <1>0, Pieces DEF RunPCs, Batch
  <2>2. batch = changed(i, "complete", rq.batch.state, rq.batch.lock, rq.batch.schedulers)
    OBVIOUS
  <2> HIDE DEF batch, kvios
  <2> QED
    BY <1>0, <2>1, <2>2, ChangedBatch
<1>4a. \A j \in Runs : j # i => batch.runs[j] = rq.batch.runs[j]
  BY <1>0, ChangedOthers
<1> HIDE DEF kvios, batch
<1>5. /\ RequestsTypeOK' /\ mapIsSame /\ rq'.kvios = kvios /\ rq'.batch = batch /\ rq'.discards = rq.discards
      /\ rq'.acked = rq.acked
  BY <1>0, <1>2, <1>3, <1>4, Pieces, RequestAlone
<1>6. KVIOs' = KVIOs
  BY ZenonT(30), <1>3, <1>5 DEF KVIOs
<1>7. Batched'
  BY <1>0, <1>1, <1>4, <1>5 DEF Batched, ActivePCs, LockedPCs, CountingPCs
<1>8. Queued'
  BY <1>3, <1>4, <1>5, <1>6 DEF RInv, Queued
<1>9. \A k \in KVIOs : ~rq.kvios[k].hasDiscardPermit \/ rq.kvios[k].pc # "cleaned"
  BY DEF RInv, Discards
<1>10. \A k \in KVIOs : rq'.kvios[k].hasDiscardPermit <=> rq.kvios[k].hasDiscardPermit
  BY ZenonT(30), <1>3, <1>5, <1>9
<1>11. Discards'
  <2>1. WithPermit' = WithPermit
    BY <1>6, <1>10 DEF WithPermit
  <2>2. Holding' = Holding /\ Bios' = Bios
    BY <1>5 DEF Holding, Bios, isDiscardBio, mapIsSame
  <2>3. \A k \in KVIOs : rq'.kvios[k].hasDiscardPermit => rq'.kvios[k].remainingDiscard > 0 /\ rq'.kvios[k].pc \in {"vdo", "acknowledge"}
    BY ZenonT(30), <1>3, <1>5, <1>9, <1>10 DEF RInv, Discards
  <2> QED
    BY <1>5, <1>6, <2>1, <2>2, <2>3 DEF RInv, Discards, isDiscardBio, mapIsSame
<1>12. Acknowledged'
  BY <1>3, <1>5, <1>6 DEF RInv, Acknowledged, mapIsSame, Bios
<1>13. Permits' /\ Owed' = Owed
  <2>1. Used' = Used
    BY <1>3, <1>5, <1>6 DEF Used, cleaned, KVIOs
  <2>2. cleaned(rq)' = {}
    BY Zenon, <1>3, <1>5, <1>6 DEF cleaned, KVIOs
  <2>3. Cleaning' = 0
    <3>1. rq'.batch.runs[i].pc = "complete" /\ \A j \in Runs : j # i => rq'.batch.runs[j].count = 0
      BY ZenonT(30), <1>0, <1>1, <1>4, <1>5, OneCounts DEF ActivePCs
    <3>2. \A j \in Runs : counted(j, {"loop", "resched"})' = 0
      BY <3>1 DEF counted
    <3> QED
      BY <3>2 DEF Cleaning, Runs
  <2>4. rq'.batch.runs[i].count = rq.batch.runs[i].count /\ rq.batch.runs[i].count \in Nat /\ rq'.batch.runs[i].pc = "complete"
    BY ZenonT(30), <1>0, <1>4, <1>5, Pieces DEF Batch, Run
  <2>5. /\ counted(i, CountingPCs \ {"wake"})' - counted(i, CountingPCs \ {"wake"}) = 0
        /\ counted(i, {"wake"})' = counted(i, {"wake"})
    BY <1>1, <2>4 DEF counted, CountingPCs
  <2>6. \A j \in Runs : j # i => rq'.batch.runs[j] = rq.batch.runs[j]
    BY Zenon, <1>4a, <1>5
  <2>7. rq'.requests = rq.requests /\ rq.requests.active \in Int /\ rq'.requests.active - rq.requests.active = 0
    BY <1>0, <1>5, Pieces DEF mapIsSame, Limiter
  <2>8. Permits'
    <3>1. Permits /\ rq'.bios = rq.bios /\ rq'.pcs = rq.pcs /\ rq'.requests.limit = rq.requests.limit /\ rq'.requests.active <= rq.requests.active
      BY <1>5, <2>7 DEF RInv, mapIsSame
    <3>2. counted(i, CountingPCs \ {"wake"})' - counted(i, CountingPCs \ {"wake"}) = rq'.requests.active - rq.requests.active
      BY Zenon, <2>5, <2>7
    <3>3. Cardinality(cleaned(rq)') = Cleaning'
      BY Zenon, <2>2, <2>3, FS_EmptySet
    <3> QED
      BY ZenonT(30), <1>0, <1>5, <2>1, <2>6, <3>1, <3>2, <3>3, PermitsOfBatch
  <2>9. Owed' = Owed
    <3>1. rq.batch \in Batch /\ rq'.batch \in Batch
      BY Zenon, <1>0, <1>4, <1>5, Pieces
    <3> QED
      BY <2>5, <2>6, <3>1, CountsChange DEF Owed
  <2> QED
    BY Zenon, <2>8, <2>9
<1>14. NoAssertionFails' /\ Deadlocked'
  BY <1>5, FrameDeadlocked DEF RInv, mapIsSame, NoAssertionFails
<1>15. Compression'
  BY <1>3, <1>5, <1>6 DEF RInv, Compression, mapIsSame, Restoring, isWaiting, Waiters
<1>16. Sleeping' /\ Wakeups' /\ WaitingDiscards'
  BY ZenonT(30), <1>5, <1>13, FrameSleeping, FrameWakeups, FrameWaitingDiscards DEF RInv, mapIsSame, Waiters
<1> QED
  BY <1>5, <1>7, <1>8, <1>11, <1>12, <1>13, <1>14, <1>15, <1>16 DEF RInv

-----------------------------------------------------------------------------
(* The launch of a bio                                                     *)

(* kvdoMapBio()                                                            *)
LEMMA MapBioRInv ==
  ASSUME RInv, NEW b \in Bios, kvdoMapBio(b)
  PROVE  RInv'
<1>1. CASE rq.bios[b].onVDOThread /\ takePermitLocked(rq.requests)
  BY Zenon, <1>1, LaunchFromVDOThreadRInv DEF kvdoMapBio
<1>2. CASE rq.bios[b].onVDOThread /\ ~takePermitLocked(rq.requests)
  <2>1. rq' = [rq EXCEPT !.pcs[b] = "refused"]
    BY <1>2, Zenon DEF kvdoMapBio, launchDataKVIOFromVDOThread
  <2> QED
    BY <2>1, BioIsMappedRInv, Zenon DEF kvdoMapBio
<1>3. CASE ~rq.bios[b].onVDOThread /\ isDiscardBio(b)
  <2>1. rq' = [rq EXCEPT !.pcs[b] = "wantDiscard"]
    BY Zenon, <1>3 DEF kvdoMapBio
  <2> QED
    BY <1>3, <2>1, BioIsMappedRInv, Zenon DEF kvdoMapBio
<1>4. CASE ~rq.bios[b].onVDOThread /\ ~isDiscardBio(b)
  <2>1. rq' = [rq EXCEPT !.pcs[b] = "wantRequest"]
    BY Zenon, <1>4 DEF kvdoMapBio
  <2> QED
    BY <1>4, <2>1, BioIsMappedRInv, Zenon DEF kvdoMapBio
<1> QED
  BY <1>1, <1>2, <1>3, <1>4

-----------------------------------------------------------------------------
(* Waiting until no request is active                                      *)

(* waitForNoRequestsActive(), and the wait for idleness.                   *)
LEMMA WaiterRInv ==
  ASSUME RInv, NEW i \in Waiters, waitForNoRequestsActive(i) \/ limiterWaitForIdle(i)
  PROVE  RInv'
<1>0. RequestsTypeOK /\ Sleeping
  BY DEF RInv
<1>1. CASE rq.waiters[i].pc = "idle" /\ rq' = [rq EXCEPT !.waiters[i].pc = IF rq.requests.active = 0 THEN "done" ELSE "turnOff"]
  <2> DEFINE pc == IF rq.requests.active = 0 THEN "done" ELSE "turnOff"
  <2>1. pc \in WaiterPCs /\ pc \notin {"wait", "restore"}
    BY DEF WaiterPCs
  <2>2. rq' = [rq EXCEPT !.waiters[i].pc = pc]
    BY Zenon, <1>1
  <2>3. ~isAsleep(rq.requests, waiterThread(i))
    BY Zenon, <1>0, <1>1, OnlyWaitersSleep
  <2> HIDE DEF pc
  <2> QED
    BY Zenon, <1>1, <2>1, <2>2, <2>3, StillWaitingRInv
<1>2. CASE /\ rq.waiters[i].pc = "wait" /\ ~isAsleep(rq.requests, waiterThread(i))
           /\ rq' = [rq EXCEPT !.waiters[i].pc = "restore"]
  <2> DEFINE pc == "restore"
  <2>1. pc \in WaiterPCs /\ pc \in {"wait", "restore"} /\ rq' = [rq EXCEPT !.waiters[i].pc = pc]
    BY Zenon, <1>2 DEF WaiterPCs
  <2> HIDE DEF pc
  <2> QED
    BY <1>2, <2>1, StillWaitingRInv
<1>3. CASE /\ rq.waiters[i].pc = "wait" /\ ~isAsleep(rq.requests, waiterThread(i)) /\ rq.requests.active > 0
           /\ rq' = [rq EXCEPT !.requests = sleep(@, waiterThread(i))]
  BY Zenon, <1>3, SleepsRInv
<1> QED
  BY <1>1, <1>2, <1>3, TurnOffRInv, RestoreRInv, ZenonT(30) DEF waitForNoRequestsActive, limiterWaitForIdle

-----------------------------------------------------------------------------
(* The invariant                                                           *)

(* Each step keeps the invariant.                                          *)
LEMMA NextRInv ==
  ASSUME RInv, [Next]_rq
  PROVE  RInv'
<1>1. CASE \E b \in Bios : kvdoMapBio(b) \/ addToDeadlockQueue(b) \/ limiterWaitForOneFree(b) \/ Launch(b)
  BY <1>1, MapBioRInv, AddToDeadlockQueueRInv, LimiterWaitForOneFreeRInv, LaunchRInv, ZenonT(30)
<1>2. CASE \E k \in KVIOs : kvdoAcknowledgeDataVIO(k) \/ Pack(k) \/ Unpack(k)
  BY <1>2, KVIOMovesRInv, Zenon
<1>3. CASE \E k \in KVIOs : kvdoAcknowledgeDataKVIOThenContinue(k) \/ kvdoAcknowledgeThenCompleteDataKVIO(k) \/ Finish(k)
  BY <1>3, AcknowledgeThenContinueRInv, AcknowledgeThenCompleteRInv, FinishRInv, ZenonT(30)
<1>4. CASE Schedule
  BY <1>4, ScheduleRInv, Zenon
<1>5. CASE \E i \in Runs : BatchStarts(i) \/ condReschedBatchProcessor(i) \/ BatchEnds(i)
  BY <1>5, BatchStartsRInv, BatchEndsRInv, Zenon
<1>6. CASE \E i \in Runs : CleanNext(i) \/ FreeBuffers(i) \/ LaunchQueued(i) \/ completeManyRequests(i)
  BY <1>6, CleanNextRInv, FreeBuffersRInv, LaunchQueuedRInv, CompleteManyRequestsRInv, Zenon
<1>7. CASE \E i \in Waiters : waitForNoRequestsActive(i) \/ limiterWaitForIdle(i)
  BY <1>7, WaiterRInv, Zenon
<1>8. CASE poolDiscardsLimitStore \/ CompressionMessage
  BY <1>8, PoolDiscardsLimitStoreRInv, CompressionMessageRInv, Zenon
<1>9. CASE UNCHANGED rq
  <2>1. rq' = rq
    BY Zenon, <1>9
  <2>2. Bios' = Bios /\ KVIOs' = KVIOs /\ Waiters' = Waiters
    BY <2>1 DEF Bios, KVIOs, Waiters
  <2>3. RequestsTypeOK' /\ NoAssertionFails'
    BY Zenon, <2>1, <2>2 DEF RInv, RequestsTypeOK, NoAssertionFails
  <2>4. Batched' /\ Queued' /\ Discards' /\ Acknowledged' /\ Deadlocked' /\ Compression' /\ Sleeping'
    BY <2>1, FrameBatched, FrameQueued, FrameDiscards, FrameAcknowledged, FrameDeadlocked, FrameCompression, FrameSleeping DEF RInv
  <2>5. Launching' = Launching /\ Used' = Used /\ cleaned(rq)' = cleaned(rq) /\ Owed' = Owed
    BY <2>1, <2>2 DEF Launching, Used, cleaned, KVIOs, Owed, counted
  <2>6. Permits' /\ Wakeups'
    BY ZenonT(30), <2>1, <2>2, <2>5, FramePermits, FrameWakeups DEF RInv
  <2>7. WaitingDiscards'
    BY <2>1, <2>2 DEF RInv, WaitingDiscards, DiscardSleepers, AwakeDiscards, isAsleep
  <2> QED
    BY <2>3, <2>4, <2>6, <2>7 DEF RInv
<1> QED
  BY <1>1, <1>2, <1>3, <1>4, <1>5, <1>6, <1>7, <1>8, <1>9, ZenonT(30) DEF Next

-----------------------------------------------------------------------------
(* What follows                                                            *)

(* The settings which a device may have keep the invariant for ever.       *)
THEOREM RequestsAreInvariant ==
  ASSUME SettingsAreProper
  PROVE  Spec => []RInv
<1>1. Init => RInv
  BY InitRInv
<1>2. RInv /\ [Next]_rq => RInv'
  BY Zenon, NextRInv
<1> QED
  BY <1>1, <1>2, PTL DEF Spec

(* There is a DataKVIO for each permit, and the work item of the batch     *)
(* processor is in no queue when it is put in one                          *)
(* (returnDataKVIOBatchToPool(), scheduleBatchProcessing()).               *)
THEOREM RequestsAssertNothingFalse ==
  ASSUME SettingsAreProper
  PROVE  Spec => []NoAssertionFails
<1>1. RInv => NoAssertionFails
  BY DEF RInv
<1> QED
  BY <1>1, RequestsAreInvariant, PTL

(* The runs of the batch hold what they count, unless one of them has      *)
(* released it and is about to wake those who wait.                        *)
LEMMA HeldByRuns ==
  ASSUME RequestsTypeOK, Batched
  PROVE  Held = IF \E i \in Runs : isReleasing(i) THEN 0 ELSE heldByRuns
<1>1. \A i \in Runs : rq.batch.runs[i].count \in Nat
  BY Zenon DEF RequestsTypeOK, Batch, Run
<1>2. CASE \E i \in Runs : isReleasing(i)
  <2>1. PICK i \in Runs : rq.batch.runs[i].pc = "wake"
    BY Zenon, <1>2 DEF isReleasing
  <2>2. counted(i, CountingPCs \ {"wake"}) = 0
    BY Zenon, <2>1 DEF counted
  <2>3. \A j \in Runs : j # i => counted(j, CountingPCs \ {"wake"}) = 0
    BY Zenon, <2>1, OneCounts DEF ActivePCs
  <2> QED
    BY <1>2, <2>2, <2>3 DEF Held, Runs
<1>3. CASE \A i \in Runs : ~isReleasing(i)
  <2>1. ASSUME NEW i \in Runs PROVE counted(i, CountingPCs \ {"wake"}) = rq.batch.runs[i].count
    <3>1. rq.batch.runs[i].pc # "wake"
      BY ZenonT(30), <1>3 DEF isReleasing
    <3> QED
      BY Zenon, <3>1, NothingCounted DEF counted
  <2> QED
    BY <1>3, <2>1 DEF Held, heldByRuns, Runs
<1> QED
  BY Zenon, <1>2, <1>3

(* No permit is lost or released twice, and a bio is acknowledged once     *)
(* (limiterReleaseMany(), completeManyRequests(),                          *)
(* kvdoContinueDiscardKVIO(), kvdoAcknowledgeDataKVIO()).                  *)
THEOREM RequestsKeepPermits ==
  ASSUME SettingsAreProper
  PROVE  Spec => []PermitsAreKept
<1>1. ASSUME RInv PROVE PermitsAreKept
  <2>1. RequestsTypeOK /\ Batched /\ Permits /\ Discards /\ Acknowledged
    BY Zenon, <1>1 DEF RInv
  <2>2. Held = IF \E i \in Runs : isReleasing(i) THEN 0 ELSE heldByRuns
    BY <2>1, HeldByRuns
  <2>3. rq.requests.active = count(Launching) + count(Used) + (IF \E i \in Runs : isReleasing(i) THEN 0 ELSE heldByRuns)
    BY <2>1, <2>2, Zenon DEF Permits, count
  <2>4. rq.discards.active = count(Holding) + count(WithPermit)
    BY <2>1 DEF Discards, count
  <2> QED
    BY <2>1, <2>3, <2>4, ZenonT(30) DEF PermitsAreKept, Launching, Used, Holding, WithPermit, Acknowledged
<1>2. RInv => PermitsAreKept
  BY ZenonT(30), <1>1
<1> QED
  BY <1>2, RequestsAreInvariant, PTL

(* When nobody waits for no requests any more compression is as it was     *)
(* wanted, unless a message came during a wait                             *)
(* (waitForNoRequestsActive()).                                            *)
THEOREM RequestsRestoreCompression ==
  ASSUME SettingsAreProper
  PROVE  Spec => []CompressionIsRestored
<1>1. ASSUME RInv PROVE CompressionIsRestored
  <2>1. Compression /\ rq.compressing \in BOOLEAN /\ rq.wanted \in BOOLEAN
    BY Zenon, <1>1 DEF RInv, RequestsTypeOK
  <2>2. SUFFICES ASSUME \A i \in Waiters : ~isWaiting(rq, i), ~rq.overwritten
                 PROVE  rq.compressing = rq.wanted
    BY Zenon DEF CompressionIsRestored
  <2>3. Restoring = {}
    BY Zenon, <2>2 DEF Restoring
  <2>4. ~(rq.wanted /\ ~rq.compressing) /\ (rq.compressing => rq.wanted)
    BY <2>1, <2>2, <2>3 DEF Compression
  <2> QED
    BY <2>1, <2>4
<1>2. RInv => CompressionIsRestored
  BY <1>1
<1> QED
  BY <1>2, RequestsAreInvariant, PTL

(* When nothing is under way no batch counts anything and no thread which  *)
(* wants a permit is awake; and if no DataKVIO is in the packer all are in *)
(* the pool, and no request permit is out.                                 *)
LEMMA NothingUnderWay ==
  ASSUME RInv, ~busy
  PROVE  /\ rq.batch.queue = <<>> /\ Owed = 0 /\ Awake = {} /\ AwakeDiscards = {} /\ WithPermit = {}
         /\ \A b \in Bios : rq.pcs[b] = "wantRequest" => isAsleep(rq.requests, b)
         /\ (\A k \in KVIOs : rq.kvios[k].pc # "packed") => rq.requests.active = 0
<1>1. RequestsTypeOK /\ Batched /\ Queued /\ Permits /\ Discards /\ Sleeping /\ WaitingDiscards
  BY Zenon DEF RInv
<1>2. /\ \A b \in Bios : rq.pcs[b] # "launch" /\ (rq.pcs[b] \in {"wantDiscard", "wantRequest"} => ~isAwake(b))
      /\ \A k \in KVIOs : rq.kvios[k].pc \in {"free", "packed", "queued"}
      /\ ~(rq.batch.schedulers > 0) /\ \A i \in Runs : rq.batch.runs[i].pc = "none"
  BY Zenon DEF busy
<1>3. rq.batch.queue = <<>>
  BY ZenonT(30), <1>1, <1>2 DEF Batched
<1>4. Owed = 0 /\ Held = 0
  BY <1>2 DEF Owed, Held, counted, Runs, CountingPCs
<1>5. \A b \in Bios : /\ rq.pcs[b] = "wantRequest" => isAsleep(rq.requests, b)
                      /\ rq.pcs[b] = "wantDiscard" => isAsleep(rq.discards, b)
  BY ZenonT(30), <1>1, <1>2, OnlyThoseWhoWaitSleep DEF isAwake
<1>6. Awake = {} /\ AwakeDiscards = {} /\ Launching = {}
  BY Zenon, <1>2, <1>5 DEF Awake, AwakeDiscards, Launching
<1>7. WithPermit = {}
  BY ZenonT(30), <1>1, <1>2 DEF WithPermit, Discards
<1>8. ASSUME \A k \in KVIOs : rq.kvios[k].pc # "packed" PROVE rq.requests.active = 0
  <2>1. \A k \in KVIOs : rq.kvios[k].pc # "queued"
    BY <1>1, <1>3 DEF Queued
  <2>2. Used = {}
    BY ZenonT(30), <1>2, <1>8, <2>1 DEF Used
  <2> QED
    BY <1>1, <1>4, <1>6, <2>2, FS_EmptySet DEF Permits
<1> QED
  BY ZenonT(30), <1>3, <1>4, <1>5, <1>6, <1>7, <1>8

(* Nobody waits for a permit, for the end of all requests or in the        *)
(* deadlock queue when nothing is under way which could wake them, but for *)
(* the exceptions which the property names (limiterReleaseMany(),          *)
(* completeManyRequests(), limiterWaitForIdle()).                          *)
THEOREM RequestsNobodyWaitsForever ==
  ASSUME SettingsAreProper
  PROVE  Spec => []NobodyWaitsForever
<1>1. ASSUME RInv, ~busy PROVE NobodyWaitsForever
  <2>1. RequestsTypeOK /\ Permits /\ Discards /\ Deadlocked /\ Compression /\ Sleeping /\ Wakeups /\ WaitingDiscards
    BY Zenon, <1>1 DEF RInv
  <2>2. /\ rq.batch.queue = <<>> /\ Owed = 0 /\ Awake = {} /\ AwakeDiscards = {} /\ WithPermit = {}
        /\ \A b \in Bios : rq.pcs[b] = "wantRequest" => isAsleep(rq.requests, b)
        /\ (\A k \in KVIOs : rq.kvios[k].pc # "packed") => rq.requests.active = 0
    BY <1>1, NothingUnderWay
  <2>3. Cardinality({}) = 0
    BY Zenon, FS_EmptySet
  <2>4. ASSUME NEW i \in Waiters, rq.waiters[i].pc = "wait" PROVE rq.overlapped \/ rq.overwritten
    <3>1. SUFFICES ASSUME ~rq.overlapped, ~rq.overwritten PROVE FALSE
      BY Zenon
    <3>2. ~rq.compressing
      BY ZenonT(30), <2>1, <2>4, <3>1 DEF Compression, isWaiting
    <3>3. rq.requests.active = 0
      BY <2>1, <2>2, <3>2 DEF Compression
    <3>4. isAsleep(rq.requests, waiterThread(i))
      BY Zenon, <1>1, <2>4 DEF busy
    <3>5. waiterThread(i) \notin Bios
      BY <2>1, FinitelyMany DEF waiterThread
    <3>6. \E p \in Sleepers : sleeper(p) \notin Bios
      BY ZenonT(30), <2>1, <3>4, <3>5, SleeperHasItsPlace
    <3>7. rq.requests.active + Owed + Cardinality(Awake) > 0
      BY <2>1, <3>1, <3>6 DEF Wakeups
    <3> QED
      BY <2>2, <2>3, <3>3, <3>7
  <2>5. ASSUME \A k \in KVIOs : rq.kvios[k].pc # "packed"
        PROVE  rq.deadlockQueue # <<>> => rq.overtaken
    BY <2>1, <2>2, <2>5 DEF Deadlocked, RequestsTypeOK
  <2>6. ASSUME \A k \in KVIOs : rq.kvios[k].pc # "packed", NEW b \in Bios, isAsleep(rq.requests, b)
        PROVE  rq.requests.limit <= Len(rq.waiters)
    <3>1. \E p \in Sleepers : sleeper(p) \in Bios
      BY <2>1, <2>6, SleeperHasItsPlace
    <3>2. rq.requests.active + Owed + Cardinality(Spared) >= rq.requests.limit
      BY Zenon, <2>1, <3>1 DEF Wakeups
    <3>3. Cardinality(Spared) <= Cardinality(Awake) + Len(rq.waiters) /\ Cardinality(Spared) \in Nat
      BY <2>1, FiniteWakeups
    <3>4. Len(rq.waiters) \in Nat /\ rq.requests.limit \in Nat
      BY <2>1 DEF RequestsTypeOK, Limiter
    <3>5. rq.requests.active = 0 /\ Owed = 0 /\ Cardinality(Awake) = 0
      BY ZenonT(30), <2>2, <2>3, <2>6
    <3> QED
      BY <3>2, <3>3, <3>4, <3>5
  <2>7. ASSUME NEW b \in Bios, isAsleep(rq.discards, b)
        PROVE  rq.discards.limit = 0 \/ rq.stranded \/ \E d \in Bios : isDiscardBio(d) /\ isAsleep(rq.requests, d)
    <3>1. SUFFICES ASSUME ~rq.stranded, \A d \in Bios : ~(isDiscardBio(d) /\ isAsleep(rq.requests, d))
                   PROVE  rq.discards.limit = 0
      OBVIOUS
    <3>2. rq.discards.waiterQueue # <<>>
      BY <2>7 DEF isAsleep, inQueue
    <3>3. rq.discards.active + Cardinality(AwakeDiscards) >= rq.discards.limit
      BY ZenonT(30), <2>1, <3>1, <3>2 DEF WaitingDiscards
    <3>4. \A d \in Bios : rq.pcs[d] # "launch"
      BY <1>1 DEF busy
    <3>5. Holding = {}
      BY ZenonT(30), <2>2, <3>1, <3>4 DEF Holding
    <3>6. rq.discards.active = 0
      BY <2>1, <2>2, <2>3, <3>5 DEF Discards
    <3>7. rq.discards.limit \in Nat
      BY Zenon, <2>1 DEF RequestsTypeOK, Limiter
    <3> QED
      BY <2>2, <2>3, <3>3, <3>6, <3>7
  <2> QED
    BY <2>2, <2>4, <2>5, <2>6, <2>7, ZenonT(30) DEF NobodyWaitsForever
<1>2. ASSUME RInv, busy PROVE NobodyWaitsForever
  BY Zenon, <1>2 DEF NobodyWaitsForever
<1>3. RInv => NobodyWaitsForever
  BY Zenon, <1>1, <1>2
<1> QED
  BY <1>3, RequestsAreInvariant, PTL

=============================================================================
