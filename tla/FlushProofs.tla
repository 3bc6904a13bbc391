---------------------------- MODULE FlushProofs -----------------------------
(***************************************************************************)
(* A flush keeps its promise, for any number of logical zones, writes,     *)
(* flushes and bios.  The strengthening says what the generations mean:    *)
(* the flushes in the two queues have consecutive generations, a zone is   *)
(* in the generation of the first of them which it has not been told of,   *)
(* the ring of a zone is ordered by generation, and the zone's oldest      *)
(* generation, which never goes back, is that of the first in the ring.    *)
(***************************************************************************)
EXTENDS Flush, SequenceTheorems, TLAPS

(* What the flusher has told the zones of the flush at the head of its     *)
(* queue.                                                                  *)
told(z) == notification \in {"packer", "finish"} \/ (notification = "zone" /\ z < logicalZoneToNotify)

requested == pendingFlushes \o notifiers

Numbered ==
  /\ flushGeneration = firstUnacknowledgedGeneration + Len(pendingFlushes) + Len(notifiers)
  /\ \A i \in 1 .. Len(pendingFlushes) :
       generation[pendingFlushes[i]] = firstUnacknowledgedGeneration + i - 1
  /\ \A i \in 1 .. Len(notifiers) :
       generation[notifiers[i]] = firstUnacknowledgedGeneration + Len(pendingFlushes) + i - 1
  /\ \A z \in Zones :
       zoneGeneration[z] = firstUnacknowledgedGeneration + Len(pendingFlushes) + (IF told(z) THEN 1 ELSE 0)

(* The flusher's completion has a flush to tell of, and tells of the next  *)
(* one when completeFlushes() returns.                                     *)
Notified ==
  /\ notification # "none" => notifiers # <<>>
  /\ notification = "none" /\ notifiers # <<>> => step # "none" /\ caller = -1
  /\ step # "none" /\ caller = -1 => notification = "none"

(* The rings hold the writes which have a generation lock, each once.      *)
Ringed ==
  /\ \A z \in Zones : \A i \in 1 .. Len(writeVIOs[z]) : hasFlushGenerationLock[writeVIOs[z][i]]
  /\ \A y, z \in Zones : \A i \in 1 .. Len(writeVIOs[y]), j \in 1 .. Len(writeVIOs[z]) :
       writeVIOs[y][i] = writeVIOs[z][j] => y = z /\ i = j
  /\ \A v \in DataVIOs : hasFlushGenerationLock[v] =>
       \E z \in Zones : \E i \in 1 .. Len(writeVIOs[z]) : writeVIOs[z][i] = v

(* A ring is in the order of generations, none later than the zone's.      *)
Sorted ==
  \A z \in Zones : \A i \in 1 .. Len(writeVIOs[z]) :
    /\ writeGeneration[writeVIOs[z][i]] <= zoneGeneration[z]
    /\ \A j \in 1 .. i : writeGeneration[writeVIOs[z][j]] <= writeGeneration[writeVIOs[z][i]]

Oldest ==
  \A z \in Zones :
    /\ oldestLockedGeneration[z] = oldestActiveGeneration[z]
    /\ oldestActiveGeneration[z] = oldestOf(writeVIOs[z], writeGeneration, zoneGeneration[z])

(* What completeFlushes() has read is not newer than what it would read.   *)
Seen ==
  /\ step = "load" => /\ nextZone = 0 => oldestSeen = -1
                      /\ \A z \in Zones : z < nextZone => oldestSeen <= oldestLockedGeneration[z]
                      /\ nextZone > 0 => oldestSeen >= 0
  /\ step = "acknowledge" => /\ oldestSeen >= 0
                             /\ \A z \in Zones : oldestSeen <= oldestLockedGeneration[z]

(* A flush waits for writes of its generation or of older ones.            *)
Waited ==
  \A f \in Flushes : \A v \in waitsFor[f] :
    hasFlushGenerationLock[v] /\ writeGeneration[v] <= generation[f]

(* A zone which is drained has no writes and its completion is at rest.    *)
Drained ==
  \A z \in Zones :
    /\ zoneState[z] # "normal" => writeVIOs[z] = <<>>
    /\ zoneState[z] = "suspended" => ~notifying[z]
    /\ notifying[z] <=> zoneCompletion[z] # "none"

(* A zone which has called completeFlushes() waits for its return.         *)
Called == step # "none" /\ caller # -1 => zoneCompletion[caller] = "flusher"

FInv ==
  /\ FlushTypeOK
  /\ Numbered /\ Notified /\ Ringed /\ Sorted /\ Oldest /\ Seen /\ Waited /\ Drained /\ Called

(* A flush which the kernel has not given to the flusher is not in its     *)
(* queues.                                                                 *)
KInv ==
  /\ flushStep \in [Flushes -> FlushSteps]
  /\ spareKVDOFlush \in Flushes /\ spareKVDOFlush # NoFlush => flushStep[spareKVDOFlush] = "spare"
  /\ \A f \in Flushes : isRequested(f) => flushStep[f] = "flusher"

-----------------------------------------------------------------------------
(* There is a zone, and the zones are numbers.                             *)
LEMMA ZoneNumbers == /\ LastZone \in Nat /\ 0 \in Zones /\ LastZone \in Zones
                     /\ \A z \in Zones : z \in Nat /\ z <= LastZone
                     /\ \A z \in Zones : z # LastZone => z + 1 \in Zones
  BY FlushAssumption DEF Zones

(* What unspliceRingNode() leaves of a ring.                               *)
LEMMA UnspliceProperties ==
  ASSUME NEW S, NEW ring \in Seq(S), NEW i \in 1 .. Len(ring)
  PROVE  /\ unsplice(ring, i) \in Seq(S)
         /\ Len(unsplice(ring, i)) = Len(ring) - 1
         /\ \A k \in 1 .. Len(ring) - 1 : unsplice(ring, i)[k] = ring[IF k < i THEN k ELSE k + 1]
<1> DEFINE n == Len(ring) - 1
           f == [k \in 1 .. n |-> IF k < i THEN ring[k] ELSE ring[k + 1]]
<1>1. n \in Nat /\ Len(ring) = n + 1 /\ \A k \in 1 .. n + 1 : ring[k] \in S
  BY LenProperties
<1>2. f \in [1 .. n -> S]
  BY <1>1
<1>3. f \in Seq(S)
  BY <1>1, <1>2, SeqDef
<1>4. Len(f) = n
  BY <1>1, <1>2, <1>3, LenProperties
<1>5. unsplice(ring, i) = f
  BY Zenon DEF unsplice
<1> QED
  BY Zenon, <1>1, <1>3, <1>4, <1>5

(* The generations of the writes in a ring are at least the zone's oldest. *)
LEMMA OldestIsOldest ==
  ASSUME FInv, NEW z \in Zones, NEW i \in 1 .. Len(writeVIOs[z])
  PROVE  /\ writeVIOs[z][i] \in DataVIOs
         /\ oldestActiveGeneration[z] <= writeGeneration[writeVIOs[z][i]]
<1>1. writeVIOs[z] \in Seq(DataVIOs) /\ writeVIOs[z] # <<>>
  BY EmptySeq DEF FInv, FlushTypeOK
<1>2. Head(writeVIOs[z]) = writeVIOs[z][1] /\ 1 \in 1 .. i
  BY <1>1
<1>3. oldestActiveGeneration[z] = writeGeneration[writeVIOs[z][1]]
  BY Zenon, <1>1, <1>2 DEF FInv, Oldest, oldestOf
<1> QED
  BY Zenon, <1>1, <1>2, <1>3, ElementOfSeq DEF FInv, Sorted

(* completeFlushes() acknowledges a flush only when it waits for nothing:  *)
(* a write it waits for would still be in the ring of a zone whose oldest  *)
(* generation is not newer than the write's.                               *)
LEMMA AcknowledgedIsFree ==
  ASSUME FInv, step = "acknowledge", mayAcknowledge
  PROVE  pendingFlushes # <<>> /\ waitsFor[Head(pendingFlushes)] = {}
<1> DEFINE f == Head(pendingFlushes)
<1>1. f \in Flushes /\ pendingFlushes # <<>> /\ generation[f] < oldestSeen /\ generation[f] \in Nat
  BY Zenon, HeadTailProperties DEF FInv, FlushTypeOK, mayAcknowledge, Generations
<1>2. SUFFICES ASSUME NEW v \in waitsFor[f] PROVE FALSE
  BY Zenon, <1>1
<1>3. v \in DataVIOs /\ hasFlushGenerationLock[v] /\ writeGeneration[v] <= generation[f] /\ writeGeneration[v] \in Nat
  BY Zenon, <1>1 DEF FInv, FlushTypeOK, Waited, Generations
<1>4. PICK z \in Zones : \E i \in 1 .. Len(writeVIOs[z]) : writeVIOs[z][i] = v
  BY Zenon, <1>3 DEF FInv, Ringed
<1>5. oldestActiveGeneration[z] <= writeGeneration[v]
  BY Zenon, <1>4, OldestIsOldest
<1>6. /\ oldestSeen <= oldestLockedGeneration[z] /\ oldestLockedGeneration[z] = oldestActiveGeneration[z]
      /\ oldestLockedGeneration[z] \in Nat /\ oldestSeen \in Int
  BY DEF FInv, Oldest, Seen, FlushTypeOK, Generations
<1> QED
  BY <1>1, <1>3, <1>5, <1>6

-----------------------------------------------------------------------------
(* The invariant holds at first.                                           *)
LEMMA InitFInv == FlushInit => FInv
<1> SUFFICES ASSUME FlushInit PROVE FInv
  BY Zenon
<1> USE ZoneNumbers DEF FlushInit
<1>1. FlushTypeOK
  BY Zenon, EmptySeq DEF FlushTypeOK, Generations
<1>2. \A z \in Zones : writeVIOs[z] = <<>> /\ Len(writeVIOs[z]) = 0 /\ ~told(z)
  BY Zenon, EmptySeq DEF told
<1>3. Numbered /\ Notified
  BY <1>2, EmptySeq DEF Numbered, Notified
<1>4. Ringed /\ Sorted
  BY <1>2 DEF Ringed, Sorted
<1>5. Oldest /\ Drained /\ Waited /\ Seen
  BY Zenon, <1>2 DEF Oldest, oldestOf, Drained, Waited, Seen
<1> QED
  BY Zenon, <1>1, <1>3, <1>4, <1>5 DEF FInv, Called

-----------------------------------------------------------------------------
(* A step which leaves the queues of the flusher alone.                    *)
LEMMA QueuesFrame ==
  ASSUME Numbered, Notified, UNCHANGED <<queues, notified, loop, zoneGeneration>>
  PROVE  Numbered' /\ Notified'
  BY Zenon DEF Numbered, Notified, told, queues, notified, loop

(* A step which leaves the writes alone.                                   *)
LEMMA WritesFrame ==
  ASSUME Ringed, Sorted, Oldest, Waited,
         UNCHANGED <<writes, zoneGeneration, oldestActiveGeneration, oldestLockedGeneration, generation, waitsFor>>
  PROVE  Ringed' /\ Sorted' /\ Oldest' /\ Waited'
<1>1. UNCHANGED <<writeVIOs, writeGeneration, hasFlushGenerationLock>>
  BY Zenon DEF writes
<1>2. Ringed' /\ Waited'
  BY <1>1 DEF Ringed, Waited
<1>3. Sorted'
  BY Zenon, <1>1 DEF Sorted
<1>4. Oldest'
  BY Zenon, <1>1 DEF Oldest, oldestOf
<1> QED BY Zenon, <1>2, <1>3, <1>4

(* acquireFlushGenerationLock() puts the write last in its zone's ring.    *)
LEMMA AcquireFInv ==
  ASSUME FInv, NEW v \in DataVIOs, NEW z \in Zones, acquireFlushGenerationLock(v, z)
  PROVE  FInv'
<1> DEFINE n == Len(writeVIOs[z])
<1>0. /\ FlushTypeOK /\ writeVIOs \in [Zones -> Seq(DataVIOs)] /\ writeGeneration \in [DataVIOs -> Nat]
      /\ hasFlushGenerationLock \in [DataVIOs -> BOOLEAN] /\ zoneGeneration \in [Zones -> Nat]
      /\ n \in Nat /\ \A y \in Zones : Len(writeVIOs[y]) \in Nat /\ writeVIOs[y] \in Seq(DataVIOs)
  BY Zenon, LenProperties DEF FInv, FlushTypeOK, Generations
<1>1. /\ ~hasFlushGenerationLock[v] /\ zoneState[z] = "normal"
      /\ writeGeneration' = [writeGeneration EXCEPT ![v] = zoneGeneration[z]]
      /\ writeVIOs' = [writeVIOs EXCEPT ![z] = Append(@, v)]
      /\ hasFlushGenerationLock' = [hasFlushGenerationLock EXCEPT ![v] = TRUE]
      /\ UNCHANGED <<queues, notified, loop, zones, waitsFor>>
  BY Zenon DEF acquireFlushGenerationLock
<1>2. /\ UNCHANGED <<zoneGeneration, oldestActiveGeneration, oldestLockedGeneration, notifying, zoneCompletion, zoneState>>
      /\ UNCHANGED <<step, caller, nextZone, oldestSeen, generation>>
  BY Zenon, <1>1 DEF zones, loop, queues
<1>3. Append(writeVIOs[z], v) \in Seq(DataVIOs) /\ Append(writeVIOs[z], v) # <<>> /\ Len(Append(writeVIOs[z], v)) = n + 1
      /\ (\A k \in 1 .. n : Append(writeVIOs[z], v)[k] = writeVIOs[z][k]) /\ Append(writeVIOs[z], v)[n + 1] = v
  BY <1>0, AppendProperties
<1>4. FlushTypeOK'
  BY Zenon, <1>0, <1>1, <1>3 DEF FlushTypeOK, Generations, queues, notified, loop, zones
<1>5. /\ writeVIOs'[z] = Append(writeVIOs[z], v)
      /\ \A y \in Zones : y # z => writeVIOs'[y] = writeVIOs[y]
  BY Zenon, <1>0, <1>1
<1>6. /\ \A y \in Zones : Len(writeVIOs'[y]) = IF y = z THEN n + 1 ELSE Len(writeVIOs[y])
      /\ \A y \in Zones : \A k \in 1 .. Len(writeVIOs[y]) : writeVIOs'[y][k] = writeVIOs[y][k]
      /\ writeVIOs'[z][n + 1] = v
  BY <1>3, <1>5
<1>7. \A u \in DataVIOs : /\ hasFlushGenerationLock'[u] = (IF u = v THEN TRUE ELSE hasFlushGenerationLock[u])
                           /\ writeGeneration'[u] = (IF u = v THEN zoneGeneration[z] ELSE writeGeneration[u])
  BY Zenon, <1>0, <1>1
<1>8. \A y \in Zones : \A k \in 1 .. Len(writeVIOs[y]) : writeVIOs[y][k] \in DataVIOs /\ writeVIOs[y][k] # v
  BY <1>0, <1>1, ElementOfSeq DEF FInv, Ringed
<1>9. \A y \in Zones : \A k \in 1 .. Len(writeVIOs'[y]) : k \in 1 .. Len(writeVIOs[y]) \/ (y = z /\ k = n + 1)
  BY <1>0, <1>6
<1>10. Ringed'
  <2>1. \A y \in Zones : \A i \in 1 .. Len(writeVIOs'[y]) : hasFlushGenerationLock'[writeVIOs'[y][i]]
    <3> SUFFICES ASSUME NEW y \in Zones, NEW i \in 1 .. Len(writeVIOs'[y])
                 PROVE  hasFlushGenerationLock'[writeVIOs'[y][i]]
      BY Zenon
    <3>1. CASE i \in 1 .. Len(writeVIOs[y])
      <4>1. hasFlushGenerationLock[writeVIOs[y][i]] /\ writeVIOs[y][i] \in DataVIOs
        BY Zenon, <1>8, <3>1 DEF FInv, Ringed
      <4>2. writeVIOs'[y][i] = writeVIOs[y][i]
        BY Zenon, <1>6, <3>1
      <4> QED BY Zenon, <1>0, <1>1, <4>1, <4>2
    <3>2. CASE y = z /\ i = n + 1
      BY Zenon, <1>6, <1>7, <3>2
    <3> QED BY Zenon, <1>9, <3>1, <3>2
  <2>2. \A x, y \in Zones : \A i \in 1 .. Len(writeVIOs'[x]), j \in 1 .. Len(writeVIOs'[y]) :
          writeVIOs'[x][i] = writeVIOs'[y][j] => x = y /\ i = j
    BY <1>6, <1>8, <1>9 DEF FInv, Ringed
  <2>3. \A u \in DataVIOs : hasFlushGenerationLock'[u] =>
          \E y \in Zones : \E i \in 1 .. Len(writeVIOs'[y]) : writeVIOs'[y][i] = u
    <3> SUFFICES ASSUME NEW u \in DataVIOs, hasFlushGenerationLock'[u]
                 PROVE  \E y \in Zones : \E i \in 1 .. Len(writeVIOs'[y]) : writeVIOs'[y][i] = u
      BY Zenon
    <3>1. CASE u = v
      BY <1>0, <1>6, <3>1
    <3>2. CASE u # v
      <4>1. PICK y \in Zones : \E i \in 1 .. Len(writeVIOs[y]) : writeVIOs[y][i] = u
        BY Zenon, <1>7, <3>2 DEF FInv, Ringed
      <4>2. PICK i \in 1 .. Len(writeVIOs[y]) : writeVIOs[y][i] = u
        BY Zenon, <4>1
      <4>3. i \in 1 .. Len(writeVIOs'[y])
        <5>1. CASE y = z
          BY <1>0, <1>6, <5>1
        <5>2. CASE y # z
          BY Zenon, <1>5, <5>2
        <5> QED BY Zenon, <5>1, <5>2
      <4> QED BY Zenon, <1>6, <4>2, <4>3
    <3> QED BY Zenon, <3>1, <3>2
  <2> QED BY Zenon, <2>1, <2>2, <2>3 DEF Ringed
<1>11. \A y \in Zones : \A k \in 1 .. Len(writeVIOs[y]) :
         writeGeneration'[writeVIOs'[y][k]] = writeGeneration[writeVIOs[y][k]] /\ writeGeneration[writeVIOs[y][k]] \in Nat
  BY Zenon, <1>0, <1>6, <1>7, <1>8
<1>12. writeGeneration'[writeVIOs'[z][n + 1]] = zoneGeneration[z] /\ zoneGeneration[z] \in Nat
  BY Zenon, <1>0, <1>6, <1>7
<1>13. Sorted'
  <2> SUFFICES ASSUME NEW y \in Zones, NEW i \in 1 .. Len(writeVIOs'[y]), NEW j \in 1 .. i
               PROVE  /\ writeGeneration'[writeVIOs'[y][i]] <= zoneGeneration[y]
                      /\ writeGeneration'[writeVIOs'[y][j]] <= writeGeneration'[writeVIOs'[y][i]]
    BY <1>2 DEF Sorted
  <2>1. CASE i \in 1 .. Len(writeVIOs[y])
    <3>1. j \in 1 .. Len(writeVIOs[y])
      BY <1>0, <2>1
    <3> QED BY <1>11, <2>1, <3>1 DEF FInv, Sorted
  <2>2. CASE y = z /\ i = n + 1
    <3>1. j \in 1 .. n \/ j = n + 1
      BY <1>0, <2>2
    <3> QED BY <1>11, <1>12, <2>2, <3>1 DEF FInv, Sorted
  <2> QED BY Zenon, <1>9, <2>1, <2>2
<1>14. Oldest'
  <2> SUFFICES ASSUME NEW y \in Zones
               PROVE  oldestOf(writeVIOs'[y], writeGeneration', zoneGeneration[y])
                        = oldestOf(writeVIOs[y], writeGeneration, zoneGeneration[y])
    BY Zenon, <1>2 DEF FInv, Oldest
  <2>1. CASE writeVIOs[y] = <<>>
    BY <1>0, <1>3, <1>5, <1>12, <2>1, AppendProperties DEF oldestOf
  <2>2. CASE writeVIOs[y] # <<>>
    <3>1. writeVIOs'[y] # <<>> /\ writeVIOs'[y] \in Seq(DataVIOs)
      <4>1. CASE y = z
        BY Zenon, <1>3, <1>5, <4>1
      <4>2. CASE y # z
        BY Zenon, <1>0, <1>5, <2>2, <4>2
      <4> QED BY Zenon, <4>1, <4>2
    <3>2. 1 \in 1 .. Len(writeVIOs[y])
      BY <1>0, <2>2, EmptySeq
    <3> QED BY <1>0, <1>6, <1>11, <2>2, <3>1, <3>2 DEF oldestOf
  <2> QED BY Zenon, <2>1, <2>2
<1>15. Waited'
  BY <1>0, <1>1, <1>2, <1>7 DEF FInv, Waited, FlushTypeOK
<1>16. Drained' /\ Seen' /\ Called'
  BY Zenon, <1>1, <1>2, <1>5 DEF FInv, Drained, Seen, Called
<1>17. Numbered' /\ Notified'
  BY Zenon, <1>1, <1>2, QueuesFrame DEF FInv
<1> QED
  BY Zenon, <1>4, <1>10, <1>13, <1>14, <1>15, <1>16, <1>17 DEF FInv

(* What releaseLogicalLock() makes of the ring and the generations: the    *)
(* write v at position i leaves, and next, if any, has come last.          *)
LEMMA ReleasedRing ==
  ASSUME FInv, NEW z \in Zones, NEW i \in 1 .. Len(writeVIOs[z]),
         NEW next \in {<<>>} \cup {<<u>> : u \in DataVIOs \ active},
         NEW v, v = writeVIOs[z][i],
         NEW ring, ring = unsplice(writeVIOs[z] \o next, i),
         NEW G, G = [u \in DataVIOs |-> IF next # <<>> /\ u = next[1] THEN zoneGeneration[z]
                                        ELSE IF u = v THEN 0 ELSE writeGeneration[u]]
  PROVE  /\ v \in DataVIOs /\ ring \in Seq(DataVIOs) /\ G \in [DataVIOs -> Nat]
         /\ \A k \in 1 .. Len(ring) :
              \/ next # <<>> /\ ring[k] = next[1] /\ k = Len(ring) /\ G[ring[k]] = zoneGeneration[z]
              \/ \E j \in 1 .. Len(writeVIOs[z]) :
                   /\ j # i /\ j = (IF k < i THEN k ELSE k + 1) /\ ring[k] = writeVIOs[z][j]
                   /\ G[ring[k]] = writeGeneration[writeVIOs[z][j]]
         /\ \A j \in 1 .. Len(writeVIOs[z]) : j # i =>
              \E k \in 1 .. Len(ring) : ring[k] = writeVIOs[z][j]
         /\ next # <<>> => Len(ring) \in 1 .. Len(ring) /\ ring[Len(ring)] = next[1]
         /\ next # <<>> => next[1] \in DataVIOs /\ ~hasFlushGenerationLock[next[1]]
<1> DEFINE r == writeVIOs[z]
           m == Len(r)
           c == r \o next
<1>0. /\ r \in Seq(DataVIOs) /\ m \in Nat /\ \A k \in 1 .. m : r[k] \in DataVIOs /\ hasFlushGenerationLock[r[k]]
      /\ writeGeneration \in [DataVIOs -> Nat] /\ zoneGeneration[z] \in Nat
  BY Zenon, LenProperties, ElementOfSeq DEF FInv, FlushTypeOK, Ringed, Generations
<1>1. v \in DataVIOs /\ G \in [DataVIOs -> Nat]
  BY Zenon, <1>0
<1>2. /\ next \in Seq(DataVIOs) /\ (next = <<>> => Len(next) = 0) /\ (next # <<>> => Len(next) = 1) /\ Len(next) \in 0 .. 1
      /\ next # <<>> => next[1] \in DataVIOs /\ ~hasFlushGenerationLock[next[1]]
  <2>1. CASE next = <<>>
    <3>1. <<>> \in Seq(DataVIOs) /\ Len(<<>>) = 0
      BY ONLY EmptySeq
    <3> QED BY ONLY <2>1, <3>1
  <2>2. CASE next # <<>>
    <3>1. PICK u \in DataVIOs \ active : next = <<u>>
      BY Zenon, <2>2
    <3> QED BY <2>2, <3>1 DEF active
  <2> QED BY Zenon, <2>1, <2>2
<1>3. /\ c \in Seq(DataVIOs) /\ Len(c) = m + Len(next)
      /\ \A k \in 1 .. m : c[k] = r[k]
      /\ next # <<>> => c[m + 1] = next[1]
  <2>1. /\ c \in Seq(DataVIOs) /\ Len(c) = m + Len(next)
        /\ \A k \in 1 .. m + Len(next) : c[k] = IF k <= m THEN r[k] ELSE next[k - m]
    <3> HIDE DEF r
    <3>1. r \in Seq(DataVIOs) /\ next \in Seq(DataVIOs)
      BY Zenon, <1>0, <1>2
    <3> QED BY ONLY <3>1, ConcatProperties
  <2>2. \A k \in 1 .. m : c[k] = r[k]
    BY <1>0, <1>2, <2>1
  <2>3. next # <<>> => m + 1 \in 1 .. m + Len(next) /\ m + 1 - m = 1 /\ ~(m + 1 <= m)
    BY <1>0, <1>2
  <2> QED BY <2>1, <2>2, <2>3
<1>4. i \in 1 .. Len(c)
  BY <1>0, <1>2, <1>3
<1>5. /\ ring \in Seq(DataVIOs) /\ Len(ring) = m + Len(next) - 1
      /\ \A k \in 1 .. Len(ring) : ring[k] = c[IF k < i THEN k ELSE k + 1]
  <2>1. ring = unsplice(c, i)
    BY Zenon
  <2>2. Len(ring) = Len(c) - 1 /\ ring \in Seq(DataVIOs)
    BY Zenon, <1>3, <1>4, <2>1, UnspliceProperties
  <2>3. \A k \in 1 .. Len(c) - 1 : ring[k] = c[IF k < i THEN k ELSE k + 1]
    BY ZenonT(30), <1>3, <1>4, <2>1, UnspliceProperties
  <2>4. Len(ring) = m + Len(next) - 1
    BY <1>3, <2>2
  <2> QED BY Zenon, <2>2, <2>3, <2>4
<1>6. \A j \in 1 .. m : j # i => r[j] # v /\ G[r[j]] = writeGeneration[r[j]]
  <2> SUFFICES ASSUME NEW j \in 1 .. m, j # i PROVE r[j] # v /\ G[r[j]] = writeGeneration[r[j]]
    BY Zenon
  <2>1. r[j] # v
    BY DEF FInv, Ringed
  <2>2. next # <<>> => r[j] # next[1]
    BY Zenon, <1>0, <1>2
  <2> QED BY Zenon, <1>0, <2>1, <2>2
<1>7. ASSUME NEW k \in 1 .. Len(ring)
      PROVE  \/ next # <<>> /\ ring[k] = next[1] /\ k = Len(ring) /\ G[ring[k]] = zoneGeneration[z]
             \/ \E j \in 1 .. m :
                  /\ j # i /\ j = (IF k < i THEN k ELSE k + 1) /\ ring[k] = r[j]
                  /\ G[ring[k]] = writeGeneration[r[j]]
  <2>1. CASE (IF k < i THEN k ELSE k + 1) \in 1 .. m
    <3> DEFINE j == IF k < i THEN k ELSE k + 1
    <3>1. j \in 1 .. m /\ j # i
      BY <1>0, <2>1
    <3>2. ring[k] = r[j]
      BY Zenon, <1>3, <1>5, <3>1
    <3>3. G[ring[k]] = writeGeneration[r[j]]
      BY <1>6, <3>1, <3>2
    <3> QED BY Zenon, <3>1, <3>2, <3>3
  <2>2. CASE ~((IF k < i THEN k ELSE k + 1) \in 1 .. m)
    <3>1. next # <<>> /\ k = m /\ ~(k < i) /\ Len(ring) = m
      <4>1. Len(next) = 1
        BY <1>0, <1>2, <1>5, <2>2
      <4>2. next # <<>>
        BY ONLY <1>2, <4>1
      <4> QED BY <1>0, <1>5, <2>2, <4>1, <4>2
    <3> QED BY Zenon, <1>1, <1>2, <1>3, <1>5, <3>1
  <2> QED BY Zenon, <2>1, <2>2
<1>8. ASSUME NEW j \in 1 .. m, j # i PROVE \E k \in 1 .. Len(ring) : ring[k] = r[j]
  <2> DEFINE k == IF j < i THEN j ELSE j - 1
  <2>1. k \in 1 .. Len(ring) /\ (IF k < i THEN k ELSE k + 1) = j
    BY <1>0, <1>2, <1>5, <1>8
  <2> QED BY Zenon, <1>3, <1>5, <2>1
<1>9. next # <<>> => Len(ring) \in 1 .. Len(ring) /\ ring[Len(ring)] = next[1]
  <2> SUFFICES ASSUME next # <<>> PROVE Len(ring) \in 1 .. Len(ring) /\ ring[Len(ring)] = next[1]
    BY Zenon
  <2>1. m \in 1 .. Len(ring) /\ Len(ring) = m /\ ~(m < i)
    <3>1. Len(next) = 1
      BY Zenon, <1>2
    <3> QED BY <1>0, <1>5, <3>1
  <2> QED BY Zenon, <1>3, <1>5, <2>1
<1> QED
  BY Zenon, <1>1, <1>2, <1>5, <1>7, <1>8, <1>9

(* attemptGenerationCompleteNotification() keeps a zone which is drained   *)
(* quiet.                                                                  *)
LEMMA AttemptDrained ==
  ASSUME FInv, NEW z \in Zones, NEW oldest \in Nat, NEW ring,
         attemptNotification(z, oldest, ring),
         writeVIOs' \in [Zones -> Seq(DataVIOs)], writeVIOs'[z] = ring,
         \A y \in Zones : y # z => writeVIOs'[y] = writeVIOs[y],
         zoneState[z] # "normal" => ring = <<>>,
         zoneState[z] # "suspended"
  PROVE  /\ Drained'
         /\ \A y \in Zones : y # z => zoneCompletion'[y] = zoneCompletion[y]
         /\ notificationGeneration' \in [Zones -> Nat] /\ notifying' \in [Zones -> BOOLEAN]
         /\ zoneCompletion' \in [Zones -> {"none", "flusher", "zone"}]
         /\ zoneState' \in [Zones -> {"normal", "draining", "suspended"}]
<1>0. /\ notificationGeneration \in [Zones -> Nat] /\ notifying \in [Zones -> BOOLEAN]
      /\ zoneCompletion \in [Zones -> {"none", "flusher", "zone"}]
      /\ zoneState \in [Zones -> {"normal", "draining", "suspended"}]
      /\ Drained
  BY Zenon DEF FInv, FlushTypeOK, Generations
<1>1. CASE /\ notifying' = [notifying EXCEPT ![z] = FALSE]
           /\ zoneCompletion' = [zoneCompletion EXCEPT ![z] = "none"]
           /\ zoneState' = [zoneState EXCEPT ![z] = drained(z, ring)]
           /\ UNCHANGED notificationGeneration
  <2>1. /\ drained(z, ring) \in {"normal", "draining", "suspended"}
        /\ drained(z, ring) # "normal" => ring = <<>>
    BY Zenon, <1>0 DEF drained
  <2>2. \A y \in Zones : /\ notifying'[y] = (IF y = z THEN FALSE ELSE notifying[y])
                          /\ zoneCompletion'[y] = (IF y = z THEN "none" ELSE zoneCompletion[y])
                          /\ zoneState'[y] = (IF y = z THEN drained(z, ring) ELSE zoneState[y])
    BY Zenon, <1>0, <1>1, <2>1
  <2>3. Drained'
    BY Zenon, <1>0, <2>1, <2>2 DEF Drained
  <2> QED BY <1>0, <1>1, <2>1, <2>2, <2>3
<1>2. CASE /\ notifying' = [notifying EXCEPT ![z] = TRUE]
           /\ notificationGeneration' = [notificationGeneration EXCEPT ![z] = oldest]
           /\ zoneCompletion' = [zoneCompletion EXCEPT ![z] = "flusher"]
           /\ UNCHANGED zoneState
  <2>1. \A y \in Zones : /\ notifying'[y] = (IF y = z THEN TRUE ELSE notifying[y])
                          /\ zoneCompletion'[y] = (IF y = z THEN "flusher" ELSE zoneCompletion[y])
    BY Zenon, <1>0, <1>2
  <2>2. Drained'
    BY Zenon, <1>0, <1>2, <2>1 DEF Drained
  <2> QED BY Zenon, <1>0, <1>2, <2>1, <2>2
<1> QED
  BY Zenon, <1>1, <1>2 DEF attemptNotification

(* The oldest generation of a zone does not go back when its ring changes  *)
(* as releaseLogicalLock() changes it.                                     *)
LEMMA OldestAdvances ==
  ASSUME FInv, NEW z \in Zones, NEW ring \in Seq(DataVIOs), NEW G \in [DataVIOs -> Nat],
         \A k \in 1 .. Len(ring) :
            \/ G[ring[k]] = zoneGeneration[z]
            \/ \E j \in 1 .. Len(writeVIOs[z]) : G[ring[k]] = writeGeneration[writeVIOs[z][j]]
  PROVE  /\ oldestOf(ring, G, zoneGeneration[z]) \in Nat
         /\ oldestActiveGeneration[z] <= oldestOf(ring, G, zoneGeneration[z])
<1>0. /\ oldestActiveGeneration[z] \in Nat /\ zoneGeneration[z] \in Nat
      /\ writeVIOs[z] \in Seq(DataVIOs) /\ Len(writeVIOs[z]) \in Nat
      /\ writeGeneration \in [DataVIOs -> Nat]
  BY LenProperties DEF FInv, FlushTypeOK, Generations
<1>1. oldestActiveGeneration[z] <= zoneGeneration[z]
  <2>1. CASE writeVIOs[z] = <<>>
    BY <1>0, <2>1 DEF FInv, Oldest, oldestOf
  <2>2. CASE writeVIOs[z] # <<>>
    <3>1. 1 \in 1 .. Len(writeVIOs[z])
      BY <1>0, <2>2, EmptySeq
    <3>2. oldestActiveGeneration[z] = writeGeneration[writeVIOs[z][1]]
      BY <1>0, <2>2 DEF FInv, Oldest, oldestOf
    <3> QED BY Zenon, <3>1, <3>2 DEF FInv, Sorted
  <2> QED BY Zenon, <2>1, <2>2
<1>2. CASE ring = <<>>
  BY Zenon, <1>0, <1>1, <1>2 DEF oldestOf
<1>3. CASE ring # <<>>
  <2>1. 1 \in 1 .. Len(ring) /\ Head(ring) = ring[1] /\ ring[1] \in DataVIOs
    BY <1>3, EmptySeq, ElementOfSeq, LenProperties
  <2>2. oldestOf(ring, G, zoneGeneration[z]) = G[ring[1]] /\ G[ring[1]] \in Nat
    BY Zenon, <1>3, <2>1 DEF oldestOf
  <2>3. CASE G[ring[1]] = zoneGeneration[z]
    BY Zenon, <1>1, <2>2, <2>3
  <2>4. CASE \E j \in 1 .. Len(writeVIOs[z]) : G[ring[1]] = writeGeneration[writeVIOs[z][j]]
    BY Zenon, <2>2, <2>4, OldestIsOldest
  <2> QED BY Zenon, <2>1, <2>3, <2>4
<1> QED
  BY Zenon, <1>2, <1>3

(* releaseLogicalLock() keeps the rings.                                   *)
LEMMA ReleaseFInv ==
  ASSUME FInv, NEW z \in Zones, NEW i \in 1 .. Len(writeVIOs[z]),
         NEW next \in {<<>>} \cup {<<u>> : u \in DataVIOs \ active},
         releaseFlushGenerationLock(z, i, next)
  PROVE  FInv'
<1> DEFINE v      == writeVIOs[z][i]
           ring   == unsplice(writeVIOs[z] \o next, i)
           G      == [u \in DataVIOs |-> IF next # <<>> /\ u = next[1] THEN zoneGeneration[z]
                                         ELSE IF u = v THEN 0 ELSE writeGeneration[u]]
           oldest == oldestOf(ring, G, zoneGeneration[z])
<1>0. /\ FlushTypeOK /\ writeVIOs \in [Zones -> Seq(DataVIOs)] /\ writeGeneration \in [DataVIOs -> Nat]
      /\ hasFlushGenerationLock \in [DataVIOs -> BOOLEAN] /\ zoneGeneration \in [Zones -> Nat]
      /\ oldestActiveGeneration \in [Zones -> Nat] /\ oldestLockedGeneration \in [Zones -> Nat]
      /\ \A y \in Zones : /\ Len(writeVIOs[y]) \in Nat
                          /\ \A k \in 1 .. Len(writeVIOs[y]) : writeVIOs[y][k] \in DataVIOs
      /\ Ringed /\ Sorted /\ Oldest /\ Waited /\ Drained /\ Seen
  BY Zenon, LenProperties, ElementOfSeq DEF FInv, FlushTypeOK, Generations
<1>1. /\ v \in DataVIOs /\ ring \in Seq(DataVIOs) /\ G \in [DataVIOs -> Nat]
      /\ \A k \in 1 .. Len(ring) :
           \/ next # <<>> /\ ring[k] = next[1] /\ k = Len(ring) /\ G[ring[k]] = zoneGeneration[z]
           \/ \E j \in 1 .. Len(writeVIOs[z]) :
                /\ j # i /\ j = (IF k < i THEN k ELSE k + 1) /\ ring[k] = writeVIOs[z][j]
                /\ G[ring[k]] = writeGeneration[writeVIOs[z][j]]
      /\ \A j \in 1 .. Len(writeVIOs[z]) : j # i =>
           \E k \in 1 .. Len(ring) : ring[k] = writeVIOs[z][j]
      /\ next # <<>> => Len(ring) \in 1 .. Len(ring) /\ ring[Len(ring)] = next[1]
      /\ next # <<>> => next[1] \in DataVIOs /\ ~hasFlushGenerationLock[next[1]]
  BY ZenonT(30), ReleasedRing
<1>2. /\ writeVIOs' = [writeVIOs EXCEPT ![z] = ring]
      /\ writeGeneration' = G
      /\ hasFlushGenerationLock' = [u \in DataVIOs |-> IF u = v THEN FALSE
                                      ELSE hasFlushGenerationLock[u] \/ (next # <<>> /\ u = next[1])]
      /\ updateOldestActiveGeneration(z, oldest)
      /\ IF oldest = oldestActiveGeneration[z] \/ notifying[z]
         THEN UNCHANGED <<notificationGeneration, notifying, zoneCompletion, zoneState>>
         ELSE attemptNotification(z, oldest, ring)
      /\ waitsFor' = [f \in Flushes |-> waitsFor[f] \ {v}]
      /\ UNCHANGED <<queues, notified, loop, zoneGeneration>>
  BY Zenon DEF releaseFlushGenerationLock
<1> HIDE DEF ring, G, oldest
<1>3. /\ oldest \in Nat /\ oldestActiveGeneration[z] <= oldest
      /\ oldest = oldestOf(ring, G, zoneGeneration[z])
  BY Zenon, <1>1, OldestAdvances DEF oldest
<1>4. /\ writeVIOs'[z] = ring /\ \A y \in Zones : y # z => writeVIOs'[y] = writeVIOs[y]
      /\ writeVIOs' \in [Zones -> Seq(DataVIOs)]
  BY <1>0, <1>1, <1>2
<1>5. /\ oldestActiveGeneration' = [oldestActiveGeneration EXCEPT ![z] = oldest]
      /\ oldestLockedGeneration' = [oldestLockedGeneration EXCEPT ![z] = oldest]
  BY Zenon, <1>0, <1>2, <1>3 DEF updateOldestActiveGeneration, Oldest
<1>6. zoneState[z] = "normal"
  BY <1>0, EmptySeq DEF Drained
<1>7. /\ Drained'
      /\ notificationGeneration' \in [Zones -> Nat] /\ notifying' \in [Zones -> BOOLEAN]
      /\ zoneCompletion' \in [Zones -> {"none", "flusher", "zone"}]
      /\ zoneState' \in [Zones -> {"normal", "draining", "suspended"}]
  <2>1. CASE UNCHANGED <<notificationGeneration, notifying, zoneCompletion, zoneState>>
    BY Zenon, <1>0, <1>4, <1>6, <2>1 DEF Drained, FlushTypeOK, Generations
  <2>2. CASE attemptNotification(z, oldest, ring)
    BY <1>3, <1>4, <1>6, <2>2, AttemptDrained
  <2> QED BY Zenon, <1>2, <2>1, <2>2
<1>8. FlushTypeOK'
  <2>1. hasFlushGenerationLock' \in [DataVIOs -> BOOLEAN]
    BY Zenon, <1>0, <1>2
  <2>2. waitsFor' \in [Flushes -> SUBSET DataVIOs]
    BY Zenon, <1>0, <1>2 DEF FlushTypeOK
  <2> QED
    BY Zenon, <1>0, <1>1, <1>2, <1>3, <1>4, <1>5, <1>7, <2>1, <2>2
    DEF FlushTypeOK, Generations, queues, notified, loop
<1>9. \A y \in Zones, j \in 1 .. Len(writeVIOs[z]) : \A k \in 1 .. Len(writeVIOs[y]) :
        writeVIOs[y][k] = writeVIOs[z][j] => y = z /\ k = j
  BY <1>0 DEF Ringed
<1>10. \A y \in Zones : y # z => \A k \in 1 .. Len(writeVIOs[y]) :
         /\ writeVIOs[y][k] # v /\ (next # <<>> => writeVIOs[y][k] # next[1])
         /\ G[writeVIOs[y][k]] = writeGeneration[writeVIOs[y][k]]
  <2> SUFFICES ASSUME NEW y \in Zones, y # z, NEW k \in 1 .. Len(writeVIOs[y])
               PROVE  /\ writeVIOs[y][k] # v /\ (next # <<>> => writeVIOs[y][k] # next[1])
                      /\ G[writeVIOs[y][k]] = writeGeneration[writeVIOs[y][k]]
    BY Zenon
  <2>1. writeVIOs[y][k] # v /\ writeVIOs[y][k] \in DataVIOs
    BY Zenon, <1>0, <1>9
  <2>2. hasFlushGenerationLock[writeVIOs[y][k]]
    BY Zenon, <1>0 DEF Ringed
  <2>3. next # <<>> => writeVIOs[y][k] # next[1]
    BY Zenon, <1>1, <2>2
  <2> QED BY Zenon, <2>1, <2>3 DEF G
<1>11. Ringed'
  <2>1. \A u \in DataVIOs : u # v /\ (hasFlushGenerationLock[u] \/ (next # <<>> /\ u = next[1]))
                              <=> hasFlushGenerationLock'[u]
    BY Zenon, <1>2
  <2>2. \A k \in 1 .. Len(ring) : hasFlushGenerationLock'[ring[k]]
    <3> SUFFICES ASSUME NEW k \in 1 .. Len(ring) PROVE hasFlushGenerationLock'[ring[k]]
      BY Zenon
    <3>1. CASE next # <<>> /\ ring[k] = next[1]
      <4>1. next[1] # v /\ next[1] \in DataVIOs
        BY Zenon, <1>0, <1>1, <3>1 DEF Ringed
      <4> QED BY <2>1, <3>1, <4>1
    <3>2. CASE \E j \in 1 .. Len(writeVIOs[z]) : j # i /\ ring[k] = writeVIOs[z][j]
      <4>1. PICK j \in 1 .. Len(writeVIOs[z]) : j # i /\ ring[k] = writeVIOs[z][j]
        BY Zenon, <3>2
      <4>2. writeVIOs[z][j] # v /\ writeVIOs[z][j] \in DataVIOs /\ hasFlushGenerationLock[writeVIOs[z][j]]
        BY <1>0, <1>9, <4>1 DEF Ringed
      <4> QED BY Zenon, <2>1, <4>1, <4>2
    <3> QED BY Zenon, <1>1, <3>1, <3>2
  <2>3. \A y \in Zones : \A k \in 1 .. Len(writeVIOs'[y]) : hasFlushGenerationLock'[writeVIOs'[y][k]]
    <3> SUFFICES ASSUME NEW y \in Zones, NEW k \in 1 .. Len(writeVIOs'[y])
                 PROVE  hasFlushGenerationLock'[writeVIOs'[y][k]]
      BY Zenon
    <3>1. CASE y = z
      BY <1>4, <2>2, <3>1
    <3>2. CASE y # z
      <4>1. writeVIOs'[y] = writeVIOs[y] /\ writeVIOs[y][k] # v /\ writeVIOs[y][k] \in DataVIOs
            /\ hasFlushGenerationLock[writeVIOs[y][k]]
        BY <1>0, <1>4, <1>10, <3>2 DEF Ringed
      <4> QED BY Zenon, <2>1, <4>1
    <3> QED BY Zenon, <3>1, <3>2
  <2>4. \A k, m \in 1 .. Len(ring) : ring[k] = ring[m] => k = m
    <3> SUFFICES ASSUME NEW k \in 1 .. Len(ring), NEW m \in 1 .. Len(ring), ring[k] = ring[m] PROVE k = m
      BY Zenon
    <3>0. next # <<>> => \A x \in 1 .. Len(ring) : ring[x] = next[1] => x = Len(ring)
      <4> SUFFICES ASSUME next # <<>>, NEW x \in 1 .. Len(ring), ring[x] = next[1] PROVE x = Len(ring)
        BY Zenon
      <4>1. \A j \in 1 .. Len(writeVIOs[z]) : hasFlushGenerationLock[writeVIOs[z][j]]
        BY Zenon, <1>0 DEF Ringed
      <4>2. \A j \in 1 .. Len(writeVIOs[z]) : ring[x] # writeVIOs[z][j]
        BY <1>1, <4>1
      <4> QED BY Zenon, <1>1, <4>2
    <3>1. CASE next # <<>> /\ (ring[k] = next[1] \/ ring[m] = next[1])
      BY Zenon, <3>0, <3>1
    <3>2. CASE ~(next # <<>> /\ (ring[k] = next[1] \/ ring[m] = next[1]))
      <4>1. PICK j \in 1 .. Len(writeVIOs[z]) : j # i /\ j = (IF k < i THEN k ELSE k + 1) /\ ring[k] = writeVIOs[z][j]
        BY Zenon, <1>1, <3>2
      <4>2. PICK l \in 1 .. Len(writeVIOs[z]) : l # i /\ l = (IF m < i THEN m ELSE m + 1) /\ ring[m] = writeVIOs[z][l]
        BY Zenon, <1>1, <3>2
      <4>3. j = l
        BY Zenon, <1>9, <4>1, <4>2
      <4> QED BY <4>1, <4>2, <4>3, LenProperties, <1>1
    <3> QED BY Zenon, <3>1, <3>2
  <2>5. \A x, y \in Zones : \A k \in 1 .. Len(writeVIOs'[x]), m \in 1 .. Len(writeVIOs'[y]) :
          writeVIOs'[x][k] = writeVIOs'[y][m] => x = y /\ k = m
    <3>0. \A y \in Zones : y # z => \A m \in 1 .. Len(writeVIOs[y]), k \in 1 .. Len(ring) : writeVIOs[y][m] # ring[k]
      <4> SUFFICES ASSUME NEW y \in Zones, y # z, NEW m \in 1 .. Len(writeVIOs[y]), NEW k \in 1 .. Len(ring),
                          writeVIOs[y][m] = ring[k]
                   PROVE  FALSE
        BY Zenon
      <4>1. ~(next # <<>> /\ ring[k] = next[1])
        BY <1>10
      <4>2. PICK j \in 1 .. Len(writeVIOs[z]) : ring[k] = writeVIOs[z][j]
        BY Zenon, <1>1, <4>1
      <4> QED BY Zenon, <1>9, <4>2
    <3> SUFFICES ASSUME NEW x \in Zones, NEW y \in Zones, NEW k \in 1 .. Len(writeVIOs'[x]),
                        NEW m \in 1 .. Len(writeVIOs'[y]), writeVIOs'[x][k] = writeVIOs'[y][m]
                 PROVE  x = y /\ k = m
      BY Zenon
    <3>1. CASE x = z /\ y = z
      BY <1>4, <2>4, <3>1
    <3>2. CASE x # z /\ y # z
      <4>1. /\ k \in 1 .. Len(writeVIOs[x]) /\ m \in 1 .. Len(writeVIOs[y])
            /\ writeVIOs[x][k] = writeVIOs[y][m]
        BY <1>4, <3>2
      <4>2. Ringed
        BY Zenon, <1>0
      <4> QED BY ONLY <4>1, <4>2, x \in Zones, y \in Zones DEF Ringed
    <3>3. CASE x # z /\ y = z
      BY <1>4, <3>0, <3>3
    <3>4. CASE x = z /\ y # z
      BY <1>4, <3>0, <3>4
    <3> QED BY <3>1, <3>2, <3>3, <3>4
  <2>6. \A u \in DataVIOs : hasFlushGenerationLock'[u] =>
          \E y \in Zones : \E k \in 1 .. Len(writeVIOs'[y]) : writeVIOs'[y][k] = u
    <3> SUFFICES ASSUME NEW u \in DataVIOs, hasFlushGenerationLock'[u]
                 PROVE  \E y \in Zones : \E k \in 1 .. Len(writeVIOs'[y]) : writeVIOs'[y][k] = u
      BY Zenon
    <3>1. CASE next # <<>> /\ u = next[1]
      BY Zenon, <1>1, <1>4, <3>1
    <3>2. CASE ~(next # <<>> /\ u = next[1])
      <4>1. u # v /\ hasFlushGenerationLock[u]
        BY Zenon, <2>1, <3>2
      <4>2. PICK y \in Zones : \E k \in 1 .. Len(writeVIOs[y]) : writeVIOs[y][k] = u
        BY <1>0, <4>1 DEF Ringed
      <4>3. CASE y # z
        BY <1>4, <4>2, <4>3
      <4>4. CASE y = z
        <5>1. PICK k \in 1 .. Len(writeVIOs[z]) : writeVIOs[z][k] = u
          BY Zenon, <4>2, <4>4
        <5>2. k # i
          BY Zenon, <4>1, <5>1
        <5> QED BY ZenonT(30), <1>1, <1>4, <5>1, <5>2
      <4> QED BY Zenon, <4>3, <4>4
    <3> QED BY Zenon, <3>1, <3>2
  <2> QED BY <2>3, <2>5, <2>6 DEF Ringed
<1>12. Sorted'
  <2> SUFFICES ASSUME NEW y \in Zones, NEW k \in 1 .. Len(writeVIOs'[y]), NEW m \in 1 .. k
               PROVE  /\ G[writeVIOs'[y][k]] <= zoneGeneration[y]
                      /\ G[writeVIOs'[y][m]] <= G[writeVIOs'[y][k]]
    BY <1>2 DEF Sorted
  <2>1. CASE y # z
    <3>1. writeVIOs'[y] = writeVIOs[y] /\ m \in 1 .. Len(writeVIOs[y]) /\ k \in 1 .. Len(writeVIOs[y])
      BY <1>0, <1>4, <2>1
    <3>2. G[writeVIOs[y][k]] = writeGeneration[writeVIOs[y][k]] /\ G[writeVIOs[y][m]] = writeGeneration[writeVIOs[y][m]]
      BY Zenon, <1>10, <2>1, <3>1
    <3> QED BY Zenon, <1>0, <3>1, <3>2 DEF Sorted
  <2>2. CASE y = z
    <3>0. /\ writeVIOs'[y] = ring /\ k \in 1 .. Len(ring) /\ m \in 1 .. Len(ring) /\ Len(ring) \in Nat
          /\ zoneGeneration[z] \in Nat
      BY <1>0, <1>1, <1>4, <2>2, LenProperties
    <3>1. \A x \in 1 .. Len(ring) : G[ring[x]] <= zoneGeneration[z]
      <4> SUFFICES ASSUME NEW x \in 1 .. Len(ring) PROVE G[ring[x]] <= zoneGeneration[z]
        BY Zenon
      <4>1. CASE G[ring[x]] = zoneGeneration[z]
        BY <3>0, <4>1
      <4>2. CASE \E j \in 1 .. Len(writeVIOs[z]) : G[ring[x]] = writeGeneration[writeVIOs[z][j]]
        BY Zenon, <1>0, <4>2 DEF Sorted
      <4> QED BY <1>1, <4>1, <4>2
    <3>2. CASE G[ring[k]] = zoneGeneration[z]
      BY <2>2, <3>0, <3>1, <3>2
    <3>3. CASE G[ring[k]] # zoneGeneration[z]
      <4>1. PICK j \in 1 .. Len(writeVIOs[z]) : /\ j = (IF k < i THEN k ELSE k + 1)
                                                /\ G[ring[k]] = writeGeneration[writeVIOs[z][j]]
        BY <1>1, <3>0, <3>3
      <4>2. CASE k = m
        BY <1>0, <2>2, <3>0, <3>1, <4>1, <4>2
      <4>3. CASE k # m
        <5>1. m # Len(ring)
          BY <3>0, <4>3
        <5>2. PICK l \in 1 .. Len(writeVIOs[z]) : /\ l = (IF m < i THEN m ELSE m + 1)
                                                  /\ G[ring[m]] = writeGeneration[writeVIOs[z][l]]
          BY Zenon, <1>1, <3>0, <5>1
        <5>3. l \in 1 .. j
          BY <4>1, <5>2, <3>0
        <5> QED BY <1>0, <2>2, <3>0, <3>1, <4>1, <5>2, <5>3 DEF Sorted
      <4> QED BY Zenon, <4>2, <4>3
    <3> QED BY Zenon, <3>2, <3>3
  <2> QED BY Zenon, <2>1, <2>2
<1>13. Oldest'
  <2> SUFFICES ASSUME NEW y \in Zones
               PROVE  /\ oldestLockedGeneration'[y] = oldestActiveGeneration'[y]
                      /\ oldestActiveGeneration'[y] = oldestOf(writeVIOs'[y], G, zoneGeneration[y])
    BY Zenon, <1>2 DEF Oldest
  <2>1. CASE y = z
    BY <1>0, <1>3, <1>4, <1>5, <2>1
  <2>2. CASE y # z
    <3>1. /\ oldestLockedGeneration'[y] = oldestLockedGeneration[y]
          /\ oldestActiveGeneration'[y] = oldestActiveGeneration[y] /\ writeVIOs'[y] = writeVIOs[y]
      BY Zenon, <1>0, <1>4, <1>5, <2>2
    <3>2. oldestOf(writeVIOs[y], G, zoneGeneration[y]) = oldestOf(writeVIOs[y], writeGeneration, zoneGeneration[y])
      <4>1. CASE writeVIOs[y] = <<>>
        BY Zenon, <4>1 DEF oldestOf
      <4>2. CASE writeVIOs[y] # <<>>
        <5>1. 1 \in 1 .. Len(writeVIOs[y]) /\ Head(writeVIOs[y]) = writeVIOs[y][1]
          BY <1>0, <4>2, EmptySeq
        <5> QED BY <1>10, <2>2, <5>1 DEF oldestOf
      <4> QED BY Zenon, <4>1, <4>2
    <3> QED BY Zenon, <1>0, <3>1, <3>2 DEF Oldest
  <2> QED BY Zenon, <2>1, <2>2
<1>14. Seen'
  <2>1. \A y \in Zones : /\ oldestLockedGeneration[y] <= oldestLockedGeneration'[y]
                         /\ oldestLockedGeneration[y] \in Nat /\ oldestLockedGeneration'[y] \in Nat
    BY <1>0, <1>3, <1>5 DEF Oldest
  <2>2. UNCHANGED <<step, nextZone, oldestSeen>> /\ oldestSeen \in Int
    BY <1>0, <1>2 DEF loop, FlushTypeOK, Generations
  <2>3. \A y \in Zones : oldestSeen <= oldestLockedGeneration[y] => oldestSeen <= oldestLockedGeneration'[y]
    BY <2>1, <2>2
  <2> QED BY Zenon, <1>0, <2>2, <2>3 DEF Seen
<1>15. Waited'
  <2> SUFFICES ASSUME NEW f \in Flushes, NEW u \in waitsFor[f], u # v
               PROVE  hasFlushGenerationLock'[u] /\ G[u] <= generation[f]
    BY Zenon, <1>2 DEF Waited, queues
  <2>1. u \in DataVIOs /\ hasFlushGenerationLock[u] /\ writeGeneration[u] <= generation[f]
    BY Zenon, <1>0 DEF Waited, FlushTypeOK
  <2>2. hasFlushGenerationLock'[u]
    BY Zenon, <1>2, <2>1
  <2>3. next # <<>> => u # next[1]
    BY Zenon, <1>1, <2>1
  <2>4. G[u] = writeGeneration[u]
    BY Zenon, <2>1, <2>3 DEF G
  <2> QED BY Zenon, <2>1, <2>2, <2>4
<1>16. Numbered' /\ Notified'
  BY Zenon, <1>2, QueuesFrame DEF FInv
<1>17. Called'
  <2>1. UNCHANGED <<step, caller>> /\ caller \in Zones \cup {-1} /\ Called
    BY Zenon, <1>2 DEF loop, FInv, FlushTypeOK
  <2>2. CASE UNCHANGED zoneCompletion
    BY Zenon, <2>1, <2>2 DEF Called
  <2>3. CASE ~notifying[z] /\ attemptNotification(z, oldest, ring)
    <3>1. zoneCompletion[z] = "none" /\ \A y \in Zones : y # z => zoneCompletion'[y] = zoneCompletion[y]
      BY Zenon, <1>0, <1>3, <1>4, <1>6, <2>3, AttemptDrained DEF Drained
    <3> QED BY Zenon, <2>1, <3>1 DEF Called
  <2> QED BY Zenon, <1>2, <2>2, <2>3
<1> QED
  BY <1>7, <1>8, <1>11, <1>12, <1>13, <1>14, <1>15, <1>16, <1>17 DEF FInv

(* attemptGenerationCompleteNotification() after a notification.           *)
LEMMA AttemptFInv ==
  ASSUME FInv, NEW z \in Zones, AttemptGenerationCompleteNotification(z)
  PROVE  FInv'
<1>1. /\ zoneCompletion[z] = "zone"
      /\ attemptNotification(z, oldestActiveGeneration[z], writeVIOs[z])
      /\ UNCHANGED <<queues, notified, loop, zoneGeneration, oldestActiveGeneration,
                     oldestLockedGeneration, writes, waitsFor>>
  BY Zenon DEF AttemptGenerationCompleteNotification
<1>2. /\ UNCHANGED <<writeVIOs, writeGeneration, hasFlushGenerationLock, generation, step, nextZone, oldestSeen>>
      /\ writeVIOs \in [Zones -> Seq(DataVIOs)] /\ oldestActiveGeneration[z] \in Nat
  BY Zenon, <1>1 DEF writes, queues, loop, FInv, FlushTypeOK, Generations
<1>3. notifying[z] /\ zoneState[z] # "suspended" /\ (zoneState[z] # "normal" => writeVIOs[z] = <<>>)
  BY Zenon, <1>1 DEF FInv, Drained
<1>4. /\ Drained'
      /\ notificationGeneration' \in [Zones -> Nat] /\ notifying' \in [Zones -> BOOLEAN]
      /\ zoneCompletion' \in [Zones -> {"none", "flusher", "zone"}]
      /\ zoneState' \in [Zones -> {"normal", "draining", "suspended"}]
  BY Zenon, <1>1, <1>2, <1>3, AttemptDrained
<1>5. FlushTypeOK'
  BY Zenon, <1>1, <1>2, <1>4 DEF FInv, FlushTypeOK, Generations, queues, notified, loop
<1>6. Numbered' /\ Notified'
  BY Zenon, <1>1, QueuesFrame DEF FInv
<1>7. Ringed' /\ Sorted' /\ Oldest' /\ Waited'
  BY Zenon, <1>1, <1>2, WritesFrame DEF FInv
<1>8. Seen'
  BY Zenon, <1>1, <1>2 DEF FInv, Seen
<1>9. Called'
  <2>1. UNCHANGED <<step, caller>> /\ caller \in Zones \cup {-1} /\ Called
    BY Zenon, <1>1 DEF loop, FInv, FlushTypeOK
  <2>2. \A y \in Zones : y # z => zoneCompletion'[y] = zoneCompletion[y]
    BY Zenon, <1>1, <1>2, <1>3, AttemptDrained
  <2> QED BY Zenon, <1>1, <2>1, <2>2 DEF Called
<1> QED
  BY <1>4, <1>5, <1>6, <1>7, <1>8, <1>9 DEF FInv

(* Draining a zone finds no writes in its ring; resuming needs none.       *)
LEMMA DrainFInv ==
  ASSUME FInv, NEW z \in Zones, DrainLogicalZone(z) \/ ResumeLogicalZone(z)
  PROVE  FInv'
<1>1. /\ zoneState' \in [Zones -> {"normal", "draining", "suspended"}]
      /\ \A y \in Zones : y # z => zoneState'[y] = zoneState[y]
      /\ zoneState'[z] \in {"draining", "suspended"} => active = {}
      /\ zoneState'[z] = "suspended" => ~notifying[z]
  BY Zenon DEF FInv, FlushTypeOK, DrainLogicalZone, ResumeLogicalZone
<1>2. UNCHANGED <<queues, notified, loop, zoneGeneration, oldestActiveGeneration,
                  oldestLockedGeneration, notificationGeneration, notifying, zoneCompletion,
                  writes, waitsFor>>
  BY Zenon DEF DrainLogicalZone, ResumeLogicalZone
<1>3. UNCHANGED <<writeVIOs, writeGeneration, hasFlushGenerationLock, generation, step, nextZone, oldestSeen>>
  BY Zenon, <1>2 DEF writes, queues, loop
<1>4. active = {} => writeVIOs[z] = <<>>
  <2> SUFFICES ASSUME active = {}, writeVIOs[z] # <<>> PROVE FALSE
    BY Zenon
  <2>1. 1 \in 1 .. Len(writeVIOs[z]) /\ writeVIOs[z][1] \in DataVIOs
    BY EmptySeq, ElementOfSeq, LenProperties DEF FInv, FlushTypeOK
  <2>2. hasFlushGenerationLock[writeVIOs[z][1]]
    BY Zenon, <2>1 DEF FInv, Ringed
  <2> QED BY Zenon, <2>1, <2>2 DEF active
<1>5. Drained'
  BY Zenon, <1>1, <1>2, <1>3, <1>4 DEF FInv, Drained
<1>6. FlushTypeOK'
  BY <1>1, <1>2, <1>3 DEF FInv, FlushTypeOK, queues, notified, loop
<1>7. Numbered' /\ Notified'
  BY Zenon, <1>2, QueuesFrame DEF FInv
<1>8. Ringed' /\ Sorted' /\ Oldest' /\ Waited'
  BY Zenon, <1>2, <1>3, WritesFrame DEF FInv
<1>9. Seen' /\ Called'
  BY Zenon, <1>2, <1>3 DEF FInv, Seen, Called, loop
<1> QED
  BY <1>5, <1>6, <1>7, <1>8, <1>9 DEF FInv

(* incrementGeneration() begins the next generation of a zone.             *)
LEMMA IncrementFInv ==
  ASSUME FInv, IncrementGeneration
  PROVE  FInv'
<1> DEFINE z      == logicalZoneToNotify
           oldest == oldestOf(writeVIOs[z], writeGeneration, zoneGeneration[z] + 1)
<1>0. /\ z \in Zones /\ zoneGeneration \in [Zones -> Nat] /\ oldestActiveGeneration \in [Zones -> Nat]
      /\ oldestLockedGeneration \in [Zones -> Nat]
      /\ writeVIOs[z] \in Seq(DataVIOs) /\ Len(writeVIOs[z]) \in Nat /\ writeGeneration \in [DataVIOs -> Nat]
      /\ firstUnacknowledgedGeneration \in Nat /\ Len(pendingFlushes) \in Nat
  BY Zenon, LenProperties DEF FInv, FlushTypeOK, Generations
<1>1. /\ notification = "zone"
      /\ zoneGeneration' = [zoneGeneration EXCEPT ![z] = @ + 1]
      /\ updateOldestActiveGeneration(z, oldest)
      /\ IF z = LastZone THEN notification' = "packer" /\ logicalZoneToNotify' = 0
         ELSE logicalZoneToNotify' = z + 1 /\ UNCHANGED notification
      /\ UNCHANGED <<queues, loop, notificationGeneration, notifying,
                     zoneCompletion, zoneState, writes, waitsFor>>
  BY Zenon DEF IncrementGeneration
<1>2. /\ UNCHANGED <<writeVIOs, writeGeneration, hasFlushGenerationLock, step, caller, nextZone, oldestSeen>>
      /\ UNCHANGED <<flushGeneration, firstUnacknowledgedGeneration, notifiers, pendingFlushes, generation>>
  BY Zenon, <1>1 DEF writes, loop, queues
<1>3. oldest \in Nat /\ oldestActiveGeneration[z] <= oldest
  <2>1. CASE writeVIOs[z] = <<>>
    BY <1>0, <2>1 DEF FInv, Oldest, oldestOf
  <2>2. CASE writeVIOs[z] # <<>>
    BY <1>0, <2>2 DEF FInv, Oldest, oldestOf
  <2> QED BY Zenon, <2>1, <2>2
<1>4. /\ oldestActiveGeneration' = [oldestActiveGeneration EXCEPT ![z] = oldest]
      /\ oldestLockedGeneration' = [oldestLockedGeneration EXCEPT ![z] = oldest]
  BY Zenon, <1>0, <1>1, <1>3 DEF updateOldestActiveGeneration, FInv, Oldest
<1> HIDE DEF oldest
<1>5. FlushTypeOK'
  <2>1. notification' \in {"none", "zone", "packer", "finish"} /\ logicalZoneToNotify' \in Zones
    BY Zenon, <1>0, <1>1, ZoneNumbers
  <2>2. /\ zoneGeneration' \in [Zones -> Nat] /\ oldestActiveGeneration' \in [Zones -> Nat]
        /\ oldestLockedGeneration' \in [Zones -> Nat]
    BY <1>0, <1>1, <1>3, <1>4
  <2>3. UNCHANGED <<notificationGeneration, notifying, zoneCompletion, zoneState, waitsFor>>
    BY Zenon, <1>1
  <2> QED BY Zenon, <1>2, <2>1, <2>2, <2>3 DEF FInv, FlushTypeOK, Generations
<1>6. \A y \in Zones : zoneGeneration'[y] = IF y = z THEN zoneGeneration[z] + 1 ELSE zoneGeneration[y]
  BY Zenon, <1>0, <1>1
<1>7. \A y \in Zones : told(y)' <=> y = z \/ told(y)
  <2> SUFFICES ASSUME NEW y \in Zones PROVE told(y)' <=> y = z \/ told(y)
    BY Zenon
  <2>1. y \in Int /\ z \in Int /\ y <= LastZone /\ LastZone \in Int
    BY <1>0, ZoneNumbers
  <2>2. CASE z = LastZone
    BY <1>1, <2>1, <2>2 DEF told
  <2>3. CASE z # LastZone
    BY <1>1, <2>1, <2>3 DEF told
  <2> QED BY Zenon, <2>2, <2>3
<1>8. ~told(z)
  BY <1>0, <1>1, ZoneNumbers DEF told
<1>9. Numbered'
  <2>1. ASSUME NEW y \in Zones
        PROVE  zoneGeneration'[y] = firstUnacknowledgedGeneration + Len(pendingFlushes) + (IF told(y)' THEN 1 ELSE 0)
    <3>1. zoneGeneration[y] = firstUnacknowledgedGeneration + Len(pendingFlushes) + (IF told(y) THEN 1 ELSE 0)
      BY Zenon DEF FInv, Numbered
    <3>2. CASE y = z
      BY <1>0, <1>6, <1>7, <1>8, <3>1, <3>2
    <3>3. CASE y # z
      BY Zenon, <1>0, <1>6, <1>7, <3>1, <3>3
    <3> QED BY Zenon, <3>2, <3>3
  <2> QED BY Zenon, <1>2, <2>1 DEF FInv, Numbered
<1>10. Notified'
  BY Zenon, <1>1, <1>2 DEF FInv, Notified
<1>11. Ringed' /\ Waited'
  BY <1>1, <1>2 DEF FInv, Ringed, Waited
<1>12. Sorted'
  <2>1. \A y \in Zones : \A i \in 1 .. Len(writeVIOs[y]) : writeGeneration[writeVIOs[y][i]] \in Nat
    BY Zenon, OldestIsOldest DEF FInv, FlushTypeOK, Generations
  <2>2. \A y \in Zones : zoneGeneration[y] \in Nat /\ zoneGeneration'[y] \in Nat /\ zoneGeneration[y] <= zoneGeneration'[y]
    BY <1>0, <1>6
  <2>3. \A y \in Zones : \A i \in 1 .. Len(writeVIOs[y]) : writeGeneration[writeVIOs[y][i]] <= zoneGeneration'[y]
    BY <2>1, <2>2 DEF FInv, Sorted
  <2> QED BY Zenon, <1>2, <2>3 DEF FInv, Sorted
<1>13. Oldest'
  <2> SUFFICES ASSUME NEW y \in Zones
               PROVE  /\ oldestLockedGeneration'[y] = oldestActiveGeneration'[y]
                      /\ oldestActiveGeneration'[y] = oldestOf(writeVIOs[y], writeGeneration, zoneGeneration'[y])
    BY Zenon, <1>2 DEF Oldest
  <2>1. CASE y = z
    BY Zenon, <1>0, <1>4, <1>6, <2>1 DEF oldest
  <2>2. CASE y # z
    BY Zenon, <1>0, <1>4, <1>6, <2>2 DEF FInv, Oldest
  <2> QED BY Zenon, <2>1, <2>2
<1>14. Seen'
  <2>1. \A y \in Zones : /\ oldestLockedGeneration[y] <= oldestLockedGeneration'[y]
                         /\ oldestLockedGeneration[y] \in Nat /\ oldestLockedGeneration'[y] \in Nat
    BY <1>0, <1>3, <1>4 DEF FInv, Oldest
  <2>2. oldestSeen \in Int
    BY DEF FInv, FlushTypeOK, Generations
  <2>3. \A y \in Zones : oldestSeen <= oldestLockedGeneration[y] => oldestSeen <= oldestLockedGeneration'[y]
    BY <2>1, <2>2
  <2> QED BY Zenon, <1>2, <2>3 DEF FInv, Seen
<1>15. Drained' /\ Called'
  BY Zenon, <1>1, <1>2 DEF FInv, Drained, Called
<1> QED
  BY <1>5, <1>9, <1>10, <1>11, <1>12, <1>13, <1>14, <1>15 DEF FInv

(* flush() gives the next generation to a flush which is in no queue.      *)
LEMMA RequestFInv ==
  ASSUME FInv, NEW f \in Flushes, ~isRequested(f), flush(f)
  PROVE  FInv'
<1>0. /\ notifiers \in Seq(Flushes) /\ pendingFlushes \in Seq(Flushes)
      /\ Len(notifiers) \in Nat /\ Len(pendingFlushes) \in Nat
      /\ flushGeneration \in Nat /\ firstUnacknowledgedGeneration \in Nat
      /\ generation \in [Flushes -> Nat] /\ waitsFor \in [Flushes -> SUBSET DataVIOs]
      /\ Numbered /\ Notified /\ Waited
  BY Zenon, LenProperties DEF FInv, FlushTypeOK, Generations
<1>1. /\ step = "none"
      /\ generation' = [generation EXCEPT ![f] = flushGeneration]
      /\ flushGeneration' = flushGeneration + 1
      /\ notifiers' = Append(notifiers, f)
      /\ IF notifiers = <<>> THEN notification' = "zone" /\ logicalZoneToNotify' = 0 ELSE UNCHANGED notified
      /\ waitsFor' = [waitsFor EXCEPT ![f] = active]
      /\ UNCHANGED <<firstUnacknowledgedGeneration, pendingFlushes, loop, zones, writes>>
  BY Zenon DEF flush, notifyFlush
<1>2. /\ UNCHANGED <<zoneGeneration, oldestActiveGeneration, oldestLockedGeneration, notificationGeneration>>
      /\ UNCHANGED <<notifying, zoneCompletion, zoneState, writeVIOs, writeGeneration, hasFlushGenerationLock>>
      /\ UNCHANGED <<step, caller, nextZone, oldestSeen, firstUnacknowledgedGeneration, pendingFlushes>>
  BY Zenon, <1>1 DEF zones, loop, writes
<1>3. /\ notifiers' \in Seq(Flushes) /\ notifiers' # <<>> /\ Len(notifiers') = Len(notifiers) + 1
      /\ \A i \in 1 .. Len(notifiers) : notifiers'[i] = notifiers[i]
      /\ notifiers'[Len(notifiers) + 1] = f
  BY <1>0, <1>1, AppendProperties
<1>4. /\ notification' \in {"zone", "packer", "finish"} /\ logicalZoneToNotify' \in Zones
      /\ \A z \in Zones : told(z)' <=> told(z)
  <2>1. CASE notifiers = <<>>
    BY <1>0, <1>1, <2>1, ZoneNumbers DEF Notified, told
  <2>2. CASE notifiers # <<>>
    BY Zenon, <1>0, <1>1, <2>2 DEF Notified, told, notified, FInv, FlushTypeOK
  <2> QED BY Zenon, <2>1, <2>2
<1>5. active \subseteq DataVIOs
  BY Zenon DEF active
<1>6. FlushTypeOK'
  <2>1. generation' \in [Flushes -> Nat] /\ flushGeneration' \in Nat /\ waitsFor' \in [Flushes -> SUBSET DataVIOs]
    BY <1>0, <1>1, <1>5
  <2> QED BY Zenon, <1>2, <1>3, <1>4, <2>1 DEF FInv, FlushTypeOK, Generations
<1>7. Notified'
  BY <1>1, <1>2, <1>3, <1>4 DEF Notified
<1>8. Numbered'
  <2>1. \A g \in Flushes : generation'[g] = IF g = f THEN flushGeneration ELSE generation[g]
    BY Zenon, <1>0, <1>1
  <2>2. \A i \in 1 .. Len(pendingFlushes) : pendingFlushes[i] \in Flushes /\ pendingFlushes[i] # f
    BY Zenon, <1>0, ElementOfSeq DEF isRequested
  <2>3. \A i \in 1 .. Len(notifiers) : notifiers[i] \in Flushes /\ notifiers[i] # f
    BY Zenon, <1>0, ElementOfSeq DEF isRequested
  <2>4. flushGeneration = firstUnacknowledgedGeneration + Len(pendingFlushes) + Len(notifiers)
    BY Zenon, <1>0 DEF Numbered
  <2>5. flushGeneration' = firstUnacknowledgedGeneration' + Len(pendingFlushes') + Len(notifiers')
    BY <1>0, <1>1, <1>2, <1>3, <2>4
  <2>6. \A i \in 1 .. Len(pendingFlushes') :
          generation'[pendingFlushes'[i]] = firstUnacknowledgedGeneration' + i - 1
    BY Zenon, <1>0, <1>2, <2>1, <2>2 DEF Numbered
  <2>7. ASSUME NEW i \in 1 .. Len(notifiers')
        PROVE  generation'[notifiers'[i]] = firstUnacknowledgedGeneration' + Len(pendingFlushes') + i - 1
    <3>1. CASE i \in 1 .. Len(notifiers)
      BY ZenonT(30), <1>0, <1>2, <1>3, <2>1, <2>3, <3>1 DEF Numbered
    <3>2. CASE i = Len(notifiers) + 1
      BY <1>0, <1>2, <1>3, <2>1, <2>4, <3>2
    <3> QED BY <1>0, <1>3, <3>1, <3>2
  <2>8. \A z \in Zones : zoneGeneration'[z] = firstUnacknowledgedGeneration' + Len(pendingFlushes')
                                                + (IF told(z)' THEN 1 ELSE 0)
    BY Zenon, <1>0, <1>2, <1>4 DEF Numbered
  <2> QED BY <2>5, <2>6, <2>7, <2>8 DEF Numbered
<1>9. Ringed' /\ Sorted' /\ Oldest' /\ Seen' /\ Drained' /\ Called'
  <2>1. Ringed' /\ Drained' /\ Called' /\ Seen'
    BY <1>2 DEF FInv, Ringed, Drained, Called, Seen
  <2>2. Sorted' /\ Oldest'
    BY Zenon, <1>2 DEF FInv, Sorted, Oldest, oldestOf
  <2> QED BY Zenon, <2>1, <2>2
<1>10. Waited'
  <2>1. ASSUME NEW v \in active PROVE writeGeneration[v] <= flushGeneration
    <3>1. v \in DataVIOs /\ hasFlushGenerationLock[v]
      BY Zenon DEF active
    <3>2. PICK z \in Zones : \E i \in 1 .. Len(writeVIOs[z]) : writeVIOs[z][i] = v
      BY Zenon, <3>1 DEF FInv, Ringed
    <3>3. writeGeneration[v] <= zoneGeneration[z] /\ writeGeneration[v] \in Nat /\ zoneGeneration[z] \in Nat
      BY <3>1, <3>2 DEF FInv, Sorted, FlushTypeOK, Generations
    <3>4. told(z) => Len(notifiers) >= 1
      BY <1>0, EmptySeq DEF told, Notified
    <3>5. zoneGeneration[z] <= flushGeneration
      BY <1>0, <3>4 DEF Numbered
    <3> QED BY <1>0, <3>3, <3>5
  <2>2. \A v \in active : hasFlushGenerationLock[v]
    BY Zenon DEF active
  <2>3. ASSUME NEW g \in Flushes, NEW v \in waitsFor'[g]
        PROVE  hasFlushGenerationLock'[v] /\ writeGeneration'[v] <= generation'[g]
    <3>1. CASE g = f
      BY <1>0, <1>1, <1>2, <2>1, <2>2, <3>1
    <3>2. CASE g # f
      BY <1>0, <1>1, <1>2, <3>2 DEF Waited
    <3> QED BY Zenon, <3>1, <3>2
  <2> QED BY Zenon, <2>3 DEF Waited
<1> QED
  BY <1>6, <1>7, <1>8, <1>9, <1>10 DEF FInv

(* A step which changes nothing but where the flusher is.                  *)
LEMMA FlusherFrame ==
  ASSUME FInv, UNCHANGED <<zones, writes, waitsFor, generation>>
  PROVE  Ringed' /\ Sorted' /\ Oldest' /\ Waited' /\ Drained'
<1>1. /\ UNCHANGED <<zoneGeneration, oldestActiveGeneration, oldestLockedGeneration>>
      /\ UNCHANGED <<notifying, zoneCompletion, zoneState, writeVIOs>>
  BY Zenon DEF zones, writes
<1>2. Ringed' /\ Sorted' /\ Oldest' /\ Waited'
  BY <1>1, WritesFrame DEF FInv
<1>3. Drained'
  BY Zenon, <1>1 DEF FInv, Drained
<1> QED BY <1>2, <1>3

(* flushPackerCallback() and notifyFlusher().                              *)
LEMMA CallbackFInv ==
  ASSUME FInv, FlushPackerCallback \/ (\E z \in Zones : NotifyFlusher(z))
  PROVE  FInv'
<1>1. UNCHANGED <<zones, writes, waitsFor, queues, logicalZoneToNotify>>
  BY Zenon DEF FlushPackerCallback, NotifyFlusher, notified
<1>2. /\ UNCHANGED <<zoneGeneration, oldestActiveGeneration, oldestLockedGeneration, notificationGeneration>>
      /\ UNCHANGED <<notifying, zoneCompletion, zoneState, writeVIOs, writeGeneration, hasFlushGenerationLock>>
      /\ UNCHANGED <<flushGeneration, firstUnacknowledgedGeneration, notifiers, pendingFlushes, generation>>
  BY Zenon, <1>1 DEF zones, writes, queues
<1>3. Ringed' /\ Sorted' /\ Oldest' /\ Waited' /\ Drained'
  BY Zenon, <1>1, <1>2, FlusherFrame
<1>4. CASE FlushPackerCallback
  <2>1. step = "none" /\ notification = "packer" /\ notification' = "finish" /\ UNCHANGED <<step, caller, nextZone, oldestSeen>>
    BY Zenon, <1>4 DEF FlushPackerCallback, loop
  <2>2. FlushTypeOK'
    BY Zenon, <1>1, <1>2, <2>1 DEF FInv, FlushTypeOK
  <2>3. \A z \in Zones : told(z)' <=> told(z)
    BY Zenon, <2>1 DEF told
  <2>4. Numbered'
    BY Zenon, <1>2, <2>3 DEF FInv, Numbered
  <2>5. Notified' /\ Seen' /\ Called'
    BY Zenon, <1>2, <2>1 DEF FInv, Notified, Seen, Called
  <2> QED BY <1>3, <2>2, <2>4, <2>5 DEF FInv
<1>5. CASE \E z \in Zones : NotifyFlusher(z)
  <2>1. PICK z \in Zones : NotifyFlusher(z)
    BY Zenon, <1>5
  <2>2. /\ step = "none" /\ zoneCompletion[z] = "flusher" /\ step' = "load" /\ caller' = z
        /\ nextZone' = 0 /\ oldestSeen' = -1 /\ UNCHANGED notification
    BY Zenon, <2>1 DEF NotifyFlusher, startLoop, notified
  <2>3. z # -1 /\ 0 \in Zones /\ \A y \in Zones : ~(y < 0)
    BY ZoneNumbers
  <2>4. FlushTypeOK'
    BY Zenon, <1>1, <1>2, <2>2, <2>3 DEF FInv, FlushTypeOK
  <2>5. \A y \in Zones : told(y)' <=> told(y)
    BY Zenon, <1>1, <2>2 DEF told
  <2>6. Numbered'
    BY Zenon, <1>2, <2>5 DEF FInv, Numbered
  <2>7. Notified' /\ Called'
    BY Zenon, <1>2, <2>2, <2>3 DEF FInv, Notified, Called
  <2>8. Seen'
    BY <2>2, <2>3 DEF Seen
  <2> QED BY Zenon, <1>3, <2>4, <2>6, <2>7, <2>8 DEF FInv
<1> QED
  BY <1>4, <1>5

(* finishNotification(): every zone is in the generation after the flush   *)
(* which goes to the pending ones.                                         *)
LEMMA FinishFInv ==
  ASSUME FInv, FinishNotification
  PROVE  FInv'
<1>0. /\ notifiers \in Seq(Flushes) /\ pendingFlushes \in Seq(Flushes)
      /\ Len(notifiers) \in Nat /\ Len(pendingFlushes) \in Nat
      /\ flushGeneration \in Nat /\ firstUnacknowledgedGeneration \in Nat
      /\ Numbered /\ Notified
  BY Zenon, LenProperties DEF FInv, FlushTypeOK, Generations
<1>1. /\ step = "none" /\ notification = "finish" /\ notifiers' = Tail(notifiers)
      /\ pendingFlushes' = Append(pendingFlushes, Head(notifiers)) /\ notification' = "none"
      /\ step' = "load" /\ caller' = -1 /\ nextZone' = 0 /\ oldestSeen' = -1
      /\ UNCHANGED <<flushGeneration, firstUnacknowledgedGeneration, generation,
                     logicalZoneToNotify, zones, writes, waitsFor>>
  BY Zenon DEF FinishNotification, startLoop
<1>2. /\ UNCHANGED <<zoneGeneration, oldestActiveGeneration, oldestLockedGeneration, notificationGeneration>>
      /\ UNCHANGED <<notifying, zoneCompletion, zoneState, writeVIOs, writeGeneration, hasFlushGenerationLock>>
  BY Zenon, <1>1 DEF zones, writes
<1>3. notifiers # <<>>
  BY Zenon, <1>0, <1>1 DEF Notified
<1>4. /\ Tail(notifiers) \in Seq(Flushes) /\ Head(notifiers) \in Flushes /\ Head(notifiers) = notifiers[1]
      /\ Len(Tail(notifiers)) = Len(notifiers) - 1 /\ Len(notifiers) >= 1
      /\ \A i \in 1 .. Len(Tail(notifiers)) : Tail(notifiers)[i] = notifiers[i + 1]
  BY <1>0, <1>3, HeadTailProperties, EmptySeq
<1>5. /\ pendingFlushes' \in Seq(Flushes) /\ Len(pendingFlushes') = Len(pendingFlushes) + 1
      /\ \A i \in 1 .. Len(pendingFlushes) : pendingFlushes'[i] = pendingFlushes[i]
      /\ pendingFlushes'[Len(pendingFlushes) + 1] = notifiers[1]
  BY <1>0, <1>1, <1>4, AppendProperties
<1>6. 0 \in Zones /\ \A y \in Zones : ~(y < 0)
  BY ZoneNumbers
<1>7. FlushTypeOK'
  BY Zenon, <1>1, <1>2, <1>4, <1>5, <1>6 DEF FInv, FlushTypeOK
<1>8. \A z \in Zones : told(z) /\ ~told(z)'
  BY Zenon, <1>1 DEF told
<1>9. Numbered'
  <2>1. flushGeneration' = firstUnacknowledgedGeneration' + Len(pendingFlushes') + Len(notifiers')
    BY <1>0, <1>1, <1>4, <1>5 DEF Numbered
  <2>2. ASSUME NEW i \in 1 .. Len(pendingFlushes')
        PROVE  generation'[pendingFlushes'[i]] = firstUnacknowledgedGeneration' + i - 1
    <3>1. CASE i \in 1 .. Len(pendingFlushes)
      BY <1>0, <1>1, <1>5, <3>1 DEF Numbered
    <3>2. CASE i = Len(pendingFlushes) + 1
      <4>1. generation[notifiers[1]] = firstUnacknowledgedGeneration + Len(pendingFlushes) + 1 - 1
        BY <1>0, <1>4 DEF Numbered
      <4> QED BY <1>0, <1>1, <1>5, <3>2, <4>1
    <3> QED BY <1>0, <1>5, <3>1, <3>2
  <2>3. ASSUME NEW i \in 1 .. Len(notifiers')
        PROVE  generation'[notifiers'[i]] = firstUnacknowledgedGeneration' + Len(pendingFlushes') + i - 1
    <3>1. i + 1 \in 1 .. Len(notifiers) /\ notifiers'[i] = notifiers[i + 1] /\ i \in Int
      BY <1>0, <1>1, <1>4
    <3>2. generation[notifiers[i + 1]] = firstUnacknowledgedGeneration + Len(pendingFlushes) + (i + 1) - 1
      BY <1>0, <3>1 DEF Numbered
    <3> QED BY <1>0, <1>1, <1>5, <3>1, <3>2
  <2>4. ASSUME NEW z \in Zones
        PROVE  zoneGeneration'[z] = firstUnacknowledgedGeneration' + Len(pendingFlushes') + (IF told(z)' THEN 1 ELSE 0)
    <3>1. zoneGeneration[z] = firstUnacknowledgedGeneration + Len(pendingFlushes) + 1
      BY Zenon, <1>0, <1>8 DEF Numbered
    <3> QED BY <1>0, <1>1, <1>2, <1>5, <1>8, <3>1
  <2> QED BY Zenon, <2>1, <2>2, <2>3, <2>4 DEF Numbered
<1>10. Notified' /\ Called'
  BY Zenon, <1>1 DEF Notified, Called
<1>11. Seen'
  BY <1>1, <1>6 DEF Seen
<1>12. Ringed' /\ Sorted' /\ Oldest' /\ Waited' /\ Drained'
  BY <1>1, FlusherFrame
<1> QED
  BY <1>7, <1>9, <1>10, <1>11, <1>12 DEF FInv

(* completeFlushes() reads the generation of the next zone.                *)
LEMMA LoadFInv ==
  ASSUME FInv, LoadOldestLockedGeneration
  PROVE  FInv'
<1>1. /\ step = "load"
      /\ oldestSeen' = minSequenceNumber(oldestSeen, oldestLockedGeneration[nextZone])
      /\ IF nextZone = LastZone THEN step' = "acknowledge" /\ UNCHANGED nextZone
         ELSE nextZone' = nextZone + 1 /\ UNCHANGED step
      /\ UNCHANGED <<queues, notified, caller, zones, writes, waitsFor>>
  BY DEF LoadOldestLockedGeneration
<1>2. /\ UNCHANGED <<zoneGeneration, oldestActiveGeneration, oldestLockedGeneration, notificationGeneration>>
      /\ UNCHANGED <<notifying, zoneCompletion, zoneState, writeVIOs, writeGeneration, hasFlushGenerationLock>>
      /\ UNCHANGED <<flushGeneration, firstUnacknowledgedGeneration, notifiers, pendingFlushes, generation>>
      /\ UNCHANGED <<notification, logicalZoneToNotify>>
  BY <1>1 DEF zones, writes, queues, notified
<1>3. /\ nextZone \in Zones /\ nextZone \in Nat /\ oldestSeen \in Nat \cup {-1}
      /\ \A z \in Zones : oldestLockedGeneration[z] \in Nat /\ z \in Nat /\ z <= LastZone
      /\ LastZone \in Nat /\ (nextZone # LastZone => nextZone + 1 \in Zones)
  BY Zenon, ZoneNumbers DEF FInv, FlushTypeOK, Generations
<1>4. /\ oldestSeen' \in Nat
      /\ oldestSeen' <= oldestLockedGeneration[nextZone]
      /\ \A z \in Zones : z < nextZone => oldestSeen' <= oldestLockedGeneration[z]
  <2>1. nextZone > 0 => oldestSeen \in Nat
    BY <1>1, <1>3 DEF FInv, Seen
  <2>2. \A z \in Zones : z < nextZone => oldestSeen <= oldestLockedGeneration[z] /\ nextZone > 0
    BY <1>1, <1>3 DEF FInv, Seen
  <2> QED BY <1>1, <1>3, <2>1, <2>2 DEF minSequenceNumber
<1>5. step' \in {"load", "acknowledge"} /\ nextZone' \in Zones
  BY <1>1, <1>3
<1>6. Seen'
  <2>1. CASE nextZone = LastZone
    <3>1. \A z \in Zones : z < nextZone \/ z = nextZone
      BY <1>3, <2>1
    <3>2. step' = "acknowledge"
      BY <1>1, <2>1
    <3> QED BY <1>2, <1>3, <1>4, <3>1, <3>2 DEF Seen
  <2>2. CASE nextZone # LastZone
    <3>1. nextZone' = nextZone + 1 /\ step' = "load"
      BY <1>1, <2>2
    <3>2. \A z \in Zones : z < nextZone + 1 => z < nextZone \/ z = nextZone
      BY <1>3
    <3> QED BY <1>2, <1>3, <1>4, <3>1, <3>2 DEF Seen
  <2> QED BY <2>1, <2>2
<1>7. FlushTypeOK'
  BY Zenon, <1>1, <1>2, <1>4, <1>5 DEF FInv, FlushTypeOK, Generations
<1>8. \A y \in Zones : told(y)' <=> told(y)
  BY Zenon, <1>2 DEF told
<1>9. Numbered'
  BY Zenon, <1>2, <1>8 DEF FInv, Numbered
<1>10. Notified' /\ Called'
  BY Zenon, <1>1, <1>2, <1>5 DEF FInv, Notified, Called
<1>11. Ringed' /\ Sorted' /\ Oldest' /\ Waited' /\ Drained'
  BY Zenon, <1>1, <1>2, FlusherFrame
<1> QED
  BY <1>6, <1>7, <1>9, <1>10, <1>11 DEF FInv

(* completeFlushes() acknowledges a flush.                                 *)
LEMMA AcknowledgeFInv ==
  ASSUME FInv, AcknowledgeFlush
  PROVE  FInv'
<1>0. /\ notifiers \in Seq(Flushes) /\ pendingFlushes \in Seq(Flushes)
      /\ Len(notifiers) \in Nat /\ Len(pendingFlushes) \in Nat
      /\ flushGeneration \in Nat /\ firstUnacknowledgedGeneration \in Nat
      /\ Numbered /\ Notified
  BY LenProperties DEF FInv, FlushTypeOK, Generations
<1>1. /\ pendingFlushes # <<>> /\ pendingFlushes' = Tail(pendingFlushes)
      /\ firstUnacknowledgedGeneration' = firstUnacknowledgedGeneration + 1
      /\ UNCHANGED <<flushGeneration, notifiers, generation, notified, loop, zones, writes, waitsFor>>
  BY Zenon DEF AcknowledgeFlush, mayAcknowledge
<1>2. /\ UNCHANGED <<zoneGeneration, oldestActiveGeneration, oldestLockedGeneration, notificationGeneration>>
      /\ UNCHANGED <<notifying, zoneCompletion, zoneState, writeVIOs, writeGeneration, hasFlushGenerationLock>>
      /\ UNCHANGED <<step, caller, nextZone, oldestSeen, notification, logicalZoneToNotify>>
  BY Zenon, <1>1 DEF zones, writes, loop, notified
<1>3. /\ Tail(pendingFlushes) \in Seq(Flushes) /\ Len(pendingFlushes) >= 1
      /\ Len(Tail(pendingFlushes)) = Len(pendingFlushes) - 1
      /\ \A i \in 1 .. Len(Tail(pendingFlushes)) : Tail(pendingFlushes)[i] = pendingFlushes[i + 1]
  BY <1>0, <1>1, HeadTailProperties, EmptySeq
<1>4. FlushTypeOK'
  <2>1. firstUnacknowledgedGeneration' \in Nat /\ pendingFlushes' \in Seq(Flushes)
    BY <1>0, <1>1, <1>3
  <2>2. UNCHANGED <<flushGeneration, notifiers, generation, waitsFor>>
    BY Zenon, <1>1
  <2> QED BY Zenon, <1>2, <2>1, <2>2 DEF FInv, FlushTypeOK, Generations
<1>5. \A y \in Zones : told(y)' <=> told(y)
  BY Zenon, <1>2 DEF told
<1>6. Numbered'
  <2>1. flushGeneration' = firstUnacknowledgedGeneration' + Len(pendingFlushes') + Len(notifiers')
    BY <1>0, <1>1, <1>3 DEF Numbered
  <2>2. ASSUME NEW i \in 1 .. Len(pendingFlushes')
        PROVE  generation'[pendingFlushes'[i]] = firstUnacknowledgedGeneration' + i - 1
    <3>1. i + 1 \in 1 .. Len(pendingFlushes) /\ pendingFlushes'[i] = pendingFlushes[i + 1] /\ i \in Int
      BY <1>0, <1>1, <1>3
    <3>2. generation[pendingFlushes[i + 1]] = firstUnacknowledgedGeneration + (i + 1) - 1
      BY Zenon, <1>0, <3>1 DEF Numbered
    <3> QED BY <1>0, <1>1, <3>1, <3>2
  <2>3. \A i \in 1 .. Len(notifiers') :
          generation'[notifiers'[i]] = firstUnacknowledgedGeneration' + Len(pendingFlushes') + i - 1
    BY <1>0, <1>1, <1>3 DEF Numbered
  <2>4. ASSUME NEW z \in Zones
        PROVE  zoneGeneration'[z] = firstUnacknowledgedGeneration' + Len(pendingFlushes') + (IF told(z)' THEN 1 ELSE 0)
    <3>1. zoneGeneration[z] = firstUnacknowledgedGeneration + Len(pendingFlushes) + (IF told(z) THEN 1 ELSE 0)
      BY Zenon, <1>0 DEF Numbered
    <3>2. firstUnacknowledgedGeneration' + Len(pendingFlushes') = firstUnacknowledgedGeneration + Len(pendingFlushes)
      BY <1>0, <1>1, <1>3
    <3> QED BY Zenon, <1>2, <1>5, <3>1, <3>2
  <2> QED BY Zenon, <2>1, <2>2, <2>3, <2>4 DEF Numbered
<1>7. Notified' /\ Seen' /\ Called'
  BY Zenon, <1>1, <1>2 DEF FInv, Notified, Seen, Called
<1>8. Ringed' /\ Sorted' /\ Oldest' /\ Waited' /\ Drained'
  BY Zenon, <1>1, FlusherFrame
<1> QED
  BY <1>4, <1>6, <1>7, <1>8 DEF FInv

(* completeFlushes() returns: finishNotification() begins to tell the      *)
(* zones of the next flush, or the zone which called goes on.              *)
LEMMA ReturnFInv ==
  ASSUME FInv, ReturnFromCompleteFlushes
  PROVE  FInv'
<1>1. /\ step = "acknowledge"
      /\ step' = "none" /\ caller' = -1 /\ nextZone' = 0 /\ oldestSeen' = -1
      /\ IF caller = -1 /\ notifiers # <<>> THEN notification' = "zone" /\ logicalZoneToNotify' = 0
         ELSE UNCHANGED notified
      /\ zoneCompletion' = IF caller = -1 THEN zoneCompletion ELSE [zoneCompletion EXCEPT ![caller] = "zone"]
      /\ UNCHANGED <<queues, zoneGeneration, oldestActiveGeneration,
                     oldestLockedGeneration, notificationGeneration, notifying, zoneState, writes, waitsFor>>
  BY Zenon DEF ReturnFromCompleteFlushes, notifyFlush
<1>2. /\ UNCHANGED <<writeVIOs, writeGeneration, hasFlushGenerationLock>>
      /\ UNCHANGED <<flushGeneration, firstUnacknowledgedGeneration, notifiers, pendingFlushes, generation>>
  BY Zenon, <1>1 DEF writes, queues
<1>3. /\ caller \in Zones \cup {-1} /\ 0 \in Zones /\ \A z \in Zones : ~(z < 0)
      /\ zoneCompletion \in [Zones -> {"none", "flusher", "zone"}]
  BY ZoneNumbers DEF FInv, FlushTypeOK
<1>4. /\ \A z \in Zones : told(z)' <=> told(z)
      /\ notification' \in {"none", "zone", "packer", "finish"} /\ logicalZoneToNotify' \in Zones
      /\ notification' # "none" => notifiers # <<>>
      /\ notification' = "none" => notifiers = <<>>
  <2>1. CASE caller = -1 /\ notifiers # <<>>
    BY Zenon, <1>1, <1>3, <2>1 DEF FInv, Notified, told
  <2>2. CASE ~(caller = -1 /\ notifiers # <<>>)
    BY Zenon, <1>1, <2>2 DEF FInv, Notified, told, notified, FlushTypeOK
  <2> QED BY Zenon, <2>1, <2>2
<1>5. \A z \in Zones : zoneCompletion'[z] # "none" <=> zoneCompletion[z] # "none"
  <2>1. CASE caller = -1
    BY Zenon, <1>1, <2>1
  <2>2. CASE caller # -1
    <3>1. zoneCompletion[caller] = "flusher" /\ caller \in Zones
      BY Zenon, <1>1, <1>3, <2>2 DEF FInv, Called
    <3> QED BY Zenon, <1>1, <1>3, <2>2, <3>1
  <2> QED BY Zenon, <2>1, <2>2
<1>6. FlushTypeOK'
  <2>1. zoneCompletion' \in [Zones -> {"none", "flusher", "zone"}]
    BY Zenon, <1>1, <1>3
  <2> QED BY Zenon, <1>1, <1>2, <1>3, <1>4, <2>1 DEF FInv, FlushTypeOK
<1>7. Numbered'
  BY Zenon, <1>1, <1>2, <1>4 DEF FInv, Numbered
<1>8. Notified' /\ Seen' /\ Called'
  BY Zenon, <1>1, <1>2, <1>4 DEF Notified, Seen, Called
<1>9. Ringed' /\ Sorted' /\ Oldest' /\ Waited'
  BY Zenon, <1>1, <1>2, WritesFrame DEF FInv
<1>10. Drained'
  <2>1. UNCHANGED <<writeVIOs, zoneState, notifying>>
    BY Zenon, <1>1, <1>2
  <2> QED BY Zenon, <1>5, <2>1 DEF FInv, Drained
<1> QED
  BY Zenon, <1>6, <1>7, <1>8, <1>9, <1>10 DEF FInv

-----------------------------------------------------------------------------
(* Every step preserves the invariant.                                     *)
LEMMA NextFInv == FInv /\ [FlushNext]_flushVars => FInv'
<1> SUFFICES ASSUME FInv, [FlushNext]_flushVars PROVE FInv'
  BY Zenon
<1>1. CASE UNCHANGED flushVars
  <2>1. UNCHANGED <<queues, notified, loop, zones, writes, waitsFor>>
    BY Zenon, <1>1 DEF flushVars
  <2>2. /\ UNCHANGED <<zoneGeneration, oldestActiveGeneration, oldestLockedGeneration, notificationGeneration>>
        /\ UNCHANGED <<notifying, zoneCompletion, zoneState, writeVIOs, writeGeneration, hasFlushGenerationLock>>
        /\ UNCHANGED <<flushGeneration, firstUnacknowledgedGeneration, notifiers, pendingFlushes, generation>>
        /\ UNCHANGED <<notification, logicalZoneToNotify, step, caller, nextZone, oldestSeen>>
    BY Zenon, <2>1 DEF zones, writes, loop, notified, queues
  <2>3. FlushTypeOK'
    BY Zenon, <2>1, <2>2 DEF FInv, FlushTypeOK
  <2>4. Numbered' /\ Notified'
    BY Zenon, <2>1, <2>2, QueuesFrame DEF FInv
  <2>5. Ringed' /\ Sorted' /\ Oldest' /\ Waited' /\ Drained'
    BY Zenon, <2>1, <2>2, FlusherFrame
  <2>6. Seen' /\ Called'
    BY Zenon, <2>2 DEF FInv, Seen, Called
  <2> QED BY Zenon, <2>3, <2>4, <2>5, <2>6 DEF FInv
<1>2. CASE ZonesNext
  <2>1. CASE \E v \in DataVIOs, z \in Zones : acquireFlushGenerationLock(v, z)
    BY Zenon, <2>1, AcquireFInv
  <2>2. CASE \E z \in Zones, next \in {<<>>} \cup {<<u>> : u \in DataVIOs \ active} :
               \E i \in 1 .. Len(writeVIOs[z]) : releaseFlushGenerationLock(z, i, next)
    BY Zenon, <2>2, ReleaseFInv
  <2>3. CASE \E z \in Zones : \/ AttemptGenerationCompleteNotification(z) \/ NotifyFlusher(z)
                              \/ DrainLogicalZone(z) \/ ResumeLogicalZone(z)
    BY Zenon, <2>3, AttemptFInv, CallbackFInv, DrainFInv
  <2> QED BY Zenon, <1>2, <2>1, <2>2, <2>3 DEF ZonesNext
<1>3. CASE FlusherNext
  BY Zenon, <1>3, IncrementFInv, CallbackFInv, FinishFInv, LoadFInv, ReturnFInv DEF FlusherNext
<1>4. CASE AcknowledgeFlush
  BY Zenon, <1>4, AcknowledgeFInv
<1>5. CASE \E f \in Flushes : ~isRequested(f) /\ flush(f)
  BY Zenon, <1>5, RequestFInv
<1> QED
  BY Zenon, <1>1, <1>2, <1>3, <1>4, <1>5 DEF FlushNext

(* The strengthening is an invariant of the flusher and the zones.         *)
THEOREM FlushInvariance == FlushSpec => []FInv
  BY InitFInv, NextFInv, PTL DEF FlushSpec

-----------------------------------------------------------------------------
(* The flusher and the zones keep the promise of a flush.                  *)

(* A step which leaves the locks, the flushes and what they wait for alone *)
(* is a stuttering step of the promise.                                    *)
LEMMA PromiseStutters ==
  UNCHANGED <<hasFlushGenerationLock, notifiers, pendingFlushes, waitsFor>> => UNCHANGED Promise!promiseVars
  BY Zenon DEF Promise!promiseVars, active

(* Acquiring a generation lock begins a write.                             *)
LEMMA AcquireIsWrite ==
  ASSUME FInv, NEW v \in DataVIOs, NEW z \in Zones, acquireFlushGenerationLock(v, z)
  PROVE  Promise!Write({v}, {})
<1>1. /\ ~hasFlushGenerationLock[v] /\ hasFlushGenerationLock \in [DataVIOs -> BOOLEAN]
      /\ hasFlushGenerationLock' = [hasFlushGenerationLock EXCEPT ![v] = TRUE]
      /\ UNCHANGED <<notifiers, pendingFlushes, waitsFor>>
      /\ waitsFor \in [Flushes -> SUBSET DataVIOs]
  BY Zenon DEF acquireFlushGenerationLock, queues, FInv, FlushTypeOK
<1>2. \A u \in DataVIOs : hasFlushGenerationLock'[u] <=> (u = v \/ hasFlushGenerationLock[u])
  BY Zenon, <1>1
<1>3. v \notin active
  BY Zenon, <1>1 DEF active
<1>4. active' = (active \cup {v}) \ {}
  BY Zenon, <1>2 DEF active
<1>5. waitsFor' = [f \in Flushes |-> waitsFor[f] \ {}]
  BY Zenon, <1>1
<1> QED
  BY Zenon, <1>1, <1>3, <1>4, <1>5 DEF Promise!Write

(* Releasing one ends a write, and begins the one which the logical block  *)
(* is handed to.                                                           *)
LEMMA ReleaseIsWrite ==
  ASSUME FInv, NEW z \in Zones, NEW i \in 1 .. Len(writeVIOs[z]),
         NEW next \in {<<>>} \cup {<<u>> : u \in DataVIOs \ active},
         releaseFlushGenerationLock(z, i, next)
  PROVE  \E begun, ended \in SUBSET DataVIOs : Promise!Write(begun, ended)
<1> DEFINE v     == writeVIOs[z][i]
           begun == {u \in DataVIOs : next # <<>> /\ u = next[1]}
<1>1. /\ hasFlushGenerationLock' = [u \in DataVIOs |-> IF u = v THEN FALSE
                                      ELSE hasFlushGenerationLock[u] \/ (next # <<>> /\ u = next[1])]
      /\ waitsFor' = [f \in Flushes |-> waitsFor[f] \ {v}]
      /\ UNCHANGED <<notifiers, pendingFlushes>>
  BY Zenon DEF releaseFlushGenerationLock, queues
<1>2. /\ v \in DataVIOs
      /\ next # <<>> => next[1] \in DataVIOs /\ ~hasFlushGenerationLock[next[1]]
  BY Zenon, ReleasedRing
<1>3. begun \cap active = {}
  BY Zenon, <1>2 DEF active
<1>4. active' = (active \cup begun) \ {v}
  BY ZenonT(30), <1>1 DEF active
<1>5. Promise!Write(begun, {v})
  BY Zenon, <1>1, <1>3, <1>4 DEF Promise!Write
<1>6. begun \in SUBSET DataVIOs /\ {v} \in SUBSET DataVIOs
  BY Zenon, <1>2
<1> QED
  BY Zenon, <1>5, <1>6

(* flush() is a request.                                                   *)
LEMMA FlushIsRequest ==
  ASSUME FInv, NEW f \in Flushes, ~isRequested(f), flush(f)
  PROVE  Promise!Request(f)
<1> DEFINE p == pendingFlushes
           n == notifiers
<1>0. p \in Seq(Flushes) /\ n \in Seq(Flushes) /\ Len(p) \in Nat /\ Len(n) \in Nat
  BY Zenon, LenProperties DEF FInv, FlushTypeOK
<1>1. /\ n' = Append(n, f) /\ p' = p /\ waitsFor' = [waitsFor EXCEPT ![f] = active]
      /\ UNCHANGED hasFlushGenerationLock
  BY Zenon DEF flush, writes
<1>2. \A i \in 1 .. Len(p \o n) : (p \o n)[i] # f
  <2>1. Len(p \o n) = Len(p) + Len(n)
        /\ \A i \in 1 .. Len(p) + Len(n) : (p \o n)[i] = IF i <= Len(p) THEN p[i] ELSE n[i - Len(p)]
    BY Zenon, <1>0, ConcatProperties
  <2>2. \A i \in 1 .. Len(p) + Len(n) : i <= Len(p) => i \in 1 .. Len(p)
    BY <1>0
  <2>3. \A i \in 1 .. Len(p) + Len(n) : ~(i <= Len(p)) => i - Len(p) \in 1 .. Len(n)
    BY <1>0
  <2>4. /\ \A i \in 1 .. Len(p) : p[i] # f
        /\ \A i \in 1 .. Len(n) : n[i] # f
    BY Zenon DEF isRequested
  <2> HIDE DEF p, n
  <2> QED BY Zenon, <2>1, <2>2, <2>3, <2>4
<1>3. p \o Append(n, f) = Append(p \o n, f)
  <2> HIDE DEF p, n
  <2> QED BY <1>0
<1>4. active' = active
  BY Zenon, <1>1 DEF active
<1> QED
  BY Zenon, <1>1, <1>2, <1>3, <1>4 DEF Promise!Request

(* Moving the first flush which the zones were told of to the pending ones *)
(* leaves the order of the flushes alone.                                  *)
LEMMA FinishStutters ==
  ASSUME FInv, FinishNotification
  PROVE  UNCHANGED Promise!promiseVars
<1> DEFINE p == pendingFlushes
           n == notifiers
<1>1. /\ p' = Append(p, Head(n)) /\ n' = Tail(n) /\ UNCHANGED <<hasFlushGenerationLock, waitsFor>>
      /\ notification = "finish"
  BY Zenon DEF FinishNotification, writes
<1>2. p \in Seq(Flushes) /\ n \in Seq(Flushes) /\ n # <<>>
  BY Zenon, <1>1 DEF FInv, FlushTypeOK, Notified
<1>3. Append(p, Head(n)) \o Tail(n) = p \o n
  <2> HIDE DEF p, n
  <2> QED BY <1>2
<1> QED
  BY Zenon, <1>1, <1>3 DEF Promise!promiseVars, active

(* completeFlushes() acknowledges the oldest request, for which nothing is *)
(* left to wait.                                                           *)
LEMMA AcknowledgeIsAcknowledge ==
  ASSUME FInv, AcknowledgeFlush
  PROVE  Promise!Acknowledge
<1> DEFINE p == pendingFlushes
           n == notifiers
<1>1. /\ step = "acknowledge" /\ mayAcknowledge
      /\ p' = Tail(p) /\ n' = n /\ UNCHANGED <<hasFlushGenerationLock, waitsFor>>
  BY Zenon DEF AcknowledgeFlush, writes
<1>2. p # <<>> /\ waitsFor[Head(p)] = {}
  BY Zenon, <1>1, AcknowledgedIsFree
<1>3. p \in Seq(Flushes) /\ n \in Seq(Flushes)
  BY Zenon DEF FInv, FlushTypeOK
<1>4. p \o n # <<>> /\ Head(p \o n) = Head(p) /\ Tail(p \o n) = Tail(p) \o n
  <2> HIDE DEF p, n
  <2> QED BY <1>2, <1>3
<1>5. active' = active
  BY Zenon, <1>1 DEF active
<1> QED
  BY Zenon, <1>1, <1>2, <1>4, <1>5 DEF Promise!Acknowledge

(* Each step of the flusher and the zones is a step of the promise.        *)
LEMMA StepKeepsPromise ==
  FInv /\ [FlushNext]_flushVars => [Promise!PromiseNext]_Promise!promiseVars
<1> SUFFICES ASSUME FInv, [FlushNext]_flushVars
             PROVE  Promise!PromiseNext \/ UNCHANGED Promise!promiseVars
  BY Zenon
<1>1. CASE UNCHANGED flushVars
  BY Zenon, <1>1, PromiseStutters DEF flushVars, queues, writes
<1>2. CASE ZonesNext
  <2>1. CASE \E v \in DataVIOs, z \in Zones : acquireFlushGenerationLock(v, z)
    <3>1. PICK v \in DataVIOs, z \in Zones : acquireFlushGenerationLock(v, z)
      BY Zenon, <2>1
    <3>2. Promise!Write({v}, {}) /\ {v} \in SUBSET DataVIOs /\ {} \in SUBSET DataVIOs
      BY Zenon, <3>1, AcquireIsWrite
    <3> QED BY Zenon, <3>2 DEF Promise!PromiseNext
  <2>2. CASE \E z \in Zones, next \in {<<>>} \cup {<<u>> : u \in DataVIOs \ active} :
               \E i \in 1 .. Len(writeVIOs[z]) : releaseFlushGenerationLock(z, i, next)
    BY Zenon, <2>2, ReleaseIsWrite DEF Promise!PromiseNext
  <2>3. CASE \E z \in Zones : \/ AttemptGenerationCompleteNotification(z) \/ NotifyFlusher(z)
                              \/ DrainLogicalZone(z) \/ ResumeLogicalZone(z)
    <3>1. UNCHANGED <<queues, writes, waitsFor>>
      BY Zenon, <2>3 DEF AttemptGenerationCompleteNotification, NotifyFlusher, DrainLogicalZone, ResumeLogicalZone
    <3> QED BY Zenon, <3>1, PromiseStutters DEF queues, writes
  <2> QED BY Zenon, <1>2, <2>1, <2>2, <2>3 DEF ZonesNext
<1>3. CASE FlusherNext
  <2>1. CASE FinishNotification
    BY Zenon, <2>1, FinishStutters
  <2>2. CASE IncrementGeneration \/ FlushPackerCallback \/ LoadOldestLockedGeneration \/ ReturnFromCompleteFlushes
    <3>1. UNCHANGED <<queues, writes, waitsFor>>
      BY Zenon, <2>2 DEF IncrementGeneration, FlushPackerCallback, LoadOldestLockedGeneration, ReturnFromCompleteFlushes
    <3> QED BY <3>1, PromiseStutters DEF queues, writes
  <2> QED BY Zenon, <1>3, <2>1, <2>2 DEF FlusherNext
<1>4. CASE AcknowledgeFlush
  BY Zenon, <1>4, AcknowledgeIsAcknowledge DEF Promise!PromiseNext
<1>5. CASE \E f \in Flushes : ~isRequested(f) /\ flush(f)
  BY Zenon, <1>5, FlushIsRequest DEF Promise!PromiseNext
<1> QED
  BY Zenon, <1>1, <1>2, <1>3, <1>4, <1>5 DEF FlushNext

(* The flusher and the zones implement the promise of a flush, whatever    *)
(* the writes, the flushes and the number of zones: completeFlushes()      *)
(* acknowledges a flush only when every write which had a generation lock  *)
(* at flush() has released it, and in order.                               *)
THEOREM FlusherKeepsPromise == FlushSpec => KeepsPromise
<1>1. FlushInit => Promise!PromiseInit
  BY DEF FlushInit, Promise!PromiseInit, active
<1> QED
  BY <1>1, FlushInvariance, StepKeepsPromise, PTL DEF FlushSpec, KeepsPromise, Promise!PromiseSpec

-----------------------------------------------------------------------------
(* The kernel's flushes are flushes of the flusher: a KVDOFlush is given   *)
(* to it only while it is in none of its queues.                           *)

(* No flush is in the queues twice.                                        *)
LEMMA FlushesAreDistinct ==
  ASSUME FInv, pendingFlushes # <<>>
  PROVE  /\ Head(pendingFlushes) \in Flushes /\ isRequested(Head(pendingFlushes))
         /\ \A i \in 1 .. Len(Tail(pendingFlushes)) : Tail(pendingFlushes)[i] # Head(pendingFlushes)
         /\ \A i \in 1 .. Len(notifiers) : notifiers[i] # Head(pendingFlushes)
         /\ \A i \in 1 .. Len(Tail(pendingFlushes)) : isRequested(Tail(pendingFlushes)[i])
<1>0. /\ pendingFlushes \in Seq(Flushes) /\ Len(pendingFlushes) \in Nat /\ Len(notifiers) \in Nat
      /\ firstUnacknowledgedGeneration \in Nat /\ Numbered
  BY Zenon, LenProperties DEF FInv, FlushTypeOK, Generations
<1>1. /\ Head(pendingFlushes) \in Flushes /\ Head(pendingFlushes) = pendingFlushes[1]
      /\ 1 \in 1 .. Len(pendingFlushes)
      /\ Len(Tail(pendingFlushes)) = Len(pendingFlushes) - 1
      /\ \A i \in 1 .. Len(Tail(pendingFlushes)) : Tail(pendingFlushes)[i] = pendingFlushes[i + 1]
  BY <1>0, HeadTailProperties, EmptySeq
<1>2. generation[Head(pendingFlushes)] = firstUnacknowledgedGeneration
  BY <1>0, <1>1 DEF Numbered
<1>3. \A i \in 1 .. Len(Tail(pendingFlushes)) : i + 1 \in 1 .. Len(pendingFlushes) /\ i \in Nat /\ i >= 1
  BY <1>0, <1>1
<1>4. \A i \in 1 .. Len(Tail(pendingFlushes)) :
        generation[pendingFlushes[i + 1]] = firstUnacknowledgedGeneration + (i + 1) - 1
  BY Zenon, <1>0, <1>3 DEF Numbered
<1>5. \A i \in 1 .. Len(notifiers) :
        generation[notifiers[i]] = firstUnacknowledgedGeneration + Len(pendingFlushes) + i - 1
  BY Zenon, <1>0 DEF Numbered
<1>6. \A i \in 1 .. Len(Tail(pendingFlushes)) : Tail(pendingFlushes)[i] # Head(pendingFlushes)
  BY <1>0, <1>1, <1>2, <1>3, <1>4
<1>7. \A i \in 1 .. Len(notifiers) : notifiers[i] # Head(pendingFlushes)
  BY <1>0, <1>1, <1>2, <1>5
<1> QED
  BY Zenon, <1>1, <1>3, <1>6, <1>7 DEF isRequested

(* What the zones and the flusher do by themselves requests no flush.      *)
LEMMA NoNewRequests ==
  ASSUME FInv, ZonesNext \/ FlusherNext, NEW f \in Flushes, isRequested(f)'
  PROVE  isRequested(f)
<1>1. CASE FinishNotification
  <2>1. /\ pendingFlushes' = Append(pendingFlushes, Head(notifiers)) /\ notifiers' = Tail(notifiers)
        /\ notification = "finish"
    BY Zenon, <1>1 DEF FinishNotification
  <2>2. /\ pendingFlushes \in Seq(Flushes) /\ notifiers \in Seq(Flushes) /\ notifiers # <<>>
        /\ Len(pendingFlushes) \in Nat /\ Len(notifiers) \in Nat
    BY Zenon, <2>1, LenProperties DEF FInv, FlushTypeOK, Notified
  <2>3. /\ Head(notifiers) = notifiers[1] /\ 1 \in 1 .. Len(notifiers) /\ Head(notifiers) \in Flushes
        /\ Len(Tail(notifiers)) = Len(notifiers) - 1
        /\ \A i \in 1 .. Len(Tail(notifiers)) : Tail(notifiers)[i] = notifiers[i + 1]
    BY <2>2, HeadTailProperties, EmptySeq
  <2>4. /\ Len(pendingFlushes') = Len(pendingFlushes) + 1
        /\ \A i \in 1 .. Len(pendingFlushes) : pendingFlushes'[i] = pendingFlushes[i]
        /\ pendingFlushes'[Len(pendingFlushes) + 1] = notifiers[1]
    BY <2>1, <2>2, <2>3, AppendProperties
  <2>5. CASE \E i \in 1 .. Len(pendingFlushes') : pendingFlushes'[i] = f
    <3>1. PICK i \in 1 .. Len(pendingFlushes') : pendingFlushes'[i] = f
      BY Zenon, <2>5
    <3>2. i \in 1 .. Len(pendingFlushes) \/ i = Len(pendingFlushes) + 1
      BY <2>2, <2>4
    <3> QED BY Zenon, <2>3, <2>4, <3>1, <3>2 DEF isRequested
  <2>6. CASE \E i \in 1 .. Len(notifiers') : notifiers'[i] = f
    <3>1. PICK i \in 1 .. Len(Tail(notifiers)) : Tail(notifiers)[i] = f
      BY Zenon, <2>1, <2>6
    <3>2. i + 1 \in 1 .. Len(notifiers)
      BY <2>2, <2>3
    <3> QED BY Zenon, <2>3, <3>1, <3>2 DEF isRequested
  <2> QED BY Zenon, <2>5, <2>6 DEF isRequested
<1>2. CASE UNCHANGED <<pendingFlushes, notifiers>>
  BY Zenon, <1>2 DEF isRequested
<1>3. ZonesNext => UNCHANGED queues
  BY ZenonT(30) DEF ZonesNext, acquireFlushGenerationLock, releaseFlushGenerationLock,
         AttemptGenerationCompleteNotification, NotifyFlusher, DrainLogicalZone, ResumeLogicalZone
<1>4. FlusherNext => UNCHANGED queues \/ FinishNotification
  BY Zenon DEF FlusherNext, IncrementGeneration, FlushPackerCallback, LoadOldestLockedGeneration, ReturnFromCompleteFlushes
<1> QED
  BY Zenon, <1>1, <1>2, <1>3, <1>4 DEF queues

(* The kernel's invariant holds at first.                                  *)
LEMMA InitKInv == FlushInit /\ KernelInit => KInv
<1> SUFFICES ASSUME FlushInit, KernelInit PROVE KInv
  BY Zenon
<1>1. \A f \in Flushes : ~isRequested(f)
  BY EmptySeq DEF FlushInit, isRequested
<1>2. /\ flushStep \in [Flushes -> FlushSteps]
      /\ spareKVDOFlush \in Flushes => flushStep[spareKVDOFlush] = "spare"
  BY Zenon DEF KernelInit, FlushSteps
<1> QED
  BY Zenon, <1>1, <1>2 DEF KInv

(* Each step of the kernel preserves its invariant, and is a step of the   *)
(* flusher and the zones.                                                  *)
LEMMA NextKInv ==
  ASSUME FInv, KInv, [KernelFlushNext]_<<flushVars, kernelVars>>
  PROVE  KInv' /\ [FlushNext]_flushVars
<1>0. /\ flushStep \in [Flushes -> FlushSteps]
      /\ spareKVDOFlush \in Flushes /\ spareKVDOFlush # NoFlush => flushStep[spareKVDOFlush] = "spare"
      /\ \A f \in Flushes : isRequested(f) => flushStep[f] = "flusher"
  BY Zenon DEF KInv
<1>1. UNCHANGED flushVars => \A f \in Flushes : isRequested(f)' <=> isRequested(f)
  BY Zenon DEF flushVars, queues, isRequested
<1>2. ASSUME UNCHANGED flushVars, NEW f \in Flushes, flushStep[f] # "flusher",
             NEW s \in FlushSteps, flushStep' = [flushStep EXCEPT ![f] = s],
             spareKVDOFlush' # NoFlush =>
               (spareKVDOFlush' = f /\ s = "spare") \/ (UNCHANGED spareKVDOFlush /\ (f # spareKVDOFlush \/ s = "spare"))
      PROVE  KInv'
  <2>1. flushStep' \in [Flushes -> FlushSteps] /\ \A g \in Flushes : g # f => flushStep'[g] = flushStep[g]
    BY Zenon, <1>0, <1>2
  <2>2. flushStep'[f] = s
    BY Zenon, <1>0, <1>2
  <2>3. \A g \in Flushes : isRequested(g)' => flushStep'[g] = "flusher"
    BY Zenon, <1>0, <1>1, <1>2, <2>1
  <2>4. spareKVDOFlush' \in Flushes /\ spareKVDOFlush' # NoFlush => flushStep'[spareKVDOFlush'] = "spare"
    BY Zenon, <1>0, <1>2, <2>1, <2>2
  <2> QED BY Zenon, <2>1, <2>3, <2>4 DEF KInv
<1>3. CASE UNCHANGED <<flushVars, kernelVars>>
  BY Zenon, <1>0, <1>1, <1>3 DEF KInv, kernelVars
<1>4. ASSUME NEW bio \in Bios, launchKVDOFlush(bio) PROVE KInv' /\ UNCHANGED flushVars
  <2>0. UNCHANGED flushVars
    BY Zenon, <1>4 DEF launchKVDOFlush
  <2>1. CASE \E f \in Flushes : flushStep[f] = "unallocated" /\ capture(f, waitingFlushes \cup {bio}) /\ UNCHANGED spareKVDOFlush
    <3>1. PICK f \in Flushes : flushStep[f] = "unallocated" /\ capture(f, waitingFlushes \cup {bio}) /\ UNCHANGED spareKVDOFlush
      BY Zenon, <2>1
    <3>2. flushStep' = [flushStep EXCEPT ![f] = "launching"] /\ "launching" \in FlushSteps
      BY Zenon, <3>1 DEF capture, FlushSteps
    <3>3. spareKVDOFlush' # NoFlush => f # spareKVDOFlush
      BY Zenon, <1>0, <3>1
    <3> QED BY Zenon, <1>2, <2>0, <3>1, <3>2, <3>3
  <2>2. CASE spareKVDOFlush # NoFlush /\ capture(spareKVDOFlush, waitingFlushes \cup {bio}) /\ spareKVDOFlush' = NoFlush
    <3>1. flushStep' = [flushStep EXCEPT ![spareKVDOFlush] = "launching"] /\ "launching" \in FlushSteps
      BY Zenon, <2>2 DEF capture, FlushSteps
    <3>2. CASE spareKVDOFlush \in Flushes
      <4>1. flushStep[spareKVDOFlush] # "flusher"
        BY Zenon, <1>0, <2>2, <3>2
      <4> QED BY Zenon, <1>2, <2>0, <2>2, <3>1, <3>2, <4>1
    <3>3. CASE spareKVDOFlush \notin Flushes
      <4>1. flushStep' = flushStep
        BY Zenon, <1>0, <3>1, <3>3
      <4> QED BY Zenon, <1>0, <1>1, <2>0, <2>2, <4>1 DEF KInv
    <3> QED BY Zenon, <3>2, <3>3
  <2>3. CASE UNCHANGED <<spareKVDOFlush, flushStep, bios>>
    BY Zenon, <1>0, <1>1, <2>0, <2>3 DEF KInv
  <2>4. \/ \E f \in Flushes : flushStep[f] = "unallocated" /\ capture(f, waitingFlushes \cup {bio}) /\ UNCHANGED spareKVDOFlush
        \/ spareKVDOFlush # NoFlush /\ capture(spareKVDOFlush, waitingFlushes \cup {bio}) /\ spareKVDOFlush' = NoFlush
        \/ UNCHANGED <<spareKVDOFlush, flushStep, bios>>
    BY Zenon, <1>4 DEF launchKVDOFlush
  <2> QED BY Zenon, <2>0, <2>1, <2>2, <2>3, <2>4
<1>5. ASSUME NEW f \in Flushes, enqueueKVDOFlush(f) \/ kvdoCompleteFlushWork(f) PROVE KInv' /\ UNCHANGED flushVars
  <2>1. PICK s \in FlushSteps : flushStep' = [flushStep EXCEPT ![f] = s]
    BY Zenon, <1>5 DEF enqueueKVDOFlush, kvdoCompleteFlushWork, moveFlush, FlushSteps
  <2>2. UNCHANGED <<flushVars, spareKVDOFlush>> /\ flushStep[f] \in {"launching", "completing"}
    BY Zenon, <1>5 DEF enqueueKVDOFlush, kvdoCompleteFlushWork, moveFlush
  <2>3. spareKVDOFlush # NoFlush => f # spareKVDOFlush
    BY Zenon, <1>0, <2>2
  <2> QED BY Zenon, <1>2, <2>1, <2>2, <2>3
<1>6. ASSUME NEW f \in Flushes, releaseKVDOFlush(f) PROVE KInv' /\ UNCHANGED flushVars
  <2>1. flushStep[f] = "releasing" /\ UNCHANGED flushVars
    BY Zenon, <1>6 DEF releaseKVDOFlush
  <2>2. /\ \E s \in FlushSteps :
             /\ flushStep' = [flushStep EXCEPT ![f] = s]
             /\ UNCHANGED spareKVDOFlush \/ (spareKVDOFlush' = f /\ s = "spare")
    BY Zenon, <1>6 DEF releaseKVDOFlush, capture, FlushSteps
  <2>3. spareKVDOFlush # NoFlush => f # spareKVDOFlush
    BY Zenon, <1>0, <2>1
  <2> QED BY Zenon, <1>2, <2>1, <2>2, <2>3
<1>7. ASSUME NEW f \in Flushes, kvdoFlushWork(f) PROVE KInv' /\ FlushNext
  <2>1. /\ flushStep[f] = "queued" /\ flushStep' = [flushStep EXCEPT ![f] = "flusher"]
        /\ flush(f) /\ UNCHANGED spareKVDOFlush
    BY Zenon, <1>7 DEF kvdoFlushWork, moveFlush
  <2>2. ~isRequested(f)
    BY Zenon, <1>0, <2>1
  <2>3. notifiers' = Append(notifiers, f) /\ pendingFlushes' = pendingFlushes /\ notifiers \in Seq(Flushes)
    BY Zenon, <2>1 DEF flush, FInv, FlushTypeOK
  <2>4. \A g \in Flushes : isRequested(g)' => g = f \/ isRequested(g)
    <3> SUFFICES ASSUME NEW g \in Flushes, g # f, isRequested(g)' PROVE isRequested(g)
      BY Zenon
    <3>1. CASE \E i \in 1 .. Len(pendingFlushes') : pendingFlushes'[i] = g
      BY Zenon, <2>3, <3>1 DEF isRequested
    <3>2. CASE \E i \in 1 .. Len(notifiers') : notifiers'[i] = g
      <4>1. PICK i \in 1 .. Len(notifiers') : notifiers'[i] = g
        BY Zenon, <3>2
      <4>2. /\ Len(notifiers') = Len(notifiers) + 1 /\ Len(notifiers) \in Nat
            /\ notifiers'[Len(notifiers) + 1] = f
            /\ \A k \in 1 .. Len(notifiers) : notifiers'[k] = notifiers[k]
        BY <2>3, AppendProperties, LenProperties
      <4>3. i \in 1 .. Len(notifiers)
        BY <4>1, <4>2
      <4> QED BY Zenon, <4>1, <4>2, <4>3 DEF isRequested
    <3> QED BY Zenon, <3>1, <3>2 DEF isRequested
  <2>5. flushStep' \in [Flushes -> FlushSteps]
    BY Zenon, <1>0, <2>1 DEF FlushSteps
  <2>6. spareKVDOFlush \in Flushes /\ spareKVDOFlush # NoFlush => f # spareKVDOFlush
    BY Zenon, <1>0, <2>1
  <2>7. \A g \in Flushes : isRequested(g)' => flushStep'[g] = "flusher"
    BY Zenon, <1>0, <2>1, <2>4
  <2>8. KInv'
    BY Zenon, <1>0, <2>1, <2>5, <2>6, <2>7 DEF KInv
  <2> QED BY Zenon, <2>1, <2>2, <2>8 DEF FlushNext
<1>8. ASSUME kvdoCompleteFlush PROVE KInv' /\ FlushNext
  <2> DEFINE f == Head(pendingFlushes)
  <2>1. /\ AcknowledgeFlush /\ flushStep' = [flushStep EXCEPT ![f] = "completing"] /\ UNCHANGED spareKVDOFlush
        /\ pendingFlushes # <<>> /\ pendingFlushes' = Tail(pendingFlushes) /\ notifiers' = notifiers
    BY Zenon, <1>8 DEF kvdoCompleteFlush, AcknowledgeFlush, mayAcknowledge
  <2>2. /\ f \in Flushes /\ isRequested(f)
        /\ \A i \in 1 .. Len(Tail(pendingFlushes)) : Tail(pendingFlushes)[i] # f
        /\ \A i \in 1 .. Len(notifiers) : notifiers[i] # f
        /\ \A i \in 1 .. Len(Tail(pendingFlushes)) : isRequested(Tail(pendingFlushes)[i])
    BY Zenon, <2>1, FlushesAreDistinct
  <2>3. \A g \in Flushes : isRequested(g)' => isRequested(g) /\ g # f
    <3>1. \A g \in Flushes : isRequested(g)' =>
             \/ \E i \in 1 .. Len(Tail(pendingFlushes)) : Tail(pendingFlushes)[i] = g
             \/ \E i \in 1 .. Len(notifiers) : notifiers[i] = g
      BY Zenon, <2>1 DEF isRequested
    <3>2. \A g \in Flushes : (\E i \in 1 .. Len(notifiers) : notifiers[i] = g) => isRequested(g)
      BY Zenon DEF isRequested
    <3>3. \A g \in Flushes : isRequested(g)' => isRequested(g)
      BY Zenon, <2>2, <3>1, <3>2
    <3>4. \A g \in Flushes : isRequested(g)' => g # f
      BY Zenon, <2>2, <3>1
    <3> QED BY Zenon, <3>3, <3>4
  <2>4. flushStep[f] = "flusher"
    BY Zenon, <1>0, <2>2
  <2> HIDE DEF f
  <2>5. flushStep' \in [Flushes -> FlushSteps] /\ \A g \in Flushes : g # f => flushStep'[g] = flushStep[g]
    BY Zenon, <1>0, <2>1 DEF FlushSteps
  <2>6. spareKVDOFlush \in Flushes /\ spareKVDOFlush # NoFlush => f # spareKVDOFlush
    BY Zenon, <1>0, <2>4
  <2>7. \A g \in Flushes : isRequested(g)' => flushStep'[g] = "flusher"
    BY Zenon, <1>0, <2>3, <2>5
  <2>8. KInv'
    BY Zenon, <1>0, <2>1, <2>5, <2>6, <2>7 DEF KInv
  <2> QED BY Zenon, <2>1, <2>8 DEF FlushNext
<1>9. ASSUME ZonesNext \/ FlusherNext, UNCHANGED kernelVars PROVE KInv' /\ FlushNext
  <2>1. \A f \in Flushes : isRequested(f)' => isRequested(f)
    BY Zenon, <1>9, NoNewRequests
  <2>2. KInv'
    BY Zenon, <1>0, <1>9, <2>1 DEF KInv, kernelVars
  <2> QED BY Zenon, <1>9, <2>2 DEF FlushNext
<1> QED
  BY Zenon, <1>3, <1>4, <1>5, <1>6, <1>7, <1>8, <1>9 DEF KernelFlushNext

(* The strengthenings are invariants of the flusher with the kernel's      *)
(* flushes.                                                                *)
THEOREM KernelInvariance == KernelFlushSpec => [](FInv /\ KInv)
<1>1. KernelFlushInit => FInv /\ KInv
  BY Zenon, InitFInv, InitKInv DEF KernelFlushInit
<1>2. FInv /\ KInv /\ [KernelFlushNext]_<<flushVars, kernelVars>> => (FInv /\ KInv)'
  BY Zenon, NextKInv, NextFInv
<1> QED
  BY <1>1, <1>2, PTL DEF KernelFlushSpec

(* The kernel with its flushes (kvdoFlush.c), its spare and its waiting    *)
(* bios, uses the flusher as FlushSpec says: it never gives it a flush     *)
(* which is in its queues.                                                 *)
THEOREM KernelUsesFlusher == KernelFlushSpec => FlushSpec
<1>1. KernelFlushInit => FlushInit
  BY Zenon DEF KernelFlushInit
<1>2. FInv /\ KInv /\ [KernelFlushNext]_<<flushVars, kernelVars>> => [FlushNext]_flushVars
  BY Zenon, NextKInv
<1> QED
  BY <1>1, <1>2, KernelInvariance, PTL DEF KernelFlushSpec, FlushSpec

(* What a flush bio waits for: launchKVDOFlush(), the flusher and the      *)
(* zones keep the promise of a flush.                                      *)
THEOREM FlushKeepsPromise == KernelFlushSpec => KeepsPromise
  BY KernelUsesFlusher, FlusherKeepsPromise, PTL

(* The state has its type.                                                 *)
THEOREM FlushTypeCorrect == KernelFlushSpec => []FlushTypeOK
<1>1. FInv => FlushTypeOK
  BY Zenon DEF FInv
<1> QED
  BY <1>1, KernelInvariance, PTL

(* The assertions which the code makes of generations: the flush which is  *)
(* acknowledged is the next expected one (flush.c, 243), a zone which      *)
(* increments its generation is in that of the flush (logicalZone.c, 348), *)
(* and a write which releases its lock is not older than the oldest active *)
(* generation (434).                                                       *)
GenerationsAreAsserted ==
  /\ step = "acknowledge" /\ mayAcknowledge =>
       generation[Head(pendingFlushes)] = firstUnacknowledgedGeneration
  /\ notification = "zone" =>
       zoneGeneration[logicalZoneToNotify] = generation[Head(notifiers)]
  /\ \A z \in Zones : \A i \in 1 .. Len(writeVIOs[z]) :
       oldestActiveGeneration[z] <= writeGeneration[writeVIOs[z][i]]

(* None of these assertions of flush.c and logicalZone.c ever fails.       *)
THEOREM AssertionsHold == KernelFlushSpec => []GenerationsAreAsserted
<1>1. ASSUME FInv PROVE GenerationsAreAsserted
  <2>0. /\ notifiers \in Seq(Flushes) /\ pendingFlushes \in Seq(Flushes)
        /\ Len(notifiers) \in Nat /\ Len(pendingFlushes) \in Nat
        /\ firstUnacknowledgedGeneration \in Nat /\ logicalZoneToNotify \in Zones
        /\ Numbered /\ Notified
    BY Zenon, <1>1, LenProperties DEF FInv, FlushTypeOK, Generations
  <2>1. ASSUME pendingFlushes # <<>>
        PROVE  generation[Head(pendingFlushes)] = firstUnacknowledgedGeneration
    <3>1. Head(pendingFlushes) = pendingFlushes[1] /\ 1 \in 1 .. Len(pendingFlushes)
      BY <2>0, <2>1, EmptySeq
    <3> QED BY <2>0, <3>1 DEF Numbered
  <2>2. ASSUME notification = "zone"
        PROVE  zoneGeneration[logicalZoneToNotify] = generation[Head(notifiers)]
    <3>1. Head(notifiers) = notifiers[1] /\ 1 \in 1 .. Len(notifiers)
      BY <2>0, <2>2, EmptySeq DEF Notified
    <3>2. ~told(logicalZoneToNotify)
      BY <2>0, <2>2, ZoneNumbers DEF told
    <3>3. generation[notifiers[1]] = firstUnacknowledgedGeneration + Len(pendingFlushes) + 1 - 1
      BY Zenon, <2>0, <3>1 DEF Numbered
    <3>4. zoneGeneration[logicalZoneToNotify] = firstUnacknowledgedGeneration + Len(pendingFlushes) + 0
      BY Zenon, <2>0, <3>2 DEF Numbered
    <3> QED BY <2>0, <3>1, <3>3, <3>4
  <2>3. \A z \in Zones : \A i \in 1 .. Len(writeVIOs[z]) :
          oldestActiveGeneration[z] <= writeGeneration[writeVIOs[z][i]]
    BY Zenon, <1>1, OldestIsOldest
  <2> QED BY Zenon, <2>1, <2>2, <2>3 DEF GenerationsAreAsserted, mayAcknowledge
<1> QED
  BY <1>1, KernelInvariance, PTL

(* The oldest generation of a zone, which the flusher reads while the      *)
(* zone's thread goes on, never goes back.                                 *)
OldestNeverGoesBack ==
  [][\A z \in Zones : oldestLockedGeneration[z] <= oldestLockedGeneration'[z]]_flushVars

(* No step of the flusher or of a zone takes an oldest generation back.    *)
THEOREM OldestGenerationAdvances == KernelFlushSpec => OldestNeverGoesBack
<1>1. ASSUME FInv, [FlushNext]_flushVars, NEW y \in Zones
      PROVE  oldestLockedGeneration[y] <= oldestLockedGeneration'[y]
  <2>0. /\ oldestLockedGeneration \in [Zones -> Nat] /\ oldestActiveGeneration \in [Zones -> Nat]
        /\ zoneGeneration \in [Zones -> Nat]
        /\ \A z \in Zones : oldestLockedGeneration[z] = oldestActiveGeneration[z]
    BY Zenon, <1>1 DEF FInv, FlushTypeOK, Oldest, Generations
  <2>1. CASE UNCHANGED oldestLockedGeneration
    BY <2>0, <2>1
  <2>2. ASSUME NEW z \in Zones, NEW oldest \in Nat, oldestActiveGeneration[z] <= oldest,
               updateOldestActiveGeneration(z, oldest)
        PROVE  oldestLockedGeneration[y] <= oldestLockedGeneration'[y]
    <3>1. oldestLockedGeneration' = [oldestLockedGeneration EXCEPT ![z] = oldest] \/ UNCHANGED oldestLockedGeneration
      BY Zenon, <2>2 DEF updateOldestActiveGeneration
    <3>2. CASE y = z
      BY <2>0, <2>2, <3>1, <3>2
    <3>3. CASE y # z
      BY <2>0, <3>1, <3>3
    <3> QED BY Zenon, <3>2, <3>3
  <2>3. ASSUME NEW z \in Zones, NEW next \in {<<>>} \cup {<<u>> : u \in DataVIOs \ active},
               NEW i \in 1 .. Len(writeVIOs[z]), releaseFlushGenerationLock(z, i, next)
        PROVE  oldestLockedGeneration[y] <= oldestLockedGeneration'[y]
    <3> DEFINE v    == writeVIOs[z][i]
               ring == unsplice(writeVIOs[z] \o next, i)
               G    == [u \in DataVIOs |-> IF next # <<>> /\ u = next[1] THEN zoneGeneration[z]
                                           ELSE IF u = v THEN 0 ELSE writeGeneration[u]]
    <3>1. updateOldestActiveGeneration(z, oldestOf(ring, G, zoneGeneration[z]))
      BY Zenon, <2>3 DEF releaseFlushGenerationLock
    <3>2. /\ ring \in Seq(DataVIOs) /\ G \in [DataVIOs -> Nat]
          /\ \A k \in 1 .. Len(ring) :
               \/ G[ring[k]] = zoneGeneration[z]
               \/ \E j \in 1 .. Len(writeVIOs[z]) : G[ring[k]] = writeGeneration[writeVIOs[z][j]]
      <4>1. FInv /\ next \in {<<>>} \cup {<<u>> : u \in DataVIOs \ active}
        BY Zenon, <1>1, <2>3
      <4>2. /\ v \in DataVIOs /\ ring \in Seq(DataVIOs) /\ G \in [DataVIOs -> Nat]
            /\ \A k \in 1 .. Len(ring) :
                 \/ next # <<>> /\ ring[k] = next[1] /\ k = Len(ring) /\ G[ring[k]] = zoneGeneration[z]
                 \/ \E j \in 1 .. Len(writeVIOs[z]) :
                      /\ j # i /\ j = (IF k < i THEN k ELSE k + 1) /\ ring[k] = writeVIOs[z][j]
                      /\ G[ring[k]] = writeGeneration[writeVIOs[z][j]]
            /\ \A j \in 1 .. Len(writeVIOs[z]) : j # i =>
                 \E k \in 1 .. Len(ring) : ring[k] = writeVIOs[z][j]
            /\ next # <<>> => Len(ring) \in 1 .. Len(ring) /\ ring[Len(ring)] = next[1]
            /\ next # <<>> => next[1] \in DataVIOs /\ ~hasFlushGenerationLock[next[1]]
        BY ZenonT(30), <4>1, ReleasedRing
      <4> HIDE DEF ring, G
      <4> QED BY Zenon, <4>2
    <3> HIDE DEF ring, G
    <3>3. /\ oldestOf(ring, G, zoneGeneration[z]) \in Nat
          /\ oldestActiveGeneration[z] <= oldestOf(ring, G, zoneGeneration[z])
      BY Zenon, <1>1, <3>2, OldestAdvances
    <3> QED BY ZenonT(30), <2>2, <3>1, <3>3
  <2>4. CASE IncrementGeneration
    <3> DEFINE z      == logicalZoneToNotify
               oldest == oldestOf(writeVIOs[z], writeGeneration, zoneGeneration[z] + 1)
    <3>1. z \in Zones /\ updateOldestActiveGeneration(z, oldest)
      BY Zenon, <1>1, <2>4 DEF IncrementGeneration, FInv, FlushTypeOK
    <3>2. oldest \in Nat /\ oldestActiveGeneration[z] <= oldest
      <4>1. CASE writeVIOs[z] = <<>>
        BY <1>1, <2>0, <3>1, <4>1 DEF FInv, Oldest, oldestOf
      <4>2. CASE writeVIOs[z] # <<>>
        BY <1>1, <2>0, <3>1, <4>2 DEF FInv, Oldest, oldestOf
      <4> QED BY Zenon, <4>1, <4>2
    <3> HIDE DEF z, oldest
    <3> QED BY Zenon, <2>2, <3>1, <3>2
  <2>5. \/ UNCHANGED oldestLockedGeneration
        \/ IncrementGeneration
        \/ \E z \in Zones, next \in {<<>>} \cup {<<u>> : u \in DataVIOs \ active} :
             \E i \in 1 .. Len(writeVIOs[z]) : releaseFlushGenerationLock(z, i, next)
    <3>1. CASE UNCHANGED flushVars \/ AcknowledgeFlush \/ (\E f \in Flushes : flush(f))
      BY Zenon, <3>1 DEF flushVars, zones, AcknowledgeFlush, flush
    <3>2. CASE FlusherNext
      BY Zenon, <3>2 DEF FlusherNext, FlushPackerCallback, FinishNotification, LoadOldestLockedGeneration,
                  ReturnFromCompleteFlushes, zones
    <3>3. CASE ZonesNext
      BY Zenon, <3>3 DEF ZonesNext, acquireFlushGenerationLock, AttemptGenerationCompleteNotification,
                  NotifyFlusher, DrainLogicalZone, ResumeLogicalZone, zones
    <3> QED BY Zenon, <1>1, <3>1, <3>2, <3>3 DEF FlushNext
  <2> QED BY Zenon, <2>1, <2>3, <2>4, <2>5
<1>2. FInv /\ [FlushNext]_flushVars => [\A z \in Zones : oldestLockedGeneration[z] <= oldestLockedGeneration'[z]]_flushVars
  BY Zenon, <1>1
<1> QED
  BY <1>2, FlushInvariance, KernelUsesFlusher, PTL DEF FlushSpec, OldestNeverGoesBack
=============================================================================
