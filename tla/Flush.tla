-------------------------------- MODULE Flush --------------------------------
(***************************************************************************)
(* Flushes: vdo/base/flush.c, the flush generations of                     *)
(* vdo/base/logicalZone.c and the kernel's flush bios                      *)
(* (vdo/kernel/kvdoFlush.c).  A flush closes a generation of writes in     *)
(* each logical zone, one zone thread after another, and is acknowledged   *)
(* when no zone has writes of that generation or of an older one.  The     *)
(* flusher learns of this from an atomic copy of each zone's oldest        *)
(* generation.                                                             *)
(***************************************************************************)
EXTENDS Integers, Sequences, FiniteSets

CONSTANTS
  DataVIOs,          \* the requests in progress at once (vdo/base/dataVIO.h)
  Flushes,           \* the flush requests
  LastZone,          \* the logical zones are 0 .. LastZone
  Bios,
  NoFlush,           \* NULL
  MaxGeneration      \* no bio comes which might take the flush generation past this

ASSUME FlushAssumption == LastZone \in Nat

Zones == 0 .. LastZone
Generations == Nat

VARIABLES
  (* The flusher, whose thread is also that of the packer.                 *)
  flushGeneration, firstUnacknowledgedGeneration,
  notifiers, pendingFlushes,           \* queues of flushes
  generation,                          \* of each flush
  notification,      \* where the flusher's completion is: "none", "zone", "packer" or "finish"
  logicalZoneToNotify,
  (* completeFlushes() on the flusher thread.                              *)
  step,              \* "none", "load" or "acknowledge"
  caller,            \* the zone which called it; -1 is finishNotification()
  nextZone,          \* the next zone whose generation is to be loaded
  oldestSeen,        \* the oldest generation loaded so far, -1 for UINT64_MAX
  (* The logical zones.                                                    *)
  zoneGeneration, oldestActiveGeneration, oldestLockedGeneration,
  notificationGeneration, notifying,
  zoneCompletion,    \* where each zone's completion is: "none", "flusher" or "zone"
  writeVIOs,         \* the ring of active writes, oldest first
  zoneState,         \* "normal", "draining" or "suspended"
  (* The writes.                                                           *)
  writeGeneration, hasFlushGenerationLock,
  waitsFor           \* history: the writes in progress when each flush was made

queues   == <<flushGeneration, firstUnacknowledgedGeneration, notifiers, pendingFlushes, generation>>
notified == <<notification, logicalZoneToNotify>>
loop     == <<step, caller, nextZone, oldestSeen>>
zones    == <<zoneGeneration, oldestActiveGeneration, oldestLockedGeneration,
              notificationGeneration, notifying, zoneCompletion, zoneState>>
writes   == <<writeVIOs, writeGeneration, hasFlushGenerationLock>>
flushVars == <<queues, notified, loop, zones, writes, waitsFor>>

FlushInit ==
  /\ flushGeneration = 0 /\ firstUnacknowledgedGeneration = 0
  /\ notifiers = <<>> /\ pendingFlushes = <<>>
  /\ generation = [f \in Flushes |-> 0]
  /\ notification = "none" /\ logicalZoneToNotify = 0
  /\ step = "none" /\ caller = -1 /\ nextZone = 0 /\ oldestSeen = -1
  /\ zoneGeneration = [z \in Zones |-> 0]
  /\ oldestActiveGeneration = [z \in Zones |-> 0]
  /\ oldestLockedGeneration = [z \in Zones |-> 0]
  /\ notificationGeneration = [z \in Zones |-> 0]
  /\ notifying = [z \in Zones |-> FALSE]
  /\ zoneCompletion = [z \in Zones |-> "none"]
  /\ writeVIOs = [z \in Zones |-> <<>>]
  /\ zoneState = [z \in Zones |-> "normal"]
  /\ writeGeneration = [v \in DataVIOs |-> 0]
  /\ hasFlushGenerationLock = [v \in DataVIOs |-> FALSE]
  /\ waitsFor = [f \in Flushes |-> {}]

(* Every component has its type; the ring of a zone holds writes.          *)
FlushTypeOK ==
  /\ flushGeneration \in Generations /\ firstUnacknowledgedGeneration \in Generations
  /\ notifiers \in Seq(Flushes) /\ pendingFlushes \in Seq(Flushes)
  /\ generation \in [Flushes -> Generations]
  /\ notification \in {"none", "zone", "packer", "finish"}
  /\ logicalZoneToNotify \in Zones /\ nextZone \in Zones
  /\ step \in {"none", "load", "acknowledge"}
  /\ caller \in Zones \cup {-1} /\ oldestSeen \in Generations \cup {-1}
  /\ zoneGeneration \in [Zones -> Generations]
  /\ oldestActiveGeneration \in [Zones -> Generations]
  /\ oldestLockedGeneration \in [Zones -> Generations]
  /\ notificationGeneration \in [Zones -> Generations]
  /\ notifying \in [Zones -> BOOLEAN]
  /\ zoneCompletion \in [Zones -> {"none", "flusher", "zone"}]
  /\ writeVIOs \in [Zones -> Seq(DataVIOs)]
  /\ zoneState \in [Zones -> {"normal", "draining", "suspended"}]
  /\ writeGeneration \in [DataVIOs -> Generations]
  /\ hasFlushGenerationLock \in [DataVIOs -> BOOLEAN]
  /\ waitsFor \in [Flushes -> SUBSET DataVIOs]

-----------------------------------------------------------------------------
(* The logical zone threads.                                               *)

active == {v \in DataVIOs : hasFlushGenerationLock[v]}

(* unspliceRingNode() of the i-th node.                                    *)
unsplice(ring, i) == [k \in 1 .. Len(ring) - 1 |-> IF k < i THEN ring[k] ELSE ring[k + 1]]

(* What updateOldestActiveGeneration() finds for a ring of writes.         *)
oldestOf(ring, generationOf, current) == IF ring = <<>> THEN current ELSE generationOf[Head(ring)]

updateOldestActiveGeneration(z, oldest) ==
  /\ oldestActiveGeneration' = [oldestActiveGeneration EXCEPT ![z] = oldest]
  /\ oldestLockedGeneration' = IF oldest = oldestActiveGeneration[z] THEN oldestLockedGeneration
                               ELSE [oldestLockedGeneration EXCEPT ![z] = oldest]

acquireFlushGenerationLock(v, z) ==
  /\ ~hasFlushGenerationLock[v] /\ zoneState[z] = "normal"
  /\ writeGeneration' = [writeGeneration EXCEPT ![v] = zoneGeneration[z]]
  /\ writeVIOs' = [writeVIOs EXCEPT ![z] = Append(@, v)]
  /\ hasFlushGenerationLock' = [hasFlushGenerationLock EXCEPT ![v] = TRUE]
  /\ UNCHANGED <<queues, notified, loop, zones, waitsFor>>

(* checkForDrainComplete(), when nothing else is left to be waited for.    *)
drained(z, ring) == IF zoneState[z] = "draining" /\ ring = <<>> THEN "suspended" ELSE zoneState[z]

(* attemptGenerationCompleteNotification(), given the zone's oldest        *)
(* generation and its ring of writes.                                      *)
attemptNotification(z, oldest, ring) ==
  \/ /\ oldest <= notificationGeneration[z]
     /\ notifying' = [notifying EXCEPT ![z] = FALSE]
     /\ zoneCompletion' = [zoneCompletion EXCEPT ![z] = "none"]
     /\ zoneState' = [zoneState EXCEPT ![z] = drained(z, ring)]
     /\ UNCHANGED notificationGeneration
  \/ /\ oldest > notificationGeneration[z]
     /\ notifying' = [notifying EXCEPT ![z] = TRUE]
     /\ notificationGeneration' = [notificationGeneration EXCEPT ![z] = oldest]
     /\ zoneCompletion' = [zoneCompletion EXCEPT ![z] = "flusher"]
     /\ UNCHANGED zoneState

(* releaseLogicalLock(): the write at position i of the ring of zone z     *)
(* ends.  Before its own lock is released, the write it hands its logical  *)
(* block to, if any, joins the current generation: next is that write, in  *)
(* a sequence, or the empty one.                                           *)
releaseFlushGenerationLock(z, i, next) ==
  LET v            == writeVIOs[z][i]
      ring         == unsplice(writeVIOs[z] \o next, i)
      isNext(u)    == next # <<>> /\ u = next[1]
      generationOf == [u \in DataVIOs |-> IF isNext(u) THEN zoneGeneration[z]
                                          ELSE IF u = v THEN 0 ELSE writeGeneration[u]]
      oldest       == oldestOf(ring, generationOf, zoneGeneration[z])
  IN  /\ writeVIOs' = [writeVIOs EXCEPT ![z] = ring]
      /\ writeGeneration' = generationOf
      /\ hasFlushGenerationLock' = [u \in DataVIOs |-> IF u = v THEN FALSE
                                                        ELSE hasFlushGenerationLock[u] \/ isNext(u)]
      /\ updateOldestActiveGeneration(z, oldest)
      /\ IF oldest = oldestActiveGeneration[z] \/ notifying[z]
         THEN UNCHANGED <<notificationGeneration, notifying, zoneCompletion, zoneState>>
         ELSE attemptNotification(z, oldest, ring)
      /\ waitsFor' = [f \in Flushes |-> waitsFor[f] \ {v}]
      /\ UNCHANGED <<queues, notified, loop, zoneGeneration>>

(* The notification of the flusher is over: is there another to make?      *)
AttemptGenerationCompleteNotification(z) ==
  /\ zoneCompletion[z] = "zone"
  /\ attemptNotification(z, oldestActiveGeneration[z], writeVIOs[z])
  /\ UNCHANGED <<queues, notified, loop, zoneGeneration, oldestActiveGeneration,
                 oldestLockedGeneration, writes, waitsFor>>

(* A flush has come to the zone.                                           *)
IncrementGeneration ==
  LET z == logicalZoneToNotify
  IN  /\ notification = "zone"
      /\ zoneGeneration' = [zoneGeneration EXCEPT ![z] = @ + 1]
      /\ updateOldestActiveGeneration(
           z, oldestOf(writeVIOs[z], writeGeneration, zoneGeneration[z] + 1))
      /\ IF z = LastZone THEN notification' = "packer" /\ logicalZoneToNotify' = 0
         ELSE logicalZoneToNotify' = z + 1 /\ UNCHANGED notification
      /\ UNCHANGED <<queues, loop, notificationGeneration, notifying,
                     zoneCompletion, zoneState, writes, waitsFor>>

(* The logical zones are drained when the kernel has no request in         *)
(* progress.                                                               *)
DrainLogicalZone(z) ==
  /\ zoneState[z] = "normal" /\ active = {}
  /\ zoneState' = [zoneState EXCEPT ![z] = IF notifying[z] THEN "draining" ELSE "suspended"]
  /\ UNCHANGED <<queues, notified, loop, zoneGeneration, oldestActiveGeneration,
                 oldestLockedGeneration, notificationGeneration, notifying, zoneCompletion,
                 writes, waitsFor>>

ResumeLogicalZone(z) ==
  /\ zoneState[z] = "suspended"
  /\ zoneState' = [zoneState EXCEPT ![z] = "normal"]
  /\ UNCHANGED <<queues, notified, loop, zoneGeneration, oldestActiveGeneration,
                 oldestLockedGeneration, notificationGeneration, notifying, zoneCompletion,
                 writes, waitsFor>>

-----------------------------------------------------------------------------
(* The flusher thread, which does nothing else during completeFlushes().   *)

notifyFlush == notification' = "zone" /\ logicalZoneToNotify' = 0

flush(f) ==
  /\ step = "none"
  /\ generation' = [generation EXCEPT ![f] = flushGeneration]
  /\ flushGeneration' = flushGeneration + 1
  /\ notifiers' = Append(notifiers, f)
  /\ IF notifiers = <<>> THEN notifyFlush ELSE UNCHANGED notified
  /\ waitsFor' = [waitsFor EXCEPT ![f] = active]
  /\ UNCHANGED <<firstUnacknowledgedGeneration, pendingFlushes, loop, zones, writes>>

(* flushPackerCallback(); the flush of the packer is the packer's.         *)
FlushPackerCallback ==
  /\ step = "none" /\ notification = "packer"
  /\ notification' = "finish"
  /\ UNCHANGED <<queues, logicalZoneToNotify, loop, zones, writes, waitsFor>>

(* completeFlushes() is called.                                            *)
startLoop(c) == step' = "load" /\ caller' = c /\ nextZone' = 0 /\ oldestSeen' = -1

FinishNotification ==
  /\ step = "none" /\ notification = "finish"
  /\ notifiers' = Tail(notifiers)
  /\ pendingFlushes' = Append(pendingFlushes, Head(notifiers))
  /\ notification' = "none"
  /\ startLoop(-1)
  /\ UNCHANGED <<flushGeneration, firstUnacknowledgedGeneration, generation,
                 logicalZoneToNotify, zones, writes, waitsFor>>

NotifyFlusher(z) ==
  /\ step = "none" /\ zoneCompletion[z] = "flusher"
  /\ startLoop(z)
  /\ UNCHANGED <<queues, notified, zones, writes, waitsFor>>

(* minSequenceNumber() of what was loaded so far and of the zone's.        *)
minSequenceNumber(a, b) == IF a = -1 \/ b < a THEN b ELSE a

LoadOldestLockedGeneration ==
  /\ step = "load"
  /\ oldestSeen' = minSequenceNumber(oldestSeen, oldestLockedGeneration[nextZone])
  /\ IF nextZone = LastZone THEN step' = "acknowledge" /\ UNCHANGED nextZone
     ELSE nextZone' = nextZone + 1 /\ UNCHANGED step
  /\ UNCHANGED <<queues, notified, caller, zones, writes, waitsFor>>

(* Mutant: a flush does not wait for the writes of its own generation.     *)
mayAcknowledge_own == pendingFlushes # <<>> /\ generation[Head(pendingFlushes)] <= oldestSeen

mayAcknowledge == pendingFlushes # <<>> /\ generation[Head(pendingFlushes)] < oldestSeen

AcknowledgeFlush ==
  /\ step = "acknowledge" /\ mayAcknowledge
  /\ pendingFlushes' = Tail(pendingFlushes)
  /\ firstUnacknowledgedGeneration' = firstUnacknowledgedGeneration + 1
  /\ UNCHANGED <<flushGeneration, notifiers, generation, notified, loop, zones, writes, waitsFor>>

(* The caller of completeFlushes() goes on.                                *)
ReturnFromCompleteFlushes ==
  /\ step = "acknowledge" /\ ~mayAcknowledge
  /\ step' = "none" /\ caller' = -1 /\ nextZone' = 0 /\ oldestSeen' = -1
  /\ IF caller = -1 /\ notifiers # <<>> THEN notifyFlush ELSE UNCHANGED notified
  /\ zoneCompletion' = IF caller = -1 THEN zoneCompletion ELSE [zoneCompletion EXCEPT ![caller] = "zone"]
  /\ UNCHANGED <<queues, zoneGeneration, oldestActiveGeneration,
                 oldestLockedGeneration, notificationGeneration, notifying, zoneState, writes, waitsFor>>

-----------------------------------------------------------------------------
(* The flusher and the zones by themselves: any write and any flush may    *)
(* come at any time, and a write may end at any time.                      *)

isRequested(f) == \/ \E i \in 1 .. Len(pendingFlushes) : pendingFlushes[i] = f
                  \/ \E i \in 1 .. Len(notifiers) : notifiers[i] = f

ZonesNext ==
  \/ \E v \in DataVIOs, z \in Zones : acquireFlushGenerationLock(v, z)
  \/ \E z \in Zones, next \in {<<>>} \cup {<<u>> : u \in DataVIOs \ active} :
       \E i \in 1 .. Len(writeVIOs[z]) : releaseFlushGenerationLock(z, i, next)
  \/ \E z \in Zones : \/ AttemptGenerationCompleteNotification(z) \/ NotifyFlusher(z)
                       \/ DrainLogicalZone(z) \/ ResumeLogicalZone(z)

FlusherNext ==
  \/ IncrementGeneration \/ FlushPackerCallback \/ FinishNotification
  \/ LoadOldestLockedGeneration \/ ReturnFromCompleteFlushes

FlushNext ==
  \/ ZonesNext \/ FlusherNext \/ AcknowledgeFlush
  \/ \E f \in Flushes : ~isRequested(f) /\ flush(f)

FlushSpec == FlushInit /\ [][FlushNext]_flushVars

-----------------------------------------------------------------------------
(* The kernel's side of a flush: a flush bio is given a KVDOFlush, which   *)
(* takes all the bios which wait for one.  If none can be allocated there  *)
(* is one spare, and if the spare is in use the bio waits for a flush to   *)
(* end.                                                                    *)

VARIABLES
  waitingFlushes,    \* the bios which have no KVDOFlush
  spareKVDOFlush,
  flushStep,         \* where each KVDOFlush is
  bios               \* the bios of each KVDOFlush

kernelVars == <<waitingFlushes, spareKVDOFlush, flushStep, bios>>

FlushSteps == {"unallocated", "spare", "launching", "queued", "flusher", "completing", "releasing"}

KernelInit ==
  /\ waitingFlushes = {}
  /\ spareKVDOFlush = CHOOSE f \in Flushes : TRUE
  /\ flushStep = [f \in Flushes |-> IF f = spareKVDOFlush THEN "spare" ELSE "unallocated"]
  /\ bios = [f \in Flushes |-> {}]

submitted == waitingFlushes \cup UNION {bios[f] : f \in Flushes}

(* initializeKVDOFlush() under the flush lock.                             *)
capture(f, waiting) ==
  /\ bios' = [bios EXCEPT ![f] = waiting]
  /\ waitingFlushes' = {}
  /\ flushStep' = [flushStep EXCEPT ![f] = "launching"]

(* The allocation of a KVDOFlush may fail.                                 *)
launchKVDOFlush(bio) ==
  /\ bio \notin submitted /\ flushGeneration + Cardinality(submitted) < MaxGeneration
  /\ \/ /\ \E f \in Flushes : flushStep[f] = "unallocated" /\ capture(f, waitingFlushes \cup {bio})
        /\ UNCHANGED spareKVDOFlush
     \/ /\ spareKVDOFlush # NoFlush
        /\ capture(spareKVDOFlush, waitingFlushes \cup {bio})
        /\ spareKVDOFlush' = NoFlush
     \/ /\ spareKVDOFlush = NoFlush
        /\ waitingFlushes' = waitingFlushes \cup {bio}
        /\ UNCHANGED <<spareKVDOFlush, flushStep, bios>>
  /\ UNCHANGED flushVars

moveFlush(f, from, to) == flushStep[f] = from /\ flushStep' = [flushStep EXCEPT ![f] = to]

enqueueKVDOFlush(f) ==
  /\ moveFlush(f, "launching", "queued")
  /\ UNCHANGED <<flushVars, waitingFlushes, spareKVDOFlush, bios>>

kvdoFlushWork(f) ==
  /\ moveFlush(f, "queued", "flusher")
  /\ flush(f)
  /\ UNCHANGED <<waitingFlushes, spareKVDOFlush, bios>>

(* completeFlush() of the layer, called by completeFlushes().              *)
kvdoCompleteFlush ==
  /\ AcknowledgeFlush
  /\ flushStep' = [flushStep EXCEPT ![Head(pendingFlushes)] = "completing"]
  /\ UNCHANGED <<waitingFlushes, spareKVDOFlush, bios>>

(* The bios are sent on to the storage.                                    *)
kvdoCompleteFlushWork(f) ==
  /\ moveFlush(f, "completing", "releasing")
  /\ bios' = [bios EXCEPT ![f] = {}]
  /\ UNCHANGED <<flushVars, waitingFlushes, spareKVDOFlush>>

releaseKVDOFlush(f) ==
  /\ flushStep[f] = "releasing"
  /\ \/ /\ waitingFlushes # {} /\ capture(f, waitingFlushes)
        /\ UNCHANGED spareKVDOFlush
     \/ /\ waitingFlushes = {} /\ spareKVDOFlush = NoFlush
        /\ spareKVDOFlush' = f
        /\ flushStep' = [flushStep EXCEPT ![f] = "spare"]
        /\ UNCHANGED <<waitingFlushes, bios>>
     \/ /\ waitingFlushes = {} /\ spareKVDOFlush # NoFlush
        /\ flushStep' = [flushStep EXCEPT ![f] = "unallocated"]
        /\ UNCHANGED <<waitingFlushes, spareKVDOFlush, bios>>
  /\ UNCHANGED flushVars

-----------------------------------------------------------------------------
(* Flush bios with writes which may begin and end at any time.             *)

KernelFlushNext ==
  \/ \E bio \in Bios : launchKVDOFlush(bio)
  \/ \E f \in Flushes : \/ enqueueKVDOFlush(f) \/ kvdoFlushWork(f) \/ kvdoCompleteFlushWork(f)
                        \/ releaseKVDOFlush(f)
  \/ kvdoCompleteFlush
  \/ (ZonesNext \/ FlusherNext) /\ UNCHANGED kernelVars

KernelFlushInit == FlushInit /\ KernelInit

KernelFlushSpec == KernelFlushInit /\ [][KernelFlushNext]_<<flushVars, kernelVars>>

-----------------------------------------------------------------------------
(* Properties.                                                             *)

Promise == INSTANCE FlushPromise WITH
  active <- active, requested <- pendingFlushes \o notifiers, waitsFor <- waitsFor

(* A flush is acknowledged only when every write which had a generation    *)
(* lock when flush() was called has released it, and flushes are           *)
(* acknowledged in order, although completeFlushes() reads the oldest      *)
(* generation of the zones at different times while their threads go on    *)
(* acquiring and releasing locks.                                          *)
KeepsPromise == Promise!PromiseSpec
=============================================================================
