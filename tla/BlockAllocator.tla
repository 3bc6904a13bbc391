--------------------------- MODULE BlockAllocator ---------------------------
(***************************************************************************)
(* The block allocator of one physical zone (vdo/base/blockAllocator.c):   *)
(* its slabs in a priority table (priorityTable.c), the slab it allocates  *)
(* from, the scrubber which recovers slabs (slabScrubber.c), the drain and *)
(* the resumption of the allocator and the growth of the depot             *)
(* (slabDepot.c).  The record a is the zone's state; each function is an   *)
(* operator from a to a.  What happens inside a slab is in module Slab.    *)
(***************************************************************************)
EXTENDS AdminState, Sequences, FiniteSets, FiniteSetsExt, SequencesExt, Functions

CONSTANTS SlabBlocks,     \* the data blocks of a slab
          Depots,         \* the depots loaded: [slabs, loadType, grows, faults]
          MaxSlabs,       \* the slabs of a depot which has grown
          MaxProvisional, \* blocks allocated and not yet referenced: data VIOs
          MaxWaiters,     \* data VIOs which wait for a clean slab
          MaxChanges,     \* allocations and releases
          MaxDrains       \* suspensions

VARIABLES a, depot

vars == <<a, depot>>

Blocks == 0 .. SlabBlocks - 1
none == -1

assertThat(z, condition, what) == IF condition THEN z ELSE [z EXCEPT !.asserts = @ \union {what}]

logBaseTwo(n) == CHOOSE k \in 0 .. n : 2 ^ k <= n /\ n < 2 ^ (k + 1)

freeBlocks(slab) == Cardinality({b \in Blocks : slab.block[b] = "free"})

MaxPriority == 2 + logBaseTwo(SlabBlocks)
unopenedSlabPriority == 1 + logBaseTwo((SlabBlocks * 3) \div 4)

(* A full slab has the lowest priority, and one which was never opened is  *)
(* opened only after those which are less than three quarters full.        *)
calculateSlabPriority(slab) ==
  LET free == freeBlocks(slab)
      priority == 1 + logBaseTwo(free)
  IN  CASE free = 0 -> 0
        [] free > 0 /\ slab.blank -> unopenedSlabPriority
        [] OTHER -> IF priority < unopenedSlabPriority THEN priority ELSE priority + 1

-----------------------------------------------------------------------------
(* The priority table: a queue of slabs per priority and a vector with a   *)
(* bit for each queue which is not empty.  A slab is on one ring at most,  *)
(* of the table or of the scrubber, and ring nodes are taken off a ring    *)
(* without the table's knowledge.                                          *)
onRing(z, s) ==
  s \in Range(z.high) \union Range(z.low) \union UNION {Range(z.bucket[p]) : p \in DOMAIN z.bucket}

without(ring, s) == SelectSeq(ring, LAMBDA t : t # s)

unspliceRingNode(z, s) ==
  [z EXCEPT !.high = without(@, s), !.low = without(@, s),
            !.bucket = [p \in DOMAIN @ |-> without(@[p], s)]]

priorityTableEnqueue(z, p, s) ==
  [unspliceRingNode(z, s) EXCEPT !.bucket[p] = Append(@, s), !.searchVector = @ \union {p}]

(* The slab of the highest bucket whose bit is set, none if there is none. *)
topBucket(z) == CHOOSE p \in z.searchVector : \A q \in z.searchVector : q <= p
emptied(z, p) == IF z.bucket[p] = <<>> THEN [z EXCEPT !.searchVector = @ \ {p}] ELSE z

priorityTableDequeue(z) ==
  IF z.searchVector = {} THEN [slab |-> none, a |-> z]
  ELSE LET p == topBucket(z)
       IN  IF z.bucket[p] = <<>> THEN [slab |-> none, a |-> assertThat(z, FALSE, "bucket is empty")]
           ELSE [slab |-> Head(z.bucket[p]), a |-> emptied([z EXCEPT !.bucket[p] = Tail(@)], p)]

priorityTableRemove(z, s) ==
  FoldSet(LAMBDA p, y : IF s \in Range(z.bucket[p]) THEN emptied(y, p) ELSE y,
          unspliceRingNode(z, s), DOMAIN z.bucket)

prioritizeSlab(z, s) ==
  LET priority == calculateSlabPriority(z.slab[s])
      checked == assertThat(z, ~onRing(z, s), "slab is on a ring when prioritizing")
  IN  priorityTableEnqueue([checked EXCEPT !.slab[s].priority = priority], priority, s)

isUnrecoveredSlab(slab) == slab.status # "rebuilt"

-----------------------------------------------------------------------------
(* The scrubber's queues.                                                  *)
hasSlabsToScrub(z) == z.high # <<>> \/ z.low # <<>>
getNextSlab(z) == IF z.high # <<>> THEN Head(z.high) ELSE Head(z.low)

registerSlabForScrubbing(z, s, highPriority) ==
  LET checked == assertThat(z, isUnrecoveredSlab(z.slab[s]), "slab to be scrubbed is recovered")
      queued == [unspliceRingNode(checked, s) EXCEPT
                   !.slab[s].wasQueuedForScrubbing = TRUE,
                   !.toScrub = IF z.slab[s].wasQueuedForScrubbing THEN @ ELSE @ + 1]
  IN  CASE z.slab[s].status # "requiresScrubbing" -> checked
        [] z.slab[s].status = "requiresScrubbing" /\ highPriority ->
             [queued EXCEPT !.slab[s].status = "highPriority", !.high = Append(@, s)]
        [] OTHER -> [queued EXCEPT !.low = Append(@, s)]

(* Mutant: a slab which resumes is counted again.                          *)
queueSlabAgain(z, s) ==
  IF isUnrecoveredSlab(z.slab[s]) THEN registerSlabForScrubbing(z, s, FALSE)
  ELSE prioritizeSlab([z EXCEPT !.allocated = @ - freeBlocks(z.slab[s])], s)

queueSlab(z, s) ==
  LET checked == assertThat(z, ~onRing(z, s), "requeued slab is on a ring")
  IN  IF isUnrecoveredSlab(z.slab[s]) THEN registerSlabForScrubbing(checked, s, FALSE)
      ELSE prioritizeSlab([checked EXCEPT !.allocated = IF isResuming(z.slab[s].admin) THEN @
                                                        ELSE @ - freeBlocks(z.slab[s])], s)

(* A block was freed (+1) or allocated (-1).                               *)
adjustFreeBlockCount(z, s, increment) ==
  LET counted == [z EXCEPT !.allocated = IF increment THEN @ - 1 ELSE @ + 1]
  IN  IF s = z.open \/ z.slab[s].priority = calculateSlabPriority(z.slab[s]) THEN counted
      ELSE prioritizeSlab(priorityTableRemove(counted, s), s)

-----------------------------------------------------------------------------
(* Allocation.  The search goes from the slab's cursor to its end, and     *)
(* starts over the next time.                                              *)
allocateSlabBlock(z, s) ==
  LET found == {b \in Blocks : b >= z.slab[s].cursor /\ z.slab[s].block[b] = "free"}
      b == CHOOSE x \in found : \A y \in found : x <= y
  IN  IF found = {} THEN [ok |-> FALSE, a |-> [z EXCEPT !.slab[s].cursor = 0]]
      ELSE [ok |-> TRUE,
            a |-> adjustFreeBlockCount([z EXCEPT !.slab[s].block[b] = "provisional", !.slab[s].cursor = b + 1],
                                       s, FALSE)]

openNextSlab(z) ==
  LET next == priorityTableDequeue(z)
  IN  [next.a EXCEPT !.open = next.slab]

allocateBlock(z) ==
  LET first == IF z.open = none THEN [ok |-> FALSE, a |-> z] ELSE allocateSlabBlock(z, z.open)
      closed == IF z.open = none THEN z ELSE prioritizeSlab(first.a, z.open)
      opened == openNextSlab(closed)
  IN  IF first.ok THEN first
      ELSE IF opened.open = none THEN [ok |-> FALSE, a |-> opened] ELSE allocateSlabBlock(opened, opened.open)

-----------------------------------------------------------------------------
(* The scrubber at work.  Whoever waits for a clean slab is woken whenever *)
(* a slab has been scrubbed or scrubbing stops.                            *)
notifyAllWaiters(z) == [z EXCEPT !.waiters = 0]

(* finishDraining() of the scrubber's own state, if somebody stopped it.   *)
scrubberStopped(z) == isDraining(z.scrubber)
stopped(z) == [z EXCEPT !.scrubber = IF isDraining(@) THEN endOperation(@) ELSE adminState("suspended")]

finishScrubbing(z) == notifyAllWaiters(stopped([z EXCEPT !.scrubbed = z.scrubFor, !.scrubFor = "nobody"]))

scrubNextSlab(z) ==
  LET woken == notifyAllWaiters(z)
      slab == getNextSlab(z)
  IN  CASE z.readOnly -> finishScrubbing(woken)
        [] ~z.readOnly /\ (~hasSlabsToScrub(z) \/ (z.highPriorityOnly /\ z.high = <<>>)) ->
             finishScrubbing([woken EXCEPT !.highPriorityOnly = FALSE])
        [] ~z.readOnly /\ hasSlabsToScrub(z) /\ ~(z.highPriorityOnly /\ z.high = <<>>) ->
             IF scrubberStopped(z) THEN stopped(woken)
             ELSE [unspliceRingNode(woken, slab) EXCEPT !.scrubbing = slab, !.slab[slab].status = "rebuilding"]

scrubSlabs(z, parent) ==
  LET begun == [z EXCEPT !.scrubber = resumeIfQuiescent(@), !.scrubFor = parent]
  IN  IF hasSlabsToScrub(begun) THEN scrubNextSlab(begun) ELSE finishScrubbing(begun)

scrubHighPrioritySlabs(z, scrubAtLeastOne, parent) ==
  LET one == IF scrubAtLeastOne /\ z.high = <<>> /\ hasSlabsToScrub(z)
             THEN registerSlabForScrubbing(z, getNextSlab(z), TRUE) ELSE z
  IN  scrubSlabs([one EXCEPT !.highPriorityOnly = TRUE], parent)

(* slabScrubbed(), finishScrubbingSlab() and abortScrubbing()              *)
slabScrubbed(z) ==
  LET s == z.scrubbing
  IN  scrubNextSlab([queueSlab([z EXCEPT !.slab[s].status = "rebuilt"], s)
                       EXCEPT !.toScrub = @ - 1, !.scrubbing = none])

abortScrubbing(z) == scrubNextSlab([z EXCEPT !.readOnly = TRUE, !.scrubbing = none])

stopScrubbing(z) ==
  IF isQuiescent(z.scrubber) THEN z
  ELSE [z EXCEPT !.scrubber = started(begin(@, "suspending", "allocator"))]

resumeScrubbing(z) ==
  IF hasSlabsToScrub(z) THEN scrubNextSlab([z EXCEPT !.scrubber = resumeIfQuiescent(@)]) ELSE z

-----------------------------------------------------------------------------
(* Loading: the slabs which need no scrubbing are queued for allocation,   *)
(* the clean and then the emptiest ones first.  A slab is loaded with the  *)
(* summary's word on it: clean, load (mustLoadRefCounts()) and whether its *)
(* journal is long (requiresScrubbing()).                                  *)
compareSlabStatuses(z, s, t) ==
  LET u == z.slab[s]
      v == z.slab[t]
  IN  CASE u.clean # v.clean -> u.clean
        [] u.clean = v.clean /\ freeBlocks(u) # freeBlocks(v) -> freeBlocks(u) > freeBlocks(v)
        [] OTHER -> s < t

prepareSlab(loadType, z, s) ==
  LET slab == z.slab[s]
  IN  IF loadType = "rebuild" \/ (~slab.load /\ slab.clean) THEN queueSlab(z, s)
      ELSE registerSlabForScrubbing([z EXCEPT !.slab[s].status = "requiresScrubbing"], s,
                                    (slab.clean /\ loadType = "normal") \/ slab.long)

prepareSlabsForAllocation(z, loadType) ==
  LET order == SortSeq([i \in 1 .. Len(z.slab) |-> i], LAMBDA s, t : compareSlabStatuses(z, s, t))
  IN  FoldLeft(LAMBDA y, s : prepareSlab(loadType, y, s),
               [z EXCEPT !.allocated = Len(z.slab) * SlabBlocks], order)

makeSlab(settings) ==
  settings @@ [priority |-> 0, cursor |-> 0, status |-> "rebuilt", wasQueuedForScrubbing |-> FALSE,
               admin |-> adminState("normal")]

makeBlockAllocator(slabs) ==
  [slab |-> [s \in DOMAIN slabs |-> makeSlab(slabs[s])],
   bucket |-> [p \in 0 .. MaxPriority |-> <<>>], searchVector |-> {}, open |-> none, allocated |-> 0,
   high |-> <<>>, low |-> <<>>, highPriorityOnly |-> FALSE, scrubbing |-> none, toScrub |-> 0,
   scrubber |-> adminState("suspended"), scrubFor |-> "nobody", scrubbed |-> "nobody",
   waiters |-> 0, readOnly |-> FALSE, asserts |-> {}]

AllocatorInit ==
  \E d \in Depots :
    /\ a = makeBlockAllocator(d.slabs)
    /\ depot = [settings |-> d, phase |-> "loaded", changes |-> 0, drains |-> 0, returned |-> FALSE, forgotten |-> {}]

run(new) == a' = new
goTo(phase) == depot' = [depot EXCEPT !.phase = phase]

(* prepareAllocatorToAllocate(), then scrubAllUnrecoveredSlabsInZone() as  *)
(* soon as the load may go on.                                             *)
Prepare ==
  /\ depot.phase = "loaded"
  /\ LET prepared == prepareSlabsForAllocation(a, depot.settings.loadType)
     IN  run(scrubHighPrioritySlabs(prepared, prepared.searchVector = {}, "prepare"))
  /\ goTo("preparing")

ScrubAllUnrecoveredSlabs ==
  /\ depot.phase = "preparing" /\ a.scrubbed = "prepare" /\ ~a.readOnly
  /\ run(scrubSlabs(a, "all"))
  /\ goTo("online")

EndScrubbing ==
  /\ a.scrubbing # none
  /\ run(IF a.readOnly THEN abortScrubbing(a) ELSE slabScrubbed(a))
  /\ UNCHANGED depot

FailScrubbing ==
  /\ a.scrubbing # none /\ depot.settings.faults
  /\ run(abortScrubbing(a))
  /\ UNCHANGED depot

-----------------------------------------------------------------------------
(* Data VIOs: one allocates a block or waits for a clean slab, then refers *)
(* to its block or gives it up, and references to blocks end.              *)
allOf(state) == {<<s, b>> \in (DOMAIN a.slab) \X Blocks : a.slab[s].block[b] = state /\ ~isUnrecoveredSlab(a.slab[s])}
change == depot' = [depot EXCEPT !.changes = @ + 1]

enqueueForCleanSlab(z) ==
  IF z.readOnly \/ isQuiescent(z.scrubber) THEN z ELSE [z EXCEPT !.waiters = @ + 1]

Allocate ==
  /\ depot.phase = "online" /\ depot.changes < MaxChanges
  /\ Cardinality(allOf("provisional")) < MaxProvisional /\ a.waiters < MaxWaiters
  /\ LET allocation == allocateBlock(a)
         returned == a.open # none /\ allocation.a.open # a.open /\ a.slab[a.open].blank
     IN  /\ run(IF allocation.ok THEN allocation.a ELSE enqueueForCleanSlab(allocation.a))
         /\ depot' = [depot EXCEPT !.changes = @ + 1, !.returned = @ \/ returned]

Reference ==
  /\ \E <<s, b>> \in allOf("provisional") :
       run([a EXCEPT !.slab[s].block[b] = "referenced", !.slab[s].blank = FALSE])
  /\ UNCHANGED depot

releaseBlock(s, b) == run(adjustFreeBlockCount([a EXCEPT !.slab[s].block[b] = "free"], s, TRUE))

Release ==
  /\ \E <<s, b>> \in allOf("provisional") : releaseBlock(s, b)
  /\ UNCHANGED depot

Dereference ==
  /\ depot.phase = "online" /\ depot.changes < MaxChanges
  /\ \E <<s, b>> \in allOf("referenced") : releaseBlock(s, b)
  /\ change

(* In a slab which is not recovered, an entry is only made in the journal, *)
(* which makes it urgent to scrub the slab when the journal is long.       *)
DereferenceUnrecovered ==
  /\ depot.phase = "online" /\ depot.changes < MaxChanges
  /\ \E s \in DOMAIN a.slab, b \in Blocks, long \in depot.settings.long :
       /\ a.slab[s].status \in {"requiresScrubbing", "highPriority"} /\ a.slab[s].block[b] = "referenced"
       /\ LET made == [a EXCEPT !.slab[s].block[b] = "free"]
          IN  run(IF long THEN registerSlabForScrubbing(made, s, TRUE) ELSE made)
  /\ change

-----------------------------------------------------------------------------
(* The allocator is drained and resumed: the scrubber stops first, and is  *)
(* resumed last.                                                           *)
Drain ==
  /\ depot.phase = "online" /\ depot.drains < MaxDrains /\ allOf("provisional") = {} /\ a.waiters = 0
  /\ run(stopScrubbing(a))
  /\ depot' = [depot EXCEPT !.phase = "stopping", !.drains = @ + 1]

DrainSlabs ==
  /\ depot.phase = "stopping" /\ isQuiescent(a.scrubber)
  /\ LET offRings == FoldSet(LAMBDA s, y : unspliceRingNode(y, s), [a EXCEPT !.open = none], DOMAIN a.slab)
     IN  run([offRings EXCEPT !.slab = [s \in DOMAIN @ |-> [@[s] EXCEPT !.admin = started(begin(@, "suspending", "allocator"))]]])
  /\ depot' = [depot EXCEPT !.phase = "draining",
                            !.forgotten = @ \union {s \in DOMAIN a.slab : a.slab[s].status = "highPriority"}]

SlabDrained ==
  /\ depot.phase = "draining"
  /\ \E s \in DOMAIN a.slab : isDraining(a.slab[s].admin) /\ run([a EXCEPT !.slab[s].admin = endOperation(@)])
  /\ UNCHANGED depot

Drained ==
  /\ depot.phase = "draining" /\ \A s \in DOMAIN a.slab : ~isDraining(a.slab[s].admin)
  /\ goTo("suspended")
  /\ UNCHANGED a

(* useNewSlabs(): a new slab is in use once the allocator is resumed.      *)
Grow ==
  /\ depot.phase = "suspended" /\ depot.settings.grows /\ Len(a.slab) < MaxSlabs
  /\ LET new == [makeSlab([block |-> [b \in Blocks |-> "free"], blank |-> TRUE, clean |-> TRUE, load |-> FALSE,
                           long |-> FALSE]) EXCEPT !.admin = adminState("new")]
     IN  run([a EXCEPT !.slab = Append(@, new)])
  /\ UNCHANGED depot

resumeSlab(z, s) ==
  LET resuming == [unspliceRingNode(z, s) EXCEPT !.slab[s].admin = begin(@, "resuming", "allocator")]
  IN  [queueSlab(resuming, s) EXCEPT !.slab[s].admin = started(endOperation(@))]

Resume ==
  /\ depot.phase = "suspended" /\ ~a.readOnly
  /\ run(resumeScrubbing(FoldLeft(resumeSlab, [a EXCEPT !.open = none], [s \in 1 .. Len(a.slab) |-> s])))
  /\ goTo("online")

Next ==
  \/ Prepare \/ ScrubAllUnrecoveredSlabs \/ EndScrubbing \/ FailScrubbing
  \/ Allocate \/ Reference \/ Release \/ Dereference \/ DereferenceUnrecovered
  \/ Drain \/ DrainSlabs \/ SlabDrained \/ Drained \/ Grow \/ Resume

Spec == AllocatorInit /\ [][Next]_vars

-----------------------------------------------------------------------------
(* The type of the allocator's state (struct blockAllocator and the        *)
(* scrubber's counters).                                                   *)
TypeOK ==
  /\ a.searchVector \subseteq 0 .. MaxPriority
  /\ a.open \in DOMAIN a.slab \union {none}
  /\ a.toScrub \in 0 .. Len(a.slab)

(* No ASSERT of blockAllocator.c, priorityTable.c and slabScrubber.c       *)
(* fails, and no slab is dequeued from an empty bucket unless the bit of a *)
(* slab which was returned blank has stayed set.                           *)
NoAssertionFails == a.asserts \subseteq (IF depot.returned THEN {"bucket is empty"} ELSE {})

places(s) ==
  (IF a.open = s THEN {"open"} ELSE {}) \union (IF a.scrubbing = s THEN {"scrubbing"} ELSE {})
    \union (IF s \in Range(a.high) THEN {"highPriority"} ELSE {})
    \union (IF s \in Range(a.low) THEN {"requiresScrubbing"} ELSE {})
    \union {p \in DOMAIN a.bucket : s \in Range(a.bucket[p])}

(* Every slab is where whoever needs it looks for it, and only there: open,*)
(* in the bucket of its priority, being scrubbed or on the scrubber's list *)
(* of its status; and the search vector has the bits of the buckets which  *)
(* hold slabs.  Two cases are left out in which the code of applyToSlabs() *)
(* falls short of this: a slab of high priority is on no list after a      *)
(* suspension (forgotten), and a bit may stay set if a slab was returned   *)
(* to the table while its journal was blank (returned).                    *)
EverySlabIsInItsPlace ==
  depot.phase = "online" /\ ~a.readOnly =>
    /\ {p \in DOMAIN a.bucket : a.bucket[p] # <<>>} \subseteq a.searchVector
    /\ depot.returned \/ \A p \in a.searchVector : a.bucket[p] # <<>>
    /\ \A s \in DOMAIN a.slab \ depot.forgotten :
         places(s) = IF a.open = s THEN {"open"} ELSE IF a.scrubbing = s THEN {"scrubbing"}
                     ELSE IF isUnrecoveredSlab(a.slab[s]) THEN {a.slab[s].status} ELSE {a.slab[s].priority}

(* The allocator's count of allocated blocks is the sum over its slabs,    *)
(* with slabs which are not recovered counted as full (queueSlab(),        *)
(* adjustFreeBlockCount()).                                                *)
AllocatedBlocksAreCounted ==
  depot.phase # "loaded" =>
    a.allocated = MapThenSumSet(LAMBDA s : IF isUnrecoveredSlab(a.slab[s]) THEN SlabBlocks
                                           ELSE SlabBlocks - freeBlocks(a.slab[s]), DOMAIN a.slab)

(* While a slab is not recovered and the scrubber is not told to stop, one *)
(* is being scrubbed; and one is whenever somebody waits for a clean slab, *)
(* so that whoever waits is woken (enqueueForCleanSlab(), scrubNextSlab()).*)
ScrubbingGoesOn ==
  /\ depot.phase = "online" /\ ~a.readOnly
       /\ (\E s \in DOMAIN a.slab \ depot.forgotten : isUnrecoveredSlab(a.slab[s])) => a.scrubbing # none
  /\ a.waiters > 0 => a.scrubbing # none
=============================================================================
