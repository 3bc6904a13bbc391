--------------------------- MODULE ActionManager ---------------------------
(***************************************************************************)
(* Action managers (vdo/base/actionManager.c) and the two components which *)
(* own one: the slab depot and the block map.  A manager applies an action *)
(* to the zones of its owner one after the other, on each zone's thread,   *)
(* with a preamble before and a conclusion after on the initiator thread.  *)
(* It holds the action in progress and at most one more.  When idle it may *)
(* be told to look for a default action: the depot's tells the allocators  *)
(* to release the recovery journal's oldest block, the block map's tells   *)
(* its zones that the journal started a new era.                           *)
(*                                                                         *)
(* Parents are the completions of the commands, in the order in which they *)
(* are issued.  What an action does to a zone is abstracted to the zone's  *)
(* administrative state, the era or release request it last saw and the    *)
(* number of times it was told to grow.                                    *)
(***************************************************************************)
EXTENDS AdminState, FiniteSets

CONSTANTS Zones,        \* the zone count
          MaxCommands,  \* bound on the commands issued
          MaxRequests,  \* bound on the eras or release requests
          MaxFaults     \* bound on the preambles and zone actions which fail

VARIABLE am

ZoneNumbers == 0 .. Zones - 1
hasZones == Zones \in Nat \ {0}

noAction ==
  [inUse |-> FALSE, operation |-> "normal", preamble |-> "none", zoneAction |-> "none",
   conclusion |-> "none", parent |-> 0]

action(operation, before, each, after) ==
  [inUse |-> TRUE, operation |-> operation, preamble |-> before, zoneAction |-> each,
   conclusion |-> after, parent |-> 0]

loadSlabDepot == action("loading", "startDepotLoad", "other", "none")
prepareToAllocate == action("operating", "none", "other", "none")
scrubAllUnrecoveredSlabs == action("operating", "none", "other", "none")
useNewSlabs == action("suspendedOperation", "none", "grow", "finishRegistration")
drainSlabDepot == {action(o, "none", "drain", "none") : o \in {"recovering", "saving", "suspending"}}
resumeSlabDepot == action("resuming", "none", "resume", "none")
drainBlockMap == {action(o, "none", "drain", "none") : o \in {"recovering", "saving", "suspending"}}
resumeBlockMap == action("resuming", "none", "resume", "none")
growBlockMap == action("suspendedOperation", "growForest", "none", "none")
scheduleTailBlockCommit == action("operating", "prepareForTailBlockCommit", "see", "none")
scheduleEraAdvance == action("operating", "prepareForEraAdvance", "see", "none")

commandsOf(owner) ==
  IF owner = "depot"
  THEN {loadSlabDepot, prepareToAllocate, scrubAllUnrecoveredSlabs, useNewSlabs, resumeSlabDepot}
       \cup drainSlabDepot
  ELSE {resumeBlockMap, growBlockMap} \cup drainBlockMap

makeActionManager(owner) ==
  [owner |-> owner, state |-> adminState("normal"),
   actions |-> [i \in 0 .. 1 |-> noAction], current |-> 0, actingZone |-> 0,
   callback |-> "none", running |-> FALSE, result |-> "ok",
   \* the owner
   new |-> 0, active |-> 0, size |-> 0,
   zones |-> [z \in ZoneNumbers |-> [state |-> "normal", saw |-> 0, size |-> 0]],
   \* the parents and the faults so far; history: did the last request find the manager busy?
   parents |-> <<>>, faults |-> 0, foundBusy |-> FALSE, asserts |-> {}]

currentAction(m) == m.actions[m.current]
next(i) == 1 - i

setCompletionResult(m, parent, result) ==
  IF parent = 0 \/ m.parents[parent].result # "ok" THEN m
  ELSE [m EXCEPT !.parents[parent].result = result]

(* finishCompletion() of the parent.                                       *)
finishParent(m, parent) ==
  IF parent = 0 THEN m ELSE [m EXCEPT !.parents[parent].finished = @ + 1]

(* The preambles: the manager's completion is finished when they are done, *)
(* at once but for the load of the slab summary.                           *)
startDepotLoad(m) == [m EXCEPT !.running = TRUE]
prepareForTailBlockCommit(m) == [m EXCEPT !.active = m.new, !.running = FALSE]
prepareForEraAdvance(m) == [m EXCEPT !.active = m.new, !.running = FALSE]
growForest(m) == [m EXCEPT !.size = @ + 1, !.running = FALSE]
noPreamble(m) == [m EXCEPT !.running = FALSE]

preamble(m, name) ==
  CASE name = "startDepotLoad" -> startDepotLoad(m)
    [] name = "prepareForTailBlockCommit" -> prepareForTailBlockCommit(m)
    [] name = "prepareForEraAdvance" -> prepareForEraAdvance(m)
    [] name = "growForest" -> growForest(m)
    [] name = "none" -> noPreamble(m)

prepareForConclusion(m) == [m EXCEPT !.callback = "finishAction", !.result = "ok"]
prepareForNextZone(m) == [m EXCEPT !.callback = "applyToZone", !.result = "ok"]

finishRegistration(m) == [m EXCEPT !.size = @ + 1]
conclude(m, a) == IF a.conclusion = "finishRegistration" THEN finishRegistration(m) ELSE m

defaultActionOf(m) == IF m.owner = "depot" THEN scheduleTailBlockCommit ELSE scheduleEraAdvance

(* Does the scheduler find something to do, when it may look?              *)
mayScheduleDefaultAction(m) == m.state.state = "normal" /\ m.new # m.active

(* launchCurrentAction() of an action which can start.                     *)
launch(m) ==
  LET s == [m EXCEPT !.state = started(begin(m.state, currentAction(m).operation, "none"))]
  IN  preamble(IF currentAction(m).zoneAction = "none" THEN prepareForConclusion(s)
               ELSE prepareForNextZone([s EXCEPT !.actingZone = 0]),
               currentAction(m).preamble)

(* finishActionCallback() up to the launch of the next action.  The state  *)
(* is that of the operation which ends, so that no default action is found *)
(* here, whatever has been requested.                                      *)
finishAction(m) ==
  LET a == currentAction(m)
      freed == [m EXCEPT !.actions[m.current].inUse = FALSE, !.current = next(m.current),
                            !.callback = "none",
                            !.asserts = @ \cup (IF mayScheduleDefaultAction(m) THEN {"default action"} ELSE {})]
      concluded == conclude(freed, a)
  IN  finishParent([concluded EXCEPT !.state = endOperation(@)], a.parent)

(* An action which can not start is finished at once.  It is the only one  *)
(* the manager holds, so that this does not launch another.                *)
launchCurrentAction(m) ==
  IF mayBegin(m.state, currentAction(m).operation) THEN launch(m)
  ELSE LET failed == setCompletionResult(m, currentAction(m).parent, "invalid state")
           f == finishAction([failed EXCEPT !.actions[m.current].conclusion = "none"])
       IN  [f EXCEPT !.asserts = @ \cup (IF currentAction(f).inUse THEN {"no other action"} ELSE {})]

finishActionCallback(m) ==
  LET f == finishAction(m)
  IN  IF currentAction(f).inUse THEN launchCurrentAction(f) ELSE f

scheduleOperationWithContext(m, a) ==
  IF ~currentAction(m).inUse
  THEN launchCurrentAction([m EXCEPT !.actions[m.current] = a])
  ELSE IF ~m.actions[next(m.current)].inUse
  THEN [m EXCEPT !.actions[next(m.current)] = a]
  ELSE finishParent(setCompletionResult(m, a.parent, "busy"), a.parent)

scheduleDefaultAction(m) ==
  IF mayScheduleDefaultAction(m) THEN scheduleOperationWithContext(m, defaultActionOf(m)) ELSE m

(* What the actions do to one zone.                                        *)
drainZone(m, z) == [m EXCEPT !.zones[z].state = getNextState(@, m.state.state)]
resumeBlockMapZone(m, z) ==
  [m EXCEPT !.zones[z].state = "normal",
            !.result = IF m.zones[z].state \in quiescentCodes THEN "ok" ELSE "invalid state"]
advanceBlockMapZoneEra(m, z) == [m EXCEPT !.zones[z].saw = m.active]
registerNewSlabsForAllocator(m, z) == [m EXCEPT !.zones[z].size = @ + 1]

toZone(m, z, name) ==
  CASE name = "drain" -> drainZone(m, z)
    [] name = "resume" -> resumeBlockMapZone(m, z)
    [] name = "see" -> advanceBlockMapZoneEra(m, z)
    [] name = "grow" -> registerNewSlabsForAllocator(m, z)
    [] name = "other" -> m

(* applyToZone(): the completion is made ready for the next zone, or for   *)
(* the conclusion, before the action of this one starts.                   *)
applyToZone(m) ==
  LET zone == m.actingZone
      n == [m EXCEPT !.actingZone = zone + 1]
  IN  toZone([(IF zone + 1 = Zones THEN prepareForConclusion(n) ELSE prepareForNextZone(n))
                EXCEPT !.running = TRUE],
             zone, currentAction(m).zoneAction)

(* preserveErrorAndContinue(): the parent is told, and the callback of the *)
(* manager's completion is invoked all the same.                           *)
preserveErrorAndContinue(m) ==
  [setCompletionResult(m, currentAction(m).parent, m.result) EXCEPT !.result = "ok", !.running = FALSE]

handlePreambleError(m) == preserveErrorAndContinue([m EXCEPT !.callback = "finishAction"])
-----------------------------------------------------------------------------
Init == \E owner \in {"depot", "blockMap"} : am = makeActionManager(owner)

(* The state in which the manager will be once the actions it holds ended. *)
afterwards(m) ==
  LET after(code, a) == IF a.inUse /\ mayBegin(adminState(code), a.operation)
                        THEN getNextState(code, a.operation) ELSE code
  IN  after(IF isOperating(m.state) THEN m.state.nextState ELSE m.state.state, m.actions[next(m.current)])

(* A command.  While the owner is in use no command is issued which needs  *)
(* it to be quiescent; a quiescent owner may be told anything.             *)
Command ==
  /\ Len(am.parents) < MaxCommands
  /\ \E c \in commandsOf(am.owner) :
       /\ afterwards(am) = "normal" => c.operation \notin quiescentCodes
       /\ am' = scheduleOperationWithContext(
                  [am EXCEPT !.parents = Append(@, [result |-> "ok", finished |-> 0, action |-> c])],
                  [c EXCEPT !.parent = Len(am.parents) + 1])

isIdle(m) == \A i \in 0 .. 1 : ~m.actions[i].inUse

(* Is the request made to a manager which has an action, or whose owner is *)
(* not in normal operation?                                                *)
requesting(m) == [m EXCEPT !.foundBusy = ~(isIdle(m) /\ m.state.state = "normal")]

(* The recovery journal asks for its oldest block, or starts an era.       *)
commitOldestSlabJournalTailBlocks(m) == scheduleDefaultAction([m EXCEPT !.new = @ + 1])
advanceBlockMapEra(m) == scheduleDefaultAction([m EXCEPT !.new = @ + 1])
Request ==
  /\ am.new < MaxRequests
  /\ am' = IF am.owner = "depot" THEN commitOldestSlabJournalTailBlocks(requesting(am))
           ELSE advanceBlockMapEra(requesting(am))

(* checkSlabJournalCommitThreshold() asks for the same block once more, at *)
(* a later entry of the journal.                                           *)
RequestAgain ==
  /\ am.owner = "depot" /\ am.new # am.active
  /\ am' = scheduleDefaultAction(requesting(am))

(* A preamble which takes time, or the action of a zone, ends.             *)
WorkDone ==
  /\ am.running
  /\ \E result \in {am.result} \cup (IF am.faults < MaxFaults THEN {"error"} ELSE {}) :
       LET m == [am EXCEPT !.result = result, !.faults = @ + (IF result = "error" THEN 1 ELSE 0)]
       IN  am' = IF result = "ok" THEN [m EXCEPT !.running = FALSE]
                 ELSE IF m.callback = "applyToZone" /\ m.actingZone = 0 THEN handlePreambleError(m)
                 ELSE preserveErrorAndContinue(m)

ApplyToZone ==
  /\ ~am.running /\ am.callback = "applyToZone"
  /\ am' = applyToZone(am)

FinishAction ==
  /\ ~am.running /\ am.callback = "finishAction"
  /\ am' = finishActionCallback(am)

Next == Command \/ Request \/ RequestAgain \/ WorkDone \/ ApplyToZone \/ FinishAction

Spec == Init /\ [][Next]_am
-----------------------------------------------------------------------------
(* Every command is answered exactly once: its parent waits for as long as *)
(* its action is in the manager, and is finished when it leaves it, with   *)
(* an error if it could not be taken or started.  An action in the manager *)
(* is always being worked on.                                              *)
CommandsAreAnswered ==
  /\ \A p \in DOMAIN am.parents :
       am.parents[p].finished =
         (IF \E i \in 0 .. 1 : am.actions[i].inUse /\ am.actions[i].parent = p THEN 0 ELSE 1)
  /\ ~isIdle(am) => currentAction(am).inUse /\ (am.running \/ am.callback # "none")
  /\ isIdle(am) => ~am.running /\ am.callback = "none" /\ ~isOperating(am.state)

(* The zones agree with each other and with their owner whenever no action *)
(* is in progress: they are all in its administrative state, have all seen *)
(* the era it entered or the block it was asked to release, and have grown *)
(* as often as it.  While an action is applied, the zones before the       *)
(* acting zone are the ones which saw it.  This is so although errors do   *)
(* not stop an action.                                                     *)
ZonesAgree ==
  /\ isIdle(am) =>
       \A z \in ZoneNumbers :
         /\ am.zones[z].state = am.state.state
         /\ am.zones[z].saw = am.active
         /\ am.owner = "depot" => am.zones[z].size = am.size
  /\ currentAction(am).inUse /\ currentAction(am).zoneAction = "see" =>
       \A z \in ZoneNumbers : (am.zones[z].saw = am.active) <=> (z < am.actingZone)

(* A request made to a manager which had no action, and whose owner was in *)
(* normal operation, is taken at once (scheduleDefaultAction()), and when  *)
(* the manager is idle again every zone has seen it, whatever commands and *)
(* errors came in between.                                                 *)
RequestsAreServed ==
  ~am.foundBusy =>
    /\ am.active = am.new
    /\ isIdle(am) => \A z \in ZoneNumbers : am.zones[z].saw = am.new

(* "A function to schedule a next action after an action concludes if      *)
(* there is no pending action" (actionManager.h): a manager which is idle, *)
(* and whose owner is in normal operation, has no request left.  This is   *)
(* not so: finishActionCallback() looks for the default action before      *)
(* finishOperation(), when the manager is still operating, and so finds    *)
(* none.                                                                   *)
DefaultActionIsScheduled == isIdle(am) /\ am.state.state = "normal" => am.new = am.active

(* No assertion on the threads, the phases or the states of the manager    *)
(* fails (actionManager.c, adminState.c).                                  *)
NoAssertionFails == am.asserts = {}
=============================================================================
