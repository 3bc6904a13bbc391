------------------------- MODULE ActionManagerProofs -------------------------
(***************************************************************************)
(* An action manager answers each command once, keeps its zones together   *)
(* and serves or remembers each request, for any number of zones,          *)
(* commands, requests and faults.                                          *)
(*                                                                         *)
(* The invariant is one of a manager, m, because the operations are        *)
(* operators on managers.  Its heart is how far the action in progress has *)
(* come (InZones), which depends on what the manager will be when that is  *)
(* over (Operating).                                                       *)
(***************************************************************************)
EXTENDS ActionManager, TLAPS

-----------------------------------------------------------------------------
(* The inductive invariant                                                 *)

(* The states between operations, and the operations.                      *)
Resting == {"normal", "saved", "suspended"}
Operations == {"loading", "operating", "suspendedOperation", "recovering", "saving", "suspending", "resuming"}

Preambles == {"none", "startDepotLoad", "prepareForTailBlockCommit", "prepareForEraAdvance", "growForest"}
ZoneActions == {"none", "other", "drain", "resume", "see", "grow"}

Action ==
  [inUse : BOOLEAN, operation : Operations \cup {"normal"}, preamble : Preambles, zoneAction : ZoneActions,
   conclusion : {"none", "finishRegistration"}, parent : Nat]

Results == {"ok", "error", "invalid state", "busy"}

(* A command's completion, an administrative state.                        *)
Parent == [result : Results, finished : Nat, action : Action]

Administrative ==
  [state : Resting \cup Operations, nextState : Resting, starting : BOOLEAN, complete : BOOLEAN, waiter : {"none"}]

(* The states of a manager, none of whose assertions has failed.           *)
Manager ==
  [owner : {"depot", "blockMap"}, state : Administrative,
   actions : [0 .. 1 -> Action], current : 0 .. 1, actingZone : Nat,
   callback : {"none", "applyToZone", "finishAction"}, running : BOOLEAN, result : Results,
   new : Nat, active : Nat, size : Nat,
   zones : [ZoneNumbers -> [state : Resting, saw : Nat, size : Nat]],
   parents : Seq(Parent),
   faults : Nat, foundBusy : BOOLEAN, asserts : {{}}]

other(m) == m.actions[next(m.current)]

(* What the actions of the depot and the block map have in common.         *)
isKnown(a, owner) ==
  /\ a.operation \in Operations
  /\ a.zoneAction = "drain" <=> a.operation \in {"recovering", "saving", "suspending"}
  /\ a.zoneAction = "resume" <=> a.operation = "resuming"
  /\ a.zoneAction = "grow" <=> a.conclusion = "finishRegistration"
  /\ a.zoneAction = "grow" => a.operation = "suspendedOperation"
  /\ a.zoneAction = "see" <=> a.preamble \in {"prepareForTailBlockCommit", "prepareForEraAdvance"}
  /\ a.zoneAction = "see" <=> a.parent = 0
  /\ a.zoneAction = "see" => a.operation = "operating"
  /\ a.preamble = "growForest" => owner = "blockMap" /\ a.zoneAction = "none"
  /\ a.preamble = "startDepotLoad" => a.zoneAction = "other"

(* The actions which the manager holds: the current one is in progress.    *)
Held(m) ==
  /\ \A i \in 0 .. 1 : m.actions[i].inUse => isKnown(m.actions[i], m.owner)
  /\ other(m).inUse => currentAction(m).inUse /\ other(m).zoneAction # "see"
  /\ currentAction(m).inUse <=> m.state.state \in Operations
  /\ currentAction(m).inUse <=> m.callback # "none"
  /\ m.running => currentAction(m).inUse
  /\ ~m.state.starting /\ ~m.state.complete

(* What comes after the operation in progress.  An action which waits can  *)
(* start then, unless the owner is quiescent.                              *)
follows(operation, code) ==
  CASE operation = "saving" -> code = "saved"
    [] operation = "suspending" -> code = "suspended"
    [] operation = "suspendedOperation" -> code # "normal"
    [] OTHER -> code = "normal"

Operating(m) ==
  currentAction(m).inUse =>
    /\ m.state.state = currentAction(m).operation /\ follows(m.state.state, m.state.nextState)
    /\ other(m).inUse /\ m.state.nextState = "normal" => other(m).operation \notin quiescentCodes

(* Who waits for an answer.                                                *)
Answered(m) ==
  /\ \A i \in 0 .. 1 : m.actions[i].inUse => m.actions[i].parent <= Len(m.parents)
  /\ m.actions[0].inUse /\ m.actions[1].inUse => m.actions[0].parent # m.actions[1].parent
  /\ \A p \in 1 .. Len(m.parents) :
       m.parents[p].finished = IF \E i \in 0 .. 1 : m.actions[i].inUse /\ m.actions[i].parent = p THEN 0 ELSE 1

(* How far the action in progress has come.                                *)
InPhase(m) ==
  /\ m.callback = "applyToZone" => currentAction(m).zoneAction # "none" /\ m.actingZone < Zones
  /\ m.callback = "finishAction" => currentAction(m).zoneAction \in {"none", "other"} \/ m.actingZone = Zones
  /\ m.callback = "applyToZone" /\ m.running /\ m.actingZone = 0 => currentAction(m).zoneAction = "other"

(* What a zone in which the action in progress was done, or was not, is.   *)
zoneState(m, z) ==
  IF ~currentAction(m).inUse THEN m.zones[z].state = m.state.state
  ELSE CASE currentAction(m).zoneAction = "drain" -> m.zones[z].state = IF z < m.actingZone THEN m.state.nextState ELSE "normal"
         [] currentAction(m).zoneAction = "resume" -> (m.zones[z].state = "normal") <=> (z < m.actingZone)
         [] OTHER -> m.zones[z].state = m.state.nextState

zoneSaw(m, z) ==
  IF currentAction(m).inUse /\ currentAction(m).zoneAction = "see" /\ z >= m.actingZone THEN m.zones[z].saw < m.active
  ELSE m.zones[z].saw = m.active

zoneSize(m, z) ==
  m.zones[z].size =
    IF currentAction(m).inUse /\ currentAction(m).zoneAction = "grow" /\ z < m.actingZone THEN m.size + 1 ELSE m.size

InZones(m) ==
  \A z \in ZoneNumbers : zoneState(m, z) /\ zoneSaw(m, z) /\ (m.owner = "depot" => zoneSize(m, z))

(* The request made last was taken at once, unless the manager was busy.   *)
Taken(m) == m.foundBusy \/ m.active = m.new

Served(m) == m.active <= m.new /\ Taken(m)

(* The inductive invariant.                                                *)
ManagerInv(m) ==
  m \in Manager /\ Held(m) /\ Operating(m) /\ Answered(m) /\ InPhase(m) /\ InZones(m) /\ Served(m)

-----------------------------------------------------------------------------
(* The operations                                                          *)

(* The two actions of a manager.                                           *)
LEMMA TwoActions ==
  \A i \in 0 .. 1 : next(i) \in 0 .. 1 /\ next(i) # i /\ next(next(i)) = i /\ \A j \in 0 .. 1 : j = i \/ j = next(i)
  BY DEF next

(* The commands of the depot and the block map, with their parents.        *)
LEMMA CommandsAreKnown ==
  ASSUME NEW owner \in {"depot", "blockMap"}, NEW c \in commandsOf(owner), NEW p \in Nat \ {0}
  PROVE  LET a == [c EXCEPT !.parent = p]
         IN  /\ a \in Action /\ a.inUse /\ a.parent = p /\ a.operation = c.operation /\ isKnown(a, owner)
             /\ a.zoneAction # "see" /\ c \in Action
<1>0. ASSUME NEW o \in Operations, NEW b \in Preambles, NEW e \in ZoneActions, NEW f \in {"none", "finishRegistration"},
             c = action(o, b, e, f),
             e = "drain" <=> o \in {"recovering", "saving", "suspending"}, e = "resume" <=> o = "resuming",
             e = "grow" <=> f = "finishRegistration", e = "grow" => o = "suspendedOperation",
             e # "see", b \in {"none", "startDepotLoad", "growForest"},
             b = "growForest" => owner = "blockMap" /\ e = "none", b = "startDepotLoad" => e = "other"
      PROVE  LET a == [c EXCEPT !.parent = p]
             IN  /\ a \in Action /\ a.inUse /\ a.parent = p /\ a.operation = c.operation /\ isKnown(a, owner)
                 /\ a.zoneAction # "see" /\ c \in Action
  <2>1. c = [inUse |-> TRUE, operation |-> o, preamble |-> b, zoneAction |-> e, conclusion |-> f, parent |-> 0]
    BY Zenon, <1>0 DEF action
  <2> DEFINE a == [c EXCEPT !.parent = p]
  <2>2. c \in Action /\ a \in Action
    <3>1. 0 \in Nat /\ p \in Nat
      OBVIOUS
    <3>2. c \in Action
      BY Zenon, <2>1, <3>1 DEF Action
    <3> QED
      BY Zenon, <3>1, <3>2 DEF Action
  <2>3. /\ a.inUse /\ a.parent = p /\ a.operation = o /\ a.preamble = b /\ a.zoneAction = e /\ a.conclusion = f
        /\ c.operation = o
    BY Zenon, <2>1
  <2> HIDE DEF a
  <2>4. isKnown(a, owner)
    <3>1. p # 0
      OBVIOUS
    <3> QED
      BY <1>0, <2>3, <3>1 DEF isKnown
  <2> QED
    BY <1>0, <2>2, <2>3, <2>4 DEF a
<1>1. CASE c = loadSlabDepot \/ c = prepareToAllocate \/ c = scrubAllUnrecoveredSlabs
  BY <1>0, <1>1 DEF loadSlabDepot, prepareToAllocate, scrubAllUnrecoveredSlabs, Operations, Preambles, ZoneActions
<1>2. CASE c = useNewSlabs
  BY <1>0, <1>2 DEF useNewSlabs, Operations, Preambles, ZoneActions
<1>3. CASE c = resumeSlabDepot \/ c = resumeBlockMap
  BY <1>0, <1>3 DEF resumeSlabDepot, resumeBlockMap, Operations, Preambles, ZoneActions
<1>4. CASE owner = "blockMap" /\ c = growBlockMap
  BY <1>0, <1>4 DEF growBlockMap, Operations, Preambles, ZoneActions
<1>5. CASE c \in drainSlabDepot \/ c \in drainBlockMap
  <2>1. PICK o \in {"recovering", "saving", "suspending"} : c = action(o, "none", "drain", "none")
    BY <1>5 DEF drainSlabDepot, drainBlockMap
  <2> QED
    BY <1>0, <2>1 DEF Operations, Preambles, ZoneActions
<1> QED
  BY <1>1, <1>2, <1>3, <1>4, <1>5 DEF commandsOf

(* The default actions.                                                    *)
LEMMA DefaultActionsAreKnown ==
  ASSUME NEW m \in Manager
  PROVE  LET a == defaultActionOf(m)
         IN  /\ a \in Action /\ a.inUse /\ a.parent = 0 /\ a.operation = "operating" /\ isKnown(a, m.owner)
             /\ a.zoneAction = "see"
  BY DEF defaultActionOf, scheduleTailBlockCommit, scheduleEraAdvance, action, Action, Operations, Preambles, ZoneActions, isKnown

(* The beginning of an operation.                                          *)
LEMMA OperationBegins ==
  ASSUME NEW s \in Administrative, ~s.starting, ~s.complete, NEW o \in Operations, s.state \in Resting, mayBegin(s, o)
  PROVE  LET a == started(begin(s, o, "none"))
         IN  /\ a \in Administrative /\ ~a.starting /\ ~a.complete /\ a.state = o
             /\ a.nextState = getNextState(s.state, o) /\ follows(o, a.nextState)
             /\ (o \in quiescentCodes <=> s.state # "normal")
<1> DEFINE n == getNextState(s.state, o)
           b == begin(s, o, "none")
           a == [b EXCEPT !.starting = FALSE]
<1>1. o \in quiescentCodes <=> s.state # "normal"
  BY DEF mayBegin, isQuiescent, quiescentCodes, Resting
<1>2. n \in Resting /\ follows(o, n)
  BY <1>1 DEF getNextState, follows, quiescentCodes, quiescingCodes, Resting, Operations
<1> HIDE DEF n
<1>3. b \in Administrative
  BY Zenon, <1>2 DEF begin, n, Administrative
<1>4. b.state = o /\ b.nextState = n /\ ~b.complete
  BY Zenon DEF begin, n, Administrative
<1> HIDE DEF b
<1>5. a \in Administrative
  BY Zenon, <1>3 DEF Administrative
<1>6. a.state = o /\ a.nextState = n /\ ~a.complete /\ ~a.starting
  BY Zenon, <1>3, <1>4 DEF Administrative
<1> HIDE DEF a
<1>7. started(b) = a
  BY Zenon, <1>6 DEF started, a
<1> QED
  BY Zenon, <1>1, <1>2, <1>5, <1>6, <1>7 DEF b, n

(* A preamble is done at once, but for the load of the slab summary.       *)
preambleIs(m, r, name) ==
  /\ r \in Manager
  /\ r.owner = m.owner /\ r.state = m.state /\ r.actions = m.actions /\ r.current = m.current
  /\ r.actingZone = m.actingZone /\ r.callback = m.callback /\ r.result = m.result /\ r.new = m.new
  /\ r.zones = m.zones /\ r.parents = m.parents /\ r.foundBusy = m.foundBusy
  /\ r.running <=> name = "startDepotLoad"
  /\ r.active = IF name \in {"prepareForTailBlockCommit", "prepareForEraAdvance"} THEN m.new ELSE m.active
  /\ r.size = IF name = "growForest" THEN m.size + 1 ELSE m.size

(* What a preamble changes.                                                *)
LEMMA PreambleIs ==
  ASSUME NEW m \in Manager, NEW name \in Preambles
  PROVE  preambleIs(m, preamble(m, name), name)
<1>0. m.new \in Nat /\ m.size + 1 \in Nat
  BY DEF Manager
<1>1. CASE name = "none"
  <2>1. preamble(m, name) = [m EXCEPT !.running = FALSE]
    BY Zenon, <1>1 DEF preamble, noPreamble
  <2> QED
    BY Zenon, <1>1, <2>1 DEF preambleIs, Manager
<1>2. CASE name = "startDepotLoad"
  <2>1. preamble(m, name) = [m EXCEPT !.running = TRUE]
    BY Zenon, <1>2 DEF preamble, startDepotLoad
  <2> QED
    BY Zenon, <1>2, <2>1 DEF preambleIs, Manager
<1>3. CASE name = "prepareForTailBlockCommit" \/ name = "prepareForEraAdvance"
  <2>1. preamble(m, name) = [m EXCEPT !.active = m.new, !.running = FALSE]
    BY Zenon, <1>3 DEF preamble, prepareForTailBlockCommit, prepareForEraAdvance
  <2> QED
    BY Zenon, <1>0, <1>3, <2>1 DEF preambleIs, Manager
<1>4. CASE name = "growForest"
  <2>1. preamble(m, name) = [m EXCEPT !.size = m.size + 1, !.running = FALSE]
    BY Zenon, <1>4 DEF preamble, growForest
  <2> QED
    BY Zenon, <1>0, <1>4, <2>1 DEF preambleIs, Manager
<1> QED
  BY Zenon, <1>1, <1>2, <1>3, <1>4 DEF Preambles

(* What launchCurrentAction() does when the action can start.              *)
launchIs(m, r) ==
  /\ r \in Manager
  /\ r.owner = m.owner /\ r.actions = m.actions /\ r.current = m.current
  /\ r.new = m.new /\ r.zones = m.zones /\ r.parents = m.parents /\ r.foundBusy = m.foundBusy
  /\ ~r.state.starting /\ ~r.state.complete /\ r.state.state = currentAction(m).operation
  /\ r.state.nextState = getNextState(m.state.state, r.state.state) /\ follows(r.state.state, r.state.nextState)
  /\ r.state.state \in quiescentCodes <=> m.state.state # "normal"
  /\ r.callback = IF currentAction(m).zoneAction = "none" THEN "finishAction" ELSE "applyToZone"
  /\ currentAction(m).zoneAction # "none" => r.actingZone = 0
  /\ r.running <=> currentAction(m).preamble = "startDepotLoad"
  /\ r.active = IF currentAction(m).preamble \in {"prepareForTailBlockCommit", "prepareForEraAdvance"} THEN m.new ELSE m.active
  /\ r.size = IF currentAction(m).preamble = "growForest" THEN m.size + 1 ELSE m.size

(* The types of the parts of a manager.                                    *)
LEMMA ManagerParts ==
  ASSUME NEW m \in Manager
  PROVE  /\ currentAction(m) \in Action /\ other(m) \in Action /\ next(m.current) \in 0 .. 1 /\ m.current \in 0 .. 1
         /\ m.state \in Administrative /\ m.actions \in [0 .. 1 -> Action]
<1>1. m.current \in 0 .. 1 /\ m.actions \in [0 .. 1 -> Action] /\ m.state \in Administrative
  BY Zenon DEF Manager
<1> QED
  BY Zenon, <1>1, TwoActions DEF currentAction, other

(* launchCurrentAction() of an action which can start.                     *)
LEMMA LaunchIs ==
  ASSUME NEW m \in Manager, m.state.state \in Resting, ~m.state.starting, ~m.state.complete,
         currentAction(m).operation \in Operations, mayBegin(m.state, currentAction(m).operation)
  PROVE  launchIs(m, launch(m))
<1> DEFINE a == currentAction(m)
           t == started(begin(m.state, a.operation, "none"))
           s == [m EXCEPT !.state = t]
           x == IF a.zoneAction = "none" THEN prepareForConclusion(s) ELSE prepareForNextZone([s EXCEPT !.actingZone = 0])
<1>1. a \in Action /\ m.state \in Administrative
  BY Zenon, ManagerParts
<1>2. /\ t \in Administrative /\ ~t.starting /\ ~t.complete /\ t.state = a.operation
      /\ t.nextState = getNextState(m.state.state, a.operation) /\ follows(a.operation, t.nextState)
      /\ (a.operation \in quiescentCodes <=> m.state.state # "normal")
  BY Zenon, <1>1, OperationBegins
<1>3. launch(m) = preamble(x, a.preamble)
  BY Zenon DEF launch
<1> HIDE DEF a, t
<1>4. 0 \in Nat /\ "ok" \in Results
  BY DEF Results
<1>5. /\ x \in Manager
      /\ x.owner = m.owner /\ x.actions = m.actions /\ x.current = m.current /\ x.state = t /\ x.foundBusy = m.foundBusy
      /\ x.new = m.new /\ x.zones = m.zones /\ x.parents = m.parents /\ x.active = m.active /\ x.size = m.size
      /\ x.callback = IF a.zoneAction = "none" THEN "finishAction" ELSE "applyToZone"
      /\ a.zoneAction # "none" => x.actingZone = 0
  <2>1. CASE a.zoneAction = "none"
    BY Zenon, <1>2, <1>4, <2>1 DEF Manager, prepareForConclusion
  <2>2. CASE a.zoneAction # "none"
    BY Zenon, <1>2, <1>4, <2>2 DEF Manager, prepareForNextZone
  <2> QED
    BY Zenon, <2>1, <2>2
<1> HIDE DEF x
<1>6. a.preamble \in Preambles
  BY Zenon, <1>1 DEF Action
<1>7. preambleIs(x, launch(m), a.preamble)
  BY Zenon, <1>3, <1>5, <1>6, PreambleIs
<1> QED
  BY Zenon, <1>2, <1>5, <1>7 DEF preambleIs, launchIs, a

-----------------------------------------------------------------------------
(* The launch of an action                                                 *)

(* The manager holds one action, which is to be launched.                  *)
Ready(m) ==
  /\ m \in Manager /\ ~m.state.starting /\ ~m.state.complete /\ m.state.state \in Resting
  /\ m.callback = "none" /\ ~m.running /\ m.active <= m.new
  /\ currentAction(m).inUse /\ ~other(m).inUse /\ isKnown(currentAction(m), m.owner)
  /\ m.state.state = "normal" => currentAction(m).operation \notin quiescentCodes
  /\ currentAction(m).zoneAction = "see" => m.active < m.new /\ m.state.state = "normal"
  /\ currentAction(m).zoneAction = "see" \/ Taken(m)
  /\ currentAction(m).parent <= Len(m.parents)
  /\ \A p \in 1 .. Len(m.parents) : m.parents[p].finished = IF currentAction(m).parent = p THEN 0 ELSE 1
  /\ \A z \in ZoneNumbers : /\ m.zones[z].state = m.state.state /\ m.zones[z].saw = m.active
                            /\ m.owner = "depot" => m.zones[z].size = m.size

(* An action which can start.                                              *)
LEMMA LaunchKeeps ==
  ASSUME hasZones, NEW m, Ready(m), mayBegin(m.state, currentAction(m).operation)
  PROVE  ManagerInv(launch(m))
<1> DEFINE r == launch(m)
           a == currentAction(m)
<1>0. m \in Manager /\ a \in Action /\ a.inUse /\ ~other(m).inUse /\ isKnown(a, m.owner) /\ a.operation \in Operations
  BY Zenon, ManagerParts DEF Ready, isKnown
<1>1. launchIs(m, r)
  BY Zenon, <1>0, LaunchIs DEF Ready
<1> HIDE DEF r
<1>2. r \in Manager /\ currentAction(r) = a /\ other(r) = other(m)
  BY Zenon, <1>1 DEF launchIs, currentAction, other
<1> HIDE DEF a
<1>3. Held(r)
  <2>1. \A i \in 0 .. 1 : r.actions[i].inUse => isKnown(r.actions[i], r.owner)
    BY Zenon, <1>0, <1>1, <1>2, TwoActions, ManagerParts DEF launchIs, currentAction, other, a
  <2> QED
    BY Zenon, <1>0, <1>1, <1>2, <2>1 DEF launchIs, Held, a
<1>4. Operating(r)
  BY Zenon, <1>0, <1>1, <1>2 DEF launchIs, Operating, a
<1>5. Answered(r)
  <2>1. \A i \in 0 .. 1 : r.actions[i].inUse <=> i = m.current
    BY Zenon, <1>0, <1>1, TwoActions, ManagerParts DEF launchIs, currentAction, other, a
  <2>2. r.parents = m.parents /\ r.actions[m.current] = a
    BY Zenon, <1>1 DEF launchIs, currentAction, a
  <2>3. 0 \in 0 .. 1 /\ 1 \in 0 .. 1 /\ 0 # 1 /\ m.current \in 0 .. 1
    BY <1>0, ManagerParts
  <2>4. /\ a.parent <= Len(m.parents)
        /\ \A p \in 1 .. Len(m.parents) : m.parents[p].finished = IF a.parent = p THEN 0 ELSE 1
    BY Zenon DEF Ready, a
  <2>5. ASSUME NEW p \in 1 .. Len(r.parents)
        PROVE  r.parents[p].finished = IF \E i \in 0 .. 1 : r.actions[i].inUse /\ r.actions[i].parent = p THEN 0 ELSE 1
    <3>1. (\E i \in 0 .. 1 : r.actions[i].inUse /\ r.actions[i].parent = p) <=> a.parent = p
      BY Zenon, <2>1, <2>2, <2>3
    <3> QED
      BY Zenon, <2>2, <2>4, <3>1
  <2>6. ~(r.actions[0].inUse /\ r.actions[1].inUse) /\ \A i \in 0 .. 1 : r.actions[i].inUse => r.actions[i].parent <= Len(r.parents)
    BY Zenon, <2>1, <2>2, <2>3, <2>4
  <2> QED
    BY Zenon, <2>5, <2>6 DEF Answered
<1>6. InPhase(r)
  <2>1. a.zoneAction # "none" => r.actingZone = 0 /\ r.actingZone < Zones
    BY <1>1 DEF launchIs, a, hasZones
  <2>2. a.preamble = "startDepotLoad" => a.zoneAction = "other"
    BY Zenon, <1>0 DEF isKnown
  <2> QED
    BY Zenon, <1>1, <1>2, <2>1, <2>2 DEF launchIs, InPhase, a
<1>7. InZones(r)
  <2> SUFFICES ASSUME NEW z \in ZoneNumbers PROVE zoneState(r, z) /\ zoneSaw(r, z) /\ (r.owner = "depot" => zoneSize(r, z))
    BY Zenon DEF InZones
  <2>1. a.zoneAction \in ZoneActions \ {"none"} => ~(z < r.actingZone) /\ z >= r.actingZone
    BY <1>1 DEF launchIs, a, ZoneNumbers
  <2>2. m.zones[z].state = m.state.state /\ m.zones[z].saw = m.active /\ (m.owner = "depot" => m.zones[z].size = m.size)
    BY Zenon DEF Ready
  <2>3. /\ r.zones = m.zones /\ r.owner = m.owner /\ r.state.state = a.operation
        /\ r.state.nextState = getNextState(m.state.state, a.operation)
        /\ a.operation \in quiescentCodes <=> m.state.state # "normal"
    BY Zenon, <1>1 DEF launchIs, a
  <2>4. zoneState(r, z)
    <3>1. CASE a.zoneAction = "drain"
      BY <1>0, <1>2, <2>1, <2>2, <2>3, <3>1 DEF zoneState, isKnown, quiescentCodes, ZoneActions
    <3>2. CASE a.zoneAction = "resume"
      BY <1>0, <1>2, <2>1, <2>2, <2>3, <3>2 DEF zoneState, isKnown, quiescentCodes, ZoneActions
    <3>3. CASE a.zoneAction \notin {"drain", "resume"}
      <4>1. a.operation \in {"loading", "operating", "suspendedOperation"}
        BY <1>0, <3>3 DEF isKnown, Operations
      <4>2. r.state.nextState = m.state.state
        BY <2>3, <4>1 DEF getNextState, quiescingCodes, quiescentCodes
      <4> QED
        BY Zenon, <1>0, <1>2, <2>2, <2>3, <3>3, <4>2 DEF zoneState
    <3> QED
      BY Zenon, <3>1, <3>2, <3>3
  <2>5. zoneSaw(r, z)
    <3>1. CASE a.zoneAction = "see"
      <4>1. r.active = m.new /\ m.active < m.new
        BY Zenon, <1>0, <1>1, <3>1 DEF launchIs, isKnown, Ready, a
      <4> QED
        BY Zenon, <1>0, <1>2, <2>1, <2>2, <2>3, <3>1, <4>1 DEF zoneSaw, ZoneActions
    <3>2. CASE a.zoneAction # "see"
      BY Zenon, <1>0, <1>1, <1>2, <2>2, <2>3, <3>2 DEF zoneSaw, launchIs, isKnown, a
    <3> QED
      BY Zenon, <3>1, <3>2
  <2>6. r.owner = "depot" => zoneSize(r, z)
    <3>1. r.owner = "depot" => r.size = m.size
      BY <1>0, <1>1, <2>3 DEF launchIs, isKnown, a
    <3> QED
      BY Zenon, <1>2, <2>1, <2>2, <2>3, <3>1 DEF zoneSize, ZoneActions
  <2> QED
    BY Zenon, <2>4, <2>5, <2>6
<1>8. Served(r)
  <2>1. m.new \in Nat /\ m.active <= m.new
    BY DEF Ready, Manager
  <2>2. (r.active = m.new \/ r.active = m.active) /\ r.new = m.new /\ r.foundBusy = m.foundBusy
    BY Zenon, <1>1 DEF launchIs
  <2>3. a.zoneAction = "see" => r.active = m.new
    BY Zenon, <1>0, <1>1 DEF launchIs, isKnown, a
  <2>4. a.zoneAction = "see" \/ Taken(m)
    BY Zenon DEF Ready, a
  <2>5. Taken(r)
    BY Zenon, <2>2, <2>3, <2>4 DEF Taken
  <2> QED
    BY <2>1, <2>2, <2>5 DEF Served
<1> QED
  BY Zenon, <1>2, <1>3, <1>4, <1>5, <1>6, <1>7, <1>8 DEF ManagerInv, r

-----------------------------------------------------------------------------
(* The end of an action                                                    *)

sameButParents(m, r) ==
  /\ r \in Manager
  /\ r.owner = m.owner /\ r.state = m.state /\ r.actions = m.actions /\ r.current = m.current
  /\ r.actingZone = m.actingZone /\ r.callback = m.callback /\ r.running = m.running /\ r.result = m.result
  /\ r.new = m.new /\ r.active = m.active /\ r.size = m.size /\ r.zones = m.zones /\ r.foundBusy = m.foundBusy
  /\ Len(r.parents) = Len(m.parents)

(* Nobody is answered, and the parent is.                                  *)
noneFinished(m, r) ==
  sameButParents(m, r) /\ \A p \in 1 .. Len(m.parents) : r.parents[p].finished = m.parents[p].finished
oneFinished(m, r, parent) ==
  /\ sameButParents(m, r)
  /\ \A p \in 1 .. Len(m.parents) :
       r.parents[p].finished = IF p = parent THEN m.parents[p].finished + 1 ELSE m.parents[p].finished

replaced(q, i, v) == [q EXCEPT ![i] = v]
withParents(m, parents) == [m EXCEPT !.parents = parents]
isReplaced(c, q, i, v) == Len(c) = Len(q) /\ \A p \in 1 .. Len(q) : (p = i => c[p] = v) /\ (p # i => c[p] = q[p])

(* A change of one element of a sequence.                                  *)
LEMMA ElementChanges ==
  ASSUME NEW S, NEW q \in Seq(S), NEW i \in 1 .. Len(q), NEW v \in S
  PROVE  replaced(q, i, v) \in Seq(S) /\ isReplaced(replaced(q, i, v), q, i, v)
  BY DEF replaced, isReplaced

(* A change of one parent.                                                 *)
LEMMA ParentChanges ==
  ASSUME NEW m \in Manager, NEW parent \in 1 .. Len(m.parents), NEW v \in Parent, NEW r,
         r = withParents(m, replaced(m.parents, parent, v))
  PROVE  sameButParents(m, r) /\ isReplaced(r.parents, m.parents, parent, v)
<1> DEFINE c == replaced(m.parents, parent, v)
<1>1. m.parents \in Seq(Parent)
  BY Zenon DEF Manager
<1>2. c \in Seq(Parent) /\ isReplaced(c, m.parents, parent, v)
  BY Zenon, <1>1, ElementChanges
<1> HIDE DEF c
<1>3. r = [m EXCEPT !.parents = c]
  BY Zenon DEF c, withParents
<1>4. r \in Manager /\ r.parents = c
  BY Zenon, <1>2, <1>3 DEF Manager
<1> QED
  BY Zenon, <1>2, <1>3, <1>4 DEF Manager, sameButParents, isReplaced

(* setCompletionResult() of a parent.                                      *)
LEMMA ResultIsSet ==
  ASSUME NEW m \in Manager, NEW parent \in Nat, parent <= Len(m.parents), NEW result \in Results
  PROVE  noneFinished(m, setCompletionResult(m, parent, result))
<1>1. m.parents \in Seq(Parent) /\ Len(m.parents) \in Nat /\ \A p \in 1 .. Len(m.parents) : m.parents[p] \in Parent
  BY DEF Manager
<1>2. CASE parent = 0 \/ m.parents[parent].result # "ok"
  BY Zenon, <1>2 DEF setCompletionResult, noneFinished, sameButParents
<1>3. CASE ~(parent = 0 \/ m.parents[parent].result # "ok")
  <2> DEFINE v == [m.parents[parent] EXCEPT !.result = result]
             r == setCompletionResult(m, parent, result)
  <2>1. parent \in 1 .. Len(m.parents)
    BY <1>1, <1>3
  <2>2. v \in Parent /\ v.finished = m.parents[parent].finished
    BY Zenon, <1>1, <2>1 DEF Parent
  <2>3. r = withParents(m, replaced(m.parents, parent, v))
    BY Zenon, <1>3 DEF setCompletionResult, withParents, replaced
  <2> HIDE DEF v, r
  <2>4. sameButParents(m, r) /\ isReplaced(r.parents, m.parents, parent, v)
    BY Zenon, <2>1, <2>2, <2>3, ParentChanges
  <2> QED
    BY Zenon, <2>2, <2>4 DEF r, isReplaced, noneFinished
<1> QED
  BY Zenon, <1>2, <1>3

(* finishCompletion() of a parent.                                         *)
LEMMA ParentIsFinished ==
  ASSUME NEW m \in Manager, NEW parent \in Nat, parent <= Len(m.parents)
  PROVE  oneFinished(m, finishParent(m, parent), parent)
<1>1. m.parents \in Seq(Parent) /\ Len(m.parents) \in Nat /\ \A p \in 1 .. Len(m.parents) : m.parents[p] \in Parent
  BY DEF Manager
<1>2. CASE parent = 0
  <2>1. \A p \in 1 .. Len(m.parents) : p # parent
    BY <1>1, <1>2
  <2> QED
    BY Zenon, <1>2, <2>1 DEF finishParent, oneFinished, sameButParents
<1>3. CASE parent # 0
  <2> DEFINE n == m.parents[parent].finished + 1
             v == [m.parents[parent] EXCEPT !.finished = n]
             r == finishParent(m, parent)
  <2>1. parent \in 1 .. Len(m.parents)
    BY <1>1, <1>3
  <2>2. m.parents[parent] \in Parent
    BY Zenon, <1>1, <2>1
  <2>3. n \in Nat
    BY <2>2 DEF Parent
  <2> HIDE DEF n
  <2>4. v \in Parent /\ v.finished = n
    BY Zenon, <2>2, <2>3 DEF Parent
  <2>5. r = withParents(m, replaced(m.parents, parent, v))
    BY Zenon, <1>3 DEF finishParent, n, withParents, replaced
  <2> HIDE DEF v, r
  <2>6. sameButParents(m, r) /\ isReplaced(r.parents, m.parents, parent, v)
    BY Zenon, <2>1, <2>4, <2>5, ParentChanges
  <2> QED
    BY Zenon, <2>4, <2>6 DEF r, n, isReplaced, oneFinished
<1> QED
  BY Zenon, <1>2, <1>3

(* The end of an operation, if one is in progress.                         *)
LEMMA OperationEnds ==
  ASSUME NEW s \in Administrative, ~s.starting, ~s.complete
  PROVE  LET e == endOperation(s)
         IN  /\ e \in Administrative /\ ~e.starting /\ ~e.complete /\ e.state \in Resting
             /\ e.state = IF s.state \in Operations THEN s.nextState ELSE s.state
<1>1. s.state \in Resting \cup Operations /\ s.nextState \in Resting
  BY Zenon DEF Administrative
<1>2. isOperating(s) <=> s.state \in Operations
  BY <1>1 DEF isOperating, operatingCodes, Operations, Resting
<1>3. CASE isOperating(s)
  <2>1. endOperation(s) = [s EXCEPT !.complete = FALSE, !.state = s.nextState, !.waiter = "none"]
    BY Zenon, <1>3 DEF endOperation
  <2> QED
    BY Zenon, <1>1, <1>2, <1>3, <2>1 DEF Administrative
<1>4. CASE ~isOperating(s)
  BY Zenon, <1>1, <1>2, <1>4 DEF endOperation
<1> QED
  BY Zenon, <1>3, <1>4

(* What the end of an action leaves.                                       *)
finishIs(m, f) ==
  /\ f \in Manager
  /\ f.owner = m.owner /\ f.current = next(m.current) /\ f.actingZone = m.actingZone /\ f.callback = "none"
  /\ f.running = m.running /\ f.new = m.new /\ f.active = m.active /\ f.zones = m.zones /\ f.foundBusy = m.foundBusy
  /\ currentAction(f) = other(m) /\ ~other(f).inUse
  /\ ~f.state.starting /\ ~f.state.complete /\ f.state.state \in Resting
  /\ f.state.state = IF m.state.state \in Operations THEN m.state.nextState ELSE m.state.state
  /\ f.size = IF currentAction(m).conclusion = "finishRegistration" THEN m.size + 1 ELSE m.size
  /\ Len(f.parents) = Len(m.parents)
  /\ \A p \in 1 .. Len(m.parents) :
       f.parents[p].finished = IF p = currentAction(m).parent THEN m.parents[p].finished + 1 ELSE m.parents[p].finished

(* finishActionCallback() up to the launch of the next action.             *)
LEMMA FinishIs ==
  ASSUME NEW m \in Manager, ~mayScheduleDefaultAction(m), ~m.state.starting, ~m.state.complete,
         currentAction(m).parent <= Len(m.parents)
  PROVE  finishIs(m, finishAction(m))
<1> DEFINE a == currentAction(m)
           b == [a EXCEPT !.inUse = FALSE]
           acts == [m.actions EXCEPT ![m.current] = b]
           none == m.asserts \cup (IF mayScheduleDefaultAction(m) THEN {"default action"} ELSE {})
           i == next(m.current)
           freed == [m EXCEPT !.actions = acts, !.current = i, !.callback = "none", !.asserts = none]
           n == m.size + 1
           e == endOperation(m.state)
           concluded == conclude(freed, a)
           x == [concluded EXCEPT !.state = endOperation(@)]
<1>1. /\ a \in Action /\ other(m) \in Action /\ i \in 0 .. 1 /\ m.current \in 0 .. 1
      /\ m.state \in Administrative /\ m.actions \in [0 .. 1 -> Action] /\ i # m.current /\ next(i) = m.current
  BY Zenon, ManagerParts, TwoActions
<1>2. finishAction(m) = finishParent(x, a.parent)
  BY Zenon DEF finishAction, currentAction
<1>3. none = {}
  BY Zenon DEF Manager
<1>4. b \in Action /\ ~b.inUse
  BY Zenon, <1>1 DEF Action
<1>5. acts \in [0 .. 1 -> Action] /\ acts[i] = other(m) /\ acts[m.current] = b
  BY Zenon, <1>1, <1>4 DEF other
<1>6. n \in Nat
  BY DEF Manager
<1>7. /\ e \in Administrative /\ ~e.starting /\ ~e.complete /\ e.state \in Resting
      /\ e.state = IF m.state.state \in Operations THEN m.state.nextState ELSE m.state.state
  BY Zenon, <1>1, OperationEnds
<1> HIDE DEF b, acts, none, n, e, i
<1>8. /\ freed \in Manager
      /\ freed.owner = m.owner /\ freed.current = i /\ freed.actingZone = m.actingZone /\ freed.callback = "none"
      /\ freed.running = m.running /\ freed.new = m.new /\ freed.active = m.active /\ freed.zones = m.zones
      /\ freed.foundBusy = m.foundBusy /\ freed.parents = m.parents /\ freed.state = m.state /\ freed.size = m.size
      /\ freed.actions = acts
  BY Zenon, <1>1, <1>3, <1>5 DEF Manager
<1> HIDE DEF freed
<1>9. /\ concluded \in Manager
      /\ concluded.owner = m.owner /\ concluded.current = i /\ concluded.actingZone = m.actingZone /\ concluded.callback = "none"
      /\ concluded.running = m.running /\ concluded.new = m.new /\ concluded.active = m.active /\ concluded.zones = m.zones
      /\ concluded.foundBusy = m.foundBusy /\ concluded.parents = m.parents /\ concluded.state = m.state
      /\ concluded.actions = acts
      /\ concluded.size = IF a.conclusion = "finishRegistration" THEN n ELSE m.size
  <2>1. CASE a.conclusion = "finishRegistration"
    <3>1. concluded = [freed EXCEPT !.size = n]
      BY Zenon, <1>8, <2>1 DEF conclude, finishRegistration, n
    <3> QED
      BY Zenon, <1>6, <1>8, <2>1, <3>1 DEF Manager
  <2>2. CASE a.conclusion # "finishRegistration"
    BY Zenon, <1>8, <2>2 DEF conclude
  <2> QED
    BY Zenon, <2>1, <2>2
<1> HIDE DEF concluded
<1>10. x = [concluded EXCEPT !.state = e]
  BY Zenon, <1>9 DEF e
<1>11. /\ x \in Manager
       /\ x.owner = m.owner /\ x.current = i /\ x.actingZone = m.actingZone /\ x.callback = "none"
       /\ x.running = m.running /\ x.new = m.new /\ x.active = m.active /\ x.zones = m.zones
       /\ x.foundBusy = m.foundBusy /\ x.parents = m.parents /\ x.state = e
       /\ x.actions = acts
       /\ x.size = IF a.conclusion = "finishRegistration" THEN n ELSE m.size
  BY Zenon, <1>7, <1>9, <1>10 DEF Manager
<1> HIDE DEF x
<1> DEFINE f == finishParent(x, a.parent)
<1>12. a.parent \in Nat /\ a.parent <= Len(x.parents)
  BY Zenon, <1>1, <1>11 DEF Action
<1>13. oneFinished(x, f, a.parent)
  BY Zenon, <1>11, <1>12, ParentIsFinished
<1> HIDE DEF f, a
<1>14. currentAction(f) = other(m) /\ ~other(f).inUse
  BY Zenon, <1>1, <1>4, <1>5, <1>11, <1>13 DEF oneFinished, sameButParents, currentAction, other, i
<1>15. f \in Manager /\ f.state = e /\ f.size = x.size /\ Len(f.parents) = Len(m.parents)
  BY Zenon, <1>11, <1>13 DEF oneFinished, sameButParents
<1>16. finishIs(m, f)
  BY Zenon, <1>7, <1>11, <1>13, <1>14, <1>15 DEF oneFinished, sameButParents, finishIs, n, a, i
<1> QED
  BY Zenon, <1>2, <1>16 DEF f

(* The manager holds no action, and has answered every command.            *)
Rested(m) ==
  /\ m \in Manager /\ ~m.state.starting /\ ~m.state.complete /\ m.state.state \in Resting
  /\ m.callback = "none" /\ ~m.running /\ m.active <= m.new
  /\ ~currentAction(m).inUse /\ ~other(m).inUse
  /\ \A z \in ZoneNumbers : /\ m.zones[z].state = m.state.state /\ m.zones[z].saw = m.active
                            /\ m.owner = "depot" => m.zones[z].size = m.size
Idle(m) == Rested(m) /\ Taken(m) /\ \A p \in 1 .. Len(m.parents) : m.parents[p].finished = 1

(* An idle manager.                                                        *)
LEMMA IdleKeeps ==
  ASSUME NEW m, Idle(m)
  PROVE  ManagerInv(m)
<1>1. \A i \in 0 .. 1 : ~m.actions[i].inUse
  BY Zenon, TwoActions, ManagerParts DEF Idle, Rested, currentAction, other
<1>2. 0 \in 0 .. 1
  OBVIOUS
<1>3. m.state.state \notin Operations
  BY DEF Idle, Rested, Operations, Resting
<1>4. Held(m) /\ Operating(m) /\ InPhase(m)
  BY Zenon, <1>1, <1>3 DEF Idle, Rested, Held, Operating, InPhase
<1>5. Answered(m)
  BY Zenon, <1>1, <1>2 DEF Idle, Rested, Answered
<1>6. InZones(m)
  BY Zenon DEF Idle, Rested, InZones, zoneState, zoneSaw, zoneSize
<1> QED
  BY Zenon, <1>4, <1>5, <1>6 DEF ManagerInv, Idle, Rested, Served

(* An idle manager with other assertions.                                  *)
LEMMA AssertionsAreNoted ==
  ASSUME NEW m, Idle(m), NEW x \in {{}}, NEW r, r = [m EXCEPT !.asserts = x]
  PROVE  ManagerInv(r)
<1>1. m \in Manager
  BY Zenon DEF Idle, Rested
<1>2. /\ r \in Manager /\ r.foundBusy = m.foundBusy
      /\ r.owner = m.owner /\ r.state = m.state /\ r.actions = m.actions /\ r.current = m.current
      /\ r.callback = m.callback /\ r.running = m.running /\ r.new = m.new /\ r.active = m.active /\ r.size = m.size
      /\ r.zones = m.zones /\ r.parents = m.parents
  BY Zenon, <1>1 DEF Manager
<1>3. Idle(r)
  BY Zenon, <1>2 DEF Idle, Rested, Taken, currentAction, other
<1> QED
  BY Zenon, <1>3, IdleKeeps

(* An action which can not start.                                          *)
LEMMA FailedLaunchKeeps ==
  ASSUME NEW m, Ready(m), ~mayBegin(m.state, currentAction(m).operation)
  PROVE  ManagerInv(launchCurrentAction(m))
<1> DEFINE a == currentAction(m)
           failed == setCompletionResult(m, a.parent, "invalid state")
           g == [failed EXCEPT !.actions[m.current].conclusion = "none"]
           b == [a EXCEPT !.conclusion = "none"]
           acts == [m.actions EXCEPT ![m.current] = b]
           f == finishAction(g)
           x == f.asserts \cup (IF currentAction(f).inUse THEN {"no other action"} ELSE {})
<1>0. launchCurrentAction(m) = [f EXCEPT !.asserts = x]
  BY Zenon DEF launchCurrentAction
<1>1. m \in Manager
  BY Zenon DEF Ready
<1>2. /\ a \in Action /\ other(m) \in Action /\ next(m.current) \in 0 .. 1 /\ m.current \in 0 .. 1
      /\ m.state \in Administrative /\ m.actions \in [0 .. 1 -> Action] /\ next(m.current) # m.current
  BY Zenon, <1>1, ManagerParts, TwoActions
<1>3. m.state.state # "normal"
  <2>1. m.state.waiter = "none"
    BY Zenon, <1>2 DEF Administrative
  <2>2. ~isOperating(m.state)
    BY DEF isOperating, operatingCodes, Ready, Resting
  <2> QED
    BY <2>1, <2>2 DEF mayBegin, isQuiescent, quiescentCodes, Ready
<1>4. noneFinished(m, failed)
  <2>1. "invalid state" \in Results /\ a.parent \in Nat /\ a.parent <= Len(m.parents)
    BY Zenon, <1>2 DEF Results, Ready, Action
  <2> QED
    BY Zenon, <1>1, <2>1, ResultIsSet
<1>5. b \in Action /\ b.inUse = a.inUse /\ b.parent = a.parent /\ b.conclusion = "none"
  BY Zenon, <1>2 DEF Action
<1>6. acts \in [0 .. 1 -> Action] /\ acts[m.current] = b /\ acts[next(m.current)] = other(m)
  BY Zenon, <1>2, <1>5 DEF other
<1>7. g = [failed EXCEPT !.actions = acts]
  BY Zenon, <1>4 DEF noneFinished, sameButParents, currentAction
<1> HIDE DEF acts, b, a, failed, g
<1>8. /\ g \in Manager /\ g.actions = acts /\ g.parents = failed.parents
      /\ g.owner = m.owner /\ g.state = m.state /\ g.current = m.current
      /\ g.callback = m.callback /\ g.running = m.running /\ g.new = m.new /\ g.active = m.active /\ g.size = m.size
      /\ g.zones = m.zones /\ g.foundBusy = m.foundBusy
  BY Zenon, <1>4, <1>6, <1>7 DEF noneFinished, sameButParents, Manager
<1>9. /\ currentAction(g) = b /\ other(g) = other(m) /\ Len(g.parents) = Len(m.parents)
      /\ \A p \in 1 .. Len(m.parents) : g.parents[p].finished = m.parents[p].finished
  BY Zenon, <1>4, <1>6, <1>8 DEF noneFinished, sameButParents, currentAction, other
<1>10. finishIs(g, f)
  <2>1. ~mayScheduleDefaultAction(g)
    BY Zenon, <1>3, <1>8 DEF mayScheduleDefaultAction
  <2>2. currentAction(g).parent <= Len(g.parents)
    BY Zenon, <1>5, <1>9 DEF Ready, a
  <2> QED
    BY Zenon, <1>8, <2>1, <2>2, FinishIs DEF Ready
<1> HIDE DEF f
<1>11. Idle(f)
  <2>1. f.state.state = m.state.state
    BY <1>8, <1>10 DEF finishIs, Ready, Operations, Resting
  <2>2. f.size = m.size
    BY Zenon, <1>5, <1>8, <1>9, <1>10 DEF finishIs
  <2>3. ASSUME NEW p \in 1 .. Len(f.parents) PROVE f.parents[p].finished = 1
    <3>1. p \in 1 .. Len(m.parents) /\ p \in 1 .. Len(g.parents)
      BY Zenon, <1>9, <1>10 DEF finishIs
    <3>2. f.parents[p].finished = IF p = a.parent THEN g.parents[p].finished + 1 ELSE g.parents[p].finished
      BY Zenon, <1>5, <1>9, <1>10, <3>1 DEF finishIs
    <3>3. g.parents[p].finished = IF a.parent = p THEN 0 ELSE 1
      BY Zenon, <1>9, <3>1 DEF Ready, a
    <3> QED
      BY <3>2, <3>3
  <2>4. ASSUME NEW z \in ZoneNumbers
        PROVE  /\ f.zones[z].state = f.state.state /\ f.zones[z].saw = f.active
               /\ f.owner = "depot" => f.zones[z].size = f.size
    <3>1. f.zones = m.zones /\ f.active = m.active /\ f.owner = m.owner
      BY Zenon, <1>8, <1>10 DEF finishIs
    <3> QED
      BY Zenon, <2>1, <2>2, <3>1 DEF Ready
  <2>5. /\ f \in Manager /\ ~f.state.starting /\ ~f.state.complete /\ f.state.state \in Resting
        /\ f.callback = "none" /\ f.running = m.running /\ f.active = m.active /\ f.new = m.new
        /\ ~currentAction(f).inUse /\ ~other(f).inUse
    BY Zenon, <1>8, <1>9, <1>10 DEF finishIs, Ready
  <2>6. ~f.running /\ f.active <= f.new
    BY Zenon, <2>5 DEF Ready
  <2>7. Taken(f)
    <3>1. Taken(m)
      BY Zenon, <1>3 DEF Ready
    <3>2. f.foundBusy = m.foundBusy
      BY Zenon, <1>8, <1>10 DEF finishIs
    <3> QED
      BY Zenon, <2>5, <3>1, <3>2 DEF Taken
  <2> QED
    BY Zenon, <2>3, <2>4, <2>5, <2>6, <2>7 DEF Idle, Rested
<1>12. x \in {{}}
  BY Zenon, <1>11 DEF Idle, Rested, Manager
<1> HIDE DEF x
<1> QED
  BY Zenon, <1>0, <1>11, <1>12, AssertionsAreNoted

(* launchCurrentAction().                                                  *)
LEMMA ReadyLaunches ==
  ASSUME hasZones, NEW m, Ready(m)
  PROVE  ManagerInv(launchCurrentAction(m))
<1>1. CASE mayBegin(m.state, currentAction(m).operation)
  BY Zenon, <1>1, LaunchKeeps DEF launchCurrentAction
<1>2. CASE ~mayBegin(m.state, currentAction(m).operation)
  BY Zenon, <1>2, FailedLaunchKeeps
<1> QED
  BY Zenon, <1>1, <1>2

-----------------------------------------------------------------------------
(* The steps                                                               *)

(* The action in progress ends, and the one which waits is launched.       *)
LEMMA FinishActionKeeps ==
  ASSUME hasZones, NEW m, ManagerInv(m), ~m.running, m.callback = "finishAction"
  PROVE  ManagerInv(finishActionCallback(m))
<1> DEFINE a == currentAction(m)
           o == other(m)
           f == finishAction(m)
<1>1. /\ m \in Manager /\ a.inUse /\ m.state.state = a.operation /\ m.state.state \in Operations /\ isKnown(a, m.owner)
      /\ ~m.state.starting /\ ~m.state.complete /\ a.parent <= Len(m.parents)
      /\ o.inUse => isKnown(o, m.owner) /\ o.zoneAction # "see" /\ o.parent <= Len(m.parents)
      /\ o.inUse /\ m.state.nextState = "normal" => o.operation \notin quiescentCodes
  <2>1. m \in Manager /\ Held(m) /\ Operating(m) /\ Answered(m)
    BY Zenon DEF ManagerInv
  <2>2. m.current \in 0 .. 1 /\ next(m.current) \in 0 .. 1
    BY Zenon, <2>1, ManagerParts
  <2>3. a.inUse /\ m.state.state = a.operation /\ m.state.state \in Operations /\ ~m.state.starting /\ ~m.state.complete
    BY Zenon, <2>1 DEF Held, Operating
  <2>4. isKnown(a, m.owner) /\ (o.inUse => isKnown(o, m.owner) /\ o.zoneAction # "see")
    BY Zenon, <2>1, <2>2, <2>3 DEF Held, currentAction, other
  <2>5. a.parent <= Len(m.parents) /\ (o.inUse => o.parent <= Len(m.parents))
    BY Zenon, <2>1, <2>2, <2>3 DEF Answered, currentAction, other
  <2> QED
    BY Zenon, <2>1, <2>3, <2>4, <2>5 DEF Operating
<1>2. finishIs(m, f)
  <2>1. ~mayScheduleDefaultAction(m)
    BY <1>1 DEF mayScheduleDefaultAction, Operations
  <2> QED
    BY Zenon, <1>1, <2>1, FinishIs
<1> HIDE DEF a, o, f
<1>3. f.state.state = m.state.nextState
  BY Zenon, <1>1, <1>2 DEF finishIs
<1>4. ASSUME NEW z \in ZoneNumbers
      PROVE  /\ f.zones[z].state = f.state.state /\ f.zones[z].saw = f.active
             /\ f.owner = "depot" => f.zones[z].size = f.size
  <2>1. /\ f.zones = m.zones /\ f.active = m.active /\ f.owner = m.owner
        /\ f.size = IF a.conclusion = "finishRegistration" THEN m.size + 1 ELSE m.size
    BY Zenon, <1>2 DEF finishIs, a
  <2>2. zoneState(m, z) /\ zoneSaw(m, z) /\ (m.owner = "depot" => zoneSize(m, z))
    BY Zenon DEF ManagerInv, InZones
  <2>3. a.zoneAction \in {"none", "other"} \/ (z < m.actingZone /\ ~(z >= m.actingZone))
    <3>1. z < Zones /\ ~(z >= Zones)
      BY DEF ZoneNumbers, hasZones
    <3> QED
      BY Zenon, <3>1 DEF ManagerInv, InPhase, a
  <2>4. m.zones[z].state = m.state.nextState
    <3>1. CASE a.zoneAction = "drain"
      BY Zenon, <1>1, <2>2, <2>3, <3>1 DEF zoneState, a
    <3>2. CASE a.zoneAction = "resume"
      <4>1. m.state.nextState = "normal"
        BY <1>1, <3>2 DEF ManagerInv, Operating, follows, isKnown, a
      <4> QED
        BY Zenon, <1>1, <2>2, <2>3, <3>2, <4>1 DEF zoneState, a
    <3>3. CASE a.zoneAction \notin {"drain", "resume"}
      BY Zenon, <1>1, <2>2, <3>3 DEF zoneState, a
    <3> QED
      BY Zenon, <3>1, <3>2, <3>3
  <2>5. m.zones[z].saw = m.active
    BY Zenon, <2>2, <2>3 DEF zoneSaw, a
  <2>6. m.owner = "depot" => m.zones[z].size = IF a.conclusion = "finishRegistration" THEN m.size + 1 ELSE m.size
    BY Zenon, <1>1, <2>2, <2>3 DEF zoneSize, isKnown, a
  <2> QED
    BY Zenon, <1>3, <2>1, <2>4, <2>5, <2>6
<1>5. ASSUME NEW p \in 1 .. Len(f.parents)
      PROVE  f.parents[p].finished = IF o.inUse /\ o.parent = p THEN 0 ELSE 1
  <2>0. p \in 1 .. Len(m.parents)
    BY Zenon, <1>2 DEF finishIs
  <2>1. f.parents[p].finished = IF p = a.parent THEN m.parents[p].finished + 1 ELSE m.parents[p].finished
    BY Zenon, <1>2, <2>0 DEF finishIs, a
  <2>2. m.parents[p].finished = IF \E i \in 0 .. 1 : m.actions[i].inUse /\ m.actions[i].parent = p THEN 0 ELSE 1
    BY Zenon, <2>0 DEF ManagerInv, Answered
  <2>3. (\E i \in 0 .. 1 : m.actions[i].inUse /\ m.actions[i].parent = p) <=> a.parent = p \/ (o.inUse /\ o.parent = p)
    BY Zenon, <1>1, TwoActions, ManagerParts DEF a, o, currentAction, other
  <2>4. o.inUse => o.parent # a.parent
    <3>1. m.current \in 0 .. 1
      BY Zenon, <1>1, ManagerParts
    <3>2. m.actions[0].inUse /\ m.actions[1].inUse => m.actions[0].parent # m.actions[1].parent
      BY Zenon DEF ManagerInv, Answered
    <3>3. CASE m.current = 0
      BY <1>1, <3>2, <3>3 DEF a, o, currentAction, other, next
    <3>4. CASE m.current = 1
      BY <1>1, <3>2, <3>4 DEF a, o, currentAction, other, next
    <3> QED
      BY <3>1, <3>3, <3>4
  <2>5. CASE p = a.parent
    BY <2>1, <2>2, <2>3, <2>4, <2>5
  <2>6. CASE p # a.parent
    BY Zenon, <2>1, <2>2, <2>3, <2>6
  <2> QED
    BY Zenon, <2>5, <2>6
<1>6. /\ f \in Manager /\ ~f.state.starting /\ ~f.state.complete /\ f.state.state \in Resting
      /\ f.callback = "none" /\ ~f.running /\ f.active <= f.new /\ ~other(f).inUse /\ currentAction(f) = o
      /\ Taken(f)
  <2>1. m.active <= m.new /\ Taken(m)
    BY Zenon DEF ManagerInv, Served
  <2>2. Taken(f)
    BY Zenon, <1>2, <2>1 DEF finishIs, Taken
  <2> QED
    BY Zenon, <1>2, <2>1, <2>2 DEF finishIs, o
<1>7. CASE o.inUse
  <2>1. isKnown(o, f.owner) /\ o.parent <= Len(f.parents)
    BY Zenon, <1>1, <1>2, <1>7 DEF finishIs
  <2>2. Ready(f)
    BY Zenon, <1>1, <1>3, <1>4, <1>5, <1>6, <1>7, <2>1 DEF Ready
  <2> QED
    BY Zenon, <1>6, <1>7, <2>2, ReadyLaunches DEF finishActionCallback, f
<1>8. CASE ~o.inUse
  <2>1. Idle(f)
    BY Zenon, <1>4, <1>5, <1>6, <1>8 DEF Idle, Rested
  <2>2. finishActionCallback(m) = f
    BY Zenon, <1>6, <1>8 DEF finishActionCallback, f
  <2> QED
    BY Zenon, <2>1, <2>2, IdleKeeps
<1> QED
  BY Zenon, <1>7, <1>8

(* A manager without a current action.                                     *)
LEMMA AnIdleManager ==
  ASSUME NEW m, ManagerInv(m), ~currentAction(m).inUse
  PROVE  Idle(m)
<1>1. m \in Manager /\ Held(m)
  BY Zenon DEF ManagerInv
<1>2. \A i \in 0 .. 1 : ~m.actions[i].inUse
  BY Zenon, <1>1, TwoActions, ManagerParts DEF Held, currentAction, other
<1>3. m.state.state \in Resting
  BY Zenon, <1>1, ManagerParts DEF Held, Administrative
<1>4. \A p \in 1 .. Len(m.parents) : m.parents[p].finished = 1
  BY Zenon, <1>2 DEF ManagerInv, Answered
<1>5. \A z \in ZoneNumbers : /\ m.zones[z].state = m.state.state /\ m.zones[z].saw = m.active
                             /\ m.owner = "depot" => m.zones[z].size = m.size
  BY Zenon DEF ManagerInv, InZones, zoneState, zoneSaw, zoneSize
<1>6. m.active <= m.new /\ Taken(m)
  BY Zenon DEF ManagerInv, Served
<1> QED
  BY Zenon, <1>1, <1>3, <1>4, <1>5, <1>6 DEF Held, Idle, Rested

(* A manager which holds no action takes one.                              *)
LEMMA ActionIsTaken ==
  ASSUME NEW m, Rested(m), NEW a \in Action, a.inUse, isKnown(a, m.owner), a.parent <= Len(m.parents),
         m.state.state = "normal" => a.operation \notin quiescentCodes,
         a.zoneAction = "see" => m.active < m.new /\ m.state.state = "normal", a.zoneAction = "see" \/ Taken(m),
         \A p \in 1 .. Len(m.parents) : m.parents[p].finished = IF a.parent = p THEN 0 ELSE 1
  PROVE  Ready([m EXCEPT !.actions[m.current] = a])
<1> DEFINE acts == [m.actions EXCEPT ![m.current] = a]
           r == [m EXCEPT !.actions = acts]
<1>1. /\ m \in Manager /\ next(m.current) \in 0 .. 1 /\ m.current \in 0 .. 1
      /\ m.actions \in [0 .. 1 -> Action] /\ next(m.current) # m.current
  BY Zenon, ManagerParts, TwoActions DEF Rested
<1>2. acts \in [0 .. 1 -> Action] /\ acts[m.current] = a /\ acts[next(m.current)] = other(m)
  BY Zenon, <1>1 DEF other
<1>3. [m EXCEPT !.actions[m.current] = a] = r
  BY Zenon
<1> HIDE DEF acts
<1>4. /\ r \in Manager /\ r.actions = acts
      /\ r.owner = m.owner /\ r.state = m.state /\ r.current = m.current
      /\ r.callback = m.callback /\ r.running = m.running /\ r.new = m.new /\ r.active = m.active /\ r.size = m.size
      /\ r.zones = m.zones /\ r.parents = m.parents /\ r.foundBusy = m.foundBusy
  BY Zenon, <1>1, <1>2 DEF Manager
<1> HIDE DEF r
<1>5. currentAction(r) = a /\ other(r) = other(m)
  BY Zenon, <1>2, <1>4 DEF currentAction, other
<1>6. Ready(r)
  <2>1. \A p \in 1 .. Len(r.parents) : r.parents[p].finished = IF currentAction(r).parent = p THEN 0 ELSE 1
    BY Zenon, <1>4, <1>5
  <2>2. \A z \in ZoneNumbers : /\ r.zones[z].state = r.state.state /\ r.zones[z].saw = r.active
                               /\ r.owner = "depot" => r.zones[z].size = r.size
    BY Zenon, <1>4 DEF Rested
  <2>3. /\ r \in Manager /\ ~r.state.starting /\ ~r.state.complete /\ r.state.state \in Resting
        /\ r.callback = "none" /\ ~r.running /\ r.active <= r.new /\ ~other(r).inUse
    BY Zenon, <1>4, <1>5 DEF Rested
  <2>4. /\ isKnown(currentAction(r), r.owner) /\ currentAction(r).parent <= Len(r.parents) /\ currentAction(r).inUse
        /\ r.state.state = "normal" => currentAction(r).operation \notin quiescentCodes
        /\ currentAction(r).zoneAction = "see" => r.active < r.new /\ r.state.state = "normal"
        /\ currentAction(r).zoneAction = "see" \/ Taken(r)
    BY Zenon, <1>4, <1>5 DEF Taken
  <2> QED
    BY Zenon, <2>1, <2>2, <2>3, <2>4 DEF Ready
<1> QED
  BY Zenon, <1>3, <1>6

(* The manager when it is made.                                            *)
LEMMA InitIsIdle ==
  ASSUME hasZones, NEW owner \in {"depot", "blockMap"}
  PROVE  ManagerInv(makeActionManager(owner))
<1> DEFINE s == adminState("normal")
           acts == [i \in 0 .. 1 |-> noAction]
           zones == [z \in ZoneNumbers |-> [state |-> "normal", saw |-> 0, size |-> 0]]
           m == makeActionManager(owner)
<1>0. 0 \in Nat /\ 0 \in 0 .. 1 /\ 0 <= 0
  OBVIOUS
<1>1. s \in Administrative /\ ~s.starting /\ ~s.complete /\ s.state = "normal"
  BY Zenon DEF adminState, Administrative, Resting
<1>2. noAction \in Action /\ ~noAction.inUse
  BY Zenon, <1>0 DEF noAction, Action, Preambles, ZoneActions
<1>3. acts \in [0 .. 1 -> Action] /\ \A i \in 0 .. 1 : ~acts[i].inUse
  BY Zenon, <1>2
<1>4. /\ zones \in [ZoneNumbers -> [state : Resting, saw : Nat, size : Nat]]
      /\ \A z \in ZoneNumbers : zones[z].state = "normal" /\ zones[z].saw = 0 /\ zones[z].size = 0
  BY Zenon, <1>0 DEF Resting
<1>5. << >> \in Seq(Parent) /\ Len(<< >>) = 0 /\ \A p \in 1 .. 0 : FALSE
  OBVIOUS
<1>6. m = [owner |-> owner, state |-> s, actions |-> acts, current |-> 0, actingZone |-> 0,
           callback |-> "none", running |-> FALSE, result |-> "ok", new |-> 0, active |-> 0, size |-> 0,
           zones |-> zones, parents |-> <<>>, faults |-> 0, foundBusy |-> FALSE, asserts |-> {}]
  BY Zenon DEF makeActionManager
<1> HIDE DEF m, s, acts, zones
<1>7. m \in Manager
  BY Zenon, <1>0, <1>1, <1>3, <1>4, <1>5, <1>6 DEF Manager, Results
<1>8. /\ m.owner = owner /\ m.state = s /\ m.actions = acts /\ m.current = 0 /\ m.callback = "none" /\ ~m.running
      /\ m.new = 0 /\ m.active = 0 /\ m.size = 0 /\ m.zones = zones /\ m.parents = << >>
  BY Zenon, <1>6
<1>9. ~currentAction(m).inUse /\ ~other(m).inUse
  BY Zenon, <1>0, <1>3, <1>8, TwoActions DEF currentAction, other
<1>10. "normal" \in Resting
  BY Zenon DEF Resting
<1>11. Taken(m)
  BY Zenon, <1>8 DEF Taken
<1>12. Idle(m)
  BY Zenon, <1>0, <1>1, <1>4, <1>5, <1>7, <1>8, <1>9, <1>10, <1>11 DEF Idle, Rested
<1> QED
  BY Zenon, <1>8, <1>12, IdleKeeps DEF m

(* The zones of a step which changes neither them nor what they depend on. *)
LEMMA ZonesStay ==
  ASSUME NEW m, InZones(m), NEW r, currentAction(r) = currentAction(m), r.zones = m.zones, r.state = m.state,
         r.actingZone = m.actingZone, r.active = m.active, r.size = m.size, r.owner = m.owner
  PROVE  InZones(r)
<1> SUFFICES ASSUME NEW z \in ZoneNumbers PROVE zoneState(r, z) /\ zoneSaw(r, z) /\ (r.owner = "depot" => zoneSize(r, z))
  BY Zenon DEF InZones
<1>1. zoneState(m, z) /\ zoneSaw(m, z) /\ (m.owner = "depot" => zoneSize(m, z))
  BY Zenon DEF InZones
<1>2. zoneState(r, z)
  BY Zenon, <1>1 DEF zoneState
<1>3. zoneSaw(r, z)
  BY Zenon, <1>1 DEF zoneSaw
<1>4. r.owner = "depot" => zoneSize(r, z)
  BY Zenon, <1>1 DEF zoneSize
<1> QED
  BY Zenon, <1>2, <1>3, <1>4

(* A request, or the same request once more: `new' is all that changed.    *)
isAsked(m, x) ==
  /\ x \in Manager /\ x.active <= x.new
  /\ x.owner = m.owner /\ x.state = m.state /\ x.actions = m.actions /\ x.current = m.current
  /\ x.actingZone = m.actingZone /\ x.callback = m.callback /\ x.running = m.running
  /\ x.active = m.active /\ x.size = m.size /\ x.zones = m.zones /\ x.parents = m.parents
  /\ x.state.state # "normal" => x.foundBusy

(* scheduleDefaultAction() starts the default action or leaves the manager *)
(* as it is.                                                               *)
LEMMA DefaultActionKeeps ==
  ASSUME hasZones, NEW m, ManagerInv(m), NEW x, isAsked(m, x)
  PROVE  ManagerInv(scheduleDefaultAction(x))
<1>1. x \in Manager /\ currentAction(x) = currentAction(m) /\ other(x) = other(m)
  BY Zenon DEF isAsked, currentAction, other
<1>2. CASE mayScheduleDefaultAction(x)
  <2> DEFINE a == defaultActionOf(x)
  <2>1. /\ a \in Action /\ a.inUse /\ a.parent = 0 /\ a.operation = "operating" /\ isKnown(a, x.owner)
        /\ a.zoneAction = "see"
    BY Zenon, <1>1, DefaultActionsAreKnown
  <2> HIDE DEF a
  <2>2. m.state.state = "normal" /\ x.state.state = "normal" /\ x.new # x.active
    BY Zenon, <1>2 DEF mayScheduleDefaultAction, isAsked
  <2>3. ~currentAction(m).inUse
    BY <2>2 DEF ManagerInv, Held, Operations
  <2>4. Idle(m)
    BY Zenon, <2>3, AnIdleManager
  <2>5. Rested(x)
    BY Zenon, <1>1, <2>4 DEF Idle, Rested, isAsked
  <2>6. x.active < x.new
    BY <2>2 DEF isAsked, Manager
  <2>7. Len(x.parents) \in Nat /\ a.parent <= Len(x.parents) /\ \A p \in 1 .. Len(x.parents) : a.parent # p
    BY <1>1, <2>1 DEF Manager
  <2>8. \A p \in 1 .. Len(x.parents) : x.parents[p].finished = IF a.parent = p THEN 0 ELSE 1
    BY Zenon, <2>4, <2>7 DEF Idle, isAsked
  <2>9. a.operation \notin quiescentCodes
    BY <2>1 DEF quiescentCodes
  <2>10. Ready([x EXCEPT !.actions[x.current] = a])
    BY Zenon, <2>1, <2>2, <2>5, <2>6, <2>7, <2>8, <2>9, ActionIsTaken
  <2>11. scheduleDefaultAction(x) = launchCurrentAction([x EXCEPT !.actions[x.current] = a])
    BY Zenon, <1>1, <1>2, <2>3 DEF scheduleDefaultAction, scheduleOperationWithContext, a
  <2> QED
    BY Zenon, <2>10, <2>11, ReadyLaunches
<1>3. CASE ~mayScheduleDefaultAction(x)
  <2> DEFINE r == x
  <2>2. scheduleDefaultAction(x) = r
    BY Zenon, <1>3 DEF scheduleDefaultAction
  <2>3. isAsked(m, r) /\ r.new = x.new /\ r.foundBusy = x.foundBusy
    BY Zenon
  <2> HIDE DEF r
  <2>4. r \in Manager /\ currentAction(r) = currentAction(m) /\ other(r) = other(m)
    BY Zenon, <2>3 DEF isAsked, currentAction, other
  <2>5. Held(r) /\ Operating(r)
    BY Zenon, <2>3, <2>4 DEF isAsked, ManagerInv, Held, Operating
  <2>6. Answered(r)
    <3>1. Answered(m) /\ r.actions = m.actions /\ r.parents = m.parents
      BY Zenon, <2>3 DEF isAsked, ManagerInv
    <3> QED
      BY <3>1 DEF Answered
  <2>7. InPhase(r)
    BY Zenon, <2>3, <2>4 DEF isAsked, ManagerInv, InPhase
  <2>8. InZones(r)
    <3>0. /\ InZones(m) /\ r.zones = m.zones /\ r.state = m.state /\ r.actingZone = m.actingZone /\ r.active = m.active
          /\ r.size = m.size /\ r.owner = m.owner
      BY Zenon, <2>3 DEF isAsked, ManagerInv
    <3> QED
      BY Zenon, <2>4, <3>0, ZonesStay
  <2>9. Served(r)
    BY Zenon, <1>3, <2>3 DEF mayScheduleDefaultAction, isAsked, Served, Taken, r
  <2> QED
    BY Zenon, <2>2, <2>4, <2>5, <2>6, <2>7, <2>8, <2>9 DEF ManagerInv
<1> QED
  BY Zenon, <1>2, <1>3

(* What the end of a preamble, or of a zone's work, changes.               *)
isWorkDone(m, r) ==
  /\ r \in Manager /\ ~r.running
  /\ r.owner = m.owner /\ r.state = m.state /\ r.actions = m.actions /\ r.current = m.current
  /\ r.actingZone = m.actingZone /\ r.new = m.new /\ r.active = m.active /\ r.size = m.size
  /\ r.zones = m.zones /\ r.foundBusy = m.foundBusy /\ Len(r.parents) = Len(m.parents)
  /\ \A p \in 1 .. Len(m.parents) : r.parents[p].finished = m.parents[p].finished
  /\ r.callback = m.callback \/ (m.callback = "applyToZone" /\ m.actingZone = 0 /\ r.callback = "finishAction")

(* It does not disturb the invariant.                                      *)
LEMMA WorkDoneKeeps ==
  ASSUME NEW m, ManagerInv(m), m.running, NEW r, isWorkDone(m, r)
  PROVE  ManagerInv(r)
<1>1. r \in Manager /\ currentAction(r) = currentAction(m) /\ other(r) = other(m)
  BY Zenon DEF isWorkDone, currentAction, other
<1>2. Held(r) /\ Operating(r)
  BY Zenon, <1>1 DEF isWorkDone, ManagerInv, Held, Operating
<1>3. Answered(r)
  <2>1. \A i \in 0 .. 1 : r.actions[i].inUse => r.actions[i].parent <= Len(r.parents)
    BY Zenon DEF isWorkDone, ManagerInv, Answered
  <2>2. r.actions[0].inUse /\ r.actions[1].inUse => r.actions[0].parent # r.actions[1].parent
    BY Zenon DEF isWorkDone, ManagerInv, Answered
  <2>3. ASSUME NEW p \in 1 .. Len(r.parents)
        PROVE  r.parents[p].finished = IF \E i \in 0 .. 1 : r.actions[i].inUse /\ r.actions[i].parent = p THEN 0 ELSE 1
    <3>1. p \in 1 .. Len(m.parents) /\ r.actions = m.actions
      BY Zenon DEF isWorkDone
    <3>2. r.parents[p].finished = m.parents[p].finished
      BY Zenon, <3>1 DEF isWorkDone
    <3>3. Answered(m)
      BY Zenon DEF ManagerInv
    <3>4. m.parents[p].finished = IF \E i \in 0 .. 1 : m.actions[i].inUse /\ m.actions[i].parent = p THEN 0 ELSE 1
      BY Zenon, <3>1, <3>3 DEF Answered
    <3> QED
      BY Zenon, <3>1, <3>2, <3>4
  <2> QED
    BY Zenon, <2>1, <2>2, <2>3 DEF Answered
<1>4. InPhase(r)
  BY Zenon, <1>1 DEF isWorkDone, ManagerInv, InPhase
<1>5. InZones(r)
  <2>0. /\ InZones(m) /\ r.zones = m.zones /\ r.state = m.state /\ r.actingZone = m.actingZone /\ r.active = m.active
        /\ r.size = m.size /\ r.owner = m.owner
    BY Zenon DEF isWorkDone, ManagerInv
  <2> QED
    BY Zenon, <1>1, <2>0, ZonesStay
<1>6. Served(r)
  BY Zenon DEF isWorkDone, ManagerInv, Served, Taken
<1> QED
  BY Zenon, <1>1, <1>2, <1>3, <1>4, <1>5, <1>6 DEF ManagerInv

(* preserveErrorAndContinue() changes nothing else than the completions.   *)
isTold(m, r) ==
  /\ r \in Manager /\ ~r.running
  /\ r.owner = m.owner /\ r.state = m.state /\ r.actions = m.actions /\ r.current = m.current
  /\ r.actingZone = m.actingZone /\ r.new = m.new /\ r.active = m.active /\ r.size = m.size
  /\ r.zones = m.zones /\ r.foundBusy = m.foundBusy /\ r.callback = m.callback
  /\ Len(r.parents) = Len(m.parents)
  /\ \A p \in 1 .. Len(m.parents) : r.parents[p].finished = m.parents[p].finished

(* The parent of an action is told of an error.                            *)
LEMMA ErrorIsPreserved ==
  ASSUME NEW m \in Manager, currentAction(m).parent <= Len(m.parents)
  PROVE  isTold(m, preserveErrorAndContinue(m))
<1> DEFINE s == setCompletionResult(m, currentAction(m).parent, m.result)
           r == [s EXCEPT !.result = "ok", !.running = FALSE]
<1>1. currentAction(m).parent \in Nat /\ m.result \in Results /\ "ok" \in Results
  BY Zenon, ManagerParts DEF Action, Manager, Results
<1>2. noneFinished(m, s)
  BY Zenon, <1>1, ResultIsSet
<1>3. preserveErrorAndContinue(m) = r
  BY Zenon DEF preserveErrorAndContinue
<1> HIDE DEF s
<1>4. s \in Manager
  BY Zenon, <1>2 DEF noneFinished, sameButParents
<1>5. /\ r \in Manager /\ ~r.running /\ r.parents = s.parents
      /\ r.owner = s.owner /\ r.state = s.state /\ r.actions = s.actions /\ r.current = s.current
      /\ r.actingZone = s.actingZone /\ r.new = s.new /\ r.active = s.active /\ r.size = s.size
      /\ r.zones = s.zones /\ r.foundBusy = s.foundBusy /\ r.callback = s.callback
  BY Zenon, <1>1, <1>4 DEF Manager
<1> HIDE DEF r
<1>6. isTold(m, r)
  BY Zenon, <1>2, <1>5 DEF noneFinished, sameButParents, isTold
<1> QED
  BY Zenon, <1>3, <1>6

(* The three ways in which the work of a preamble or of a zone ends.       *)
LEMMA WorkEnds ==
  ASSUME NEW m, ManagerInv(m), m.running, NEW result \in Results, NEW n \in Nat, NEW r,
         LET x == [m EXCEPT !.result = result, !.faults = n]
         IN  r = IF result = "ok" THEN [x EXCEPT !.running = FALSE]
                 ELSE IF x.callback = "applyToZone" /\ x.actingZone = 0 THEN handlePreambleError(x)
                 ELSE preserveErrorAndContinue(x)
  PROVE  ManagerInv(r)
<1> DEFINE x == [m EXCEPT !.result = result, !.faults = n]
<1>1. m \in Manager /\ currentAction(m).parent <= Len(m.parents)
  <2>1. m \in Manager /\ m.current \in 0 .. 1 /\ currentAction(m).inUse
    BY Zenon, ManagerParts DEF ManagerInv, Held
  <2> QED
    BY Zenon, <2>1 DEF ManagerInv, Answered, currentAction
<1>2. /\ x \in Manager
      /\ x.owner = m.owner /\ x.state = m.state /\ x.actions = m.actions /\ x.current = m.current
      /\ x.actingZone = m.actingZone /\ x.new = m.new /\ x.active = m.active /\ x.size = m.size
      /\ x.zones = m.zones /\ x.foundBusy = m.foundBusy /\ x.callback = m.callback /\ x.parents = m.parents
  BY Zenon, <1>1 DEF Manager
<1>3. r = IF result = "ok" THEN [x EXCEPT !.running = FALSE]
          ELSE IF x.callback = "applyToZone" /\ x.actingZone = 0 THEN handlePreambleError(x)
          ELSE preserveErrorAndContinue(x)
  BY Zenon
<1> HIDE DEF x
<1>4. CASE result = "ok"
  <2>1. r = [x EXCEPT !.running = FALSE]
    BY Zenon, <1>3, <1>4
  <2>2. isWorkDone(m, r)
    BY Zenon, <1>2, <2>1 DEF isWorkDone, Manager
  <2> QED
    BY Zenon, <2>2, WorkDoneKeeps
<1>5. CASE result # "ok" /\ x.callback = "applyToZone" /\ x.actingZone = 0
  <2> DEFINE y == [x EXCEPT !.callback = "finishAction"]
  <2>1. r = preserveErrorAndContinue(y)
    BY Zenon, <1>3, <1>5 DEF handlePreambleError
  <2>2. /\ y \in Manager /\ y.callback = "finishAction"
        /\ y.owner = x.owner /\ y.state = x.state /\ y.actions = x.actions /\ y.current = x.current
        /\ y.actingZone = x.actingZone /\ y.new = x.new /\ y.active = x.active /\ y.size = x.size
        /\ y.zones = x.zones /\ y.foundBusy = x.foundBusy /\ y.parents = x.parents
    BY Zenon, <1>2 DEF Manager
  <2> HIDE DEF y
  <2>3. currentAction(y).parent <= Len(y.parents)
    BY Zenon, <1>1, <1>2, <2>2 DEF currentAction
  <2>4. isTold(y, r)
    BY Zenon, <2>1, <2>2, <2>3, ErrorIsPreserved
  <2>5. isWorkDone(m, r)
    <3>1. y.parents = m.parents
      BY Zenon, <1>2, <2>2
    <3>2. Len(r.parents) = Len(y.parents) /\ \A p \in 1 .. Len(y.parents) : r.parents[p].finished = y.parents[p].finished
      BY Zenon, <2>4 DEF isTold
    <3>3. Len(r.parents) = Len(m.parents) /\ \A p \in 1 .. Len(m.parents) : r.parents[p].finished = m.parents[p].finished
      BY Zenon, <3>1, <3>2
    <3>4. /\ r \in Manager /\ ~r.running
          /\ r.owner = y.owner /\ r.state = y.state /\ r.actions = y.actions /\ r.current = y.current
          /\ r.actingZone = y.actingZone /\ r.new = y.new /\ r.active = y.active /\ r.size = y.size
          /\ r.zones = y.zones /\ r.foundBusy = y.foundBusy /\ r.callback = y.callback
      BY Zenon, <2>4 DEF isTold
    <3> QED
      BY Zenon, <1>2, <1>5, <2>2, <3>3, <3>4 DEF isWorkDone
  <2> QED
    BY Zenon, <2>5, WorkDoneKeeps
<1>6. CASE result # "ok" /\ ~(x.callback = "applyToZone" /\ x.actingZone = 0)
  <2>1. r = preserveErrorAndContinue(x)
    BY Zenon, <1>3, <1>6
  <2>3. currentAction(x).parent <= Len(x.parents)
    BY Zenon, <1>1, <1>2 DEF currentAction
  <2>4. isTold(x, r)
    BY Zenon, <1>2, <2>1, <2>3, ErrorIsPreserved
  <2>5. isWorkDone(m, r)
    <3>1. x.parents = m.parents
      BY Zenon, <1>2
    <3>2. Len(r.parents) = Len(x.parents) /\ \A p \in 1 .. Len(x.parents) : r.parents[p].finished = x.parents[p].finished
      BY Zenon, <2>4 DEF isTold
    <3>3. Len(r.parents) = Len(m.parents) /\ \A p \in 1 .. Len(m.parents) : r.parents[p].finished = m.parents[p].finished
      BY Zenon, <3>1, <3>2
    <3>4. /\ r \in Manager /\ ~r.running
          /\ r.owner = x.owner /\ r.state = x.state /\ r.actions = x.actions /\ r.current = x.current
          /\ r.actingZone = x.actingZone /\ r.new = x.new /\ r.active = x.active /\ r.size = x.size
          /\ r.zones = x.zones /\ r.foundBusy = x.foundBusy /\ r.callback = x.callback
      BY Zenon, <2>4 DEF isTold
    <3> QED
      BY Zenon, <1>2, <3>3, <3>4 DEF isWorkDone
  <2> QED
    BY Zenon, <2>5, WorkDoneKeeps
<1> QED
  BY Zenon, <1>4, <1>5, <1>6

(* What the action does to the zone.                                       *)
toZoneIs(m, r, z, name) ==
  /\ r \in Manager
  /\ r.owner = m.owner /\ r.state = m.state /\ r.actions = m.actions /\ r.current = m.current
  /\ r.actingZone = m.actingZone /\ r.callback = m.callback /\ r.running = m.running
  /\ r.new = m.new /\ r.active = m.active /\ r.size = m.size /\ r.foundBusy = m.foundBusy /\ r.parents = m.parents
  /\ \A k \in ZoneNumbers : k # z => r.zones[k] = m.zones[k]
  /\ r.zones[z].state = IF name = "drain" THEN getNextState(m.zones[z].state, m.state.state)
                        ELSE IF name = "resume" THEN "normal" ELSE m.zones[z].state
  /\ r.zones[z].saw = IF name = "see" THEN m.active ELSE m.zones[z].saw
  /\ r.zones[z].size = IF name = "grow" THEN m.zones[z].size + 1 ELSE m.zones[z].size

oneZone(m, r, z, v) ==
  /\ r \in Manager
  /\ r.owner = m.owner /\ r.state = m.state /\ r.actions = m.actions /\ r.current = m.current
  /\ r.actingZone = m.actingZone /\ r.callback = m.callback /\ r.running = m.running
  /\ r.new = m.new /\ r.active = m.active /\ r.size = m.size /\ r.foundBusy = m.foundBusy /\ r.parents = m.parents
  /\ r.zones[z] = v /\ \A k \in ZoneNumbers : k # z => r.zones[k] = m.zones[k]

(* A change of one zone.                                                   *)
LEMMA ZoneChanges ==
  ASSUME NEW m \in Manager, NEW z \in ZoneNumbers, NEW v \in [state : Resting, saw : Nat, size : Nat],
         NEW result \in Results, NEW r,
         r = [m EXCEPT !.zones = [m.zones EXCEPT ![z] = v], !.result = result]
         \/ r = [m EXCEPT !.zones = [m.zones EXCEPT ![z] = v]]
  PROVE  oneZone(m, r, z, v)
<1> DEFINE zones == [m.zones EXCEPT ![z] = v]
<1>1. m.zones \in [ZoneNumbers -> [state : Resting, saw : Nat, size : Nat]]
  BY Zenon DEF Manager
<1>2. /\ zones \in [ZoneNumbers -> [state : Resting, saw : Nat, size : Nat]] /\ zones[z] = v
      /\ \A k \in ZoneNumbers : k # z => zones[k] = m.zones[k]
  BY Zenon, <1>1
<1> HIDE DEF zones
<1>3. CASE r = [m EXCEPT !.zones = zones, !.result = result]
  BY Zenon, <1>2, <1>3 DEF Manager, oneZone
<1>4. CASE r = [m EXCEPT !.zones = zones]
  BY Zenon, <1>2, <1>4 DEF Manager, oneZone
<1> QED
  BY Zenon, <1>3, <1>4 DEF zones

(* The five kinds of zone actions.                                         *)
LEMMA ToZoneIs ==
  ASSUME NEW m \in Manager, NEW z \in ZoneNumbers, NEW name \in ZoneActions \ {"none"},
         name = "drain" => m.zones[z].state = "normal" /\ m.state.state \in Operations
  PROVE  toZoneIs(m, toZone(m, z, name), z, name)
<1> DEFINE w == m.zones[z]
           r == toZone(m, z, name)
<1>1. w \in [state : Resting, saw : Nat, size : Nat] /\ m.active \in Nat
  BY Zenon DEF Manager
<1>2. w.state \in Resting /\ w.saw \in Nat /\ w.size \in Nat
  BY Zenon, <1>1
<1>3. CASE name = "drain"
  <2> DEFINE s == getNextState(w.state, m.state.state)
             v == [w EXCEPT !.state = s]
  <2>1. s \in Resting
    BY <1>2 DEF getNextState, quiescingCodes, Resting
  <2>2. r = [m EXCEPT !.zones = [m.zones EXCEPT ![z] = v]]
    BY Zenon, <1>3 DEF toZone, drainZone
  <2> HIDE DEF s
  <2>3. v \in [state : Resting, saw : Nat, size : Nat] /\ v.state = s /\ v.saw = w.saw /\ v.size = w.size
    BY Zenon, <1>1, <2>1
  <2> HIDE DEF v, r
  <2>4. oneZone(m, r, z, v)
    BY Zenon, <2>2, <2>3, ZoneChanges DEF Results
  <2>5. toZoneIs(m, r, z, name)
    BY Zenon, <1>3, <2>3, <2>4 DEF oneZone, toZoneIs, s
  <2> QED
    BY Zenon, <2>5 DEF r
<1>4. CASE name = "resume"
  <2> DEFINE result == IF w.state \in quiescentCodes THEN "ok" ELSE "invalid state"
             v == [w EXCEPT !.state = "normal"]
  <2>1. result \in Results /\ "normal" \in Resting
    BY Zenon DEF Results, Resting
  <2>2. r = [m EXCEPT !.zones = [m.zones EXCEPT ![z] = v], !.result = result]
    BY Zenon, <1>4 DEF toZone, resumeBlockMapZone
  <2> HIDE DEF result
  <2>3. v \in [state : Resting, saw : Nat, size : Nat] /\ v.state = "normal" /\ v.saw = w.saw /\ v.size = w.size
    BY Zenon, <1>1, <2>1
  <2> HIDE DEF v, r
  <2>4. oneZone(m, r, z, v)
    BY Zenon, <2>1, <2>2, <2>3, ZoneChanges
  <2>5. toZoneIs(m, r, z, name)
    BY Zenon, <1>4, <2>3, <2>4 DEF oneZone, toZoneIs
  <2> QED
    BY Zenon, <2>5 DEF r
<1>5. CASE name = "see"
  <2> DEFINE v == [w EXCEPT !.saw = m.active]
  <2>2. r = [m EXCEPT !.zones = [m.zones EXCEPT ![z] = v]]
    BY Zenon, <1>5 DEF toZone, advanceBlockMapZoneEra
  <2>3. v \in [state : Resting, saw : Nat, size : Nat] /\ v.state = w.state /\ v.saw = m.active /\ v.size = w.size
    BY Zenon, <1>1
  <2> HIDE DEF v, r
  <2>4. oneZone(m, r, z, v)
    BY Zenon, <2>2, <2>3, ZoneChanges DEF Results
  <2>5. toZoneIs(m, r, z, name)
    BY Zenon, <1>5, <2>3, <2>4 DEF oneZone, toZoneIs
  <2> QED
    BY Zenon, <2>5 DEF r
<1>6. CASE name = "grow"
  <2> DEFINE n == w.size + 1
             v == [w EXCEPT !.size = n]
  <2>1. n \in Nat
    BY <1>2
  <2>2. r = [m EXCEPT !.zones = [m.zones EXCEPT ![z] = v]]
    BY Zenon, <1>6 DEF toZone, registerNewSlabsForAllocator
  <2> HIDE DEF n
  <2>3. v \in [state : Resting, saw : Nat, size : Nat] /\ v.state = w.state /\ v.saw = w.saw /\ v.size = n
    BY Zenon, <1>1, <2>1
  <2> HIDE DEF v, r
  <2>4. oneZone(m, r, z, v)
    BY Zenon, <2>2, <2>3, ZoneChanges DEF Results
  <2>5. toZoneIs(m, r, z, name)
    BY Zenon, <1>6, <2>3, <2>4 DEF oneZone, toZoneIs, n
  <2> QED
    BY Zenon, <2>5 DEF r
<1>7. CASE name = "other"
  <2>1. r = m
    BY Zenon, <1>7 DEF toZone
  <2> QED
    BY Zenon, <1>7, <2>1 DEF toZoneIs
<1> QED
  BY Zenon, <1>3, <1>4, <1>5, <1>6, <1>7 DEF ZoneActions

(* The action in progress is applied to the acting zone.                   *)
LEMMA ApplyToZoneKeeps ==
  ASSUME hasZones, NEW m, ManagerInv(m), ~m.running, m.callback = "applyToZone"
  PROVE  ManagerInv(applyToZone(m))
<1> DEFINE a == currentAction(m)
           z == m.actingZone
           z1 == z + 1
           n == [m EXCEPT !.actingZone = z1]
           p == IF z1 = Zones THEN prepareForConclusion(n) ELSE prepareForNextZone(n)
           y == [p EXCEPT !.running = TRUE]
           r == toZone(y, z, a.zoneAction)
<1>0. m \in Manager /\ Held(m) /\ Operating(m) /\ Answered(m) /\ InPhase(m) /\ InZones(m) /\ Served(m)
  BY Zenon DEF ManagerInv
<1>1. /\ a \in Action /\ a.inUse /\ a.zoneAction # "none" /\ z < Zones /\ isKnown(a, m.owner)
      /\ m.state.state = a.operation /\ m.state.state \in Operations /\ follows(m.state.state, m.state.nextState)
  BY Zenon, <1>0, ManagerParts DEF Held, InPhase, Operating, currentAction
<1>2. z \in Nat /\ z1 \in Nat /\ z \in ZoneNumbers /\ z1 <= Zones /\ z1 # 0 /\ (z1 # Zones => z1 < Zones)
  <2>1. z \in Nat
    BY Zenon, <1>0 DEF Manager
  <2> QED
    BY <1>1, <2>1 DEF ZoneNumbers, hasZones
<1>3. applyToZone(m) = r
  BY Zenon DEF applyToZone
<1> HIDE DEF a, z, z1
<1>4. n \in Manager
  BY Zenon, <1>0, <1>2 DEF Manager
<1>5. /\ y \in Manager
      /\ y.owner = m.owner /\ y.state = m.state /\ y.actions = m.actions /\ y.current = m.current
      /\ y.actingZone = z1 /\ y.new = m.new /\ y.active = m.active /\ y.size = m.size
      /\ y.foundBusy = m.foundBusy /\ y.parents = m.parents /\ y.zones = m.zones /\ y.running
      /\ y.callback = IF z1 = Zones THEN "finishAction" ELSE "applyToZone"
  <2>0. "ok" \in Results
    BY Zenon DEF Results
  <2>1. CASE z1 = Zones
    <3>1. p = [n EXCEPT !.callback = "finishAction", !.result = "ok"]
      BY Zenon, <2>1 DEF prepareForConclusion
    <3>2. p \in Manager
      BY Zenon, <1>4, <2>0, <3>1 DEF Manager
    <3> QED
      BY Zenon, <1>0, <1>2, <2>1, <3>1, <3>2 DEF Manager
  <2>2. CASE z1 # Zones
    <3>1. p = [n EXCEPT !.callback = "applyToZone", !.result = "ok"]
      BY Zenon, <2>2 DEF prepareForNextZone
    <3>2. p \in Manager
      BY Zenon, <1>4, <2>0, <3>1 DEF Manager
    <3> QED
      BY Zenon, <1>0, <1>2, <2>2, <3>1, <3>2 DEF Manager
  <2> QED
    BY Zenon, <2>1, <2>2
<1> HIDE DEF y
<1>6. zoneState(m, z) /\ zoneSaw(m, z) /\ (m.owner = "depot" => zoneSize(m, z)) /\ ~(z < m.actingZone) /\ z >= m.actingZone
  <2>1. ~(z < m.actingZone) /\ z >= m.actingZone
    BY <1>2 DEF z
  <2> QED
    BY Zenon, <1>0, <1>2, <2>1 DEF InZones
<1>7. a.zoneAction = "drain" => m.zones[z].state = "normal"
  BY Zenon, <1>1, <1>6 DEF zoneState, a
<1>8. toZoneIs(y, r, z, a.zoneAction)
  <2>1. a.zoneAction \in ZoneActions \ {"none"}
    BY Zenon, <1>1 DEF Action
  <2> QED
    BY Zenon, <1>1, <1>2, <1>5, <1>7, <2>1, ToZoneIs
<1> HIDE DEF r
<1>9. /\ r \in Manager
      /\ r.owner = m.owner /\ r.state = m.state /\ r.actions = m.actions /\ r.current = m.current
      /\ r.actingZone = z1 /\ r.new = m.new /\ r.active = m.active /\ r.size = m.size
      /\ r.foundBusy = m.foundBusy /\ r.parents = m.parents /\ r.running
      /\ r.callback = IF z1 = Zones THEN "finishAction" ELSE "applyToZone"
  BY Zenon, <1>5, <1>8 DEF toZoneIs
<1>10. /\ \A k \in ZoneNumbers : k # z => r.zones[k] = m.zones[k]
       /\ r.zones[z].state = IF a.zoneAction = "drain" THEN getNextState(m.zones[z].state, m.state.state)
                             ELSE IF a.zoneAction = "resume" THEN "normal" ELSE m.zones[z].state
       /\ r.zones[z].saw = IF a.zoneAction = "see" THEN m.active ELSE m.zones[z].saw
       /\ r.zones[z].size = IF a.zoneAction = "grow" THEN m.zones[z].size + 1 ELSE m.zones[z].size
  BY Zenon, <1>5, <1>8 DEF toZoneIs
<1>11. currentAction(r) = a /\ other(r) = other(m)
  BY Zenon, <1>9 DEF currentAction, other, a
<1>12. Held(r)
  <2>1. \A i \in 0 .. 1 : r.actions[i].inUse => isKnown(r.actions[i], r.owner)
    BY Zenon, <1>0, <1>9 DEF Held
  <2>2. r.callback # "none"
    BY Zenon, <1>9
  <2>3. /\ other(m).inUse => currentAction(m).inUse /\ other(m).zoneAction # "see"
        /\ ~m.state.starting /\ ~m.state.complete
    BY Zenon, <1>0 DEF Held
  <2> QED
    BY Zenon, <1>1, <1>9, <1>11, <2>1, <2>2, <2>3 DEF Held, a
<1>13. Operating(r)
  BY Zenon, <1>0, <1>9, <1>11 DEF Operating, a
<1>14. Answered(r)
  BY <1>0, <1>9 DEF Answered
<1>15. InPhase(r)
  BY Zenon, <1>1, <1>2, <1>9, <1>11 DEF InPhase
<1>16. InZones(r)
  <2> SUFFICES ASSUME NEW k \in ZoneNumbers PROVE zoneState(r, k) /\ zoneSaw(r, k) /\ (r.owner = "depot" => zoneSize(r, k))
    BY Zenon DEF InZones
  <2>1. CASE k # z
    <3>1. (k < z1 <=> k < m.actingZone) /\ (k >= z1 <=> k >= m.actingZone)
      BY <1>2, <2>1 DEF z1, z, ZoneNumbers
    <3>2. zoneState(m, k) /\ zoneSaw(m, k) /\ (m.owner = "depot" => zoneSize(m, k))
      BY Zenon, <1>0 DEF InZones
    <3>3. r.zones[k] = m.zones[k]
      BY Zenon, <1>10, <2>1
    <3>4. zoneState(r, k)
      BY Zenon, <1>9, <1>11, <3>1, <3>2, <3>3 DEF zoneState, a
    <3>5. zoneSaw(r, k)
      BY Zenon, <1>9, <1>11, <3>1, <3>2, <3>3 DEF zoneSaw, a
    <3>6. r.owner = "depot" => zoneSize(r, k)
      BY Zenon, <1>9, <1>11, <3>1, <3>2, <3>3 DEF zoneSize, a
    <3> QED
      BY Zenon, <3>4, <3>5, <3>6
  <2>2. CASE k = z
    <3>1. z < z1 /\ ~(z >= z1)
      BY <1>2 DEF z1
    <3>2. zoneState(r, z)
      <4>1. CASE a.zoneAction = "drain"
        <5>1. m.state.nextState = getNextState("normal", m.state.state)
          BY <1>1, <4>1 DEF isKnown, follows, getNextState, quiescingCodes
        <5> QED
          BY Zenon, <1>1, <1>7, <1>9, <1>10, <1>11, <3>1, <4>1, <5>1 DEF zoneState
      <4>2. CASE a.zoneAction = "resume"
        BY Zenon, <1>1, <1>9, <1>10, <1>11, <3>1, <4>2 DEF zoneState
      <4>3. CASE a.zoneAction \notin {"drain", "resume"}
        BY Zenon, <1>1, <1>6, <1>9, <1>10, <1>11, <4>3 DEF zoneState, a
      <4> QED
        BY Zenon, <4>1, <4>2, <4>3
    <3>3. zoneSaw(r, z)
      BY Zenon, <1>1, <1>6, <1>9, <1>10, <1>11, <3>1 DEF zoneSaw, a
    <3>4. r.owner = "depot" => zoneSize(r, z)
      BY Zenon, <1>1, <1>6, <1>9, <1>10, <1>11, <3>1 DEF zoneSize, a
    <3> QED
      BY Zenon, <2>2, <3>2, <3>3, <3>4
  <2> QED
    BY Zenon, <2>1, <2>2
<1>17. Served(r)
  BY Zenon, <1>0, <1>9 DEF Served, Taken
<1> QED
  BY Zenon, <1>3, <1>9, <1>12, <1>13, <1>14, <1>15, <1>16, <1>17 DEF ManagerInv

(* A command is issued: its completion joins the parents.                  *)
isIssued(m, x) ==
  /\ x \in Manager
  /\ x.owner = m.owner /\ x.state = m.state /\ x.actions = m.actions /\ x.current = m.current
  /\ x.actingZone = m.actingZone /\ x.callback = m.callback /\ x.running = m.running
  /\ x.new = m.new /\ x.active = m.active /\ x.size = m.size /\ x.zones = m.zones /\ x.foundBusy = m.foundBusy
  /\ Len(x.parents) = Len(m.parents) + 1
  /\ \A p \in 1 .. Len(x.parents) :
       IF p = Len(m.parents) + 1 THEN x.parents[p].finished = 0
       ELSE p \in 1 .. Len(m.parents) /\ x.parents[p].finished = m.parents[p].finished

isAppended(q, s, v) ==
  /\ Len(q) = Len(s) + 1
  /\ \A p \in 1 .. Len(q) : IF p = Len(s) + 1 THEN q[p] = v ELSE p \in 1 .. Len(s) /\ q[p] = s[p]

(* An element is added to a sequence.                                      *)
LEMMA AppendIs ==
  ASSUME NEW S, NEW s \in Seq(S), NEW v \in S
  PROVE  Append(s, v) \in Seq(S) /\ isAppended(Append(s, v), s, v)
  BY DEF isAppended

(* The completion of the command.                                          *)
LEMMA CommandIsIssued ==
  ASSUME NEW m \in Manager, NEW c \in Action
  PROVE  isIssued(m, [m EXCEPT !.parents = Append(@, [result |-> "ok", finished |-> 0, action |-> c])])
<1> DEFINE v == [result |-> "ok", finished |-> 0, action |-> c]
           q == Append(m.parents, v)
           x == [m EXCEPT !.parents = q]
<1>1. 0 \in Nat
  OBVIOUS
<1>2. v \in Parent /\ v.finished = 0 /\ m.parents \in Seq(Parent)
  BY Zenon, <1>1 DEF Parent, Manager, Results
<1> HIDE DEF v
<1>3. q \in Seq(Parent) /\ isAppended(q, m.parents, v)
  BY Zenon, <1>2, AppendIs
<1> HIDE DEF q
<1>4. /\ x \in Manager /\ x.parents = q
      /\ x.owner = m.owner /\ x.state = m.state /\ x.actions = m.actions /\ x.current = m.current
      /\ x.actingZone = m.actingZone /\ x.callback = m.callback /\ x.running = m.running
      /\ x.new = m.new /\ x.active = m.active /\ x.size = m.size /\ x.zones = m.zones /\ x.foundBusy = m.foundBusy
  BY Zenon, <1>3 DEF Manager
<1> HIDE DEF x
<1>5. /\ Len(x.parents) = Len(m.parents) + 1
      /\ \A p \in 1 .. Len(x.parents) :
           IF p = Len(m.parents) + 1 THEN x.parents[p].finished = 0
           ELSE p \in 1 .. Len(m.parents) /\ x.parents[p].finished = m.parents[p].finished
  BY Zenon, <1>2, <1>3, <1>4 DEF isAppended
<1>6. isIssued(m, x)
  BY Zenon, <1>4, <1>5 DEF isIssued
<1> QED
  BY Zenon, <1>6 DEF x, q, v

(* What the state will be once the operation in progress is over.          *)
LEMMA AfterwardsIs ==
  ASSUME NEW m, ManagerInv(m), ~other(m).inUse
  PROVE  afterwards(m) = IF currentAction(m).inUse THEN m.state.nextState ELSE m.state.state
<1>1. m.state \in Administrative /\ (currentAction(m).inUse <=> m.state.state \in Operations)
  BY Zenon, ManagerParts DEF ManagerInv, Held
<1>2. m.state.state \in Resting \cup Operations
  BY Zenon, <1>1 DEF Administrative
<1>3. isOperating(m.state) <=> currentAction(m).inUse
  BY <1>1, <1>2 DEF isOperating, operatingCodes, Operations, Resting
<1> QED
  BY Zenon, <1>3 DEF afterwards, other

(* A manager which holds two actions refuses the command.                  *)
LEMMA BusyKeeps ==
  ASSUME NEW m, ManagerInv(m), NEW x, isIssued(m, x), NEW n \in Nat, n = Len(m.parents) + 1
  PROVE  ManagerInv(finishParent(setCompletionResult(x, n, "busy"), n))
<1> DEFINE s == setCompletionResult(x, n, "busy")
           r == finishParent(s, n)
<1>0. m \in Manager /\ Held(m) /\ Operating(m) /\ Answered(m) /\ InPhase(m) /\ InZones(m) /\ Served(m)
  BY Zenon DEF ManagerInv
<1>1. x \in Manager /\ n <= Len(x.parents) /\ "busy" \in Results
  BY DEF isIssued, Results
<1>2. noneFinished(x, s)
  BY Zenon, <1>1, ResultIsSet
<1> HIDE DEF s
<1>3. s \in Manager /\ n <= Len(s.parents)
  BY Zenon, <1>1, <1>2 DEF noneFinished, sameButParents
<1>4. oneFinished(s, r, n)
  BY Zenon, <1>3, ParentIsFinished
<1> HIDE DEF r
<1>5. sameButParents(x, s) /\ sameButParents(s, r)
  BY Zenon, <1>2, <1>4 DEF noneFinished, oneFinished
<1>6. /\ r \in Manager
      /\ r.owner = x.owner /\ r.state = x.state /\ r.actions = x.actions /\ r.current = x.current
      /\ r.actingZone = x.actingZone /\ r.callback = x.callback /\ r.running = x.running
      /\ r.new = x.new /\ r.active = x.active /\ r.size = x.size /\ r.zones = x.zones /\ r.foundBusy = x.foundBusy
      /\ Len(r.parents) = Len(x.parents)
  BY Zenon, <1>5 DEF sameButParents
<1>7. /\ r.owner = m.owner /\ r.state = m.state /\ r.actions = m.actions /\ r.current = m.current
      /\ r.actingZone = m.actingZone /\ r.callback = m.callback /\ r.running = m.running
      /\ r.new = m.new /\ r.active = m.active /\ r.size = m.size /\ r.zones = m.zones /\ r.foundBusy = m.foundBusy
      /\ Len(r.parents) = n
  BY Zenon, <1>6 DEF isIssued
<1>8. currentAction(r) = currentAction(m) /\ other(r) = other(m)
  BY Zenon, <1>7 DEF currentAction, other
<1>9. Held(r) /\ Operating(r)
  BY Zenon, <1>0, <1>7, <1>8 DEF Held, Operating
<1>10. Answered(r)
  <2>0. Len(m.parents) \in Nat /\ \A i \in 0 .. 1 : m.actions[i].parent \in Nat
    BY <1>0 DEF Manager, Action
  <2>1. \A i \in 0 .. 1 : r.actions[i].inUse => r.actions[i].parent <= Len(r.parents) /\ r.actions[i].parent # n
    <3>1. \A i \in 0 .. 1 : m.actions[i].inUse => m.actions[i].parent <= Len(m.parents)
      BY Zenon, <1>0 DEF Answered
    <3> QED
      BY <1>7, <2>0, <3>1
  <2>2. r.actions[0].inUse /\ r.actions[1].inUse => r.actions[0].parent # r.actions[1].parent
    BY Zenon, <1>0, <1>7 DEF Answered
  <2>3. ASSUME NEW p \in 1 .. Len(r.parents)
        PROVE  r.parents[p].finished = IF \E i \in 0 .. 1 : r.actions[i].inUse /\ r.actions[i].parent = p THEN 0 ELSE 1
    <3>1. p \in 1 .. Len(x.parents) /\ p \in 1 .. Len(s.parents)
      BY Zenon, <1>5, <1>6 DEF sameButParents
    <3>2. s.parents[p].finished = x.parents[p].finished
      BY Zenon, <1>2, <3>1 DEF noneFinished
    <3>3. r.parents[p].finished = IF p = n THEN s.parents[p].finished + 1 ELSE s.parents[p].finished
      BY Zenon, <1>4, <3>1 DEF oneFinished
    <3>4. IF p = n THEN x.parents[p].finished = 0
          ELSE p \in 1 .. Len(m.parents) /\ x.parents[p].finished = m.parents[p].finished
      BY Zenon, <3>1 DEF isIssued
    <3>5. CASE p = n
      <4>1. ~\E i \in 0 .. 1 : r.actions[i].inUse /\ r.actions[i].parent = p
        BY Zenon, <2>1, <3>5
      <4>2. r.parents[p].finished = 1
        BY <3>2, <3>3, <3>4, <3>5
      <4> QED
        BY Zenon, <4>1, <4>2
    <3>6. CASE p # n
      <4>1. p \in 1 .. Len(m.parents) /\ r.parents[p].finished = m.parents[p].finished
        BY Zenon, <3>2, <3>3, <3>4, <3>6
      <4>2. m.parents[p].finished = IF \E i \in 0 .. 1 : m.actions[i].inUse /\ m.actions[i].parent = p THEN 0 ELSE 1
        BY Zenon, <1>0, <4>1 DEF Answered
      <4> QED
        BY Zenon, <1>7, <4>1, <4>2
    <3> QED
      BY Zenon, <3>5, <3>6
  <2> QED
    BY Zenon, <2>1, <2>2, <2>3 DEF Answered
<1>11. InPhase(r)
  BY Zenon, <1>0, <1>7, <1>8 DEF InPhase
<1>12. InZones(r)
  BY Zenon, <1>0, <1>7, <1>8, ZonesStay
<1>13. Served(r)
  BY Zenon, <1>0, <1>7 DEF Served, Taken
<1>14. ManagerInv(r)
  BY Zenon, <1>6, <1>9, <1>10, <1>11, <1>12, <1>13 DEF ManagerInv
<1> QED
  BY Zenon, <1>14 DEF r, s

(* A manager which holds one action keeps the next one.                    *)
LEMMA WaitingKeeps ==
  ASSUME NEW m, ManagerInv(m), currentAction(m).inUse, ~other(m).inUse, NEW x, isIssued(m, x),
         NEW a \in Action, a.inUse, isKnown(a, m.owner), a.zoneAction # "see", a.parent = Len(m.parents) + 1,
         m.state.nextState = "normal" => a.operation \notin quiescentCodes
  PROVE  ManagerInv([x EXCEPT !.actions[next(x.current)] = a])
<1> DEFINE acts == [x.actions EXCEPT ![next(x.current)] = a]
           r == [x EXCEPT !.actions = acts]
           n == Len(m.parents) + 1
<1>0. m \in Manager /\ Held(m) /\ Operating(m) /\ Answered(m) /\ InPhase(m) /\ InZones(m) /\ Served(m)
  BY Zenon DEF ManagerInv
<1>1. /\ x \in Manager /\ next(x.current) \in 0 .. 1 /\ x.current \in 0 .. 1 /\ x.actions \in [0 .. 1 -> Action]
      /\ next(x.current) # x.current /\ x.actions = m.actions /\ x.current = m.current
  BY Zenon, ManagerParts, TwoActions DEF isIssued
<1>2. acts \in [0 .. 1 -> Action] /\ acts[m.current] = currentAction(m) /\ acts[next(m.current)] = a
  BY Zenon, <1>1 DEF currentAction
<1>3. [x EXCEPT !.actions[next(x.current)] = a] = r
  BY Zenon
<1> HIDE DEF acts, n
<1>4. /\ r \in Manager /\ r.actions = acts
      /\ r.owner = x.owner /\ r.state = x.state /\ r.current = x.current
      /\ r.actingZone = x.actingZone /\ r.callback = x.callback /\ r.running = x.running
      /\ r.new = x.new /\ r.active = x.active /\ r.size = x.size /\ r.zones = x.zones /\ r.foundBusy = x.foundBusy
      /\ r.parents = x.parents
  BY Zenon, <1>1, <1>2 DEF Manager
<1> HIDE DEF r
<1>5. /\ r.owner = m.owner /\ r.state = m.state /\ r.current = m.current
      /\ r.actingZone = m.actingZone /\ r.callback = m.callback /\ r.running = m.running
      /\ r.new = m.new /\ r.active = m.active /\ r.size = m.size /\ r.zones = m.zones /\ r.foundBusy = m.foundBusy
      /\ Len(r.parents) = n
  BY Zenon, <1>4 DEF isIssued, n
<1>6. currentAction(r) = currentAction(m) /\ other(r) = a
  BY Zenon, <1>2, <1>4, <1>5 DEF currentAction, other
<1>7. \A i \in 0 .. 1 : i = m.current \/ i = next(m.current)
  BY Zenon, <1>1, TwoActions
<1>8. Held(r)
  <2>1. isKnown(currentAction(m), m.owner)
    BY Zenon, <1>0, <1>1 DEF Held, currentAction
  <2>2. \A i \in 0 .. 1 : r.actions[i].inUse => isKnown(r.actions[i], r.owner)
    BY Zenon, <1>2, <1>4, <1>5, <1>7, <2>1
  <2>3. /\ currentAction(m).inUse <=> m.state.state \in Operations
        /\ currentAction(m).inUse <=> m.callback # "none"
        /\ m.running => currentAction(m).inUse
        /\ ~m.state.starting /\ ~m.state.complete
    BY Zenon, <1>0 DEF Held
  <2> QED
    BY Zenon, <1>5, <1>6, <2>2, <2>3 DEF Held
<1>9. Operating(r)
  BY Zenon, <1>0, <1>5, <1>6 DEF Operating
<1>10. Answered(r)
  <2>0. Len(m.parents) \in Nat /\ n = Len(m.parents) + 1 /\ currentAction(m).parent \in Nat
    <3>1. m.parents \in Seq(Parent) /\ currentAction(m).parent \in Nat
      BY Zenon, <1>0, ManagerParts DEF Manager, Action
    <3> QED
      BY <3>1 DEF n
  <2>1. currentAction(m).parent <= Len(m.parents)
    BY Zenon, <1>0, <1>1 DEF Answered, currentAction
  <2>2. currentAction(m).parent <= n /\ a.parent = n /\ n <= n /\ currentAction(m).parent # n
    BY <2>0, <2>1
  <2>3. \A i \in 0 .. 1 : r.actions[i].inUse => r.actions[i].parent <= Len(r.parents)
    BY Zenon, <1>2, <1>4, <1>5, <1>7, <2>2
  <2>4. r.actions[0].parent # r.actions[1].parent
    <3>1. r.actions[m.current].parent # r.actions[next(m.current)].parent
      BY Zenon, <1>2, <1>4, <2>2
    <3>2. CASE m.current = 0
      BY <3>1, <3>2 DEF next
    <3>3. CASE m.current = 1
      BY <3>1, <3>3 DEF next
    <3> QED
      BY <1>1, <3>2, <3>3
  <2>5. ASSUME NEW p \in 1 .. Len(r.parents)
        PROVE  r.parents[p].finished = IF \E i \in 0 .. 1 : r.actions[i].inUse /\ r.actions[i].parent = p THEN 0 ELSE 1
    <3>1. IF p = n THEN r.parents[p].finished = 0
          ELSE p \in 1 .. Len(m.parents) /\ r.parents[p].finished = m.parents[p].finished
      BY Zenon, <1>4 DEF isIssued, n
    <3>2. (\E i \in 0 .. 1 : r.actions[i].inUse /\ r.actions[i].parent = p) <=> p = currentAction(m).parent \/ p = n
      <4>1. r.actions[m.current] = currentAction(m) /\ r.actions[next(m.current)] = a
        BY Zenon, <1>2, <1>4
      <4>2. m.current \in 0 .. 1 /\ next(m.current) \in 0 .. 1
        BY Zenon, <1>1
      <4>3. ASSUME NEW i \in 0 .. 1, r.actions[i].inUse, r.actions[i].parent = p
            PROVE  p = currentAction(m).parent \/ p = n
        BY Zenon, <1>7, <2>2, <4>1, <4>3
      <4>4. p = currentAction(m).parent => \E i \in 0 .. 1 : r.actions[i].inUse /\ r.actions[i].parent = p
        BY Zenon, <4>1, <4>2
      <4>5. p = n => \E i \in 0 .. 1 : r.actions[i].inUse /\ r.actions[i].parent = p
        BY Zenon, <2>2, <4>1, <4>2
      <4> QED
        BY Zenon, <4>3, <4>4, <4>5
    <3>3. CASE p = n
      BY Zenon, <3>1, <3>2, <3>3
    <3>4. CASE p # n
      <4>1. m.parents[p].finished = IF \E i \in 0 .. 1 : m.actions[i].inUse /\ m.actions[i].parent = p THEN 0 ELSE 1
        BY Zenon, <1>0, <3>1, <3>4 DEF Answered
      <4>2. (\E i \in 0 .. 1 : m.actions[i].inUse /\ m.actions[i].parent = p) <=> p = currentAction(m).parent
        BY Zenon, <1>1, <1>7 DEF currentAction, other
      <4> QED
        BY Zenon, <3>1, <3>2, <3>4, <4>1, <4>2
    <3> QED
      BY Zenon, <3>3, <3>4
  <2> QED
    BY Zenon, <2>3, <2>4, <2>5 DEF Answered
<1>11. InPhase(r)
  BY Zenon, <1>0, <1>5, <1>6 DEF InPhase
<1>12. InZones(r)
  BY Zenon, <1>0, <1>5, <1>6, ZonesStay
<1>13. Served(r)
  BY Zenon, <1>0, <1>5 DEF Served, Taken
<1>14. ManagerInv(r)
  BY Zenon, <1>4, <1>8, <1>9, <1>10, <1>11, <1>12, <1>13 DEF ManagerInv
<1> QED
  BY Zenon, <1>3, <1>14

(* The three fates of a command.                                           *)
LEMMA CommandKeeps ==
  ASSUME hasZones, NEW m, ManagerInv(m), NEW c \in commandsOf(m.owner),
         afterwards(m) = "normal" => c.operation \notin quiescentCodes
  PROVE  ManagerInv(scheduleOperationWithContext(
                      [m EXCEPT !.parents = Append(@, [result |-> "ok", finished |-> 0, action |-> c])],
                      [c EXCEPT !.parent = Len(m.parents) + 1]))
<1> DEFINE x == [m EXCEPT !.parents = Append(@, [result |-> "ok", finished |-> 0, action |-> c])]
           n == Len(m.parents) + 1
           a == [c EXCEPT !.parent = n]
<1>0. m \in Manager /\ m.owner \in {"depot", "blockMap"}
  BY Zenon DEF ManagerInv, Manager
<1>1. Len(m.parents) \in Nat /\ n \in Nat \ {0} /\ n \in Nat /\ n <= n
  BY <1>0 DEF Manager
<1> HIDE DEF n
<1>2. /\ a \in Action /\ a.inUse /\ a.parent = n /\ a.operation = c.operation /\ isKnown(a, m.owner)
      /\ a.zoneAction # "see" /\ c \in Action
  BY Zenon, <1>0, <1>1, CommandsAreKnown
<1> HIDE DEF a
<1>3. isIssued(m, x)
  BY Zenon, <1>0, <1>2, CommandIsIssued
<1> HIDE DEF x
<1>4. x \in Manager /\ currentAction(x) = currentAction(m) /\ x.actions[next(x.current)] = other(m) /\ other(x) = other(m)
  BY Zenon, <1>3 DEF isIssued, currentAction, other
<1>5. CASE ~currentAction(m).inUse
  <2>1. Idle(m)
    BY Zenon, <1>5, AnIdleManager
  <2>2. Rested(x) /\ Taken(x)
    BY Zenon, <1>3, <1>4, <2>1 DEF isIssued, Idle, Rested, Taken
  <2>3. x.state.state = "normal" => a.operation \notin quiescentCodes
    BY Zenon, <1>2, <1>3, <1>5, <2>1, AfterwardsIs DEF isIssued, Idle, Rested
  <2>4. Len(x.parents) = n /\ x.owner = m.owner
    BY Zenon, <1>3 DEF isIssued, n
  <2>5. ASSUME NEW p \in 1 .. Len(x.parents) PROVE x.parents[p].finished = IF a.parent = p THEN 0 ELSE 1
    <3>1. IF p = n THEN x.parents[p].finished = 0
          ELSE p \in 1 .. Len(m.parents) /\ x.parents[p].finished = m.parents[p].finished
      BY Zenon, <1>3 DEF isIssued, n
    <3>2. p # n => m.parents[p].finished = 1
      BY Zenon, <2>1, <3>1 DEF Idle
    <3> QED
      BY Zenon, <1>2, <3>1, <3>2
  <2>6. Ready([x EXCEPT !.actions[x.current] = a])
    BY Zenon, <1>1, <1>2, <2>2, <2>3, <2>4, <2>5, ActionIsTaken
  <2>7. scheduleOperationWithContext(x, a) = launchCurrentAction([x EXCEPT !.actions[x.current] = a])
    BY Zenon, <1>4, <1>5 DEF scheduleOperationWithContext
  <2>8. ManagerInv(scheduleOperationWithContext(x, a))
    BY Zenon, <2>6, <2>7, ReadyLaunches
  <2> QED
    BY Zenon, <2>8 DEF x, a, n
<1>6. CASE currentAction(m).inUse /\ ~other(m).inUse
  <2>1. m.state.nextState = "normal" => a.operation \notin quiescentCodes
    BY Zenon, <1>2, <1>6, AfterwardsIs
  <2>2. scheduleOperationWithContext(x, a) = [x EXCEPT !.actions[next(x.current)] = a]
    BY Zenon, <1>4, <1>6 DEF scheduleOperationWithContext
  <2>3. a.parent = Len(m.parents) + 1
    BY Zenon, <1>2 DEF n
  <2>4. ManagerInv([x EXCEPT !.actions[next(x.current)] = a])
    BY Zenon, <1>2, <1>3, <1>6, <2>1, <2>3, WaitingKeeps
  <2>5. ManagerInv(scheduleOperationWithContext(x, a))
    BY Zenon, <2>2, <2>4
  <2> QED
    BY Zenon, <2>5 DEF x, a, n
<1>7. CASE currentAction(m).inUse /\ other(m).inUse
  <2>1. scheduleOperationWithContext(x, a) = finishParent(setCompletionResult(x, n, "busy"), n)
    BY Zenon, <1>2, <1>4, <1>7 DEF scheduleOperationWithContext
  <2>2. n = Len(m.parents) + 1
    BY Zenon DEF n
  <2>3. ManagerInv(scheduleOperationWithContext(x, a))
    BY Zenon, <1>1, <1>3, <2>1, <2>2, BusyKeeps
  <2> QED
    BY Zenon, <2>3 DEF x, a, n
<1> QED
  BY Zenon, <1>5, <1>6, <1>7

-----------------------------------------------------------------------------
(* The theorems                                                            *)

(* The steps of the manager keep the invariant.                            *)
LEMMA StepKeeps ==
  ASSUME hasZones, ManagerInv(am), [Next]_am
  PROVE  ManagerInv(am')
<1>0. am \in Manager
  BY Zenon DEF ManagerInv
<1>1. CASE Command
  <2>1. PICK c \in commandsOf(am.owner) :
          /\ afterwards(am) = "normal" => c.operation \notin quiescentCodes
          /\ am' = scheduleOperationWithContext(
                     [am EXCEPT !.parents = Append(@, [result |-> "ok", finished |-> 0, action |-> c])],
                     [c EXCEPT !.parent = Len(am.parents) + 1])
    BY Zenon, <1>1 DEF Command
  <2> DEFINE r == scheduleOperationWithContext(
                    [am EXCEPT !.parents = Append(@, [result |-> "ok", finished |-> 0, action |-> c])],
                    [c EXCEPT !.parent = Len(am.parents) + 1])
  <2>2. ManagerInv(r)
    BY Zenon, <2>1, CommandKeeps
  <2> QED
    BY Zenon, <2>1, <2>2
<1>2. CASE Request
  <2> DEFINE n == am.new + 1
             b == ~(isIdle(am) /\ am.state.state = "normal")
             y == [am EXCEPT !.foundBusy = b]
             x == [y EXCEPT !.new = n]
  <2>0. y = requesting(am) /\ y.new = am.new /\ b \in BOOLEAN
    BY Zenon, <1>0 DEF requesting, Manager
  <2>1. am' = scheduleDefaultAction(x)
    BY Zenon, <1>2, <2>0 DEF Request, commitOldestSlabJournalTailBlocks, advanceBlockMapEra
  <2>5. am.state.state # "normal" => b
    BY Zenon
  <2> HIDE DEF b
  <2>2. n \in Nat /\ am.active <= n
    <3>1. am.new \in Nat /\ am.active \in Nat /\ am.active <= am.new
      BY Zenon, <1>0 DEF Manager, ManagerInv, Served
    <3> QED
      BY <3>1
  <2> HIDE DEF n
  <2>3. isAsked(am, x)
    BY Zenon, <1>0, <2>0, <2>2, <2>5 DEF Manager, isAsked
  <2> HIDE DEF x
  <2>4. ManagerInv(scheduleDefaultAction(x))
    BY Zenon, <2>3, DefaultActionKeeps
  <2> QED
    BY Zenon, <2>1, <2>4
<1>3. CASE RequestAgain
  <2> DEFINE b == ~(isIdle(am) /\ am.state.state = "normal")
             x == [am EXCEPT !.foundBusy = b]
  <2>1. x = requesting(am) /\ b \in BOOLEAN /\ (am.state.state # "normal" => b)
    BY Zenon DEF requesting
  <2> HIDE DEF b
  <2>2. am.active <= am.new
    BY Zenon DEF ManagerInv, Served
  <2>3. isAsked(am, x)
    BY Zenon, <1>0, <2>1, <2>2 DEF Manager, isAsked
  <2> HIDE DEF x
  <2>4. ManagerInv(scheduleDefaultAction(x))
    BY Zenon, <2>3, DefaultActionKeeps
  <2> QED
    BY Zenon, <1>3, <2>1, <2>4 DEF RequestAgain
<1>4. CASE WorkDone
  <2>1. PICK result \in {am.result} \cup (IF am.faults < MaxFaults THEN {"error"} ELSE {}) :
          LET x == [am EXCEPT !.result = result, !.faults = @ + (IF result = "error" THEN 1 ELSE 0)]
          IN  am' = IF result = "ok" THEN [x EXCEPT !.running = FALSE]
                    ELSE IF x.callback = "applyToZone" /\ x.actingZone = 0 THEN handlePreambleError(x)
                    ELSE preserveErrorAndContinue(x)
    BY Zenon, <1>4 DEF WorkDone
  <2> DEFINE n == am.faults + (IF result = "error" THEN 1 ELSE 0)
             x == [am EXCEPT !.result = result, !.faults = n]
  <2>2. am.result \in Results /\ am.faults \in Nat
    BY Zenon, <1>0 DEF Manager
  <2>3. result \in Results
    BY Zenon, <2>1, <2>2 DEF Results
  <2>4. n \in Nat
    BY <2>2
  <2>5. am' = IF result = "ok" THEN [x EXCEPT !.running = FALSE]
              ELSE IF x.callback = "applyToZone" /\ x.actingZone = 0 THEN handlePreambleError(x)
              ELSE preserveErrorAndContinue(x)
    BY Zenon, <2>1
  <2>6. am.running
    BY Zenon, <1>4 DEF WorkDone
  <2> HIDE DEF n
  <2> QED
    BY Zenon, <2>3, <2>4, <2>5, <2>6, WorkEnds
<1>5. CASE ApplyToZone
  <2>1. ManagerInv(applyToZone(am))
    BY Zenon, <1>5, ApplyToZoneKeeps DEF ApplyToZone
  <2> QED
    BY Zenon, <1>5, <2>1 DEF ApplyToZone
<1>6. CASE FinishAction
  <2>1. ManagerInv(finishActionCallback(am))
    BY Zenon, <1>6, FinishActionKeeps DEF FinishAction
  <2> QED
    BY Zenon, <1>6, <2>1 DEF FinishAction
<1>7. CASE UNCHANGED am
  BY Zenon, <1>7
<1> QED
  BY Zenon, <1>1, <1>2, <1>3, <1>4, <1>5, <1>6, <1>7 DEF Next

(* The invariant holds of every manager with at least one zone.            *)
THEOREM ManagerIsInvariant == hasZones => (Spec => []ManagerInv(am))
<1> SUFFICES ASSUME hasZones PROVE Spec => []ManagerInv(am)
  OBVIOUS
<1>1. Init => ManagerInv(am)
  <2> SUFFICES ASSUME Init PROVE ManagerInv(am)
    OBVIOUS
  <2>1. PICK owner \in {"depot", "blockMap"} : am = makeActionManager(owner)
    BY Zenon DEF Init
  <2>2. ManagerInv(makeActionManager(owner))
    BY Zenon, InitIsIdle
  <2> QED
    BY Zenon, <2>1, <2>2
<1>2. ManagerInv(am) /\ [Next]_am => ManagerInv(am')
  BY Zenon, StepKeeps
<1>3. ManagerInv(am') <=> ManagerInv(am)'
  OBVIOUS
<1> QED
  BY <1>1, <1>2, <1>3, PTL DEF Spec

(* What the invariant says of a manager which holds no action.             *)
LEMMA IdleIs ==
  ASSUME ManagerInv(am)
  PROVE  /\ isIdle(am) <=> ~currentAction(am).inUse
         /\ isOperating(am.state) <=> currentAction(am).inUse
         /\ am.state.state \in Resting \cup Operations
<1>1. am \in Manager /\ Held(am) /\ am.current \in 0 .. 1 /\ next(am.current) \in 0 .. 1 /\ am.state \in Administrative
  BY Zenon, ManagerParts DEF ManagerInv
<1>2. \A i \in 0 .. 1 : i = am.current \/ i = next(am.current)
  BY Zenon, <1>1, TwoActions
<1>3. isIdle(am) <=> ~currentAction(am).inUse
  <2>1. other(am).inUse => currentAction(am).inUse
    BY Zenon, <1>1 DEF Held
  <2> QED
    BY Zenon, <1>1, <1>2, <2>1 DEF isIdle, currentAction, other
<1>4. am.state.state \in Resting \cup Operations /\ (currentAction(am).inUse <=> am.state.state \in Operations)
  BY Zenon, <1>1 DEF Administrative, Held
<1>5. isOperating(am.state) <=> currentAction(am).inUse
  BY <1>4 DEF isOperating, operatingCodes, Operations, Resting
<1> QED
  BY Zenon, <1>3, <1>4, <1>5

(* Every command is answered exactly once: scheduleOperationWithContext()  *)
(* refuses it or keeps its action, and finishActionCallback() finishes the *)
(* parent when the action leaves the manager.                              *)
THEOREM EveryCommandIsAnswered == hasZones => (Spec => []CommandsAreAnswered)
<1>1. ManagerInv(am) => CommandsAreAnswered
  <2> SUFFICES ASSUME ManagerInv(am) PROVE CommandsAreAnswered
    OBVIOUS
  <2>1. am \in Manager /\ Held(am) /\ Answered(am)
    BY Zenon DEF ManagerInv
  <2>2. DOMAIN am.parents = 1 .. Len(am.parents)
    <3>1. am.parents \in Seq(Parent)
      BY Zenon, <2>1 DEF Manager
    <3> QED
      BY <3>1
  <2>3. \A p \in DOMAIN am.parents :
          am.parents[p].finished = (IF \E i \in 0 .. 1 : am.actions[i].inUse /\ am.actions[i].parent = p THEN 0 ELSE 1)
    BY Zenon, <2>1, <2>2 DEF Answered
  <2>4. /\ ~isIdle(am) => currentAction(am).inUse /\ (am.running \/ am.callback # "none")
        /\ isIdle(am) => ~am.running /\ am.callback = "none" /\ ~isOperating(am.state)
    BY Zenon, <2>1, IdleIs DEF Held
  <2> QED
    BY Zenon, <2>3, <2>4 DEF CommandsAreAnswered
<1> QED
  BY <1>1, ManagerIsInvariant, PTL

(* The zones agree with each other and with their owner whenever the       *)
(* manager is idle, whichever preambles and zone actions failed; while an  *)
(* era or a release is announced, those before the acting zone know it.    *)
THEOREM TheZonesAgree == hasZones => (Spec => []ZonesAgree)
<1>1. ManagerInv(am) => ZonesAgree
  <2> SUFFICES ASSUME ManagerInv(am) PROVE ZonesAgree
    OBVIOUS
  <2>1. am \in Manager /\ InZones(am)
    BY Zenon DEF ManagerInv
  <2>2. ASSUME isIdle(am), NEW z \in ZoneNumbers
        PROVE  am.zones[z].state = am.state.state /\ am.zones[z].saw = am.active /\ (am.owner = "depot" => am.zones[z].size = am.size)
    BY Zenon, <2>1, <2>2, IdleIs DEF InZones, zoneState, zoneSaw, zoneSize
  <2>3. ASSUME currentAction(am).inUse, currentAction(am).zoneAction = "see", NEW z \in ZoneNumbers
        PROVE  am.zones[z].saw = am.active <=> z < am.actingZone
    <3>1. am.actingZone \in Nat /\ am.active \in Nat /\ am.zones[z].saw \in Nat
      BY Zenon, <2>1 DEF Manager
    <3>2. z \in Int
      BY DEF ZoneNumbers
    <3>3. zoneSaw(am, z)
      BY Zenon, <2>1 DEF InZones
    <3>4. IF z >= am.actingZone THEN am.zones[z].saw < am.active ELSE am.zones[z].saw = am.active
      BY Zenon, <2>3, <3>3 DEF zoneSaw
    <3> QED
      BY <3>1, <3>2, <3>4
  <2> QED
    BY Zenon, <2>2, <2>3 DEF ZonesAgree
<1> QED
  BY <1>1, ManagerIsInvariant, PTL

(* A request made to a manager without an action, whose owner is in normal *)
(* operation, is taken at once (scheduleDefaultAction()), and has been     *)
(* seen by every zone when the manager is idle again, for any number of    *)
(* zones and whatever commands, requests and errors come.                  *)
THEOREM EveryRequestIsServed == hasZones => (Spec => []RequestsAreServed)
<1>1. ManagerInv(am) => RequestsAreServed
  <2> SUFFICES ASSUME ManagerInv(am), ~am.foundBusy
               PROVE  am.active = am.new /\ (isIdle(am) => \A z \in ZoneNumbers : am.zones[z].saw = am.new)
    BY Zenon DEF RequestsAreServed
  <2>1. am \in Manager /\ InZones(am) /\ am.active = am.new
    BY Zenon DEF ManagerInv, Served, Taken
  <2>2. ASSUME isIdle(am), NEW z \in ZoneNumbers PROVE am.zones[z].saw = am.new
    <3>1. ~currentAction(am).inUse
      BY Zenon, <2>1, <2>2, ManagerParts DEF isIdle, currentAction
    <3>2. zoneSaw(am, z)
      BY Zenon, <2>1 DEF InZones
    <3> QED
      BY Zenon, <2>1, <3>1, <3>2 DEF zoneSaw
  <2> QED
    BY Zenon, <2>1, <2>2
<1> QED
  BY <1>1, ManagerIsInvariant, PTL

(* No assertion of the manager fails: no default action is found while an  *)
(* operation is in progress, and an action which can not start is the only *)
(* one.                                                                    *)
THEOREM NoManagerAssertionFails == hasZones => (Spec => []NoAssertionFails)
<1>1. ManagerInv(am) => NoAssertionFails
  BY Zenon DEF ManagerInv, Manager, NoAssertionFails
<1> QED
  BY <1>1, ManagerIsInvariant, PTL

=============================================================================
