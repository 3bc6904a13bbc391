-------------------------------- MODULE UDSIndex --------------------------------
(***************************************************************************)
(* The deduplication index of a device (kernel/udsIndex.c): requests which *)
(* may time out while the index still works on them, and the opening and   *)
(* closing of its index session on the thread of the "dedupeQ", raced by   *)
(* suspend, resume and removal of the device on a thread of the device     *)
(* mapper and by messages on others.                                       *)
(*                                                                         *)
(* A data KVIO is a number from 1 on; 0 in the queue is the item of a      *)
(* change of state.  How long an answer takes, and so which requests time  *)
(* out, is arbitrary.                                                      *)
(***************************************************************************)
EXTENDS Integers, Sequences, FiniteSets, SequencesExt

-----------------------------------------------------------------------------
(***************************************************************************)
(* The state of an index session (uds/indexSession.c): what each section   *)
(* under its two mutexes does.  A session is opened and closed by one      *)
(* thread while another suspends, resumes and destroys it.                 *)
(*                                                                         *)
(* state is the set of flags, status that of the load context, count the   *)
(* requests in progress, and waiters and loadWaiters are the threads       *)
(* asleep on the two condition variables.                                  *)
(***************************************************************************)

makeEmptyIndexSession ==
  [state |-> {}, status |-> "opening", count |-> 0, router |-> FALSE, freed |-> FALSE,
   waiters |-> {}, loadWaiters |-> {}]

broadcastCond(s) == [s EXCEPT !.waiters = {}]
broadcastLoadCond(s) == [s EXCEPT !.loadWaiters = {}]

has(s, flags) == s.state \cap flags # {}

-----------------------------------------------------------------------------
(* Requests                                                                *)

checkIndexSession(s) ==
  IF s.state = {"loaded"} THEN "success"
  ELSE IF has(s, {"disabled"}) THEN "disabled"
  ELSE IF has(s, {"loading", "suspended", "waiting"}) THEN "suspended"
  ELSE "no session"

(* The first section of getIndexSession(); the check is another.           *)
getIndexSession(s) == [s EXCEPT !.count = @ + 1]

releaseIndexSession(s) ==
  LET r == [s EXCEPT !.count = @ - 1] IN IF r.count = 0 THEN broadcastCond(r) ELSE r

-----------------------------------------------------------------------------
(* Opening                                                                 *)

mayStartLoading(s) ==
  IF has(s, {"suspended"}) THEN "suspended" ELSE IF s.state # {} THEN "in use" ELSE "success"

startLoadingIndexSession(s) ==
  IF mayStartLoading(s) = "success" THEN [s EXCEPT !.state = {"loading"}] ELSE s

finishLoadingIndexSession(s, result) ==
  broadcastCond([s EXCEPT !.state = (@ \ {"loading"}) \cup (IF result = "success" THEN {"loaded"} ELSE {})])

(* The index tells whoever suspends it that it is not replaying.           *)
suspendReplay(s) == broadcastLoadCond([s EXCEPT !.status = "suspended"])

(* The end of makeIndex().                                                 *)
indexIsReady(s) == broadcastLoadCond([s EXCEPT !.status = "ready", !.router = TRUE])

-----------------------------------------------------------------------------
(* Closing                                                                 *)

(* Only the suspend bit remains.  Without a router nothing happens.        *)
saveAndFreeIndex(s) ==
  IF s.router THEN [s EXCEPT !.router = FALSE, !.status = "opening", !.state = @ \cap {"suspended"}] ELSE s

mayClose(s) ==
  IF has(s, {"suspended"}) THEN "suspended"
  ELSE IF has(s, {"destroying"}) \/ ~has(s, {"loaded"}) THEN "no session"
  ELSE "success"

startClosing(s) == IF mayClose(s) = "success" THEN [s EXCEPT !.state = @ \cup {"closing"}] ELSE s
finishClosing(s) == broadcastCond([s EXCEPT !.state = @ \ {"closing"}])

-----------------------------------------------------------------------------
(* Suspending and resuming                                                 *)

(* What udsSuspendIndexSession() goes on with after its first section.     *)
howToSuspend(s, save) ==
  IF has(s, {"waiting", "destroying"}) \/ has(s, {"suspended"}) THEN "done"
  ELSE IF has(s, {"loading"}) THEN "stopLoad"
  ELSE IF has(s, {"loaded"}) /\ save THEN "save"
  ELSE "suspend"

startSuspending(s, save) ==
  CASE howToSuspend(s, save) \in {"stopLoad", "save"} -> [s EXCEPT !.state = @ \cup {"waiting"}]
    [] howToSuspend(s, save) = "suspend" -> broadcastCond([s EXCEPT !.state = @ \cup {"suspended"}])
    [] OTHER -> s

finishSuspending(s) == broadcastCond([s EXCEPT !.state = (@ \ {"waiting"}) \cup {"suspended"}])

(* "load" when the load has to be resumed as well.                         *)
howToResume(s) ==
  IF has(s, {"waiting"}) \/ ~has(s, {"suspended"}) THEN "done"
  ELSE IF has(s, {"loading"}) THEN "load" ELSE "resume"

startResuming(s) ==
  CASE howToResume(s) = "load" -> [s EXCEPT !.state = @ \cup {"waiting"}]
    [] howToResume(s) = "resume" -> [s EXCEPT !.state = @ \ {"suspended"}]
    [] OTHER -> s

resumeLoad(s) ==
  IF s.status = "suspended" THEN broadcastLoadCond([s EXCEPT !.status = "opening"]) ELSE s

finishResuming(s) == broadcastCond([s EXCEPT !.state = @ \ {"waiting", "suspended"}])

-----------------------------------------------------------------------------
(* Destroying                                                              *)

loadPending(s) == {"loading", "suspended"} \subseteq s.state

startDestroying(s) == [s EXCEPT !.state = @ \cup {"destroying"}]

interruptLoad(s) ==
  IF s.status = "suspended" THEN broadcastLoadCond([s EXCEPT !.status = "freeing"]) ELSE s

-----------------------------------------------------------------------------
CONSTANT Budgets   \* [kvios, operations, messages, suspends, faults]

VARIABLE ui

idleKVIO == [requestState |-> "idle", isPending |-> FALSE, operation |-> 0, waiting |-> FALSE, uds |-> "none", request |-> 0]

makeUDSIndex ==
  [state |-> "closed", target |-> "closed", changing |-> FALSE, createFlag |-> FALSE, dedupeFlag |-> FALSE,
   deduping |-> FALSE, errorFlag |-> FALSE, suspended |-> FALSE, active |-> 0]

assert(u, condition, what) == IF condition THEN u ELSE [u EXCEPT !.asserts = @ \cup {what}]

(* A use of the session by a request it counts, and a use by a change of   *)
(* state or a request which timed out before it was counted: for these the *)
(* removal of the device does not wait.                                    *)
use(u) == assert(u, ~u.session.freed, "the session is not freed")
useUncounted(u) == [u EXCEPT !.ruined = @ \/ u.session.freed]

kvios == DOMAIN ui.kvio

-----------------------------------------------------------------------------
(* The states of the index                                                 *)

launchDedupeStateChange(u) ==
  IF u.index.changing \/ u.index.suspended THEN u
  ELSE IF u.index.createFlag \/ u.index.state # u.index.target
  THEN [u EXCEPT !.index.changing = TRUE, !.index.deduping = FALSE, !.queue = Append(@, 0)]
  ELSE [u EXCEPT !.index.deduping = u.index.dedupeFlag /\ ~u.index.suspended /\ u.index.state = "opened"]

setTargetState(u, target, changeDedupe, dedupe, setCreate) ==
  launchDedupeStateChange([u EXCEPT !.index.target = target, !.index.createFlag = @ \/ setCreate,
                                    !.index.dedupeFlag = IF changeDedupe THEN dedupe ELSE @])

processMessage(u, name) ==
  CASE name = "index-close" -> setTargetState(u, "closed", FALSE, FALSE, FALSE)
    [] name = "index-create" -> setTargetState(u, "opened", FALSE, FALSE, TRUE)
    [] name = "index-disable" -> setTargetState(u, "opened", TRUE, FALSE, FALSE)
    [] name = "index-enable" -> setTargetState(u, "opened", TRUE, TRUE, FALSE)

startUDSIndex(u, createFlag) == setTargetState(u, "opened", TRUE, TRUE, createFlag)
stopUDSIndex(u) == setTargetState(u, "closed", FALSE, FALSE, FALSE)

startClosingIndex(u) == [u EXCEPT !.index.state = "changing", !.worker.pc = "close"]

startOpeningIndex(u) ==
  [u EXCEPT !.worker = [u.worker EXCEPT !.pc = "open", !.create = u.index.createFlag],
            !.index.createFlag = FALSE, !.index.state = "changing", !.index.errorFlag = FALSE]

(* One turn of the loop, with the lock held.                               *)
changeDedupeState(u) ==
  IF ~u.index.suspended /\ (u.index.state # u.index.target \/ u.index.createFlag)
  THEN IF u.index.state = "opened" THEN startClosingIndex(u) ELSE startOpeningIndex(u)
  ELSE [u EXCEPT !.index.changing = FALSE, !.worker.pc = "idle",
                 !.index.deduping = u.index.dedupeFlag /\ u.index.state = "opened"]

closeIndex(u) ==
  changeDedupeState([u EXCEPT !.index.state = "closed", !.index.errorFlag = @ \/ u.worker.result # "success"])

(* After an error the lock is released for a moment.                       *)
openIndex(u) ==
  CASE u.worker.result = "success" -> changeDedupeState([u EXCEPT !.index.state = "opened"])
    [] u.worker.result = "corrupt" /\ ~u.worker.create ->
         changeDedupeState([u EXCEPT !.index.state = "closed", !.index.createFlag = TRUE])
    [] OTHER -> [u EXCEPT !.index.state = "closed", !.index.target = "closed", !.index.errorFlag = TRUE,
                          !.worker.pc = "again"]

-----------------------------------------------------------------------------
(* Requests                                                                *)

(* A KVIO goes on; it must have been waiting, for this very operation.     *)
invokeDedupeCallback(u, v, operation) ==
  LET k == u.kvio[v]
      checked == assert(u, k.waiting /\ k.operation = operation, "a callback is for the operation which waits")
  IN  [checked EXCEPT !.kvio[v].waiting = FALSE]

enqueueIndexOperation(u, v) ==
  LET k == u.kvio[v]
      started == [u EXCEPT !.kvio[v].waiting = TRUE, !.kvio[v].operation = @ + 1]
      busy == [started EXCEPT !.kvio[v].requestState = "busy", !.kvio[v].request = k.operation + 1]
  IN  IF k.requestState = "idle" /\ u.index.deduping
      THEN [busy EXCEPT !.queue = Append(@, v), !.index.active = @ + 1]
      ELSE invokeDedupeCallback(started, v, k.operation + 1)

startExpirationTimer(u) == IF u.timer.started THEN u ELSE [u EXCEPT !.timer.started = TRUE, !.timer.armed = TRUE]

(* The list is ruined when the KVIO still is in the list of a timeout.     *)
startIndexOperation(u, v) ==
  startExpirationTimer([u EXCEPT !.pending = Append(@, v), !.kvio[v].isPending = TRUE, !.worker.pc = "count",
                                 !.ruined = @ \/ \E e \in ToSet(u.timer.expired) : e[1] = v])

claimAnswer(u, v) ==
  IF u.kvio[v].requestState = "busy" THEN [u EXCEPT !.kvio[v].requestState = "idle", !.kvio[v].uds = "finish"]
  ELSE [u EXCEPT !.kvio[v].requestState = IF @ = "timed out" THEN "idle" ELSE @, !.kvio[v].uds = "none"]

(* The count of active requests, only a statistic, is decremented just     *)
(* after the callback is invoked; the two are one step here.               *)
finishIndexOperation(u, v) ==
  LET removed == IF u.kvio[v].isPending
                 THEN [u EXCEPT !.pending = Remove(@, v), !.kvio[v].isPending = FALSE] ELSE u
  IN  [invokeDedupeCallback(removed, v, u.kvio[v].request) EXCEPT !.index.active = @ - 1, !.kvio[v].uds = "none"]

(* The section under the lock: the first n requests are too old.           *)
expireRequests(u, n) ==
  LET late == SubSeq(u.pending, 1, n)
      moved == [u EXCEPT !.pending = SubSeq(@, n + 1, Len(@)), !.timer.started = FALSE,
                         !.timer.expired = [i \in 1 .. n |-> <<late[i], u.kvio[late[i]].operation>>],
                         !.timer.handler = IF n = 0 THEN "idle" ELSE "expiring",
                         !.kvio = [v \in DOMAIN u.kvio |-> IF v \in ToSet(late) THEN [u.kvio[v] EXCEPT !.isPending = FALSE]
                                                            ELSE u.kvio[v]]]
  IN  IF n < Len(u.pending) THEN startExpirationTimer(moved) ELSE moved

(* One request of the expired list.  Memory is ruined when the KVIO was    *)
(* reused meanwhile: its next operation times out while it is in a queue.  *)
timeoutIndexOperation(u) ==
  LET v == Head(u.timer.expired)[1]
      popped == [u EXCEPT !.timer.expired = Tail(@), !.timer.handler = IF Len(u.timer.expired) = 1 THEN "idle" ELSE @,
                          !.ruined = @ \/ (u.kvio[v].requestState = "busy"
                                            /\ u.kvio[v].operation # Head(u.timer.expired)[2])]
      timedOut == [popped EXCEPT !.kvio[v].requestState = "timed out", !.index.active = @ - 1]
  IN  IF u.kvio[v].requestState # "busy" \/ popped.ruined THEN popped
      ELSE invokeDedupeCallback(timedOut, v, u.kvio[v].operation)

-----------------------------------------------------------------------------
(* Waiting                                                                 *)

awake(thread) == thread \notin ui.session.waiters \cup ui.session.loadWaiters

(* waitCond() while a condition holds, else go on as u.                    *)
unless(condition, thread, u) ==
  ui' = IF condition THEN [ui EXCEPT !.session.waiters = @ \cup {thread}] ELSE u

unlessLoad(condition, thread, u) ==
  ui' = IF condition THEN [ui EXCEPT !.session.loadWaiters = @ \cup {thread}] ELSE u

(* A fault of the storage, or none.                                        *)
fault(results) == {"success"} \cup (IF ui.left.faults = 0 THEN {} ELSE results)
spend(u, result) == IF result = "success" THEN u ELSE [u EXCEPT !.left.faults = @ - 1]

-----------------------------------------------------------------------------
(* The data KVIOs, the callback thread and the timer                       *)

Request(v) ==
  /\ ui.layer = "running" /\ ui.dm.pc = "idle"
  /\ ~ui.kvio[v].waiting /\ ui.kvio[v].operation < ui.left.operations
  /\ ui' = enqueueIndexOperation(ui, v)

AnswerRequest(v) ==
  /\ ui.callback = 0 /\ ui.kvio[v].uds = "out"
  /\ \E u \in {claimAnswer(ui, v)} :
       ui' = IF u.kvio[v].uds = "finish" THEN [u EXCEPT !.callback = v]
             ELSE [use(u) EXCEPT !.session = releaseIndexSession(u.session)]

FinishRequest ==
  /\ ui.callback # 0
  /\ \E u \in {use(finishIndexOperation(ui, ui.callback))} :
       ui' = [u EXCEPT !.callback = 0, !.session = releaseIndexSession(u.session)]

TimerFires ==
  /\ ui.timer.armed /\ ui.timer.handler = "idle"
  /\ ui' = [ui EXCEPT !.timer.armed = FALSE, !.timer.handler = "entered"]

ExpireRequests ==
  /\ ui.timer.handler = "entered" /\ ui.dm.pc # "delTimer"
  /\ \E n \in 0 .. Len(ui.pending) : ui' = expireRequests(ui, n)

TimeoutRequest == ui.timer.handler = "expiring" /\ ui' = timeoutIndexOperation(ui)

-----------------------------------------------------------------------------
(* The thread of the queue                                                 *)

TakeItem ==
  /\ ui.worker.pc = "idle" /\ ui.queue # <<>>
  /\ \E u \in {[ui EXCEPT !.queue = Tail(@), !.worker.kvio = Head(ui.queue), !.worker.result = "success"]} :
       ui' = IF u.worker.kvio = 0 THEN changeDedupeState(u) ELSE startIndexOperation(u, u.worker.kvio)

CountRequest ==
  /\ ui.worker.pc = "count"
  /\ ui' = [useUncounted(ui) EXCEPT !.session = getIndexSession(ui.session), !.worker.pc = "check"]

CheckSession ==
  /\ ui.worker.pc = "check"
  /\ LET v == ui.worker.kvio
         released == [claimAnswer(use(ui), v) EXCEPT !.session = releaseIndexSession(ui.session)]
     IN  ui' = IF checkIndexSession(ui.session) = "success"
               THEN [use(ui) EXCEPT !.kvio[v].uds = "out", !.worker.pc = "idle"]
               ELSE [released EXCEPT !.worker.pc = IF released.kvio[v].uds = "finish" THEN "fail" ELSE "idle"]

FailRequest ==
  /\ ui.worker.pc = "fail"
  /\ ui' = [finishIndexOperation(ui, ui.worker.kvio) EXCEPT !.worker.pc = "idle"]

udsCloseIndex ==
  /\ ui.worker.pc = "close" /\ awake("worker")
  /\ unless(has(ui.session, {"waiting", "closing"}), "worker",
       [useUncounted(ui) EXCEPT !.session = startClosing(ui.session), !.worker.result = mayClose(ui.session),
                       !.worker.pc = IF mayClose(ui.session) = "success" THEN "drain" ELSE "closed",
                       !.refused = @ \/ mayClose(ui.session) = "suspended"])

DrainForClose ==
  /\ ui.worker.pc = "drain" /\ awake("worker")
  /\ unless(ui.session.count > 0, "worker", [ui EXCEPT !.worker.pc = "save"])

FreeForClose ==
  /\ ui.worker.pc = "save"
  /\ \E result \in fault({"error"}) :
       ui' = [spend(ui, result) EXCEPT !.session = saveAndFreeIndex(ui.session), !.worker.result = result,
                                       !.worker.pc = "freed"]

FinishClose ==
  /\ ui.worker.pc = "freed"
  /\ ui' = [useUncounted(ui) EXCEPT !.session = finishClosing(ui.session), !.worker.pc = "closed"]

EndClose == ui.worker.pc = "closed" /\ ui' = closeIndex(ui)

udsOpenIndex ==
  /\ ui.worker.pc = "open"
  /\ ui' = [useUncounted(ui) EXCEPT !.session = startLoadingIndexSession(ui.session),
                           !.worker.result = mayStartLoading(ui.session),
                           !.worker.pc = IF mayStartLoading(ui.session) = "success" THEN "load" ELSE "opened",
                           !.refused = @ \/ mayStartLoading(ui.session) = "suspended"]

checkForSuspend ==
  /\ ui.worker.pc = "load" /\ ~ui.worker.create /\ ui.session.status = "suspending"
  /\ ui' = [ui EXCEPT !.session = suspendReplay(ui.session), !.worker.pc = "replay"]

(* When the index is to be freed a replay gives way to a rebuild, which    *)
(* goes on, and a rebuild fails.                                           *)
ContinueReplay ==
  /\ ui.worker.pc = "replay" /\ awake("worker")
  /\ \/ unlessLoad(ui.session.status \notin {"opening", "freeing"}, "worker", [ui EXCEPT !.worker.pc = "load"])
     \/ /\ ui.session.status = "freeing"
        /\ ui' = [ui EXCEPT !.worker.pc = "loaded", !.worker.result = "error"]

makeIndex ==
  /\ ui.worker.pc = "load"
  /\ \E result \in fault({"corrupt", "error"}) :
       ui' = [spend(useUncounted(ui), result) EXCEPT !.worker.pc = "loaded", !.worker.result = result,
                !.session = IF result = "success" THEN indexIsReady(ui.session) ELSE ui.session]

FinishLoad ==
  /\ ui.worker.pc = "loaded"
  /\ ui' = [useUncounted(ui) EXCEPT !.worker.pc = "opened",
              !.session = finishLoadingIndexSession([ui.session EXCEPT !.router = ui.worker.result = "success"], ui.worker.result)]

EndOpen == ui.worker.pc = "opened" /\ ui' = openIndex(ui)

TryAgain == ui.worker.pc = "again" /\ ui' = changeDedupeState(ui)

-----------------------------------------------------------------------------
(* The device mapper                                                       *)

Message ==
  /\ ui.layer \notin {"removing", "removed"} /\ ui.left.messages > 0
  /\ \E name \in {"index-close", "index-create", "index-disable", "index-enable"} :
       ui' = [processMessage(ui, name) EXCEPT !.left.messages = @ - 1]

suspendedNow(u) == [u EXCEPT !.layer = "suspended", !.dm.pc = "idle"]

(* After waitForNoRequestsActive() and the suspension of the VDO.          *)
suspendUDSIndex ==
  /\ ui.layer = "running" /\ ui.dm.pc = "idle" /\ ui.left.suspends > 0
  /\ \A v \in kvios : ~ui.kvio[v].waiting
  /\ \E save \in BOOLEAN :
     \E u \in {[ui EXCEPT !.index.suspended = TRUE, !.left.suspends = @ - 1, !.dm = [pc |-> "suspend", save |-> save]]} :
       ui' = IF ui.index.state = "closed" THEN suspendedNow(u) ELSE u

udsSuspendIndexSession ==
  /\ ui.dm.pc = "suspend" /\ awake("dm")
  /\ LET how == howToSuspend(ui.session, ui.dm.save)
         started == [ui EXCEPT !.session = startSuspending(ui.session, ui.dm.save)]
     IN  unless(has(ui.session, {"closing"}), "dm",
                IF how \in {"save", "stopLoad"} THEN [started EXCEPT !.dm.pc = how] ELSE suspendedNow(started))

udsSaveIndex ==
  /\ ui.dm.pc = "save" /\ awake("dm")
  /\ unless(ui.session.count > 0, "dm", suspendedNow([ui EXCEPT !.session = finishSuspending(ui.session)]))

StopLoad ==
  /\ ui.dm.pc = "stopLoad"
  /\ ui' = assert([ui EXCEPT !.session.status = IF @ = "opening" THEN "suspending" ELSE @,
                             !.dm.pc = IF ui.session.status = "opening" THEN "stopping" ELSE "stopped"],
                  ui.session.status \in {"opening", "ready"}, "the load is opening or ready")

WaitForLoad ==
  /\ ui.dm.pc = "stopping" /\ awake("dm")
  /\ unlessLoad(ui.session.status \notin {"suspended", "ready"}, "dm", [ui EXCEPT !.dm.pc = "stopped"])

FinishSuspend ==
  /\ ui.dm.pc = "stopped"
  /\ ui' = suspendedNow([ui EXCEPT !.session = finishSuspending(ui.session)])

udsResumeIndexSession ==
  /\ ui.layer = "suspended" /\ ui.dm.pc = "idle"
  /\ \E result \in fault({"error"}) :
       ui' = IF result = "error" THEN [spend(ui, result) EXCEPT !.layer = "resuming"]   \* modifyKernelLayer() failed
             ELSE [ui EXCEPT !.session = startResuming(ui.session), !.layer = "resuming",
                             !.dm.pc = IF howToResume(ui.session) = "load" THEN "resumeLoad" ELSE "resumed"]

ResumeLoad ==
  /\ ui.dm.pc = "resumeLoad"
  /\ ui' = assert([ui EXCEPT !.session = resumeLoad(ui.session), !.dm.pc = "resumeEnd"],
                  ui.session.status \in {"suspended", "ready"}, "the load is suspended or ready")

FinishResume ==
  /\ ui.dm.pc = "resumeEnd"
  /\ ui' = [ui EXCEPT !.session = finishResuming(ui.session), !.dm.pc = "resumed"]

(* The VDO is resumed next, which may fail.                                *)
resumeUDSIndex ==
  /\ ui.dm.pc = "resumed"
  /\ \E result \in fault({"error"}) :
       ui' = [spend(launchDedupeStateChange([ui EXCEPT !.index.suspended = FALSE]), result) EXCEPT
                !.dm.pc = "idle", !.layer = IF result = "success" THEN "running" ELSE @]

(* finishUDSIndex(), of a device which is suspended or failed to resume.   *)
finishUDSIndex ==
  /\ ui.layer \in {"suspended", "resuming"} /\ ui.dm.pc = "idle"
  /\ ui' = [stopUDSIndex(ui) EXCEPT !.layer = "removing", !.dm.pc = "destroy"]

udsDestroyIndexSession ==
  /\ ui.dm.pc = "destroy" /\ awake("dm")
  /\ unless(has(ui.session, {"waiting", "closing"}), "dm",
            [ui EXCEPT !.session = startDestroying(ui.session),
                       !.dm.pc = IF loadPending(ui.session) THEN "interrupt" ELSE "drain"])

InterruptLoad == ui.dm.pc = "interrupt" /\ ui' = [ui EXCEPT !.session = interruptLoad(ui.session), !.dm.pc = "awaitLoad"]

AwaitLoad ==
  /\ ui.dm.pc = "awaitLoad" /\ awake("dm")
  /\ unless(has(ui.session, {"loading"}), "dm", [ui EXCEPT !.dm.pc = "drain"])

waitForNoRequestsInProgress ==
  /\ ui.dm.pc = "drain" /\ awake("dm")
  /\ unless(ui.session.count > 0, "dm",
            [ui EXCEPT !.session = [saveAndFreeIndex(ui.session) EXCEPT !.freed = TRUE], !.dm.pc = "finish"])

FinishQueue ==
  /\ ui.dm.pc = "finish" /\ ui.worker.pc = "idle" /\ ui.queue = <<>>
  /\ ui' = [ui EXCEPT !.dm.pc = "free"]

freeUDSIndex ==
  /\ ui.dm.pc = "free"
  /\ ui' = IF ui.timer.started THEN [ui EXCEPT !.dm.pc = "delTimer"] ELSE [ui EXCEPT !.layer = "removed", !.dm.pc = "idle"]

DeleteTimer ==
  /\ ui.dm.pc = "delTimer" /\ ui.timer.handler = "idle"
  /\ ui' = [ui EXCEPT !.layer = "removed", !.dm.pc = "idle", !.timer.armed = FALSE]

-----------------------------------------------------------------------------
Init ==
  \E b \in Budgets, create \in BOOLEAN :
    ui = startUDSIndex(
           [index |-> makeUDSIndex, session |-> makeEmptyIndexSession, queue |-> <<>>, pending |-> <<>>,
            worker |-> [pc |-> "idle", create |-> FALSE, result |-> "success", kvio |-> 0],
            dm |-> [pc |-> "idle", save |-> FALSE], layer |-> "running", callback |-> 0,
            kvio |-> [v \in 1 .. b.kvios |-> idleKVIO],
            timer |-> [started |-> FALSE, armed |-> FALSE, handler |-> "idle", expired |-> <<>>],
            left |-> b, ruined |-> FALSE, refused |-> FALSE, asserts |-> {}], create)

Next ==
  /\ ~ui.ruined
  /\ \/ \E v \in kvios : Request(v) \/ AnswerRequest(v)
     \/ FinishRequest \/ TimerFires \/ ExpireRequests \/ TimeoutRequest
     \/ TakeItem \/ CountRequest \/ CheckSession \/ FailRequest
     \/ udsCloseIndex \/ DrainForClose \/ FreeForClose \/ FinishClose \/ EndClose
     \/ udsOpenIndex \/ checkForSuspend \/ ContinueReplay \/ makeIndex \/ FinishLoad \/ EndOpen \/ TryAgain
     \/ Message \/ suspendUDSIndex \/ udsSuspendIndexSession \/ udsSaveIndex \/ StopLoad \/ WaitForLoad \/ FinishSuspend
     \/ udsResumeIndexSession \/ ResumeLoad \/ FinishResume \/ resumeUDSIndex
     \/ finishUDSIndex \/ udsDestroyIndexSession \/ InterruptLoad \/ AwaitLoad \/ waitForNoRequestsInProgress
     \/ FinishQueue \/ freeUDSIndex \/ DeleteTimer

-----------------------------------------------------------------------------
(* Properties                                                              *)

dmCanStep ==
  /\ ui.dm.pc # "idle" /\ awake("dm")
  /\ ui.dm.pc = "finish" => ui.worker.pc = "idle" /\ ui.queue = <<>>
  /\ ui.dm.pc = "delTimer" => ui.timer.handler = "idle"

workerCanStep == awake("worker") /\ (ui.worker.pc # "idle" \/ ui.queue # <<>>)

othersCanStep ==
  \/ ui.callback # 0 \/ \E v \in kvios : ui.kvio[v].uds = "out"
  \/ ui.timer.handler = "expiring" \/ (ui.timer.handler = "entered" /\ ui.dm.pc # "delTimer")

(* A load which fails tells nobody: a suspend waits for it forever.        *)
LoadFailsDuringSuspend == ui.dm.pc = "stopping" /\ ui.session.status = "suspending" /\ ui.worker.pc # "replay"

(* Suspended again before it woke up, the load does not notice either.     *)
ResumeIsOvertaken == ui.dm.pc = "stopping" /\ ui.session.status = "suspending" /\ ui.worker.pc = "replay"

(* del_timer_sync() waits for the handler, which waits for the lock.       *)
TimerFiresDuringFree == ui.dm.pc = "delTimer" /\ ui.timer.handler = "entered"

(* Nobody waits forever, however requests, timeouts, changes of state,     *)
(* suspends and the removal of the device interleave: as long as a request *)
(* or a thread of the device mapper waits, some thread can go on, with the *)
(* three exceptions above (udsIndex.c, indexSession.c).                    *)
NobodyWaitsForever ==
  \/ dmCanStep \/ workerCanStep \/ othersCanStep \/ ui.ruined
  \/ /\ ui.dm.pc = "idle" /\ (ui.worker.pc = "idle" \/ (ui.layer # "running" /\ ui.session.status = "suspended"))
     /\ \A v \in kvios : ~ui.kvio[v].waiting
  \/ LoadFailsDuringSuspend \/ ResumeIsOvertaken \/ TimerFiresDuringFree

(* When a running device has no change of state to do, the index is in the *)
(* state last asked for (an open which fails asks for "closed", even when  *)
(* a message asked for something else meanwhile), its session is loaded    *)
(* just when it is open unless a suspend overtook a close or an open,      *)
(* dedupe is on just when it should be, and the counter of active requests *)
(* is right (launchDedupeStateChange(), changeDedupeState()).              *)
StatesAgree ==
  (ui.worker.pc = "idle" /\ 0 \notin ToSet(ui.queue) /\ ui.dm.pc = "idle" /\ ui.layer = "running") =>
    /\ ~ui.index.changing /\ ~ui.index.createFlag
    /\ ui.index.state = ui.index.target
    /\ ui.index.deduping = (ui.index.dedupeFlag /\ ui.index.state = "opened")
    /\ ui.session.state = (IF ui.index.state = "opened" THEN {"loaded"} ELSE {}) \/ ui.refused
    /\ ui.index.active = Cardinality({v \in kvios : ui.kvio[v].waiting})

(* A callback is invoked once for each operation, by the answer or by the  *)
(* timeout; a request the session counts never finds it freed, and suspend *)
(* and resume find the load in a state they expect.                        *)
NoAssertionFails == ui.asserts = {}
=============================================================================
