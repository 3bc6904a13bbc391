------------------------------- MODULE WorkQueue -------------------------------
(***************************************************************************)
(* A simple work queue of kernel/workQueue.c, on the lock-free queues of   *)
(* util/funnelQueue.c: threads put items on its priority lists, the worker *)
(* thread runs them and sleeps when it finds none, items may be delayed by *)
(* a timer, and at the end the worker is stopped and the queue freed.      *)
(*                                                                         *)
(* Memory accesses are sequentially consistent, as the fences ask.  A      *)
(* thread's slot is 0 for the worker, which may put items while it runs    *)
(* one, and Timer for the timer's handler.  A round-robin queue is several *)
(* of these.                                                               *)
(***************************************************************************)
EXTENDS Integers, Sequences

CONSTANTS
  ItemPriority,   \* the priority of each item's action, from 1
  ThreadCount,    \* which put items
  MaxEnqueues,    \* how often any of them does
  MaxTime,        \* of the clock
  Heartbeats      \* how often a sleep times out

VARIABLE wq

Timer == ThreadCount + 1
Threads == 0 .. Timer
Items == DOMAIN ItemPriority
numPriorityLists == CHOOSE n \in {ItemPriority[i] : i \in Items} : \A i \in Items : ItemPriority[i] <= n
Priorities == 1 .. numPriorityLists
null == 0

(* Each action has a priority list; how much happens is bounded.           *)
isProper ==
  /\ Items \subseteq Nat \ {null} /\ numPriorityLists \in Nat \ {0} /\ ItemPriority \in [Items -> Priorities]
  /\ ThreadCount \in Nat /\ MaxTime \in Nat /\ MaxEnqueues \in Nat /\ Heartbeats \in Nat

(* The stub entry of a priority list's funnel queue.                       *)
stub(p) == -p
Entries == Items \cup {stub(p) : p \in Priorities}

(* Where a thread is in the code, the item which it is putting and the     *)
(* entry to which that is to be linked, whether it is to wake the worker   *)
(* and the time to which it is to set the timer.                           *)
thread(pc, item, previous, wakes, time) ==
  [pc |-> pc, item |-> item, previous |-> previous, wakes |-> wakes, time |-> time]

noThread == thread("idle", null, null, FALSE, 0)

makeSimpleWorkQueue ==
  [newest |-> [p \in Priorities |-> stub(p)], oldest |-> [p \in Priorities |-> stub(p)], next |-> [e \in Entries |-> null],
   myQueue |-> {},                  \* the items which are marked as being in this queue
   delayedItems |-> <<>>, executionTime |-> [i \in Items |-> 0], timer |-> -1, lock |-> -1,
   idle |-> FALSE, waiting |-> FALSE,
   worker |-> [pc |-> "poll", from |-> "next", list |-> numPriorityLists, item |-> null],
   shouldStop |-> FALSE, freed |-> FALSE,
   threads |-> [t \in Threads |-> noThread], jiffies |-> 0, enqueues |-> MaxEnqueues, heartbeats |-> Heartbeats,
   put |-> [p \in Priorities |-> <<>>],   \* the items put and not yet taken
   late |-> {}, asserts |-> {}]

Init ==
  wq = makeSimpleWorkQueue

assert(w, holds, what) == [w EXCEPT !.asserts = IF holds THEN @ ELSE @ \cup {what}]

(* What a thread does to a queue which was freed.                          *)
use(w, what) == [w EXCEPT !.late = IF w.freed THEN @ \cup {what} ELSE @]

-----------------------------------------------------------------------------
(* Funnel queues                                                           *)

(* The first half of funnelQueuePut(): the exchange; its second half is    *)
(* linkEntry().                                                            *)
exchange(w, p, entry) == [w EXCEPT !.next[entry] = null, !.newest[p] = entry]

linkEntry(w, previous, entry) == [w EXCEPT !.next[previous] = entry]

(* getOldest() up to where it puts the stub: the oldest entry if it has a  *)
(* successor, null if there is none to be seen, or that the stub is to be  *)
(* put.                                                                    *)
getOldest(w, p) ==
  LET first == w.oldest[p]
      oldest == IF first = stub(p) THEN w.next[first] ELSE first
      skipped == [w EXCEPT !.oldest[p] = oldest]
  IN  IF oldest = null THEN [w |-> w, entry |-> null, putStub |-> FALSE]
      ELSE IF w.next[oldest] # null THEN [w |-> skipped, entry |-> oldest, putStub |-> FALSE]
      ELSE [w |-> skipped, entry |-> null, putStub |-> w.newest[p] = oldest]

putStub(w, p) == linkEntry(exchange(w, p, stub(p)), w.newest[p], stub(p))

(* Take the entry which getOldest() found.                                 *)
funnelQueuePoll(w, p, entry) ==
  [assert(w, w.put[p] # <<>> /\ Head(w.put[p]) = entry, "items are taken in the order in which they were put")
     EXCEPT !.oldest[p] = w.next[entry], !.next[entry] = null, !.put[p] = Tail(@)]

-----------------------------------------------------------------------------
(* Putting items                                                           *)

(* Until the exchange; the thread goes on in Link.                         *)
enqueueWorkQueueItem(w, t, item) ==
  LET p == ItemPriority[item]
      checked == assert(use(w, "put"), item \notin w.myQueue, "item to enqueue is not already queued")
  IN  [exchange(checked, p, item) EXCEPT
         !.myQueue = @ \cup {item}, !.put[p] = Append(@, item),
         !.threads[t] = thread("link", item, w.newest[p], @.wakes, @.time)]

Link(t) ==
  /\ wq.threads[t].pc = "link"
  /\ wq' = [linkEntry(wq, wq.threads[t].previous, wq.threads[t].item) EXCEPT
              !.threads[t] = thread("checkIdle", null, null, @.wakes, @.time)]

(* The end of enqueueWorkQueueItem(): whoever finds the worker idle wakes  *)
(* it.  The timer's handler goes on with its other items first.            *)
CheckIdle(t) ==
  /\ wq.threads[t].pc = "checkIdle"
  /\ LET wakes == wq.idle \/ wq.threads[t].wakes
     IN  wq' = [use(wq, "idle") EXCEPT !.idle = FALSE,
                  !.threads[t] = thread(IF t = Timer THEN "locked" ELSE IF wakes THEN "wake" ELSE "idle",
                                        @.item, @.previous, wakes, @.time)]

wakeWorkerThread(w) == [use(w, "wake") EXCEPT !.waiting = FALSE]

WakeWorker(t) ==
  /\ wq.threads[t].pc = "wake"
  /\ wq' = [wakeWorkerThread(wq) EXCEPT !.threads[t] = noThread]

(* A thread which is not in the queue's code; the worker is in a work      *)
(* function.                                                               *)
mayEnqueue(t) ==
  /\ wq.threads[t].pc = "idle" /\ t # Timer /\ wq.enqueues > 0
  /\ IF t = 0 THEN wq.worker.pc = "work" ELSE ~wq.shouldStop

(* An item is enqueued by whoever it belongs to, when it is in no queue.   *)
enqueueWorkQueue(t) ==
  /\ mayEnqueue(t)
  /\ \E item \in Items \ wq.myQueue :
       /\ \A u \in Threads : wq.threads[u].item # item
       /\ t # 0 \/ ~wq.shouldStop
       /\ wq' = [enqueueWorkQueueItem(wq, t, item) EXCEPT !.enqueues = @ - 1, !.executionTime[item] = 0]

(* Only the first delayed item sets the timer, after the unlock.  The      *)
(* worker may still delay its own item when the queue is being finished.   *)
enqueueWorkQueueDelayed(t) ==
  /\ mayEnqueue(t) /\ wq.lock = -1
  /\ \E item \in Items \ wq.myQueue, executionTime \in 1 .. MaxTime :
       /\ executionTime > wq.jiffies
       /\ \A u \in Threads : wq.threads[u].item # item
       /\ t = 0 => item = wq.worker.item
       /\ wq' = [use(wq, "put") EXCEPT
                   !.enqueues = @ - 1, !.executionTime[item] = executionTime,
                   !.myQueue = @ \cup {item}, !.delayedItems = Append(@, item),
                   !.threads[t] = IF wq.delayedItems = <<>> THEN thread("modTimer", @.item, @.previous, @.wakes, executionTime)
                                  ELSE @]

ModTimer(t) ==
  /\ wq.threads[t].pc = "modTimer"
  /\ wq' = [use(wq, "timer") EXCEPT
              !.timer = wq.threads[t].time,
              !.threads[t] = thread(IF @.wakes THEN "wake" ELSE "idle", @.item, @.previous, @.wakes, 0)]

-----------------------------------------------------------------------------
(* The timer                                                               *)

Tick == wq.jiffies < MaxTime /\ wq' = [wq EXCEPT !.jiffies = @ + 1]

(* The handler takes the lock and keeps it until it has put every item     *)
(* which is due.                                                           *)
processDelayedWorkItems ==
  /\ wq.timer # -1 /\ wq.timer <= wq.jiffies /\ wq.threads[Timer].pc = "idle" /\ wq.lock = -1
  /\ wq' = [use(wq, "timer") EXCEPT !.timer = -1, !.lock = Timer,
              !.threads[Timer] = thread("locked", @.item, @.previous, @.wakes, @.time)]

ContinueDelayed ==
  /\ wq.threads[Timer].pc = "locked"
  /\ LET due == wq.delayedItems # <<>> /\ wq.executionTime[Head(wq.delayedItems)] <= wq.jiffies
         polled == [wq EXCEPT !.delayedItems = Tail(@), !.executionTime[Head(wq.delayedItems)] = 0,
                              !.myQueue = @ \ {Head(wq.delayedItems)}]
         reschedule == wq.delayedItems # <<>>
     IN  wq' = IF due THEN enqueueWorkQueueItem(polled, Timer, Head(wq.delayedItems))
               ELSE [wq EXCEPT !.lock = -1,
                       !.threads[Timer] = thread(IF reschedule THEN "modTimer" ELSE IF @.wakes THEN "wake" ELSE "idle",
                                                 @.item, @.previous, @.wakes,
                                                 IF reschedule THEN wq.executionTime[Head(wq.delayedItems)] ELSE 0)]

-----------------------------------------------------------------------------
(* The worker                                                              *)

at(w, pc) == [w EXCEPT !.worker.pc = pc]

(* pollForWorkItem() starts with the highest priority.                     *)
startPoll(w, from) == [w EXCEPT !.worker = [pc |-> "poll", from |-> from, list |-> numPriorityLists, item |-> @.item]]

stopWaiting(w) == [w EXCEPT !.waiting = FALSE, !.idle = FALSE]

(* An item was found: waitForNextWorkItem() returns it, if it was called.  *)
processWorkItem(w, item) ==
  LET mine == assert(w, item \in w.myQueue, "item marked as being in this queue")
      awake == IF w.worker.from = "next" THEN mine ELSE stopWaiting(mine)
  IN  [awake EXCEPT !.myQueue = @ \ {item}, !.worker = [@ EXCEPT !.item = item, !.pc = "work"]]

(* Nothing was found in the list, nor perhaps in any.                      *)
foundNothing(w) ==
  IF w.worker.list > 1 THEN [w EXCEPT !.worker = [@ EXCEPT !.list = w.worker.list - 1, !.pc = "poll"]]
  ELSE CASE w.worker.from \in {"next", "woken"} -> at(w, "prepareToWait")
         [] w.worker.from = "waiting"           -> at(w, "checkStop")
         [] w.worker.from = "stopping"          -> at(stopWaiting(w), "exited")

pollForWorkItem ==
  /\ wq.worker.pc = "poll"
  /\ \E r \in {getOldest(wq, wq.worker.list)} :
       wq' = IF r.putStub THEN at(r.w, "putStub")
             ELSE IF r.entry = null THEN foundNothing(r.w)
             ELSE processWorkItem(funnelQueuePoll(r.w, wq.worker.list, r.entry), r.entry)

PutStub == wq.worker.pc = "putStub" /\ wq' = at(putStub(wq, wq.worker.list), "pollAgain")

(* A producer may have exchanged before the stub was put and not yet have  *)
(* linked its entry.                                                       *)
PollAgain ==
  /\ wq.worker.pc = "pollAgain"
  /\ LET entry == wq.oldest[wq.worker.list]
     IN  wq' = IF wq.next[entry] = null THEN foundNothing(wq)
               ELSE processWorkItem(funnelQueuePoll(wq, wq.worker.list, entry), entry)

(* The work function returns.                                              *)
getNextWorkItem ==
  /\ wq.worker.pc = "work" /\ wq.threads[0].pc = "idle"
  /\ wq' = [startPoll(wq, "next") EXCEPT !.worker.item = null]

(* A mutant: no look at the lists after the worker is idle.                *)
waitWithoutLook ==
  \/ wq.worker.pc = "prepareToWait" /\ wq' = [wq EXCEPT !.waiting = TRUE, !.worker.pc = "setIdle"]
  \/ wq.worker.pc = "setIdle" /\ wq' = [at(wq, "checkStop") EXCEPT !.idle = TRUE]

(* The worker is idle only once a wakeup will not be lost.                 *)
waitForNextWorkItem ==
  \/ wq.worker.pc = "prepareToWait" /\ wq' = [wq EXCEPT !.waiting = TRUE, !.worker.pc = "setIdle"]
  \/ wq.worker.pc = "setIdle" /\ wq' = [startPoll(wq, "waiting") EXCEPT !.idle = TRUE]

hasDelayedWorkItems == wq.delayedItems # <<>>

CheckStop ==
  /\ wq.worker.pc = "checkStop" /\ (wq.shouldStop => wq.lock = -1)
  /\ wq' = IF wq.shouldStop /\ ~hasDelayedWorkItems THEN startPoll(wq, "stopping") ELSE at(wq, "sleep")

Wake == wq.worker.pc = "sleep" /\ ~wq.waiting /\ wq' = startPoll(wq, "woken")

Heartbeat ==
  /\ wq.worker.pc = "sleep" /\ wq.waiting /\ wq.heartbeats > 0
  /\ wq' = [startPoll(wq, "woken") EXCEPT !.waiting = FALSE, !.heartbeats = @ - 1]

-----------------------------------------------------------------------------
(* The end                                                                 *)

(* Its users finish a queue when their items have all been run, except the *)
(* delayed ones; kthread_stop() wakes the worker and waits for it.         *)
finishSimpleWorkQueue ==
  /\ ~wq.shouldStop /\ wq.worker.item = null
  /\ wq.myQueue = {wq.delayedItems[i] : i \in DOMAIN wq.delayedItems}
  /\ wq' = [wq EXCEPT !.shouldStop = TRUE, !.waiting = FALSE]

freeSimpleWorkQueue == wq.worker.pc = "exited" /\ ~wq.freed /\ wq' = [wq EXCEPT !.freed = TRUE]

Next ==
  \/ \E t \in Threads : enqueueWorkQueue(t) \/ enqueueWorkQueueDelayed(t) \/ Link(t) \/ CheckIdle(t) \/ ModTimer(t) \/ WakeWorker(t)
  \/ Tick \/ processDelayedWorkItems \/ ContinueDelayed
  \/ pollForWorkItem \/ PutStub \/ PollAgain \/ getNextWorkItem \/ waitForNextWorkItem
  \/ CheckStop \/ Wake \/ Heartbeat
  \/ finishSimpleWorkQueue \/ freeSimpleWorkQueue

Spec == Init /\ [][Next]_wq

-----------------------------------------------------------------------------
(* Properties                                                              *)

quiet == \A t \in Threads : wq.threads[t].pc = "idle"

(* A worker does not sleep on work: once every thread which put an item    *)
(* has returned, a worker asleep has nothing in its lists, so that no item *)
(* needs the heartbeat; delayed items have their timer set or about to be  *)
(* set or to run; and a worker exits only when nothing is left, and after  *)
(* that nobody puts an item or sets the timer (waitForNextWorkItem(),      *)
(* enqueueWorkQueueItem(), processDelayedWorkItems()).                     *)
NobodyWaitsForever ==
  /\ quiet /\ wq.worker.pc = "sleep" /\ wq.waiting => \A p \in Priorities : wq.put[p] = <<>>
  /\ quiet /\ wq.delayedItems # <<>> => wq.timer # -1
  /\ wq.worker.pc = "exited" => wq.myQueue = {}
  /\ wq.late \cap {"put", "timer"} = {}

(* The funnel queues give each item once and those of a list in the order  *)
(* in which they were put, whoever is between the two halves of a put      *)
(* (funnelQueuePoll(), getOldest()); and an item is never in the queue     *)
(* twice.                                                                  *)
NoAssertionFails == wq.asserts = {}

=============================================================================
