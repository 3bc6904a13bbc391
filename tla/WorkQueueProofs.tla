--------------------------- MODULE WorkQueueProofs ---------------------------
(***************************************************************************)
(* A simple work queue loses no item, no wakeup and no delayed item, for   *)
(* any number of threads, items and priority lists.                        *)
(*                                                                         *)
(* The entries of a funnel queue are a chain with gaps (Chained): whoever  *)
(* is between the two halves of a put is to close one of them.  The worker *)
(* relies on it when it sleeps (Awakened): behind what it saw of the lists *)
(* there are only items whose putters will look whether it is idle.        *)
(***************************************************************************)
EXTENDS WorkQueue, TLAPS

-----------------------------------------------------------------------------
(* The inductive invariant                                                 *)

(* Where threads and the worker may be, and what they remember there.      *)
ThreadPCs == {"idle", "link", "checkIdle", "modTimer", "wake", "locked"}
WorkerPCs == {"poll", "putStub", "pollAgain", "work", "prepareToWait", "setIdle", "checkStop", "sleep", "exited"}
Thread == [pc : ThreadPCs, item : Items \cup {null}, previous : Entries \cup {null}, wakes : BOOLEAN, time : Nat]
Worker == [pc : WorkerPCs, from : {"next", "waiting", "woken", "stopping"}, list : Priorities, item : Items \cup {null}]

(* The states of a queue, none of whose assertions has failed.             *)
State ==
  [newest : [Priorities -> Entries], oldest : [Priorities -> Entries], next : [Entries -> Entries \cup {null}],
   myQueue : SUBSET Items, delayedItems : Seq(Items), executionTime : [Items -> Nat], timer : Nat \cup {-1},
   lock : {-1, Timer}, idle : BOOLEAN, waiting : BOOLEAN, worker : Worker, shouldStop : BOOLEAN, freed : BOOLEAN,
   threads : [Threads -> Thread], jiffies : Int, enqueues : Int, heartbeats : Int,
   put : [Priorities -> Seq(Items)], late : SUBSET {"idle", "wake"}, asserts : {{}}]

(* The type of the state.                                                  *)
WorkQueueTypeOK == isProper /\ wq \in State

(* The entries of list p from the oldest to the newest are its items q and *)
(* the stub, which is the k-th of them unless k is 0.                      *)
entries(p, q, k) ==
  [j \in 1 .. (IF k = 0 THEN Len(q) ELSE Len(q) + 1) |->
     IF k = 0 \/ j < k THEN q[j] ELSE IF j = k THEN stub(p) ELSE q[j - 1]]

(* The thread has put the item and is to link it to the previous entry.    *)
links(th, previous, item) == th.pc = "link" /\ th.previous = previous /\ th.item = item

(* Each entry of c, from the oldest to the newest, is linked to the one    *)
(* after it or is to be linked by just the thread which put that one.      *)
isChain(p, c, oldest, newest, next, threads) ==
  /\ c # <<>> /\ oldest = c[1] /\ newest = c[Len(c)] /\ next[newest] = null
  /\ \A j \in 1 .. Len(c) - 1 :
       \/ next[c[j]] = c[j + 1]
       \/ next[c[j]] = null /\ \E t \in Threads : links(threads[t], c[j], c[j + 1])
  /\ \A t \in Threads : threads[t].pc = "link" /\ ItemPriority[threads[t].item] = p =>
       \E j \in 1 .. Len(c) - 1 : next[c[j]] = null /\ links(threads[t], c[j], c[j + 1])

(* The stub is not in a list to which the worker is about to put it, and   *)
(* behind the oldest once it has.                                          *)
stubIsKnown(p, k) ==
  /\ wq.worker.pc = "putStub" /\ wq.worker.list = p => k = 0
  /\ wq.worker.pc = "pollAgain" /\ wq.worker.list = p => k > 1

(* The entries of list p are linked, or are about to be.                   *)
listIsChain(p) ==
  \E k \in 0 .. Len(wq.put[p]) + 1 :
    /\ isChain(p, entries(p, wq.put[p], k), wq.oldest[p], wq.newest[p], wq.next, wq.threads)
    /\ stubIsKnown(p, k)

Chained == \A p \in Priorities : listIsChain(p)

(* What is marked as being in the queue is, once, delayed or in a list.    *)
Marked ==
  /\ \A p \in Priorities :
       /\ \A j \in DOMAIN wq.put[p] : wq.put[p][j] \in wq.myQueue /\ ItemPriority[wq.put[p][j]] = p
       /\ \A i, j \in DOMAIN wq.put[p] : wq.put[p][i] = wq.put[p][j] => i = j
       /\ \A i \in DOMAIN wq.put[p], j \in DOMAIN wq.delayedItems : wq.put[p][i] # wq.delayedItems[j]
  /\ \A j \in DOMAIN wq.delayedItems : wq.delayedItems[j] \in wq.myQueue
  /\ \A i, j \in DOMAIN wq.delayedItems : wq.delayedItems[i] = wq.delayedItems[j] => i = j
  /\ \A i \in wq.myQueue : \/ \E j \in DOMAIN wq.delayedItems : wq.delayedItems[j] = i
                           \/ \E j \in DOMAIN wq.put[ItemPriority[i]] : wq.put[ItemPriority[i]][j] = i

(* A thread has an item just while it is to link it, and nobody else has   *)
(* it.                                                                     *)
Linking ==
  /\ \A t \in Threads : wq.threads[t].pc = "link" <=> wq.threads[t].item # null
  /\ \A t, u \in Threads : wq.threads[t].item = wq.threads[u].item /\ wq.threads[t].item # null => t = u

(* The timer is set, or about to be by one thread, while items are delayed *)
(* and the handler does not have the lock.                                 *)
Timed ==
  /\ wq.lock = Timer <=> wq.threads[Timer].pc \in {"locked", "link", "checkIdle"}
  /\ \A t \in Threads \ {Timer} : wq.threads[t].pc # "locked"
  /\ \A t, u \in Threads : wq.threads[t].pc = "modTimer" /\ wq.threads[u].pc = "modTimer" => t = u
  /\ \A t \in Threads : wq.threads[t].pc = "modTimer" => wq.timer = -1
  /\ (wq.timer # -1 \/ \E t \in Threads : wq.threads[t].pc = "modTimer") <=> wq.lock = -1 /\ wq.delayedItems # <<>>

(* The lists in which the worker has found nothing since it began to poll. *)
polling == wq.worker.pc \in {"poll", "putStub", "pollAgain"}
seen(p) == polling => p > wq.worker.list

(* A worker which is to sleep is idle, unless somebody is to wake it; and  *)
(* what is in a list it has seen was put by one who has yet to look        *)
(* whether the worker is idle, or before somebody looked.                  *)
Awakened ==
  /\ wq.worker.pc \in {"checkStop", "sleep"} => wq.worker.from = "waiting"
  /\ \A t \in Threads : wq.threads[t].wakes => wq.threads[t].pc # "idle"
  /\ wq.worker.from = "waiting" /\ (polling \/ wq.worker.pc \in {"checkStop", "sleep"}) /\ wq.waiting =>
       IF wq.idle THEN \A p \in Priorities : seen(p) /\ wq.put[p] # <<>> =>
                         \E t \in Threads : wq.threads[t].pc \in {"link", "checkIdle"}
       ELSE \E t \in Threads : wq.threads[t].wakes

(* Once the queue is to be finished only the timer's handler puts items,   *)
(* and once the worker polls for the last time nobody does.                *)
Finished ==
  /\ wq.shouldStop => \A t \in Threads \ {Timer} : wq.threads[t].pc # "link"
  /\ wq.worker.pc = "exited" \/ (wq.worker.from = "stopping" /\ polling) =>
       /\ wq.shouldStop /\ wq.delayedItems = <<>> /\ wq.lock = -1
       /\ \A p \in Priorities : seen(p) => wq.put[p] = <<>>
  /\ wq.freed => wq.worker.pc = "exited"

(* The inductive invariant.                                                *)
WorkQueueInv ==
  WorkQueueTypeOK /\ Chained /\ Marked /\ Linking /\ Timed /\ Awakened /\ Finished

-----------------------------------------------------------------------------
(* Chains                                                                  *)

(* No element of the sequence is in it twice.                              *)
isInjective(c) == \A i, j \in 1 .. Len(c) : c[i] = c[j] => i = j

(* A sequence of one entry is not empty.                                   *)
LEMMA OneIsNotEmpty == ASSUME NEW c, Len(c) = 1 PROVE c # <<>>
  OBVIOUS

(* Two neighbours in a sequence of entries.                                *)
LEMMA TwoInARow ==
  ASSUME NEW c \in Seq(Entries), NEW j \in 1 .. Len(c) - 1, NEW m, m = j + 1
  PROVE  j \in 1 .. Len(c) /\ m \in 1 .. Len(c) /\ m > 1 /\ m - 1 = j
  OBVIOUS

(* The first half of funnelQueuePut() makes the chain longer, the thread   *)
(* being the one to close the gap.                                         *)
LEMMA ChainGrows ==
  ASSUME NEW p, NEW c \in Seq(Entries), NEW oldest, NEW newest, NEW next, NEW threads, NEW next2, NEW threads2,
         isChain(p, c, oldest, newest, next, threads), NEW e, NEW t \in Threads,
         \A j \in 1 .. Len(c) : c[j] # e /\ next2[c[j]] = next[c[j]],
         next2[e] = null, threads[t].pc # "link", links(threads2[t], newest, e),
         \A u \in Threads \ {t} : threads2[u] = threads[u]
  PROVE  isChain(p, Append(c, e), oldest, e, next2, threads2)
<1> DEFINE d == Append(c, e)
           n == Len(c)
<1>1. /\ n \in Nat \ {0} /\ Len(d) = n + 1 /\ d[n + 1] = e /\ \A j \in 1 .. n : d[j] = c[j]
      /\ d # <<>> /\ newest = c[n] /\ oldest = c[1] /\ next[newest] = null
  BY DEF isChain
<1> HIDE DEF d, n
<1>2. ASSUME NEW j \in 1 .. n
      PROVE  \/ next2[d[j]] = d[j + 1]
             \/ next2[d[j]] = null /\ \E u \in Threads : links(threads2[u], d[j], d[j + 1])
  <2>1. CASE j = n
    BY Zenon, <1>1, <2>1 DEF n
  <2>2. CASE j # n
    <3>1. \/ next[c[j]] = c[j + 1]
          \/ next[c[j]] = null /\ \E u \in Threads : links(threads[u], c[j], c[j + 1])
      BY <1>1, <2>2 DEF isChain, n
    <3>2. next2[d[j]] = next[c[j]] /\ d[j] = c[j] /\ d[j + 1] = c[j + 1]
      BY <1>1, <2>2 DEF n
    <3> QED BY Zenon, <3>1, <3>2 DEF links
  <2> QED BY Zenon, <2>1, <2>2
<1>3. ASSUME NEW u \in Threads, threads2[u].pc = "link", ItemPriority[threads2[u].item] = p
      PROVE  \E j \in 1 .. n : next2[d[j]] = null /\ links(threads2[u], d[j], d[j + 1])
  <2>1. CASE u = t
    BY <1>1, <2>1 DEF n
  <2>2. CASE u # t
    <3>1. PICK j \in 1 .. n - 1 : next[c[j]] = null /\ links(threads[u], c[j], c[j + 1])
      BY Zenon, <1>3, <2>2 DEF isChain, n
    <3>2. j \in 1 .. n /\ next2[d[j]] = null /\ links(threads2[u], d[j], d[j + 1])
      BY <1>1, <2>2, <3>1 DEF n
    <3> QED BY Zenon, <3>2
  <2> QED BY Zenon, <2>1, <2>2
<1>4. isChain(p, d, oldest, e, next2, threads2)
  BY <1>1, <1>2, <1>3 DEF isChain
<1> QED BY Zenon, <1>4 DEF d

(* The second half closes the gap.                                         *)
LEMMA ChainIsLinked ==
  ASSUME NEW p, NEW c \in Seq(Entries), NEW oldest, NEW newest, NEW next, NEW threads, NEW next2, NEW threads2,
         isChain(p, c, oldest, newest, next, threads), isInjective(c), NEW t \in Threads,
         threads[t].pc = "link", ItemPriority[threads[t].item] = p,
         next2[threads[t].previous] = threads[t].item,
         \A j \in 1 .. Len(c) : c[j] # threads[t].previous => next2[c[j]] = next[c[j]],
         threads2[t].pc # "link", \A u \in Threads \ {t} : threads2[u] = threads[u],
         \A u \in Threads : threads[u].pc = "link" /\ threads[u].item = threads[t].item => u = t
  PROVE  isChain(p, c, oldest, newest, next2, threads2)
<1>0. Len(c) \in Nat /\ c # <<>> /\ Len(c) > 0
  BY DEF isChain
<1>1. PICK i \in 1 .. Len(c) - 1 : next[c[i]] = null /\ links(threads[t], c[i], c[i + 1])
  BY Zenon DEF isChain
<1>2. next2[newest] = null
  BY <1>0, <1>1 DEF isChain, isInjective, links
<1>3. ASSUME NEW j \in 1 .. Len(c) - 1
      PROVE  \/ next2[c[j]] = c[j + 1]
             \/ next2[c[j]] = null /\ \E u \in Threads : links(threads2[u], c[j], c[j + 1])
  <2>1. CASE j = i
    BY Zenon, <1>1, <2>1 DEF links
  <2>2. CASE j # i
    <3>1. c[j] # c[i] /\ c[j + 1] # c[i + 1]
      BY <1>0, <2>2 DEF isInjective
    <3>2. next2[c[j]] = next[c[j]]
      BY <1>0, <1>1, <3>1 DEF links
    <3>3. \/ next[c[j]] = c[j + 1]
          \/ next[c[j]] = null /\ \E u \in Threads : links(threads[u], c[j], c[j + 1])
      BY Zenon DEF isChain
    <3> QED BY Zenon, <1>1, <3>1, <3>2, <3>3 DEF links
  <2> QED BY Zenon, <2>1, <2>2
<1>4. ASSUME NEW u \in Threads, threads2[u].pc = "link", ItemPriority[threads2[u].item] = p
      PROVE  \E j \in 1 .. Len(c) - 1 : next2[c[j]] = null /\ links(threads2[u], c[j], c[j + 1])
  <2>1. u # t /\ threads2[u] = threads[u]
    BY Zenon, <1>4
  <2>2. PICK j \in 1 .. Len(c) - 1 : next[c[j]] = null /\ links(threads[u], c[j], c[j + 1])
    BY <1>4, <2>1 DEF isChain
  <2>3. c[j] # threads[t].previous
    BY <1>0, <1>1, <1>4, <2>1, <2>2 DEF links, isInjective
  <2> QED BY <1>0, <2>1, <2>2, <2>3
<1> QED BY Zenon, <1>2, <1>3, <1>4 DEF isChain

(* The oldest entry leaves a chain once it is linked to the next one.      *)
LEMMA ChainLosesOldest ==
  ASSUME NEW p, NEW c \in Seq(Entries), NEW oldest, NEW newest, NEW next, NEW threads, NEW next2,
         isChain(p, c, oldest, newest, next, threads), next[oldest] # null,
         \A j \in 2 .. Len(c) : next2[c[j]] = next[c[j]]
  PROVE  Len(c) > 1 /\ isChain(p, Tail(c), next[oldest], newest, next2, threads)
<1> DEFINE d == Tail(c)
           n == Len(c)
<1>1. n \in Nat /\ n > 1 /\ oldest = c[1] /\ newest = c[n] /\ next[newest] = null
  BY DEF isChain
<1>2. Len(d) = n - 1 /\ \A j \in 1 .. n - 1 : d[j] = c[j + 1]
  BY <1>1
<1> HIDE DEF d
<1>3. d # <<>> /\ next[oldest] = d[1] /\ newest = d[n - 1] /\ next2[newest] = null
  BY <1>1, <1>2 DEF isChain
<1>4. ASSUME NEW j \in 1 .. n - 2
      PROVE  \/ next2[d[j]] = d[j + 1]
             \/ next2[d[j]] = null /\ \E t \in Threads : links(threads[t], d[j], d[j + 1])
  <2>1. /\ j + 1 \in 1 .. n - 1 /\ d[j] = c[j + 1] /\ d[j + 1] = c[j + 2]
        /\ next2[c[j + 1]] = next[c[j + 1]] /\ (j + 1) + 1 = j + 2
    BY <1>1, <1>2
  <2> QED BY <2>1 DEF isChain
<1>5. ASSUME NEW t \in Threads, threads[t].pc = "link", ItemPriority[threads[t].item] = p
      PROVE  \E j \in 1 .. n - 2 : next2[d[j]] = null /\ links(threads[t], d[j], d[j + 1])
  <2>1. PICK j \in 1 .. n - 1 : next[c[j]] = null /\ links(threads[t], c[j], c[j + 1])
    BY Zenon, <1>5 DEF isChain
  <2>2. j # 1
    BY Zenon, <1>1, <2>1
  <2>3. /\ j - 1 \in 1 .. n - 2 /\ d[j - 1] = c[j] /\ d[(j - 1) + 1] = c[j + 1] /\ next2[c[j]] = next[c[j]]
    BY <1>1, <1>2, <2>2
  <2> QED BY Zenon, <2>1, <2>3
<1>6. isChain(p, d, next[oldest], newest, next2, threads)
  BY <1>1, <1>2, <1>3, <1>4, <1>5 DEF isChain
<1> QED BY Zenon, <1>1, <1>6 DEF d

(* The worker puts the stub in one step.                                   *)
LEMMA ChainGetsStub ==
  ASSUME NEW p, NEW c \in Seq(Entries), NEW oldest, NEW newest, NEW next, NEW threads, NEW next2, NEW e,
         isChain(p, c, oldest, newest, next, threads), isInjective(c),
         \A j \in 1 .. Len(c) : c[j] # e, next2[e] = null, next2[newest] = e,
         \A j \in 1 .. Len(c) - 1 : next2[c[j]] = next[c[j]]
  PROVE  isChain(p, Append(c, e), oldest, e, next2, threads)
<1> DEFINE d == Append(c, e)
           n == Len(c)
<1>1. /\ n \in Nat \ {0} /\ Len(d) = n + 1 /\ d[n + 1] = e /\ \A j \in 1 .. n : d[j] = c[j]
      /\ d # <<>> /\ newest = c[n] /\ oldest = c[1] /\ next[newest] = null
  BY DEF isChain
<1> HIDE DEF d, n
<1>2. ASSUME NEW j \in 1 .. n
      PROVE  \/ next2[d[j]] = d[j + 1]
             \/ next2[d[j]] = null /\ \E u \in Threads : links(threads[u], d[j], d[j + 1])
  <2>1. CASE j = n
    BY Zenon, <1>1, <2>1
  <2>2. CASE j # n
    <3>1. \/ next[c[j]] = c[j + 1]
          \/ next[c[j]] = null /\ \E u \in Threads : links(threads[u], c[j], c[j + 1])
      BY <1>1, <2>2 DEF isChain, n
    <3>2. next2[d[j]] = next[c[j]] /\ d[j] = c[j] /\ d[j + 1] = c[j + 1]
      BY <1>1, <2>2 DEF n
    <3> QED BY Zenon, <3>1, <3>2
  <2> QED BY Zenon, <2>1, <2>2
<1>3. ASSUME NEW u \in Threads, threads[u].pc = "link", ItemPriority[threads[u].item] = p
      PROVE  \E j \in 1 .. n : next2[d[j]] = null /\ links(threads[u], d[j], d[j + 1])
  <2>1. PICK j \in 1 .. n - 1 : next[c[j]] = null /\ links(threads[u], c[j], c[j + 1])
    BY Zenon, <1>3 DEF isChain, n
  <2>2. j \in 1 .. n /\ next2[d[j]] = null /\ links(threads[u], d[j], d[j + 1])
    BY <1>1, <2>1 DEF n
  <2> QED BY Zenon, <2>2
<1>4. isChain(p, d, oldest, e, next2, threads)
  BY <1>1, <1>2, <1>3 DEF isChain
<1> QED BY Zenon, <1>4 DEF d

(* A chain is the same whatever happens to other lists' entries.           *)
LEMMA ChainStays ==
  ASSUME NEW p, NEW c \in Seq(Entries), NEW oldest, NEW newest, NEW next, NEW threads, NEW next2, NEW threads2,
         isChain(p, c, oldest, newest, next, threads),
         \A j \in 1 .. Len(c) : next2[c[j]] = next[c[j]],
         \A t \in Threads : \/ /\ threads2[t].pc = threads[t].pc /\ threads2[t].item = threads[t].item
                               /\ threads2[t].previous = threads[t].previous
                            \/ /\ threads[t].pc = "link" => ItemPriority[threads[t].item] # p
                               /\ threads2[t].pc = "link" => ItemPriority[threads2[t].item] # p,
         \A j \in 1 .. Len(c), t \in Threads : threads[t].item = c[j] => ItemPriority[threads[t].item] = p
  PROVE  isChain(p, c, oldest, newest, next2, threads2)
<1>1. Len(c) \in Nat \ {0} /\ newest = c[Len(c)]
  BY DEF isChain
<1>2. ASSUME NEW j \in 1 .. Len(c) - 1
      PROVE  \/ next2[c[j]] = c[j + 1]
             \/ next2[c[j]] = null /\ \E u \in Threads : links(threads2[u], c[j], c[j + 1])
  <2>1. \/ next[c[j]] = c[j + 1]
        \/ next[c[j]] = null /\ \E u \in Threads : links(threads[u], c[j], c[j + 1])
    BY Zenon DEF isChain
  <2> QED BY <1>1, <2>1 DEF links
<1>3. ASSUME NEW u \in Threads, threads2[u].pc = "link", ItemPriority[threads2[u].item] = p
      PROVE  \E j \in 1 .. Len(c) - 1 : next2[c[j]] = null /\ links(threads2[u], c[j], c[j + 1])
  <2>1. threads2[u].pc = threads[u].pc /\ threads2[u].item = threads[u].item /\ threads2[u].previous = threads[u].previous
    BY Zenon, <1>3
  <2>2. PICK j \in 1 .. Len(c) - 1 : next[c[j]] = null /\ links(threads[u], c[j], c[j + 1])
    BY Zenon, <1>3, <2>1 DEF isChain
  <2> QED BY <1>1, <2>1, <2>2 DEF links
<1> QED BY <1>1, <1>2, <1>3 DEF isChain

(* What the chain of a list is, and what becomes of it.                    *)
LEMMA EntriesAre ==
  ASSUME isProper, NEW p \in Priorities, NEW q \in Seq(Items), NEW k \in 0 .. Len(q) + 1
  PROVE  /\ entries(p, q, k) \in Seq(Entries)
         /\ Len(entries(p, q, k)) = (IF k = 0 THEN Len(q) ELSE Len(q) + 1)
         /\ \A j \in 1 .. Len(entries(p, q, k)) :
              entries(p, q, k)[j] = (IF k = 0 \/ j < k THEN q[j] ELSE IF j = k THEN stub(p) ELSE q[j - 1])
<1> DEFINE n == IF k = 0 THEN Len(q) ELSE Len(q) + 1
           value(j) == IF k = 0 \/ j < k THEN q[j] ELSE IF j = k THEN stub(p) ELSE q[j - 1]
<1>1. n \in Nat /\ Len(q) \in Nat
  OBVIOUS
<1>2. ASSUME NEW j \in 1 .. n PROVE value(j) \in Entries
  BY DEF Entries
<1>3. entries(p, q, k) = [j \in 1 .. n |-> value(j)]
  BY Zenon DEF entries
<1> HIDE DEF n, value
<1>4. entries(p, q, k) \in Seq(Entries) /\ Len(entries(p, q, k)) = n
  BY <1>1, <1>2, <1>3
<1>5. \A j \in 1 .. n : entries(p, q, k)[j] = value(j)
  BY Zenon, <1>3
<1> QED BY Zenon, <1>4, <1>5 DEF n, value

(* The stub of a funnel queue is no item, no null and no other queue's     *)
(* stub.                                                                   *)
LEMMA StubIsNoItem ==
  ASSUME isProper, NEW p \in Priorities
  PROVE  /\ stub(p) \notin Items /\ null \notin Items /\ stub(p) # null /\ null \notin Entries
         /\ \A r \in Priorities : stub(p) = stub(r) => p = r
  BY DEF isProper, Priorities, stub, null, Entries

(* No entry is twice in a list, the stub included, if no item is.          *)
LEMMA EntriesAreInjective ==
  ASSUME isProper, NEW p \in Priorities, NEW q \in Seq(Items), NEW k \in 0 .. Len(q) + 1, isInjective(q)
  PROVE  isInjective(entries(p, q, k))
<1>1. Len(q) \in Nat /\ \A j \in 1 .. Len(q) : q[j] \in Items
  OBVIOUS
<1>2. stub(p) \notin Items
  BY Zenon, StubIsNoItem
<1>3. ASSUME NEW i \in 1 .. Len(entries(p, q, k)), NEW j \in 1 .. Len(entries(p, q, k)),
             entries(p, q, k)[i] = entries(p, q, k)[j]
      PROVE  i = j
  <2> DEFINE c == entries(p, q, k)
  <2>1. /\ Len(c) = (IF k = 0 THEN Len(q) ELSE Len(q) + 1)
        /\ \A h \in 1 .. Len(c) : c[h] = (IF k = 0 \/ h < k THEN q[h] ELSE IF h = k THEN stub(p) ELSE q[h - 1])
    BY EntriesAre
  <2>2. i \in 1 .. Len(c) /\ j \in 1 .. Len(c) /\ c[i] = c[j]
    BY Zenon, <1>3
  <2> HIDE DEF c
  <2>3. CASE k = 0
    BY Zenon, <1>1, <2>1, <2>2, <2>3 DEF isInjective
  <2>4. CASE k # 0 /\ (i = k \/ j = k)
    <3>1. \A h \in 1 .. Len(c) : h # k => c[h] \in Items
      BY <1>1, <2>1, <2>4
    <3>2. c[k] \notin Items
      BY <1>1, <1>2, <2>1, <2>2, <2>4
    <3> QED BY Zenon, <2>2, <2>4, <3>1, <3>2
  <2>5. CASE k # 0 /\ i # k /\ j # k
    <3>1. PICK g \in 1 .. Len(q) : c[i] = q[g] /\ g = (IF i < k THEN i ELSE i - 1)
      BY <1>1, <2>1, <2>2, <2>5
    <3>2. PICK h \in 1 .. Len(q) : c[j] = q[h] /\ h = (IF j < k THEN j ELSE j - 1)
      BY <1>1, <2>1, <2>2, <2>5
    <3>3. g = h
      BY Zenon, <2>2, <3>1, <3>2 DEF isInjective
    <3> QED BY <2>2, <2>5, <3>1, <3>2, <3>3
  <2> QED BY Zenon, <2>3, <2>4, <2>5
<1> QED BY Zenon, <1>3 DEF isInjective

(* Two sequences with the same elements.                                   *)
LEMMA SameSequence ==
  ASSUME NEW S, NEW s \in Seq(S), NEW r \in Seq(S), Len(s) = Len(r), \A j \in 1 .. Len(s) : s[j] = r[j]
  PROVE  s = r
  OBVIOUS

(* A put makes the item the newest entry.                                  *)
LEMMA EntriesWithItem ==
  ASSUME isProper, NEW p \in Priorities, NEW q \in Seq(Items), NEW k \in 0 .. Len(q) + 1, NEW i \in Items
  PROVE  entries(p, Append(q, i), k) = Append(entries(p, q, k), i)
<1> DEFINE r == Append(q, i)
           c == entries(p, q, k)
           d == entries(p, r, k)
<1>1. /\ r \in Seq(Items) /\ Len(r) = Len(q) + 1 /\ k \in 0 .. Len(r) + 1 /\ Len(q) \in Nat
      /\ r[Len(q) + 1] = i /\ \A j \in 1 .. Len(q) : r[j] = q[j]
  OBVIOUS
<1>2. /\ c \in Seq(Entries) /\ Len(c) = (IF k = 0 THEN Len(q) ELSE Len(q) + 1)
      /\ \A j \in 1 .. Len(c) : c[j] = (IF k = 0 \/ j < k THEN q[j] ELSE IF j = k THEN stub(p) ELSE q[j - 1])
  BY EntriesAre
<1> HIDE DEF r
<1>3. /\ d \in Seq(Entries) /\ Len(d) = (IF k = 0 THEN Len(r) ELSE Len(r) + 1)
      /\ \A j \in 1 .. Len(d) : d[j] = (IF k = 0 \/ j < k THEN r[j] ELSE IF j = k THEN stub(p) ELSE r[j - 1])
  BY <1>1, EntriesAre
<1> HIDE DEF c, d
<1>4. /\ Append(c, i) \in Seq(Entries) /\ Len(Append(c, i)) = Len(c) + 1 /\ Append(c, i)[Len(c) + 1] = i
      /\ \A j \in 1 .. Len(c) : Append(c, i)[j] = c[j]
  BY <1>2 DEF Entries
<1>5. Len(d) = Len(c) + 1 /\ d[Len(c) + 1] = i /\ \A j \in 1 .. Len(c) : d[j] = c[j]
  <2>1. Len(d) = Len(c) + 1 /\ d[Len(c) + 1] = i
    BY <1>1, <1>2, <1>3
  <2>2. ASSUME NEW j \in 1 .. Len(c) PROVE d[j] = c[j]
    <3>1. j \in 1 .. Len(d)
      BY <1>1, <1>2, <2>1
    <3>2. CASE k = 0 \/ j < k
      BY <1>1, <1>2, <1>3, <3>1, <3>2
    <3>3. CASE k # 0 /\ j = k
      BY <1>1, <1>2, <1>3, <3>1, <3>3
    <3>4. CASE k # 0 /\ j > k
      <4>0. Len(c) = Len(q) + 1 /\ Len(q) \in Nat
        BY Zenon, <1>1, <1>2, <3>4
      <4>1. j - 1 \in 1 .. Len(q) /\ r[j - 1] = q[j - 1]
        <5>1. j - 1 \in 1 .. Len(q)
          BY <3>4, <4>0
        <5> QED BY Zenon, <1>1, <5>1
      <4>2. ~(k = 0 \/ j < k) /\ j # k
        BY <1>1, <3>4
      <4>3. d[j] = r[j - 1] /\ c[j] = q[j - 1]
        BY Zenon, <1>2, <1>3, <3>1, <4>2
      <4> QED BY Zenon, <4>1, <4>3
    <3> QED BY <1>1, <3>2, <3>3, <3>4
  <2> QED BY Zenon, <2>1, <2>2
<1>6. Len(d) = Len(Append(c, i)) /\ \A j \in 1 .. Len(d) : d[j] = Append(c, i)[j]
  BY <1>2, <1>4, <1>5
<1>7. d = Append(c, i)
  BY Zenon, <1>3, <1>4, <1>6, SameSequence
<1> QED BY Zenon, <1>7 DEF c, d, r

(* A put of the stub makes the stub the newest entry.                      *)
LEMMA EntriesWithStub ==
  ASSUME isProper, NEW p \in Priorities, NEW q \in Seq(Items)
  PROVE  entries(p, q, Len(q) + 1) = Append(entries(p, q, 0), stub(p))
<1> DEFINE c == entries(p, q, 0)
           d == entries(p, q, Len(q) + 1)
<1>1. /\ c \in Seq(Entries) /\ Len(c) = Len(q) /\ \A j \in 1 .. Len(c) : c[j] = q[j]
      /\ d \in Seq(Entries) /\ Len(d) = Len(q) + 1
      /\ \A j \in 1 .. Len(d) : d[j] = (IF j < Len(q) + 1 THEN q[j] ELSE stub(p))
  BY EntriesAre
<1> HIDE DEF c, d
<1>2. stub(p) \in Entries
  BY Zenon DEF Entries
<1>3. /\ Append(c, stub(p)) \in Seq(Entries) /\ Len(Append(c, stub(p))) = Len(c) + 1
      /\ Append(c, stub(p))[Len(c) + 1] = stub(p) /\ \A j \in 1 .. Len(c) : Append(c, stub(p))[j] = c[j]
  BY <1>1, <1>2
<1>4. \A j \in 1 .. Len(d) : d[j] = Append(c, stub(p))[j]
  BY <1>1, <1>3
<1>5. d = Append(c, stub(p))
  BY Zenon, <1>1, <1>3, <1>4, SameSequence
<1> QED BY Zenon, <1>5 DEF c, d

(* Taking the oldest entry takes the stub, if that is the oldest, and the  *)
(* oldest item otherwise.                                                  *)
LEMMA EntriesWithoutOldest ==
  ASSUME isProper, NEW p \in Priorities, NEW q \in Seq(Items), NEW k \in 0 .. Len(q) + 1,
         entries(p, q, k) # <<>>
  PROVE  /\ k = 1 => Tail(entries(p, q, k)) = entries(p, q, 0)
         /\ k # 1 => /\ q # <<>> /\ (IF k = 0 THEN 0 ELSE k - 1) \in 0 .. Len(Tail(q)) + 1
                     /\ Tail(entries(p, q, k)) = entries(p, Tail(q), IF k = 0 THEN 0 ELSE k - 1)
<1> DEFINE c == entries(p, q, k)
<1>1. /\ c \in Seq(Entries) /\ Len(c) = (IF k = 0 THEN Len(q) ELSE Len(q) + 1)
      /\ \A j \in 1 .. Len(c) : c[j] = (IF k = 0 \/ j < k THEN q[j] ELSE IF j = k THEN stub(p) ELSE q[j - 1])
      /\ c # <<>>
  BY EntriesAre
<1> HIDE DEF c
<1>2. Tail(c) \in Seq(Entries) /\ Len(Tail(c)) = Len(c) - 1 /\ \A j \in 1 .. Len(c) - 1 : Tail(c)[j] = c[j + 1]
  BY <1>1
<1>3. ASSUME k = 1 PROVE Tail(c) = entries(p, q, 0)
  <2> DEFINE d == entries(p, q, 0)
  <2>1. d \in Seq(Entries) /\ Len(d) = Len(q) /\ \A j \in 1 .. Len(d) : d[j] = q[j]
    BY EntriesAre
  <2> HIDE DEF d
  <2>2. Len(Tail(c)) = Len(d) /\ \A j \in 1 .. Len(d) : Tail(c)[j] = d[j]
    BY <1>1, <1>2, <1>3, <2>1
  <2>3. Tail(c) = d
    BY Zenon, <1>2, <2>1, <2>2, SameSequence
  <2> QED BY Zenon, <2>3 DEF d
<1>4. ASSUME k # 1
      PROVE  /\ q # <<>> /\ (IF k = 0 THEN 0 ELSE k - 1) \in 0 .. Len(Tail(q)) + 1
             /\ Tail(c) = entries(p, Tail(q), IF k = 0 THEN 0 ELSE k - 1)
  <2> DEFINE m == IF k = 0 THEN 0 ELSE k - 1
             r == Tail(q)
             d == entries(p, r, m)
  <2>1. q # <<>>
    BY <1>1, <1>4
  <2>2. r \in Seq(Items) /\ Len(r) = Len(q) - 1 /\ (\A j \in 1 .. Len(q) - 1 : r[j] = q[j + 1]) /\ Len(q) \in Nat \ {0}
    BY <2>1
  <2>3. m \in 0 .. Len(r) + 1
    BY <1>4, <2>2
  <2> HIDE DEF r, m
  <2>4. /\ d \in Seq(Entries) /\ Len(d) = (IF m = 0 THEN Len(r) ELSE Len(r) + 1)
        /\ \A j \in 1 .. Len(d) : d[j] = (IF m = 0 \/ j < m THEN r[j] ELSE IF j = m THEN stub(p) ELSE r[j - 1])
    BY <2>2, <2>3, EntriesAre
  <2> HIDE DEF d
  <2>5. Len(Tail(c)) = Len(d) /\ \A j \in 1 .. Len(d) : Tail(c)[j] = d[j]
    <3>1. Len(Tail(c)) = Len(d)
      BY <1>1, <1>2, <1>4, <2>2, <2>4 DEF m
    <3>2. ASSUME NEW j \in 1 .. Len(d) PROVE Tail(c)[j] = d[j]
      <4>1. j + 1 \in 1 .. Len(c) /\ Tail(c)[j] = c[j + 1]
        BY <1>1, <1>2, <3>1
      <4>2. CASE k = 0
        BY Zenon, <1>1, <2>2, <2>4, <4>1, <4>2 DEF m
      <4>3. CASE k # 0 /\ j < m
        BY <1>1, <1>4, <2>2, <2>4, <4>1, <4>3 DEF m
      <4>4. CASE k # 0 /\ j = m
        BY <1>1, <1>4, <2>2, <2>4, <4>1, <4>4 DEF m
      <4>5. CASE k # 0 /\ j > m
        BY <1>1, <1>4, <2>2, <2>4, <4>1, <4>5 DEF m
      <4>6. j < m \/ j = m \/ j > m
        BY <2>2, <2>3, <2>4
      <4> QED BY Zenon, <4>2, <4>3, <4>4, <4>5, <4>6
    <3> QED BY Zenon, <3>1, <3>2
  <2>6. Tail(c) = d
    BY Zenon, <1>2, <2>4, <2>5, SameSequence
  <2> QED BY Zenon, <2>1, <2>3, <2>6 DEF d, m, r
<1> QED BY Zenon, <1>3, <1>4 DEF c

-----------------------------------------------------------------------------
(* What the steps do                                                       *)

(* A thread's step.                                                        *)
moves(t, th) == th \in Thread /\ wq'.threads = [wq.threads EXCEPT ![t] = th]

(* The parts of the state which most of the steps leave alone.             *)
sameLists == wq'.newest = wq.newest /\ wq'.oldest = wq.oldest /\ wq'.next = wq.next /\ wq'.put = wq.put
sameItems == wq'.myQueue = wq.myQueue /\ wq'.delayedItems = wq.delayedItems
sameTimer == wq'.timer = wq.timer /\ wq'.lock = wq.lock
sameSleep == wq'.idle = wq.idle /\ wq'.waiting = wq.waiting
sameEnd == wq'.shouldStop = wq.shouldStop /\ wq'.freed = wq.freed

(* Link() changes one successor.                                           *)
LEMMA LinkDoes ==
  ASSUME WorkQueueTypeOK, NEW t \in Threads, Link(t), wq.threads[t].previous \in Entries, wq.threads[t].item \in Items
  PROVE  /\ WorkQueueTypeOK'
         /\ wq'.newest = wq.newest /\ wq'.oldest = wq.oldest /\ wq'.put = wq.put
         /\ wq'.next = [wq.next EXCEPT ![wq.threads[t].previous] = wq.threads[t].item]
         /\ moves(t, thread("checkIdle", null, null, wq.threads[t].wakes, wq.threads[t].time))
         /\ wq'.worker = wq.worker /\ sameItems /\ sameTimer /\ sameSleep /\ sameEnd
<1>1. PICK th : th = thread("checkIdle", null, null, wq.threads[t].wakes, wq.threads[t].time)
  BY Zenon
<1>2. th \in Thread /\ wq.threads[t].item \in Entries
  BY Zenon, <1>1 DEF thread, Thread, ThreadPCs, WorkQueueTypeOK, State, Entries
<1>3. WorkQueueTypeOK'
  BY Zenon, <1>1, <1>2 DEF Link, WorkQueueTypeOK, State, linkEntry, isProper
<1>4. /\ wq'.newest = wq.newest /\ wq'.oldest = wq.oldest /\ wq'.put = wq.put
      /\ wq'.next = [wq.next EXCEPT ![wq.threads[t].previous] = wq.threads[t].item]
      /\ wq'.threads = [wq.threads EXCEPT ![t] = th]
  BY Zenon, <1>1 DEF Link, WorkQueueTypeOK, State, linkEntry
<1>5. wq'.worker = wq.worker /\ sameItems /\ sameTimer /\ sameSleep /\ sameEnd
  BY Zenon DEF Link, WorkQueueTypeOK, State, linkEntry, sameItems, sameTimer, sameSleep, sameEnd
<1> QED BY Zenon, <1>1, <1>2, <1>3, <1>4, <1>5 DEF moves

(* CheckIdle() leaves the worker not idle, and wakes it if it was.         *)
LEMMA CheckIdleDoes ==
  ASSUME WorkQueueTypeOK, NEW t \in Threads, CheckIdle(t)
  PROVE  /\ WorkQueueTypeOK'
         /\ moves(t, thread(IF t = Timer THEN "locked" ELSE IF wq.idle \/ wq.threads[t].wakes THEN "wake" ELSE "idle",
                            wq.threads[t].item, wq.threads[t].previous, wq.idle \/ wq.threads[t].wakes, wq.threads[t].time))
         /\ wq'.idle = FALSE /\ wq'.waiting = wq.waiting
         /\ wq'.worker = wq.worker /\ sameLists /\ sameItems /\ sameTimer /\ sameEnd
<1>1. PICK wakes \in BOOLEAN : wakes = (wq.idle \/ wq.threads[t].wakes)
  BY Zenon
<1>2. PICK pc : pc = IF t = Timer THEN "locked" ELSE IF wakes THEN "wake" ELSE "idle"
  BY Zenon
<1>3. PICK th : th = thread(pc, wq.threads[t].item, wq.threads[t].previous, wakes, wq.threads[t].time)
  BY Zenon
<1>4. th \in Thread
  BY Zenon, <1>2, <1>3 DEF thread, Thread, ThreadPCs, WorkQueueTypeOK, State
<1>5. PICK late : late = IF wq.freed THEN wq.late \cup {"idle"} ELSE wq.late
  BY Zenon
<1>6. late \in SUBSET {"idle", "wake"}
  BY Zenon, <1>5 DEF WorkQueueTypeOK, State
<1>7. wq' = [wq EXCEPT !.late = late, !.idle = FALSE, !.threads[t] = th]
  BY Zenon, <1>1, <1>2, <1>3, <1>5 DEF CheckIdle, use, WorkQueueTypeOK, State
<1>8. WorkQueueTypeOK'
  BY ZenonT(30), <1>4, <1>6, <1>7 DEF WorkQueueTypeOK, State, isProper
<1>9. wq'.threads = [wq.threads EXCEPT ![t] = th] /\ wq'.idle = FALSE /\ wq'.waiting = wq.waiting
  BY Zenon, <1>7 DEF WorkQueueTypeOK, State
<1>10. wq'.worker = wq.worker /\ sameLists /\ sameItems /\ sameTimer /\ sameEnd
  BY Zenon, <1>7 DEF WorkQueueTypeOK, State, sameLists, sameItems, sameTimer, sameEnd
<1> QED BY Zenon, <1>1, <1>2, <1>3, <1>4, <1>8, <1>9, <1>10 DEF moves

(* The first half of funnelQueuePut(), by a thread which is to go on in    *)
(* Link().                                                                 *)
puts(t, item) ==
  /\ wq'.newest = [wq.newest EXCEPT ![ItemPriority[item]] = item] /\ wq'.oldest = wq.oldest
  /\ wq'.next = [wq.next EXCEPT ![item] = null]
  /\ wq'.put = [wq.put EXCEPT ![ItemPriority[item]] = Append(wq.put[ItemPriority[item]], item)]
  /\ moves(t, thread("link", item, wq.newest[ItemPriority[item]], wq.threads[t].wakes, wq.threads[t].time))
  /\ wq'.worker = wq.worker /\ sameTimer /\ sameSleep /\ sameEnd

(* What an item's entry and the thread which puts it are.                  *)
LEMMA PutIsProper ==
  ASSUME WorkQueueTypeOK, NEW t \in Threads, NEW item \in Items
  PROVE  /\ ItemPriority[item] \in Priorities /\ item \in Entries
         /\ thread("link", item, wq.newest[ItemPriority[item]], wq.threads[t].wakes, wq.threads[t].time) \in Thread
         /\ Append(wq.put[ItemPriority[item]], item) \in Seq(Items)
<1>1. ItemPriority[item] \in Priorities /\ item \in Entries
  BY Zenon DEF Entries, isProper, WorkQueueTypeOK
<1>2. thread("link", item, wq.newest[ItemPriority[item]], wq.threads[t].wakes, wq.threads[t].time) \in Thread
  BY Zenon, <1>1 DEF thread, Thread, ThreadPCs, WorkQueueTypeOK, State
<1>3. Append(wq.put[ItemPriority[item]], item) \in Seq(Items)
  BY <1>1 DEF WorkQueueTypeOK, State
<1> QED BY Zenon, <1>1, <1>2, <1>3

(* What enqueueWorkQueueItem() does until its exchange.                    *)
LEMMA PutIs ==
  ASSUME NEW w \in State, ~w.freed, NEW t, NEW item \in Items \ w.myQueue
  PROVE  enqueueWorkQueueItem(w, t, item) =
           [w EXCEPT !.next = [w.next EXCEPT ![item] = null], !.newest = [w.newest EXCEPT ![ItemPriority[item]] = item],
                     !.myQueue = w.myQueue \cup {item}, !.put = [w.put EXCEPT ![ItemPriority[item]] = Append(w.put[ItemPriority[item]], item)],
                     !.threads = [w.threads EXCEPT ![t] = thread("link", item, w.newest[ItemPriority[item]], w.threads[t].wakes, w.threads[t].time)]]
<1> DEFINE p == ItemPriority[item]
           newest == [w.newest EXCEPT ![p] = item]
           next == [w.next EXCEPT ![item] = null]
           mine == w.myQueue \cup {item}
           put == [w.put EXCEPT ![p] = Append(w.put[p], item)]
           threads == [w.threads EXCEPT ![t] = thread("link", item, w.newest[p], w.threads[t].wakes, w.threads[t].time)]
<1> HIDE DEF newest, next, mine, put, threads
<1>1. use(w, "put") = w
  BY Zenon DEF use, State
<1>2. assert(w, item \notin w.myQueue, "item to enqueue is not already queued") = w
  BY Zenon DEF assert, State
<1>3. exchange(w, p, item) = [w EXCEPT !.next = next, !.newest = newest]
  BY Zenon DEF exchange, State, next, newest
<1>4. PICK v : v = [w EXCEPT !.next = next, !.newest = newest]
  BY Zenon
<1>5. enqueueWorkQueueItem(w, t, item) =
        [v EXCEPT !.myQueue = @ \cup {item}, !.put[p] = Append(@, item),
                  !.threads[t] = thread("link", item, w.newest[p], @.wakes, @.time)]
  BY Zenon, <1>1, <1>2, <1>3, <1>4 DEF enqueueWorkQueueItem
<1>6. v.myQueue = w.myQueue /\ v.put = w.put /\ v.threads = w.threads
  BY Zenon, <1>4 DEF State
<1>7. [v EXCEPT !.myQueue = @ \cup {item}, !.put[p] = Append(@, item),
                !.threads[t] = thread("link", item, w.newest[p], @.wakes, @.time)]
        = [v EXCEPT !.myQueue = mine, !.put = put, !.threads = threads]
  BY Zenon, <1>6 DEF mine, put, threads
<1>8. enqueueWorkQueueItem(w, t, item) =
           [w EXCEPT !.next = next, !.newest = newest, !.myQueue = mine, !.put = put, !.threads = threads]
  BY Zenon, <1>4, <1>5, <1>7 DEF State
<1> QED BY <1>8, Zenon DEF newest, next, mine, put, threads

(* enqueueWorkQueue() puts an item which is in no queue.                   *)
LEMMA EnqueueDoes ==
  ASSUME WorkQueueTypeOK, NEW t \in Threads, enqueueWorkQueue(t), ~wq.freed
  PROVE  /\ WorkQueueTypeOK' /\ mayEnqueue(t) /\ ~wq.shouldStop
         /\ \E item \in Items \ wq.myQueue :
              /\ puts(t, item) /\ \A u \in Threads : wq.threads[u].item # item
              /\ wq'.myQueue = wq.myQueue \cup {item} /\ wq'.delayedItems = wq.delayedItems
<1>0. mayEnqueue(t) /\ ~wq.shouldStop
  BY Zenon DEF enqueueWorkQueue, mayEnqueue
<1>1. PICK item \in Items \ wq.myQueue :
        /\ \A u \in Threads : wq.threads[u].item # item
        /\ wq' = [enqueueWorkQueueItem(wq, t, item) EXCEPT !.enqueues = @ - 1, !.executionTime[item] = 0]
  BY Zenon DEF enqueueWorkQueue
<1>2. PICK p, newest, next, mine, put, threads, n, time :
        /\ p = ItemPriority[item]
        /\ newest = [wq.newest EXCEPT ![p] = item] /\ next = [wq.next EXCEPT ![item] = null] /\ mine = wq.myQueue \cup {item}
        /\ put = [wq.put EXCEPT ![p] = Append(wq.put[p], item)]
        /\ threads = [wq.threads EXCEPT ![t] = thread("link", item, wq.newest[p], wq.threads[t].wakes, wq.threads[t].time)]
        /\ n = wq.enqueues - 1 /\ time = [wq.executionTime EXCEPT ![item] = 0]
  BY Zenon
<1>3. enqueueWorkQueueItem(wq, t, item) =
        [wq EXCEPT !.next = next, !.newest = newest, !.myQueue = mine, !.put = put, !.threads = threads]
  <2>1. wq \in State /\ item \notin wq.myQueue /\ ~wq.freed
    BY Zenon DEF WorkQueueTypeOK
  <2>2. enqueueWorkQueueItem(wq, t, item) =
           [wq EXCEPT !.next = [wq.next EXCEPT ![item] = null], !.newest = [wq.newest EXCEPT ![ItemPriority[item]] = item],
                     !.myQueue = wq.myQueue \cup {item}, !.put = [wq.put EXCEPT ![ItemPriority[item]] = Append(wq.put[ItemPriority[item]], item)],
                     !.threads = [wq.threads EXCEPT ![t] = thread("link", item, wq.newest[ItemPriority[item]],
                                                                   wq.threads[t].wakes, wq.threads[t].time)]]
    BY <2>1, PutIs, Zenon
  <2> QED BY <1>2, <2>2, Zenon
<1>4. wq' = [wq EXCEPT !.next = next, !.newest = newest, !.myQueue = mine, !.put = put, !.threads = threads, !.enqueues = n, !.executionTime = time]
  <2>1. PICK w : w = enqueueWorkQueueItem(wq, t, item)
    BY Zenon
  <2>2. w = [wq EXCEPT !.next = next, !.newest = newest, !.myQueue = mine, !.put = put, !.threads = threads]
    BY Zenon, <1>3, <2>1
  <2>3. w.enqueues = wq.enqueues /\ w.executionTime = wq.executionTime
    BY Zenon, <2>2 DEF WorkQueueTypeOK, State
  <2>4. wq' = [w EXCEPT !.enqueues = @ - 1, !.executionTime[item] = 0]
    BY Zenon, <1>1, <2>1
  <2>5. wq' = [w EXCEPT !.enqueues = n, !.executionTime = time]
    BY Zenon, <1>2, <2>3, <2>4
  <2> QED BY <2>2, <2>5 DEF WorkQueueTypeOK, State
<1>5. /\ newest \in [Priorities -> Entries] /\ next \in [Entries -> Entries \cup {null}] /\ mine \in SUBSET Items
      /\ put \in [Priorities -> Seq(Items)] /\ threads \in [Threads -> Thread] /\ n \in Int /\ time \in [Items -> Nat]
  BY <1>2, PutIsProper DEF WorkQueueTypeOK, State
<1>6. WorkQueueTypeOK'
  BY ZenonT(30), <1>4, <1>5 DEF WorkQueueTypeOK, State, isProper
<1>7. /\ wq'.newest = newest /\ wq'.oldest = wq.oldest /\ wq'.next = next /\ wq'.put = put /\ wq'.threads = threads
      /\ wq'.myQueue = mine /\ wq'.delayedItems = wq.delayedItems
  BY Zenon, <1>4 DEF WorkQueueTypeOK, State
<1>8. wq'.worker = wq.worker /\ sameTimer /\ sameSleep /\ sameEnd
  BY Zenon, <1>4 DEF WorkQueueTypeOK, State, sameTimer, sameSleep, sameEnd
<1>9. puts(t, item)
  BY Zenon, <1>2, <1>7, <1>8, PutIsProper DEF puts, moves
<1> QED BY Zenon, <1>0, <1>1, <1>2, <1>6, <1>7, <1>9

(* enqueueWorkQueueDelayed() delays an item which is in no queue, and is   *)
(* to set the timer if that is the only one.                               *)
LEMMA DelayDoes ==
  ASSUME WorkQueueTypeOK, NEW t \in Threads, enqueueWorkQueueDelayed(t), ~wq.freed
  PROVE  /\ WorkQueueTypeOK' /\ mayEnqueue(t) /\ wq.lock = -1
         /\ \E item \in Items \ wq.myQueue : wq'.myQueue = wq.myQueue \cup {item} /\ wq'.delayedItems = Append(wq.delayedItems, item)
         /\ \E time \in Nat :
              moves(t, IF wq.delayedItems = <<>>
                       THEN thread("modTimer", wq.threads[t].item, wq.threads[t].previous, wq.threads[t].wakes, time)
                       ELSE wq.threads[t])
         /\ wq'.worker = wq.worker /\ sameLists /\ sameTimer /\ sameSleep /\ sameEnd
<1>0. mayEnqueue(t) /\ wq.lock = -1
  BY Zenon DEF enqueueWorkQueueDelayed
<1>1. PICK item \in Items \ wq.myQueue, time \in 1 .. MaxTime :
        wq' = [use(wq, "put") EXCEPT
                 !.enqueues = @ - 1, !.executionTime[item] = time,
                 !.myQueue = @ \cup {item}, !.delayedItems = Append(@, item),
                 !.threads[t] = IF wq.delayedItems = <<>> THEN thread("modTimer", @.item, @.previous, @.wakes, time)
                                ELSE @]
  BY Zenon DEF enqueueWorkQueueDelayed
<1>2. PICK th : th = IF wq.delayedItems = <<>>
                     THEN thread("modTimer", wq.threads[t].item, wq.threads[t].previous, wq.threads[t].wakes, time)
                     ELSE wq.threads[t]
  BY Zenon
<1>3. PICK q : q = Append(wq.delayedItems, item)
  BY Zenon
<1>4. time \in Nat /\ th \in Thread /\ q \in Seq(Items)
  <2>1. time \in Nat
    BY DEF WorkQueueTypeOK, isProper
  <2>2. wq.threads[t] \in Thread
    BY Zenon DEF WorkQueueTypeOK, State
  <2>3. thread("modTimer", wq.threads[t].item, wq.threads[t].previous, wq.threads[t].wakes, time) \in Thread
    BY Zenon, <2>1, <2>2 DEF thread, Thread, ThreadPCs
  <2>4. q \in Seq(Items)
    BY <1>3 DEF WorkQueueTypeOK, State
  <2> QED BY Zenon, <1>2, <2>1, <2>2, <2>3, <2>4
<1>5. PICK mine, threads, n, times :
        /\ mine = wq.myQueue \cup {item} /\ threads = [wq.threads EXCEPT ![t] = th]
        /\ n = wq.enqueues - 1 /\ times = [wq.executionTime EXCEPT ![item] = time]
  BY Zenon
<1>6. wq' = [wq EXCEPT !.enqueues = n, !.executionTime = times, !.myQueue = mine, !.delayedItems = q, !.threads = threads]
  BY ZenonT(30), <1>1, <1>2, <1>3, <1>5 DEF use, WorkQueueTypeOK, State
<1>7. WorkQueueTypeOK'
  <2>1. mine \in SUBSET Items /\ threads \in [Threads -> Thread] /\ n \in Int /\ times \in [Items -> Nat]
    BY <1>4, <1>5 DEF WorkQueueTypeOK, State
  <2> QED BY Zenon, <1>4, <1>6, <2>1 DEF WorkQueueTypeOK, State, isProper
<1>8. wq'.myQueue = mine /\ wq'.delayedItems = q /\ wq'.threads = threads
  BY Zenon, <1>6 DEF WorkQueueTypeOK, State
<1>9. wq'.worker = wq.worker /\ sameLists /\ sameTimer /\ sameSleep /\ sameEnd
  BY Zenon, <1>6 DEF WorkQueueTypeOK, State, sameLists, sameTimer, sameSleep, sameEnd
<1> QED BY Zenon, <1>0, <1>2, <1>3, <1>4, <1>5, <1>7, <1>8, <1>9 DEF moves

(* ModTimer() sets the timer, and then the worker is woken if it is to be. *)
LEMMA ModTimerDoes ==
  ASSUME WorkQueueTypeOK, NEW t \in Threads, ModTimer(t), ~wq.freed
  PROVE  /\ WorkQueueTypeOK'
         /\ moves(t, thread(IF wq.threads[t].wakes THEN "wake" ELSE "idle",
                            wq.threads[t].item, wq.threads[t].previous, wq.threads[t].wakes, 0))
         /\ wq'.timer = wq.threads[t].time /\ wq'.timer # -1 /\ wq'.lock = wq.lock
         /\ wq'.worker = wq.worker /\ sameLists /\ sameItems /\ sameSleep /\ sameEnd
<1>1. PICK th : th = thread(IF wq.threads[t].wakes THEN "wake" ELSE "idle",
                            wq.threads[t].item, wq.threads[t].previous, wq.threads[t].wakes, 0)
  BY Zenon
<1>2. wq.threads[t].time \in Nat /\ th \in Thread
  <2>1. wq.threads[t] \in Thread
    BY Zenon DEF WorkQueueTypeOK, State
  <2> QED BY Zenon, <1>1, <2>1 DEF thread, Thread, ThreadPCs
<1>3. wq' = [wq EXCEPT !.timer = wq.threads[t].time, !.threads[t] = th]
  BY Zenon, <1>1 DEF ModTimer, use, WorkQueueTypeOK, State
<1>4. WorkQueueTypeOK'
  BY Zenon, <1>2, <1>3 DEF WorkQueueTypeOK, State, isProper
<1>5. wq'.threads = [wq.threads EXCEPT ![t] = th] /\ wq'.timer = wq.threads[t].time /\ wq'.lock = wq.lock
  BY Zenon, <1>3 DEF WorkQueueTypeOK, State
<1>6. wq'.worker = wq.worker /\ sameLists /\ sameItems /\ sameSleep /\ sameEnd
  BY Zenon, <1>3 DEF WorkQueueTypeOK, State, sameLists, sameItems, sameSleep, sameEnd
<1> QED BY <1>1, <1>2, <1>4, <1>5, <1>6 DEF moves

(* wakeWorkerThread() ends a sleep.                                        *)
LEMMA WakeWorkerDoes ==
  ASSUME WorkQueueTypeOK, NEW t \in Threads, WakeWorker(t)
  PROVE  /\ WorkQueueTypeOK' /\ moves(t, noThread) /\ wq'.waiting = FALSE /\ wq'.idle = wq.idle
         /\ wq'.worker = wq.worker /\ sameLists /\ sameItems /\ sameTimer /\ sameEnd
<1>1. PICK late : late = IF wq.freed THEN wq.late \cup {"wake"} ELSE wq.late
  BY Zenon
<1>2. late \in SUBSET {"idle", "wake"} /\ noThread \in Thread
  BY Zenon, <1>1 DEF WorkQueueTypeOK, State, noThread, thread, Thread, ThreadPCs
<1>3. wq' = [wq EXCEPT !.late = late, !.waiting = FALSE, !.threads[t] = noThread]
  BY Zenon, <1>1 DEF WakeWorker, wakeWorkerThread, use, WorkQueueTypeOK, State
<1>4. WorkQueueTypeOK'
  BY Zenon, <1>2, <1>3 DEF WorkQueueTypeOK, State, isProper
<1>5. wq'.threads = [wq.threads EXCEPT ![t] = noThread] /\ wq'.waiting = FALSE /\ wq'.idle = wq.idle
  BY Zenon, <1>3 DEF WorkQueueTypeOK, State
<1>6. wq'.worker = wq.worker /\ sameLists /\ sameItems /\ sameTimer /\ sameEnd
  BY Zenon, <1>3 DEF WorkQueueTypeOK, State, sameLists, sameItems, sameTimer, sameEnd
<1> QED BY Zenon, <1>2, <1>4, <1>5, <1>6 DEF moves

(* processDelayedWorkItems() takes the lock.                               *)
LEMMA ProcessDelayedDoes ==
  ASSUME WorkQueueTypeOK, processDelayedWorkItems, ~wq.freed
  PROVE  /\ WorkQueueTypeOK'
         /\ moves(Timer, thread("locked", wq.threads[Timer].item, wq.threads[Timer].previous, wq.threads[Timer].wakes, wq.threads[Timer].time))
         /\ wq'.timer = -1 /\ wq'.lock = Timer
         /\ wq'.worker = wq.worker /\ sameLists /\ sameItems /\ sameSleep /\ sameEnd
<1>0. Timer \in Threads
  BY DEF Timer, Threads, WorkQueueTypeOK, isProper
<1>1. PICK th : th = thread("locked", wq.threads[Timer].item, wq.threads[Timer].previous, wq.threads[Timer].wakes, wq.threads[Timer].time)
  BY Zenon
<1>2. th \in Thread
  BY Zenon, <1>0, <1>1 DEF thread, Thread, ThreadPCs, WorkQueueTypeOK, State
<1>3. wq' = [wq EXCEPT !.timer = -1, !.lock = Timer, !.threads[Timer] = th]
  BY Zenon, <1>1 DEF processDelayedWorkItems, use, WorkQueueTypeOK, State
<1>4. WorkQueueTypeOK'
  BY Zenon, <1>0, <1>2, <1>3 DEF WorkQueueTypeOK, State, isProper
<1>5. wq'.threads = [wq.threads EXCEPT ![Timer] = th] /\ wq'.timer = -1 /\ wq'.lock = Timer
  BY Zenon, <1>3 DEF WorkQueueTypeOK, State
<1>6. wq'.worker = wq.worker /\ sameLists /\ sameItems /\ sameSleep /\ sameEnd
  BY Zenon, <1>3 DEF WorkQueueTypeOK, State, sameLists, sameItems, sameSleep, sameEnd
<1> QED BY Zenon, <1>1, <1>2, <1>4, <1>5, <1>6 DEF moves

(* The handler puts an item which is due.                                  *)
LEMMA ContinueDelayedPuts ==
  ASSUME WorkQueueTypeOK, ContinueDelayed, ~wq.freed,
         wq.delayedItems # <<>>, wq.executionTime[Head(wq.delayedItems)] <= wq.jiffies
  PROVE  /\ WorkQueueTypeOK' /\ Head(wq.delayedItems) \in Items
         /\ puts(Timer, Head(wq.delayedItems))
         /\ wq'.myQueue = wq.myQueue \cup {Head(wq.delayedItems)} /\ wq'.delayedItems = Tail(wq.delayedItems)
<1>0. Timer \in Threads
  BY DEF Timer, Threads, WorkQueueTypeOK, isProper
<1>item. PICK item : item = Head(wq.delayedItems)
  BY Zenon
<1>rest. PICK rest, times, others : rest = Tail(wq.delayedItems) /\ others = wq.myQueue \ {item} /\ times = [wq.executionTime EXCEPT ![item] = 0]
  BY Zenon
<1>w. PICK w : w = [wq EXCEPT !.delayedItems = rest, !.executionTime = times, !.myQueue = others]
  BY Zenon
<1>1. /\ item = Head(wq.delayedItems) /\ rest = Tail(wq.delayedItems) /\ others = wq.myQueue \ {item}
      /\ times = [wq.executionTime EXCEPT ![item] = 0]
      /\ w = [wq EXCEPT !.delayedItems = rest, !.executionTime = times, !.myQueue = others]
  BY <1>item, <1>rest, <1>w, Zenon
<1>2. item \in Items /\ rest \in Seq(Items) /\ times \in [Items -> Nat] /\ others \in SUBSET Items
  BY <1>1 DEF WorkQueueTypeOK, State
<1>3. w \in State /\ item \notin w.myQueue /\ ~w.freed
  BY ZenonT(30), <1>1, <1>2 DEF WorkQueueTypeOK, State
<1>4. wq' = enqueueWorkQueueItem(w, Timer, item)
  <2>1. [wq EXCEPT !.delayedItems = Tail(@), !.executionTime[Head(wq.delayedItems)] = 0, !.myQueue = @ \ {Head(wq.delayedItems)}] = w
    BY Zenon, <1>1 DEF WorkQueueTypeOK, State
  <2> QED BY Zenon, <1>1, <2>1 DEF ContinueDelayed
<1>5. PICK p, newest, next, mine, put, threads :
        /\ p = ItemPriority[item]
        /\ newest = [w.newest EXCEPT ![p] = item] /\ next = [w.next EXCEPT ![item] = null] /\ mine = w.myQueue \cup {item}
        /\ put = [w.put EXCEPT ![p] = Append(w.put[p], item)]
        /\ threads = [w.threads EXCEPT ![Timer] = thread("link", item, w.newest[p], w.threads[Timer].wakes, w.threads[Timer].time)]
  BY Zenon
<1>6. wq' = [w EXCEPT !.next = next, !.newest = newest, !.myQueue = mine, !.put = put, !.threads = threads]
  BY <1>2, <1>3, <1>4, <1>5, PutIs, ZenonT(60)
<1>7. w.newest = wq.newest /\ w.next = wq.next /\ w.put = wq.put /\ w.threads = wq.threads /\ w.myQueue = others /\ w.delayedItems = rest
  BY Zenon, <1>1 DEF WorkQueueTypeOK, State
<1>8. /\ newest \in [Priorities -> Entries] /\ next \in [Entries -> Entries \cup {null}] /\ mine \in SUBSET Items
      /\ put \in [Priorities -> Seq(Items)] /\ threads \in [Threads -> Thread]
  BY Zenon, <1>0, <1>2, <1>5, <1>7, PutIsProper DEF WorkQueueTypeOK, State
<1>9. WorkQueueTypeOK'
  BY Zenon, <1>3, <1>6, <1>8 DEF WorkQueueTypeOK, State, isProper
<1>10. /\ wq'.newest = newest /\ wq'.oldest = w.oldest /\ wq'.next = next /\ wq'.put = put /\ wq'.threads = threads
       /\ wq'.myQueue = mine /\ wq'.delayedItems = rest
  BY Zenon, <1>3, <1>6, <1>7 DEF State
<1>11. wq'.worker = w.worker /\ wq'.timer = w.timer /\ wq'.lock = w.lock /\ wq'.idle = w.idle /\ wq'.waiting = w.waiting
       /\ wq'.shouldStop = w.shouldStop /\ wq'.freed = w.freed
  BY Zenon, <1>3, <1>6 DEF State
<1>12. w.oldest = wq.oldest /\ w.worker = wq.worker /\ w.timer = wq.timer /\ w.lock = wq.lock
       /\ w.idle = wq.idle /\ w.waiting = wq.waiting /\ w.shouldStop = wq.shouldStop /\ w.freed = wq.freed
  BY Zenon, <1>1 DEF WorkQueueTypeOK, State
<1>13. puts(Timer, item)
  BY Zenon, <1>0, <1>2, <1>5, <1>7, <1>10, <1>11, <1>12, PutIsProper DEF puts, moves, sameTimer, sameSleep, sameEnd
<1>14. mine = wq.myQueue \cup {item}
  BY Zenon, <1>1, <1>5, <1>7
<1> QED BY Zenon, <1>1, <1>2, <1>9, <1>10, <1>13, <1>14

(* The handler lets go of the lock, and is to set the timer again if items *)
(* are left.                                                               *)
LEMMA ContinueDelayedEnds ==
  ASSUME WorkQueueTypeOK, ContinueDelayed,
         ~(wq.delayedItems # <<>> /\ wq.executionTime[Head(wq.delayedItems)] <= wq.jiffies)
  PROVE  /\ WorkQueueTypeOK'
         /\ \E time \in Nat :
              moves(Timer, thread(IF wq.delayedItems # <<>> THEN "modTimer" ELSE IF wq.threads[Timer].wakes THEN "wake" ELSE "idle",
                                  wq.threads[Timer].item, wq.threads[Timer].previous, wq.threads[Timer].wakes, time))
         /\ wq'.timer = wq.timer /\ wq'.lock = -1
         /\ wq'.worker = wq.worker /\ sameLists /\ sameItems /\ sameSleep /\ sameEnd
<1>0. Timer \in Threads
  BY DEF Timer, Threads, WorkQueueTypeOK, isProper
<1>1. PICK pc, time : /\ pc = IF wq.delayedItems # <<>> THEN "modTimer" ELSE IF wq.threads[Timer].wakes THEN "wake" ELSE "idle"
                      /\ time = IF wq.delayedItems # <<>> THEN wq.executionTime[Head(wq.delayedItems)] ELSE 0
  BY Zenon
<1>2. PICK th : th = thread(pc, wq.threads[Timer].item, wq.threads[Timer].previous, wq.threads[Timer].wakes, time)
  BY Zenon
<1>3. time \in Nat
  <2>1. wq.delayedItems # <<>> => Head(wq.delayedItems) \in Items
    BY DEF WorkQueueTypeOK, State
  <2> QED BY Zenon, <1>1, <2>1 DEF WorkQueueTypeOK, State
<1>4. th \in Thread
  BY Zenon, <1>0, <1>1, <1>2, <1>3 DEF thread, Thread, ThreadPCs, WorkQueueTypeOK, State
<1>5. wq' = [wq EXCEPT !.lock = -1, !.threads[Timer] = th]
  BY Zenon, <1>1, <1>2 DEF ContinueDelayed, WorkQueueTypeOK, State
<1>6. WorkQueueTypeOK'
  BY Zenon, <1>0, <1>4, <1>5 DEF WorkQueueTypeOK, State, isProper
<1>7. wq'.threads = [wq.threads EXCEPT ![Timer] = th] /\ wq'.timer = wq.timer /\ wq'.lock = -1
  BY Zenon, <1>5 DEF WorkQueueTypeOK, State
<1>8. wq'.worker = wq.worker /\ sameLists /\ sameItems /\ sameSleep /\ sameEnd
  BY Zenon, <1>5 DEF WorkQueueTypeOK, State, sameLists, sameItems, sameSleep, sameEnd
<1> QED BY Zenon, <1>1, <1>2, <1>3, <1>4, <1>6, <1>7, <1>8 DEF moves

(* What the worker goes on with when it found nothing in a list.           *)
goesOn(old, new) ==
  /\ new.from = old.from /\ new.item = old.item
  /\ IF old.list > 1 THEN new.list = old.list - 1 /\ new.pc = "poll"
     ELSE /\ new.list = old.list
          /\ new.pc = CASE old.from \in {"next", "woken"} -> "prepareToWait"
                        [] old.from = "waiting"           -> "checkStop"
                        [] old.from = "stopping"          -> "exited"

(* foundNothing() goes on with the next list or ends the poll.             *)
LEMMA FoundNothingIs ==
  ASSUME isProper, NEW w \in State
  PROVE  \E worker \in Worker, idle \in BOOLEAN, waiting \in BOOLEAN :
           /\ foundNothing(w) = [w EXCEPT !.worker = worker, !.idle = idle, !.waiting = waiting]
           /\ goesOn(w.worker, worker)
           /\ w.worker.from # "stopping" => idle = w.idle /\ waiting = w.waiting
<1>0. w.worker \in Worker /\ w.idle \in BOOLEAN /\ w.waiting \in BOOLEAN
  BY Zenon DEF State
<1>1. CASE w.worker.list > 1
  <2>1. PICK n : n = w.worker.list - 1
    BY Zenon
  <2>list. n \in Priorities
    <3>1. w.worker.list \in Priorities
      BY Zenon, <1>0 DEF Worker
    <3> QED BY <1>1, <2>1, <3>1 DEF Priorities, isProper
  <2>worker. PICK worker : worker = [w.worker EXCEPT !.list = n, !.pc = "poll"]
    BY Zenon
  <2>2. worker \in Worker /\ goesOn(w.worker, worker)
    <3>1. worker \in Worker /\ worker.from = w.worker.from /\ worker.item = w.worker.item /\ worker.list = n /\ worker.pc = "poll"
      BY Zenon, <1>0, <2>list, <2>worker DEF Worker, WorkerPCs
    <3> QED BY Zenon, <1>1, <2>1, <3>1 DEF goesOn
  <2>3. foundNothing(w) = [w EXCEPT !.worker = worker]
    <3>1. foundNothing(w) = [w EXCEPT !.worker = [@ EXCEPT !.list = w.worker.list - 1, !.pc = "poll"]]
      BY <1>1, Zenon DEF foundNothing
    <3> QED BY Zenon, <2>1, <2>worker, <3>1
  <2>4. [w EXCEPT !.worker = worker] = [w EXCEPT !.worker = worker, !.idle = w.idle, !.waiting = w.waiting]
    BY Zenon DEF State
  <2> QED BY Zenon, <1>0, <2>2, <2>3, <2>4
<1>2. CASE ~(w.worker.list > 1) /\ w.worker.from # "stopping"
  <2>1. PICK pc : pc = IF w.worker.from = "waiting" THEN "checkStop" ELSE "prepareToWait"
    BY Zenon
  <2>2. PICK worker : worker = [w.worker EXCEPT !.pc = pc]
    BY Zenon
  <2>3. worker \in Worker /\ goesOn(w.worker, worker)
    BY Zenon, <1>0, <1>2, <2>1, <2>2 DEF Worker, WorkerPCs, goesOn
  <2>4. foundNothing(w) = at(w, pc)
    BY Zenon, <1>0, <1>2, <2>1 DEF foundNothing, Worker
  <2>5. at(w, pc) = [w EXCEPT !.worker = worker, !.idle = w.idle, !.waiting = w.waiting]
    BY Zenon, <2>2 DEF State, at
  <2> QED BY Zenon, <1>0, <2>3, <2>4, <2>5
<1>3. CASE ~(w.worker.list > 1) /\ w.worker.from = "stopping"
  <2>1. PICK worker : worker = [w.worker EXCEPT !.pc = "exited"]
    BY Zenon
  <2>2. worker \in Worker /\ goesOn(w.worker, worker)
    BY Zenon, <1>0, <1>3, <2>1 DEF Worker, WorkerPCs, goesOn
  <2>3. foundNothing(w) = at(stopWaiting(w), "exited")
    BY Zenon, <1>3 DEF foundNothing
  <2>4. at(stopWaiting(w), "exited") = [w EXCEPT !.worker = worker, !.idle = FALSE, !.waiting = FALSE]
    BY Zenon, <2>1 DEF State, at, stopWaiting
  <2> QED BY Zenon, <1>3, <2>2, <2>3, <2>4
<1> QED BY Zenon, <1>1, <1>2, <1>3

(* What the worker asserts of the item which it takes.                     *)
comesNext(w, p, item) == w.put[p] # <<>> /\ Head(w.put[p]) = item /\ item \in w.myQueue

(* The state after the worker took the oldest entry, which has a           *)
(* successor, and is to run it.                                            *)
taken(w, p, item) ==
  [w EXCEPT !.oldest = [w.oldest EXCEPT ![p] = w.next[item]], !.next = [w.next EXCEPT ![item] = null],
            !.put = [w.put EXCEPT ![p] = Tail(w.put[p])], !.myQueue = w.myQueue \ {item},
            !.worker = [w.worker EXCEPT !.item = item, !.pc = "work"],
            !.idle = IF w.worker.from = "next" THEN w.idle ELSE FALSE,
            !.waiting = IF w.worker.from = "next" THEN w.waiting ELSE FALSE]

(* What the worker does with the oldest entry.                             *)
LEMMA TakeIs ==
  ASSUME NEW w \in State, NEW p \in Priorities, NEW item \in Items, comesNext(w, p, item)
  PROVE  processWorkItem(funnelQueuePoll(w, p, item), item) = taken(w, p, item)
<1> DEFINE oldest == [w.oldest EXCEPT ![p] = w.next[item]]
           next == [w.next EXCEPT ![item] = null]
           put == [w.put EXCEPT ![p] = Tail(w.put[p])]
           mine == w.myQueue \ {item}
           worker == [w.worker EXCEPT !.item = item, !.pc = "work"]
           idle == IF w.worker.from = "next" THEN w.idle ELSE FALSE
           waiting == IF w.worker.from = "next" THEN w.waiting ELSE FALSE
<1> HIDE DEF oldest, next, put, mine, worker, idle, waiting
<1>1. funnelQueuePoll(w, p, item) = [w EXCEPT !.oldest = oldest, !.next = next, !.put = put]
  BY Zenon DEF funnelQueuePoll, assert, State, comesNext, oldest, next, put
<1>2. PICK v : v = [w EXCEPT !.oldest = oldest, !.next = next, !.put = put]
  BY Zenon
<1>3. v.myQueue = w.myQueue /\ v.worker = w.worker /\ v.asserts = w.asserts /\ v.idle = w.idle /\ v.waiting = w.waiting
  BY Zenon, <1>2 DEF State
<1>4. assert(v, item \in v.myQueue, "item marked as being in this queue") = v
  BY Zenon, <1>2, <1>3 DEF assert, State, comesNext
<1> DEFINE result == [w EXCEPT !.oldest = oldest, !.next = next, !.put = put, !.myQueue = mine, !.worker = worker,
                               !.idle = idle, !.waiting = waiting]
<1>5. ASSUME w.worker.from = "next" PROVE processWorkItem(v, item) = result
  <2>1. processWorkItem(v, item) = [v EXCEPT !.myQueue = @ \ {item}, !.worker = [@ EXCEPT !.item = item, !.pc = "work"]]
    BY Zenon, <1>3, <1>4, <1>5 DEF processWorkItem
  <2>2. processWorkItem(v, item) = [v EXCEPT !.myQueue = mine, !.worker = worker]
    BY Zenon, <1>3, <2>1 DEF mine, worker
  <2>3. idle = w.idle /\ waiting = w.waiting
    BY Zenon, <1>5 DEF idle, waiting
  <2>4. processWorkItem(v, item) = [w EXCEPT !.oldest = oldest, !.next = next, !.put = put, !.myQueue = mine, !.worker = worker,
                                             !.idle = w.idle, !.waiting = w.waiting]
    BY Zenon, <1>2, <2>2 DEF State
  <2> QED BY Zenon, <2>3, <2>4
<1>6. ASSUME w.worker.from # "next" PROVE processWorkItem(v, item) = result
  <2>1. processWorkItem(v, item) = [stopWaiting(v) EXCEPT !.myQueue = @ \ {item}, !.worker = [@ EXCEPT !.item = item, !.pc = "work"]]
    BY Zenon, <1>3, <1>4, <1>6 DEF processWorkItem
  <2>2. stopWaiting(v).myQueue = w.myQueue /\ stopWaiting(v).worker = w.worker
    BY Zenon, <1>2, <1>3 DEF stopWaiting, State
  <2>3. processWorkItem(v, item) = [stopWaiting(v) EXCEPT !.myQueue = mine, !.worker = worker]
    BY Zenon, <2>1, <2>2 DEF mine, worker
  <2>4. processWorkItem(v, item) = [w EXCEPT !.oldest = oldest, !.next = next, !.put = put, !.myQueue = mine, !.worker = worker,
                                             !.idle = FALSE, !.waiting = FALSE]
    BY Zenon, <1>2, <2>3 DEF State, stopWaiting
  <2>5. idle = FALSE /\ waiting = FALSE
    BY Zenon, <1>6 DEF idle, waiting
  <2> QED BY Zenon, <2>4, <2>5
<1>7. processWorkItem(v, item) = result
  BY Zenon, <1>5, <1>6
<1>8. processWorkItem(funnelQueuePoll(w, p, item), item) = result
  BY Zenon, <1>1, <1>2, <1>7
<1> QED BY <1>8, Zenon DEF taken, oldest, next, put, mine, worker, idle, waiting

(* The worker's step which takes an item from list p.                      *)
takes(p, item) ==
  /\ wq'.oldest = [wq.oldest EXCEPT ![p] = wq.next[item]] /\ wq'.newest = wq.newest
  /\ wq'.next = [wq.next EXCEPT ![item] = null] /\ wq'.put = [wq.put EXCEPT ![p] = Tail(wq.put[p])]
  /\ wq'.myQueue = wq.myQueue \ {item} /\ wq'.delayedItems = wq.delayedItems
  /\ wq'.worker.pc = "work" /\ wq'.worker.from = wq.worker.from
  /\ wq'.threads = wq.threads /\ sameTimer /\ sameEnd

(* The worker's step which finds nothing in a list, whose oldest entries   *)
(* are then these.                                                         *)
findsNothing(oldest) ==
  /\ wq'.oldest = oldest /\ wq'.newest = wq.newest /\ wq'.next = wq.next /\ wq'.put = wq.put
  /\ goesOn(wq.worker, wq'.worker) /\ (wq.worker.from # "stopping" => sameSleep)
  /\ wq'.threads = wq.threads /\ sameItems /\ sameTimer /\ sameEnd

(* What the worker's step is when it finds nothing.                        *)
LEMMA FindsNothing ==
  ASSUME WorkQueueTypeOK, NEW oldest \in [Priorities -> Entries],
         wq' = foundNothing([wq EXCEPT !.oldest = oldest])
  PROVE  WorkQueueTypeOK' /\ findsNothing(oldest)
<1>1. PICK w : w = [wq EXCEPT !.oldest = oldest]
  BY Zenon
<1>2. w \in State
  BY Zenon, <1>1 DEF WorkQueueTypeOK, State
<1>3. /\ w.oldest = oldest /\ w.newest = wq.newest /\ w.next = wq.next /\ w.put = wq.put /\ w.threads = wq.threads
      /\ w.worker = wq.worker /\ w.idle = wq.idle /\ w.waiting = wq.waiting
      /\ w.myQueue = wq.myQueue /\ w.delayedItems = wq.delayedItems
  BY Zenon, <1>1 DEF WorkQueueTypeOK, State
<1>4. w.timer = wq.timer /\ w.lock = wq.lock /\ w.shouldStop = wq.shouldStop /\ w.freed = wq.freed
  BY Zenon, <1>1 DEF WorkQueueTypeOK, State
<1>5. PICK worker \in Worker, idle \in BOOLEAN, waiting \in BOOLEAN :
        /\ wq' = [w EXCEPT !.worker = worker, !.idle = idle, !.waiting = waiting]
        /\ goesOn(w.worker, worker)
        /\ w.worker.from # "stopping" => idle = w.idle /\ waiting = w.waiting
  <2>1. isProper
    BY Zenon DEF WorkQueueTypeOK
  <2> QED BY <1>1, <1>2, <2>1, FoundNothingIs, Zenon
<1>6. wq' \in State
  BY ZenonT(30), <1>2, <1>5 DEF State
<1>7. /\ wq'.oldest = w.oldest /\ wq'.newest = w.newest /\ wq'.next = w.next /\ wq'.put = w.put /\ wq'.threads = w.threads
      /\ wq'.worker = worker /\ wq'.idle = idle /\ wq'.waiting = waiting
      /\ wq'.myQueue = w.myQueue /\ wq'.delayedItems = w.delayedItems
  BY ZenonT(30), <1>2, <1>5 DEF State
<1>8. wq'.timer = w.timer /\ wq'.lock = w.lock /\ wq'.shouldStop = w.shouldStop /\ wq'.freed = w.freed
  BY Zenon, <1>2, <1>5 DEF State
<1>9. WorkQueueTypeOK'
  BY Zenon, <1>6 DEF WorkQueueTypeOK, State, isProper
<1> QED BY Zenon, <1>3, <1>4, <1>5, <1>7, <1>8, <1>9 DEF findsNothing, sameSleep, sameItems, sameTimer, sameEnd

(* What the worker's step is when it takes an item.                        *)
LEMMA Takes ==
  ASSUME WorkQueueTypeOK, NEW oldest \in [Priorities -> Entries], NEW p \in Priorities, NEW item \in Items,
         wq' = processWorkItem(funnelQueuePoll([wq EXCEPT !.oldest = oldest], p, item), item),
         \A r \in Priorities \ {p} : oldest[r] = wq.oldest[r],
         comesNext(wq, p, item), wq.next[item] \in Entries
  PROVE  WorkQueueTypeOK' /\ takes(p, item)
<1>1. PICK w : w = [wq EXCEPT !.oldest = oldest]
  BY Zenon
<1>2. w \in State
  BY Zenon, <1>1 DEF WorkQueueTypeOK, State
<1>3. /\ w.oldest = oldest /\ w.newest = wq.newest /\ w.next = wq.next /\ w.put = wq.put /\ w.threads = wq.threads
      /\ w.worker = wq.worker /\ w.myQueue = wq.myQueue /\ w.delayedItems = wq.delayedItems
  BY Zenon, <1>1 DEF WorkQueueTypeOK, State
<1>4. w.timer = wq.timer /\ w.lock = wq.lock /\ w.shouldStop = wq.shouldStop /\ w.freed = wq.freed
  BY Zenon, <1>1 DEF WorkQueueTypeOK, State
<1>5. PICK oldest2, next, put, mine, worker :
        /\ oldest2 = [w.oldest EXCEPT ![p] = w.next[item]] /\ next = [w.next EXCEPT ![item] = null]
        /\ put = [w.put EXCEPT ![p] = Tail(w.put[p])] /\ mine = w.myQueue \ {item}
        /\ worker = [w.worker EXCEPT !.item = item, !.pc = "work"]
  BY Zenon
<1>6. PICK idle \in BOOLEAN, waiting \in BOOLEAN :
        wq' = [w EXCEPT !.oldest = oldest2, !.next = next, !.put = put, !.myQueue = mine, !.worker = worker,
                        !.idle = idle, !.waiting = waiting]
  <2>1. comesNext(w, p, item)
    BY <1>3, Zenon DEF comesNext
  <2>2. wq' = taken(w, p, item)
    BY <1>1, <1>2, <2>1, TakeIs, Zenon
  <2>3. PICK idle, waiting : /\ idle = IF w.worker.from = "next" THEN w.idle ELSE FALSE
                             /\ waiting = IF w.worker.from = "next" THEN w.waiting ELSE FALSE
    BY Zenon
  <2>4. w.idle \in BOOLEAN /\ w.waiting \in BOOLEAN
    BY Zenon, <1>2 DEF State
  <2>5. idle \in BOOLEAN /\ waiting \in BOOLEAN
    BY Zenon, <2>3, <2>4
  <2>6. wq' = [w EXCEPT !.oldest = oldest2, !.next = next, !.put = put, !.myQueue = mine, !.worker = worker,
                        !.idle = idle, !.waiting = waiting]
    BY <1>5, <2>2, <2>3, Zenon DEF taken
  <2> QED BY <2>5, <2>6, Zenon
<1>7. item \in Entries
  BY Zenon DEF Entries
<1>8. /\ oldest2 \in [Priorities -> Entries] /\ next \in [Entries -> Entries \cup {null}]
      /\ put \in [Priorities -> Seq(Items)] /\ mine \in SUBSET Items
  <2>1. Tail(w.put[p]) \in Seq(Items)
    BY <1>2, <1>3 DEF State, comesNext
  <2> QED BY Zenon, <1>2, <1>3, <1>5, <1>7, <2>1 DEF State
<1>9. worker \in Worker /\ worker.pc = "work" /\ worker.from = wq.worker.from
  <2>1. w.worker \in Worker
    BY Zenon, <1>2 DEF State
  <2> QED BY Zenon, <1>3, <1>5, <2>1 DEF Worker, WorkerPCs
<1>10. wq' \in State
  <2>1. PICK v : v = [w EXCEPT !.oldest = oldest2, !.next = next, !.put = put, !.myQueue = mine]
    BY Zenon
  <2>2. v \in State
    BY Zenon, <1>2, <1>8, <2>1 DEF State
  <2>3. wq' = [v EXCEPT !.worker = worker, !.idle = idle, !.waiting = waiting]
    BY Zenon, <1>2, <1>6, <2>1 DEF State
  <2>4. worker \in Worker
    BY Zenon, <1>9
  <2> QED BY ZenonT(30), <2>2, <2>3, <2>4 DEF State
<1>11. /\ wq'.oldest = oldest2 /\ wq'.newest = w.newest /\ wq'.next = next /\ wq'.put = put /\ wq'.threads = w.threads
       /\ wq'.worker = worker /\ wq'.myQueue = mine /\ wq'.delayedItems = w.delayedItems
  BY Zenon, <1>2, <1>6 DEF State
<1>12. wq'.timer = w.timer /\ wq'.lock = w.lock /\ wq'.shouldStop = w.shouldStop /\ wq'.freed = w.freed
  BY Zenon, <1>2, <1>6 DEF State
<1>13. WorkQueueTypeOK'
  BY Zenon, <1>10 DEF WorkQueueTypeOK, State, isProper
<1>14. oldest2 = [wq.oldest EXCEPT ![p] = wq.next[item]]
  BY Zenon, <1>3, <1>5, <1>8 DEF WorkQueueTypeOK, State
<1> QED BY Zenon, <1>3, <1>4, <1>5, <1>9, <1>11, <1>12, <1>13, <1>14 DEF takes, sameTimer, sameEnd

(* What getOldest() looks at: the oldest entry but for the stub.           *)
oldestItem(p) == IF wq.oldest[p] = stub(p) THEN wq.next[wq.oldest[p]] ELSE wq.oldest[p]

(* What pollForWorkItem() does when it looks at o.                         *)
polls(p, o) ==
  \/ o = null /\ findsNothing(wq.oldest)
  \/ o # null /\ wq.next[o] # null /\ takes(p, o)
  \/ o # null /\ wq.next[o] = null /\ wq.newest[p] # o /\ findsNothing([wq.oldest EXCEPT ![p] = o])
  \/ /\ o # null /\ wq.next[o] = null /\ wq.newest[p] = o
     /\ wq'.oldest = [wq.oldest EXCEPT ![p] = o] /\ wq'.newest = wq.newest /\ wq'.next = wq.next /\ wq'.put = wq.put
     /\ wq'.worker = [wq.worker EXCEPT !.pc = "putStub"]
     /\ wq'.threads = wq.threads /\ sameItems /\ sameTimer /\ sameSleep /\ sameEnd

(* What pollForWorkItem() does, in its four ways, o being the oldest entry *)
(* but for the stub.                                                       *)
LEMMA PollDoes ==
  ASSUME WorkQueueTypeOK, pollForWorkItem, NEW p, p = wq.worker.list, NEW o, o = oldestItem(p),
         o # null => o \in Items /\ comesNext(wq, p, o)
  PROVE  WorkQueueTypeOK' /\ p \in Priorities /\ polls(p, o)
<1>1. p \in Priorities /\ wq.oldest[p] \in Entries
  BY Zenon DEF WorkQueueTypeOK, State, Worker
<1>2. o # null => o \in Entries
  BY Zenon, <1>1 DEF Entries
<1>3. PICK r : r = getOldest(wq, p)
  BY Zenon
<1>4. wq' = IF r.putStub THEN at(r.w, "putStub")
            ELSE IF r.entry = null THEN foundNothing(r.w)
            ELSE processWorkItem(funnelQueuePoll(r.w, p, r.entry), r.entry)
  BY Zenon, <1>3 DEF pollForWorkItem
<1>5. CASE o = null
  <2>1. r = [w |-> wq, entry |-> null, putStub |-> FALSE]
    BY Zenon, <1>3, <1>5 DEF getOldest, oldestItem
  <2>2. wq' = foundNothing(wq)
    BY Zenon, <1>4, <2>1
  <2>3. wq = [wq EXCEPT !.oldest = wq.oldest] /\ wq.oldest \in [Priorities -> Entries]
    BY Zenon DEF WorkQueueTypeOK, State
  <2>4. wq' = foundNothing([wq EXCEPT !.oldest = wq.oldest])
    BY <2>2, <2>3, Zenon
  <2> QED BY Zenon, <1>1, <1>5, <2>3, <2>4, FindsNothing DEF polls
<1>6. PICK oldest : oldest = [wq.oldest EXCEPT ![p] = o]
  BY Zenon
<1>7. o # null => oldest \in [Priorities -> Entries]
  BY Zenon, <1>2, <1>6 DEF WorkQueueTypeOK, State
<1>8. [wq EXCEPT !.oldest[p] = o] = [wq EXCEPT !.oldest = oldest]
  BY Zenon, <1>6
<1>9. CASE o # null /\ wq.next[o] # null
  <2>1. r = [w |-> [wq EXCEPT !.oldest[p] = o], entry |-> o, putStub |-> FALSE]
    BY Zenon, <1>3, <1>9 DEF getOldest, oldestItem
  <2>2. wq' = processWorkItem(funnelQueuePoll([wq EXCEPT !.oldest = oldest], p, o), o)
    BY Zenon, <1>4, <1>8, <1>9, <2>1
  <2>3. wq.next[o] \in Entries
    BY Zenon, <1>2, <1>9 DEF WorkQueueTypeOK, State
  <2>4. \A s \in Priorities \ {p} : oldest[s] = wq.oldest[s]
    BY Zenon, <1>6 DEF WorkQueueTypeOK, State
  <2>5. WorkQueueTypeOK' /\ takes(p, o)
    BY Zenon, <1>1, <1>7, <1>9, <2>2, <2>3, <2>4, Takes
  <2> QED BY Zenon, <1>1, <1>9, <2>5 DEF polls
<1>10. CASE o # null /\ wq.next[o] = null /\ wq.newest[p] # o
  <2>1. r = [w |-> [wq EXCEPT !.oldest[p] = o], entry |-> null, putStub |-> FALSE]
    BY Zenon, <1>3, <1>10 DEF getOldest, oldestItem
  <2>2. wq' = foundNothing([wq EXCEPT !.oldest = oldest])
    BY Zenon, <1>4, <1>8, <2>1
  <2>3. WorkQueueTypeOK' /\ findsNothing(oldest)
    BY Zenon, <1>7, <1>10, <2>2, FindsNothing
  <2> QED BY Zenon, <1>1, <1>6, <1>10, <2>3 DEF polls
<1>11. CASE o # null /\ wq.next[o] = null /\ wq.newest[p] = o
  <2>1. r = [w |-> [wq EXCEPT !.oldest[p] = o], entry |-> null, putStub |-> TRUE]
    BY Zenon, <1>3, <1>11 DEF getOldest, oldestItem
  <2>2. wq' = at([wq EXCEPT !.oldest = oldest], "putStub")
    BY Zenon, <1>4, <1>8, <2>1
  <2>3. PICK worker : worker = [wq.worker EXCEPT !.pc = "putStub"]
    BY Zenon
  <2>4. worker \in Worker
    BY Zenon, <2>3 DEF WorkQueueTypeOK, State, Worker, WorkerPCs
  <2>5. wq' = [wq EXCEPT !.oldest = oldest, !.worker = worker]
    BY Zenon, <2>2, <2>3 DEF at, WorkQueueTypeOK, State
  <2>6. WorkQueueTypeOK'
    BY Zenon, <1>7, <1>11, <2>4, <2>5 DEF WorkQueueTypeOK, State, isProper
  <2>7. /\ wq'.oldest = oldest /\ wq'.newest = wq.newest /\ wq'.next = wq.next /\ wq'.put = wq.put
        /\ wq'.worker = worker /\ wq'.threads = wq.threads
    BY Zenon, <2>5 DEF WorkQueueTypeOK, State
  <2>8. sameItems /\ sameTimer /\ sameSleep /\ sameEnd
    BY Zenon, <2>5 DEF WorkQueueTypeOK, State, sameItems, sameTimer, sameSleep, sameEnd
  <2> QED BY Zenon, <1>1, <1>6, <1>11, <2>3, <2>6, <2>7, <2>8 DEF polls
<1> QED BY Zenon, <1>5, <1>9, <1>10, <1>11

(* PollAgain() finds nothing or takes the oldest entry.                    *)
LEMMA PollAgainDoes ==
  ASSUME WorkQueueTypeOK, PollAgain, NEW p, p = wq.worker.list, NEW o, o = wq.oldest[p],
         o \in Items, comesNext(wq, p, o)
  PROVE  /\ WorkQueueTypeOK' /\ p \in Priorities
         /\ \/ wq.next[o] = null /\ findsNothing(wq.oldest)
            \/ wq.next[o] # null /\ takes(p, o)
<1>1. p \in Priorities /\ wq.oldest \in [Priorities -> Entries] /\ o \in Entries
  BY Zenon DEF WorkQueueTypeOK, State, Worker
<1>2. wq = [wq EXCEPT !.oldest = wq.oldest]
  BY Zenon DEF WorkQueueTypeOK, State
<1>3. CASE wq.next[o] = null
  <2>1. wq' = foundNothing(wq)
    BY Zenon, <1>3 DEF PollAgain
  <2>2. wq' = foundNothing([wq EXCEPT !.oldest = wq.oldest])
    BY <1>2, <2>1, Zenon
  <2> QED BY Zenon, <1>1, <1>3, <2>2, FindsNothing
<1>4. CASE wq.next[o] # null
  <2>1. wq' = processWorkItem(funnelQueuePoll(wq, p, o), o)
    BY Zenon, <1>4 DEF PollAgain
  <2>2. wq' = processWorkItem(funnelQueuePoll([wq EXCEPT !.oldest = wq.oldest], p, o), o)
    BY <1>2, <2>1, Zenon
  <2>3. wq.next[o] \in Entries
    BY Zenon, <1>1, <1>4 DEF WorkQueueTypeOK, State
  <2> QED BY Zenon, <1>1, <1>4, <2>2, <2>3, Takes
<1> QED BY Zenon, <1>3, <1>4

(* PutStub() puts the stub behind the newest entry.                        *)
LEMMA PutStubDoes ==
  ASSUME WorkQueueTypeOK, PutStub, NEW p, p = wq.worker.list
  PROVE  /\ WorkQueueTypeOK' /\ p \in Priorities
         /\ wq'.newest = [wq.newest EXCEPT ![p] = stub(p)] /\ wq'.oldest = wq.oldest /\ wq'.put = wq.put
         /\ wq'.next = [[wq.next EXCEPT ![stub(p)] = null] EXCEPT ![wq.newest[p]] = stub(p)]
         /\ wq'.worker = [wq.worker EXCEPT !.pc = "pollAgain"]
         /\ wq'.threads = wq.threads /\ sameItems /\ sameTimer /\ sameSleep /\ sameEnd
<1>1. p \in Priorities /\ stub(p) \in Entries
  BY Zenon DEF WorkQueueTypeOK, State, Worker, Entries
<1>2. PICK newest, worker : newest = [wq.newest EXCEPT ![p] = stub(p)] /\ worker = [wq.worker EXCEPT !.pc = "pollAgain"]
  BY Zenon
<1>3. PICK next : next = [[wq.next EXCEPT ![stub(p)] = null] EXCEPT ![wq.newest[p]] = stub(p)]
  BY Zenon
<1>4. newest \in [Priorities -> Entries]
  BY Zenon, <1>1, <1>2 DEF WorkQueueTypeOK, State
<1>5. worker \in Worker
  <2>1. wq.worker \in Worker
    BY Zenon DEF WorkQueueTypeOK, State
  <2> QED BY Zenon, <1>2, <2>1 DEF Worker, WorkerPCs
<1>6. next \in [Entries -> Entries \cup {null}]
  BY Zenon, <1>1, <1>3 DEF WorkQueueTypeOK, State
<1>7. wq' = [wq EXCEPT !.newest = newest, !.next = next, !.worker = worker]
  <2>1. PICK next2 : next2 = [wq.next EXCEPT ![stub(p)] = null]
    BY Zenon
  <2>2. exchange(wq, p, stub(p)) = [wq EXCEPT !.next = next2, !.newest = newest]
    BY Zenon, <1>2, <2>1 DEF exchange, WorkQueueTypeOK, State
  <2>3. putStub(wq, p) = [wq EXCEPT !.next = next, !.newest = newest]
    BY Zenon, <1>3, <2>1, <2>2 DEF putStub, linkEntry, WorkQueueTypeOK, State
  <2> QED BY Zenon, <1>2, <2>3 DEF PutStub, at, WorkQueueTypeOK, State
<1>8. WorkQueueTypeOK'
  BY Zenon, <1>4, <1>5, <1>6, <1>7 DEF WorkQueueTypeOK, State, isProper
<1>9. /\ wq'.newest = newest /\ wq'.next = next /\ wq'.oldest = wq.oldest /\ wq'.put = wq.put
      /\ wq'.worker = worker /\ wq'.threads = wq.threads
  BY Zenon, <1>7 DEF WorkQueueTypeOK, State
<1>10. sameItems /\ sameTimer /\ sameSleep /\ sameEnd
  BY Zenon, <1>7 DEF WorkQueueTypeOK, State, sameItems, sameTimer, sameSleep, sameEnd
<1> QED BY Zenon, <1>1, <1>2, <1>3, <1>8, <1>9, <1>10

(* The worker's step which starts to poll.                                 *)
starts(from, item, idle, waiting, n) ==
  wq' = [wq EXCEPT !.worker = [pc |-> "poll", from |-> from, list |-> numPriorityLists, item |-> item],
                   !.idle = idle, !.waiting = waiting, !.heartbeats = n]

(* startPoll() makes the worker poll from the first list.                  *)
LEMMA StartPollDoes ==
  ASSUME WorkQueueTypeOK, NEW from \in {"next", "waiting", "woken", "stopping"}, NEW item \in Items \cup {null},
         NEW idle \in BOOLEAN, NEW waiting \in BOOLEAN, NEW n \in Int,
         starts(from, item, idle, waiting, n)
  PROVE  /\ WorkQueueTypeOK' /\ sameLists /\ wq'.threads = wq.threads /\ sameItems /\ sameTimer /\ sameEnd
         /\ wq'.worker.pc = "poll" /\ wq'.worker.from = from /\ wq'.worker.list = numPriorityLists
         /\ wq'.idle = idle /\ wq'.waiting = waiting
<1>1. PICK worker : worker = [pc |-> "poll", from |-> from, list |-> numPriorityLists, item |-> item]
  BY Zenon
<1>2. worker \in Worker
  BY <1>1 DEF WorkQueueTypeOK, isProper, Worker, WorkerPCs, Priorities
<1>3. wq' = [wq EXCEPT !.worker = worker, !.idle = idle, !.waiting = waiting, !.heartbeats = n]
  BY Zenon, <1>1 DEF starts
<1>4. WorkQueueTypeOK'
  BY Zenon, <1>2, <1>3 DEF WorkQueueTypeOK, State, isProper
<1>5. sameLists /\ wq'.threads = wq.threads /\ sameItems /\ sameTimer /\ sameEnd
  BY Zenon, <1>3 DEF WorkQueueTypeOK, State, sameLists, sameItems, sameTimer, sameEnd
<1>6. wq'.worker = worker /\ wq'.idle = idle /\ wq'.waiting = waiting
  BY Zenon, <1>3 DEF WorkQueueTypeOK, State
<1> QED BY <1>1, <1>4, <1>5, <1>6

-----------------------------------------------------------------------------
(* The lists                                                               *)

(* The entries which may be in list p.                                     *)
belongs(e, p) == e = stub(p) \/ (e \in Items /\ ItemPriority[e] = p)

(* No entry may be in two lists.                                           *)
LEMMA BelongsToOne ==
  ASSUME isProper, NEW p \in Priorities, NEW r \in Priorities, NEW e, belongs(e, p), belongs(e, r)
  PROVE  p = r
  BY Zenon, StubIsNoItem DEF belongs

(* The entries of list p, and the items among them.                        *)
isList(p, k, c, q) ==
  /\ q = wq.put[p] /\ q \in Seq(Items) /\ Len(q) \in Nat /\ k \in 0 .. Len(q) + 1
  /\ c = entries(p, q, k) /\ c \in Seq(Entries) /\ isInjective(c)
  /\ Len(c) = (IF k = 0 THEN Len(q) ELSE Len(q) + 1)
  /\ \A j \in 1 .. Len(c) : c[j] = (IF k = 0 \/ j < k THEN q[j] ELSE IF j = k THEN stub(p) ELSE q[j - 1])
  /\ \A j \in 1 .. Len(c) : belongs(c[j], p)

(* A list which does not have the stub has just its items.                 *)
LEMMA ListWithoutStub ==
  ASSUME NEW p, NEW c, NEW q, isList(p, 0, c, q)
  PROVE  Len(c) = Len(q) /\ \A j \in 1 .. Len(c) : c[j] = q[j] /\ q[j] \in Items
  BY DEF isList

(* The entries of a list are different ones, which may be in it.           *)
LEMMA ListHasItsEntries ==
  ASSUME WorkQueueTypeOK, Marked, NEW p \in Priorities, NEW k \in 0 .. Len(wq.put[p]) + 1,
         NEW c, c = entries(p, wq.put[p], k), NEW q, q = wq.put[p]
  PROVE  isList(p, k, c, q)
<1>1. c = entries(p, q, k) /\ q = wq.put[p]
  BY Zenon
<1>2. q \in Seq(Items) /\ isProper /\ k \in 0 .. Len(q) + 1 /\ Len(q) \in Nat
  BY <1>1 DEF WorkQueueTypeOK, State
<1>3. isInjective(q) /\ \A j \in 1 .. Len(q) : q[j] \in Items /\ ItemPriority[q[j]] = p
  BY <1>1, <1>2 DEF Marked, isInjective
<1>4. /\ c \in Seq(Entries) /\ Len(c) = (IF k = 0 THEN Len(q) ELSE Len(q) + 1)
      /\ \A j \in 1 .. Len(c) : c[j] = (IF k = 0 \/ j < k THEN q[j] ELSE IF j = k THEN stub(p) ELSE q[j - 1])
  BY <1>1, <1>2, EntriesAre
<1>5. isInjective(c)
  BY Zenon, <1>1, <1>2, <1>3, EntriesAreInjective
<1>6. ASSUME NEW j \in 1 .. Len(c) PROVE belongs(c[j], p)
  <2>1. CASE k = 0 \/ j < k
    <3>1. j \in 1 .. Len(q) /\ c[j] = q[j]
      BY <1>2, <1>4, <2>1
    <3> QED BY Zenon, <1>3, <3>1 DEF belongs
  <2>2. CASE k # 0 /\ j = k
    BY <1>2, <1>4, <2>2 DEF belongs
  <2>3. CASE k # 0 /\ j > k
    <3>1. j - 1 \in 1 .. Len(q) /\ c[j] = q[j - 1]
      BY <1>2, <1>4, <2>3
    <3> QED BY Zenon, <1>3, <3>1 DEF belongs
  <2> QED BY <1>2, <2>1, <2>2, <2>3
<1> QED BY Zenon, <1>1, <1>2, <1>4, <1>5, <1>6 DEF isList

(* makeSimpleWorkQueue() establishes the invariant.                        *)
LEMMA InitIsProper ==
  ASSUME isProper, Init
  PROVE  WorkQueueInv
<1>1. PICK stubs, next, worker, threads, times, put :
        /\ stubs = [p \in Priorities |-> stub(p)] /\ next = [e \in Entries |-> null]
        /\ worker = [pc |-> "poll", from |-> "next", list |-> numPriorityLists, item |-> null]
        /\ threads = [t \in Threads |-> noThread] /\ times = [i \in Items |-> 0] /\ put = [p \in Priorities |-> <<>>]
  BY Zenon
<1>2. wq = [newest |-> stubs, oldest |-> stubs, next |-> next, myQueue |-> {}, delayedItems |-> <<>>,
            executionTime |-> times, timer |-> -1, lock |-> -1, idle |-> FALSE, waiting |-> FALSE, worker |-> worker,
            shouldStop |-> FALSE, freed |-> FALSE, threads |-> threads, jiffies |-> 0, enqueues |-> MaxEnqueues,
            heartbeats |-> Heartbeats, put |-> put, late |-> {}, asserts |-> {}]
  BY <1>1, Zenon DEF Init, makeSimpleWorkQueue
<1>3. stubs \in [Priorities -> Entries] /\ next \in [Entries -> Entries \cup {null}]
  BY Zenon, <1>1 DEF Entries
<1>4. worker \in Worker
  BY <1>1 DEF Worker, WorkerPCs, Priorities, isProper
<1>5. threads \in [Threads -> Thread]
  <2>1. noThread \in Thread
    BY Zenon DEF noThread, thread, Thread, ThreadPCs
  <2> QED BY Zenon, <1>1, <2>1
<1>6. times \in [Items -> Nat] /\ put \in [Priorities -> Seq(Items)] /\ MaxEnqueues \in Int /\ Heartbeats \in Int
  BY <1>1 DEF isProper
<1>7. WorkQueueTypeOK
  BY <1>2, <1>3, <1>4, <1>5, <1>6 DEF WorkQueueTypeOK, State
<1>8. /\ wq.newest = stubs /\ wq.oldest = stubs /\ wq.next = next /\ wq.myQueue = {} /\ wq.delayedItems = <<>> /\ wq.timer = -1
      /\ wq.lock = -1 /\ wq.worker = worker /\ wq.shouldStop = FALSE /\ wq.freed = FALSE /\ wq.threads = threads /\ wq.put = put
  BY Zenon, <1>2
<1>9. \A t \in Threads : wq.threads[t].pc = "idle" /\ wq.threads[t].item = null /\ ~wq.threads[t].wakes
  BY <1>1, <1>8 DEF noThread, thread
<1>10. wq.worker.pc = "poll" /\ wq.worker.from = "next"
  BY <1>1, <1>8
<1>11. Marked
  <2>1. \A p \in Priorities : DOMAIN wq.put[p] = {}
    BY <1>1, <1>8
  <2>2. DOMAIN wq.delayedItems = {}
    BY <1>8
  <2> QED BY Zenon, <1>8, <2>1, <2>2 DEF Marked
<1>12. ASSUME NEW p \in Priorities PROVE listIsChain(p)
  <2>0. wq.put[p] = <<>>
    BY Zenon, <1>1, <1>8
  <2>1. PICK k \in 0 .. Len(wq.put[p]) + 1 : k = 1
    BY <2>0
  <2>2. PICK c, q, s : c = entries(p, wq.put[p], k) /\ q = wq.put[p] /\ s = stub(p)
    BY Zenon
  <2>3. /\ c \in Seq(Entries) /\ isInjective(c) /\ q \in Seq(Items) /\ Len(q) \in Nat
        /\ Len(c) = (IF k = 0 THEN Len(q) ELSE Len(q) + 1)
        /\ \A j \in 1 .. Len(c) : c[j] = (IF k = 0 \/ j < k THEN q[j] ELSE IF j = k THEN stub(p) ELSE q[j - 1])
    <3>1. isList(p, k, c, q)
      BY Zenon, <1>7, <1>11, <2>2, ListHasItsEntries
    <3> QED BY ONLY <3>1 DEF isList
  <2>4. Len(c) = 1 /\ c[1] = s /\ c # <<>>
    <3>1. Len(q) = 0
      BY Zenon, <2>0, <2>2
    <3>2. Len(c) = 1
      BY <2>1, <2>3, <3>1
    <3>3. c[1] = s
      <4>1. 1 \in 1 .. Len(c) /\ ~(k = 0 \/ 1 < k)
        BY <2>1, <3>2
      <4>2. c[1] = stub(p)
        BY Zenon, <2>1, <2>3, <4>1
      <4> QED BY Zenon, <2>2, <4>2
    <3>4. c # <<>>
      BY Zenon, <3>2, OneIsNotEmpty
    <3> QED BY Zenon, <3>2, <3>3, <3>4
  <2>5. s \in Entries /\ next[s] = null /\ stubs[p] = s
    BY Zenon, <1>1, <2>2 DEF Entries
  <2>6. \A t \in Threads : threads[t].pc # "link"
    BY Zenon, <1>8, <1>9
  <2>7. isChain(p, c, s, s, next, threads)
    BY <2>4, <2>5, <2>6 DEF isChain
  <2>8. isChain(p, entries(p, wq.put[p], k), wq.oldest[p], wq.newest[p], wq.next, wq.threads) /\ k \in 0 .. Len(wq.put[p]) + 1
    BY Zenon, <1>8, <2>1, <2>2, <2>5, <2>7
  <2>9. stubIsKnown(p, k)
    BY Zenon, <1>10 DEF stubIsKnown
  <2> QED BY <2>8, <2>9, Zenon DEF listIsChain
<1>13. Linking
  BY Zenon, <1>9 DEF Linking
<1>14. Timed
  <2>1. Timer \in Threads /\ Timer # -1
    BY DEF Timer, Threads, isProper
  <2> QED BY Zenon, <1>8, <1>9, <2>1 DEF Timed
<1>15. Awakened /\ Finished
  BY Zenon, <1>8, <1>9, <1>10 DEF Awakened, Finished, polling
<1> QED BY Zenon, <1>7, <1>11, <1>12, <1>13, <1>14, <1>15 DEF WorkQueueInv, Chained

(* Each list is a chain of its entries.                                    *)
LEMMA ListIs ==
  ASSUME WorkQueueInv, NEW p \in Priorities
  PROVE  \E k, c, q : /\ isList(p, k, c, q) /\ stubIsKnown(p, k)
                      /\ isChain(p, c, wq.oldest[p], wq.newest[p], wq.next, wq.threads)
<1>1. WorkQueueTypeOK /\ Marked
  BY Zenon DEF WorkQueueInv
<1>2. PICK k \in 0 .. Len(wq.put[p]) + 1 :
        /\ isChain(p, entries(p, wq.put[p], k), wq.oldest[p], wq.newest[p], wq.next, wq.threads)
        /\ stubIsKnown(p, k)
  BY Zenon DEF WorkQueueInv, Chained, listIsChain
<1>3. PICK c, q : c = entries(p, wq.put[p], k) /\ q = wq.put[p]
  BY Zenon
<1>4. isList(p, k, c, q)
  BY Zenon, <1>1, <1>3, ListHasItsEntries
<1>5. stubIsKnown(p, k) /\ isChain(p, c, wq.oldest[p], wq.newest[p], wq.next, wq.threads)
  BY <1>2, <1>3, Zenon
<1> QED BY <1>4, <1>5, Zenon

(* A list is not disturbed by what happens to the others.                  *)
LEMMA ListStays ==
  ASSUME WorkQueueInv, NEW p \in Priorities,
         wq'.put[p] = wq.put[p], wq'.oldest[p] = wq.oldest[p], wq'.newest[p] = wq.newest[p],
         \A e \in Entries : belongs(e, p) => wq'.next[e] = wq.next[e],
         \A t \in Threads : \/ wq'.threads[t] = wq.threads[t]
                            \/ /\ wq.threads[t].pc = "link" => ItemPriority[wq.threads[t].item] # p
                               /\ wq'.threads[t].pc = "link" => ItemPriority[wq'.threads[t].item] # p,
         wq'.worker.pc \in {"putStub", "pollAgain"} /\ wq'.worker.list = p => wq'.worker = wq.worker
  PROVE  listIsChain(p)'
<1>1. PICK k \in 0 .. Len(wq.put[p]) + 1 :
        /\ isChain(p, entries(p, wq.put[p], k), wq.oldest[p], wq.newest[p], wq.next, wq.threads)
        /\ stubIsKnown(p, k)
  BY Zenon DEF WorkQueueInv, Chained, listIsChain
<1>2. PICK c : c = entries(p, wq.put[p], k)
  BY Zenon
<1>3. c \in Seq(Entries) /\ \A j \in 1 .. Len(c) : belongs(c[j], p)
  BY Zenon, <1>2, ListHasItsEntries DEF WorkQueueInv, isList
<1>4. \A j \in 1 .. Len(c) : c[j] \in Entries /\ wq'.next[c[j]] = wq.next[c[j]]
  BY <1>3
<1>5. ASSUME NEW j \in 1 .. Len(c), NEW t \in Threads, wq.threads[t].item = c[j]
      PROVE  ItemPriority[wq.threads[t].item] = p
  <2>1. wq.threads[t].item \in Items \cup {null}
    BY Zenon DEF WorkQueueInv, WorkQueueTypeOK, State, Thread
  <2>2. stub(p) \notin Items /\ stub(p) # null
    BY Zenon, StubIsNoItem DEF WorkQueueInv, WorkQueueTypeOK
  <2> QED BY Zenon, <1>3, <1>5, <2>1, <2>2 DEF belongs
<1>6. isChain(p, c, wq.oldest[p], wq.newest[p], wq'.next, wq'.threads)
  BY <1>1, <1>2, <1>3, <1>4, <1>5, ChainStays
<1>7. stubIsKnown(p, k)'
  BY Zenon, <1>1 DEF stubIsKnown
<1> QED BY Zenon, <1>1, <1>2, <1>6, <1>7 DEF listIsChain

(* The lists stay as they are when no thread starts or ends a put.         *)
LEMMA ListsStay ==
  ASSUME WorkQueueInv, sameLists,
         \A t \in Threads : \/ wq'.threads[t] = wq.threads[t]
                            \/ wq.threads[t].pc # "link" /\ wq'.threads[t].pc # "link",
         wq'.worker.pc \in {"putStub", "pollAgain"} => wq'.worker = wq.worker
  PROVE  Chained'
<1> SUFFICES ASSUME NEW p \in Priorities PROVE listIsChain(p)'
  BY Zenon DEF Chained
<1> QED BY Zenon, ListStays DEF sameLists

(* The items stay where they are.                                          *)
LEMMA ItemsStay ==
  ASSUME WorkQueueInv, wq'.put = wq.put, sameItems
  PROVE  Marked'
  BY DEF WorkQueueInv, Marked, sameItems

(* What a thread's record is after its step.                               *)
LEMMA Moved ==
  ASSUME WorkQueueTypeOK, NEW t \in Threads, NEW th, moves(t, th)
  PROVE  wq'.threads[t] = th /\ \A u \in Threads \ {t} : wq'.threads[u] = wq.threads[u]
  BY Zenon DEF moves, WorkQueueTypeOK, State

(* A thread which has no item links nothing.                               *)
LEMMA ThreadsStay ==
  ASSUME WorkQueueInv, NEW t \in Threads, NEW th, moves(t, th), th.pc # "link", th.item = null
  PROVE  Linking'
<1>1. wq'.threads[t] = th /\ \A u \in Threads \ {t} : wq'.threads[u] = wq.threads[u]
  BY Zenon, Moved DEF WorkQueueInv
<1>2. wq'.threads[t].item = null /\ wq'.threads[t].pc # "link"
  BY Zenon, <1>1
<1>3. ASSUME NEW u \in Threads PROVE wq'.threads[u].pc = "link" <=> wq'.threads[u].item # null
  <2>1. CASE u = t
    BY Zenon, <1>2, <2>1
  <2>2. CASE u # t
    BY Zenon, <1>1, <2>2 DEF WorkQueueInv, Linking
  <2> QED BY Zenon, <2>1, <2>2
<1>4. ASSUME NEW u \in Threads, NEW v \in Threads, wq'.threads[u].item = wq'.threads[v].item, wq'.threads[u].item # null
      PROVE  u = v
  <2>1. u # t /\ v # t
    BY Zenon, <1>2, <1>4
  <2> QED BY <1>1, <1>4, <2>1 DEF WorkQueueInv, Linking
<1> QED BY Zenon, <1>3, <1>4 DEF Linking

(* A thread which has nothing to do with the timer leaves it alone.        *)
LEMMA TimerStays ==
  ASSUME WorkQueueInv, NEW t \in Threads, NEW th, moves(t, th), sameTimer, wq'.delayedItems = wq.delayedItems \/ wq.lock # -1,
         th.pc # "modTimer", wq.threads[t].pc # "modTimer", th.pc = "locked" => t = Timer,
         t = Timer => (wq.threads[t].pc \in {"locked", "link", "checkIdle"} <=> th.pc \in {"locked", "link", "checkIdle"})
  PROVE  Timed'
<1>0. WorkQueueTypeOK /\ Timed /\ wq'.timer = wq.timer /\ wq'.lock = wq.lock
  BY Zenon DEF WorkQueueInv, sameTimer
<1>1. wq'.threads[t] = th /\ \A u \in Threads \ {t} : wq'.threads[u] = wq.threads[u]
  BY Zenon, <1>0, Moved
<1>2. \A u \in Threads : wq'.threads[u].pc = "modTimer" <=> wq.threads[u].pc = "modTimer"
  BY Zenon, <1>1
<1>3. \A u \in Threads \ {Timer} : wq'.threads[u].pc # "locked"
  BY Zenon, <1>0, <1>1 DEF Timed
<1>4. wq'.threads[Timer].pc \in {"locked", "link", "checkIdle"} <=> wq.threads[Timer].pc \in {"locked", "link", "checkIdle"}
  <2>1. Timer \in Threads
    BY <1>0 DEF Timer, Threads, WorkQueueTypeOK, isProper
  <2>2. CASE t = Timer
    BY Zenon, <1>1, <2>2
  <2>3. CASE t # Timer
    BY Zenon, <1>1, <2>1, <2>3
  <2> QED BY Zenon, <2>2, <2>3
<1>5. wq'.lock = Timer <=> wq'.threads[Timer].pc \in {"locked", "link", "checkIdle"}
  BY Zenon, <1>0, <1>4 DEF Timed
<1>6. /\ \A u, v \in Threads : wq'.threads[u].pc = "modTimer" /\ wq'.threads[v].pc = "modTimer" => u = v
      /\ \A u \in Threads : wq'.threads[u].pc = "modTimer" => wq'.timer = -1
  BY Zenon, <1>0, <1>2 DEF Timed
<1>7. (wq'.timer # -1 \/ \E u \in Threads : wq'.threads[u].pc = "modTimer") <=> wq'.lock = -1 /\ wq'.delayedItems # <<>>
  BY Zenon, <1>0, <1>2 DEF Timed
<1> QED BY Zenon, <1>3, <1>5, <1>6, <1>7 DEF Timed

(* What a step of the worker which leaves the lists alone preserves.       *)
LEMMA WorkerSteps ==
  ASSUME WorkQueueInv, sameLists, sameItems, sameTimer, wq'.threads = wq.threads,
         wq'.worker.pc \in {"putStub", "pollAgain"} => wq'.worker = wq.worker
  PROVE  Chained' /\ Marked' /\ Linking' /\ Timed'
<1>1. Chained'
  BY Zenon, ListsStay
<1>2. Marked'
  BY Zenon, ItemsStay DEF sameLists
<1>3. Linking' /\ Timed'
  BY DEF WorkQueueInv, Linking, Timed, sameTimer, sameItems
<1> QED BY Zenon, <1>1, <1>2, <1>3

(* CheckIdle() keeps the invariant: who finds the worker idle wakes it.    *)
LEMMA CheckIdleKeeps ==
  ASSUME WorkQueueInv, NEW t \in Threads, CheckIdle(t)
  PROVE  WorkQueueInv'
<1>0. WorkQueueTypeOK /\ Linking /\ Timed /\ Awakened /\ Finished
  BY Zenon DEF WorkQueueInv
<1>1. PICK th, wakes :
        /\ wakes = (wq.idle \/ wq.threads[t].wakes)
        /\ th = thread(IF t = Timer THEN "locked" ELSE IF wakes THEN "wake" ELSE "idle",
                       wq.threads[t].item, wq.threads[t].previous, wakes, wq.threads[t].time)
  BY Zenon
<1>2. /\ WorkQueueTypeOK' /\ moves(t, th) /\ wq'.idle = FALSE /\ wq'.waiting = wq.waiting
      /\ wq'.worker = wq.worker /\ sameLists /\ sameItems /\ sameTimer /\ sameEnd
  BY Zenon, <1>0, <1>1, CheckIdleDoes
<1>3. th.pc = (IF t = Timer THEN "locked" ELSE IF wakes THEN "wake" ELSE "idle") /\ th.item = wq.threads[t].item /\ th.wakes = wakes
  BY Zenon, <1>1 DEF thread
<1>4. wq.threads[t].pc = "checkIdle" /\ wq.threads[t].item = null
  BY Zenon, <1>0 DEF CheckIdle, Linking
<1>5. wq'.threads[t] = th /\ \A u \in Threads \ {t} : wq'.threads[u] = wq.threads[u]
  BY Zenon, <1>0, <1>2, Moved
<1>6. Chained'
  BY Zenon, <1>2, <1>3, <1>4, <1>5, ListsStay
<1>7. Marked'
  BY Zenon, <1>2, ItemsStay DEF sameLists
<1>8. Linking'
  BY Zenon, <1>2, <1>3, <1>4, ThreadsStay
<1>9. Timed'
  <2>1. /\ th.pc # "modTimer" /\ wq.threads[t].pc # "modTimer" /\ (th.pc = "locked" => t = Timer)
        /\ t = Timer => (wq.threads[t].pc \in {"locked", "link", "checkIdle"} <=> th.pc \in {"locked", "link", "checkIdle"})
    BY Zenon, <1>3, <1>4
  <2> QED BY Zenon, <1>2, <2>1, TimerStays DEF sameItems
<1>10. Awakened'
  <2>1. wq'.worker.pc \in {"checkStop", "sleep"} => wq'.worker.from = "waiting"
    BY Zenon, <1>0, <1>2 DEF Awakened
  <2>2. ASSUME NEW u \in Threads, wq'.threads[u].wakes PROVE wq'.threads[u].pc # "idle"
    <3>1. CASE u = t
      BY Zenon, <1>3, <1>5, <2>2, <3>1
    <3>2. CASE u # t
      BY Zenon, <1>0, <1>5, <2>2, <3>2 DEF Awakened
    <3> QED BY Zenon, <3>1, <3>2
  <2>3. ASSUME wq'.worker.from = "waiting", polling' \/ wq'.worker.pc \in {"checkStop", "sleep"}, wq'.waiting
        PROVE  \E u \in Threads : wq'.threads[u].wakes
    <3>1. CASE wq.idle
      BY Zenon, <1>1, <1>3, <1>5, <3>1
    <3>2. CASE ~wq.idle
      <4>1. PICK u \in Threads : wq.threads[u].wakes
        BY Zenon, <1>0, <1>2, <2>3, <3>2 DEF Awakened, polling
      <4> QED BY Zenon, <1>1, <1>3, <1>5, <4>1
    <3> QED BY Zenon, <3>1, <3>2
  <2> QED BY Zenon, <1>2, <2>1, <2>2, <2>3 DEF Awakened
<1>11. Finished'
  BY Zenon, <1>0, <1>2, <1>3, <1>5 DEF Finished, polling, seen, sameItems, sameLists, sameTimer, sameEnd
<1> QED BY Zenon, <1>2, <1>6, <1>7, <1>8, <1>9, <1>10, <1>11 DEF WorkQueueInv

(* A thread which still wakes the worker if it is to, and still looks      *)
(* whether the worker is idle if it has put an item, leaves it alone.      *)
LEMMA SleepStays ==
  ASSUME WorkQueueInv, NEW t \in Threads, NEW th, moves(t, th), th.wakes = wq.threads[t].wakes, th.wakes => th.pc # "idle",
         wq'.worker = wq.worker, sameSleep,
         wq'.put = wq.put \/ th.pc = "link",
         wq.threads[t].pc \in {"link", "checkIdle"} => th.pc \in {"link", "checkIdle"}
  PROVE  Awakened'
<1>0. WorkQueueTypeOK /\ Awakened /\ wq'.idle = wq.idle /\ wq'.waiting = wq.waiting
  BY Zenon DEF WorkQueueInv, sameSleep
<1>1. wq'.threads[t] = th /\ \A u \in Threads \ {t} : wq'.threads[u] = wq.threads[u]
  BY Zenon, <1>0, Moved
<1>2. \A u \in Threads : wq'.threads[u].wakes = wq.threads[u].wakes /\ (wq'.threads[u].wakes => wq'.threads[u].pc # "idle")
  BY Zenon, <1>0, <1>1 DEF Awakened
<1>3. ASSUME wq'.worker.from = "waiting", polling' \/ wq'.worker.pc \in {"checkStop", "sleep"}, wq'.waiting
      PROVE  IF wq'.idle THEN \A p \in Priorities : seen(p)' /\ wq'.put[p] # <<>> =>
                                \E u \in Threads : wq'.threads[u].pc \in {"link", "checkIdle"}
             ELSE \E u \in Threads : wq'.threads[u].wakes
  <2>1. wq.worker.from = "waiting" /\ (polling \/ wq.worker.pc \in {"checkStop", "sleep"}) /\ wq.waiting
    BY Zenon, <1>0, <1>3 DEF polling
  <2>2. CASE ~wq.idle
    BY Zenon, <1>0, <1>2, <2>1, <2>2 DEF Awakened
  <2>3. CASE wq.idle
    <3>1. ASSUME NEW p \in Priorities, seen(p)', wq'.put[p] # <<>>
          PROVE  \E u \in Threads : wq'.threads[u].pc \in {"link", "checkIdle"}
      <4>1. CASE th.pc = "link"
        BY Zenon, <1>1, <4>1
      <4>2. CASE wq'.put = wq.put
        <5>1. seen(p) /\ wq.put[p] # <<>>
          BY Zenon, <3>1, <4>2 DEF seen, polling
        <5>2. PICK u \in Threads : wq.threads[u].pc \in {"link", "checkIdle"}
          BY Zenon, <1>0, <2>1, <2>3, <5>1 DEF Awakened
        <5> QED BY Zenon, <1>1, <5>2
      <4> QED BY Zenon, <4>1, <4>2
    <3> QED BY Zenon, <1>0, <2>3, <3>1
  <2> QED BY Zenon, <2>2, <2>3
<1>4. wq'.worker.pc \in {"checkStop", "sleep"} => wq'.worker.from = "waiting"
  BY Zenon, <1>0 DEF Awakened
<1> QED BY Zenon, <1>2, <1>3, <1>4 DEF Awakened

(* The worker's last poll, and its exit.                                   *)
last == wq.worker.pc = "exited" \/ (wq.worker.from = "stopping" /\ polling)

(* A thread which puts nothing when it must not, and does nothing to the   *)
(* items in the worker's last poll, does not disturb the end.              *)
LEMMA EndStays ==
  ASSUME WorkQueueInv, NEW t \in Threads, NEW th, moves(t, th), wq'.worker = wq.worker, sameEnd,
         th.pc = "link" => t = Timer \/ ~wq.shouldStop,
         last => wq'.delayedItems = wq.delayedItems /\ wq'.lock = wq.lock /\ wq'.put = wq.put
  PROVE  Finished'
<1>0. WorkQueueTypeOK /\ Finished /\ wq'.shouldStop = wq.shouldStop /\ wq'.freed = wq.freed
  BY Zenon DEF WorkQueueInv, sameEnd
<1>1. wq'.threads[t] = th /\ \A u \in Threads \ {t} : wq'.threads[u] = wq.threads[u]
  BY Zenon, <1>0, Moved
<1>2. wq'.shouldStop => \A u \in Threads \ {Timer} : wq'.threads[u].pc # "link"
  BY Zenon, <1>0, <1>1 DEF Finished
<1>3. ASSUME wq'.worker.pc = "exited" \/ (wq'.worker.from = "stopping" /\ polling')
      PROVE  /\ wq'.shouldStop /\ wq'.delayedItems = <<>> /\ wq'.lock = -1
             /\ \A p \in Priorities : seen(p)' => wq'.put[p] = <<>>
  <2>1. last
    BY Zenon, <1>3 DEF last, polling
  <2>2. /\ wq.shouldStop /\ wq.delayedItems = <<>> /\ wq.lock = -1
        /\ \A p \in Priorities : seen(p) => wq.put[p] = <<>>
    BY Zenon, <1>0, <2>1 DEF last, Finished
  <2> QED BY Zenon, <1>0, <2>1, <2>2 DEF seen, polling
<1>4. wq'.freed => wq'.worker.pc = "exited"
  BY Zenon, <1>0 DEF Finished
<1> QED BY Zenon, <1>2, <1>3, <1>4 DEF Finished

(* A thread other than the worker finds the queue not freed, if it is to   *)
(* put an item or to set the timer.                                        *)
LEMMA NotFreed ==
  ASSUME WorkQueueInv, ~wq.shouldStop \/ wq.delayedItems # <<>> \/ wq.lock # -1 \/ wq.worker.pc # "exited"
  PROVE  ~wq.freed
  BY Zenon DEF WorkQueueInv, Finished

(* ModTimer() keeps the invariant: the timer is set for the items which    *)
(* are delayed.                                                            *)
LEMMA ModTimerKeeps ==
  ASSUME WorkQueueInv, NEW t \in Threads, ModTimer(t)
  PROVE  WorkQueueInv'
<1>0. WorkQueueTypeOK /\ Linking /\ Timed /\ Awakened
  BY Zenon DEF WorkQueueInv
<1>1. PICK th : th = thread(IF wq.threads[t].wakes THEN "wake" ELSE "idle",
                            wq.threads[t].item, wq.threads[t].previous, wq.threads[t].wakes, 0)
  BY Zenon
<1>2. wq.threads[t].pc = "modTimer" /\ wq.threads[t].item = null /\ wq.lock = -1 /\ wq.delayedItems # <<>>
  BY Zenon, <1>0 DEF ModTimer, Linking, Timed
<1>3. ~wq.freed
  BY Zenon, <1>2, NotFreed
<1>4. /\ WorkQueueTypeOK' /\ moves(t, th) /\ wq'.timer # -1 /\ wq'.lock = wq.lock
      /\ wq'.worker = wq.worker /\ sameLists /\ sameItems /\ sameSleep /\ sameEnd
  BY Zenon, <1>0, <1>1, <1>3, ModTimerDoes
<1>5. th.pc = (IF wq.threads[t].wakes THEN "wake" ELSE "idle") /\ th.item = null /\ th.wakes = wq.threads[t].wakes
  BY Zenon, <1>1, <1>2 DEF thread
<1>6. wq'.threads[t] = th /\ \A u \in Threads \ {t} : wq'.threads[u] = wq.threads[u]
  BY Zenon, <1>0, <1>4, Moved
<1>7. Chained'
  BY Zenon, <1>2, <1>4, <1>5, <1>6, ListsStay
<1>8. Marked'
  BY Zenon, <1>4, ItemsStay DEF sameLists
<1>9. Linking'
  BY Zenon, <1>4, <1>5, ThreadsStay
<1>10. Timed'
  <2>1. \A u \in Threads : wq'.threads[u].pc # "modTimer"
    BY Zenon, <1>0, <1>2, <1>5, <1>6 DEF Timed
  <2>2. wq'.lock = Timer <=> wq'.threads[Timer].pc \in {"locked", "link", "checkIdle"}
    <3>1. Timer \in Threads
      BY <1>0 DEF Timer, Threads, WorkQueueTypeOK, isProper
    <3>2. CASE t = Timer
      BY Zenon, <1>0, <1>2, <1>4, <1>5, <1>6, <3>2 DEF Timed
    <3>3. CASE t # Timer
      BY Zenon, <1>0, <1>4, <1>6, <3>1, <3>3 DEF Timed
    <3> QED BY Zenon, <3>2, <3>3
  <2>3. \A u \in Threads \ {Timer} : wq'.threads[u].pc # "locked"
    BY Zenon, <1>0, <1>5, <1>6 DEF Timed
  <2> QED BY Zenon, <1>2, <1>4, <2>1, <2>2, <2>3 DEF Timed, sameItems
<1>11. Awakened'
  BY Zenon, <1>2, <1>4, <1>5, SleepStays DEF sameLists
<1>12. Finished'
  BY Zenon, <1>4, <1>5, EndStays DEF sameLists, sameItems
<1> QED BY Zenon, <1>4, <1>7, <1>8, <1>9, <1>10, <1>11, <1>12 DEF WorkQueueInv

(* WakeWorker() keeps the invariant: the worker no longer sleeps.          *)
LEMMA WakeWorkerKeeps ==
  ASSUME WorkQueueInv, NEW t \in Threads, WakeWorker(t)
  PROVE  WorkQueueInv'
<1>0. WorkQueueTypeOK /\ Awakened
  BY Zenon DEF WorkQueueInv
<1>1. /\ WorkQueueTypeOK' /\ moves(t, noThread) /\ wq'.waiting = FALSE
      /\ wq'.worker = wq.worker /\ sameLists /\ sameItems /\ sameTimer /\ sameEnd
  BY Zenon, <1>0, WakeWorkerDoes
<1>2. wq.threads[t].pc = "wake"
  BY Zenon DEF WakeWorker
<1>3. noThread.pc = "idle" /\ noThread.item = null /\ noThread.wakes = FALSE
  BY Zenon DEF noThread, thread
<1>4. wq'.threads[t] = noThread /\ \A u \in Threads \ {t} : wq'.threads[u] = wq.threads[u]
  BY Zenon, <1>0, <1>1, Moved
<1>5. Chained'
  BY Zenon, <1>1, <1>2, <1>3, <1>4, ListsStay
<1>6. Marked'
  BY Zenon, <1>1, ItemsStay DEF sameLists
<1>7. Linking'
  BY Zenon, <1>1, <1>3, ThreadsStay
<1>8. Timed'
  BY Zenon, <1>1, <1>2, <1>3, TimerStays DEF sameItems
<1>9. Awakened'
  BY Zenon, <1>0, <1>1, <1>3, <1>4 DEF Awakened
<1>10. Finished'
  BY Zenon, <1>1, <1>3, EndStays DEF sameLists, sameItems, sameTimer
<1> QED BY Zenon, <1>1, <1>5, <1>6, <1>7, <1>8, <1>9, <1>10 DEF WorkQueueInv

(* processDelayedWorkItems() keeps the invariant: the handler has the lock *)
(* while the timer is not set.                                             *)
LEMMA ProcessDelayedKeeps ==
  ASSUME WorkQueueInv, processDelayedWorkItems
  PROVE  WorkQueueInv'
<1>0. WorkQueueTypeOK /\ Linking /\ Timed /\ Awakened /\ Finished /\ Timer \in Threads
  BY DEF WorkQueueInv, Timer, Threads, WorkQueueTypeOK, isProper
<1>1. PICK th : th = thread("locked", wq.threads[Timer].item, wq.threads[Timer].previous, wq.threads[Timer].wakes, wq.threads[Timer].time)
  BY Zenon
<1>2. wq.threads[Timer].pc = "idle" /\ wq.threads[Timer].item = null /\ wq.timer # -1 /\ wq.lock = -1 /\ wq.delayedItems # <<>>
  BY Zenon, <1>0 DEF processDelayedWorkItems, Linking, Timed
<1>3. ~wq.freed /\ ~last
  BY Zenon, <1>0, <1>2 DEF Finished, last
<1>4. /\ WorkQueueTypeOK' /\ moves(Timer, th) /\ wq'.timer = -1 /\ wq'.lock = Timer
      /\ wq'.worker = wq.worker /\ sameLists /\ sameItems /\ sameSleep /\ sameEnd
  BY Zenon, <1>0, <1>1, <1>3, ProcessDelayedDoes
<1>5. th.pc = "locked" /\ th.item = null /\ th.wakes = wq.threads[Timer].wakes
  BY Zenon, <1>1, <1>2 DEF thread
<1>6. wq'.threads[Timer] = th /\ \A u \in Threads \ {Timer} : wq'.threads[u] = wq.threads[u]
  BY Zenon, <1>0, <1>4, Moved
<1>7. Chained'
  BY Zenon, <1>2, <1>4, <1>5, <1>6, ListsStay
<1>8. Marked'
  BY Zenon, <1>4, ItemsStay DEF sameLists
<1>9. Linking'
  BY Zenon, <1>0, <1>4, <1>5, ThreadsStay
<1>10. Timed'
  <2>1. \A u \in Threads : wq'.threads[u].pc # "modTimer"
    BY Zenon, <1>0, <1>2, <1>5, <1>6 DEF Timed
  <2>2. wq'.lock # -1
    BY <1>0, <1>4 DEF WorkQueueTypeOK, isProper, Timer
  <2> QED BY Zenon, <1>0, <1>4, <1>5, <1>6, <2>1, <2>2 DEF Timed
<1>11. Awakened'
  BY Zenon, <1>0, <1>2, <1>4, <1>5, SleepStays DEF sameLists
<1>12. Finished'
  BY Zenon, <1>0, <1>3, <1>4, <1>5, EndStays
<1> QED BY Zenon, <1>4, <1>7, <1>8, <1>9, <1>10, <1>11, <1>12 DEF WorkQueueInv

(* The end of the handler keeps the invariant: it is to set the timer if   *)
(* items are left.                                                         *)
LEMMA ContinueDelayedEndKeeps ==
  ASSUME WorkQueueInv, ContinueDelayed,
         ~(wq.delayedItems # <<>> /\ wq.executionTime[Head(wq.delayedItems)] <= wq.jiffies)
  PROVE  WorkQueueInv'
<1>0. WorkQueueTypeOK /\ Linking /\ Timed /\ Awakened /\ Finished /\ Timer \in Threads
  BY DEF WorkQueueInv, Timer, Threads, WorkQueueTypeOK, isProper
<1>1. PICK time \in Nat :
        moves(Timer, thread(IF wq.delayedItems # <<>> THEN "modTimer" ELSE IF wq.threads[Timer].wakes THEN "wake" ELSE "idle",
                            wq.threads[Timer].item, wq.threads[Timer].previous, wq.threads[Timer].wakes, time))
  BY Zenon, <1>0, ContinueDelayedEnds
<1>2. PICK th : th = thread(IF wq.delayedItems # <<>> THEN "modTimer" ELSE IF wq.threads[Timer].wakes THEN "wake" ELSE "idle",
                            wq.threads[Timer].item, wq.threads[Timer].previous, wq.threads[Timer].wakes, time)
  BY Zenon
<1>3. /\ WorkQueueTypeOK' /\ moves(Timer, th) /\ wq'.timer = wq.timer /\ wq'.lock = -1
      /\ wq'.worker = wq.worker /\ sameLists /\ sameItems /\ sameSleep /\ sameEnd
  BY Zenon, <1>0, <1>1, <1>2, ContinueDelayedEnds
<1>4. wq.threads[Timer].pc = "locked" /\ wq.threads[Timer].item = null /\ wq.lock = Timer /\ Timer # -1
  BY <1>0 DEF ContinueDelayed, Linking, Timed, Timer, WorkQueueTypeOK, isProper
<1>5. wq.timer = -1 /\ \A u \in Threads : wq.threads[u].pc # "modTimer"
  BY Zenon, <1>0, <1>4 DEF Timed
<1>6. ~last
  BY Zenon, <1>0, <1>4 DEF Finished, last
<1>7. /\ th.pc = (IF wq.delayedItems # <<>> THEN "modTimer" ELSE IF wq.threads[Timer].wakes THEN "wake" ELSE "idle")
      /\ th.item = null /\ th.wakes = wq.threads[Timer].wakes
  BY Zenon, <1>2, <1>4 DEF thread
<1>8. wq'.threads[Timer] = th /\ \A u \in Threads \ {Timer} : wq'.threads[u] = wq.threads[u]
  BY Zenon, <1>0, <1>3, Moved
<1>9. Chained'
  BY Zenon, <1>3, <1>4, <1>7, <1>8, ListsStay
<1>10. Marked'
  BY Zenon, <1>3, ItemsStay DEF sameLists
<1>11. Linking'
  BY Zenon, <1>0, <1>3, <1>7, ThreadsStay
<1>12. Timed'
  <2>1. \A u \in Threads : wq'.threads[u].pc = "modTimer" => u = Timer
    BY Zenon, <1>5, <1>8
  <2>2. wq'.threads[Timer].pc = "modTimer" <=> wq.delayedItems # <<>>
    BY Zenon, <1>7, <1>8
  <2>3. wq'.threads[Timer].pc \notin {"locked", "link", "checkIdle"}
    BY Zenon, <1>7, <1>8
  <2>4. \A u \in Threads \ {Timer} : wq'.threads[u].pc # "locked"
    BY Zenon, <1>0, <1>8 DEF Timed
  <2> QED BY Zenon, <1>0, <1>3, <1>4, <1>5, <2>1, <2>2, <2>3, <2>4 DEF Timed, sameItems
<1>13. Awakened'
  BY Zenon, <1>0, <1>3, <1>4, <1>7, SleepStays DEF sameLists
<1>14. Finished'
  BY Zenon, <1>0, <1>3, <1>6, <1>7, EndStays
<1> QED BY Zenon, <1>3, <1>9, <1>10, <1>11, <1>12, <1>13, <1>14 DEF WorkQueueInv

(* enqueueWorkQueueDelayed() keeps the invariant: who delays the only item *)
(* is to set the timer.                                                    *)
LEMMA DelayKeeps ==
  ASSUME WorkQueueInv, NEW t \in Threads, enqueueWorkQueueDelayed(t)
  PROVE  WorkQueueInv'
<1>0. WorkQueueTypeOK /\ Marked /\ Linking /\ Timed /\ Awakened /\ Finished /\ Timer \in Threads
  BY DEF WorkQueueInv, Timer, Threads, WorkQueueTypeOK, isProper
<1>1. wq.threads[t].pc = "idle" /\ t # Timer /\ (IF t = 0 THEN wq.worker.pc = "work" ELSE ~wq.shouldStop) /\ wq.lock = -1
  BY Zenon DEF enqueueWorkQueueDelayed, mayEnqueue
<1>2. ~wq.freed /\ ~last
  BY Zenon, <1>0, <1>1 DEF Finished, last, polling
<1>3. PICK item \in Items \ wq.myQueue : wq'.myQueue = wq.myQueue \cup {item} /\ wq'.delayedItems = Append(wq.delayedItems, item)
  BY Zenon, <1>0, <1>2, DelayDoes
<1>4. PICK time \in Nat :
        moves(t, IF wq.delayedItems = <<>>
                 THEN thread("modTimer", wq.threads[t].item, wq.threads[t].previous, wq.threads[t].wakes, time)
                 ELSE wq.threads[t])
  BY Zenon, <1>0, <1>2, DelayDoes
<1>5. WorkQueueTypeOK' /\ wq'.worker = wq.worker /\ sameLists /\ sameTimer /\ sameSleep /\ sameEnd
  BY Zenon, <1>0, <1>2, DelayDoes
<1>6. PICK th : th = IF wq.delayedItems = <<>>
                     THEN thread("modTimer", wq.threads[t].item, wq.threads[t].previous, wq.threads[t].wakes, time)
                     ELSE wq.threads[t]
  BY Zenon
<1>7. moves(t, th)
  BY <1>4, <1>6, Zenon
<1>8. wq.threads[t].item = null /\ ~wq.threads[t].wakes
  BY Zenon, <1>0, <1>1 DEF Linking, Awakened
<1>9. th.pc = (IF wq.delayedItems = <<>> THEN "modTimer" ELSE "idle") /\ th.item = null /\ th.wakes = wq.threads[t].wakes
  <2>1. CASE wq.delayedItems = <<>>
    BY Zenon, <1>6, <1>8, <2>1 DEF thread
  <2>2. CASE wq.delayedItems # <<>>
    BY Zenon, <1>1, <1>6, <1>8, <2>2
  <2> QED BY Zenon, <2>1, <2>2
<1>10. wq'.threads[t] = th /\ \A u \in Threads \ {t} : wq'.threads[u] = wq.threads[u]
  BY Zenon, <1>0, <1>7, Moved
<1>11. Chained'
  BY Zenon, <1>1, <1>5, <1>9, <1>10, ListsStay
<1>12. Marked'
  <2>1. PICK d, e : d = wq.delayedItems /\ e = wq'.delayedItems
    BY Zenon
  <2>2. d \in Seq(Items) /\ e = Append(d, item)
    BY Zenon, <1>0, <1>3, <2>1 DEF WorkQueueTypeOK, State
  <2>3. /\ DOMAIN e = 1 .. Len(d) + 1 /\ DOMAIN d = 1 .. Len(d) /\ Len(d) \in Nat
        /\ e[Len(d) + 1] = item /\ \A j \in DOMAIN d : e[j] = d[j]
    BY <2>2
  <2>4. \A j \in DOMAIN d : d[j] # item
    BY <1>0, <2>1 DEF Marked
  <2>5. /\ \A j \in DOMAIN e : e[j] \in wq'.myQueue
        /\ \A i, j \in DOMAIN e : e[i] = e[j] => i = j
    <3>1. \A j \in DOMAIN e : \/ j = Len(d) + 1 /\ e[j] = item
                              \/ j \in DOMAIN d /\ e[j] = d[j]
      BY <2>3
    <3>2. /\ \A j \in DOMAIN d : d[j] \in wq.myQueue
          /\ \A i, j \in DOMAIN d : d[i] = d[j] => i = j
      BY Zenon, <1>0, <2>1 DEF Marked
    <3>3. \A j \in DOMAIN e : e[j] \in wq'.myQueue
      BY Zenon, <1>3, <3>1, <3>2
    <3>4. \A i, j \in DOMAIN e : e[i] = e[j] => i = j
      BY Zenon, <2>4, <3>1, <3>2
    <3> QED BY Zenon, <3>3, <3>4
  <2>6. ASSUME NEW p \in Priorities
        PROVE  /\ \A j \in DOMAIN wq'.put[p] : wq'.put[p][j] \in wq'.myQueue /\ ItemPriority[wq'.put[p][j]] = p
               /\ \A i, j \in DOMAIN wq'.put[p] : wq'.put[p][i] = wq'.put[p][j] => i = j
               /\ \A i \in DOMAIN wq'.put[p], j \in DOMAIN e : wq'.put[p][i] # e[j]
    <3>1. wq'.put = wq.put
      BY Zenon, <1>5 DEF sameLists
    <3>2. \A i \in DOMAIN wq.put[p] : wq.put[p][i] # item /\ wq.put[p][i] \in wq'.myQueue
      BY <1>0, <1>3 DEF Marked
    <3>3. \A i \in DOMAIN wq.put[p], j \in DOMAIN e : wq.put[p][i] # e[j]
      BY <1>0, <2>1, <2>3, <3>2 DEF Marked
    <3> QED BY <1>0, <3>1, <3>2, <3>3 DEF Marked
  <2>7. ASSUME NEW i \in wq'.myQueue
        PROVE  \/ \E j \in DOMAIN e : e[j] = i
               \/ \E j \in DOMAIN wq'.put[ItemPriority[i]] : wq'.put[ItemPriority[i]][j] = i
    <3>1. CASE i = item
      BY <2>3, <3>1
    <3>2. CASE i # item
      <4>1. i \in wq.myQueue
        BY Zenon, <1>3, <3>2
      <4>2. CASE \E j \in DOMAIN d : d[j] = i
        BY <2>3, <4>2
      <4>3. CASE \E j \in DOMAIN wq.put[ItemPriority[i]] : wq.put[ItemPriority[i]][j] = i
        BY Zenon, <1>5, <4>3 DEF sameLists
      <4> QED BY Zenon, <1>0, <2>1, <4>1, <4>2, <4>3 DEF Marked
    <3> QED BY Zenon, <3>1, <3>2
  <2> QED BY <2>1, <2>5, <2>6, <2>7 DEF Marked
<1>13. Linking'
  BY Zenon, <1>7, <1>9, ThreadsStay
<1>14. Timed'
  <2>1. wq'.timer = wq.timer /\ wq'.lock = -1
    BY Zenon, <1>1, <1>5 DEF sameTimer
  <2>2. wq'.delayedItems # <<>>
    <3>1. wq.delayedItems \in Seq(Items)
      BY Zenon, <1>0 DEF WorkQueueTypeOK, State
    <3> QED BY <1>3, <3>1
  <2>3. wq'.threads[Timer] = wq.threads[Timer]
    BY Zenon, <1>0, <1>1, <1>10
  <2>4. wq'.lock = Timer <=> wq'.threads[Timer].pc \in {"locked", "link", "checkIdle"}
    BY Zenon, <1>0, <1>1, <2>1, <2>3 DEF Timed
  <2>5. \A u \in Threads \ {Timer} : wq'.threads[u].pc # "locked"
    BY Zenon, <1>0, <1>9, <1>10 DEF Timed
  <2>6. CASE wq.delayedItems = <<>>
    <3>1. wq.timer = -1 /\ \A u \in Threads : wq.threads[u].pc # "modTimer"
      BY Zenon, <1>0, <2>6 DEF Timed
    <3>2. wq'.threads[t].pc = "modTimer" /\ \A u \in Threads : wq'.threads[u].pc = "modTimer" => u = t
      BY Zenon, <1>9, <1>10, <2>6, <3>1
    <3> QED BY Zenon, <2>1, <2>2, <2>4, <2>5, <3>1, <3>2 DEF Timed
  <2>7. CASE wq.delayedItems # <<>>
    <3>1. \A u \in Threads : wq'.threads[u].pc = "modTimer" <=> wq.threads[u].pc = "modTimer"
      BY Zenon, <1>1, <1>9, <1>10, <2>7
    <3>2. wq.timer # -1 \/ \E u \in Threads : wq.threads[u].pc = "modTimer"
      BY Zenon, <1>0, <1>1, <2>7 DEF Timed
    <3>3. /\ \A u, v \in Threads : wq'.threads[u].pc = "modTimer" /\ wq'.threads[v].pc = "modTimer" => u = v
          /\ \A u \in Threads : wq'.threads[u].pc = "modTimer" => wq'.timer = -1
      BY Zenon, <1>0, <2>1, <3>1 DEF Timed
    <3> QED BY Zenon, <2>1, <2>2, <2>4, <2>5, <3>1, <3>2, <3>3 DEF Timed
  <2> QED BY Zenon, <2>6, <2>7
<1>15. Awakened'
  BY Zenon, <1>1, <1>5, <1>7, <1>8, <1>9, SleepStays DEF sameLists
<1>16. Finished'
  BY Zenon, <1>2, <1>5, <1>7, <1>9, EndStays
<1> QED BY Zenon, <1>5, <1>11, <1>12, <1>13, <1>14, <1>15, <1>16 DEF WorkQueueInv

(* A thread which is to link its item finds it in the list, behind the     *)
(* entry to which it is to be linked.                                      *)
LEMMA LinksInItsList ==
  ASSUME WorkQueueInv, NEW t \in Threads, wq.threads[t].pc = "link", NEW p, p = ItemPriority[wq.threads[t].item]
  PROVE  /\ wq.threads[t].item \in Items /\ p \in Priorities
         /\ wq.threads[t].previous \in Entries /\ belongs(wq.threads[t].previous, p)
         /\ \E i \in DOMAIN wq.put[p] : wq.put[p][i] = wq.threads[t].item
<1>1. wq.threads[t].item \in Items
  BY DEF WorkQueueInv, WorkQueueTypeOK, State, Thread, Linking
<1>2. p \in Priorities
  BY Zenon, <1>1 DEF WorkQueueInv, WorkQueueTypeOK, isProper
<1>3. PICK k, c, q : isList(p, k, c, q) /\ isChain(p, c, wq.oldest[p], wq.newest[p], wq.next, wq.threads)
  BY <1>2, ListIs, Zenon
<1>4. q = wq.put[p]
  BY Zenon, <1>3 DEF isList
<1>5. /\ c \in Seq(Entries) /\ q \in Seq(Items) /\ Len(q) \in Nat /\ k \in 0 .. Len(q) + 1
      /\ Len(c) = (IF k = 0 THEN Len(q) ELSE Len(q) + 1)
      /\ \A j \in 1 .. Len(c) : c[j] = (IF k = 0 \/ j < k THEN q[j] ELSE IF j = k THEN stub(p) ELSE q[j - 1])
      /\ \A j \in 1 .. Len(c) : belongs(c[j], p)
  BY <1>3, Zenon DEF isList
<1>6. PICK threads, next, oldest, newest :
        threads = wq.threads /\ next = wq.next /\ oldest = wq.oldest[p] /\ newest = wq.newest[p]
  BY Zenon
<1>7. isChain(p, c, oldest, newest, next, threads) /\ threads[t].pc = "link" /\ ItemPriority[threads[t].item] = p
  BY Zenon, <1>3, <1>6
<1>8. PICK j \in 1 .. Len(c) - 1 : threads[t].previous = c[j] /\ threads[t].item = c[j + 1]
  BY Zenon, <1>7 DEF isChain, links
<1>9. PICK m : m = j + 1
  BY Zenon
<1>10. j \in 1 .. Len(c) /\ m \in 1 .. Len(c) /\ m > 1 /\ m - 1 = j
  BY Zenon, <1>5, <1>9, TwoInARow
<1>11. c[m] # stub(p)
  BY Zenon, <1>1, <1>2, <1>6, <1>8, <1>9, StubIsNoItem DEF WorkQueueInv, WorkQueueTypeOK
<1>12. c[m] = (IF k = 0 \/ m < k THEN q[m] ELSE IF m = k THEN stub(p) ELSE q[m - 1])
  BY Zenon, <1>5, <1>10
<1>13. PICK n : n = Len(q) /\ n \in Nat /\ Len(c) = (IF k = 0 THEN n ELSE n + 1) /\ k \in 0 .. n + 1
  BY Zenon, <1>5
<1>14. \E i \in DOMAIN q : q[i] = c[m]
  <2>0. DOMAIN q = 1 .. n
    BY <1>5, <1>13
  <2>1. CASE k = 0 \/ m < k
    <3>1. m \in 1 .. n
      BY <1>10, <1>13, <2>1
    <3>2. c[m] = q[m]
      BY Zenon, <1>12, <2>1
    <3> QED BY Zenon, <2>0, <3>1, <3>2
  <2>2. CASE k # 0 /\ ~(m < k)
    <3>1. m - 1 \in 1 .. n
      BY <1>10, <1>13, <2>2
    <3>2. c[m] = q[m - 1]
      BY Zenon, <1>11, <1>12, <2>2
    <3> QED BY Zenon, <2>0, <3>1, <3>2
  <2> QED BY Zenon, <2>1, <2>2
<1>15. wq.threads[t].previous = c[j] /\ c[j] \in Entries /\ belongs(c[j], p) /\ wq.threads[t].item = c[m]
  BY <1>5, <1>6, <1>8, <1>9, <1>10
<1> QED BY <1>1, <1>2, <1>4, <1>14, <1>15, Zenon

(* Link() keeps the invariant: it closes its gap.                          *)
LEMMA LinkKeeps ==
  ASSUME WorkQueueInv, NEW t \in Threads, Link(t)
  PROVE  WorkQueueInv'
<1>0. WorkQueueTypeOK /\ Chained /\ Marked /\ Linking /\ isProper
  BY Zenon DEF WorkQueueInv, WorkQueueTypeOK
<1>1. PICK p, item, previous : p = ItemPriority[wq.threads[t].item] /\ item = wq.threads[t].item /\ previous = wq.threads[t].previous
  BY Zenon
<1>2. wq.threads[t].pc = "link" /\ item \in Items /\ item # null /\ p \in Priorities /\ previous \in Entries /\ belongs(previous, p)
  BY Zenon, <1>0, <1>1, LinksInItsList DEF Link, Linking
<1>3. PICK th : th = thread("checkIdle", null, null, wq.threads[t].wakes, wq.threads[t].time)
  BY Zenon
<1>4. /\ WorkQueueTypeOK' /\ moves(t, th)
      /\ wq'.newest = wq.newest /\ wq'.oldest = wq.oldest /\ wq'.put = wq.put
      /\ wq'.next = [wq.next EXCEPT ![previous] = item]
      /\ wq'.worker = wq.worker /\ sameItems /\ sameTimer /\ sameSleep /\ sameEnd
  BY Zenon, <1>0, <1>1, <1>2, <1>3, LinkDoes
<1>5. th.pc = "checkIdle" /\ th.item = null /\ th.wakes = wq.threads[t].wakes
  BY Zenon, <1>3 DEF thread
<1>6. wq'.threads[t] = th /\ \A u \in Threads \ {t} : wq'.threads[u] = wq.threads[u]
  BY Zenon, <1>0, <1>4, Moved
<1>7. wq'.next[previous] = item /\ \A e \in Entries \ {previous} : wq'.next[e] = wq.next[e]
  BY <1>0, <1>2, <1>4 DEF WorkQueueTypeOK, State
<1>8. listIsChain(p)'
  <2>1. PICK k \in 0 .. Len(wq.put[p]) + 1 :
          /\ isChain(p, entries(p, wq.put[p], k), wq.oldest[p], wq.newest[p], wq.next, wq.threads)
          /\ stubIsKnown(p, k)
    BY <1>0, <1>2, Zenon DEF Chained, listIsChain
  <2>2. PICK c : c = entries(p, wq.put[p], k)
    BY Zenon
  <2>3. c \in Seq(Entries) /\ isInjective(c)
    BY Zenon, <1>0, <1>2, <2>2, ListHasItsEntries DEF isList
  <2>4. \A j \in 1 .. Len(c) : c[j] # previous => wq'.next[c[j]] = wq.next[c[j]]
    BY <1>7, <2>3
  <2>5. \A u \in Threads : wq.threads[u].pc = "link" /\ wq.threads[u].item = wq.threads[t].item => u = t
    BY Zenon, <1>0, <1>1, <1>2 DEF Linking
  <2>6. isChain(p, c, wq.oldest[p], wq.newest[p], wq'.next, wq'.threads)
    <3>1. PICK oldest, newest, next, next2, threads, threads2 :
            /\ oldest = wq.oldest[p] /\ newest = wq.newest[p] /\ next = wq.next /\ next2 = wq'.next
            /\ threads = wq.threads /\ threads2 = wq'.threads
      BY Zenon
    <3>2. isChain(p, c, oldest, newest, next, threads)
      BY <2>1, <2>2, <3>1, Zenon
    <3>3. /\ threads[t].pc = "link" /\ ItemPriority[threads[t].item] = p
          /\ next2[threads[t].previous] = threads[t].item
          /\ \A j \in 1 .. Len(c) : c[j] # threads[t].previous => next2[c[j]] = next[c[j]]
          /\ \A u \in Threads : threads[u].pc = "link" /\ threads[u].item = threads[t].item => u = t
      BY Zenon, <1>1, <1>2, <1>7, <2>4, <2>5, <3>1
    <3>4. threads2[t].pc # "link" /\ \A u \in Threads \ {t} : threads2[u] = threads[u]
      BY Zenon, <1>5, <1>6, <3>1
    <3>5. isChain(p, c, oldest, newest, next2, threads2)
      BY <2>3, <3>2, <3>3, <3>4, ChainIsLinked
    <3> QED BY <3>1, <3>5, Zenon
  <2>7. stubIsKnown(p, k)'
    BY Zenon, <1>4, <2>1 DEF stubIsKnown
  <2> QED BY Zenon, <1>4, <2>2, <2>6, <2>7 DEF listIsChain
<1>9. ASSUME NEW r \in Priorities, r # p PROVE listIsChain(r)'
  <2>1. \A e \in Entries : belongs(e, r) => wq'.next[e] = wq.next[e]
    BY Zenon, <1>0, <1>2, <1>7, <1>9, BelongsToOne
  <2> QED BY Zenon, <1>1, <1>4, <1>5, <1>6, <1>9, <2>1, ListStays
<1>10. Chained'
  BY Zenon, <1>8, <1>9 DEF Chained
<1>11. Marked'
  BY Zenon, <1>4, ItemsStay
<1>12. Linking'
  BY Zenon, <1>4, <1>5, ThreadsStay
<1>13. Timed'
  BY Zenon, <1>2, <1>4, <1>5, TimerStays DEF sameItems
<1>14. Awakened'
  BY Zenon, <1>2, <1>4, <1>5, SleepStays
<1>15. Finished'
  BY Zenon, <1>4, <1>5, EndStays DEF sameItems, sameTimer
<1> QED BY Zenon, <1>4, <1>10, <1>11, <1>12, <1>13, <1>14, <1>15 DEF WorkQueueInv

(* The first half of a put keeps the lists: the item is behind the newest  *)
(* entry, and the thread is to link it to that.                            *)
LEMMA PutKeepsLists ==
  ASSUME WorkQueueInv, NEW t \in Threads, NEW item \in Items, puts(t, item), wq.threads[t].pc # "link",
         \A j \in DOMAIN wq.put[ItemPriority[item]] : wq.put[ItemPriority[item]][j] # item
  PROVE  Chained'
<1>0. WorkQueueTypeOK /\ Chained /\ Marked /\ isProper
  BY Zenon DEF WorkQueueInv, WorkQueueTypeOK
<1>1. PICK p, th : p = ItemPriority[item] /\ th = thread("link", item, wq.newest[p], wq.threads[t].wakes, wq.threads[t].time)
  BY Zenon
<1>2. p \in Priorities /\ item \in Entries /\ belongs(item, p)
  BY Zenon, <1>0, <1>1, PutIsProper DEF belongs
<1>3. /\ wq'.newest = [wq.newest EXCEPT ![p] = item] /\ wq'.oldest = wq.oldest
      /\ wq'.next = [wq.next EXCEPT ![item] = null]
      /\ wq'.put = [wq.put EXCEPT ![p] = Append(wq.put[p], item)]
      /\ moves(t, th) /\ wq'.worker = wq.worker
  BY Zenon, <1>1 DEF puts
<1>4. /\ th.pc = "link" /\ th.item = item /\ links(th, wq.newest[p], item)
  BY Zenon, <1>1 DEF thread, links
<1>5. wq'.threads[t] = th /\ \A u \in Threads \ {t} : wq'.threads[u] = wq.threads[u]
  BY Zenon, <1>0, <1>3, Moved
<1>6. wq'.next[item] = null /\ \A e \in Entries \ {item} : wq'.next[e] = wq.next[e]
  BY Zenon, <1>0, <1>2, <1>3 DEF WorkQueueTypeOK, State
<1>7. /\ wq'.newest[p] = item /\ wq'.put[p] = Append(wq.put[p], item)
      /\ \A r \in Priorities \ {p} : wq'.newest[r] = wq.newest[r] /\ wq'.put[r] = wq.put[r]
  BY <1>0, <1>2, <1>3 DEF WorkQueueTypeOK, State
<1>8. listIsChain(p)'
  <2>1. PICK k \in 0 .. Len(wq.put[p]) + 1 :
          /\ isChain(p, entries(p, wq.put[p], k), wq.oldest[p], wq.newest[p], wq.next, wq.threads)
          /\ stubIsKnown(p, k)
    BY <1>0, <1>2, Zenon DEF Chained, listIsChain
  <2>2. PICK c, q : c = entries(p, wq.put[p], k) /\ q = wq.put[p]
    BY Zenon
  <2>3. /\ c \in Seq(Entries) /\ isInjective(c) /\ q \in Seq(Items) /\ Len(q) \in Nat
        /\ Len(c) = (IF k = 0 THEN Len(q) ELSE Len(q) + 1)
        /\ \A j \in 1 .. Len(c) : c[j] = (IF k = 0 \/ j < k THEN q[j] ELSE IF j = k THEN stub(p) ELSE q[j - 1])
    <3>1. isList(p, k, c, q)
      BY Zenon, <1>0, <1>2, <2>2, ListHasItsEntries
    <3> QED BY ONLY <3>1 DEF isList
  <2>4. \A j \in 1 .. Len(q) : q[j] # item
    BY <1>1, <2>2, <2>3
  <2>5. ASSUME NEW j \in 1 .. Len(c) PROVE c[j] # item /\ wq'.next[c[j]] = wq.next[c[j]]
    <3>0. k \in Nat
      BY <2>1
    <3>1. c[j] # item
      <4>1. CASE k = 0 \/ j < k
        <5>1. j \in 1 .. Len(q) /\ c[j] = q[j]
          BY <2>1, <2>3, <4>1, <3>0, <2>2
        <5> QED BY Zenon, <2>4, <5>1
      <4>2. CASE k # 0 /\ j = k
        BY <1>0, <1>2, <2>3, <4>2, StubIsNoItem
      <4>3. CASE k # 0 /\ j > k
        <5>1. j - 1 \in 1 .. Len(q) /\ c[j] = q[j - 1]
          BY <2>1, <2>3, <3>0, <4>3
        <5> QED BY Zenon, <2>4, <5>1
      <4> QED BY <3>0, <4>1, <4>2, <4>3
    <3>2. c[j] \in Entries
      BY <2>3
    <3> QED BY Zenon, <1>6, <3>1, <3>2
  <2>6. isChain(p, Append(c, item), wq.oldest[p], item, wq'.next, wq'.threads)
    <3>1. PICK oldest, newest, next, next2, threads, threads2 :
            /\ oldest = wq.oldest[p] /\ newest = wq.newest[p] /\ next = wq.next /\ next2 = wq'.next
            /\ threads = wq.threads /\ threads2 = wq'.threads
      BY Zenon
    <3>2. isChain(p, c, oldest, newest, next, threads)
      BY <2>1, <2>2, <3>1, Zenon
    <3>3. next2[item] = null /\ \A j \in 1 .. Len(c) : c[j] # item /\ next2[c[j]] = next[c[j]]
      BY Zenon, <1>6, <2>5, <3>1
    <3>4. threads[t].pc # "link" /\ links(threads2[t], newest, item) /\ \A u \in Threads \ {t} : threads2[u] = threads[u]
      BY Zenon, <1>4, <1>5, <3>1
    <3>5. isChain(p, Append(c, item), oldest, item, next2, threads2)
      BY <2>3, <3>2, <3>3, <3>4, ChainGrows
    <3> QED BY <3>1, <3>5, Zenon
  <2>7. Append(c, item) = entries(p, Append(q, item), k)
    BY Zenon, <1>0, <1>2, <2>1, <2>2, <2>3, EntriesWithItem
  <2>8. stubIsKnown(p, k)' /\ k \in 0 .. Len(Append(q, item)) + 1
    <3>1. stubIsKnown(p, k)'
      BY Zenon, <1>3, <2>1 DEF stubIsKnown
    <3>2. k \in 0 .. Len(q) + 1 /\ Len(Append(q, item)) = Len(q) + 1 /\ Len(q) \in Nat
      BY <2>1, <2>2, <2>3
    <3> QED BY <3>1, <3>2
  <2> QED BY <1>3, <1>7, <2>2, <2>6, <2>7, <2>8 DEF listIsChain
<1>9. ASSUME NEW r \in Priorities, r # p PROVE listIsChain(r)'
  <2>1. \A e \in Entries : belongs(e, r) => wq'.next[e] = wq.next[e]
    BY Zenon, <1>0, <1>2, <1>6, <1>9, BelongsToOne
  <2>2. wq'.put[r] = wq.put[r] /\ wq'.oldest[r] = wq.oldest[r] /\ wq'.newest[r] = wq.newest[r] /\ wq'.worker = wq.worker
    BY Zenon, <1>3, <1>7, <1>9
  <2>3. ASSUME NEW u \in Threads
        PROVE  \/ wq'.threads[u] = wq.threads[u]
               \/ /\ wq.threads[u].pc = "link" => ItemPriority[wq.threads[u].item] # r
                  /\ wq'.threads[u].pc = "link" => ItemPriority[wq'.threads[u].item] # r
    BY Zenon, <1>1, <1>4, <1>5, <1>9
  <2> QED BY Zenon, <2>1, <2>2, <2>3, ListStays
<1> QED BY Zenon, <1>8, <1>9 DEF Chained

(* What is marked after a put, when items other than the one put are       *)
(* delayed as before.                                                      *)
LEMMA PutKeepsMarks ==
  ASSUME WorkQueueInv, NEW t \in Threads, NEW item \in Items, puts(t, item),
         \A p \in Priorities : \A j \in DOMAIN wq.put[p] : wq.put[p][j] # item,
         wq'.myQueue = wq.myQueue \cup {item},
         \A j \in DOMAIN wq'.delayedItems :
           wq'.delayedItems[j] # item /\ \E i \in DOMAIN wq.delayedItems : wq.delayedItems[i] = wq'.delayedItems[j],
         \A i \in DOMAIN wq.delayedItems :
           wq.delayedItems[i] # item => \E j \in DOMAIN wq'.delayedItems : wq'.delayedItems[j] = wq.delayedItems[i],
         \A i, j \in DOMAIN wq'.delayedItems : wq'.delayedItems[i] = wq'.delayedItems[j] => i = j
  PROVE  Marked'
<1>0. WorkQueueTypeOK /\ Marked /\ isProper
  BY Zenon DEF WorkQueueInv, WorkQueueTypeOK
<1>1. PICK p, q, d, e : p = ItemPriority[item] /\ q = wq.put[p] /\ d = wq.delayedItems /\ e = wq'.delayedItems
  BY Zenon
<1>2. p \in Priorities /\ q \in Seq(Items)
  BY Zenon, <1>0, <1>1, PutIsProper DEF WorkQueueTypeOK, State
<1>3. wq'.put[p] = Append(q, item) /\ \A r \in Priorities \ {p} : wq'.put[r] = wq.put[r]
  BY <1>0, <1>1, <1>2 DEF puts, WorkQueueTypeOK, State
<1>4. /\ DOMAIN q = 1 .. Len(q) /\ Len(q) \in Nat /\ DOMAIN Append(q, item) = 1 .. Len(q) + 1
      /\ \A j \in DOMAIN Append(q, item) : \/ j = Len(q) + 1 /\ Append(q, item)[j] = item
                                           \/ j \in DOMAIN q /\ Append(q, item)[j] = q[j]
      /\ \A j \in DOMAIN q : j \in DOMAIN Append(q, item) /\ Append(q, item)[j] = q[j]
      /\ Len(q) + 1 \in DOMAIN Append(q, item) /\ Append(q, item)[Len(q) + 1] = item
  BY <1>2
<1>5. /\ \A j \in DOMAIN q : q[j] # item /\ q[j] \in wq.myQueue /\ ItemPriority[q[j]] = p
      /\ \A i, j \in DOMAIN q : q[i] = q[j] => i = j
      /\ \A i \in DOMAIN q, j \in DOMAIN d : q[i] # d[j]
  BY <1>0, <1>1, <1>2 DEF Marked
<1>6. ASSUME NEW r \in Priorities
      PROVE  /\ \A j \in DOMAIN wq'.put[r] : wq'.put[r][j] \in wq'.myQueue /\ ItemPriority[wq'.put[r][j]] = r
             /\ \A i, j \in DOMAIN wq'.put[r] : wq'.put[r][i] = wq'.put[r][j] => i = j
             /\ \A i \in DOMAIN wq'.put[r], j \in DOMAIN e : wq'.put[r][i] # e[j]
  <2>1. CASE r = p
    <3>1. PICK s : s = Append(q, item)
      BY Zenon
    <3>2. \A j \in DOMAIN s : \/ j = Len(q) + 1 /\ s[j] = item
                              \/ j \in DOMAIN q /\ s[j] = q[j]
      BY Zenon, <1>4, <3>1
    <3>3. \A j \in DOMAIN s : s[j] \in wq'.myQueue /\ ItemPriority[s[j]] = r
      BY <1>1, <1>5, <2>1, <3>2
    <3>4. \A i, j \in DOMAIN s : s[i] = s[j] => i = j
      BY <1>5, <3>2
    <3>5. \A i \in DOMAIN s, j \in DOMAIN e : s[i] # e[j]
      BY <1>1, <1>5, <3>2
    <3>6. s = wq'.put[r]
      BY Zenon, <1>3, <2>1, <3>1
    <3> QED BY Zenon, <3>3, <3>4, <3>5, <3>6
  <2>2. CASE r # p
    <3>1. wq'.put[r] = wq.put[r]
      BY Zenon, <1>3, <2>2
    <3>2. \A i \in DOMAIN wq.put[r], j \in DOMAIN e : wq.put[r][i] # e[j]
      BY <1>0, <1>1 DEF Marked
    <3> QED BY <1>0, <3>1, <3>2 DEF Marked
  <2> QED BY Zenon, <2>1, <2>2
<1>7. \A j \in DOMAIN e : e[j] \in wq'.myQueue
  BY <1>0, <1>1 DEF Marked
<1>8. ASSUME NEW i \in wq'.myQueue
      PROVE  \/ \E j \in DOMAIN e : e[j] = i
             \/ \E j \in DOMAIN wq'.put[ItemPriority[i]] : wq'.put[ItemPriority[i]][j] = i
  <2>1. CASE i = item
    BY <1>1, <1>3, <1>4, <2>1
  <2>2. CASE i # item
    <3>1. i \in wq.myQueue /\ ItemPriority[i] \in Priorities
      BY Zenon, <1>0, <2>2 DEF WorkQueueTypeOK, State, isProper
    <3>2. CASE \E j \in DOMAIN d : d[j] = i
      BY <1>1, <2>2, <3>2
    <3>3. CASE \E j \in DOMAIN wq.put[ItemPriority[i]] : wq.put[ItemPriority[i]][j] = i
      <4>1. CASE ItemPriority[i] = p
        BY <1>1, <1>3, <1>4, <3>3, <4>1
      <4>2. CASE ItemPriority[i] # p
        BY Zenon, <1>3, <3>1, <3>3, <4>2
      <4> QED BY Zenon, <4>1, <4>2
    <3> QED BY Zenon, <1>0, <1>1, <3>1, <3>2, <3>3 DEF Marked
  <2> QED BY Zenon, <2>1, <2>2
<1> QED BY <1>1, <1>6, <1>7, <1>8 DEF Marked

(* The first half of a put keeps what the threads, the timer and the       *)
(* sleeping worker rely on.                                                *)
LEMMA PutKeeps ==
  ASSUME WorkQueueInv, WorkQueueTypeOK', NEW t \in Threads, NEW item \in Items, puts(t, item),
         IF t = Timer THEN wq.threads[t].pc = "locked" ELSE wq.threads[t].pc = "idle" /\ ~wq.shouldStop,
         \A u \in Threads : wq.threads[u].item # item,
         wq'.delayedItems = wq.delayedItems \/ wq.lock # -1,
         \A p \in Priorities : \A j \in DOMAIN wq.put[p] : wq.put[p][j] # item, Marked'
  PROVE  WorkQueueInv'
<1>0. WorkQueueTypeOK /\ Linking /\ Timed /\ Finished /\ isProper
  BY Zenon DEF WorkQueueInv, WorkQueueTypeOK
<1>1. PICK th : th = thread("link", item, wq.newest[ItemPriority[item]], wq.threads[t].wakes, wq.threads[t].time)
  BY Zenon
<1>2. moves(t, th) /\ wq'.worker = wq.worker /\ sameTimer /\ sameSleep /\ sameEnd
  BY Zenon, <1>1 DEF puts
<1>3. th.pc = "link" /\ th.item = item /\ th.wakes = wq.threads[t].wakes
  BY Zenon, <1>1 DEF thread
<1>4. wq'.threads[t] = th /\ \A u \in Threads \ {t} : wq'.threads[u] = wq.threads[u]
  BY Zenon, <1>0, <1>2, Moved
<1>5. wq.threads[t].pc \notin {"link", "checkIdle", "modTimer"}
  BY Zenon
<1>6. Chained'
  <2>1. ItemPriority[item] \in Priorities
    BY Zenon, <1>0, PutIsProper
  <2> QED BY Zenon, <1>5, <2>1, PutKeepsLists
<1>7. Linking'
  <2>1. item # null
    BY Zenon, <1>0 DEF isProper
  <2>2. ASSUME NEW u \in Threads PROVE wq'.threads[u].pc = "link" <=> wq'.threads[u].item # null
    <3>1. CASE u = t
      BY Zenon, <1>3, <1>4, <2>1, <3>1
    <3>2. CASE u # t
      BY Zenon, <1>0, <1>4, <3>2 DEF Linking
    <3> QED BY Zenon, <3>1, <3>2
  <2>3. ASSUME NEW u \in Threads, NEW v \in Threads, wq'.threads[u].item = wq'.threads[v].item, wq'.threads[u].item # null
        PROVE  u = v
    <3>1. CASE u = t \/ v = t
      BY Zenon, <1>3, <1>4, <2>3, <3>1
    <3>2. CASE u # t /\ v # t
      BY <1>0, <1>4, <2>3, <3>2 DEF Linking
    <3> QED BY Zenon, <3>1, <3>2
  <2> QED BY Zenon, <2>2, <2>3 DEF Linking
<1>8. Timed'
  BY Zenon, <1>2, <1>3, <1>5, TimerStays
<1>9. Awakened'
  BY Zenon, <1>2, <1>3, <1>5, SleepStays
<1>10. Finished'
  <2>1. ~last
    <3>1. wq.lock # -1 \/ ~wq.shouldStop
      BY <1>0 DEF Timed, Timer, WorkQueueTypeOK, isProper
    <3> QED BY Zenon, <1>0, <3>1 DEF last, Finished
  <2> QED BY Zenon, <1>2, <1>3, <2>1, EndStays
<1> QED BY Zenon, <1>6, <1>7, <1>8, <1>9, <1>10 DEF WorkQueueInv

(* enqueueWorkQueue() keeps the invariant: its item is in no list, because *)
(* it is not marked.                                                       *)
LEMMA EnqueueKeeps ==
  ASSUME WorkQueueInv, NEW t \in Threads, enqueueWorkQueue(t)
  PROVE  WorkQueueInv'
<1>0. WorkQueueTypeOK /\ Marked
  BY Zenon DEF WorkQueueInv
<1>1. ~wq.shouldStop
  BY Zenon DEF enqueueWorkQueue, mayEnqueue
<1>2. ~wq.freed
  BY Zenon, <1>1, NotFreed
<1>3. WorkQueueTypeOK' /\ wq.threads[t].pc = "idle" /\ t # Timer
  BY Zenon, <1>0, <1>2, EnqueueDoes DEF mayEnqueue
<1>4. PICK item \in Items \ wq.myQueue :
        /\ puts(t, item) /\ \A u \in Threads : wq.threads[u].item # item
        /\ wq'.myQueue = wq.myQueue \cup {item} /\ wq'.delayedItems = wq.delayedItems
  BY Zenon, <1>0, <1>2, EnqueueDoes
<1>5. \A p \in Priorities : \A j \in DOMAIN wq.put[p] : wq.put[p][j] # item
  BY <1>0 DEF Marked
<1>6. Marked'
  <2>1. PICK d : d = wq.delayedItems
    BY Zenon
  <2>2. \A j \in DOMAIN d : d[j] # item
    BY <1>0, <2>1 DEF Marked
  <2>3. \A i, j \in DOMAIN d : d[i] = d[j] => i = j
    BY Zenon, <1>0, <2>1 DEF Marked
  <2> QED BY <1>4, <1>5, <2>1, <2>2, <2>3, PutKeepsMarks
<1> QED BY Zenon, <1>1, <1>3, <1>4, <1>5, <1>6, PutKeeps

(* The handler keeps the invariant when it puts an item: what is delayed   *)
(* is in no list, and nobody is putting it.                                *)
LEMMA ContinueDelayedPutKeeps ==
  ASSUME WorkQueueInv, ContinueDelayed, wq.delayedItems # <<>>, wq.executionTime[Head(wq.delayedItems)] <= wq.jiffies
  PROVE  WorkQueueInv'
<1>0. WorkQueueTypeOK /\ Marked /\ Timed /\ Linking /\ Timer \in Threads
  BY DEF WorkQueueInv, Timer, Threads, WorkQueueTypeOK, isProper
<1>1. wq.threads[Timer].pc = "locked" /\ wq.lock # -1
  BY <1>0 DEF ContinueDelayed, Timed, Timer, WorkQueueTypeOK, isProper
<1>2. ~wq.freed
  BY Zenon, <1>1, NotFreed
<1>3. PICK d, item, rest : d = wq.delayedItems /\ item = Head(d) /\ rest = Tail(d)
  BY Zenon
<1>4. /\ WorkQueueTypeOK' /\ item \in Items /\ puts(Timer, item)
      /\ wq'.myQueue = wq.myQueue \cup {item} /\ wq'.delayedItems = rest
  BY Zenon, <1>0, <1>2, <1>3, ContinueDelayedPuts
<1>5. d \in Seq(Items) /\ d # <<>>
  BY Zenon, <1>0, <1>3 DEF WorkQueueTypeOK, State
<1>6. /\ Len(d) \in Nat /\ 1 \in DOMAIN d /\ item = d[1] /\ DOMAIN d = 1 .. Len(d) /\ DOMAIN rest = 1 .. Len(d) - 1
      /\ \A j \in DOMAIN rest : j + 1 \in DOMAIN d /\ rest[j] = d[j + 1]
      /\ \A i \in DOMAIN d : i # 1 => i - 1 \in DOMAIN rest /\ rest[i - 1] = d[i]
  BY <1>3, <1>5
<1>7. \A i, j \in DOMAIN d : d[i] = d[j] => i = j
  BY Zenon, <1>0, <1>3 DEF Marked
<1>8. \A p \in Priorities : \A j \in DOMAIN wq.put[p] : wq.put[p][j] # item
  BY <1>0, <1>3, <1>6 DEF Marked
<1>9. ASSUME NEW u \in Threads PROVE wq.threads[u].item # item
  <2>1. CASE wq.threads[u].pc = "link"
    BY <1>8, <2>1, LinksInItsList
  <2>2. CASE wq.threads[u].pc # "link"
    BY Zenon, <1>0, <1>4, <2>2 DEF Linking, WorkQueueTypeOK, isProper
  <2> QED BY Zenon, <2>1, <2>2
<1>10. Marked'
  <2>1. ASSUME NEW j \in DOMAIN rest PROVE rest[j] # item /\ \E i \in DOMAIN d : d[i] = rest[j]
    <3>1. j + 1 \in DOMAIN d /\ rest[j] = d[j + 1] /\ j + 1 # 1
      BY <1>6
    <3> QED BY Zenon, <1>6, <1>7, <3>1
  <2>2. \A i \in DOMAIN d : d[i] # item => \E j \in DOMAIN rest : rest[j] = d[i]
    BY Zenon, <1>6
  <2>3. ASSUME NEW i \in DOMAIN rest, NEW j \in DOMAIN rest, rest[i] = rest[j] PROVE i = j
    <3>1. i + 1 \in DOMAIN d /\ j + 1 \in DOMAIN d /\ d[i + 1] = d[j + 1]
      BY Zenon, <1>6, <2>3
    <3>2. i + 1 = j + 1
      BY Zenon, <1>7, <3>1
    <3> QED BY <1>6, <3>2
  <2> QED BY <1>0, <1>3, <1>4, <1>8, <2>1, <2>2, <2>3, PutKeepsMarks
<1> QED BY Zenon, <1>0, <1>1, <1>4, <1>8, <1>9, <1>10, PutKeeps

(* An entry which has one behind it and is not linked is to be linked.     *)
LEMMA ChainStops ==
  ASSUME NEW p, NEW c \in Seq(Entries), NEW oldest, NEW newest, NEW next, NEW threads,
         isChain(p, c, oldest, newest, next, threads), next[oldest] = null, Len(c) > 1, null \notin Entries
  PROVE  \E t \in Threads : threads[t].pc = "link"
<1>1. Len(c) \in Nat /\ 1 \in 1 .. Len(c) - 1 /\ oldest = c[1] /\ c[1 + 1] \in Entries
  BY DEF isChain
<1>2. next[c[1]] = null
  BY Zenon, <1>1
<1>3. \/ next[c[1]] = c[1 + 1]
      \/ next[c[1]] = null /\ \E t \in Threads : links(threads[t], c[1], c[1 + 1])
  BY Zenon, <1>1 DEF isChain
<1> QED BY Zenon, <1>1, <1>2, <1>3 DEF links

(* What getOldest() looks at is the item which was put first, and it       *)
(* begins a chain which does not have the stub before it.                  *)
LEMMA OldestIs ==
  ASSUME WorkQueueInv, NEW p \in Priorities, NEW o, o = oldestItem(p), o # null
  PROVE  /\ o \in Items /\ comesNext(wq, p, o)
         /\ \E k, c, q : /\ k # 1 /\ isList(p, k, c, q) /\ stubIsKnown(p, k)
                         /\ isChain(p, c, o, wq.newest[p], wq.next, wq.threads)
<1>0. WorkQueueTypeOK /\ Marked /\ isProper
  BY Zenon DEF WorkQueueInv, WorkQueueTypeOK
<1>1. PICK oldest, newest, next, threads : oldest = wq.oldest[p] /\ newest = wq.newest[p] /\ next = wq.next /\ threads = wq.threads
  BY Zenon
<1>2. PICK k, c, q : /\ isList(p, k, c, q) /\ stubIsKnown(p, k) /\ isChain(p, c, oldest, newest, next, threads)
  BY <1>1, ListIs, Zenon
<1>3. /\ q = wq.put[p] /\ q \in Seq(Items) /\ Len(q) \in Nat /\ k \in 0 .. Len(q) + 1
      /\ c = entries(p, q, k) /\ c \in Seq(Entries)
      /\ Len(c) = (IF k = 0 THEN Len(q) ELSE Len(q) + 1)
      /\ \A j \in 1 .. Len(c) : c[j] = (IF k = 0 \/ j < k THEN q[j] ELSE IF j = k THEN stub(p) ELSE q[j - 1])
  BY <1>2, Zenon DEF isList
<1>4. c # <<>> /\ oldest = c[1] /\ Len(c) > 0
  BY <1>2, <1>3 DEF isChain
<1>5. stub(p) \notin Items
  BY Zenon, <1>0, StubIsNoItem
<1>6. ASSUME q # <<>>, o = q[1] PROVE o \in Items /\ comesNext(wq, p, o)
  <2>1. 1 \in DOMAIN q /\ q[1] \in Items /\ Head(q) = q[1]
    BY <1>3, <1>6
  <2>2. q[1] \in wq.myQueue
    BY Zenon, <1>0, <1>3, <2>1 DEF Marked
  <2> QED BY Zenon, <1>3, <1>6, <2>1, <2>2 DEF comesNext
<1>7. CASE k = 1
  <2>1. oldest = stub(p)
    BY <1>3, <1>4, <1>7
  <2>2. o = next[oldest]
    BY Zenon, <1>1, <2>1 DEF oldestItem
  <2>3. isChain(p, Tail(c), o, newest, next, threads)
    <3>1. \A j \in 2 .. Len(c) : next[c[j]] = next[c[j]]
      BY Zenon
    <3>2. isChain(p, Tail(c), next[oldest], newest, next, threads)
      BY Zenon, <1>2, <1>3, <2>2, <3>1, ChainLosesOldest
    <3> QED BY Zenon, <2>2, <3>2
  <2>4. PICK d : d = Tail(c)
    BY Zenon
  <2>5. d = entries(p, q, 0)
    BY Zenon, <1>0, <1>3, <1>4, <1>7, <2>4, EntriesWithoutOldest
  <2>6. isList(p, 0, d, q)
    <3>1. 0 \in 0 .. Len(wq.put[p]) + 1
      BY <1>3
    <3>2. d = entries(p, wq.put[p], 0) /\ q = wq.put[p] /\ p \in Priorities
      BY Zenon, <1>0, <1>3, <2>5
    <3> QED BY Zenon, <1>0, <3>1, <3>2, ListHasItsEntries
  <2>7. stubIsKnown(p, 0)
    BY <1>2, <1>7 DEF stubIsKnown
  <2>8. q # <<>> /\ o = q[1]
    <3>1. d # <<>> /\ o = d[1]
      BY Zenon, <2>3, <2>4 DEF isChain
    <3>2. d \in Seq(Entries) /\ Len(d) = Len(q) /\ \A j \in 1 .. Len(d) : d[j] = q[j]
      BY Zenon, <2>6 DEF isList
    <3> QED BY <1>3, <3>1, <3>2
  <2>9. isChain(p, d, o, wq.newest[p], wq.next, wq.threads)
    BY Zenon, <1>1, <2>3, <2>4
  <2>10. 0 # 1
    OBVIOUS
  <2> QED BY <1>6, <2>6, <2>7, <2>8, <2>9, <2>10, Zenon
<1>8. CASE k # 1
  <2>1. q # <<>> /\ oldest = q[1]
    BY <1>3, <1>4, <1>8
  <2>2. q[1] \in Items
    BY <1>3, <2>1
  <2>3. o = q[1] /\ o = oldest
    BY Zenon, <1>1, <1>5, <2>1, <2>2 DEF oldestItem
  <2>4. isChain(p, c, o, wq.newest[p], wq.next, wq.threads)
    BY Zenon, <1>1, <1>2, <2>3
  <2> QED BY <1>2, <1>6, <1>8, <2>1, <2>3, <2>4, Zenon
<1> QED BY Zenon, <1>7, <1>8

(* When the worker finds nothing in a list, nothing is in it or somebody   *)
(* is putting an item.                                                     *)
LEMMA NothingIsFound ==
  ASSUME WorkQueueInv, NEW p \in Priorities, NEW o, o = oldestItem(p), o = null \/ (wq.next[o] = null /\ wq.newest[p] # o)
  PROVE  wq.put[p] = <<>> \/ \E t \in Threads : wq.threads[t].pc = "link"
<1>0. WorkQueueTypeOK /\ Marked /\ isProper
  BY Zenon DEF WorkQueueInv, WorkQueueTypeOK
<1>1. null \notin Entries
  BY Zenon, <1>0, StubIsNoItem
<1>2. PICK oldest, newest, next, threads : oldest = wq.oldest[p] /\ newest = wq.newest[p] /\ next = wq.next /\ threads = wq.threads
  BY Zenon
<1>3. CASE o = null
  <2>1. PICK k, c, q : isList(p, k, c, q) /\ isChain(p, c, oldest, newest, next, threads)
    BY <1>2, ListIs, Zenon
  <2>2. /\ q = wq.put[p] /\ q \in Seq(Items) /\ Len(q) \in Nat /\ k \in 0 .. Len(q) + 1 /\ c \in Seq(Entries)
        /\ Len(c) = (IF k = 0 THEN Len(q) ELSE Len(q) + 1)
        /\ \A j \in 1 .. Len(c) : c[j] = (IF k = 0 \/ j < k THEN q[j] ELSE IF j = k THEN stub(p) ELSE q[j - 1])
    BY <2>1, Zenon DEF isList
  <2>3. oldest = stub(p) /\ next[oldest] = null
    <3>1. oldest \in Entries
      BY Zenon, <1>0, <1>2 DEF WorkQueueTypeOK, State
    <3> QED BY Zenon, <1>1, <1>2, <1>3, <3>1 DEF oldestItem
  <2>4. c # <<>> /\ c[1] = stub(p) /\ Len(c) > 0
    BY <2>1, <2>2, <2>3 DEF isChain
  <2>5. k # 0
    <3>1. SUFFICES ASSUME k = 0 PROVE FALSE
      BY Zenon
    <3>2. c[1] = q[1] /\ q[1] \in Items
      BY <2>2, <2>4, <3>1
    <3> QED BY Zenon, <1>0, <2>4, <3>2, StubIsNoItem
  <2>6. CASE Len(c) > 1
    BY <1>1, <1>2, <2>1, <2>2, <2>3, <2>6, ChainStops
  <2>7. CASE ~(Len(c) > 1)
    BY <2>2, <2>4, <2>5, <2>7
  <2> QED BY Zenon, <2>6, <2>7
<1>4. CASE o # null
  <2>1. PICK k, c, q : isList(p, k, c, q) /\ isChain(p, c, o, newest, next, threads)
    BY <1>2, <1>4, OldestIs, Zenon
  <2>2. c \in Seq(Entries) /\ Len(c) \in Nat
    BY <2>1 DEF isList
  <2>3. next[o] = null /\ newest # o
    BY Zenon, <1>2, <1>4
  <2>4. Len(c) > 1
    BY <2>1, <2>2, <2>3 DEF isChain
  <2> QED BY <1>1, <1>2, <2>1, <2>2, <2>3, <2>4, ChainStops
<1> QED BY Zenon, <1>3, <1>4

(* The worker may leave the stub behind, and is to put it again only when  *)
(* it is in no list.                                                       *)
LEMMA SkipKeepsLists ==
  ASSUME WorkQueueInv, NEW p \in Priorities, NEW o, o = oldestItem(p), o # null,
         wq'.oldest = [wq.oldest EXCEPT ![p] = o], wq'.newest = wq.newest, wq'.next = wq.next, wq'.put = wq.put,
         wq'.threads = wq.threads,
         \/ wq'.worker.pc \notin {"putStub", "pollAgain"}
         \/ wq'.worker.pc = "putStub" /\ wq'.worker.list = p /\ wq.newest[p] = o
  PROVE  Chained'
<1>0. WorkQueueTypeOK /\ Marked /\ isProper
  BY Zenon DEF WorkQueueInv, WorkQueueTypeOK
<1>1. wq'.oldest[p] = o /\ \A r \in Priorities \ {p} : wq'.oldest[r] = wq.oldest[r]
  BY <1>0 DEF WorkQueueTypeOK, State
<1>2. listIsChain(p)'
  <2>1. PICK k, c, q : k # 1 /\ isList(p, k, c, q) /\ isChain(p, c, o, wq.newest[p], wq.next, wq.threads)
    BY OldestIs, Zenon
  <2>2. q = wq.put[p] /\ Len(q) \in Nat /\ k \in 0 .. Len(q) + 1 /\ c = entries(p, q, k) /\ isInjective(c)
    BY Zenon, <2>1 DEF isList
  <2>3. Len(c) = (IF k = 0 THEN Len(q) ELSE Len(q) + 1)
    BY Zenon, <2>1 DEF isList
  <2>4. stubIsKnown(p, k)'
    <3>1. CASE wq'.worker.pc \notin {"putStub", "pollAgain"}
      BY Zenon, <3>1 DEF stubIsKnown
    <3>2. CASE wq'.worker.pc = "putStub" /\ wq.newest[p] = o
      <4>1. c # <<>> /\ c[1] = c[Len(c)]
        BY Zenon, <2>1, <3>2 DEF isChain
      <4>2. PICK n : n = Len(c) /\ n \in Nat \ {0}
        BY <2>1, <4>1 DEF isList
      <4>3. n = 1
        <5>1. 1 \in 1 .. Len(c) /\ n \in 1 .. Len(c) /\ c[1] = c[n]
          BY <4>1, <4>2
        <5> QED BY Zenon, <2>2, <5>1 DEF isInjective
      <4>4. k = 0
        <5>1. PICK m : m = Len(q)
          BY Zenon
        <5>2. m \in Nat /\ k \in 0 .. m + 1 /\ k # 1 /\ 1 = (IF k = 0 THEN m ELSE m + 1)
          BY Zenon, <2>1, <2>2, <2>3, <4>2, <4>3, <5>1
        <5> QED BY <5>2
      <4> QED BY Zenon, <3>2, <4>4 DEF stubIsKnown
    <3> QED BY Zenon, <3>1, <3>2
  <2>5. isChain(p, entries(p, wq'.put[p], k), wq'.oldest[p], wq'.newest[p], wq'.next, wq'.threads) /\ k \in 0 .. Len(wq'.put[p]) + 1
    BY Zenon, <1>1, <2>1, <2>2
  <2> QED BY <2>4, <2>5, Zenon DEF listIsChain
<1>3. ASSUME NEW r \in Priorities, r # p PROVE listIsChain(r)'
  BY Zenon, <1>1, <1>3, ListStays
<1> QED BY Zenon, <1>2, <1>3 DEF Chained

(* funnelQueuePoll() keeps the invariant: the item was the oldest of its   *)
(* list, and no other is lost.                                             *)
LEMMA TakeKeeps ==
  ASSUME WorkQueueInv, WorkQueueTypeOK', NEW p \in Priorities, NEW o, o = oldestItem(p), o # null, wq.next[o] # null,
         takes(p, o), polling
  PROVE  WorkQueueInv'
<1>0. WorkQueueTypeOK /\ Marked /\ isProper /\ Linking /\ Timed /\ Awakened /\ Finished
  BY Zenon DEF WorkQueueInv, WorkQueueTypeOK
<1>1. o \in Items /\ comesNext(wq, p, o) /\ o \in Entries
  BY Zenon, OldestIs DEF Entries
<1>2. PICK k, c, q : k # 1 /\ isList(p, k, c, q) /\ isChain(p, c, o, wq.newest[p], wq.next, wq.threads)
  BY OldestIs, Zenon
<1>3. /\ q = wq.put[p] /\ q \in Seq(Items) /\ Len(q) \in Nat /\ k \in 0 .. Len(q) + 1
      /\ c = entries(p, q, k) /\ c \in Seq(Entries) /\ isInjective(c) /\ \A j \in 1 .. Len(c) : belongs(c[j], p)
  BY <1>2, Zenon DEF isList
<1>4. q # <<>> /\ o = Head(q)
  BY Zenon, <1>1, <1>3 DEF comesNext
<1>5. /\ wq'.oldest[p] = wq.next[o] /\ wq'.put[p] = Tail(q)
      /\ \A r \in Priorities \ {p} : wq'.oldest[r] = wq.oldest[r] /\ wq'.put[r] = wq.put[r]
  BY <1>0, <1>3 DEF takes, WorkQueueTypeOK, State
<1>6. wq'.next[o] = null /\ \A e \in Entries \ {o} : wq'.next[e] = wq.next[e]
  BY <1>0, <1>1 DEF takes, WorkQueueTypeOK, State
<1>7. wq'.worker.pc = "work" /\ wq'.threads = wq.threads /\ wq'.newest = wq.newest
  BY Zenon DEF takes
<1>8. c # <<>> /\ o = c[1] /\ Len(c) \in Nat /\ 1 \in 1 .. Len(c)
  BY <1>2, <1>3 DEF isChain
<1>9. listIsChain(p)'
  <2>1. PICK newest, next, next2, threads, k2, q2 :
          /\ newest = wq.newest[p] /\ next = wq.next /\ next2 = wq'.next /\ threads = wq.threads
          /\ k2 = (IF k = 0 THEN 0 ELSE k - 1) /\ q2 = Tail(q)
    BY Zenon
  <2>2. isChain(p, c, o, newest, next, threads)
    BY Zenon, <1>2, <2>1
  <2>3. ASSUME NEW j \in 2 .. Len(c) PROVE next2[c[j]] = next[c[j]]
    <3>1. c[j] # o /\ c[j] \in Entries
      BY <1>3, <1>8 DEF isInjective
    <3> QED BY Zenon, <1>6, <2>1, <3>1
  <2>4. isChain(p, Tail(c), next[o], newest, next2, threads)
    <3>1. next[o] # null
      BY Zenon, <2>1
    <3> QED BY Zenon, <1>3, <2>2, <2>3, <3>1, ChainLosesOldest
  <2>5. k2 \in 0 .. Len(q2) + 1 /\ Tail(c) = entries(p, q2, k2)
    BY Zenon, <1>0, <1>2, <1>3, <1>8, <2>1, EntriesWithoutOldest
  <2>6. isChain(p, entries(p, wq'.put[p], k2), wq'.oldest[p], wq'.newest[p], wq'.next, wq'.threads) /\ k2 \in 0 .. Len(wq'.put[p]) + 1
    BY Zenon, <1>5, <1>7, <2>1, <2>4, <2>5
  <2>7. stubIsKnown(p, k2)'
    BY Zenon, <1>7 DEF stubIsKnown
  <2> QED BY <2>6, <2>7, Zenon DEF listIsChain
<1>10. ASSUME NEW r \in Priorities, r # p PROVE listIsChain(r)'
  <2>1. belongs(o, p)
    BY Zenon, <1>3, <1>8
  <2>2. \A e \in Entries : belongs(e, r) => wq'.next[e] = wq.next[e]
    BY Zenon, <1>0, <1>6, <1>10, <2>1, BelongsToOne
  <2> QED BY Zenon, <1>5, <1>7, <1>10, <2>2, ListStays
<1>11. Marked'
  <2>0. wq'.myQueue = wq.myQueue \ {o} /\ wq'.delayedItems = wq.delayedItems
    BY Zenon DEF takes
  <2>1. PICK rest, d : rest = Tail(q) /\ d = wq.delayedItems
    BY Zenon
  <2>2. /\ 1 \in DOMAIN q /\ o = q[1] /\ DOMAIN q = 1 .. Len(q) /\ DOMAIN rest = 1 .. Len(q) - 1
        /\ \A j \in DOMAIN rest : j + 1 \in DOMAIN q /\ rest[j] = q[j + 1]
        /\ \A i \in DOMAIN q : i # 1 => i - 1 \in DOMAIN rest /\ rest[i - 1] = q[i]
    <3>1. q \in Seq(Items) /\ q # <<>> /\ o = Head(q) /\ rest = Tail(q)
      BY Zenon, <1>3, <1>4, <2>1
    <3> QED BY <3>1
  <2>3. /\ \A j \in DOMAIN q : q[j] \in wq.myQueue /\ ItemPriority[q[j]] = p
        /\ \A i, j \in DOMAIN q : q[i] = q[j] => i = j
        /\ \A i \in DOMAIN q, j \in DOMAIN d : q[i] # d[j]
    BY <1>0, <1>3, <2>1 DEF Marked
  <2>4. ASSUME NEW j \in DOMAIN rest PROVE rest[j] \in wq'.myQueue /\ ItemPriority[rest[j]] = p
    <3>1. j + 1 \in DOMAIN q /\ rest[j] = q[j + 1] /\ j + 1 # 1
      BY <1>3, <2>2
    <3> QED BY <2>0, <2>2, <2>3, <3>1
  <2>5. ASSUME NEW i \in DOMAIN rest, NEW j \in DOMAIN rest, rest[i] = rest[j] PROVE i = j
    <3>1. i + 1 \in DOMAIN q /\ j + 1 \in DOMAIN q /\ q[i + 1] = q[j + 1]
      BY Zenon, <2>2, <2>5
    <3>2. i + 1 = j + 1
      BY Zenon, <2>3, <3>1
    <3> QED BY <2>2, <3>2
  <2>6. ASSUME NEW i \in DOMAIN rest, NEW j \in DOMAIN d PROVE rest[i] # d[j]
    BY <2>2, <2>3
  <2>7. ASSUME NEW r \in Priorities, r # p
        PROVE  /\ \A j \in DOMAIN wq'.put[r] : wq'.put[r][j] \in wq'.myQueue /\ ItemPriority[wq'.put[r][j]] = r
               /\ \A i, j \in DOMAIN wq'.put[r] : wq'.put[r][i] = wq'.put[r][j] => i = j
               /\ \A i \in DOMAIN wq'.put[r], j \in DOMAIN d : wq'.put[r][i] # d[j]
    <3>1. wq'.put[r] = wq.put[r]
      BY Zenon, <1>5, <2>7
    <3>2. ItemPriority[o] = p
      BY Zenon, <2>2, <2>3
    <3>3. \A j \in DOMAIN wq.put[r] : wq.put[r][j] \in wq.myQueue /\ ItemPriority[wq.put[r][j]] = r
      BY Zenon, <1>0 DEF Marked
    <3>4. \A j \in DOMAIN wq.put[r] : wq.put[r][j] \in wq'.myQueue
      BY Zenon, <2>0, <2>7, <3>2, <3>3
    <3>5. /\ \A i, j \in DOMAIN wq.put[r] : wq.put[r][i] = wq.put[r][j] => i = j
          /\ \A i \in DOMAIN wq.put[r], j \in DOMAIN d : wq.put[r][i] # d[j]
      BY <1>0, <2>1 DEF Marked
    <3> QED BY Zenon, <3>1, <3>3, <3>4, <3>5
  <2>8. \A j \in DOMAIN d : d[j] \in wq'.myQueue
    <3>1. \A j \in DOMAIN d : d[j] \in wq.myQueue
      BY Zenon, <1>0, <2>1 DEF Marked
    <3> QED BY <2>0, <2>2, <2>3, <3>1
  <2>9. \A i, j \in DOMAIN d : d[i] = d[j] => i = j
    BY Zenon, <1>0, <2>1 DEF Marked
  <2>10. ASSUME NEW i \in wq'.myQueue
         PROVE  \/ \E j \in DOMAIN d : d[j] = i
                \/ \E j \in DOMAIN wq'.put[ItemPriority[i]] : wq'.put[ItemPriority[i]][j] = i
    <3>1. i \in wq.myQueue /\ i # o /\ ItemPriority[i] \in Priorities
      BY Zenon, <1>0, <2>0 DEF WorkQueueTypeOK, State, isProper
    <3>2. CASE \E j \in DOMAIN d : d[j] = i
      BY Zenon, <3>2
    <3>3. CASE \E j \in DOMAIN wq.put[ItemPriority[i]] : wq.put[ItemPriority[i]][j] = i
      <4>1. CASE ItemPriority[i] = p
        <5>1. PICK j \in DOMAIN q : q[j] = i
          BY Zenon, <1>3, <3>3, <4>1
        <5>2. j - 1 \in DOMAIN rest /\ rest[j - 1] = i
          BY Zenon, <2>2, <3>1, <5>1
        <5> QED BY Zenon, <1>5, <2>1, <4>1, <5>2
      <4>2. CASE ItemPriority[i] # p
        BY <1>5, <3>1, <3>3, <4>2
      <4> QED BY Zenon, <4>1, <4>2
    <3> QED BY Zenon, <1>0, <2>1, <3>1, <3>2, <3>3 DEF Marked
  <2>11. ASSUME NEW r \in Priorities
         PROVE  /\ \A j \in DOMAIN wq'.put[r] : wq'.put[r][j] \in wq'.myQueue /\ ItemPriority[wq'.put[r][j]] = r
                /\ \A i, j \in DOMAIN wq'.put[r] : wq'.put[r][i] = wq'.put[r][j] => i = j
                /\ \A i \in DOMAIN wq'.put[r], j \in DOMAIN d : wq'.put[r][i] # d[j]
    <3>1. CASE r = p
      <4>1. wq'.put[r] = rest
        BY Zenon, <1>5, <2>1, <3>1
      <4> QED BY Zenon, <2>4, <2>5, <2>6, <3>1, <4>1
    <3> QED BY Zenon, <2>7, <3>1
  <2> QED BY <2>0, <2>1, <2>8, <2>9, <2>10, <2>11 DEF Marked
<1>12. Linking'
  BY Zenon, <1>0, <1>7 DEF Linking
<1>13. Timed'
  BY <1>0, <1>7 DEF Timed, takes, sameTimer
<1>14. Awakened'
  BY Zenon, <1>0, <1>7 DEF Awakened, polling
<1>15. Finished'
  <2>1. ~wq.freed
    BY Zenon, NotFreed DEF polling
  <2> QED BY <1>0, <1>7, <2>1 DEF Finished, takes, sameEnd, polling
<1> QED BY Zenon, <1>9, <1>10, <1>11, <1>12, <1>13, <1>14, <1>15 DEF WorkQueueInv, Chained

(* In the worker's last poll nobody is putting an item.                    *)
LEMMA NobodyLinksAtTheEnd ==
  ASSUME WorkQueueInv, last
  PROVE  \A t \in Threads : wq.threads[t].pc # "link"
<1>1. wq.shouldStop /\ wq.lock = -1 /\ Timer # -1
  BY DEF WorkQueueInv, last, Finished, Timer, WorkQueueTypeOK, isProper
<1>2. wq.threads[Timer].pc # "link"
  BY Zenon, <1>1 DEF WorkQueueInv, Timed
<1> QED BY Zenon, <1>1, <1>2 DEF WorkQueueInv, Finished

(* The worker keeps the invariant when it finds nothing in a list, which   *)
(* is empty or to which somebody is putting an item.                       *)
LEMMA NothingKeeps ==
  ASSUME WorkQueueInv, WorkQueueTypeOK', polling, NEW p \in Priorities, p = wq.worker.list, NEW oldest, findsNothing(oldest),
         wq.put[p] = <<>> \/ \E t \in Threads : wq.threads[t].pc = "link", Chained'
  PROVE  WorkQueueInv'
<1>0. WorkQueueTypeOK /\ Marked /\ isProper /\ Linking /\ Timed /\ Awakened /\ Finished
  BY Zenon DEF WorkQueueInv, WorkQueueTypeOK
<1>1. wq'.put = wq.put /\ wq'.threads = wq.threads /\ sameItems /\ sameTimer /\ sameEnd
  BY Zenon DEF findsNothing
<1>2. PICK old, new : old = wq.worker /\ new = wq'.worker
  BY Zenon
<1>3. goesOn(old, new) /\ old \in Worker /\ p = old.list /\ p \in Nat \ {0}
  BY <1>0, <1>2 DEF findsNothing, WorkQueueTypeOK, State, Priorities
<1>4. new.from = old.from
  BY Zenon, <1>3 DEF goesOn
<1>5. \/ p > 1 /\ new.list = p - 1 /\ new.pc = "poll"
      \/ p = 1 /\ old.from \in {"next", "woken"} /\ new.pc = "prepareToWait"
      \/ p = 1 /\ old.from = "waiting" /\ new.pc = "checkStop"
      \/ p = 1 /\ old.from = "stopping" /\ new.pc = "exited"
  <2>1. CASE p > 1
    BY Zenon, <1>3, <2>1 DEF goesOn
  <2>2. CASE ~(p > 1)
    <3>1. p = 1
      BY <1>3, <2>2
    <3>2. new.pc = CASE old.from \in {"next", "woken"} -> "prepareToWait"
                     [] old.from = "waiting"           -> "checkStop"
                     [] old.from = "stopping"          -> "exited"
      BY Zenon, <1>3, <2>2 DEF goesOn
    <3>3. CASE old.from \in {"next", "woken"}
      BY Zenon, <3>1, <3>2, <3>3
    <3>4. CASE old.from = "waiting"
      BY Zenon, <3>1, <3>2, <3>4
    <3>5. CASE old.from = "stopping"
      BY Zenon, <3>1, <3>2, <3>5
    <3> QED BY Zenon, <1>3, <3>3, <3>4, <3>5 DEF Worker
  <2> QED BY Zenon, <2>1, <2>2
<1>6. ASSUME NEW r \in Priorities, seen(r)' PROVE r = p \/ seen(r)
  <2>1. r \in Nat \ {0}
    BY <1>0 DEF Priorities, isProper
  <2>2. CASE new.pc = "poll"
    <3>1. r > p - 1
      BY Zenon, <1>2, <1>5, <1>6, <2>2 DEF seen, polling
    <3> QED BY <1>3, <2>1, <3>1 DEF seen
  <2>3. CASE new.pc # "poll"
    <3>1. p = 1
      BY Zenon, <1>5, <2>3
    <3> QED BY <2>1, <3>1 DEF seen
  <2> QED BY Zenon, <2>2, <2>3
<1>7. Marked'
  BY Zenon, <1>1, ItemsStay
<1>8. Linking' /\ Timed'
  BY <1>0, <1>1 DEF Linking, Timed, sameTimer, sameItems
<1>9. Awakened'
  <2>1. new.pc \in {"checkStop", "sleep"} => new.from = "waiting"
    BY Zenon, <1>4, <1>5
  <2>2. ASSUME new.from = "waiting", wq'.waiting
        PROVE  IF wq'.idle THEN \A r \in Priorities : seen(r)' /\ wq'.put[r] # <<>> =>
                                  \E t \in Threads : wq'.threads[t].pc \in {"link", "checkIdle"}
               ELSE \E t \in Threads : wq'.threads[t].wakes
    <3>1. sameSleep /\ wq.worker.from = "waiting"
      BY Zenon, <1>2, <1>4, <2>2 DEF findsNothing
    <3>2. wq.waiting /\ wq'.idle = wq.idle
      BY Zenon, <2>2, <3>1 DEF sameSleep
    <3>3. CASE ~wq.idle
      BY Zenon, <1>0, <1>1, <3>1, <3>2, <3>3 DEF Awakened
    <3>4. CASE wq.idle
      <4>1. \A r \in Priorities : seen(r) /\ wq.put[r] # <<>> => \E t \in Threads : wq.threads[t].pc \in {"link", "checkIdle"}
        BY Zenon, <1>0, <3>1, <3>2, <3>4 DEF Awakened
      <4>2. ASSUME NEW r \in Priorities, seen(r)', wq.put[r] # <<>>
            PROVE  \E t \in Threads : wq.threads[t].pc \in {"link", "checkIdle"}
        <5>1. CASE r = p
          BY Zenon, <4>2, <5>1
        <5>2. CASE r # p
          BY Zenon, <1>6, <4>1, <4>2, <5>2
        <5> QED BY Zenon, <5>1, <5>2
      <4> QED BY Zenon, <1>1, <3>2, <3>4, <4>2
    <3> QED BY Zenon, <3>3, <3>4
  <2>3. \A t \in Threads : wq'.threads[t].wakes => wq'.threads[t].pc # "idle"
    BY Zenon, <1>0, <1>1 DEF Awakened
  <2> QED BY Zenon, <1>2, <2>1, <2>2, <2>3 DEF Awakened
<1>10. Finished'
  <2>1. ASSUME new.pc = "exited" \/ new.from = "stopping"
        PROVE  /\ wq'.shouldStop /\ wq'.delayedItems = <<>> /\ wq'.lock = -1
               /\ \A r \in Priorities : seen(r)' => wq'.put[r] = <<>>
    <3>1. last
      BY Zenon, <1>2, <1>4, <1>5, <2>1 DEF last
    <3>2. /\ wq.shouldStop /\ wq.delayedItems = <<>> /\ wq.lock = -1
          /\ \A r \in Priorities : seen(r) => wq.put[r] = <<>>
      BY Zenon, <1>0, <3>1 DEF last, Finished
    <3>3. wq.put[p] = <<>>
      BY Zenon, <3>1, NobodyLinksAtTheEnd
    <3> QED BY Zenon, <1>1, <1>6, <3>2, <3>3 DEF sameEnd, sameItems, sameTimer
  <2>2. ~wq'.freed
    BY Zenon, <1>1, NotFreed DEF polling, sameEnd
  <2>3. wq'.shouldStop => \A t \in Threads \ {Timer} : wq'.threads[t].pc # "link"
    BY Zenon, <1>0, <1>1 DEF Finished, sameEnd
  <2> QED BY Zenon, <1>2, <2>1, <2>2, <2>3 DEF Finished
<1> QED BY Zenon, <1>7, <1>8, <1>9, <1>10 DEF WorkQueueInv

(* While the worker goes on with the same list, nothing but the list is    *)
(* different for anybody.                                                  *)
LEMMA StubKeeps ==
  ASSUME WorkQueueInv, WorkQueueTypeOK', Chained', polling, polling', wq'.worker.from = wq.worker.from, wq'.worker.list = wq.worker.list,
         wq'.put = wq.put, wq'.threads = wq.threads, sameItems, sameTimer, sameSleep, sameEnd
  PROVE  WorkQueueInv'
<1>0. Linking /\ Timed /\ Awakened /\ Finished
  BY Zenon DEF WorkQueueInv
<1>1. \A p \in Priorities : seen(p)' <=> seen(p)
  BY Zenon DEF seen
<1>2. Marked'
  BY Zenon, ItemsStay
<1>3. Linking' /\ Timed'
  BY <1>0 DEF Linking, Timed, sameTimer, sameItems
<1>4. Awakened'
  <2>1. ASSUME wq'.worker.from = "waiting", wq'.waiting
        PROVE  IF wq'.idle THEN \A r \in Priorities : seen(r)' /\ wq'.put[r] # <<>> =>
                                  \E t \in Threads : wq'.threads[t].pc \in {"link", "checkIdle"}
               ELSE \E t \in Threads : wq'.threads[t].wakes
    BY Zenon, <1>0, <1>1, <2>1 DEF Awakened, sameSleep
  <2>2. \A t \in Threads : wq'.threads[t].wakes => wq'.threads[t].pc # "idle"
    BY Zenon, <1>0 DEF Awakened
  <2>3. wq'.worker.pc \notin {"checkStop", "sleep"}
    BY Zenon DEF polling
  <2> QED BY Zenon, <2>1, <2>2, <2>3 DEF Awakened
<1>5. Finished'
  <2>1. ~wq'.freed /\ wq'.worker.pc # "exited"
    BY Zenon, NotFreed DEF polling, sameEnd
  <2>2. wq'.shouldStop => \A t \in Threads \ {Timer} : wq'.threads[t].pc # "link"
    BY Zenon, <1>0 DEF Finished, sameEnd
  <2>3. ASSUME wq'.worker.from = "stopping"
        PROVE  /\ wq'.shouldStop /\ wq'.delayedItems = <<>> /\ wq'.lock = -1
               /\ \A r \in Priorities : seen(r)' => wq'.put[r] = <<>>
    BY Zenon, <1>0, <1>1, <2>3 DEF Finished, sameEnd, sameItems, sameTimer
  <2> QED BY Zenon, <2>1, <2>2, <2>3 DEF Finished
<1> QED BY Zenon, <1>2, <1>3, <1>4, <1>5 DEF WorkQueueInv

(* pollForWorkItem() keeps the invariant until it puts the stub.           *)
LEMMA PollKeeps ==
  ASSUME WorkQueueInv, pollForWorkItem
  PROVE  WorkQueueInv'
<1>0. WorkQueueTypeOK /\ wq.worker.pc = "poll" /\ polling
  BY Zenon DEF WorkQueueInv, pollForWorkItem, polling
<1>1. PICK p, o : p = wq.worker.list /\ o = oldestItem(p)
  BY Zenon
<1>2. p \in Priorities
  BY Zenon, <1>0, <1>1 DEF WorkQueueTypeOK, State, Worker
<1>3. o # null => o \in Items /\ comesNext(wq, p, o)
  BY Zenon, <1>1, <1>2, OldestIs
<1>4. WorkQueueTypeOK' /\ polls(p, o)
  BY <1>0, <1>1, <1>3, PollDoes, Zenon
<1>5. ASSUME NEW oldest, findsNothing(oldest) PROVE wq'.worker.pc \notin {"putStub", "pollAgain"}
  <2>1. goesOn(wq.worker, wq'.worker) /\ wq.worker.from \in {"next", "waiting", "woken", "stopping"}
    BY Zenon, <1>0, <1>5 DEF findsNothing, WorkQueueTypeOK, State, Worker
  <2> QED BY Zenon, <2>1 DEF goesOn
<1>6. CASE o = null /\ findsNothing(wq.oldest)
  <2>1. wq.put[p] = <<>> \/ \E t \in Threads : wq.threads[t].pc = "link"
    BY Zenon, <1>1, <1>2, <1>6, NothingIsFound
  <2>2. Chained'
    <3>1. sameLists /\ wq'.threads = wq.threads
      BY Zenon, <1>6 DEF findsNothing, sameLists
    <3> QED BY Zenon, <1>5, <1>6, <3>1, ListsStay
  <2> QED BY Zenon, <1>0, <1>1, <1>2, <1>4, <1>6, <2>1, <2>2, NothingKeeps
<1>7. CASE o # null /\ wq.next[o] # null /\ takes(p, o)
  BY Zenon, <1>0, <1>1, <1>2, <1>4, <1>7, TakeKeeps
<1>8. CASE o # null /\ wq.next[o] = null /\ wq.newest[p] # o /\ findsNothing([wq.oldest EXCEPT ![p] = o])
  <2>1. wq.put[p] = <<>> \/ \E t \in Threads : wq.threads[t].pc = "link"
    BY Zenon, <1>1, <1>2, <1>8, NothingIsFound
  <2>2. PICK oldest : oldest = [wq.oldest EXCEPT ![p] = o] /\ findsNothing(oldest)
    BY Zenon, <1>8
  <2>3. Chained'
    <3>1. wq'.worker.pc \notin {"putStub", "pollAgain"}
      BY Zenon, <1>5, <2>2
    <3>2. wq'.oldest = [wq.oldest EXCEPT ![p] = o] /\ wq'.newest = wq.newest /\ wq'.next = wq.next /\ wq'.put = wq.put /\ wq'.threads = wq.threads
      BY Zenon, <2>2 DEF findsNothing
    <3> QED BY Zenon, <1>1, <1>2, <1>8, <3>1, <3>2, SkipKeepsLists
  <2> QED BY Zenon, <1>0, <1>1, <1>2, <1>4, <2>1, <2>2, <2>3, NothingKeeps
<1>9. CASE /\ o # null /\ wq.next[o] = null /\ wq.newest[p] = o
           /\ wq'.oldest = [wq.oldest EXCEPT ![p] = o] /\ wq'.newest = wq.newest /\ wq'.next = wq.next /\ wq'.put = wq.put
           /\ wq'.worker = [wq.worker EXCEPT !.pc = "putStub"]
           /\ wq'.threads = wq.threads /\ sameItems /\ sameTimer /\ sameSleep /\ sameEnd
  <2>1. wq'.worker.pc = "putStub" /\ wq'.worker.from = wq.worker.from /\ wq'.worker.list = wq.worker.list
    <3>1. wq.worker \in Worker
      BY Zenon, <1>0 DEF WorkQueueTypeOK, State
    <3> QED BY Zenon, <1>9, <3>1 DEF Worker
  <2>2. Chained'
    BY Zenon, <1>1, <1>2, <1>9, <2>1, SkipKeepsLists
  <2>3. polling'
    BY Zenon, <2>1 DEF polling
  <2> QED BY Zenon, <1>0, <1>4, <1>9, <2>1, <2>2, <2>3, StubKeeps
<1> QED BY Zenon, <1>4, <1>6, <1>7, <1>8, <1>9 DEF polls

(* PutStub() keeps the invariant: the stub was in no list.                 *)
LEMMA PutStubKeeps ==
  ASSUME WorkQueueInv, PutStub
  PROVE  WorkQueueInv'
<1>0. WorkQueueTypeOK /\ isProper /\ wq.worker.pc = "putStub" /\ polling
  BY Zenon DEF WorkQueueInv, WorkQueueTypeOK, PutStub, polling
<1>1. PICK p : p = wq.worker.list
  BY Zenon
<1>2. /\ WorkQueueTypeOK' /\ p \in Priorities
      /\ wq'.newest = [wq.newest EXCEPT ![p] = stub(p)] /\ wq'.oldest = wq.oldest /\ wq'.put = wq.put
      /\ wq'.next = [[wq.next EXCEPT ![stub(p)] = null] EXCEPT ![wq.newest[p]] = stub(p)]
      /\ wq'.worker = [wq.worker EXCEPT !.pc = "pollAgain"]
      /\ wq'.threads = wq.threads /\ sameItems /\ sameTimer /\ sameSleep /\ sameEnd
  BY Zenon, <1>0, <1>1, PutStubDoes
<1>3. wq'.worker.pc = "pollAgain" /\ wq'.worker.from = wq.worker.from /\ wq'.worker.list = wq.worker.list
  <2>1. wq.worker \in Worker
    BY Zenon, <1>0 DEF WorkQueueTypeOK, State
  <2> QED BY Zenon, <1>2, <2>1 DEF Worker
<1>4. PICK k, c, q : /\ isList(p, k, c, q) /\ stubIsKnown(p, k)
                     /\ isChain(p, c, wq.oldest[p], wq.newest[p], wq.next, wq.threads)
  BY <1>2, ListIs, Zenon
<1>5. k = 0
  BY Zenon, <1>0, <1>1, <1>4 DEF stubIsKnown
<1>6. /\ q = wq.put[p] /\ q \in Seq(Items) /\ Len(q) \in Nat /\ c = entries(p, q, 0) /\ c \in Seq(Entries) /\ isInjective(c)
      /\ \A j \in 1 .. Len(c) : belongs(c[j], p)
  BY Zenon, <1>4, <1>5 DEF isList
<1>7. Len(c) = Len(q) /\ \A j \in 1 .. Len(c) : c[j] = q[j] /\ q[j] \in Items
  BY Zenon, <1>4, <1>5, ListWithoutStub
<1>8. c # <<>> /\ wq.newest[p] = c[Len(c)] /\ Len(c) > 0
  BY <1>4, <1>6 DEF isChain
<1>9. stub(p) \notin Items /\ stub(p) \in Entries
  BY Zenon, <1>0, <1>2, StubIsNoItem DEF Entries
<1>10. wq.newest[p] \in Items /\ wq.newest[p] \in Entries /\ Len(c) \in 1 .. Len(c)
  BY <1>6, <1>7, <1>8
<1>11. /\ wq'.next[stub(p)] = null /\ wq'.next[wq.newest[p]] = stub(p)
       /\ \A e \in Entries : e # stub(p) /\ e # wq.newest[p] => wq'.next[e] = wq.next[e]
  <2>1. PICK newest, s, next : newest = wq.newest[p] /\ s = stub(p) /\ next = wq.next
    BY Zenon
  <2>2. newest # s /\ newest \in Entries /\ s \in Entries /\ next \in [Entries -> Entries \cup {null}]
    BY Zenon, <1>0, <1>9, <1>10, <2>1 DEF WorkQueueTypeOK, State
  <2>3. wq'.next = [[next EXCEPT ![s] = null] EXCEPT ![newest] = s]
    BY Zenon, <1>2, <2>1
  <2>4. /\ wq'.next[s] = null /\ wq'.next[newest] = s
        /\ \A e \in Entries : e # s /\ e # newest => wq'.next[e] = next[e]
    BY Zenon, <2>2, <2>3
  <2> QED BY Zenon, <2>1, <2>4
<1>12. wq'.newest[p] = stub(p) /\ \A r \in Priorities \ {p} : wq'.newest[r] = wq.newest[r]
  BY <1>0, <1>2 DEF WorkQueueTypeOK, State
<1>13. listIsChain(p)'
  <2>1. PICK oldest, newest, next, next2, threads, e, n :
          /\ oldest = wq.oldest[p] /\ newest = wq.newest[p] /\ next = wq.next /\ next2 = wq'.next /\ threads = wq.threads
          /\ e = stub(p) /\ n = Len(q) + 1
    BY Zenon
  <2>2. isChain(p, c, oldest, newest, next, threads)
    BY Zenon, <1>4, <2>1
  <2>3. next2[e] = null /\ next2[newest] = e /\ \A j \in 1 .. Len(c) : c[j] # e
    BY Zenon, <1>7, <1>9, <1>11, <2>1
  <2>4. ASSUME NEW j \in 1 .. Len(c) - 1 PROVE next2[c[j]] = next[c[j]]
    <3>1. j \in 1 .. Len(c) /\ j # Len(c)
      BY <1>6
    <3>2. c[j] # newest /\ c[j] # e /\ c[j] \in Entries
      BY <1>6, <1>8, <1>10, <2>1, <2>3, <3>1 DEF isInjective
    <3> QED BY Zenon, <1>11, <2>1, <3>2
  <2>5. isChain(p, Append(c, e), oldest, e, next2, threads)
    BY Zenon, <1>6, <2>2, <2>3, <2>4, ChainGetsStub
  <2>6. Append(c, e) = entries(p, q, n)
    BY Zenon, <1>0, <1>2, <1>6, <2>1, EntriesWithStub
  <2>7. isChain(p, entries(p, wq'.put[p], n), wq'.oldest[p], wq'.newest[p], wq'.next, wq'.threads)
    BY Zenon, <1>2, <1>6, <1>12, <2>1, <2>5, <2>6
  <2>8. n \in 0 .. Len(wq'.put[p]) + 1 /\ n > 1
    BY <1>2, <1>6, <1>7, <1>8, <2>1
  <2>9. stubIsKnown(p, n)'
    BY Zenon, <1>3, <2>8 DEF stubIsKnown
  <2> QED BY <2>7, <2>8, <2>9, Zenon DEF listIsChain
<1>14. ASSUME NEW r \in Priorities, r # p PROVE listIsChain(r)'
  <2>1. belongs(stub(p), p) /\ belongs(wq.newest[p], p)
    BY Zenon, <1>6, <1>8, <1>10 DEF belongs
  <2>2. \A e \in Entries : belongs(e, r) => wq'.next[e] = wq.next[e]
    BY Zenon, <1>0, <1>2, <1>11, <1>14, <2>1, BelongsToOne
  <2> QED BY Zenon, <1>1, <1>2, <1>3, <1>12, <1>14, <2>2, ListStays
<1>15. Chained' /\ polling'
  BY Zenon, <1>3, <1>13, <1>14 DEF Chained, polling
<1> QED BY Zenon, <1>0, <1>2, <1>3, <1>15, StubKeeps

(* PollAgain() keeps the invariant: behind the oldest there is the stub.   *)
LEMMA PollAgainKeeps ==
  ASSUME WorkQueueInv, PollAgain
  PROVE  WorkQueueInv'
<1>0. WorkQueueTypeOK /\ isProper /\ wq.worker.pc = "pollAgain" /\ polling
  BY Zenon DEF WorkQueueInv, WorkQueueTypeOK, PollAgain, polling
<1>1. PICK p, o : p = wq.worker.list /\ o = wq.oldest[p]
  BY Zenon
<1>2. p \in Priorities
  BY Zenon, <1>0, <1>1 DEF WorkQueueTypeOK, State, Worker
<1>3. PICK k, c, q : /\ isList(p, k, c, q) /\ stubIsKnown(p, k)
                     /\ isChain(p, c, wq.oldest[p], wq.newest[p], wq.next, wq.threads)
  BY <1>2, ListIs, Zenon
<1>4. k > 1
  BY Zenon, <1>0, <1>1, <1>3 DEF stubIsKnown
<1>5. /\ q \in Seq(Items) /\ Len(q) \in Nat /\ k \in 0 .. Len(q) + 1 /\ isInjective(c)
      /\ Len(c) = (IF k = 0 THEN Len(q) ELSE Len(q) + 1)
      /\ \A j \in 1 .. Len(c) : c[j] = (IF k = 0 \/ j < k THEN q[j] ELSE IF j = k THEN stub(p) ELSE q[j - 1])
  BY <1>3, Zenon DEF isList
<1>6. Len(c) = Len(q) + 1 /\ Len(q) >= 1 /\ 1 \in 1 .. Len(c) /\ Len(c) \in 1 .. Len(c)
  BY <1>4, <1>5
<1>7. c[1] = q[1] /\ q[1] \in Items
  BY <1>4, <1>5, <1>6
<1>8. o = c[1] /\ wq.newest[p] = c[Len(c)]
  BY Zenon, <1>1, <1>3 DEF isChain
<1>9. o \in Items /\ o = oldestItem(p) /\ o # null
  BY Zenon, <1>0, <1>1, <1>2, <1>7, <1>8, StubIsNoItem DEF oldestItem
<1>10. wq.newest[p] # o
  BY <1>5, <1>6, <1>8 DEF isInjective
<1>11. comesNext(wq, p, o)
  BY Zenon, <1>2, <1>9, OldestIs
<1>12. /\ WorkQueueTypeOK'
       /\ \/ wq.next[o] = null /\ findsNothing(wq.oldest)
          \/ wq.next[o] # null /\ takes(p, o)
  BY Zenon, <1>0, <1>1, <1>9, <1>11, PollAgainDoes
<1>13. CASE wq.next[o] = null /\ findsNothing(wq.oldest)
  <2>1. wq.put[p] = <<>> \/ \E t \in Threads : wq.threads[t].pc = "link"
    BY Zenon, <1>2, <1>9, <1>10, <1>13, NothingIsFound
  <2>2. wq'.worker.pc \notin {"putStub", "pollAgain"}
    <3>1. goesOn(wq.worker, wq'.worker) /\ wq.worker.from \in {"next", "waiting", "woken", "stopping"}
      BY Zenon, <1>0, <1>13 DEF findsNothing, WorkQueueTypeOK, State, Worker
    <3> QED BY <3>1 DEF goesOn
  <2>3. Chained'
    <3>1. sameLists /\ wq'.threads = wq.threads
      BY Zenon, <1>13 DEF findsNothing, sameLists
    <3> QED BY Zenon, <2>2, <3>1, ListsStay
  <2> QED BY Zenon, <1>0, <1>1, <1>2, <1>12, <1>13, <2>1, <2>3, NothingKeeps
<1>14. CASE wq.next[o] # null /\ takes(p, o)
  BY Zenon, <1>0, <1>2, <1>9, <1>12, <1>14, TakeKeeps
<1> QED BY Zenon, <1>12, <1>13, <1>14

(* A step of the worker which neither polls nor is to sleep, or starts to  *)
(* poll otherwise than to sleep or to stop, disturbs nobody.               *)
LEMMA WorkerKeeps ==
  ASSUME WorkQueueInv, WorkQueueTypeOK', sameLists, sameItems, sameTimer, wq'.threads = wq.threads, sameEnd,
         wq.worker.pc # "exited", wq'.worker.pc \in {"poll", "setIdle"},
         wq'.worker.pc = "poll" => wq'.worker.from \in {"next", "woken"}
  PROVE  WorkQueueInv'
<1>1. Chained' /\ Marked' /\ Linking' /\ Timed'
  BY Zenon, WorkerSteps
<1>2. Awakened'
  BY Zenon DEF WorkQueueInv, Awakened, polling
<1>3. ~wq'.freed
  BY Zenon, NotFreed DEF sameEnd
<1>4. Finished'
  BY Zenon, <1>3 DEF WorkQueueInv, Finished, polling, sameEnd
<1> QED BY Zenon, <1>1, <1>2, <1>4 DEF WorkQueueInv

(* What a step of the worker does which is not part of a poll.             *)
LEMMA AtDoes ==
  ASSUME WorkQueueTypeOK, NEW pc \in WorkerPCs, NEW waiting \in BOOLEAN,
         wq' = [wq EXCEPT !.waiting = waiting, !.worker.pc = pc]
  PROVE  /\ WorkQueueTypeOK' /\ sameLists /\ wq'.threads = wq.threads /\ sameItems /\ sameTimer /\ sameEnd
         /\ wq'.worker.pc = pc /\ wq'.worker.from = wq.worker.from
         /\ wq'.idle = wq.idle /\ wq'.waiting = waiting
<1>1. PICK worker : worker = [wq.worker EXCEPT !.pc = pc]
  BY Zenon
<1>2. worker \in Worker /\ worker.pc = pc /\ worker.from = wq.worker.from
  <2>1. wq.worker \in Worker
    BY Zenon DEF WorkQueueTypeOK, State
  <2> QED BY Zenon, <1>1, <2>1 DEF Worker
<1>3. wq' = [wq EXCEPT !.waiting = waiting, !.worker = worker]
  BY Zenon, <1>1
<1>4. WorkQueueTypeOK'
  BY ZenonT(30), <1>2, <1>3 DEF WorkQueueTypeOK, State, isProper
<1>5. wq'.worker = worker /\ wq'.threads = wq.threads /\ wq'.idle = wq.idle /\ wq'.waiting = waiting
  BY Zenon, <1>3 DEF WorkQueueTypeOK, State
<1>6. sameLists /\ sameItems /\ sameTimer /\ sameEnd
  BY <1>3 DEF WorkQueueTypeOK, State, sameLists, sameItems, sameTimer, sameEnd
<1> QED BY Zenon, <1>2, <1>4, <1>5, <1>6

(* getNextWorkItem(), Wake() and Heartbeat() keep the invariant: they      *)
(* start to poll.                                                          *)
LEMMA StartsKeep ==
  ASSUME WorkQueueInv, getNextWorkItem \/ Wake \/ Heartbeat
  PROVE  WorkQueueInv'
<1>0. WorkQueueTypeOK /\ wq.worker.item \in Items \cup {null} /\ wq.idle \in BOOLEAN /\ wq.waiting \in BOOLEAN /\ wq.heartbeats \in Int
  BY Zenon DEF WorkQueueInv, WorkQueueTypeOK, State, Worker
<1>1. wq.worker.pc # "exited"
  BY Zenon DEF getNextWorkItem, Wake, Heartbeat
<1>2. \E from \in {"next", "woken"}, item \in Items \cup {null}, waiting \in BOOLEAN, n \in Int :
        starts(from, item, wq.idle, waiting, n)
  <2>1. CASE getNextWorkItem
    <3>1. PICK first, worker : /\ first = [pc |-> "poll", from |-> "next", list |-> numPriorityLists, item |-> wq.worker.item]
                               /\ worker = [pc |-> "poll", from |-> "next", list |-> numPriorityLists, item |-> null]
      BY Zenon
    <3>2. wq' = [[wq EXCEPT !.worker = first] EXCEPT !.worker.item = null]
      BY Zenon, <2>1, <3>1 DEF getNextWorkItem, startPoll
    <3>3. [first EXCEPT !.item = null] = worker
      BY <3>1
    <3>4. wq' = [wq EXCEPT !.worker = worker, !.idle = wq.idle, !.waiting = wq.waiting, !.heartbeats = wq.heartbeats]
      BY Zenon, <1>0, <3>2, <3>3 DEF WorkQueueTypeOK, State
    <3>5. starts("next", null, wq.idle, wq.waiting, wq.heartbeats)
      BY Zenon, <3>1, <3>4 DEF starts
    <3> QED BY Zenon, <1>0, <3>5
  <2>2. CASE Wake
    <3>1. starts("woken", wq.worker.item, wq.idle, wq.waiting, wq.heartbeats)
      BY Zenon, <1>0, <2>2 DEF Wake, startPoll, WorkQueueTypeOK, State, starts
    <3> QED BY Zenon, <1>0, <3>1
  <2>3. CASE Heartbeat
    <3>1. starts("woken", wq.worker.item, wq.idle, FALSE, wq.heartbeats - 1)
      BY Zenon, <1>0, <2>3 DEF Heartbeat, startPoll, WorkQueueTypeOK, State, starts
    <3>2. wq.heartbeats - 1 \in Int /\ FALSE \in BOOLEAN /\ "woken" \in {"next", "woken"}
      BY <1>0
    <3> QED BY <1>0, <3>1, <3>2, Zenon
  <2> QED BY Zenon, <2>1, <2>2, <2>3
<1>3. PICK from \in {"next", "woken"}, item \in Items \cup {null}, waiting \in BOOLEAN, n \in Int :
        starts(from, item, wq.idle, waiting, n)
  BY Zenon, <1>2
<1>4. /\ WorkQueueTypeOK' /\ sameLists /\ wq'.threads = wq.threads /\ sameItems /\ sameTimer /\ sameEnd
      /\ wq'.worker.pc = "poll" /\ wq'.worker.from = from
  <2>1. from \in {"next", "waiting", "woken", "stopping"}
    BY Zenon
  <2> QED BY <1>0, <1>3, <2>1, StartPollDoes
<1> QED BY Zenon, <1>1, <1>4, WorkerKeeps

(* waitForNextWorkItem() keeps the invariant: a worker which has become    *)
(* idle has seen none of the lists.                                        *)
LEMMA WaitKeeps ==
  ASSUME WorkQueueInv, waitForNextWorkItem
  PROVE  WorkQueueInv'
<1>0. /\ WorkQueueTypeOK /\ Awakened /\ Finished /\ wq.worker.item \in Items \cup {null} /\ wq.idle \in BOOLEAN
      /\ wq.waiting \in BOOLEAN /\ wq.heartbeats \in Int
  BY Zenon DEF WorkQueueInv, WorkQueueTypeOK, State, Worker
<1>1. CASE wq.worker.pc = "prepareToWait" /\ wq' = [wq EXCEPT !.waiting = TRUE, !.worker.pc = "setIdle"]
  <2>1. "setIdle" \in WorkerPCs
    BY Zenon DEF WorkerPCs
  <2>2. /\ WorkQueueTypeOK' /\ sameLists /\ wq'.threads = wq.threads /\ sameItems /\ sameTimer /\ sameEnd
        /\ wq'.worker.pc = "setIdle"
    BY Zenon, <1>0, <1>1, <2>1, AtDoes
  <2> QED BY Zenon, <1>1, <2>2, WorkerKeeps
<1>2. CASE wq.worker.pc = "setIdle" /\ wq' = [startPoll(wq, "waiting") EXCEPT !.idle = TRUE]
  <2>1. starts("waiting", wq.worker.item, TRUE, wq.waiting, wq.heartbeats)
    BY Zenon, <1>0, <1>2 DEF startPoll, WorkQueueTypeOK, State, starts
  <2>2. /\ WorkQueueTypeOK' /\ sameLists /\ wq'.threads = wq.threads /\ sameItems /\ sameTimer /\ sameEnd
        /\ wq'.worker.pc = "poll" /\ wq'.worker.from = "waiting" /\ wq'.worker.list = numPriorityLists /\ wq'.idle = TRUE
    BY Zenon, <1>0, <2>1, StartPollDoes
  <2>3. Chained' /\ Marked' /\ Linking' /\ Timed'
    BY Zenon, <2>2, WorkerSteps
  <2>4. \A p \in Priorities : ~seen(p)'
    <3>1. \A p \in Priorities : ~(p > numPriorityLists)
      BY <1>0 DEF Priorities, WorkQueueTypeOK, isProper
    <3> QED BY Zenon, <2>2, <3>1 DEF seen, polling
  <2>5. Awakened'
    BY Zenon, <1>0, <2>2, <2>4 DEF Awakened
  <2>6. ~wq'.freed
    BY Zenon, <1>2, <2>2, NotFreed DEF sameEnd
  <2>7. Finished'
    BY Zenon, <1>0, <2>2, <2>6 DEF Finished, sameEnd
  <2> QED BY Zenon, <2>2, <2>3, <2>5, <2>7 DEF WorkQueueInv
<1> QED BY Zenon, <1>1, <1>2 DEF waitForNextWorkItem

(* CheckStop() keeps the invariant: the worker polls for the last time     *)
(* when it is to stop and nothing is delayed.                              *)
LEMMA CheckStopKeeps ==
  ASSUME WorkQueueInv, CheckStop
  PROVE  WorkQueueInv'
<1>0. /\ WorkQueueTypeOK /\ Awakened /\ Finished /\ wq.worker.item \in Items \cup {null} /\ wq.idle \in BOOLEAN
      /\ wq.waiting \in BOOLEAN /\ wq.heartbeats \in Int
  BY DEF WorkQueueInv, WorkQueueTypeOK, State, Worker
<1>1. wq.worker.pc = "checkStop" /\ ~wq.freed
  BY Zenon, NotFreed DEF CheckStop
<1>2. CASE wq.shouldStop /\ ~hasDelayedWorkItems
  <2>1. starts("stopping", wq.worker.item, wq.idle, wq.waiting, wq.heartbeats)
    BY Zenon, <1>0, <1>2 DEF CheckStop, startPoll, WorkQueueTypeOK, State, starts
  <2>2. /\ WorkQueueTypeOK' /\ sameLists /\ wq'.threads = wq.threads /\ sameItems /\ sameTimer /\ sameEnd
        /\ wq'.worker.pc = "poll" /\ wq'.worker.from = "stopping" /\ wq'.worker.list = numPriorityLists
    BY Zenon, <1>0, <2>1, StartPollDoes
  <2>3. Chained' /\ Marked' /\ Linking' /\ Timed'
    BY Zenon, <2>2, WorkerSteps
  <2>4. \A p \in Priorities : ~seen(p)'
    <3>1. \A p \in Priorities : ~(p > numPriorityLists)
      BY <1>0 DEF Priorities, WorkQueueTypeOK, isProper
    <3> QED BY Zenon, <2>2, <3>1 DEF seen, polling
  <2>5. Awakened'
    BY Zenon, <1>0, <2>2 DEF Awakened
  <2>6. wq'.shouldStop /\ wq'.delayedItems = <<>> /\ wq'.lock = -1 /\ ~wq'.freed
    BY Zenon, <1>1, <1>2, <2>2 DEF CheckStop, hasDelayedWorkItems, sameEnd, sameItems, sameTimer
  <2>7. Finished'
    BY Zenon, <1>0, <1>2, <2>2, <2>4, <2>6 DEF Finished
  <2> QED BY Zenon, <2>2, <2>3, <2>5, <2>7 DEF WorkQueueInv
<1>3. CASE ~(wq.shouldStop /\ ~hasDelayedWorkItems)
  <2>1. wq' = [wq EXCEPT !.waiting = wq.waiting, !.worker.pc = "sleep"] /\ "sleep" \in WorkerPCs
    BY Zenon, <1>0, <1>3 DEF CheckStop, at, WorkQueueTypeOK, State, WorkerPCs
  <2>2. /\ WorkQueueTypeOK' /\ sameLists /\ wq'.threads = wq.threads /\ sameItems /\ sameTimer /\ sameEnd
        /\ wq'.worker.pc = "sleep" /\ wq'.worker.from = wq.worker.from /\ wq'.idle = wq.idle /\ wq'.waiting = wq.waiting
    BY Zenon, <1>0, <2>1, AtDoes
  <2>3. Chained' /\ Marked' /\ Linking' /\ Timed'
    BY Zenon, <2>2, WorkerSteps
  <2>4. \A p \in Priorities : seen(p)
    BY Zenon, <1>1 DEF seen, polling
  <2>5. Awakened'
    BY Zenon, <1>0, <1>1, <2>2, <2>4 DEF Awakened, sameLists
  <2>6. Finished'
    BY Zenon, <1>0, <1>1, <2>2 DEF Finished, polling, sameEnd
  <2> QED BY Zenon, <2>2, <2>3, <2>5, <2>6 DEF WorkQueueInv
<1> QED BY Zenon, <1>2, <1>3

(* A step which changes none of this keeps the invariant.                  *)
LEMMA NothingChanges ==
  ASSUME WorkQueueInv, WorkQueueTypeOK', sameLists, sameItems, sameTimer, sameSleep, wq'.worker = wq.worker,
         wq'.threads = wq.threads, wq'.shouldStop = wq.shouldStop, wq'.freed => wq.worker.pc = "exited"
  PROVE  WorkQueueInv'
<1>1. Chained' /\ Marked' /\ Linking' /\ Timed'
  BY Zenon, WorkerSteps
<1>2. Awakened'
  BY Zenon DEF WorkQueueInv, Awakened, polling, seen, sameLists, sameSleep
<1>3. Finished'
  BY Zenon DEF WorkQueueInv, Finished, polling, seen, sameLists, sameItems, sameTimer
<1> QED BY Zenon, <1>1, <1>2, <1>3 DEF WorkQueueInv

(* Tick() and freeSimpleWorkQueue() keep the invariant.                    *)
LEMMA TickAndFreeKeep ==
  ASSUME WorkQueueInv, Tick \/ freeSimpleWorkQueue \/ UNCHANGED wq
  PROVE  WorkQueueInv'
<1>0. WorkQueueTypeOK /\ (wq.freed => wq.worker.pc = "exited")
  BY Zenon DEF WorkQueueInv, Finished
<1>1. CASE Tick
  <2>1. PICK n : n = wq.jiffies + 1
    BY Zenon
  <2>2. wq' = [wq EXCEPT !.jiffies = n] /\ n \in Int
    BY <1>0, <1>1, <2>1 DEF Tick, WorkQueueTypeOK, State
  <2>3. WorkQueueTypeOK'
    BY Zenon, <1>0, <2>2 DEF WorkQueueTypeOK, State, isProper
  <2>4. sameLists /\ sameItems /\ sameTimer /\ sameSleep /\ sameEnd /\ wq'.worker = wq.worker /\ wq'.threads = wq.threads
    BY Zenon, <1>0, <2>2 DEF WorkQueueTypeOK, State, sameLists, sameItems, sameTimer, sameSleep, sameEnd
  <2> QED BY Zenon, <1>0, <2>3, <2>4, NothingChanges DEF sameEnd
<1>2. CASE freeSimpleWorkQueue
  <2>1. wq' = [wq EXCEPT !.freed = TRUE] /\ wq.worker.pc = "exited"
    BY Zenon, <1>2 DEF freeSimpleWorkQueue
  <2>2. WorkQueueTypeOK'
    BY Zenon, <1>0, <2>1 DEF WorkQueueTypeOK, State, isProper
  <2>3. sameLists /\ sameItems /\ sameTimer /\ sameSleep /\ wq'.shouldStop = wq.shouldStop /\ wq'.worker = wq.worker /\ wq'.threads = wq.threads
    BY Zenon, <1>0, <2>1 DEF WorkQueueTypeOK, State, sameLists, sameItems, sameTimer, sameSleep
  <2> QED BY Zenon, <2>1, <2>2, <2>3, NothingChanges
<1>3. CASE UNCHANGED wq
  <2>1. WorkQueueTypeOK'
    BY Zenon, <1>0, <1>3 DEF WorkQueueTypeOK, isProper
  <2>2. sameLists /\ sameItems /\ sameTimer /\ sameSleep /\ sameEnd /\ wq'.worker = wq.worker /\ wq'.threads = wq.threads
    BY Zenon, <1>3 DEF sameLists, sameItems, sameTimer, sameSleep, sameEnd
  <2> QED BY <1>0, <2>1, <2>2, NothingChanges DEF sameEnd
<1> QED BY Zenon, <1>1, <1>2, <1>3

(* finishSimpleWorkQueue() keeps the invariant: an item which somebody is  *)
(* putting is in a list, and only delayed items are left.                  *)
LEMMA FinishKeeps ==
  ASSUME WorkQueueInv, finishSimpleWorkQueue
  PROVE  WorkQueueInv'
<1>0. WorkQueueTypeOK /\ Marked /\ Awakened /\ Finished
  BY Zenon DEF WorkQueueInv
<1>1. ~wq.shouldStop /\ wq.myQueue = {wq.delayedItems[i] : i \in DOMAIN wq.delayedItems}
  BY Zenon DEF finishSimpleWorkQueue
<1>2. wq' = [wq EXCEPT !.shouldStop = TRUE, !.waiting = FALSE]
  BY Zenon DEF finishSimpleWorkQueue
<1>3. WorkQueueTypeOK'
  BY Zenon, <1>0, <1>2 DEF WorkQueueTypeOK, State, isProper
<1>4. /\ sameLists /\ sameItems /\ sameTimer /\ wq'.worker = wq.worker /\ wq'.threads = wq.threads
      /\ wq'.freed = wq.freed /\ wq'.waiting = FALSE
  BY Zenon, <1>0, <1>2 DEF WorkQueueTypeOK, State, sameLists, sameItems, sameTimer
<1>5. Chained' /\ Marked' /\ Linking' /\ Timed'
  BY Zenon, <1>4, WorkerSteps
<1>6. Awakened'
  BY Zenon, <1>0, <1>4 DEF Awakened
<1>7. ASSUME NEW t \in Threads, wq.threads[t].pc = "link" PROVE FALSE
  <2>1. PICK p : p = ItemPriority[wq.threads[t].item]
    BY Zenon
  <2>2. p \in Priorities /\ \E i \in DOMAIN wq.put[p] : wq.put[p][i] = wq.threads[t].item
    BY Zenon, <1>7, <2>1, LinksInItsList
  <2>3. PICK i \in DOMAIN wq.put[p] : wq.put[p][i] = wq.threads[t].item
    BY Zenon, <2>2
  <2>4. wq.put[p][i] \in wq.myQueue /\ \A j \in DOMAIN wq.delayedItems : wq.put[p][i] # wq.delayedItems[j]
    BY <1>0, <2>2 DEF Marked
  <2> QED BY Zenon, <1>1, <2>4
<1>8. Finished'
  <2>1. ~last /\ ~wq.freed
    BY Zenon, <1>0, <1>1 DEF last, Finished
  <2> QED BY Zenon, <1>4, <1>7, <2>1 DEF Finished, last, polling
<1> QED BY Zenon, <1>3, <1>5, <1>6, <1>8 DEF WorkQueueInv

-----------------------------------------------------------------------------
(* The work queue is correct                                               *)

(* Every step keeps the invariant.                                         *)
LEMMA NextKeeps ==
  ASSUME WorkQueueInv, [Next]_wq
  PROVE  WorkQueueInv'
<1>1. ASSUME NEW t \in Threads,
             enqueueWorkQueue(t) \/ enqueueWorkQueueDelayed(t) \/ Link(t) \/ CheckIdle(t) \/ ModTimer(t) \/ WakeWorker(t)
      PROVE  WorkQueueInv'
  BY Zenon, <1>1, EnqueueKeeps, DelayKeeps, LinkKeeps, CheckIdleKeeps, ModTimerKeeps, WakeWorkerKeeps
<1>2. CASE processDelayedWorkItems
  BY <1>2, ProcessDelayedKeeps
<1>3. CASE ContinueDelayed
  BY Zenon, <1>3, ContinueDelayedPutKeeps, ContinueDelayedEndKeeps
<1>4. CASE pollForWorkItem \/ PutStub \/ PollAgain
  BY Zenon, <1>4, PollKeeps, PutStubKeeps, PollAgainKeeps
<1>5. CASE getNextWorkItem \/ waitForNextWorkItem \/ CheckStop \/ Wake \/ Heartbeat
  BY <1>5, StartsKeep, WaitKeeps, CheckStopKeeps
<1>6. CASE finishSimpleWorkQueue
  BY <1>6, FinishKeeps
<1>7. CASE Tick \/ freeSimpleWorkQueue \/ UNCHANGED wq
  BY Zenon, <1>7, TickAndFreeKeep
<1> QED BY Zenon, <1>1, <1>2, <1>3, <1>4, <1>5, <1>6, <1>7 DEF Next

(* The invariant of a simple work queue.                                   *)
THEOREM WorkQueueIsInvariant ==
  ASSUME isProper
  PROVE  Spec => []WorkQueueInv
<1>1. Init => WorkQueueInv
  BY Zenon, InitIsProper
<1>2. WorkQueueInv /\ [Next]_wq => WorkQueueInv'
  BY Zenon, NextKeeps
<1> QED BY <1>1, <1>2, PTL DEF Spec

(* No item, wakeup or timer is lost, whatever the threads and the worker   *)
(* interleave (waitForNextWorkItem(), enqueueWorkQueueItem(),              *)
(* processDelayedWorkItems()).                                             *)
THEOREM NobodyEverWaitsForever ==
  ASSUME isProper
  PROVE  Spec => []NobodyWaitsForever
<1>1. WorkQueueInv => NobodyWaitsForever
  <2> SUFFICES ASSUME WorkQueueInv PROVE NobodyWaitsForever
    BY Zenon
  <2>0. WorkQueueTypeOK /\ Marked /\ Timed /\ Awakened /\ Finished
    BY Zenon DEF WorkQueueInv
  <2>1. ASSUME quiet, wq.worker.pc = "sleep", wq.waiting, NEW p \in Priorities PROVE wq.put[p] = <<>>
    <3>1. wq.worker.from = "waiting" /\ seen(p)
      BY Zenon, <2>0, <2>1 DEF Awakened, seen, polling
    <3>2. \A t \in Threads : wq.threads[t].pc \notin {"link", "checkIdle"} /\ ~wq.threads[t].wakes
      BY Zenon, <2>0, <2>1 DEF Awakened, quiet
    <3> QED BY Zenon, <2>0, <2>1, <3>1, <3>2 DEF Awakened
  <2>2. ASSUME quiet, wq.delayedItems # <<>> PROVE wq.timer # -1
    <3>1. Timer \in Threads /\ wq.lock \in {-1, Timer}
      BY <2>0 DEF WorkQueueTypeOK, State, isProper, Timer, Threads
    <3>2. wq.lock = -1
      BY Zenon, <2>0, <2>2, <3>1 DEF quiet, Timed
    <3> QED BY Zenon, <2>0, <2>2, <3>2 DEF quiet, Timed
  <2>3. ASSUME wq.worker.pc = "exited" PROVE wq.myQueue = {}
    <3>1. wq.delayedItems = <<>> /\ \A p \in Priorities : wq.put[p] = <<>>
      BY Zenon, <2>0, <2>3 DEF Finished, seen, polling
    <3>2. \A i \in wq.myQueue : ItemPriority[i] \in Priorities
      BY Zenon, <2>0 DEF WorkQueueTypeOK, State, isProper
    <3>3. DOMAIN wq.delayedItems = {} /\ \A p \in Priorities : DOMAIN wq.put[p] = {}
      BY <3>1
    <3> QED BY <2>0, <3>2, <3>3 DEF Marked
  <2>4. wq.late \cap {"put", "timer"} = {}
    BY Zenon, <2>0 DEF WorkQueueTypeOK, State
  <2> QED BY Zenon, <2>1, <2>2, <2>3, <2>4 DEF NobodyWaitsForever
<1> QED BY <1>1, WorkQueueIsInvariant, PTL

(* Items come out of each list once and in the order in which they were    *)
(* put, though the lists are not linked while a put is half done           *)
(* (funnelQueuePoll(), getOldest(), funnelQueuePut()).                     *)
THEOREM NoWorkQueueAssertionFails ==
  ASSUME isProper
  PROVE  Spec => []NoAssertionFails
<1>1. WorkQueueInv => NoAssertionFails
  BY Zenon DEF WorkQueueInv, WorkQueueTypeOK, State, NoAssertionFails
<1> QED BY <1>1, WorkQueueIsInvariant, PTL

=============================================================================
