------------------------ MODULE SuspendResumeProofs -------------------------
(***************************************************************************)
(* The invariants of ReadOnlyNotifier, for any number of threads and of    *)
(* listeners, and those of SuspendResume, for any assignment of threads to *)
(* the components of the VDO.                                              *)
(***************************************************************************)
EXTENDS SuspendResume, TLAPS

-----------------------------------------------------------------------------
(* The notifier.  The strengthening says how far the notification has      *)
(* come: the threads before the completion's have been told with all of    *)
(* their listeners, those after it have not, and while notifications have  *)
(* not begun the completion is as it was made.                             *)

(* The completion is where the notification is.                            *)
Progress ==
  /\ completion.does \in {"queued", "notify"} =>
       /\ \A t \in Threads : t < completion.thread => isReadOnly[t] /\ heard[t] = ListenerCount[t]
       /\ \A t \in Threads : t > completion.thread => heard[t] = 0
       /\ heard[completion.thread] = completion.listener
       /\ completion.listener <= ListenerCount[completion.thread]
  /\ completion.does = "finish" => \A t \in Threads : isReadOnly[t] /\ heard[t] = ListenerCount[t]

Unstarted ==
  /\ completion = [does |-> "nothing", thread |-> 0, listener |-> 0]
  /\ \A t \in Threads : heard[t] = 0

IInv ==
  /\ TypeOK
  /\ ErrorIsAnnounced
  /\ \A t \in entering : readOnlyError = t
  /\ state \in {"may notify", "may not notify"} => Unstarted
  /\ state = "notifying" => inProgress /\ Progress /\ readOnlyError # NoError
  /\ state = "notified" => /\ ~inProgress /\ readOnlyError # NoError
                           /\ \A t \in Threads : isReadOnly[t] /\ heard[t] = ListenerCount[t]
  /\ admin = "waiting" <=> waiter # "none"
  /\ waiter # "none" => state = "notifying"
  /\ admin = "pending" => readOnlyError # NoError
  /\ admin = "wait" => state \in {"may notify", "notifying"}
  /\ disallowed => admin = "idle" /\ state \in {"may not notify", "notified"}

(* The threads are at least two, and the admin thread is one of them.      *)
LEMMA AdminIsThread == 0 \in Threads /\ \A t \in Threads : t \in Nat /\ t < ThreadCount /\ 0 <= t
  BY ThreadsAssumption DEF Threads

(* Before the notification its completion is idle.                        *)
LEMMA UnstartedIsIdle ==
  Unstarted => ~inProgress /\ completion.does = "nothing" /\ completion.thread = 0 /\ completion.listener = 0
  BY DEF Unstarted, inProgress

(* A completion in use is the notification's.                              *)
LEMMA BusyIsNotifying == IInv /\ completion.does # "nothing" => state = "notifying"
  BY UnstartedIsIdle DEF IInv, TypeOK, States, inProgress

(* What makeThreadReadOnly() does to the progress of the notification.     *)
LEMMA MakeThreadReadOnlyAdvances ==
  ASSUME TypeOK, NEW t \in Threads, NEW listener \in Nat,
         makeThreadReadOnly(t, listener),
         listener <= ListenerCount[t],
         heard[t] = listener,
         \A u \in Threads : u < t => isReadOnly[u] /\ heard[u] = ListenerCount[u],
         \A u \in Threads : u > t => heard[u] = 0
  PROVE  /\ completion' \in Completions /\ completion'.does # "nothing"
         /\ heard' \in [Threads -> Nat] /\ isReadOnly' \in [Threads -> BOOLEAN]
         /\ Progress'
<1> USE ThreadsAssumption, AdminIsThread
<1>1. isReadOnly' = [isReadOnly EXCEPT ![t] = TRUE] /\ isReadOnly' \in [Threads -> BOOLEAN]
  BY DEF makeThreadReadOnly, TypeOK
<1>2. \A u \in Threads : isReadOnly'[u] = (IF u = t THEN TRUE ELSE isReadOnly[u])
  BY <1>1 DEF TypeOK
<1>3. CASE listener < ListenerCount[t]
  <2>1. /\ completion' = [does |-> "notify", thread |-> t, listener |-> listener + 1]
        /\ heard' = [heard EXCEPT ![t] = @ + 1]
    BY <1>3 DEF makeThreadReadOnly
  <2>2. heard' \in [Threads -> Nat] /\ \A u \in Threads : heard'[u] = IF u = t THEN listener + 1 ELSE heard[u]
    BY <2>1 DEF TypeOK
  <2>3. ListenerCount[t] \in Nat
    OBVIOUS
  <2>4. completion' \in Completions /\ completion'.does # "nothing"
    BY <2>1 DEF Completions
  <2>5. Progress'
    BY <1>1, <1>2, <1>3, <2>1, <2>2, <2>3 DEF Progress
  <2> QED
    BY Zenon, <1>1, <2>2, <2>4, <2>5
<1>4. CASE ~(listener < ListenerCount[t])
  <2>1. heard' = heard /\ heard[t] = ListenerCount[t]
    BY <1>4 DEF makeThreadReadOnly
  <2>2. heard \in [Threads -> Nat]
    BY DEF TypeOK
  <2>3. CASE t + 1 < ThreadCount
    <3>1. completion' = [does |-> "queued", thread |-> t + 1, listener |-> 0]
      BY <1>4, <2>3 DEF makeThreadReadOnly
    <3>2. t + 1 \in Threads
      BY <2>3 DEF Threads
    <3>3. completion' \in Completions /\ completion'.does # "nothing"
      BY <3>1, <3>2 DEF Completions
    <3>4. \A u \in Threads : u < t + 1 => u < t \/ u = t
      BY DEF Threads
    <3>5. \A u \in Threads : u > t + 1 => u > t
      BY DEF Threads
    <3>6. \A u \in Threads : u < t + 1 => isReadOnly'[u] /\ heard'[u] = ListenerCount[u]
      BY Zenon, <1>2, <2>1, <3>4
    <3>7. heard'[t + 1] = 0 /\ 0 <= ListenerCount[t + 1] /\ \A u \in Threads : u > t + 1 => heard'[u] = 0
      BY <2>1, <3>2, <3>5 DEF Threads
    <3>8. Progress'
      BY <3>1, <3>6, <3>7 DEF Progress
    <3> QED
      BY Zenon, <1>1, <2>1, <2>2, <3>3, <3>8
  <2>4. CASE ~(t + 1 < ThreadCount)
    <3>1. completion' = [does |-> "finish", thread |-> 0, listener |-> 0]
      BY <1>4, <2>4 DEF makeThreadReadOnly, AdminThread
    <3>2. completion' \in Completions /\ completion'.does # "nothing"
      BY <3>1 DEF Completions
    <3>3. \A u \in Threads : u < t \/ u = t
      BY <2>4 DEF Threads
    <3>4. Progress'
      BY Zenon, <1>2, <2>1, <3>1, <3>3 DEF Progress
    <3> QED
      BY Zenon, <1>1, <2>1, <2>2, <3>2, <3>4
  <2> QED
    BY <2>3, <2>4
<1> QED
  BY <1>3, <1>4

(* The initial states satisfy the invariant, whether or not the VDO was    *)
(* read-only already.                                                      *)
LEMMA InitIInv == Init => IInv
<1> SUFFICES ASSUME NEW wasReadOnly \in BOOLEAN, makeReadOnlyNotifier(wasReadOnly)
             PROVE  IInv
  BY DEF Init
<1> USE ThreadsAssumption, AdminIsThread DEF makeReadOnlyNotifier, AdminThread
<1>1. completion \in Completions /\ heard \in [Threads -> Nat]
  BY DEF Completions
<1>2. TypeOK
  BY <1>1 DEF TypeOK, States
<1>3. CASE wasReadOnly
  BY <1>2, <1>3 DEF IInv, ErrorIsAnnounced, inProgress
<1>4. CASE ~wasReadOnly
  BY <1>2, <1>4 DEF IInv, ErrorIsAnnounced, inProgress, Unstarted
<1> QED
  BY <1>3, <1>4

(* Every step preserves the invariant.                                     *)
LEMMA NextIInv == IInv /\ [Next]_vars => IInv'
<1> SUFFICES ASSUME IInv, [Next]_vars PROVE IInv'
  OBVIOUS
<1> USE ThreadsAssumption, AdminIsThread
<1>0. TypeOK
  BY DEF IInv
<1>1. ASSUME NEW t \in Threads, EnterReadOnlyMode(t) PROVE IInv'
  <2>1. TypeOK'
    BY <1>0, <1>1 DEF TypeOK, EnterReadOnlyMode
  <2>2. \A u \in Threads : isReadOnly[u] => isReadOnly'[u]
    BY <1>0, <1>1 DEF TypeOK, EnterReadOnlyMode
  <2>3. readOnlyError' # NoError /\ \A u \in entering' : readOnlyError' = u
    BY <1>0, <1>1 DEF IInv, TypeOK, EnterReadOnlyMode
  <2>4. UNCHANGED <<state, completion, heard, admin, waiter, disallowed>>
    BY <1>1 DEF EnterReadOnlyMode
  <2>5. Progress => Progress'
    BY <2>1, <2>2, <2>4, <1>0 DEF Progress, TypeOK, Completions
  <2>6. ErrorIsAnnounced'
    BY <1>1, <2>4 DEF IInv, ErrorIsAnnounced, EnterReadOnlyMode
  <2> QED
    BY <2>1, <2>2, <2>3, <2>4, <2>5, <2>6 DEF IInv, Unstarted, inProgress
<1>2. ASSUME NEW t \in Threads, StartNotification(t) PROVE IInv'
  <2>0. readOnlyError = t /\ t # NoError /\ UNCHANGED <<readOnlyError, admin, waiter, disallowed>>
        /\ entering' = entering \ {t}
    BY <1>2 DEF IInv, StartNotification
  <2>1. CASE state = "may notify"
    <3>1. Unstarted /\ state' = "notifying"
      BY <1>2, <2>1 DEF IInv, StartNotification
    <3>2. /\ completion' \in Completions /\ completion'.does # "nothing"
          /\ heard' \in [Threads -> Nat] /\ isReadOnly' \in [Threads -> BOOLEAN] /\ Progress'
      <4>1. CASE t = AdminThread
        <5>1. makeThreadReadOnly(0, 0)
          BY <1>2, <2>1, <4>1 DEF StartNotification
        <5>2. 0 <= ListenerCount[0] /\ heard[0] = 0 /\ \A u \in Threads : ~(u < 0)
          BY <3>1 DEF Unstarted, Threads
        <5> QED
          BY <1>0, <3>1, <5>1, <5>2, MakeThreadReadOnlyAdvances DEF Unstarted
      <4>2. CASE t # AdminThread
        <5>1. completion' = [does |-> "queued", thread |-> 0, listener |-> 0] /\ UNCHANGED <<isReadOnly, heard>>
          BY <1>2, <2>1, <4>2 DEF StartNotification
        <5>2. 0 <= ListenerCount[0] /\ \A u \in Threads : ~(u < 0)
          BY DEF Threads
        <5>3. Progress'
          BY <3>1, <5>1, <5>2 DEF Progress, Unstarted
        <5> QED
          BY <1>0, <5>1, <5>3 DEF TypeOK, Completions
      <4> QED
        BY <4>1, <4>2
    <3>3. TypeOK'
      BY <1>0, <2>0, <3>1, <3>2 DEF TypeOK, States
    <3> QED
      BY <2>0, <2>1, <3>1, <3>2, <3>3 DEF IInv, ErrorIsAnnounced, inProgress
  <2>2. CASE state # "may notify"
    <3>1. UNCHANGED <<state, completion, isReadOnly, heard>>
      BY <1>2, <2>2 DEF StartNotification
    <3>2. TypeOK'
      BY <1>0, <2>0, <3>1 DEF TypeOK
    <3> QED
      BY <2>0, <2>2, <3>1, <3>2 DEF IInv, ErrorIsAnnounced, Unstarted, Progress, inProgress
  <2> QED
    BY <2>1, <2>2
<1>3. CASE MakeThreadReadOnly
  <2>1. completion.does = "queued" /\ makeThreadReadOnly(completion.thread, completion.listener)
        /\ UNCHANGED <<readOnlyError, state, entering, admin, waiter, disallowed>>
    BY <1>3 DEF MakeThreadReadOnly
  <2>2. state = "notifying" /\ Progress
    BY <2>1, BusyIsNotifying DEF IInv
  <2>3. completion.thread \in Threads /\ completion.listener \in Nat
    BY <1>0 DEF TypeOK, Completions
  <2>4. /\ completion' \in Completions /\ completion'.does # "nothing"
        /\ heard' \in [Threads -> Nat] /\ isReadOnly' \in [Threads -> BOOLEAN] /\ Progress'
    BY <1>0, <2>1, <2>2, <2>3, MakeThreadReadOnlyAdvances DEF Progress
  <2>5. TypeOK'
    BY <1>0, <2>1, <2>4 DEF TypeOK
  <2> QED
    BY <2>1, <2>2, <2>4, <2>5 DEF IInv, ErrorIsAnnounced, inProgress
<1>4. CASE Acknowledge
  <2>1. completion.does = "notify" /\ completion' = [completion EXCEPT !.does = "queued"]
        /\ UNCHANGED <<readOnlyError, state, isReadOnly, entering, heard, admin, waiter, disallowed>>
    BY <1>4 DEF Acknowledge
  <2>2. completion \in Completions
    BY <1>0 DEF TypeOK
  <2>3. completion' \in Completions /\ completion'.does = "queued"
        /\ completion'.thread = completion.thread /\ completion'.listener = completion.listener
    BY <2>1, <2>2 DEF Completions
  <2>4. state = "notifying" /\ Progress
    BY <2>1, BusyIsNotifying DEF IInv
  <2>5. Progress'
    BY <2>1, <2>3, <2>4 DEF Progress
  <2>6. TypeOK'
    BY <1>0, <2>1, <2>3 DEF TypeOK
  <2> QED
    BY <2>1, <2>3, <2>4, <2>5, <2>6 DEF IInv, ErrorIsAnnounced, inProgress
<1>5. CASE FinishEnteringReadOnlyMode
  <2>1. /\ completion.does = "finish" /\ state' = "notified"
        /\ completion' = [completion EXCEPT !.does = "nothing"]
        /\ waiter' = "none" /\ admin' = "idle" /\ disallowed' = (disallowed \/ waiter = "wait")
        /\ UNCHANGED <<readOnlyError, isReadOnly, entering, heard>>
    BY <1>5 DEF FinishEnteringReadOnlyMode
  <2>2. completion' \in Completions /\ completion'.does = "nothing"
    BY <1>0, <2>1 DEF TypeOK, Completions
  <2>3. state = "notifying" /\ Progress /\ readOnlyError # NoError
    BY <2>1, BusyIsNotifying DEF IInv
  <2>4. disallowed' \in BOOLEAN
    BY <2>1
  <2>5. TypeOK'
    BY <1>0, <2>1, <2>2, <2>4 DEF TypeOK, States
  <2> QED
    BY <2>1, <2>2, <2>3, <2>5 DEF IInv, ErrorIsAnnounced, inProgress, Progress
<1>6. CASE WaitUntilNotEnteringReadOnlyMode
  <2>1. UNCHANGED <<readOnlyError, state, isReadOnly, entering, completion, heard, waiter>> /\ admin = "idle"
    BY <1>6 DEF WaitUntilNotEnteringReadOnlyMode
  <2>2. CASE state \in {"may not notify", "notified"}
    <3>1. disallowed' = TRUE /\ admin' = admin
      BY <1>6, <2>2 DEF WaitUntilNotEnteringReadOnlyMode
    <3> QED
      BY <1>0, <2>1, <2>2, <3>1 DEF IInv, TypeOK, ErrorIsAnnounced, Unstarted, inProgress, Progress
  <2>3. CASE ~(state \in {"may not notify", "notified"})
    <3>1. admin' = "wait" /\ disallowed' = disallowed
      BY <1>6, <2>3 DEF WaitUntilNotEnteringReadOnlyMode
    <3> QED
      BY <1>0, <2>1, <2>3, <3>1 DEF IInv, TypeOK, States, ErrorIsAnnounced, Unstarted, inProgress, Progress
  <2> QED
    BY <2>2, <2>3
<1>7. CASE DisallowNotifications
  <2>1. UNCHANGED <<readOnlyError, isReadOnly, entering, completion, heard>> /\ admin = "wait"
    BY <1>7 DEF DisallowNotifications
  <2>2. CASE state = "may notify"
    <3>1. state' = "may not notify" /\ admin' = "idle" /\ disallowed' = TRUE /\ waiter' = waiter
      BY <1>7, <2>2 DEF DisallowNotifications
    <3> QED
      BY <1>0, <2>1, <2>2, <3>1 DEF IInv, TypeOK, States, ErrorIsAnnounced, Unstarted, inProgress, Progress
  <2>3. CASE state # "may notify"
    <3>1. admin' = "waiting" /\ waiter' = "wait" /\ UNCHANGED <<state, disallowed>>
      BY <1>7, <2>3 DEF DisallowNotifications
    <3>2. ~disallowed /\ state = "notifying"
      BY <1>0, <2>1, <2>3 DEF IInv, TypeOK, States
    <3> QED
      BY <1>0, <2>1, <2>3, <3>1, <3>2 DEF IInv, TypeOK, ErrorIsAnnounced, Unstarted, inProgress, Progress
  <2> QED
    BY <2>2, <2>3
<1>8. CASE AllowReadOnlyModeEntry
  <2>1. UNCHANGED <<readOnlyError, isReadOnly, entering, completion, heard, waiter>> /\ disallowed' = FALSE
        /\ admin = "idle"
    BY <1>8 DEF AllowReadOnlyModeEntry
  <2>2. CASE state = "may not notify"
    <3>1. state' = "may notify" /\ admin' = "check"
      BY <1>8, <2>2 DEF AllowReadOnlyModeEntry
    <3> QED
      BY <1>0, <2>1, <2>2, <3>1 DEF IInv, TypeOK, States, ErrorIsAnnounced, Unstarted, inProgress, Progress
  <2>3. CASE state # "may not notify"
    <3>1. UNCHANGED <<state, admin>>
      BY <1>8, <2>3 DEF AllowReadOnlyModeEntry
    <3> QED
      BY <1>0, <2>1, <2>3, <3>1 DEF IInv, TypeOK, ErrorIsAnnounced, Unstarted, inProgress, Progress
  <2> QED
    BY <2>2, <2>3
<1>9. CASE CheckPendingError
  <2>1. /\ UNCHANGED <<readOnlyError, state, isReadOnly, entering, completion, heard, waiter, disallowed>>
        /\ admin = "check" /\ admin' = IF readOnlyError = NoError THEN "idle" ELSE "pending"
    BY <1>9 DEF CheckPendingError
  <2> QED
    BY <1>0, <2>1 DEF IInv, TypeOK, ErrorIsAnnounced, Unstarted, inProgress, Progress
<1>10. CASE DoPendingNotification
  <2>1. UNCHANGED <<readOnlyError, entering, disallowed>> /\ admin = "pending" /\ readOnlyError # NoError
    BY <1>10 DEF DoPendingNotification, IInv
  <2>2. CASE state = "may notify"
    <3>1. state' = "notifying" /\ admin' = "waiting" /\ waiter' = "allow"
          /\ makeThreadReadOnly(completion.thread, completion.listener)
      BY <1>10, <2>2 DEF DoPendingNotification
    <3>2. Unstarted
      BY <2>2 DEF IInv
    <3>3. makeThreadReadOnly(0, 0)
      BY <3>1, <3>2 DEF Unstarted
    <3>4. 0 <= ListenerCount[0] /\ heard[0] = 0 /\ \A u \in Threads : ~(u < 0)
      BY <3>2 DEF Unstarted, Threads
    <3>5. /\ completion' \in Completions /\ completion'.does # "nothing"
          /\ heard' \in [Threads -> Nat] /\ isReadOnly' \in [Threads -> BOOLEAN] /\ Progress'
      BY <1>0, <3>2, <3>3, <3>4, MakeThreadReadOnlyAdvances DEF Unstarted
    <3>6. TypeOK'
      BY <1>0, <2>1, <3>1, <3>5 DEF TypeOK, States
    <3> QED
      BY <2>1, <2>2, <3>1, <3>5, <3>6 DEF IInv, ErrorIsAnnounced, inProgress
  <2>3. CASE state # "may notify"
    <3>1. admin' = "idle" /\ UNCHANGED <<state, waiter, isReadOnly, completion, heard>>
      BY <1>10, <2>3 DEF DoPendingNotification
    <3> QED
      BY <1>0, <2>1, <2>3, <3>1 DEF IInv, TypeOK, ErrorIsAnnounced, Unstarted, inProgress, Progress
  <2> QED
    BY <2>2, <2>3
<1>11. CASE UNCHANGED vars
  BY <1>0, <1>11 DEF IInv, TypeOK, ErrorIsAnnounced, Unstarted, inProgress, Progress, vars
<1> QED
  BY <1>1, <1>2, <1>3, <1>4, <1>5, <1>6, <1>7, <1>8, <1>9, <1>10, <1>11 DEF Next

(* The invariant holds of every behaviour.                                 *)
THEOREM Invariance == Spec => []IInv
  BY InitIInv, NextIInv, PTL DEF Spec

(* The state of the notifier always has its type.                          *)
THEOREM TypeCorrect == Spec => []TypeOK
  BY Invariance, PTL DEF IInv

(* waitUntilNotEnteringReadOnlyMode() keeps its promise: once it returned, *)
(* no notification is in progress until they are allowed again.            *)
THEOREM DisallowingWorks == Spec => []DisallowedMeansQuiet
<1>1. IInv => DisallowedMeansQuiet
  BY UnstartedIsIdle DEF IInv, DisallowedMeansQuiet
<1> QED
  BY <1>1, Invariance, PTL

(* enterReadOnlyMode() and allowReadOnlyModeEntry() never both leave the   *)
(* announcement of an error to the other.                                  *)
THEOREM NoErrorIsLost == Spec => []ErrorIsAnnounced
  BY Invariance, PTL DEF IInv

(* makeThreadReadOnly() calls every listener once, and at the end every    *)
(* thread knows.                                                           *)
THEOREM ListenersAreCalledOnce == Spec => []ListenersHearOnce
<1>1. IInv => ListenersHearOnce
  <2> SUFFICES ASSUME IInv PROVE ListenersHearOnce
    OBVIOUS
  <2> USE ThreadsAssumption, AdminIsThread
  <2>0. TypeOK /\ heard \in [Threads -> Nat] /\ ListenerCount \in [Threads -> Nat]
    BY DEF IInv, TypeOK
  <2>1. CASE state \in {"may notify", "may not notify"}
    <3>1. \A t \in Threads : heard[t] = 0 /\ ListenerCount[t] \in Nat
      BY <2>0, <2>1 DEF IInv, Unstarted
    <3>2. \A t \in Threads : heard[t] <= ListenerCount[t]
      BY <3>1
    <3>3. state # "notified"
      BY <2>1
    <3> QED
      BY <3>2, <3>3 DEF ListenersHearOnce
  <2>2. CASE state = "notified"
    BY <2>0, <2>2 DEF IInv, ListenersHearOnce
  <2>3. CASE state = "notifying"
    <3>1. Progress /\ completion \in Completions /\ completion.does # "nothing" /\ completion.thread \in Threads
      BY <2>0, <2>3 DEF IInv, inProgress, TypeOK, Completions
    <3>2. CASE completion.does = "finish"
      BY <2>0, <2>3, <3>1, <3>2 DEF Progress, ListenersHearOnce
    <3>3. CASE completion.does \in {"queued", "notify"}
      <4> SUFFICES ASSUME NEW t \in Threads PROVE heard[t] <= ListenerCount[t]
        BY <2>3 DEF ListenersHearOnce
      <4>1. t < completion.thread \/ t = completion.thread \/ t > completion.thread
        BY <3>1 DEF Threads
      <4> QED
        BY <2>0, <3>1, <3>3, <4>1 DEF Progress
    <3> QED
      BY <3>1, <3>2, <3>3 DEF Completions
  <2> QED
    BY <2>0, <2>1, <2>2, <2>3 DEF TypeOK, States
<1> QED
  BY <1>1, Invariance, PTL

(* The first error is kept, and read-only mode is never left.              *)
THEOREM ReadOnlyMonotone == Spec => ReadOnlyIsForever
<1>1. IInv /\ [Next]_vars =>
        [/\ readOnlyError # NoError => readOnlyError' = readOnlyError
         /\ state = "notified" => state' = "notified"
         /\ \A t \in Threads : isReadOnly[t] => isReadOnly'[t]]_vars
  <2> SUFFICES ASSUME IInv, Next
               PROVE  /\ readOnlyError # NoError => readOnlyError' = readOnlyError
                      /\ state = "notified" => state' = "notified"
                      /\ \A t \in Threads : isReadOnly[t] => isReadOnly'[t]
    OBVIOUS
  <2>0. isReadOnly \in [Threads -> BOOLEAN] /\ completion.thread \in Threads
    BY DEF IInv, TypeOK, Completions
  <2>1. ASSUME NEW t \in Threads, EnterReadOnlyMode(t) \/ StartNotification(t)
        PROVE  /\ readOnlyError # NoError => readOnlyError' = readOnlyError
               /\ state = "notified" => state' = "notified"
               /\ \A u \in Threads : isReadOnly[u] => isReadOnly'[u]
    BY <2>0, <2>1, AdminIsThread DEF EnterReadOnlyMode, StartNotification, makeThreadReadOnly
  <2>2. CASE MakeThreadReadOnly \/ DoPendingNotification
    BY <2>0, <2>2 DEF MakeThreadReadOnly, DoPendingNotification, makeThreadReadOnly
  <2>3. CASE Acknowledge \/ FinishEnteringReadOnlyMode \/ WaitUntilNotEnteringReadOnlyMode
             \/ DisallowNotifications \/ AllowReadOnlyModeEntry \/ CheckPendingError
    BY <2>3 DEF Acknowledge, FinishEnteringReadOnlyMode, WaitUntilNotEnteringReadOnlyMode,
                DisallowNotifications, AllowReadOnlyModeEntry, CheckPendingError
  <2> QED
    BY <2>1, <2>2, <2>3 DEF Next
<1> QED
  BY <1>1, Invariance, PTL DEF Spec, ReadOnlyIsForever

-----------------------------------------------------------------------------
(* Suspending and resuming.  Every step is one of the read-only notifier   *)
(* or leaves it alone, so what is proved of the notifier holds; the rest   *)
(* relates the phase of the operation in progress, the save in progress    *)
(* and the notification to what the super block says.                      *)

Phases == {"none", "waiting", "packer", "block map", "journal", "depot", "write super block",
           "super block", "suspended", "resume", "allow"}

(* From the end of the wait to allowReadOnlyModeEntry().                   *)
Closed == phase \notin {"none", "waiting", "allow"}

(* The components which a suspend has still to drain.                      *)
undrained ==
  CASE phase = "block map" -> Components
    [] phase = "journal" -> {"journal", "depot"}
    [] phase = "depot" -> {"depot"}
    [] phase = "write super block" -> {}
    [] OTHER -> Components

(* Who saves the super block, and what.                                    *)
Saving ==
  /\ superBlock.parent = "notifier" => isVDO(completion) /\ superBlock.writing = "read-only"
  /\ superBlock.parent = "suspend" =>
       /\ phase = "super block"
       /\ superBlock.writing = "clean" => vdoState = "clean"
       /\ vdoState = "read-only" => superBlock.writing = "read-only"
  /\ superBlock.parent = "resume" =>
       phase = "resume" /\ vdoState # "read-only" /\ superBlock.writing = "dirty"

(* The VDO is read-only when its listener has been called, and its super   *)
(* block says so or is being written.                                      *)
Told ==
  /\ vdoState = "read-only" <=> heard[AdminThread] >= VDOListener
  /\ vdoState = "read-only" /\ ~superBlock.unwriteable =>
       superBlock.onDisk = "read-only" \/ superBlock.parent = "notifier"

(* When the VDO or its super block may be marked clean.                    *)
CleanWhen ==
  /\ vdoState = "clean" => phase \in {"super block", "suspended"}
  /\ superBlock.onDisk = "clean" =>
       \/ vdoState = "clean"
       \/ phase = "resume" /\ (superBlock.parent = "resume" \/ failed)
       \/ phase = "allow" /\ failed
       \/ phase = "none" /\ ~running

(* Where a thread may have met an error which nobody has been told of.     *)
ErrorsAreFound ==
  /\ state \in {"may notify", "may not notify"} =>
       \A t \in Threads : isReadOnly[t] => \E c \in Components : t \in threadsOf(c)
  /\ phase \in {"block map", "journal", "depot", "write super block"} =>
       /\ alive \subseteq undrained
       /\ ~failed => /\ vdoState # "read-only"
                     /\ \A t \in Threads : isReadOnly[t] => \E c \in undrained : t \in threadsOf(c)

VInv ==
  /\ IInv
  /\ TypeOKVDO /\ phase \in Phases
  /\ Closed => disallowed
  /\ SuperBlockIsNotBusy
  /\ Saving /\ Told /\ CleanWhen /\ ErrorsAreFound

-----------------------------------------------------------------------------
(* The listener of the VDO is a listener, and the threads of components    *)
(* are threads.                                                            *)
LEMMA Roles ==
  /\ VDOListener \in Nat /\ VDOListener > 0 /\ VDOListener <= ListenerCount[AdminThread]
  /\ ListenerCount[AdminThread] \in Nat /\ AdminThread \in Threads
  /\ \A c \in Components : threadsOf(c) \subseteq Threads
  BY RolesAssumption, ThreadsAssumption, AdminIsThread DEF AdminThread, Components, threadsOf

(* A VDO begins with a notifier which has just been made.                  *)
LEMMA InitIsNotifiers == InitVDO => Init
  BY DEF InitVDO, Init

(* Every step of the VDO is one of its notifier, or leaves that alone.     *)
LEMMA StepIsNotifiers == [NextVDO]_allVars => [Next]_vars
<1> SUFFICES ASSUME [NextVDO]_allVars PROVE [Next]_vars
  OBVIOUS
<1>1. ASSUME NEW t \in Threads, Fail(t) PROVE Next
  BY <1>1 DEF Fail, Next
<1>2. CASE Notify
  BY <1>2 DEF Notify, Next
<1>3. CASE AcknowledgeListener \/ FinishReadOnlyNotification \/ SuspendStart \/ DisallowForSuspend \/ Allow \/ CheckForPending
  BY <1>3 DEF AcknowledgeListener, FinishReadOnlyNotification, SuspendStart, DisallowForSuspend, Allow, CheckForPending, Next
<1>4. CASE \/ LeaveRecoveryMode \/ Waited \/ DrainPacker \/ WriteSuperBlock \/ SuspendEnd \/ ResumeStart \/ ResumeEnd
           \/ \E succeeded \in BOOLEAN : FinishSave(succeeded)
           \/ DrainComponent("block map", "journal") \/ DrainComponent("journal", "depot")
           \/ DrainComponent("depot", "write super block")
  BY Zenon, <1>4 DEF LeaveRecoveryMode, Waited, DrainPacker, WriteSuperBlock, SuspendEnd, ResumeStart, ResumeEnd,
              FinishSave, DrainComponent
<1>5. CASE UNCHANGED allVars
  BY <1>5 DEF allVars
<1> QED
  BY <1>1, <1>2, <1>3, <1>4, <1>5 DEF NextVDO

(* The invariant holds when the VDO has been loaded.                       *)
LEMMA InitVInv == InitVDO => VInv
<1> SUFFICES ASSUME NEW wasReadOnly \in BOOLEAN, makeReadOnlyNotifier(wasReadOnly),
                    vdoState \in IF wasReadOnly THEN {"read-only"} ELSE {"dirty", "recovering"},
                    superBlock = [onDisk |-> IF wasReadOnly THEN "read-only" ELSE "dirty",
                                  parent |-> "none", writing |-> "dirty", unwriteable |-> FALSE, refused |-> FALSE],
                    phase = "none" /\ save = FALSE /\ failed = FALSE,
                    alive = (IF wasReadOnly THEN {} ELSE Components), running = TRUE
             PROVE  VInv
  BY Zenon DEF InitVDO
<1>1. IInv /\ TypeOK
  BY InitIInv DEF Init, IInv
<1>2. TypeOKVDO
  BY Zenon, <1>1 DEF TypeOKVDO, VDOStates
<1>3. heard[AdminThread] = IF wasReadOnly THEN ListenerCount[AdminThread] ELSE 0
  BY Roles DEF makeReadOnlyNotifier
<1>4. Told
  BY <1>3, Roles DEF Told
<1>5. ErrorsAreFound
  BY DEF ErrorsAreFound, makeReadOnlyNotifier
<1> QED
  BY <1>1, <1>2, <1>4, <1>5 DEF VInv, Phases, Closed, SuperBlockIsNotBusy, Saving, CleanWhen

(* A step which changes neither the VDO, its operation nor what the        *)
(* notifier has told preserves the invariant.                              *)
LEMMA FrameVInv ==
  ASSUME VInv, IInv', UNCHANGED <<vdoVars, phaseVars, isReadOnly, heard>>,
         Closed => disallowed',
         isVDO(completion)' \/ superBlock.parent # "notifier",
         state' \in {"may notify", "may not notify"} => state \in {"may notify", "may not notify"}
  PROVE  VInv'
<1>1. TypeOKVDO'
  BY DEF VInv, IInv, TypeOKVDO, vdoVars, phaseVars
<1>2. UNCHANGED <<vdoState, superBlock, phase, save, failed, alive, running>>
  BY DEF vdoVars, phaseVars
<1>3. ErrorsAreFound'
  BY <1>2 DEF VInv, ErrorsAreFound, undrained, threadsOf
<1>4. Saving' /\ Told' /\ CleanWhen'
  BY <1>2 DEF VInv, Saving, Told, CleanWhen
<1> QED
  BY <1>1, <1>2, <1>3, <1>4 DEF VInv, Phases, Closed, SuperBlockIsNotBusy

(* What a call of makeThreadReadOnly() which is not made for the VDO's     *)
(* listener does to it, and a call which is.                               *)
LEMMA ListenerIsCalled ==
  ASSUME IInv, NEW t \in Threads, NEW listener \in Nat,
         makeThreadReadOnly(t, listener), heard[t] = listener
  PROVE  /\ isVDO(completion') => heard[AdminThread] < VDOListener /\ heard'[AdminThread] >= VDOListener
         /\ ~isVDO(completion') =>
              (heard'[AdminThread] >= VDOListener <=> heard[AdminThread] >= VDOListener)
<1> USE Roles, ThreadsAssumption
<1>0. heard \in [Threads -> Nat] /\ heard[AdminThread] \in Nat
  BY DEF IInv, TypeOK
<1>1. CASE listener < ListenerCount[t]
  <2>1. /\ completion' = [does |-> "notify", thread |-> t, listener |-> listener + 1]
        /\ heard' = [heard EXCEPT ![t] = @ + 1]
    BY <1>1 DEF makeThreadReadOnly
  <2>2. isVDO(completion') <=> t = AdminThread /\ listener + 1 = VDOListener
    BY <2>1 DEF isVDO
  <2>3. heard'[AdminThread] = IF t = AdminThread THEN listener + 1 ELSE heard[AdminThread]
    BY <1>0, <2>1
  <2> QED
    BY <1>0, <2>2, <2>3
<1>2. CASE ~(listener < ListenerCount[t])
  BY <1>2 DEF makeThreadReadOnly, isVDO
<1> QED
  BY <1>1, <1>2

(* The notifier tells the VDO: the super block is not being written then,  *)
(* because suspends and resumes write it while notifications are           *)
(* disallowed.                                                             *)
LEMMA TellingVInv ==
  ASSUME VInv, IInv', Notify, state' = "notifying", ~disallowed, ~isVDO(completion),
         isVDO(completion') => heard[AdminThread] < VDOListener /\ heard'[AdminThread] >= VDOListener,
         ~isVDO(completion') =>
              (heard'[AdminThread] >= VDOListener <=> heard[AdminThread] >= VDOListener)
  PROVE  VInv'
<1>1. ~Closed /\ superBlock.parent = "none"
  BY DEF VInv, Closed, Saving, TypeOKVDO
<1>2. UNCHANGED <<phase, save, failed, alive, running>>
  BY DEF Notify, phaseVars
<1>3. /\ vdoState' = (IF isVDO(completion') THEN "read-only" ELSE vdoState)
      /\ superBlock' = IF isVDO(completion') /\ ~superBlock.unwriteable
                       THEN [superBlock EXCEPT !.parent = "notifier", !.writing = "read-only"] ELSE superBlock
  BY <1>1 DEF Notify, notifyVDOOfReadOnlyMode, saveSuperBlockAsync, vdoVars
<1>4. TypeOKVDO' /\ SuperBlockIsNotBusy'
  BY <1>2, <1>3 DEF VInv, IInv, TypeOKVDO, SuperBlockIsNotBusy, VDOStates
<1>5. Saving'
  BY <1>1, <1>2, <1>3 DEF VInv, Saving, TypeOKVDO, isVDO
<1>6. Told'
  BY <1>1, <1>3 DEF VInv, Told, TypeOKVDO, VDOStates
<1>7. CleanWhen'
  BY <1>1, <1>2, <1>3 DEF VInv, CleanWhen, Closed, TypeOKVDO
<1>8. ErrorsAreFound'
  BY <1>1, <1>2 DEF VInv, ErrorsAreFound, Closed
<1> QED
  BY <1>1, <1>2, <1>4, <1>5, <1>6, <1>7, <1>8 DEF VInv, Closed

(* The steps of the notification which may call the VDO.                   *)
LEMMA NotifyVInv == ASSUME VInv, IInv', Notify PROVE VInv'
<1> USE Roles, AdminIsThread
<1>0. /\ IInv /\ TypeOK /\ UNCHANGED phaseVars
      /\ completion.thread \in Threads /\ completion.listener \in Nat
      /\ isVDO(completion) => completion.does = "notify"
  BY DEF Notify, VInv, IInv, TypeOK, Completions, isVDO
<1>1. CASE completion' = completion /\ isReadOnly' = isReadOnly /\ heard' = heard /\ UNCHANGED <<state, disallowed>>
  <2>1. UNCHANGED vdoVars
    BY <1>1 DEF Notify
  <2> QED
    BY <1>0, <1>1, <2>1, FrameVInv DEF VInv, Saving, isVDO
<1>2. ASSUME NEW t \in Threads, StartNotification(t) PROVE VInv'
  <2>1. CASE state # "may notify"
    BY <1>1, <1>2, <2>1 DEF StartNotification
  <2>2. CASE state = "may notify"
    <3>1. ~disallowed /\ ~isVDO(completion) /\ state' = "notifying" /\ heard[0] = 0
      BY <1>0, <1>2, <2>2, UnstartedIsIdle DEF StartNotification, IInv, Unstarted
    <3>2. CASE t = AdminThread
      <4>1. makeThreadReadOnly(0, 0)
        BY <1>2, <2>2, <3>2 DEF StartNotification
      <4> QED
        BY <1>0, <3>1, <4>1, ListenerIsCalled, TellingVInv
    <3>3. CASE t # AdminThread
      <4>1. completion' = [does |-> "queued", thread |-> 0, listener |-> 0] /\ heard' = heard
        BY <1>2, <2>2, <3>3 DEF StartNotification
      <4> QED
        BY <3>1, <4>1, TellingVInv DEF isVDO
    <3> QED BY <3>2, <3>3
  <2> QED BY <2>1, <2>2
<1>3. CASE MakeThreadReadOnly
  <2>1. /\ completion.does = "queued" /\ makeThreadReadOnly(completion.thread, completion.listener)
        /\ UNCHANGED <<state, disallowed>>
    BY <1>3 DEF MakeThreadReadOnly
  <2>2. state = "notifying" /\ Progress /\ ~disallowed
    BY <1>0, <2>1, BusyIsNotifying DEF IInv
  <2>3. heard[completion.thread] = completion.listener
    BY <2>1, <2>2 DEF Progress
  <2> QED
    BY <1>0, <2>1, <2>2, <2>3, ListenerIsCalled, TellingVInv
<1>4. CASE DoPendingNotification
  <2>1. CASE state # "may notify"
    BY <1>1, <1>4, <2>1 DEF DoPendingNotification
  <2>2. CASE state = "may notify"
    <3>1. ~disallowed /\ ~isVDO(completion) /\ state' = "notifying" /\ heard[0] = 0
          /\ completion.thread = 0 /\ completion.listener = 0
      BY <1>0, <1>4, <2>2, UnstartedIsIdle DEF DoPendingNotification, IInv, Unstarted
    <3>2. makeThreadReadOnly(0, 0)
      BY <1>4, <2>2, <3>1 DEF DoPendingNotification
    <3> QED
      BY <1>0, <3>1, <3>2, ListenerIsCalled, TellingVInv
  <2> QED BY <2>1, <2>2
<1> QED
  BY <1>2, <1>3, <1>4 DEF Notify

(* Every step preserves the invariant.                                     *)
LEMMA NextVInv == VInv /\ [NextVDO]_allVars => VInv'
<1> SUFFICES ASSUME VInv, [NextVDO]_allVars PROVE VInv'
  OBVIOUS
<1> USE Roles
<1>0. /\ IInv' /\ IInv /\ TypeOKVDO /\ TypeOK /\ TypeOK' /\ phase \in Phases /\ isReadOnly \in [Threads -> BOOLEAN]
      /\ ~superBlock.refused
  BY StepIsNotifiers, NextIInv DEF VInv, IInv, TypeOK, SuperBlockIsNotBusy
<1>1. ASSUME NEW t \in Threads, Fail(t) PROVE VInv'
  <2>1. UNCHANGED <<vdoState, superBlock, phase, save, failed, alive, running, state, completion, heard, disallowed>>
    BY <1>1 DEF Fail, EnterReadOnlyMode, vdoVars, phaseVars
  <2>2. isReadOnly' = [isReadOnly EXCEPT ![t] = TRUE] /\ mayFail(t)
    BY <1>1 DEF Fail, EnterReadOnlyMode
  <2>3. \/ \E c \in alive : t \in threadsOf(c)
        \/ t = AdminThread /\ phase = "suspended"
    BY <2>2, <1>0 DEF mayFail, threadsOf, TypeOKVDO, Components
  <2>4. t = AdminThread => t \in threadsOf("journal")
    BY DEF threadsOf
  <2>5. ErrorsAreFound'
    <3>1. \A u \in Threads : isReadOnly'[u] => isReadOnly[u] \/ u = t
      BY <1>0, <2>2
    <3>2. \E c \in Components : t \in threadsOf(c)
      BY <1>0, <2>3, <2>4 DEF TypeOKVDO, Components
    <3>3. undrained' = undrained
      BY <2>1 DEF undrained
    <3>4. ASSUME phase \in {"block map", "journal", "depot", "write super block"}
          PROVE  \E c \in undrained : t \in threadsOf(c)
      BY <2>3, <3>4 DEF VInv, ErrorsAreFound
    <3>5. \A c : threadsOf(c)' = threadsOf(c)
      BY DEF threadsOf
    <3> QED
      BY <2>1, <3>1, <3>2, <3>3, <3>4, <3>5 DEF VInv, ErrorsAreFound
  <2>6. TypeOKVDO' /\ Saving' /\ Told' /\ CleanWhen'
    BY <1>0, <2>1 DEF VInv, TypeOKVDO, Saving, Told, CleanWhen, isVDO
  <2> QED
    BY <1>0, <2>1, <2>5, <2>6 DEF VInv, Closed, SuperBlockIsNotBusy
<1>2. CASE Notify
  BY <1>0, <1>2, NotifyVInv
<1>3. CASE AcknowledgeListener
  BY <1>0, <1>3, FrameVInv DEF AcknowledgeListener, Acknowledge, VInv, Saving, TypeOKVDO
<1>4. CASE FinishReadOnlyNotification
  <2>1. UNCHANGED <<vdoVars, phaseVars, isReadOnly, heard>> /\ completion.does = "finish" /\ state' = "notified"
        /\ (disallowed => disallowed')
    BY Zenon, <1>4 DEF FinishReadOnlyNotification, FinishEnteringReadOnlyMode
  <2> QED
    BY <1>0, <2>1, FrameVInv DEF VInv, Saving, isVDO
<1>5. CASE LeaveRecoveryMode
  <2>1. UNCHANGED <<vars, superBlock, phase, save, failed, alive, running>> /\ vdoState = "recovering" /\ vdoState' = "dirty"
    BY <1>5 DEF LeaveRecoveryMode, phaseVars
  <2>2. UNCHANGED <<state, isReadOnly, completion, heard, disallowed>>
    BY <2>1 DEF vars
  <2>3. TypeOKVDO' /\ Saving' /\ Told' /\ CleanWhen'
    BY ZenonT(30), <1>0, <2>1, <2>2 DEF VInv, TypeOKVDO, VDOStates, Saving, Told, CleanWhen, isVDO
  <2>4. ErrorsAreFound'
    BY <2>1, <2>2 DEF VInv, ErrorsAreFound, undrained, threadsOf
  <2> QED
    BY <1>0, <2>1, <2>2, <2>3, <2>4 DEF VInv, Closed, SuperBlockIsNotBusy
<1>6. ASSUME NEW succeeded \in BOOLEAN, FinishSave(succeeded) PROVE VInv'
  <2>1. UNCHANGED <<state, isReadOnly, completion, heard, disallowed, vdoState, phase, save, alive, running>>
    BY <1>6 DEF FinishSave, vars
  <2>2. PICK contents \in IF succeeded THEN {superBlock.writing} ELSE {superBlock.writing, superBlock.onDisk} :
          superBlock' = [superBlock EXCEPT !.onDisk = contents, !.parent = "none", !.unwriteable = @ \/ ~succeeded]
    BY <1>6 DEF FinishSave
  <2>3. /\ superBlock.parent # "none"
        /\ failed' = (failed \/ (~succeeded /\ superBlock.parent # "notifier"))
    BY <1>6 DEF FinishSave
  <2>4. /\ superBlock'.onDisk = contents /\ superBlock'.parent = "none" /\ superBlock'.writing = superBlock.writing
        /\ superBlock'.refused = superBlock.refused /\ superBlock'.unwriteable = (superBlock.unwriteable \/ ~succeeded)
    BY <1>0, <2>2 DEF TypeOKVDO
  <2>5. TypeOKVDO'
    BY Zenon, <1>0, <2>1, <2>2, <2>3 DEF TypeOKVDO
  <2>6. Told'
    BY <1>0, <2>1, <2>2, <2>3, <2>4 DEF VInv, Told, Saving, TypeOKVDO
  <2>7. CleanWhen'
    BY <1>0, <2>1, <2>2, <2>3, <2>4 DEF VInv, CleanWhen, Saving, TypeOKVDO
  <2>8. ErrorsAreFound'
    BY <1>0, <2>1, <2>3, <2>4 DEF VInv, ErrorsAreFound, undrained, threadsOf
  <2> QED
    BY <1>0, <2>1, <2>4, <2>5, <2>6, <2>7, <2>8 DEF VInv, Closed, SuperBlockIsNotBusy, Saving
<1>7. CASE SuspendStart
  <2>1. /\ UNCHANGED <<vdoState, superBlock, alive, running, state, isReadOnly, completion, heard>>
        /\ phase = "none" /\ running /\ phase' = "waiting" /\ failed' = FALSE /\ save' \in BOOLEAN
    BY <1>7 DEF SuspendStart, WaitUntilNotEnteringReadOnlyMode, vdoVars
  <2>2. TypeOKVDO' /\ Saving' /\ Told' /\ CleanWhen'
    BY Zenon, <1>0, <2>1 DEF VInv, TypeOKVDO, Saving, Told, CleanWhen, isVDO
  <2>3. ErrorsAreFound'
    BY <2>1 DEF VInv, ErrorsAreFound, threadsOf
  <2> QED
    BY <1>0, <2>1, <2>2, <2>3 DEF VInv, Phases, Closed, SuperBlockIsNotBusy
<1>8. CASE DisallowForSuspend
  BY <1>0, <1>8, FrameVInv DEF DisallowForSuspend, DisallowNotifications, VInv, Saving, isVDO, Closed
<1>9. CASE Waited
  <2>1. /\ UNCHANGED <<vdoState, superBlock, alive, running, state, isReadOnly, completion, heard, disallowed, save, failed>>
        /\ phase = "waiting" /\ phase' = "packer" /\ disallowed
    BY <1>9 DEF Waited, vars, vdoVars
  <2>2. TypeOKVDO' /\ Saving' /\ Told' /\ CleanWhen'
    BY <1>0, <2>1 DEF VInv, TypeOKVDO, Saving, Told, CleanWhen, isVDO
  <2>3. ErrorsAreFound'
    BY <2>1 DEF VInv, ErrorsAreFound, threadsOf
  <2> QED
    BY <1>0, <2>1, <2>2, <2>3 DEF VInv, Phases, Closed, SuperBlockIsNotBusy
<1>10. CASE DrainPacker
  <2>1. /\ UNCHANGED <<vdoState, superBlock, alive, running, state, isReadOnly, completion, heard, disallowed, save>>
        /\ phase = "packer" /\ phase' = "block map" /\ failed' = (failed \/ vdoState = "read-only")
    BY <1>10 DEF DrainPacker, vars, vdoVars
  <2>2. TypeOKVDO' /\ Saving' /\ Told' /\ CleanWhen'
    BY <1>0, <2>1 DEF VInv, TypeOKVDO, Saving, Told, CleanWhen, isVDO
  <2>3. ErrorsAreFound'
    <3>1. undrained' = Components /\ alive \subseteq Components
      BY <1>0, <2>1 DEF undrained, TypeOKVDO
    <3>2. ASSUME ~failed' PROVE \A t \in Threads : isReadOnly[t] => \E c \in Components : t \in threadsOf(c)
      <4>1. vdoState # "read-only" /\ disallowed
        BY <2>1, <3>2 DEF VInv, Closed
      <4>2. state # "notified"
        BY <1>0, <4>1 DEF VInv, Told, IInv
      <4>3. state = "may not notify"
        BY <1>0, <4>1, <4>2 DEF IInv
      <4> QED
        BY <4>3 DEF VInv, ErrorsAreFound
    <3>3. \A c : threadsOf(c)' = threadsOf(c)
      BY DEF threadsOf
    <3> QED
      BY <2>1, <3>1, <3>2, <3>3 DEF VInv, ErrorsAreFound
  <2> QED
    BY <1>0, <2>1, <2>2, <2>3 DEF VInv, Phases, Closed, SuperBlockIsNotBusy
<1>11. ASSUME NEW component, NEW next, DrainComponent(component, next),
              <<component, next>> \in {<<"block map", "journal">>, <<"journal", "depot">>, <<"depot", "write super block">>}
       PROVE  VInv'
  <2>1. /\ UNCHANGED <<vdoState, superBlock, running, state, isReadOnly, completion, heard, disallowed, save>>
        /\ phase = component /\ phase' = next /\ alive' = alive \ {component}
        /\ failed' = (failed \/ \E t \in threadsOf(component) : isReadOnly[t])
    BY <1>11 DEF DrainComponent, vars, vdoVars
  <2>2. component \in {"block map", "journal", "depot"} /\ next \in {"journal", "depot", "write super block"}
    BY <1>11
  <2>3. TypeOKVDO' /\ Saving' /\ Told' /\ CleanWhen'
    BY <1>0, <2>1, <2>2 DEF VInv, TypeOKVDO, Saving, Told, CleanWhen, isVDO
  <2>4. undrained' = undrained \ {component}
    BY <1>11, <2>1 DEF undrained, Components
  <2>5. ErrorsAreFound'
    <3>1. \A c : threadsOf(c)' = threadsOf(c)
      BY DEF threadsOf
    <3>2. alive' \subseteq undrained'
      BY <2>1, <2>2, <2>4 DEF VInv, ErrorsAreFound
    <3>3. ASSUME ~failed', NEW t \in Threads, isReadOnly[t] PROVE \E c \in undrained' : t \in threadsOf(c)
      <4>1. PICK c \in undrained : t \in threadsOf(c)
        BY <2>1, <2>2, <3>3 DEF VInv, ErrorsAreFound
      <4>2. c # component
        BY Zenon, <2>1, <3>3, <4>1
      <4> QED BY <2>4, <4>1, <4>2
    <3>4. ~failed' => vdoState # "read-only"
      BY <2>1, <2>2 DEF VInv, ErrorsAreFound
    <3>5. state \in {"may notify", "may not notify"} =>
            \A t \in Threads : isReadOnly[t] => \E c \in Components : t \in threadsOf(c)
      BY DEF VInv, ErrorsAreFound
    <3> QED
      BY <2>1, <3>1, <3>2, <3>3, <3>4, <3>5 DEF ErrorsAreFound
  <2> QED
    BY <1>0, <2>1, <2>2, <2>3, <2>5 DEF VInv, Phases, Closed, SuperBlockIsNotBusy
<1>12. CASE WriteSuperBlock
  <2>1. /\ UNCHANGED <<alive, running, state, isReadOnly, completion, heard, disallowed, save>>
        /\ phase = "write super block" /\ phase' = "super block"
    BY <1>12 DEF WriteSuperBlock, vars
  <2>2. superBlock.parent = "none" /\ superBlock.onDisk # "clean" /\ vdoState # "clean"
    <3>1. disallowed /\ ~inProgress
      BY <1>0, <2>1, UnstartedIsIdle DEF VInv, Closed, IInv
    <3> QED
      BY <1>0, <2>1, <3>1 DEF VInv, Saving, TypeOKVDO, isVDO, inProgress, CleanWhen
  <2>3. CASE ~(save /\ ~failed)
    <3>1. UNCHANGED <<vdoState, superBlock, failed>>
      BY <1>12, <2>3 DEF WriteSuperBlock, vdoVars
    <3> QED
      BY <1>0, <2>1, <2>2, <3>1 DEF VInv, TypeOKVDO, Phases, Closed, SuperBlockIsNotBusy, Saving, Told, CleanWhen,
                                    ErrorsAreFound, threadsOf, isVDO
  <2>4. CASE save /\ ~failed
    <3>1. PICK new \in VDOStates : new = (IF vdoState = "dirty" THEN "clean" ELSE vdoState)
      BY <1>0 DEF TypeOKVDO, VDOStates
    <3>2. /\ vdoState' = new /\ failed' = superBlock.unwriteable
          /\ superBlock' = IF superBlock.unwriteable THEN superBlock
                           ELSE [superBlock EXCEPT !.parent = "suspend", !.writing = new]
      BY <1>12, <2>2, <2>4, <3>1 DEF WriteSuperBlock, saveSuperBlockAsync
    <3>3. TypeOKVDO' /\ SuperBlockIsNotBusy'
      BY <1>0, <2>1, <3>2 DEF TypeOKVDO, SuperBlockIsNotBusy
    <3>4. Saving'
      BY <1>0, <2>1, <2>2, <3>2 DEF TypeOKVDO, Saving
    <3>5. Told'
      BY <1>0, <2>1, <2>2, <3>1, <3>2 DEF VInv, TypeOKVDO, Told
    <3>6. CleanWhen'
      BY <1>0, <2>1, <2>2, <3>1, <3>2 DEF TypeOKVDO, CleanWhen
    <3>7. ErrorsAreFound'
      BY <2>1 DEF VInv, ErrorsAreFound, threadsOf
    <3> QED
      BY <1>0, <2>1, <3>3, <3>4, <3>5, <3>6, <3>7 DEF VInv, Phases, Closed
  <2> QED BY <2>3, <2>4
<1>13. CASE SuspendEnd
  <2>1. /\ UNCHANGED <<vdoState, superBlock, alive, failed, state, isReadOnly, completion, heard, disallowed, save>>
        /\ phase = "super block" /\ superBlock.parent # "suspend" /\ phase' = "suspended" /\ running' = FALSE
    BY <1>13 DEF SuspendEnd, vars, vdoVars
  <2> QED
    BY <1>0, <2>1 DEF VInv, TypeOKVDO, Phases, Closed, SuperBlockIsNotBusy, Saving, Told, CleanWhen,
                      ErrorsAreFound, threadsOf, isVDO
<1>14. CASE ResumeStart
  <2>1. /\ UNCHANGED <<alive, running, state, isReadOnly, completion, heard, disallowed, save>>
        /\ phase = "suspended" /\ phase' = "resume"
    BY <1>14 DEF ResumeStart, vars
  <2>2. superBlock.parent = "none"
    <3>1. disallowed /\ ~inProgress
      BY <1>0, <2>1, UnstartedIsIdle DEF VInv, Closed, IInv
    <3> QED
      BY <1>0, <2>1, <3>1 DEF VInv, Saving, TypeOKVDO, isVDO, inProgress
  <2>3. CASE vdoState # "clean"
    <3>1. UNCHANGED <<vdoState, superBlock>> /\ failed' = FALSE
      BY <1>14, <2>3 DEF ResumeStart, vdoVars
    <3> QED
      BY <1>0, <2>1, <2>2, <2>3, <3>1 DEF VInv, TypeOKVDO, Phases, Closed, SuperBlockIsNotBusy, Saving, Told, CleanWhen,
                                    ErrorsAreFound, threadsOf, isVDO
  <2>4. CASE vdoState = "clean"
    <3>1. /\ vdoState' = "dirty" /\ failed' = superBlock.unwriteable
          /\ superBlock' = IF superBlock.unwriteable THEN superBlock
                           ELSE [superBlock EXCEPT !.parent = "resume", !.writing = "dirty"]
      BY <1>14, <2>2, <2>4 DEF ResumeStart, saveSuperBlockAsync
    <3>2. TypeOKVDO' /\ SuperBlockIsNotBusy'
      BY Zenon, <1>0, <2>1, <3>1 DEF TypeOKVDO, SuperBlockIsNotBusy, VDOStates
    <3>3. Saving' /\ CleanWhen'
      BY <1>0, <2>1, <2>2, <3>1 DEF TypeOKVDO, Saving, CleanWhen
    <3>4. Told'
      BY <1>0, <2>1, <2>2, <2>4, <3>1 DEF VInv, TypeOKVDO, Told
    <3>5. ErrorsAreFound'
      BY <2>1 DEF VInv, ErrorsAreFound, threadsOf
    <3> QED
      BY <1>0, <2>1, <3>2, <3>3, <3>4, <3>5 DEF VInv, Phases, Closed
  <2> QED BY <2>3, <2>4
<1>15. CASE Allow
  <2>1. /\ UNCHANGED <<vdoState, superBlock, alive, running, failed, isReadOnly, completion, heard, save>>
        /\ phase = "resume" /\ superBlock.parent # "resume" /\ phase' = "allow"
        /\ state' = (IF state = "may not notify" THEN "may notify" ELSE state)
    BY <1>15 DEF Allow, AllowReadOnlyModeEntry, vdoVars
  <2> QED
    BY <1>0, <2>1 DEF VInv, TypeOKVDO, Phases, Closed, SuperBlockIsNotBusy, Saving, Told, CleanWhen,
                      ErrorsAreFound, threadsOf, isVDO
<1>16. CASE CheckForPending
  BY <1>0, <1>16, FrameVInv DEF CheckForPending, CheckPendingError, VInv, Saving, isVDO, Closed
<1>17. CASE ResumeEnd
  <2>1. /\ UNCHANGED <<vdoState, superBlock, state, isReadOnly, completion, heard, save, disallowed>>
        /\ phase = "allow" /\ phase' = "none" /\ alive' \subseteq Components
        /\ failed' \in BOOLEAN /\ (failed => failed') /\ running' = ~failed'
    BY <1>0, <1>17 DEF ResumeEnd, TypeOKVDO, vars, vdoVars
  <2> QED
    BY <1>0, <2>1 DEF VInv, TypeOKVDO, Phases, Closed, SuperBlockIsNotBusy, Saving, Told, CleanWhen,
                      ErrorsAreFound, threadsOf, isVDO
<1>18. CASE UNCHANGED allVars
  BY <1>0, <1>18, FrameVInv DEF allVars, vars, VInv, Saving, isVDO
<1> QED
  BY <1>1, <1>2, <1>3, <1>4, <1>5, <1>6, <1>7, <1>8, <1>9, <1>10, <1>11, <1>12, <1>13, <1>14, <1>15, <1>16, <1>17, <1>18
     DEF NextVDO

-----------------------------------------------------------------------------
(* The invariant holds of every behaviour of the VDO.                      *)
THEOREM VDOInvariance == SpecVDO => []VInv
  BY InitVInv, NextVInv, PTL DEF SpecVDO

(* A VDO which suspends and resumes uses its notifier as readOnlyNotifier.h *)
(* demands: every behaviour of the VDO is one of the notifier.             *)
THEOREM ImplementsNotifier == SpecVDO => Spec
  BY InitIsNotifiers, StepIsNotifiers, PTL DEF SpecVDO, Spec

(* The state of the VDO and its notifier always has its type.              *)
THEOREM VDOTypeCorrect == SpecVDO => []TypeOKVDO
  BY VDOInvariance, PTL DEF VInv

(* waitUntilNotEnteringReadOnlyMode() keeps its promise to a suspend.      *)
THEOREM SuspendIsNotDisturbed == SpecVDO => []DisallowedMeansQuiet
  BY ImplementsNotifier, DisallowingWorks, PTL

(* Every error is announced, every listener hears of it once, and          *)
(* notifyVDOOfReadOnlyMode() never finds the VDO read-only already.        *)
THEOREM NoticesGivenOnce == SpecVDO => []NoticesAreGivenOnce
<1>1. VInv => VDOIsToldOnce
  BY Roles DEF VInv, Told, VDOIsToldOnce, TypeOKVDO, TypeOK
<1>2. ErrorIsAnnounced /\ ListenersHearOnce /\ VDOIsToldOnce => NoticesAreGivenOnce
  BY DEF NoticesAreGivenOnce
<1> QED
  BY <1>1, <1>2, VDOInvariance, ImplementsNotifier, NoErrorIsLost, ListenersAreCalledOnce, PTL

(* saveSuperBlockAsync() is never called while a save is in progress, the  *)
(* super block says read-only once that has been announced, and does not   *)
(* say clean while requests are admitted.                                  *)
THEOREM SuperBlockIsAlwaysRight == SpecVDO => []SuperBlockIsRight
<1>1. VInv => SuperBlockIsRight
  <2> SUFFICES ASSUME VInv PROVE ReadOnlyIsSaved /\ RunningIsNotClean
    BY DEF VInv, SuperBlockIsRight
  <2>1. RunningIsNotClean
    BY DEF VInv, CleanWhen, RunningIsNotClean
  <2>2. ReadOnlyIsSaved
    <3> SUFFICES ASSUME state = "notified", ~superBlock.unwriteable PROVE superBlock.onDisk = "read-only"
      BY DEF ReadOnlyIsSaved
    <3>1. heard[AdminThread] >= VDOListener /\ ~inProgress
      BY Roles DEF VInv, IInv
    <3> QED
      BY <3>1 DEF VInv, Told, Saving, isVDO, inProgress
  <2> QED BY <2>1, <2>2
<1> QED
  BY <1>1, VDOInvariance, PTL

(* writeSuperBlock() marks the VDO clean only when no thread has met an    *)
(* error, though each component was drained at a time of its own.          *)
THEOREM CleanOnlyWithoutError == SpecVDO => CleanMeansNoError
<1>1. VInv /\ [NextVDO]_allVars =>
        [vdoState' = "clean" /\ vdoState # "clean" => \A t \in Threads : ~isReadOnly[t]]_allVars
  <2> SUFFICES ASSUME VInv, NextVDO, vdoState' = "clean", vdoState # "clean", NEW t \in Threads PROVE ~isReadOnly[t]
    OBVIOUS
  <2>1. CASE WriteSuperBlock
    <3>1. phase = "write super block" /\ ~failed
      BY <2>1 DEF WriteSuperBlock, vdoVars
    <3>2. undrained = {}
      BY <3>1 DEF undrained
    <3> QED
      BY <3>1, <3>2 DEF VInv, ErrorsAreFound
  <2>2. CASE Notify
    BY <2>2 DEF Notify, notifyVDOOfReadOnlyMode, vdoVars
  <2>3. CASE \/ \E u \in Threads : Fail(u)
             \/ AcknowledgeListener \/ FinishReadOnlyNotification \/ LeaveRecoveryMode
             \/ \E succeeded \in BOOLEAN : FinishSave(succeeded)
             \/ SuspendStart \/ DisallowForSuspend \/ Waited \/ DrainPacker
             \/ DrainComponent("block map", "journal") \/ DrainComponent("journal", "depot")
             \/ DrainComponent("depot", "write super block")
             \/ SuspendEnd \/ ResumeStart \/ Allow \/ CheckForPending \/ ResumeEnd
    BY Zenon, <2>3 DEF Fail, AcknowledgeListener, FinishReadOnlyNotification, LeaveRecoveryMode, FinishSave, SuspendStart,
                DisallowForSuspend, Waited, DrainPacker, DrainComponent, SuspendEnd, ResumeStart, Allow,
                CheckForPending, ResumeEnd, vdoVars
  <2> QED
    BY <2>1, <2>2, <2>3 DEF NextVDO
<1> QED
  BY <1>1, VDOInvariance, PTL DEF SpecVDO, CleanMeansNoError
=============================================================================
