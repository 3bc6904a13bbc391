-------------------------- MODULE ReadOnlyNotifier --------------------------
(***************************************************************************)
(* vdo/base/readOnlyNotifier.c: how the threads of a VDO learn that it has *)
(* become read-only.  Any thread may meet the error; the admin thread may  *)
(* meanwhile disallow notifications, to suspend the VDO, and allow them    *)
(* again.  They agree by compare-and-swap on two words, the error and the  *)
(* state, and each access of one of them is a step of its own.  The admin  *)
(* thread is thread 0, as in makeThreadConfig().                           *)
(***************************************************************************)
EXTENDS Integers

CONSTANTS
  ThreadCount,       \* the base threads are 0 .. ThreadCount - 1
  ListenerCount,     \* of each thread, the number of its listeners
  NoError            \* VDO_SUCCESS

Threads == 0 .. ThreadCount - 1
AdminThread == 0

ASSUME ThreadsAssumption ==
  /\ ThreadCount \in Nat \ {0, 1}
  /\ ListenerCount \in [Threads -> Nat]
  /\ NoError \notin Threads

VARIABLES
  readOnlyError,     \* NoError, or the thread which met the first error
  state,
  isReadOnly,        \* what each thread believes
  entering,          \* the threads between the two swaps of enterReadOnlyMode()
  completion,        \* what the notifier's completion does, where, and for whom
  heard,             \* of each thread, how many listeners were called
  admin,             \* where the admin thread is in its operation
  waiter,            \* the operation which waits for the notification
  disallowed         \* the last operation was a wait, and has returned

vars == <<readOnlyError, state, isReadOnly, entering, completion, heard, admin, waiter, disallowed>>

States == {"may notify", "notifying", "may not notify", "notified"}

(* thread and listener are its callbackThreadID and parent; 0 is NULL.     *)
Completions ==
  [does: {"nothing", "queued", "notify", "finish"}, thread: Threads, listener: Nat]

inProgress == completion.does # "nothing"

makeReadOnlyNotifier(wasReadOnly) ==
  /\ readOnlyError = IF wasReadOnly THEN AdminThread ELSE NoError
  /\ state = IF wasReadOnly THEN "notified" ELSE "may notify"
  /\ isReadOnly = [t \in Threads |-> wasReadOnly]
  /\ entering = {}
  /\ completion = [does |-> "nothing", thread |-> 0, listener |-> 0]
  /\ heard = [t \in Threads |-> IF wasReadOnly THEN ListenerCount[t] ELSE 0]
  /\ admin = "idle" /\ waiter = "none" /\ disallowed = FALSE

(* A thread runs one handler at a time.                                    *)
free(t) == t \notin entering /\ (t = AdminThread => admin \in {"idle", "waiting"})

-----------------------------------------------------------------------------
(* Entering read-only mode.                                                *)

(* Mutant: one thread too many is told.                                    *)
makeThreadReadOnly_extraThread(t, listener) ==
  /\ isReadOnly' = [isReadOnly EXCEPT ![t] = TRUE]
  /\ completion' = [does |-> "queued", thread |-> t + 1, listener |-> 0]
  /\ UNCHANGED heard

(* makeThreadReadOnly(), called with the last listener notified: the next  *)
(* listener is called, or else the next thread, or else the admin thread.  *)
makeThreadReadOnly(t, listener) ==
  /\ isReadOnly' = [isReadOnly EXCEPT ![t] = TRUE]
  /\ IF listener < ListenerCount[t]
     THEN /\ completion' = [does |-> "notify", thread |-> t, listener |-> listener + 1]
          /\ heard' = [heard EXCEPT ![t] = @ + 1]
     ELSE /\ completion' = IF t + 1 < ThreadCount
                           THEN [does |-> "queued", thread |-> t + 1, listener |-> 0]
                           ELSE [does |-> "finish", thread |-> AdminThread, listener |-> 0]
          /\ UNCHANGED heard

(* enterReadOnlyMode(), up to the swap of the error.                       *)
EnterReadOnlyMode(t) ==
  /\ free(t) /\ ~isReadOnly[t]
  /\ isReadOnly' = [isReadOnly EXCEPT ![t] = TRUE]
  /\ readOnlyError' = IF readOnlyError = NoError THEN t ELSE readOnlyError
  /\ entering' = IF readOnlyError = NoError THEN entering \cup {t} ELSE entering
  /\ UNCHANGED <<state, completion, heard, admin, waiter, disallowed>>

(* ... and the swap of the state, which launches the completion.           *)
StartNotification(t) ==
  /\ t \in entering
  /\ entering' = entering \ {t}
  /\ IF state = "may notify"
     THEN /\ state' = "notifying"
          /\ IF t = AdminThread
             THEN makeThreadReadOnly(0, 0)
             ELSE /\ completion' = [does |-> "queued", thread |-> 0, listener |-> 0]
                  /\ UNCHANGED <<isReadOnly, heard>>
     ELSE UNCHANGED <<state, completion, isReadOnly, heard>>
  /\ UNCHANGED <<readOnlyError, admin, waiter, disallowed>>

(* A thread takes the completion from its queue.                           *)
MakeThreadReadOnly ==
  /\ completion.does = "queued" /\ free(completion.thread)
  /\ makeThreadReadOnly(completion.thread, completion.listener)
  /\ UNCHANGED <<readOnlyError, state, entering, admin, waiter, disallowed>>

(* Mutant: the completion is not launched again.                           *)
Acknowledge_lost ==
  /\ completion.does = "notify"
  /\ completion' = [completion EXCEPT !.does = "nothing"]
  /\ UNCHANGED <<readOnlyError, state, isReadOnly, entering, heard, admin, waiter, disallowed>>

(* A listener has done what it does and completes the completion.          *)
Acknowledge ==
  /\ completion.does = "notify"
  /\ completion' = [completion EXCEPT !.does = "queued"]
  /\ UNCHANGED <<readOnlyError, state, isReadOnly, entering, heard, admin, waiter, disallowed>>

FinishEnteringReadOnlyMode ==
  /\ completion.does = "finish" /\ free(AdminThread)
  /\ state' = "notified"
  /\ completion' = [completion EXCEPT !.does = "nothing"]
  /\ waiter' = "none" /\ admin' = "idle"
  /\ disallowed' = (disallowed \/ waiter = "wait")
  /\ UNCHANGED <<readOnlyError, isReadOnly, entering, heard>>

-----------------------------------------------------------------------------
(* The operations of the admin thread, one at a time.                      *)

(* waitUntilNotEnteringReadOnlyMode(): the load of the state.              *)
WaitUntilNotEnteringReadOnlyMode ==
  /\ admin = "idle" /\ free(AdminThread) /\ waiter = "none"
  /\ IF state \in {"may not notify", "notified"}
     THEN disallowed' = TRUE /\ UNCHANGED admin
     ELSE admin' = "wait" /\ UNCHANGED disallowed
  /\ UNCHANGED <<readOnlyError, state, isReadOnly, entering, completion, heard, waiter>>

(* Mutant: the notification in progress is not waited for.                 *)
DisallowNotifications_noWait ==
  /\ admin = "wait"
  /\ state' = IF state = "may notify" THEN "may not notify" ELSE state
  /\ admin' = "idle" /\ disallowed' = TRUE
  /\ UNCHANGED <<waiter, readOnlyError, isReadOnly, entering, completion, heard>>

(* ... and its swap.                                                       *)
DisallowNotifications ==
  /\ admin = "wait"
  /\ IF state = "may notify"
     THEN /\ state' = "may not notify"
          /\ admin' = "idle" /\ disallowed' = TRUE /\ UNCHANGED waiter
     ELSE /\ admin' = "waiting" /\ waiter' = "wait"
          /\ UNCHANGED <<state, disallowed>>
  /\ UNCHANGED <<readOnlyError, isReadOnly, entering, completion, heard>>

(* allowReadOnlyModeEntry(): the first swap of the state.                  *)
AllowReadOnlyModeEntry ==
  /\ admin = "idle" /\ free(AdminThread) /\ waiter = "none"
  /\ disallowed' = FALSE
  /\ IF state = "may not notify"
     THEN state' = "may notify" /\ admin' = "check"
     ELSE UNCHANGED <<state, admin>>
  /\ UNCHANGED <<readOnlyError, isReadOnly, entering, completion, heard, waiter>>

(* Mutant: a pending notification is not looked for.                       *)
CheckPendingError_none ==
  /\ admin = "check"
  /\ admin' = "idle"
  /\ UNCHANGED <<readOnlyError, state, isReadOnly, entering, completion, heard, waiter, disallowed>>

(* ... the load of the error.                                              *)
CheckPendingError ==
  /\ admin = "check"
  /\ admin' = IF readOnlyError = NoError THEN "idle" ELSE "pending"
  /\ UNCHANGED <<readOnlyError, state, isReadOnly, entering, completion, heard, waiter, disallowed>>

(* ... and the second swap, lost to a thread which starts the notification *)
(* itself or else followed by it.                                          *)
DoPendingNotification ==
  /\ admin = "pending"
  /\ IF state = "may notify"
     THEN /\ state' = "notifying"
          /\ admin' = "waiting" /\ waiter' = "allow"
          /\ makeThreadReadOnly(completion.thread, completion.listener)
     ELSE /\ admin' = "idle"
          /\ UNCHANGED <<state, waiter, isReadOnly, completion, heard>>
  /\ UNCHANGED <<readOnlyError, entering, disallowed>>

-----------------------------------------------------------------------------
Init == \E wasReadOnly \in BOOLEAN : makeReadOnlyNotifier(wasReadOnly)

Next ==
  \/ \E t \in Threads : EnterReadOnlyMode(t) \/ StartNotification(t)
  \/ MakeThreadReadOnly \/ Acknowledge \/ FinishEnteringReadOnlyMode
  \/ WaitUntilNotEnteringReadOnlyMode \/ DisallowNotifications
  \/ AllowReadOnlyModeEntry \/ CheckPendingError \/ DoPendingNotification

Spec == Init /\ [][Next]_vars

(* A handler runs to its end, queued callbacks are run, listeners answer.  *)
Fairness ==
  /\ \A t \in Threads : WF_vars(StartNotification(t))
  /\ WF_vars(MakeThreadReadOnly) /\ WF_vars(Acknowledge) /\ WF_vars(FinishEnteringReadOnlyMode)
  /\ WF_vars(DisallowNotifications) /\ WF_vars(CheckPendingError) /\ WF_vars(DoPendingNotification)

FairSpec == Spec /\ Fairness

-----------------------------------------------------------------------------
(* Properties.                                                             *)

TypeOK ==
  /\ readOnlyError \in Threads \cup {NoError}
  /\ state \in States
  /\ isReadOnly \in [Threads -> BOOLEAN]
  /\ entering \subseteq Threads
  /\ completion \in Completions
  /\ heard \in [Threads -> Nat]
  /\ admin \in {"idle", "waiting", "wait", "check", "pending"}
  /\ waiter \in {"none", "wait", "allow"}
  /\ disallowed \in BOOLEAN

(* waitUntilNotEnteringReadOnlyMode() makes sure that no notification is   *)
(* in progress once it has returned, until notifications are allowed.      *)
DisallowedMeansQuiet == disallowed => ~inProgress /\ state \in {"may not notify", "notified"}

(* No error is forgotten: while notifications are allowed, an error which  *)
(* was recorded is announced, or some thread is about to announce it.      *)
ErrorIsAnnounced ==
  readOnlyError # NoError /\ state = "may notify" => entering # {} \/ admin \in {"check", "pending"}

(* A listener is called at most once, in spite of the one completion being *)
(* launched by any thread; and it was called, and every thread knows, when *)
(* the notification is over.                                               *)
ListenersHearOnce ==
  /\ \A t \in Threads : heard[t] <= ListenerCount[t]
  /\ state = "notified" => \A t \in Threads : isReadOnly[t] /\ heard[t] = ListenerCount[t]

(* enterReadOnlyMode() keeps the first error, and no thread which has gone *)
(* read-only ever goes back.                                               *)
ReadOnlyIsForever ==
  [][/\ readOnlyError # NoError => readOnlyError' = readOnlyError
     /\ state = "notified" => state' = "notified"
     /\ \A t \in Threads : isReadOnly[t] => isReadOnly'[t]]_vars

(* Unless notifications are disallowed for good, an error, which is never  *)
(* withdrawn, is followed by every thread and listener having been         *)
(* notified.                                                               *)
EveryThreadLearns ==
  []<>(~disallowed /\ admin = "idle") => []<>(readOnlyError = NoError \/ state = "notified")

=============================================================================
