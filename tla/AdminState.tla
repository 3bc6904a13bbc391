----------------------------- MODULE AdminState -----------------------------
(***************************************************************************)
(* Administrative states (vdo/base/adminState.h and adminState.c): what a  *)
(* component such as a slab, a zone or the scrubber is doing, whether it   *)
(* is draining, loading, quiescing or quiescent, and the one operation     *)
(* which may be in progress.  An AdminState is a record, and a function of *)
(* the source is an operator from records to records.                      *)
(***************************************************************************)
EXTENDS Integers, Sequences

(* The type of each AdminStateCode.                                        *)
adminType ==
  [normal |-> "normal", operating |-> "normal", formatting |-> "format", loading |-> "normal",
   loadingForRecovery |-> "recover", loadingForRebuild |-> "rebuild", waitingForRecovery |-> "recover",
   new |-> "normal", recovering |-> "recover", rebuilding |-> "rebuild", saving |-> "save", saved |-> "save",
   scrubbing |-> "scrub", saveForScrubbing |-> "scrub", suspending |-> "suspend", suspended |-> "suspend",
   suspendedOperation |-> "suspend", resuming |-> "resume"]

AdminStateCodes == DOMAIN adminType

(* Its flags.                                                              *)
operatingCodes ==
  {"operating", "formatting", "loading", "loadingForRecovery", "loadingForRebuild", "waitingForRecovery",
   "recovering", "rebuilding", "saving", "scrubbing", "saveForScrubbing", "suspending",
   "suspendedOperation", "resuming"}
drainingCodes == {"recovering", "rebuilding", "saving", "scrubbing", "saveForScrubbing", "suspending"}
loadingCodes == {"formatting", "loading", "loadingForRecovery", "loadingForRebuild", "scrubbing"}
quiescingCodes == {"saving", "suspending"}
quiescentCodes == {"new", "saved", "suspended", "suspendedOperation", "resuming"}

isNormal(a) == adminType[a.state] = "normal"
isOperating(a) == a.state \in operatingCodes
isDraining(a) == a.state \in drainingCodes
isLoading(a) == a.state \in loadingCodes
isResuming(a) == adminType[a.state] = "resume"
isQuiescing(a) == a.state \in quiescingCodes
isQuiescent(a) == a.state \in quiescentCodes

adminState(code) ==
  [state |-> code, nextState |-> code, starting |-> FALSE, complete |-> FALSE, waiter |-> "none"]

getNextState(previous, operation) ==
  CASE operation \in quiescingCodes -> IF operation = "saving" THEN "saved" ELSE "suspended"
    [] operation = "suspendedOperation" -> previous
    [] OTHER -> "normal"

(* An operation can not begin while another is in progress or somebody     *)
(* still waits, nor if it is for the other kind of state.                  *)
mayBegin(a, operation) ==
  /\ ~isOperating(a)
  /\ isQuiescent(a) <=> operation \in quiescentCodes
  /\ a.waiter = "none"

begin(a, operation, waiter) ==
  [a EXCEPT !.state = operation, !.nextState = getNextState(a.state, operation),
            !.waiter = waiter, !.starting = TRUE]

(* endOperation(): an operation which ends before its initiator returned   *)
(* is only noted, and beginOperation() ends it.                            *)
endOperation(a) ==
  IF ~isOperating(a) THEN a
  ELSE IF a.starting THEN [a EXCEPT !.complete = TRUE]
  ELSE [a EXCEPT !.complete = FALSE, !.state = a.nextState, !.waiter = "none"]

started(a) ==
  LET b == [a EXCEPT !.starting = FALSE]
  IN  IF b.complete THEN endOperation(b) ELSE b

(* The operation which ended in a step from a to b, if somebody waited.    *)
released(a, b) == a.waiter # "none" /\ b.waiter = "none"

resumeIfQuiescent(a) == IF isQuiescent(a) THEN [a EXCEPT !.state = "normal"] ELSE a
=============================================================================
