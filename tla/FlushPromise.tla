---------------------------- MODULE FlushPromise ----------------------------
(***************************************************************************)
(* What a flush promises (vdo/base/flush.h): a flush which has been        *)
(* requested is acknowledged only when every write which was in progress   *)
(* when it was requested has finished, in the order of the requests.       *)
(***************************************************************************)
EXTENDS Naturals, Sequences

CONSTANTS DataVIOs, Flushes

VARIABLES
  active,            \* the writes in progress
  requested,         \* the flushes requested and not yet acknowledged, in order
  waitsFor           \* the writes each of these waits for

promiseVars == <<active, requested, waitsFor>>

PromiseInit ==
  /\ active = {}
  /\ requested = <<>>
  /\ waitsFor = [f \in Flushes |-> {}]

(* Some writes begin and some end.                                         *)
Write(begun, ended) ==
  /\ begun \cap active = {}
  /\ active' = (active \cup begun) \ ended
  /\ waitsFor' = [f \in Flushes |-> waitsFor[f] \ ended]
  /\ UNCHANGED requested

Request(f) ==
  /\ \A i \in 1 .. Len(requested) : requested[i] # f
  /\ requested' = Append(requested, f)
  /\ waitsFor' = [waitsFor EXCEPT ![f] = active]
  /\ UNCHANGED active

Acknowledge ==
  /\ requested # <<>> /\ waitsFor[Head(requested)] = {}
  /\ requested' = Tail(requested)
  /\ UNCHANGED <<active, waitsFor>>

PromiseNext ==
  \/ \E begun, ended \in SUBSET DataVIOs : Write(begun, ended)
  \/ \E f \in Flushes : Request(f)
  \/ Acknowledge

PromiseSpec == PromiseInit /\ [][PromiseNext]_promiseVars
=============================================================================
