----------------------------- MODULE MCWritePath -----------------------------
(***************************************************************************)
(* Two parts which share no state, checked side by side: a behaviour is    *)
(* one of the write path (WritePath) or of a VDO which is suspended, saved *)
(* and resumed while its threads may meet errors (SuspendResume).  The     *)
(* other part stays where it began, where no fair action is enabled.       *)
(***************************************************************************)
EXTENDS WritePath, SuspendResume

CONSTANTS v1, v2, v3

VARIABLE part        \* the part whose behaviour this is

InitParts ==
  /\ part \in {"path", "VDO"}
  /\ PathInit /\ InitVDO
  /\ part = "path" => vdoState = "dirty"

NextPart ==
  \/ part = "path" /\ PathNext /\ UNCHANGED <<allVars, part>>
  \/ part = "VDO" /\ NextVDO /\ UNCHANGED <<pathVars, part>>

FairSpecParts ==
  InitParts /\ [][NextPart]_<<pathVars, allVars, part>> /\ PathFairness /\ FairnessVDO

(* Two fragments which fill a bin, and one which is larger.                *)
MCCompressedSize == v1 :> 1 @@ v2 :> 1 @@ v3 :> 2

(* Two writes for one logical block, and one for another.                  *)
MClbn == v1 :> 0 @@ v2 :> 0 @@ v3 :> 1
=============================================================================
