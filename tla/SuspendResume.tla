---------------------------- MODULE SuspendResume ----------------------------
(***************************************************************************)
(* A VDO suspended, saved and resumed (vdoSuspend.c, vdoResume.c, and the  *)
(* layer's part in kernelLayer.c) while its threads may meet errors: the   *)
(* read-only notifier composed with the super block (superBlock.c) and the *)
(* state of the VDO which it holds.  Draining a component is one step,     *)
(* which reports whether its threads have gone read-only.                  *)
(***************************************************************************)
EXTENDS ReadOnlyNotifier

CONSTANTS
  LogicalThreads, PhysicalThreads,
  VDOListener        \* the VDO is this listener of the admin thread

(* What registerReadOnlyListener() is called for: the VDO and the recovery *)
(* journal, both on the admin thread, and the block allocator of each      *)
(* physical zone.                                                          *)
registeredListeners ==
  [t \in Threads |-> (IF t = AdminThread THEN 2 ELSE 0) + (IF t \in PhysicalThreads THEN 1 ELSE 0)]

ASSUME RolesAssumption ==
  /\ LogicalThreads \subseteq Threads /\ PhysicalThreads \subseteq Threads
  /\ VDOListener \in 1 .. ListenerCount[AdminThread]

VARIABLES
  vdoState,          \* VDO.state, as the next super block will have it
  superBlock,        \* what is on disk, the write in progress, and for whom
  phase,             \* of the suspend or resume in progress
  save,              \* the suspend is to save the VDO
  failed,            \* the operation in progress has met an error
  alive,             \* the components which have not been drained
  running            \* the layer admits requests

vdoVars == <<vdoState, superBlock>>
phaseVars == <<phase, save, failed, alive, running>>
allVars == <<vars, vdoVars, phaseVars>>

VDOStates == {"dirty", "clean", "recovering", "read-only"}
Components == {"block map", "journal", "depot"}

-----------------------------------------------------------------------------
(* The super block.                                                        *)

saveSuperBlockAsync(parent, contents) ==
  superBlock' = IF superBlock.unwriteable THEN superBlock
                ELSE IF superBlock.parent # "none" THEN [superBlock EXCEPT !.refused = TRUE]
                ELSE [superBlock EXCEPT !.parent = parent, !.writing = contents]

(* The write ends: finishSuperBlockParent(), or handleSaveError() first.   *)
(* A write which failed may have reached the disk.                         *)
FinishSave(succeeded) ==
  /\ superBlock.parent # "none"
  /\ \E contents \in IF succeeded THEN {superBlock.writing} ELSE {superBlock.writing, superBlock.onDisk} :
       superBlock' = [superBlock EXCEPT !.onDisk = contents, !.parent = "none",
                                        !.unwriteable = @ \/ ~succeeded]
  /\ failed' = (failed \/ (~succeeded /\ superBlock.parent # "notifier"))
  /\ UNCHANGED <<vars, vdoState, phase, save, alive, running>>

-----------------------------------------------------------------------------
(* The notifier, with the VDO as its listener.                             *)

notifyVDOOfReadOnlyMode ==
  /\ vdoState' = "read-only"
  /\ saveSuperBlockAsync("notifier", "read-only")

isVDO(c) == c.does = "notify" /\ c.thread = AdminThread /\ c.listener = VDOListener

(* A step which may call the VDO as a listener.                            *)
Notify ==
  /\ (\E t \in Threads : StartNotification(t)) \/ MakeThreadReadOnly \/ DoPendingNotification
  /\ IF isVDO(completion') /\ ~isVDO(completion) THEN notifyVDOOfReadOnlyMode ELSE UNCHANGED vdoVars
  /\ UNCHANGED phaseVars

(* The VDO answers when its super block has been written.                  *)
AcknowledgeListener ==
  /\ isVDO(completion) => superBlock.parent # "notifier"
  /\ Acknowledge
  /\ UNCHANGED <<vdoVars, phaseVars>>

(* The threads of a component meet errors while it is active, and the      *)
(* admin thread also when it modifies a VDO which is suspended.            *)
mayFail(t) ==
  \/ t \in LogicalThreads /\ "block map" \in alive
  \/ t \in PhysicalThreads /\ "depot" \in alive
  \/ t = AdminThread /\ ("journal" \in alive \/ phase = "suspended")

Fail(t) ==
  /\ mayFail(t)
  /\ EnterReadOnlyMode(t)
  /\ UNCHANGED <<vdoVars, phaseVars>>

FinishReadOnlyNotification ==
  /\ FinishEnteringReadOnlyMode
  /\ UNCHANGED <<vdoVars, phaseVars>>

(* leaveRecoveryMode(), when the last slab has been scrubbed.              *)
LeaveRecoveryMode ==
  /\ vdoState = "recovering" /\ "depot" \in alive /\ free(AdminThread)
  /\ vdoState' = "dirty"
  /\ UNCHANGED <<vars, superBlock, phaseVars>>

-----------------------------------------------------------------------------
(* Suspending: suspendCallback(), phase by phase.                          *)

SuspendStart ==
  /\ phase = "none" /\ running
  /\ \E s \in BOOLEAN : save' = s
  /\ phase' = "waiting" /\ failed' = FALSE
  /\ WaitUntilNotEnteringReadOnlyMode
  /\ UNCHANGED <<vdoVars, alive, running>>

DisallowForSuspend ==
  /\ phase = "waiting"
  /\ DisallowNotifications
  /\ UNCHANGED <<vdoVars, phaseVars>>

Waited ==
  /\ phase = "waiting" /\ admin = "idle" /\ disallowed
  /\ phase' = "packer"
  /\ UNCHANGED <<vars, vdoVars, save, failed, alive, running>>

DrainPacker ==
  /\ phase = "packer"
  /\ failed' = (failed \/ vdoState = "read-only")
  /\ phase' = "block map"
  /\ UNCHANGED <<vars, vdoVars, save, alive, running>>

threadsOf(component) ==
  CASE component = "block map" -> LogicalThreads
    [] component = "journal" -> {AdminThread}
    [] component = "depot" -> PhysicalThreads

(* Mutant: a component does not say that it is read-only.                  *)
DrainComponent_noResult(component, next) ==
  /\ phase = component /\ \A t \in threadsOf(component) : free(t)
  /\ alive' = alive \ {component}
  /\ phase' = next
  /\ UNCHANGED <<vars, vdoVars, save, failed, running>>

(* The drain of the logical zones and the block map, of the journal, or of *)
(* the slab depot ends, with VDO_READ_ONLY if a thread of it is.           *)
DrainComponent(component, next) ==
  /\ phase = component /\ \A t \in threadsOf(component) : free(t)
  /\ alive' = alive \ {component}
  /\ failed' = (failed \/ \E t \in threadsOf(component) : isReadOnly[t])
  /\ phase' = next
  /\ UNCHANGED <<vars, vdoVars, save, running>>

(* writeSuperBlock() of a save; a suspend, or one which failed, is done.   *)
WriteSuperBlock ==
  /\ phase = "write super block" /\ free(AdminThread)
  /\ phase' = "super block"
  /\ IF save /\ ~failed
     THEN LET new == IF vdoState = "dirty" THEN "clean" ELSE vdoState
          IN  /\ vdoState' = new
              /\ saveSuperBlockAsync("suspend", new)
              /\ failed' = superBlock.unwriteable
     ELSE UNCHANGED <<vdoVars, failed>>
  /\ UNCHANGED <<vars, save, alive, running>>

SuspendEnd ==
  /\ phase = "super block" /\ superBlock.parent # "suspend"
  /\ phase' = "suspended" /\ running' = FALSE
  /\ UNCHANGED <<vars, vdoVars, save, failed, alive>>

-----------------------------------------------------------------------------
(* Resuming: resumeCallback().                                             *)

(* Mutant: only a suspended VDO is marked dirty, not a saved one.          *)
ResumeStart_staysClean ==
  /\ phase = "suspended" /\ free(AdminThread)
  /\ phase' = "resume" /\ failed' = FALSE
  /\ UNCHANGED <<vars, vdoVars, save, alive, running>>

ResumeStart ==
  /\ phase = "suspended" /\ free(AdminThread)
  /\ phase' = "resume"
  /\ IF vdoState = "clean"
     THEN /\ vdoState' = "dirty"
          /\ saveSuperBlockAsync("resume", "dirty")
          /\ failed' = superBlock.unwriteable
     ELSE failed' = FALSE /\ UNCHANGED vdoVars
  /\ UNCHANGED <<vars, save, alive, running>>

Allow ==
  /\ phase = "resume" /\ superBlock.parent # "resume"
  /\ phase' = "allow"
  /\ AllowReadOnlyModeEntry
  /\ UNCHANGED <<vdoVars, save, failed, alive, running>>

CheckForPending ==
  /\ phase = "allow"
  /\ CheckPendingError
  /\ UNCHANGED <<vdoVars, phaseVars>>

(* The components are resumed, unless they are read-only, and the layer    *)
(* admits requests again if nothing has failed.                            *)
ResumeEnd ==
  /\ phase = "allow" /\ admin = "idle" /\ free(AdminThread) /\ superBlock.parent # "resume"
  /\ phase' = "none"
  /\ LET ready == {c \in Components : \A t \in threadsOf(c) : ~isReadOnly[t]}
     IN  /\ alive' = alive \cup ready
         /\ failed' = (failed \/ ready # Components)
         /\ running' = ~failed'
  /\ UNCHANGED <<vars, vdoVars, save>>

-----------------------------------------------------------------------------
(* After a load the VDO is running and marked dirty, or it was read-only.  *)
InitVDO ==
  \E wasReadOnly \in BOOLEAN :
    /\ makeReadOnlyNotifier(wasReadOnly)
    /\ vdoState \in IF wasReadOnly THEN {"read-only"} ELSE {"dirty", "recovering"}
    /\ superBlock = [onDisk |-> IF wasReadOnly THEN "read-only" ELSE "dirty",
                     parent |-> "none", writing |-> "dirty", unwriteable |-> FALSE, refused |-> FALSE]
    /\ phase = "none" /\ save = FALSE /\ failed = FALSE
    /\ alive = IF wasReadOnly THEN {} ELSE Components
    /\ running = TRUE

NextVDO ==
  \/ \E t \in Threads : Fail(t)
  \/ Notify \/ AcknowledgeListener \/ FinishReadOnlyNotification \/ LeaveRecoveryMode
  \/ \E succeeded \in BOOLEAN : FinishSave(succeeded)
  \/ SuspendStart \/ DisallowForSuspend \/ Waited \/ DrainPacker
  \/ DrainComponent("block map", "journal") \/ DrainComponent("journal", "depot")
  \/ DrainComponent("depot", "write super block")
  \/ WriteSuperBlock \/ SuspendEnd \/ ResumeStart \/ Allow \/ CheckForPending \/ ResumeEnd

SpecVDO == InitVDO /\ [][NextVDO]_allVars

(* A handler runs to its end, queued callbacks are run, writes of the      *)
(* super block end, and a suspend or resume which has begun goes on.       *)
FairnessVDO ==
  /\ WF_allVars(Notify) /\ WF_allVars(AcknowledgeListener) /\ WF_allVars(FinishReadOnlyNotification)
  /\ WF_allVars(\E succeeded \in BOOLEAN : FinishSave(succeeded))
  /\ WF_allVars(\/ DisallowForSuspend \/ Waited \/ DrainPacker \/ WriteSuperBlock \/ SuspendEnd
                \/ DrainComponent("block map", "journal") \/ DrainComponent("journal", "depot")
                \/ DrainComponent("depot", "write super block")
                \/ Allow \/ CheckForPending \/ ResumeEnd)

FairSpecVDO == SpecVDO /\ FairnessVDO

-----------------------------------------------------------------------------
(* Properties.                                                             *)

TypeOKVDO ==
  /\ TypeOK
  /\ vdoState \in VDOStates
  /\ superBlock \in [onDisk: VDOStates, writing: VDOStates, unwriteable: BOOLEAN, refused: BOOLEAN,
                     parent: {"none", "notifier", "suspend", "resume"}]
  /\ alive \subseteq Components
  /\ save \in BOOLEAN /\ failed \in BOOLEAN /\ running \in BOOLEAN

(* The notifier exists "to not cause super block write races": suspending, *)
(* resuming and the notification never save the super block at once, so    *)
(* saveSuperBlockAsync() never returns VDO_COMPONENT_BUSY.                 *)
SuperBlockIsNotBusy == ~superBlock.refused

(* notifyVDOOfReadOnlyMode() is never called for a VDO which already is in *)
(* read-only mode: it would complete its parent twice.                     *)
VDOIsToldOnce ==
  heard[AdminThread] < VDOListener => vdoState # "read-only"

(* When the notification has ended the read-only state is on disk, and     *)
(* stays there, unless the super block cannot be written.                  *)
ReadOnlyIsSaved == state = "notified" /\ ~superBlock.unwriteable => superBlock.onDisk = "read-only"

(* A VDO is marked clean only if none of its threads has gone read-only:   *)
(* a failed component always makes the save fail.                          *)
CleanMeansNoError ==
  [][vdoState' = "clean" /\ vdoState # "clean" => \A t \in Threads : ~isReadOnly[t]]_allVars

(* While requests are admitted the super block on disk does not say that   *)
(* the VDO is clean: after a crash it will be recovered.                   *)
RunningIsNotClean == running /\ phase = "none" => superBlock.onDisk # "clean"

(* An error which makes the VDO read-only is announced, and announced once, *)
(* to every listener and to the VDO itself.                                *)
NoticesAreGivenOnce == ErrorIsAnnounced /\ ListenersHearOnce /\ VDOIsToldOnce

(* The super block is saved by one at a time, and what it says of the VDO  *)
(* is right: read-only once that has been announced, and never clean while *)
(* requests are admitted.                                                  *)
SuperBlockIsRight == SuperBlockIsNotBusy /\ ReadOnlyIsSaved /\ RunningIsNotClean
=============================================================================
