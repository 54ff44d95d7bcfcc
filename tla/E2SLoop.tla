-------------------------------- MODULE E2SLoop --------------------------------
(***************************************************************************)
(* An explicit-state run of one session: the loop of core/e2s/loop.go, the  *)
(* checkpoints of its state Sigma (core/orchestrator_e2s.go), and what the  *)
(* session manager does around it (session/manager_execution.go), through   *)
(* pauses, stops, quits and crashes at any step.                            *)
(*                                                                         *)
(* Sigma is the task it was seeded for and the number of patches applied to *)
(* it.  A patch is saved before its action is dispatched; a save may fail,  *)
(* the run goes on.  The task is the session's latest one.                  *)
(***************************************************************************)
EXTENDS Integers

CONSTANTS
  MaxSteps,      \* Config.MaxSteps, turns of one run
  NudgeAt,       \* Config.SpinNudgeThreshold
  AbortAt,       \* Config.SpinAbortThreshold
  MaxSeeds,      \* bound: fresh states
  MaxPatches,    \* bound: patches of one state
  MaxHalts       \* bound: quits and crashes

VARIABLES
  e2sAt,      \* where the run is, "idle" without one
  sigma,      \* state of the loop
  kept,       \* the Sigma saved with the task
  e2sRow,     \* the task's status, "none" before the first
  e2sAnchor,  \* lastCompletedTaskID is this task
  entry,      \* "send", "nudge" (tryContinueInterruptedTask) or "resume"
  turnNo,       \* turn of the run
  spin,       \* spinCount
  outcome,    \* RunStatus of the run
  pausing,    \* the pause signal
  halted,     \* ctx of the run: "no", cancelled by a "user", "forced" or a "quit"
  seeds,
  halts,
  acted,      \* history: Sigma when the last action was dispatched
  missed,     \* history: a save of Sigma has failed
  closedSeeds \* history: the states whose run ended, or was stopped, when it was saved

e2sTask == <<kept, e2sRow, e2sAnchor>>
e2sTurn == <<sigma, turnNo, spin>>
e2sSignals == <<pausing, halted>>
e2sBounds == <<seeds, halts>>
e2sHistory == <<acted, missed, closedSeeds>>
e2sVars == <<e2sAt, e2sTask, e2sTurn, entry, outcome, e2sSignals, e2sBounds, e2sHistory>>

NoSigma == [seed |-> 0, patches |-> 0, status |-> "none"]
Seeded(n) == [seed |-> n, patches |-> 0, status |-> "active"]

OpenTask == {"in_progress", "paused", "failed"}
EndedSigma == {"met", "failed", "cancelled"}

(* e2sStatusResumable.                                                      *)
ResumableSigma(s) == s.status \in {"active", "paused"}

E2SInit ==
  /\ e2sAt = "idle" /\ sigma = NoSigma /\ kept = NoSigma
  /\ e2sRow = "none" /\ e2sAnchor = FALSE /\ entry = "send"
  /\ turnNo = 0 /\ spin = 0 /\ outcome = "none"
  /\ pausing = FALSE /\ halted = "no"
  /\ seeds = 0 /\ halts = 0
  /\ acted = NoSigma /\ missed = FALSE /\ closedSeeds = {}

-----------------------------------------------------------------------------
(* Requests                                                                 *)

BeginRun(s, way) ==
  /\ sigma' = s /\ entry' = way
  /\ e2sAt' = IF s = NoSigma THEN "plain" ELSE "step"
  /\ turnNo' = 1 /\ spin' = 0 /\ outcome' = "none" /\ pausing' = FALSE

(* Saving s with the task.                                                  *)
SaveSigma(s) ==
  \/ kept' = s /\ UNCHANGED missed
  \/ kept # s /\ missed' = TRUE /\ UNCHANGED kept

(* Terminalizing what is saved: terminalizeE2SState.                        *)
Terminalize == SaveSigma(IF ResumableSigma(kept) THEN [kept EXCEPT !.status = "cancelled"] ELSE kept)

Fresh ==
  /\ seeds < MaxSeeds /\ seeds' = seeds + 1
  /\ BeginRun(Seeded(seeds + 1), "send")

(* Mutant: an E2S request over an unfinished task only cancels its row.     *)
TakeOverRow ==
  /\ e2sAt = "idle" /\ e2sRow \in OpenTask
  /\ e2sRow' = "in_progress"
  /\ IF e2sAnchor /\ ResumableSigma(kept)
       THEN BeginRun(kept, "send") /\ UNCHANGED <<kept, missed, seeds>>
       ELSE /\ kept' = (IF e2sAnchor THEN kept ELSE NoSigma)
            /\ Fresh /\ UNCHANGED missed
  /\ UNCHANGED <<e2sAnchor, halted, halts, acted, closedSeeds>>

(* An E2S request over an unfinished task, abandonUnfinishedTaskForE2S:     *)
(* its row is cancelled, its Sigma terminalized and the anchor dropped when *)
(* it is this task; the request starts on a fresh one.                      *)
TakeOver ==
  /\ e2sAt = "idle" /\ e2sRow \in OpenTask
  /\ e2sRow' = "in_progress" /\ e2sAnchor' = FALSE
  /\ kept' = NoSigma
  /\ Fresh
  /\ UNCHANGED <<halted, halts, acted, missed, closedSeeds>>

(* An E2S request otherwise, runE2SLoop: on the anchor's task a Sigma that  *)
(* is resumable goes on, with the message as its first observation.         *)
SendE2S ==
  /\ e2sAt = "idle" /\ e2sRow \notin OpenTask
  /\ e2sRow' = "in_progress"
  /\ IF e2sAnchor /\ ResumableSigma(kept)
       THEN BeginRun(kept, "send") /\ UNCHANGED <<kept, seeds>>
       ELSE kept' = (IF e2sAnchor THEN kept ELSE NoSigma) /\ Fresh
  /\ UNCHANGED <<e2sAnchor, halted, halts, e2sHistory>>

(* A plain request: the conductor, on the anchor's task or a fresh one.     *)
SendConductor ==
  /\ e2sAt = "idle" /\ e2sRow \notin OpenTask
  /\ e2sRow' = "in_progress"
  /\ kept' = IF e2sAnchor THEN kept ELSE NoSigma
  /\ BeginRun(NoSigma, "send")
  /\ UNCHANGED <<e2sAnchor, halted, e2sBounds, e2sHistory>>

(* An unfinished task goes on, by a message or by ResumeTask: with its      *)
(* Sigma when that is resumable (loadE2SResumeState), else in the conductor.*)
ContinueE2S ==
  /\ e2sAt = "idle" /\ e2sRow \in OpenTask
  /\ \E way \in {"nudge", "resume"} :
       /\ BeginRun(IF ResumableSigma(kept) THEN kept ELSE NoSigma, way)
       /\ e2sRow' = IF way = "resume" THEN "in_progress" ELSE e2sRow
  /\ UNCHANGED <<kept, e2sAnchor, halted, e2sBounds, e2sHistory>>

-----------------------------------------------------------------------------
(* The loop: Run                                                            *)

(* The loop is left with a RunStatus.                                       *)
LeaveE2S(status) ==
  /\ e2sAt' = "left" /\ outcome' = status
  /\ UNCHANGED <<e2sTask, turnNo, spin, entry, e2sSignals, e2sBounds, e2sHistory>>

(* A step starts, unless the run is cancelled, paused or out of steps.      *)
StepBoundary ==
  /\ e2sAt = "step"
  /\ CASE turnNo > MaxSteps -> LeaveE2S("step_limit")
       [] turnNo <= MaxSteps /\ halted # "no" -> LeaveE2S("canceled")
       [] turnNo <= MaxSteps /\ halted = "no" /\ pausing -> LeaveE2S("paused")
       [] OTHER -> /\ e2sAt' = "call"
                   /\ UNCHANGED <<e2sTask, turnNo, spin, entry, outcome, e2sSignals, e2sBounds, e2sHistory>>
  /\ UNCHANGED sigma

(* Mutant: an error of the model is fatal although the run was cancelled.   *)
FatalWhenCancelled == "failed"

(* A fatal error, of the model or of a tool past its time, in a run that    *)
(* was cancelled counts as the cancellation.                                *)
Fatal == IF halted = "no" THEN "failed" ELSE "canceled"

CallFails == e2sAt = "call" /\ LeaveE2S(Fatal) /\ UNCHANGED sigma

NextStep == e2sAt' = "step" /\ turnNo' = turnNo + 1

(* No valid call within the retries: the error is the next observation.     *)
CallInvalid ==
  /\ e2sAt = "call" /\ NextStep
  /\ UNCHANGED <<e2sTask, sigma, spin, entry, outcome, e2sSignals, e2sBounds, e2sHistory>>

(* Mutant: the patch is not saved when its turn acts.                       *)
PatchedUnsaved(s) == sigma' = s /\ UNCHANGED <<kept, missed>>

(* A valid call applies its patch, which is saved at once (onState).        *)
Patched(s) == sigma' = s /\ SaveSigma(s)

ValidCall ==
  /\ e2sAt = "call" /\ sigma.patches < MaxPatches
  /\ Patched([sigma EXCEPT !.patches = @ + 1, !.status = "active"])
  /\ e2sAt' = "answer"
  /\ UNCHANGED <<e2sRow, e2sAnchor, turnNo, spin, entry, outcome, e2sSignals, e2sBounds, acted, closedSeeds>>

(* What the call asks for: to finish, or an action, new or the last one     *)
(* again; an action repeated too often aborts the run, or is answered with  *)
(* a nudge instead of being dispatched.                                     *)
Repeats == {1} \cup (IF spin > 0 THEN {spin + 1} ELSE {})

FinishE2S ==
  /\ e2sAt = "answer" /\ LeaveE2S("finished") /\ UNCHANGED sigma

SpinAbort ==
  /\ e2sAt = "answer" /\ \E n \in Repeats : n >= AbortAt
  /\ LeaveE2S("spin_stop") /\ UNCHANGED sigma

SpinNudge ==
  /\ e2sAt = "answer" /\ spin' \in Repeats /\ spin' >= NudgeAt /\ spin' < AbortAt
  /\ NextStep
  /\ UNCHANGED <<e2sTask, sigma, entry, outcome, e2sSignals, e2sBounds, e2sHistory>>

Dispatch ==
  /\ e2sAt = "answer" /\ spin' \in Repeats /\ spin' < NudgeAt
  /\ e2sAt' = "act" /\ acted' = sigma
  /\ UNCHANGED <<e2sTask, sigma, turnNo, entry, outcome, e2sSignals, e2sBounds, missed, closedSeeds>>

(* The watchdog of the tool call: its completion, then a cancellation, then *)
(* a pause or its time limit.                                               *)
Acted ==
  /\ e2sAt = "act"
  /\ IF halted # "no" THEN LeaveE2S("canceled")
                      ELSE /\ NextStep
                           /\ UNCHANGED <<e2sTask, spin, entry, outcome, e2sSignals, e2sBounds, e2sHistory>>
  /\ UNCHANGED sigma

Interrupted ==
  /\ e2sAt = "act" /\ halted = "no" /\ pausing
  /\ LeaveE2S("paused") /\ UNCHANGED sigma

TimedOut == e2sAt = "act" /\ LeaveE2S(Fatal) /\ UNCHANGED sigma

-----------------------------------------------------------------------------
(* The end of the run                                                       *)

(* e2sDomainStatus.                                                         *)
DomainStatus ==
  CASE outcome = "finished" -> "met"
    [] outcome = "paused" -> "paused"
    [] outcome \in {"canceled", "step_limit"} -> "active"
    [] OTHER -> "failed"

(* e2sExecutionStatus with persistTaskOutcome.                              *)
RowOf ==
  CASE outcome = "finished" -> "completed"
    [] outcome = "paused" -> "paused"
    [] outcome \in {"canceled", "step_limit"} -> e2sRow
    [] OTHER -> "failed"

(* The final checkpoint of Sigma, then the task's outcome.                  *)
LastCheckpoint ==
  /\ e2sAt = "left"
  /\ LET s == [sigma EXCEPT !.status = DomainStatus]
     IN  /\ SaveSigma(s)
         /\ closedSeeds' = closedSeeds \cup IF kept' = s /\ s.status \in EndedSigma THEN {s.seed} ELSE {}
  /\ e2sRow' = RowOf
  /\ e2sAt' = "settle"
  /\ UNCHANGED <<e2sAnchor, e2sTurn, entry, outcome, e2sSignals, e2sBounds, acted>>

(* A run of the conductor ends with a status, cancelled, or with an error   *)
(* that leaves the row.                                                     *)
ConductorEnds ==
  /\ e2sAt = "plain"
  /\ \/ e2sRow' = "completed" /\ outcome' = "finished"
     \/ e2sRow' = "failed" /\ outcome' = "failed"
     \/ pausing /\ e2sRow' = "paused" /\ outcome' = "paused"
     \/ UNCHANGED e2sRow /\ outcome' \in {"failed"} \cup (IF halted # "no" THEN {"canceled"} ELSE {})
  /\ e2sAt' = "settle"
  /\ UNCHANGED <<kept, e2sAnchor, e2sTurn, entry, e2sSignals, e2sBounds, e2sHistory>>

Rest ==
  /\ e2sAt' = "idle" /\ sigma' = NoSigma /\ turnNo' = 0 /\ spin' = 0 /\ entry' = "send"
  /\ outcome' = "none" /\ pausing' = FALSE /\ halted' = "no"

(* A cancelled or failed run returns its error; the others are asked        *)
(* whether they were cancelled, but for a message that continued a task.    *)
Errored == outcome \in {"canceled", "failed"}
StopHeard == halted \in {"user", "forced"} /\ (Errored \/ entry # "nudge")

(* Mutant: a stop leaves Sigma as it was saved.                             *)
AbandonE2SRow ==
  /\ closedSeeds' = closedSeeds \cup IF halted = "user" /\ e2sRow \in OpenTask THEN {sigma.seed} \ {0} ELSE {}
  /\ e2sRow' = IF e2sRow \in OpenTask \/ entry # "send" THEN "cancelled" ELSE e2sRow
  /\ UNCHANGED <<kept, missed>>

(* abandonE2SIfUnfinished, then the row: persistCancellationIfUnfinished,   *)
(* or bb.CancelTask, whatever the row says.                                 *)
AbandonE2S ==
  /\ IF e2sRow \in OpenTask THEN Terminalize ELSE UNCHANGED <<kept, missed>>
  /\ closedSeeds' = closedSeeds \cup
       IF halted = "user" /\ e2sRow \in OpenTask /\ ~ResumableSigma(kept') THEN {sigma.seed} \ {0} ELSE {}
  /\ e2sRow' = IF e2sRow \in OpenTask \/ entry # "send" THEN "cancelled" ELSE e2sRow

SettleE2S ==
  /\ e2sAt = "settle" /\ halted # "quit"
  /\ IF StopHeard THEN AbandonE2S ELSE UNCHANGED <<kept, missed, closedSeeds, e2sRow>>
  /\ e2sAnchor' = (e2sAnchor \/ (~Errored /\ (entry = "send" \/ (~StopHeard /\ outcome # "paused"))))
  /\ Rest
  /\ UNCHANGED <<e2sBounds, acted>>

(* Shutdown pauses a task in progress; the next start restores the anchor.  *)
QuitSettled ==
  /\ e2sAt = "settle" /\ halted = "quit"
  /\ e2sRow' = IF e2sRow = "in_progress" THEN "paused" ELSE e2sRow
  /\ e2sAnchor' = TRUE
  /\ Rest
  /\ UNCHANGED <<kept, e2sBounds, e2sHistory>>

-----------------------------------------------------------------------------
(* What the user does meanwhile                                             *)

PauseE2S ==
  /\ e2sAt # "idle" /\ ~pausing /\ pausing' = TRUE
  /\ UNCHANGED <<e2sAt, e2sTask, e2sTurn, entry, outcome, halted, e2sBounds, e2sHistory>>

StopE2S ==
  /\ e2sAt # "idle" /\ halted = "no" /\ halted' = "user"
  /\ UNCHANGED <<e2sAt, e2sTask, e2sTurn, entry, outcome, pausing, e2sBounds, e2sHistory>>

(* forceTerminateStuckTask: the run goes on behind a cancelled task.        *)
ForceE2S ==
  /\ e2sAt # "idle" /\ halted = "user" /\ halted' = "forced"
  /\ IF e2sRow \in OpenTask THEN Terminalize /\ e2sRow' = "cancelled"
                            ELSE UNCHANGED <<kept, missed, e2sRow>>
  /\ UNCHANGED <<e2sAt, e2sAnchor, e2sTurn, entry, outcome, pausing, e2sBounds, acted, closedSeeds>>

(* A stop without a run: cancelUnfinishedTask leaves Sigma as saved.        *)
StopIdleE2S ==
  /\ e2sAt = "idle" /\ e2sRow \in OpenTask /\ e2sRow' = "cancelled"
  /\ UNCHANGED <<e2sAt, kept, e2sAnchor, e2sTurn, entry, outcome, e2sSignals, e2sBounds, e2sHistory>>

QuitE2S ==
  /\ e2sAt # "idle" /\ halted # "quit" /\ halts < MaxHalts
  /\ halted' = "quit" /\ halts' = halts + 1
  /\ UNCHANGED <<e2sAt, e2sTask, e2sTurn, entry, outcome, pausing, seeds, e2sHistory>>

CrashE2S ==
  /\ halts < MaxHalts /\ halts' = halts + 1
  /\ e2sRow # "none" /\ e2sAnchor' = TRUE
  /\ Rest
  /\ UNCHANGED <<kept, e2sRow, seeds, e2sHistory>>

-----------------------------------------------------------------------------

E2SRequests == TakeOver \/ SendE2S \/ SendConductor \/ ContinueE2S
E2SSteps ==
  \/ StepBoundary \/ CallFails \/ CallInvalid \/ ValidCall
  \/ FinishE2S \/ SpinAbort \/ SpinNudge \/ Dispatch \/ Acted \/ Interrupted \/ TimedOut
  \/ LastCheckpoint \/ ConductorEnds \/ SettleE2S \/ QuitSettled
E2SSignals == PauseE2S \/ StopE2S \/ ForceE2S \/ StopIdleE2S \/ QuitE2S \/ CrashE2S

E2SNext == E2SRequests \/ E2SSteps \/ E2SSignals

(* Calls of the model and of tools, and epilogues, return.                  *)
E2SFairness == WF_e2sVars(E2SSteps)

E2SSpec == E2SInit /\ [][E2SNext]_e2sVars /\ E2SFairness

-----------------------------------------------------------------------------
(* Properties                                                               *)

E2STypeOK ==
  /\ e2sAt \in {"idle", "plain", "step", "call", "answer", "act", "left", "settle"}
  /\ {sigma.status, kept.status} \subseteq {"none", "active", "paused"} \cup EndedSigma
  /\ e2sRow \in {"none", "completed", "cancelled"} \cup OpenTask

(* A run that goes on, after whatever ended it, knows of every action that  *)
(* was dispatched for its state, unless a save failed.                      *)
ActionsKnown == sigma.seed = acted.seed /\ sigma.patches < acted.patches => missed

(* A state whose run ended, or was stopped while it worked, is not entered  *)
(* again.                                                                   *)
ClosedStays == sigma'.seed # sigma.seed => sigma'.seed \notin closedSeeds

(* A quit leaves the run resumable with the state it has: it does not fail  *)
(* it, and unless the run had ended by itself, or a save failed, the task   *)
(* and what is saved with it can go on.                                     *)
QuitResumable ==
  /\ outcome' # outcome /\ outcome' = "failed" /\ sigma.seed > 0 => halted = "no"
  /\ e2sAt = "settle" /\ halted = "quit" /\ e2sAt' = "idle" /\ sigma.seed > 0
       => \/ outcome \in {"finished", "spin_stop", "failed"} \/ missed \/ e2sRow = "cancelled"
          \/ e2sRow' \in OpenTask /\ ResumableSigma(kept') /\ kept'.seed = sigma.seed
                                  /\ kept'.patches = sigma.patches

(* An E2S request over unfinished work starts from a fresh state.           *)
TakesOverFresh ==
  e2sAt = "idle" /\ e2sRow \in OpenTask /\ e2sAt' = "step" /\ entry' = "send"
    => sigma'.patches = 0

(* What an explicit-state run is promised through pauses, stops, quits and  *)
(* crashes.                                                                 *)
StateKept ==
  /\ [](E2STypeOK /\ ActionsKnown)
  /\ [][ClosedStays /\ QuitResumable /\ TakesOverFresh]_e2sVars

(* A request of a session with an explicit-state task comes back.           *)
E2SRunsEnd == []<>(e2sAt = "idle")
===============================================================================
