------------------------------- MODULE GoalLoop -------------------------------
(***************************************************************************)
(* A pursuit of a goal in one session (core/orchestrator_goal.go), with     *)
(* what the session manager does around it (session/manager_execution.go):  *)
(* the derivation the user approves, the turn loop with its budget, errors  *)
(* and verification, the goal state that is saved when the loop is left,    *)
(* and stops, pauses, quits and crashes at any step, each followed by a     *)
(* message, a resume or another goal.                                       *)
(*                                                                         *)
(* The task is the session's latest one: its row and the goal saved with    *)
(* it.  Saving the goal may fail, the loop goes on (lost).  The writes of   *)
(* the row are reliable here; TaskWriter has their order.                   *)
(***************************************************************************)
EXTENDS Integers

CONSTANTS
  TurnBudgets,       \* the values of Budget.MaxTurns, 0 for none
  TurnCap,       \* bound: turns of a pursuit without a budget
  MaxPursuits,   \* bound: goals the user approves
  MaxExits,      \* bound: quits and crashes
  Verifies,      \* BOOLEAN: whether GoalLoop.Verification is not "off"
  Suggests       \* BOOLEAN: whether goal mode is suggested on plain sends

ASSUME BudgetsAssumption == TurnBudgets \subseteq Nat

VARIABLES
  loopAt,         \* where the run is, "idle" without one
  gs,       \* gs of the running loop
  saved,     \* the goal saved with the task
  taskRow,        \* the task's status, "none" before the first
  anchor,     \* lastCompletedTaskID is this task
  how,        \* the entry: "send", "nudge" (tryContinueInterruptedTask), "resume"
  suggested,  \* fallbackOnDeriveFailure
  resumed,    \* the first resumed turn: "no", "next", "this"
  errors,     \* consecutiveErrors
  suspended,  \* the run ended on a pause
  pauseUp,    \* the pause signal
  ended,      \* ctx of the run: "no", cancelled by a "user", "forced" or a "quit"
  pursuits,   \* goals approved so far
  exits,
  over,       \* history: the goals that ended or were stopped, when it was saved
  cut         \* history: the goal a quit interrupted in its turns, or 0

taskState == <<saved, taskRow, anchor>>
loopState == <<gs, resumed, errors, suspended>>
requestState == <<how, suggested>>
signals == <<pauseUp, ended>>
bounds == <<pursuits, exits>>
goalVars == <<loopAt, taskState, loopState, requestState, signals, bounds, over, cut>>

NoGoal == [id |-> 0, max |-> 0, turns |-> 0, fin |-> 0, status |-> "none",
           checked |-> "none", failed |-> FALSE]
NewGoal(id, max) == [NoGoal EXCEPT !.id = id, !.max = max, !.status = "active"]

TerminalGoal == {"met", "exhausted", "cancelled"}
OpenRows == {"in_progress", "paused", "failed"}
MaxRetries == 2

Resumable(g) == g.id > 0 /\ g.status \notin TerminalGoal

(* Mutant: the budget is spent one turn late.                               *)
SpentLate(g) == g.max > 0 /\ g.turns > g.max

(* goalTurnBudgetSpent.                                                     *)
Spent(g) == g.max > 0 /\ g.turns >= g.max

GoalInit ==
  /\ loopAt = "idle" /\ gs = NoGoal /\ saved = NoGoal
  /\ taskRow = "none" /\ anchor = FALSE
  /\ how = "send" /\ suggested = FALSE
  /\ resumed = "no" /\ errors = 0 /\ suspended = FALSE
  /\ pauseUp = FALSE /\ ended = "no"
  /\ pursuits = 0 /\ exits = 0 /\ over = {} /\ cut = 0

-----------------------------------------------------------------------------
(* Requests                                                                 *)

Enter(where, way) ==
  /\ loopAt' = where /\ how' = way
  /\ errors' = 0 /\ suspended' = FALSE /\ pauseUp' = FALSE

(* The task of a send: the anchor's, reactivated, or a fresh one.           *)
TaskOfSend ==
  /\ taskRow' = "in_progress"
  /\ saved' = IF anchor THEN saved ELSE NoGoal

(* sendMessage with a goal: abandonUnfinishedTaskForGoal cancels the        *)
(* unfinished row and leaves its goal as saved; then the goal is derived,   *)
(* on the anchor's task when there is one.                                  *)
SendGoal ==
  /\ loopAt = "idle" /\ pursuits < MaxPursuits
  /\ Enter("derive", "send") /\ suggested' = FALSE /\ TaskOfSend
  /\ UNCHANGED <<anchor, gs, resumed, ended, bounds, over, cut>>

(* sendMessage without one, when no task is unfinished: the conductor, or,  *)
(* on a fresh task, the derivation of a goal that was suggested.            *)
SendPlain ==
  /\ loopAt = "idle" /\ taskRow \notin OpenRows
  /\ \E where \in IF Suggests /\ ~anchor /\ pursuits < MaxPursuits
                    THEN {"plain", "derive"} ELSE {"plain"} :
       Enter(where, "send") /\ suggested' = (where = "derive")
  /\ TaskOfSend
  /\ UNCHANGED <<anchor, gs, resumed, ended, bounds, over, cut>>

(* Mutant: a continued pursuit starts its turn anew.                        *)
ContinueAnew ==
  /\ loopAt = "idle" /\ taskRow \in OpenRows
  /\ \E way \in {"nudge", "resume"} :
       /\ Enter(IF Resumable(saved) THEN "top" ELSE "plain", way)
       /\ taskRow' = IF way = "resume" THEN "in_progress" ELSE taskRow
  /\ gs' = IF Resumable(saved) THEN [saved EXCEPT !.status = "active", !.failed = FALSE] ELSE NoGoal
  /\ resumed' = "no"
  /\ UNCHANGED <<saved, anchor, suggested, ended, bounds, over, cut>>

(* An unfinished task goes on, by a message (tryContinueInterruptedTask,    *)
(* which leaves its row) or by ResumeTask (which reactivates it): in the    *)
(* goal loop while its goal is not terminal, else in the conductor.         *)
Continue ==
  /\ loopAt = "idle" /\ taskRow \in OpenRows
  /\ \E way \in {"nudge", "resume"} :
       /\ Enter(IF Resumable(saved) THEN "top" ELSE "plain", way)
       /\ taskRow' = IF way = "resume" THEN "in_progress" ELSE taskRow
  /\ gs' = IF Resumable(saved) THEN [saved EXCEPT !.status = "active", !.failed = FALSE] ELSE NoGoal
  /\ resumed' = IF Resumable(saved) THEN "next" ELSE "no"
  /\ UNCHANGED <<saved, anchor, suggested, ended, bounds, over, cut>>

(* A run of the conductor ends with a status, or with an error.             *)
PlainEnds ==
  /\ loopAt = "plain"
  /\ \/ /\ taskRow' \in {"completed", "failed", taskRow} \cup (IF pauseUp THEN {"paused"} ELSE {})
        /\ suspended' = (taskRow' = "paused" /\ pauseUp)
        /\ loopAt' = "settle"
     \/ loopAt' = "error" /\ UNCHANGED <<taskRow, suspended>>
  /\ UNCHANGED <<saved, anchor, gs, resumed, errors, requestState, signals, bounds, over, cut>>

-----------------------------------------------------------------------------
(* Derivation: deriveGoal, then classifyDerivationFailure                   *)

Approve ==
  /\ loopAt = "derive" /\ pursuits < MaxPursuits
  /\ \E max \in IF suggested THEN {0} ELSE TurnBudgets : gs' = NewGoal(pursuits + 1, max)
  /\ pursuits' = pursuits + 1 /\ resumed' = "no"
  /\ loopAt' = "top"
  /\ UNCHANGED <<taskState, errors, suspended, requestState, signals, exits, over, cut>>

(* The user cancels the card, or no goal comes of it: the request ends, as  *)
(* Partial, which leaves the row; an accepted suggestion is run without a   *)
(* goal instead, unless the user cancelled; a cancelled run returns its     *)
(* error, and so does one that fails in the router.                         *)
NotDerived ==
  /\ loopAt = "derive"
  /\ \/ loopAt' = "settle"
     \/ suggested /\ loopAt' = "plain"
     \/ (ended # "no" \/ ~suggested) /\ loopAt' = "error"
  /\ UNCHANGED <<taskState, loopState, requestState, signals, bounds, over, cut>>

-----------------------------------------------------------------------------
(* The turn loop: runGoalTurns                                              *)

(* A resumed pursuit that was cancelled before it began returns the error.  *)
CutAtTop ==
  /\ loopAt = "top" /\ ended # "no"
  /\ loopAt' \in {"leave"} \cup (IF resumed = "next" THEN {"error"} ELSE {})
  /\ UNCHANGED <<taskState, loopState, requestState, signals, bounds, over, cut>>

(* A turn is charged when it starts; the first one of a resumed loop is     *)
(* the interrupted one, charged before.                                     *)
Charge ==
  /\ loopAt = "top" /\ ended = "no"
  /\ gs' = [gs EXCEPT !.turns = IF resumed = "next" /\ @ > 0 THEN @ ELSE @ + 1]
  /\ resumed' = IF resumed = "next" THEN "this" ELSE "no"
  /\ loopAt' = "turn"
  /\ UNCHANGED <<taskState, errors, suspended, requestState, signals, bounds, over, cut>>

Pursue(g) ==
  /\ g.turns < TurnCap \/ g.max > 0
  /\ gs' = g /\ loopAt' = "top"

LeaveWith(g) == gs' = g /\ loopAt' = "leave"

(* The tail of the loop: another turn while the budget lasts.               *)
NextTurn(g) == IF Spent(g) THEN LeaveWith([g EXCEPT !.status = "exhausted"]) ELSE Pursue(g)

PausedTurn ==
  /\ loopAt = "turn" /\ pauseUp
  /\ suspended' = TRUE /\ LeaveWith(gs)
  /\ UNCHANGED <<taskState, resumed, errors, requestState, signals, bounds, over, cut>>

CutTurn ==
  /\ loopAt = "turn" /\ ended # "no"
  /\ LeaveWith([gs EXCEPT !.failed = FALSE])
  /\ UNCHANGED <<taskState, resumed, errors, suspended, requestState, signals, bounds, over, cut>>

FailedTurn ==
  /\ loopAt = "turn" /\ ended = "no"
  /\ errors' = errors + 1
  /\ LET g == [gs EXCEPT !.failed = TRUE, !.fin = gs.turns]
     IN  IF errors' <= MaxRetries /\ ~Spent(gs) THEN Pursue(g) ELSE LeaveWith(g)
  /\ UNCHANGED <<taskState, resumed, suspended, requestState, signals, bounds, over, cut>>

(* The agent's verdict; "none" stands for work without one or for not_met,  *)
(* "idle" for neither work nor verdict.                                     *)
DoneTurn ==
  /\ loopAt = "turn" /\ ended = "no"
  /\ errors' = 0
  /\ LET g == [gs EXCEPT !.failed = FALSE, !.checked = "none", !.fin = gs.turns]
     IN  \E verdict \in {"none", "idle", "met", "blocked"} :
           CASE verdict = "met" ->
                  IF Verifies THEN gs' = g /\ loopAt' = "verify"
                              ELSE LeaveWith([g EXCEPT !.checked = "off", !.status = "met"])
             [] verdict = "blocked" \/ (verdict = "idle" /\ resumed # "this") ->
                  LeaveWith([g EXCEPT !.status = "blocked_idle"])
             [] OTHER -> NextTurn(g)
  /\ UNCHANGED <<taskState, resumed, suspended, requestState, signals, bounds, over, cut>>

(* The verifier pass: only a pause leaves the claim open, an error or a     *)
(* cancelled context rejects it.                                            *)
Verified ==
  /\ loopAt = "verify"
  /\ \/ pauseUp /\ suspended' = TRUE /\ LeaveWith(gs)
     \/ LeaveWith([gs EXCEPT !.checked = "confirmed", !.status = "met"]) /\ UNCHANGED suspended
     \/ NextTurn([gs EXCEPT !.checked = "rejected"]) /\ UNCHANGED suspended
  /\ UNCHANGED <<taskState, resumed, errors, requestState, signals, bounds, over, cut>>

(* Mutant: the row of a goal that is out of turns or blocked is completed.  *)
OutcomeFinished ==
  CASE gs.status # "active" -> "completed"
    [] suspended -> "paused"
    [] gs.failed -> "failed"
    [] OTHER -> taskRow

(* goalLoopResult with persistTaskOutcome.                                  *)
Outcome ==
  CASE gs.status = "met" -> "completed"
    [] gs.status = "exhausted" -> "failed"
    [] gs.status = "blocked_idle" -> "paused"
    [] gs.status = "active" /\ suspended -> "paused"
    [] gs.status = "active" /\ ~suspended /\ gs.failed -> "failed"
    [] OTHER -> taskRow

(* Saving g with the task may fail.                                         *)
Save(g) ==
  \/ saved' = g /\ over' = over \cup (IF g.status \in TerminalGoal THEN {g.id} ELSE {})
  \/ UNCHANGED <<saved, over>>

(* The loop is left: persistGoalStateBestEffort, then the outcome.          *)
LeaveLoop ==
  /\ loopAt = "leave"
  /\ Save(gs)
  /\ taskRow' = Outcome
  /\ suspended' = (suspended \/ gs.status = "blocked_idle")
  /\ loopAt' = "settle"
  /\ UNCHANGED <<anchor, gs, resumed, errors, requestState, signals, bounds, cut>>

-----------------------------------------------------------------------------
(* The end of the run: the epilogue of its entry                            *)

Idle ==
  /\ loopAt' = "idle" /\ gs' = NoGoal /\ resumed' = "no"
  /\ errors' = 0 /\ suspended' = FALSE /\ pauseUp' = FALSE /\ ended' = "no" /\ cut' = 0
  /\ how' = "send" /\ suggested' = FALSE

Cancelled(g) == IF Resumable(g) THEN [g EXCEPT !.status = "cancelled"] ELSE g

(* What a stop is to end: the goal of a run that left its task unfinished.  *)
StoppedGoal == IF ended = "user" /\ taskRow \in OpenRows THEN {gs.id} \ {0} ELSE {}

(* Mutant: the row is cancelled before the goal is looked up.               *)
AbandonAfterCancel ==
  /\ over' = over \cup StoppedGoal
  /\ taskRow' = IF taskRow \in OpenRows \/ how # "send" THEN "cancelled" ELSE taskRow
  /\ saved' = IF taskRow' \in OpenRows THEN Cancelled(saved) ELSE saved

(* A stop: abandonGoalIfUnfinished, whose write may fail, then              *)
(* persistCancellationIfUnfinished, or bb.CancelTask, which cancels         *)
(* whatever the row says.                                                   *)
Abandon ==
  /\ \/ /\ saved' = IF taskRow \in OpenRows THEN Cancelled(saved) ELSE saved
        /\ over' = over \cup StoppedGoal
     \/ UNCHANGED <<saved, over>>
  /\ taskRow' = IF taskRow \in OpenRows \/ how # "send" THEN "cancelled" ELSE taskRow

(* A message that continued a task asks nobody whether its run was          *)
(* cancelled when the loop returned no error.                               *)
Heeded == ended \in {"user", "forced"} /\ (loopAt = "error" \/ how # "nudge")

Ends ==
  /\ loopAt \in {"settle", "error"} /\ ended # "quit"
  /\ IF Heeded THEN Abandon ELSE UNCHANGED <<saved, taskRow, over>>
  /\ anchor' = (anchor \/ (loopAt = "settle" /\ (how = "send" \/ (~Heeded /\ ~suspended))))
  /\ Idle
  /\ UNCHANGED bounds

(* persistPauseIfUnfinished at Shutdown; the next start restores the        *)
(* session with its latest task as the anchor.                              *)
EndsQuit ==
  /\ loopAt \in {"settle", "error"} /\ ended = "quit"
  /\ taskRow' = IF taskRow = "in_progress" THEN "paused" ELSE taskRow
  /\ anchor' = TRUE
  /\ Idle
  /\ UNCHANGED <<saved, bounds, over>>

-----------------------------------------------------------------------------
(* What the user does meanwhile                                             *)

Pause ==
  /\ loopAt # "idle" /\ ~pauseUp /\ pauseUp' = TRUE
  /\ UNCHANGED <<loopAt, taskState, loopState, requestState, ended, bounds, over, cut>>

(* CancelTask of the running task.                                          *)
CancelTask ==
  /\ loopAt # "idle" /\ ended = "no" /\ ended' = "user"
  /\ UNCHANGED <<loopAt, taskState, loopState, requestState, pauseUp, bounds, over, cut>>

(* forceTerminateStuckTask: the run goes on behind a cancelled task.        *)
ForceTerminate ==
  /\ loopAt # "idle" /\ ended = "user" /\ ended' = "forced"
  /\ IF taskRow \in OpenRows
       THEN /\ taskRow' = "cancelled"
            /\ saved' = Cancelled(saved)
       ELSE UNCHANGED <<taskRow, saved>>
  /\ UNCHANGED <<loopAt, anchor, loopState, requestState, pauseUp, bounds, over, cut>>

(* cancelUnfinishedTask, and CancelUnfinishedTask: the goal stays as saved. *)
CancelUnfinished ==
  /\ loopAt = "idle" /\ taskRow \in OpenRows
  /\ taskRow' = "cancelled"
  /\ UNCHANGED <<loopAt, saved, anchor, loopState, requestState, signals, bounds, over, cut>>

(* Shutdown cancels the run; it wins over a stop that has not settled.      *)
AppQuits ==
  /\ loopAt # "idle" /\ ended # "quit" /\ exits < MaxExits
  /\ ended' = "quit" /\ exits' = exits + 1
  /\ cut' = IF loopAt \in {"top", "turn"} /\ ended # "forced" THEN gs.id ELSE 0
  /\ UNCHANGED <<loopAt, taskState, loopState, requestState, pauseUp, pursuits, over>>

(* The process dies and is started again.                                   *)
ProcessDies ==
  /\ exits < MaxExits /\ exits' = exits + 1
  /\ taskRow # "none" /\ anchor' = TRUE
  /\ Idle
  /\ UNCHANGED <<saved, taskRow, pursuits, over>>

-----------------------------------------------------------------------------

LoopSteps == CutAtTop \/ Charge \/ CutTurn \/ FailedTurn \/ DoneTurn \/ Verified \/ LeaveLoop
GoalRequests == SendGoal \/ SendPlain \/ Continue
RunSteps == PlainEnds \/ Approve \/ NotDerived \/ PausedTurn \/ LoopSteps \/ Ends \/ EndsQuit
Signals == Pause \/ CancelTask \/ ForceTerminate \/ CancelUnfinished \/ AppQuits \/ ProcessDies

GoalNext == GoalRequests \/ RunSteps \/ Signals

(* Derivations, turns, verifier passes and epilogues return.                *)
GoalFairness == WF_goalVars(RunSteps)

GoalSpec == GoalInit /\ [][GoalNext]_goalVars /\ GoalFairness

-----------------------------------------------------------------------------
(* Properties                                                               *)

GoalTypeOK ==
  /\ loopAt \in {"idle", "plain", "derive", "top", "turn", "verify", "leave", "settle", "error"}
  /\ {gs.status, saved.status} \subseteq {"none", "active", "blocked_idle"} \cup TerminalGoal
  /\ taskRow \in {"none", "completed", "cancelled"} \cup OpenRows

(* A budget is never exceeded, however often the pursuit fails, is paused   *)
(* or cut off and resumed.                                                  *)
WithinBudget == gs.max > 0 => gs.turns <= gs.max

(* A turn that was interrupted is not charged a second time: at most one    *)
(* turn is charged and has not come to an end.                              *)
ChargedOnce == gs.turns <= gs.fin + 1

(* A goal is met, and its task completed by its loop, only by a claim the   *)
(* verifier confirmed after it was made, unless verification is off.        *)
MetConfirmed ==
  /\ gs.status = "met" => gs.checked = IF Verifies THEN "confirmed" ELSE "off"
  /\ loopAt = "settle" /\ gs.id > 0 /\ taskRow = "completed" => gs.status = "met"

(* A pursuit whose end was saved, by its loop or by a stop, is not entered  *)
(* again, by any later message, resume, quit or crash.                      *)
EndedStays == gs'.id # gs.id => gs'.id \notin over

(* A quit between or within the turns leaves the pursuit resumable: the     *)
(* task is unfinished, and what is saved of the goal is not terminal.       *)
QuitKeeps ==
  loopAt \in {"settle", "error"} /\ loopAt' = "idle" /\ cut > 0
    => taskRow' \in OpenRows /\ (saved'.id = cut => Resumable(saved'))

(* Errors fail the task of a run nobody cancelled only after the retries,   *)
(* or without turns left to retry in.                                       *)
FailedForCause ==
  loopAt = "leave" /\ loopAt' = "settle" /\ gs.failed /\ ~suspended /\ ended = "no"
    => errors > MaxRetries \/ Spent(gs)

(* What a pursuit is promised through stops, pauses, quits and crashes.     *)
PursuitKept ==
  /\ [](GoalTypeOK /\ WithinBudget /\ ChargedOnce /\ MetConfirmed)
  /\ [][EndedStays /\ QuitKeeps /\ FailedForCause]_goalVars

(* A request of a session with a goal comes back.                           *)
GoalRunsEnd == []<>(loopAt = "idle")
===============================================================================
