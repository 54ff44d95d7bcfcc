------------------------------ MODULE ModeProofs ------------------------------
(***************************************************************************)
(* Proofs about the two modes that loop over turns of their own.  A pursuit *)
(* of a goal, for any budgets and any number of pursuits, quits and         *)
(* crashes: it stays within its budget, charges no turn twice, is met only  *)
(* as the verifier has it, and what its end or its interruption left behind *)
(* is what the next entry finds.  An explicit-state run, for any limits and *)
(* any number of states, patches, quits and crashes: what was dispatched is *)
(* in the state that goes on, an ended state is not entered again, and a    *)
(* quit leaves the run resumable with the state it has.                     *)
(***************************************************************************)
EXTENDS GoalLoop, E2SLoop, TLAPS

-----------------------------------------------------------------------------
(* Goal mode                                                                *)


Looping == {"top", "turn", "verify", "leave"}

GoalType ==
  [id : Nat, max : Nat, turns : Nat, fin : Nat,
   status : {"none", "active", "blocked_idle"} \cup TerminalGoal,
   checked : {"none", "off", "confirmed", "rejected"}, failed : BOOLEAN]

(* The types of the loop, of the task and of the counters.                  *)
LoopTypes ==
  /\ gs \in GoalType /\ resumed \in {"no", "next", "this"} /\ errors \in Nat /\ suspended \in BOOLEAN
  /\ loopAt \in {"idle", "plain", "derive", "top", "turn", "verify", "leave", "settle", "error"}

TaskTypes ==
  /\ saved \in GoalType /\ anchor \in BOOLEAN
  /\ taskRow \in {"none", "completed", "cancelled"} \cup OpenRows

SignalTypes ==
  /\ pauseUp \in BOOLEAN /\ ended \in {"no", "user", "forced", "quit"}
  /\ pursuits \in Nat /\ exits \in Nat /\ over \subseteq 1 .. pursuits /\ cut \in Nat

AllTypes == LoopTypes /\ TaskTypes /\ SignalTypes

(* A loop has its goal, active until it is left; before it there is none.   *)
HasGoal ==
  /\ loopAt \in {"idle", "plain", "derive"} => gs = NoGoal
  /\ loopAt \in Looping => gs.id \in 1 .. pursuits /\ gs.id \notin over
  /\ loopAt \in Looping \ {"leave"} => gs.status = "active"
  /\ loopAt = "verify" => Verifies
  /\ gs.id \in 0 .. pursuits /\ saved.id \in 0 .. pursuits

Charged(g) == (g.max > 0 => g.turns <= g.max) /\ g.turns <= g.fin + 1

(* A turn may start: the budget has one left and the last one has come to   *)
(* its end; or it is the interrupted one.                                   *)
MayCharge == gs.turns <= gs.fin /\ (gs.max > 0 => gs.turns < gs.max)

Accounts ==
  /\ Charged(gs) /\ Charged(saved)
  /\ loopAt = "top" => MayCharge \/ (resumed = "next" /\ gs.turns > 0)
  /\ loopAt = "verify" => gs.turns <= gs.fin /\ ~gs.failed

(* No task is completed while its loop runs.                                *)
RowOpen ==
  /\ loopAt \in Looping \cup {"derive"} =>
       /\ taskRow # "completed"
       /\ ended \in {"no", "user"} => taskRow \in OpenRows
  /\ loopAt \in Looping /\ ended \in {"no", "user"} /\ saved.id = gs.id => Resumable(saved)

(* A goal whose end was saved is not saved as resumable.                    *)
EndSaved == saved.id \in over => ~Resumable(saved)

(* What a quit in the turns has left so far.                                *)
CutKept ==
  cut > 0 =>
    /\ ended = "quit" /\ loopAt \in {"top", "turn", "leave", "settle", "error"}
    /\ gs.status = "active" /\ gs.id = cut
    /\ taskRow \in OpenRows
    /\ saved.id = cut => Resumable(saved)

(* A loop that is left with an error has tried often enough.                *)
Tried ==
  loopAt = "leave" /\ gs.failed /\ ~suspended /\ ended = "no" => errors > MaxRetries \/ Spent(gs)

(* The inductive invariant.                                                 *)
GoalIInv ==
  AllTypes /\ HasGoal /\ Accounts /\ MetConfirmed /\ RowOpen /\ EndSaved /\ CutKept /\ Tried

-----------------------------------------------------------------------------
(* The helpers on goals.                                                    *)

LEMMA NoGoalType == NoGoal \in GoalType /\ Charged(NoGoal) /\ NoGoal.id = 0 /\ NoGoal.status = "none"
  BY DEF NoGoal, GoalType, Charged, TerminalGoal

LEMMA NewGoalType ==
  ASSUME NEW id \in Nat, NEW max \in Nat
  PROVE  /\ NewGoal(id, max) \in GoalType
         /\ NewGoal(id, max).id = id /\ NewGoal(id, max).status = "active"
  BY DEF NewGoal, NoGoal, GoalType, TerminalGoal

LEMMA NewGoalCharges ==
  ASSUME NEW id \in Nat, NEW max \in Nat
  PROVE  NewGoal(id, max).max = max /\ NewGoal(id, max).turns = 0 /\ NewGoal(id, max).fin = 0
  BY DEF NewGoal, NoGoal

LEMMA ApprovedBudgets == \A max \in TurnBudgets \cup {0} : max \in Nat
  BY BudgetsAssumption

(* A goal after the start of a turn, after its error, and after its work.   *)
LEMMA TurnGoals ==
  ASSUME NEW g \in GoalType
  PROVE  /\ \A n \in Nat : [g EXCEPT !.turns = n] \in GoalType
         /\ [g EXCEPT !.turns = @ + 1] \in GoalType /\ [g EXCEPT !.turns = @] \in GoalType
         /\ \A f \in BOOLEAN : [g EXCEPT !.failed = f] \in GoalType
         /\ \A f \in BOOLEAN : [g EXCEPT !.status = "active", !.failed = f] \in GoalType
         /\ [g EXCEPT !.failed = TRUE, !.fin = g.turns] \in GoalType
         /\ [g EXCEPT !.failed = FALSE, !.checked = "none", !.fin = g.turns] \in GoalType
<1>1. /\ \A n \in Nat : [g EXCEPT !.turns = n] \in GoalType
      /\ [g EXCEPT !.turns = @ + 1] \in GoalType /\ [g EXCEPT !.turns = @] \in GoalType
  BY DEF GoalType
<1>2. /\ \A f \in BOOLEAN : [g EXCEPT !.failed = f] \in GoalType
      /\ \A f \in BOOLEAN : [g EXCEPT !.status = "active", !.failed = f] \in GoalType
  BY DEF GoalType
<1>3. [g EXCEPT !.failed = TRUE, !.fin = g.turns] \in GoalType
  BY DEF GoalType
<1>4. [g EXCEPT !.failed = FALSE, !.checked = "none", !.fin = g.turns] \in GoalType
  BY DEF GoalType
<1> QED BY <1>1, <1>2, <1>3, <1>4

(* A goal after a verdict.                                                  *)
LEMMA VerdictGoals ==
  ASSUME NEW g \in GoalType
  PROVE  /\ \A st \in {"active", "blocked_idle"} \cup TerminalGoal : [g EXCEPT !.status = st] \in GoalType
         /\ \A c \in {"off", "confirmed", "rejected"} : [g EXCEPT !.checked = c] \in GoalType
         /\ \A c \in {"off", "confirmed", "rejected"}, st \in TerminalGoal :
               [g EXCEPT !.checked = c, !.status = st] \in GoalType
  BY DEF GoalType, TerminalGoal

(* Every step keeps the loop's types.                                       *)
LEMMA KeepsLoopTypes == GoalIInv /\ [GoalNext]_goalVars => LoopTypes'
<1> SUFFICES ASSUME GoalIInv, [GoalNext]_goalVars PROVE LoopTypes'
  OBVIOUS
<1> USE DEF GoalIInv, AllTypes, LoopTypes, TaskTypes, SignalTypes,
        taskState, loopState, requestState, signals, bounds
<1>1. CASE SendGoal \/ SendPlain
  <2>1. loopAt' \in {"derive", "plain"} /\ errors' = 0 /\ suspended' = FALSE
    BY <1>1 DEF SendGoal, SendPlain, Enter
  <2> QED BY <1>1, <2>1 DEF SendGoal, SendPlain
<1>2. CASE Continue
  <2>1. gs' \in GoalType
    BY <1>2, NoGoalType, TurnGoals DEF Continue
  <2>2. loopAt' \in {"top", "plain"} /\ errors' = 0 /\ suspended' = FALSE
    BY <1>2 DEF Continue, Enter
  <2> QED BY <1>2, <2>1, <2>2 DEF Continue
<1>3. CASE PlainEnds \/ NotDerived
  BY <1>3 DEF PlainEnds, NotDerived
<1>4. CASE Approve
  <2>1. PICK max \in TurnBudgets \cup {0} : gs' = NewGoal(pursuits + 1, max)
    BY <1>4 DEF Approve
  <2>2. max \in Nat
    BY ApprovedBudgets
  <2> QED BY <1>4, <2>1, <2>2, NewGoalType DEF Approve
<1>5. CASE CutAtTop \/ Charge \/ PausedTurn \/ CutTurn
  <2>1. gs' \in GoalType
    <3>1. CASE Charge
      BY <3>1, TurnGoals DEF Charge
    <3>2. CASE ~Charge
      BY <1>5, <3>2, TurnGoals DEF CutAtTop, PausedTurn, CutTurn, LeaveWith
    <3> QED BY <3>1, <3>2
  <2> QED BY <1>5, <2>1 DEF CutAtTop, Charge, PausedTurn, CutTurn, LeaveWith
<1>6. CASE FailedTurn
  <2> DEFINE g == [gs EXCEPT !.failed = TRUE, !.fin = gs.turns]
  <2>1. g \in GoalType /\ g.id = gs.id /\ g.status = gs.status /\ g.max = gs.max /\ g.turns = gs.turns
        /\ g.fin = gs.turns /\ g.failed /\ g.checked = gs.checked
    <3>1. g \in GoalType
      BY TurnGoals
    <3> QED BY <3>1 DEF GoalType
  <2>2. loopAt = "turn" /\ gs' = g /\ loopAt' \in {"top", "leave"} /\ errors' = errors + 1
        /\ (loopAt' = "top" => ~Spent(gs))
        /\ (loopAt' = "leave" => errors' > MaxRetries \/ Spent(gs))
    BY <1>6 DEF FailedTurn, Pursue, LeaveWith, MaxRetries
  <2> HIDE DEF g
  <2> QED BY <1>6, <2>1, <2>2 DEF FailedTurn
<1>7. CASE DoneTurn
  <2> DEFINE g == [gs EXCEPT !.failed = FALSE, !.checked = "none", !.fin = gs.turns]
  <2>1. g \in GoalType
    BY TurnGoals
  <2> HIDE DEF g
  <2>2. gs' \in GoalType
    <3>1. \/ gs' = g
          \/ gs' = [g EXCEPT !.checked = "off", !.status = "met"]
          \/ gs' = [g EXCEPT !.status = "blocked_idle"] \/ gs' = [g EXCEPT !.status = "exhausted"]
      BY <1>7 DEF DoneTurn, g, Pursue, LeaveWith, NextTurn
    <3> QED BY <2>1, <3>1 DEF GoalType, TerminalGoal
  <2> QED BY <1>7, <2>2 DEF DoneTurn, Pursue, LeaveWith, NextTurn
<1>8. CASE Verified
  <2>1. gs' \in GoalType
    <3> DEFINE g == [gs EXCEPT !.checked = "rejected"]
    <3>1. g \in GoalType
      BY VerdictGoals
    <3> HIDE DEF g
    <3>2. \/ gs' \in {gs, g}
          \/ gs' = [gs EXCEPT !.checked = "confirmed", !.status = "met"]
          \/ gs' = [g EXCEPT !.status = "exhausted"]
      BY <1>8 DEF Verified, g, Pursue, LeaveWith, NextTurn
    <3> QED BY ZenonT(30), <3>1, <3>2, VerdictGoals DEF TerminalGoal
  <2> QED BY <1>8, <2>1 DEF Verified, Pursue, LeaveWith, NextTurn
<1>9. CASE LeaveLoop
  BY <1>9 DEF LeaveLoop, Save, Outcome
<1>10. CASE Ends
  BY <1>10, NoGoalType DEF Ends, Idle
<1>11. CASE EndsQuit \/ ProcessDies
  <2>1. Idle
    BY <1>11 DEF EndsQuit, ProcessDies
  <2> QED BY <2>1, NoGoalType DEF Idle
<1>12. CASE Pause \/ CancelTask \/ AppQuits
  BY <1>12 DEF Pause, CancelTask, AppQuits
<1>13. CASE ForceTerminate \/ CancelUnfinished
  BY <1>13 DEF ForceTerminate, CancelUnfinished
<1>14. CASE UNCHANGED goalVars
  BY <1>14 DEF goalVars
<1> QED
  BY <1>1, <1>2, <1>3, <1>4, <1>5, <1>6, <1>7, <1>8, <1>9, <1>10, <1>11, <1>12, <1>13, <1>14
  DEF GoalNext, GoalRequests, RunSteps, LoopSteps, Signals

(* Every step keeps the task's types.                                       *)
LEMMA KeepsTaskTypes == GoalIInv /\ [GoalNext]_goalVars => TaskTypes'
<1> SUFFICES ASSUME GoalIInv, [GoalNext]_goalVars PROVE TaskTypes'
  OBVIOUS
<1> USE DEF GoalIInv, AllTypes, LoopTypes, TaskTypes, SignalTypes, GoalType, NoGoal, TerminalGoal,
        OpenRows, Resumable, Cancelled, taskState, loopState, requestState, signals, bounds
<1>1. CASE SendGoal \/ SendPlain
  BY <1>1, NoGoalType DEF SendGoal, SendPlain, TaskOfSend
<1>2. CASE Continue
  BY <1>2 DEF Continue, Enter, Resumable
<1>3. CASE PlainEnds \/ NotDerived
  BY <1>3 DEF PlainEnds, NotDerived
<1>4. CASE Approve
  BY <1>4 DEF Approve, NewGoal
<1>5. CASE CutAtTop \/ Charge \/ PausedTurn \/ CutTurn
  BY <1>5 DEF CutAtTop, Charge, PausedTurn, LeaveWith, CutTurn
<1>6. CASE FailedTurn
  BY <1>6 DEF FailedTurn, Pursue, LeaveWith
<1>7. CASE DoneTurn
  BY <1>7 DEF DoneTurn, Pursue, LeaveWith, NextTurn
<1>8. CASE Verified
  BY <1>8 DEF Verified, Pursue, LeaveWith, NextTurn
<1>9. CASE LeaveLoop
  BY <1>9 DEF LeaveLoop, Save, Outcome
<1>10. CASE Ends
  BY <1>10 DEF Ends, Idle, Heeded, Abandon, StoppedGoal
<1>11. CASE EndsQuit \/ ProcessDies
  BY <1>11 DEF EndsQuit, Idle, ProcessDies
<1>12. CASE Pause \/ CancelTask \/ AppQuits
  BY <1>12 DEF Pause, CancelTask, AppQuits
<1>13. CASE ForceTerminate \/ CancelUnfinished
  BY <1>13 DEF ForceTerminate, CancelUnfinished
<1>14. CASE UNCHANGED goalVars
  BY <1>14 DEF goalVars
<1> QED
  BY <1>1, <1>2, <1>3, <1>4, <1>5, <1>6, <1>7, <1>8, <1>9, <1>10, <1>11, <1>12, <1>13, <1>14
  DEF GoalNext, GoalRequests, RunSteps, LoopSteps, Signals

(* Every step keeps the types of the signals and the counters.              *)
LEMMA KeepsSignalTypes == GoalIInv /\ [GoalNext]_goalVars => SignalTypes'
<1> SUFFICES ASSUME GoalIInv, [GoalNext]_goalVars PROVE SignalTypes'
  OBVIOUS
<1> USE DEF GoalIInv, AllTypes, LoopTypes, TaskTypes, SignalTypes, HasGoal, Looping,
        taskState, loopState, requestState, signals, bounds
<1>1. CASE SendGoal \/ SendPlain
  BY <1>1 DEF SendGoal, Enter, TaskOfSend, SendPlain
<1>2. CASE Continue
  BY <1>2 DEF Continue, Enter, Resumable
<1>3. CASE PlainEnds \/ NotDerived
  BY <1>3 DEF PlainEnds, NotDerived
<1>4. CASE Approve
  BY <1>4 DEF Approve, NewGoal
<1>5. CASE CutAtTop \/ Charge \/ PausedTurn \/ CutTurn
  BY <1>5 DEF CutAtTop, Charge, PausedTurn, LeaveWith, CutTurn
<1>6. CASE FailedTurn
  BY <1>6 DEF FailedTurn, Pursue, LeaveWith
<1>7. CASE DoneTurn
  BY <1>7 DEF DoneTurn, Pursue, LeaveWith, NextTurn
<1>8. CASE Verified
  BY <1>8 DEF Verified, Pursue, LeaveWith, NextTurn
<1>9. CASE LeaveLoop
  BY <1>9 DEF LeaveLoop, Save, Outcome
<1>10. CASE Ends
  <2>1. StoppedGoal \subseteq 1 .. pursuits
    BY <1>10, NoGoalType DEF Ends, StoppedGoal
  <2> QED BY <1>10, <2>1 DEF Ends, Idle, Abandon
<1>11. CASE EndsQuit \/ ProcessDies
  <2>1. Idle /\ UNCHANGED <<pursuits, over>> /\ exits' \in Nat
    BY <1>11 DEF EndsQuit, ProcessDies
  <2> QED BY <2>1 DEF Idle
<1>12. CASE Pause \/ CancelTask \/ AppQuits
  <2>1. gs.id \in Nat
    OBVIOUS
  <2>2. CASE AppQuits
    BY <2>1, <2>2 DEF AppQuits
  <2> QED BY <1>12, <2>2 DEF Pause, CancelTask
<1>13. CASE ForceTerminate \/ CancelUnfinished
  BY <1>13 DEF ForceTerminate, CancelUnfinished
<1>14. CASE UNCHANGED goalVars
  BY <1>14 DEF goalVars
<1> QED
  BY <1>1, <1>2, <1>3, <1>4, <1>5, <1>6, <1>7, <1>8, <1>9, <1>10, <1>11, <1>12, <1>13, <1>14
  DEF GoalNext, GoalRequests, RunSteps, LoopSteps, Signals

(* Every step leaves a loop with its goal.                                  *)
LEMMA KeepsGoal == GoalIInv /\ [GoalNext]_goalVars => HasGoal'
<1> SUFFICES ASSUME GoalIInv, [GoalNext]_goalVars PROVE HasGoal'
  OBVIOUS
<1> USE DEF GoalIInv, AllTypes, LoopTypes, TaskTypes, SignalTypes, HasGoal, EndSaved, RowOpen,
        GoalType, NoGoal, Looping, Resumable, Cancelled, Spent, TerminalGoal, OpenRows, taskState,
        loopState, requestState, signals, bounds
<1>1. CASE SendGoal \/ SendPlain
  BY <1>1 DEF SendGoal, Enter, TaskOfSend, SendPlain
<1>2. CASE Continue
  BY <1>2 DEF Continue, Enter, Resumable
<1>3. CASE PlainEnds \/ NotDerived
  BY <1>3 DEF PlainEnds, NotDerived
<1>4. CASE Approve
  BY <1>4 DEF Approve, NewGoal
<1>5. CASE CutAtTop \/ Charge \/ PausedTurn \/ CutTurn
  BY <1>5 DEF CutAtTop, Charge, PausedTurn, LeaveWith, CutTurn
<1>6. CASE FailedTurn
  BY <1>6 DEF FailedTurn, Pursue, LeaveWith
<1>7. CASE DoneTurn
  BY <1>7 DEF DoneTurn, Pursue, LeaveWith, NextTurn
<1>8. CASE Verified
  BY <1>8 DEF Verified, Pursue, LeaveWith, NextTurn
<1>9. CASE LeaveLoop
  BY <1>9 DEF LeaveLoop, Save, Outcome
<1>10. CASE Ends
  BY <1>10 DEF Ends, Idle, Heeded, Abandon, StoppedGoal
<1>11. CASE EndsQuit \/ ProcessDies
  BY <1>11 DEF EndsQuit, Idle, ProcessDies
<1>12. CASE Pause \/ CancelTask \/ AppQuits
  BY <1>12 DEF Pause, CancelTask, AppQuits
<1>13. CASE ForceTerminate \/ CancelUnfinished
  BY <1>13 DEF ForceTerminate, CancelUnfinished
<1>14. CASE UNCHANGED goalVars
  BY <1>14 DEF goalVars
<1> QED
  BY <1>1, <1>2, <1>3, <1>4, <1>5, <1>6, <1>7, <1>8, <1>9, <1>10, <1>11, <1>12, <1>13, <1>14
  DEF GoalNext, GoalRequests, RunSteps, LoopSteps, Signals

(* No step overdraws a budget or charges a turn that has not ended.         *)
LEMMA KeepsAccounts == GoalIInv /\ [GoalNext]_goalVars => Accounts'
<1> SUFFICES ASSUME GoalIInv, [GoalNext]_goalVars PROVE Accounts'
  OBVIOUS
<1> USE DEF GoalIInv, AllTypes, LoopTypes, TaskTypes, SignalTypes, Accounts, HasGoal, Charged,
        MayCharge, GoalType, NoGoal, Looping, Resumable, Cancelled, Spent, taskState, loopState,
        requestState, signals, bounds
<1>1. CASE SendGoal \/ SendPlain
  BY <1>1 DEF SendGoal, Enter, TaskOfSend, SendPlain
<1>2. CASE Continue
  BY <1>2 DEF Continue, Enter, Resumable
<1>3. CASE PlainEnds \/ NotDerived
  BY <1>3 DEF PlainEnds, NotDerived
<1>4. CASE Approve
  <2>1. PICK max \in TurnBudgets \cup {0} : gs' = NewGoal(pursuits + 1, max)
    BY <1>4 DEF Approve
  <2>2. max \in Nat
    BY ApprovedBudgets
  <2>3. gs'.turns = 0 /\ gs'.fin = 0 /\ gs'.max \in Nat
    BY SMTT(30), <2>1, <2>2, NewGoalCharges DEF SignalTypes
  <2> QED BY <1>4, <2>3 DEF Approve
<1>5. CASE CutAtTop \/ Charge \/ PausedTurn \/ CutTurn
  BY <1>5 DEF CutAtTop, Charge, PausedTurn, LeaveWith, CutTurn
<1>6. CASE FailedTurn
  <2> DEFINE g == [gs EXCEPT !.failed = TRUE, !.fin = gs.turns]
  <2>1. g \in GoalType /\ g.id = gs.id /\ g.status = gs.status /\ g.max = gs.max /\ g.turns = gs.turns
        /\ g.fin = gs.turns /\ g.failed /\ g.checked = gs.checked
    <3>1. g \in GoalType
      BY TurnGoals
    <3> QED BY <3>1 DEF GoalType
  <2>2. loopAt = "turn" /\ gs' = g /\ loopAt' \in {"top", "leave"} /\ errors' = errors + 1
        /\ (loopAt' = "top" => ~Spent(gs))
        /\ (loopAt' = "leave" => errors' > MaxRetries \/ Spent(gs))
    BY <1>6 DEF FailedTurn, Pursue, LeaveWith, MaxRetries
  <2> HIDE DEF g
  <2> QED BY <1>6, <2>1, <2>2 DEF FailedTurn
<1>7. CASE DoneTurn
  <2> DEFINE g == [gs EXCEPT !.failed = FALSE, !.checked = "none", !.fin = gs.turns]
  <2>1. g \in GoalType /\ g.max = gs.max /\ g.turns = gs.turns /\ g.fin = gs.turns /\ ~g.failed
    BY ZenonT(30), TurnGoals DEF GoalType
  <2>2. gs'.max = g.max /\ gs'.turns = g.turns /\ gs'.fin = g.fin /\ gs'.failed = g.failed
    <3> HIDE DEF g
    <3>1. \/ gs' = g
          \/ gs' = [g EXCEPT !.checked = "off", !.status = "met"]
          \/ gs' = [g EXCEPT !.status = "blocked_idle"] \/ gs' = [g EXCEPT !.status = "exhausted"]
      BY <1>7 DEF DoneTurn, g, Pursue, LeaveWith, NextTurn
    <3> QED BY ZenonT(30), <2>1, <3>1 DEF GoalType
  <2>3. loopAt = "turn" /\ loopAt' \in {"top", "verify", "leave"} /\ (loopAt' = "top" => ~Spent(g))
    BY <1>7 DEF DoneTurn, Pursue, LeaveWith, NextTurn
  <2> HIDE DEF g
  <2> QED BY <1>7, <2>1, <2>2, <2>3 DEF DoneTurn
<1>8. CASE Verified
  <2>1. gs'.max = gs.max /\ gs'.turns = gs.turns /\ gs'.fin = gs.fin
    BY <1>8 DEF Verified, Pursue, LeaveWith, NextTurn
  <2>2. loopAt' \in {"top", "leave"} /\ (loopAt' = "top" => ~Spent(gs))
    BY <1>8 DEF Verified, Pursue, LeaveWith, NextTurn
  <2> QED BY <1>8, <2>1, <2>2 DEF Verified
<1>9. CASE LeaveLoop
  BY <1>9 DEF LeaveLoop, Save, Outcome
<1>10. CASE Ends
  BY <1>10 DEF Ends, Idle, Heeded, Abandon, StoppedGoal
<1>11. CASE EndsQuit \/ ProcessDies
  BY <1>11 DEF EndsQuit, Idle, ProcessDies
<1>12. CASE Pause \/ CancelTask \/ AppQuits
  BY <1>12 DEF Pause, CancelTask, AppQuits
<1>13. CASE ForceTerminate \/ CancelUnfinished
  BY <1>13 DEF ForceTerminate, CancelUnfinished
<1>14. CASE UNCHANGED goalVars
  BY <1>14 DEF goalVars
<1> QED
  BY <1>1, <1>2, <1>3, <1>4, <1>5, <1>6, <1>7, <1>8, <1>9, <1>10, <1>11, <1>12, <1>13, <1>14
  DEF GoalNext, GoalRequests, RunSteps, LoopSteps, Signals

(* No step has a goal met but by the verifier.                              *)
LEMMA KeepsMet == GoalIInv /\ [GoalNext]_goalVars => MetConfirmed'
<1> SUFFICES ASSUME GoalIInv, [GoalNext]_goalVars PROVE MetConfirmed'
  OBVIOUS
<1> USE DEF GoalIInv, AllTypes, LoopTypes, HasGoal, MetConfirmed, GoalType, NoGoal, Looping,
        Resumable, Spent, TerminalGoal, RowOpen, OpenRows, taskState, loopState, requestState,
        signals, bounds
<1>1. CASE SendGoal \/ SendPlain
  BY <1>1 DEF SendGoal, Enter, TaskOfSend, SendPlain
<1>2. CASE Continue
  BY <1>2 DEF Continue, Enter, Resumable
<1>3. CASE PlainEnds \/ NotDerived
  BY <1>3 DEF PlainEnds, NotDerived
<1>4. CASE Approve
  BY <1>4 DEF Approve, NewGoal
<1>5. CASE CutAtTop \/ Charge \/ PausedTurn \/ CutTurn
  BY <1>5 DEF CutAtTop, Charge, PausedTurn, LeaveWith, CutTurn
<1>6. CASE FailedTurn
  BY <1>6 DEF FailedTurn, Pursue, LeaveWith
<1>7. CASE DoneTurn
  BY <1>7 DEF DoneTurn, Pursue, LeaveWith, NextTurn
<1>8. CASE Verified
  <2>1. gs'.status = "met" => gs'.checked = "confirmed" \/ gs' = gs
    BY <1>8 DEF Verified, Pursue, LeaveWith, NextTurn
  <2>2. loopAt' \in {"top", "leave"} /\ gs.status = "active"
    BY <1>8 DEF Verified, Pursue, LeaveWith, NextTurn
  <2> QED BY <1>8, <2>1, <2>2 DEF Verified
<1>9. CASE LeaveLoop
  BY <1>9 DEF LeaveLoop, Save, Outcome
<1>10. CASE Ends
  BY <1>10 DEF Ends, Idle, Heeded, Abandon, StoppedGoal
<1>11. CASE EndsQuit \/ ProcessDies
  BY <1>11 DEF EndsQuit, Idle, ProcessDies
<1>12. CASE Pause \/ CancelTask \/ AppQuits
  BY <1>12 DEF Pause, CancelTask, AppQuits
<1>13. CASE ForceTerminate \/ CancelUnfinished
  BY <1>13 DEF ForceTerminate, CancelUnfinished
<1>14. CASE UNCHANGED goalVars
  BY <1>14 DEF goalVars
<1> QED
  BY <1>1, <1>2, <1>3, <1>4, <1>5, <1>6, <1>7, <1>8, <1>9, <1>10, <1>11, <1>12, <1>13, <1>14
  DEF GoalNext, GoalRequests, RunSteps, LoopSteps, Signals

(* No step completes the task of a loop, or ends its saved goal.            *)
LEMMA KeepsRow == GoalIInv /\ [GoalNext]_goalVars => RowOpen'
<1> SUFFICES ASSUME GoalIInv, [GoalNext]_goalVars PROVE RowOpen'
  OBVIOUS
<1> USE DEF GoalIInv, AllTypes, LoopTypes, TaskTypes, SignalTypes, HasGoal, RowOpen, GoalType,
        NoGoal, Looping, Resumable, Spent, Cancelled, TerminalGoal, OpenRows, taskState,
        loopState, requestState, signals, bounds
<1>1. CASE SendGoal \/ SendPlain
  BY <1>1 DEF SendGoal, Enter, TaskOfSend, SendPlain
<1>2. CASE Continue
  BY <1>2 DEF Continue, Enter, Resumable
<1>3. CASE PlainEnds \/ NotDerived
  BY <1>3 DEF PlainEnds, NotDerived
<1>4. CASE Approve
  BY <1>4 DEF Approve, NewGoal
<1>5. CASE CutAtTop \/ Charge \/ PausedTurn \/ CutTurn
  BY <1>5 DEF CutAtTop, Charge, PausedTurn, LeaveWith, CutTurn
<1>6. CASE FailedTurn
  BY <1>6 DEF FailedTurn, Pursue, LeaveWith
<1>7. CASE DoneTurn
  BY <1>7 DEF DoneTurn, Pursue, LeaveWith, NextTurn
<1>8. CASE Verified
  BY <1>8 DEF Verified, Pursue, LeaveWith, NextTurn
<1>9. CASE LeaveLoop
  BY <1>9 DEF LeaveLoop, Save, Outcome
<1>10. CASE Ends
  BY <1>10 DEF Ends, Idle, Heeded, Abandon, StoppedGoal
<1>11. CASE EndsQuit \/ ProcessDies
  BY <1>11 DEF EndsQuit, Idle, ProcessDies
<1>12. CASE Pause \/ CancelTask \/ AppQuits
  BY <1>12 DEF Pause, CancelTask, AppQuits
<1>13. CASE ForceTerminate \/ CancelUnfinished
  BY <1>13 DEF ForceTerminate, CancelUnfinished
<1>14. CASE UNCHANGED goalVars
  BY <1>14 DEF goalVars
<1> QED
  BY <1>1, <1>2, <1>3, <1>4, <1>5, <1>6, <1>7, <1>8, <1>9, <1>10, <1>11, <1>12, <1>13, <1>14
  DEF GoalNext, GoalRequests, RunSteps, LoopSteps, Signals

(* No step makes a goal that ended resumable.                               *)
LEMMA KeepsEnd == GoalIInv /\ [GoalNext]_goalVars => EndSaved'
<1> SUFFICES ASSUME GoalIInv, [GoalNext]_goalVars PROVE EndSaved'
  OBVIOUS
<1> USE DEF GoalIInv, AllTypes, LoopTypes, TaskTypes, SignalTypes, HasGoal, RowOpen, EndSaved,
        GoalType, NoGoal, Looping, Resumable, Cancelled, TerminalGoal, taskState, loopState,
        requestState, signals, bounds
<1>1. CASE SendGoal \/ SendPlain
  BY <1>1 DEF SendGoal, Enter, TaskOfSend, SendPlain
<1>2. CASE Continue
  BY <1>2 DEF Continue, Enter, Resumable
<1>3. CASE PlainEnds \/ NotDerived
  BY <1>3 DEF PlainEnds, NotDerived
<1>4. CASE Approve
  BY <1>4 DEF Approve, NewGoal
<1>5. CASE CutAtTop \/ Charge \/ PausedTurn \/ CutTurn
  BY <1>5 DEF CutAtTop, Charge, PausedTurn, LeaveWith, CutTurn
<1>6. CASE FailedTurn
  BY <1>6 DEF FailedTurn, Pursue, LeaveWith
<1>7. CASE DoneTurn
  BY <1>7 DEF DoneTurn, Pursue, LeaveWith, NextTurn
<1>8. CASE Verified
  BY <1>8 DEF Verified, Pursue, LeaveWith, NextTurn
<1>9. CASE LeaveLoop
  BY <1>9 DEF LeaveLoop, Save, Outcome
<1>10. CASE Ends
  BY <1>10 DEF Ends, Idle, Heeded, Abandon, StoppedGoal
<1>11. CASE EndsQuit \/ ProcessDies
  BY <1>11 DEF EndsQuit, Idle, ProcessDies
<1>12. CASE Pause \/ CancelTask \/ AppQuits
  BY <1>12 DEF Pause, CancelTask, AppQuits
<1>13. CASE ForceTerminate \/ CancelUnfinished
  BY <1>13 DEF ForceTerminate, CancelUnfinished
<1>14. CASE UNCHANGED goalVars
  BY <1>14 DEF goalVars
<1> QED
  BY <1>1, <1>2, <1>3, <1>4, <1>5, <1>6, <1>7, <1>8, <1>9, <1>10, <1>11, <1>12, <1>13, <1>14
  DEF GoalNext, GoalRequests, RunSteps, LoopSteps, Signals

(* No step loses what a quit interrupted.                                   *)
LEMMA KeepsCut == GoalIInv /\ [GoalNext]_goalVars => CutKept'
<1> SUFFICES ASSUME GoalIInv, [GoalNext]_goalVars PROVE CutKept'
  OBVIOUS
<1> USE DEF GoalIInv, AllTypes, LoopTypes, TaskTypes, SignalTypes, HasGoal, CutKept, RowOpen,
        GoalType, NoGoal, Looping, Resumable, Cancelled, TerminalGoal, OpenRows, taskState,
        loopState, requestState, signals, bounds
<1>1. CASE SendGoal \/ SendPlain
  BY <1>1 DEF SendGoal, Enter, TaskOfSend, SendPlain
<1>2. CASE Continue
  BY <1>2 DEF Continue, Enter, Resumable
<1>3. CASE PlainEnds \/ NotDerived
  BY <1>3 DEF PlainEnds, NotDerived
<1>4. CASE Approve
  BY <1>4 DEF Approve, NewGoal
<1>5. CASE CutAtTop \/ Charge \/ PausedTurn \/ CutTurn
  BY <1>5 DEF CutAtTop, Charge, PausedTurn, LeaveWith, CutTurn
<1>6. CASE FailedTurn
  BY <1>6 DEF FailedTurn, Pursue, LeaveWith
<1>7. CASE DoneTurn
  BY <1>7 DEF DoneTurn, Pursue, LeaveWith, NextTurn
<1>8. CASE Verified
  BY <1>8 DEF Verified, Pursue, LeaveWith, NextTurn
<1>9. CASE LeaveLoop
  BY <1>9 DEF LeaveLoop, Save, Outcome
<1>10. CASE Ends
  BY <1>10 DEF Ends, Idle, Heeded, Abandon, StoppedGoal
<1>11. CASE EndsQuit \/ ProcessDies
  BY <1>11 DEF EndsQuit, Idle, ProcessDies
<1>12. CASE Pause \/ CancelTask \/ AppQuits
  BY <1>12 DEF Pause, CancelTask, AppQuits
<1>13. CASE ForceTerminate \/ CancelUnfinished
  BY <1>13 DEF ForceTerminate, CancelUnfinished
<1>14. CASE UNCHANGED goalVars
  BY <1>14 DEF goalVars
<1> QED
  BY <1>1, <1>2, <1>3, <1>4, <1>5, <1>6, <1>7, <1>8, <1>9, <1>10, <1>11, <1>12, <1>13, <1>14
  DEF GoalNext, GoalRequests, RunSteps, LoopSteps, Signals

(* No step leaves the loop with an error before it has been retried.        *)
LEMMA KeepsTried == GoalIInv /\ [GoalNext]_goalVars => Tried'
<1> SUFFICES ASSUME GoalIInv, [GoalNext]_goalVars PROVE Tried'
  OBVIOUS
<1> USE DEF GoalIInv, AllTypes, LoopTypes, TaskTypes, SignalTypes, HasGoal, Tried, Accounts,
        GoalType, NoGoal, Looping, Resumable, Spent, MaxRetries, MetConfirmed, taskState,
        loopState, requestState, signals, bounds
<1>1. CASE SendGoal \/ SendPlain
  BY <1>1 DEF SendGoal, Enter, TaskOfSend, SendPlain
<1>2. CASE Continue
  BY <1>2 DEF Continue, Enter, Resumable
<1>3. CASE PlainEnds \/ NotDerived
  BY <1>3 DEF PlainEnds, NotDerived
<1>4. CASE Approve
  BY <1>4 DEF Approve, NewGoal
<1>5. CASE CutAtTop \/ Charge \/ PausedTurn \/ CutTurn
  BY <1>5 DEF CutAtTop, Charge, PausedTurn, LeaveWith, CutTurn
<1>6. CASE FailedTurn
  <2> DEFINE g == [gs EXCEPT !.failed = TRUE, !.fin = gs.turns]
  <2>1. g \in GoalType /\ g.id = gs.id /\ g.status = gs.status /\ g.max = gs.max /\ g.turns = gs.turns
        /\ g.fin = gs.turns /\ g.failed /\ g.checked = gs.checked
    <3>1. g \in GoalType
      BY TurnGoals
    <3> QED BY <3>1 DEF GoalType
  <2>2. loopAt = "turn" /\ gs' = g /\ loopAt' \in {"top", "leave"} /\ errors' = errors + 1
        /\ (loopAt' = "top" => ~Spent(gs))
        /\ (loopAt' = "leave" => errors' > MaxRetries \/ Spent(gs))
    BY <1>6 DEF FailedTurn, Pursue, LeaveWith, MaxRetries
  <2> HIDE DEF g
  <2> QED BY <1>6, <2>1, <2>2 DEF FailedTurn
<1>7. CASE DoneTurn
  BY <1>7 DEF DoneTurn, Pursue, LeaveWith, NextTurn
<1>8. CASE Verified
  BY <1>8 DEF Verified, Pursue, LeaveWith, NextTurn
<1>9. CASE LeaveLoop
  BY <1>9 DEF LeaveLoop, Save, Outcome
<1>10. CASE Ends
  BY <1>10 DEF Ends, Idle, Heeded, Abandon, StoppedGoal
<1>11. CASE EndsQuit \/ ProcessDies
  BY <1>11 DEF EndsQuit, Idle, ProcessDies
<1>12. CASE Pause \/ CancelTask \/ AppQuits
  BY <1>12 DEF Pause, CancelTask, AppQuits
<1>13. CASE ForceTerminate \/ CancelUnfinished
  BY <1>13 DEF ForceTerminate, CancelUnfinished
<1>14. CASE UNCHANGED goalVars
  BY <1>14 DEF goalVars
<1> QED
  BY <1>1, <1>2, <1>3, <1>4, <1>5, <1>6, <1>7, <1>8, <1>9, <1>10, <1>11, <1>12, <1>13, <1>14
  DEF GoalNext, GoalRequests, RunSteps, LoopSteps, Signals

(* The session before its first message.                                    *)
LEMMA GoalInitial == GoalInit => GoalIInv
<1> SUFFICES ASSUME GoalInit PROVE GoalIInv
  OBVIOUS
<1>1. AllTypes /\ Accounts
  BY NoGoalType DEF GoalInit, AllTypes, LoopTypes, TaskTypes, SignalTypes, OpenRows, Accounts
<1>2. HasGoal /\ MetConfirmed /\ EndSaved
  BY <1>1, NoGoalType DEF GoalInit, AllTypes, SignalTypes, HasGoal, Looping, MetConfirmed,
     EndSaved, Resumable
<1>3. RowOpen /\ CutKept /\ Tried
  BY DEF GoalInit, RowOpen, Looping, CutKept, Tried
<1> QED BY <1>1, <1>2, <1>3 DEF GoalIInv

(* The invariant is inductive.                                              *)
LEMMA GoalStep == GoalIInv /\ [GoalNext]_goalVars => GoalIInv'
<1> SUFFICES ASSUME GoalIInv, [GoalNext]_goalVars PROVE GoalIInv'
  OBVIOUS
<1>1. AllTypes'
  BY KeepsLoopTypes, KeepsTaskTypes, KeepsSignalTypes DEF AllTypes
<1> QED BY <1>1, KeepsGoal, KeepsAccounts, KeepsMet, KeepsRow, KeepsEnd, KeepsCut, KeepsTried DEF GoalIInv

(* It implies what the runs check.                                          *)
LEMMA GoalKept == GoalIInv => GoalTypeOK /\ WithinBudget /\ ChargedOnce /\ MetConfirmed
  BY DEF GoalIInv, AllTypes, LoopTypes, TaskTypes, GoalType, GoalTypeOK, Accounts, Charged,
         WithinBudget, ChargedOnce

-----------------------------------------------------------------------------
(* A loop is entered with a new goal, or with the saved one, which then is  *)
(* resumable and so has not ended.                                          *)
LEMMA EntersUnended == GoalIInv /\ [GoalNext]_goalVars => EndedStays
<1> SUFFICES ASSUME GoalIInv, [GoalNext]_goalVars, gs'.id # gs.id PROVE gs'.id \notin over
  BY DEF EndedStays
<1> USE DEF GoalIInv, AllTypes, LoopTypes, TaskTypes, SignalTypes, taskState, loopState, signals
<1>1. CASE Continue
  <2>1. CASE Resumable(saved)
    BY <1>1, <2>1 DEF Continue, GoalType, EndSaved
  <2>2. CASE ~Resumable(saved)
    BY <1>1, <2>2, NoGoalType DEF Continue
  <2> QED BY <2>1, <2>2
<1>2. CASE Approve
  <2>1. PICK max \in TurnBudgets \cup {0} : gs' = NewGoal(pursuits + 1, max)
    BY <1>2 DEF Approve
  <2> QED BY <2>1, ApprovedBudgets, NewGoalType
<1>3. CASE Ends \/ EndsQuit \/ ProcessDies
  <2>1. gs' = NoGoal
    BY <1>3 DEF Ends, EndsQuit, ProcessDies, Idle
  <2> QED BY <2>1, NoGoalType
<1>4. CASE Charge \/ CutTurn \/ FailedTurn \/ PausedTurn
  BY <1>4 DEF Charge, CutTurn, FailedTurn, PausedTurn, Pursue, LeaveWith, GoalType
<1>5. CASE DoneTurn
  BY <1>5 DEF DoneTurn, Pursue, LeaveWith, NextTurn, GoalType
<1>6. CASE Verified
  BY <1>6 DEF Verified, Pursue, LeaveWith, NextTurn, GoalType
<1>7. ~(SendGoal \/ SendPlain \/ PlainEnds \/ NotDerived \/ CutAtTop \/ LeaveLoop)
  BY DEF SendGoal, SendPlain, PlainEnds, NotDerived, CutAtTop, LeaveLoop
<1>8. ~(Pause \/ CancelTask \/ ForceTerminate \/ CancelUnfinished \/ AppQuits) /\ ~UNCHANGED goalVars
  BY DEF Pause, CancelTask, ForceTerminate, CancelUnfinished, AppQuits, goalVars
<1> QED
  BY <1>1, <1>2, <1>3, <1>4, <1>5, <1>6, <1>7, <1>8
  DEF GoalNext, GoalRequests, RunSteps, LoopSteps, Signals

(* An epilogue or a crash after a quit in the turns finds the goal, and the *)
(* row, as the quit left them.                                              *)
LEMMA SettlesResumable == GoalIInv /\ [GoalNext]_goalVars => QuitKeeps
<1> SUFFICES ASSUME GoalIInv, [GoalNext]_goalVars, loopAt \in {"settle", "error"}, loopAt' = "idle", cut > 0
             PROVE  taskRow' \in OpenRows /\ (saved'.id = cut => Resumable(saved'))
  BY DEF QuitKeeps
<1>1. ended = "quit" /\ taskRow \in OpenRows /\ (saved.id = cut => Resumable(saved))
  BY DEF GoalIInv, CutKept
<1>2. EndsQuit \/ ProcessDies
  BY <1>1 DEF GoalNext, GoalRequests, RunSteps, LoopSteps, Signals, SendGoal, SendPlain, Continue,
     PlainEnds,
     Approve, NotDerived, PausedTurn, CutAtTop, Charge, CutTurn, FailedTurn, DoneTurn, Verified, LeaveLoop, Ends,
     Pause, CancelTask, ForceTerminate, CancelUnfinished, AppQuits, goalVars
<1> QED BY <1>1, <1>2 DEF EndsQuit, ProcessDies, OpenRows

(* An outcome is decided on the errors and the turns the loop ended with.   *)
LEMMA LeavesTried == GoalIInv /\ [GoalNext]_goalVars => FailedForCause
  BY DEF GoalIInv, Tried, FailedForCause

(* Through messages, stops, pauses, quits and crashes in any order: the     *)
(* turn loop and its saves keep the budget, the charges, the verdict, the   *)
(* ends and the interruptions of every pursuit.                             *)
THEOREM PursuitKeptHolds == GoalSpec => PursuitKept
<1>1. GoalIInv /\ [GoalNext]_goalVars => [EndedStays /\ QuitKeeps /\ FailedForCause]_goalVars
  BY EntersUnended, SettlesResumable, LeavesTried
<1> QED BY <1>1, GoalInitial, GoalStep, GoalKept, PTL DEF GoalSpec, PursuitKept

-----------------------------------------------------------------------------
(* Explicit-state mode                                                      *)


Stepping == {"step", "call", "answer", "act"}
Unended == {"paused", "canceled", "step_limit"}

SigmaType ==
  [seed : Nat, patches : Nat, status : {"none", "active", "paused"} \cup EndedSigma]

RunTypes ==
  /\ e2sAt \in {"idle", "plain", "step", "call", "answer", "act", "left", "settle"}
  /\ sigma \in SigmaType /\ acted \in SigmaType
  /\ outcome \in {"none", "finished", "spin_stop", "failed"} \cup Unended
  /\ halted \in {"no", "user", "forced", "quit"}
  /\ seeds \in Nat /\ missed \in BOOLEAN

TaskKinds ==
  /\ kept \in SigmaType
  /\ e2sRow \in {"none", "completed", "cancelled"} \cup OpenTask

(* A run of the loop has its state, and no other run has one.               *)
HasState ==
  /\ e2sAt \in {"idle", "plain"} => sigma = NoSigma
  /\ e2sAt \in Stepping \cup {"left"} => sigma.seed > 0 /\ sigma.seed \notin closedSeeds
  /\ e2sAt \in Stepping \cup {"idle", "plain"} <=> outcome = "none"
  /\ ResumableSigma(kept) => kept.seed > 0
  /\ acted.seed = 0 => acted.patches = 0

(* Seeds are given out once.                                                *)
SeedsKnown ==
  /\ {sigma.seed, kept.seed, acted.seed} \subseteq 0 .. seeds
  /\ closedSeeds \subseteq 1 .. seeds

Behind(s, t) == s.seed = t.seed /\ s.patches < t.patches

(* Nothing is behind what it is to know of, unless a save has failed.       *)
UpToDate == Behind(sigma, acted) \/ Behind(kept, acted) \/ Behind(kept, sigma) => missed

(* A state whose end was saved is not saved as resumable.                   *)
ClosedSaved == kept.seed \in closedSeeds => ~ResumableSigma(kept)

(* The task of a running loop is unfinished, or was cancelled under it; and *)
(* what an interrupted loop leaves is the state it has.                     *)
LeavesState ==
  /\ e2sAt \in Stepping \cup {"left"} => e2sRow \in OpenTask \cup {"cancelled"}
  /\ e2sAt = "settle" /\ sigma.seed > 0 /\ outcome \in Unended /\ ~missed /\ e2sRow # "cancelled"
       => e2sRow \in OpenTask /\ ResumableSigma(kept) /\ kept.seed = sigma.seed
                              /\ kept.patches = sigma.patches

(* The inductive invariant.                                                 *)
E2SIInv == RunTypes /\ TaskKinds /\ HasState /\ SeedsKnown /\ UpToDate /\ ClosedSaved /\ LeavesState

-----------------------------------------------------------------------------
(* The empty and the fresh state, and a state after a patch.                *)
LEMMA States ==
  /\ NoSigma \in SigmaType /\ NoSigma.seed = 0 /\ NoSigma.patches = 0 /\ ~ResumableSigma(NoSigma)
  /\ \A n \in Nat : Seeded(n) \in SigmaType /\ Seeded(n).seed = n /\ Seeded(n).patches = 0
                    /\ Seeded(n) # NoSigma
  BY DEF NoSigma, Seeded, SigmaType, EndedSigma, ResumableSigma

LEMMA PatchedState ==
  ASSUME NEW s \in SigmaType, NEW t, t = [s EXCEPT !.patches = @ + 1, !.status = "active"]
  PROVE  /\ t \in SigmaType /\ t.seed = s.seed /\ t.patches = s.patches + 1 /\ ResumableSigma(t)
<1>1. t \in SigmaType
  <2>1. [s EXCEPT !.patches = @ + 1] \in SigmaType
    BY DEF SigmaType
  <2> QED BY <2>1 DEF SigmaType
<1>2. t.seed = s.seed /\ t.patches = s.patches + 1 /\ t.status = "active"
  BY DEF SigmaType
<1> QED BY <1>1, <1>2 DEF ResumableSigma

(* Every step keeps the run's types.                                        *)
LEMMA KeepsRunTypes == E2SIInv /\ [E2SNext]_e2sVars => RunTypes'
<1> SUFFICES ASSUME E2SIInv, [E2SNext]_e2sVars PROVE RunTypes'
  OBVIOUS
<1> USE DEF E2SIInv, RunTypes, TaskKinds, Unended, SigmaType, NoSigma, EndedSigma, e2sTask,
        e2sTurn, e2sSignals, e2sBounds, e2sHistory
<1>1. CASE TakeOver \/ SendE2S
  BY <1>1 DEF TakeOver, Fresh, BeginRun, Seeded, SendE2S
<1>2. CASE SendConductor \/ ContinueE2S
  BY <1>2 DEF SendConductor, BeginRun, ContinueE2S
<1>3. CASE StepBoundary \/ CallFails \/ CallInvalid
  BY <1>3 DEF StepBoundary, LeaveE2S, CallFails, Fatal, CallInvalid, NextStep
<1>4. CASE ValidCall
  <2> DEFINE s == [sigma EXCEPT !.patches = @ + 1, !.status = "active"]
  <2>1. s \in SigmaType /\ s.seed = sigma.seed /\ s.patches = sigma.patches + 1 /\ ResumableSigma(s)
    BY PatchedState
  <2>2. Patched(s)
    BY <1>4 DEF ValidCall
  <2> HIDE DEF s
  <2>3. sigma' = s /\ ((kept' = s /\ missed' = missed) \/ (kept' = kept /\ missed' = TRUE))
    BY <2>2 DEF Patched, SaveSigma
  <2> QED BY ZenonT(30), <1>4, <2>1, <2>3 DEF ValidCall
<1>5. CASE FinishE2S \/ SpinAbort \/ Acted \/ Interrupted \/ TimedOut
  BY <1>5 DEF FinishE2S, LeaveE2S, SpinAbort, Acted, NextStep, Interrupted, TimedOut, Fatal
<1>6. CASE SpinNudge \/ Dispatch
  BY <1>6 DEF SpinNudge, NextStep, Repeats, Dispatch
<1>7. CASE LastCheckpoint
  BY ZenonT(30), <1>7 DEF LastCheckpoint, SaveSigma, DomainStatus, RowOf
<1>8. CASE ConductorEnds
  BY <1>8 DEF ConductorEnds
<1>9. CASE SettleE2S
  BY <1>9 DEF SettleE2S, AbandonE2S, Terminalize, SaveSigma, Rest
<1>10. CASE QuitSettled \/ CrashE2S
  BY <1>10 DEF QuitSettled, Rest, CrashE2S
<1>11. CASE PauseE2S \/ StopE2S \/ QuitE2S \/ StopIdleE2S
  BY <1>11 DEF PauseE2S, StopE2S, QuitE2S, StopIdleE2S
<1>12. CASE ForceE2S
  BY ZenonT(30), <1>12 DEF ForceE2S, Terminalize, SaveSigma
<1>13. CASE UNCHANGED e2sVars
  BY <1>13 DEF e2sVars
<1> QED
  BY <1>1, <1>2, <1>3, <1>4, <1>5, <1>6, <1>7, <1>8, <1>9, <1>10, <1>11, <1>12, <1>13
  DEF E2SNext, E2SRequests, E2SSteps, E2SSignals

(* Every step keeps the task's types.                                       *)
LEMMA KeepsTaskKinds == E2SIInv /\ [E2SNext]_e2sVars => TaskKinds'
<1> SUFFICES ASSUME E2SIInv, [E2SNext]_e2sVars PROVE TaskKinds'
  OBVIOUS
<1> USE DEF E2SIInv, RunTypes, TaskKinds, Unended, OpenTask, SigmaType, NoSigma, EndedSigma,
        e2sTask, e2sTurn, e2sSignals, e2sBounds, e2sHistory
<1>1. CASE TakeOver \/ SendE2S
  BY <1>1 DEF TakeOver, Fresh, BeginRun, Seeded, SendE2S
<1>2. CASE SendConductor \/ ContinueE2S
  BY <1>2 DEF SendConductor, BeginRun, ContinueE2S
<1>3. CASE StepBoundary \/ CallFails \/ CallInvalid
  BY <1>3 DEF StepBoundary, LeaveE2S, CallFails, Fatal, CallInvalid, NextStep
<1>4. CASE ValidCall
  <2> DEFINE s == [sigma EXCEPT !.patches = @ + 1, !.status = "active"]
  <2>1. s \in SigmaType /\ s.seed = sigma.seed /\ s.patches = sigma.patches + 1 /\ ResumableSigma(s)
    BY PatchedState
  <2>2. Patched(s)
    BY <1>4 DEF ValidCall
  <2> HIDE DEF s
  <2>3. sigma' = s /\ ((kept' = s /\ missed' = missed) \/ (kept' = kept /\ missed' = TRUE))
    BY <2>2 DEF Patched, SaveSigma
  <2> QED BY <1>4, <2>1, <2>3 DEF ValidCall
<1>5. CASE FinishE2S \/ SpinAbort \/ Acted \/ Interrupted \/ TimedOut
  BY <1>5 DEF FinishE2S, LeaveE2S, SpinAbort, Acted, NextStep, Interrupted, TimedOut, Fatal
<1>6. CASE SpinNudge \/ Dispatch
  BY <1>6 DEF SpinNudge, NextStep, Repeats, Dispatch
<1>7. CASE LastCheckpoint
  BY <1>7 DEF LastCheckpoint, SaveSigma, DomainStatus, RowOf
<1>8. CASE ConductorEnds
  BY <1>8 DEF ConductorEnds
<1>9. CASE SettleE2S
  BY <1>9 DEF SettleE2S, AbandonE2S, Terminalize, SaveSigma, Rest
<1>10. CASE QuitSettled \/ CrashE2S
  BY <1>10 DEF QuitSettled, Rest, CrashE2S
<1>11. CASE PauseE2S \/ StopE2S \/ QuitE2S \/ StopIdleE2S
  BY <1>11 DEF PauseE2S, StopE2S, QuitE2S, StopIdleE2S
<1>12. CASE ForceE2S
  BY <1>12 DEF ForceE2S, Terminalize, SaveSigma
<1>13. CASE UNCHANGED e2sVars
  BY <1>13 DEF e2sVars
<1> QED
  BY <1>1, <1>2, <1>3, <1>4, <1>5, <1>6, <1>7, <1>8, <1>9, <1>10, <1>11, <1>12, <1>13
  DEF E2SNext, E2SRequests, E2SSteps, E2SSignals

(* Every step leaves a run with a state that has not ended.                 *)
LEMMA KeepsState == E2SIInv /\ [E2SNext]_e2sVars => HasState'
<1> SUFFICES ASSUME E2SIInv, [E2SNext]_e2sVars PROVE HasState'
  OBVIOUS
<1> USE DEF E2SIInv, RunTypes, TaskKinds, HasState, SeedsKnown, ClosedSaved, ResumableSigma,
        Stepping, Unended, SigmaType, NoSigma, EndedSigma, e2sTask, e2sTurn, e2sSignals,
        e2sBounds, e2sHistory
<1>1. CASE TakeOver \/ SendE2S
  BY <1>1 DEF TakeOver, Fresh, BeginRun, Seeded, SendE2S
<1>2. CASE SendConductor \/ ContinueE2S
  BY <1>2 DEF SendConductor, BeginRun, ContinueE2S
<1>3. CASE StepBoundary \/ CallFails \/ CallInvalid
  BY <1>3 DEF StepBoundary, LeaveE2S, CallFails, Fatal, CallInvalid, NextStep
<1>4. CASE ValidCall
  BY <1>4 DEF ValidCall, Patched, SaveSigma
<1>5. CASE FinishE2S \/ SpinAbort \/ Acted \/ Interrupted \/ TimedOut
  BY <1>5 DEF FinishE2S, LeaveE2S, SpinAbort, Acted, NextStep, Interrupted, TimedOut, Fatal
<1>6. CASE SpinNudge \/ Dispatch
  BY <1>6 DEF SpinNudge, NextStep, Repeats, Dispatch
<1>7. CASE LastCheckpoint
  BY <1>7 DEF LastCheckpoint, SaveSigma, DomainStatus, RowOf
<1>8. CASE ConductorEnds
  BY <1>8 DEF ConductorEnds
<1>9. CASE SettleE2S
  BY <1>9 DEF SettleE2S, AbandonE2S, Terminalize, SaveSigma, Rest
<1>10. CASE QuitSettled \/ CrashE2S
  BY <1>10 DEF QuitSettled, Rest, CrashE2S
<1>11. CASE PauseE2S \/ StopE2S \/ QuitE2S \/ StopIdleE2S
  BY <1>11 DEF PauseE2S, StopE2S, QuitE2S, StopIdleE2S
<1>12. CASE ForceE2S
  BY <1>12 DEF ForceE2S, Terminalize, SaveSigma
<1>13. CASE UNCHANGED e2sVars
  BY <1>13 DEF e2sVars
<1> QED
  BY <1>1, <1>2, <1>3, <1>4, <1>5, <1>6, <1>7, <1>8, <1>9, <1>10, <1>11, <1>12, <1>13
  DEF E2SNext, E2SRequests, E2SSteps, E2SSignals

(* Every step keeps the seeds in range.                                     *)
LEMMA KeepsSeeds == E2SIInv /\ [E2SNext]_e2sVars => SeedsKnown'
<1> SUFFICES ASSUME E2SIInv, [E2SNext]_e2sVars PROVE SeedsKnown'
  OBVIOUS
<1> USE DEF E2SIInv, RunTypes, TaskKinds, HasState, SeedsKnown, Stepping, SigmaType, NoSigma,
        EndedSigma, e2sTask, e2sTurn, e2sSignals, e2sBounds, e2sHistory
<1>1. CASE TakeOver \/ SendE2S
  <2>1. /\ (sigma' = kept /\ seeds' = seeds) \/ (sigma' = Seeded(seeds + 1) /\ seeds' = seeds + 1)
        /\ kept' \in {kept, NoSigma} /\ UNCHANGED <<acted, closedSeeds>>
    BY <1>1 DEF TakeOver, SendE2S, Fresh, BeginRun
  <2> QED BY <2>1, States
<1>2. CASE SendConductor \/ ContinueE2S
  <2>1. sigma' \in {kept, NoSigma} /\ kept' \in {kept, NoSigma}
    BY <1>2 DEF SendConductor, ContinueE2S, BeginRun
  <2> QED BY <1>2, <2>1 DEF SendConductor, ContinueE2S
<1>3. CASE StepBoundary \/ CallFails \/ CallInvalid
  BY <1>3 DEF StepBoundary, LeaveE2S, CallFails, Fatal, CallInvalid, NextStep
<1>4. CASE ValidCall
  <2> DEFINE s == [sigma EXCEPT !.patches = @ + 1, !.status = "active"]
  <2>1. s \in SigmaType /\ s.seed = sigma.seed /\ s.patches = sigma.patches + 1 /\ ResumableSigma(s)
    BY PatchedState
  <2>2. Patched(s)
    BY <1>4 DEF ValidCall
  <2> HIDE DEF s
  <2>3. sigma' = s /\ ((kept' = s /\ missed' = missed) \/ (kept' = kept /\ missed' = TRUE))
    BY <2>2 DEF Patched, SaveSigma
  <2> QED BY <1>4, <2>1, <2>3 DEF ValidCall
<1>5. CASE FinishE2S \/ SpinAbort \/ Acted \/ Interrupted \/ TimedOut
  BY <1>5 DEF FinishE2S, LeaveE2S, SpinAbort, Acted, NextStep, Interrupted, TimedOut, Fatal
<1>6. CASE SpinNudge \/ Dispatch
  BY <1>6 DEF SpinNudge, NextStep, Repeats, Dispatch
<1>7. CASE LastCheckpoint
  <2>1. kept' = kept \/ kept' = [sigma EXCEPT !.status = DomainStatus]
    BY <1>7 DEF LastCheckpoint, SaveSigma
  <2>2. kept'.seed \in {kept.seed, sigma.seed}
    BY <2>1
  <2>3. closedSeeds' = closedSeeds \/ closedSeeds' = closedSeeds \cup {sigma.seed}
    BY <1>7 DEF LastCheckpoint
  <2> QED BY <1>7, <2>2, <2>3 DEF LastCheckpoint
<1>8. CASE ConductorEnds
  BY <1>8 DEF ConductorEnds
<1>9. CASE SettleE2S
  BY <1>9 DEF SettleE2S, AbandonE2S, Terminalize, SaveSigma, Rest
<1>10. CASE QuitSettled \/ CrashE2S
  <2>1. sigma' = NoSigma /\ UNCHANGED <<kept, seeds, acted, closedSeeds>>
    BY <1>10 DEF QuitSettled, CrashE2S, Rest
  <2> QED BY <2>1
<1>11. CASE PauseE2S \/ StopE2S \/ QuitE2S \/ StopIdleE2S
  BY <1>11 DEF PauseE2S, StopE2S, QuitE2S, StopIdleE2S
<1>12. CASE ForceE2S
  BY <1>12 DEF ForceE2S, Terminalize, SaveSigma
<1>13. CASE UNCHANGED e2sVars
  BY <1>13 DEF e2sVars
<1> QED
  BY <1>1, <1>2, <1>3, <1>4, <1>5, <1>6, <1>7, <1>8, <1>9, <1>10, <1>11, <1>12, <1>13
  DEF E2SNext, E2SRequests, E2SSteps, E2SSignals

(* No step leaves a state behind without a save that failed.                *)
LEMMA KeepsUpToDate == E2SIInv /\ [E2SNext]_e2sVars => UpToDate'
<1> SUFFICES ASSUME E2SIInv, [E2SNext]_e2sVars PROVE UpToDate'
  OBVIOUS
<1> USE DEF E2SIInv, RunTypes, TaskKinds, HasState, SeedsKnown, UpToDate, Behind, Stepping,
        SigmaType, NoSigma, EndedSigma, e2sTask, e2sTurn, e2sSignals, e2sBounds, e2sHistory
<1>1. CASE TakeOver \/ SendE2S
  BY <1>1 DEF TakeOver, Fresh, BeginRun, Seeded, SendE2S
<1>2. CASE SendConductor \/ ContinueE2S
  BY <1>2 DEF SendConductor, BeginRun, ContinueE2S
<1>3. CASE StepBoundary \/ CallFails \/ CallInvalid
  BY <1>3 DEF StepBoundary, LeaveE2S, CallFails, Fatal, CallInvalid, NextStep
<1>4. CASE ValidCall
  <2> DEFINE s == [sigma EXCEPT !.patches = @ + 1, !.status = "active"]
  <2>1. s \in SigmaType /\ s.seed = sigma.seed /\ s.patches = sigma.patches + 1 /\ ResumableSigma(s)
    BY PatchedState
  <2>2. Patched(s)
    BY <1>4 DEF ValidCall
  <2> HIDE DEF s
  <2>3. sigma' = s /\ ((kept' = s /\ missed' = missed) \/ (kept' = kept /\ missed' = TRUE))
    BY <2>2 DEF Patched, SaveSigma
  <2> QED BY <1>4, <2>1, <2>3 DEF ValidCall
<1>5. CASE FinishE2S \/ SpinAbort \/ Acted \/ Interrupted \/ TimedOut
  BY <1>5 DEF FinishE2S, LeaveE2S, SpinAbort, Acted, NextStep, Interrupted, TimedOut, Fatal
<1>6. CASE SpinNudge \/ Dispatch
  BY <1>6 DEF SpinNudge, NextStep, Repeats, Dispatch
<1>7. CASE LastCheckpoint
  BY <1>7 DEF LastCheckpoint, SaveSigma, DomainStatus, RowOf
<1>8. CASE ConductorEnds
  BY <1>8 DEF ConductorEnds
<1>9. CASE SettleE2S
  BY <1>9 DEF SettleE2S, AbandonE2S, Terminalize, SaveSigma, Rest
<1>10. CASE QuitSettled \/ CrashE2S
  BY <1>10 DEF QuitSettled, Rest, CrashE2S
<1>11. CASE PauseE2S \/ StopE2S \/ QuitE2S \/ StopIdleE2S
  BY <1>11 DEF PauseE2S, StopE2S, QuitE2S, StopIdleE2S
<1>12. CASE ForceE2S
  BY <1>12 DEF ForceE2S, Terminalize, SaveSigma
<1>13. CASE UNCHANGED e2sVars
  BY <1>13 DEF e2sVars
<1> QED
  BY <1>1, <1>2, <1>3, <1>4, <1>5, <1>6, <1>7, <1>8, <1>9, <1>10, <1>11, <1>12, <1>13
  DEF E2SNext, E2SRequests, E2SSteps, E2SSignals

(* No step makes a state that ended resumable.                              *)
LEMMA KeepsClosed == E2SIInv /\ [E2SNext]_e2sVars => ClosedSaved'
<1> SUFFICES ASSUME E2SIInv, [E2SNext]_e2sVars PROVE ClosedSaved'
  OBVIOUS
<1> USE DEF E2SIInv, RunTypes, TaskKinds, HasState, SeedsKnown, ClosedSaved, ResumableSigma,
        Stepping, SigmaType, NoSigma, EndedSigma, e2sTask, e2sTurn, e2sSignals, e2sBounds,
        e2sHistory
<1>1. CASE TakeOver \/ SendE2S
  BY <1>1 DEF TakeOver, Fresh, BeginRun, Seeded, SendE2S
<1>2. CASE SendConductor \/ ContinueE2S
  BY <1>2 DEF SendConductor, BeginRun, ContinueE2S
<1>3. CASE StepBoundary \/ CallFails \/ CallInvalid
  BY <1>3 DEF StepBoundary, LeaveE2S, CallFails, Fatal, CallInvalid, NextStep
<1>4. CASE ValidCall
  BY <1>4 DEF ValidCall, Patched, SaveSigma
<1>5. CASE FinishE2S \/ SpinAbort \/ Acted \/ Interrupted \/ TimedOut
  BY <1>5 DEF FinishE2S, LeaveE2S, SpinAbort, Acted, NextStep, Interrupted, TimedOut, Fatal
<1>6. CASE SpinNudge \/ Dispatch
  BY <1>6 DEF SpinNudge, NextStep, Repeats, Dispatch
<1>7. CASE LastCheckpoint
  BY <1>7 DEF LastCheckpoint, SaveSigma, DomainStatus, RowOf
<1>8. CASE ConductorEnds
  BY <1>8 DEF ConductorEnds
<1>9. CASE SettleE2S
  BY <1>9 DEF SettleE2S, AbandonE2S, Terminalize, SaveSigma, Rest
<1>10. CASE QuitSettled \/ CrashE2S
  BY <1>10 DEF QuitSettled, Rest, CrashE2S
<1>11. CASE PauseE2S \/ StopE2S \/ QuitE2S \/ StopIdleE2S
  BY <1>11 DEF PauseE2S, StopE2S, QuitE2S, StopIdleE2S
<1>12. CASE ForceE2S
  BY <1>12 DEF ForceE2S, Terminalize, SaveSigma
<1>13. CASE UNCHANGED e2sVars
  BY <1>13 DEF e2sVars
<1> QED
  BY <1>1, <1>2, <1>3, <1>4, <1>5, <1>6, <1>7, <1>8, <1>9, <1>10, <1>11, <1>12, <1>13
  DEF E2SNext, E2SRequests, E2SSteps, E2SSignals

(* No step loses what an interrupted loop left.                             *)
LEMMA KeepsLeft == E2SIInv /\ [E2SNext]_e2sVars => LeavesState'
<1> SUFFICES ASSUME E2SIInv, [E2SNext]_e2sVars PROVE LeavesState'
  OBVIOUS
<1> USE DEF E2SIInv, RunTypes, TaskKinds, HasState, LeavesState, ResumableSigma, Stepping,
        Unended, OpenTask, SigmaType, NoSigma, EndedSigma, e2sTask, e2sTurn, e2sSignals,
        e2sBounds, e2sHistory
<1>1. CASE TakeOver \/ SendE2S
  BY <1>1 DEF TakeOver, Fresh, BeginRun, Seeded, SendE2S
<1>2. CASE SendConductor \/ ContinueE2S
  BY <1>2 DEF SendConductor, BeginRun, ContinueE2S
<1>3. CASE StepBoundary \/ CallFails \/ CallInvalid
  BY <1>3 DEF StepBoundary, LeaveE2S, CallFails, Fatal, CallInvalid, NextStep
<1>4. CASE ValidCall
  BY <1>4 DEF ValidCall, Patched, SaveSigma
<1>5. CASE FinishE2S \/ SpinAbort \/ Acted \/ Interrupted \/ TimedOut
  BY <1>5 DEF FinishE2S, LeaveE2S, SpinAbort, Acted, NextStep, Interrupted, TimedOut, Fatal
<1>6. CASE SpinNudge \/ Dispatch
  BY <1>6 DEF SpinNudge, NextStep, Repeats, Dispatch
<1>7. CASE LastCheckpoint
  BY <1>7 DEF LastCheckpoint, SaveSigma, DomainStatus, RowOf
<1>8. CASE ConductorEnds
  BY <1>8 DEF ConductorEnds
<1>9. CASE SettleE2S
  BY <1>9 DEF SettleE2S, AbandonE2S, Terminalize, SaveSigma, Rest
<1>10. CASE QuitSettled \/ CrashE2S
  BY <1>10 DEF QuitSettled, Rest, CrashE2S
<1>11. CASE PauseE2S \/ StopE2S \/ QuitE2S \/ StopIdleE2S
  BY <1>11 DEF PauseE2S, StopE2S, QuitE2S, StopIdleE2S
<1>12. CASE ForceE2S
  BY <1>12 DEF ForceE2S, Terminalize, SaveSigma
<1>13. CASE UNCHANGED e2sVars
  BY <1>13 DEF e2sVars
<1> QED
  BY <1>1, <1>2, <1>3, <1>4, <1>5, <1>6, <1>7, <1>8, <1>9, <1>10, <1>11, <1>12, <1>13
  DEF E2SNext, E2SRequests, E2SSteps, E2SSignals

(* The session before its first message.                                    *)
LEMMA E2SInitial == E2SInit => E2SIInv
<1> SUFFICES ASSUME E2SInit PROVE E2SIInv
  OBVIOUS
<1>1. RunTypes /\ TaskKinds
  BY States DEF E2SInit, RunTypes, TaskKinds
<1>2. HasState /\ SeedsKnown /\ UpToDate /\ ClosedSaved /\ LeavesState
  BY States DEF E2SInit, HasState, SeedsKnown, UpToDate, Behind, ClosedSaved, LeavesState, Stepping
<1> QED BY <1>1, <1>2 DEF E2SIInv

(* The invariant is inductive.                                              *)
LEMMA E2SStep == E2SIInv /\ [E2SNext]_e2sVars => E2SIInv'
  BY KeepsRunTypes, KeepsTaskKinds, KeepsState, KeepsSeeds, KeepsUpToDate, KeepsClosed, KeepsLeft DEF E2SIInv

(* It implies what the runs check.                                          *)
LEMMA E2SKept == E2SIInv => E2STypeOK /\ ActionsKnown
  BY DEF E2SIInv, RunTypes, TaskKinds, SigmaType, UpToDate, Behind, E2STypeOK, ActionsKnown

-----------------------------------------------------------------------------
(* A run is entered with a fresh state, or with the saved one, which then   *)
(* is resumable and so has not ended.                                       *)
LEMMA EntersOpen == E2SIInv /\ [E2SNext]_e2sVars => ClosedStays
<1> SUFFICES ASSUME E2SIInv, [E2SNext]_e2sVars, sigma'.seed # sigma.seed PROVE sigma'.seed \notin closedSeeds
  BY DEF ClosedStays
<1> USE DEF E2SIInv, RunTypes, TaskKinds, SeedsKnown, e2sTurn
<1>1. CASE E2SRequests
  <2>1. \/ sigma' = NoSigma \/ sigma' = Seeded(seeds + 1)
        \/ ResumableSigma(kept) /\ sigma' = kept
    BY <1>1 DEF E2SRequests, TakeOver, SendE2S, SendConductor, ContinueE2S, Fresh, BeginRun
  <2> QED BY <2>1, States DEF ClosedSaved
<1>2. CASE SettleE2S \/ QuitSettled \/ CrashE2S
  <2>1. sigma' = NoSigma
    BY <1>2 DEF SettleE2S, QuitSettled, CrashE2S, Rest
  <2> QED BY <2>1, States
<1>3. CASE ValidCall
  BY <1>3 DEF ValidCall, Patched, SigmaType
<1>4. ~(StepBoundary \/ CallFails \/ CallInvalid \/ FinishE2S \/ SpinAbort \/ SpinNudge \/ Dispatch)
  BY DEF StepBoundary, CallFails, CallInvalid, FinishE2S, SpinAbort, SpinNudge, Dispatch
<1>5. ~(Acted \/ Interrupted \/ TimedOut \/ LastCheckpoint \/ ConductorEnds)
  BY DEF Acted, Interrupted, TimedOut, LastCheckpoint, ConductorEnds
<1>6. ~(PauseE2S \/ StopE2S \/ ForceE2S \/ StopIdleE2S \/ QuitE2S) /\ ~UNCHANGED e2sVars
  BY DEF PauseE2S, StopE2S, ForceE2S, StopIdleE2S, QuitE2S, e2sVars
<1> QED BY <1>1, <1>2, <1>3, <1>4, <1>5, <1>6 DEF E2SNext, E2SSteps, E2SSignals

(* No step fails a run that a quit cancelled, and the epilogue or a crash   *)
(* after it leaves what was saved.                                          *)
LEMMA QuitsResumable == E2SIInv /\ [E2SNext]_e2sVars => QuitResumable
<1> SUFFICES ASSUME E2SIInv, [E2SNext]_e2sVars PROVE QuitResumable
  OBVIOUS
<1>1. ASSUME outcome' # outcome, outcome' = "failed", sigma.seed > 0 PROVE halted = "no"
  <2>1. ~ConductorEnds
    BY <1>1, States DEF E2SIInv, HasState, ConductorEnds
  <2>2. CallFails \/ TimedOut
    BY <1>1, <2>1 DEF E2SNext, E2SRequests, E2SSteps, E2SSignals, TakeOver, SendE2S, SendConductor, ContinueE2S,
       Fresh, BeginRun, StepBoundary, LeaveE2S, CallInvalid, ValidCall, FinishE2S, SpinAbort, SpinNudge, Dispatch,
       Acted, Interrupted, LastCheckpoint, SettleE2S, QuitSettled, Rest, PauseE2S, StopE2S, ForceE2S,
       StopIdleE2S, QuitE2S, CrashE2S, e2sVars
  <2> QED BY <1>1, <2>2 DEF CallFails, TimedOut, LeaveE2S, Fatal
<1>2. ASSUME e2sAt = "settle", halted = "quit", e2sAt' = "idle", sigma.seed > 0,
             outcome \notin {"finished", "spin_stop", "failed"}, ~missed, e2sRow # "cancelled"
      PROVE  e2sRow' \in OpenTask /\ ResumableSigma(kept') /\ kept'.seed = sigma.seed
                                  /\ kept'.patches = sigma.patches
  <2>1. outcome \in Unended
    BY <1>2 DEF E2SIInv, RunTypes, HasState, Stepping
  <2>2. e2sRow \in OpenTask /\ ResumableSigma(kept) /\ kept.seed = sigma.seed /\ kept.patches = sigma.patches
    BY <1>2, <2>1 DEF E2SIInv, LeavesState
  <2>3. QuitSettled \/ CrashE2S
    BY <1>2 DEF E2SNext, E2SRequests, E2SSteps, E2SSignals, TakeOver, SendE2S, SendConductor, ContinueE2S,
       StepBoundary, CallFails, CallInvalid, ValidCall, FinishE2S, SpinAbort, SpinNudge, Dispatch, Acted,
       Interrupted, TimedOut, LastCheckpoint, ConductorEnds, SettleE2S, PauseE2S, StopE2S, ForceE2S, StopIdleE2S,
       QuitE2S, e2sVars
  <2> QED BY <2>2, <2>3 DEF QuitSettled, CrashE2S, OpenTask
<1> QED BY <1>1, <1>2 DEF QuitResumable

(* A request that takes a session over starts from a fresh state.           *)
LEMMA StartsFresh == E2SIInv /\ [E2SNext]_e2sVars => TakesOverFresh
<1> SUFFICES ASSUME [E2SNext]_e2sVars, e2sAt = "idle", e2sRow \in OpenTask, e2sAt' = "step", entry' = "send",
                    E2SIInv
             PROVE  sigma'.patches = 0
  BY DEF TakesOverFresh
<1>1. TakeOver
  BY DEF E2SNext, E2SRequests, E2SSteps, E2SSignals, SendE2S, SendConductor, ContinueE2S, BeginRun,
     StepBoundary, CallFails, CallInvalid, ValidCall, FinishE2S, SpinAbort, SpinNudge, Dispatch, Acted,
     Interrupted, TimedOut, LastCheckpoint, ConductorEnds, SettleE2S, QuitSettled, Rest, PauseE2S, StopE2S, ForceE2S,
     StopIdleE2S, QuitE2S, CrashE2S, e2sVars
<1> QED BY <1>1, States DEF TakeOver, Fresh, BeginRun, E2SIInv, RunTypes

(* Through messages, stops, pauses, quits and crashes in any order: the     *)
(* loop, its checkpoints and the session manager's epilogues keep the state *)
(* of an explicit-state run.                                                *)
THEOREM StateKeptHolds == E2SSpec => StateKept
<1>1. E2SIInv /\ [E2SNext]_e2sVars => [ClosedStays /\ QuitResumable /\ TakesOverFresh]_e2sVars
  BY EntersOpen, QuitsResumable, StartsFresh
<1> QED BY <1>1, E2SInitial, E2SStep, E2SKept, PTL DEF E2SSpec, StateKept
=============================================================================
