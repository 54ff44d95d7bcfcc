----------------------------- MODULE SessionRun -----------------------------
(***************************************************************************)
(* The life of one chat session of backend/session.Manager: the task       *)
(* goroutines ("runs") it launches, the client calls that start, stop,     *)
(* pause, resume, compact, archive and delete it, the live-message queue   *)
(* of its orchestrator and the task rows of the store.                     *)
(*                                                                         *)
(* Three kinds of goroutine interleave: client calls (one RPC each), runs  *)
(* and manual-compaction flows.  A step is what one goroutine does while   *)
(* it holds session.mu, or one task-store access between two such holds; a *)
(* store lookup and the write that directly follows it are one step.       *)
(* A wait with a timeout may end at any time.                              *)
(***************************************************************************)
EXTENDS Integers, FiniteSets, Sequences

CONSTANTS
  Calls,     \* client RPCs; each is issued at most once
  Runs,      \* identities of task goroutines, reused once the run has exited
  Flows,     \* identities of compaction goroutines, reused likewise
  Msgs,      \* user messages; each is sent at most once
  MaxTask,   \* task rows the store has room for (bound)
  Ops,       \* the RPCs the clients issue
  None       \* no run, no flow

AllOps == {"send", "goal", "resume", "pause", "stop", "compact",
           "cancelCompact", "archive", "delete", "shutdown"}

ASSUME ProcsAssumption ==
  /\ Calls \cap Runs = {} /\ Calls \cap Flows = {} /\ Runs \cap Flows = {}
  /\ None \notin Calls \cup Runs \cup Flows
ASSUME TasksAssumption == MaxTask \in Nat
ASSUME OpsAssumption == Ops \subseteq AllOps

Procs == Calls \cup Runs \cup Flows
Tasks == 1 .. MaxTask
NoTask == 0

VARIABLES
  (* Session, guarded by session.mu *)
  active, pausing, pauseOwner, terminalEmitted, forceTerminated,
  current,          \* the run session.done and session.cancel belong to
  compacting,
  compactFlow,      \* the flow session.compactDone/compactCancel belong to
  archived, deleting,
  lastTask,         \* lastCompletedTaskID, the continuation anchor
  (* Manager *)
  present,          \* the session is in m.sessions or can be restored
  shuttingDown,
  (* Orchestrator *)
  inFlight,         \* requestInFlight
  pause,            \* activePause: no signal installed, installed, raised
  queue,            \* liveMessages
  armed,            \* resumeCompactionStrategy is set
  (* task store *)
  row,              \* status of each task row
  goal,             \* the row carries a non-terminal goal state
  (* goroutines *)
  pc,               \* what each goroutine does next
  loc,              \* its local variables
  wait,             \* the done channel it waits on
  (* history, read by properties only *)
  fate,             \* what became of each message
  told,             \* the terminal events emitted for each run
  userPause,        \* a pause of the user stands, or a flow has consumed its owner
  stale             \* SendMessage has activated on conditions that had changed

runVars == <<active, pausing, pauseOwner, terminalEmitted, forceTerminated, current>>
lifeVars == <<archived, deleting, present, shuttingDown>>
compactVars == <<compacting, compactFlow>>
orchVars == <<inFlight, pause, queue, armed>>
storeVars == <<row, goal, lastTask>>
procVars == <<pc, loc, wait>>
ghostVars == <<fate, told, userPause, stale>>
vars == <<runVars, lifeVars, compactVars, orchVars, storeVars, procVars, ghostVars>>

CallAt == {"idle", "gate", "route", "activate", "lookup", "resume", "signal",
           "waiting", "expired", "force", "settleStop", "discard", "setArchived", "remove",
           "collect", "checkpoint", "done"}
RunAt == {"idle", "start", "reactivate", "enter", "enterFresh", "enterResume",
          "exec", "judge", "settle", "keep", "drop", "release", "complete",
          "gate", "route", "activate", "lookup", "resume", "exit"}
FlowAt == {"idle", "csignal", "cwait", "swap", "cdefer", "cclear", "cowner",
           "lookup", "resume"}
Labels == CallAt \cup RunAt \cup FlowAt
Statuses == {"none", "in_progress", "paused", "failed", "completed", "cancelled"}
UnfinishedStatuses == {"in_progress", "paused", "failed"}
Failures == {"error", "unauthorized"}
Results == Failures \cup
  {"none", "success", "partial", "failed", "paused", "nothing", "aborted"}
Fates == {"unsent", "pending", "late", "held", "delivered", "discarded", "refused", "swallowed"}
Ends == {"cancelled", "error", "paused", "complete"}

(* The local variables of a goroutine:                                      *)
(*   text    message text it carries: an argument, a nudge, a leftover      *)
(*   tid     the task it works on                                           *)
(*   goal    it runs, or asks for, goal mode                                *)
(*   via     how a run was entered: message, continuation, resume           *)
(*   ctx     its context is cancelled                                       *)
(*   res     what the engine returned                                       *)
(*   stopped the context was cancelled when the engine returned             *)
(*   anchor  the continuation anchor handed to HandleMessage                *)
(*   flag    the anchor was unfinished (run), pausedForCompaction (flow),   *)
(*           the toggle's target (archive), the task was active (shutdown)  *)
Locals == [text : SUBSET Msgs, tid : 0 .. MaxTask, goal : BOOLEAN,
           via : {"msg", "cont", "resume"}, ctx : BOOLEAN, res : Results,
           stopped : BOOLEAN, anchor : 0 .. MaxTask, flag : BOOLEAN]
Blank == [text |-> {}, tid |-> NoTask, goal |-> FALSE, via |-> "msg",
          ctx |-> FALSE, res |-> "none", stopped |-> FALSE, anchor |-> NoTask,
          flag |-> FALSE]

-----------------------------------------------------------------------------
(* Task store *)

Unfinished ==
  LET open == {t \in Tasks : row[t] \in UnfinishedStatuses}
  IN  IF open = {} THEN NoTask
      ELSE CHOOSE t \in open : \A u \in open : u <= t

HasPausedUnfinished == Unfinished # NoTask /\ row[Unfinished] = "paused"

(* Mutant: task numbers go on past the last row.                            *)
NextRowUnbounded == Cardinality({t \in Tasks : row[t] # "none"}) + 1

(* The row of a fresh task; NoTask once the store is full: a lost           *)
(* PersistNewTask only logs a warning and the run goes on.                  *)
NextRow ==
  LET free == {t \in Tasks : row[t] = "none"}
  IN  IF free = {} THEN NoTask ELSE CHOOSE t \in free : \A u \in free : t <= u

(* An UPDATE ... WHERE id = t: nothing happens when there is no such row.    *)
Put(f, t, v) == [u \in Tasks |-> IF u = t THEN v ELSE f[u]]

-----------------------------------------------------------------------------
(* Where a goroutine goes when the RPC-like part it executes returns: a     *)
(* client call is over, a run closes its done channel, a flow ends.         *)
After(p) == IF p \in Calls THEN "done" ELSE IF p \in Runs THEN "exit" ELSE "idle"

(* What it leaves of its locals: only a run still has something to finish.  *)
Left(p) == IF p \in Runs THEN [loc[p] EXCEPT !.text = {}] ELSE Blank

Goto(p, label) == pc' = [pc EXCEPT ![p] = label]

Tell(r, e) == [told EXCEPT ![r] = Append(@, e)]

Mark(ms, f) == fate' = [m \in Msgs |-> IF m \in ms THEN f ELSE fate[m]]

(* sendMessage or ResumeTask returns an error; the sender learns it, or a   *)
(* service notice shows it (finishLiveLeftover).                            *)
Refuse(p) ==
  /\ Goto(p, After(p))
  /\ loc' = [loc EXCEPT ![p] = Left(p)]
  /\ Mark(loc[p].text, "refused")
  /\ UNCHANGED <<runVars, lifeVars, compactVars, orchVars, storeVars, wait,
                 told, userPause, stale>>

(* ErrSessionCompacting: a follow-up puts its text back on the live queue.  *)
RefuseCompacting(p) ==
  IF p \in Runs
    THEN /\ Goto(p, "exit")
         /\ queue' = queue \cup loc[p].text
         /\ loc' = [loc EXCEPT ![p] = Left(p)]
         /\ Mark(loc[p].text, "held")
         /\ UNCHANGED <<runVars, lifeVars, compactVars, inFlight, pause, armed,
                        storeVars, wait, told, userPause, stale>>
    ELSE Refuse(p)

(* The activation both launch paths share: the session is bound to run q,   *)
(* which gets p's text on a fresh context.                                  *)
Activate(p, q, via, t) ==
  /\ pc[q] = "idle" /\ q # p
  /\ active' = TRUE
  /\ pauseOwner' = "none"
  /\ terminalEmitted' = FALSE
  /\ forceTerminated' = FALSE
  /\ current' = q
  /\ pc' = [pc EXCEPT ![p] = After(p),
                      ![q] = IF via = "resume" THEN "reactivate" ELSE "start"]
  /\ loc' = [loc EXCEPT ![p] = Left(p),
                        ![q] = [Blank EXCEPT !.text = loc[p].text,
                                             !.tid = t,
                                             !.goal = loc[p].goal,
                                             !.via = via]]
  /\ userPause' = "none"
  /\ UNCHANGED <<pausing, lifeVars, compactVars, orchVars, storeVars, wait, fate, told>>

-----------------------------------------------------------------------------
(* SendMessage: two holds of session.mu with store reads between them.      *)

SendCall(c, m, g) ==
  /\ pc[c] = "idle" /\ fate[m] = "unsent"
  /\ IF g THEN "goal" \in Ops ELSE "send" \in Ops
  /\ Goto(c, "gate")
  /\ loc' = [loc EXCEPT ![c].text = {m}, ![c].goal = g]
  /\ Mark({m}, "pending")
  /\ UNCHANGED <<runVars, lifeVars, compactVars, orchVars, storeVars, wait,
                 told, userPause, stale>>

(* The running task has already been reported as cancelled.                 *)
ReportedCancelled ==
  current # None /\ \E i \in DOMAIN told[current] : told[current][i] = "cancelled"

(* The first hold: choke points, then the live-send gate.                   *)
SendGate(p) ==
  /\ pc[p] = "gate"
  /\ \/ /\ shuttingDown \/ ~present \/ archived \/ deleting
        /\ Refuse(p)
     \/ /\ ~shuttingDown /\ present /\ ~archived /\ ~deleting
        /\ compacting
        /\ RefuseCompacting(p)
     \/ /\ ~shuttingDown /\ present /\ ~archived /\ ~deleting
        /\ active /\ ~compacting /\ (pausing \/ loc[p].goal)
        /\ Refuse(p)
     \/ /\ ~shuttingDown /\ present /\ ~archived /\ ~deleting
        /\ active /\ ~compacting /\ ~pausing /\ ~loc[p].goal
        /\ queue' = queue \cup loc[p].text
        /\ loc' = [loc EXCEPT ![p] = Left(p)]
        /\ Goto(p, After(p))
        /\ Mark(loc[p].text, IF ReportedCancelled THEN "late" ELSE "pending")
        /\ UNCHANGED <<runVars, lifeVars, compactVars, inFlight, pause, armed,
                       storeVars, wait, told, userPause, stale>>
     \/ /\ ~shuttingDown /\ present /\ ~archived /\ ~deleting
        /\ ~active /\ ~compacting
        /\ Goto(p, "route")
        /\ UNCHANGED <<runVars, lifeVars, compactVars, orchVars, storeVars, loc,
                       wait, ghostVars>>

(* A plain message into a paused session nudges the paused task (ResumeTask *)
(* with the text); any other message launches a run of its own.             *)
SendRoute(p) ==
  /\ pc[p] = "route"
  /\ Goto(p, IF ~loc[p].goal /\ HasPausedUnfinished THEN "lookup" ELSE "activate")
  /\ UNCHANGED <<runVars, lifeVars, compactVars, orchVars, storeVars, loc, wait,
                 ghostVars>>

(* Mutant: the second hold re-checks nothing.                               *)
SendActivateUnchecked(p) ==
  /\ pc[p] = "activate"
  /\ \E q \in Runs : Activate(p, q, "msg", NoTask)
  /\ stale' = (stale \/ active \/ deleting \/ archived \/ ~present \/ shuttingDown)

(* The second hold re-checks compacting, and nothing else.                  *)
SendActivate(p) ==
  /\ pc[p] = "activate"
  /\ \/ compacting /\ RefuseCompacting(p)
     \/ /\ ~compacting
        /\ \E q \in Runs : Activate(p, q, "msg", NoTask)
        /\ stale' = (stale \/ active \/ deleting \/ archived \/ ~present \/ shuttingDown)

-----------------------------------------------------------------------------
(* ResumeTask: a resume call, a nudge (sendMessage on a paused session), or *)
(* the auto-resume of a compaction flow.                                    *)

ResumeCall(c) ==
  /\ pc[c] = "idle" /\ "resume" \in Ops
  /\ Goto(c, "lookup")
  /\ UNCHANGED <<runVars, lifeVars, compactVars, orchVars, storeVars, loc, wait,
                 ghostVars>>

(* Snapshot guards and store reads, before the activation hold.  With no    *)
(* unfinished task the call returns nil and a nudge's text is dropped.      *)
ResumeLookup(p) ==
  /\ pc[p] = "lookup"
  /\ \/ Refuse(p)    \* a guard rejects, or a store read fails
     \/ /\ ~shuttingDown /\ present /\ ~archived /\ ~deleting
        /\ Unfinished = NoTask
        /\ Goto(p, After(p))
        /\ loc' = [loc EXCEPT ![p] = Left(p)]
        /\ Mark(loc[p].text, "swallowed")
        /\ UNCHANGED <<runVars, lifeVars, compactVars, orchVars, storeVars, wait,
                       told, userPause, stale>>
     \/ /\ ~shuttingDown /\ present /\ ~archived /\ ~deleting
        /\ Unfinished # NoTask
        /\ Goto(p, "resume")
        /\ loc' = [loc EXCEPT ![p].tid = Unfinished, ![p].goal = goal[Unfinished]]
        /\ UNCHANGED <<runVars, lifeVars, compactVars, orchVars, storeVars, wait,
                       ghostVars>>

(* Mutant: active is not re-checked after the store reads.                  *)
ResumeActivateUnchecked(p) ==
  /\ pc[p] = "resume"
  /\ \/ deleting /\ Refuse(p)
     \/ ~deleting /\ compacting /\ RefuseCompacting(p)
     \/ /\ ~deleting /\ ~compacting
        /\ \E q \in Runs : Activate(p, q, "resume", loc[p].tid)
        /\ UNCHANGED stale

ResumeActivate(p) ==
  /\ pc[p] = "resume"
  /\ \/ (active \/ deleting) /\ Refuse(p)
     \/ ~active /\ ~deleting /\ compacting /\ RefuseCompacting(p)
     \/ /\ ~active /\ ~deleting /\ ~compacting
        /\ \E q \in Runs : Activate(p, q, "resume", loc[p].tid)
        /\ UNCHANGED stale

-----------------------------------------------------------------------------
(* A run, from the start of its goroutine to close(done).                   *)

(* Mutant: the row keeps the status of the interrupted run.                 *)
RunReactivateKeepsRow(r) ==
  /\ pc[r] = "reactivate"
  /\ Goto(r, "enterResume")
  /\ UNCHANGED <<runVars, lifeVars, compactVars, orchVars, storeVars, loc, wait,
                 ghostVars>>

(* ResumeTask flips the row before it starts the goroutine.                 *)
RunReactivate(r) ==
  /\ pc[r] = "reactivate"
  /\ row' = Put(row, loc[r].tid, "in_progress")
  /\ Goto(r, "enterResume")
  /\ UNCHANGED <<runVars, lifeVars, compactVars, orchVars, goal, lastTask, loc,
                 wait, ghostVars>>

(* A goal request supersedes the interrupted task ...                       *)
RunTakeover(r) ==
  /\ pc[r] = "start" /\ loc[r].goal
  /\ row' = Put(row, Unfinished, "cancelled")
  /\ armed' = (armed /\ ~present)
  /\ Goto(r, "enter")
  /\ UNCHANGED <<runVars, lifeVars, compactVars, inFlight, pause, queue, goal,
                 lastTask, loc, wait, ghostVars>>

(* ... a plain message continues it, unless it cannot be restored.          *)
RunContinue(r) ==
  /\ pc[r] = "start" /\ ~loc[r].goal
  /\ \/ /\ Goto(r, "enter")
        /\ UNCHANGED loc
     \/ /\ Unfinished # NoTask
        /\ Goto(r, "enterResume")
        /\ loc' = [loc EXCEPT ![r].tid = Unfinished, ![r].goal = goal[Unfinished],
                              ![r].via = "cont"]
  /\ UNCHANGED <<runVars, lifeVars, compactVars, orchVars, storeVars, wait, ghostVars>>

Anchor(r) == IF pc[r] = "enter" THEN lastTask ELSE NoTask

(* HandleMessage past its commit point: a fresh row, or the anchor's row    *)
(* reactivated; the pause signal is installed.                              *)
HandleCommit(r) ==
  /\ pc[r] \in {"enter", "enterFresh"}
  /\ ~inFlight
  /\ inFlight' = TRUE
  /\ pause' = "clear"
  /\ LET t == IF Anchor(r) = NoTask THEN NextRow ELSE Anchor(r)
     IN  /\ row' = Put(row, t, "in_progress")
         /\ goal' = IF loc[r].goal THEN Put(goal, t, TRUE) ELSE goal
         /\ loc' = [loc EXCEPT ![r].tid = t, ![r].anchor = Anchor(r),
                               ![r].flag = (Anchor(r) # NoTask /\ Unfinished = Anchor(r)),
                               ![r].text = {}]
  /\ Mark(loc[r].text, "delivered")
  /\ Goto(r, "exec")
  /\ UNCHANGED <<runVars, lifeVars, compactVars, queue, armed, lastTask, wait,
                 told, userPause, stale>>

(* HandleMessage fails before it: another request is in flight, the anchor's *)
(* blackboard cannot be restored or routed, or the MCP authorization state  *)
(* is unavailable, which leaves a fresh task's row behind.                  *)
HandleFail(r) ==
  /\ pc[r] \in {"enter", "enterFresh"}
  /\ \E out \in Failures :
       LET fresh == Anchor(r) = NoTask /\ ~inFlight
           t == IF fresh THEN NextRow ELSE Anchor(r)
       IN  /\ inFlight => out = "error"
           /\ fresh => out = "unauthorized"
           /\ row' = IF fresh THEN Put(row, t, "in_progress") ELSE row
           /\ loc' = [loc EXCEPT ![r].tid = t, ![r].anchor = Anchor(r),
                                 ![r].flag = (Anchor(r) # NoTask /\ Unfinished = Anchor(r)),
                                 ![r].res = out, ![r].stopped = loc[r].ctx]
  /\ pause' = IF inFlight THEN pause ELSE "none"
  /\ Goto(r, "judge")
  /\ UNCHANGED <<runVars, lifeVars, compactVars, inFlight, queue, armed, goal, lastTask,
                 wait, ghostVars>>

(* Orchestrator.Resume: no single-flight guard; consumes the armed request. *)
ResumeEnter(r) ==
  /\ pc[r] = "enterResume"
  /\ pause' = "clear"
  /\ armed' = FALSE
  /\ loc' = [loc EXCEPT ![r].text = {}]
  /\ Mark(loc[r].text, "delivered")
  /\ Goto(r, "exec")
  /\ UNCHANGED <<runVars, lifeVars, compactVars, inFlight, queue, storeVars, wait,
                 told, userPause, stale>>

(* Resume fails while it prepares (prepareTaskMCP), the row untouched.      *)
ResumeFail(r) ==
  /\ pc[r] = "enterResume"
  /\ loc' = [loc EXCEPT ![r].res = "error", ![r].stopped = loc[r].ctx]
  /\ Goto(r, "judge")
  /\ UNCHANGED <<runVars, lifeVars, compactVars, orchVars, storeVars, wait, ghostVars>>

(* A step boundary delivers a queued live message.                          *)
Deliver(r) ==
  /\ pc[r] = "exec"
  /\ \E m \in queue : queue' = queue \ {m} /\ Mark({m}, "delivered")
  /\ UNCHANGED <<runVars, lifeVars, compactVars, inFlight, pause, armed, storeVars,
                 procVars, told, userPause, stale>>

(* Mutant: a cancelled request keeps the guard.                             *)
StillInFlightCancelled(r) == inFlight /\ (loc[r].via # "msg" \/ loc[r].ctx)

(* HandleMessage gives up its single-flight guard whatever it returns.      *)
StillInFlight(r) == inFlight /\ loc[r].via # "msg"

(* The engine returns and the outcome is persisted.  It reports a pause     *)
(* only when the signal is raised or a goal is blocked; a goal loop answers *)
(* a cancelled context with a partial result, not with an error.            *)
EngineReturn(r) ==
  /\ pc[r] = "exec"
  /\ \E out \in {"success", "partial", "failed", "paused", "error"} :
       /\ out = "paused" => pause = "set" \/ loc[r].goal
       /\ row' = CASE out = "success" -> Put(row, loc[r].tid, "completed")
                   [] out = "paused" -> Put(row, loc[r].tid, "paused")
                   [] out = "partial" -> row
                   [] OTHER -> Put(row, loc[r].tid, "failed")
       /\ goal' = IF out = "success" THEN Put(goal, loc[r].tid, FALSE) ELSE goal
       /\ loc' = [loc EXCEPT ![r].res = out, ![r].stopped = loc[r].ctx]
  /\ inFlight' = StillInFlight(r)
  /\ pause' = "none"
  /\ Goto(r, "judge")
  /\ UNCHANGED <<runVars, lifeVars, compactVars, queue, armed, lastTask, wait, ghostVars>>

(* The epilogue's decision, in the order of the code.                       *)
RetriesFresh(r) ==
  /\ loc[r].via = "msg" /\ loc[r].res = "error" /\ loc[r].anchor # NoTask
  /\ loc[r].flag \/ Unfinished # loc[r].anchor

(* tryContinueInterruptedTask looks at the context only after an error.     *)
Cancelled(r) == loc[r].ctx /\ (loc[r].res \in Failures \/ loc[r].via # "cont")

JudgeRetry(r) ==
  /\ pc[r] = "judge" /\ RetriesFresh(r)
  /\ lastTask' = NoTask
  /\ Goto(r, "enterFresh")
  /\ UNCHANGED <<runVars, lifeVars, compactVars, orchVars, row, goal, loc, wait, ghostVars>>

AnchorAfter(r) ==
  IF loc[r].via = "msg" /\ loc[r].res \notin Failures THEN loc[r].tid ELSE lastTask

(* Mutant: the claim is not consulted.                                      *)
ClaimIgnored == FALSE

(* The run's terminal event is claimed already; a session that is gone from *)
(* the manager has no claim to consult.                                     *)
Claimed == present /\ terminalEmitted

(* Mutant: shutdown is not told from a user's cancellation.                 *)
ReportsAlways == TRUE

(* A cancellation found during shutdown leaves the task resumable.          *)
ReportsCancellation == ~shuttingDown

(* emitTaskCancelledUnlessShuttingDown: the terminal event is claimed once. *)
JudgeCancelled(r) ==
  /\ pc[r] = "judge" /\ ~RetriesFresh(r) /\ Cancelled(r)
  /\ lastTask' = AnchorAfter(r)
  /\ \/ /\ ~ReportsCancellation
        /\ Goto(r, "keep")
        /\ loc' = [loc EXCEPT ![r].res = "aborted"]
        /\ UNCHANGED <<terminalEmitted, told>>
     \/ /\ ReportsCancellation
        /\ Goto(r, "settle")
        /\ terminalEmitted' = (terminalEmitted \/ present)
        /\ told' = IF Claimed THEN told ELSE Tell(r, "cancelled")
        /\ UNCHANGED loc
  /\ UNCHANGED <<active, pausing, pauseOwner, forceTerminated, current, lifeVars,
                 compactVars, orchVars, row, goal, wait, fate, userPause, stale>>

JudgeError(r) ==
  /\ pc[r] = "judge" /\ ~RetriesFresh(r) /\ ~Cancelled(r) /\ loc[r].res \in Failures
  /\ told' = Tell(r, "error")
  /\ Mark(loc[r].text, "refused")
  /\ loc' = [loc EXCEPT ![r].text = {}]
  /\ Goto(r, "keep")
  /\ UNCHANGED <<runVars, lifeVars, compactVars, orchVars, storeVars, wait,
                 userPause, stale>>

JudgeDone(r) ==
  /\ pc[r] = "judge" /\ ~Cancelled(r) /\ loc[r].res \notin Failures
  /\ lastTask' = IF loc[r].res = "paused" THEN AnchorAfter(r) ELSE loc[r].tid
  /\ Goto(r, IF loc[r].res = "paused" THEN "keep" ELSE "release")
  /\ UNCHANGED <<runVars, lifeVars, compactVars, orchVars, row, goal, loc, wait, ghostVars>>

(* Mutant: the anchor's row is settled.                                     *)
SettledTaskAnchor(r) == lastTask

(* The message path looks its row up, the two resume paths hold it.         *)
SettledTask(r) == IF loc[r].via = "msg" THEN Unfinished ELSE loc[r].tid

(* A user stop persists: goal state first, then the row.                    *)
RunSettle(r) ==
  /\ pc[r] = "settle"
  /\ goal' = Put(goal, Unfinished, FALSE)
  /\ row' = Put(row, SettledTask(r), "cancelled")
  /\ Mark(loc[r].text, "discarded")
  /\ loc' = [loc EXCEPT ![r].text = {}]
  /\ Goto(r, "drop")
  /\ UNCHANGED <<runVars, lifeVars, compactVars, orchVars, lastTask, wait, told,
                 userPause, stale>>

(* Mutant: the pausing window stays open.                                   *)
DeactivatePausing(r) ==
  /\ active' = FALSE
  /\ current' = None
  /\ forceTerminated' = FALSE
  /\ UNCHANGED <<pausing, pauseOwner, terminalEmitted, lifeVars, compactVars, inFlight,
                 pause, armed, storeVars, wait, userPause, stale>>

(* deactivateSessionTask, with its three live-queue actions.                *)
Deactivate(r) ==
  /\ active' = FALSE
  /\ current' = None
  /\ pausing' = FALSE
  /\ forceTerminated' = FALSE
  /\ UNCHANGED <<pauseOwner, terminalEmitted, lifeVars, compactVars, inFlight, pause,
                 armed, storeVars, wait, userPause, stale>>

(* liveActionNone: the next entry point drains the queue.  session_paused   *)
(* follows the deactivation of a paused run.                                *)
ReleaseKeep(r) ==
  /\ pc[r] = "keep"
  /\ Deactivate(r)
  /\ Mark(loc[r].text, "discarded")
  /\ loc' = [loc EXCEPT ![r].text = {}]
  /\ told' = IF loc[r].res = "paused" THEN Tell(r, "paused")
             ELSE told
  /\ Goto(r, "exit")
  /\ UNCHANGED queue

(* Mutant: a forced termination discards like any cancellation.             *)
KeptOnDropNothing == {}

(* A force-terminated run leaves the queue to the next task.                *)
KeptOnDrop == IF forceTerminated THEN queue ELSE {}

(* liveActionDiscard.                                                       *)
ReleaseDrop(r) ==
  /\ pc[r] = "drop"
  /\ Deactivate(r)
  /\ queue' = KeptOnDrop
  /\ Mark(queue \ queue', "discarded")
  /\ Goto(r, "exit")
  /\ UNCHANGED <<loc, told>>

(* Mutant: the leftovers are read, not taken.                               *)
ReleaseFollowUpPeek(r) ==
  /\ pc[r] = "release"
  /\ Deactivate(r)
  /\ loc' = [loc EXCEPT ![r].text = queue, ![r].goal = FALSE]
  /\ Goto(r, "complete")
  /\ UNCHANGED <<queue, fate, told>>

(* Mutant: one leftover makes the follow-up, the others stay.               *)
ReleaseFollowUpOne(r) ==
  /\ pc[r] = "release"
  /\ Deactivate(r)
  /\ \E ms \in SUBSET queue :
       /\ Cardinality(ms) = (IF queue = {} THEN 0 ELSE 1)
       /\ queue' = queue \ ms
       /\ loc' = [loc EXCEPT ![r].text = ms, ![r].goal = FALSE]
  /\ Goto(r, "complete")
  /\ UNCHANGED <<fate, told>>

(* liveActionFollowUp: the leftovers become the text of a follow-up.        *)
ReleaseFollowUp(r) ==
  /\ pc[r] = "release"
  /\ Deactivate(r)
  /\ queue' = {}
  /\ loc' = [loc EXCEPT ![r].text = queue, ![r].goal = FALSE]
  /\ Goto(r, "complete")
  /\ UNCHANGED <<fate, told>>

(* emitTaskComplete, which after a success sweeps the other unfinished rows *)
(* (newest first, up to the completed one), then finishLiveLeftover.        *)
Swept(t, done) ==
  /\ row[t] \in UnfinishedStatuses /\ t # done
  /\ done \in Tasks /\ row[done] \in UnfinishedStatuses => t > done

RunComplete(r) ==
  /\ pc[r] = "complete"
  /\ told' = Tell(r, "complete")
  /\ row' = IF loc[r].res = "success"
              THEN [t \in Tasks |-> IF Swept(t, loc[r].tid) THEN "cancelled" ELSE row[t]]
              ELSE row
  /\ Goto(r, IF loc[r].text = {} THEN "exit" ELSE "gate")
  /\ UNCHANGED <<runVars, lifeVars, compactVars, orchVars, goal, lastTask, loc, wait,
                 fate, userPause, stale>>

(* close(done) releases every goroutine waiting for this run.               *)
RunExit(r) ==
  /\ pc[r] = "exit"
  /\ wait' = [p \in Calls \cup Flows |-> IF wait[p] = r THEN None ELSE wait[p]]
  /\ Goto(r, "idle")
  /\ loc' = [loc EXCEPT ![r] = Blank]
  /\ told' = [told EXCEPT ![r] = <<>>]
  /\ UNCHANGED <<runVars, lifeVars, compactVars, orchVars, storeVars, fate,
                 userPause, stale>>

-----------------------------------------------------------------------------
(* CancelTask: the user's Stop.                                             *)

Over(c) == Goto(c, "done") /\ loc' = [loc EXCEPT ![c] = Blank]

CancelContext(p) == [loc EXCEPT ![p].ctx = TRUE]

StopCall(c) ==
  /\ pc[c] = "idle" /\ "stop" \in Ops
  /\ \/ ~present /\ Over(c) /\ UNCHANGED wait
     \/ present /\ ~active /\ Goto(c, "discard") /\ UNCHANGED <<loc, wait>>
     \/ /\ present /\ active
        /\ loc' = IF current = None THEN loc ELSE CancelContext(current)
        /\ wait' = [wait EXCEPT ![c] = current]
        /\ Goto(c, "waiting")
  /\ UNCHANGED <<runVars, lifeVars, compactVars, orchVars, storeVars, ghostVars>>

(* cancelUnfinishedTask, or the CancelUnfinishedTask of an archival: the    *)
(* armed resume request dies with the task.                                 *)
DiscardUnfinished ==
  /\ armed' = (armed /\ ~present)
  /\ row' = Put(row, Unfinished, "cancelled")

StopDiscard(c) ==
  /\ pc[c] = "discard"
  /\ DiscardUnfinished
  /\ Over(c)
  /\ UNCHANGED <<runVars, lifeVars, compactVars, inFlight, pause, queue, goal,
                 lastTask, wait, ghostVars>>

StopReturn(c) ==
  /\ pc[c] = "waiting" /\ wait[c] = None
  /\ Over(c)
  /\ UNCHANGED <<runVars, lifeVars, compactVars, orchVars, storeVars, wait, ghostVars>>

(* stopTimeout expires, and done is not closed when it is looked at again.  *)
StopTimeout(c) ==
  /\ pc[c] = "waiting" /\ wait[c] # None
  /\ Goto(c, "expired")
  /\ UNCHANGED <<runVars, lifeVars, compactVars, orchVars, storeVars, loc, wait, ghostVars>>

(* Mutant: a Stop that finds nothing left to force does not return.         *)
StopClaimStuck(c) ==
  /\ pc[c] = "expired"
  /\ ~shuttingDown /\ ~Claimed
  /\ Goto(c, "force")
  /\ terminalEmitted' = (terminalEmitted \/ present)
  /\ forceTerminated' = (forceTerminated \/ present)
  /\ UNCHANGED <<active, pausing, pauseOwner, current, lifeVars, compactVars,
                 orchVars, storeVars, loc, wait, ghostVars>>

(* forceTerminateStuckTask claims the terminal event of the run which has   *)
(* the session by now, and leaves it active.                                *)
StopClaim(c) ==
  /\ pc[c] = "expired"
  /\ \/ /\ shuttingDown \/ Claimed
        /\ Over(c)
        /\ wait' = [wait EXCEPT ![c] = None]
        /\ UNCHANGED <<terminalEmitted, forceTerminated>>
     \/ /\ ~shuttingDown /\ ~Claimed
        /\ Goto(c, "force")
        /\ terminalEmitted' = (terminalEmitted \/ present)
        /\ forceTerminated' = (forceTerminated \/ present)
        /\ wait' = [wait EXCEPT ![c] = IF current = None THEN @ ELSE current]
        /\ UNCHANGED loc
  /\ UNCHANGED <<active, pausing, pauseOwner, current, lifeVars, compactVars,
                 orchVars, storeVars, ghostVars>>

(* It settles the row, then emits the event of the run it claimed.           *)
StopForce(c) ==
  /\ pc[c] = "force"
  /\ goal' = Put(goal, Unfinished, FALSE)
  /\ DiscardUnfinished
  /\ Over(c)
  /\ wait' = [wait EXCEPT ![c] = None]
  /\ told' = IF wait[c] = None THEN told ELSE Tell(wait[c], "cancelled")
  /\ UNCHANGED <<runVars, lifeVars, compactVars, inFlight, pause, queue, lastTask,
                 fate, userPause, stale>>

-----------------------------------------------------------------------------
(* PauseSession: the flag under the lock, the signal after it.              *)

PauseCall(c) ==
  /\ pc[c] = "idle" /\ "pause" \in Ops /\ present
  /\ pauseOwner' = "user"
  /\ pausing' = (pausing \/ active)
  /\ userPause' = IF active \/ compacting THEN "standing" ELSE userPause
  /\ Goto(c, "signal")
  /\ UNCHANGED <<active, terminalEmitted, forceTerminated, current, lifeVars,
                 compactVars, orchVars, storeVars, loc, wait, fate, told, stale>>

RaisePause ==
  /\ pause' = IF pause = "none" THEN "none" ELSE "set"
  /\ UNCHANGED <<runVars, lifeVars, compactVars, inFlight, queue, armed, storeVars,
                 loc, wait, ghostVars>>

PauseSignal(c) == pc[c] = "signal" /\ Goto(c, "done") /\ RaisePause

-----------------------------------------------------------------------------
(* CompactSessionContext and the flow goroutine it starts.                  *)

(* Mutant: arming a pause takes it from the user.                           *)
OwnerTaken == IF active THEN "compaction" ELSE pauseOwner

(* Arming a pause leaves a pause the user already owns to the user.         *)
OwnerArmed == IF active /\ pauseOwner # "user" THEN "compaction" ELSE pauseOwner

CompactCall(c) ==
  /\ pc[c] = "idle" /\ "compact" \in Ops
  /\ present /\ ~archived /\ ~compacting
  /\ \E f \in Flows :
       /\ pc[f] = "idle"
       /\ compacting' = TRUE
       /\ compactFlow' = f
       /\ pc' = [pc EXCEPT ![c] = "done", ![f] = IF active THEN "csignal" ELSE "swap"]
       /\ loc' = [loc EXCEPT ![f] = [Blank EXCEPT !.flag = active]]
       /\ wait' = [wait EXCEPT ![f] = IF active THEN current ELSE None]
  /\ pausing' = (pausing \/ active)
  /\ pauseOwner' = OwnerArmed
  /\ UNCHANGED <<active, terminalEmitted, forceTerminated, current, lifeVars,
                 orchVars, storeVars, ghostVars>>

FlowSignal(f) == pc[f] = "csignal" /\ Goto(f, "cwait") /\ RaisePause

(* Mutant: a cancelled flow returns early.                                  *)
FlowAwaitEarly(f) ==
  /\ pc[f] = "cwait" /\ wait[f] = None
  /\ Goto(f, IF loc[f].ctx THEN "idle" ELSE "swap")
  /\ UNCHANGED <<runVars, lifeVars, compactVars, orchVars, storeVars, loc, wait,
                 ghostVars>>

(* Phase 2: a cancelled flow still waits for the run, then skips the swap.  *)
FlowAwait(f) ==
  /\ pc[f] = "cwait" /\ wait[f] = None
  /\ \/ ~loc[f].ctx /\ Goto(f, "swap") /\ UNCHANGED loc
     \/ /\ loc[f].ctx
        /\ Goto(f, "cdefer")
        /\ loc' = [loc EXCEPT ![f].res = "aborted"]
  /\ UNCHANGED <<runVars, lifeVars, compactVars, orchVars, storeVars, wait, ghostVars>>

(* Phase 3: the history is compacted, or there was nothing to compact.      *)
FlowSwap(f) ==
  /\ pc[f] = "swap"
  /\ \E out \in {"success", "nothing", "error"} \cup IF loc[f].ctx THEN {"aborted"} ELSE {} :
       loc' = [loc EXCEPT ![f].res = out]
  /\ Goto(f, "cdefer")
  /\ UNCHANGED <<runVars, lifeVars, compactVars, orchVars, storeVars, wait, ghostVars>>

(* Phase 3.5: the no-op defers the compaction to the resume.                *)
FlowDefer(f) ==
  /\ pc[f] = "cdefer"
  /\ armed' = (armed \/ (loc[f].res = "nothing" /\ ~shuttingDown /\ HasPausedUnfinished))
  /\ Goto(f, "cclear")
  /\ UNCHANGED <<runVars, lifeVars, compactVars, inFlight, pause, queue, storeVars,
                 loc, wait, ghostVars>>

FlowClear(f) ==
  /\ pc[f] = "cclear"
  /\ compacting' = FALSE
  /\ compactFlow' = None
  /\ Goto(f, "cowner")
  /\ UNCHANGED <<runVars, lifeVars, orchVars, storeVars, loc, wait, ghostVars>>

(* Phase 5: only a pause this flow still owns is resumed.  The hold which    *)
(* consumes the owner and the look at the row after it are one step.        *)
FlowOwner(f) ==
  /\ pc[f] = "cowner"
  /\ pauseOwner' = "none"
  /\ \/ /\ loc[f].flag /\ pauseOwner = "compaction" /\ ~deleting /\ ~shuttingDown
        /\ HasPausedUnfinished
        /\ Goto(f, "lookup")
        /\ UNCHANGED loc
     \/ /\ ~(/\ loc[f].flag /\ pauseOwner = "compaction" /\ ~deleting /\ ~shuttingDown
             /\ HasPausedUnfinished)
        /\ Goto(f, "idle")
        /\ loc' = [loc EXCEPT ![f] = Blank]
  /\ userPause' = IF userPause = "standing" THEN "consumed" ELSE userPause
  /\ UNCHANGED <<active, pausing, terminalEmitted, forceTerminated, current, lifeVars,
                 compactVars, orchVars, storeVars, wait, fate, told, stale>>

CancelFlow(l) ==
  IF compactFlow = None THEN l ELSE [l EXCEPT ![compactFlow].ctx = TRUE]

CancelCompactCall(c) ==
  /\ pc[c] = "idle" /\ "cancelCompact" \in Ops /\ present /\ compactFlow # None
  /\ loc' = CancelFlow(loc)
  /\ Goto(c, "done")
  /\ UNCHANGED <<runVars, lifeVars, compactVars, orchVars, storeVars, wait, ghostVars>>

-----------------------------------------------------------------------------
(* ArchiveSession, DeleteSession and Shutdown stop the run and wait for it, *)
(* but no longer than stopTimeout.                                          *)

CancelRun(l) ==
  IF active /\ current # None THEN [l EXCEPT ![current].ctx = TRUE] ELSE l

(* The toggle's target is captured first; archiving settles the task.       *)
ArchiveCall(c) ==
  /\ pc[c] = "idle" /\ "archive" \in Ops /\ present
  /\ loc' = [(IF archived THEN loc ELSE CancelRun(loc)) EXCEPT ![c].flag = ~archived]
  /\ Goto(c, IF archived THEN "setArchived" ELSE "settleStop")
  /\ UNCHANGED <<runVars, lifeVars, compactVars, orchVars, storeVars, wait, ghostVars>>

ArchiveDiscard(c) ==
  /\ pc[c] = "settleStop"
  /\ DiscardUnfinished
  /\ Goto(c, "setArchived")
  /\ UNCHANGED <<runVars, lifeVars, compactVars, inFlight, pause, queue, goal,
                 lastTask, loc, wait, ghostVars>>

ArchiveSet(c) ==
  /\ pc[c] = "setArchived"
  /\ archived' = loc[c].flag
  /\ Over(c)
  /\ UNCHANGED <<runVars, deleting, present, shuttingDown, compactVars, orchVars,
                 storeVars, wait, ghostVars>>

DeleteCall(c) ==
  /\ pc[c] = "idle" /\ "delete" \in Ops /\ present
  /\ deleting' = TRUE
  /\ loc' = CancelFlow(CancelRun(loc))
  /\ Goto(c, "remove")
  /\ UNCHANGED <<runVars, archived, present, shuttingDown, compactVars, orchVars,
                 storeVars, wait, ghostVars>>

DeleteRemove(c) ==
  /\ pc[c] = "remove"
  /\ present' = FALSE
  /\ Goto(c, "done")
  /\ UNCHANGED <<runVars, archived, deleting, shuttingDown, compactVars, orchVars,
                 storeVars, loc, wait, ghostVars>>

ShutdownCall(c) ==
  /\ pc[c] = "idle" /\ "shutdown" \in Ops /\ ~shuttingDown
  /\ shuttingDown' = TRUE
  /\ Goto(c, "collect")
  /\ UNCHANGED <<runVars, archived, deleting, present, compactVars, orchVars,
                 storeVars, loc, wait, ghostVars>>

ShutdownCollect(c) ==
  /\ pc[c] = "collect"
  /\ loc' = IF present
              THEN [CancelFlow(CancelRun(loc)) EXCEPT
                      ![c].flag = (active /\ current # None)]
              ELSE loc
  /\ present' = FALSE
  /\ Goto(c, "checkpoint")
  /\ UNCHANGED <<runVars, archived, deleting, shuttingDown, compactVars, orchVars,
                 storeVars, wait, ghostVars>>

(* persistPauseIfUnfinished: only an in_progress row is paused.             *)
ShutdownCheckpoint(c) ==
  /\ pc[c] = "checkpoint"
  /\ row' = IF loc[c].flag /\ Unfinished # NoTask /\ row[Unfinished] = "in_progress"
              THEN Put(row, Unfinished, "paused") ELSE row
  /\ Over(c)
  /\ UNCHANGED <<runVars, lifeVars, compactVars, orchVars, goal, lastTask, wait, ghostVars>>

-----------------------------------------------------------------------------
(* The session is fresh, or was restored from the store with the newest     *)
(* task as its anchor, whatever that task's status.                         *)
Init ==
  /\ active = FALSE /\ pausing = FALSE /\ pauseOwner = "none"
  /\ terminalEmitted = FALSE /\ forceTerminated = FALSE /\ current = None
  /\ compacting = FALSE /\ compactFlow = None
  /\ archived = FALSE /\ deleting = FALSE /\ present = TRUE /\ shuttingDown = FALSE
  /\ inFlight = FALSE /\ pause = "none" /\ queue = {} /\ armed = FALSE
  /\ \/ row = [t \in Tasks |-> "none"] /\ lastTask = NoTask
     \/ \E s \in Statuses \ {"none"} :
          /\ 1 \in Tasks
          /\ row = [t \in Tasks |-> IF t = 1 THEN s ELSE "none"]
          /\ lastTask = 1
  /\ goal \in [Tasks -> BOOLEAN]
  /\ \A t \in Tasks : goal[t] => row[t] \in UnfinishedStatuses
  /\ pc = [p \in Procs |-> "idle"]
  /\ loc = [p \in Procs |-> Blank]
  /\ wait = [p \in Calls \cup Flows |-> None]
  /\ fate = [m \in Msgs |-> "unsent"]
  /\ told = [r \in Runs |-> <<>>]
  /\ userPause = "none" /\ stale = FALSE

LaunchStep(p) ==
  \/ SendGate(p) \/ SendRoute(p) \/ SendActivate(p)
  \/ ResumeLookup(p) \/ ResumeActivate(p)

Begin(c) ==
  \/ \E m \in Msgs, g \in BOOLEAN : SendCall(c, m, g)
  \/ ResumeCall(c) \/ StopCall(c) \/ PauseCall(c) \/ CompactCall(c)
  \/ CancelCompactCall(c) \/ ArchiveCall(c) \/ DeleteCall(c) \/ ShutdownCall(c)

CallStep(c) ==
  \/ LaunchStep(c)
  \/ StopDiscard(c) \/ StopReturn(c) \/ StopTimeout(c) \/ StopClaim(c)
  \/ StopForce(c)
  \/ PauseSignal(c)
  \/ ArchiveDiscard(c) \/ ArchiveSet(c) \/ DeleteRemove(c)
  \/ ShutdownCollect(c) \/ ShutdownCheckpoint(c)

RunStep(r) ==
  \/ RunReactivate(r) \/ RunTakeover(r) \/ RunContinue(r)
  \/ HandleCommit(r) \/ HandleFail(r) \/ ResumeEnter(r) \/ ResumeFail(r)
  \/ Deliver(r)
  \/ JudgeRetry(r) \/ JudgeCancelled(r) \/ JudgeError(r) \/ JudgeDone(r)
  \/ RunSettle(r)
  \/ ReleaseKeep(r) \/ ReleaseDrop(r) \/ ReleaseFollowUp(r)
  \/ RunComplete(r) \/ LaunchStep(r) \/ RunExit(r)

FlowStep(f) ==
  \/ FlowSignal(f) \/ FlowAwait(f) \/ FlowSwap(f) \/ FlowDefer(f)
  \/ FlowClear(f) \/ FlowOwner(f) \/ LaunchStep(f)

Next ==
  \/ \E c \in Calls : Begin(c) \/ CallStep(c)
  \/ \E r \in Runs : RunStep(r) \/ EngineReturn(r)
  \/ \E f \in Flows : FlowStep(f)

Spec == Init /\ [][Next]_vars

(* Go schedules every goroutine and stopTimeout expires; the engine itself  *)
(* need not come back.                                                      *)
Fairness ==
  /\ \A c \in Calls : WF_vars(CallStep(c))
  /\ \A r \in Runs : WF_vars(RunStep(r))
  /\ \A f \in Flows : WF_vars(FlowStep(f))

FairSpec == Spec /\ Fairness
=============================================================================
