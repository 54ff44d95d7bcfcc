-------------------------- MODULE SessionProperties --------------------------
(***************************************************************************)
(* What the life of a session must satisfy, over the model in SessionRun:  *)
(* the properties the code keeps, and at the end what its documentation    *)
(* says of it that an interleaving of its goroutines can break.            *)
(***************************************************************************)
EXTENDS SessionRun

(* Every variable has its type: the fields of Session, the task rows, and   *)
(* the goroutines' places, locals and history.                              *)
TypeOK ==
  /\ active \in BOOLEAN /\ pausing \in BOOLEAN
  /\ pauseOwner \in {"none", "user", "compaction"}
  /\ terminalEmitted \in BOOLEAN /\ forceTerminated \in BOOLEAN
  /\ current \in Runs \cup {None}
  /\ compacting \in BOOLEAN /\ compactFlow \in Flows \cup {None}
  /\ archived \in BOOLEAN /\ deleting \in BOOLEAN /\ present \in BOOLEAN
  /\ shuttingDown \in BOOLEAN /\ lastTask \in 0 .. MaxTask
  /\ inFlight \in BOOLEAN /\ pause \in {"none", "clear", "set"}
  /\ queue \in SUBSET Msgs /\ armed \in BOOLEAN
  /\ row \in [Tasks -> Statuses] /\ goal \in [Tasks -> BOOLEAN]
  /\ pc \in [Procs -> Labels]
  /\ loc \in [Procs -> Locals]
  /\ wait \in [Calls \cup Flows -> Runs \cup {None}]
  /\ fate \in [Msgs -> Fates] /\ told \in [Runs -> Seq(Ends)]
  /\ userPause \in {"none", "standing", "consumed"} /\ stale \in BOOLEAN

-----------------------------------------------------------------------------
(* Where a run holds the session: from its activation to its                *)
(* deactivateSessionTask.                                                   *)
HoldAt == {"start", "reactivate", "enter", "enterFresh", "enterResume", "exec",
           "judge", "settle", "keep", "drop", "release"}
Holds(r) == pc[r] \in HoldAt

(* The session runs one task at a time: at most the run session.done        *)
(* belongs to holds it, exactly while session.active says so - as long as   *)
(* no sendMessage activated on conditions its second hold does not re-check. *)
OneTask ==
  ~stale => /\ active <=> current # None
            /\ \A r \in Runs : Holds(r) <=> r = current

(* The orchestrator's single-flight guard (ErrRequestInFlight) never fires:  *)
(* the session layer serializes the requests.                               *)
NeverInFlight ==
  ~stale => \A r \in Runs : pc[r] \in {"enter", "enterFresh"} => ~inFlight

(* A manual compaction swaps the history only while no run holds the        *)
(* session: the flow waited for the running one, and both launch paths      *)
(* re-check compacting under the activation's hold.                         *)
CompactionExclusive ==
  ~stale => \A f \in Flows : pc[f] = "swap" => \A r \in Runs : ~Holds(r)

(* The fates of a message that is on its way.                               *)
Moving == {"pending", "late", "held"}

(* A message on its way is in exactly one place, the live queue or one      *)
(* goroutine's hands, and a settled one in none: sending, delivering,       *)
(* draining into a follow-up and re-queueing lose and duplicate nothing.    *)
MessageHome ==
  \A m \in Msgs :
    LET carriers == {p \in Procs : m \in loc[p].text}
    IN  IF fate[m] \in Moving
          THEN IF m \in queue THEN carriers = {} ELSE Cardinality(carriers) = 1
          ELSE m \notin queue /\ carriers = {}

(* What the goroutines carry, and what the writer of each message has been   *)
(* told.                                                                    *)
Together == {loc[p].text : p \in Procs} \ {{}}
Reply == [m \in Msgs |-> IF fate[m] \in Moving THEN "open" ELSE fate[m]]
Messages == INSTANCE Inbox WITH Messages <- Msgs, hands <- Together, answer <- Reply

(* To its clients the session is the inbox of Inbox: a message is answered   *)
(* once and for good, and what a task leaves in the live queue becomes one  *)
(* follow-up, or is discarded, as a whole.                                  *)
AnswersOnce == Messages!Spec

(* One task_cancelled per run, whoever reports it: the settling goroutine   *)
(* or the Stop that gave up waiting for it.                                 *)
OneCancelled ==
  ~stale /\ present =>
    \A r \in Runs : Holds(r) =>
      Cardinality({i \in DOMAIN told[r] : told[r][i] = "cancelled"}) <= 1

(* A run the user stopped leaves nothing to resume: once it has settled its *)
(* row is closed.  The message path closes the newest unfinished row, which *)
(* it takes for the run's: only there may a newer row be closed instead.    *)
StopSettles ==
  ~stale => \A r \in Runs :
    pc[r] = "drop" /\ loc[r].tid \in Tasks =>
      \/ row[loc[r].tid] \notin UnfinishedStatuses
      \/ /\ loc[r].via = "msg"
         /\ \E t \in Tasks : t > loc[r].tid /\ row[t] = "cancelled"

(* A task that ResumeTask resumed or HandleMessage took is not paused in the *)
(* store, from its reactivation to the engine's return: no Stop, compaction, *)
(* sweep or other run undoes the flip of its row.  Not so the task that a    *)
(* plain message continues (via = "cont"), whose row is not reactivated (see *)
(* NoPausedGhost below), nor a row that Shutdown checkpoints meanwhile.      *)
ResumedNotPaused ==
  ~stale /\ ~shuttingDown =>
    \A r \in Runs :
      /\ pc[r] \in {"enterResume", "exec"}
      /\ loc[r].via # "cont" /\ loc[r].tid \in Tasks
      => row[loc[r].tid] # "paused"

(* Pause ownership: a flow's auto-resume takes no pause the user asked for,  *)
(* as long as no flow has consumed its owner.                               *)
AutoResumeKeepsUserPause ==
  [][\A f \in Flows : pc[f] = "cowner" /\ pc'[f] = "lookup" => userPause # "standing"]_vars

(* A message queued after a forced cancellation was reported belongs to the *)
(* next task: the dead run's epilogue does not discard it from the queue.   *)
LateSurvivesForce ==
  [][forceTerminated =>
       \A m \in queue : fate[m] = "late" => fate'[m] # "discarded"]_vars

(* Shutting down cancels no task: where no user call can end a task, its row *)
(* is cancelled only as an orphan, by the sweep after a success.             *)
ShutdownCancelsNothing ==
  [][\A t \in Tasks :
       /\ Ops \cap {"stop", "goal", "archive", "delete"} = {}
       /\ row[t] \in UnfinishedStatuses /\ row'[t] = "cancelled"
       => \E r \in Runs : pc[r] = "complete"]_vars

(* The engine comes back from every run: its steps are bounded and its calls *)
(* time out.  The properties that need it say so.                           *)
EngineReturns == \A r \in Runs : []<>(pc[r] # "exec")

(* A manual compaction ends, cancelled or not, whatever Stop and the sends   *)
(* do meanwhile: the session does not stay closed to sends and resumes.      *)
CompactionEnds == EngineReturns => (compacting ~> ~compacting)

(* The pausing window, in which live messages are refused, closes: the run   *)
(* the pause was raised for releases the session.                           *)
PauseEnds == EngineReturns => (pausing ~> ~pausing)

(* A Stop returns even when the engine never does: stopTimeout forces it.    *)
(* Each client calls at most once, so it is enough that no Stop is under way *)
(* in the end.                                                              *)
Stopping(c) == pc[c] \in {"waiting", "expired", "force"}
StopReturns == (\E c \in Calls : Stopping(c)) ~> (\A c \in Calls : ~Stopping(c))

-----------------------------------------------------------------------------
(* What the documentation says and the code does not keep.                  *)

(* "a session runs one task at a time" (specs/domains/session-lifecycle.md,  *)
(* the stale sweep): the second hold of sendMessage does not re-check active. *)
OneTaskAlways == Cardinality({r \in Runs : Holds(r)}) <= 1

(* Terminal events follow the deactivation: no message is accepted by a run  *)
(* already reported as cancelled and then thrown away with it.               *)
LateSurvives == [][\A m \in Msgs : fate[m] = "late" => fate'[m] # "discarded"]_vars

(* Every row the sweep after a success cancels is an orphan: never that of   *)
(* a task which is executing.                                               *)
SweepSparesRunning ==
  [][\A r, q \in Runs :
       /\ ~stale /\ pc[r] = "exec" /\ loc[r].tid \in Tasks
       /\ row[loc[r].tid] \in UnfinishedStatuses
       /\ pc[q] = "complete" /\ pc'[q] # "complete"
       => row'[loc[r].tid] # "cancelled"]_vars

(* Every cancellation path persists the task as cancelled: a run that has    *)
(* reported task_cancelled does not leave a completed row.                   *)
CancelPersisted ==
  ~stale => \A r \in Runs :
    pc[r] = "drop" /\ loc[r].tid \in Tasks => row[loc[r].tid] # "completed"

(* One terminal emission per run.                                           *)
OneEnd == \A r \in Runs : loc[r].stopped => Len(told[r]) <= 1

(* "A user-initiated pause is never stolen, whichever side paused first":    *)
(* no flow resumes a task the user has paused.                              *)
PauseNeverStolen ==
  [][\A f \in Flows : pc[f] = "cowner" /\ pc'[f] = "lookup" => userPause = "none"]_vars

(* "the store claims a paused task while it is actively running", the bug    *)
(* that ResumeTask's reactivation is there against.  Violated by the other   *)
(* way to go on with a task: a send that found nothing paused is launched    *)
(* after a resume of the row was paused, and tryContinueInterruptedTask does *)
(* not reactivate what it continues.                                        *)
NoPausedGhost ==
  ~stale /\ ~shuttingDown =>
    \A r \in Runs : pc[r] = "exec" /\ loc[r].tid \in Tasks => row[loc[r].tid] # "paused"

(* message_received is emitted after the resume commits: a nudge that is     *)
(* acknowledged has a run.                                                  *)
NudgeHasRun == \A m \in Msgs : fate[m] # "swallowed"
=============================================================================
