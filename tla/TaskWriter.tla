----------------------------- MODULE TaskWriter -----------------------------
(***************************************************************************)
(* The write-behind of one task (session/persistent_blackboard.go): writes  *)
(* to the blackboard go through a bounded channel to one worker goroutine   *)
(* and wait for the result within a timeout; the finalizers write at once   *)
(* on their caller and stop the worker, as does the manager's Shutdown.     *)
(*                                                                         *)
(* The runner is the goroutine of the task, the only one to reactivate,     *)
(* pause and finalize it; every writer (a step, a delegated unit) may store *)
(* facts.  A write to the store may fail.                                   *)
(***************************************************************************)
EXTENDS Integers, Sequences, FiniteSets

CONSTANTS
  Writers,
  Runner,     \* one of them
  Cap,        \* buffer of persistCh
  MaxFacts    \* facts stored (bound)

ASSUME WritersAssumption == Runner \in Writers /\ "shutdown" \notin Writers

VARIABLES
  facts,      \* the facts of the MapBlackboard; facts are numbered
  channel, open, taken, exited,
              \* persistCh, its not being nil, the worker's op, its return
  storedFacts, status,  \* the task's row
  doing,      \* where each writer and the manager's Shutdown are
  job,        \* the op of each writer
  answers,    \* results in the ops' done channels
  (* history *)
  ops,        \* ops sent by persistSafe so far
  ran,        \* ops the worker has run, in order
  announced,  \* facts whose change was notified
  storers,    \* writers that stored a fact
  final,      \* the status a finalizer wrote, if any
  gaveUp      \* a wait for a result timed out

blackboardVars == <<facts, job>>
workerVars == <<channel, open, taken, exited>>
rowVars == <<storedFacts, status>>
taskPastVars == <<ops, ran, announced, storers, final, gaveUp>>
taskVars == <<facts, job, channel, open, taken, exited, storedFacts, status, doing,
              answers, ops, ran, announced, storers, final, gaveUp>>

Terminal == {"completed", "failed", "cancelled"}
NoJob == [n |-> 0, what |-> "none", fact |-> 0, list |-> {}]
Put(w, place) == doing' = [doing EXCEPT ![w] = place]

TaskInit ==
  /\ facts = {} /\ job = [w \in Writers |-> NoJob]
  /\ channel = <<>> /\ open = TRUE /\ taken = NoJob /\ exited = FALSE
  /\ storedFacts = {} /\ status \in {"in_progress", "paused"}
  /\ doing = [w \in Writers \cup {"shutdown"} |-> "idle"]
  /\ answers = {} /\ ops = 0 /\ ran = <<>> /\ announced = {} /\ storers = {}
  /\ final = "none" /\ gaveUp = FALSE

-----------------------------------------------------------------------------
(* The writers                                                              *)

(* StoreFact: the fact is appended under the blackboard's lock, ...         *)
StoreFact(w) ==
  /\ doing[w] = "idle" /\ Cardinality(facts) < MaxFacts
  /\ LET fact == Cardinality(facts) + 1
     IN  /\ facts' = facts \cup {fact}
         /\ job' = [job EXCEPT ![w] = [NoJob EXCEPT !.what = "facts", !.fact = fact]]
  /\ storers' = storers \cup {w}
  /\ Put(w, "snapshot")
  /\ UNCHANGED <<workerVars, rowVars, answers, ops, ran, announced, final, gaveUp>>

(* Mutant: the list to write is read before the fact is appended.           *)
SnapshotOld(w) ==
  /\ doing[w] = "snapshot"
  /\ job' = [job EXCEPT ![w].list = facts \ {job[w].fact}]
  /\ Put(w, "send")
  /\ UNCHANGED <<facts, workerVars, rowVars, answers, taskPastVars>>

(* ... and the whole list is read under it again.                           *)
Snapshot(w) ==
  /\ doing[w] = "snapshot"
  /\ job' = [job EXCEPT ![w].list = facts]
  /\ Put(w, "send")
  /\ UNCHANGED <<facts, workerVars, rowVars, answers, taskPastVars>>

Reactivate ==
  /\ doing[Runner] = "idle" /\ status = "paused" /\ ops = 0
  /\ job' = [job EXCEPT ![Runner] = [NoJob EXCEPT !.what = "reactivate"]]
  /\ Put(Runner, "send")
  /\ UNCHANGED <<facts, workerVars, rowVars, answers, taskPastVars>>

(* Mutant: the send does not look whether the channel was closed.           *)
SendUnchecked(w) ==
  /\ doing[w] = "send" /\ Len(channel) < Cap
  /\ channel' = Append(channel, [job[w] EXCEPT !.n = ops + 1])
  /\ job' = [job EXCEPT ![w].n = ops + 1]
  /\ ops' = ops + 1
  /\ Put(w, "wait")
  /\ UNCHANGED <<facts, open, taken, exited, rowVars, answers, ran, announced, storers,
                 final, gaveUp>>

(* Mutant: the op is sent and the caller goes on without its result.        *)
SendForget(w) ==
  /\ doing[w] = "send"
  /\ \/ /\ open /\ Len(channel) < Cap
        /\ channel' = Append(channel, [job[w] EXCEPT !.n = ops + 1])
        /\ ops' = ops + 1
     \/ ~open /\ UNCHANGED <<channel, ops>>
  /\ job' = [job EXCEPT ![w] = NoJob]
  /\ Put(w, "idle")
  /\ UNCHANGED <<facts, open, taken, exited, rowVars, answers, ran, announced, storers,
                 final, gaveUp>>

(* persistSafe: one try under persistMu.  A full channel is tried again,     *)
(* until the timeout.                                                       *)
Send(w) ==
  /\ doing[w] = "send"
  /\ \/ /\ open /\ Len(channel) < Cap
        /\ channel' = Append(channel, [job[w] EXCEPT !.n = ops + 1])
        /\ job' = [job EXCEPT ![w].n = ops + 1]
        /\ ops' = ops + 1
        /\ Put(w, "wait")
     \/ /\ ~open
        /\ job' = [job EXCEPT ![w] = NoJob]
        /\ Put(w, "idle")
        /\ UNCHANGED <<channel, ops>>
  /\ UNCHANGED <<facts, open, taken, exited, rowVars, answers, ran, announced, storers,
                 final, gaveUp>>

SendTimeout(w) ==
  /\ doing[w] = "send" /\ open /\ Len(channel) >= Cap
  /\ job' = [job EXCEPT ![w] = NoJob]
  /\ Put(w, "idle")
  /\ UNCHANGED <<facts, workerVars, rowVars, answers, taskPastVars>>

(* waitPersistenceResult.  Only a write that landed is announced.           *)
Answered(w) ==
  /\ doing[w] = "wait"
  /\ \E a \in answers :
       /\ a.n = job[w].n
       /\ announced' = IF a.ok /\ job[w].what = "facts"
                         THEN announced \cup {job[w].fact} ELSE announced
       /\ answers' = answers \ {a}
  /\ job' = [job EXCEPT ![w] = NoJob]
  /\ Put(w, "idle")
  /\ UNCHANGED <<facts, workerVars, rowVars, ops, ran, storers, final, gaveUp>>

WaitTimeout(w) ==
  /\ doing[w] = "wait"
  /\ gaveUp' = TRUE
  /\ job' = [job EXCEPT ![w] = NoJob]
  /\ Put(w, "idle")
  /\ UNCHANGED <<facts, workerVars, rowVars, answers, ops, ran, announced, storers, final>>

-----------------------------------------------------------------------------
(* The worker                                                               *)

WorkerTake ==
  /\ taken = NoJob /\ channel # <<>>
  /\ taken' = Head(channel)
  /\ channel' = Tail(channel)
  /\ UNCHANGED <<blackboardVars, open, exited, rowVars, doing, answers, taskPastVars>>

(* The op writes the row or fails (an error, a panic); its result goes into *)
(* its done channel, which is dropped when the caller has given up.         *)
WorkerRun ==
  /\ taken # NoJob
  /\ \E ok \in BOOLEAN :
       /\ storedFacts' = IF ok /\ taken.what = "facts" THEN taken.list ELSE storedFacts
       /\ status' = IF ok /\ taken.what = "reactivate" THEN "in_progress" ELSE status
       /\ answers' = answers \cup
            {[n |-> taken.n, ok |-> ok] : w \in {v \in Writers : job[v].n = taken.n}}
  /\ ran' = Append(ran, taken.n)
  /\ taken' = NoJob
  /\ UNCHANGED <<blackboardVars, channel, open, exited, doing, ops, announced, storers, final,
                 gaveUp>>

(* Mutant: the worker leaves buffered ops behind.                           *)
WorkerExitEarly ==
  /\ taken = NoJob /\ ~open /\ ~exited
  /\ exited' = TRUE
  /\ channel' = <<>>
  /\ UNCHANGED <<blackboardVars, open, taken, rowVars, doing, answers, taskPastVars>>

(* The closed channel is drained before its range loop ends.                *)
WorkerExit ==
  /\ taken = NoJob /\ channel = <<>> /\ ~open /\ ~exited
  /\ exited' = TRUE
  /\ UNCHANGED <<blackboardVars, channel, open, taken, rowVars, doing, answers, taskPastVars>>

-----------------------------------------------------------------------------
(* The finalizers and Shutdown                                              *)

(* CompleteTask, FailTask and CancelTask write synchronously, ...           *)
Finalize ==
  /\ doing[Runner] = "idle"
  /\ \E s \in Terminal :
       \/ status' = s /\ final' = s
       \/ UNCHANGED <<status, final>>
  /\ Put(Runner, "stopping")
  /\ UNCHANGED <<blackboardVars, workerVars, storedFacts, answers, ops, ran, announced, storers,
                 gaveUp>>

(* Mutant: a finalizer whose write failed leaves the channel open.          *)
StopWorkerFinal ==
  /\ doing[Runner] = "stopping"
  /\ open' = (open /\ final = "none")
  /\ Put(Runner, "ended")
  /\ UNCHANGED <<blackboardVars, channel, taken, exited, rowVars, answers, taskPastVars>>

(* ... then shutdownPersister closes the channel, also after a failure.     *)
StopWorker ==
  /\ doing[Runner] = "stopping"
  /\ open' = FALSE
  /\ Put(Runner, "ended")
  /\ UNCHANGED <<blackboardVars, channel, taken, exited, rowVars, answers, taskPastVars>>

PauseTask ==
  /\ doing[Runner] = "idle"
  /\ status' \in {status, "paused"}
  /\ Put(Runner, "ended")
  /\ UNCHANGED <<blackboardVars, workerVars, storedFacts, answers, taskPastVars>>

Shutdown ==
  /\ doing["shutdown"] = "idle"
  /\ open' = FALSE
  /\ Put("shutdown", "wait")
  /\ UNCHANGED <<blackboardVars, channel, taken, exited, rowVars, answers, taskPastVars>>

ShutdownReturn ==
  /\ doing["shutdown"] = "wait" /\ exited
  /\ Put("shutdown", "ended")
  /\ UNCHANGED <<blackboardVars, workerVars, rowVars, answers, taskPastVars>>

ShutdownTimeout ==
  /\ doing["shutdown"] = "wait" /\ ~exited
  /\ Put("shutdown", "gaveUp")
  /\ UNCHANGED <<blackboardVars, workerVars, rowVars, answers, taskPastVars>>

-----------------------------------------------------------------------------
CallerStep(w) == Snapshot(w) \/ Send(w) \/ Answered(w)
WorkerStep == WorkerTake \/ WorkerRun \/ WorkerExit

TaskNext ==
  \/ \E w \in Writers : StoreFact(w) \/ CallerStep(w) \/ SendTimeout(w) \/ WaitTimeout(w)
  \/ Reactivate \/ Finalize \/ StopWorker \/ PauseTask
  \/ WorkerStep
  \/ Shutdown \/ ShutdownReturn \/ ShutdownTimeout

(* The goroutines run and the store's writes return; timeouts need not fire. *)
TaskFairness ==
  /\ WF_taskVars(WorkerStep) /\ WF_taskVars(StopWorker)
  /\ \A w \in Writers : WF_taskVars(CallerStep(w))

TaskSpec == TaskInit /\ [][TaskNext]_taskVars /\ TaskFairness

-----------------------------------------------------------------------------
(* Properties                                                               *)

Ran(n) == \E i \in DOMAIN ran : ran[i] = n

(* Nothing that was sent is left behind: each op sent is in the channel, at *)
(* the worker or has run, in exactly one of these and in the order of the   *)
(* sends, however senders, finalizers and Shutdown close the channel        *)
(* between them; once the worker has returned it has run.                   *)
SentRunsOnce ==
  /\ ran \o (IF taken = NoJob THEN <<>> ELSE <<taken.n>>)
       \o [i \in DOMAIN channel |-> channel[i].n] = [n \in 1 .. ops |-> n]
  /\ exited => Len(ran) = ops

(* A finalizer's status is durable: a reactivation of the task, which went  *)
(* through the worker, cannot land after it - unless a wait timed out.      *)
FinalStays == ~gaveUp /\ final # "none" => status = final

(* While one goroutine stores facts, an announced fact is in the store      *)
(* whenever the panel reads it.                                             *)
AnnouncedStored ==
  Cardinality(storers) <= 1 => announced \subseteq storedFacts

(* What a task's callers are promised of its writes, in the order they sent *)
(* them and after its end.                                                  *)
WritesKept == SentRunsOnce /\ FinalStays /\ AnnouncedStored

(* A write returns even if no timeout fires: a send finds room or a closed  *)
(* channel, and an op that was sent is always answered.                     *)
WritesReturn ==
  \A w \in Writers : []<>(doing[w] \notin {"snapshot", "send", "wait"})

(* The worker of a finalized task, and of a manager that shut down, ends.   *)
WorkerEnds == []<>(~open \/ doing[Runner] = "stopping" => exited)

(* The comment at StoreFact: the notification fires only when the write     *)
(* landed, as announcing un-persisted state makes the fact look missing;    *)
(* blackboard.md: "Facts accumulate monotonically".                         *)
AnnouncedFactsStay == announced \subseteq storedFacts
=============================================================================
