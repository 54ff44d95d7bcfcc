-------------------------- MODULE ManagerBackground --------------------------
(***************************************************************************)
(* What the session manager runs in the background and stops again: the     *)
(* goroutines of backgroundTracker (session/background.go), and the         *)
(* persistence workers of the task blackboards, kept in m.blackboards until *)
(* stopBackground (Shutdown) or stopSessionBlackboards (DeleteSession)      *)
(* drains them under one deadline (session/manager.go).                     *)
(*                                                                         *)
(* A blackboard is created with its worker, then tracked; a task goroutine  *)
(* that outlives the manager's wait still does both.  A worker returns some  *)
(* time after its blackboard is shut down, by a drain or by its own task.   *)
(***************************************************************************)
EXTENDS Integers, FiniteSets

CONSTANTS
  Jobs,       \* calls of spawnBackgroundNamed
  Boards,     \* blackboards
  Doomed      \* those of the session that is deleted

VARIABLES
  (* backgroundTracker *)
  flying,     \* t.n
  shut,       \* t.closed
  zero,       \* the zero channel is closed
  jobs,       \* each spawn: "new", "running", "refused", "finished"
  (* m.blackboards *)
  tracked,    \* the list
  board,      \* each worker: "none", "made", "live", "told" to stop, "exited"
  (* stopBackground and stopSessionBlackboards *)
  stage,      \* of "quit" and "delete"
  holding,    \* the blackboards each has snapshotted and not yet shut down
  awaited,    \* the worker whose exit each one's pb.Shutdown waits for
  expired     \* whether each one's deadline has passed

trackerVars == <<flying, shut, zero, jobs>>
boardVars == <<tracked, board>>
drainVars == <<stage, holding, awaited, expired>>
bgVars == <<flying, shut, zero, jobs, tracked, board, stage, holding, awaited, expired>>

Drains == {"quit", "delete"}
NoBoard == "none"

ASSUME BoardsAssumption == NoBoard \notin Boards

BgInit ==
  /\ flying = 0 /\ shut = FALSE /\ zero = FALSE
  /\ jobs = [j \in Jobs |-> "new"]
  /\ tracked = {} /\ board = [b \in Boards |-> "none"]
  /\ stage = [d \in Drains |-> "idle"]
  /\ holding = [d \in Drains |-> {}] /\ awaited = [d \in Drains |-> NoBoard]
  /\ expired = [d \in Drains |-> FALSE]

At(d, place) == stage' = [stage EXCEPT ![d] = place]

(* Mutant: a spawn after close is accepted.                                 *)
SpawnAlways(j) ==
  /\ jobs[j] = "new"
  /\ jobs' = [jobs EXCEPT ![j] = "running"] /\ flying' = flying + 1
  /\ UNCHANGED <<shut, zero, boardVars, drainVars>>

-----------------------------------------------------------------------------
(* backgroundTracker                                                        *)

Spawn(j) ==
  /\ jobs[j] = "new"
  /\ IF shut
       THEN jobs' = [jobs EXCEPT ![j] = "refused"] /\ UNCHANGED flying
       ELSE jobs' = [jobs EXCEPT ![j] = "running"] /\ flying' = flying + 1
  /\ UNCHANGED <<shut, zero, boardVars, drainVars>>

(* Mutant: any drain to zero closes the channel, also while still open.     *)
FinishAnyZero(j) ==
  /\ jobs[j] = "running"
  /\ jobs' = [jobs EXCEPT ![j] = "finished"]
  /\ flying' = flying - 1
  /\ zero' = (zero \/ flying' = 0)
  /\ UNCHANGED <<shut, boardVars, drainVars>>

Finish(j) ==
  /\ jobs[j] = "running"
  /\ jobs' = [jobs EXCEPT ![j] = "finished"]
  /\ flying' = flying - 1
  /\ zero' = (zero \/ (flying' = 0 /\ shut))
  /\ UNCHANGED <<shut, boardVars, drainVars>>

(* closeAndWait: close, then wait for zero or the deadline.                 *)
CloseTracker ==
  /\ stage["quit"] = "idle"
  /\ shut' = TRUE
  /\ zero' = (zero \/ flying = 0)
  /\ At("quit", "join")
  /\ UNCHANGED <<flying, jobs, boardVars, holding, awaited, expired>>

(* Mutant: the join has no deadline.                                        *)
JoinedOnly ==
  /\ stage["quit"] = "join" /\ zero
  /\ At("quit", "snapshot")
  /\ UNCHANGED <<trackerVars, boardVars, holding, awaited, expired>>

Joined ==
  /\ stage["quit"] = "join" /\ (zero \/ expired["quit"])
  /\ At("quit", "snapshot")
  /\ UNCHANGED <<trackerVars, boardVars, holding, awaited, expired>>

-----------------------------------------------------------------------------
(* Blackboards                                                              *)

Make(b) ==
  /\ board[b] = "none"
  /\ board' = [board EXCEPT ![b] = "made"]
  /\ UNCHANGED <<trackerVars, tracked, drainVars>>

(* trackBlackboard prunes the exited workers on the way in.                 *)
TrackBoard(b) ==
  /\ board[b] = "made"
  /\ board' = [board EXCEPT ![b] = "live"]
  /\ tracked' = {c \in tracked : board[c] # "exited"} \cup {b}
  /\ UNCHANGED <<trackerVars, drainVars>>

(* Mutant: registering prunes the workers that were only told to stop.      *)
TrackBoardLive(b) ==
  /\ board[b] = "made"
  /\ board' = [board EXCEPT ![b] = "live"]
  /\ tracked' = {c \in tracked : board[c] = "live"} \cup {b}
  /\ UNCHANGED <<trackerVars, drainVars>>

(* A finalizer of the task closes the worker's channel.                     *)
TaskEnds(b) ==
  /\ board[b] = "live"
  /\ board' = [board EXCEPT ![b] = "told"]
  /\ UNCHANGED <<trackerVars, tracked, drainVars>>

WorkerExits(b) ==
  /\ board[b] = "told"
  /\ board' = [board EXCEPT ![b] = "exited"]
  /\ UNCHANGED <<trackerVars, tracked, drainVars>>

-----------------------------------------------------------------------------
(* The drains                                                               *)

Mine(d) == IF d = "quit" THEN Boards ELSE Doomed

StartDelete ==
  /\ stage["delete"] = "idle"
  /\ At("delete", "snapshot")
  /\ UNCHANGED <<trackerVars, boardVars, holding, awaited, expired>>

Deadline(d) ==
  /\ stage[d] \notin {"idle", "done"} /\ ~expired[d]
  /\ expired' = [expired EXCEPT ![d] = TRUE]
  /\ UNCHANGED <<trackerVars, boardVars, stage, holding, awaited>>

(* Under m.mu: the blackboards to stop leave the list; the delete also      *)
(* prunes the exited ones.  An empty snapshot ends the drain.               *)
TakeSnapshot(d) ==
  /\ stage[d] = "snapshot"
  /\ holding' = [holding EXCEPT ![d] = tracked \cap Mine(d)]
  /\ tracked' = {b \in tracked \ Mine(d) : board[b] # "exited"}
  /\ At(d, IF tracked \cap Mine(d) = {} THEN "done" ELSE "stop")
  /\ UNCHANGED <<trackerVars, board, awaited, expired>>

(* pb.Shutdown closes the worker's channel and waits for its exit until     *)
(* the deadline; past the deadline it only closes.                          *)
TellStop(d) ==
  /\ stage[d] = "stop" /\ awaited[d] = NoBoard
  /\ \E b \in holding[d] :
       /\ board' = [board EXCEPT ![b] = IF @ = "live" THEN "told" ELSE @]
       /\ holding' = [holding EXCEPT ![d] = @ \ {b}]
       /\ awaited' = [awaited EXCEPT ![d] = b]
  /\ UNCHANGED <<trackerVars, tracked, stage, expired>>

Stopped(d) ==
  /\ awaited[d] # NoBoard
  /\ board[awaited[d]] = "exited" \/ expired[d]
  /\ awaited' = [awaited EXCEPT ![d] = NoBoard]
  /\ UNCHANGED <<trackerVars, boardVars, stage, holding, expired>>

(* Mutant: past the deadline the rest of the snapshot is left as it is.     *)
NextPassHasty(d) ==
  /\ stage[d] = "stop" /\ awaited[d] = NoBoard /\ (holding[d] = {} \/ expired[d])
  /\ At(d, IF expired[d] THEN "done" ELSE "snapshot")
  /\ holding' = [holding EXCEPT ![d] = {}]
  /\ UNCHANGED <<trackerVars, boardVars, awaited, expired>>

(* The re-drain, for what was tracked meanwhile, until the deadline.        *)
NextPass(d) ==
  /\ stage[d] = "stop" /\ awaited[d] = NoBoard /\ holding[d] = {}
  /\ At(d, IF expired[d] THEN "done" ELSE "snapshot")
  /\ UNCHANGED <<trackerVars, boardVars, holding, awaited, expired>>

-----------------------------------------------------------------------------
DrainStep(d) == TakeSnapshot(d) \/ TellStop(d) \/ Stopped(d) \/ NextPass(d)

BgNext ==
  \/ \E j \in Jobs : Spawn(j) \/ Finish(j)
  \/ CloseTracker \/ Joined \/ StartDelete
  \/ \E b \in Boards : Make(b) \/ TrackBoard(b) \/ TaskEnds(b) \/ WorkerExits(b)
  \/ \E d \in Drains : Deadline(d) \/ DrainStep(d)

(* The drains run and their deadlines pass; no goroutine or worker need end. *)
BgFairness ==
  /\ WF_bgVars(Joined)
  /\ \A d \in Drains : WF_bgVars(DrainStep(d)) /\ WF_bgVars(Deadline(d))

BgSpec == BgInit /\ [][BgNext]_bgVars /\ BgFairness

-----------------------------------------------------------------------------
(* Properties                                                               *)

(* The join can be trusted: once zero is closed no tracked goroutine runs,  *)
(* and none ever will - a spawn racing Shutdown is refused or waited for.   *)
JoinedAll == zero => shut /\ \A j \in Jobs : jobs[j] # "running"

(* No worker is forgotten: one that nobody told to stop is in the list or   *)
(* in the snapshot of a drain, and a drain tells every one it took, also    *)
(* when its deadline has passed and it no longer waits.                     *)
NoneForgotten ==
  \A b \in Boards : board[b] = "live" =>
    b \in tracked \/ \E d \in Drains : b \in holding[d] /\ stage[d] = "stop"

(* A Shutdown that met no deadline leaves no worker behind it, but those    *)
(* tracked after its last look at the list and those a concurrent delete    *)
(* has taken.                                                               *)
DrainComplete ==
  stage["quit"] = "done" /\ ~expired["quit"] /\ ~expired["delete"] =>
    \A b \in Boards : board[b] \in {"live", "told"} =>
      b \in tracked \cup holding["delete"] \cup {awaited["delete"]}

(* What Shutdown may rely on when it closes the store: no goroutine and no  *)
(* worker is left at work unnoticed.                                        *)
Drained == JoinedAll /\ NoneForgotten /\ DrainComplete

(* Shutdown and delete return, even if no goroutine and no worker ever does. *)
DrainsReturn == \A d \in Drains : []<>(stage[d] \in {"idle", "done"})
=============================================================================
