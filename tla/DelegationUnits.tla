--------------------------- MODULE DelegationUnits ---------------------------
(***************************************************************************)
(* A task's delegated subagents (core/conductor.go, core/tools, core/units) *)
(* across its runs: the delegate tool, the launcher's dependency waves, the *)
(* per-run registry, the durable unit ledger and the blackboard's step      *)
(* results, and the wave that relaunches on resume what was in flight       *)
(* (core/orchestrator.go resumePausedWork).                                 *)
(*                                                                         *)
(* A run works on its own restored view of the ledger and the blackboard,   *)
(* and every write goes to that view and to the disk.  An asynchronous      *)
(* subagent can outlive its run: what it then writes reaches the disk only. *)
(* Checkpoints are not kept apart: a unit has one only after a step result, *)
(* which decides how it is resumed.  One delegated id has one execution per *)
(* run.  Plan steps, legacy specs and the verifier's units are left out.    *)
(***************************************************************************)
EXTENDS Integers, Sequences, FiniteSets

CONSTANTS
  Units,      \* ids the model delegates
  Shapes,     \* what each unit is: its delegator and depth, depends_on, mode,
              \* allow_redelegate, and whether building its subagent can fail
  Slots,      \* max_parallel_subagents
  MaxRuns,    \* bound: the runs of the task
  MaxQuits    \* bound: crashes and graceful quits

Root == "conductor"
Callers == {Root} \cup Units
Runs == 1..MaxRuns
Views == {"disk", "run"}

ShapeType ==
  [by : Callers, depth : Nat, deps : SUBSET Units, async : BOOLEAN, redelegates : BOOLEAN,
   fragile : BOOLEAN]

(* A unit lies one level below its delegator, depends on its siblings, and  *)
(* is not allowed to redelegate when it is asynchronous.                    *)
ASSUME ShapesAssumption == \A s \in Shapes :
  /\ s \in [Units -> ShapeType]
  /\ \A u \in Units :
       /\ s[u].depth = IF s[u].by = Root THEN 0 ELSE s[s[u].by].depth + 1
       /\ \A d \in s[u].deps : s[d].by = s[u].by /\ d # u
       /\ s[u].async => ~s[u].redelegates

ASSUME UnitsAssumption == Root \notin Units

ASSUME RunsAssumption == MaxRuns \in Nat \ {0}

VARIABLES
  shape,      \* the shape of this task's units
  run,        \* the current run, and
  phase,      \* where it is: "idle", "wave", "llm", "over"
  paused,     \* the active pause signal
  ctxDone,    \* the runs whose context is cancelled
  quits,
  replay,     \* the class of each unit when the resume enumerated them
  todo,       \* units the resume wave has yet to settle
  pausedAgain,
  registry,   \* of each caller: the status of the ids it knows
  call,       \* the delegate call each caller is in
  dropped,    \* units whose own context cancel_delegation has cancelled
  work,       \* of each run: the executions
  ledger,     \* of each view: the statuses
  results       \* of each view: the step results

runVars == <<run, phase, paused, ctxDone, quits>>
waveVars == <<replay, todo, pausedAgain>>
unitVars == <<shape, run, phase, paused, ctxDone, quits, replay, todo, pausedAgain,
              registry, call, dropped, work, ledger, results>>

FreeCall == [pc |-> "free", pending |-> {}, wave |-> {}, hold |-> FALSE]
NoWork == [pc |-> "off", owner |-> Root, async |-> FALSE, out |-> "none", todo |-> <<>>]
Unknown == [u \in Units |-> "none"]

UnitsInit ==
  /\ shape \in Shapes
  /\ run = 1 /\ phase = "llm" /\ paused = FALSE /\ ctxDone = {} /\ quits = 0
  /\ replay = Unknown /\ todo = {} /\ pausedAgain = FALSE
  /\ registry = [k \in Callers |-> Unknown]
  /\ call = [k \in Callers |-> FreeCall]
  /\ dropped = {}
  /\ work = [l \in Runs |-> [u \in Units |-> NoWork]]
  /\ ledger = [v \in Views |-> Unknown]
  /\ results = [v \in Views |-> Unknown]

-----------------------------------------------------------------------------
(* The shape of the units                                                   *)

Children(k) == {u \in Units : shape[u].by = k}
Redelegates(u) == shape[u].redelegates
Depth(u) == shape[u].depth

(* An execution's context: the run's, or its own for an async delegation.   *)
ContextDone(l, u) == l \in ctxDone \/ (work[l][u].async /\ l = run /\ u \in dropped)

-----------------------------------------------------------------------------
(* The ledger and the blackboard                                            *)

(* A write of run l: a run that is over has only the disk.                  *)
Written(store, l, us, value) ==
  [v \in Views |-> [u \in Units |->
     IF u \in us /\ (v = "disk" \/ l = run) THEN value ELSE store[v][u]]]

Recorded(l, us, status) == Written(ledger, l, us, status)
Boarded(l, us, result) == Written(results, l, us, result)

(* Begin: a registration keeps the status a unit already has.               *)
Begun(us) == [v \in Views |-> [u \in Units |->
  IF u \notin us THEN ledger[v][u]
  ELSE IF ledger["run"][u] = "none" THEN "pending" ELSE ledger["run"][u]]]

(* registry.Complete and CompletePaused: unknown ids are ignored, and the   *)
(* statuses that stand.                                                     *)
Completed(k, us, status) ==
  [registry EXCEPT ![k] = [u \in Units |->
     IF u \in us /\ registry[k][u] \notin {"none", "cancelled"}
           /\ ~(registry[k][u] = "paused" /\ status # "paused")
       THEN status ELSE registry[k][u]]]

Ok(u) == results["run"][u] = "ok"

-----------------------------------------------------------------------------
(* The delegate tool                                                        *)

(* An executor makes its tool calls while it runs and is in none.           *)
Thinking(k) ==
  /\ call[k].pc = "free"
  /\ IF k = Root THEN phase = "llm" ELSE work[run][k].pc = "run" /\ Redelegates(k)

Valid(k, batch) ==
  /\ batch # {}
  /\ \A u \in batch :
       /\ registry[k][u] = "none"
       /\ \A d \in shape[u].deps :
            ~shape[d].async /\ (d \in batch \/ registry[k][d] # "none")
       /\ work[run][u].pc = "off"

(* Settled ids are replayed and refused, the rest registered and launched.  *)
Delegate(k, batch) ==
  /\ phase \in {"wave", "llm"} /\ Thinking(k) /\ Valid(k, batch)
  /\ LET done == {u \in batch : Ok(u)}
         fresh == batch \ done
     IN /\ registry' = [registry EXCEPT ![k] = [u \in Units |->
             IF u \in done THEN "completed"
             ELSE IF u \in fresh THEN "pending" ELSE registry[k][u]]]
        /\ ledger' = Begun(fresh)
        /\ call' = [call EXCEPT ![k] =
             [FreeCall EXCEPT !.pc = IF fresh = {} THEN "free" ELSE "launch", !.pending = fresh]]
  /\ UNCHANGED <<shape, runVars, waveVars, dropped, work, results>>

CancelDelegation(k, u) ==
  /\ phase \in {"wave", "llm"} /\ Thinking(k)
  /\ registry[k][u] \in {"pending", "running"}
  /\ registry' = [registry EXCEPT ![k][u] = "cancelled"]
  /\ dropped' = IF registry[k][u] = "running" /\ work[run][u].async
                  THEN dropped \cup {u} ELSE dropped
  /\ UNCHANGED <<shape, runVars, waveVars, call, work, ledger, results>>

-----------------------------------------------------------------------------
(* Launch: one wave of ready tasks after the other                          *)

Launching(k) == call[k].pc = "launch" /\ call[k].wave = {}

CallDone(k) == call[k].pending = {} \/ call[k].hold

Return(k) ==
  /\ Launching(k) /\ CallDone(k)
  /\ call' = [call EXCEPT ![k] = FreeCall]
  /\ pausedAgain' = (pausedAgain \/ (k = Root /\ phase = "wave" /\ call[k].hold))
  /\ UNCHANGED <<shape, runVars, replay, todo, registry, dropped, work, ledger, results>>

(* Mutant: any terminal dependency will do.                                 *)
ReadySettled(k) == {u \in call[k].pending :
  \A d \in shape[u].deps : registry[k][d] \in {"completed", "failed", "cancelled"}}

Ready(k) == {u \in call[k].pending : \A d \in shape[u].deps : registry[k][d] = "completed"}

(* The context is done, or nothing can ever be ready.                       *)
GiveUp(k) ==
  /\ Launching(k) /\ ~CallDone(k)
  /\ run \in ctxDone \/ Ready(k) = {}
  /\ registry' = Completed(k, call[k].pending, "failed")
  /\ ledger' = Recorded(run, call[k].pending, IF run \in ctxDone THEN "interrupted" ELSE "failed")
  /\ call' = [call EXCEPT ![k] = FreeCall]
  /\ UNCHANGED <<shape, runVars, waveVars, dropped, work, results>>

Launched(k, us, async) ==
  [work EXCEPT ![run] = [u \in Units |-> IF u \in us
     THEN [NoWork EXCEPT !.pc = "slot", !.owner = k, !.async = async] ELSE work[run][u]]]

(* The resume wave launches every unit blocking, whatever its mode.         *)
IsAsync(k, u) == shape[u].async /\ ~(k = Root /\ phase = "wave")

(* runWave: the ready tasks whose subagent cannot be built fail, the async  *)
(* ones are launched, then the regular ones; redelegating ones come last,   *)
(* one at a time (StartRedelegating).                                       *)
NextWave(k) ==
  /\ Launching(k) /\ ~CallDone(k) /\ run \notin ctxDone
  /\ \E broken \in SUBSET {u \in Ready(k) : shape[u].fragile} :
       LET ready == Ready(k) \ broken
           async == {u \in ready : IsAsync(k, u)}
           regular == {u \in ready : ~IsAsync(k, u) /\ ~Redelegates(u)}
           starting == async \cup regular
       IN /\ Ready(k) # {}
          /\ registry' = [registry EXCEPT ![k] = [u \in Units |->
               IF u \in broken /\ registry[k][u] # "cancelled" THEN "failed"
               ELSE IF u \in starting /\ registry[k][u] = "pending" THEN "running"
               ELSE registry[k][u]]]
          /\ ledger' = [v \in Views |-> [u \in Units |->
               IF u \in broken THEN Recorded(run, broken, "failed")[v][u]
               ELSE Recorded(run, starting, "running")[v][u]]]
          /\ work' = [work EXCEPT ![run] = [u \in Units |->
               IF u \in async THEN Launched(k, async, TRUE)[run][u]
               ELSE Launched(k, regular, FALSE)[run][u]]]
          /\ call' = [call EXCEPT ![k].pending = @ \ Ready(k), ![k].wave = ready \ async]
          /\ dropped' = dropped \ async
  /\ UNCHANGED <<shape, runVars, waveVars, results>>

(* A re-delegating subagent gets a child registry and holds no slot.        *)
StartRedelegating(k, u) ==
  /\ u \in call[k].wave /\ Redelegates(u) /\ work[run][u].pc = "off"
  /\ \A w \in call[k].wave : Redelegates(w) /\ work[run][w].pc = "off"
  /\ registry' = [registry EXCEPT ![k][u] = IF @ = "pending" THEN "running" ELSE @,
                                  ![u] = Unknown]
  /\ ledger' = Recorded(run, {u}, "running")
  /\ work' = [work EXCEPT ![run][u] = [NoWork EXCEPT !.pc = "run", !.owner = k]]
  /\ UNCHANGED <<shape, runVars, waveVars, call, dropped, results>>

-----------------------------------------------------------------------------
(* An execution                                                             *)

(* Mutant: a re-delegating subagent holds one too.                          *)
HoldsAny(l, u) == work[l][u].pc = "run" \/ (work[l][u].async /\ work[l][u].pc = "settle")

Holds(l, u) == /\ ~Redelegates(u)
               /\ work[l][u].pc = "run" \/ (work[l][u].async /\ work[l][u].pc = "settle")

TakeSlot(l, u) ==
  /\ work[l][u].pc = "slot"
  /\ Cardinality({w \in Units : Holds(l, w)}) < Slots
  /\ work' = [work EXCEPT ![l][u].pc = "run"]
  /\ UNCHANGED <<shape, runVars, waveVars, registry, call, dropped, ledger, results>>

(* What an executor's run can come to; a redelegating one finishes only     *)
(* with nothing of its own pending (the finish guard).                      *)
(* Mutant: the guard forgets what is running.                               *)
UnfinishedPending(k) == \E u \in Units : registry[k][u] = "pending"

Unfinished(k) == \E u \in Units : registry[k][u] \in {"pending", "running"}

Outcomes(l, u) ==
  {"error"}
    \cup (IF Redelegates(u) /\ Unfinished(u) THEN {} ELSE {"ok"})
    \cup (IF paused THEN {"paused"} ELSE {})
    \cup (IF ContextDone(l, u) THEN {"stopped"} ELSE {})

(* Mutant: the ledger is written before the blackboard.                     *)
WritesLedgerFirst(out) ==
  CASE out = "gone" -> <<"registry", "ledger">>
    [] OTHER        -> <<"ledger", "board", "registry">>

(* The order of the writes of a settled execution.                          *)
Writes(out) ==
  CASE out = "paused" -> <<"board", "ledger", "registry">>
    [] out = "gone"   -> <<"registry", "ledger">>
    [] OTHER          -> <<"registry", "board", "ledger">>

Comes(l, u, out) ==
  work' = [work EXCEPT ![l][u].pc = "settle", ![l][u].out = out, ![l][u].todo = Writes(out)]

Back(l, u) ==
  /\ work[l][u].pc = "run" /\ (Redelegates(u) => call[u].pc = "free")
  /\ \E out \in Outcomes(l, u) : Comes(l, u, out)
  /\ UNCHANGED <<shape, runVars, waveVars, registry, call, dropped, ledger, results>>

(* An async delegation's goroutine sees its context done first.             *)
Gone(l, u) ==
  /\ work[l][u].pc = "run" /\ work[l][u].async /\ ContextDone(l, u)
  /\ Comes(l, u, "gone")
  /\ UNCHANGED <<shape, runVars, waveVars, registry, call, dropped, ledger, results>>

(* A blocking call settles its regular wave once all of it is back, one     *)
(* after the other.                                                         *)
Midway(l, u) == work[l][u].pc = "settle" /\ work[l][u].todo # Writes(work[l][u].out)

MaySettle(l, u) ==
  /\ work[l][u].pc = "settle"
  /\ \/ work[l][u].async \/ Redelegates(u)
     \/ \A x \in {w \in call[work[l][u].owner].wave : ~Redelegates(w)} :
          work[l][x].pc = "settle" /\ (x # u => ~Midway(l, x))

StatusOf(out) ==
  CASE out = "ok" -> "completed"
    [] out = "paused" -> "paused"
    [] out \in {"stopped", "gone"} -> "interrupted"
    [] OTHER -> "failed"
ResultOf(out) == IF out = "stopped" THEN "error" ELSE out
RegistryOf(out) ==
  CASE out = "ok" -> "completed" [] out = "paused" -> "paused" [] OTHER -> "failed"

Settle(l, u) ==
  /\ MaySettle(l, u)
  /\ LET w == work[l][u]
         step == Head(w.todo)
         last == Tail(w.todo) = <<>>
     IN /\ registry' = IF step = "registry" /\ l = run
                         THEN Completed(w.owner, {u}, RegistryOf(w.out)) ELSE registry
        /\ results' = IF step = "board" THEN Boarded(l, {u}, ResultOf(w.out)) ELSE results
        /\ ledger' = IF step = "ledger" THEN Recorded(l, {u}, StatusOf(w.out)) ELSE ledger
        /\ work' = [work EXCEPT ![l][u] = IF last THEN NoWork ELSE [w EXCEPT !.todo = Tail(@)]]
        /\ call' = IF last /\ ~w.async /\ l = run
                     THEN [call EXCEPT ![w.owner].wave = @ \ {u},
                                       ![w.owner].hold = @ \/ w.out = "paused"]
                     ELSE call
  /\ UNCHANGED <<shape, runVars, waveVars, dropped>>

-----------------------------------------------------------------------------
(* The runs of the task                                                     *)

(* Mutant: the ledger is taken at its word.                                 *)
ClassLedger(u) == ledger["disk"][u]

(* How the resume funnel classifies a unit (resumeUnitsFromLedger).         *)
Class(u) ==
  CASE results["disk"][u] = "ok" -> "completed"
    [] results["disk"][u] = "error" -> "failed"
    [] results["disk"][u] = "paused" -> "paused"
    [] OTHER -> ledger["disk"][u]

(* Mutant: an interrupted unit is settled as it is.                         *)
RelaunchableUnbroken ==
  {u \in Units : Class(u) \notin {"none", "completed", "failed", "interrupted"}}

Relaunchable == {u \in Units : Class(u) \notin {"none", "completed", "failed"}}

(* Resume: the blackboard is restored, the units are enumerated.            *)
Resume ==
  /\ phase = "idle" /\ run < MaxRuns
  /\ run' = run + 1 /\ phase' = "wave" /\ paused' = FALSE
  /\ todo' = Relaunchable /\ pausedAgain' = FALSE
  /\ replay' = [u \in Units |-> Class(u)]
  /\ ledger' = [ledger EXCEPT !["run"] = ledger["disk"]]
  /\ results' = [results EXCEPT !["run"] = results["disk"]]
  /\ UNCHANGED <<shape, ctxDone, quits, registry, call, dropped, work>>

(* Mutant: the shallowest first.                                            *)
GroupShallow == {u \in todo : \A w \in todo : Depth(w) >= Depth(u)}

(* One group of the wave: the deepest units left.                           *)
Group == {u \in todo : \A w \in todo : Depth(w) <= Depth(u)}

NextGroup ==
  /\ phase = "wave" /\ call[Root].pc = "free" /\ todo # {} /\ ~pausedAgain
  /\ registry' = [registry EXCEPT ![Root] = [u \in Units |->
       IF u \in Group THEN "pending"
       ELSE IF replay[u] \in {"completed", "failed"} THEN replay[u] ELSE "none"]]
  /\ results' = Boarded(run, {u \in Group : replay[u] = "paused"}, "paused")
  /\ call' = [call EXCEPT ![Root] = [FreeCall EXCEPT !.pc = "launch", !.pending = Group]]
  /\ todo' = todo \ Group
  /\ UNCHANGED <<shape, runVars, replay, pausedAgain, dropped, work, ledger>>

(* The wave over, the executor starts with a registry of its own.           *)
WaveEnds ==
  /\ phase = "wave" /\ call[Root].pc = "free" /\ todo = {} /\ ~pausedAgain
  /\ phase' = "llm"
  /\ registry' = [registry EXCEPT ![Root] = Unknown]
  /\ replay' = Unknown
  /\ UNCHANGED <<shape, run, paused, ctxDone, quits, todo, pausedAgain, call, dropped, work,
                 ledger, results>>

(* What a run keeps in memory goes with it.                                 *)
Forget ==
  /\ registry' = [k \in Callers |-> Unknown] /\ call' = [k \in Callers |-> FreeCall]
  /\ dropped' = {} /\ replay' = Unknown /\ todo' = {} /\ pausedAgain' = FALSE
  /\ paused' = FALSE /\ ctxDone' = ctxDone \cup {run}

Leave(to) ==
  /\ phase' = to /\ Forget
  /\ UNCHANGED <<shape, run, quits, work, ledger, results>>

PausedInWave == phase = "wave" /\ call[Root].pc = "free" /\ pausedAgain /\ Leave("idle")
PausedRun == Thinking(Root) /\ paused /\ Leave("idle")
FailedRun == Thinking(Root) /\ Leave("idle")
FinishRun == Thinking(Root) /\ ~Unfinished(Root) /\ Leave("over")

PauseSession ==
  /\ phase \in {"wave", "llm"} /\ ~paused
  /\ paused' = TRUE
  /\ UNCHANGED <<shape, run, phase, ctxDone, quits, waveVars, registry, call, dropped, work,
                 ledger, results>>

(* A graceful quit cancels the context of the run and leaves the task       *)
(* resumable.                                                               *)
QuitRun ==
  /\ phase \in {"wave", "llm"} /\ run \notin ctxDone /\ quits < MaxQuits
  /\ ctxDone' = ctxDone \cup {run} /\ quits' = quits + 1
  /\ UNCHANGED <<shape, run, phase, paused, waveVars, registry, call, dropped, work, ledger, results>>

(* The process dies: what is on disk is left.                               *)
Crash ==
  /\ phase # "over" /\ quits < MaxQuits
  /\ phase' = "idle" /\ quits' = quits + 1 /\ Forget
  /\ work' = [l \in Runs |-> [u \in Units |-> NoWork]]
  /\ UNCHANGED <<shape, run, ledger, results>>

-----------------------------------------------------------------------------
UnitsGo ==
  \/ \E k \in Callers : Return(k) \/ GiveUp(k) \/ NextWave(k)
  \/ \E k \in Callers, u \in Units : StartRedelegating(k, u)
  \/ \E l \in Runs, u \in Units : TakeSlot(l, u) \/ Gone(l, u) \/ Settle(l, u)
  \/ NextGroup \/ WaveEnds \/ PausedInWave

UnitsNext ==
  \/ UnitsGo
  \/ \E k \in Callers : \E batch \in SUBSET Children(k) : Delegate(k, batch)
  \/ \E k \in Callers, u \in Units : CancelDelegation(k, u)
  \/ \E l \in Runs, u \in Units : Back(l, u)
  \/ Resume \/ PausedRun \/ FailedRun \/ FinishRun \/ PauseSession \/ QuitRun \/ Crash

(* Go's scheduling, and executors that come back.                           *)
UnitsFairness ==
  /\ WF_unitVars(UnitsGo)
  /\ WF_unitVars(\E l \in Runs, u \in Units : Back(l, u))

UnitsSpec == UnitsInit /\ [][UnitsNext]_unitVars

-----------------------------------------------------------------------------
(* Properties                                                               *)

Launches(u) == work[run][u].pc = "off" /\ work'[run][u].pc # "off"

(* A delegation that has succeeded is not executed again, whether the model *)
(* delegates it a second time, an executor that delegated it is relaunched, *)
(* or the task went through a pause, a crash or a quit: the duplicate guard *)
(* and the resume funnel agree with the blackboard.                         *)
SuccessNotRerun == [][\A u \in Units : Launches(u) => ~Ok(u)]_unitVars

(* A dependent starts only when what it depends on has succeeded, in this   *)
(* run or, replayed into the wave's registry, in an earlier one.            *)
AfterDeps == [][\A u \in Units : Launches(u) => \A d \in shape[u].deps :
                 Ok(d) \/ (work[run][d].pc = "settle" /\ work[run][d].out = "ok")]_unitVars

(* The wave relaunches a delegating subagent only when what it had delegated *)
(* is settled: its children are in its task text, not in flight.            *)
ChildrenFirst ==
  [][\A p \in Units : Launches(p) /\ work'[run][p].owner = Root /\ phase = "wave" =>
     \A c \in Children(p) :
       results["run"][c] \in {"ok", "error"} \/ ledger["run"][c] \in {"none", "failed"}]_unitVars

(* The resumed executor's first call comes after everything that was in     *)
(* flight has been relaunched to an end, or could not be, or was cancelled  *)
(* by the subagent that delegated it anew, unless the pause signal is up    *)
(* again and the executor stops before that call.                           *)
SettledBeforeThinking ==
  [][phase = "wave" /\ phase' = "llm" /\ ~paused => \A u \in Units :
       replay[u] \notin {"none", "completed", "failed"} =>
         \/ ledger["run"][u] \in {"completed", "failed"}
         \/ ledger["run"][u] = "interrupted" /\ run \in ctxDone
         \/ work[run][u].pc # "off" \/ u \in dropped]_unitVars

(* Finish joins: the task does not end successfully over an asynchronous    *)
(* delegation of its executor that is still at work, unless cancelled.      *)
FinishJoins ==
  [][phase' = "over" /\ phase # "over" => \A u \in Children(Root) :
       work[run][u].pc \in {"slot", "run"} => registry[Root][u] = "cancelled"]_unitVars

(* The order of a run: a unit starts after its dependencies and, on resume, *)
(* its children, the executor thinks after them all, and the task is over   *)
(* when they are.                                                           *)
WaveOrdered == AfterDeps /\ ChildrenFirst /\ SettledBeforeThinking /\ FinishJoins

(* A status of completed has its result: the ledger never claims, after a   *)
(* crash between the two writes, what the blackboard cannot show.           *)
CompletedHasResult == \A u \in Units :
  ledger["disk"][u] = "completed" => results["disk"][u] # "none"

(* Finished work is kept through crashes: it is on record with its result,  *)
(* and is not done again.                                                   *)
WorkKept == []CompletedHasResult /\ SuccessNotRerun

(* Every execution comes to an end, whatever the concurrency cap: no one    *)
(* waits for a slot that is held by someone who waits for them.             *)
ExecutionsEnd == []<>(\A l \in Runs, u \in Units : work[l][u].pc = "off")

(* An interrupted unit is never marked failed without a relaunch attempt.   *)
InterruptedRelaunched ==
  [][phase = "idle" /\ phase' = "wave" => \A u \in Units :
       ledger["disk"][u] = "interrupted" => u \in todo' \/ results["disk"][u] = "ok"]_unitVars
=============================================================================
