# c0wrk: a TLA+ verification project

c0wrk is a desktop agent: a Go backend that runs chat sessions, each with an
orchestrator that drives an LLM engine over tools, a SQLite store that keeps
sessions and tasks, and a TypeScript front end. This directory models the parts of
it that are hardest to test: what happens when user calls, task goroutines,
background workers, a second process, a quit, a crash and a timeout interleave.

Paths below are relative to `src/`.

## 1. The system

### The parts that hold protocol state

| Component | State | Operations | Talks to | Modules |
|---|---|---|---|---|
| Session task lifecycle, `backend/session/manager_execution.go` | `Session` under `session.mu`: `active`, `pausing`, `pauseOwner`, `terminalEmitted`, `forceTerminated`, `done`/`cancel` | `SendMessage`, `ResumeTask`, `PauseSession`, `CancelTask` and its forced termination, `CancelUnfinishedTask`, the goroutine's epilogue, follow-ups, the sweep of stale rows | orchestrator, store, clients | `SessionRun` |
| Manual compaction, `manager_compaction.go` | `compacting`, `compactDone`, `compactCancel` | `CompactSessionContext`, the five phases of its goroutine, `CancelSessionCompaction` | pauses and resumes the task, swaps the history | `SessionRun` |
| Manager registry, `manager.go`, `manager_promote.go` | `m.sessions`, `restoreInFlight`, `restoreParked`, `deleting`, `shuttingDown`, the session's row and directories | restore, promote, delete, shut down | every other part | `SessionRegistry` |
| Background tracker, `background.go`, `manager.go` | count of goroutines, closed flag, list of blackboards | spawn, finish, close and wait, track, drain | task goroutines, blackboard workers | `ManagerBackground` |
| Persistent blackboard, `persistent_blackboard.go` | bounded channel, one worker, finalizing writes | store, pause, reactivate, finalize, shut down | store | `TaskWriter` |
| Event persister, `event_persister.go`, `token_persister.go` | bounded queue, one writer, latest token totals | persist, flush, tick, close | store, application shutdown | `PersistPipeline`, `WriteLog` |
| Event batcher, `desktop/event_batcher.go` | queue with coalescing, timer, stop | enqueue, flush, stop | front end | `EventBatcher` |
| Orchestrator, `core/orchestrator*.go` | `requestInFlight`, `activePause`, `liveMessages`, armed resume compaction | `HandleMessage`, `Resume`, `PauseSession`, live-queue push and drain | conductor, blackboard | `SessionRun` |
| Delegation, `core/conductor.go`, `core/units`, `core/tools` | per-run registry, durable unit ledger, step results, slots | delegate, launch a wave, settle, cancel, resume | orchestrator, store | `DelegationUnits` |
| Goal mode, `core/orchestrator_goal.go` | goal state with budget and status, row, anchor | derive, turn, verify, pause, take over, resume, stop | session, store | `GoalLoop` |
| Explicit-state (E2S) mode, `core/e2s`, `core/orchestrator_e2s.go` | state Sigma, spin counters, step limit | step, patch, act, take over, continue, stop | session, store | `E2SLoop` |
| Embedded LLM, `core/embeddedllm` | server state, single-instance gate, child process, idle timer | load, unload, forced unload, supervise, expire, install, remove | LLM transport | `EmbeddedServer` |
| Provider credentials, `backend/providerauth` | token, epoch, record in the keychain, refresh in flight | `Token`, `Refresh`, sign in, sign out, restart | LLM transport | `ProviderTokens` |
| Vector roots, `backend/vector_roots.go`, `desktop/startup_phases.go` | manager per root, closing marks, factory, disabled flag, launch epochs | search, evict, release, disable, shut down, launch, switch | embedder, settings | `VectorRoots` |
| Vector corpora, `core/vectorindex` | corpora and records on disk, handles with references, leases, markers | attach, build, publish, sweep, crash | roots | `CorpusStore` |
| Updater, `core/updater`, `backend/frontend_api_updater.go` | offered version, archive and sums, install tree, backup, staged tree, skipped version | check, skip, download, apply, wait, swap, roll back | a second process, the file system | `SelfUpdate` |

Everything else (attachments, parsers, prompts, terminals, git, HTTP, settings, the
front end) is I/O, formatting, forwarding, or left for later; `PROJECT.json` lists
each with its reason.

### What is hard, and what makes the parts correct

- **One session, one task.** The idle check of `SendMessage` and its activation are
  two holds of `session.mu` with store reads between them. At most one run may hold
  the session, the orchestrator's single-flight guard must never fire, and a manual
  compaction must never swap the history under a run.
- **Live messages and stopping.** A message sent to a running task is delivered once;
  `CancelTask` waits for at most `stopTimeout`, then forces the end of a goroutine
  that may still come back; the end is reported once.
- **Restores, promotions, deletions, quits.** One in-memory session per identity,
  built from its row; files, row and project of a promotion change together; nothing
  works on behind a shutdown unnoticed.
- **Write-behind.** Rows, facts, events and totals are written by workers behind
  bounded queues that time out, close and drain: each write runs once and in order,
  a terminal status stays, a flush is a durability checkpoint.
- **Long runs.** Delegated units, goals and explicit-state runs go through errors,
  pauses, stops, quits and crashes at any step: finished work is kept and not
  repeated, budgets hold, an end stays an end, an interruption stays resumable.
- **Services.** One server process, one index on a root, a refresh token spent once,
  one writer of a corpus, an install tree that is never lost.

## 2. Modules

| Module | What it is |
|---|---|
| `SessionRun`, `SessionProperties` | the state machine of one session, its properties |
| `Inbox` | the abstract specification of a session's messages: one answer each, the live queue taken as a whole |
| `SessionRegistry`, `ManagerBackground` | the registry of sessions, background goroutines and blackboards |
| `TaskWriter`, `PersistPipeline`, `EventBatcher` | the three pipelines: a task's writes, events to the store, events to the window |
| `WriteLog` | the abstract specification of the persister: accepted writes run once, in order |
| `DelegationUnits`, `GoalLoop`, `E2SLoop` | delegated subagents, a pursuit of a goal, an explicit-state run |
| `EmbeddedServer`, `ProviderTokens`, `VectorRoots`, `CorpusStore`, `SelfUpdate` | the services |
| `MCSession`, `MCBackend`, `MCCore`, `MCServices`, `MCLive`, `MCServicesLive` | instances for TLC |
| `SessionProofs`, `SessionSafety` | TLAPS: types, inductive invariant and safety of `SessionRun` |
| `ManagerProofs`, `PersistProofs`, `DeliveryProofs`, `ModeProofs`, `UnitsProofs`, `ServiceProofs` | TLAPS: the other components |

The components but the session share no state (what one needs of another is a
nondeterministic choice in its module), so an MC module is their *sum*: a variable
`part` picks one of them, whose steps the behaviour takes while the others stay in
an initial state. An invariant or action property of a part is thus checked exactly
as by a run of its own. For liveness the stuttering parts must not satisfy a property
vacuously or break it: the liveness properties have the form `[]<>settled`, which
holds where nothing is owed, and weak fairness of a part that does not run asks for
nothing, as its steps are disabled.

### How the models correspond to the code

A step is one hold of a mutex, one transaction or access of the store, one change of
the disk, one system call, or one wait; what the code does between two of these is
part of the step. In every module an action is named after what it models, and
`PROJECT.json` ("map") names the lines of each definition. Definitions commented
"Mutant" are faulty variants that no specification uses: a run with one in place of
the real definition must violate the property that is about it.

**`SessionRun`.** Three kinds of goroutine are processes: calls (a client RPC), runs
(the goroutine that `sendMessage`, `tryContinueInterruptedTask` or `ResumeTask`
starts, up to `close(done)`), and flows (the goroutine of `CompactSessionContext`).
`pc` says what each does next, `loc` holds its Go locals and its context, `wait` the
`done` channel it waits on. An identity is used again once its goroutine has exited.

| Code | Model |
|---|---|
| `sendMessage`: first hold; nudge decision; second hold | `SendGate`; `SendRoute`; `SendActivate` |
| `ResumeTask`: snapshot and store reads; activation | `ResumeLookup`; `ResumeActivate`, then `RunReactivate` |
| the goroutine of `sendMessage` up to `HandleMessage` | `RunTakeover`, `RunContinue` |
| `Orchestrator.HandleMessage`, `Resume`, the engine | `HandleCommit`, `HandleFail`, `ResumeEnter`, `ResumeFail`, `Deliver`, `EngineReturn` |
| the epilogue's decision | `JudgeRetry`, `JudgeCancelled`, `JudgeError`, `JudgeDone` |
| `persistCancellationIfUnfinished`, `abandonGoalIfUnfinished` | `RunSettle` |
| `deactivateSessionTask` with its three live-queue actions | `ReleaseKeep`, `ReleaseDrop`, `ReleaseFollowUp` |
| `emitTaskComplete` with the sweep, then `finishLiveLeftover` | `RunComplete`, then the run sends like a call |
| `CancelTask`, `forceTerminateStuckTask` | `StopCall`, `StopDiscard`, `StopReturn`, `StopTimeout`, `StopClaim`, `StopForce` |
| `PauseSession` | `PauseCall`, `PauseSignal` |
| `CompactSessionContext`, phases 1 to 5, its cancellation | `CompactCall`, `FlowSignal`, `FlowAwait`, `FlowSwap`, `FlowDefer`, `FlowClear`, `FlowOwner`, `CancelCompactCall` |
| `ArchiveSession`, `DeleteSession`, `Shutdown` | `Archive*`, `Delete*`, `Shutdown*` |

A message is a model value, a task the number of its row, the live queue a set, and
what the engine does its outcome plus the live messages it takes on the way. `fate`,
`told`, `userPause` and `stale` are history variables; `stale` records that
`SendMessage` activated although the session had meanwhile become active, archived,
deleted or shut down, which its second hold does not check. Left out: attachments,
events that are not terminal, the reroute flag, the compaction marker row, the budget
of model profiles, E2S requests (the paths of goal requests), restores after a
shutdown, and the waits of archival, deletion and shutdown, which end after
`stopTimeout` and so may end at any time.

**`SessionRegistry`.** `getOrRestoreSession` (fast path, in-flight share, park, build,
second check, insert), `PromoteSessionToProject` with evict, reservation, moves,
transaction and its compensation, `DeleteSession` and `Shutdown`, on one session that
is idle. `crossed` records the decisions that crossed another call's change and that
the code cannot see.

**`ManagerBackground`.** `spawnBackgroundNamed`, `closeAndWait`, `trackBlackboard`,
`stopBackground`, `stopSessionBlackboards` with their shared deadline.

**`TaskWriter`.** The bounded channel and the worker, sends and waits that time out,
`StoreFact`'s snapshot under the lock and write after it, reactivation, pause,
finalizers that write on their own goroutine and stop the worker, `Shutdown`.

**`PersistPipeline`.** `Persist` as tracking under the lock, a submit, and the answer
or the flush; the writer's queue, its exit at close and the inline writes after it;
`tokenPersister` with its ticker; `Application.Shutdown`'s order.

**`EventBatcher`.** `Enqueue` with coalescing and forced flushes, `flush` that takes
the queue under the lock and emits outside, the loop, its timer and `Stop`.

**`DelegationUnits`.** The delegate tool with its duplicate guard, dependency waves,
slots, the writes of a settled execution (registry, blackboard, ledger) one by one in
the order of each outcome, the resume wave by depth, finish guard, crash, quit.

**`GoalLoop`, `E2SLoop`.** One session's latest task, its row and its saved state; the
loops turn by turn with the places where each can be cut; the session manager's part
around them (takeover, continuation through the anchor, stop, forced stop, resume).
The writes of the row are reliable here (`TaskWriter` has their order); saves of the
goal or of Sigma may fail.

**`EmbeddedServer`.** `Load`, `Unload`, the idle unload and `forceUnload` as calls with
the gate, the child processes with their supervisors, the transport's coalesced load
and counted requests, the operation gate of install and removal. Two assumptions about
durations are stated where they are used (`GateExpires`, `BetweenStampAndCount`).

**`ProviderTokens`.** `Token` with its re-checks, the single flight with its epoch, the
exchange at the issuer and the commit; runs of a sign-in with their take-backs; a
sign-out that can be taken back; a restart that loads the record. `owner` is the account
the user chose last: a Cancel takes a choice back, whatever the run has done by then, and
a restart chooses nothing. What a cancelled run leaves behind anyway is named by
`unwanted` (the account it left in use) and `stray` (the one it left on record).

**`VectorRoots`, `CorpusStore`.** The registry of managers with its embedder and switch;
the snapshot store with `AttachSnapshot`, publication, handles and the sweep.

**`SelfUpdate`.** The backend's checks, skips, downloads and `ApplyUpdate`; the staging
updater as processes of their own; quits and power losses at any step.

Each module's head says what it leaves out; `PROJECT.json` repeats it per component.

## 3. Runs

A run is one TLC configuration. `launch`, `compaction`, `lifecycle`, `stop_live` and
`compaction_live` check `SessionRun`; the others are sums of components.

| Run | Instance | Shows |
|---|---|---|
| `launch` | 3 calls among send, resume, stop; 2 messages, 1 task row | one task at a time, the orchestrator's guard never fires, the session implements `Inbox`, the end is reported once, a Stop settles the row, a message sent after a forced end is kept |
| `compaction` | 3 calls among send, pause, compact, cancel, shutdown; 2 messages | the types, a compaction swaps alone, a message is in one place, an auto-resume keeps the user's pause, a shutdown cancels no task |
| `lifecycle` | 3 calls among send, goal, resume, compact, archive, delete, shutdown; 1 message | one task at a time, settled rows, and a resumed or newly sent task not paused in the store while it executes, under everything that removes a session |
| `stop_live` | `FairSpec`; 3 calls among send, stop, pause; 1 message | a pause and a Stop come to an end, also of a run that never returns; a Stop settles the right one of two rows |
| `compaction_live` | `FairSpec`; 3 calls among send, stop, compact, cancel; 1 message | a compaction ends |
| `core` | 3 units in four shapes, 1 slot, 2 runs of the task, 1 quit; goals without budget and of 2 turns, 2 pursuits, 1 stop, quit or crash | `WorkKept`, `WaveOrdered`, `PursuitKept` |
| `backend` | see below | `NothingLost`, `FlushDurable`, `KeepsLog`, `Delivers`, `WritesKept`, `Drained`, `OneCopy`, `PromotionAtomic`, `CorpusShared`, `SweepSpares`, `StateKept` |
| `services` | 2 spawns, one request, one stopper; 2 roots, cache of 1, 3 managers, 2 toggles; 2 askers, a sign-in, a sign-out, a restart; 2 updaters, 2 starts, 1 power loss | `CredentialsAgree`, `ServerAccounted`, `IdleSparesRequests`, `SwitchHolds`, `UpdateSafe` |
| `live` | the smallest sizes of the parts of `core` and `backend` | `BackendEnds` |
| `services_live` | the smallest sizes of the parts of `services` | `ServiceCallsEnd` |
| `code_two_tasks` | 2 calls that send | two sends launch two tasks (section 4) |
| `code_interrupted` | the units of `core` | an interrupted unit is marked failed without a relaunch (section 4) |

`backend` has two emitters in three quotas of events and token reports; two producers,
a queue of 2 and 3 events; two writers on a channel of 1 with two facts; two openers
next to a promotion, a delete and a shutdown; two background jobs and three
blackboards; two snapshots over three attachers and two roots with a sweep, a crash or
a close; an explicit-state run of 3 steps, 2 patches and one interruption.

### Properties made of parts

Several properties are conjunctions whose parts have names and comments of their own.

| Property | Parts |
|---|---|
| `NothingLost` | `EventHome`: the row of an event is in one place from its emitter to the store; `AnswerSaved`: an answer that `task_complete` leaves out was streamed before; `TotalsHome`: the latest token report is pending, under way or written |
| `Delivers` | `EventOnce`, `InOrder`, `ReplacedByNext` (superseded only by the next shown event of its key), `FlushDue` (a barrier or a full queue never waits for the timer), `StopDrains` |
| `WritesKept` | `SentRunsOnce` (each op once, in the order of sending), `FinalStays`, `AnnouncedStored` |
| `Drained` | `JoinedAll`, `NoneForgotten`, `DrainComplete` |
| `OneCopy` | `SingleFlight`, `NoGhostAfterQuit`, `MemoryMatchesRow`, `HandlesOwned` |
| `PromotionAtomic` | `FilesKept`, `Compensated` |
| `CorpusShared` | `RefsExact`, `LruExact`, `OneWriter` |
| `WorkKept` | `CompletedHasResult`, `SuccessNotRerun` |
| `WaveOrdered` | `AfterDeps`, `ChildrenFirst`, `SettledBeforeThinking`, `FinishJoins` |
| `PursuitKept` | `WithinBudget`, `ChargedOnce`, `MetConfirmed`, `EndedStays`, `QuitKeeps`, `FailedForCause`, and the types |
| `StateKept` | `ActionsKnown`, `ClosedStays`, `QuitResumable`, `TakesOverFresh`, and the types |
| `ServerAccounted` | `OneServer`, `NoOrphan`, `AtRest` |
| `CredentialsAgree` | `OwnerKept`, `RecordMatches`, `NeverRespent` |
| `SwitchHolds` | `OneOpener`, `NoneWhenOff`, `EmbeddersAccounted`, `SwitchSettles` |
| `UpdateSafe` | `InstallKept`, `SwapAfterExit`, `SkipHolds` |
| `BackendEnds` | flushes, quits and barriers, writes and workers, drains, restores, attaches, delegated executions, goal and explicit-state requests |
| `ServiceCallsEnd` | loads and unloads, the idle unload, token calls, updaters |

### Bounds, and why they are enough

*Sessions.* Two runs are what a follow-up, a resume racing a send, or a retry needs;
three calls are a task, an operation on it and one that races. A restored session starts
with a task of any status, with or without a goal, so no call is spent on producing one.
Identities of runs and flows are used again once their goroutine has exited, so
behaviours are not bounded by their number; a resume and two sends leave two messages in
the queue of a run that ends (`launch`, whose tasks share one row: the others have two);
a full store (`MaxTask` rows) behaves as a `PersistNewTask` that failed, which the code
logs and survives. A fourth call is needed for two compactions with two user actions in
between; the theorem about the auto-resume covers it.

*Core.* The four shapes are an independent background unit with a dependency next to
it; a dependency whose subagent may fail to build; a unit that delegates in the
background; a chain of three units in calls. One slot makes every wait of the cap
happen, and the second run replays every state the first was cut in. A unit allowed
to delegate in its turn is taken to be blocking: an asynchronous one takes the path of
those that may not, until the wave relaunches it. `TurnBudgets = {0, 2}` has the
unlimited goal and one whose last turn is also a retried, a verified and a resumed one.

*Backend.* Queue and channel have length 1 or 2, so that they are full, empty and
closed under their senders. The quotas and the budgets are the pairings in which two
users of a resource meet: two reports that may overtake each other, two attaches of
one root, attaches of two roots that share chunks, a sweep inside the life of a root
and one across a restart.

*Services.* Two spawns are a server and its replacement, three managers the ones of an
evicted, a released and a rebuilt root, two updaters the case the updater's design
excludes only in part (section 4).

*Liveness.* `live` has one run of the task, so no resumed wave is in it, and a goal
without a budget ends there by the bound on its turns, not by its own; `services_live`
has no sign-out, no restart and no vector roots. What these leave out is in `core` and
`services`, for safety only.

*Steps that are merged.* Where nobody else can tell the difference the model takes
several accesses as one step: the entry of `HandleMessage` with its commit
(`HandleCommit`; a plain message that becomes a goal by the suggestion gate is in
`GoalLoop` only), the store accesses of `RunSettle`, the launches of one wave
(`NextWave`), the reads before a request is counted (`LoadEnter`). A batch is flushed for
its number of events; the threshold in bytes asks in the same way and is left out, as is
the public `Flush`, so there are only fewer flushes than in the code.

Where a theorem of section 5 states the property, these bounds do not matter. Deadlock
is not checked (`CHECK_DEADLOCK FALSE`) because every part may really stop: clients
need not call, and the bounds on quits, restarts and rounds leave nothing to do.

### Fairness

Go runs every runnable goroutine, and a timer that is armed fires; weak fairness of
the steps of a goroutine once it exists says just this. Nothing a user or a model does
is fair, with one exception each for the modules that follow a request to its end.

- `SessionRun` (`FairSpec`): calls, runs and flows. `EngineReturn` is *not* fair, as a
  tool or a model may hang; the two properties that need it have it as their premise
  (`EngineReturns`), and `StopReturns` holds without.
- `PersistPipeline`, `EventBatcher`, `TaskWriter`, `SessionRegistry`, `CorpusStore`:
  each goroutine. The store's timeouts in `TaskWriter` are not fair: a write comes back
  even if no timer ever fires. The ticker of the token totals is.
- `ManagerBackground`: the drains and their deadlines, but neither the goroutines they
  wait for nor the blackboards' workers.
- `DelegationUnits` (the steps of the current run and of an execution's return),
  `GoalLoop`, `E2SLoop` (the steps of a request): here the engine's answer is assumed
  to come, since what is asked is that the loops do not wait for themselves.
- `EmbeddedServer`: the calls, the tick, the transport's begin of a request. Strong
  fairness where a lock or the gate is contended (`Acquire`, `Expire`): a Go mutex hands
  over to a waiter that has starved, and a channel of capacity 1 serves its senders in
  order.
- `ProviderTokens`, `SelfUpdate`: every call of a token; every updater process.

## 4. Where the code and its documentation disagree

Two disagreements have a run that shows the interleaving, and an entry in
`PROJECT.json` that quotes both sides.

- `code_two_tasks`: two sends pass the idle check before either activates; both
  launch a task.
- `code_interrupted`: a unit cancelled at the end of its run is an error in its step
  result and `interrupted` in the ledger; the resume believes the former and marks the
  unit failed without a relaunch, which `specs/domains/orchestration/delegation.md`
  says does not happen.

Others were met while modelling. The models have the code's behaviour, and the
properties that pass are stated around it; each says so where it is defined.

*Sessions.* `task_cancelled` is emitted before the session is deactivated, so a message
sent in reaction is discarded. The sweep after a success runs when the session is free
and may cancel the next task's row. A Stop that lands after the engine's success
reports a cancellation over a completed row. A continued run that was forced to end
reports a second end. A message into a paused session is acknowledged and dropped when
the task is stopped in between. A finishing compaction clears the owner of a pause the
user has just taken. On the message path a Stop settles the newest unfinished row, which
it takes for the run's: after a nudge, a Stop and a further send it may be a newer one
(`StopSettles` allows for it there and nowhere else). A late message that a follow-up
took from the queue shares that follow-up's fate, a discard included.
`tryContinueInterruptedTask` lacks the treatment of "context
cancelled but no error" that `SendMessage` and `ResumeTask` have. It does not reactivate
the row it continues either: a send that found nothing paused, and is launched after a
resume of that row was paused and has let the session go, executes a task the store has
as paused ("the store claims a paused task while it is actively running", says the
comment of `ResumeTask`'s reactivation). `NoPausedGhost` says that this never happens and
is violated in the instance of `lifecycle`; `ResumedNotPaused`,
which the run checks, is about the tasks that are resumed or newly sent.

*Pipelines and registry.* Token totals are stored in the order of submission, not of
report (`LatestReportWins` is about the comment). A fact announced may be overwritten by
an older snapshot of a parallel unit (`AnnouncedFactsStay`). A restore parked by a
promotion can have read the row before the commit (`NoPreCommitRestore`).

*Goal and explicit-state modes.* A Stop of a paused task does not end its goal or its
state: a later request over the same anchor resumes what was stopped. A takeover
leaves the old goal stored as not ended while the anchor stays, so a crash in the new
pursuit re-enters the abandoned one. A run that was forced to end and returns late
overwrites the saved cancellation with `active`. A quit during the verifier of the last
budgeted turn exhausts the goal. A stop between two turns keeps the last error of a
retried turn and makes the row failed. A resumed first turn is free also when the cut
came between turns, so attempts may exceed the budget that charged turns keep. A
tool's own deadline is taken for the watchdog's.

*Delegation.* With three levels a subagent relaunched by the wave may delegate anew a
unit whose own background child still runs: only the wave's relaunches wait for
children, and `ChildrenFirst` is about those. A background delegation cancelled by its
relaunched delegator is left `interrupted`.

*Credentials.* `SignIn`'s comment says that "an accepted Cancel can never conclude as a
durably signed-in account". `CancelHolds` states it and is violated in the instance of
`services`: `CancelChatGPTSignIn` is accepted as long as the run's bookkeeping stands,
which is cleared after the commit, so a Cancel in between leaves the account signed in;
and where the keychain refuses the rollback (or the process ends before it) the record
is the cancelled run's, which the next start loads. `CredentialsAgree` excepts these two
by name (`unwanted`, `stray`) and no others.

*Services.* Two `ApplyUpdate` calls while the close guard holds the quit stage two
updaters that swap at once, and can leave the install tree empty (`crowd`). The archive
has one path: a second download may replace, unverified, what is about to be applied
(`contended`), and `SkipVersion` does not clear it. A skip saved between the re-reading
of the background check and its save is lost (`late`), and one that the user cleared
meanwhile comes back, which `SkipHolds`, about versions that are skipped, does not cover. An
updater waits for its parent only: an instance started anew during the swap runs on the
tree that is swapped (`SwapAfterExit` is about the parent). `Disable` does not mark the
roots it drains, so a search may open a second manager on one. `ShutdownAll` waits for
the managers in the registry, not for those evicted earlier, so the embedder may be
closed under one that still drains (`EmbedderOutlives` states `closeEmbedder`'s "after
every manager is shut down" and is violated). The comment of `runVectorIndexInit` says
that its arm for indexing switched off is for a config that booted that way, a launch
under way being invalidated by the switch; a launch that finds the switch off takes it
too, whatever its epoch, and may park the registry after the user has turned indexing on
again: `SwitchSettles` excuses this, and a launch that finds no embedder (`missed`). A load answered
successfully under a forced stop may report a dead child as loaded
(`DeadNeverLoaded`). `EnsureCorpus` looks for a publication before it takes the lease,
and may reset a corpus published in between. A table published between the count of
references and the removal of orphans may lose an old record; so may a corpus that is
published a second time, over its publication, with a row of an overlapping attach of
the same root: the record it names anew may be one the orphan pass has already decided
to remove. Only the grace window of young records stands against both, so `SweepSpares`
is about tables that stay as they are. A retained snapshot that
no root owns is kept, though the comment of `ProtectedKeys` says otherwise.

## 5. Proofs

TLAPS proves the following for *every* value of the constants: any number of calls,
goroutines, events, units, managers and runs, any capacity and budget. The theorems
state every invariant and every action property of the passing runs; what is left to
TLC is liveness.

| Module | Theorem | Statement | Inductive invariant |
|---|---|---|---|
| `SessionProofs` | `Typed` | `Spec => []TypeOK` | itself |
| `SessionSafety` | `Inductive` | `Spec => []IInv` | `IInv` |
| | `OneTaskHolds`, `NeverInFlightHolds`, `CompactionExclusiveHolds`, `AutoResumeKeepsUserPauseHolds` | the property of that name | from `IInv` |
| | `AnswersOnceHolds` | `Spec => AnswersOnce`, the refinement of `Inbox` | `Carried`, `Homes` (`MessagesInductive`) |
| | `MessageHomeHolds`, `LateSurvivesForceHolds` | the property of that name | `Carried`, `Homes` |
| | `StopSettlesHolds`, `ResumedNotPausedHolds` | the property of that name | `IInv`, `RowsInv` |
| | `OneCancelledHolds` | the property of that name | `IInv`, `FreshIdle`, `OneReport` |
| | `ShutdownCancelsNothingHolds` | the property of that name | `Unended` |
| `ManagerProofs` | `DrainedHolds` | `BgSpec => []Drained` | `BgIInv` |
| | `OneCopyHolds` | `RegistrySpec => []OneCopy` | `RegistryIInv` |
| | `PromotionAtomicHolds` | `RegistrySpec => []PromotionAtomic` | `RegistryIInv`, `ProjectKept` |
| | `CorpusSharedHolds` | `CorpusSpec => []CorpusShared` | `SharedInv` |
| | `SweepSparesHolds` | `CorpusSpec => SweepSpares` | `SweepInv` |
| `PersistProofs` | `KeepsLogHolds` | `Spec => KeepsLog`, the refinement of `WriteLog` | `PipeInv` |
| | `NothingLostHolds`, `FlushDurableHolds` | `Spec => []NothingLost`, `Spec => []FlushDurable` | `LostInv`, `DurableInv` |
| `DeliveryProofs` | `WritesKeptHolds` | `TaskSpec => []WritesKept` | `TaskIInv` |
| | `DeliversHolds` | `BatchSpec => []Delivers` | `BatchIInv` |
| `ModeProofs` | `PursuitKeptHolds` | `GoalSpec => PursuitKept` | `GoalIInv` |
| | `StateKeptHolds` | `E2SSpec => StateKept` | `E2SIInv` |
| `UnitsProofs` | `WorkAlwaysKept`, `WaveAlwaysOrdered` | `UnitsSpec => WorkKept`, `UnitsSpec => WaveOrdered` | `UnitsIInv` |
| `ServiceProofs` | `CredentialsAgreeHolds` | `TokensSpec => []CredentialsAgree` | `TokensIInv` |
| | `SwitchAlwaysHolds` | `RootsSpec => []SwitchHolds` | `SwitchIInv` |
| | `ServerAlwaysAccounted`, `IdleAlwaysSpares` | `EmbedSpec => []ServerAccounted`, `EmbedSpec => IdleSparesRequests` | `EmbedIInv` |
| | `UpdateSafeHolds` | `UpdateSpec => UpdateSafe` | `UpdateIInv` |

### Assumptions

The constants' assumptions are named `ASSUME`s of the modules, which TLC evaluates in
every run. They say that the names of processes are distinct from the modules' own
(`ProcsAssumption`, `EmittersAssumption`, `ProducersAssumption`, `WritersAssumption`,
`OpenersAssumption`, `StoppersAssumption`, `BoardsAssumption`, `UnitsAssumption`), that
bounds are numbers (`TasksAssumption`, `MaxQueueAssumption`, `BudgetsAssumption`,
`QuotasAssumption`, `RoundsAssumption`, `SignInsAssumption`, `BuiltAssumption`,
`SpawnsAssumption`, `RunsAssumption`), that requests are finitely many
(`RequestsAssumption`), that there is a root (`RootsAssumption`), that attaches and
roots of corpora are finitely many and each attach has its root (`CorpusAssumption`,
without which a count of handles has no value), that a run's operations are known ones
(`OpsAssumption`), and in `ShapesAssumption` that a unit lies one level below its
delegator, depends on siblings only, and cannot delegate when it is asynchronous, which
`validateDelegationTasks` and the tool's set-up see to.

### Arguments

*Session.* `OneTask` is inductive by itself, the others are not: that a compaction swaps
alone depends on what its flow waits for, and that the guard never fires on whose
request is in flight. `IInv` adds `FlowBound` (a flow up to phase 4 owns the
`compacting` flag, so no launch passes its re-check), `FlowWaits` (a waiting flow
waits for the run that has the session, not for an older one), `SwapAlone`, `ViaMsg`
and `InFlightBound` (the request in flight is the current run's), and `OwnerStands` (a
user's standing pause is the recorded owner). Most steps touch nothing of it (`Quiet`
and its forms); launches, deactivations, the engine's steps and three steps of a flow
are those with an argument.

*The session's messages.* `Carried` says at which steps a call or a run has texts in
hand, so that a goroutine elsewhere cannot lose any; `Homes` that the goroutines' hands
and the queue are pairwise disjoint, and that a message is moving exactly if it is in
one of them. `MessageHome` counts the homes with that. Every step moves messages in one
of the ways that `MessageStep` lists, and each of these is a step of `Inbox` or none:
what is handed from one goroutine to another travels on (`InboxStep`).
`LateSurvivesForce` follows since the one step that discards the queue does so under the
lock that finds the run not forced to end.

*The session's rows.* `RowsInv` is `StopSettles` with `Down` (only a shutdown writes
checkpoints, so nothing pauses a row behind a Stop unless the manager shuts down) and
`ResumedNotPaused`, which begins at the reactivation of a resumed row, before the engine
runs. `StopSettles` is then a matter of what a row may become after it was
closed, and of the row that a settled run looks up.

*The session's reports.* `FreshIdle` says that a free identity has told nothing and
nobody waits for it; `OneReport` that before the claim `terminalEmitted` nobody has
reported the run or is about to, and that after it one does: the run or a Stop that gave
up waiting, not both. `ShutdownCancelsNothing` is about a session whose user ends
nothing: `Unended` says that then only a shutdown cancels a context, no step of a Stop
is under way, and nobody launches a goal, which would take over a paused row.

*Tracker.* `Counted` ties the wait group's counter to the goroutines at work, which is
what lets `zero` be trusted; `HandsEmpty` and `Found` follow a worker from the list
into the hands of the drain that took it.

*Registry and promotion.* One builder at a time (`OneBuilder`), who builds what the row
says (`BuildsRow`), while a promotion that moves is alone (`MovesAlone`) and a
shutdown shows (`QuitShows`). `ProjectKept` is what a rollback relies on.

*Corpora.* `SharedInv` is the types with `CorpusShared` itself: that a handle's count is
the number of roots that serve from it and attaches that carry it. Each step moves one
holder of one snapshot, and a lemma on cardinalities (`CountMoves`) says what that does
to the counts, `SharedByCounts` what the counts must keep. The LRU is a sequence without
repetition of the open handles nobody holds, so the lemmas on it say what leaving by
index (`Detached`), appending and evicting do to its range. `SweepInv` follows one
sweep: what was held or named by a live marker ever since it began is in the set of keys
it read, is reached by its marks, and is counted among the references that its orphan
pass spares, from the step on at which each is taken.

*Persister.* `PipeInv` says what each emitter carries, where it goes on and in which
order the writer closes; `KeepsLog` then maps every step to one of `WriteLog` or a
stutter. `LostInv` counts the places of a row (`HomeInv`) and remembers which streamed
text is the last one (`LastSaved`); `DurableInv` adds who waits for which flush and
that an emitter's rows precede its flush in the queue.

*Task writer and batcher.* `TaskIInv` keeps the numbers of the ops in line across store,
worker and channel (`Lined`), and says of each caller whose op is in flight; `Finalized`
says that the runner makes no call after its finalizer. `BatchIInv` keeps the
lists sorted (`Ordered`) and the hands apart (`Apart`), so that an event is in one place.

*Goals.* `Accounts` says where in the loop a turn may be charged, and which have ended;
`RowOpen`, `EndSaved` and `CutKept` relate row, saved goal and the cut that brought the
loop here; `Tried` ties the errors to the retries.

*Explicit state.* `UpToDate` says that neither the state nor the saved one is behind the
last action unless a save has failed; `ClosedSaved` and `LeavesState` what is saved once
a run has ended or was interrupted.

*Delegated units.* `CompletedHasResult` depends on the order in which an execution
writes: `Unwritten` and `Resulted` say what is on disk for each remaining write, in
the view of the run and on disk. That a success is not repeated needs that the calls,
the registries and the resume's classes know it (`Owned`, `CallsOpen`, `ToldRight`,
`Known`), across runs. That the wave goes from the leaves up is `Upwards`: what is to be
relaunched waits, makes no call, and lies no deeper than what is at work; `ParentsWait`
and `WaveSettles` then give the order on resume, and `SettledRight` says which
executions were stopped by whom.

*Credentials.* One refresh is in flight (`OneFlight`); `Asked` and `Answered` say which
token it took and what may have changed since; `Sendable` says that
the tokens in memory and on record can be sent, or are just being exchanged. The record
differs from memory by the tokens of the same account after a refresh, or by a cancelled
run's account (`stray`), and a step that writes the record ends either.

*Vector roots.* `MapAgrees` ties the map of managers to their lives, `ClosersAgree` and
`LaunchAgrees` say what each release, eviction, switch and launch still has to close, so
that every embedder has an owner and a settled switch is the user's.

*Embedded server.* `GateHeld` and `InHand` say who holds the gate and what a call knows of
the process it has; `InCharge` that a server nobody has killed is published or with a
call that publishes or kills it next, `PublishClear` that none is published over
another; `StateTold` what each step has reported; `Stamped` that a request about to be
sent has been stamped as activity, so that the expiry which does not know of it is not
the one that decides.

*Updater.* `Alone` says that one updater swaps at a time unless `crowd`, `TreesKept`
which trees are whole at each of its steps, `ParentGone` that it saw its parent exit,
`SaveCurrent` that the check's save has the user's latest choice unless `late`.

### Model-checked only

Liveness, fairness and `ENABLED` are out of the prover's reach. `PauseEnds`,
`StopReturns`, `CompactionEnds`, `BackendEnds` and `ServiceCallsEnd` (the runs
`stop_live`, `compaction_live`, `live` and `services_live`) hold on their instances. The
two runs that expect a violation show a counterexample, which needs no proof.

## 6. Not modelled, and what is left

`PROJECT.json` lists every component with its status and the reason. Left out are parts
whose work is I/O, parsing, formatting or forwarding (attachments, document conversion,
prompts, terminals, git, review, proxies, the front end), and parts with a protocol of
their own that are the next candidates:

1. *Settings*: the rollbacks of `SetWebAccessEnabled`, `UpdateExperimentalFeatures`,
   `UpdateProxySettings` and `UpdateIndexingSettings`, each over a snapshot another
   one may have overtaken, with the web-access sidecar they start and stop.
2. *Web channel*: the registration of sockets against `closeAllWS`.
3. *Install and download* of the embedded runtime; worktrees; the LLM budget's
   reservations; the MCP gateway; confirmations; the index pipeline.
4. *Abstract session*: the states a client sees (idle, running, paused, compacting),
   as `Inbox` has its messages, with `SessionRun` shown to implement it. The order of
   the live queue, which `SessionRun` keeps as a set.
