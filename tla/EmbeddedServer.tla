---------------------------- MODULE EmbeddedServer ----------------------------
(***************************************************************************)
(* The supervisor of the embedded LLM (core/embeddedllm/server.go, idle.go, *)
(* transport.go) and the operations over it (backend/                      *)
(* frontend_api_embedded.go): loads behind the single-instance gate, stops  *)
(* that wait for the gate or force their way without it, the supervisor of  *)
(* each child process, the idle expiry, requests that bring the model up,   *)
(* and the install or removal that stops it first.                          *)
(*                                                                         *)
(* A hold of Server.mu is one step.  Launch shapes, ports, the memory plan  *)
(* and the context readback are left out; a step that may fail may fail at  *)
(* any time.  Time is the order of events: `fresh` says that some of the    *)
(* idle budget, or of the grace, is left.                                   *)
(***************************************************************************)
EXTENDS Integers, FiniteSets

CONSTANTS
  Stoppers,   \* UnloadEmbeddedLLM calls and the Stop of the shutdown
  Requests,   \* requests of the ensure-loaded transport
  MaxSpawns,  \* bound: child processes
  MaxOrders,  \* bound: what the user and the shutdown ask for
  Patience    \* idle budget, in grace periods

ASSUME SpawnsAssumption == MaxSpawns \in Nat
ASSUME RequestsAssumption == IsFiniteSet(Requests)

Transport == "transport"   \* the coalesced load of the transport
Rpc == "rpc"               \* LoadEmbeddedLLM
IdleTick == "tick"         \* the callback of the idle timer
Operator == "operator"     \* the holder of the operation gate
Loaders == {Transport, Rpc}
EmbedCalls == Loaders \cup Stoppers \cup {IdleTick, Operator}
Servers == 1..MaxSpawns
NoChild == 0

ASSUME StoppersAssumption == Stoppers \cap {Transport, Rpc, IdleTick, Operator, "free"} = {}

VARIABLES
  state,      \* Server.state
  handle,     \* Server.run
  child,      \* the processes: "none", "alive", "exited", "died" (observed)
  asked,      \* of each process: what has been asked of it
  gate,       \* who holds the single-instance gate
  loads,      \* loadsInFlight
  step,       \* where each call is
  mine,       \* the process each call works on
  owes,       \* the forced stops that leave the terminal state to a load
  timer,      \* the idle timer: "off", "set", "grace", "fired"
  fresh,
  graces,     \* the deferral episode so far
  moved,      \* activity since the expiry's decision
  leaked,     \* the expiry unloads over a count it takes for leaked
  enabled,    \* the policy
  request,    \* where each request is
  operation,  \* the operation holding the operation gate
  manifest,   \* the install record is on disk
  orders,     \* the user's and the shutdown's calls so far
  forced      \* history: a stop has detached a child without the gate

idleVars == <<timer, fresh, graces, moved, leaked, enabled>>
hostVars == <<operation, manifest, orders>>
restVars == <<idleVars, request, hostVars, forced>>
embedVars == <<state, handle, child, asked, gate, loads, step, mine, owes, restVars>>

EmbedInit ==
  /\ manifest \in BOOLEAN
  /\ state = IF manifest THEN "installed" ELSE "not_installed"
  /\ handle = NoChild /\ gate = "free" /\ loads = 0
  /\ child = [p \in Servers |-> "none"]
  /\ asked = [p \in Servers |-> {}]
  /\ step = [c \in EmbedCalls |-> "off"]
  /\ mine = [c \in EmbedCalls |-> NoChild]
  /\ owes = {} /\ orders = 0 /\ forced = FALSE
  /\ timer = "off" /\ fresh = FALSE /\ graces = 0 /\ moved = FALSE /\ leaked = FALSE
  /\ enabled = TRUE
  /\ request = [r \in Requests |-> "off"]
  /\ operation = "idle"

-----------------------------------------------------------------------------
(* Transitions, activity and the gate                                       *)

Go(c, to) == step' = [step EXCEPT ![c] = to]
Mark(p, m) == asked' = [asked EXCEPT ![p] = @ \cup {m}]

(* Only a loaded model has an idle timer.                                   *)
Transition(next) ==
  /\ state' = next
  /\ timer' = IF next = "loaded" THEN timer ELSE "off"
  /\ graces' = IF next = "loaded" THEN graces ELSE 0
  /\ UNCHANGED <<fresh, moved, leaked, enabled>>
Stay == state' = state /\ UNCHANGED idleVars

(* recordActivityLocked: a full budget, and a generation no decision knows. *)
Active(loaded) ==
  /\ fresh' = TRUE /\ graces' = 0 /\ moved' = TRUE
  /\ timer' = IF loaded /\ enabled THEN "set" ELSE "off"
  /\ UNCHANGED <<leaked, enabled>>

(* Mutant: the gate lets everyone in.                                       *)
AcquireAny(c, to) ==
  /\ step[c] = "gate"
  /\ gate' = c /\ Go(c, to)
  /\ UNCHANGED <<state, handle, child, asked, loads, mine, owes, restVars>>

Acquire(c, to) ==
  /\ step[c] = "gate" /\ gate = "free"
  /\ gate' = c /\ Go(c, to)
  /\ UNCHANGED <<state, handle, child, asked, loads, mine, owes, restVars>>

Order == orders < MaxOrders /\ orders' = orders + 1

(* A call returns: the gate is released if it is held; the operator goes on *)
(* with its operation, the requests of the coalesced load with theirs.      *)
AfterReturn(c, ok) ==
  CASE c = Operator -> IF ok THEN "apply" ELSE "endop"
    [] OTHER -> "off"

Released(ok) == [r \in Requests |->
  IF request[r] # "wait" THEN request[r] ELSE IF ok THEN "go" ELSE "off"]

Returns(c, ok) ==
  /\ Go(c, AfterReturn(c, ok))
  /\ mine' = [mine EXCEPT ![c] = NoChild]
  /\ gate' = IF gate = c THEN "free" ELSE gate
  /\ request' = IF c = Transport THEN Released(ok) ELSE request

-----------------------------------------------------------------------------
(* Load                                                                     *)

(* A request joins the load in flight or starts it; both loads are refused  *)
(* while an operation holds its gate, which nothing checks again.           *)
Request(r) ==
  /\ request[r] = "off"
  /\ IF step[Transport] # "off" \/ operation = "idle"
       THEN request' = [request EXCEPT ![r] = "wait"]
       ELSE UNCHANGED request
  /\ IF step[Transport] = "off" /\ operation = "idle" THEN Go(Transport, "gate") ELSE UNCHANGED step
  /\ UNCHANGED <<state, handle, child, asked, gate, loads, mine, owes, idleVars, hostVars, forced>>

LoadCall ==
  /\ step[Rpc] = "off" /\ operation = "idle" /\ Go(Rpc, "gate") /\ Order
  /\ UNCHANGED <<state, handle, child, asked, gate, loads, mine, owes, idleVars, request, operation,
                 manifest, forced>>

(* Already serving: activity.  Else a leftover process is taken.            *)
LoadEnter(l) ==
  /\ step[l] = "enter"
  /\ IF state = "loaded"
       THEN /\ Active(TRUE) /\ Returns(l, TRUE)
            /\ UNCHANGED <<handle, loads>>
       ELSE /\ loads' = loads + 1 /\ handle' = NoChild
            /\ mine' = [mine EXCEPT ![l] = handle]
            /\ Go(l, IF handle = NoChild THEN "prepare" ELSE "discard")
            /\ UNCHANGED <<idleVars, gate, request>>
  /\ UNCHANGED <<state, child, asked, owes, hostVars, forced>>

(* Mutant: the exit is waited for, the kill forgotten.                      *)
DiscardedAlive(l) ==
  /\ step[l] \in {"discard", "failed"}
  /\ Go(l, IF step[l] = "discard" THEN "discarding" ELSE "failing")
  /\ UNCHANGED <<state, handle, child, asked, gate, loads, mine, owes, restVars>>

(* discardRun: the kill, then a bounded wait for the exit.                  *)
Discarded(l) ==
  /\ step[l] \in {"discard", "failed"}
  /\ Mark(mine[l], "killed")
  /\ Go(l, IF step[l] = "discard" THEN "discarding" ELSE "failing")
  /\ UNCHANGED <<state, handle, child, gate, loads, mine, owes, restVars>>

DiscardedWait(l) ==
  /\ step[l] = "discarding" /\ Go(l, "prepare")
  /\ UNCHANGED <<state, handle, child, asked, gate, loads, mine, owes, restVars>>

(* The manifest, the port and the launch: refused, or loading.              *)
Prepare(l) ==
  /\ step[l] = "prepare"
  /\ \/ ~manifest /\ Transition("not_installed") /\ Go(l, "leave")
     \/ Transition("error") /\ Go(l, "leave")
     \/ manifest /\ Transition("loading") /\ Go(l, "spawn")
  /\ UNCHANGED <<handle, child, asked, gate, loads, mine, owes, request, hostVars, forced>>

SpawnServer(l) ==
  /\ step[l] = "spawn"
  /\ \/ Transition("error") /\ Go(l, "leave") /\ UNCHANGED <<child, mine>>
     \/ \E p \in Servers :
          /\ child[p] = "none" /\ \A q \in 1..(p - 1) : child[q] # "none"
          /\ child' = [child EXCEPT ![p] = "alive"]
          /\ mine' = [mine EXCEPT ![l] = p]
          /\ Go(l, "publish") /\ Stay
  /\ UNCHANGED <<handle, asked, gate, loads, owes, request, hostVars, forced>>

Publish(l) ==
  /\ step[l] = "publish"
  /\ handle' = mine[l] /\ Mark(mine[l], "supervised") /\ Go(l, "ready")
  /\ UNCHANGED <<state, child, gate, loads, mine, owes, restVars>>

(* waitReady: a probe is answered, or the process is dead, or the budget is *)
(* spent.                                                                   *)
WaitReady(l) ==
  /\ step[l] = "ready"
  /\ \/ child[mine[l]] = "alive" /\ Go(l, "claim") /\ UNCHANGED asked
     \/ Mark(mine[l], "abandoned") /\ Go(l, "failed")
  /\ UNCHANGED <<state, handle, child, gate, loads, mine, owes, restVars>>

LoadFailed(l) ==
  /\ step[l] = "failing"
  /\ Transition("error") /\ Go(l, "leave")
  /\ UNCHANGED <<handle, child, asked, gate, loads, mine, owes, request, hostVars, forced>>

(* Mutant: residency is not re-validated.                                   *)
ClaimBlind(l) ==
  /\ step[l] = "claim"
  /\ state' = "loaded" /\ Active(TRUE) /\ Go(l, "readback")
  /\ UNCHANGED <<handle, child, asked, gate, loads, mine, owes, request, hostVars, forced>>

(* Residency is re-validated against the published handle.                  *)
Claim(l) ==
  /\ step[l] = "claim"
  /\ IF handle = mine[l]
       THEN state' = "loaded" /\ Active(TRUE) /\ Go(l, "readback")
       ELSE /\ IF "expected" \in asked[mine[l]] THEN Transition("installed") ELSE Stay
            /\ Go(l, "leave")
  /\ UNCHANGED <<handle, child, asked, gate, loads, mine, owes, request, hostVars, forced>>

LeaveLoad(l) ==
  /\ step[l] \in {"leave", "readback"}
  /\ loads' = loads - 1 /\ Returns(l, step[l] = "readback")
  /\ UNCHANGED <<state, handle, child, asked, owes, idleVars, hostVars, forced>>

-----------------------------------------------------------------------------
(* Unload, Stop and the idle unload                                         *)

StopCall(u) ==
  /\ u \in Stoppers /\ step[u] = "off" /\ Go(u, "gate") /\ Order
  /\ UNCHANGED <<state, handle, child, asked, gate, loads, mine, owes, idleVars, request, operation,
                 manifest, forced>>

(* The context expires behind the gate: the idle unload gives up, the       *)
(* others stop without it.  Assumption: what a loaded server's gate is held *)
(* for takes less than the sixteen seconds of the idle unload.              *)
GateExpires(u) ==
  /\ step[u] = "gate" /\ gate # "free"
  /\ u = IdleTick => step[gate] \notin {"enter", "readback", "leave"}
  /\ Go(u, IF u = IdleTick THEN "off" ELSE "take")
  /\ UNCHANGED <<state, handle, child, asked, gate, loads, mine, owes, restVars>>

(* Mutant: the decision is not compared with the activity.                  *)
UnloadCheckBlind(u) ==
  /\ step[u] = "check" /\ Go(u, "mark")
  /\ UNCHANGED <<state, handle, child, asked, gate, loads, mine, owes, restVars>>

(* Mutant: the superseded unload returns with the gate.                     *)
UnloadCheckHolding(u) ==
  /\ step[u] = "check"
  /\ Go(u, IF u = IdleTick /\ moved THEN "off" ELSE "mark")
  /\ UNCHANGED <<state, handle, child, asked, gate, loads, mine, owes, restVars>>

UnloadCheck(u) ==
  /\ step[u] = "check"
  /\ IF u = IdleTick /\ moved THEN Returns(u, TRUE)
     ELSE Go(u, "mark") /\ UNCHANGED <<gate, mine, request>>
  /\ UNCHANGED <<state, handle, child, asked, loads, owes, idleVars, hostVars, forced>>

UnloadMark(u) ==
  /\ step[u] = "mark"
  /\ IF handle = NoChild
       THEN /\ IF state # "not_installed" THEN Transition("installed") ELSE Stay
            /\ Returns(u, TRUE) /\ UNCHANGED asked
       ELSE /\ Mark(handle, "expected") /\ Transition("unloading")
            /\ mine' = [mine EXCEPT ![u] = handle]
            /\ Go(u, "term") /\ UNCHANGED <<gate, request>>
  /\ UNCHANGED <<handle, child, loads, owes, hostVars, forced>>

(* terminate: the exit, in the graceful window or after the kill, or not.   *)
Ended(u) == child[mine[u]] = "died"

TermKill(u) ==
  /\ step[u] \in {"term", "fterm"} /\ ~Ended(u)
  /\ Mark(mine[u], "killed") /\ Go(u, IF step[u] = "term" THEN "hard" ELSE "fhard")
  /\ UNCHANGED <<state, handle, child, gate, loads, mine, owes, restVars>>

(* The gated stop: a stop that did not take keeps the handle.               *)
TermEnd(u) ==
  /\ step[u] \in {"term", "hard"} /\ (step[u] = "term" => Ended(u))
  /\ \E took \in BOOLEAN :
       /\ took => Ended(u)
       /\ handle' = IF took /\ handle = mine[u] THEN NoChild ELSE handle
       /\ Transition(IF took THEN "installed" ELSE "error")
       /\ Returns(u, took)
  /\ UNCHANGED <<child, asked, loads, owes, hostVars, forced>>

(* forceUnload: the handle is detached in one hold,                         *)
ForceTake(u) ==
  /\ step[u] = "take"
  /\ handle' = NoChild
  /\ IF handle = NoChild
       THEN Returns(u, FALSE) /\ UNCHANGED forced
       ELSE /\ mine' = [mine EXCEPT ![u] = handle] /\ forced' = TRUE
            /\ Go(u, "force") /\ UNCHANGED <<gate, request>>
  /\ UNCHANGED <<state, child, asked, loads, owes, idleVars, hostVars>>

(* marked in the next, which looks whether a load owes the terminal state,  *)
ForceMark(u) ==
  /\ step[u] = "force"
  /\ Mark(mine[u], "expected") /\ Transition("unloading")
  /\ owes' = IF loads > 0 /\ state = "loading" THEN owes \cup {u} ELSE owes
  /\ Go(u, "fterm")
  /\ UNCHANGED <<handle, child, gate, loads, mine, request, hostVars, forced>>

(* and re-attached if the stop did not take.                                *)
ForceEnd(u) ==
  /\ step[u] \in {"fterm", "fhard"} /\ (step[u] = "fterm" => Ended(u))
  /\ \/ /\ Ended(u)
        /\ IF u \in owes THEN Stay ELSE Transition("installed")
        /\ Returns(u, TRUE) /\ UNCHANGED handle
     \/ /\ step[u] = "fhard"
        /\ handle' = IF handle = NoChild THEN mine[u] ELSE handle
        /\ Transition("error") /\ Returns(u, FALSE)
  /\ owes' = owes \ {u}
  /\ UNCHANGED <<child, asked, loads, hostVars, forced>>

-----------------------------------------------------------------------------
(* The processes and their supervisors                                      *)

Exit(p) ==
  /\ child[p] = "alive"
  /\ child' = [child EXCEPT ![p] = "exited"]
  /\ UNCHANGED <<state, handle, asked, gate, loads, step, mine, owes, restVars>>

Supervise(p) ==
  /\ child[p] = "exited" /\ "supervised" \in asked[p]
  /\ child' = [child EXCEPT ![p] = "died"]
  /\ handle' = IF handle = p THEN NoChild ELSE handle
  /\ IF handle = p /\ "abandoned" \notin asked[p]
       THEN Transition(IF "expected" \in asked[p] THEN "installed" ELSE "error")
       ELSE Stay
  /\ UNCHANGED <<asked, gate, loads, step, mine, owes, request, hostVars, forced>>

-----------------------------------------------------------------------------
(* Requests and the idle expiry                                             *)

Begin(r) ==
  /\ request[r] = "go" /\ request' = [request EXCEPT ![r] = "sent"]
  /\ UNCHANGED <<state, handle, child, asked, gate, loads, step, mine, owes, idleVars, hostVars, forced>>

(* The wait budget or the request's own context ends: the load goes on.     *)
RequestGivesUp(r) ==
  /\ request[r] = "wait" /\ request' = [request EXCEPT ![r] = "off"]
  /\ UNCHANGED <<state, handle, child, asked, gate, loads, step, mine, owes, idleVars, hostVars, forced>>

(* The response is complete: activity first, then the count.                *)
Complete(r) ==
  /\ request[r] = "sent"
  /\ request' = [request EXCEPT ![r] = "done"]
  /\ Active(state = "loaded")
  /\ UNCHANGED <<state, handle, child, asked, gate, loads, step, mine, owes, hostVars, forced>>

End(r) ==
  /\ request[r] \in {"sent", "done"}
  /\ request' = [request EXCEPT ![r] = "off"]
  /\ UNCHANGED <<state, handle, child, asked, gate, loads, step, mine, owes, idleVars, hostVars, forced>>

InFlight == Cardinality({r \in Requests : request[r] \in {"sent", "done"}})

(* Assumption: no budget (a minute at least) runs out between the activity  *)
(* a load stamps for a request and the moment that request is counted.      *)
BetweenStampAndCount ==
  \/ \E r \in Requests : request[r] = "go"
  \/ step[Transport] = "readback"

Expire ==
  /\ timer \in {"set", "grace"} /\ step[IdleTick] = "off" /\ ~BetweenStampAndCount
  /\ timer' = "fired" /\ fresh' = FALSE /\ Go(IdleTick, "expired")
  /\ UNCHANGED <<state, handle, child, asked, gate, loads, mine, owes, graces, moved, leaked,
                 enabled, request, hostVars, forced>>

(* onIdleExpired: one hold re-checks everything and takes the generation.   *)
Decide ==
  /\ step[IdleTick] = "expired"
  /\ Go(IdleTick, IF state = "loaded" /\ timer # "off" /\ ~fresh THEN "count" ELSE "off")
  /\ moved' = FALSE /\ leaked' = (graces >= Patience)
  /\ UNCHANGED <<state, handle, child, asked, gate, loads, mine, owes, timer, fresh, graces,
                 enabled, request, hostVars, forced>>

(* The count is read outside it.                                            *)
CountRead ==
  /\ step[IdleTick] = "count"
  /\ Go(IdleTick, IF InFlight > 0 /\ ~leaked THEN "defer" ELSE "gate")
  /\ UNCHANGED <<state, handle, child, asked, gate, loads, mine, owes, restVars>>

(* Mutant: every deferral is a new episode.                                 *)
DeferAnew ==
  /\ step[IdleTick] = "defer" /\ Go(IdleTick, "off")
  /\ IF fresh /\ timer # "off" THEN UNCHANGED <<timer, fresh, graces>>
     ELSE IF state = "loaded" /\ enabled
       THEN timer' = "grace" /\ fresh' = TRUE /\ UNCHANGED graces
       ELSE timer' = "off" /\ graces' = 0 /\ UNCHANGED fresh
  /\ UNCHANGED <<state, handle, child, asked, gate, loads, mine, owes, moved, leaked, enabled,
                 request, hostVars, forced>>

(* deferIdleUnload: a budget that activity has just armed is kept; else a   *)
(* grace period, in the same episode.                                       *)
Defer ==
  /\ step[IdleTick] = "defer" /\ Go(IdleTick, "off")
  /\ IF fresh /\ timer # "off" THEN UNCHANGED <<timer, fresh, graces>>
     ELSE IF state = "loaded" /\ enabled
       THEN timer' = "grace" /\ fresh' = TRUE /\ graces' = graces + 1
       ELSE timer' = "off" /\ graces' = 0 /\ UNCHANGED fresh
  /\ UNCHANGED <<state, handle, child, asked, gate, loads, mine, owes, moved, leaked, enabled,
                 request, hostVars, forced>>

(* SetAutoUnload: re-armed from the existing stamp, which the new budget    *)
(* may have spent.                                                          *)
SetAutoUnload ==
  /\ Order /\ enabled' \in BOOLEAN
  /\ timer' = IF state = "loaded" /\ enabled' THEN "set" ELSE "off"
  /\ fresh' \in BOOLEAN /\ (BetweenStampAndCount /\ fresh => fresh') /\ graces' = 0
  /\ UNCHANGED <<state, handle, child, asked, gate, loads, step, mine, owes, moved, leaked, request,
                 operation, manifest, forced>>

-----------------------------------------------------------------------------
(* Install and removal                                                      *)

(* The operation gate is claimed and the server stopped first.              *)
Operate(kind) ==
  /\ operation = "idle" /\ step[Operator] = "off"
  /\ operation' = kind /\ Go(Operator, "gate") /\ Order
  /\ UNCHANGED <<state, handle, child, asked, gate, loads, mine, owes, idleVars, request, manifest, forced>>

(* What the operation does to the install record; an install can fail.      *)
Apply ==
  /\ step[Operator] = "apply"
  /\ \/ operation = "remove" /\ manifest' = FALSE /\ Go(Operator, "record")
     \/ operation = "install" /\ manifest' = TRUE /\ Go(Operator, "record")
     \/ operation = "install" /\ Go(Operator, "endop") /\ UNCHANGED manifest
  /\ UNCHANGED <<state, handle, child, asked, gate, loads, mine, owes, idleVars, request, operation,
                 orders, forced>>

(* SetInstalled: refused over a live server.                                *)
RecordChange ==
  /\ step[Operator] = "record"
  /\ IF handle = NoChild
       THEN Transition(IF operation = "install" THEN "installed" ELSE "not_installed")
       ELSE Stay
  /\ Go(Operator, "endop")
  /\ UNCHANGED <<handle, child, asked, gate, loads, mine, owes, request, hostVars, forced>>

EndOperation ==
  /\ step[Operator] = "endop" /\ Go(Operator, "off") /\ operation' = "idle"
  /\ UNCHANGED <<state, handle, child, asked, gate, loads, mine, owes, idleVars, request, manifest,
                 orders, forced>>

-----------------------------------------------------------------------------
(* The callers' choices, and what then happens of itself                    *)

LoadStep(l) ==
  \/ LoadEnter(l) \/ Discarded(l) \/ DiscardedWait(l) \/ Prepare(l) \/ SpawnServer(l) \/ Publish(l)
  \/ WaitReady(l) \/ LoadFailed(l) \/ Claim(l) \/ LeaveLoad(l)

StopperStep(u) ==
  \/ UnloadCheck(u) \/ UnloadMark(u) \/ TermKill(u) \/ TermEnd(u)
  \/ ForceTake(u) \/ ForceMark(u) \/ ForceEnd(u)

TickStep == Decide \/ CountRead \/ Defer
OperatorStep == Apply \/ RecordChange \/ EndOperation

Enters(c) == IF c \in Loaders THEN "enter" ELSE "check"

EmbedGo ==
  \/ \E c \in EmbedCalls : Acquire(c, Enters(c))
  \/ \E l \in Loaders : LoadStep(l)
  \/ \E u \in EmbedCalls \ Loaders : StopperStep(u) \/ GateExpires(u)
  \/ \E p \in Servers : Supervise(p)
  \/ \E r \in Requests : Begin(r)
  \/ Expire \/ TickStep \/ OperatorStep

EmbedNext ==
  \/ EmbedGo
  \/ \E r \in Requests : Request(r) \/ RequestGivesUp(r) \/ Complete(r) \/ End(r)
  \/ \E u \in Stoppers : StopCall(u)
  \/ \E p \in Servers : Exit(p)
  \/ \E kind \in {"install", "remove"} : Operate(kind)
  \/ LoadCall \/ SetAutoUnload

(* Go's scheduling; a channel serves those who wait for it in turn; timers  *)
(* fire.                                                                    *)
EmbedFairness ==
  /\ \A l \in Loaders : WF_embedVars(LoadStep(l))
  /\ \A u \in EmbedCalls \ Loaders : WF_embedVars(StopperStep(u))
  /\ \A c \in EmbedCalls : SF_embedVars(Acquire(c, Enters(c)))
  /\ WF_embedVars(TickStep) /\ WF_embedVars(OperatorStep)
  /\ WF_embedVars(\E r \in Requests : Begin(r)) /\ SF_embedVars(Expire)
EmbedSpec == EmbedInit /\ [][EmbedNext]_embedVars

-----------------------------------------------------------------------------
(* Properties                                                               *)

Running(p) == child[p] \in {"alive", "exited"} /\ "killed" \notin asked[p]

AllQuiet ==
  /\ \A c \in EmbedCalls : step[c] = "off"
  /\ \A p \in Servers : child[p] # "exited"

(* One model in memory: no second server is started beside one that nobody  *)
(* has killed, as long as every stop went through the gate.                 *)
OneServer == ~forced => Cardinality({p \in Servers : Running(p)}) <= 1

(* No server is forgotten: one that has not been killed is the published    *)
(* one, or a call that has it in hand will publish or kill it.  It could    *)
(* not be found again, by the next start of the application either.         *)
NoOrphan == \A p \in Servers :
  child[p] = "alive" /\ "killed" \notin asked[p] =>
    \/ handle = p
    \/ \E c \in EmbedCalls : mine[c] = p /\ step[c] \in
         {"publish", "discard", "failed", "ready", "force", "fterm"}

(* When everything is at rest the state tells what is in memory: loaded     *)
(* over a living server, installed or not over none, and never on its way.  *)
AtRestIs ==
  /\ state \notin {"loading", "unloading"}
  /\ state = "loaded" => handle # NoChild /\ child[handle] = "alive"
  /\ state \in {"installed", "not_installed"} => \A p \in Servers : ~Running(p)

AtRest == AllQuiet /\ ~forced => AtRestIs

(* At most one server is at work, somebody answers for it, and what the     *)
(* state reports when all is quiet is true of it.                           *)
ServerAccounted == OneServer /\ NoOrphan /\ AtRest

(* An idle expiry never cuts a generation short: it stops the server with   *)
(* no request under way, unless the count has outlasted a whole budget.     *)
IdleSparesRequests ==
  [][step[IdleTick] = "mark" /\ step'[IdleTick] = "term" =>
       leaked \/ \A r \in Requests : request[r] # "sent"]_embedVars

(* Every call comes back, whatever the process does.                        *)
EmbedCallsEnd == \A c \in EmbedCalls : []<>(step[c] = "off")

(* A leaked count does not pin the model: as long as the policy is on, the  *)
(* model is unloaded or used again.                                         *)
IdleUnloads == []<>(state # "loaded" \/ ~enabled \/ timer = "set")

(* A dead child is never reported as loaded, forced stops or not.           *)
DeadNeverLoaded == AllQuiet /\ state = "loaded" => handle # NoChild /\ child[handle] = "alive"
=============================================================================
