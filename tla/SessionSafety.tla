---------------------------- MODULE SessionSafety ----------------------------
(***************************************************************************)
(* Proofs of the central safety properties of a session, for any clients,  *)
(* runs, flows, messages, task rows and operations: one task at a time,    *)
(* the single-flight guard never fires, a compaction swaps the history     *)
(* alone, and an auto-resume takes no pause of the user; every message is  *)
(* in one place, and a late one outlives a forced run; a run that was      *)
(* stopped leaves no row to resume, and one that executes is no paused     *)
(* task; a run is reported as cancelled once; a shutdown cancels nothing.  *)
(***************************************************************************)
EXTENDS SessionProofs, FiniteSetTheorems

WaitAt == {"csignal", "cwait"}
SwapAt == {"swap", "cdefer", "cclear"}
EnterAt == {"start", "enter", "enterFresh"}

(* A flow between CompactSessionContext and phase 4 owns the compacting     *)
(* flag.                                                                    *)
FlowBound == \A f \in Flows : pc[f] \in WaitAt \cup SwapAt => compacting /\ compactFlow = f

(* A flow that waits does so for the run which has the session.             *)
FlowWaits ==
  ~stale => \A f \in Flows : pc[f] \in WaitAt /\ current # None => wait[f] = current

(* From its swap on, a flow has the session to itself.                      *)
SwapAlone == ~stale => \A f \in Flows : pc[f] \in SwapAt => current = None

(* Only a message run enters through HandleMessage.                         *)
ViaMsg == \A r \in Runs : pc[r] \in EnterAt => loc[r].via = "msg"

(* The request in flight is the current run's, which its engine executes.   *)
InFlightBound ==
  ~stale /\ inFlight =>
    current # None /\ pc[current] = "exec" /\ loc[current].via = "msg"

(* A standing pause of the user is the session's.                           *)
OwnerStands == userPause = "standing" => pauseOwner = "user"

(* The inductive invariant.                                                 *)
IInv ==
  /\ OneTask /\ FlowBound /\ FlowWaits /\ SwapAlone /\ ViaMsg /\ InFlightBound
  /\ OwnerStands

-----------------------------------------------------------------------------
(* No two kinds of goroutine share an identity, nor with None.               *)
LEMMA Apart ==
  /\ \A c \in Calls : c \in Procs /\ c \notin Runs /\ c \notin Flows /\ c # None
  /\ \A r \in Runs : r \in Procs /\ r \notin Calls /\ r \notin Flows /\ r # None
  /\ \A f \in Flows : f \in Procs /\ f \notin Calls /\ f \notin Runs /\ f # None
  BY ProcsAssumption DEF Procs

(* A step which leaves alone what the invariant is about.                    *)
LEMMA Quiet ==
  ASSUME TypeOK, IInv,
         UNCHANGED <<active, current, compacting, compactFlow, inFlight, pauseOwner,
                     userPause, stale>>,
         \A f \in Flows : /\ wait'[f] = wait[f]
                          /\ pc'[f] \in WaitAt => pc[f] \in WaitAt
                          /\ pc'[f] \in SwapAt => pc[f] \in SwapAt,
         \A r \in Runs : /\ Holds(r)' <=> Holds(r)
                         /\ pc'[r] \in EnterAt => pc[r] \in EnterAt
                         /\ pc[r] = "exec" => pc'[r] = "exec"
                         /\ pc'[r] \in EnterAt \cup {"exec"} => loc'[r].via = loc[r].via
  PROVE  IInv'
<1>1. OneTask'
  BY DEF IInv, OneTask
<1>2. FlowBound' /\ FlowWaits' /\ SwapAlone'
  BY DEF IInv, FlowBound, FlowWaits, SwapAlone
<1>3. ViaMsg'
  BY DEF IInv, ViaMsg
<1>4. InFlightBound'
  BY DEF IInv, InFlightBound, TypeOK
<1>5. OwnerStands'
  BY DEF IInv, OwnerStands
<1> QED BY <1>1, <1>2, <1>3, <1>4, <1>5 DEF IInv

(* A client call moves nobody but itself, and no call is a run or a flow.     *)
LEMMA CallQuiet ==
  ASSUME TypeOK, IInv, NEW c \in Calls, NEW l, Goto(c, l),
         UNCHANGED <<active, current, compacting, compactFlow, inFlight, pauseOwner,
                     userPause, stale>>,
         \A f \in Flows : wait'[f] = wait[f],
         \A r \in Runs : loc'[r].via = loc[r].via
  PROVE  IInv'
<1>1. \A p \in Runs \cup Flows : pc'[p] = pc[p]
  BY Apart DEF Goto, TypeOK
<1> QED BY <1>1, Quiet DEF Holds

(* A step of a run between two places of the same kind.                      *)
LEMMA RunQuiet ==
  ASSUME TypeOK, IInv, NEW r \in Runs, NEW l, Goto(r, l),
         pc[r] # "exec", l \in HoldAt <=> pc[r] \in HoldAt, l # "exec",
         l \in EnterAt => pc[r] \in EnterAt /\ loc'[r].via = loc[r].via,
         UNCHANGED <<active, current, compacting, compactFlow, inFlight, pauseOwner,
                     userPause, stale, wait>>,
         \A q \in Runs \ {r} : loc'[q] = loc[q]
  PROVE  IInv'
<1>1. pc'[r] = l /\ \A p \in Procs \ {r} : pc'[p] = pc[p]
  BY Apart DEF Goto, TypeOK
<1>2. \A f \in Flows : pc'[f] = pc[f]
  BY <1>1, Apart
<1>3. \A q \in Runs : /\ Holds(q)' <=> Holds(q)
                      /\ pc'[q] \in EnterAt => pc[q] \in EnterAt
                      /\ pc[q] = "exec" => pc'[q] = "exec"
                      /\ pc'[q] \in EnterAt \cup {"exec"} => loc'[q].via = loc[q].via
  BY <1>1, Apart DEF Holds
<1> QED BY <1>2, <1>3, Quiet

(* A step of a flow which stays on its side of the swap.                     *)
LEMMA FlowQuiet ==
  ASSUME TypeOK, IInv, NEW f \in Flows, NEW l, Goto(f, l),
         l \in WaitAt => pc[f] \in WaitAt, l \in SwapAt => pc[f] \in SwapAt,
         UNCHANGED <<active, current, compacting, compactFlow, inFlight, pauseOwner,
                     userPause, stale, wait>>,
         \A q \in Runs : loc'[q] = loc[q]
  PROVE  IInv'
<1>1. pc'[f] = l /\ \A p \in Procs \ {f} : pc'[p] = pc[p]
  BY Apart DEF Goto, TypeOK
<1>2. \A r \in Runs : pc'[r] = pc[r]
  BY <1>1, Apart
<1>3. \A g \in Flows : /\ pc'[g] \in WaitAt => pc[g] \in WaitAt
                       /\ pc'[g] \in SwapAt => pc[g] \in SwapAt
  BY <1>1, Apart
<1> QED BY <1>2, <1>3, Quiet DEF Holds

(* Cancelling contexts leaves the way a run was entered.                     *)
LEMMA KeepsVia ==
  ASSUME NEW l \in [Procs -> Locals], NEW p \in Procs
  PROVE  CancelRun(l)[p].via = l[p].via /\ CancelFlow(l)[p].via = l[p].via
  BY DEF CancelRun, CancelFlow, Locals

-----------------------------------------------------------------------------
(* The launch paths.                                                        *)
LaunchAt == {"gate", "route", "activate", "lookup", "resume"}

(* A step of a launch path that launches nothing.                            *)
LEMMA LaunchQuiet ==
  ASSUME TypeOK, IInv, NEW p \in Procs, pc[p] \in LaunchAt,
         NEW l \in LaunchAt \cup {After(p)}, Goto(p, l),
         UNCHANGED <<active, current, compacting, compactFlow, inFlight, pauseOwner,
                     userPause, stale, wait>>,
         \A q \in Runs : loc'[q].via = loc[q].via
  PROVE  IInv'
<1>1. l \in LaunchAt \cup {"done", "exit", "idle"}
  BY DEF After
<1>2. pc'[p] = l /\ \A q \in Procs \ {p} : pc'[q] = pc[q]
  BY DEF Goto, TypeOK
<1>3. \A f \in Flows : /\ pc'[f] \in WaitAt => pc[f] \in WaitAt
                       /\ pc'[f] \in SwapAt => pc[f] \in SwapAt
  BY <1>1, <1>2, Apart DEF LaunchAt, WaitAt, SwapAt
<1>4. \A r \in Runs : /\ Holds(r)' <=> Holds(r)
                      /\ pc'[r] \in EnterAt => pc[r] \in EnterAt
                      /\ pc[r] = "exec" => pc'[r] = "exec"
  BY <1>1, <1>2, Apart DEF LaunchAt, Holds, HoldAt, EnterAt
<1> QED BY <1>3, <1>4, Quiet

LEMMA LeftVia ==
  ASSUME TypeOK, NEW p \in Procs, loc' = [loc EXCEPT ![p] = Left(p)]
  PROVE  \A q \in Runs : loc'[q].via = loc[q].via
<1>1. \A q \in Runs : q # p => loc'[q] = loc[q]
  BY Apart DEF TypeOK
<1>2. p \in Runs => loc'[p].via = loc[p].via
  BY DEF TypeOK, Left, Locals
<1> QED BY <1>1, <1>2

LEMMA RefuseSafe ==
  ASSUME TypeOK, IInv, NEW p \in Procs, pc[p] \in LaunchAt,
         Refuse(p) \/ RefuseCompacting(p)
  PROVE  IInv'
<1>1. CASE Refuse(p)
  <2>1. \A q \in Runs : loc'[q].via = loc[q].via
    BY <1>1, LeftVia DEF Refuse
  <2> QED BY <1>1, <2>1, LaunchQuiet DEF Refuse, runVars, compactVars, orchVars
<1>2. CASE RefuseCompacting(p) /\ p \in Runs
  <2>1. Goto(p, After(p))
    BY <1>2, Apart DEF RefuseCompacting, After
  <2>2. \A q \in Runs : loc'[q].via = loc[q].via
    BY <1>2, LeftVia DEF RefuseCompacting
  <2> QED BY <1>2, <2>1, <2>2, LaunchQuiet DEF RefuseCompacting, runVars, compactVars
<1> QED BY <1>1, <1>2 DEF RefuseCompacting

(* The launch: unless the step is stale, the session had no run, and it has  *)
(* no flow that waits or swaps, for compacting was checked again.            *)
LEMMA ActivateSafe ==
  ASSUME TypeOK, IInv, NEW p \in Procs, pc[p] \in LaunchAt, NEW q \in Runs, NEW t,
         NEW via \in {"msg", "resume"}, Activate(p, q, via, t),
         ~compacting, ~stale' => ~active /\ ~stale
  PROVE  IInv'
<1>1. p # q /\ pc[q] = "idle" /\ current' = q /\ active' = TRUE
  BY DEF Activate
<1>2. /\ pc'[p] \in {"done", "exit", "idle"}
      /\ pc'[q] = IF via = "resume" THEN "reactivate" ELSE "start"
      /\ \A g \in Procs \ {p, q} : pc'[g] = pc[g]
  BY <1>1, Apart DEF Activate, After, TypeOK
<1>3. ~stale' => current = None /\ \A r \in Runs : ~Holds(r)
  BY Apart DEF IInv, OneTask, TypeOK
<1>4. OneTask'
  <2>1. ASSUME ~stale', NEW r \in Runs PROVE Holds(r)' <=> r = q
    <3>1. CASE r = q
      BY <1>2, <3>1 DEF Holds, HoldAt
    <3>2. CASE r = p
      BY <1>1, <1>2, <3>2 DEF Holds, HoldAt
    <3>3. CASE r # p /\ r # q
      BY <1>2, <1>3, <2>1, <3>3, Apart DEF Holds
    <3> QED BY <3>1, <3>2, <3>3
  <2> QED BY <1>1, <2>1, Apart DEF OneTask
<1>5. \A f \in Flows : pc'[f] \notin WaitAt \cup SwapAt
  <2> TAKE f \in Flows
  <2>1. pc[f] \notin WaitAt \cup SwapAt
    BY DEF IInv, FlowBound
  <2>2. f # q
    BY Apart
  <2> QED BY <1>2, <2>1, <2>2, Apart DEF WaitAt, SwapAt
<1>6. FlowBound' /\ FlowWaits' /\ SwapAlone'
  BY <1>5 DEF FlowBound, FlowWaits, SwapAlone
<1>7. ViaMsg'
  <2> SUFFICES ASSUME NEW r \in Runs, pc'[r] \in EnterAt PROVE loc'[r].via = "msg"
    BY DEF ViaMsg
  <2>1. r # p
    BY <1>2 DEF EnterAt
  <2>2. CASE r = q
    <3>1. via = "msg"
      BY <1>2, <2>2 DEF EnterAt
    <3>2. loc'[q] = [Blank EXCEPT !.text = loc[p].text, !.tid = t, !.goal = loc[p].goal,
                                  !.via = via]
      BY <1>1, Apart DEF Activate, TypeOK
    <3> QED BY <2>2, <3>1, <3>2 DEF Blank
  <2>3. CASE r # q
    <3>1. pc'[r] = pc[r] /\ loc'[r] = loc[r]
      BY <1>2, <2>1, <2>3, Apart DEF Activate, TypeOK
    <3> QED BY <3>1 DEF IInv, ViaMsg
  <2> QED BY <2>2, <2>3
<1>8. InFlightBound'
  BY <1>3 DEF Activate, orchVars, IInv, InFlightBound
<1>9. OwnerStands'
  BY DEF Activate, OwnerStands
<1> QED BY <1>4, <1>6, <1>7, <1>8, <1>9 DEF IInv

LEMMA LaunchSafe ==
  ASSUME TypeOK, IInv, NEW p \in Procs, LaunchStep(p) PROVE IInv'
<1> USE DEF LaunchAt
<1>1. CASE SendGate(p)
  <2>1. CASE Refuse(p) \/ RefuseCompacting(p)
    BY <1>1, <2>1, RefuseSafe DEF SendGate
  <2>2. CASE /\ loc' = [loc EXCEPT ![p] = Left(p)]
             /\ Goto(p, After(p))
             /\ UNCHANGED <<runVars, lifeVars, compactVars, inFlight, pause, armed,
                            storeVars, wait, told, userPause, stale>>
    BY <1>1, <2>2, LeftVia, LaunchQuiet DEF SendGate, runVars, compactVars
  <2>3. CASE /\ Goto(p, "route")
             /\ UNCHANGED <<runVars, lifeVars, compactVars, orchVars, storeVars, loc,
                            wait, ghostVars>>
    BY <1>1, <2>3, LaunchQuiet DEF SendGate, runVars, compactVars, orchVars, ghostVars
  <2> QED BY <1>1, <2>1, <2>2, <2>3 DEF SendGate
<1>2. CASE SendRoute(p)
  BY <1>2, LaunchQuiet DEF SendRoute, runVars, compactVars, orchVars, ghostVars
<1>3. CASE SendActivate(p)
  <2>1. CASE RefuseCompacting(p)
    BY <1>3, <2>1, RefuseSafe DEF SendActivate
  <2>2. ASSUME NEW q \in Runs, ~compacting, Activate(p, q, "msg", NoTask),
               stale' = (stale \/ active \/ deleting \/ archived \/ ~present \/ shuttingDown)
        PROVE  IInv'
    BY <1>3, <2>2, ActivateSafe DEF SendActivate
  <2> QED BY <1>3, <2>1, <2>2 DEF SendActivate
<1>4. CASE ResumeLookup(p)
  <2>1. CASE Refuse(p)
    BY <1>4, <2>1, RefuseSafe DEF ResumeLookup
  <2>2. CASE /\ Goto(p, After(p))
             /\ loc' = [loc EXCEPT ![p] = Left(p)]
             /\ UNCHANGED <<runVars, lifeVars, compactVars, orchVars, storeVars, wait,
                            told, userPause, stale>>
    BY <1>4, <2>2, LeftVia, LaunchQuiet
       DEF ResumeLookup, runVars, compactVars, orchVars
  <2>3. CASE /\ Goto(p, "resume")
             /\ loc' = [loc EXCEPT ![p].tid = Unfinished, ![p].goal = goal[Unfinished]]
             /\ UNCHANGED <<runVars, lifeVars, compactVars, orchVars, storeVars, wait,
                            ghostVars>>
    <3>1. \A q \in Runs : loc'[q].via = loc[q].via
      BY <2>3, Apart DEF TypeOK, Locals
    <3> QED
      BY <1>4, <2>3, <3>1, LaunchQuiet
         DEF ResumeLookup, runVars, compactVars, orchVars, ghostVars
  <2> QED BY <1>4, <2>1, <2>2, <2>3 DEF ResumeLookup
<1>5. CASE ResumeActivate(p)
  <2>1. CASE Refuse(p) \/ RefuseCompacting(p)
    BY <1>5, <2>1, RefuseSafe DEF ResumeActivate
  <2>2. ASSUME NEW q \in Runs, ~active, ~compacting,
               Activate(p, q, "resume", loc[p].tid), UNCHANGED stale
        PROVE  IInv'
    BY <1>5, <2>2, ActivateSafe DEF ResumeActivate
  <2> QED BY <1>5, <2>1, <2>2 DEF ResumeActivate
<1> QED BY <1>1, <1>2, <1>3, <1>4, <1>5 DEF LaunchStep

-----------------------------------------------------------------------------
(* The calls.                                                               *)

(* A call opens: only a pause and a compaction touch what the invariant is    *)
(* about.                                                                   *)
LEMMA BeginSafe ==
  ASSUME TypeOK, IInv, NEW c \in Calls, Begin(c) PROVE IInv'
<1>1. ASSUME NEW m \in Msgs, NEW g \in BOOLEAN, SendCall(c, m, g) PROVE IInv'
  <2>1. \A r \in Runs : loc'[r].via = loc[r].via
    BY <1>1, Apart DEF SendCall, TypeOK
  <2> QED
    BY <1>1, <2>1, CallQuiet DEF SendCall, runVars, compactVars, orchVars
<1>2. CASE ResumeCall(c)
  BY <1>2, CallQuiet DEF ResumeCall, runVars, compactVars, orchVars, ghostVars
<1>3. CASE StopCall(c)
  <2>1. PICK l : Goto(c, l)
    BY <1>3 DEF StopCall, Over
  <2>2. \A r \in Runs : loc'[r].via = loc[r].via
    <3>1. CASE loc' = loc \/ Over(c)
      BY <3>1, Apart DEF Over, TypeOK
    <3>2. CASE loc' = CancelContext(current)
      BY <3>2, Apart DEF CancelContext, TypeOK, Locals
    <3> QED BY <1>3, <3>1, <3>2 DEF StopCall
  <2>3. \A f \in Flows : wait'[f] = wait[f]
    BY <1>3, Apart DEF StopCall, TypeOK
  <2> QED
    BY <1>3, <2>1, <2>2, <2>3, CallQuiet
       DEF StopCall, runVars, compactVars, orchVars, ghostVars
<1>4. CASE PauseCall(c)
  <2>1. \A p \in Runs \cup Flows : pc'[p] = pc[p]
    BY <1>4, Apart DEF PauseCall, Goto, TypeOK
  <2>2. UNCHANGED <<active, current, compacting, compactFlow, inFlight, loc, wait, stale>>
    BY <1>4 DEF PauseCall, compactVars, orchVars
  <2>3. OneTask' /\ ViaMsg'
    BY <2>1, <2>2 DEF IInv, OneTask, ViaMsg, Holds
  <2>4. FlowBound' /\ FlowWaits' /\ SwapAlone'
    BY <2>1, <2>2 DEF IInv, FlowBound, FlowWaits, SwapAlone
  <2>5. InFlightBound'
    BY <2>1, <2>2 DEF IInv, InFlightBound, TypeOK
  <2>6. OwnerStands'
    BY <1>4 DEF PauseCall, OwnerStands
  <2> QED BY <2>3, <2>4, <2>5, <2>6 DEF IInv
<1>5. CASE CompactCall(c)
  <2>1. PICK f \in Flows :
          /\ compacting' = TRUE /\ compactFlow' = f
          /\ pc' = [pc EXCEPT ![c] = "done", ![f] = IF active THEN "csignal" ELSE "swap"]
          /\ loc' = [loc EXCEPT ![f] = [Blank EXCEPT !.flag = active]]
          /\ wait' = [wait EXCEPT ![f] = IF active THEN current ELSE None]
    BY <1>5 DEF CompactCall
  <2>2. /\ UNCHANGED <<active, current, inFlight, userPause, stale>>
        /\ ~compacting /\ pauseOwner' = OwnerArmed
    BY <1>5 DEF CompactCall, orchVars, ghostVars
  <2>3. \A r \in Runs : pc'[r] = pc[r] /\ loc'[r] = loc[r]
    BY <2>1, Apart DEF TypeOK
  <2>4. /\ pc'[f] = IF active THEN "csignal" ELSE "swap"
        /\ wait'[f] = IF active THEN current ELSE None
        /\ \A g \in Flows \ {f} : pc'[g] = pc[g] /\ pc'[g] \notin WaitAt \cup SwapAt
    <3>1. \A g \in Flows : pc[g] \notin WaitAt \cup SwapAt
      BY <2>2 DEF IInv, FlowBound
    <3> QED BY <2>1, <3>1, Apart DEF TypeOK
  <2>5. OneTask' /\ ViaMsg'
    BY <2>2, <2>3 DEF IInv, OneTask, ViaMsg, Holds
  <2>6. FlowBound'
    BY <2>1, <2>4 DEF FlowBound
  <2>7. FlowWaits'
    <3>1. CASE active
      BY <2>2, <2>4, <3>1 DEF FlowWaits
    <3>2. CASE ~active
      BY <2>2, <2>4, <3>2 DEF FlowWaits, WaitAt
    <3> QED BY <3>1, <3>2
  <2>8. SwapAlone'
    <3>1. CASE active
      BY <2>2, <2>4, <3>1 DEF SwapAlone, SwapAt
    <3>2. CASE ~active
      BY <2>2, <2>4, <3>2 DEF SwapAlone, IInv, OneTask
    <3> QED BY <3>1, <3>2
  <2>9. InFlightBound'
    BY <2>2, <2>3 DEF IInv, InFlightBound, TypeOK
  <2>10. OwnerStands'
    BY <2>2 DEF IInv, OwnerStands, OwnerArmed
  <2> QED BY <2>5, <2>6, <2>7, <2>8, <2>9, <2>10 DEF IInv
<1>6. CASE CancelCompactCall(c)
  <2>1. \A r \in Runs : loc'[r].via = loc[r].via
    BY <1>6, KeepsVia, Apart DEF CancelCompactCall, TypeOK
  <2> QED
    BY <1>6, <2>1, CallQuiet
       DEF CancelCompactCall, runVars, compactVars, orchVars, ghostVars
<1>7. CASE ArchiveCall(c)
  <2>1. \A r \in Runs : loc'[r].via = loc[r].via
    <3> DEFINE was == IF archived THEN loc ELSE CancelRun(loc)
    <3>1. \A r \in Runs : was[r].via = loc[r].via
      BY KeepsVia, Apart DEF TypeOK
    <3>2. was \in [Procs -> Locals]
      BY Cancels DEF TypeOK
    <3>3. loc' = [was EXCEPT ![c].flag = ~archived]
      BY <1>7 DEF ArchiveCall
    <3> HIDE DEF was
    <3> QED BY <3>1, <3>2, <3>3, Apart
  <2> QED
    BY <1>7, <2>1, CallQuiet
       DEF ArchiveCall, runVars, compactVars, orchVars, ghostVars
<1>8. CASE DeleteCall(c)
  <2>1. \A r \in Runs : loc'[r].via = loc[r].via
    BY <1>8, KeepsVia, Cancels, Apart DEF DeleteCall, TypeOK
  <2> QED
    BY <1>8, <2>1, CallQuiet
       DEF DeleteCall, runVars, compactVars, orchVars, ghostVars
<1>9. CASE ShutdownCall(c)
  BY <1>9, CallQuiet DEF ShutdownCall, runVars, compactVars, orchVars, ghostVars
<1> QED
  BY <1>1, <1>2, <1>3, <1>4, <1>5, <1>6, <1>7, <1>8, <1>9 DEF Begin

(* What a call does next disturbs none of it.                               *)
LEMMA CallSafe ==
  ASSUME TypeOK, IInv, NEW c \in Calls, CallStep(c) PROVE IInv'
<1> USE DEF Over
<1>0. ASSUME Over(c) PROVE \A r \in Runs : loc'[r].via = loc[r].via
  BY <1>0, Apart DEF TypeOK
<1>1. CASE LaunchStep(c)
  BY <1>1, LaunchSafe, Apart
<1>2. CASE StopDiscard(c)
  BY <1>0, <1>2, CallQuiet DEF StopDiscard, runVars, compactVars, ghostVars
<1>3. CASE StopReturn(c)
  BY <1>0, <1>3, CallQuiet DEF StopReturn, runVars, compactVars, orchVars, ghostVars
<1>4. CASE StopTimeout(c)
  BY <1>4, CallQuiet DEF StopTimeout, runVars, compactVars, orchVars, ghostVars
<1>5. CASE StopClaim(c)
  <2>1. PICK l : Goto(c, l)
    BY <1>5 DEF StopClaim
  <2>2. \A r \in Runs : loc'[r].via = loc[r].via
    BY <1>0, <1>5 DEF StopClaim
  <2>3. \A f \in Flows : wait'[f] = wait[f]
    BY <1>5, Apart DEF StopClaim, TypeOK
  <2> QED
    BY <1>5, <2>1, <2>2, <2>3, CallQuiet DEF StopClaim, compactVars, orchVars, ghostVars
<1>6. CASE StopForce(c)
  <2>1. \A f \in Flows : wait'[f] = wait[f]
    BY <1>6, Apart DEF StopForce, TypeOK
  <2> QED
    BY <1>0, <1>6, <2>1, CallQuiet DEF StopForce, runVars, compactVars
<1>7. CASE PauseSignal(c)
  BY <1>7, CallQuiet DEF PauseSignal, RaisePause, runVars, compactVars, ghostVars
<1>8. CASE ArchiveDiscard(c)
  BY <1>8, CallQuiet DEF ArchiveDiscard, runVars, compactVars, ghostVars
<1>9. CASE ArchiveSet(c)
  BY <1>0, <1>9, CallQuiet DEF ArchiveSet, runVars, compactVars, orchVars, ghostVars
<1>10. CASE DeleteRemove(c)
  BY <1>10, CallQuiet DEF DeleteRemove, runVars, compactVars, orchVars, ghostVars
<1>11. CASE ShutdownCollect(c)
  <2>1. \A r \in Runs : loc'[r].via = loc[r].via
    <3> DEFINE was == CancelFlow(CancelRun(loc))
               running == active /\ current # None
    <3>1. was \in [Procs -> Locals]
      BY Cancels DEF TypeOK
    <3>2. \A r \in Runs : was[r].via = loc[r].via
      BY KeepsVia, Cancels, Apart DEF TypeOK
    <3>3. loc' = IF present THEN [was EXCEPT ![c].flag = running] ELSE loc
      BY <1>11 DEF ShutdownCollect
    <3> HIDE DEF was, running
    <3> QED BY <3>1, <3>2, <3>3, Apart
  <2> QED
    BY <1>11, <2>1, CallQuiet
       DEF ShutdownCollect, runVars, compactVars, orchVars, ghostVars
<1>12. CASE ShutdownCheckpoint(c)
  BY <1>0, <1>12, CallQuiet
     DEF ShutdownCheckpoint, runVars, compactVars, orchVars, ghostVars
<1> QED
  BY <1>1, <1>2, <1>3, <1>4, <1>5, <1>6, <1>7, <1>8, <1>9, <1>10, <1>11, <1>12
     DEF CallStep

-----------------------------------------------------------------------------
(* A run that gives the session up: it is the current one, so no run has the *)
(* session any more.                                                        *)
LEMMA ReleaseSafe ==
  ASSUME TypeOK, IInv, NEW r \in Runs, pc[r] \in {"keep", "drop", "release"},
         Deactivate(r), NEW l \in {"exit", "complete"}, Goto(r, l),
         \A q \in Runs \ {r} : loc'[q] = loc[q]
  PROVE  IInv'
<1>1. pc'[r] = l /\ \A p \in Procs \ {r} : pc'[p] = pc[p]
  BY Apart DEF Goto, TypeOK
<1>2. /\ active' = FALSE /\ current' = None
      /\ UNCHANGED <<pauseOwner, compacting, compactFlow, inFlight, wait, userPause, stale>>
  BY DEF Deactivate, compactVars
<1>3. ~stale => current = r /\ ~inFlight
  <2>1. Holds(r) /\ pc[r] # "exec"
    BY DEF Holds, HoldAt
  <2> QED BY <2>1 DEF IInv, OneTask, InFlightBound
<1>4. \A f \in Flows : pc'[f] = pc[f]
  BY <1>1, Apart
<1>5. OneTask'
  <2>1. ASSUME ~stale, NEW q \in Runs PROVE ~Holds(q)'
    <3>1. CASE q = r
      BY <1>1, <3>1 DEF Holds, HoldAt
    <3>2. CASE q # r
      <4>1. ~Holds(q)
        BY <1>3, <2>1, <3>2 DEF IInv, OneTask
      <4> QED BY <1>1, <3>2, <4>1, Apart DEF Holds
    <3> QED BY <3>1, <3>2
  <2> QED BY <1>2, <2>1, Apart DEF OneTask
<1>6. FlowBound' /\ FlowWaits' /\ SwapAlone'
  BY <1>2, <1>4 DEF IInv, FlowBound, FlowWaits, SwapAlone
<1>7. ViaMsg'
  <2> SUFFICES ASSUME NEW q \in Runs, pc'[q] \in EnterAt PROVE loc'[q].via = "msg"
    BY DEF ViaMsg
  <2>1. q # r
    BY <1>1 DEF EnterAt
  <2> QED BY <1>1, <2>1, Apart DEF IInv, ViaMsg
<1>8. InFlightBound' /\ OwnerStands'
  BY <1>2, <1>3 DEF IInv, InFlightBound, OwnerStands
<1> QED BY <1>5, <1>6, <1>7, <1>8 DEF IInv

(* The steps of a run.                                                      *)
LEMMA RunSafe ==
  ASSUME TypeOK, IInv, NEW r \in Runs, RunStep(r) \/ EngineReturn(r) PROVE IInv'
<1> USE DEF HoldAt, EnterAt
<1>0. /\ r \in Procs
      /\ \A l : loc' = [loc EXCEPT ![r] = l] => \A q \in Runs \ {r} : loc'[q] = loc[q]
  BY Apart DEF TypeOK
<1>1. CASE RunReactivate(r)
  BY <1>1, RunQuiet DEF RunReactivate, runVars, compactVars, orchVars, ghostVars
<1>2. CASE RunTakeover(r)
  BY <1>2, RunQuiet DEF RunTakeover, runVars, compactVars, ghostVars
<1>3. CASE RunContinue(r)
  <2>1. CASE Goto(r, "enter") /\ UNCHANGED loc
    BY <1>3, <2>1, RunQuiet DEF RunContinue, runVars, compactVars, orchVars, ghostVars
  <2>2. CASE /\ Goto(r, "enterResume")
             /\ loc' = [loc EXCEPT ![r].tid = Unfinished,
                                   ![r].goal = goal[Unfinished], ![r].via = "cont"]
    BY <1>0, <1>3, <2>2, RunQuiet
       DEF RunContinue, runVars, compactVars, orchVars, ghostVars
  <2> QED BY <1>3, <2>1, <2>2 DEF RunContinue
<1>4. CASE HandleCommit(r)
  <2>1. pc'[r] = "exec" /\ \A p \in Procs \ {r} : pc'[p] = pc[p]
    BY <1>0, <1>4 DEF HandleCommit, Goto, TypeOK
  <2>2. /\ UNCHANGED <<active, current, pauseOwner, compacting, compactFlow, wait,
                       userPause, stale>>
        /\ pc[r] \in {"enter", "enterFresh"}
    BY <1>4 DEF HandleCommit, runVars, compactVars
  <2>3. \A q \in Runs : Holds(q)' <=> Holds(q)
    BY <2>1, <2>2, Apart DEF Holds
  <2>4. \A f \in Flows : pc'[f] = pc[f]
    BY <2>1, Apart
  <2>5. loc'[r].via = "msg" /\ \A q \in Runs \ {r} : loc'[q] = loc[q]
    <3>1. loc[r].via = "msg"
      BY <2>2 DEF IInv, ViaMsg
    <3>2. loc'[r].via = loc[r].via
      BY <1>0, <1>4 DEF HandleCommit, TypeOK, Locals
    <3> QED BY <1>0, <1>4, <3>1, <3>2 DEF HandleCommit
  <2>6. OneTask'
    BY <2>2, <2>3 DEF IInv, OneTask
  <2>7. FlowBound' /\ FlowWaits' /\ SwapAlone'
    BY <2>2, <2>4 DEF IInv, FlowBound, FlowWaits, SwapAlone
  <2>8. ViaMsg'
    BY <2>1, <2>5, Apart DEF IInv, ViaMsg
  <2>9. InFlightBound'
    <3>1. ~stale => current = r /\ r # None
      BY <2>2, Apart DEF IInv, OneTask, Holds
    <3> QED BY <2>1, <2>2, <2>5, <3>1 DEF InFlightBound
  <2>10. OwnerStands'
    BY <2>2 DEF IInv, OwnerStands
  <2> QED BY <2>6, <2>7, <2>8, <2>9, <2>10 DEF IInv
<1>5. CASE HandleFail(r)
  <2>1. \A q \in Runs \ {r} : loc'[q] = loc[q]
    BY <1>0, <1>5 DEF HandleFail
  <2> QED BY <1>5, <2>1, RunQuiet DEF HandleFail, runVars, compactVars, ghostVars
<1>6. CASE ResumeEnter(r)
  <2>1. pc'[r] = "exec" /\ \A p \in Procs \ {r} : pc'[p] = pc[p]
    BY <1>0, <1>6 DEF ResumeEnter, Goto, TypeOK
  <2>2. /\ UNCHANGED <<active, current, pauseOwner, compacting, compactFlow, wait,
                       userPause, stale, inFlight>>
        /\ pc[r] = "enterResume"
    BY <1>6 DEF ResumeEnter, runVars, compactVars
  <2>3. \A q \in Runs : /\ Holds(q)' <=> Holds(q)
                        /\ loc'[q].via = loc[q].via
                        /\ pc'[q] \in EnterAt => pc[q] \in EnterAt
                        /\ pc[q] = "exec" => pc'[q] = "exec"
    <3>1. \A q \in Runs : loc'[q].via = loc[q].via
      BY <1>6, Apart DEF ResumeEnter, TypeOK, Locals
    <3> QED BY <2>1, <2>2, <3>1, Apart DEF Holds
  <2>4. \A f \in Flows : pc'[f] = pc[f]
    BY <2>1, Apart
  <2> QED BY <2>2, <2>3, <2>4, Quiet
<1>7. CASE ResumeFail(r)
  <2>1. \A q \in Runs \ {r} : loc'[q] = loc[q]
    BY <1>0, <1>7 DEF ResumeFail
  <2> QED
    BY <1>7, <2>1, RunQuiet DEF ResumeFail, runVars, compactVars, orchVars, ghostVars
<1>8. CASE Deliver(r)
  BY <1>8, Quiet DEF Deliver, runVars, compactVars, procVars, Holds
<1>9. CASE JudgeRetry(r)
  <2>1. loc[r].via = "msg"
    BY <1>9 DEF JudgeRetry, RetriesFresh
  <2>2. pc'[r] = "enterFresh" /\ \A p \in Procs \ {r} : pc'[p] = pc[p]
    BY <1>0, <1>9 DEF JudgeRetry, Goto, TypeOK
  <2>3. /\ UNCHANGED <<active, current, pauseOwner, compacting, compactFlow, wait,
                       userPause, stale, inFlight, loc>>
        /\ pc[r] = "judge"
    BY <1>9 DEF JudgeRetry, runVars, compactVars, orchVars, ghostVars
  <2>4. \A q \in Runs : Holds(q)' <=> Holds(q)
    BY <2>2, <2>3, Apart DEF Holds
  <2>5. \A f \in Flows : pc'[f] = pc[f]
    BY <2>2, Apart
  <2>6. OneTask' /\ OwnerStands'
    BY <2>3, <2>4 DEF IInv, OneTask, OwnerStands
  <2>7. FlowBound' /\ FlowWaits' /\ SwapAlone'
    BY <2>3, <2>5 DEF IInv, FlowBound, FlowWaits, SwapAlone
  <2>8. ViaMsg'
    BY <2>1, <2>2, <2>3, Apart DEF IInv, ViaMsg
  <2>9. InFlightBound'
    <3>1. ~stale => ~inFlight
      BY <2>3 DEF IInv, InFlightBound, OneTask, Holds
    <3> QED BY <2>3, <3>1 DEF InFlightBound
  <2> QED BY <2>6, <2>7, <2>8, <2>9 DEF IInv
<1>10. CASE JudgeCancelled(r)
  <2>1. PICK l \in {"keep", "settle"} : Goto(r, l)
    BY <1>10 DEF JudgeCancelled
  <2>2. \A q \in Runs \ {r} : loc'[q] = loc[q]
    BY <1>0, <1>10 DEF JudgeCancelled
  <2> QED BY <1>10, <2>1, <2>2, RunQuiet DEF JudgeCancelled, compactVars, orchVars
<1>11. CASE JudgeError(r)
  <2>1. \A q \in Runs \ {r} : loc'[q] = loc[q]
    BY <1>0, <1>11 DEF JudgeError
  <2> QED BY <1>11, <2>1, RunQuiet DEF JudgeError, runVars, compactVars, orchVars
<1>12. CASE JudgeDone(r)
  <2>1. PICK l \in {"keep", "release"} : Goto(r, l)
    BY <1>12 DEF JudgeDone
  <2> QED
    BY <1>12, <2>1, RunQuiet DEF JudgeDone, runVars, compactVars, orchVars, ghostVars
<1>13. CASE RunSettle(r)
  <2>1. \A q \in Runs \ {r} : loc'[q] = loc[q]
    BY <1>0, <1>13 DEF RunSettle
  <2> QED BY <1>13, <2>1, RunQuiet DEF RunSettle, runVars, compactVars, orchVars
<1>14. CASE ReleaseKeep(r)
  <2>1. \A q \in Runs \ {r} : loc'[q] = loc[q]
    BY <1>0, <1>14 DEF ReleaseKeep
  <2> QED BY <1>14, <2>1, ReleaseSafe DEF ReleaseKeep
<1>15. CASE ReleaseDrop(r)
  BY <1>15, ReleaseSafe DEF ReleaseDrop
<1>16. CASE ReleaseFollowUp(r)
  <2>1. \A q \in Runs \ {r} : loc'[q] = loc[q]
    BY <1>0, <1>16 DEF ReleaseFollowUp
  <2> QED BY <1>16, <2>1, ReleaseSafe DEF ReleaseFollowUp
<1>17. CASE RunComplete(r)
  <2>1. PICK l \in {"exit", "gate"} : Goto(r, l)
    BY <1>17 DEF RunComplete
  <2> QED BY <1>17, <2>1, RunQuiet DEF RunComplete, runVars, compactVars, orchVars
<1>18. CASE RunExit(r)
  <2>1. pc[r] = "exit" /\ pc'[r] = "idle" /\ \A p \in Procs \ {r} : pc'[p] = pc[p]
    BY <1>0, <1>18 DEF RunExit, Goto, TypeOK
  <2>2. UNCHANGED <<active, current, pauseOwner, compacting, compactFlow, inFlight,
                    userPause, stale>>
    BY <1>18 DEF RunExit, runVars, compactVars, orchVars
  <2>3. \A q \in Runs : Holds(q)' <=> Holds(q)
    BY <2>1, Apart DEF Holds
  <2>4. \A f \in Flows : pc'[f] = pc[f]
    BY <2>1, Apart
  <2>5. \A q \in Runs \ {r} : loc'[q] = loc[q]
    BY <1>0, <1>18 DEF RunExit
  <2>6. OneTask' /\ OwnerStands'
    BY <2>2, <2>3 DEF IInv, OneTask, OwnerStands
  <2>7. FlowBound' /\ SwapAlone'
    BY <2>2, <2>4 DEF IInv, FlowBound, SwapAlone
  <2>8. FlowWaits'
    <3>1. ~stale => current # r
      BY <2>1 DEF IInv, OneTask, Holds
    <3>2. \A f \in Flows : wait'[f] = IF wait[f] = r THEN None ELSE wait[f]
      BY <1>18 DEF RunExit
    <3> QED BY <2>2, <2>4, <3>1, <3>2 DEF IInv, FlowWaits
  <2>9. ViaMsg'
    BY <2>1, <2>5, Apart DEF IInv, ViaMsg
  <2>10. InFlightBound'
    <3>1. ~stale => current # r
      BY <2>1 DEF IInv, OneTask, Holds
    <3> QED BY <2>1, <2>2, <2>5, <3>1, Apart DEF IInv, InFlightBound, TypeOK
  <2> QED BY <2>6, <2>7, <2>8, <2>9, <2>10 DEF IInv
<1>19. CASE EngineReturn(r)
  <2>1. pc[r] = "exec" /\ pc'[r] = "judge" /\ \A p \in Procs \ {r} : pc'[p] = pc[p]
    BY <1>0, <1>19 DEF EngineReturn, Goto, TypeOK
  <2>2. UNCHANGED <<active, current, pauseOwner, compacting, compactFlow, wait,
                    userPause, stale>>
    BY <1>19 DEF EngineReturn, runVars, compactVars, ghostVars
  <2>3. \A q \in Runs : Holds(q)' <=> Holds(q)
    BY <2>1, Apart DEF Holds
  <2>4. \A f \in Flows : pc'[f] = pc[f]
    BY <2>1, Apart
  <2>5. \A q \in Runs \ {r} : loc'[q] = loc[q]
    BY <1>0, <1>19 DEF EngineReturn
  <2>6. OneTask' /\ OwnerStands'
    BY <2>2, <2>3 DEF IInv, OneTask, OwnerStands
  <2>7. FlowBound' /\ FlowWaits' /\ SwapAlone'
    BY <2>2, <2>4 DEF IInv, FlowBound, FlowWaits, SwapAlone
  <2>8. ViaMsg'
    BY <2>1, <2>5, Apart DEF IInv, ViaMsg
  <2>9. ~stale => ~inFlight'
    <3>1. inFlight' = (inFlight /\ loc[r].via # "msg")
      BY <1>19 DEF EngineReturn, StillInFlight
    <3>2. ~stale => current = r
      BY <2>1 DEF IInv, OneTask, Holds
    <3> QED BY <3>1, <3>2 DEF IInv, InFlightBound
  <2>10. InFlightBound'
    BY <2>2, <2>9 DEF InFlightBound
  <2> QED BY <2>6, <2>7, <2>8, <2>10 DEF IInv
<1>20. CASE LaunchStep(r)
  BY <1>0, <1>20, LaunchSafe
<1> QED
  BY <1>1, <1>2, <1>3, <1>4, <1>5, <1>6, <1>7, <1>8, <1>9, <1>10, <1>11, <1>12, <1>13,
     <1>14, <1>15, <1>16, <1>17, <1>18, <1>19, <1>20
     DEF RunStep

(* The steps of a compaction flow.                                          *)
LEMMA FlowSafe ==
  ASSUME TypeOK, IInv, NEW f \in Flows, FlowStep(f) PROVE IInv'
<1> USE DEF WaitAt, SwapAt
<1>0. \A l : loc' = [loc EXCEPT ![f] = l] => \A q \in Runs : loc'[q] = loc[q]
  BY Apart DEF TypeOK
<1>1. CASE FlowSignal(f)
  BY <1>1, FlowQuiet DEF FlowSignal, RaisePause, runVars, compactVars, ghostVars
<1>2. CASE FlowAwait(f)
  <2>1. PICK l \in {"swap", "cdefer"} : Goto(f, l)
    BY <1>2 DEF FlowAwait
  <2>2. pc[f] = "cwait" /\ pc'[f] = l /\ \A p \in Procs \ {f} : pc'[p] = pc[p]
    BY <1>2, <2>1, Apart DEF FlowAwait, Goto, TypeOK
  <2>3. UNCHANGED <<active, current, compacting, compactFlow, inFlight, pauseOwner,
                    userPause, stale, wait>>
    BY <1>2 DEF FlowAwait, runVars, compactVars, orchVars, ghostVars
  <2>4. \A q \in Runs : pc'[q] = pc[q] /\ loc'[q] = loc[q]
    BY <1>0, <1>2, <2>2, Apart DEF FlowAwait
  <2>5. OneTask' /\ ViaMsg' /\ OwnerStands'
    BY <2>3, <2>4 DEF IInv, OneTask, Holds, ViaMsg, OwnerStands
  <2>6. FlowBound' /\ FlowWaits'
    BY <2>2, <2>3, Apart DEF IInv, FlowBound, FlowWaits
  <2>7. SwapAlone'
    <3>1. ~stale => current = None
      <4>1. wait[f] = None
        BY <1>2 DEF FlowAwait
      <4> QED BY <2>2, <4>1, Apart DEF IInv, FlowWaits, TypeOK
    <3> QED BY <2>3, <3>1 DEF SwapAlone
  <2>8. InFlightBound'
    BY <2>3, <2>4 DEF IInv, InFlightBound, TypeOK
  <2> QED BY <2>5, <2>6, <2>7, <2>8 DEF IInv
<1>3. CASE FlowSwap(f)
  <2>1. \A q \in Runs : loc'[q] = loc[q]
    BY <1>0, <1>3 DEF FlowSwap
  <2> QED
    BY <1>3, <2>1, FlowQuiet DEF FlowSwap, runVars, compactVars, orchVars, ghostVars
<1>4. CASE FlowDefer(f)
  BY <1>4, FlowQuiet DEF FlowDefer, runVars, compactVars, ghostVars
<1>5. CASE FlowClear(f)
  <2>1. pc[f] = "cclear" /\ pc'[f] = "cowner" /\ \A p \in Procs \ {f} : pc'[p] = pc[p]
    BY <1>5, Apart DEF FlowClear, Goto, TypeOK
  <2>2. UNCHANGED <<active, current, inFlight, pauseOwner, userPause, stale, wait, loc>>
    BY <1>5 DEF FlowClear, runVars, orchVars, ghostVars
  <2>3. \A q \in Runs : pc'[q] = pc[q]
    BY <2>1, Apart
  <2>4. \A g \in Flows : pc'[g] \notin WaitAt \cup SwapAt
    <3> TAKE g \in Flows
    <3>1. g # f => pc[g] \notin WaitAt \cup SwapAt
      BY <2>1 DEF IInv, FlowBound
    <3> QED BY <2>1, <3>1, Apart
  <2>5. OneTask' /\ ViaMsg' /\ OwnerStands'
    BY <2>2, <2>3 DEF IInv, OneTask, Holds, ViaMsg, OwnerStands
  <2>6. FlowBound' /\ FlowWaits' /\ SwapAlone'
    BY <2>4 DEF FlowBound, FlowWaits, SwapAlone
  <2>7. InFlightBound'
    BY <2>2, <2>3 DEF IInv, InFlightBound, TypeOK
  <2> QED BY <2>5, <2>6, <2>7 DEF IInv
<1>6. CASE FlowOwner(f)
  <2>1. PICK l \in {"lookup", "idle"} : Goto(f, l)
    BY <1>6 DEF FlowOwner
  <2>2. pc'[f] = l /\ \A p \in Procs \ {f} : pc'[p] = pc[p]
    BY <2>1, Apart DEF Goto, TypeOK
  <2>3. UNCHANGED <<active, current, compacting, compactFlow, inFlight, stale, wait>>
    BY <1>6 DEF FlowOwner, compactVars, orchVars
  <2>4. \A q \in Runs : pc'[q] = pc[q] /\ loc'[q] = loc[q]
    BY <1>0, <1>6, <2>2, Apart DEF FlowOwner
  <2>5. OneTask' /\ ViaMsg'
    BY <2>3, <2>4 DEF IInv, OneTask, Holds, ViaMsg
  <2>6. FlowBound' /\ FlowWaits' /\ SwapAlone'
    BY <2>2, <2>3, Apart DEF IInv, FlowBound, FlowWaits, SwapAlone
  <2>7. InFlightBound'
    BY <2>3, <2>4 DEF IInv, InFlightBound, TypeOK
  <2>8. OwnerStands'
    BY <1>6 DEF FlowOwner, OwnerStands
  <2> QED BY <2>5, <2>6, <2>7, <2>8 DEF IInv
<1>7. CASE LaunchStep(f)
  BY <1>7, LaunchSafe, Apart
<1> QED BY <1>1, <1>2, <1>3, <1>4, <1>5, <1>6, <1>7 DEF FlowStep

-----------------------------------------------------------------------------
(* The invariant holds in every state of every behaviour.                    *)
THEOREM Inductive == Spec => []IInv
<1>1. Init => IInv
  <2> SUFFICES ASSUME Init PROVE IInv
    OBVIOUS
  <2>1. /\ \A p \in Procs : pc[p] = "idle"
        /\ current = None /\ ~active /\ ~inFlight /\ userPause = "none"
    BY DEF Init
  <2>2. OneTask /\ ViaMsg /\ InFlightBound /\ OwnerStands
    BY <2>1, Apart DEF OneTask, Holds, HoldAt, ViaMsg, EnterAt, InFlightBound, OwnerStands
  <2>3. FlowBound /\ FlowWaits /\ SwapAlone
    BY <2>1, Apart DEF FlowBound, FlowWaits, SwapAlone, WaitAt, SwapAt
  <2> QED BY <2>2, <2>3 DEF IInv
<1>2. TypeOK /\ IInv /\ [Next]_vars => IInv'
  <2>1. ASSUME TypeOK, IInv, Next PROVE IInv'
    BY <2>1, BeginSafe, CallSafe, RunSafe, FlowSafe DEF Next
  <2>2. ASSUME TypeOK, IInv, UNCHANGED vars PROVE IInv'
    BY <2>2, Quiet DEF vars, runVars, compactVars, orchVars, procVars, ghostVars, Holds
  <2> QED BY <2>1, <2>2
<1> QED BY <1>1, <1>2, Typed, PTL DEF Spec

(* The session runs one task at a time: from activation to deactivation at   *)
(* most one run holds it, exactly while session.active says so, unless        *)
(* sendMessage activated on conditions its second hold does not re-check.    *)
THEOREM OneTaskHolds == Spec => []OneTask
<1>1. IInv => OneTask
  BY DEF IInv
<1> QED BY <1>1, Inductive, PTL

(* HandleMessage's single-flight guard never finds another request in        *)
(* flight: a run that is about to enter is the current one, and only the     *)
(* current run's own execution sets the guard.                              *)
THEOREM NeverInFlightHolds == Spec => []NeverInFlight
<1>1. IInv => NeverInFlight
  BY DEF IInv, OneTask, Holds, HoldAt, InFlightBound, NeverInFlight
<1> QED BY <1>1, Inductive, PTL

(* A compaction's swap of the history overlaps no run, whichever of the two   *)
(* began first.                                                             *)
THEOREM CompactionExclusiveHolds == Spec => []CompactionExclusive
<1>1. IInv => CompactionExclusive
  BY Apart DEF IInv, OneTask, SwapAlone, SwapAt, CompactionExclusive
<1> QED BY <1>1, Inductive, PTL

-----------------------------------------------------------------------------
(* Every step but a launch and the start of a flow moves one goroutine.       *)
LEMMA OneMoves ==
  /\ \A c \in Calls :
       CallStep(c) => LaunchStep(c) \/ \E l : Goto(c, l)
  /\ \A r \in Runs :
       RunStep(r) \/ EngineReturn(r) =>
         LaunchStep(r) \/ UNCHANGED pc \/ \E l : Goto(r, l)
  /\ \A c \in Calls :
       Begin(c) => CompactCall(c) \/ \E l : Goto(c, l)
<1>1. ASSUME NEW c \in Calls, CallStep(c) PROVE LaunchStep(c) \/ \E l : Goto(c, l)
  BY <1>1, Zenon
     DEF CallStep, StopDiscard, StopReturn, StopTimeout, StopClaim, StopForce, PauseSignal,
         ArchiveDiscard, ArchiveSet, DeleteRemove, ShutdownCollect, ShutdownCheckpoint, Over
<1>2. ASSUME NEW r \in Runs, RunStep(r) \/ EngineReturn(r)
      PROVE  LaunchStep(r) \/ UNCHANGED pc \/ \E l : Goto(r, l)
  <2>1. CASE RunReactivate(r) \/ RunTakeover(r) \/ RunContinue(r) \/ HandleCommit(r)
             \/ HandleFail(r) \/ ResumeEnter(r) \/ ResumeFail(r)
    BY <2>1, Zenon
       DEF RunReactivate, RunTakeover, RunContinue, HandleCommit, HandleFail, ResumeEnter,
           ResumeFail
  <2>2. CASE JudgeRetry(r) \/ JudgeCancelled(r) \/ JudgeError(r) \/ JudgeDone(r)
             \/ RunSettle(r) \/ EngineReturn(r)
    BY <2>2, Zenon
       DEF JudgeRetry, JudgeCancelled, JudgeError, JudgeDone, RunSettle, EngineReturn
  <2>3. CASE ReleaseKeep(r) \/ ReleaseDrop(r) \/ ReleaseFollowUp(r) \/ RunComplete(r)
             \/ RunExit(r)
    BY <2>3, Zenon
       DEF ReleaseKeep, ReleaseDrop, ReleaseFollowUp, RunComplete, RunExit
  <2>4. CASE Deliver(r)
    BY <2>4 DEF Deliver, procVars
  <2> QED BY <1>2, <2>1, <2>2, <2>3, <2>4 DEF RunStep
<1>3. ASSUME NEW c \in Calls, Begin(c) PROVE CompactCall(c) \/ \E l : Goto(c, l)
  BY <1>3, Zenon
     DEF Begin, SendCall, ResumeCall, StopCall, PauseCall, CancelCompactCall, ArchiveCall,
         DeleteCall, ShutdownCall, Over
<1> QED BY <1>1, <1>2, <1>3

(* A launch path moves its own goroutine, from its own places, and a run.    *)
LEMMA LaunchMoves ==
  ASSUME TypeOK, NEW p \in Procs, LaunchStep(p), NEW f \in Flows, pc[f] = "cowner"
  PROVE  pc'[f] = "cowner"
<1> USE DEF Goto, TypeOK
<1>1. pc[p] \in LaunchAt /\ p # f
  BY DEF LaunchStep, SendGate, SendRoute, SendActivate, ResumeLookup, ResumeActivate,
         LaunchAt
<1>2. CASE \E l : Goto(p, l)
  BY <1>1, <1>2
<1>3. ASSUME NEW q \in Runs, NEW via, NEW t, Activate(p, q, via, t)
      PROVE  pc'[f] = "cowner"
  BY <1>1, <1>3, Apart DEF Activate
<1>4. Refuse(p) \/ RefuseCompacting(p) => \E l : Goto(p, l)
  BY Zenon DEF Refuse, RefuseCompacting
<1> HIDE DEF Goto
<1>5. (\E l : Goto(p, l)) \/ \E q \in Runs, via \in {"msg", "resume"}, t \in {NoTask, loc[p].tid} : Activate(p, q, via, t)
  BY <1>4, Zenon DEF LaunchStep, SendGate, SendRoute, SendActivate, ResumeLookup, ResumeActivate
<1> QED BY <1>2, <1>3, <1>5

(* Only phase 5 moves a flow on from there, and to the resume only when the  *)
(* flow still owns the pause.                                               *)
LEMMA OnlyOwned ==
  ASSUME TypeOK, Next, NEW f \in Flows, pc[f] = "cowner", pc'[f] = "lookup"
  PROVE  pauseOwner = "compaction"
<1>1. ASSUME NEW p \in Procs, p # f, \E l : Goto(p, l) PROVE FALSE
  BY <1>1 DEF Goto, TypeOK
<1>2. ASSUME NEW p \in Procs, LaunchStep(p) PROVE FALSE
  BY <1>2, LaunchMoves
<1>3. ASSUME NEW c \in Calls, Begin(c) \/ CallStep(c) PROVE FALSE
  <2>1. CASE CompactCall(c)
    <3>1. PICK g \in Flows :
            /\ pc[g] = "idle"
            /\ pc' = [pc EXCEPT ![c] = "done", ![g] = IF active THEN "csignal" ELSE "swap"]
      BY <2>1 DEF CompactCall
    <3> QED BY <3>1, Apart DEF TypeOK
  <2> QED BY <1>1, <1>2, <1>3, <2>1, OneMoves, Apart
<1>4. ASSUME NEW r \in Runs, RunStep(r) \/ EngineReturn(r) PROVE FALSE
  BY <1>1, <1>2, <1>4, OneMoves, Apart
<1>5. ASSUME NEW g \in Flows, FlowStep(g) PROVE pauseOwner = "compaction"
  <2>1. CASE LaunchStep(g)
    BY <1>2, <2>1, Apart
  <2>2. CASE g # f /\ ~LaunchStep(g)
    <3>1. \E l : Goto(g, l)
      BY <1>5, <2>2, Zenon
         DEF FlowStep, FlowSignal, FlowAwait, FlowSwap, FlowDefer, FlowClear, FlowOwner
    <3> QED BY <1>1, <2>2, <3>1, Apart
  <2>3. CASE g = f /\ ~LaunchStep(g)
    <3>1. FlowOwner(f)
      BY <1>5, <2>3 DEF FlowStep, FlowSignal, FlowAwait, FlowSwap, FlowDefer, FlowClear
    <3>2. ~Goto(f, "idle")
      BY Apart DEF Goto, TypeOK
    <3> QED BY <3>1, <3>2 DEF FlowOwner
  <2> QED BY <2>1, <2>2, <2>3
<1> QED BY <1>3, <1>4, <1>5 DEF Next

(* A compaction flow's auto-resume starts only on a pause that is the flow's:  *)
(* a standing pause of the user is left to the user.                         *)
THEOREM AutoResumeKeepsUserPauseHolds == Spec => AutoResumeKeepsUserPause
<1>1. TypeOK /\ IInv /\ [Next]_vars =>
        [\A f \in Flows : pc[f] = "cowner" /\ pc'[f] = "lookup" =>
                            userPause # "standing"]_vars
  <2> SUFFICES ASSUME TypeOK, IInv, Next, NEW f \in Flows, pc[f] = "cowner", pc'[f] = "lookup"
               PROVE  userPause # "standing"
    OBVIOUS
  <2> QED BY OnlyOwned DEF IInv, OwnerStands
<1> QED BY <1>1, Typed, Inductive, PTL DEF Spec, AutoResumeKeepsUserPause

-----------------------------------------------------------------------------
(* The messages                                                             *)

(* The places of a goroutine which has a message in its hands.               *)
CarryAt == {"gate", "route", "activate", "lookup", "resume", "start", "reactivate",
            "enter", "enterFresh", "enterResume", "judge", "keep", "settle", "complete"}

(* The fates of a message that has arrived.                                 *)
Arrived == {"delivered", "discarded", "refused", "swallowed"}

(* Only a goroutine on its way to a run, a run before its engine, one whose  *)
(* engine never began and one with leftovers carries messages.               *)
Carried ==
  \A p \in Procs : loc[p].text # {} =>
    pc[p] \in CarryAt /\ (pc[p] = "judge" => loc[p].res \in Failures)

(* What two hold, or one and the queue, is apart, and a message is on its    *)
(* way exactly while one of them holds it.                                   *)
Homes ==
  /\ \A p, q \in Procs : p # q => loc[p].text \cap loc[q].text = {}
  /\ \A p \in Procs : loc[p].text \cap queue = {}
  /\ \A m \in Msgs :
       fate[m] \in Moving <=> m \in queue \/ \E p \in Procs : m \in loc[p].text

-----------------------------------------------------------------------------
(* The ways a step moves messages.                                           *)

KeepTexts(ps) == \A q \in Procs \ ps : loc'[q].text = loc[q].text

StaysPut == UNCHANGED <<queue, fate>> /\ KeepTexts({})

(* A goroutine lets go of what it carries, or puts it back on the queue.     *)
LetsGo(p) ==
  /\ \E f \in Arrived : Mark(loc[p].text, f)
  /\ UNCHANGED queue
  /\ loc'[p].text = {} /\ KeepTexts({p})
Queues(p) ==
  /\ \E f \in Moving : Mark(loc[p].text, f)
  /\ queue' = queue \cup loc[p].text
  /\ loc'[p].text = {} /\ KeepTexts({p})

(* It hands it to another, or is handed a message by its client.             *)
HandsOver(p, q) ==
  /\ UNCHANGED <<queue, fate>>
  /\ p # q /\ loc[q].text = {}
  /\ loc'[q].text = loc[p].text /\ loc'[p].text = {} /\ KeepTexts({p, q})
IsSent(p, m) ==
  /\ fate[m] = "unsent" /\ Mark({m}, "pending")
  /\ UNCHANGED queue
  /\ loc[p].text = {} /\ loc'[p].text = {m} /\ KeepTexts({p})

(* One message of the queue is delivered, all are discarded, or they become  *)
(* a goroutine's text.                                                      *)
Reads(m) ==
  /\ queue' = queue \ {m} /\ Mark({m}, "delivered")
  /\ KeepTexts({})
Discards ==
  /\ ~forceTerminated
  /\ queue' = {} /\ Mark(queue, "discarded")
  /\ KeepTexts({})
Drains(p) ==
  /\ UNCHANGED fate
  /\ queue' = {} /\ loc[p].text = {} /\ loc'[p].text = queue /\ KeepTexts({p})

MessageStep ==
  \/ StaysPut \/ Discards
  \/ \E m \in queue : Reads(m)
  \/ \E p \in Procs :
       \/ LetsGo(p) \/ Queues(p) \/ Drains(p)
       \/ \E q \in Procs : HandsOver(p, q)
       \/ \E m \in Msgs : IsSent(p, m)

(* Each of them keeps every message in its one home.                         *)
LEMMA HomesKept ==
  ASSUME TypeOK, Homes, MessageStep PROVE Homes'
<1> USE DEF Homes, KeepTexts
<1>0. /\ \A p \in Procs : loc[p].text \subseteq Msgs
      /\ queue \subseteq Msgs
      /\ Moving \cap Arrived = {}
      /\ \A ms, f : Mark(ms, f) => \A m \in Msgs : fate'[m] = IF m \in ms THEN f ELSE fate[m]
  BY DEF TypeOK, Locals, Mark, Moving, Arrived
<1>1. CASE StaysPut
  BY <1>1 DEF StaysPut
<1>2. CASE Discards
  <2>1. \A p \in Procs : loc'[p].text = loc[p].text
    BY <1>2 DEF Discards
  <2>2. \A m \in Msgs : fate'[m] = IF m \in queue THEN "discarded" ELSE fate[m]
    BY <1>0, <1>2 DEF Discards
  <2> QED BY <1>0, <1>2, <2>1, <2>2 DEF Discards, Arrived
<1>8. ASSUME NEW n \in queue, Reads(n) PROVE Homes'
  <2>1. \A p \in Procs : loc'[p].text = loc[p].text
    BY <1>8 DEF Reads
  <2>2. \A m \in Msgs : fate'[m] = IF m = n THEN "delivered" ELSE fate[m]
    BY <1>0, <1>8 DEF Reads
  <2> QED BY <1>0, <1>8, <2>1, <2>2 DEF Reads, Arrived
<1>3. ASSUME NEW p \in Procs, LetsGo(p) PROVE Homes'
  <2>1. PICK f \in Arrived : \A m \in Msgs : fate'[m] = IF m \in loc[p].text THEN f ELSE fate[m]
    BY <1>0, <1>3 DEF LetsGo
  <2> QED BY <1>0, <1>3, <2>1 DEF LetsGo
<1>4. ASSUME NEW p \in Procs, Queues(p) PROVE Homes'
  <2>1. PICK f \in Moving : \A m \in Msgs : fate'[m] = IF m \in loc[p].text THEN f ELSE fate[m]
    BY <1>0, <1>4 DEF Queues
  <2> QED BY <1>0, <1>4, <2>1 DEF Queues
<1>5. ASSUME NEW p \in Procs, Drains(p) PROVE Homes'
  BY <1>0, <1>5 DEF Drains
<1>6. ASSUME NEW p \in Procs, NEW q \in Procs, HandsOver(p, q) PROVE Homes'
  <2>1. \A x \in Procs : loc'[x].text = IF x = q THEN loc[p].text
                                        ELSE IF x = p THEN {} ELSE loc[x].text
    BY <1>6 DEF HandsOver
  <2> QED BY <1>0, <1>6, <2>1 DEF HandsOver
<1>7. ASSUME NEW p \in Procs, NEW m \in Msgs, IsSent(p, m) PROVE Homes'
  <2>1. \A x \in Procs : loc'[x].text = IF x = p THEN {m} ELSE loc[x].text
    BY <1>7 DEF IsSent
  <2>2. \A n \in Msgs : fate'[n] = IF n = m THEN "pending" ELSE fate[n]
    BY <1>0, <1>7 DEF IsSent
  <2>3. m \notin queue /\ \A x \in Procs : m \notin loc[x].text
    BY <1>7 DEF IsSent, Moving
  <2> QED BY <1>0, <1>7, <2>1, <2>2, <2>3 DEF IsSent, Moving
<1> QED BY <1>1, <1>2, <1>3, <1>4, <1>5, <1>6, <1>7, <1>8 DEF MessageStep

-----------------------------------------------------------------------------
(* One goroutine moves, and the others keep what they carry.                 *)
CarriedStep(p) ==
  /\ \A q \in Procs \ {p} :
       pc'[q] = pc[q] /\ loc'[q].text = loc[q].text /\ loc'[q].res = loc[q].res
  /\ loc'[p].text # {} =>
       pc'[p] \in CarryAt /\ (pc'[p] = "judge" => loc'[p].res \in Failures)

LEMMA CarriedKept ==
  ASSUME Carried, NEW p \in Procs, CarriedStep(p) PROVE Carried'
<1> SUFFICES ASSUME NEW q \in Procs, loc'[q].text # {}
             PROVE  pc'[q] \in CarryAt /\ (pc'[q] = "judge" => loc'[q].res \in Failures)
  BY DEF Carried
<1> QED BY DEF CarriedStep, Carried

LEMMA Framed ==
  ASSUME TypeOK, NEW p \in Procs
  PROVE  /\ \A l : Goto(p, l) => pc'[p] = l /\ \A q \in Procs \ {p} : pc'[q] = pc[q]
         /\ \A l : loc' = [loc EXCEPT ![p] = l] =>
                     loc'[p] = l /\ \A q \in Procs \ {p} : loc'[q] = loc[q]
  BY DEF TypeOK, Goto

(* What a step which sends no message anywhere leaves alone.                 *)
LEMMA Still ==
  ASSUME TypeOK, Carried, NEW p \in Procs, NEW l, Goto(p, l), UNCHANGED <<queue, fate>>,
         \A q \in Procs : loc'[q].text = loc[q].text,
         \A q \in Procs \ {p} : loc'[q].res = loc[q].res,
         pc[p] \in CarryAt =>
           loc[p].text = {} \/ (l \in CarryAt /\ (l = "judge" => loc'[p].res \in Failures))
  PROVE  Carried' /\ MessageStep
<1>1. CarriedStep(p)
  BY Framed DEF CarriedStep, Carried
<1>2. StaysPut
  BY DEF StaysPut, KeepTexts
<1> QED BY <1>1, <1>2, CarriedKept DEF MessageStep

(* Recording an outcome leaves texts, and the others' outcomes.              *)
LEMMA Recorded ==
  ASSUME TypeOK, NEW p \in Procs
  PROVE  \A x : UNCHANGED loc \/ loc' = [loc EXCEPT ![p].res = x] =>
                  /\ \A q \in Procs : loc'[q].text = loc[q].text
                  /\ \A q \in Procs \ {p} : loc'[q].res = loc[q].res
<1> TAKE x
<1>1. CASE UNCHANGED loc
  BY <1>1
<1>2. CASE loc' = [loc EXCEPT ![p].res = x]
  <2>1. loc'[p] = [loc[p] EXCEPT !.res = x] /\ \A q \in Procs \ {p} : loc'[q] = loc[q]
    BY <1>2, Framed
  <2>2. loc[p] \in Locals
    BY DEF TypeOK
  <2>3. [loc[p] EXCEPT !.res = x].text = loc[p].text
    BY <2>2 DEF Locals
  <2> QED BY <2>1, <2>3
<1> QED BY <1>1, <1>2

(* Cancelling contexts leaves texts and outcomes.                            *)
LEMMA KeepsText ==
  ASSUME NEW l \in [Procs -> Locals], NEW p \in Procs
  PROVE  /\ CancelRun(l)[p].text = l[p].text /\ CancelRun(l)[p].res = l[p].res
         /\ CancelFlow(l)[p].text = l[p].text /\ CancelFlow(l)[p].res = l[p].res
  BY DEF CancelRun, CancelFlow, Locals

LEMMA FlowAndRunKeepText ==
  ASSUME TypeOK
  PROVE  /\ CancelFlow(CancelRun(loc)) \in [Procs -> Locals]
         /\ \A q \in Procs : /\ CancelFlow(CancelRun(loc))[q].text = loc[q].text
                             /\ CancelFlow(CancelRun(loc))[q].res = loc[q].res
<1>1. loc \in [Procs -> Locals]
  BY DEF TypeOK
<1> DEFINE l == CancelRun(loc)
<1>2. l \in [Procs -> Locals]
  BY <1>1, Cancels
<1>3. \A q \in Procs : l[q].text = loc[q].text /\ l[q].res = loc[q].res
  BY <1>1, KeepsText
<1> HIDE DEF l
<1>4. CancelFlow(l) \in [Procs -> Locals]
  BY <1>2, Cancels
<1>5. \A q \in Procs : CancelFlow(l)[q].text = l[q].text /\ CancelFlow(l)[q].res = l[q].res
  BY <1>2, KeepsText
<1>6. \A q \in Procs : CancelFlow(l)[q].text = loc[q].text /\ CancelFlow(l)[q].res = loc[q].res
  BY <1>3, <1>5
<1> QED BY <1>4, <1>6 DEF l

LEMMA EmptyHanded ==
  ASSUME TypeOK, Carried, NEW p \in Procs, NEW l, Goto(p, l),
         loc' = [loc EXCEPT ![p] = Left(p)]
  PROVE  Carried' /\ loc'[p].text = {} /\ KeepTexts({p})
<1>1. Left(p).text = {}
  BY DEF Left, Blank, TypeOK, Locals
<1>2. /\ loc'[p].text = {} /\ \A q \in Procs \ {p} : loc'[q] = loc[q]
      /\ \A q \in Procs \ {p} : pc'[q] = pc[q]
  BY <1>1, Framed
<1>3. CarriedStep(p)
  BY <1>2 DEF CarriedStep
<1> QED BY <1>2, <1>3, CarriedKept DEF KeepTexts

(* A launch path ends with its text refused, swallowed or put back.          *)
LEMMA RefuseMoves ==
  ASSUME TypeOK, Carried, NEW p \in Procs, Refuse(p) \/ RefuseCompacting(p)
  PROVE  Carried' /\ MessageStep
<1>1. /\ loc' = [loc EXCEPT ![p] = Left(p)]
      /\ \E l : Goto(p, l)
  BY Zenon DEF Refuse, RefuseCompacting
<1>2. Carried' /\ loc'[p].text = {} /\ KeepTexts({p})
  BY <1>1, EmptyHanded
<1>3. LetsGo(p) \/ Queues(p)
  <2>2. CASE Refuse(p)
    BY <1>2, <2>2 DEF Refuse, LetsGo, Arrived, orchVars
  <2>3. CASE RefuseCompacting(p) /\ p \in Runs
    BY <1>2, <2>3 DEF RefuseCompacting, Queues, Moving
  <2> QED BY <2>2, <2>3 DEF RefuseCompacting
<1> QED BY <1>2, <1>3 DEF MessageStep

LEMMA ActivateMoves ==
  ASSUME TypeOK, Carried, NEW p \in Procs, NEW q \in Runs,
         NEW via \in {"msg", "resume"}, NEW t, Activate(p, q, via, t)
  PROVE  Carried' /\ MessageStep
<1>1. p # q /\ pc[q] = "idle" /\ q \in Procs
  BY Apart DEF Activate
<1>2. /\ loc'[q].text = loc[p].text /\ loc'[q].res = "none"
      /\ loc'[p].text = {}
      /\ \A x \in Procs \ {p, q} : loc'[x] = loc[x] /\ pc'[x] = pc[x]
      /\ pc'[q] = IF via = "resume" THEN "reactivate" ELSE "start"
  BY <1>1 DEF Activate, TypeOK, Left, Blank, Locals
<1>3. loc[q].text = {}
  BY <1>1 DEF Carried, CarryAt
<1>4. Carried'
  BY <1>1, <1>2 DEF Carried, CarryAt
<1>5. HandsOver(p, q)
  BY <1>1, <1>2, <1>3 DEF Activate, orchVars, HandsOver, KeepTexts
<1> QED BY <1>1, <1>4, <1>5 DEF MessageStep

LEMMA LaunchMessages ==
  ASSUME TypeOK, Carried, NEW p \in Procs, LaunchStep(p) PROVE Carried' /\ MessageStep
<1>1. CASE Refuse(p) \/ RefuseCompacting(p)
  BY <1>1, RefuseMoves
<1>2. ASSUME NEW q \in Runs, NEW via \in {"msg", "resume"}, NEW t, Activate(p, q, via, t)
      PROVE  Carried' /\ MessageStep
  BY <1>2, ActivateMoves
<1>3. CASE SendGate(p)
  <2>1. CASE /\ queue' = queue \cup loc[p].text
             /\ loc' = [loc EXCEPT ![p] = Left(p)]
             /\ Goto(p, After(p))
             /\ Mark(loc[p].text, IF ReportedCancelled THEN "late" ELSE "pending")
    <3>1. Carried' /\ loc'[p].text = {} /\ KeepTexts({p})
      BY <2>1, EmptyHanded
    <3>2. Queues(p)
      BY <2>1, <3>1 DEF Queues, Moving
    <3> QED BY <3>1, <3>2 DEF MessageStep
  <2>2. CASE /\ Goto(p, "route")
             /\ UNCHANGED <<runVars, lifeVars, compactVars, orchVars, storeVars, loc,
                            wait, ghostVars>>
    BY <2>2, Still DEF orchVars, ghostVars, CarryAt
  <2> QED BY <1>1, <1>3, <2>1, <2>2 DEF SendGate
<1>4. CASE SendRoute(p)
  BY <1>4, Still DEF SendRoute, orchVars, ghostVars, CarryAt
<1>5. CASE SendActivate(p)
  BY <1>1, <1>2, <1>5 DEF SendActivate
<1>6. CASE ResumeLookup(p)
  <2>1. CASE /\ Goto(p, After(p))
             /\ loc' = [loc EXCEPT ![p] = Left(p)]
             /\ Mark(loc[p].text, "swallowed")
             /\ UNCHANGED <<runVars, lifeVars, compactVars, orchVars, storeVars, wait,
                            told, userPause, stale>>
    <3>1. Carried' /\ loc'[p].text = {} /\ KeepTexts({p})
      BY <2>1, EmptyHanded
    <3>2. LetsGo(p)
      BY <2>1, <3>1 DEF LetsGo, Arrived, orchVars
    <3> QED BY <3>1, <3>2 DEF MessageStep
  <2>2. CASE /\ Goto(p, "resume")
             /\ loc' = [loc EXCEPT ![p].tid = Unfinished, ![p].goal = goal[Unfinished]]
             /\ UNCHANGED <<runVars, lifeVars, compactVars, orchVars, storeVars, wait,
                            ghostVars>>
    <3>1. \A q \in Procs : loc'[q].text = loc[q].text /\ loc'[q].res = loc[q].res
      BY <2>2 DEF TypeOK, Locals
    <3> QED BY <2>2, <3>1, Still DEF orchVars, ghostVars, CarryAt
  <2> QED BY <1>1, <1>6, <2>1, <2>2 DEF ResumeLookup
<1>7. CASE ResumeActivate(p)
  BY <1>1, <1>2, <1>7 DEF ResumeActivate
<1> QED BY <1>3, <1>4, <1>5, <1>6, <1>7 DEF LaunchStep

(* The calls.                                                               *)
LEMMA OverMoves ==
  ASSUME TypeOK, Carried, NEW c \in Calls, pc[c] \notin CarryAt, Over(c),
         UNCHANGED <<queue, fate>>
  PROVE  Carried' /\ MessageStep
<1>1. loc'[c] = Blank /\ \A q \in Procs \ {c} : loc'[q] = loc[q]
  BY Framed, Apart DEF Over
<1>2. loc[c].text = {}
  BY Apart DEF Carried
<1>3. \A q \in Procs : loc'[q].text = loc[q].text
  BY <1>1, <1>2, Blanks
<1> QED BY <1>1, <1>2, <1>3, Still, Apart DEF Over

LEMMA BeginMessages ==
  ASSUME TypeOK, Carried, NEW c \in Calls, Begin(c) PROVE Carried' /\ MessageStep
<1> USE DEF CarryAt
<1>0. c \in Procs /\ (pc[c] = "idle" => loc[c].text = {})
  BY Apart DEF Carried
<1>1. ASSUME NEW m \in Msgs, NEW g \in BOOLEAN, SendCall(c, m, g)
      PROVE  Carried' /\ MessageStep
  <2>1. /\ loc'[c].text = {m} /\ \A q \in Procs \ {c} : loc'[q] = loc[q]
        /\ pc'[c] = "gate" /\ \A q \in Procs \ {c} : pc'[q] = pc[q]
    BY <1>0, <1>1 DEF SendCall, Goto, TypeOK, Locals
  <2>2. CarriedStep(c)
    BY <2>1 DEF CarriedStep
  <2>3. IsSent(c, m)
    BY <1>0, <1>1, <2>1 DEF SendCall, IsSent, KeepTexts, orchVars
  <2> QED BY <1>0, <2>2, <2>3, CarriedKept DEF MessageStep
<1>2. CASE ResumeCall(c)
  BY <1>0, <1>2, Still DEF ResumeCall, orchVars, ghostVars
<1>3. CASE StopCall(c)
  <2>1. UNCHANGED <<queue, fate>>
    BY <1>3 DEF StopCall, orchVars, ghostVars
  <2>2. CASE Over(c)
    BY <1>3, <2>1, <2>2, OverMoves DEF StopCall
  <2>3. CASE UNCHANGED loc /\ \E l : Goto(c, l)
    BY <1>0, <1>3, <2>1, <2>3, Still DEF StopCall
  <2>4. CASE loc' = CancelContext(current) /\ Goto(c, "waiting")
    <3>1. \A q \in Procs : loc'[q].text = loc[q].text /\ loc'[q].res = loc[q].res
      BY <2>4 DEF CancelContext, TypeOK, Locals
    <3> QED BY <1>0, <1>3, <2>1, <2>4, <3>1, Still DEF StopCall
  <2> QED BY <1>3, <2>2, <2>3, <2>4 DEF StopCall
<1>4. CASE PauseCall(c)
  BY <1>0, <1>4, Still DEF PauseCall, orchVars
<1>5. CASE CompactCall(c)
  <2>1. PICK f \in Flows :
          /\ pc[f] = "idle"
          /\ pc' = [pc EXCEPT ![c] = "done", ![f] = IF active THEN "csignal" ELSE "swap"]
          /\ loc' = [loc EXCEPT ![f] = [Blank EXCEPT !.flag = active]]
    BY <1>5 DEF CompactCall
  <2>2. /\ loc'[f].text = {} /\ \A q \in Procs \ {f} : loc'[q] = loc[q]
        /\ \A q \in Procs \ {f, c} : pc'[q] = pc[q]
    BY <2>1, Apart DEF TypeOK, Blank
  <2>3. loc[f].text = {}
    BY <2>1, Apart DEF Carried
  <2>4. pc[c] = "idle" /\ loc'[c].text = {}
    BY <1>0, <1>5, <2>2, Apart DEF CompactCall
  <2>5. Carried'
    BY <2>2, <2>4 DEF Carried
  <2>6. StaysPut
    BY <1>5, <2>2, <2>3 DEF CompactCall, StaysPut, KeepTexts, orchVars, ghostVars
  <2> QED BY <2>5, <2>6 DEF MessageStep
<1>6. CASE CancelCompactCall(c)
  <2>1. \A q \in Procs : loc'[q].text = loc[q].text /\ loc'[q].res = loc[q].res
    BY <1>6, KeepsText DEF CancelCompactCall, TypeOK
  <2> QED BY <1>0, <1>6, <2>1, Still DEF CancelCompactCall, orchVars, ghostVars
<1>7. CASE ArchiveCall(c)
  <2> DEFINE was == IF archived THEN loc ELSE CancelRun(loc)
  <2>1. /\ was \in [Procs -> Locals]
        /\ \A q \in Procs : was[q].text = loc[q].text /\ was[q].res = loc[q].res
    BY KeepsText, Cancels DEF TypeOK
  <2>2. loc' = [was EXCEPT ![c].flag = ~archived]
    BY <1>7 DEF ArchiveCall
  <2> HIDE DEF was
  <2>3. \A q \in Procs : loc'[q].text = loc[q].text /\ loc'[q].res = loc[q].res
    BY <2>1, <2>2 DEF Locals
  <2>4. PICK l : Goto(c, l)
    BY <1>7 DEF ArchiveCall
  <2> QED BY <1>0, <1>7, <2>3, <2>4, Still DEF ArchiveCall, orchVars, ghostVars
<1>8. CASE DeleteCall(c)
  <2>1. \A q \in Procs : loc'[q].text = loc[q].text /\ loc'[q].res = loc[q].res
    BY <1>8, FlowAndRunKeepText DEF DeleteCall
  <2> QED BY <1>0, <1>8, <2>1, Still DEF DeleteCall, orchVars, ghostVars
<1>9. CASE ShutdownCall(c)
  BY <1>0, <1>9, Still DEF ShutdownCall, orchVars, ghostVars
<1> QED BY <1>1, <1>2, <1>3, <1>4, <1>5, <1>6, <1>7, <1>8, <1>9 DEF Begin

LEMMA CallMessages ==
  ASSUME TypeOK, Carried, NEW c \in Calls, CallStep(c) PROVE Carried' /\ MessageStep
<1> USE DEF CarryAt
<1>0. c \in Procs
  BY Apart
<1>1. CASE LaunchStep(c)
  BY <1>0, <1>1, LaunchMessages
<1>2. CASE StopDiscard(c)
  BY <1>2, OverMoves DEF StopDiscard, ghostVars
<1>3. CASE StopReturn(c)
  BY <1>3, OverMoves DEF StopReturn, orchVars, ghostVars
<1>4. CASE StopTimeout(c)
  BY <1>0, <1>4, Still DEF StopTimeout, orchVars, ghostVars
<1>5. CASE StopClaim(c)
  <2>1. CASE Over(c)
    BY <1>5, <2>1, OverMoves DEF StopClaim, orchVars, ghostVars
  <2>2. CASE Goto(c, "force") /\ UNCHANGED loc
    BY <1>0, <1>5, <2>2, Still DEF StopClaim, orchVars, ghostVars
  <2> QED BY <1>5, <2>1, <2>2 DEF StopClaim
<1>6. CASE StopForce(c)
  BY <1>6, OverMoves DEF StopForce
<1>7. CASE PauseSignal(c)
  BY <1>0, <1>7, Still DEF PauseSignal, RaisePause, ghostVars
<1>8. CASE ArchiveDiscard(c)
  BY <1>0, <1>8, Still DEF ArchiveDiscard, ghostVars
<1>9. CASE ArchiveSet(c)
  BY <1>9, OverMoves DEF ArchiveSet, orchVars, ghostVars
<1>10. CASE DeleteRemove(c)
  BY <1>0, <1>10, Still DEF DeleteRemove, orchVars, ghostVars
<1>11. CASE ShutdownCollect(c)
  <2> DEFINE was == CancelFlow(CancelRun(loc))
             running == active /\ current # None
  <2>1. /\ was \in [Procs -> Locals]
        /\ \A q \in Procs : was[q].text = loc[q].text /\ was[q].res = loc[q].res
    BY FlowAndRunKeepText
  <2>2. loc' = IF present THEN [was EXCEPT ![c].flag = running] ELSE loc
    BY <1>11 DEF ShutdownCollect
  <2> HIDE DEF was, running
  <2>3. \A q \in Procs : loc'[q].text = loc[q].text /\ loc'[q].res = loc[q].res
    BY <2>1, <2>2 DEF Locals
  <2> QED BY <1>0, <1>11, <2>3, Still DEF ShutdownCollect, orchVars, ghostVars
<1>12. CASE ShutdownCheckpoint(c)
  BY <1>12, OverMoves DEF ShutdownCheckpoint, orchVars, ghostVars
<1> QED
  BY <1>1, <1>2, <1>3, <1>4, <1>5, <1>6, <1>7, <1>8, <1>9, <1>10, <1>11, <1>12
     DEF CallStep

(* The runs.                                                                *)
LEMMA RunMessages ==
  ASSUME TypeOK, Carried, NEW r \in Runs, RunStep(r) \/ EngineReturn(r)
  PROVE  Carried' /\ MessageStep
<1> USE DEF CarryAt
<1>0. r \in Procs
  BY Apart
<1>a. ASSUME NEW l, Goto(r, l), loc'[r].text = {}, \A q \in Procs \ {r} : loc'[q] = loc[q]
      PROVE  Carried'
  BY <1>0, <1>a, Framed, CarriedKept DEF CarriedStep
<1>1. CASE RunReactivate(r)
  BY <1>0, <1>1, Still DEF RunReactivate, orchVars, ghostVars
<1>2. CASE RunTakeover(r)
  BY <1>0, <1>2, Still DEF RunTakeover, ghostVars
<1>3. CASE RunContinue(r)
  <2>1. \A q \in Procs : loc'[q].text = loc[q].text /\ loc'[q].res = loc[q].res
    <3>1. CASE UNCHANGED loc
      BY <3>1
    <3>2. CASE loc' = [loc EXCEPT ![r].tid = Unfinished, ![r].goal = goal[Unfinished],
                                  ![r].via = "cont"]
      BY <3>2 DEF TypeOK, Locals
    <3> QED BY <1>3, <3>1, <3>2 DEF RunContinue
  <2>2. PICK l \in {"enter", "enterResume"} : Goto(r, l)
    BY <1>3 DEF RunContinue
  <2> QED BY <1>0, <1>3, <2>1, <2>2, Still DEF RunContinue, orchVars, ghostVars
<1>4. CASE HandleCommit(r)
  <2>1. loc'[r].text = {} /\ \A q \in Procs \ {r} : loc'[q] = loc[q]
    BY <1>0, <1>4 DEF HandleCommit, TypeOK, Locals
  <2>2. LetsGo(r)
    BY <1>4, <2>1 DEF HandleCommit, LetsGo, KeepTexts, Arrived
  <2> QED BY <1>0, <1>a, <1>4, <2>1, <2>2 DEF HandleCommit, MessageStep
<1>5. CASE HandleFail(r)
  <2>1. /\ loc'[r].text = loc[r].text /\ loc'[r].res \in Failures
        /\ \A q \in Procs \ {r} : loc'[q] = loc[q]
    BY <1>0, <1>5 DEF HandleFail, TypeOK, Locals
  <2> QED BY <1>0, <1>5, <2>1, Still DEF HandleFail, ghostVars
<1>6. CASE ResumeEnter(r)
  <2>1. loc'[r].text = {} /\ \A q \in Procs \ {r} : loc'[q] = loc[q]
    BY <1>0, <1>6 DEF ResumeEnter, TypeOK, Locals
  <2>2. LetsGo(r)
    BY <1>6, <2>1 DEF ResumeEnter, LetsGo, KeepTexts, Arrived
  <2> QED BY <1>0, <1>a, <1>6, <2>1, <2>2 DEF ResumeEnter, MessageStep
<1>7. CASE ResumeFail(r)
  <2>1. /\ loc'[r].text = loc[r].text /\ loc'[r].res \in Failures
        /\ \A q \in Procs \ {r} : loc'[q] = loc[q]
    BY <1>0, <1>7 DEF ResumeFail, TypeOK, Locals, Failures
  <2> QED BY <1>0, <1>7, <2>1, Still DEF ResumeFail, orchVars, ghostVars
<1>8. CASE Deliver(r)
  <2>1. PICK m \in queue : queue' = queue \ {m} /\ Mark({m}, "delivered")
    BY <1>8 DEF Deliver
  <2>2. Reads(m)
    BY <1>8, <2>1 DEF Deliver, procVars, Reads, KeepTexts
  <2> QED BY <1>8, <2>1, <2>2 DEF Deliver, procVars, Carried, MessageStep
<1>9. CASE JudgeRetry(r)
  BY <1>0, <1>9, Still DEF JudgeRetry, orchVars, ghostVars
<1>10. CASE JudgeCancelled(r)
  <2>1. \A q \in Procs : loc'[q].text = loc[q].text
    BY <1>0, <1>10, Recorded DEF JudgeCancelled
  <2>2. \A q \in Procs \ {r} : loc'[q].res = loc[q].res
    BY <1>0, <1>10, Recorded DEF JudgeCancelled
  <2>3. PICK l \in {"keep", "settle"} : Goto(r, l)
    BY <1>10 DEF JudgeCancelled
  <2> QED BY <1>0, <1>10, <2>1, <2>2, <2>3, Still DEF JudgeCancelled, orchVars
<1>11. CASE JudgeError(r)
  <2>1. loc'[r].text = {} /\ \A q \in Procs \ {r} : loc'[q] = loc[q]
    BY <1>0, <1>11 DEF JudgeError, TypeOK, Locals
  <2>2. LetsGo(r)
    BY <1>11, <2>1 DEF JudgeError, LetsGo, KeepTexts, Arrived, orchVars
  <2> QED BY <1>0, <1>a, <1>11, <2>1, <2>2 DEF JudgeError, MessageStep
<1>12. CASE JudgeDone(r)
  <2>1. PICK l \in {"keep", "release"} : Goto(r, l)
    BY <1>12 DEF JudgeDone
  <2>2. loc[r].text = {}
    BY <1>0, <1>12 DEF JudgeDone, Carried
  <2> QED BY <1>0, <1>12, <2>1, <2>2, Still DEF JudgeDone, orchVars, ghostVars
<1>13. CASE RunSettle(r)
  <2>1. loc'[r].text = {} /\ \A q \in Procs \ {r} : loc'[q] = loc[q]
    BY <1>0, <1>13 DEF RunSettle, TypeOK, Locals
  <2>2. LetsGo(r)
    BY <1>13, <2>1 DEF RunSettle, LetsGo, KeepTexts, Arrived, orchVars
  <2> QED BY <1>0, <1>a, <1>13, <2>1, <2>2 DEF RunSettle, MessageStep
<1>14. CASE ReleaseKeep(r)
  <2>1. loc'[r].text = {} /\ \A q \in Procs \ {r} : loc'[q] = loc[q]
    BY <1>0, <1>14 DEF ReleaseKeep, TypeOK, Locals
  <2>2. LetsGo(r)
    BY <1>14, <2>1 DEF ReleaseKeep, LetsGo, KeepTexts, Arrived
  <2> QED BY <1>0, <1>a, <1>14, <2>1, <2>2 DEF ReleaseKeep, MessageStep
<1>15. CASE ReleaseDrop(r)
  <2>1. loc[r].text = {}
    BY <1>0, <1>15 DEF ReleaseDrop, Carried
  <2>2. Carried'
    BY <1>0, <1>a, <1>15, <2>1 DEF ReleaseDrop
  <2>3. CASE forceTerminated
    <3>1. fate' = fate /\ queue' = queue
      BY <1>15, <2>3 DEF ReleaseDrop, KeptOnDrop, Mark, TypeOK
    <3>2. StaysPut
      BY <1>15, <3>1 DEF ReleaseDrop, StaysPut, KeepTexts
    <3> QED BY <2>2, <3>2 DEF MessageStep
  <2>4. CASE ~forceTerminated
    <3>1. queue' = {} /\ Mark(queue, "discarded")
      BY <1>15, <2>4 DEF ReleaseDrop, KeptOnDrop
    <3>2. Discards
      BY <1>15, <2>4, <3>1 DEF ReleaseDrop, Discards, KeepTexts
    <3> QED BY <2>2, <3>2 DEF MessageStep
  <2> QED BY <2>3, <2>4
<1>16. CASE ReleaseFollowUp(r)
  <2>1. loc[r].text = {}
    BY <1>0, <1>16 DEF ReleaseFollowUp, Carried
  <2>2. /\ loc'[r].text = queue /\ \A q \in Procs \ {r} : loc'[q] = loc[q]
        /\ pc'[r] = "complete" /\ \A q \in Procs \ {r} : pc'[q] = pc[q]
    BY <1>0, <1>16 DEF ReleaseFollowUp, Goto, TypeOK, Locals
  <2>3. CarriedStep(r)
    BY <2>2 DEF CarriedStep
  <2>4. Drains(r)
    BY <1>16, <2>1, <2>2 DEF ReleaseFollowUp, Drains, KeepTexts
  <2> QED BY <1>0, <2>3, <2>4, CarriedKept DEF MessageStep
<1>17. CASE RunComplete(r)
  <2>1. loc[r].text # {} => Goto(r, "gate")
    BY <1>17 DEF RunComplete
  <2>2. PICK l \in {"exit", "gate"} : Goto(r, l) /\ (loc[r].text # {} => l = "gate")
    BY <1>17 DEF RunComplete
  <2> QED BY <1>0, <1>17, <2>2, Still DEF RunComplete, orchVars
<1>18. CASE RunExit(r)
  <2>1. loc'[r] = Blank /\ \A q \in Procs \ {r} : loc'[q] = loc[q]
    BY <1>0, <1>18, Framed DEF RunExit
  <2>2. loc[r].text = {}
    BY <1>0, <1>18 DEF RunExit, Carried
  <2>3. \A q \in Procs : loc'[q].text = loc[q].text
    BY <2>1, <2>2, Blanks
  <2> QED BY <1>0, <1>18, <2>1, <2>2, <2>3, Still DEF RunExit, orchVars
<1>19. CASE EngineReturn(r)
  <2>1. /\ loc'[r].text = loc[r].text /\ \A q \in Procs \ {r} : loc'[q] = loc[q]
        /\ Goto(r, "judge") /\ UNCHANGED <<queue, fate>>
    BY <1>0, <1>19 DEF EngineReturn, TypeOK, Locals, ghostVars
  <2>2. loc[r].text = {}
    BY <1>0, <1>19 DEF EngineReturn, Carried
  <2> QED BY <1>0, <2>1, <2>2, Still
<1>20. CASE LaunchStep(r)
  BY <1>0, <1>20, LaunchMessages
<1> QED
  BY <1>1, <1>2, <1>3, <1>4, <1>5, <1>6, <1>7, <1>8, <1>9, <1>10, <1>11, <1>12, <1>13,
     <1>14, <1>15, <1>16, <1>17, <1>18, <1>19, <1>20
     DEF RunStep

(* The compaction flows.                                                    *)
LEMMA FlowMessages ==
  ASSUME TypeOK, Carried, NEW f \in Flows, FlowStep(f) PROVE Carried' /\ MessageStep
<1> USE DEF CarryAt
<1>0. f \in Procs
  BY Apart
<1>1. CASE FlowSignal(f)
  BY <1>0, <1>1, Still DEF FlowSignal, RaisePause, ghostVars
<1>2. CASE FlowAwait(f) \/ FlowSwap(f)
  <2>1. \A q \in Procs : loc'[q].text = loc[q].text
    BY <1>0, <1>2, Recorded DEF FlowAwait, FlowSwap
  <2>2. \A q \in Procs \ {f} : loc'[q].res = loc[q].res
    BY <1>0, <1>2, Recorded DEF FlowAwait, FlowSwap
  <2>3. PICK l \in {"swap", "cdefer"} : Goto(f, l)
    BY <1>2 DEF FlowAwait, FlowSwap
  <2>4. UNCHANGED <<queue, fate>> /\ pc[f] \in {"cwait", "swap"}
    BY <1>2 DEF FlowAwait, FlowSwap, orchVars, ghostVars
  <2> QED BY <1>0, <2>1, <2>2, <2>3, <2>4, Still
<1>3. CASE FlowDefer(f)
  BY <1>0, <1>3, Still DEF FlowDefer, ghostVars
<1>4. CASE FlowClear(f)
  BY <1>0, <1>4, Still DEF FlowClear, orchVars, ghostVars
<1>5. CASE FlowOwner(f)
  <2>1. loc[f].text = {}
    BY <1>0, <1>5 DEF FlowOwner, Carried
  <2>2. /\ \A q \in Procs \ {f} : loc'[q] = loc[q]
        /\ loc'[f].text = {}
    <3>1. CASE UNCHANGED loc
      BY <2>1, <3>1
    <3>2. CASE loc' = [loc EXCEPT ![f] = Blank]
      BY <1>0, <3>2, Framed, Blanks
    <3> QED BY <1>5, <3>1, <3>2 DEF FlowOwner
  <2>3. PICK l \in {"lookup", "idle"} : Goto(f, l)
    BY <1>5 DEF FlowOwner
  <2> QED BY <1>0, <1>5, <2>1, <2>2, <2>3, Still DEF FlowOwner, orchVars
<1>6. CASE LaunchStep(f)
  BY <1>0, <1>6, LaunchMessages
<1> QED BY <1>1, <1>2, <1>3, <1>4, <1>5, <1>6 DEF FlowStep

(* Every step of the system moves messages in one of these ways.             *)
LEMMA MessageMoves ==
  ASSUME TypeOK, Carried, Next PROVE Carried' /\ MessageStep
  BY BeginMessages, CallMessages, RunMessages, FlowMessages DEF Next

(* Carried and Homes hold in every state of every behaviour.                 *)
THEOREM MessagesInductive == Spec => [](Carried /\ Homes)
<1>1. Init => Carried /\ Homes
  <2> SUFFICES ASSUME Init PROVE Carried /\ Homes
    OBVIOUS
  <2>1. /\ \A p \in Procs : loc[p].text = {}
        /\ queue = {} /\ \A m \in Msgs : fate[m] = "unsent"
    BY DEF Init, Blank
  <2> QED BY <2>1 DEF Carried, Homes, Moving
<1>2. TypeOK /\ Carried /\ Homes /\ [Next]_vars => (Carried /\ Homes)'
  <2>1. ASSUME TypeOK, Carried, Homes, Next PROVE (Carried /\ Homes)'
    BY <2>1, MessageMoves, HomesKept
  <2>2. ASSUME Carried, Homes, UNCHANGED vars PROVE (Carried /\ Homes)'
    BY <2>2 DEF vars, orchVars, procVars, ghostVars, Carried, Homes
  <2> QED BY <2>1, <2>2
<1> QED BY <1>1, <1>2, Typed, PTL DEF Spec

(* A message on its way is in exactly one place and a settled one in none:   *)
(* sending, delivering, draining into a follow-up and re-queueing lose and   *)
(* duplicate nothing, whatever the interleaving.                             *)
THEOREM MessageHomeHolds == Spec => []MessageHome
<1>1. TypeOK /\ Homes => MessageHome
  <2> SUFFICES ASSUME TypeOK, Homes, NEW m \in Msgs
               PROVE  LET carriers == {p \in Procs : m \in loc[p].text}
                      IN  IF fate[m] \in Moving
                            THEN IF m \in queue THEN carriers = {}
                                 ELSE Cardinality(carriers) = 1
                            ELSE m \notin queue /\ carriers = {}
    BY DEF MessageHome, Moving
  <2> DEFINE carriers == {p \in Procs : m \in loc[p].text}
  <2>1. CASE fate[m] \in Moving /\ m \notin queue
    <3>1. PICK p \in Procs : m \in loc[p].text
      BY <2>1 DEF Homes
    <3>2. carriers = {p}
      BY <3>1 DEF Homes
    <3> QED BY <2>1, <3>2, FS_Singleton
  <2>2. CASE fate[m] \notin Moving \/ m \in queue
    BY <2>2 DEF Homes
  <2> QED BY <2>1, <2>2
<1> QED BY <1>1, Typed, MessagesInductive, PTL

(* What a user sends after a forced termination stays for the next task: no  *)
(* step discards it from the queue while the dead run still has the session. *)
THEOREM LateSurvivesForceHolds == Spec => LateSurvivesForce
<1>1. TypeOK /\ Carried /\ Homes /\ [Next]_vars =>
        [forceTerminated =>
           \A m \in queue : fate[m] = "late" => fate'[m] # "discarded"]_vars
  <2> SUFFICES ASSUME TypeOK, Carried, Homes, Next, forceTerminated, NEW m \in queue,
                      fate[m] = "late"
               PROVE  fate'[m] # "discarded"
    OBVIOUS
  <2>0. /\ m \in Msgs /\ \A p \in Procs : m \notin loc[p].text
        /\ \A ms, f : Mark(ms, f) => fate'[m] = IF m \in ms THEN f ELSE fate[m]
    BY DEF TypeOK, Homes, Mark
  <2>1. MessageStep
    BY MessageMoves
  <2>2. CASE \E n \in queue : Reads(n)
    <3>1. PICK n \in queue : Mark({n}, "delivered")
      BY <2>2 DEF Reads
    <3>2. fate'[m] = IF m \in {n} THEN "delivered" ELSE fate[m]
      BY <2>0, <3>1
    <3> QED BY <3>2
  <2>3. CASE ~\E n \in queue : Reads(n)
    <3>1. fate'[m] = fate[m]
      BY <2>0, <2>1, <2>3
         DEF MessageStep, StaysPut, Discards, LetsGo, Queues, Drains, HandsOver, IsSent
    <3> QED BY <3>1
  <2> QED BY <2>2, <2>3
<1> QED BY <1>1, Typed, MessagesInductive, PTL DEF Spec, LateSurvivesForce

-----------------------------------------------------------------------------
(* The session implements Inbox.                                            *)

LEMMA TogetherIs ==
  /\ \A ms : ms \in Together <=> ms # {} /\ \E p \in Procs : loc[p].text = ms
  /\ \A ms : ms \in Together' <=> ms # {} /\ \E p \in Procs : loc'[p].text = ms
  BY DEF Together

LEMMA ReplyIs ==
  /\ Reply = [m \in Msgs |-> IF fate[m] \in Moving THEN "open" ELSE fate[m]]
  /\ Reply' = [m \in Msgs |-> IF fate'[m] \in Moving THEN "open" ELSE fate'[m]]
  BY DEF Reply

(* Marking messages that were not open yet or arrive gives them the answer,  *)
(* and marking open ones as still on their way gives them none.              *)
LEMMA Replies ==
  ASSUME NEW ms, NEW f, Mark(ms, f)
  PROVE  /\ f \notin Moving => Messages!Answer(ms, f)
         /\ f \in Moving => Messages!Answer(ms, "open")
<1>1. \A m \in Msgs : fate'[m] = IF m \in ms THEN f ELSE fate[m]
  BY DEF Mark
<1>2. \A m \in Msgs : Reply[m] = IF fate[m] \in Moving THEN "open" ELSE fate[m]
  BY ReplyIs
<1>3. ASSUME f \notin Moving PROVE Messages!Answer(ms, f)
  <2>1. Reply' = [m \in Msgs |-> IF m \in ms THEN f ELSE Reply[m]]
    BY <1>1, <1>2, <1>3, ReplyIs
  <2> QED BY <2>1 DEF Messages!Answer
<1>4. ASSUME f \in Moving PROVE Messages!Answer(ms, "open")
  <2>1. Reply' = [m \in Msgs |-> IF m \in ms THEN "open" ELSE Reply[m]]
    BY <1>1, <1>2, <1>4, ReplyIs
  <2> QED BY <2>1 DEF Messages!Answer
<1> QED BY <1>3, <1>4

(* An answer that says nothing new leaves the answers as they are.           *)
LEMMA NoReply ==
  ASSUME NEW ms, NEW a, Messages!Answer(ms, a), \A m \in ms \cap Msgs : Reply[m] = a
  PROVE  UNCHANGED Reply
<1>1. Reply' = [m \in Msgs |-> IF m \in ms THEN a ELSE Reply[m]]
  BY DEF Messages!Answer
<1>2. Reply' = [m \in Msgs |-> Reply[m]]
  BY <1>1
<1>3. Reply = [m \in Msgs |-> Reply[m]]
  BY ReplyIs
<1> QED BY <1>2, <1>3

(* Who lets go of all it holds takes what it held from what travels.         *)
LEMMA HandsEmptied ==
  ASSUME Homes, NEW p \in Procs, loc'[p].text = {}, KeepTexts({p})
  PROVE  Together' = Together \ {loc[p].text}
<1>1. ASSUME NEW ms, ms \in Together' PROVE ms \in Together \ {loc[p].text}
  <2>1. PICK q \in Procs : loc'[q].text = ms /\ ms # {}
    BY <1>1, TogetherIs
  <2>2. q # p /\ loc[q].text = ms
    BY <2>1 DEF KeepTexts
  <2>3. ms # loc[p].text
    BY <2>1, <2>2 DEF Homes
  <2> QED BY <2>1, <2>2, <2>3, TogetherIs
<1>2. ASSUME NEW ms, ms \in Together \ {loc[p].text} PROVE ms \in Together'
  <2>1. PICK q \in Procs : loc[q].text = ms /\ ms # {}
    BY <1>2, TogetherIs
  <2>2. q # p /\ loc'[q].text = ms
    BY <1>2, <2>1 DEF KeepTexts
  <2> QED BY <2>1, <2>2, TogetherIs
<1> QED BY <1>1, <1>2

(* Who takes messages with empty hands adds them to what travels.            *)
LEMMA HandsFilled ==
  ASSUME NEW p \in Procs, loc[p].text = {}, loc'[p].text # {}, KeepTexts({p})
  PROVE  Together' = Together \cup {loc'[p].text}
<1>1. ASSUME NEW ms, ms \in Together' PROVE ms \in Together \cup {loc'[p].text}
  <2>1. PICK q \in Procs : loc'[q].text = ms /\ ms # {}
    BY <1>1, TogetherIs
  <2>2. q # p => loc[q].text = ms
    BY <2>1 DEF KeepTexts
  <2> QED BY <2>1, <2>2, TogetherIs
<1>2. ASSUME NEW ms, ms \in Together \cup {loc'[p].text} PROVE ms \in Together'
  <2>1. CASE ms = loc'[p].text
    BY <2>1, TogetherIs
  <2>2. CASE ms # loc'[p].text
    <3>1. PICK q \in Procs : loc[q].text = ms /\ ms # {}
      BY <1>2, <2>2, TogetherIs
    <3>2. loc'[q].text = ms
      BY <3>1 DEF KeepTexts
    <3> QED BY <3>1, <3>2, TogetherIs
  <2> QED BY <2>1, <2>2
<1> QED BY <1>1, <1>2

LEMMA HandsStay ==
  ASSUME KeepTexts({}) PROVE UNCHANGED Together
<1>1. \A p \in Procs : loc'[p].text = loc[p].text
  BY DEF KeepTexts
<1>2. \A ms : ms \in Together' <=> ms \in Together
  BY <1>1, TogetherIs
<1> QED BY <1>2

(* Each way of moving messages is a step of the inbox, or none.              *)
LEMMA InboxStep ==
  ASSUME TypeOK, Homes, MessageStep PROVE [Messages!Next]_(Messages!vars)
<1>0. /\ \A p \in Procs : loc[p].text \subseteq Msgs
      /\ queue \subseteq Msgs
      /\ Moving \cap Arrived = {}
  BY DEF TypeOK, Locals, Moving, Arrived
<1>a. \A m \in Msgs : fate[m] \in Moving => Reply[m] = "open"
  BY ReplyIs
<1>b. ASSUME UNCHANGED fate PROVE UNCHANGED Reply
  BY <1>b, ReplyIs
<1>c. ASSUME UNCHANGED <<Together, queue, Reply>> PROVE [Messages!Next]_(Messages!vars)
  BY <1>c DEF Messages!vars
<1>1. CASE StaysPut
  BY <1>1, <1>b, <1>c, HandsStay DEF StaysPut
<1>2. CASE Discards
  <2>1. UNCHANGED Together /\ Messages!Answer(queue, "discarded")
    BY <1>2, HandsStay, Replies DEF Discards, Moving
  <2>2. CASE queue # {}
    <3>1. Messages!Discard
      BY <1>2, <2>1, <2>2 DEF Discards, Messages!Discard
    <3> QED BY <3>1 DEF Messages!Next
  <2>3. CASE queue = {}
    BY <1>2, <1>c, <2>1, <2>3, NoReply DEF Discards
  <2> QED BY <2>2, <2>3
<1>3. ASSUME NEW m \in queue, Reads(m) PROVE [Messages!Next]_(Messages!vars)
  <2>1. UNCHANGED Together /\ Messages!Answer({m}, "delivered")
    BY <1>3, HandsStay, Replies DEF Reads, Moving
  <2>2. Messages!Read(m)
    BY <1>3, <2>1 DEF Reads, Messages!Read
  <2> QED BY <2>2 DEF Messages!Next
<1>4. ASSUME NEW p \in Procs, LetsGo(p) PROVE [Messages!Next]_(Messages!vars)
  <2>1. Together' = Together \ {loc[p].text} /\ UNCHANGED queue
    BY <1>4, HandsEmptied DEF LetsGo
  <2>2. PICK f \in Arrived : Mark(loc[p].text, f)
    BY <1>4 DEF LetsGo
  <2>3. Messages!Answer(loc[p].text, f) /\ f \in Messages!Answers
    BY <1>0, <2>2, Replies DEF Arrived, Messages!Answers
  <2>4. CASE loc[p].text # {}
    <3>1. Messages!Settle(loc[p].text, f)
      BY <2>1, <2>3 DEF Messages!Settle
    <3>2. loc[p].text \in Together
      BY <2>4, TogetherIs
    <3> QED BY <2>3, <3>1, <3>2 DEF Messages!Next
  <2>5. CASE loc[p].text = {}
    <3>1. UNCHANGED Reply
      BY <2>3, <2>5, NoReply
    <3>2. UNCHANGED Together
      BY <2>1, <2>5, TogetherIs
    <3> QED BY <1>c, <2>1, <3>1, <3>2
  <2> QED BY <2>4, <2>5
<1>5. ASSUME NEW p \in Procs, Queues(p) PROVE [Messages!Next]_(Messages!vars)
  <2>1. Together' = Together \ {loc[p].text} /\ queue' = queue \cup loc[p].text
    BY <1>5, HandsEmptied DEF Queues
  <2>2. Messages!Answer(loc[p].text, "open")
    BY <1>5, Replies DEF Queues
  <2>3. \A m \in loc[p].text : Reply[m] = "open"
    BY <1>0, <1>a DEF Homes
  <2>4. UNCHANGED Reply
    BY <2>2, <2>3, NoReply
  <2>5. CASE loc[p].text # {}
    <3>1. Messages!Enqueue(loc[p].text)
      BY <2>1, <2>4 DEF Messages!Enqueue
    <3>2. loc[p].text \in Together
      BY <2>5, TogetherIs
    <3> QED BY <3>1, <3>2 DEF Messages!Next
  <2>6. CASE loc[p].text = {}
    <3>1. UNCHANGED Together
      BY <2>1, <2>6, TogetherIs
    <3> QED BY <1>c, <2>1, <2>4, <2>6, <3>1
  <2> QED BY <2>5, <2>6
<1>6. ASSUME NEW p \in Procs, Drains(p) PROVE [Messages!Next]_(Messages!vars)
  <2>1. UNCHANGED Reply
    BY <1>6, <1>b DEF Drains
  <2>2. CASE queue # {}
    <3>1. Together' = Together \cup {queue}
      BY <1>6, <2>2, HandsFilled DEF Drains
    <3>2. Messages!FollowUp
      BY <1>6, <2>1, <2>2, <3>1 DEF Drains, Messages!FollowUp
    <3> QED BY <3>2 DEF Messages!Next
  <2>3. CASE queue = {}
    <3>1. KeepTexts({}) /\ UNCHANGED queue
      BY <1>6, <2>3 DEF Drains, KeepTexts
    <3> QED BY <1>c, <2>1, <3>1, HandsStay
  <2> QED BY <2>2, <2>3
<1>7. ASSUME NEW p \in Procs, NEW q \in Procs, HandsOver(p, q)
      PROVE  [Messages!Next]_(Messages!vars)
  <2>1. /\ p # q /\ loc[q].text = {} /\ loc'[q].text = loc[p].text /\ loc'[p].text = {}
        /\ \A x \in Procs \ {p, q} : loc'[x].text = loc[x].text
    BY <1>7 DEF HandsOver, KeepTexts
  <2>2. \A ms : ms \in Together' <=> ms \in Together
    BY <2>1, TogetherIs
  <2>3. UNCHANGED Together
    BY <2>2
  <2>4. UNCHANGED queue /\ UNCHANGED Reply
    BY <1>7, <1>b DEF HandsOver
  <2> QED BY <1>c, <2>3, <2>4
<1>8. ASSUME NEW p \in Procs, NEW m \in Msgs, IsSent(p, m) PROVE [Messages!Next]_(Messages!vars)
  <2>1. Together' = Together \cup {{m}} /\ UNCHANGED queue
    BY <1>8, HandsFilled DEF IsSent
  <2>2. Messages!Answer({m}, "open") /\ Reply[m] = "unsent"
    BY <1>8, Replies, ReplyIs DEF IsSent, Moving
  <2>3. Messages!Send(m)
    BY <2>1, <2>2 DEF Messages!Send
  <2> QED BY <2>3 DEF Messages!Next
<1> QED BY <1>1, <1>2, <1>3, <1>4, <1>5, <1>6, <1>7, <1>8 DEF MessageStep

(* To its clients a session is an inbox which answers every message once and *)
(* for good and keeps together what it has put together: each step of any    *)
(* goroutine sends, moves or answers messages as Inbox says, or none.        *)
THEOREM AnswersOnceHolds == Spec => AnswersOnce
<1>1. Init => Messages!Init
  <2> SUFFICES ASSUME Init PROVE Messages!Init
    OBVIOUS
  <2>1. queue = {} /\ \A p \in Procs : loc[p].text = {}
    BY DEF Init, Blank
  <2>2. Together = {}
    BY <2>1, TogetherIs
  <2>3. fate = [m \in Msgs |-> "unsent"]
    BY DEF Init
  <2>4. Reply = [m \in Msgs |-> "unsent"]
    BY <2>3 DEF Reply, Moving
  <2> QED BY <2>1, <2>2, <2>4 DEF Messages!Init
<1>2. TypeOK /\ Carried /\ Homes /\ [Next]_vars => [Messages!Next]_(Messages!vars)
  <2>1. ASSUME TypeOK, Carried, Homes, Next PROVE [Messages!Next]_(Messages!vars)
    BY <2>1, MessageMoves, InboxStep
  <2>2. ASSUME UNCHANGED vars PROVE UNCHANGED Messages!vars
    BY <2>2 DEF vars, orchVars, procVars, ghostVars, Messages!vars, Together, Reply
  <2> QED BY <2>1, <2>2
<1> QED BY <1>1, <1>2, Typed, MessagesInductive, PTL DEF Spec, AnswersOnce, Messages!Spec

-----------------------------------------------------------------------------
(* The task rows                                                            *)

(* A shutdown that collects or checkpoints has begun.                        *)
Down == \A c \in Calls : pc[c] \in {"collect", "checkpoint"} => shuttingDown

-----------------------------------------------------------------------------
(* What a step of another leaves of a run: its place, and its locals but for *)
(* a cancelled context.                                                     *)
Cancelling ==
  Ops \cap {"stop", "archive", "delete"} # {} \/ \E c \in Calls : pc[c] = "collect"
Spared(r) ==
  /\ pc'[r] = pc[r]
  /\ loc'[r] = loc[r] \/ (Cancelling /\ loc'[r] = [loc[r] EXCEPT !.ctx = TRUE])

(* A run that is launched.                                                   *)
Launched(r) ==
  /\ pc[r] = "idle" /\ loc'[r].ctx = FALSE
  /\ \/ pc'[r] = "reactivate"
     \/ /\ pc'[r] = "start"
        /\ \E p \in Procs : pc[p] = "activate" /\ loc'[r].goal = loc[p].goal

LEMMA OthersSpared ==
  ASSUME TypeOK, NEW p \in Procs, NEW l, Goto(p, l), NEW x,
         loc' = loc \/ loc' = [loc EXCEPT ![p] = x]
  PROVE  \A r \in Runs : r # p => Spared(r)
  BY Framed, Apart DEF Spared

LEMMA LaunchSpares ==
  ASSUME TypeOK, NEW p \in Procs, LaunchStep(p), NEW r \in Runs, r # p
  PROVE  Spared(r) \/ Launched(r)
<1>0. r \in Procs
  BY Apart
<1>1. CASE Refuse(p) \/ RefuseCompacting(p)
  <2>1. loc' = [loc EXCEPT ![p] = Left(p)] /\ \E l : Goto(p, l)
    BY <1>1, Zenon DEF Refuse, RefuseCompacting
  <2> QED BY <2>1, OthersSpared
<1>2. ASSUME NEW q \in Runs, NEW via \in {"msg", "resume"}, NEW t, Activate(p, q, via, t),
             via = "msg" => pc[p] = "activate"
      PROVE  Spared(r) \/ Launched(r)
  <2>1. CASE r = q
    <3>1. /\ pc[r] = "idle"
          /\ pc'[r] = IF via = "resume" THEN "reactivate" ELSE "start"
          /\ loc'[r].ctx = FALSE /\ loc'[r].goal = loc[p].goal
      BY <1>0, <1>2, <2>1 DEF Activate, Blank, TypeOK
    <3> QED BY <1>2, <3>1 DEF Launched
  <2>2. CASE r # q
    BY <1>0, <1>2, <2>2 DEF Activate, Spared, TypeOK
  <2> QED BY <2>1, <2>2
<1>3. CASE SendGate(p)
  <2>1. CASE UNCHANGED loc /\ \E l : Goto(p, l)
    BY <2>1, OthersSpared
  <2>2. CASE loc' = [loc EXCEPT ![p] = Left(p)] /\ \E l : Goto(p, l)
    BY <2>2, OthersSpared
  <2> QED BY <1>1, <1>3, <2>1, <2>2, Zenon DEF SendGate
<1>4. CASE SendRoute(p)
  BY <1>4, OthersSpared DEF SendRoute
<1>5. CASE SendActivate(p)
  BY <1>1, <1>2, <1>5 DEF SendActivate
<1>6. CASE ResumeLookup(p)
  <2>1. CASE loc' = [loc EXCEPT ![p] = Left(p)] /\ \E l : Goto(p, l)
    BY <2>1, OthersSpared
  <2>2. CASE /\ Goto(p, "resume")
             /\ loc' = [loc EXCEPT ![p].tid = Unfinished, ![p].goal = goal[Unfinished]]
    BY <1>0, <2>2 DEF Goto, TypeOK, Spared
  <2> QED BY <1>1, <1>6, <2>1, <2>2, Zenon DEF ResumeLookup
<1>7. CASE ResumeActivate(p)
  BY <1>1, <1>2, <1>7 DEF ResumeActivate
<1> QED BY <1>3, <1>4, <1>5, <1>6, <1>7 DEF LaunchStep

LEMMA CancelSpares ==
  ASSUME TypeOK, NEW l \in [Procs -> Locals], NEW r \in Runs
  PROVE  /\ CancelRun(l)[r] \in {l[r], [l[r] EXCEPT !.ctx = TRUE]}
         /\ CancelFlow(l)[r] = l[r]
  BY Apart DEF CancelRun, CancelFlow, TypeOK

LEMMA BeginSpares ==
  ASSUME TypeOK, NEW c \in Calls, Begin(c), NEW r \in Runs PROVE Spared(r)
<1>0. c \in Procs /\ r # c
  BY Apart
<1>1. CASE \E m \in Msgs, g \in BOOLEAN : SendCall(c, m, g)
  BY <1>0, <1>1, Apart DEF SendCall, Goto, TypeOK, Spared
<1>2. CASE ResumeCall(c) \/ PauseCall(c) \/ ShutdownCall(c)
  BY <1>0, <1>2, OthersSpared DEF ResumeCall, PauseCall, ShutdownCall
<1>3. CASE StopCall(c)
  <2>1. CASE Over(c)
    BY <1>0, <2>1, OthersSpared DEF Over
  <2>2. CASE UNCHANGED loc /\ \E l : Goto(c, l)
    BY <1>0, <2>2, OthersSpared
  <2>3. CASE Goto(c, "waiting") /\ loc' = CancelContext(current)
    <3>1. Cancelling
      BY <1>3 DEF StopCall, Cancelling
    <3>2. pc'[r] = pc[r]
      BY <1>0, <2>3, Framed, Apart
    <3>3. loc'[r] = loc[r] \/ loc'[r] = [loc[r] EXCEPT !.ctx = TRUE]
      BY <2>3, Apart DEF CancelContext, TypeOK
    <3> QED BY <3>1, <3>2, <3>3 DEF Spared
  <2> QED BY <1>3, <2>1, <2>2, <2>3, Zenon DEF StopCall
<1>4. CASE CompactCall(c)
  <2>1. PICK f \in Flows :
          /\ pc' = [pc EXCEPT ![c] = "done", ![f] = IF active THEN "csignal" ELSE "swap"]
          /\ loc' = [loc EXCEPT ![f] = [Blank EXCEPT !.flag = active]]
    BY <1>4 DEF CompactCall
  <2> QED BY <1>0, <2>1, Apart DEF Spared, TypeOK
<1>5. CASE CancelCompactCall(c)
  <2>1. pc'[r] = pc[r]
    BY <1>0, <1>5, Framed, Apart DEF CancelCompactCall
  <2>2. loc'[r] = loc[r]
    BY <1>5, CancelSpares DEF CancelCompactCall, TypeOK
  <2> QED BY <2>1, <2>2 DEF Spared
<1>6. CASE ArchiveCall(c)
  <2> DEFINE was == IF archived THEN loc ELSE CancelRun(loc)
  <2>1. was \in [Procs -> Locals] /\ was[r] \in {loc[r], [loc[r] EXCEPT !.ctx = TRUE]}
    BY CancelSpares, Cancels DEF TypeOK
  <2>2. loc' = [was EXCEPT ![c].flag = ~archived] /\ "archive" \in Ops
    BY <1>6 DEF ArchiveCall
  <2> HIDE DEF was
  <2>3. loc'[r] = was[r]
    BY <1>0, <2>1, <2>2, Apart
  <2>4. PICK l : Goto(c, l)
    BY <1>6 DEF ArchiveCall
  <2>5. pc'[r] = pc[r]
    BY <1>0, <2>4, Framed, Apart
  <2> QED BY <2>1, <2>2, <2>3, <2>5 DEF Spared, Cancelling
<1>7. CASE DeleteCall(c)
  <2>1. pc'[r] = pc[r] /\ "delete" \in Ops
    BY <1>0, <1>7, Framed, Apart DEF DeleteCall
  <2>2. loc'[r] = loc[r] \/ loc'[r] = [loc[r] EXCEPT !.ctx = TRUE]
    <3>1. loc' = CancelFlow(CancelRun(loc)) /\ CancelRun(loc) \in [Procs -> Locals]
      BY <1>7, Cancels DEF DeleteCall, TypeOK
    <3>2. CancelFlow(CancelRun(loc))[r] = CancelRun(loc)[r]
      BY <3>1, CancelSpares
    <3> QED BY <3>1, <3>2, CancelSpares DEF TypeOK
  <2> QED BY <2>1, <2>2 DEF Spared, Cancelling
<1> QED BY <1>1, <1>2, <1>3, <1>4, <1>5, <1>6, <1>7 DEF Begin

LEMMA CallSpares ==
  ASSUME TypeOK, NEW c \in Calls, CallStep(c), NEW r \in Runs
  PROVE  Spared(r) \/ Launched(r)
<1>0. c \in Procs /\ r # c
  BY Apart
<1>1. CASE LaunchStep(c)
  BY <1>0, <1>1, LaunchSpares
<1>2. CASE ShutdownCollect(c)
  <2> DEFINE was == CancelFlow(CancelRun(loc))
             running == active /\ current # None
  <2>1. was \in [Procs -> Locals] /\ was[r] \in {loc[r], [loc[r] EXCEPT !.ctx = TRUE]}
    BY CancelSpares, Cancels DEF TypeOK
  <2>2. loc' = IF present THEN [was EXCEPT ![c].flag = running] ELSE loc
    BY <1>2 DEF ShutdownCollect
  <2> HIDE DEF was, running
  <2>3. loc'[r] = was[r] \/ loc'[r] = loc[r]
    BY <1>0, <2>1, <2>2, Apart
  <2>4. pc'[r] = pc[r] /\ pc[c] = "collect"
    BY <1>0, <1>2, Framed, Apart DEF ShutdownCollect
  <2> QED BY <2>1, <2>3, <2>4 DEF Spared, Cancelling
<1>3. CASE ~LaunchStep(c) /\ ~ShutdownCollect(c)
  <2>1. (\E l : Goto(c, l)) /\ (loc' = loc \/ loc' = [loc EXCEPT ![c] = Blank])
    BY <1>3, Zenon
       DEF CallStep, StopDiscard, StopReturn, StopTimeout, StopClaim, StopForce, PauseSignal,
           RaisePause, ArchiveDiscard, ArchiveSet, DeleteRemove, ShutdownCheckpoint, Over
  <2> QED BY <1>0, <2>1, OthersSpared
<1> QED BY <1>1, <1>2, <1>3

LEMMA RunSpares ==
  ASSUME TypeOK, NEW q \in Runs, RunStep(q) \/ EngineReturn(q), NEW r \in Runs, r # q
  PROVE  Spared(r) \/ Launched(r)
<1>0. q \in Procs /\ r \in Procs
  BY Apart
<1>1. CASE LaunchStep(q)
  BY <1>0, <1>1, LaunchSpares
<1>2. CASE Deliver(q)
  BY <1>2 DEF Deliver, procVars, Spared
<1>3. CASE ~LaunchStep(q) /\ ~Deliver(q)
  <2>1. \E l : Goto(q, l)
    <3>1. ~UNCHANGED pc
      BY <1>0, <1>3
         DEF RunStep, EngineReturn, Goto, TypeOK,
             RunReactivate, RunTakeover, RunContinue, HandleCommit, HandleFail, ResumeEnter,
             ResumeFail, JudgeRetry, JudgeCancelled, JudgeError, JudgeDone, RunSettle,
             ReleaseKeep, ReleaseDrop, ReleaseFollowUp, RunComplete, RunExit
    <3> QED BY <1>3, <3>1, OneMoves
  <2>2. loc'[r] = loc[r]
    <3>1. CASE \/ RunReactivate(q) \/ RunTakeover(q) \/ RunContinue(q) \/ HandleCommit(q)
               \/ HandleFail(q) \/ ResumeEnter(q) \/ ResumeFail(q)
      BY <1>0, <3>1
         DEF RunReactivate, RunTakeover, RunContinue, HandleCommit, HandleFail, ResumeEnter,
             ResumeFail, TypeOK
    <3>2. CASE \/ JudgeRetry(q) \/ JudgeCancelled(q) \/ JudgeError(q) \/ JudgeDone(q)
               \/ RunSettle(q) \/ EngineReturn(q)
      BY <1>0, <3>2
         DEF JudgeRetry, JudgeCancelled, JudgeError, JudgeDone, RunSettle, EngineReturn, TypeOK
    <3>3. CASE \/ ReleaseKeep(q) \/ ReleaseDrop(q) \/ ReleaseFollowUp(q) \/ RunComplete(q)
               \/ RunExit(q)
      BY <1>0, <3>3
         DEF ReleaseKeep, ReleaseDrop, ReleaseFollowUp, RunComplete, RunExit, TypeOK
    <3> QED BY <1>3, <3>1, <3>2, <3>3 DEF RunStep
  <2> QED BY <1>0, <2>1, <2>2, Framed DEF Spared
<1> QED BY <1>1, <1>2, <1>3

LEMMA FlowSpares ==
  ASSUME TypeOK, NEW f \in Flows, FlowStep(f), NEW r \in Runs
  PROVE  Spared(r) \/ Launched(r)
<1>0. f \in Procs /\ r # f
  BY Apart
<1>1. CASE LaunchStep(f)
  BY <1>0, <1>1, LaunchSpares
<1>2. CASE ~LaunchStep(f)
  <2>1. \E l : Goto(f, l)
    BY <1>2, Zenon
       DEF FlowStep, FlowSignal, FlowAwait, FlowSwap, FlowDefer, FlowClear, FlowOwner
  <2>2. loc'[r] = loc[r]
    BY <1>0, <1>2, Apart
       DEF FlowStep, FlowSignal, RaisePause, FlowAwait, FlowSwap, FlowDefer, FlowClear,
           FlowOwner, TypeOK
  <2> QED BY <1>0, <2>1, <2>2, Framed, Apart DEF Spared
<1> QED BY <1>1, <1>2

(* A run takes a step itself, is launched, or is spared.                     *)
LEMMA RunFrame ==
  ASSUME TypeOK, Next, NEW r \in Runs
  PROVE  RunStep(r) \/ EngineReturn(r) \/ Launched(r) \/ Spared(r)
  BY BeginSpares, CallSpares, RunSpares, FlowSpares DEF Next

-----------------------------------------------------------------------------
(* What a step which is no run's own does to the task rows: a closed row      *)
(* stays, and only a shutdown pauses one.                                    *)
RowsClose ==
  \A t \in Tasks :
    \/ row'[t] = row[t]
    \/ /\ row[t] \in UnfinishedStatuses
       /\ row'[t] = "cancelled" \/ (row'[t] = "paused" /\ shuttingDown)

LEMMA OpenRow ==
  ASSUME TypeOK
  PROVE  Unfinished \in Tasks => row[Unfinished] \in UnfinishedStatuses
                                 /\ \A u \in Tasks : row[u] \in UnfinishedStatuses => u <= Unfinished
<1> DEFINE open == {t \in Tasks : row[t] \in UnfinishedStatuses}
<1>1. CASE open = {}
  BY <1>1 DEF Unfinished, NoTask, Tasks
<1>2. CASE open # {}
  <2>1. \E t \in open : \A u \in open : u <= t
    BY <1>2, Extremes
  <2>2. Unfinished \in open /\ \A u \in open : u <= Unfinished
    BY <1>2, <2>1 DEF Unfinished
  <2> QED BY <2>2
<1> QED BY <1>1, <1>2

LEMMA CancelCloses ==
  ASSUME TypeOK, row' = Put(row, Unfinished, "cancelled") PROVE RowsClose
  BY OpenRow DEF Put, RowsClose

LEMMA LaunchRows ==
  ASSUME NEW p \in Procs, LaunchStep(p)
  PROVE  UNCHANGED <<row, shuttingDown, present>> /\ (stale => stale')
<1>1. Refuse(p) \/ RefuseCompacting(p) => UNCHANGED <<row, shuttingDown, present, stale>>
  BY DEF Refuse, RefuseCompacting, storeVars, lifeVars
<1>2. \A q \in Runs, via \in {"msg", "resume"} : \A t :
        Activate(p, q, via, t) => UNCHANGED <<row, shuttingDown, present>>
  BY DEF Activate, storeVars, lifeVars
<1>3. CASE SendGate(p) \/ SendRoute(p)
  BY <1>1, <1>3 DEF SendGate, SendRoute, storeVars, lifeVars, ghostVars
<1>4. CASE SendActivate(p)
  <2>1. CASE RefuseCompacting(p)
    BY <1>1, <2>1
  <2>2. ASSUME NEW q \in Runs, Activate(p, q, "msg", NoTask),
               stale' = (stale \/ active \/ deleting \/ archived \/ ~present \/ shuttingDown)
        PROVE  UNCHANGED <<row, shuttingDown, present>> /\ (stale => stale')
    BY <1>2, <2>2, Zenon
  <2> QED BY <1>4, <2>1, <2>2 DEF SendActivate
<1>5. CASE ResumeLookup(p) \/ ResumeActivate(p)
  BY <1>1, <1>2, <1>5 DEF ResumeLookup, ResumeActivate, storeVars, lifeVars, ghostVars
<1> QED BY <1>3, <1>4, <1>5 DEF LaunchStep

LEMMA CallRows ==
  ASSUME TypeOK, Down, NEW c \in Calls, Begin(c) \/ CallStep(c)
  PROVE  RowsClose /\ (stale => stale') /\ (shuttingDown => shuttingDown') /\ (present' => present)
<1>1. CASE Begin(c)
  <2>1. UNCHANGED <<row, stale, present>> /\ (shuttingDown => shuttingDown')
    <3> USE DEF storeVars, lifeVars, ghostVars
    <3>1. CASE \E m \in Msgs, g \in BOOLEAN : SendCall(c, m, g)
      BY <3>1 DEF SendCall
    <3>2. CASE ResumeCall(c) \/ StopCall(c) \/ PauseCall(c) \/ CompactCall(c)
      BY <3>2 DEF ResumeCall, StopCall, PauseCall, CompactCall
    <3>3. CASE CancelCompactCall(c) \/ ArchiveCall(c) \/ DeleteCall(c) \/ ShutdownCall(c)
      BY <3>3 DEF CancelCompactCall, ArchiveCall, DeleteCall, ShutdownCall
    <3> QED BY <1>1, <3>1, <3>2, <3>3 DEF Begin
  <2> QED BY <2>1 DEF RowsClose
<1>2. CASE LaunchStep(c)
  BY <1>2, LaunchRows, Apart DEF RowsClose
<1>3. CASE StopDiscard(c) \/ StopForce(c) \/ ArchiveDiscard(c)
  <2>1. row' = Put(row, Unfinished, "cancelled") /\ UNCHANGED <<stale, shuttingDown, present>>
    BY <1>3 DEF StopDiscard, StopForce, ArchiveDiscard, DiscardUnfinished, lifeVars, ghostVars
  <2> QED BY <2>1, CancelCloses
<1>4. CASE ShutdownCheckpoint(c)
  <2>1. shuttingDown /\ UNCHANGED <<stale, shuttingDown, present>>
    BY <1>4 DEF ShutdownCheckpoint, Down, lifeVars, ghostVars
  <2>2. CASE UNCHANGED row
    BY <2>1, <2>2 DEF RowsClose
  <2>3. CASE row' = Put(row, Unfinished, "paused")
    BY <2>1, <2>3, OpenRow DEF Put, RowsClose
  <2> QED BY <1>4, <2>1, <2>2, <2>3 DEF ShutdownCheckpoint
<1>5. CASE StopReturn(c) \/ StopTimeout(c) \/ StopClaim(c) \/ PauseSignal(c) \/ ArchiveSet(c)
           \/ DeleteRemove(c) \/ ShutdownCollect(c)
  <2>1. UNCHANGED <<row, stale, shuttingDown>> /\ (present' => present)
    BY <1>5
       DEF StopReturn, StopTimeout, StopClaim, PauseSignal, RaisePause, ArchiveSet,
           DeleteRemove, ShutdownCollect, storeVars, lifeVars, ghostVars
  <2> QED BY <2>1 DEF RowsClose
<1> QED BY <1>1, <1>2, <1>3, <1>4, <1>5 DEF CallStep

LEMMA FlowRows ==
  ASSUME NEW f \in Flows, FlowStep(f)
  PROVE  UNCHANGED <<row, shuttingDown, present>> /\ (stale => stale')
<1>1. CASE LaunchStep(f)
  BY <1>1, LaunchRows, Apart
<1>2. CASE ~LaunchStep(f)
  BY <1>2
     DEF FlowStep, FlowSignal, RaisePause, FlowAwait, FlowSwap, FlowDefer, FlowClear,
         FlowOwner, storeVars, lifeVars, ghostVars
<1> QED BY <1>1, <1>2

LEMMA RunRows ==
  ASSUME TypeOK, NEW r \in Runs, RunStep(r) \/ EngineReturn(r)
  PROVE  /\ RowsClose \/ Holds(r)
         /\ UNCHANGED <<shuttingDown, present>> /\ (stale => stale')
<1>1. CASE LaunchStep(r)
  BY <1>1, LaunchRows, Apart DEF RowsClose
<1>2. CASE RunComplete(r)
  <2>1. \A t \in Tasks : row'[t] = row[t] \/ (Swept(t, loc[r].tid) /\ row'[t] = "cancelled")
    BY <1>2 DEF RunComplete
  <2> QED BY <1>2, <2>1 DEF RunComplete, Swept, RowsClose, lifeVars
<1>3. CASE RunExit(r)
  BY <1>3 DEF RunExit, storeVars, lifeVars, RowsClose
<1>4. CASE ~LaunchStep(r) /\ ~RunComplete(r) /\ ~RunExit(r)
  <2>1. Holds(r)
    BY <1>4
       DEF RunStep, EngineReturn, RunReactivate, RunTakeover, RunContinue, HandleCommit,
           HandleFail, ResumeEnter, ResumeFail, Deliver, JudgeRetry, JudgeCancelled,
           JudgeError, JudgeDone, RunSettle, ReleaseKeep, ReleaseDrop, ReleaseFollowUp,
           Holds, HoldAt
  <2>2. UNCHANGED <<shuttingDown, present, stale>>
    BY <1>4
       DEF RunStep, EngineReturn, RunReactivate, RunTakeover, RunContinue, HandleCommit,
           HandleFail, ResumeEnter, ResumeFail, Deliver, JudgeRetry, JudgeCancelled,
           JudgeError, JudgeDone, RunSettle, ReleaseKeep, ReleaseDrop, ReleaseFollowUp,
           Deactivate, lifeVars, ghostVars
  <2> QED BY <2>1, <2>2
<1> QED BY <1>1, <1>2, <1>3, <1>4

(* Nothing turns back a launch on changed conditions, a shutdown or a         *)
(* removal, and only the run which has the session reopens a row.            *)
LEMMA RowMoves ==
  ASSUME TypeOK, Down, Next
  PROVE  /\ (stale => stale') /\ (shuttingDown => shuttingDown') /\ (present' => present)
         /\ RowsClose \/ \E r \in Runs : Holds(r) /\ (RunStep(r) \/ EngineReturn(r))
<1>1. UNCHANGED row => RowsClose
  BY DEF RowsClose
<1>2. ASSUME NEW c \in Calls, Begin(c) \/ CallStep(c)
      PROVE  /\ (stale => stale') /\ (shuttingDown => shuttingDown') /\ (present' => present)
             /\ RowsClose
  BY <1>2, CallRows
<1>3. ASSUME NEW r \in Runs, RunStep(r) \/ EngineReturn(r)
      PROVE  /\ (stale => stale') /\ (shuttingDown => shuttingDown') /\ (present' => present)
             /\ RowsClose \/ Holds(r)
  BY <1>3, RunRows
<1>4. ASSUME NEW f \in Flows, FlowStep(f)
      PROVE  /\ (stale => stale') /\ (shuttingDown => shuttingDown') /\ (present' => present)
             /\ RowsClose
  BY <1>1, <1>4, FlowRows
<1> QED BY <1>2, <1>3, <1>4 DEF Next

-----------------------------------------------------------------------------
(* A launch path keeps to its own places, moves its own goroutine and, when   *)
(* it launches, an idle run.                                                 *)
LEMMA LaunchPlaces ==
  ASSUME TypeOK, NEW p \in Procs, LaunchStep(p)
  PROVE  /\ pc[p] \in LaunchAt
         /\ pc'[p] \in {"route", "activate", "lookup", "resume", After(p)}
         /\ \A d \in Calls \cup Flows : d # p => pc'[d] = pc[d]
<1>0. \A l : Goto(p, l) => pc'[p] = l /\ \A d \in Calls \cup Flows : d # p => pc'[d] = pc[d]
  BY Framed, Apart
<1>1. pc[p] \in LaunchAt
  BY DEF LaunchStep, SendGate, SendRoute, SendActivate, ResumeLookup, ResumeActivate, LaunchAt
<1>2. CASE Refuse(p) \/ RefuseCompacting(p)
  <2>1. RefuseCompacting(p) /\ p \in Runs => Goto(p, After(p))
    BY Apart DEF RefuseCompacting, After
  <2>2. Goto(p, After(p))
    BY <1>2, <2>1 DEF Refuse, RefuseCompacting
  <2> QED BY <1>0, <1>1, <2>2
<1>3. ASSUME NEW q \in Runs, NEW via \in {"msg", "resume"}, NEW t, Activate(p, q, via, t)
      PROVE  /\ pc'[p] = After(p)
             /\ \A d \in Calls \cup Flows : d # p => pc'[d] = pc[d]
  BY <1>3, Apart DEF Activate, TypeOK
<1>4. CASE SendGate(p) \/ SendRoute(p)
  <2>1. \/ Refuse(p) \/ RefuseCompacting(p)
        \/ \E l \in {"route", "activate", "lookup", After(p)} : Goto(p, l)
    BY <1>4, Zenon DEF SendGate, SendRoute
  <2> QED BY <1>0, <1>1, <1>2, <2>1
<1>5. CASE SendActivate(p)
  BY <1>1, <1>2, <1>3, <1>5 DEF SendActivate
<1>6. CASE ResumeLookup(p) \/ ResumeActivate(p)
  <2>1. CASE Refuse(p) \/ RefuseCompacting(p)
    BY <1>2, <2>1
  <2>2. CASE \E l \in {"resume", After(p)} : Goto(p, l)
    BY <1>0, <1>1, <2>2
  <2> QED BY <1>1, <1>3, <1>6, <2>1, <2>2 DEF ResumeLookup, ResumeActivate
<1> QED BY <1>4, <1>5, <1>6 DEF LaunchStep

(* A call moves by its own steps only.                                       *)
LEMMA CallFrame ==
  ASSUME TypeOK, Next, NEW d \in Calls
  PROVE  Begin(d) \/ CallStep(d) \/ pc'[d] = pc[d]
<1>0. d \in Procs
  BY Apart
<1>1. ASSUME NEW p \in Procs, p # d, NEW l, Goto(p, l) PROVE pc'[d] = pc[d]
  BY <1>0, <1>1, Framed
<1>2. ASSUME NEW p \in Procs, p # d, LaunchStep(p) PROVE pc'[d] = pc[d]
  BY <1>2, LaunchPlaces
<1>3. ASSUME NEW c \in Calls, c # d, Begin(c) \/ CallStep(c) PROVE pc'[d] = pc[d]
  <2>1. CASE CompactCall(c)
    <3>1. PICK f \in Flows :
            pc' = [pc EXCEPT ![c] = "done", ![f] = IF active THEN "csignal" ELSE "swap"]
      BY <2>1 DEF CompactCall
    <3> QED BY <1>0, <1>3, <3>1, Apart DEF TypeOK
  <2>2. CASE LaunchStep(c)
    BY <1>2, <1>3, <2>2, Apart
  <2>3. CASE ~CompactCall(c) /\ ~LaunchStep(c)
    BY <1>1, <1>3, <2>3, OneMoves, Apart
  <2> QED BY <2>1, <2>2, <2>3
<1>4. ASSUME NEW r \in Runs, RunStep(r) \/ EngineReturn(r) PROVE pc'[d] = pc[d]
  BY <1>1, <1>2, <1>4, OneMoves, Apart
<1>5. ASSUME NEW f \in Flows, FlowStep(f) PROVE pc'[d] = pc[d]
  <2>1. CASE ~LaunchStep(f)
    <3>1. \E l : Goto(f, l)
      BY <1>5, <2>1, Zenon
         DEF FlowStep, FlowSignal, FlowAwait, FlowSwap, FlowDefer, FlowClear, FlowOwner
    <3> QED BY <1>1, <3>1, Apart
  <2> QED BY <1>2, <2>1, Apart
<1> QED BY <1>3, <1>4, <1>5 DEF Next

(* A call comes to these places by these steps.                              *)
LEMMA CallPlaces ==
  ASSUME TypeOK, NEW d \in Calls, Begin(d) \/ CallStep(d)
  PROVE  /\ pc'[d] = "collect" => ShutdownCall(d)
         /\ pc'[d] = "checkpoint" => ShutdownCollect(d)
         /\ pc'[d] = "force" => StopClaim(d)
         /\ pc'[d] = "expired" => StopTimeout(d)
         /\ pc'[d] \in {"waiting", "discard"} => StopCall(d)
         /\ pc'[d] = "settleStop" => ArchiveCall(d)
<1>0. d \in Procs /\ \A l : Goto(d, l) => pc'[d] = l
  BY Framed, Apart
<1>1. CASE LaunchStep(d)
  BY <1>0, <1>1, LaunchPlaces DEF After
<1>2. CASE \E m \in Msgs, g \in BOOLEAN : SendCall(d, m, g)
  BY <1>0, <1>2 DEF SendCall
<1>3. CASE ResumeCall(d) \/ StopCall(d) \/ PauseCall(d)
  BY <1>0, <1>3 DEF ResumeCall, StopCall, PauseCall, Over
<1>4. CASE CompactCall(d)
  <2>1. PICK f \in Flows :
          pc' = [pc EXCEPT ![d] = "done", ![f] = IF active THEN "csignal" ELSE "swap"]
    BY <1>4 DEF CompactCall
  <2>2. pc'[d] = "done"
    BY <1>0, <2>1, Apart DEF TypeOK
  <2> QED BY <2>2
<1>5. CASE CancelCompactCall(d) \/ ArchiveCall(d) \/ DeleteCall(d) \/ ShutdownCall(d)
  BY <1>0, <1>5 DEF CancelCompactCall, ArchiveCall, DeleteCall, ShutdownCall
<1>6. CASE CallStep(d) /\ ~LaunchStep(d)
  BY <1>0, <1>6
     DEF CallStep, StopDiscard, StopReturn, StopTimeout, StopClaim, StopForce, PauseSignal,
         ArchiveDiscard, ArchiveSet, DeleteRemove, ShutdownCollect, ShutdownCheckpoint, Over
<1> QED BY <1>1, <1>2, <1>3, <1>4, <1>5, <1>6 DEF Begin

(* A run comes to these places by these steps.                               *)
LEMMA RunPlaces ==
  ASSUME TypeOK, NEW r \in Runs, RunStep(r) \/ EngineReturn(r)
  PROVE  /\ pc'[r] = "drop" => RunSettle(r)
         /\ pc'[r] = "settle" => JudgeCancelled(r)
         /\ pc'[r] = "enterResume" => RunReactivate(r) \/ RunContinue(r)
         /\ pc'[r] = "exec" => HandleCommit(r) \/ ResumeEnter(r) \/ Deliver(r)
         /\ pc'[r] = "complete" => ReleaseFollowUp(r)
         /\ pc'[r] = "gate" => RunComplete(r)
         /\ pc'[r] = "activate" => SendRoute(r)
         /\ pc'[r] = "route" => SendGate(r)
         /\ pc'[r] \notin {"start", "reactivate"}
<1>0. /\ r \in Procs
      /\ \A l : Goto(r, l) => pc'[r] = l
  BY Framed, Apart
<1>1. CASE LaunchStep(r)
  <2>1. pc'[r] \in {"route", "activate", "lookup", "resume", "exit"}
    BY <1>0, <1>1, LaunchPlaces, Apart DEF After
  <2>2. After(r) = "exit"
    BY Apart DEF After
  <2>3. Refuse(r) \/ RefuseCompacting(r) => pc'[r] = "exit"
    BY <1>0, <2>2 DEF Refuse, RefuseCompacting
  <2>4. \A q \in Runs, via \in {"msg", "resume"} : \A t : Activate(r, q, via, t) => pc'[r] = "exit"
    BY <1>0, <2>2, Apart DEF Activate, TypeOK
  <2>5. SendActivate(r) \/ ResumeLookup(r) \/ ResumeActivate(r) => pc'[r] \in {"exit", "resume"}
    BY <1>0, <2>2, <2>3, <2>4 DEF SendActivate, ResumeLookup, ResumeActivate
  <2>6. SendGate(r) => pc'[r] # "activate"
    BY <1>0, <2>2, <2>3 DEF SendGate
  <2>7. SendRoute(r) => pc'[r] # "route"
    BY <1>0 DEF SendRoute
  <2> QED BY <1>1, <2>1, <2>5, <2>6, <2>7 DEF LaunchStep
<1>2. CASE \/ RunReactivate(r) \/ RunTakeover(r) \/ RunContinue(r) \/ HandleCommit(r)
           \/ HandleFail(r) \/ ResumeEnter(r) \/ ResumeFail(r)
  BY <1>0, <1>2
     DEF RunReactivate, RunTakeover, RunContinue, HandleCommit, HandleFail, ResumeEnter,
         ResumeFail
<1>3. CASE Deliver(r)
  BY <1>3 DEF Deliver, procVars
<1>4. CASE \/ JudgeRetry(r) \/ JudgeCancelled(r) \/ JudgeError(r) \/ JudgeDone(r)
           \/ RunSettle(r) \/ EngineReturn(r)
  BY <1>0, <1>4 DEF JudgeRetry, JudgeCancelled, JudgeError, JudgeDone, RunSettle, EngineReturn
<1>5. CASE \/ ReleaseKeep(r) \/ ReleaseDrop(r) \/ ReleaseFollowUp(r) \/ RunComplete(r)
           \/ RunExit(r)
  BY <1>0, <1>5 DEF ReleaseKeep, ReleaseDrop, ReleaseFollowUp, RunComplete, RunExit
<1> QED BY <1>1, <1>2, <1>3, <1>4, <1>5 DEF RunStep

(* A spared run keeps its place, its task, its way of entry and its kind.     *)
LEMMA SparedLocals ==
  ASSUME TypeOK, NEW r \in Runs, Spared(r)
  PROVE  /\ pc'[r] = pc[r] /\ loc'[r].tid = loc[r].tid /\ loc'[r].via = loc[r].via
         /\ loc'[r].goal = loc[r].goal
<1>1. loc[r] \in Locals
  BY Apart DEF TypeOK
<1> QED BY <1>1 DEF Spared, Locals

-----------------------------------------------------------------------------
(* The rows of the runs.                                                    *)
RowsInv == Down /\ StopSettles /\ ResumedNotPaused

LEMMA DownKept ==
  ASSUME TypeOK, Down, Next PROVE Down'
<1> SUFFICES ASSUME NEW d \in Calls, pc'[d] \in {"collect", "checkpoint"} PROVE shuttingDown'
  BY DEF Down
<1>1. shuttingDown => shuttingDown'
  BY RowMoves
<1>2. CASE Begin(d) \/ CallStep(d)
  <2>1. ShutdownCall(d) \/ ShutdownCollect(d)
    BY <1>2, CallPlaces
  <2> QED BY <1>1, <2>1 DEF ShutdownCall, ShutdownCollect, Down
<1> QED BY <1>1, <1>2, CallFrame DEF Down

(* A run at "drop" has closed its row, and nobody else reopens it.            *)
LEMMA StopSettlesKept ==
  ASSUME TypeOK, OneTask, Down, StopSettles, Next PROVE StopSettles'
<1> SUFFICES ASSUME NEW r \in Runs, ~stale', pc'[r] = "drop", loc'[r].tid \in Tasks
             PROVE  \/ row'[loc'[r].tid] \notin UnfinishedStatuses
                    \/ /\ loc'[r].via = "msg"
                       /\ \E t \in Tasks : t > loc'[r].tid /\ row'[t] = "cancelled"
  BY DEF StopSettles
<1>0. r \in Procs /\ ~stale
  BY RowMoves, Apart
<1>1. CASE RunStep(r) \/ EngineReturn(r)
  <2>1. RunSettle(r)
    BY <1>1, RunPlaces
  <2>2. loc'[r].tid = loc[r].tid /\ loc'[r].via = loc[r].via
    BY <1>0, <2>1 DEF RunSettle, TypeOK, Locals
  <2>3. row' = Put(row, SettledTask(r), "cancelled")
    BY <2>1 DEF RunSettle
  <2>4. CASE loc[r].via # "msg"
    <3>1. row'[loc[r].tid] = "cancelled"
      BY <2>2, <2>3, <2>4 DEF SettledTask, Put
    <3> QED BY <2>2, <3>1 DEF UnfinishedStatuses
  <2>5. CASE loc[r].via = "msg"
    <3>1. \A t \in Tasks : row'[t] = IF t = Unfinished THEN "cancelled" ELSE row[t]
      BY <2>3, <2>5 DEF SettledTask, Put
    <3>2. CASE row[loc[r].tid] \in UnfinishedStatuses /\ loc[r].tid # Unfinished
      <4>1. Unfinished \in Tasks /\ Unfinished > loc[r].tid
        <5> DEFINE open == {t \in Tasks : row[t] \in UnfinishedStatuses}
        <5>1. loc[r].tid \in open
          BY <2>2, <3>2
        <5>2. \E t \in open : \A u \in open : u <= t
          BY <5>1, Extremes
        <5>3. Unfinished \in open /\ \A u \in open : u <= Unfinished
          BY <5>1, <5>2 DEF Unfinished
        <5> QED BY <3>2, <5>1, <5>3, TasksAssumption DEF Tasks
      <4> QED BY <2>2, <2>5, <3>1, <4>1
    <3>3. CASE row[loc[r].tid] \notin UnfinishedStatuses \/ loc[r].tid = Unfinished
      BY <2>2, <3>1, <3>3 DEF UnfinishedStatuses
    <3> QED BY <3>2, <3>3
  <2> QED BY <2>4, <2>5
<1>2. CASE Spared(r) /\ ~(RunStep(r) \/ EngineReturn(r))
  <2>1. pc[r] = "drop" /\ loc'[r].tid = loc[r].tid /\ loc'[r].via = loc[r].via
    BY <1>2, SparedLocals
  <2>2. RowsClose
    <3>1. \A q \in Runs : Holds(q) => q = r
      BY <1>0, <2>1 DEF OneTask, Holds, HoldAt
    <3> QED BY <1>2, <3>1, RowMoves
  <2>3. \/ row[loc[r].tid] \notin UnfinishedStatuses
        \/ /\ loc[r].via = "msg"
           /\ \E t \in Tasks : t > loc[r].tid /\ row[t] = "cancelled"
    BY <1>0, <2>1 DEF StopSettles
  <2> QED BY <2>1, <2>2, <2>3 DEF RowsClose, UnfinishedStatuses
<1>3. ~Launched(r)
  BY DEF Launched
<1> QED BY <1>1, <1>2, <1>3, RunFrame

(* From its reactivation on, only a shutdown pauses a running row.            *)
LEMMA ResumedNotPausedKept ==
  ASSUME TypeOK, OneTask, Down, ResumedNotPaused, Next PROVE ResumedNotPaused'
<1> SUFFICES ASSUME NEW r \in Runs, ~stale', ~shuttingDown',
                    pc'[r] \in {"enterResume", "exec"}, loc'[r].via # "cont",
                    loc'[r].tid \in Tasks
             PROVE  row'[loc'[r].tid] # "paused"
  BY DEF ResumedNotPaused
<1>0. r \in Procs /\ ~stale /\ ~shuttingDown
  BY RowMoves, Apart
<1>1. CASE RunReactivate(r) \/ HandleCommit(r)
  <2>1. row' = Put(row, loc'[r].tid, "in_progress")
    <3>1. CASE RunReactivate(r)
      BY <3>1 DEF RunReactivate
    <3>2. CASE HandleCommit(r)
      <4> DEFINE t == IF Anchor(r) = NoTask THEN NextRow ELSE Anchor(r)
      <4>1. /\ row' = Put(row, t, "in_progress")
            /\ loc' = [loc EXCEPT ![r].tid = t, ![r].anchor = Anchor(r),
                                  ![r].flag = (Anchor(r) # NoTask /\ Unfinished = Anchor(r)),
                                  ![r].text = {}]
        BY <3>2 DEF HandleCommit
      <4> HIDE DEF t
      <4>2. loc'[r].tid = t
        BY <1>0, <4>1 DEF TypeOK, Locals
      <4> QED BY <4>1, <4>2
    <3> QED BY <1>1, <3>1, <3>2
  <2> QED BY <2>1 DEF Put
<1>2. CASE RunContinue(r)
  <2>1. pc'[r] = "enterResume" /\ \A l : Goto(r, l) => l = "enterResume"
    BY <1>0, <1>2, Framed DEF RunContinue
  <2>2. loc' = [loc EXCEPT ![r].tid = Unfinished, ![r].goal = goal[Unfinished],
                           ![r].via = "cont"]
    BY <1>2, <2>1 DEF RunContinue
  <2>3. loc'[r].via = "cont"
    BY <1>0, <2>2 DEF TypeOK, Locals
  <2> QED BY <2>3
<1>3. CASE ResumeEnter(r) \/ Deliver(r)
  <2>1. pc[r] \in {"enterResume", "exec"} /\ UNCHANGED row
    BY <1>3 DEF ResumeEnter, Deliver, storeVars
  <2>2. loc'[r].tid = loc[r].tid /\ loc'[r].via = loc[r].via
    BY <1>0, <1>3 DEF ResumeEnter, Deliver, procVars, TypeOK, Locals
  <2> QED BY <1>0, <2>1, <2>2 DEF ResumedNotPaused
<1>4. CASE Spared(r) /\ ~(RunStep(r) \/ EngineReturn(r))
  <2>1. /\ pc[r] \in {"enterResume", "exec"}
        /\ loc'[r].tid = loc[r].tid /\ loc'[r].via = loc[r].via
    BY <1>4, SparedLocals
  <2>2. RowsClose
    <3>1. \A q \in Runs : Holds(q) => q = r
      BY <1>0, <2>1 DEF OneTask, Holds, HoldAt
    <3> QED BY <1>4, <3>1, RowMoves
  <2> QED BY <1>0, <2>1, <2>2 DEF RowsClose, ResumedNotPaused
<1>5. ~Launched(r)
  BY DEF Launched
<1> QED BY <1>1, <1>2, <1>3, <1>4, <1>5, RunFrame, RunPlaces

(* Down, StopSettles and ResumedNotPaused hold in every behaviour.           *)
THEOREM RowsInductive == Spec => []RowsInv
<1>1. Init => RowsInv
  <2> SUFFICES ASSUME Init PROVE RowsInv
    OBVIOUS
  <2>1. \A p \in Procs : pc[p] = "idle"
    BY DEF Init
  <2> QED BY <2>1, Apart DEF RowsInv, Down, StopSettles, ResumedNotPaused
<1>2. TypeOK /\ IInv /\ RowsInv /\ [Next]_vars => RowsInv'
  <2>1. ASSUME TypeOK, IInv, RowsInv, Next PROVE RowsInv'
    BY <2>1, DownKept, StopSettlesKept, ResumedNotPausedKept DEF RowsInv, IInv
  <2>2. ASSUME RowsInv, UNCHANGED vars PROVE RowsInv'
    BY <2>2
       DEF vars, lifeVars, storeVars, procVars, ghostVars, RowsInv, Down, StopSettles,
           ResumedNotPaused
  <2> QED BY <2>1, <2>2
<1> QED BY <1>1, <1>2, Typed, Inductive, PTL DEF Spec

(* A run the user stopped leaves nothing to resume: once it has settled its  *)
(* row is closed, or on the message path a newer row was taken for it.       *)
THEOREM StopSettlesHolds == Spec => []StopSettles
<1>1. RowsInv => StopSettles
  BY DEF RowsInv
<1> QED BY <1>1, RowsInductive, PTL

(* A task that ResumeTask resumed or HandleMessage took is not paused in the  *)
(* store while it executes, in a session that is not shutting down: nothing   *)
(* undoes the reactivation of its row.  The one that a message continues is   *)
(* not reactivated, and may be.                                              *)
THEOREM ResumedNotPausedHolds == Spec => []ResumedNotPaused
<1>1. RowsInv => ResumedNotPaused
  BY DEF RowsInv
<1> QED BY <1>1, RowsInductive, PTL

-----------------------------------------------------------------------------
(* The terminal events                                                      *)

(* The reports of a cancellation of a run, and the Stops that are about to    *)
(* make one.                                                                *)
Reported(r) == {i \in DOMAIN told[r] : told[r][i] = "cancelled"}
Forcing(r) == {c \in Calls : pc[c] = "force" /\ wait[c] = r}

(* Of a run that has exited nothing has been reported and nobody waits for it. *)
FreshIdle ==
  ~stale => \A r \in Runs : pc[r] = "idle" =>
    told[r] = <<>> /\ \A p \in Calls \cup Flows : wait[p] # r

(* The claim of the terminal event: before it nobody has reported the run or  *)
(* is about to, and then one does.                                           *)
OneReport ==
  ~stale /\ present => \A r \in Runs : Holds(r) =>
    /\ ~terminalEmitted => Reported(r) = {} /\ Forcing(r) = {}
    /\ Reported(r) = {} \/ Forcing(r) = {}
    /\ \A i, j \in Reported(r) : i = j
    /\ \A c, d \in Forcing(r) : c = d

-----------------------------------------------------------------------------
(* A launch path reports nothing, waits for nobody, and clears the claim only *)
(* as it launches a run.                                                     *)
LEMMA LaunchTold ==
  ASSUME TypeOK, NEW p \in Procs, LaunchStep(p)
  PROVE  /\ UNCHANGED <<told, wait>>
         /\ \/ terminalEmitted' = terminalEmitted
            \/ \E q \in Runs : Launched(q) /\ current' = q
<1>1. Refuse(p) \/ RefuseCompacting(p) => UNCHANGED <<told, wait, terminalEmitted>>
  BY DEF Refuse, RefuseCompacting, runVars
<1>2. ASSUME NEW q \in Runs, NEW via \in {"msg", "resume"}, NEW t, Activate(p, q, via, t),
             via = "msg" => pc[p] = "activate"
      PROVE  UNCHANGED <<told, wait>> /\ Launched(q) /\ current' = q
  BY <1>2, Apart DEF Activate, Blank, TypeOK, Launched
<1>3. CASE SendGate(p) \/ SendRoute(p)
  BY <1>1, <1>3 DEF SendGate, SendRoute, runVars, ghostVars
<1>4. CASE SendActivate(p)
  BY <1>1, <1>2, <1>4 DEF SendActivate
<1>5. CASE ResumeLookup(p)
  BY <1>1, <1>5 DEF ResumeLookup, runVars, ghostVars
<1>6. CASE ResumeActivate(p)
  BY <1>1, <1>2, <1>6 DEF ResumeActivate
<1> QED BY <1>3, <1>4, <1>5, <1>6 DEF LaunchStep

(* So do the steps of the flows ...                                          *)
LEMMA FlowTold ==
  ASSUME TypeOK, NEW f \in Flows, FlowStep(f)
  PROVE  /\ UNCHANGED <<told, wait>>
         /\ \/ terminalEmitted' = terminalEmitted
            \/ \E q \in Runs : Launched(q) /\ current' = q
<1>1. CASE LaunchStep(f)
  BY <1>1, LaunchTold, Apart
<1>2. CASE ~LaunchStep(f)
  BY <1>2
     DEF FlowStep, FlowSignal, RaisePause, FlowAwait, FlowSwap, FlowDefer, FlowClear,
         FlowOwner, runVars, ghostVars
<1> QED BY <1>1, <1>2

(* ... of the calls, but for Stop and the wait of a compaction ...           *)
LEMMA CallTold ==
  ASSUME TypeOK, NEW c \in Calls, Begin(c) \/ CallStep(c)
  PROVE  \/ StopCall(c) \/ StopClaim(c) \/ StopForce(c) \/ CompactCall(c)
         \/ /\ UNCHANGED <<told, wait>>
            /\ \/ terminalEmitted' = terminalEmitted
               \/ \E q \in Runs : Launched(q) /\ current' = q
<1> USE DEF runVars, ghostVars
<1>1. CASE LaunchStep(c)
  BY <1>1, LaunchTold, Apart
<1>2. CASE \E m \in Msgs, g \in BOOLEAN : SendCall(c, m, g)
  BY <1>2 DEF SendCall
<1>3. CASE ResumeCall(c) \/ PauseCall(c) \/ CancelCompactCall(c) \/ ArchiveCall(c)
           \/ DeleteCall(c) \/ ShutdownCall(c)
  BY <1>3 DEF ResumeCall, PauseCall, CancelCompactCall, ArchiveCall, DeleteCall, ShutdownCall
<1>4. CASE StopDiscard(c) \/ StopReturn(c) \/ StopTimeout(c) \/ PauseSignal(c)
           \/ ArchiveDiscard(c) \/ ArchiveSet(c) \/ DeleteRemove(c) \/ ShutdownCollect(c)
           \/ ShutdownCheckpoint(c)
  BY <1>4
     DEF StopDiscard, StopReturn, StopTimeout, PauseSignal, RaisePause, ArchiveDiscard,
         ArchiveSet, DeleteRemove, ShutdownCollect, ShutdownCheckpoint
<1> QED BY <1>1, <1>2, <1>3, <1>4 DEF Begin, CallStep

(* ... and of the runs, but for what they report of themselves.              *)
LEMMA RunTold ==
  ASSUME TypeOK, NEW r \in Runs, RunStep(r) \/ EngineReturn(r)
  PROVE  \/ JudgeCancelled(r) \/ JudgeError(r) \/ ReleaseKeep(r) \/ RunComplete(r) \/ RunExit(r)
         \/ /\ UNCHANGED <<told, wait>>
            /\ \/ terminalEmitted' = terminalEmitted
               \/ \E q \in Runs : Launched(q) /\ current' = q
<1> USE DEF runVars, ghostVars
<1>1. CASE LaunchStep(r)
  BY <1>1, LaunchTold, Apart
<1>2. CASE \/ RunReactivate(r) \/ RunTakeover(r) \/ RunContinue(r) \/ HandleCommit(r)
           \/ HandleFail(r) \/ ResumeEnter(r) \/ ResumeFail(r)
  BY <1>2
     DEF RunReactivate, RunTakeover, RunContinue, HandleCommit, HandleFail, ResumeEnter,
         ResumeFail
<1>3. CASE \/ Deliver(r) \/ EngineReturn(r) \/ JudgeRetry(r) \/ JudgeDone(r) \/ RunSettle(r)
  BY <1>3 DEF Deliver, procVars, EngineReturn, JudgeRetry, JudgeDone, RunSettle
<1>4. CASE ReleaseDrop(r) \/ ReleaseFollowUp(r)
  BY <1>4 DEF ReleaseDrop, ReleaseFollowUp, Deactivate
<1> QED BY <1>1, <1>2, <1>3, <1>4 DEF RunStep

-----------------------------------------------------------------------------
(* A run which is idle after a step has just exited, or was idle.             *)
LEMMA IdleBefore ==
  ASSUME TypeOK, Next, NEW r \in Runs, pc'[r] = "idle"
  PROVE  RunExit(r) \/ (pc[r] = "idle" /\ ~RunStep(r) /\ ~EngineReturn(r))
<1>0. r \in Procs /\ \A l : Goto(r, l) => pc'[r] = l
  BY Framed, Apart
<1>1. CASE RunStep(r) \/ EngineReturn(r)
  <2>1. ~LaunchStep(r)
    BY LaunchPlaces, <1>0, Apart DEF After
  <2>2. CASE \/ RunReactivate(r) \/ RunTakeover(r) \/ RunContinue(r) \/ HandleCommit(r)
             \/ HandleFail(r) \/ ResumeEnter(r) \/ ResumeFail(r) \/ Deliver(r)
    BY <1>0, <2>2
       DEF RunReactivate, RunTakeover, RunContinue, HandleCommit, HandleFail, ResumeEnter,
           ResumeFail, Deliver, procVars
  <2>3. CASE \/ JudgeRetry(r) \/ JudgeCancelled(r) \/ JudgeError(r) \/ JudgeDone(r)
             \/ RunSettle(r) \/ EngineReturn(r)
    BY <1>0, <2>3
       DEF JudgeRetry, JudgeCancelled, JudgeError, JudgeDone, RunSettle, EngineReturn
  <2>4. CASE ReleaseKeep(r) \/ ReleaseDrop(r) \/ ReleaseFollowUp(r) \/ RunComplete(r)
    BY <1>0, <2>4 DEF ReleaseKeep, ReleaseDrop, ReleaseFollowUp, RunComplete
  <2> QED BY <1>1, <2>1, <2>2, <2>3, <2>4 DEF RunStep
<1>2. ~Launched(r)
  BY DEF Launched
<1> QED BY <1>1, <1>2, RunFrame DEF Spared

(* A run which has the session after a step had it, or has been launched.     *)
LEMMA HeldBefore ==
  ASSUME TypeOK, Next, NEW r \in Runs, Holds(r)'
  PROVE  Holds(r) \/ (Launched(r) /\ ~RunStep(r) /\ ~EngineReturn(r))
<1>0. r \in Procs /\ \A l : Goto(r, l) => pc'[r] = l
  BY Framed, Apart
<1>1. ASSUME RunStep(r) \/ EngineReturn(r), ~Holds(r) PROVE FALSE
  <2> USE DEF Holds, HoldAt
  <2>1. ~LaunchStep(r)
    BY LaunchPlaces, <1>0, Apart DEF After
  <2>2. RunComplete(r) \/ RunExit(r)
    BY <1>1, <2>1
       DEF RunStep, EngineReturn, RunReactivate, RunTakeover, RunContinue, HandleCommit,
           HandleFail, ResumeEnter, ResumeFail, Deliver, JudgeRetry, JudgeCancelled,
           JudgeError, JudgeDone, RunSettle, ReleaseKeep, ReleaseDrop, ReleaseFollowUp
  <2> QED BY <1>0, <2>2 DEF RunComplete, RunExit
<1> QED BY <1>1, RunFrame DEF Spared, Holds

-----------------------------------------------------------------------------
LEMMA FreshIdleKept ==
  ASSUME TypeOK, OneTask, Down, FreshIdle, Next PROVE FreshIdle'
<1> SUFFICES ASSUME NEW r \in Runs, ~stale', pc'[r] = "idle"
             PROVE  told'[r] = <<>> /\ \A p \in Calls \cup Flows : wait'[p] # r
  BY DEF FreshIdle
<1>0. ~stale /\ r # None
  BY RowMoves, Apart
<1>1. CASE RunExit(r)
  BY <1>0, <1>1 DEF RunExit, TypeOK
<1>2. CASE pc[r] = "idle" /\ ~RunStep(r) /\ ~EngineReturn(r)
  <2>1. told[r] = <<>> /\ (\A p \in Calls \cup Flows : wait[p] # r) /\ current # r
    BY <1>0, <1>2 DEF FreshIdle, OneTask, Holds, HoldAt
  <2>2. ASSUME NEW c \in Calls, Begin(c) \/ CallStep(c)
        PROVE  told'[r] = <<>> /\ \A p \in Calls \cup Flows : wait'[p] # r
    <3>1. CASE UNCHANGED <<told, wait>>
      BY <2>1, <3>1
    <3>2. CASE StopCall(c)
      BY <1>0, <2>1, <3>2 DEF StopCall, ghostVars, TypeOK
    <3>3. CASE StopClaim(c)
      BY <1>0, <2>1, <3>3 DEF StopClaim, ghostVars, TypeOK
    <3>4. CASE StopForce(c)
      BY <1>0, <2>1, <3>4 DEF StopForce, Tell, TypeOK
    <3>5. CASE CompactCall(c)
      <4>1. PICK f \in Flows : wait' = [wait EXCEPT ![f] = IF active THEN current ELSE None]
        BY <3>5 DEF CompactCall
      <4>2. told' = told
        BY <3>5 DEF CompactCall, ghostVars
      <4> QED BY <1>0, <2>1, <4>1, <4>2 DEF TypeOK
    <3> QED BY <2>2, <3>1, <3>2, <3>3, <3>4, <3>5, CallTold
  <2>3. ASSUME NEW q \in Runs, RunStep(q) \/ EngineReturn(q)
        PROVE  told'[r] = <<>> /\ \A p \in Calls \cup Flows : wait'[p] # r
    <3>0. q # r
      BY <1>2, <2>3
    <3>1. CASE UNCHANGED <<told, wait>>
      BY <2>1, <3>1
    <3>2. CASE JudgeCancelled(q)
      BY <2>1, <3>0, <3>2 DEF JudgeCancelled, Tell, TypeOK
    <3>3. CASE JudgeError(q)
      BY <2>1, <3>0, <3>3 DEF JudgeError, Tell, TypeOK
    <3>4. CASE ReleaseKeep(q)
      BY <2>1, <3>0, <3>4 DEF ReleaseKeep, Deactivate, Tell, TypeOK
    <3>5. CASE RunComplete(q)
      BY <2>1, <3>0, <3>5 DEF RunComplete, Tell, TypeOK
    <3>6. CASE RunExit(q)
      BY <1>0, <2>1, <3>0, <3>6 DEF RunExit, TypeOK
    <3> QED BY <2>3, <3>1, <3>2, <3>3, <3>4, <3>5, <3>6, RunTold
  <2>4. ASSUME NEW f \in Flows, FlowStep(f)
        PROVE  told'[r] = <<>> /\ \A p \in Calls \cup Flows : wait'[p] # r
    BY <2>1, <2>4, FlowTold
  <2> QED BY <2>2, <2>3, <2>4 DEF Next
<1> QED BY <1>1, <1>2, IdleBefore

(* Another report than a cancellation changes no cancellation's.              *)
LEMMA OtherReport ==
  ASSUME TypeOK, NEW r \in Runs, NEW e \in Ends
  PROVE  /\ told' = Tell(r, e) /\ e # "cancelled" => Reported(r)' = Reported(r)
         /\ told' = Tell(r, "cancelled") =>
              Reported(r)' = Reported(r) \cup {Len(told[r]) + 1}
         /\ \A q \in Runs \ {r} : told' = Tell(r, e) => Reported(q)' = Reported(q)
<1>1. told[r] \in Seq(Ends)
  BY DEF TypeOK
<1>2. ASSUME NEW x \in Ends, told' = Tell(r, x)
      PROVE  /\ DOMAIN told'[r] = DOMAIN told[r] \cup {Len(told[r]) + 1}
             /\ Len(told[r]) + 1 \notin DOMAIN told[r]
             /\ \A i \in DOMAIN told[r] : told'[r][i] = told[r][i]
             /\ told'[r][Len(told[r]) + 1] = x
             /\ \A q \in Runs \ {r} : told'[q] = told[q]
  <2>1. told'[r] = Append(told[r], x) /\ \A q \in Runs \ {r} : told'[q] = told[q]
    BY <1>2 DEF Tell, TypeOK
  <2> QED BY <1>1, <2>1
<1>3. "cancelled" \in Ends
  BY DEF Ends
<1> QED BY <1>2, <1>3 DEF Reported

LEMMA OneReportKept ==
  ASSUME TypeOK, IInv, IInv', Down, FreshIdle, OneReport, Next PROVE OneReport'
<1> SUFFICES ASSUME NEW r \in Runs, ~stale', present', Holds(r)'
             PROVE  /\ ~terminalEmitted' => Reported(r)' = {} /\ Forcing(r)' = {}
                    /\ Reported(r)' = {} \/ Forcing(r)' = {}
                    /\ \A i, j \in Reported(r)' : i = j
                    /\ \A c, d \in Forcing(r)' : c = d
  BY DEF OneReport
<1>0. /\ ~stale /\ present /\ r # None /\ r \in Procs /\ current' = r
      /\ \A c \in Calls : c \in Procs /\ c # r
  BY RowMoves, Apart DEF IInv, OneTask
<1>1. CASE Launched(r) /\ ~RunStep(r) /\ ~EngineReturn(r)
  <2>1. told[r] = <<>> /\ \A p \in Calls \cup Flows : wait[p] # r
    BY <1>0, <1>1 DEF Launched, FreshIdle
  <2>2. pc'[r] # pc[r]
    BY <1>1 DEF Launched
  <2>3. ASSUME NEW p \in Procs, p # r, NEW l, Goto(p, l) PROVE FALSE
    BY <1>0, <2>2, <2>3, Framed
  <2>4. told'[r] = told[r] /\ UNCHANGED wait
    <3>1. ASSUME NEW c \in Calls, Begin(c) \/ CallStep(c) PROVE UNCHANGED <<told, wait>>
      <4>1. ~CompactCall(c)
        BY <1>0, <2>2, Apart DEF CompactCall, TypeOK
      <4>2. ~(StopCall(c) \/ StopClaim(c) \/ StopForce(c))
        BY <1>0, <2>3 DEF StopCall, StopClaim, StopForce, Over
      <4> QED BY <3>1, <4>1, <4>2, CallTold
    <3>2. ASSUME NEW q \in Runs, RunStep(q) \/ EngineReturn(q) PROVE UNCHANGED <<told, wait>>
      <4>1. q # r /\ q \in Procs
        BY <1>1, <3>2, Apart
      <4>2. ~(JudgeCancelled(q) \/ JudgeError(q) \/ ReleaseKeep(q) \/ RunComplete(q) \/ RunExit(q))
        BY <2>3, <4>1, Zenon DEF JudgeCancelled, JudgeError, ReleaseKeep, RunComplete, RunExit
      <4> QED BY <3>2, <4>2, RunTold
    <3> QED BY <3>1, <3>2, FlowTold DEF Next
  <2> QED BY <2>1, <2>4 DEF Reported, Forcing
<1>2. CASE Holds(r)
  <2>0. /\ current = r
        /\ ~terminalEmitted => Reported(r) = {} /\ Forcing(r) = {}
        /\ Reported(r) = {} \/ Forcing(r) = {}
        /\ \A i, j \in Reported(r) : i = j
        /\ \A c, d \in Forcing(r) : c = d
    BY <1>0, <1>2 DEF IInv, OneTask, OneReport
  <2>1. ASSUME Reported(r)' = Reported(r), Forcing(r)' \subseteq Forcing(r),
               ~terminalEmitted' => ~terminalEmitted
        PROVE  /\ ~terminalEmitted' => Reported(r)' = {} /\ Forcing(r)' = {}
               /\ Reported(r)' = {} \/ Forcing(r)' = {}
               /\ \A i, j \in Reported(r)' : i = j
               /\ \A c, d \in Forcing(r)' : c = d
    BY <2>0, <2>1
  <2>2. ASSUME NEW c \in Calls, StopClaim(c), pc'[c] = "force"
        PROVE  Reported(r)' = {} /\ Forcing(r)' = {c} /\ terminalEmitted'
    <3>1. ~terminalEmitted /\ terminalEmitted' /\ UNCHANGED told /\ wait'[c] = r
      <4>1. ~Over(c)
        BY <1>0, <2>2, Framed DEF Over
      <4>2. /\ ~Claimed /\ terminalEmitted' = (terminalEmitted \/ present)
            /\ wait' = [wait EXCEPT ![c] = IF current = None THEN @ ELSE current]
            /\ UNCHANGED told
        BY <2>2, <4>1 DEF StopClaim, ghostVars
      <4>3. wait'[c] = r
        BY <1>0, <2>0, <4>2 DEF TypeOK
      <4> QED BY <1>0, <4>2, <4>3, Zenon DEF Claimed
    <3>2. \A d \in Calls : d # c => pc'[d] = pc[d] /\ wait'[d] = wait[d]
      BY <1>0, <2>2, Framed DEF StopClaim, Over, TypeOK
    <3>3. Reported(r)' = {}
      BY <2>0, <3>1 DEF Reported
    <3>4. Forcing(r)' = {c}
      BY <2>0, <2>2, <3>1, <3>2 DEF Forcing
    <3> QED BY <3>1, <3>3, <3>4
  <2>3. ASSUME NEW c \in Calls, StopForce(c), wait[c] = r
        PROVE  /\ Reported(r)' = {Len(told[r]) + 1} /\ Forcing(r)' = {} /\ terminalEmitted'
    <3>1. c \in Forcing(r) /\ Forcing(r) = {c} /\ Reported(r) = {} /\ terminalEmitted
      BY <2>0, <2>3 DEF StopForce, Forcing
    <3>2. told' = Tell(r, "cancelled") /\ terminalEmitted' = terminalEmitted
          /\ pc'[c] = "done"
      BY <1>0, <2>3, Framed DEF StopForce, Over, runVars
    <3>3. \A d \in Calls : d # c => pc'[d] = pc[d] /\ wait'[d] = wait[d]
      BY <1>0, <2>3, Framed DEF StopForce, Over, TypeOK
    <3>4. Reported(r)' = {Len(told[r]) + 1}
      BY <3>1, <3>2, OtherReport DEF Ends
    <3>5. Forcing(r)' = {}
      BY <3>1, <3>2, <3>3 DEF Forcing
    <3> QED BY <3>1, <3>2, <3>4, <3>5, Zenon
  <2>4. ASSUME JudgeCancelled(r), told' # told
        PROVE  /\ Reported(r)' = {Len(told[r]) + 1} /\ Forcing(r)' = {} /\ terminalEmitted'
    <3>1. /\ told' = Tell(r, "cancelled") /\ ~terminalEmitted /\ terminalEmitted'
          /\ UNCHANGED wait /\ \A d \in Calls : pc'[d] = pc[d]
      BY <1>0, <2>4, Framed DEF JudgeCancelled, Claimed
    <3>2. Reported(r)' = {Len(told[r]) + 1}
      BY <2>0, <3>1, OtherReport DEF Ends
    <3>3. Forcing(r)' = {}
      BY <2>0, <3>1 DEF Forcing
    <3> QED BY <3>1, <3>2, <3>3, Zenon
  <2>5. CASE /\ \A c \in Calls : ~(StopClaim(c) /\ pc'[c] = "force")
             /\ \A c \in Calls : ~(StopForce(c) /\ wait[c] = r)
             /\ ~(JudgeCancelled(r) /\ told' # told)
    <3>1. Forcing(r)' \subseteq Forcing(r)
      <4> SUFFICES ASSUME NEW d \in Calls, pc'[d] = "force", wait'[d] = r
                   PROVE  pc[d] = "force" /\ wait[d] = r
        BY DEF Forcing
      <4>1. ~Begin(d) /\ ~CallStep(d) /\ pc[d] = "force"
        BY <2>5, CallFrame, CallPlaces
      <4>2. wait'[d] \in {wait[d], None}
        <5>1. ASSUME NEW c \in Calls, Begin(c) \/ CallStep(c) PROVE wait'[d] \in {wait[d], None}
          <6>1. c # d
            BY <4>1, <5>1
          <6>2. CASE CompactCall(c)
            BY <6>2, Apart DEF CompactCall, TypeOK
          <6>3. CASE StopCall(c) \/ StopClaim(c) \/ StopForce(c)
            BY <6>1, <6>3 DEF StopCall, StopClaim, StopForce, TypeOK
          <6> QED BY <5>1, <6>2, <6>3, CallTold
        <5>2. ASSUME NEW q \in Runs, RunStep(q) \/ EngineReturn(q)
              PROVE  wait'[d] \in {wait[d], None}
          <6>1. CASE RunExit(q)
            BY <6>1 DEF RunExit
          <6>2. CASE JudgeCancelled(q) \/ JudgeError(q) \/ ReleaseKeep(q) \/ RunComplete(q)
            BY <6>2 DEF JudgeCancelled, JudgeError, ReleaseKeep, Deactivate, RunComplete
          <6> QED BY <5>2, <6>1, <6>2, RunTold
        <5> QED BY <5>1, <5>2, FlowTold DEF Next
      <4> QED BY <1>0, <4>1, <4>2
    <3>2. Reported(r)' = Reported(r)
      <4>0. told'[r] = told[r] => Reported(r)' = Reported(r)
        BY DEF Reported
      <4>1. ASSUME NEW c \in Calls, Begin(c) \/ CallStep(c) PROVE Reported(r)' = Reported(r)
        <5>1. CASE StopForce(c)
          BY <2>5, <4>0, <5>1 DEF StopForce, Tell, TypeOK
        <5>2. CASE StopCall(c) \/ StopClaim(c) \/ CompactCall(c)
          BY <4>0, <5>2 DEF StopCall, StopClaim, CompactCall, ghostVars
        <5> QED BY <4>0, <4>1, <5>1, <5>2, CallTold
      <4>2. ASSUME NEW q \in Runs, RunStep(q) \/ EngineReturn(q) PROVE Reported(r)' = Reported(r)
        <5>1. CASE RunExit(q)
          <6>1. q # r
            BY <1>2, <5>1 DEF RunExit, Holds, HoldAt
          <6> QED BY <4>0, <5>1, <6>1 DEF RunExit, TypeOK
        <5>2. CASE JudgeCancelled(q)
          <6>1. told' = told \/ q # r
            BY <2>5, <5>2
          <6> QED BY <4>0, <5>2, <6>1 DEF JudgeCancelled, Tell, TypeOK
        <5>3. CASE JudgeError(q) \/ ReleaseKeep(q) \/ RunComplete(q)
          <6>1. told' = told \/ \E e \in Ends \ {"cancelled"} : told' = Tell(q, e)
            BY <5>3 DEF JudgeError, ReleaseKeep, RunComplete, Ends
          <6>2. CASE q = r
            BY <4>0, <6>1, <6>2, OtherReport
          <6>3. CASE q # r
            BY <4>0, <6>1, <6>3, OtherReport
          <6> QED BY <6>2, <6>3
        <5> QED BY <4>0, <4>2, <5>1, <5>2, <5>3, RunTold
      <4> QED BY <4>0, <4>1, <4>2, FlowTold DEF Next
    <3>3. ~terminalEmitted' => ~terminalEmitted
      <4>0. ASSUME NEW q \in Runs, Launched(q), current' = q PROVE FALSE
        BY <1>0, <1>2, <4>0 DEF Launched, Holds, HoldAt
      <4>1. ASSUME NEW c \in Calls, Begin(c) \/ CallStep(c)
            PROVE  ~terminalEmitted' => ~terminalEmitted
        <5>1. CASE StopClaim(c)
          BY <5>1, Zenon DEF StopClaim
        <5>2. CASE StopCall(c) \/ StopForce(c) \/ CompactCall(c)
          BY <5>2 DEF StopCall, StopForce, CompactCall, runVars
        <5> QED BY <4>0, <4>1, <5>1, <5>2, CallTold
      <4>2. ASSUME NEW q \in Runs, RunStep(q) \/ EngineReturn(q)
            PROVE  ~terminalEmitted' => ~terminalEmitted
        <5>1. CASE JudgeCancelled(q)
          BY <5>1, Zenon DEF JudgeCancelled
        <5>2. CASE JudgeError(q) \/ ReleaseKeep(q) \/ RunComplete(q) \/ RunExit(q)
          BY <5>2 DEF JudgeError, ReleaseKeep, Deactivate, RunComplete, RunExit, runVars
        <5> QED BY <4>0, <4>2, <5>1, <5>2, RunTold
      <4> QED BY <4>0, <4>1, <4>2, FlowTold DEF Next
    <3> QED BY <2>1, <3>1, <3>2, <3>3
  <2> QED BY <2>2, <2>3, <2>4, <2>5
<1> QED BY <1>1, <1>2, HeldBefore

(* FreshIdle and OneReport hold in every state of every behaviour: at most    *)
(* one report of a run's cancellation is made or about to be made.           *)
THEOREM ReportsInductive == Spec => [](FreshIdle /\ OneReport)
<1>1. Init => FreshIdle /\ OneReport
  <2> SUFFICES ASSUME Init PROVE FreshIdle /\ OneReport
    OBVIOUS
  <2>1. /\ \A p \in Procs : pc[p] = "idle"
        /\ \A r \in Runs : told[r] = <<>>
        /\ \A p \in Calls \cup Flows : wait[p] = None
    BY DEF Init
  <2> QED BY <2>1, Apart DEF FreshIdle, OneReport, Holds, HoldAt
<1>2. TypeOK /\ IInv /\ IInv' /\ RowsInv /\ FreshIdle /\ OneReport /\ [Next]_vars
        => (FreshIdle /\ OneReport)'
  <2>1. ASSUME TypeOK, IInv, IInv', RowsInv, FreshIdle, OneReport, Next
        PROVE  (FreshIdle /\ OneReport)'
    BY <2>1, FreshIdleKept, OneReportKept DEF RowsInv, IInv
  <2>2. ASSUME FreshIdle, OneReport, UNCHANGED vars PROVE (FreshIdle /\ OneReport)'
    BY <2>2
       DEF vars, runVars, lifeVars, procVars, ghostVars, FreshIdle, OneReport, Holds,
           Reported, Forcing
  <2> QED BY <2>1, <2>2
<1> QED BY <1>1, <1>2, Typed, Inductive, RowsInductive, PTL DEF Spec

(* A run is reported as cancelled at most once, by its own goroutine or by    *)
(* the Stop that gave up waiting for it, however many clients press Stop.     *)
THEOREM OneCancelledHolds == Spec => []OneCancelled
<1>1. TypeOK /\ OneReport => OneCancelled
  <2> SUFFICES ASSUME TypeOK, OneReport, ~stale, present, NEW r \in Runs, Holds(r)
               PROVE  Cardinality(Reported(r)) <= 1
    BY DEF OneCancelled, Reported
  <2>1. \A i, j \in Reported(r) : i = j
    BY DEF OneReport
  <2>2. CASE Reported(r) = {}
    BY <2>2, FS_EmptySet
  <2>3. CASE Reported(r) # {}
    <3>1. PICK i \in Reported(r) : TRUE
      BY <2>3
    <3>2. Reported(r) = {i}
      BY <2>1, <3>1
    <3>3. Cardinality({i}) = 1
      BY FS_Singleton
    <3> QED BY <3>2, <3>3
  <2> QED BY <2>2, <2>3
<1> QED BY <1>1, Typed, ReportsInductive, PTL

-----------------------------------------------------------------------------
(* Shutdown                                                                 *)

(* The calls by which a user ends a task.                                    *)
Enders == {"stop", "goal", "archive", "delete"}

(* Without them only a shutdown cancels a context, so no run settles, no call *)
(* is about to close a row, and no goal request supersedes a task.           *)
ContextsLive == \A r \in Runs : pc[r] # "settle" /\ (loc[r].ctx => shuttingDown)
NoneEnds == \A c \in Calls : pc[c] \notin {"waiting", "expired", "force", "discard", "settleStop"}
NoGoals ==
  /\ \A p \in Calls \cup Runs :
       pc[p] \in {"gate", "route", "activate", "start", "complete"} => ~loc[p].goal
  /\ \A f \in Flows : pc[f] \notin {"gate", "route", "activate"}
Unended == Ops \cap Enders = {} => ContextsLive /\ NoneEnds /\ NoGoals

(* The locals of a call are its own.                                         *)
LEMMA CallLocals ==
  ASSUME TypeOK, Next, NEW d \in Calls
  PROVE  Begin(d) \/ CallStep(d) \/ loc'[d] = loc[d]
<1>0. d \in Procs /\ d # current /\ d # compactFlow
  BY Apart DEF TypeOK
<1>1. ASSUME NEW p \in Procs, p # d, NEW x, loc' = loc \/ loc' = [loc EXCEPT ![p] = x]
      PROVE  loc'[d] = loc[d]
  BY <1>0, <1>1, Framed
<1>2. ASSUME NEW l \in [Procs -> Locals]
      PROVE  CancelRun(l)[d] = l[d] /\ CancelFlow(l)[d] = l[d]
  BY <1>0, <1>2 DEF CancelRun, CancelFlow
<1>3. ASSUME NEW p \in Procs, p # d, LaunchStep(p) PROVE loc'[d] = loc[d]
  <2>1. Refuse(p) \/ RefuseCompacting(p) => loc'[d] = loc[d]
    <3>1. Refuse(p) \/ RefuseCompacting(p) => loc' = [loc EXCEPT ![p] = Left(p)]
      BY DEF Refuse, RefuseCompacting
    <3> QED BY <1>1, <1>3, <3>1
  <2>2. \A q \in Runs, via \in {"msg", "resume"} : \A t : Activate(p, q, via, t) => loc'[d] = loc[d]
    BY <1>0, <1>3, Apart DEF Activate, TypeOK
  <2>3. CASE SendGate(p) \/ SendRoute(p)
    <3>1. \/ Refuse(p) \/ RefuseCompacting(p)
          \/ loc' = loc \/ loc' = [loc EXCEPT ![p] = Left(p)]
      BY <2>3, Zenon DEF SendGate, SendRoute
    <3> QED BY <1>1, <1>3, <2>1, <3>1
  <2>4. CASE SendActivate(p)
    BY <2>1, <2>2, <2>4 DEF SendActivate
  <2>5. CASE ResumeLookup(p)
    <3>1. CASE loc' = [loc EXCEPT ![p].tid = Unfinished, ![p].goal = goal[Unfinished]]
      BY <1>0, <1>3, <3>1 DEF TypeOK
    <3>2. CASE Refuse(p) \/ loc' = [loc EXCEPT ![p] = Left(p)]
      BY <1>1, <1>3, <2>1, <3>2
    <3> QED BY <2>5, <3>1, <3>2 DEF ResumeLookup
  <2>6. CASE ResumeActivate(p)
    BY <2>1, <2>2, <2>6 DEF ResumeActivate
  <2> QED BY <1>3, <2>3, <2>4, <2>5, <2>6 DEF LaunchStep
<1>4. ASSUME NEW c \in Calls, c # d, Begin(c) \/ CallStep(c) PROVE loc'[d] = loc[d]
  <2>0. c \in Procs
    BY Apart
  <2>1. CASE LaunchStep(c)
    BY <1>3, <1>4, <2>0, <2>1
  <2>2. CASE \E m \in Msgs, g \in BOOLEAN : SendCall(c, m, g)
    BY <1>0, <1>4, <2>2 DEF SendCall, TypeOK
  <2>3. CASE StopCall(c)
    BY <1>0, <1>4, <2>3 DEF StopCall, Over, CancelContext, TypeOK
  <2>4. CASE CompactCall(c)
    BY <1>0, <2>4, Apart DEF CompactCall, TypeOK
  <2>5. CASE CancelCompactCall(c)
    BY <1>2, <2>5 DEF CancelCompactCall, TypeOK
  <2>6. CASE ArchiveCall(c)
    <3> DEFINE was == IF archived THEN loc ELSE CancelRun(loc)
    <3>1. was \in [Procs -> Locals] /\ was[d] = loc[d]
      BY <1>2, Cancels DEF TypeOK
    <3>2. loc' = [was EXCEPT ![c].flag = ~archived]
      BY <2>6 DEF ArchiveCall
    <3> HIDE DEF was
    <3> QED BY <1>0, <1>4, <2>0, <3>1, <3>2
  <2>7. CASE DeleteCall(c)
    <3>1. loc' = CancelFlow(CancelRun(loc)) /\ CancelRun(loc) \in [Procs -> Locals]
      BY <2>7, Cancels DEF DeleteCall, TypeOK
    <3> QED BY <1>2, <3>1 DEF TypeOK
  <2>8. CASE ShutdownCollect(c)
    <3> DEFINE was == CancelFlow(CancelRun(loc))
               running == active /\ current # None
    <3>1. was \in [Procs -> Locals] /\ was[d] = loc[d]
      BY <1>2, Cancels DEF TypeOK
    <3>2. loc' = IF present THEN [was EXCEPT ![c].flag = running] ELSE loc
      BY <2>8 DEF ShutdownCollect
    <3> HIDE DEF was, running
    <3> QED BY <1>0, <1>4, <2>0, <3>1, <3>2
  <2>9. CASE ResumeCall(c) \/ PauseCall(c) \/ ShutdownCall(c)
    BY <2>9 DEF ResumeCall, PauseCall, ShutdownCall
  <2>10. CASE CallStep(c) /\ ~LaunchStep(c) /\ ~ShutdownCollect(c)
    <3>1. loc' = loc \/ loc' = [loc EXCEPT ![c] = Blank]
      BY <2>10, Zenon
         DEF CallStep, StopDiscard, StopReturn, StopTimeout, StopClaim, StopForce, PauseSignal,
             RaisePause, ArchiveDiscard, ArchiveSet, DeleteRemove, ShutdownCheckpoint, Over
    <3> QED BY <1>1, <1>4, <2>0, <3>1
  <2> QED
    BY <1>4, <2>1, <2>2, <2>3, <2>4, <2>5, <2>6, <2>7, <2>8, <2>9, <2>10 DEF Begin
<1>5. ASSUME NEW q \in Runs, RunStep(q) \/ EngineReturn(q) PROVE loc'[d] = loc[d]
  <2>0. q \in Procs /\ q # d
    BY Apart
  <2>1. CASE LaunchStep(q)
    BY <1>3, <2>0, <2>1
  <2>2. CASE \/ RunReactivate(q) \/ RunTakeover(q) \/ RunContinue(q) \/ HandleCommit(q)
             \/ HandleFail(q) \/ ResumeEnter(q) \/ ResumeFail(q) \/ Deliver(q)
    BY <1>0, <2>0, <2>2
       DEF RunReactivate, RunTakeover, RunContinue, HandleCommit, HandleFail, ResumeEnter,
           ResumeFail, Deliver, procVars, TypeOK
  <2>3. CASE \/ JudgeRetry(q) \/ JudgeCancelled(q) \/ JudgeError(q) \/ JudgeDone(q)
             \/ RunSettle(q) \/ EngineReturn(q)
    BY <1>0, <2>0, <2>3
       DEF JudgeRetry, JudgeCancelled, JudgeError, JudgeDone, RunSettle, EngineReturn, TypeOK
  <2>4. CASE \/ ReleaseKeep(q) \/ ReleaseDrop(q) \/ ReleaseFollowUp(q) \/ RunComplete(q)
             \/ RunExit(q)
    BY <1>0, <2>0, <2>4
       DEF ReleaseKeep, ReleaseDrop, ReleaseFollowUp, RunComplete, RunExit, TypeOK
  <2> QED BY <1>5, <2>1, <2>2, <2>3, <2>4 DEF RunStep
<1>6. ASSUME NEW f \in Flows, FlowStep(f) PROVE loc'[d] = loc[d]
  <2>0. f \in Procs /\ f # d
    BY Apart
  <2>1. CASE LaunchStep(f)
    BY <1>3, <2>0, <2>1
  <2>2. CASE ~LaunchStep(f)
    BY <1>0, <1>6, <2>0, <2>2
       DEF FlowStep, FlowSignal, RaisePause, FlowAwait, FlowSwap, FlowDefer, FlowClear,
           FlowOwner, TypeOK
  <2> QED BY <2>1, <2>2
<1> QED BY <1>4, <1>5, <1>6 DEF Next

(* A run cancels no context of its own.                                      *)
LEMMA RunContexts ==
  ASSUME TypeOK, NEW r \in Runs, RunStep(r) \/ EngineReturn(r), loc'[r].ctx
  PROVE  loc[r].ctx
<1>0. /\ r \in Procs /\ loc[r] \in Locals /\ Left(r) = [loc[r] EXCEPT !.text = {}]
      /\ \A x : loc' = [loc EXCEPT ![r] = x] => loc'[r] = x
      /\ Blank.ctx = FALSE
  BY Framed, Apart DEF Left, TypeOK, Blank
<1>1. CASE LaunchStep(r)
  <2>1. \/ loc' = loc \/ loc' = [loc EXCEPT ![r] = Left(r)]
        \/ loc' = [loc EXCEPT ![r].tid = Unfinished, ![r].goal = goal[Unfinished]]
        \/ \E q \in Runs, via \in {"msg", "resume"}, t \in {NoTask, loc[r].tid} : Activate(r, q, via, t)
    BY <1>1, Zenon
       DEF LaunchStep, SendGate, SendRoute, SendActivate, ResumeLookup, ResumeActivate,
           Refuse, RefuseCompacting
  <2>2. CASE loc' = [loc EXCEPT ![r] = Left(r)]
    BY <1>0, <2>2 DEF Locals
  <2>3. CASE loc' = [loc EXCEPT ![r].tid = Unfinished, ![r].goal = goal[Unfinished]]
    BY <1>0, <2>3 DEF TypeOK, Locals
  <2>4. ASSUME NEW q \in Runs, NEW via, NEW t, Activate(r, q, via, t) PROVE loc[r].ctx
    <3>1. loc'[r] = Left(r)
      BY <1>0, <2>4, Apart DEF Activate, TypeOK
    <3> QED BY <1>0, <3>1 DEF Locals
  <2> QED BY <2>1, <2>2, <2>3, <2>4
<1>2. CASE RunContinue(r)
  <2>1. CASE UNCHANGED loc
    BY <2>1
  <2>2. CASE loc' = [loc EXCEPT ![r].tid = Unfinished, ![r].goal = goal[Unfinished],
                                ![r].via = "cont"]
    BY <1>0, <2>2 DEF TypeOK, Locals
  <2> QED BY <1>2, <2>1, <2>2 DEF RunContinue
<1>3. CASE RunReactivate(r) \/ RunTakeover(r) \/ ResumeEnter(r) \/ ResumeFail(r) \/ Deliver(r)
  <2>1. CASE RunReactivate(r) \/ RunTakeover(r) \/ Deliver(r)
    BY <2>1 DEF RunReactivate, RunTakeover, Deliver, procVars
  <2>2. CASE ResumeEnter(r)
    BY <1>0, <2>2 DEF ResumeEnter, TypeOK, Locals
  <2>3. CASE ResumeFail(r)
    BY <1>0, <2>3 DEF ResumeFail, TypeOK, Locals
  <2> QED BY <1>3, <2>1, <2>2, <2>3
<1>4. CASE HandleCommit(r)
  <2>1. \E t, a, x : loc' = [loc EXCEPT ![r].tid = t, ![r].anchor = a, ![r].flag = x,
                                       ![r].text = {}]
    BY <1>4, Zenon DEF HandleCommit
  <2> QED BY <1>0, <2>1 DEF TypeOK, Locals
<1>5. CASE HandleFail(r)
  <2> DEFINE fresh == Anchor(r) = NoTask /\ ~inFlight
             t == IF fresh THEN NextRow ELSE Anchor(r)
             x == Anchor(r) # NoTask /\ Unfinished = Anchor(r)
  <2>1. PICK out \in Failures :
          loc' = [loc EXCEPT ![r].tid = t, ![r].anchor = Anchor(r), ![r].flag = x,
                             ![r].res = out, ![r].stopped = loc[r].ctx]
    BY <1>5 DEF HandleFail
  <2> HIDE DEF t, x, fresh
  <2> QED BY <1>0, <2>1 DEF TypeOK, Locals
<1>6. CASE EngineReturn(r)
  <2>1. \E o, z : loc' = [loc EXCEPT ![r].res = o, ![r].stopped = z]
    BY <1>6, Zenon DEF EngineReturn
  <2> QED BY <1>0, <2>1 DEF TypeOK, Locals
<1>7. CASE JudgeCancelled(r)
  <2>1. loc' = loc \/ loc' = [loc EXCEPT ![r].res = "aborted"]
    BY <1>7 DEF JudgeCancelled
  <2> QED BY <1>0, <2>1 DEF TypeOK, Locals
<1>8. CASE JudgeRetry(r) \/ JudgeError(r) \/ JudgeDone(r) \/ RunSettle(r)
  BY <1>0, <1>8 DEF JudgeRetry, JudgeError, JudgeDone, RunSettle, TypeOK, Locals
<1>9. CASE \/ ReleaseKeep(r) \/ ReleaseDrop(r) \/ ReleaseFollowUp(r) \/ RunComplete(r)
           \/ RunExit(r)
  <2>1. CASE ReleaseDrop(r) \/ RunComplete(r)
    BY <2>1 DEF ReleaseDrop, RunComplete
  <2>2. CASE ReleaseKeep(r)
    BY <1>0, <2>2 DEF ReleaseKeep, TypeOK, Locals
  <2>3. CASE ReleaseFollowUp(r)
    BY <1>0, <2>3 DEF ReleaseFollowUp, TypeOK, Locals
  <2>4. CASE RunExit(r)
    BY <1>0, <2>4 DEF RunExit
  <2> QED BY <1>9, <2>1, <2>2, <2>3, <2>4
<1> QED BY <1>1, <1>2, <1>3, <1>4, <1>5, <1>6, <1>7, <1>8, <1>9 DEF RunStep

LEMMA CancelledContext ==
  ASSUME TypeOK, Ops \cap Enders = {}, Down, NEW r \in Runs, Spared(r), loc'[r].ctx
  PROVE  loc[r].ctx \/ shuttingDown
  BY DEF Spared, Cancelling, Enders, Down

LEMMA ContextsKept ==
  ASSUME TypeOK, Ops \cap Enders = {}, Down, ContextsLive, Next PROVE ContextsLive'
<1> SUFFICES ASSUME NEW r \in Runs PROVE pc'[r] # "settle" /\ (loc'[r].ctx => shuttingDown')
  BY DEF ContextsLive
<1>0. /\ shuttingDown => shuttingDown'
      /\ pc[r] # "settle" /\ (loc[r].ctx => shuttingDown)
  BY RowMoves DEF ContextsLive
<1>1. CASE RunStep(r) \/ EngineReturn(r)
  <2>1. ASSUME JudgeCancelled(r) PROVE pc'[r] # "settle"
    <3>1. shuttingDown
      BY <1>0, <2>1 DEF JudgeCancelled, Cancelled
    <3>2. Goto(r, "keep")
      BY <2>1, <3>1 DEF JudgeCancelled, ReportsCancellation
    <3> QED BY <3>2, Framed, Apart
  <2>2. pc'[r] # "settle"
    BY <1>1, <2>1, RunPlaces
  <2> QED BY <1>0, <1>1, <2>2, RunContexts
<1>2. CASE Launched(r)
  BY <1>2 DEF Launched
<1>3. CASE Spared(r)
  BY <1>0, <1>3, CancelledContext DEF Spared
<1> QED BY <1>1, <1>2, <1>3, RunFrame

LEMMA NoneEndsKept ==
  ASSUME TypeOK, Ops \cap Enders = {}, NoneEnds, Next PROVE NoneEnds'
<1> SUFFICES ASSUME NEW d \in Calls,
                    pc'[d] \in {"waiting", "expired", "force", "discard", "settleStop"}
             PROVE  FALSE
  BY DEF NoneEnds
<1>1. StopClaim(d) \/ StopTimeout(d) \/ StopCall(d) \/ ArchiveCall(d)
  BY CallFrame, CallPlaces DEF NoneEnds
<1> QED BY <1>1 DEF StopClaim, StopTimeout, StopCall, ArchiveCall, NoneEnds, Enders

(* A launch path which goes on keeps the kind of its request.                *)
LEMMA LaunchGoals ==
  ASSUME TypeOK, NEW p \in Procs, LaunchStep(p),
         pc'[p] \in {"gate", "route", "activate", "start", "complete"}
  PROVE  pc[p] \in {"gate", "route"} /\ UNCHANGED loc
<1>0. \A l : Goto(p, l) => pc'[p] = l
  BY Framed
<1>1. After(p) \in {"done", "exit", "idle"}
  BY DEF After
<1>2. ~Refuse(p) /\ ~RefuseCompacting(p)
  <2>1. Refuse(p) \/ RefuseCompacting(p) => Goto(p, After(p)) \/ Goto(p, "exit")
    BY Zenon DEF Refuse, RefuseCompacting
  <2> QED BY <1>0, <1>1, <2>1
<1>3. ASSUME NEW q \in Runs, NEW via \in {"msg", "resume"}, NEW t, Activate(p, q, via, t)
      PROVE  FALSE
  BY <1>1, <1>3 DEF Activate, TypeOK
<1>4. ~SendActivate(p) /\ ~ResumeActivate(p)
  BY <1>2, <1>3 DEF SendActivate, ResumeActivate
<1>5. ~ResumeLookup(p)
  <2>1. ResumeLookup(p) => Refuse(p) \/ Goto(p, After(p)) \/ Goto(p, "resume")
    BY Zenon DEF ResumeLookup
  <2> QED BY <1>0, <1>1, <1>2, <2>1
<1>6. SendGate(p) => pc[p] = "gate" /\ UNCHANGED loc
  <2>1. SendGate(p) /\ ~Goto(p, After(p)) => pc[p] = "gate" /\ UNCHANGED loc
    BY <1>2, Zenon DEF SendGate
  <2> QED BY <1>0, <1>1, <2>1
<1> QED BY <1>4, <1>5, <1>6 DEF LaunchStep, SendRoute

(* A flow never comes to the send path.                                      *)
LEMMA FlowPlaces ==
  ASSUME TypeOK, Next, NEW f \in Flows, pc'[f] \in {"gate", "route", "activate"}
  PROVE  pc[f] \in {"gate", "route", "activate"}
<1>0. f \in Procs
  BY Apart
<1>1. ASSUME NEW p \in Procs, NEW l, Goto(p, l), p # f
      PROVE  pc'[f] = pc[f]
  BY <1>0, <1>1, Framed
<1>2. ASSUME NEW p \in Procs, LaunchStep(p), p # f PROVE pc'[f] = pc[f]
  BY <1>2, LaunchPlaces
<1>3. ASSUME NEW c \in Calls, Begin(c) \/ CallStep(c) PROVE pc'[f] = pc[f]
  <2>1. CASE CompactCall(c)
    <3>1. PICK g \in Flows :
            pc' = [pc EXCEPT ![c] = "done", ![g] = IF active THEN "csignal" ELSE "swap"]
      BY <2>1 DEF CompactCall
    <3> QED BY <1>0, <3>1, Apart DEF TypeOK
  <2> QED BY <1>1, <1>2, <1>3, <2>1, OneMoves, Apart
<1>4. ASSUME NEW r \in Runs, RunStep(r) \/ EngineReturn(r) PROVE pc'[f] = pc[f]
  BY <1>1, <1>2, <1>4, OneMoves, Apart
<1>5. ASSUME NEW g \in Flows, FlowStep(g), g # f PROVE pc'[f] = pc[f]
  <2>1. CASE LaunchStep(g)
    BY <1>2, <1>5, <2>1, Apart
  <2>2. CASE ~LaunchStep(g)
    <3>1. \E l : Goto(g, l)
      BY <1>5, <2>2, Zenon
         DEF FlowStep, FlowSignal, FlowAwait, FlowSwap, FlowDefer, FlowClear, FlowOwner
    <3> QED BY <1>1, <1>5, <3>1, Apart
  <2> QED BY <2>1, <2>2
<1>6. ASSUME FlowStep(f) PROVE pc[f] \in {"gate", "route", "activate"}
  <2>1. CASE LaunchStep(f)
    BY <1>0, <2>1, LaunchGoals
  <2>2. CASE ~LaunchStep(f)
    <3>1. \A l : Goto(f, l) => pc'[f] = l
      BY <1>0, Framed
    <3> QED BY <1>6, <2>2, <3>1
         DEF FlowStep, FlowSignal, FlowAwait, FlowSwap, FlowDefer, FlowClear, FlowOwner
  <2> QED BY <2>1, <2>2
<1> QED BY <1>3, <1>4, <1>5, <1>6 DEF Next

GoalAt == {"gate", "route", "activate", "start", "complete"}

LEMMA NoGoalsKept ==
  ASSUME TypeOK, Ops \cap Enders = {}, NoGoals, Next PROVE NoGoals'
<1>0. \A p \in Procs : (\A l : Goto(p, l) => pc'[p] = l)
  BY Framed
<1>1. ASSUME NEW r \in Runs, pc'[r] \in GoalAt PROVE ~loc'[r].goal
  <2>0. r \in Procs
    BY Apart
  <2>1. CASE LaunchStep(r)
    BY <1>1, <2>0, <2>1, LaunchGoals DEF NoGoals, GoalAt
  <2>2. CASE ReleaseFollowUp(r)
    BY <2>0, <2>2 DEF ReleaseFollowUp, TypeOK, Locals
  <2>3. CASE RunComplete(r)
    BY <2>3 DEF RunComplete, NoGoals
  <2>4. CASE RunStep(r) \/ EngineReturn(r)
    <3>1. pc'[r] \in {"gate", "complete"} \/ SendRoute(r) \/ SendGate(r)
      BY <1>1, <2>4, RunPlaces DEF GoalAt
    <3> QED BY <2>1, <2>2, <2>3, <2>4, <3>1, RunPlaces DEF LaunchStep
  <2>5. CASE Launched(r)
    <3>1. CASE pc'[r] = "start"
      <4>1. PICK p \in Procs : pc[p] = "activate" /\ loc'[r].goal = loc[p].goal
        BY <2>5, <3>1 DEF Launched
      <4> QED BY <4>1 DEF NoGoals, Procs
    <3> QED BY <1>1, <2>5, <3>1 DEF Launched, GoalAt
  <2>6. CASE Spared(r)
    BY <1>1, <2>6, SparedLocals DEF NoGoals, GoalAt
  <2> QED BY <2>4, <2>5, <2>6, RunFrame
<1>2. ASSUME NEW c \in Calls, pc'[c] \in GoalAt PROVE ~loc'[c].goal
  <2>0. c \in Procs /\ c # current /\ c # compactFlow
    BY Apart DEF TypeOK
  <2>1. CASE LaunchStep(c)
    BY <1>2, <2>0, <2>1, LaunchGoals DEF NoGoals, GoalAt
  <2>2. CASE \E m \in Msgs, g \in BOOLEAN : SendCall(c, m, g)
    <3>1. PICK m \in Msgs : SendCall(c, m, FALSE)
      BY <2>2 DEF SendCall, Enders
    <3> QED BY <2>0, <3>1 DEF SendCall, TypeOK, Locals
  <2>3. CASE (Begin(c) \/ CallStep(c)) /\ ~LaunchStep(c)
    <3>1. \E m \in Msgs, g \in BOOLEAN : SendCall(c, m, g)
      <4>1. CASE CompactCall(c)
        <5>1. PICK f \in Flows :
                pc' = [pc EXCEPT ![c] = "done", ![f] = IF active THEN "csignal" ELSE "swap"]
          BY <4>1 DEF CompactCall
        <5> QED BY <1>2, <2>0, <5>1, Apart DEF TypeOK, GoalAt
      <4>2. CASE ResumeCall(c) \/ StopCall(c) \/ PauseCall(c)
        BY <1>0, <1>2, <2>0, <4>2 DEF ResumeCall, StopCall, PauseCall, Over, GoalAt
      <4>3. CASE CancelCompactCall(c) \/ ArchiveCall(c) \/ DeleteCall(c) \/ ShutdownCall(c)
        BY <1>0, <1>2, <2>0, <4>3
           DEF CancelCompactCall, ArchiveCall, DeleteCall, ShutdownCall, GoalAt
      <4>4. CASE CallStep(c)
        BY <1>0, <1>2, <2>0, <2>3, <4>4
           DEF CallStep, StopDiscard, StopReturn, StopTimeout, StopClaim, StopForce,
               PauseSignal, ArchiveDiscard, ArchiveSet, DeleteRemove, ShutdownCollect,
               ShutdownCheckpoint, Over, GoalAt
      <4> QED BY <2>3, <4>1, <4>2, <4>3, <4>4 DEF Begin
    <3> QED BY <2>2, <3>1
  <2>4. CASE pc'[c] = pc[c] /\ loc'[c] = loc[c]
    BY <1>2, <2>4 DEF NoGoals, GoalAt
  <2> QED BY <2>1, <2>3, <2>4, CallFrame, CallLocals
<1>3. ASSUME NEW f \in Flows, pc'[f] \in {"gate", "route", "activate"} PROVE FALSE
  BY <1>3, FlowPlaces DEF NoGoals
<1> QED BY <1>1, <1>2, <1>3 DEF NoGoals, GoalAt

LEMMA UnendedKept == ASSUME TypeOK, Down, Unended, Next PROVE Unended'
  BY ContextsKept, NoneEndsKept, NoGoalsKept DEF Unended

(* Who closes an unfinished row as cancelled.                                *)
LEMMA WhoCancels ==
  ASSUME TypeOK, Next, NEW t \in Tasks,
         row[t] \in UnfinishedStatuses, row'[t] = "cancelled"
  PROVE  \/ \E r \in Runs : pc[r] \in {"complete", "settle"} \/ (pc[r] = "start" /\ loc[r].goal)
         \/ \E c \in Calls : pc[c] \in {"discard", "force", "settleStop"}
<1>0. row'[t] # row[t]
  BY DEF UnfinishedStatuses
<1>1. ASSUME NEW p \in Procs, LaunchStep(p) PROVE FALSE
  BY <1>0, <1>1, LaunchRows
<1>2. ASSUME NEW c \in Calls, Begin(c) PROVE FALSE
  <2>1. UNCHANGED row
    <3> USE DEF storeVars
    <3>1. CASE \E m \in Msgs, g \in BOOLEAN : SendCall(c, m, g)
      BY <3>1 DEF SendCall
    <3>2. CASE ResumeCall(c) \/ StopCall(c) \/ PauseCall(c) \/ CompactCall(c)
      BY <3>2 DEF ResumeCall, StopCall, PauseCall, CompactCall
    <3>3. CASE CancelCompactCall(c) \/ ArchiveCall(c) \/ DeleteCall(c) \/ ShutdownCall(c)
      BY <3>3 DEF CancelCompactCall, ArchiveCall, DeleteCall, ShutdownCall
    <3> QED BY <1>2, <3>1, <3>2, <3>3 DEF Begin
  <2> QED BY <1>0, <2>1
<1>3. ASSUME NEW c \in Calls, CallStep(c)
      PROVE  pc[c] \in {"discard", "force", "settleStop"}
  <2>1. CASE StopDiscard(c) \/ StopForce(c) \/ ArchiveDiscard(c)
    BY <2>1 DEF StopDiscard, StopForce, ArchiveDiscard
  <2>2. ~ShutdownCheckpoint(c)
    BY <1>0 DEF ShutdownCheckpoint, Put
  <2>3. CASE StopReturn(c) \/ StopTimeout(c) \/ StopClaim(c) \/ PauseSignal(c)
             \/ ArchiveSet(c) \/ DeleteRemove(c) \/ ShutdownCollect(c)
    BY <1>0, <2>3
       DEF StopReturn, StopTimeout, StopClaim, PauseSignal, RaisePause, ArchiveSet,
           DeleteRemove, ShutdownCollect, storeVars
  <2> QED BY <1>1, <1>3, <2>1, <2>2, <2>3, Apart DEF CallStep
<1>4. ASSUME NEW r \in Runs, RunStep(r) \/ EngineReturn(r)
      PROVE  pc[r] \in {"complete", "settle"} \/ (pc[r] = "start" /\ loc[r].goal)
  <2>1. CASE RunComplete(r) \/ RunSettle(r) \/ RunTakeover(r)
    BY <2>1 DEF RunComplete, RunSettle, RunTakeover
  <2>2. CASE RunReactivate(r) \/ RunContinue(r) \/ ResumeEnter(r) \/ ResumeFail(r) \/ Deliver(r)
    BY <1>0, <2>2
       DEF RunReactivate, RunContinue, ResumeEnter, ResumeFail, Deliver, Put, storeVars
  <2>3. CASE HandleCommit(r)
    <3>1. \E u : row' = Put(row, u, "in_progress")
      BY <2>3 DEF HandleCommit
    <3> QED BY <1>0, <3>1 DEF Put
  <2>4. CASE HandleFail(r)
    <3>1. UNCHANGED row \/ \E u : row' = Put(row, u, "in_progress")
      BY <2>4 DEF HandleFail
    <3> QED BY <1>0, <3>1 DEF Put
  <2>5. CASE EngineReturn(r)
    <3>1. UNCHANGED row \/ \E v \in {"completed", "paused", "failed"} : row' = Put(row, loc[r].tid, v)
      BY <2>5 DEF EngineReturn
    <3> QED BY <1>0, <3>1 DEF Put
  <2>6. CASE \/ JudgeRetry(r) \/ JudgeCancelled(r) \/ JudgeError(r) \/ JudgeDone(r)
             \/ ReleaseKeep(r) \/ ReleaseDrop(r) \/ ReleaseFollowUp(r) \/ RunExit(r)
    BY <1>0, <2>6
       DEF JudgeRetry, JudgeCancelled, JudgeError, JudgeDone, ReleaseKeep, ReleaseDrop,
           ReleaseFollowUp, Deactivate, RunExit, storeVars
  <2> QED BY <1>1, <1>4, <2>1, <2>2, <2>3, <2>4, <2>5, <2>6, Apart DEF RunStep
<1>5. ASSUME NEW f \in Flows, FlowStep(f) PROVE FALSE
  BY <1>0, <1>5, FlowRows
<1> QED BY <1>2, <1>3, <1>4, <1>5 DEF Next

(* Unended holds in every state of every behaviour.                          *)
THEOREM UnendedInductive == Spec => []Unended
<1>1. Init => Unended
  <2> SUFFICES ASSUME Init PROVE Unended
    OBVIOUS
  <2>1. \A p \in Procs : pc[p] = "idle" /\ loc[p].ctx = FALSE
    BY DEF Init, Blank
  <2> QED BY <2>1, Apart DEF Unended, ContextsLive, NoneEnds, NoGoals
<1>2. TypeOK /\ RowsInv /\ Unended /\ [Next]_vars => Unended'
  <2>1. ASSUME TypeOK, RowsInv, Unended, Next PROVE Unended'
    BY <2>1, UnendedKept DEF RowsInv
  <2>2. ASSUME Unended, UNCHANGED vars PROVE Unended'
    BY <2>2 DEF vars, lifeVars, procVars, Unended, ContextsLive, NoneEnds, NoGoals
  <2> QED BY <2>1, <2>2
<1> QED BY <1>1, <1>2, Typed, RowsInductive, PTL DEF Spec

(* A shutdown cancels no task: where no user ends one, a row is closed as     *)
(* cancelled only by the sweep after another task of the session completed.  *)
THEOREM ShutdownCancelsNothingHolds == Spec => ShutdownCancelsNothing
<1>1. TypeOK /\ Unended /\ [Next]_vars =>
        [\A t \in Tasks :
           /\ Ops \cap {"stop", "goal", "archive", "delete"} = {}
           /\ row[t] \in UnfinishedStatuses /\ row'[t] = "cancelled"
           => \E r \in Runs : pc[r] = "complete"]_vars
  <2> SUFFICES ASSUME TypeOK, Unended, Next, NEW t \in Tasks, Ops \cap Enders = {},
                      row[t] \in UnfinishedStatuses, row'[t] = "cancelled"
               PROVE  \E r \in Runs : pc[r] = "complete"
    BY DEF Enders
  <2> QED BY WhoCancels DEF Unended, ContextsLive, NoneEnds, NoGoals
<1> QED BY <1>1, Typed, UnendedInductive, PTL DEF Spec, ShutdownCancelsNothing
=============================================================================
