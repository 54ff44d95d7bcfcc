---------------------------- MODULE SessionProofs ----------------------------
(***************************************************************************)
(* Proofs about the life of a session, for any clients, runs, flows,       *)
(* messages and operations.                                                *)
(***************************************************************************)
EXTENDS SessionProperties, WellFoundedInduction, TLAPS

(* The oldest of some task rows exists, and so does the newest.             *)
LEMMA Extremes ==
  ASSUME NEW S \in SUBSET Tasks, S # {}
  PROVE  /\ \E t \in S : \A u \in S : t <= u
         /\ \E t \in S : \A u \in S : u <= t
<1> DEFINE less == {p \in Nat \X Nat : p[1] < p[2]}
<1>0. IsWellFoundedOn(less, Nat)
  BY NatLessThanWellFounded DEF OpToRel
<1>1. ASSUME NEW D \in SUBSET Nat, D # {}
      PROVE  \E d \in D : \A e \in D : d <= e
  <2>1. PICK d \in D : \A e \in D : ~(<<e, d>> \in less)
    <3> HIDE DEF less
    <3> QED BY <1>0, <1>1, WFMin
  <2>2. ASSUME NEW e \in D PROVE d <= e
    <3>1. ~(e < d)
      BY <2>1
    <3> QED BY <3>1
  <2> QED BY <2>2
<1>2. S \in SUBSET Nat
  BY TasksAssumption DEF Tasks
<1>3. \E t \in S : \A u \in S : u <= t
  <2> DEFINE D == {MaxTask - t : t \in S}
  <2>1. D \in SUBSET Nat /\ D # {}
    <3>1. \A t \in S : MaxTask - t \in Nat
      BY TasksAssumption DEF Tasks
    <3> QED BY <3>1
  <2>2. PICK d \in D : \A e \in D : d <= e
    BY <2>1, <1>1
  <2>3. PICK t \in S : d = MaxTask - t
    OBVIOUS
  <2>4. ASSUME NEW u \in S PROVE u <= t
    <3>1. MaxTask - t <= MaxTask - u
      BY <2>2, <2>3
    <3> QED BY <3>1, <1>2, TasksAssumption
  <2> QED BY <2>4
<1> QED BY <1>1, <1>2, <1>3

(* The two store lookups answer a row or nothing.                           *)
LEMMA Lookups ==
  ASSUME TypeOK
  PROVE  Unfinished \in 0 .. MaxTask /\ NextRow \in 0 .. MaxTask
<1>1. Unfinished \in 0 .. MaxTask
  <2> DEFINE open == {t \in Tasks : row[t] \in UnfinishedStatuses}
  <2>1. CASE open = {}
    BY <2>1, TasksAssumption DEF Unfinished, NoTask
  <2>2. CASE open # {}
    <3>1. \E t \in open : \A u \in open : u <= t
      BY <2>2, Extremes
    <3>2. Unfinished \in open
      BY <2>2, <3>1 DEF Unfinished
    <3> QED BY <3>2, TasksAssumption DEF Tasks
  <2> QED BY <2>1, <2>2
<1>2. NextRow \in 0 .. MaxTask
  <2> DEFINE free == {t \in Tasks : row[t] = "none"}
  <2>1. CASE free = {}
    BY <2>1, TasksAssumption DEF NextRow, NoTask
  <2>2. CASE free # {}
    <3>1. \E t \in free : \A u \in free : t <= u
      BY <2>2, Extremes
    <3>2. NextRow \in free
      BY <2>2, <3>1 DEF NextRow
    <3> QED BY <3>2, TasksAssumption DEF Tasks
  <2> QED BY <2>1, <2>2
<1> QED BY <1>1, <1>2
(* The places the goroutines go to are labels.                               *)
LEMMA Labelled ==
  {"idle", "gate", "route", "activate", "lookup", "resume", "signal", "waiting",
   "expired", "force", "settleStop", "discard", "setArchived", "remove", "collect",
   "checkpoint", "done", "start", "reactivate", "enter", "enterFresh", "enterResume",
   "exec", "judge", "settle", "keep", "drop", "release", "complete", "exit",
   "csignal", "cwait", "swap", "cdefer", "cclear", "cowner"} \subseteq Labels
  BY DEF Labels, CallAt, RunAt, FlowAt

(* A step to a label keeps every goroutine at one.                           *)
LEMMA Moves ==
  ASSUME TypeOK, NEW p \in Procs, NEW l \in Labels, Goto(p, l)
  PROVE  pc' \in [Procs -> Labels]
  BY DEF TypeOK, Goto

LEMMA Places == \A p \in Procs : After(p) \in Labels
  BY Labelled DEF After

(* An update of a row or of a goal flag, whatever row it names, keeps both   *)
(* functions' types.                                                        *)
LEMMA Puts ==
  ASSUME TypeOK
  PROVE  \A t : /\ \A v \in Statuses : Put(row, t, v) \in [Tasks -> Statuses]
                /\ \A v \in BOOLEAN : Put(goal, t, v) \in [Tasks -> BOOLEAN]
  BY DEF TypeOK, Put

(* Marking messages with a fate keeps the fates.                             *)
LEMMA Marks ==
  ASSUME TypeOK, NEW f \in Fates, NEW ms, Mark(ms, f)
  PROVE  fate' \in [Msgs -> Fates]
  BY DEF TypeOK, Mark

(* Reporting a terminal event keeps the reports.                             *)
LEMMA Tells ==
  ASSUME TypeOK, NEW r \in Runs, NEW e \in Ends
  PROVE  Tell(r, e) \in [Runs -> Seq(Ends)]
  BY DEF TypeOK, Tell

(* A goroutine's locals after the change of one of them.                     *)
LEMMA Edits ==
  ASSUME NEW l \in Locals
  PROVE  /\ \A x \in SUBSET Msgs : [l EXCEPT !.text = x] \in Locals
         /\ \A x \in 0 .. MaxTask : [l EXCEPT !.tid = x] \in Locals
         /\ \A x \in BOOLEAN : [l EXCEPT !.ctx = x] \in Locals
         /\ \A x \in BOOLEAN : [l EXCEPT !.flag = x] \in Locals
         /\ \A x \in Results : [l EXCEPT !.res = x] \in Locals
  BY DEF Locals

LEMMA Blanks == Blank \in Locals /\ Blank.text = {}
  BY TasksAssumption DEF Blank, Locals, NoTask, Results, Failures

(* What a goroutine leaves of its locals is typed.                          *)
LEMMA Leaves == ASSUME TypeOK, NEW p \in Procs PROVE Left(p) \in Locals
  BY Edits, Blanks DEF Left, TypeOK

(* The task a goroutine takes over with its goal flag.                       *)
LEMMA FoundTask ==
  ASSUME TypeOK, NEW l \in Locals, Unfinished # NoTask
  PROVE  /\ [l EXCEPT !.tid = Unfinished, !.goal = goal[Unfinished]] \in Locals
         /\ [l EXCEPT !.tid = Unfinished, !.goal = goal[Unfinished], !.via = "cont"]
              \in Locals
<1>1. Unfinished \in 0 .. MaxTask /\ goal[Unfinished] \in BOOLEAN
  BY Lookups, TasksAssumption DEF TypeOK, Tasks, NoTask
<1> QED BY <1>1 DEF Locals

LEMMA RefuseTypes == ASSUME TypeOK, NEW p \in Procs, Refuse(p) PROVE TypeOK'
<1>1. pc' \in [Procs -> Labels]
  BY Places, Moves DEF Refuse
<1>2. loc' \in [Procs -> Locals]
  BY Leaves DEF Refuse, TypeOK
<1>3. fate' \in [Msgs -> Fates]
  BY Marks DEF Refuse, Fates
<1>4. UNCHANGED <<runVars, lifeVars, compactVars, orchVars, storeVars, wait, told,
                  userPause, stale>>
  BY DEF Refuse
<1> QED
  BY <1>1, <1>2, <1>3, <1>4
     DEF TypeOK, runVars, lifeVars, compactVars, orchVars, storeVars

LEMMA RequeueTypes ==
  ASSUME TypeOK, NEW p \in Procs, RefuseCompacting(p) PROVE TypeOK'
<1>1. CASE p \in Runs
  <2>1. pc' \in [Procs -> Labels]
    BY <1>1, Labelled, Moves DEF RefuseCompacting
  <2>2. loc' \in [Procs -> Locals]
    BY <1>1, Leaves DEF RefuseCompacting, TypeOK
  <2>3. fate' \in [Msgs -> Fates]
    BY <1>1, Marks DEF RefuseCompacting, Fates
  <2>4. queue' \in SUBSET Msgs
    BY <1>1 DEF RefuseCompacting, TypeOK, Locals
  <2>5. UNCHANGED <<runVars, lifeVars, compactVars, inFlight, pause, armed, storeVars,
                    wait, told, userPause, stale>>
    BY <1>1 DEF RefuseCompacting
  <2> QED
    BY <2>1, <2>2, <2>3, <2>4, <2>5 DEF TypeOK, runVars, lifeVars, compactVars, storeVars
<1>2. CASE p \notin Runs
  BY <1>2, RefuseTypes DEF RefuseCompacting
<1> QED BY <1>1, <1>2

LEMMA ActivateTypes ==
  ASSUME TypeOK, NEW p \in Procs, NEW q \in Runs, NEW t \in 0 .. MaxTask,
         NEW via \in {"msg", "resume"}, Activate(p, q, via, t), stale' \in BOOLEAN
  PROVE  TypeOK'
<1> DEFINE start == IF via = "resume" THEN "reactivate" ELSE "start"
           bound == [Blank EXCEPT !.text = loc[p].text, !.tid = t,
                                  !.goal = loc[p].goal, !.via = via]
<1>1. q \in Procs
  BY DEF Procs
<1>2. pc' \in [Procs -> Labels]
  <2>1. start \in Labels /\ After(p) \in Labels
    BY Labelled, Places
  <2>2. pc' = [pc EXCEPT ![p] = After(p), ![q] = start]
    BY DEF Activate
  <2> HIDE DEF start
  <2> QED BY <1>1, <2>1, <2>2 DEF TypeOK
<1>3. loc' \in [Procs -> Locals]
  <2>1. bound \in Locals
    BY Blanks DEF TypeOK, Locals
  <2>2. loc' = [loc EXCEPT ![p] = Left(p), ![q] = bound]
    BY DEF Activate
  <2> HIDE DEF bound
  <2> QED BY <1>1, <2>1, <2>2, Leaves DEF TypeOK
<1>4. /\ active' \in BOOLEAN /\ pauseOwner' \in {"none", "user", "compaction"}
      /\ terminalEmitted' \in BOOLEAN /\ forceTerminated' \in BOOLEAN
      /\ current' \in Runs \cup {None}
      /\ userPause' \in {"none", "standing", "consumed"}
  BY DEF Activate
<1>5. UNCHANGED <<pausing, lifeVars, compactVars, orchVars, storeVars, wait, fate, told>>
  BY DEF Activate
<1> QED
  BY <1>2, <1>3, <1>4, <1>5 DEF TypeOK, lifeVars, compactVars, orchVars, storeVars

(* The launch paths, whoever takes them.                                    *)
LEMMA LaunchTypes ==
  ASSUME TypeOK, NEW p \in Procs, LaunchStep(p) PROVE TypeOK'
<1>1. CASE SendGate(p)
  <2>1. CASE Refuse(p)
    BY <2>1, RefuseTypes
  <2>2. CASE RefuseCompacting(p)
    BY <2>2, RequeueTypes
  <2>3. CASE /\ queue' = queue \cup loc[p].text
             /\ loc' = [loc EXCEPT ![p] = Left(p)]
             /\ Goto(p, After(p))
             /\ Mark(loc[p].text, IF ReportedCancelled THEN "late" ELSE "pending")
             /\ UNCHANGED <<runVars, lifeVars, compactVars, inFlight, pause, armed,
                            storeVars, wait, told, userPause, stale>>
    <3>1. pc' \in [Procs -> Labels]
      BY <2>3, Places, Moves
    <3>2. loc' \in [Procs -> Locals]
      BY <2>3, Leaves DEF TypeOK
    <3>3. fate' \in [Msgs -> Fates]
      <4>1. (IF ReportedCancelled THEN "late" ELSE "pending") \in Fates
        BY DEF Fates
      <4> QED BY <2>3, <4>1, Marks
    <3>4. queue' \in SUBSET Msgs
      BY <2>3 DEF TypeOK, Locals
    <3> QED
      BY <2>3, <3>1, <3>2, <3>3, <3>4
         DEF TypeOK, runVars, lifeVars, compactVars, storeVars
  <2>4. CASE /\ Goto(p, "route")
             /\ UNCHANGED <<runVars, lifeVars, compactVars, orchVars, storeVars, loc,
                            wait, ghostVars>>
    <3>1. pc' \in [Procs -> Labels]
      BY <2>4, Labelled, Moves
    <3> QED
      BY <2>4, <3>1
         DEF TypeOK, runVars, lifeVars, compactVars, orchVars, storeVars, ghostVars
  <2> QED BY <1>1, <2>1, <2>2, <2>3, <2>4 DEF SendGate
<1>2. CASE SendRoute(p)
  <2>1. pc' \in [Procs -> Labels]
    <3>1. (IF ~loc[p].goal /\ HasPausedUnfinished THEN "lookup" ELSE "activate") \in Labels
      BY Labelled
    <3> QED BY <1>2, <3>1, Moves DEF SendRoute
  <2>2. UNCHANGED <<runVars, lifeVars, compactVars, orchVars, storeVars, loc, wait,
                    ghostVars>>
    BY <1>2 DEF SendRoute
  <2> QED
    BY <2>1, <2>2
       DEF TypeOK, runVars, lifeVars, compactVars, orchVars, storeVars, ghostVars
<1>3. CASE SendActivate(p)
  <2>1. CASE RefuseCompacting(p)
    BY <2>1, RequeueTypes
  <2>2. ASSUME NEW q \in Runs, Activate(p, q, "msg", NoTask),
               stale' = (stale \/ active \/ deleting \/ archived \/ ~present \/ shuttingDown)
        PROVE  TypeOK'
    <3>1. stale' \in BOOLEAN
      BY <2>2, Zenon DEF TypeOK
    <3> QED BY <2>2, <3>1, ActivateTypes, TasksAssumption DEF NoTask
  <2> QED BY <1>3, <2>1, <2>2 DEF SendActivate
<1>4. CASE ResumeLookup(p)
  <2>1. CASE Refuse(p)
    BY <2>1, RefuseTypes
  <2>2. CASE /\ Goto(p, After(p))
             /\ loc' = [loc EXCEPT ![p] = Left(p)]
             /\ Mark(loc[p].text, "swallowed")
             /\ UNCHANGED <<runVars, lifeVars, compactVars, orchVars, storeVars, wait,
                            told, userPause, stale>>
    <3>1. pc' \in [Procs -> Labels]
      BY <2>2, Places, Moves
    <3>2. loc' \in [Procs -> Locals]
      BY <2>2, Leaves DEF TypeOK
    <3>3. fate' \in [Msgs -> Fates]
      BY <2>2, Marks DEF Fates
    <3> QED
      BY <2>2, <3>1, <3>2, <3>3
         DEF TypeOK, runVars, lifeVars, compactVars, orchVars, storeVars
  <2>3. CASE /\ Unfinished # NoTask
             /\ Goto(p, "resume")
             /\ loc' = [loc EXCEPT ![p].tid = Unfinished, ![p].goal = goal[Unfinished]]
             /\ UNCHANGED <<runVars, lifeVars, compactVars, orchVars, storeVars, wait,
                            ghostVars>>
    <3>1. pc' \in [Procs -> Labels]
      BY <2>3, Labelled, Moves
    <3>2. loc' \in [Procs -> Locals]
      BY <2>3, FoundTask DEF TypeOK
    <3> QED
      BY <2>3, <3>1, <3>2
         DEF TypeOK, runVars, lifeVars, compactVars, orchVars, storeVars, ghostVars
  <2> QED BY <1>4, <2>1, <2>2, <2>3 DEF ResumeLookup
<1>5. CASE ResumeActivate(p)
  <2>1. CASE Refuse(p)
    BY <2>1, RefuseTypes
  <2>2. CASE RefuseCompacting(p)
    BY <2>2, RequeueTypes
  <2>3. ASSUME NEW q \in Runs, Activate(p, q, "resume", loc[p].tid), UNCHANGED stale
        PROVE  TypeOK'
    <3>1. stale' \in BOOLEAN /\ loc[p].tid \in 0 .. MaxTask
      BY <2>3 DEF TypeOK, Locals
    <3> QED BY <2>3, <3>1, ActivateTypes
  <2> QED BY <1>5, <2>1, <2>2, <2>3 DEF ResumeActivate
<1> QED BY <1>1, <1>2, <1>3, <1>4, <1>5 DEF LaunchStep

(* Cancelling a context, of the run or of the compaction, changes locals only. *)
LEMMA Cancels ==
  ASSUME TypeOK, NEW l \in [Procs -> Locals]
  PROVE  CancelRun(l) \in [Procs -> Locals] /\ CancelFlow(l) \in [Procs -> Locals]
<1>1. current # None => current \in Procs
  BY DEF TypeOK, Procs
<1>2. compactFlow # None => compactFlow \in Procs
  BY DEF TypeOK, Procs
<1> QED BY <1>1, <1>2, Edits DEF CancelRun, CancelFlow

(* Raising the pause signal moves its goroutine and changes nothing else.    *)
LEMMA Raises ==
  ASSUME TypeOK, RaisePause, pc' \in [Procs -> Labels] PROVE TypeOK'
<1>1. pause' \in {"none", "clear", "set"}
  BY DEF RaisePause
<1>2. UNCHANGED <<runVars, lifeVars, compactVars, inFlight, queue, armed, storeVars,
                  loc, wait, ghostVars>>
  BY DEF RaisePause
<1> QED
  BY <1>1, <1>2 DEF TypeOK, runVars, lifeVars, compactVars, storeVars, ghostVars

(* A run's locals with the outcome of its engine.                           *)
LEMMA Outcomes ==
  ASSUME NEW l \in Locals, NEW out \in Results
  PROVE  [l EXCEPT !.res = out, !.stopped = l.ctx] \in Locals
  BY DEF Locals

LEMMA Anchors == ASSUME TypeOK, NEW r \in Runs PROVE Anchor(r) \in 0 .. MaxTask
  BY TasksAssumption DEF TypeOK, Anchor, NoTask

(* The calls: what opens one, and what it does next.                        *)
LEMMA BeginTypes ==
  ASSUME TypeOK, NEW c \in Calls, Begin(c) PROVE TypeOK'
<1> USE DEF Procs
<1>0. c \in Procs /\ Blank \in Locals
  BY Blanks
<1>1. ASSUME NEW m \in Msgs, NEW g \in BOOLEAN, SendCall(c, m, g) PROVE TypeOK'
  <2>1. pc' \in [Procs -> Labels]
    BY <1>0, <1>1, Labelled, Moves DEF SendCall
  <2>2. loc' \in [Procs -> Locals]
    <3> DEFINE sent == [loc[c] EXCEPT !.text = {m}, !.goal = g]
    <3>1. sent \in Locals
      BY <1>0, <1>1 DEF TypeOK, Locals
    <3>2. loc' = [loc EXCEPT ![c] = sent]
      BY <1>1 DEF SendCall
    <3> HIDE DEF sent
    <3> QED BY <1>0, <3>1, <3>2 DEF TypeOK
  <2>3. fate' \in [Msgs -> Fates]
    BY <1>1, Marks DEF SendCall, Fates
  <2>4. UNCHANGED <<runVars, lifeVars, compactVars, orchVars, storeVars, wait, told,
                    userPause, stale>>
    BY <1>1 DEF SendCall
  <2> QED
    BY <2>1, <2>2, <2>3, <2>4
       DEF TypeOK, runVars, lifeVars, compactVars, orchVars, storeVars
<1>2. CASE ResumeCall(c)
  <2>1. pc' \in [Procs -> Labels]
    BY <1>0, <1>2, Labelled, Moves DEF ResumeCall
  <2>2. UNCHANGED <<runVars, lifeVars, compactVars, orchVars, storeVars, loc, wait,
                    ghostVars>>
    BY <1>2 DEF ResumeCall
  <2> QED
    BY <2>1, <2>2
       DEF TypeOK, runVars, lifeVars, compactVars, orchVars, storeVars, ghostVars
<1>3. CASE StopCall(c)
  <2>1. pc' \in [Procs -> Labels]
    BY <1>0, <1>3, Labelled, Moves DEF StopCall, Over
  <2>2. loc' \in [Procs -> Locals]
    <3>1. CASE loc' = loc
      BY <3>1 DEF TypeOK
    <3>2. CASE current # None /\ loc' = CancelContext(current)
      BY <3>2, Edits DEF TypeOK, CancelContext
    <3>3. CASE Over(c)
      BY <3>3, <1>0 DEF TypeOK, Over
    <3> QED BY <1>3, <3>1, <3>2, <3>3 DEF StopCall
  <2>3. wait' \in [Calls \cup Flows -> Runs \cup {None}]
    BY <1>3 DEF StopCall, TypeOK
  <2>4. UNCHANGED <<runVars, lifeVars, compactVars, orchVars, storeVars, ghostVars>>
    BY <1>3 DEF StopCall
  <2> QED
    BY <2>1, <2>2, <2>3, <2>4
       DEF TypeOK, runVars, lifeVars, compactVars, orchVars, storeVars, ghostVars
<1>4. CASE PauseCall(c)
  <2>1. pc' \in [Procs -> Labels]
    BY <1>0, <1>4, Labelled, Moves DEF PauseCall
  <2>2. pausing' \in BOOLEAN
    BY <1>4, Zenon DEF PauseCall, TypeOK
  <2>3. /\ pauseOwner' \in {"none", "user", "compaction"}
        /\ userPause' \in {"none", "standing", "consumed"}
    BY <1>4 DEF PauseCall, TypeOK
  <2>4. UNCHANGED <<active, terminalEmitted, forceTerminated, current, lifeVars,
                    compactVars, orchVars, storeVars, loc, wait, fate, told, stale>>
    BY <1>4 DEF PauseCall
  <2> QED
    BY <2>1, <2>2, <2>3, <2>4 DEF TypeOK, lifeVars, compactVars, orchVars, storeVars
<1>5. CASE CompactCall(c)
  <2>1. PICK f \in Flows :
          /\ compactFlow' = f
          /\ pc' = [pc EXCEPT ![c] = "done", ![f] = IF active THEN "csignal" ELSE "swap"]
          /\ loc' = [loc EXCEPT ![f] = [Blank EXCEPT !.flag = active]]
          /\ wait' = [wait EXCEPT ![f] = IF active THEN current ELSE None]
    BY <1>5 DEF CompactCall
  <2>2. pc' \in [Procs -> Labels]
    <3>1. "done" \in Labels /\ (IF active THEN "csignal" ELSE "swap") \in Labels
      BY Labelled
    <3> QED BY <2>1, <3>1 DEF TypeOK
  <2>3. loc' \in [Procs -> Locals]
    <3>1. [Blank EXCEPT !.flag = active] \in Locals
      BY Edits, <1>0 DEF TypeOK
    <3> QED BY <2>1, <3>1 DEF TypeOK
  <2>4. wait' \in [Calls \cup Flows -> Runs \cup {None}]
    BY <2>1 DEF TypeOK
  <2>5. pausing' \in BOOLEAN
    BY <1>5, Zenon DEF CompactCall, TypeOK
  <2>6. /\ compacting' \in BOOLEAN /\ compactFlow' \in Flows \cup {None}
        /\ pauseOwner' \in {"none", "user", "compaction"}
    BY <1>5, <2>1 DEF CompactCall, OwnerArmed, TypeOK
  <2>7. UNCHANGED <<active, terminalEmitted, forceTerminated, current, lifeVars,
                    orchVars, storeVars, ghostVars>>
    BY <1>5 DEF CompactCall
  <2> QED
    BY <2>2, <2>3, <2>4, <2>5, <2>6, <2>7
       DEF TypeOK, lifeVars, orchVars, storeVars, ghostVars
<1>6. CASE CancelCompactCall(c)
  <2>1. pc' \in [Procs -> Labels]
    BY <1>0, <1>6, Labelled, Moves DEF CancelCompactCall
  <2>2. loc' \in [Procs -> Locals]
    BY <1>6, Cancels DEF CancelCompactCall, TypeOK
  <2>3. UNCHANGED <<runVars, lifeVars, compactVars, orchVars, storeVars, wait, ghostVars>>
    BY <1>6 DEF CancelCompactCall
  <2> QED
    BY <2>1, <2>2, <2>3
       DEF TypeOK, runVars, lifeVars, compactVars, orchVars, storeVars, ghostVars
<1>7. CASE ArchiveCall(c)
  <2>1. pc' \in [Procs -> Labels]
    <3>1. (IF archived THEN "setArchived" ELSE "settleStop") \in Labels
      BY Labelled
    <3> QED BY <1>0, <1>7, <3>1, Moves DEF ArchiveCall
  <2>2. loc' \in [Procs -> Locals]
    <3> DEFINE was == IF archived THEN loc ELSE CancelRun(loc)
    <3>1. was \in [Procs -> Locals]
      BY Cancels DEF TypeOK
    <3>2. loc' = [was EXCEPT ![c] = [was[c] EXCEPT !.flag = ~archived]]
      BY <1>7 DEF ArchiveCall
    <3> HIDE DEF was
    <3>3. (~archived) \in BOOLEAN
      OBVIOUS
    <3>4. [was[c] EXCEPT !.flag = ~archived] \in Locals
      BY <1>0, <3>1, <3>3, Edits
    <3> QED BY <1>0, <3>1, <3>2, <3>4
  <2>3. UNCHANGED <<runVars, lifeVars, compactVars, orchVars, storeVars, wait, ghostVars>>
    BY <1>7 DEF ArchiveCall
  <2> QED
    BY <2>1, <2>2, <2>3
       DEF TypeOK, runVars, lifeVars, compactVars, orchVars, storeVars, ghostVars
<1>8. CASE DeleteCall(c)
  <2>1. pc' \in [Procs -> Labels]
    BY <1>0, <1>8, Labelled, Moves DEF DeleteCall
  <2>2. loc' \in [Procs -> Locals]
    BY <1>8, Cancels DEF DeleteCall, TypeOK
  <2>3. deleting' \in BOOLEAN
    BY <1>8 DEF DeleteCall
  <2>4. UNCHANGED <<runVars, archived, present, shuttingDown, compactVars, orchVars,
                    storeVars, wait, ghostVars>>
    BY <1>8 DEF DeleteCall
  <2> QED
    BY <2>1, <2>2, <2>3, <2>4
       DEF TypeOK, runVars, compactVars, orchVars, storeVars, ghostVars
<1>9. CASE ShutdownCall(c)
  <2>1. pc' \in [Procs -> Labels]
    BY <1>0, <1>9, Labelled, Moves DEF ShutdownCall
  <2>2. shuttingDown' \in BOOLEAN
    BY <1>9 DEF ShutdownCall
  <2>3. UNCHANGED <<runVars, archived, deleting, present, compactVars, orchVars,
                    storeVars, loc, wait, ghostVars>>
    BY <1>9 DEF ShutdownCall
  <2> QED
    BY <2>1, <2>2, <2>3
       DEF TypeOK, runVars, compactVars, orchVars, storeVars, ghostVars
<1> QED
  BY <1>1, <1>2, <1>3, <1>4, <1>5, <1>6, <1>7, <1>8, <1>9 DEF Begin

LEMMA CallTypes ==
  ASSUME TypeOK, NEW c \in Calls, CallStep(c) PROVE TypeOK'
<1> USE DEF Procs
<1>0. c \in Procs /\ Blank \in Locals
  BY Blanks
<1>1. ASSUME Over(c) PROVE pc' \in [Procs -> Labels] /\ loc' \in [Procs -> Locals]
  BY <1>0, <1>1, Labelled, Moves DEF Over, TypeOK
<1>2. ASSUME DiscardUnfinished PROVE armed' \in BOOLEAN /\ row' \in [Tasks -> Statuses]
  <2>1. armed' \in BOOLEAN
    BY <1>2, Zenon DEF DiscardUnfinished, TypeOK
  <2>2. "cancelled" \in Statuses
    BY DEF Statuses
  <2> QED BY <1>2, <2>1, <2>2, Puts DEF DiscardUnfinished
<1>3. CASE LaunchStep(c)
  BY <1>0, <1>3, LaunchTypes
<1>4. CASE StopDiscard(c)
  <2>1. UNCHANGED <<runVars, lifeVars, compactVars, inFlight, pause, queue, goal,
                    lastTask, wait, ghostVars>>
    BY <1>4 DEF StopDiscard
  <2> QED
    BY <1>1, <1>2, <1>4, <2>1
       DEF StopDiscard, TypeOK, runVars, lifeVars, compactVars, ghostVars
<1>5. CASE StopReturn(c)
  <2>1. UNCHANGED <<runVars, lifeVars, compactVars, orchVars, storeVars, wait, ghostVars>>
    BY <1>5 DEF StopReturn
  <2> QED
    BY <1>1, <1>5, <2>1
       DEF StopReturn, TypeOK, runVars, lifeVars, compactVars, orchVars, storeVars,
           ghostVars
<1>6. CASE StopTimeout(c)
  <2>1. pc' \in [Procs -> Labels]
    BY <1>0, <1>6, Labelled, Moves DEF StopTimeout
  <2>2. UNCHANGED <<runVars, lifeVars, compactVars, orchVars, storeVars, loc, wait,
                    ghostVars>>
    BY <1>6 DEF StopTimeout
  <2> QED
    BY <2>1, <2>2
       DEF TypeOK, runVars, lifeVars, compactVars, orchVars, storeVars, ghostVars
<1>7. CASE StopClaim(c)
  <2>1. pc' \in [Procs -> Labels] /\ loc' \in [Procs -> Locals]
    <3>1. CASE Over(c)
      BY <1>1, <3>1
    <3>2. CASE Goto(c, "force") /\ UNCHANGED loc
      BY <1>0, <3>2, Labelled, Moves DEF TypeOK
    <3> QED BY <1>7, <3>1, <3>2 DEF StopClaim
  <2>2. wait' \in [Calls \cup Flows -> Runs \cup {None}]
    BY <1>7 DEF StopClaim, TypeOK
  <2>3. terminalEmitted' \in BOOLEAN /\ forceTerminated' \in BOOLEAN
    <3>1. CASE UNCHANGED <<terminalEmitted, forceTerminated>>
      BY <3>1 DEF TypeOK
    <3>2. CASE /\ terminalEmitted' = (terminalEmitted \/ present)
               /\ forceTerminated' = (forceTerminated \/ present)
      BY <3>2, Zenon DEF TypeOK
    <3> QED BY <1>7, <3>1, <3>2 DEF StopClaim
  <2>4. UNCHANGED <<active, pausing, pauseOwner, current, lifeVars, compactVars,
                    orchVars, storeVars, ghostVars>>
    BY <1>7 DEF StopClaim
  <2> QED
    BY <2>1, <2>2, <2>3, <2>4
       DEF TypeOK, lifeVars, compactVars, orchVars, storeVars, ghostVars
<1>8. CASE StopForce(c)
  <2>1. goal' \in [Tasks -> BOOLEAN]
    BY <1>8, Puts DEF StopForce
  <2>2. wait' \in [Calls \cup Flows -> Runs \cup {None}]
    BY <1>8 DEF StopForce, TypeOK
  <2>3. told' \in [Runs -> Seq(Ends)]
    <3>1. CASE wait[c] = None
      BY <1>8, <3>1 DEF StopForce, TypeOK
    <3>2. CASE wait[c] # None
      <4>1. wait[c] \in Runs /\ "cancelled" \in Ends
        BY <3>2 DEF TypeOK, Ends
      <4> QED BY <1>8, <3>2, <4>1, Tells DEF StopForce
    <3> QED BY <3>1, <3>2
  <2>4. UNCHANGED <<runVars, lifeVars, compactVars, inFlight, pause, queue, lastTask,
                    fate, userPause, stale>>
    BY <1>8 DEF StopForce
  <2>5. Over(c) /\ DiscardUnfinished
    BY <1>8 DEF StopForce
  <2> QED
    BY <1>1, <1>2, <2>1, <2>2, <2>3, <2>4, <2>5
       DEF TypeOK, runVars, lifeVars, compactVars
<1>9. CASE PauseSignal(c)
  <2>1. pc' \in [Procs -> Labels]
    BY <1>0, <1>9, Labelled, Moves DEF PauseSignal
  <2>2. RaisePause
    BY <1>9 DEF PauseSignal
  <2> QED BY <2>1, <2>2, Raises
<1>10. CASE ArchiveDiscard(c)
  <2>1. pc' \in [Procs -> Labels]
    BY <1>0, <1>10, Labelled, Moves DEF ArchiveDiscard
  <2>2. UNCHANGED <<runVars, lifeVars, compactVars, inFlight, pause, queue, goal,
                    lastTask, loc, wait, ghostVars>>
    BY <1>10 DEF ArchiveDiscard
  <2> QED
    BY <1>2, <1>10, <2>1, <2>2
       DEF ArchiveDiscard, TypeOK, runVars, lifeVars, compactVars, ghostVars
<1>11. CASE ArchiveSet(c)
  <2>1. archived' \in BOOLEAN
    BY <1>0, <1>11 DEF ArchiveSet, TypeOK, Locals
  <2>2. UNCHANGED <<runVars, deleting, present, shuttingDown, compactVars, orchVars,
                    storeVars, wait, ghostVars>>
    BY <1>11 DEF ArchiveSet
  <2> QED
    BY <1>1, <1>11, <2>1, <2>2
       DEF ArchiveSet, TypeOK, runVars, compactVars, orchVars, storeVars, ghostVars
<1>12. CASE DeleteRemove(c)
  <2>1. pc' \in [Procs -> Labels]
    BY <1>0, <1>12, Labelled, Moves DEF DeleteRemove
  <2>2. present' \in BOOLEAN
    BY <1>12 DEF DeleteRemove
  <2>3. UNCHANGED <<runVars, archived, deleting, shuttingDown, compactVars, orchVars,
                    storeVars, loc, wait, ghostVars>>
    BY <1>12 DEF DeleteRemove
  <2> QED
    BY <2>1, <2>2, <2>3
       DEF TypeOK, runVars, compactVars, orchVars, storeVars, ghostVars
<1>13. CASE ShutdownCollect(c)
  <2>1. pc' \in [Procs -> Labels]
    BY <1>0, <1>13, Labelled, Moves DEF ShutdownCollect
  <2>2. loc' \in [Procs -> Locals]
    <3> DEFINE was == CancelFlow(CancelRun(loc))
               running == active /\ current # None
    <3>1. was \in [Procs -> Locals] /\ running \in BOOLEAN
      BY Cancels DEF TypeOK
    <3>2. CASE present
      <4>1. loc' = [was EXCEPT ![c] = [was[c] EXCEPT !.flag = running]]
        BY <1>13, <3>2 DEF ShutdownCollect
      <4> HIDE DEF was, running
      <4> QED BY <1>0, <3>1, <4>1, Edits
    <3>3. CASE ~present
      BY <1>13, <3>3 DEF ShutdownCollect, TypeOK
    <3> QED BY <3>2, <3>3
  <2>3. present' \in BOOLEAN
    BY <1>13 DEF ShutdownCollect
  <2>4. UNCHANGED <<runVars, archived, deleting, shuttingDown, compactVars, orchVars,
                    storeVars, wait, ghostVars>>
    BY <1>13 DEF ShutdownCollect
  <2> QED
    BY <2>1, <2>2, <2>3, <2>4
       DEF TypeOK, runVars, compactVars, orchVars, storeVars, ghostVars
<1>14. CASE ShutdownCheckpoint(c)
  <2>1. row' \in [Tasks -> Statuses]
    BY <1>14, Puts DEF ShutdownCheckpoint, TypeOK, Statuses
  <2>2. UNCHANGED <<runVars, lifeVars, compactVars, orchVars, goal, lastTask, wait,
                    ghostVars>>
    BY <1>14 DEF ShutdownCheckpoint
  <2> QED
    BY <1>1, <1>14, <2>1, <2>2
       DEF ShutdownCheckpoint, TypeOK, runVars, lifeVars, compactVars, orchVars, ghostVars
<1> QED
  BY <1>3, <1>4, <1>5, <1>6, <1>7, <1>8, <1>9, <1>10, <1>11, <1>12, <1>13, <1>14
     DEF CallStep

(* The steps of a run, the engine's return included.                        *)
LEMMA RunTypes ==
  ASSUME TypeOK, NEW r \in Runs, RunStep(r) \/ EngineReturn(r) PROVE TypeOK'
<1> USE DEF Procs
<1>0. r \in Procs /\ Blank \in Locals /\ loc[r] \in Locals
  BY Blanks DEF TypeOK
<1>1. CASE RunReactivate(r)
  <2>1. pc' \in [Procs -> Labels]
    BY <1>0, <1>1, Labelled, Moves DEF RunReactivate
  <2>2. row' \in [Tasks -> Statuses]
    BY <1>1, Puts DEF RunReactivate, Statuses
  <2>3. UNCHANGED <<runVars, lifeVars, compactVars, orchVars, goal, lastTask, loc, wait,
                    ghostVars>>
    BY <1>1 DEF RunReactivate
  <2> QED
    BY <2>1, <2>2, <2>3 DEF TypeOK, runVars, lifeVars, compactVars, orchVars, ghostVars
<1>2. CASE RunTakeover(r)
  <2>1. pc' \in [Procs -> Labels]
    BY <1>0, <1>2, Labelled, Moves DEF RunTakeover
  <2>2. row' \in [Tasks -> Statuses]
    BY <1>2, Puts DEF RunTakeover, Statuses
  <2>3. armed' \in BOOLEAN
    BY <1>2, Zenon DEF RunTakeover, TypeOK
  <2>4. UNCHANGED <<runVars, lifeVars, compactVars, inFlight, pause, queue, goal,
                    lastTask, loc, wait, ghostVars>>
    BY <1>2 DEF RunTakeover
  <2> QED
    BY <2>1, <2>2, <2>3, <2>4 DEF TypeOK, runVars, lifeVars, compactVars, ghostVars
<1>3. CASE RunContinue(r)
  <2>1. pc' \in [Procs -> Labels] /\ loc' \in [Procs -> Locals]
    <3>1. CASE Goto(r, "enter") /\ UNCHANGED loc
      BY <1>0, <3>1, Labelled, Moves DEF TypeOK
    <3>2. CASE /\ Unfinished # NoTask
               /\ Goto(r, "enterResume")
               /\ loc' = [loc EXCEPT ![r].tid = Unfinished,
                                     ![r].goal = goal[Unfinished], ![r].via = "cont"]
      <4>1. pc' \in [Procs -> Labels]
        BY <1>0, <3>2, Labelled, Moves
      <4> QED BY <1>0, <3>2, <4>1, FoundTask DEF TypeOK
    <3> QED BY <1>3, <3>1, <3>2 DEF RunContinue
  <2>2. UNCHANGED <<runVars, lifeVars, compactVars, orchVars, storeVars, wait, ghostVars>>
    BY <1>3 DEF RunContinue
  <2> QED
    BY <2>1, <2>2
       DEF TypeOK, runVars, lifeVars, compactVars, orchVars, storeVars, ghostVars
<1>4. CASE HandleCommit(r)
  <2> DEFINE t == IF Anchor(r) = NoTask THEN NextRow ELSE Anchor(r)
             known == Anchor(r) # NoTask /\ Unfinished = Anchor(r)
             run == [loc[r] EXCEPT !.tid = t, !.anchor = Anchor(r), !.flag = known,
                                   !.text = {}]
  <2>1. pc' \in [Procs -> Labels]
    BY <1>0, <1>4, Labelled, Moves DEF HandleCommit
  <2>2. loc' \in [Procs -> Locals]
    <3>1. t \in 0 .. MaxTask /\ Anchor(r) \in 0 .. MaxTask
      BY Lookups, Anchors
    <3>2. known \in BOOLEAN
      OBVIOUS
    <3>3. run \in Locals
      <4> HIDE DEF t, known
      <4> QED BY <1>0, <3>1, <3>2 DEF Locals
    <3>4. loc' = [loc EXCEPT ![r] = run]
      BY <1>4 DEF HandleCommit
    <3> HIDE DEF run
    <3> QED BY <1>0, <3>3, <3>4 DEF TypeOK
  <2>3. row' \in [Tasks -> Statuses] /\ goal' \in [Tasks -> BOOLEAN]
    BY <1>4, Puts DEF HandleCommit, Statuses, TypeOK
  <2>4. fate' \in [Msgs -> Fates]
    BY <1>4, Marks DEF HandleCommit, Fates
  <2>5. inFlight' \in BOOLEAN /\ pause' \in {"none", "clear", "set"}
    BY <1>4 DEF HandleCommit
  <2>6. UNCHANGED <<runVars, lifeVars, compactVars, queue, armed, lastTask, wait, told,
                    userPause, stale>>
    BY <1>4 DEF HandleCommit
  <2> QED
    BY <2>1, <2>2, <2>3, <2>4, <2>5, <2>6
       DEF TypeOK, runVars, lifeVars, compactVars
<1>5. CASE HandleFail(r)
  <2> DEFINE fresh == Anchor(r) = NoTask /\ ~inFlight
             t == IF fresh THEN NextRow ELSE Anchor(r)
             known == Anchor(r) # NoTask /\ Unfinished = Anchor(r)
  <2>1. pc' \in [Procs -> Labels]
    BY <1>0, <1>5, Labelled, Moves DEF HandleFail
  <2>2. PICK out \in Failures :
          /\ row' = IF fresh THEN Put(row, t, "in_progress") ELSE row
          /\ loc' = [loc EXCEPT ![r].tid = t, ![r].anchor = Anchor(r), ![r].flag = known,
                                ![r].res = out, ![r].stopped = loc[r].ctx]
    BY <1>5 DEF HandleFail
  <2>3. loc' \in [Procs -> Locals]
    <3> DEFINE run == [loc[r] EXCEPT !.tid = t, !.anchor = Anchor(r), !.flag = known,
                                     !.res = out, !.stopped = loc[r].ctx]
    <3>1. t \in 0 .. MaxTask /\ Anchor(r) \in 0 .. MaxTask
      BY Lookups, Anchors
    <3>2. known \in BOOLEAN /\ out \in Results
      BY DEF Results
    <3>3. run \in Locals
      <4> HIDE DEF t, known
      <4> QED BY <1>0, <3>1, <3>2 DEF Locals
    <3>4. loc' = [loc EXCEPT ![r] = run]
      BY <2>2
    <3> HIDE DEF run
    <3> QED BY <1>0, <3>3, <3>4 DEF TypeOK
  <2>4. row' \in [Tasks -> Statuses]
    <3> HIDE DEF fresh, t
    <3> QED BY <2>2, Puts DEF Statuses, TypeOK
  <2>5. pause' \in {"none", "clear", "set"}
    BY <1>5 DEF HandleFail, TypeOK
  <2>6. UNCHANGED <<runVars, lifeVars, compactVars, inFlight, queue, armed, goal,
                    lastTask, wait, ghostVars>>
    BY <1>5 DEF HandleFail
  <2> QED
    BY <2>1, <2>3, <2>4, <2>5, <2>6
       DEF TypeOK, runVars, lifeVars, compactVars, ghostVars
<1>6. CASE ResumeEnter(r)
  <2>1. pc' \in [Procs -> Labels]
    BY <1>0, <1>6, Labelled, Moves DEF ResumeEnter
  <2>2. loc' \in [Procs -> Locals]
    BY <1>0, <1>6, Edits DEF ResumeEnter, TypeOK
  <2>3. fate' \in [Msgs -> Fates]
    BY <1>6, Marks DEF ResumeEnter, Fates
  <2>4. pause' \in {"none", "clear", "set"} /\ armed' \in BOOLEAN
    BY <1>6 DEF ResumeEnter
  <2>5. UNCHANGED <<runVars, lifeVars, compactVars, inFlight, queue, storeVars, wait,
                    told, userPause, stale>>
    BY <1>6 DEF ResumeEnter
  <2> QED
    BY <2>1, <2>2, <2>3, <2>4, <2>5 DEF TypeOK, runVars, lifeVars, compactVars, storeVars
<1>7. CASE ResumeFail(r)
  <2>1. pc' \in [Procs -> Labels]
    BY <1>0, <1>7, Labelled, Moves DEF ResumeFail
  <2>2. loc' \in [Procs -> Locals]
    BY <1>0, <1>7, Outcomes DEF ResumeFail, TypeOK, Results, Failures
  <2>3. UNCHANGED <<runVars, lifeVars, compactVars, orchVars, storeVars, wait, ghostVars>>
    BY <1>7 DEF ResumeFail
  <2> QED
    BY <2>1, <2>2, <2>3
       DEF TypeOK, runVars, lifeVars, compactVars, orchVars, storeVars, ghostVars
<1>8. CASE Deliver(r)
  <2>1. queue' \in SUBSET Msgs
    BY <1>8 DEF Deliver, TypeOK
  <2>2. fate' \in [Msgs -> Fates]
    BY <1>8, Marks DEF Deliver, Fates
  <2>3. UNCHANGED <<runVars, lifeVars, compactVars, inFlight, pause, armed, storeVars,
                    procVars, told, userPause, stale>>
    BY <1>8 DEF Deliver
  <2> QED
    BY <2>1, <2>2, <2>3 DEF TypeOK, runVars, lifeVars, compactVars, storeVars, procVars
<1>9. CASE JudgeRetry(r)
  <2>1. pc' \in [Procs -> Labels]
    BY <1>0, <1>9, Labelled, Moves DEF JudgeRetry
  <2>2. lastTask' \in 0 .. MaxTask
    BY <1>9, TasksAssumption DEF JudgeRetry, NoTask
  <2>3. UNCHANGED <<runVars, lifeVars, compactVars, orchVars, row, goal, loc, wait,
                    ghostVars>>
    BY <1>9 DEF JudgeRetry
  <2> QED
    BY <2>1, <2>2, <2>3 DEF TypeOK, runVars, lifeVars, compactVars, orchVars, ghostVars
<1>10. AnchorAfter(r) \in 0 .. MaxTask
  BY <1>0 DEF AnchorAfter, TypeOK, Locals
<1>11. CASE JudgeCancelled(r)
  <2>1. pc' \in [Procs -> Labels] /\ loc' \in [Procs -> Locals]
    <3>1. CASE Goto(r, "keep") /\ loc' = [loc EXCEPT ![r].res = "aborted"]
      <4>1. pc' \in [Procs -> Labels]
        BY <1>0, <3>1, Labelled, Moves
      <4> QED BY <1>0, <3>1, <4>1, Edits DEF TypeOK, Results
    <3>2. CASE Goto(r, "settle") /\ UNCHANGED loc
      BY <1>0, <3>2, Labelled, Moves DEF TypeOK
    <3> QED BY <1>11, <3>1, <3>2 DEF JudgeCancelled
  <2>2. terminalEmitted' \in BOOLEAN
    <3>1. CASE UNCHANGED terminalEmitted
      BY <3>1 DEF TypeOK
    <3>2. CASE terminalEmitted' = (terminalEmitted \/ present)
      BY <3>2, Zenon DEF TypeOK
    <3> QED BY <1>11, <3>1, <3>2 DEF JudgeCancelled
  <2>3. told' \in [Runs -> Seq(Ends)]
    BY <1>11, Tells DEF JudgeCancelled, TypeOK, Ends
  <2>4. lastTask' \in 0 .. MaxTask
    BY <1>10, <1>11 DEF JudgeCancelled
  <2>5. UNCHANGED <<active, pausing, pauseOwner, forceTerminated, current, lifeVars,
                    compactVars, orchVars, row, goal, wait, fate, userPause, stale>>
    BY <1>11 DEF JudgeCancelled
  <2> QED
    BY <2>1, <2>2, <2>3, <2>4, <2>5 DEF TypeOK, lifeVars, compactVars, orchVars
<1>12. CASE JudgeError(r)
  <2>1. pc' \in [Procs -> Labels]
    BY <1>0, <1>12, Labelled, Moves DEF JudgeError
  <2>2. loc' \in [Procs -> Locals]
    BY <1>0, <1>12, Edits DEF JudgeError, TypeOK
  <2>3. fate' \in [Msgs -> Fates]
    BY <1>12, Marks DEF JudgeError, Fates
  <2>4. told' \in [Runs -> Seq(Ends)]
    BY <1>12, Tells DEF JudgeError, Ends
  <2>5. UNCHANGED <<runVars, lifeVars, compactVars, orchVars, storeVars, wait,
                    userPause, stale>>
    BY <1>12 DEF JudgeError
  <2> QED
    BY <2>1, <2>2, <2>3, <2>4, <2>5
       DEF TypeOK, runVars, lifeVars, compactVars, orchVars, storeVars
<1>13. CASE JudgeDone(r)
  <2>1. pc' \in [Procs -> Labels]
    <3>1. (IF loc[r].res = "paused" THEN "keep" ELSE "release") \in Labels
      BY Labelled
    <3> QED BY <1>0, <1>13, <3>1, Moves DEF JudgeDone
  <2>2. lastTask' \in 0 .. MaxTask
    BY <1>0, <1>10, <1>13 DEF JudgeDone, Locals
  <2>3. UNCHANGED <<runVars, lifeVars, compactVars, orchVars, row, goal, loc, wait,
                    ghostVars>>
    BY <1>13 DEF JudgeDone
  <2> QED
    BY <2>1, <2>2, <2>3 DEF TypeOK, runVars, lifeVars, compactVars, orchVars, ghostVars
<1>14. CASE RunSettle(r)
  <2>1. pc' \in [Procs -> Labels]
    BY <1>0, <1>14, Labelled, Moves DEF RunSettle
  <2>2. loc' \in [Procs -> Locals]
    BY <1>0, <1>14, Edits DEF RunSettle, TypeOK
  <2>3. row' \in [Tasks -> Statuses] /\ goal' \in [Tasks -> BOOLEAN]
    BY <1>14, Puts DEF RunSettle, Statuses
  <2>4. fate' \in [Msgs -> Fates]
    BY <1>14, Marks DEF RunSettle, Fates
  <2>5. UNCHANGED <<runVars, lifeVars, compactVars, orchVars, lastTask, wait, told,
                    userPause, stale>>
    BY <1>14 DEF RunSettle
  <2> QED
    BY <2>1, <2>2, <2>3, <2>4, <2>5
       DEF TypeOK, runVars, lifeVars, compactVars, orchVars
<1>15. ASSUME Deactivate(r), pc' \in [Procs -> Labels], loc' \in [Procs -> Locals],
              queue' \in SUBSET Msgs, fate' \in [Msgs -> Fates],
              told' \in [Runs -> Seq(Ends)]
       PROVE  TypeOK'
  <2>1. /\ active' \in BOOLEAN /\ pausing' \in BOOLEAN /\ forceTerminated' \in BOOLEAN
        /\ current' \in Runs \cup {None}
    BY <1>15 DEF Deactivate
  <2>2. UNCHANGED <<pauseOwner, terminalEmitted, lifeVars, compactVars, inFlight, pause,
                    armed, storeVars, wait, userPause, stale>>
    BY <1>15 DEF Deactivate
  <2> QED
    BY <1>15, <2>1, <2>2 DEF TypeOK, lifeVars, compactVars, storeVars
<1>16. CASE ReleaseKeep(r)
  <2>1. pc' \in [Procs -> Labels]
    BY <1>0, <1>16, Labelled, Moves DEF ReleaseKeep
  <2>2. loc' \in [Procs -> Locals]
    BY <1>0, <1>16, Edits DEF ReleaseKeep, TypeOK
  <2>3. fate' \in [Msgs -> Fates]
    BY <1>16, Marks DEF ReleaseKeep, Fates
  <2>4. told' \in [Runs -> Seq(Ends)] /\ queue' \in SUBSET Msgs
    BY <1>16, Tells DEF ReleaseKeep, TypeOK, Ends
  <2> QED BY <1>15, <1>16, <2>1, <2>2, <2>3, <2>4 DEF ReleaseKeep
<1>17. CASE ReleaseDrop(r)
  <2>1. pc' \in [Procs -> Labels]
    BY <1>0, <1>17, Labelled, Moves DEF ReleaseDrop
  <2>2. fate' \in [Msgs -> Fates]
    BY <1>17, Marks DEF ReleaseDrop, Fates
  <2>3. /\ loc' \in [Procs -> Locals] /\ told' \in [Runs -> Seq(Ends)]
        /\ queue' \in SUBSET Msgs
    BY <1>17 DEF ReleaseDrop, KeptOnDrop, TypeOK
  <2> QED BY <1>15, <1>17, <2>1, <2>2, <2>3 DEF ReleaseDrop
<1>18. CASE ReleaseFollowUp(r)
  <2>1. pc' \in [Procs -> Labels]
    BY <1>0, <1>18, Labelled, Moves DEF ReleaseFollowUp
  <2>2. loc' \in [Procs -> Locals]
    <3> DEFINE run == [loc[r] EXCEPT !.text = queue, !.goal = FALSE]
    <3>1. run \in Locals
      BY <1>0 DEF TypeOK, Locals
    <3>2. loc' = [loc EXCEPT ![r] = run]
      BY <1>18 DEF ReleaseFollowUp
    <3> HIDE DEF run
    <3> QED BY <1>0, <3>1, <3>2 DEF TypeOK
  <2>3. /\ fate' \in [Msgs -> Fates] /\ told' \in [Runs -> Seq(Ends)]
        /\ queue' \in SUBSET Msgs
    BY <1>18 DEF ReleaseFollowUp, TypeOK
  <2> QED BY <1>15, <1>18, <2>1, <2>2, <2>3 DEF ReleaseFollowUp
<1>19. CASE RunComplete(r)
  <2>1. pc' \in [Procs -> Labels]
    <3>1. (IF loc[r].text = {} THEN "exit" ELSE "gate") \in Labels
      BY Labelled
    <3> QED BY <1>0, <1>19, <3>1, Moves DEF RunComplete
  <2>2. row' \in [Tasks -> Statuses]
    <3>1. [t \in Tasks |-> IF Swept(t, loc[r].tid) THEN "cancelled" ELSE row[t]]
            \in [Tasks -> Statuses]
      BY DEF TypeOK, Statuses
    <3> QED BY <1>19, <3>1 DEF RunComplete, TypeOK
  <2>3. told' \in [Runs -> Seq(Ends)]
    BY <1>19, Tells DEF RunComplete, Ends
  <2>4. UNCHANGED <<runVars, lifeVars, compactVars, orchVars, goal, lastTask, loc, wait,
                    fate, userPause, stale>>
    BY <1>19 DEF RunComplete
  <2> QED
    BY <2>1, <2>2, <2>3, <2>4 DEF TypeOK, runVars, lifeVars, compactVars, orchVars
<1>20. CASE RunExit(r)
  <2>1. pc' \in [Procs -> Labels]
    BY <1>0, <1>20, Labelled, Moves DEF RunExit
  <2>2. loc' \in [Procs -> Locals]
    BY <1>0, <1>20 DEF RunExit, TypeOK
  <2>3. wait' \in [Calls \cup Flows -> Runs \cup {None}]
    BY <1>20 DEF RunExit, TypeOK
  <2>4. told' \in [Runs -> Seq(Ends)]
    BY <1>20 DEF RunExit, TypeOK
  <2>5. UNCHANGED <<runVars, lifeVars, compactVars, orchVars, storeVars, fate,
                    userPause, stale>>
    BY <1>20 DEF RunExit
  <2> QED
    BY <2>1, <2>2, <2>3, <2>4, <2>5
       DEF TypeOK, runVars, lifeVars, compactVars, orchVars, storeVars
<1>21. CASE EngineReturn(r)
  <2>1. pc' \in [Procs -> Labels]
    BY <1>0, <1>21, Labelled, Moves DEF EngineReturn
  <2>2. PICK out \in {"success", "partial", "failed", "paused", "error"} :
          /\ row' = CASE out = "success" -> Put(row, loc[r].tid, "completed")
                      [] out = "paused" -> Put(row, loc[r].tid, "paused")
                      [] out = "partial" -> row
                      [] OTHER -> Put(row, loc[r].tid, "failed")
          /\ goal' = IF out = "success" THEN Put(goal, loc[r].tid, FALSE) ELSE goal
          /\ loc' = [loc EXCEPT ![r].res = out, ![r].stopped = loc[r].ctx]
    BY <1>21 DEF EngineReturn
  <2>3. loc' \in [Procs -> Locals]
    BY <1>0, <2>2, Outcomes DEF TypeOK, Results, Failures
  <2>4. row' \in [Tasks -> Statuses] /\ goal' \in [Tasks -> BOOLEAN]
    BY <2>2, Puts DEF TypeOK, Statuses
  <2>5. inFlight' \in BOOLEAN
    BY <1>21, Zenon DEF EngineReturn, StillInFlight, TypeOK
  <2>6. pause' \in {"none", "clear", "set"}
    BY <1>21 DEF EngineReturn
  <2>7. UNCHANGED <<runVars, lifeVars, compactVars, queue, armed, lastTask, wait,
                    ghostVars>>
    BY <1>21 DEF EngineReturn
  <2> QED
    BY <2>1, <2>3, <2>4, <2>5, <2>6, <2>7
       DEF TypeOK, runVars, lifeVars, compactVars, ghostVars
<1>22. CASE LaunchStep(r)
  BY <1>0, <1>22, LaunchTypes
<1> QED
  BY <1>1, <1>2, <1>3, <1>4, <1>5, <1>6, <1>7, <1>8, <1>9, <1>11, <1>12, <1>13, <1>14,
     <1>16, <1>17, <1>18, <1>19, <1>20, <1>21, <1>22
     DEF RunStep

(* The steps of a compaction flow.                                          *)
LEMMA FlowTypes ==
  ASSUME TypeOK, NEW f \in Flows, FlowStep(f) PROVE TypeOK'
<1> USE DEF Procs
<1>0. f \in Procs /\ Blank \in Locals /\ loc[f] \in Locals
  BY Blanks DEF TypeOK
<1>1. CASE FlowSignal(f)
  <2>1. pc' \in [Procs -> Labels]
    BY <1>0, <1>1, Labelled, Moves DEF FlowSignal
  <2>2. RaisePause
    BY <1>1 DEF FlowSignal
  <2> QED BY <2>1, <2>2, Raises
<1>2. CASE FlowAwait(f)
  <2>1. pc' \in [Procs -> Labels] /\ loc' \in [Procs -> Locals]
    <3>1. CASE Goto(f, "swap") /\ UNCHANGED loc
      BY <1>0, <3>1, Labelled, Moves DEF TypeOK
    <3>2. CASE Goto(f, "cdefer") /\ loc' = [loc EXCEPT ![f].res = "aborted"]
      <4>1. pc' \in [Procs -> Labels]
        BY <1>0, <3>2, Labelled, Moves
      <4> QED BY <1>0, <3>2, <4>1, Edits DEF TypeOK, Results
    <3> QED BY <1>2, <3>1, <3>2 DEF FlowAwait
  <2>2. UNCHANGED <<runVars, lifeVars, compactVars, orchVars, storeVars, wait, ghostVars>>
    BY <1>2 DEF FlowAwait
  <2> QED
    BY <2>1, <2>2
       DEF TypeOK, runVars, lifeVars, compactVars, orchVars, storeVars, ghostVars
<1>3. CASE FlowSwap(f)
  <2>1. pc' \in [Procs -> Labels]
    BY <1>0, <1>3, Labelled, Moves DEF FlowSwap
  <2>2. PICK out \in Results : loc' = [loc EXCEPT ![f].res = out]
    BY <1>3 DEF FlowSwap, Results, Failures
  <2>3. loc' \in [Procs -> Locals]
    BY <1>0, <2>2, Edits DEF TypeOK
  <2>4. UNCHANGED <<runVars, lifeVars, compactVars, orchVars, storeVars, wait, ghostVars>>
    BY <1>3 DEF FlowSwap
  <2> QED
    BY <2>1, <2>3, <2>4
       DEF TypeOK, runVars, lifeVars, compactVars, orchVars, storeVars, ghostVars
<1>4. CASE FlowDefer(f)
  <2>1. pc' \in [Procs -> Labels]
    BY <1>0, <1>4, Labelled, Moves DEF FlowDefer
  <2>2. armed' \in BOOLEAN
    BY <1>4, Zenon DEF FlowDefer, TypeOK
  <2>3. UNCHANGED <<runVars, lifeVars, compactVars, inFlight, pause, queue, storeVars,
                    loc, wait, ghostVars>>
    BY <1>4 DEF FlowDefer
  <2> QED
    BY <2>1, <2>2, <2>3 DEF TypeOK, runVars, lifeVars, compactVars, storeVars, ghostVars
<1>5. CASE FlowClear(f)
  <2>1. pc' \in [Procs -> Labels]
    BY <1>0, <1>5, Labelled, Moves DEF FlowClear
  <2>2. compacting' \in BOOLEAN /\ compactFlow' \in Flows \cup {None}
    BY <1>5 DEF FlowClear
  <2>3. UNCHANGED <<runVars, lifeVars, orchVars, storeVars, loc, wait, ghostVars>>
    BY <1>5 DEF FlowClear
  <2> QED
    BY <2>1, <2>2, <2>3 DEF TypeOK, runVars, lifeVars, orchVars, storeVars, ghostVars
<1>6. CASE FlowOwner(f)
  <2>1. pc' \in [Procs -> Labels] /\ loc' \in [Procs -> Locals]
    <3>1. CASE Goto(f, "lookup") /\ UNCHANGED loc
      BY <1>0, <3>1, Labelled, Moves DEF TypeOK
    <3>2. CASE Goto(f, "idle") /\ loc' = [loc EXCEPT ![f] = Blank]
      BY <1>0, <3>2, Labelled, Moves DEF TypeOK
    <3> QED BY <1>6, <3>1, <3>2 DEF FlowOwner
  <2>2. /\ pauseOwner' \in {"none", "user", "compaction"}
        /\ userPause' \in {"none", "standing", "consumed"}
    BY <1>6 DEF FlowOwner, TypeOK
  <2>3. UNCHANGED <<active, pausing, terminalEmitted, forceTerminated, current, lifeVars,
                    compactVars, orchVars, storeVars, wait, fate, told, stale>>
    BY <1>6 DEF FlowOwner
  <2> QED
    BY <2>1, <2>2, <2>3 DEF TypeOK, lifeVars, compactVars, orchVars, storeVars
<1>7. CASE LaunchStep(f)
  BY <1>0, <1>7, LaunchTypes
<1> QED BY <1>1, <1>2, <1>3, <1>4, <1>5, <1>6, <1>7 DEF FlowStep

(* The types hold in every state of every behaviour.                         *)
THEOREM Typed == Spec => []TypeOK
<1>1. Init => TypeOK
  <2> SUFFICES ASSUME Init PROVE TypeOK
    OBVIOUS
  <2>1. row \in [Tasks -> Statuses] /\ lastTask \in 0 .. MaxTask
    <3>1. CASE row = [t \in Tasks |-> "none"] /\ lastTask = NoTask
      BY <3>1, TasksAssumption DEF Statuses, NoTask
    <3>2. ASSUME NEW s \in Statuses, 1 \in Tasks, lastTask = 1,
                 row = [t \in Tasks |-> IF t = 1 THEN s ELSE "none"]
          PROVE  row \in [Tasks -> Statuses] /\ lastTask \in 0 .. MaxTask
      BY <3>2, TasksAssumption DEF Statuses, Tasks
    <3> QED BY <3>1, <3>2 DEF Init
  <2>2. pc \in [Procs -> Labels] /\ loc \in [Procs -> Locals]
    BY Labelled, Blanks DEF Init
  <2>3. fate \in [Msgs -> Fates] /\ told \in [Runs -> Seq(Ends)]
    BY DEF Init, Fates
  <2>4. wait \in [Calls \cup Flows -> Runs \cup {None}]
    BY DEF Init
  <2> QED BY <2>1, <2>2, <2>3, <2>4 DEF Init, TypeOK
<1>2. TypeOK /\ [Next]_vars => TypeOK'
  <2>1. ASSUME TypeOK, Next PROVE TypeOK'
    BY <2>1, BeginTypes, CallTypes, RunTypes, FlowTypes DEF Next
  <2>2. ASSUME TypeOK, UNCHANGED vars PROVE TypeOK'
    BY <2>2
       DEF TypeOK, vars, runVars, lifeVars, compactVars, orchVars, storeVars, procVars,
           ghostVars
  <2> QED BY <2>1, <2>2
<1> QED BY <1>1, <1>2, PTL DEF Spec

=============================================================================
