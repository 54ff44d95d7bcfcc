----------------------------- MODULE UnitsProofs -----------------------------
(***************************************************************************)
(* Proofs about a task's delegated units, for any units in any shape, any   *)
(* number of runs, crashes and quits, and any cap on parallel subagents:    *)
(* work that has succeeded stays on record and is not done again, and a     *)
(* unit starts, is relaunched and is waited for in the order of what it     *)
(* depends on, what it delegated and what the executor relies on.           *)
(***************************************************************************)
EXTENDS DelegationUnits, TLAPS

(* The types, and what an execution can have left to write.                 *)
Statuses ==
  {"none", "pending", "running", "completed", "failed", "paused", "interrupted", "cancelled"}

CallType ==
  [pc : {"free", "launch"}, pending : SUBSET Units, wave : SUBSET Units, hold : BOOLEAN]

Outs == {"ok", "error", "paused", "stopped", "gone"}

(* The writes a settling execution has left: with the board's, after it,    *)
(* and for an execution that is gone.                                       *)
OnBoard ==
  {<<"registry", "board", "ledger">>, <<"board", "ledger">>, <<"board", "ledger", "registry">>}
Left(out) ==
  CASE out = "paused" ->
         {<<"board", "ledger", "registry">>, <<"ledger", "registry">>, <<"registry">>}
    [] out = "gone" -> {<<"registry", "ledger">>, <<"ledger">>}
    [] OTHER -> {<<"registry", "board", "ledger">>, <<"board", "ledger">>, <<"ledger">>}
Todos ==
  {<<>>, <<"board", "ledger", "registry">>, <<"ledger", "registry">>, <<"registry">>,
   <<"registry", "ledger">>, <<"registry", "board", "ledger">>, <<"board", "ledger">>,
   <<"ledger">>}

WorkType ==
  [pc : {"off", "slot", "run", "settle"}, owner : Callers, async : BOOLEAN,
   out : Outs \cup {"none"}, todo : Todos]

Off(w) == w.pc = "off"
AtBoard(w) == w.pc = "settle" /\ w.todo \in OnBoard

(* The result of an execution is not on the blackboard yet, or never is.    *)
Unboarded(w) == w.pc \in {"slot", "run"} \/ AtBoard(w) \/ (w.pc = "settle" /\ w.out = "gone")

Going == phase \in {"wave", "llm"}

UnitsTypes ==
  /\ shape \in Shapes /\ run \in Runs /\ phase \in {"idle", "wave", "llm", "over"}
  /\ ctxDone \subseteq Runs /\ todo \subseteq Units /\ replay \in [Units -> Statuses]
  /\ registry \in [Callers -> [Units -> Statuses]]
  /\ call \in [Callers -> CallType]
  /\ dropped \subseteq Units
  /\ paused \in BOOLEAN /\ pausedAgain \in BOOLEAN
  /\ work \in [Runs -> [Units -> WorkType]]
  /\ ledger \in [Views -> [Units -> Statuses]]
  /\ results \in [Views -> [Units -> {"none", "ok", "error", "paused"}]]

WorkRight == \A l \in Runs, u \in Units : LET w == work[l][u] IN
  /\ l > run => Off(w)
  /\ w.pc = "settle" => w.out \in Outs /\ w.todo \in Left(w.out)
  /\ w.async => ~Redelegates(u)
  /\ w.out = "gone" => w.async

-----------------------------------------------------------------------------
LEMMA UnitShapes ==
  ASSUME shape \in Shapes
  PROVE  /\ shape \in [Units -> ShapeType]
         /\ \A u \in Units :
              /\ shape[u].depth = IF shape[u].by = Root THEN 0 ELSE shape[shape[u].by].depth + 1
              /\ \A d \in shape[u].deps : d \in Units /\ shape[d].by = shape[u].by /\ d # u
              /\ shape[u].async => ~shape[u].redelegates
              /\ shape[u].by # Root => shape[u].by \in Units
<1> USE ShapesAssumption
<1>1. shape \in [Units -> ShapeType]
  OBVIOUS
<1>2. \A u \in Units : shape[u].by \in Callers /\ shape[u].deps \subseteq Units
  BY <1>1 DEF ShapeType
<1> QED BY <1>1, <1>2 DEF Callers

(* What a settling execution has written, and what it writes next.          *)
Steps(l, u, rest) == work' = [work EXCEPT ![l][u] = [work[l][u] EXCEPT !.todo = rest]]
Ends(l, u) ==
  /\ work' = [work EXCEPT ![l][u] = NoWork]
  /\ IF work[l][u].async \/ l # run THEN UNCHANGED call
     ELSE call' = [call EXCEPT ![work[l][u].owner].wave = @ \ {u},
                               ![work[l][u].owner].hold = @ \/ work[l][u].out = "paused"]
Registers(l, u) ==
  /\ registry' = IF l = run THEN Completed(work[l][u].owner, {u}, RegistryOf(work[l][u].out))
                            ELSE registry
  /\ UNCHANGED <<results, ledger>>
BoardsIt(l, u) ==
  results' = Boarded(l, {u}, ResultOf(work[l][u].out)) /\ UNCHANGED <<registry, ledger>>
Ledgers(l, u) ==
  ledger' = Recorded(l, {u}, StatusOf(work[l][u].out)) /\ UNCHANGED <<registry, results>>

SettleCases(l, u) ==
  LET w == work[l][u] IN
  \/ /\ w.todo = <<"registry", "board", "ledger">> /\ w.out \in {"ok", "error", "stopped"}
     /\ Steps(l, u, <<"board", "ledger">>) /\ Registers(l, u) /\ UNCHANGED call
  \/ /\ w.todo = <<"registry", "ledger">> /\ w.out = "gone"
     /\ Steps(l, u, <<"ledger">>) /\ Registers(l, u) /\ UNCHANGED call
  \/ /\ w.todo = <<"registry">> /\ w.out = "paused"
     /\ Ends(l, u) /\ Registers(l, u)
  \/ /\ w.todo = <<"board", "ledger">> /\ w.out \in {"ok", "error", "stopped"}
     /\ Steps(l, u, <<"ledger">>) /\ BoardsIt(l, u) /\ UNCHANGED call
  \/ /\ w.todo = <<"board", "ledger", "registry">> /\ w.out = "paused"
     /\ Steps(l, u, <<"ledger", "registry">>) /\ BoardsIt(l, u) /\ UNCHANGED call
  \/ /\ w.todo = <<"ledger", "registry">> /\ w.out = "paused"
     /\ Steps(l, u, <<"registry">>) /\ Ledgers(l, u) /\ UNCHANGED call
  \/ /\ w.todo = <<"ledger">> /\ w.out \in Outs \ {"paused"}
     /\ Ends(l, u) /\ Ledgers(l, u)

LEMMA SettleSteps ==
  ASSUME UnitsTypes, WorkRight, NEW l \in Runs, NEW u \in Units, Settle(l, u)
  PROVE  /\ work[l][u].pc = "settle"
         /\ SettleCases(l, u)
         /\ UNCHANGED <<shape, run, phase, paused, ctxDone, quits, replay, todo, pausedAgain, dropped>>
<1> DEFINE w == work[l][u]
           next == IF Tail(w.todo) = <<>> THEN NoWork ELSE [w EXCEPT !.todo = Tail(w.todo)]
<1>1. w.pc = "settle" /\ w.out \in Outs /\ w.todo \in Left(w.out)
  BY DEF Settle, MaySettle, WorkRight
<1>2. UNCHANGED <<shape, run, phase, paused, ctxDone, quits, replay, todo, pausedAgain, dropped>>
  BY DEF Settle, runVars, waveVars
<1>3. /\ Tail(<<"registry", "board", "ledger">>) = <<"board", "ledger">>
      /\ Tail(<<"board", "ledger">>) = <<"ledger">> /\ Tail(<<"ledger">>) = <<>>
      /\ Tail(<<"board", "ledger", "registry">>) = <<"ledger", "registry">>
      /\ Tail(<<"ledger", "registry">>) = <<"registry">> /\ Tail(<<"registry">>) = <<>>
      /\ Tail(<<"registry", "ledger">>) = <<"ledger">>
  OBVIOUS
<1>4. /\ Head(<<"registry", "board", "ledger">>) = "registry" /\ Head(<<"board", "ledger">>) = "board"
      /\ Head(<<"ledger">>) = "ledger" /\ Head(<<"board", "ledger", "registry">>) = "board"
      /\ Head(<<"ledger", "registry">>) = "ledger" /\ Head(<<"registry">>) = "registry"
      /\ Head(<<"registry", "ledger">>) = "registry"
  OBVIOUS
<1>5. /\ <<"board", "ledger">> # <<>> /\ <<"ledger">> # <<>> /\ <<"ledger", "registry">> # <<>>
      /\ <<"registry">> # <<>>
  OBVIOUS
<1>6. /\ registry' = IF Head(w.todo) = "registry" /\ l = run
                        THEN Completed(w.owner, {u}, RegistryOf(w.out)) ELSE registry
      /\ results' = IF Head(w.todo) = "board" THEN Boarded(l, {u}, ResultOf(w.out)) ELSE results
      /\ ledger' = IF Head(w.todo) = "ledger" THEN Recorded(l, {u}, StatusOf(w.out)) ELSE ledger
      /\ work' = [work EXCEPT ![l][u] = next]
      /\ call' = IF Tail(w.todo) = <<>> /\ ~w.async /\ l = run
                    THEN [call EXCEPT ![w.owner].wave = @ \ {u},
                                      ![w.owner].hold = @ \/ w.out = "paused"]
                    ELSE call
  BY DEF Settle
<1>7. CASE w.todo = <<"registry", "board", "ledger">> /\ w.out \in {"ok", "error", "stopped"}
  <2>1. Head(w.todo) = "registry" /\ Tail(w.todo) = <<"board", "ledger">>
    BY <1>3, <1>4, <1>7
  <2>2. next = [w EXCEPT !.todo = <<"board", "ledger">>]
    BY <1>5, <2>1
  <2>3. Steps(l, u, <<"board", "ledger">>) /\ UNCHANGED call
    BY <1>5, <1>6, <2>1, <2>2 DEF Steps
  <2>4. Registers(l, u)
    BY <1>6, <2>1 DEF Registers
  <2> QED BY <1>1, <1>2, <1>7, <2>3, <2>4 DEF SettleCases
<1>8. CASE w.todo = <<"registry", "ledger">> /\ w.out = "gone"
  <2>1. Head(w.todo) = "registry" /\ Tail(w.todo) = <<"ledger">>
    BY <1>3, <1>4, <1>8
  <2>2. next = [w EXCEPT !.todo = <<"ledger">>]
    BY <1>5, <2>1
  <2>3. Steps(l, u, <<"ledger">>) /\ UNCHANGED call
    BY <1>5, <1>6, <2>1, <2>2 DEF Steps
  <2>4. Registers(l, u)
    BY <1>6, <2>1 DEF Registers
  <2> QED BY <1>1, <1>2, <1>8, <2>3, <2>4 DEF SettleCases
<1>9. CASE w.todo = <<"registry">> /\ w.out = "paused"
  <2>1. Head(w.todo) = "registry" /\ Tail(w.todo) = <<>>
    BY <1>3, <1>4, <1>9
  <2>2. next = NoWork
    BY <1>5, <2>1
  <2>3. Ends(l, u)
    BY <1>5, <1>6, <2>1, <2>2 DEF Ends
  <2>4. Registers(l, u)
    BY <1>6, <2>1 DEF Registers
  <2> QED BY <1>1, <1>2, <1>9, <2>3, <2>4 DEF SettleCases
<1>10. CASE w.todo = <<"board", "ledger">> /\ w.out \in {"ok", "error", "stopped"}
  <2>1. Head(w.todo) = "board" /\ Tail(w.todo) = <<"ledger">>
    BY <1>3, <1>4, <1>10
  <2>2. next = [w EXCEPT !.todo = <<"ledger">>]
    BY <1>5, <2>1
  <2>3. Steps(l, u, <<"ledger">>) /\ UNCHANGED call
    BY <1>5, <1>6, <2>1, <2>2 DEF Steps
  <2>4. BoardsIt(l, u)
    BY <1>6, <2>1 DEF BoardsIt
  <2> QED BY <1>1, <1>2, <1>10, <2>3, <2>4 DEF SettleCases
<1>11. CASE w.todo = <<"board", "ledger", "registry">> /\ w.out = "paused"
  <2>1. Head(w.todo) = "board" /\ Tail(w.todo) = <<"ledger", "registry">>
    BY <1>3, <1>4, <1>11
  <2>2. next = [w EXCEPT !.todo = <<"ledger", "registry">>]
    BY <1>5, <2>1
  <2>3. Steps(l, u, <<"ledger", "registry">>) /\ UNCHANGED call
    BY <1>5, <1>6, <2>1, <2>2 DEF Steps
  <2>4. BoardsIt(l, u)
    BY <1>6, <2>1 DEF BoardsIt
  <2> QED BY <1>1, <1>2, <1>11, <2>3, <2>4 DEF SettleCases
<1>12. CASE w.todo = <<"ledger", "registry">> /\ w.out = "paused"
  <2>1. Head(w.todo) = "ledger" /\ Tail(w.todo) = <<"registry">>
    BY <1>3, <1>4, <1>12
  <2>2. next = [w EXCEPT !.todo = <<"registry">>]
    BY <1>5, <2>1
  <2>3. Steps(l, u, <<"registry">>) /\ UNCHANGED call
    BY <1>5, <1>6, <2>1, <2>2 DEF Steps
  <2>4. Ledgers(l, u)
    BY <1>6, <2>1 DEF Ledgers
  <2> QED BY <1>1, <1>2, <1>12, <2>3, <2>4 DEF SettleCases
<1>13. CASE w.todo = <<"ledger">> /\ w.out \in Outs \ {"paused"}
  <2>1. Head(w.todo) = "ledger" /\ Tail(w.todo) = <<>>
    BY <1>3, <1>4, <1>13
  <2>2. next = NoWork
    BY <1>5, <2>1
  <2>3. Ends(l, u)
    BY <1>5, <1>6, <2>1, <2>2 DEF Ends
  <2>4. Ledgers(l, u)
    BY <1>6, <2>1 DEF Ledgers
  <2> QED BY <1>1, <1>2, <1>13, <2>3, <2>4 DEF SettleCases
<1> QED BY <1>1, <1>2, <1>7, <1>8, <1>9, <1>10, <1>11, <1>12, <1>13 DEF Left, Outs

-----------------------------------------------------------------------------
(* What the other actions do, unit by unit.                                 *)

Starting(k, broken) == {u \in Ready(k) \ broken : IsAsync(k, u) \/ ~Redelegates(u)}
InWave(k, broken) == {u \in Ready(k) \ broken : ~IsAsync(k, u)}

(* Other callers' calls, and other runs' executions.                        *)
OtherCalls(k) == \A j \in Callers \ {k} : call'[j] = call[j]
OtherWork(us) ==
  /\ \A u \in Units \ us : work'[run][u] = work[run][u]
  /\ \A l \in Runs \ {run} : work'[l] = work[l]
OtherRegistries(k) == \A j \in Callers \ {k} : registry'[j] = registry[j]

WaveLaunch(k, broken) ==
  /\ broken \subseteq Ready(k) /\ OtherCalls(k) /\ OtherWork(Starting(k, broken)) /\ OtherRegistries(k)
  /\ \A u \in Starting(k, broken) : LET w == work'[run][u] IN
       w.pc = "slot" /\ w.owner = k /\ w.async = IsAsync(k, u) /\ w.out = "none"
  /\ LET c == call'[k] IN
       /\ c.pc = "launch" /\ c.pending = call[k].pending \ Ready(k) /\ c.wave = InWave(k, broken)
       /\ c.hold = call[k].hold
  /\ \A u \in Units : registry'[k][u] =
       IF u \in broken /\ registry[k][u] # "cancelled" THEN "failed"
       ELSE IF u \in Starting(k, broken) /\ registry[k][u] = "pending" THEN "running"
       ELSE registry[k][u]
  /\ \A v \in Views, u \in Units : ledger'[v][u] =
       IF u \in broken THEN "failed" ELSE IF u \in Starting(k, broken) THEN "running" ELSE ledger[v][u]
  /\ \A u \in dropped : u \in dropped' \/ (u \in Starting(k, broken) /\ IsAsync(k, u))
  /\ dropped' \subseteq dropped

LEMMA WaveMoves ==
  ASSUME UnitsTypes, NEW k \in Callers, NextWave(k)
  PROVE  /\ call[k].pc = "launch" /\ call[k].wave = {} /\ run \notin ctxDone /\ ~call[k].hold
         /\ \E broken \in SUBSET Ready(k) : WaveLaunch(k, broken)
         /\ work' \in [Runs -> [Units -> WorkType]] /\ call' \in [Callers -> CallType]
         /\ registry' \in [Callers -> [Units -> Statuses]]
         /\ ledger' \in [Views -> [Units -> Statuses]] /\ dropped' \subseteq Units
         /\ UNCHANGED <<shape, run, phase, paused, ctxDone, quits, replay, todo, pausedAgain, results>>
<1>1. call[k].pc = "launch" /\ call[k].wave = {} /\ run \notin ctxDone /\ ~call[k].hold
  BY DEF NextWave, Launching, CallDone
<1>2. UNCHANGED <<shape, run, phase, paused, ctxDone, quits, replay, todo, pausedAgain, results>>
  BY DEF NextWave, runVars, waveVars
<1>3. /\ call \in [Callers -> CallType] /\ registry \in [Callers -> [Units -> Statuses]]
      /\ work \in [Runs -> [Units -> WorkType]] /\ ledger \in [Views -> [Units -> Statuses]]
      /\ run \in Runs /\ dropped \subseteq Units
  BY DEF UnitsTypes
<1> DEFINE ready(b) == Ready(k) \ b
           async(b) == {u \in ready(b) : IsAsync(k, u)}
           regular(b) == {u \in ready(b) : ~IsAsync(k, u) /\ ~Redelegates(u)}
<1>4. PICK broken \in SUBSET {u \in Ready(k) : shape[u].fragile} :
        /\ registry' = [registry EXCEPT ![k] = [u \in Units |->
             IF u \in broken /\ registry[k][u] # "cancelled" THEN "failed"
             ELSE IF u \in async(broken) \cup regular(broken) /\ registry[k][u] = "pending"
                    THEN "running" ELSE registry[k][u]]]
        /\ ledger' = [v \in Views |-> [u \in Units |->
             IF u \in broken THEN Recorded(run, broken, "failed")[v][u]
             ELSE Recorded(run, async(broken) \cup regular(broken), "running")[v][u]]]
        /\ work' = [work EXCEPT ![run] = [u \in Units |->
             IF u \in async(broken) THEN Launched(k, async(broken), TRUE)[run][u]
             ELSE Launched(k, regular(broken), FALSE)[run][u]]]
        /\ call' = [call EXCEPT ![k].pending = @ \ Ready(k), ![k].wave = ready(broken) \ async(broken)]
        /\ dropped' = dropped \ async(broken)
  BY DEF NextWave
<1>5. /\ Ready(k) \subseteq call[k].pending /\ Ready(k) \subseteq Units /\ broken \in SUBSET Ready(k)
      /\ Starting(k, broken) = async(broken) \cup regular(broken)
      /\ InWave(k, broken) = ready(broken) \ async(broken)
      /\ async(broken) = {u \in Starting(k, broken) : IsAsync(k, u)}
  BY <1>3 DEF Ready, CallType, Starting, InWave
<1>6. /\ registry' = [registry EXCEPT ![k] = [u \in Units |->
           IF u \in broken /\ registry[k][u] # "cancelled" THEN "failed"
           ELSE IF u \in Starting(k, broken) /\ registry[k][u] = "pending"
                  THEN "running" ELSE registry[k][u]]]
      /\ call' = [call EXCEPT ![k].pending = @ \ Ready(k), ![k].wave = InWave(k, broken)]
  BY <1>4, <1>5
<1>7. OtherRegistries(k) /\ OtherCalls(k)
  BY <1>3, <1>6 DEF OtherRegistries, OtherCalls
<1>8. \A v \in Views, u \in Units : ledger'[v][u] =
       IF u \in broken THEN "failed" ELSE IF u \in Starting(k, broken) THEN "running" ELSE ledger[v][u]
  BY <1>3, <1>4, <1>5 DEF Recorded, Written
<1>9. /\ \A u \in Units : work'[run][u] =
            IF u \in async(broken) THEN [NoWork EXCEPT !.pc = "slot", !.owner = k, !.async = TRUE]
            ELSE IF u \in regular(broken) THEN [NoWork EXCEPT !.pc = "slot", !.owner = k, !.async = FALSE]
            ELSE work[run][u]
      /\ \A l \in Runs \ {run} : work'[l] = work[l]
  <2> HIDE DEF async, regular, ready
  <2> QED BY <1>3, <1>4 DEF Launched
<1>10. OtherWork(Starting(k, broken))
  BY <1>5, <1>9 DEF OtherWork
<1>11. \A u \in Starting(k, broken) : LET w == work'[run][u] IN
         w.pc = "slot" /\ w.owner = k /\ w.async = IsAsync(k, u) /\ w.out = "none" /\ w.todo = <<>>
  <2> SUFFICES ASSUME NEW u \in Starting(k, broken)
               PROVE  LET w == work'[run][u] IN
                 w.pc = "slot" /\ w.owner = k /\ w.async = IsAsync(k, u) /\ w.out = "none" /\ w.todo = <<>>
    OBVIOUS
  <2>1. u \in Units /\ (u \in async(broken) <=> IsAsync(k, u)) /\ (u \notin async(broken) => u \in regular(broken))
    BY <1>5
  <2>2. IsAsync(k, u) \in BOOLEAN
    BY DEF IsAsync
  <2>3. CASE u \in async(broken)
    BY <1>9, <2>1, <2>2, <2>3 DEF NoWork
  <2>4. CASE u \in regular(broken) /\ u \notin async(broken)
    BY <1>9, <2>1, <2>2, <2>4 DEF NoWork
  <2> QED BY <2>1, <2>3, <2>4
<1>12. LET c == call'[k] IN
         /\ c.pc = "launch" /\ c.pending = call[k].pending \ Ready(k) /\ c.wave = InWave(k, broken)
         /\ c.hold = call[k].hold
  BY <1>1, <1>3, <1>6 DEF CallType
<1>13. \A u \in dropped : u \in dropped' \/ (u \in Starting(k, broken) /\ IsAsync(k, u))
  BY <1>4, <1>5
<1>14. WaveLaunch(k, broken)
  <2>1. \A u \in Units : registry'[k][u] =
       IF u \in broken /\ registry[k][u] # "cancelled" THEN "failed"
       ELSE IF u \in Starting(k, broken) /\ registry[k][u] = "pending" THEN "running"
       ELSE registry[k][u]
    BY <1>3, <1>6
  <2>2. dropped' \subseteq dropped
    BY <1>4
  <2>3. \A u \in Starting(k, broken) : LET w == work'[run][u] IN
         w.pc = "slot" /\ w.owner = k /\ w.async = IsAsync(k, u) /\ w.out = "none"
    BY <1>11
  <2> HIDE DEF async, regular, ready
  <2> QED BY <1>5, <1>7, <1>8, <1>10, <1>12, <1>13, <2>1, <2>2, <2>3 DEF WaveLaunch
<1>15. work' \in [Runs -> [Units -> WorkType]]
  <2>1. \A u \in Units : work'[run][u] \in WorkType
    <3>1. NoWork \in WorkType /\ [NoWork EXCEPT !.pc = "slot", !.owner = k, !.async = TRUE] \in WorkType
          /\ [NoWork EXCEPT !.pc = "slot", !.owner = k, !.async = FALSE] \in WorkType
      BY DEF NoWork, WorkType, Callers, Todos
    <3> HIDE DEF async, regular, ready
    <3> QED BY <1>3, <1>9, <3>1
  <2> HIDE DEF async, regular, ready
  <2>2. work' = [l \in Runs |-> IF l = run THEN work'[run] ELSE work[l]]
    BY <1>3, <1>4
  <2>3. work'[run] \in [Units -> WorkType]
    <3>1. work'[run] = [u \in Units |->
             IF u \in async(broken) THEN Launched(k, async(broken), TRUE)[run][u]
             ELSE Launched(k, regular(broken), FALSE)[run][u]]
      BY <1>3, <1>4
    <3> QED BY <2>1, <3>1
  <2> QED BY <1>3, <2>2, <2>3
<1>16. call' \in [Callers -> CallType]
  <2>1. call[k].pending \ Ready(k) \in SUBSET Units /\ InWave(k, broken) \in SUBSET Units
    BY <1>3, <1>5 DEF CallType, InWave
  <2> HIDE DEF async, regular, ready
  <2> QED BY ZenonT(30), <1>3, <1>6, <2>1 DEF CallType
<1>17. registry' \in [Callers -> [Units -> Statuses]]
  BY <1>3, <1>6 DEF Statuses
<1>18. ledger' \in [Views -> [Units -> Statuses]]
  <2>1. \A v \in Views, u \in Units : ledger'[v][u] \in Statuses
    BY <1>3, <1>8 DEF Statuses
  <2> HIDE DEF async, regular, ready
  <2> QED BY <1>4, <2>1
<1> QED BY <1>1, <1>2, <1>3, <1>4, <1>5, <1>14, <1>15, <1>16, <1>17, <1>18

WorkExcept(l, u) == \A m \in Runs, x \in Units : m # l \/ x # u => work'[m][x] = work[m][x]

StartsAlone(k, u) ==
  /\ WorkExcept(run, u)
  /\ LET w == work'[run][u] IN w.pc = "run" /\ w.owner = k /\ w.async = FALSE /\ w.out = "none"
  /\ registry'[u] = Unknown
  /\ \A j \in Callers \ {u} : \A x \in Units : registry'[j][x] =
       IF j = k /\ x = u /\ registry[k][u] = "pending" THEN "running" ELSE registry[j][x]
  /\ \A v \in Views, x \in Units : ledger'[v][x] = IF x = u THEN "running" ELSE ledger[v][x]

LEMMA StartMoves ==
  ASSUME UnitsTypes, NEW k \in Callers, NEW u \in Units, StartRedelegating(k, u)
  PROVE  /\ u \in call[k].wave /\ Redelegates(u) /\ Off(work[run][u])
         /\ StartsAlone(k, u)
         /\ work' \in [Runs -> [Units -> WorkType]]
         /\ registry' \in [Callers -> [Units -> Statuses]]
         /\ ledger' \in [Views -> [Units -> Statuses]]
         /\ UNCHANGED <<shape, run, phase, paused, ctxDone, quits, replay, todo, pausedAgain, results,
                        call, dropped>>
<1>1. u \in call[k].wave /\ Redelegates(u) /\ Off(work[run][u])
  BY DEF StartRedelegating, Off
<1>2. /\ registry' = [registry EXCEPT ![k][u] = IF @ = "pending" THEN "running" ELSE @, ![u] = Unknown]
      /\ ledger' = Recorded(run, {u}, "running")
      /\ work' = [work EXCEPT ![run][u] = [NoWork EXCEPT !.pc = "run", !.owner = k]]
      /\ UNCHANGED <<shape, run, phase, paused, ctxDone, quits, replay, todo, pausedAgain, results,
                        call, dropped>>
  BY DEF StartRedelegating, runVars, waveVars
<1>3. /\ registry \in [Callers -> [Units -> Statuses]] /\ u \in Callers
      /\ work \in [Runs -> [Units -> WorkType]] /\ ledger \in [Views -> [Units -> Statuses]]
      /\ run \in Runs
  BY DEF UnitsTypes, Callers
<1> DEFINE n == [NoWork EXCEPT !.pc = "run", !.owner = k]
<1>4. n \in WorkType /\ n.pc = "run" /\ n.owner = k /\ n.async = FALSE /\ n.out = "none"
  BY DEF NoWork, WorkType, Callers, Todos
<1>5. work' = [work EXCEPT ![run][u] = n]
  BY <1>2
<1> HIDE DEF n
<1>6. WorkExcept(run, u) /\ work'[run][u] = n /\ work' \in [Runs -> [Units -> WorkType]]
  BY <1>3, <1>4, <1>5 DEF WorkExcept
<1>7. \A v \in Views, x \in Units : ledger'[v][x] = IF x = u THEN "running" ELSE ledger[v][x]
  BY <1>2, <1>3 DEF Recorded, Written
<1>8. ledger' \in [Views -> [Units -> Statuses]]
  BY <1>2, <1>3 DEF Recorded, Written, Statuses
<1>9. /\ registry'[u] = Unknown
      /\ \A j \in Callers \ {u} : \A x \in Units : registry'[j][x] =
           IF j = k /\ x = u /\ registry[k][u] = "pending" THEN "running" ELSE registry[j][x]
  BY <1>2, <1>3
<1>10. registry' \in [Callers -> [Units -> Statuses]]
  <2>1. Unknown \in [Units -> Statuses]
    BY DEF Unknown, Statuses
  <2> DEFINE m == [registry EXCEPT ![k][u] = IF @ = "pending" THEN "running" ELSE @]
  <2>2. m \in [Callers -> [Units -> Statuses]]
    BY <1>3 DEF Statuses
  <2>3. registry' = [m EXCEPT ![u] = Unknown]
    BY <1>2
  <2> HIDE DEF m
  <2> QED BY <1>3, <2>1, <2>2, <2>3
<1> QED BY <1>1, <1>2, <1>4, <1>6, <1>7, <1>8, <1>9, <1>10 DEF StartsAlone

(* An execution goes on, or comes back.                                     *)
Advances(l, u) ==
  LET w == work[l][u] n == work'[l][u] IN
  /\ WorkExcept(l, u) /\ n.owner = w.owner /\ n.async = w.async
  /\ \/ w.pc = "slot" /\ n.pc = "run" /\ n.out = w.out
     \/ /\ w.pc = "run" /\ n.pc = "settle" /\ n.out \in Outs /\ n.todo \in Left(n.out)
        /\ n.out # "gone" => AtBoard(n)
        /\ n.out = "gone" => w.async
        /\ n.out = "paused" => paused
        /\ n.out \in {"stopped", "gone"} => ContextDone(l, u)
        /\ n.todo # <<"registry">>

LEMMA WritesLeft ==
  ASSUME NEW out \in Outs
  PROVE  /\ Writes(out) \in Left(out) /\ Writes(out) \in Todos /\ Writes(out) # <<"registry">>
         /\ out # "gone" => Writes(out) \in OnBoard
<1>1. /\ <<"registry", "board", "ledger">> # <<"registry">> /\ <<"registry", "ledger">> # <<"registry">>
      /\ <<"board", "ledger", "registry">> # <<"registry">>
  OBVIOUS
<1> QED BY <1>1 DEF Outs, Writes, Left, Todos, OnBoard

LEMMA ComesMoves ==
  ASSUME UnitsTypes, NEW l \in Runs, NEW u \in Units, work[l][u].pc = "run",
         NEW out \in Outs, Comes(l, u, out), out = "gone" => work[l][u].async,
         out = "paused" => paused, out \in {"stopped", "gone"} => ContextDone(l, u)
  PROVE  Advances(l, u) /\ work' \in [Runs -> [Units -> WorkType]]
<1>1. work \in [Runs -> [Units -> WorkType]]
  BY DEF UnitsTypes
<1> DEFINE n == [work[l][u] EXCEPT !.pc = "settle", !.out = out, !.todo = Writes(out)]
<1>2. /\ n \in WorkType /\ n.pc = "settle" /\ n.out = out /\ n.todo = Writes(out)
      /\ n.owner = work[l][u].owner /\ n.async = work[l][u].async
  <2>1. work[l][u] \in WorkType /\ Writes(out) \in Todos
    BY <1>1, WritesLeft
  <2> QED BY <2>1 DEF WorkType
<1>3. work' = [work EXCEPT ![l][u] = n]
  BY <1>1 DEF Comes
<1> HIDE DEF n
<1>4. WorkExcept(l, u) /\ work'[l][u] = n /\ work' \in [Runs -> [Units -> WorkType]]
  BY <1>1, <1>2, <1>3 DEF WorkExcept
<1> QED BY <1>2, <1>4, WritesLeft DEF Advances, AtBoard

LEMMA AdvanceMoves ==
  ASSUME UnitsTypes, WorkRight, NEW l \in Runs, NEW u \in Units, TakeSlot(l, u) \/ Gone(l, u) \/ Back(l, u)
  PROVE  /\ Advances(l, u) /\ work' \in [Runs -> [Units -> WorkType]]
         /\ UNCHANGED <<shape, run, phase, paused, ctxDone, quits, replay, todo, pausedAgain, registry,
                        call, dropped, ledger, results>>
         /\ work'[l][u].pc = "settle" /\ Redelegates(u) => call[u].pc = "free"
<1>1. CASE TakeSlot(l, u)
  <2>1. work \in [Runs -> [Units -> WorkType]]
    BY DEF UnitsTypes
  <2> DEFINE n == [work[l][u] EXCEPT !.pc = "run"]
  <2>2. /\ n \in WorkType /\ n.pc = "run" /\ n.out = work[l][u].out
        /\ n.owner = work[l][u].owner /\ n.async = work[l][u].async
    <3>1. work[l][u] \in WorkType
      BY <2>1
    <3> QED BY <3>1 DEF WorkType
  <2>3. work' = [work EXCEPT ![l][u] = n] /\ work[l][u].pc = "slot"
    BY <1>1, <2>1 DEF TakeSlot
  <2> HIDE DEF n
  <2>4. WorkExcept(l, u) /\ work'[l][u] = n /\ work' \in [Runs -> [Units -> WorkType]]
    BY <2>1, <2>2, <2>3 DEF WorkExcept
  <2> QED BY <1>1, <2>2, <2>3, <2>4 DEF Advances, TakeSlot, runVars, waveVars
<1>2. CASE Gone(l, u)
  <2>1. Comes(l, u, "gone") /\ work[l][u].pc = "run" /\ work[l][u].async /\ ContextDone(l, u)
    BY <1>2 DEF Gone
  <2>2. Advances(l, u) /\ work' \in [Runs -> [Units -> WorkType]]
    BY <2>1, ComesMoves DEF Outs
  <2>3. ~Redelegates(u)
    BY <2>1 DEF WorkRight
  <2> QED BY <1>2, <2>2, <2>3 DEF Gone, runVars, waveVars
<1>3. CASE Back(l, u)
  <2>1. PICK out \in Outcomes(l, u) : Comes(l, u, out)
    BY <1>3 DEF Back
  <2>2. /\ out \in Outs \ {"gone"} /\ (out = "paused" => paused)
        /\ out = "stopped" => ContextDone(l, u)
    BY <2>1 DEF Outcomes, Outs
  <2>3. work[l][u].pc = "run"
    BY <1>3 DEF Back
  <2>4. Advances(l, u) /\ work' \in [Runs -> [Units -> WorkType]]
    BY <2>1, <2>2, <2>3, ComesMoves
  <2> QED BY <1>3, <2>4 DEF Back, runVars, waveVars
<1> QED BY <1>1, <1>2, <1>3

Fresh(batch) == {u \in batch : ~Ok(u)}

Delegates(k, batch) ==
  /\ call[k].pc = "free" /\ OtherCalls(k) /\ OtherRegistries(k)
  /\ \A u \in batch : Off(work[run][u])
  /\ LET c == call'[k] IN
       /\ c.pc \in {"free", "launch"} /\ (c.pc = "free" => Fresh(batch) = {})
       /\ c.pending = Fresh(batch) /\ c.wave = {} /\ c.hold = FALSE
  /\ \A u \in Units : registry'[k][u] =
       IF u \in batch THEN IF Ok(u) THEN "completed" ELSE "pending" ELSE registry[k][u]
  /\ \A v \in Views, u \in Units : ledger'[v][u] =
       IF u \notin Fresh(batch) THEN ledger[v][u]
       ELSE IF ledger["run"][u] = "none" THEN "pending" ELSE ledger["run"][u]

LEMMA DelegateMoves ==
  ASSUME UnitsTypes, NEW k \in Callers, NEW batch \in SUBSET Children(k), Delegate(k, batch)
  PROVE  /\ Delegates(k, batch) /\ Going
         /\ IF k = Root THEN phase = "llm" ELSE work[run][k].pc = "run" /\ Redelegates(k)
         /\ registry' \in [Callers -> [Units -> Statuses]] /\ call' \in [Callers -> CallType]
         /\ ledger' \in [Views -> [Units -> Statuses]]
         /\ UNCHANGED <<shape, run, phase, paused, ctxDone, quits, replay, todo, pausedAgain, dropped,
                        work, results>>
<1> DEFINE done == {u \in batch : Ok(u)}
           fresh == batch \ done
           c == [FreeCall EXCEPT !.pc = IF fresh = {} THEN "free" ELSE "launch", !.pending = fresh]
<1>1. /\ registry' = [registry EXCEPT ![k] = [u \in Units |->
             IF u \in done THEN "completed"
             ELSE IF u \in fresh THEN "pending" ELSE registry[k][u]]]
      /\ ledger' = Begun(fresh)
      /\ call' = [call EXCEPT ![k] = c]
  BY DEF Delegate
<1>2. /\ Going /\ Thinking(k) /\ Valid(k, batch)
      /\ UNCHANGED <<shape, run, phase, paused, ctxDone, quits, replay, todo, pausedAgain, dropped,
                        work, results>>
  BY DEF Delegate, Going, runVars, waveVars
<1>3. /\ registry \in [Callers -> [Units -> Statuses]] /\ call \in [Callers -> CallType]
      /\ ledger \in [Views -> [Units -> Statuses]]
      /\ batch \subseteq Units
  BY DEF UnitsTypes, Children
<1>4. fresh = Fresh(batch) /\ fresh \subseteq Units /\ done \subseteq Units
  BY <1>3 DEF Fresh
<1>5. /\ c.pc = (IF fresh = {} THEN "free" ELSE "launch") /\ c.pending = fresh /\ c.wave = {}
      /\ c.hold = FALSE /\ c \in CallType
  BY <1>4 DEF FreeCall, CallType
<1>6. registry' \in [Callers -> [Units -> Statuses]] /\ OtherRegistries(k)
  BY <1>1, <1>3 DEF Statuses, OtherRegistries
<1>7. \A u \in Units : registry'[k][u] =
       IF u \in batch THEN IF Ok(u) THEN "completed" ELSE "pending" ELSE registry[k][u]
  BY <1>1, <1>3
<1> HIDE DEF c
<1>8. call' \in [Callers -> CallType] /\ OtherCalls(k) /\ call'[k] = c
  BY <1>1, <1>3, <1>5 DEF OtherCalls
<1>9. /\ \A v \in Views, u \in Units : ledger'[v][u] =
            IF u \notin Fresh(batch) THEN ledger[v][u]
            ELSE IF ledger["run"][u] = "none" THEN "pending" ELSE ledger["run"][u]
      /\ ledger' \in [Views -> [Units -> Statuses]]
  BY <1>1, <1>3, <1>4 DEF Begun, Views, Statuses
<1>10. call[k].pc = "free" /\ \A u \in batch : Off(work[run][u])
  BY <1>2 DEF Thinking, Valid, Off
<1>11. IF k = Root THEN phase = "llm" ELSE work[run][k].pc = "run" /\ Redelegates(k)
  BY <1>2 DEF Thinking
<1> HIDE DEF done, fresh
<1> QED BY <1>2, <1>4, <1>5, <1>6, <1>7, <1>8, <1>9, <1>10, <1>11 DEF Delegates

(* A call is over: what it had not launched is given up, or left.           *)
Returns(k) ==
  /\ call[k].pc = "launch" /\ call[k].wave = {} /\ call'[k] = FreeCall
  /\ OtherCalls(k) /\ OtherRegistries(k)
  /\ \/ /\ call[k].pending = {} \/ call[k].hold
        /\ UNCHANGED <<registry, ledger>>
        /\ pausedAgain' = (pausedAgain \/ (k = Root /\ phase = "wave" /\ call[k].hold))
     \/ /\ ~call[k].hold
        /\ \A u \in Units : registry'[k][u] = registry[k][u]
                             \/ (u \in call[k].pending /\ registry'[k][u] = "failed")
        /\ \A v \in Views, u \in Units : ledger'[v][u] =
             IF u \in call[k].pending THEN IF run \in ctxDone THEN "interrupted" ELSE "failed"
             ELSE ledger[v][u]
        /\ pausedAgain' = pausedAgain

LEMMA ReturnMoves ==
  ASSUME UnitsTypes, NEW k \in Callers, Return(k) \/ GiveUp(k)
  PROVE  /\ Returns(k)
         /\ registry' \in [Callers -> [Units -> Statuses]] /\ call' \in [Callers -> CallType]
         /\ ledger' \in [Views -> [Units -> Statuses]] /\ pausedAgain' \in BOOLEAN
         /\ UNCHANGED <<shape, run, phase, paused, ctxDone, quits, replay, todo, dropped, work, results>>
<1>1. /\ registry \in [Callers -> [Units -> Statuses]] /\ call \in [Callers -> CallType]
      /\ ledger \in [Views -> [Units -> Statuses]] /\ pausedAgain \in BOOLEAN
      /\ call[k].pending \subseteq Units
  <2>1. /\ registry \in [Callers -> [Units -> Statuses]] /\ call \in [Callers -> CallType]
        /\ ledger \in [Views -> [Units -> Statuses]] /\ pausedAgain \in BOOLEAN
    BY DEF UnitsTypes
  <2> QED BY <2>1 DEF CallType
<1>2. FreeCall \in CallType
  BY DEF FreeCall, CallType
<1>3. call' = [call EXCEPT ![k] = FreeCall]
      /\ UNCHANGED <<shape, run, phase, paused, ctxDone, quits, replay, todo, dropped, work, results>>
  BY DEF Return, GiveUp, runVars, waveVars
<1>4. call' \in [Callers -> CallType] /\ OtherCalls(k) /\ call'[k] = FreeCall
  BY <1>1, <1>2, <1>3 DEF OtherCalls
<1>5. call[k].pc = "launch" /\ call[k].wave = {}
  BY DEF Return, GiveUp, Launching
<1>6. CASE Return(k)
  <2>1. /\ call[k].pending = {} \/ call[k].hold
        /\ UNCHANGED <<registry, ledger>>
        /\ pausedAgain' = (pausedAgain \/ (k = Root /\ phase = "wave" /\ call[k].hold))
    BY <1>6 DEF Return, CallDone
  <2>2. pausedAgain' \in BOOLEAN
    BY <2>1
  <2> QED BY <1>1, <1>3, <1>4, <1>5, <2>1, <2>2 DEF Returns, OtherRegistries
<1>7. CASE GiveUp(k)
  <2>1. /\ registry' = Completed(k, call[k].pending, "failed")
        /\ ledger' = Recorded(run, call[k].pending, IF run \in ctxDone THEN "interrupted" ELSE "failed")
        /\ pausedAgain' = pausedAgain /\ ~call[k].hold
    BY <1>7 DEF GiveUp, CallDone, waveVars
  <2>2. /\ registry' \in [Callers -> [Units -> Statuses]] /\ OtherRegistries(k)
        /\ \A u \in Units : registry'[k][u] = registry[k][u]
                             \/ (u \in call[k].pending /\ registry'[k][u] = "failed")
    BY <1>1, <2>1 DEF Completed, Statuses, OtherRegistries
  <2>3. /\ ledger' \in [Views -> [Units -> Statuses]]
        /\ \A v \in Views, u \in Units : ledger'[v][u] =
             IF u \in call[k].pending THEN IF run \in ctxDone THEN "interrupted" ELSE "failed"
             ELSE ledger[v][u]
    BY <1>1, <2>1 DEF Recorded, Written, Statuses
  <2> QED BY <1>1, <1>3, <1>4, <1>5, <2>1, <2>2, <2>3 DEF Returns
<1> QED BY <1>6, <1>7

Groups ==
  /\ phase = "wave" /\ call[Root].pc = "free" /\ ~pausedAgain
  /\ OtherCalls(Root) /\ OtherRegistries(Root)
  /\ LET c == call'[Root] IN
       c.pc = "launch" /\ c.pending = Group /\ c.wave = {} /\ c.hold = FALSE
  /\ todo' = todo \ Group
  /\ \A u \in Units : registry'[Root][u] =
       IF u \in Group THEN "pending"
       ELSE IF replay[u] \in {"completed", "failed"} THEN replay[u] ELSE "none"
  /\ \A v \in Views, u \in Units : results'[v][u] =
       IF u \in Group /\ replay[u] = "paused" THEN "paused" ELSE results[v][u]

LEMMA GroupMoves ==
  ASSUME UnitsTypes, NextGroup
  PROVE  /\ Groups
         /\ registry' \in [Callers -> [Units -> Statuses]] /\ call' \in [Callers -> CallType]
         /\ results' \in [Views -> [Units -> {"none", "ok", "error", "paused"}]]
         /\ UNCHANGED <<shape, run, phase, paused, ctxDone, quits, replay, pausedAgain, dropped, work,
                        ledger>>
<1>1. /\ registry \in [Callers -> [Units -> Statuses]] /\ call \in [Callers -> CallType]
      /\ results \in [Views -> [Units -> {"none", "ok", "error", "paused"}]]
      /\ todo \subseteq Units /\ replay \in [Units -> Statuses] /\ Root \in Callers
  BY DEF UnitsTypes, Callers
<1>2. Group \subseteq todo /\ Group \subseteq Units
  BY <1>1 DEF Group
<1> DEFINE c == [FreeCall EXCEPT !.pc = "launch", !.pending = Group]
<1>3. c \in CallType /\ c.pc = "launch" /\ c.pending = Group /\ c.wave = {} /\ c.hold = FALSE
  BY <1>2 DEF FreeCall, CallType
<1>4. /\ phase = "wave" /\ call[Root].pc = "free" /\ ~pausedAgain
      /\ call' = [call EXCEPT ![Root] = c] /\ todo' = todo \ Group
      /\ registry' = [registry EXCEPT ![Root] = [u \in Units |->
           IF u \in Group THEN "pending"
           ELSE IF replay[u] \in {"completed", "failed"} THEN replay[u] ELSE "none"]]
      /\ results' = Boarded(run, {u \in Group : replay[u] = "paused"}, "paused")
      /\ UNCHANGED <<shape, run, phase, paused, ctxDone, quits, replay, pausedAgain, dropped, work,
                        ledger>>
  BY DEF NextGroup, runVars
<1> HIDE DEF c
<1>5. call' \in [Callers -> CallType] /\ OtherCalls(Root) /\ call'[Root] = c
  BY <1>1, <1>3, <1>4 DEF OtherCalls
<1>6. /\ registry' \in [Callers -> [Units -> Statuses]] /\ OtherRegistries(Root)
      /\ \A u \in Units : registry'[Root][u] =
           IF u \in Group THEN "pending"
           ELSE IF replay[u] \in {"completed", "failed"} THEN replay[u] ELSE "none"
  BY <1>1, <1>4 DEF OtherRegistries, Statuses
<1>7. /\ results' \in [Views -> [Units -> {"none", "ok", "error", "paused"}]]
      /\ \A v \in Views, u \in Units : results'[v][u] =
           IF u \in Group /\ replay[u] = "paused" THEN "paused" ELSE results[v][u]
  BY <1>1, <1>2, <1>4 DEF Boarded, Written
<1> QED BY <1>3, <1>4, <1>5, <1>6, <1>7 DEF Groups

-----------------------------------------------------------------------------
(* The writes of a settling execution.                                      *)

LEMMA RegistersMoves ==
  ASSUME UnitsTypes, NEW l \in Runs, NEW u \in Units, Registers(l, u), work[l][u].out \in Outs
  PROVE  /\ registry' \in [Callers -> [Units -> Statuses]]
         /\ \A j \in Callers, x \in Units : registry'[j][x] # registry[j][x] =>
              /\ j = work[l][u].owner /\ x = u /\ l = run
              /\ registry'[j][x] = RegistryOf(work[l][u].out)
              /\ registry[j][x] \notin {"none", "cancelled"}
<1>1. registry \in [Callers -> [Units -> Statuses]] /\ work[l][u].owner \in Callers
  <2>1. work[l][u] \in WorkType /\ registry \in [Callers -> [Units -> Statuses]]
    BY DEF UnitsTypes
  <2> QED BY <2>1 DEF WorkType
<1>2. RegistryOf(work[l][u].out) \in Statuses
  BY DEF RegistryOf, Statuses
<1> DEFINE k == work[l][u].owner
           status == RegistryOf(work[l][u].out)
<1>3. registry' = IF l = run THEN Completed(k, {u}, status) ELSE registry
  BY DEF Registers
<1> HIDE DEF k, status
<1>4. status \in Statuses /\ k \in Callers
  BY <1>1, <1>2 DEF k, status
<1>5. /\ registry' \in [Callers -> [Units -> Statuses]]
      /\ \A j \in Callers, x \in Units : registry'[j][x] # registry[j][x] =>
           /\ j = k /\ x = u /\ l = run
           /\ registry'[j][x] = status
           /\ registry[j][x] \notin {"none", "cancelled"}
  BY <1>1, <1>3, <1>4 DEF Completed
<1> QED BY <1>5 DEF k, status

LEMMA BoardsMoves ==
  ASSUME UnitsTypes, NEW l \in Runs, NEW u \in Units, BoardsIt(l, u), work[l][u].out \in Outs \ {"gone"}
  PROVE  /\ results' \in [Views -> [Units -> {"none", "ok", "error", "paused"}]]
         /\ \A v \in Views, x \in Units : results'[v][x] =
              IF x = u /\ (v = "disk" \/ l = run) THEN ResultOf(work[l][u].out) ELSE results[v][x]
         /\ ResultOf(work[l][u].out) \in {"ok", "error", "paused"}
<1>1. results \in [Views -> [Units -> {"none", "ok", "error", "paused"}]]
  BY DEF UnitsTypes
<1>2. ResultOf(work[l][u].out) \in {"ok", "error", "paused"}
  BY DEF ResultOf, Outs
<1> DEFINE result == ResultOf(work[l][u].out)
<1>3. results' = Written(results, l, {u}, result)
  BY DEF BoardsIt, Boarded
<1> HIDE DEF result
<1>4. result \in {"ok", "error", "paused"}
  BY <1>2 DEF result
<1>5. /\ results' \in [Views -> [Units -> {"none", "ok", "error", "paused"}]]
      /\ \A v \in Views, x \in Units : results'[v][x] =
           IF x = u /\ (v = "disk" \/ l = run) THEN result ELSE results[v][x]
  BY <1>1, <1>3, <1>4 DEF Written
<1> QED BY <1>2, <1>5 DEF result

LEMMA LedgersMoves ==
  ASSUME UnitsTypes, NEW l \in Runs, NEW u \in Units, Ledgers(l, u), work[l][u].out \in Outs
  PROVE  /\ ledger' \in [Views -> [Units -> Statuses]]
         /\ \A v \in Views, x \in Units : ledger'[v][x] =
              IF x = u /\ (v = "disk" \/ l = run) THEN StatusOf(work[l][u].out) ELSE ledger[v][x]
<1>1. ledger \in [Views -> [Units -> Statuses]]
  BY DEF UnitsTypes
<1> DEFINE status == StatusOf(work[l][u].out)
<1>2. status \in Statuses
  BY DEF StatusOf, Statuses
<1>3. ledger' = Written(ledger, l, {u}, status)
  BY DEF Ledgers, Recorded
<1> HIDE DEF status
<1>4. /\ ledger' \in [Views -> [Units -> Statuses]]
      /\ \A v \in Views, x \in Units : ledger'[v][x] =
           IF x = u /\ (v = "disk" \/ l = run) THEN status ELSE ledger[v][x]
  BY <1>1, <1>2, <1>3 DEF Written
<1> QED BY <1>4 DEF status

(* The execution is gone from its run, and from the call it belongs to.     *)
CallsAfter(l, u) == \A j \in Callers :
  /\ call'[j].pc = call[j].pc /\ call'[j].pending = call[j].pending
  /\ call'[j].wave = 
       IF ~work[l][u].async /\ l = run /\ j = work[l][u].owner THEN call[j].wave \ {u} ELSE call[j].wave
  /\ call[j].hold => call'[j].hold
  /\ ~work[l][u].async /\ l = run /\ j = work[l][u].owner /\ work[l][u].out = "paused" => call'[j].hold
  /\ call'[j].hold => call[j].hold \/ (l = run /\ work[l][u].out = "paused")

LEMMA EndsMoves ==
  ASSUME UnitsTypes, NEW l \in Runs, NEW u \in Units, Ends(l, u)
  PROVE  /\ work' \in [Runs -> [Units -> WorkType]] /\ call' \in [Callers -> CallType]
         /\ WorkExcept(l, u) /\ Off(work'[l][u]) /\ ~work'[l][u].async
         /\ work'[l][u].out = "none"
         /\ CallsAfter(l, u)
<1>1. /\ work \in [Runs -> [Units -> WorkType]] /\ call \in [Callers -> CallType]
      /\ work[l][u] \in WorkType
  BY DEF UnitsTypes
<1>2. work[l][u].owner \in Callers
  BY <1>1 DEF WorkType
<1>3. NoWork \in WorkType /\ NoWork.pc = "off" /\ ~NoWork.async /\ NoWork.out = "none"
  BY DEF NoWork, WorkType, Callers, Todos
<1>4. work' = [work EXCEPT ![l][u] = NoWork]
  BY DEF Ends
<1>5. /\ work' \in [Runs -> [Units -> WorkType]] /\ WorkExcept(l, u) /\ work'[l][u] = NoWork
  BY <1>1, <1>3, <1>4 DEF WorkExcept
<1>6. CASE work[l][u].async \/ l # run
  <2>1. call' = call
    BY <1>6 DEF Ends
  <2> QED BY <1>1, <1>3, <1>5, <1>6, <2>1 DEF CallsAfter, Off
<1>7. CASE ~work[l][u].async /\ l = run
  <2> DEFINE k == work[l][u].owner
             n == [call[k] EXCEPT !.wave = @ \ {u}, !.hold = @ \/ work[l][u].out = "paused"]
  <2>1. call[k] \in CallType
    BY <1>1, <1>2
  <2>2. call' = [call EXCEPT ![k] = n]
    BY <1>1, <1>2, <1>7 DEF Ends
  <2>3. /\ n \in CallType /\ n.pc = call[k].pc /\ n.pending = call[k].pending
        /\ n.wave = call[k].wave \ {u} /\ (call[k].hold => n.hold)
        /\ (work[l][u].out = "paused" => n.hold)
        /\ (n.hold => call[k].hold \/ work[l][u].out = "paused")
    BY <2>1 DEF CallType
  <2> HIDE DEF n
  <2>4. call' \in [Callers -> CallType] /\ call'[k] = n /\ \A j \in Callers \ {k} : call'[j] = call[j]
    BY <1>1, <1>2, <2>2, <2>3
  <2> QED BY <1>2, <1>3, <1>5, <1>7, <2>3, <2>4 DEF CallsAfter, Off
<1> QED BY <1>6, <1>7

LEMMA StepsMoves ==
  ASSUME UnitsTypes, NEW l \in Runs, NEW u \in Units, NEW rest \in Todos, Steps(l, u, rest)
  PROVE  /\ work' \in [Runs -> [Units -> WorkType]]
         /\ WorkExcept(l, u)
         /\ LET w == work[l][u] n == work'[l][u] IN
              n.pc = w.pc /\ n.owner = w.owner /\ n.async = w.async /\ n.out = w.out /\ n.todo = rest
<1>1. work \in [Runs -> [Units -> WorkType]] /\ work[l][u] \in WorkType
  BY DEF UnitsTypes
<1> DEFINE n == [work[l][u] EXCEPT !.todo = rest]
<1>2. /\ n \in WorkType /\ n.pc = work[l][u].pc /\ n.owner = work[l][u].owner
      /\ n.async = work[l][u].async /\ n.out = work[l][u].out /\ n.todo = rest
  BY <1>1 DEF WorkType
<1>3. work' = [work EXCEPT ![l][u] = n]
  BY DEF Steps
<1> HIDE DEF n
<1>4. WorkExcept(l, u) /\ work'[l][u] = n /\ work' \in [Runs -> [Units -> WorkType]]
  BY <1>1, <1>2, <1>3 DEF WorkExcept
<1> QED BY <1>2, <1>4

(* A run is left, or the process dies.                                      *)
Leaves ==
  /\ phase' \in {"idle", "over"} /\ registry' = [k \in Callers |-> Unknown]
  /\ call' = [k \in Callers |-> FreeCall] /\ dropped' = {} /\ replay' = Unknown /\ todo' = {}
  /\ pausedAgain' = FALSE /\ paused' = FALSE /\ ctxDone' = ctxDone \cup {run}

LEMMA LeaveMoves ==
  ASSUME PausedInWave \/ PausedRun \/ FailedRun \/ FinishRun \/ Crash
  PROVE  /\ Leaves /\ UNCHANGED <<shape, run, ledger, results>>
         /\ work' = work \/ work' = [l \in Runs |-> [u \in Units |-> NoWork]]
  BY DEF PausedInWave, PausedRun, FailedRun, FinishRun, Crash, Leave, Forget, Leaves

LEMMA LeaveTypes ==
  ASSUME UnitsTypes, Leaves, UNCHANGED <<shape, run, ledger, results>>,
         work' = work \/ work' = [l \in Runs |-> [u \in Units |-> NoWork]]
  PROVE  UnitsTypes'
<1>1. FreeCall \in CallType /\ Unknown \in [Units -> Statuses] /\ NoWork \in WorkType
  BY DEF FreeCall, CallType, Unknown, Statuses, NoWork, WorkType, Callers, Todos
<1>2. /\ call' \in [Callers -> CallType] /\ registry' \in [Callers -> [Units -> Statuses]]
      /\ replay' \in [Units -> Statuses]
  BY <1>1 DEF Leaves
<1>3. work' \in [Runs -> [Units -> WorkType]]
  BY <1>1 DEF UnitsTypes
<1> QED BY <1>2, <1>3 DEF UnitsTypes, Leaves

-----------------------------------------------------------------------------
(* The steps, as the proofs take them.                                      *)

LEMMA UnitsCases ==
  ASSUME UnitsNext
  PROVE  \/ \E k \in Callers : Return(k) \/ GiveUp(k)
         \/ \E k \in Callers : NextWave(k)
         \/ \E k \in Callers, u \in Units : StartRedelegating(k, u)
         \/ \E l \in Runs, u \in Units : TakeSlot(l, u) \/ Gone(l, u) \/ Back(l, u)
         \/ \E l \in Runs, u \in Units : Settle(l, u)
         \/ NextGroup
         \/ WaveEnds
         \/ PausedInWave \/ PausedRun \/ FailedRun \/ FinishRun \/ Crash
         \/ \E k \in Callers : \E batch \in SUBSET Children(k) : Delegate(k, batch)
         \/ \E k \in Callers, u \in Units : CancelDelegation(k, u)
         \/ Resume
         \/ PauseSession
         \/ QuitRun
  BY DEF UnitsNext, UnitsGo

LEMMA CancelMoves ==
  ASSUME UnitsTypes, NEW k \in Callers, NEW u \in Units, CancelDelegation(k, u)
  PROVE  /\ registry' \in [Callers -> [Units -> Statuses]]
         /\ \A j \in Callers, x \in Units : registry'[j][x] =
              IF j = k /\ x = u THEN "cancelled" ELSE registry[j][x]
         /\ registry[k][u] \in {"pending", "running"}
         /\ dropped \subseteq dropped' /\ dropped' \subseteq Units
         /\ (IF k = Root THEN phase = "llm" ELSE TRUE) /\ call[k].pc = "free"
         /\ UNCHANGED <<shape, run, phase, paused, ctxDone, quits, replay, todo, pausedAgain, call,
                        work, ledger, results>>
<1>1. registry \in [Callers -> [Units -> Statuses]] /\ dropped \subseteq Units
  BY DEF UnitsTypes
<1>2. registry' = [registry EXCEPT ![k][u] = "cancelled"] /\ dropped' \in {dropped, dropped \cup {u}}
  BY DEF CancelDelegation
<1>3. registry' \in [Callers -> [Units -> Statuses]]
  BY <1>1, <1>2 DEF Statuses
<1> QED BY <1>1, <1>2, <1>3 DEF CancelDelegation, Thinking, runVars, waveVars

LEMMA ResumeMoves ==
  ASSUME UnitsTypes, Resume
  PROVE  /\ phase = "idle" /\ phase' = "wave" /\ run' = run + 1 /\ run' \in Runs /\ paused' = FALSE
         /\ todo' = Relaunchable /\ pausedAgain' = FALSE
         /\ replay' \in [Units -> Statuses] /\ \A u \in Units : replay'[u] = Class(u)
         /\ ledger' \in [Views -> [Units -> Statuses]]
         /\ results' \in [Views -> [Units -> {"none", "ok", "error", "paused"}]]
         /\ \A v \in Views, u \in Units : ledger'[v][u] = ledger["disk"][u] /\ results'[v][u] = results["disk"][u]
         /\ UNCHANGED <<shape, ctxDone, quits, registry, call, dropped, work>>
<1>1. /\ ledger \in [Views -> [Units -> Statuses]] /\ run \in Runs
      /\ results \in [Views -> [Units -> {"none", "ok", "error", "paused"}]]
  BY DEF UnitsTypes
<1>2. run' \in Runs
  BY <1>1, RunsAssumption DEF Resume, Runs
<1>3. \A u \in Units : Class(u) \in Statuses
  BY <1>1 DEF Class, Statuses, Views
<1>4. /\ ledger' = [ledger EXCEPT !["run"] = ledger["disk"]]
      /\ results' = [results EXCEPT !["run"] = results["disk"]]
      /\ replay' = [u \in Units |-> Class(u)]
  BY DEF Resume
<1>5. /\ ledger' \in [Views -> [Units -> Statuses]]
      /\ results' \in [Views -> [Units -> {"none", "ok", "error", "paused"}]]
      /\ \A v \in Views, u \in Units : ledger'[v][u] = ledger["disk"][u] /\ results'[v][u] = results["disk"][u]
  BY <1>1, <1>4 DEF Views
<1>6. replay' \in [Units -> Statuses] /\ \A u \in Units : replay'[u] = Class(u)
  BY <1>3, <1>4
<1> QED BY <1>2, <1>5, <1>6 DEF Resume

LEMMA SettleTypes ==
  ASSUME UnitsTypes, WorkRight, NEW l \in Runs, NEW u \in Units, Settle(l, u)
  PROVE  UnitsTypes' /\ WorkRight'
<1>1. /\ work[l][u].pc = "settle" /\ SettleCases(l, u)
      /\ UNCHANGED <<shape, run, phase, paused, ctxDone, quits, replay, todo, pausedAgain, dropped>>
  BY SettleSteps
<1>2. work[l][u].out \in Outs /\ work[l][u].todo \in Left(work[l][u].out) /\ (work[l][u].async => ~Redelegates(u))
      /\ ~(l > run) /\ (work[l][u].out = "gone" => work[l][u].async)
  BY <1>1 DEF WorkRight, Off
<1>3. /\ registry' \in [Callers -> [Units -> Statuses]]
      /\ results' \in [Views -> [Units -> {"none", "ok", "error", "paused"}]]
      /\ ledger' \in [Views -> [Units -> Statuses]]
  <2>1. CASE Registers(l, u)
    BY <1>2, <2>1, RegistersMoves DEF Registers, UnitsTypes
  <2>2. CASE BoardsIt(l, u) /\ work[l][u].out # "gone"
    BY <1>2, <2>2, BoardsMoves DEF BoardsIt, UnitsTypes
  <2>3. CASE Ledgers(l, u)
    BY <1>2, <2>3, LedgersMoves DEF Ledgers, UnitsTypes
  <2>4. Registers(l, u) \/ (BoardsIt(l, u) /\ work[l][u].out # "gone") \/ Ledgers(l, u)
    BY <1>1 DEF SettleCases
  <2> QED BY <2>1, <2>2, <2>3, <2>4
<1>4. /\ work' \in [Runs -> [Units -> WorkType]] /\ call' \in [Callers -> CallType]
      /\ WorkExcept(l, u)
      /\ LET w == work[l][u] n == work'[l][u] IN
           \/ Off(n) /\ ~n.async /\ n.out = "none"
           \/ n.pc = "settle" /\ n.out = w.out /\ n.async = w.async /\ n.todo \in Left(w.out)
  <2>1. CASE Ends(l, u)
    BY <2>1, EndsMoves
  <2>2. CASE \E rest \in Todos : Steps(l, u, rest) /\ rest \in Left(work[l][u].out) /\ UNCHANGED call
    <3>1. PICK rest \in Todos : Steps(l, u, rest) /\ rest \in Left(work[l][u].out) /\ UNCHANGED call
      BY <2>2
    <3>2. /\ work' \in [Runs -> [Units -> WorkType]] /\ WorkExcept(l, u)
          /\ LET w == work[l][u] n == work'[l][u] IN
               n.pc = w.pc /\ n.async = w.async /\ n.out = w.out /\ n.todo = rest
      BY <3>1, StepsMoves
    <3>3. call' \in [Callers -> CallType]
      BY <3>1 DEF UnitsTypes
    <3> QED BY <1>1, <3>1, <3>2, <3>3
  <2>3. Ends(l, u) \/ \E rest \in Todos : Steps(l, u, rest) /\ rest \in Left(work[l][u].out) /\ UNCHANGED call
    BY <1>1 DEF SettleCases, Todos, Left
  <2> QED BY <2>1, <2>2, <2>3
<1>5. UnitsTypes'
  BY <1>1, <1>3, <1>4 DEF UnitsTypes
<1>6. WorkRight'
  <2> SUFFICES ASSUME NEW m \in Runs, NEW x \in Units
               PROVE  LET w == work'[m][x] IN
                        /\ m > run => Off(w)
                        /\ w.pc = "settle" => w.out \in Outs /\ w.todo \in Left(w.out)
                        /\ w.async => ~Redelegates(x)
                        /\ w.out = "gone" => w.async
    BY <1>1 DEF WorkRight, Redelegates
  <2>1. CASE m = l /\ x = u
    BY <1>2, <1>4, <2>1 DEF Off
  <2>2. CASE m # l \/ x # u
    <3>1. work'[m][x] = work[m][x]
      BY <1>4, <2>2 DEF WorkExcept
    <3> QED BY <3>1 DEF WorkRight
  <2> QED BY <2>1, <2>2
<1> QED BY <1>5, <1>6

LEMMA TypesKept ==
  UnitsTypes /\ WorkRight /\ [UnitsNext]_unitVars => UnitsTypes' /\ WorkRight'
<1> SUFFICES ASSUME UnitsTypes, WorkRight, UnitsNext \/ UNCHANGED unitVars PROVE UnitsTypes' /\ WorkRight'
  OBVIOUS
<1>w. ASSUME UNCHANGED <<shape, work>>, run' = run PROVE WorkRight'
  BY <1>w DEF WorkRight, Redelegates
<1>0. CASE UNCHANGED unitVars
  BY <1>0 DEF UnitsTypes, WorkRight, Redelegates, unitVars
<1>1. ASSUME NEW k \in Callers, Return(k) \/ GiveUp(k) PROVE UnitsTypes' /\ WorkRight'
  BY <1>1, <1>w, ReturnMoves DEF UnitsTypes
<1>2. ASSUME NEW k \in Callers, NextWave(k) PROVE UnitsTypes' /\ WorkRight'
  <2>1. UnitsTypes'
    BY <1>2, WaveMoves DEF UnitsTypes
  <2>2. PICK broken \in SUBSET Ready(k) : WaveLaunch(k, broken)
    BY <1>2, WaveMoves
  <2>3. UNCHANGED <<shape, run>> /\ run \in Runs /\ shape \in Shapes
    BY <1>2, WaveMoves DEF UnitsTypes
  <2>4. ASSUME NEW m \in Runs, NEW x \in Units
        PROVE  LET w == work'[m][x] IN
                        /\ m > run => Off(w)
                        /\ w.pc = "settle" => w.out \in Outs /\ w.todo \in Left(w.out)
                        /\ w.async => ~Redelegates(x)
                        /\ w.out = "gone" => w.async
    <3>1. CASE m = run /\ x \in Starting(k, broken)
      <4>1. LET w == work'[run][x] IN w.pc = "slot" /\ w.async = IsAsync(k, x) /\ w.out = "none"
        BY <2>2, <3>1 DEF WaveLaunch
      <4>2. IsAsync(k, x) => ~Redelegates(x)
        BY <2>3, UnitShapes DEF IsAsync, Redelegates
      <4>3. ~(m > run)
        BY <2>3, <3>1, RunsAssumption DEF Runs
      <4> QED BY <3>1, <4>1, <4>2, <4>3
    <3>2. CASE ~(m = run /\ x \in Starting(k, broken))
      <4>1. work'[m][x] = work[m][x]
        BY <2>2, <3>2 DEF WaveLaunch, OtherWork
      <4> QED BY <4>1 DEF WorkRight
    <3> QED BY <3>1, <3>2
  <2> QED BY <2>1, <2>3, <2>4 DEF WorkRight, Redelegates
<1>3. ASSUME NEW k \in Callers, NEW u \in Units, StartRedelegating(k, u) PROVE UnitsTypes' /\ WorkRight'
  <2>1. UnitsTypes'
    BY <1>3, StartMoves DEF UnitsTypes
  <2>2. WorkExcept(run, u) /\ work'[run][u].pc = "run" /\ ~work'[run][u].async /\ work'[run][u].out = "none"
        /\ UNCHANGED <<shape, run>> /\ run \in Runs
    BY <1>3, StartMoves DEF StartsAlone, UnitsTypes
  <2>3. \A m \in Runs : m > run => m # run
    BY <2>2 DEF Runs
  <2> QED BY <2>1, <2>2, <2>3 DEF WorkRight, WorkExcept, Redelegates
<1>4. ASSUME NEW l \in Runs, NEW u \in Units, TakeSlot(l, u) \/ Gone(l, u) \/ Back(l, u)
      PROVE  UnitsTypes' /\ WorkRight'
  <2>1. UnitsTypes'
    BY <1>4, AdvanceMoves DEF UnitsTypes
  <2>2. Advances(l, u) /\ UNCHANGED <<shape, run>>
    BY <1>4, AdvanceMoves
  <2>3. work[l][u].pc # "off" /\ ~(l > run)
    BY <2>2 DEF Advances, WorkRight, Off
  <2>4. ASSUME NEW m \in Runs, NEW x \in Units
        PROVE  LET w == work'[m][x] IN
                        /\ m > run => Off(w)
                        /\ w.pc = "settle" => w.out \in Outs /\ w.todo \in Left(w.out)
                        /\ w.async => ~Redelegates(x)
                        /\ w.out = "gone" => w.async
    <3>1. CASE m = l /\ x = u
      BY <2>2, <2>3, <3>1 DEF Advances, WorkRight
    <3>2. CASE m # l \/ x # u
      <4>1. work'[m][x] = work[m][x]
        BY <2>2, <3>2 DEF Advances, WorkExcept
      <4> QED BY <4>1 DEF WorkRight
    <3> QED BY <3>1, <3>2
  <2> QED BY <2>1, <2>2, <2>4 DEF WorkRight, Redelegates
<1>5. ASSUME NEW l \in Runs, NEW u \in Units, Settle(l, u) PROVE UnitsTypes' /\ WorkRight'
  BY <1>5, SettleTypes
<1>6. CASE NextGroup
  BY <1>6, <1>w, GroupMoves DEF UnitsTypes, Groups
<1>7. CASE WaveEnds
  <2>1. Unknown \in [Units -> Statuses]
    BY DEF Unknown, Statuses
  <2>2. registry' \in [Callers -> [Units -> Statuses]]
    BY <1>7, <2>1 DEF WaveEnds, UnitsTypes
  <2> QED BY <1>7, <1>w, <2>1, <2>2 DEF UnitsTypes, WaveEnds
<1>8. CASE PausedInWave \/ PausedRun \/ FailedRun \/ FinishRun \/ Crash
  <2>1. UnitsTypes'
    BY <1>8, LeaveMoves, LeaveTypes
  <2>2. CASE work' = work
    BY <1>8, <1>w, <2>1, <2>2, LeaveMoves
  <2>3. CASE work' = [l \in Runs |-> [u \in Units |-> NoWork]]
    <3>1. \A l \in Runs, u \in Units : work'[l][u] = NoWork
      BY <2>3
    <3> QED BY <2>1, <3>1 DEF WorkRight, NoWork, Off
  <2> QED BY <1>8, <2>2, <2>3, LeaveMoves
<1>9. ASSUME NEW k \in Callers, NEW batch \in SUBSET Children(k), Delegate(k, batch)
      PROVE  UnitsTypes' /\ WorkRight'
  BY <1>9, <1>w, DelegateMoves DEF UnitsTypes
<1>10. ASSUME NEW k \in Callers, NEW u \in Units, CancelDelegation(k, u) PROVE UnitsTypes' /\ WorkRight'
  BY <1>10, <1>w, CancelMoves DEF UnitsTypes
<1>11. CASE Resume
  <2>1. UnitsTypes'
    BY <1>11, ResumeMoves DEF UnitsTypes, Relaunchable
  <2>2. UNCHANGED <<shape, work>> /\ run' = run + 1 /\ run \in Nat
    <3>1. run \in Nat
      BY RunsAssumption DEF UnitsTypes, Runs
    <3> QED BY <1>11, <3>1, ResumeMoves
  <2>3. \A l \in Runs : l > run' => l > run
    BY <2>2, RunsAssumption DEF Runs
  <2> QED BY <2>1, <2>2, <2>3 DEF WorkRight, Redelegates
<1>12. CASE PauseSession
  BY <1>12, <1>w DEF PauseSession, UnitsTypes, waveVars
<1>13. CASE QuitRun
  BY <1>13, <1>w DEF QuitRun, UnitsTypes, waveVars
<1> QED BY <1>0, <1>1, <1>2, <1>3, <1>4, <1>5, <1>6, <1>7, <1>8, <1>9, <1>10, <1>11, <1>12, <1>13, UnitsCases
(* A call that is free has launched all it was given; only a run that goes  *)
(* on has calls, and an executor makes them while it runs.                  *)
CallsFree == \A k \in Callers :
  /\ call[k].pc = "free" => call[k].pending = {} /\ call[k].wave = {}
  /\ ~Going => call[k].pc = "free"
  /\ Going /\ k # Root /\ call[k].pc = "launch" => work[run][k].pc = "run" /\ Redelegates(k)

Mine(k) == {u \in Units : shape[u].by = k \/ (k = Root /\ phase = "wave")}
Asked(k) == call[k].pending \cup call[k].wave

(* An execution belongs to the call that launched it.                       *)
Owned ==
  /\ \A k \in Callers : Asked(k) \subseteq Mine(k)
  /\ Going => \A u \in Units : LET w == work[run][u] IN ~Off(w) =>
       /\ u \in Mine(w.owner)
       /\ ~w.async => u \in call[w.owner].wave
       /\ w.async /\ w.owner = Root => phase = "llm"

Succeeded(u) == Ok(u) \/ (work[run][u].pc = "settle" /\ work[run][u].out = "ok")

(* What a call has not launched yet has not succeeded, and what it waits    *)
(* for is its own.                                                          *)
CallsOpen == \A k \in Callers :
  /\ call[k].pending \cap call[k].wave = {}
  /\ \A u \in call[k].pending : Off(work[run][u]) /\ ~Ok(u)
  /\ \A u \in call[k].wave :
       IF Off(work[run][u])
         THEN Redelegates(u) /\ ~Ok(u) /\ \A d \in shape[u].deps : Succeeded(d)
         ELSE work[run][u].owner = k /\ ~work[run][u].async

(* The wave goes upwards: what it has relaunched lies deeper than what is   *)
(* left, and a unit it has not relaunched makes no calls of its own.        *)
Waiting(t) ==
  /\ Off(work[run][t]) /\ call[t].pc = "free"
  /\ \A x \in Units : ~Off(work[run][x]) => work[run][x].owner # t

Upwards == phase = "wave" =>
  /\ \A t \in todo :
       /\ Waiting(t) /\ ~Ok(t)
       /\ \A x \in Units : x \in Asked(Root) \/ ~Off(work[run][x]) => Depth(x) > Depth(t)
  /\ \A x \in Asked(Root) :
       /\ \A y \in Asked(Root) : Depth(y) = Depth(x)
       /\ \A y \in Units : ~Off(work[run][y]) => Depth(y) >= Depth(x)
       /\ Off(work[run][x]) => Waiting(x)

(* A result that is not written yet is not there.                           *)
Unwritten == \A u \in Units : Unboarded(work[run][u]) => ~Ok(u)

(* What the registry and the resume take for completed has succeeded.       *)
ToldRight ==
  /\ \A k \in Callers, u \in Units :
       /\ registry[k][u] = "completed" => Succeeded(u)
       /\ ~Going => registry[k][u] = "none"
  /\ phase = "wave" => \A u \in Units : replay[u] = "completed" => Ok(u)

(* A status of completed comes after the result, in both views.             *)
Resulted == \A u \in Units :
  /\ \A v \in Views : ledger[v][u] = "completed" => results["disk"][u] # "none"
  /\ \A l \in Runs : LET w == work[l][u] IN
       w.pc = "settle" /\ w.out = "ok" /\ ~AtBoard(w) => results["disk"][u] # "none"

(* The executor's registry knows what is at work for it.                    *)
Known == phase = "llm" =>
  /\ \A u \in call[Root].pending : registry[Root][u] = "pending"
  /\ \A u \in Units : LET w == work[run][u] IN
       w.pc \in {"slot", "run"} /\ w.async /\ w.owner = Root
         => registry[Root][u] \in {"running", "cancelled"}

(* What an execution has written, and why it stopped.                       *)
SettledRight ==
  /\ \A u \in Units : LET w == work[run][u] IN
       w.pc = "settle" /\ ~AtBoard(w) /\ w.out # "gone" => results["run"][u] = ResultOf(w.out)
  /\ Going => \A u \in Units : LET w == work[run][u] IN
       /\ w.pc = "settle" /\ w.out = "paused" => paused
       /\ w.pc = "settle" /\ w.out \in {"stopped", "gone"} =>
            run \in ctxDone \/ (w.async /\ u \in dropped)
  /\ Going => \A k \in Callers : call[k].pc = "launch" /\ call[k].hold => paused

(* The children of a unit are settled before the wave relaunches it.        *)
Over(c) == results["run"][c] \in {"ok", "error"} \/ ledger["run"][c] \in {"none", "failed"}
Halted == run \in ctxDone \/ (call[Root].pc = "launch" /\ call[Root].hold) \/ pausedAgain

ParentsWait == phase = "wave" =>
  /\ call[Root].pc = "launch" => ~pausedAgain
  /\ \A p \in Units : \A c \in Children(p) :
       /\ p \in todo => c \in todo \cup Asked(Root) \/ Over(c) \/ Halted
       /\ p \in call[Root].pending => Over(c) \/ run \in ctxDone
       /\ p \in call[Root].wave /\ Off(work[run][p]) => Over(c)

(* What was in flight has been relaunched, or is about to be.               *)
Relaunched(u) ==
  \/ paused \/ u \in dropped \/ ~Off(work[run][u])
  \/ ledger["run"][u] \in {"completed", "failed"}
  \/ ledger["run"][u] = "interrupted" /\ run \in ctxDone

WaveSettles == phase = "wave" => \A u \in Units :
  replay[u] \notin {"none", "completed", "failed"} => u \in todo \cup Asked(Root) \/ Relaunched(u)

UnitsIInv ==
  /\ UnitsTypes /\ WorkRight /\ CallsFree /\ Owned /\ CallsOpen /\ Upwards /\ Unwritten
  /\ ToldRight /\ Resulted /\ Known /\ SettledRight /\ ParentsWait /\ WaveSettles

-----------------------------------------------------------------------------
(* Which actions a unit is launched by, and what else they leave alone.     *)

LEMMA RunOne ==
  ASSUME UnitsTypes
  PROVE  /\ run \in Runs /\ run \in Nat /\ Root \in Callers /\ Units \subseteq Callers /\ Root \notin Units
         /\ \A x \in Units : Depth(x) \in Nat
         /\ \A k \in Callers, x \in Units :
              shape[x].by = k /\ k # Root => k \in Units /\ Depth(x) = Depth(k) + 1
         /\ \A k \in Callers :
              /\ call[k].pending \subseteq Units /\ call[k].wave \subseteq Units
              /\ call[k].pc \in {"free", "launch"}
         /\ \A l \in Runs, x \in Units : work[l][x].owner \in Callers
<1>1. shape \in [Units -> ShapeType] /\ \A u \in Units :
         shape[u].depth = IF shape[u].by = Root THEN 0 ELSE shape[shape[u].by].depth + 1
  BY UnitShapes DEF UnitsTypes
<1>2. \A u \in Units : Depth(u) \in Nat
  BY <1>1 DEF Depth, ShapeType
<1>3. \A k \in Callers, u \in Units : shape[u].by = k /\ k # Root => k \in Units /\ Depth(u) = Depth(k) + 1
  BY <1>1 DEF Depth, Callers
<1>4. call \in [Callers -> CallType] /\ work \in [Runs -> [Units -> WorkType]] /\ run \in Runs
  BY DEF UnitsTypes
<1>5. \A k \in Callers : call[k].pending \subseteq Units /\ call[k].wave \subseteq Units
                               /\ call[k].pc \in {"free", "launch"}
  BY <1>4 DEF CallType
<1>6. \A l \in Runs, u \in Units : work[l][u].owner \in Callers
  <2> SUFFICES ASSUME NEW l \in Runs, NEW u \in Units PROVE work[l][u].owner \in Callers
    OBVIOUS
  <2>1. work[l][u] \in WorkType
    BY <1>4
  <2> QED BY <2>1 DEF WorkType
<1> QED BY <1>2, <1>3, <1>4, <1>5, <1>6, UnitsAssumption, RunsAssumption DEF Callers, Runs

(* No two calls have a unit in common.                                      *)
LEMMA Apart ==
  ASSUME UnitsIInv, Going, NEW j \in Callers, NEW k \in Callers, j # k, NEW u \in Asked(j)
  PROVE  u \notin Asked(k)
<1> SUFFICES ASSUME u \in Asked(k) PROVE FALSE
  OBVIOUS
<1>1. UnitsTypes /\ CallsFree /\ Owned /\ Upwards
  BY DEF UnitsIInv
<1>2. u \in Mine(j) /\ u \in Mine(k) /\ u \in Units
  BY <1>1 DEF Owned, Mine
<1>3. ASSUME NEW i \in Callers, i # Root, shape[u].by = i, u \in Asked(i), u \in Asked(Root), phase = "wave"
      PROVE  FALSE
  <2>1. i \in Units /\ Depth(u) = Depth(i) + 1 /\ Depth(i) \in Nat /\ Depth(u) \in Nat
    BY <1>1, <1>2, <1>3, RunOne
  <2>2. work[run][i].pc = "run"
    <3>1. call[i].pc = "launch"
      BY <1>1, <1>3, RunOne DEF CallsFree, Asked
    <3>2. Going
      BY <1>3 DEF Going
    <3> QED BY <1>1, <1>3, <3>1, <3>2 DEF CallsFree
  <2>3. Depth(i) >= Depth(u)
    BY <1>1, <1>3, <2>1, <2>2 DEF Upwards, Off
  <2> QED BY <2>1, <2>3
<1> QED BY <1>2, <1>3 DEF Mine

(* What a wave starts has been asked for, and is not at work.               *)
LEMMA StartingOff ==
  ASSUME UnitsIInv, NEW k \in Callers, NextWave(k), NEW broken \in SUBSET Ready(k)
  PROVE  /\ Going
         /\ \A u \in Starting(k, broken) \cup InWave(k, broken) \cup broken :
              u \in call[k].pending /\ u \in Units /\ Off(work[run][u]) /\ ~Ok(u)
         /\ Ready(k) \subseteq call[k].pending
<1>1. UnitsTypes /\ CallsFree /\ CallsOpen
  BY DEF UnitsIInv
<1>2. Ready(k) \subseteq call[k].pending /\ call[k].pc = "launch"
  BY <1>1, WaveMoves DEF Ready
<1>3. Going
  BY <1>1, <1>2 DEF CallsFree
<1> QED BY <1>1, <1>2, <1>3, RunOne DEF CallsOpen, Starting, InWave

(* A caller at launch is at work itself.                                    *)
LEMMA CallerWorks ==
  ASSUME UnitsIInv, NEW k \in Callers, call[k].pc # "free"
  PROVE  Going /\ (k # Root => k \in Units /\ work[run][k].pc = "run" /\ Redelegates(k))
<1>1. UnitsTypes /\ CallsFree
  BY DEF UnitsIInv
<1> QED BY <1>1, RunOne DEF CallsFree, Callers

(* What a settling execution keeps for the others.                          *)
LEMMA SettleKeeps ==
  ASSUME UnitsIInv, NEW l \in Runs, NEW u \in Units, Settle(l, u)
  PROVE  /\ work[l][u].pc = "settle" /\ WorkExcept(l, u)
         /\ LET w == work[l][u] n == work'[l][u] IN
              \/ Off(n) /\ ~n.async /\ Ends(l, u) /\ CallsAfter(l, u)
              \/ n.pc = "settle" /\ n.owner = w.owner /\ n.async = w.async /\ n.out = w.out
                 /\ UNCHANGED call
         /\ \A k \in Callers :
              call'[k].pc = call[k].pc /\ call'[k].pending = call[k].pending
              /\ call'[k].wave \subseteq call[k].wave /\ call[k].wave \ {u} \subseteq call'[k].wave
         /\ \A x \in Units : (x # u \/ l # run) =>
              results'["run"][x] = results["run"][x] /\ ledger'["run"][x] = ledger["run"][x]
         /\ UNCHANGED <<shape, run, phase, paused, ctxDone, quits, replay, todo, pausedAgain, dropped>>
<1>1. UnitsTypes /\ WorkRight
  BY DEF UnitsIInv
<1>2. /\ work[l][u].pc = "settle" /\ SettleCases(l, u)
      /\ UNCHANGED <<shape, run, phase, paused, ctxDone, quits, replay, todo, pausedAgain, dropped>>
  BY <1>1, SettleSteps
<1>3. work[l][u].out \in Outs
  BY <1>1, <1>2 DEF WorkRight
<1>7. Registers(l, u) \/ (BoardsIt(l, u) /\ work[l][u].out \in Outs \ {"gone"}) \/ Ledgers(l, u)
  BY <1>2, <1>3 DEF SettleCases
<1>8. \A x \in Units : (x # u \/ l # run) =>
        results'["run"][x] = results["run"][x] /\ ledger'["run"][x] = ledger["run"][x]
  <2>1. CASE Registers(l, u)
    BY <2>1 DEF Registers
  <2>2. CASE BoardsIt(l, u) /\ work[l][u].out \in Outs \ {"gone"}
    BY <1>1, <2>2, BoardsMoves DEF BoardsIt, Views
  <2>3. CASE Ledgers(l, u)
    BY <1>1, <1>3, <2>3, LedgersMoves DEF Ledgers, Views
  <2> QED BY <1>7, <2>1, <2>2, <2>3
<1>4. CASE Ends(l, u)
  <2>1. /\ WorkExcept(l, u) /\ Off(work'[l][u]) /\ ~work'[l][u].async /\ CallsAfter(l, u)
    BY <1>1, <1>4, EndsMoves
  <2>2. \A k \in Callers :
              call'[k].pc = call[k].pc /\ call'[k].pending = call[k].pending
              /\ call'[k].wave \subseteq call[k].wave /\ call[k].wave \ {u} \subseteq call'[k].wave
    BY <2>1 DEF CallsAfter
  <2> QED BY <1>2, <1>4, <1>8, <2>1, <2>2
<1>5. CASE \E rest \in Todos : Steps(l, u, rest) /\ UNCHANGED call
  <2>1. PICK rest \in Todos : Steps(l, u, rest) /\ UNCHANGED call
    BY <1>5
  <2>2. /\ WorkExcept(l, u)
        /\ LET w == work[l][u] n == work'[l][u] IN
              n.pc = w.pc /\ n.owner = w.owner /\ n.async = w.async /\ n.out = w.out
    BY <1>1, <2>1, StepsMoves
  <2> QED BY <1>2, <1>8, <2>1, <2>2
<1>6. Ends(l, u) \/ \E rest \in Todos : Steps(l, u, rest) /\ UNCHANGED call
  BY <1>2 DEF SettleCases, Todos
<1> QED BY <1>4, <1>5, <1>6

-----------------------------------------------------------------------------
(* Within a run a success stays one.                                        *)

WithinRun ==
  \/ \E k \in Callers : Return(k) \/ GiveUp(k)
  \/ \E k \in Callers : NextWave(k)
  \/ \E k \in Callers, u \in Units : StartRedelegating(k, u)
  \/ \E l \in Runs, u \in Units : TakeSlot(l, u) \/ Gone(l, u) \/ Back(l, u)
  \/ \E l \in Runs, u \in Units : Settle(l, u)
  \/ NextGroup
  \/ WaveEnds
  \/ \E k \in Callers : \E batch \in SUBSET Children(k) : Delegate(k, batch)
  \/ \E k \in Callers, u \in Units : CancelDelegation(k, u)
  \/ PauseSession
  \/ QuitRun

LEMMA OkKept ==
  ASSUME UnitsIInv, WithinRun, NEW u \in Units, Ok(u)
  PROVE  Ok(u)'
<1>1. UnitsTypes /\ WorkRight /\ Unwritten /\ Upwards
  BY DEF UnitsIInv
<1>2. ASSUME UNCHANGED results PROVE Ok(u)'
  BY <1>2 DEF Ok
<1>3. CASE NextGroup
  <2>1. Groups
    BY <1>1, <1>3, GroupMoves
  <2>2. u \notin todo
    BY <1>1, <2>1 DEF Upwards, Groups
  <2>3. u \notin Group
    BY <2>2 DEF Group
  <2> QED BY <2>1, <2>3 DEF Groups, Ok, Views
<1>4. ASSUME NEW l \in Runs, NEW x \in Units, Settle(l, x) PROVE Ok(u)'
  <2>1. CASE x # u \/ l # run
    BY <1>4, <2>1, SettleKeeps DEF Ok
  <2>2. CASE x = u /\ l = run
    <3>1. work[run][u].pc = "settle" /\ SettleCases(run, u)
      BY <1>1, <1>4, <2>2, SettleSteps
    <3>2. ~Unboarded(work[run][u])
      BY <1>1 DEF Unwritten
    <3>3. UNCHANGED results
      BY <3>1, <3>2 DEF SettleCases, Unboarded, AtBoard, OnBoard, Registers, Ledgers
    <3> QED BY <3>3, <1>2
  <2> QED BY <2>1, <2>2
<1>5. ASSUME NEW k \in Callers, Return(k) \/ GiveUp(k) PROVE UNCHANGED results
  BY <1>1, <1>5, ReturnMoves
<1>6. ASSUME NEW k \in Callers, NextWave(k) PROVE UNCHANGED results
  BY <1>6 DEF NextWave
<1>7. ASSUME NEW k \in Callers, NEW x \in Units, StartRedelegating(k, x) PROVE UNCHANGED results
  BY <1>7 DEF StartRedelegating
<1>8. ASSUME NEW l \in Runs, NEW x \in Units, TakeSlot(l, x) \/ Gone(l, x) \/ Back(l, x)
      PROVE  UNCHANGED results
  BY <1>8 DEF TakeSlot, Gone, Back
<1>9. ASSUME NEW k \in Callers, NEW batch \in SUBSET Children(k), Delegate(k, batch)
      PROVE  UNCHANGED results
  BY <1>9 DEF Delegate
<1>10. ASSUME NEW k \in Callers, NEW x \in Units, CancelDelegation(k, x) PROVE UNCHANGED results
  BY <1>10 DEF CancelDelegation
<1>11. WaveEnds \/ PauseSession \/ QuitRun => UNCHANGED results
  BY DEF WaveEnds, PauseSession, QuitRun
<1> QED BY <1>2, <1>3, <1>4, <1>5, <1>6, <1>7, <1>8, <1>9, <1>10, <1>11 DEF WithinRun

LEMMA SucceededKept ==
  ASSUME UnitsIInv, WithinRun, NEW u \in Units, Succeeded(u)
  PROVE  Succeeded(u)'
<1>1. UnitsTypes /\ WorkRight /\ run \in Runs
  BY DEF UnitsIInv, UnitsTypes
<1>2. CASE Ok(u)
  BY <1>2, OkKept DEF Succeeded
<1>3. CASE work[run][u].pc = "settle" /\ work[run][u].out = "ok"
  <2>1. ASSUME run' = run, work'[run][u] = work[run][u] PROVE Succeeded(u)'
    BY <1>3, <2>1 DEF Succeeded
  <2>2. ASSUME NEW l \in Runs, NEW x \in Units, Settle(l, x) PROVE Succeeded(u)'
    <3>1. CASE x # u \/ l # run
      BY <1>1, <2>1, <2>2, <3>1, SettleKeeps DEF WorkExcept
    <3>2. CASE x = u /\ l = run
      <4>1. CASE work'[run][u].pc = "settle" /\ work'[run][u].out = work[run][u].out
        BY <1>3, <2>2, <4>1, SettleKeeps DEF Succeeded
      <4>2. CASE Ends(run, u)
        <5>1. ~AtBoard(work[run][u])
          <6>1. SettleCases(run, u) /\ work[run][u].todo \in Left("ok")
            BY <1>1, <1>3, <2>2, <3>2, SettleSteps DEF WorkRight
          <6>2. CASE AtBoard(work[run][u])
            <7>1. \E rest \in Todos : Steps(run, u, rest)
              BY <1>3, <6>1, <6>2 DEF SettleCases, AtBoard, OnBoard, Todos
            <7>2. work'[run][u].pc = "settle"
              BY <1>1, <1>3, <7>1, StepsMoves
            <7>3. Off(work'[run][u])
              BY <1>1, <4>2, EndsMoves
            <7> QED BY <7>2, <7>3 DEF Off
          <6> QED BY <6>2
        <5>2. results["run"][u] = "ok"
          BY <1>3, <5>1 DEF UnitsIInv, SettledRight, ResultOf
        <5> QED BY <5>2, OkKept DEF Ok, Succeeded
      <4> QED BY <2>2, <3>2, <4>1, <4>2, SettleKeeps
    <3> QED BY <3>1, <3>2
  <2>3. ASSUME NEW k \in Callers, NextWave(k) PROVE Succeeded(u)'
    <3>1. PICK broken \in SUBSET Ready(k) : WaveLaunch(k, broken)
      BY <1>1, <2>3, WaveMoves
    <3>2. u \notin Starting(k, broken)
      BY <1>3, <2>3, StartingOff DEF Off
    <3> QED BY <1>1, <2>1, <2>3, <3>1, <3>2, WaveMoves DEF WaveLaunch, OtherWork
  <2>4. ASSUME NEW k \in Callers, NEW x \in Units, StartRedelegating(k, x) PROVE Succeeded(u)'
    <3>1. StartsAlone(k, x) /\ Off(work[run][x]) /\ run' = run
      BY <1>1, <2>4, StartMoves
    <3>2. x # u
      BY <1>3, <3>1 DEF Off
    <3>3. work'[run][u] = work[run][u]
      BY <1>1, <3>1, <3>2 DEF StartsAlone, WorkExcept
    <3> QED BY <2>1, <3>1, <3>3
  <2>5. ASSUME NEW l \in Runs, NEW x \in Units, TakeSlot(l, x) \/ Gone(l, x) \/ Back(l, x)
        PROVE  Succeeded(u)'
    <3>1. Advances(l, x) /\ run' = run
      BY <1>1, <2>5, AdvanceMoves
    <3>2. l # run \/ x # u
      BY <1>3, <3>1 DEF Advances
    <3> QED BY <1>1, <2>1, <3>1, <3>2 DEF Advances, WorkExcept
  <2>6. ASSUME NEW k \in Callers, Return(k) \/ GiveUp(k) PROVE Succeeded(u)'
    BY <1>1, <2>1, <2>6, ReturnMoves
  <2>7. ASSUME NEW k \in Callers, NEW batch \in SUBSET Children(k), Delegate(k, batch)
        PROVE  Succeeded(u)'
    BY <1>1, <2>1, <2>7, DelegateMoves
  <2>8. ASSUME NEW k \in Callers, NEW x \in Units, CancelDelegation(k, x) PROVE Succeeded(u)'
    BY <1>1, <2>1, <2>8, CancelMoves
  <2>9. CASE NextGroup
    BY <1>1, <2>1, <2>9, GroupMoves
  <2>10. CASE WaveEnds \/ PauseSession \/ QuitRun
    BY <2>1, <2>10 DEF WaveEnds, PauseSession, QuitRun
  <2> QED BY <2>2, <2>3, <2>4, <2>5, <2>6, <2>7, <2>8, <2>9, <2>10 DEF WithinRun
<1> QED BY <1>2, <1>3 DEF Succeeded

-----------------------------------------------------------------------------
(* Pausing the session, and a quit that has not ended the run yet.          *)
Idles ==
  /\ UNCHANGED <<shape, run, phase, replay, todo, pausedAgain, registry, call, dropped, work,
                 ledger, results>>
  /\ (paused => paused') /\ ctxDone \subseteq ctxDone'

LEMMA IdleMoves ==
  ASSUME PauseSession \/ QuitRun \/ UNCHANGED unitVars
  PROVE  Idles
  BY DEF PauseSession, QuitRun, Idles, waveVars, unitVars

(* The calls are kept right.                                                *)
LEMMA CallsFreeKept ==
  UnitsIInv /\ [UnitsNext]_unitVars => CallsFree'
<1> SUFFICES ASSUME UnitsIInv, [UnitsNext]_unitVars PROVE CallsFree'
  OBVIOUS
<1>1. UnitsTypes /\ WorkRight /\ CallsFree
  BY DEF UnitsIInv
<1>2. ASSUME NEW k \in Callers, Return(k) \/ GiveUp(k) PROVE CallsFree'
  BY <1>1, <1>2, ReturnMoves DEF Returns, CallsFree, OtherCalls, FreeCall, Going, Redelegates
<1>3. ASSUME NEW k \in Callers, NextWave(k) PROVE CallsFree'
  <2>1. PICK broken \in SUBSET Ready(k) : WaveLaunch(k, broken)
    BY <1>1, <1>3, WaveMoves
  <2>2. /\ call[k].pc = "launch" /\ UNCHANGED <<shape, run, phase>> /\ run \in Runs
        /\ \A j \in Callers : call'[j].pc = call[j].pc
        /\ \A j \in Callers \ {k} : call'[j] = call[j]
        /\ call'[k].pc = "launch"
    <3>1. call[k].pc = "launch" /\ UNCHANGED <<shape, run, phase>> /\ run \in Runs
      BY <1>1, <1>3, WaveMoves, RunOne
    <3>2. call'[k].pc = "launch" /\ \A j \in Callers \ {k} : call'[j] = call[j]
      BY <2>1 DEF WaveLaunch, OtherCalls
    <3> QED BY <3>1, <3>2
  <2>3. \A x \in Units : work[run][x].pc = "run" => work'[run][x] = work[run][x]
    BY <1>3, <2>1, StartingOff DEF WaveLaunch, OtherWork, Off
  <2>4. \A j \in Callers : j # Root => j \in Units
    BY DEF Callers
  <2> QED BY <1>1, <2>2, <2>3, <2>4 DEF CallsFree, Going, Redelegates
<1>4. ASSUME NEW k \in Callers, NEW u \in Units, StartRedelegating(k, u) PROVE CallsFree'
  <2>1. /\ StartsAlone(k, u) /\ Redelegates(u) /\ UNCHANGED <<shape, run, phase, call>> /\ run \in Runs
    BY <1>1, <1>4, StartMoves, RunOne
  <2>2. \A x \in Units : x # u => work'[run][x] = work[run][x]
    BY <2>1 DEF StartsAlone, WorkExcept
  <2>3. work'[run][u].pc = "run"
    BY <2>1 DEF StartsAlone
  <2>4. \A j \in Callers : j # Root => j \in Units
    BY DEF Callers
  <2> QED BY <1>1, <2>1, <2>2, <2>3, <2>4 DEF CallsFree, Going, Redelegates
<1>5. ASSUME NEW l \in Runs, NEW u \in Units, TakeSlot(l, u) \/ Gone(l, u) \/ Back(l, u)
      PROVE  CallsFree'
  <2>1. /\ Advances(l, u) /\ UNCHANGED <<shape, run, phase, call>> /\ run \in Runs
        /\ work'[l][u].pc = "settle" /\ Redelegates(u) => call[u].pc = "free"
    BY <1>1, <1>5, AdvanceMoves, RunOne
  <2>2. \A x \in Units : x # u \/ l # run => work'[run][x] = work[run][x]
    BY <2>1 DEF Advances, WorkExcept
  <2>3. work'[l][u].pc \in {"run", "settle"}
    BY <2>1 DEF Advances
  <2>4. \A j \in Callers : j # Root => j \in Units
    BY DEF Callers
  <2> QED BY <1>1, <2>1, <2>2, <2>3, <2>4 DEF CallsFree, Going, Redelegates
<1>6. ASSUME NEW l \in Runs, NEW u \in Units, Settle(l, u) PROVE CallsFree'
  <2>1. /\ UNCHANGED <<shape, run, phase>> /\ run \in Runs /\ work[l][u].pc = "settle"
        /\ \A k \in Callers :
              call'[k].pc = call[k].pc /\ call'[k].pending = call[k].pending
              /\ call'[k].wave \subseteq call[k].wave
    BY <1>1, <1>6, SettleKeeps, RunOne
  <2>2. \A x \in Units : x # u \/ l # run => work'[run][x] = work[run][x]
    BY <1>6, <2>1, SettleKeeps DEF WorkExcept
  <2>4. \A j \in Callers : j # Root => j \in Units
    BY DEF Callers
  <2> QED BY <1>1, <2>1, <2>2, <2>4 DEF CallsFree, Going, Redelegates
<1>7. CASE NextGroup
  BY <1>1, <1>7, GroupMoves DEF Groups, CallsFree, OtherCalls, Going, Redelegates
<1>8. CASE WaveEnds
  BY <1>1, <1>8 DEF WaveEnds, CallsFree, Going, Redelegates
<1>9. CASE PausedInWave \/ PausedRun \/ FailedRun \/ FinishRun \/ Crash
  <2>1. Leaves
    BY <1>9, LeaveMoves
  <2> QED BY <2>1 DEF Leaves, CallsFree, Going, FreeCall
<1>10. ASSUME NEW k \in Callers, NEW batch \in SUBSET Children(k), Delegate(k, batch)
       PROVE  CallsFree'
  <2>1. /\ Delegates(k, batch) /\ Going /\ UNCHANGED <<shape, run, phase, work>>
        /\ k # Root => work[run][k].pc = "run" /\ Redelegates(k)
    BY <1>1, <1>10, DelegateMoves
  <2> QED BY <1>1, <2>1 DEF Delegates, CallsFree, OtherCalls, Going, Redelegates
<1>11. ASSUME NEW k \in Callers, NEW u \in Units, CancelDelegation(k, u) PROVE CallsFree'
  BY <1>1, <1>11, CancelMoves DEF CallsFree, Going, Redelegates
<1>12. CASE Resume
  BY <1>1, <1>12, ResumeMoves DEF CallsFree, Going
<1>13. ASSUME Idles PROVE CallsFree'
  BY <1>1, <1>13 DEF Idles, CallsFree, Going, Redelegates
<1> QED BY <1>2, <1>3, <1>4, <1>5, <1>6, <1>7, <1>8, <1>9, <1>10, <1>11, <1>12, <1>13, UnitsCases,
           IdleMoves DEF unitVars

(* An execution and the call it was launched by go together.                *)
LEMMA OwnedKept ==
  UnitsIInv /\ [UnitsNext]_unitVars => Owned'
<1> SUFFICES ASSUME UnitsIInv, [UnitsNext]_unitVars PROVE Owned'
  OBVIOUS
<1>1. UnitsTypes /\ WorkRight /\ CallsFree /\ Owned
  BY DEF UnitsIInv
<1>2. /\ run \in Runs /\ run \in Nat /\ Root \in Callers
      /\ \A l \in Runs, x \in Units : work[l][x].owner \in Callers
      /\ \A k \in Callers : call[k].pending \subseteq Units /\ call[k].wave \subseteq Units
    BY <1>1, RunOne
(* The calls shrink, or take what is theirs; a call without a wave has no   *)
(* blocking execution.                                                      *)
<1>3. ASSUME UNCHANGED <<shape, run, phase>>,
             \A k \in Callers : Asked(k)' \subseteq Mine(k),
             \A x \in Units : ~Off(work'[run][x]) =>
                 LET w == work'[run][x] IN
                 \/ ~Off(work[run][x]) /\ w.owner = work[run][x].owner /\ w.async = work[run][x].async
                    /\ (x \in call[w.owner].wave => x \in call'[w.owner].wave)
                 \/ /\ x \in Mine(w.owner) /\ (~w.async => x \in call'[w.owner].wave)
                    /\ (w.async /\ w.owner = Root => phase = "llm")
      PROVE  Owned'
  <2>1. \A k : Mine(k)' = Mine(k)
    BY <1>3 DEF Mine
  <2>2. ASSUME Going, NEW x \in Units, ~Off(work'[run][x])
        PROVE  LET w == work'[run][x] IN
               /\ x \in Mine(w.owner) /\ (~w.async => x \in call'[w.owner].wave)
               /\ (w.async /\ w.owner = Root => phase = "llm")
    BY <1>1, <1>2, <1>3, <2>2 DEF Owned
  <2>3. Going' = Going
    BY <1>3 DEF Going
  <2> QED BY <1>3, <2>1, <2>2, <2>3 DEF Owned, Off
<1>4. ASSUME NEW k \in Callers, Return(k) \/ GiveUp(k) PROVE Owned'
  <2>1. /\ Returns(k) /\ UNCHANGED <<shape, run, phase, work>>
    BY <1>1, <1>4, ReturnMoves
  <2>2. \A j \in Callers : Asked(j)' \subseteq Asked(j)
    BY <2>1 DEF Returns, OtherCalls, Asked, FreeCall
  <2>3. \A j \in Callers : call[j].wave \subseteq call'[j].wave
    BY <2>1 DEF Returns, OtherCalls
  <2> QED BY <1>1, <1>2, <1>3, <2>1, <2>2, <2>3 DEF Owned
<1>5. ASSUME NEW k \in Callers, NextWave(k) PROVE Owned'
  <2>1. PICK broken \in SUBSET Ready(k) : WaveLaunch(k, broken)
    BY <1>1, <1>5, WaveMoves
  <2>2. /\ call[k].wave = {} /\ UNCHANGED <<shape, run, phase>> /\ Going
        /\ Starting(k, broken) \subseteq call[k].pending /\ InWave(k, broken) \subseteq call[k].pending
    BY <1>1, <1>5, <2>1, WaveMoves, StartingOff
  <2>3. \A j \in Callers : Asked(j)' \subseteq Asked(j)
    BY <2>1, <2>2 DEF WaveLaunch, OtherCalls, Asked
  <2>4. \A j \in Callers : call[j].wave \subseteq call'[j].wave
    BY <2>1, <2>2 DEF WaveLaunch, OtherCalls
  <2>5. \A x \in Starting(k, broken) : LET w == work'[run][x] IN
           /\ x \in Mine(w.owner) /\ (~w.async => x \in call'[w.owner].wave)
           /\ (w.async /\ w.owner = Root => phase = "llm")
    <3> SUFFICES ASSUME NEW x \in Starting(k, broken)
                 PROVE  LET w == work'[run][x] IN
           /\ x \in Mine(w.owner) /\ (~w.async => x \in call'[w.owner].wave)
           /\ (w.async /\ w.owner = Root => phase = "llm")
      OBVIOUS
    <3>1. work'[run][x].owner = k /\ work'[run][x].async = IsAsync(k, x)
      BY <2>1 DEF WaveLaunch
    <3>2. x \in Mine(k)
      BY <1>1, <2>2 DEF Owned, Asked
    <3>3. ~IsAsync(k, x) => x \in call'[k].wave
      BY <2>1 DEF WaveLaunch, Starting, InWave
    <3>4. IsAsync(k, x) /\ k = Root => phase = "llm"
      BY <2>2 DEF IsAsync, Going
    <3> QED BY <3>1, <3>2, <3>3, <3>4
  <2>6. \A x \in Units : x \notin Starting(k, broken) => work'[run][x] = work[run][x]
    BY <2>1 DEF WaveLaunch, OtherWork
  <2> QED BY <1>1, <1>2, <1>3, <2>2, <2>3, <2>4, <2>5, <2>6 DEF Owned
<1>6. ASSUME NEW k \in Callers, NEW u \in Units, StartRedelegating(k, u) PROVE Owned'
  <2>1. /\ u \in call[k].wave /\ StartsAlone(k, u) /\ UNCHANGED <<shape, run, phase, call>>
    BY <1>1, <1>6, StartMoves
  <2>2. /\ work'[run][u].owner = k /\ work'[run][u].async = FALSE
        /\ \A x \in Units : x # u => work'[run][x] = work[run][x]
    BY <1>2, <2>1 DEF StartsAlone, WorkExcept
  <2>3. u \in Mine(k)
    BY <1>1, <2>1 DEF Owned, Asked
  <2>4. \A j \in Callers : Asked(j)' = Asked(j)
    BY <2>1 DEF Asked
  <2> QED BY <1>1, <1>2, <1>3, <2>1, <2>2, <2>3, <2>4 DEF Owned
<1>7. ASSUME NEW l \in Runs, NEW u \in Units, TakeSlot(l, u) \/ Gone(l, u) \/ Back(l, u)
      PROVE  Owned'
  <2>1. /\ Advances(l, u) /\ UNCHANGED <<shape, run, phase, call>>
    BY <1>1, <1>7, AdvanceMoves
  <2>2. \A x \in Units : /\ work'[run][x].owner = work[run][x].owner
                         /\ work'[run][x].async = work[run][x].async
                         /\ ~Off(work'[run][x]) => ~Off(work[run][x])
    BY <1>2, <2>1 DEF Advances, WorkExcept, Off
  <2>4. \A j \in Callers : Asked(j)' = Asked(j)
    BY <2>1 DEF Asked
  <2> QED BY <1>1, <1>2, <1>3, <2>1, <2>2, <2>4 DEF Owned
<1>8. ASSUME NEW l \in Runs, NEW u \in Units, Settle(l, u) PROVE Owned'
  <2>1. /\ UNCHANGED <<shape, run, phase>>
        /\ \A k \in Callers :
              call'[k].pending = call[k].pending /\ call'[k].wave \subseteq call[k].wave
    BY <1>8, SettleKeeps
  <2>2. \A j \in Callers : Asked(j)' \subseteq Asked(j)
    BY <2>1 DEF Asked
  <2>3. \A x \in Units : x # u \/ l # run => work'[run][x] = work[run][x]
    BY <1>2, <1>8, SettleKeeps DEF WorkExcept
  <2>4. ASSUME NEW x \in Units, ~Off(work'[run][x])
        PROVE  LET w == work'[run][x] IN
               ~Off(work[run][x]) /\ w.owner = work[run][x].owner /\ w.async = work[run][x].async
               /\ (x \in call[w.owner].wave => x \in call'[w.owner].wave)
    <3>1. CASE l # run
      <4>1. UNCHANGED call \/ CallsAfter(l, u)
        BY <1>8, SettleKeeps
      <4>2. \A j \in Callers : call'[j].wave = call[j].wave
        BY <3>1, <4>1 DEF CallsAfter
      <4> QED BY <1>2, <2>3, <2>4, <3>1, <4>2
    <3>2. CASE l = run /\ x # u
      <4>1. \A j \in Callers : call[j].wave \ {u} \subseteq call'[j].wave
        BY <1>8, SettleKeeps
      <4> QED BY <1>2, <2>3, <2>4, <3>2, <4>1
    <3>3. CASE l = run /\ x = u
      BY <1>2, <1>8, <2>4, <3>3, SettleKeeps DEF Off
    <3> QED BY <3>1, <3>2, <3>3
  <2> QED BY <1>1, <1>3, <2>1, <2>2, <2>4 DEF Owned
<1>9. CASE NextGroup
  <2>1. Groups /\ UNCHANGED <<shape, run, phase, work>>
    BY <1>1, <1>9, GroupMoves
  <2>2. /\ Asked(Root)' = Group /\ \A j \in Callers \ {Root} : Asked(j)' = Asked(j)
        /\ call[Root].wave = {} /\ \A j \in Callers \ {Root} : call'[j] = call[j]
    BY <1>1, <1>2, <2>1 DEF Groups, Asked, OtherCalls, CallsFree
  <2>3. Group \subseteq Mine(Root)
    BY <1>1, <2>1 DEF Group, Groups, Mine, UnitsTypes
  <2> QED BY <1>1, <1>2, <1>3, <2>1, <2>2, <2>3 DEF Owned
<1>10. CASE WaveEnds
  <2>1. /\ phase = "wave" /\ phase' = "llm" /\ call[Root].pc = "free"
        /\ UNCHANGED <<shape, run, call, work>> /\ Going
    BY <1>10 DEF WaveEnds, Going
  <2>2. call[Root].wave = {} /\ Asked(Root) = {}
    BY <1>1, <1>2, <2>1 DEF CallsFree, Asked
  <2>3. \A k \in Callers : k # Root => Mine(k)' = Mine(k)
    BY <2>1 DEF Mine
  <2>4. \A k \in Callers : Asked(k)' = Asked(k)
    BY <2>1 DEF Asked
  <2>5. \A x \in Units : ~Off(work[run][x]) => work[run][x].owner # Root
    BY <1>1, <2>1, <2>2 DEF Owned
  <2>6. \A k \in Callers : Asked(k)' \subseteq Mine(k)'
    BY <1>1, <2>2, <2>3, <2>4 DEF Owned
  <2> QED BY <1>1, <1>2, <2>1, <2>3, <2>5, <2>6 DEF Owned, Off
<1>11. CASE PausedInWave \/ PausedRun \/ FailedRun \/ FinishRun \/ Crash
  <2>1. Leaves
    BY <1>11, LeaveMoves
  <2>2. ~Going' /\ \A k \in Callers : Asked(k)' = {}
    BY <2>1 DEF Leaves, Going, Asked, FreeCall
  <2> QED BY <2>2 DEF Owned
<1>12. ASSUME NEW k \in Callers, NEW batch \in SUBSET Children(k), Delegate(k, batch)
       PROVE  Owned'
  <2>1. Delegates(k, batch) /\ UNCHANGED <<shape, run, phase, work>>
    BY <1>1, <1>12, DelegateMoves
  <2>2. /\ Asked(k)' = Fresh(batch) /\ \A j \in Callers \ {k} : Asked(j)' = Asked(j)
        /\ call[k].wave = {} /\ \A j \in Callers \ {k} : call'[j] = call[j]
    BY <1>1, <2>1 DEF Delegates, Asked, OtherCalls, CallsFree
  <2>3. Fresh(batch) \subseteq Mine(k)
    BY DEF Fresh, Children, Mine
  <2> QED BY <1>1, <1>2, <1>3, <2>1, <2>2, <2>3 DEF Owned
<1>13. ASSUME NEW k \in Callers, NEW u \in Units, CancelDelegation(k, u) PROVE Owned'
  <2>1. UNCHANGED <<shape, run, phase, call, work>>
    BY <1>1, <1>13, CancelMoves
  <2> QED BY <1>1, <2>1 DEF Owned, Asked, Mine, Going, Off
<1>14. CASE Resume
  <2>1. phase = "idle" /\ run' = run + 1 /\ run' \in Runs /\ UNCHANGED <<call, work>>
    BY <1>1, <1>14, ResumeMoves
  <2>2. \A k \in Callers : Asked(k)' = {}
    BY <1>1, <2>1 DEF CallsFree, Asked, Going
  <2>3. \A x \in Units : Off(work'[run'][x])
    <3>1. run' > run
      BY <1>2, <2>1
    <3> QED BY <1>1, <2>1, <3>1 DEF WorkRight
  <2> QED BY <2>2, <2>3 DEF Owned, Off
<1>15. ASSUME Idles PROVE Owned'
  BY <1>1, <1>15 DEF Idles, Owned, Asked, Mine, Going, Off
<1> QED BY <1>4, <1>5, <1>6, <1>7, <1>8, <1>9, <1>10, <1>11, <1>12, <1>13, <1>14, <1>15, UnitsCases,
           IdleMoves DEF unitVars

(* A result changes only when its execution writes it, or when the wave     *)
(* marks a unit that is paused.                                             *)
LEMMA OkFresh ==
  ASSUME UnitsIInv, WithinRun, NEW u \in Units, ~Ok(u), Off(work[run][u])
  PROVE  ~Ok(u)'
<1>1. UnitsTypes /\ WorkRight /\ run \in Runs
  BY DEF UnitsIInv, UnitsTypes
<1>2. ASSUME UNCHANGED results PROVE ~Ok(u)'
  BY <1>2 DEF Ok
<1>3. CASE NextGroup
  <2>1. Groups
    BY <1>1, <1>3, GroupMoves
  <2> QED BY <2>1 DEF Groups, Ok, Views
<1>4. ASSUME NEW l \in Runs, NEW x \in Units, Settle(l, x) PROVE ~Ok(u)'
  <2>1. x # u \/ l # run
    BY <1>4, SettleKeeps DEF Off
  <2> QED BY <1>4, <2>1, SettleKeeps DEF Ok
<1>5. ASSUME NEW k \in Callers, Return(k) \/ GiveUp(k) PROVE UNCHANGED results
  BY <1>1, <1>5, ReturnMoves
<1>6. ASSUME NEW k \in Callers, NextWave(k) PROVE UNCHANGED results
  BY <1>6 DEF NextWave
<1>7. ASSUME NEW k \in Callers, NEW x \in Units, StartRedelegating(k, x) PROVE UNCHANGED results
  BY <1>7 DEF StartRedelegating
<1>8. ASSUME NEW l \in Runs, NEW x \in Units, TakeSlot(l, x) \/ Gone(l, x) \/ Back(l, x)
      PROVE  UNCHANGED results
  BY <1>8 DEF TakeSlot, Gone, Back
<1>9. ASSUME NEW k \in Callers, NEW batch \in SUBSET Children(k), Delegate(k, batch)
      PROVE  UNCHANGED results
  BY <1>9 DEF Delegate
<1>10. ASSUME NEW k \in Callers, NEW x \in Units, CancelDelegation(k, x) PROVE UNCHANGED results
  BY <1>10 DEF CancelDelegation
<1>11. WaveEnds \/ PauseSession \/ QuitRun => UNCHANGED results
  BY DEF WaveEnds, PauseSession, QuitRun
<1> QED BY <1>2, <1>3, <1>4, <1>5, <1>6, <1>7, <1>8, <1>9, <1>10, <1>11 DEF WithinRun

UnitShapesOf == \A u \in Units : shape[u].deps \subseteq Units

(* An execution that ends leaves the call it belongs to.                    *)
LEMMA EndedGone ==
  ASSUME UnitsIInv, NEW l \in Runs, NEW u \in Units, Settle(l, u), l = run, Off(work'[run][u])
  PROVE  /\ Ends(l, u) /\ \A k \in Callers : u \notin Asked(k)'
         /\ ~Off(work[run][u])
<1>1. UnitsTypes /\ CallsOpen
  BY DEF UnitsIInv
<1>2. Ends(l, u) /\ CallsAfter(l, u) /\ work[run][u].pc = "settle"
  BY SettleKeeps DEF Off
<1>3. ~Off(work[run][u])
  BY <1>2 DEF Off
<1>4. ASSUME NEW k \in Callers PROVE u \notin Asked(k)'
  <2>1. u \notin call'[k].pending
    BY <1>1, <1>2, <1>3 DEF CallsOpen, CallsAfter
  <2>2. ASSUME u \in call[k].wave PROVE u \notin call'[k].wave
    <3>1. work[run][u].owner = k /\ ~work[run][u].async
      BY <1>1, <1>3, <2>2 DEF CallsOpen
    <3> QED BY <1>2, <3>1 DEF CallsAfter
  <2>3. call'[k].wave \subseteq call[k].wave
    BY <1>2 DEF CallsAfter
  <2> QED BY <2>1, <2>2, <2>3 DEF Asked
<1> QED BY <1>2, <1>3, <1>4

LEMMA CallsOpenKept ==
  UnitsIInv /\ [UnitsNext]_unitVars => CallsOpen'
<1> SUFFICES ASSUME UnitsIInv, [UnitsNext]_unitVars PROVE CallsOpen'
  OBVIOUS
<1>1. UnitsTypes /\ WorkRight /\ CallsFree /\ Owned /\ CallsOpen
  BY DEF UnitsIInv
<1>2. /\ run \in Runs /\ Root \in Callers /\ UnitShapesOf
      /\ \A k \in Callers : call[k].pending \subseteq Units /\ call[k].wave \subseteq Units
  BY <1>1, RunOne, UnitShapes DEF UnitShapesOf, UnitsTypes
(* What stays asked for, and stays as it was.                               *)
<1>4. ASSUME WithinRun, UNCHANGED <<shape, run>>,
             \A k \in Callers : call'[k].pending \subseteq call[k].pending /\ call'[k].wave \subseteq call[k].wave,
             \A k \in Callers : \A u \in Asked(k)' :
               /\ Off(work'[run][u]) <=> Off(work[run][u])
               /\ work'[run][u].owner = work[run][u].owner /\ work'[run][u].async = work[run][u].async
      PROVE  CallsOpen'
  <2>1. \A d \in Units : Succeeded(d) => Succeeded(d)'
    BY <1>4, SucceededKept
  <2>2. \A u \in Units : ~Ok(u) /\ Off(work[run][u]) => ~Ok(u)'
    BY <1>4, OkFresh
  <2>3. \A u : Redelegates(u)' = Redelegates(u)
    BY <1>4 DEF Redelegates
  <2> SUFFICES ASSUME NEW k \in Callers
               PROVE  /\ call'[k].pending \cap call'[k].wave = {}
                      /\ \A u \in call'[k].pending : Off(work'[run][u]) /\ ~Ok(u)'
                      /\ \A u \in call'[k].wave :
                           IF Off(work'[run][u])
                             THEN Redelegates(u) /\ ~Ok(u)' /\ \A d \in shape[u].deps : Succeeded(d)'
                             ELSE work'[run][u].owner = k /\ ~work'[run][u].async
    BY <1>4, <2>3 DEF CallsOpen, Off
  <2>4. call'[k].pending \cap call'[k].wave = {}
    BY <1>1, <1>4 DEF CallsOpen
  <2>5. \A u \in call'[k].pending : Off(work'[run][u]) /\ ~Ok(u)'
    BY <1>1, <1>2, <1>4, <2>2 DEF CallsOpen, Asked
  <2>6. ASSUME NEW u \in call'[k].wave
        PROVE  IF Off(work'[run][u])
                 THEN Redelegates(u) /\ ~Ok(u)' /\ \A d \in shape[u].deps : Succeeded(d)'
                 ELSE work'[run][u].owner = k /\ ~work'[run][u].async
    <3>1. u \in call[k].wave /\ u \in Units /\ u \in Asked(k)'
      BY <1>2, <1>4, <2>6 DEF Asked
    <3>2. CASE Off(work'[run][u])
      <4>1. Off(work[run][u])
        BY <1>4, <3>1, <3>2
      <4>2. Redelegates(u) /\ ~Ok(u) /\ \A d \in shape[u].deps : Succeeded(d)
        BY <1>1, <3>1, <4>1 DEF CallsOpen
      <4> QED BY <1>2, <2>1, <2>2, <3>1, <3>2, <4>1, <4>2 DEF UnitShapesOf
    <3>3. CASE ~Off(work'[run][u])
      <4>1. ~Off(work[run][u])
        BY <1>4, <3>1, <3>3
      <4>2. work[run][u].owner = k /\ ~work[run][u].async
        BY <1>1, <3>1, <4>1 DEF CallsOpen
      <4> QED BY <1>4, <3>1, <3>3, <4>2
    <3> QED BY <3>2, <3>3
  <2> QED BY <2>4, <2>5, <2>6
<1>5. ASSUME NEW k \in Callers, Return(k) \/ GiveUp(k) PROVE CallsOpen'
  <2>1. /\ Returns(k) /\ UNCHANGED <<shape, run, phase, work>>
    BY <1>1, <1>5, ReturnMoves
  <2>2. \A j \in Callers : call'[j].pending \subseteq call[j].pending /\ call'[j].wave \subseteq call[j].wave
    BY <2>1 DEF Returns, OtherCalls, FreeCall
  <2>3. WithinRun
    BY <1>5 DEF WithinRun
  <2> QED BY <1>4, <2>1, <2>2, <2>3
<1>6. ASSUME NEW k \in Callers, NextWave(k) PROVE CallsOpen'
  <2>1. PICK broken \in SUBSET Ready(k) : WaveLaunch(k, broken)
    BY <1>1, <1>6, WaveMoves
  <2>2. /\ Going /\ UNCHANGED <<shape, run>> /\ WithinRun
        /\ \A u \in Starting(k, broken) \cup InWave(k, broken) :
              u \in call[k].pending /\ u \in Units /\ Off(work[run][u]) /\ ~Ok(u)
        /\ Ready(k) \subseteq call[k].pending
    BY <1>1, <1>6, <2>1, WaveMoves, StartingOff DEF WithinRun
  <2>3. \A d \in Units : Succeeded(d) => Succeeded(d)'
    BY <2>2, SucceededKept
  <2>4. \A u \in Units : ~Ok(u) /\ Off(work[run][u]) => ~Ok(u)'
    BY <2>2, OkFresh
  <2>5. \A u : Redelegates(u)' = Redelegates(u)
    BY <2>2 DEF Redelegates
  <2>6. \A u \in Units : u \notin Starting(k, broken) => work'[run][u] = work[run][u]
    BY <2>1 DEF WaveLaunch, OtherWork
  <2>7. \A j \in Callers \ {k} : call'[j] = call[j] /\ \A u \in Asked(j) : u \notin Starting(k, broken)
    <3>1. \A j \in Callers \ {k} : \A u \in Asked(j) : u \notin Asked(k)
      BY <2>2, Apart
    <3> QED BY <2>1, <2>2, <3>1 DEF WaveLaunch, OtherCalls, Asked
  <2>8. ASSUME NEW j \in Callers \ {k}
        PROVE  /\ call'[j].pending \cap call'[j].wave = {}
               /\ \A u \in call'[j].pending : Off(work'[run][u]) /\ ~Ok(u)'
               /\ \A u \in call'[j].wave :
                    IF Off(work'[run][u])
                      THEN Redelegates(u) /\ ~Ok(u)' /\ \A d \in shape[u].deps : Succeeded(d)'
                      ELSE work'[run][u].owner = j /\ ~work'[run][u].async
    <3>1. /\ call[j].pending \cap call[j].wave = {}
          /\ \A u \in call[j].pending : Off(work[run][u]) /\ ~Ok(u)
          /\ \A u \in call[j].wave :
                    IF Off(work[run][u])
                      THEN Redelegates(u) /\ ~Ok(u) /\ \A d \in shape[u].deps : Succeeded(d)
                      ELSE work[run][u].owner = j /\ ~work[run][u].async
      BY <1>1 DEF CallsOpen
    <3>2. \A u \in call[j].pending \cup call[j].wave : u \in Units /\ work'[run][u] = work[run][u]
      BY <1>2, <2>6, <2>7 DEF Asked
    <3> QED BY <1>2, <2>3, <2>4, <2>7, <3>1, <3>2 DEF UnitShapesOf
  <2>9. /\ call'[k].pending = call[k].pending \ Ready(k) /\ call'[k].wave = InWave(k, broken)
        /\ InWave(k, broken) \subseteq Ready(k) /\ Starting(k, broken) \subseteq Ready(k)
    BY <2>1 DEF WaveLaunch, InWave, Starting
  <2>10. \A u \in call'[k].pending : Off(work'[run][u]) /\ ~Ok(u)'
    <3>1. \A u \in call'[k].pending : u \in Units /\ work'[run][u] = work[run][u] /\ Off(work[run][u]) /\ ~Ok(u)
      BY <1>1, <1>2, <2>6, <2>9 DEF CallsOpen
    <3> QED BY <2>4, <3>1
  <2>11. ASSUME NEW u \in call'[k].wave
         PROVE  IF Off(work'[run][u])
                  THEN Redelegates(u) /\ ~Ok(u)' /\ \A d \in shape[u].deps : Succeeded(d)'
                  ELSE work'[run][u].owner = k /\ ~work'[run][u].async
    <3>1. u \in InWave(k, broken) /\ u \in Units /\ Off(work[run][u]) /\ ~Ok(u) /\ u \in Ready(k)
      BY <2>2, <2>9, <2>11
    <3>2. CASE u \in Starting(k, broken)
      <4>1. work'[run][u].pc = "slot" /\ work'[run][u].owner = k /\ work'[run][u].async = IsAsync(k, u)
        BY <2>1, <3>2 DEF WaveLaunch
      <4>2. ~IsAsync(k, u)
        BY <3>1 DEF InWave
      <4> QED BY <4>1, <4>2 DEF Off
    <3>3. CASE u \notin Starting(k, broken)
      <4>1. Redelegates(u)
        BY <3>1, <3>3 DEF InWave, Starting
      <4>2. \A d \in shape[u].deps : d \in Units /\ Succeeded(d)
        BY <1>2, <3>1 DEF Ready, UnitShapesOf, UnitsIInv, ToldRight
      <4> QED BY <2>3, <2>4, <2>6, <3>1, <3>3, <4>1, <4>2
    <3> QED BY <3>2, <3>3
  <2>12. call'[k].pending \cap call'[k].wave = {}
    BY <2>9
  <2>13. \A j \in Callers :
               /\ call'[j].pending \cap call'[j].wave = {}
               /\ \A u \in call'[j].pending : Off(work'[run][u]) /\ ~Ok(u)'
               /\ \A u \in call'[j].wave :
                    IF Off(work'[run][u])
                      THEN Redelegates(u) /\ ~Ok(u)' /\ \A d \in shape[u].deps : Succeeded(d)'
                      ELSE work'[run][u].owner = j /\ ~work'[run][u].async
    BY <2>8, <2>10, <2>11, <2>12
  <2> QED BY <2>2, <2>5, <2>13 DEF CallsOpen, Off
<1>7. ASSUME NEW k \in Callers, NEW u \in Units, StartRedelegating(k, u) PROVE CallsOpen'
  <2>1. /\ u \in call[k].wave /\ StartsAlone(k, u) /\ UNCHANGED <<shape, run, phase, call>> /\ WithinRun
    BY <1>1, <1>7, StartMoves DEF WithinRun
  <2>2. Going
    BY <1>1, <2>1 DEF CallsFree, UnitsTypes, CallType
  <2>3. /\ work'[run][u].pc = "run" /\ work'[run][u].owner = k /\ work'[run][u].async = FALSE
        /\ \A x \in Units : x # u => work'[run][x] = work[run][x]
    BY <1>2, <2>1 DEF StartsAlone, WorkExcept
  <2>4. \A d \in Units : Succeeded(d) => Succeeded(d)'
    BY <2>1, SucceededKept
  <2>5. \A x \in Units : ~Ok(x) /\ Off(work[run][x]) => ~Ok(x)'
    BY <2>1, OkFresh
  <2>6. \A x : Redelegates(x)' = Redelegates(x)
    BY <2>1 DEF Redelegates
  <2>7. \A j \in Callers \ {k} : u \notin Asked(j)
    <3>1. u \in Asked(k)
      BY <2>1 DEF Asked
    <3> QED BY <2>2, <3>1, Apart
  <2>8. ASSUME NEW j \in Callers
        PROVE  /\ call[j].pending \cap call[j].wave = {}
               /\ \A x \in call[j].pending : Off(work'[run][x]) /\ ~Ok(x)'
               /\ \A x \in call[j].wave :
                    IF Off(work'[run][x])
                      THEN Redelegates(x) /\ ~Ok(x)' /\ \A d \in shape[x].deps : Succeeded(d)'
                      ELSE work'[run][x].owner = j /\ ~work'[run][x].async
    <3>1. /\ call[j].pending \cap call[j].wave = {}
          /\ \A x \in call[j].pending : Off(work[run][x]) /\ ~Ok(x)
          /\ \A x \in call[j].wave :
                    IF Off(work[run][x])
                      THEN Redelegates(x) /\ ~Ok(x) /\ \A d \in shape[x].deps : Succeeded(d)
                      ELSE work[run][x].owner = j /\ ~work[run][x].async
      BY <1>1 DEF CallsOpen
    <3>2. u \notin call[j].pending
      BY <2>1, <2>7, <3>1 DEF Asked
    <3>3. \A x \in call[j].pending : Off(work'[run][x]) /\ ~Ok(x)'
      BY <1>2, <2>3, <2>5, <3>1, <3>2
    <3>4. ASSUME NEW x \in call[j].wave
          PROVE  IF Off(work'[run][x])
                      THEN Redelegates(x) /\ ~Ok(x)' /\ \A d \in shape[x].deps : Succeeded(d)'
                      ELSE work'[run][x].owner = j /\ ~work'[run][x].async
      <4>1. CASE x = u
        <5>1. j = k
          BY <2>7, <3>4, <4>1 DEF Asked
        <5> QED BY <2>3, <4>1, <5>1 DEF Off
      <4>2. CASE x # u
        <5>1. x \in Units /\ work'[run][x] = work[run][x]
          BY <1>2, <2>3, <3>4, <4>2
        <5> QED BY <1>2, <2>4, <2>5, <3>1, <3>4, <5>1 DEF UnitShapesOf
      <4> QED BY <4>1, <4>2
    <3> QED BY <3>1, <3>3, <3>4
  <2> QED BY <2>1, <2>6, <2>8 DEF CallsOpen, Off
<1>8. ASSUME NEW l \in Runs, NEW u \in Units, TakeSlot(l, u) \/ Gone(l, u) \/ Back(l, u)
      PROVE  CallsOpen'
  <2>1. /\ Advances(l, u) /\ UNCHANGED <<shape, run, phase, call>>
    BY <1>1, <1>8, AdvanceMoves
  <2>2. WithinRun
    BY <1>8 DEF WithinRun
  <2>3. \A x \in Units : /\ work'[run][x].owner = work[run][x].owner
                         /\ work'[run][x].async = work[run][x].async
                         /\ Off(work'[run][x]) <=> Off(work[run][x])
    BY <1>2, <2>1 DEF Advances, WorkExcept, Off
  <2>4. \A j \in Callers : Asked(j)' \subseteq Units
    BY <1>2, <2>1 DEF Asked
  <2> QED BY <1>4, <2>1, <2>2, <2>3, <2>4
<1>9. ASSUME NEW l \in Runs, NEW u \in Units, Settle(l, u) PROVE CallsOpen'
  <2>1. /\ UNCHANGED <<shape, run, phase>>
        /\ \A k \in Callers :
              call'[k].pending \subseteq call[k].pending /\ call'[k].wave \subseteq call[k].wave
    BY <1>9, SettleKeeps
  <2>2. WithinRun
    BY <1>9 DEF WithinRun
  <2>3. \A x \in Units : x # u \/ l # run => work'[run][x] = work[run][x]
    BY <1>2, <1>9, SettleKeeps DEF WorkExcept
  <2>4. ASSUME NEW k \in Callers, NEW x \in Asked(k)'
        PROVE  /\ Off(work'[run][x]) <=> Off(work[run][x])
               /\ work'[run][x].owner = work[run][x].owner /\ work'[run][x].async = work[run][x].async
    <3>1. x \in Units
      BY <1>2, <2>1, <2>4 DEF Asked
    <3>2. CASE x # u \/ l # run
      BY <2>3, <3>1, <3>2
    <3>3. CASE x = u /\ l = run
      <4>1. ~Off(work'[run][x])
        BY <1>9, <2>4, <3>3, EndedGone
      <4> QED BY <1>9, <3>3, <4>1, SettleKeeps DEF Off
    <3> QED BY <3>2, <3>3
  <2> QED BY <1>4, <2>1, <2>2, <2>4
<1>10. CASE NextGroup
  <2>1. Groups /\ UNCHANGED <<shape, run, phase, work>> /\ WithinRun
    BY <1>1, <1>10, GroupMoves DEF WithinRun
  <2>2. \A u \in Group : u \in todo /\ u \in Units
    BY <1>1 DEF Group, UnitsTypes
  <2>3. \A u \in Group : Off(work[run][u]) /\ ~Ok(u)
    BY <2>1, <2>2 DEF Groups, UnitsIInv, Upwards, Waiting
  <2>4. \A d \in Units : Succeeded(d) => Succeeded(d)'
    BY <2>1, SucceededKept
  <2>5. \A x \in Units : ~Ok(x) /\ Off(work[run][x]) => ~Ok(x)'
    BY <2>1, OkFresh
  <2>6. \A x : Redelegates(x)' = Redelegates(x)
    BY <2>1 DEF Redelegates
  <2>7. /\ call'[Root].pending = Group /\ call'[Root].wave = {}
        /\ \A j \in Callers \ {Root} : call'[j] = call[j]
    BY <2>1 DEF Groups, OtherCalls
  <2>8. ASSUME NEW j \in Callers
        PROVE  /\ call'[j].pending \cap call'[j].wave = {}
               /\ \A x \in call'[j].pending : Off(work[run][x]) /\ ~Ok(x)'
               /\ \A x \in call'[j].wave :
                    IF Off(work[run][x])
                      THEN Redelegates(x) /\ ~Ok(x)' /\ \A d \in shape[x].deps : Succeeded(d)'
                      ELSE work[run][x].owner = j /\ ~work[run][x].async
    <3>1. CASE j = Root
      BY <2>2, <2>3, <2>5, <2>7, <3>1
    <3>2. CASE j # Root
      <4>1. /\ call[j].pending \cap call[j].wave = {}
            /\ \A x \in call[j].pending : Off(work[run][x]) /\ ~Ok(x)
            /\ \A x \in call[j].wave :
                    IF Off(work[run][x])
                      THEN Redelegates(x) /\ ~Ok(x) /\ \A d \in shape[x].deps : Succeeded(d)
                      ELSE work[run][x].owner = j /\ ~work[run][x].async
        BY <1>1 DEF CallsOpen
      <4>2. call'[j] = call[j] /\ \A x \in call[j].pending \cup call[j].wave : x \in Units
        BY <1>2, <2>7, <3>2
      <4> QED BY <1>2, <2>4, <2>5, <4>1, <4>2 DEF UnitShapesOf
    <3> QED BY <3>1, <3>2
  <2> QED BY <2>1, <2>6, <2>8 DEF CallsOpen, Off
<1>11. CASE PausedInWave \/ PausedRun \/ FailedRun \/ FinishRun \/ Crash
  <2>1. Leaves
    BY <1>11, LeaveMoves
  <2>2. \A k \in Callers : call'[k].pending = {} /\ call'[k].wave = {}
    BY <2>1 DEF Leaves, FreeCall
  <2> QED BY <2>2 DEF CallsOpen
<1>12. ASSUME NEW k \in Callers, NEW batch \in SUBSET Children(k), Delegate(k, batch)
       PROVE  CallsOpen'
  <2>1. Delegates(k, batch) /\ UNCHANGED <<shape, run, phase, work, results>>
    BY <1>1, <1>12, DelegateMoves
  <2>2. \A x : Redelegates(x)' = Redelegates(x) /\ Ok(x)' = Ok(x) /\ Succeeded(x)' = Succeeded(x)
    BY <2>1 DEF Redelegates, Ok, Succeeded
  <2>3. /\ call'[k].pending = Fresh(batch) /\ call'[k].wave = {}
        /\ \A j \in Callers \ {k} : call'[j] = call[j]
        /\ \A u \in Fresh(batch) : Off(work[run][u]) /\ ~Ok(u)
    BY <2>1 DEF Delegates, OtherCalls, Fresh
  <2> QED BY <1>1, <2>1, <2>2, <2>3 DEF CallsOpen, Off
<1>13. ASSUME NEW k \in Callers, NEW u \in Units, CancelDelegation(k, u) PROVE CallsOpen'
  <2>1. UNCHANGED <<shape, run, phase, call, work>>
    BY <1>1, <1>13, CancelMoves
  <2>2. WithinRun
    BY <1>13 DEF WithinRun
  <2> QED BY <1>4, <2>1, <2>2
<1>14. CASE Resume
  <2>1. phase = "idle" /\ UNCHANGED call
    BY <1>1, <1>14, ResumeMoves
  <2>2. \A k \in Callers : call'[k].pending = {} /\ call'[k].wave = {}
    BY <1>1, <2>1 DEF CallsFree, Going
  <2> QED BY <2>2 DEF CallsOpen
<1>15. ASSUME Idles PROVE CallsOpen'
  BY <1>1, <1>15 DEF Idles, CallsOpen, Redelegates, Ok, Succeeded, Off
<1>16. CASE WaveEnds
  BY <1>1, <1>16 DEF WaveEnds, CallsOpen, Redelegates, Ok, Succeeded, Off
<1> QED BY <1>5, <1>6, <1>7, <1>8, <1>9, <1>10, <1>11, <1>12, <1>13, <1>14, <1>15, <1>16, UnitsCases,
           IdleMoves DEF unitVars

(* What a call asks for lies below what the wave has left, or beside what   *)
(* it relaunches now, and no caller is waiting itself.                      *)
LEMMA Deeper ==
  ASSUME UnitsIInv, phase = "wave", NEW k \in Callers, NEW u \in Asked(k)
  PROVE  /\ \A t \in todo : Depth(u) > Depth(t) /\ t # k /\ t # u
         /\ \A x \in Asked(Root) : /\ Depth(u) >= Depth(x)
                                   /\ Off(work[run][x]) => x # k
<1>1. UnitsTypes /\ CallsFree /\ Owned /\ Upwards
  BY DEF UnitsIInv
<1>2. /\ u \in Units /\ todo \subseteq Units /\ Asked(Root) \subseteq Units /\ Root \notin Units
      /\ \A x \in Units : Depth(x) \in Nat
      /\ k # Root => k \in Units
  BY <1>1, RunOne DEF Asked, UnitsTypes, Callers
<1>3. CASE k = Root
  <2>1. \A t \in todo : Depth(u) > Depth(t)
    BY <1>1, <1>2, <1>3 DEF Upwards
  <2>2. \A x \in Asked(Root) : Depth(u) = Depth(x)
    BY <1>1, <1>3 DEF Upwards
  <2>3. \A t \in todo : t # u
    BY <1>2, <2>1
  <2> QED BY <1>2, <1>3, <2>1, <2>2, <2>3
<1>4. CASE k # Root
  <2>1. call[k].pc = "launch"
    BY <1>1, RunOne DEF CallsFree, Asked
  <2>2. work[run][k].pc = "run"
    BY <1>1, <1>4, <2>1 DEF CallsFree, Going
  <2>3. ~Off(work[run][k])
    BY <2>2 DEF Off
  <2>4. shape[u].by = k
    BY <1>1, <1>4 DEF Owned, Mine
  <2>5. Depth(u) = Depth(k) + 1
    BY <1>1, <1>2, <1>4, <2>4, RunOne
  <2>6. \A t \in todo : Depth(k) > Depth(t)
    BY <1>1, <1>2, <1>4, <2>3 DEF Upwards
  <2>7. \A x \in Asked(Root) : Depth(k) >= Depth(x)
    BY <1>1, <1>2, <1>4, <2>3 DEF Upwards
  <2>8. \A t \in todo : Depth(u) > Depth(t) /\ t # k /\ t # u
    BY <1>2, <1>4, <2>5, <2>6
  <2>9. \A x \in Asked(Root) : Depth(u) >= Depth(x) /\ (Off(work[run][x]) => x # k)
    BY <1>2, <1>4, <2>3, <2>5, <2>7
  <2> QED BY <2>8, <2>9
<1> QED BY <1>3, <1>4

LEMMA UpwardsKept ==
  UnitsIInv /\ [UnitsNext]_unitVars => Upwards'
<1> SUFFICES ASSUME UnitsIInv, [UnitsNext]_unitVars, phase' = "wave" PROVE Upwards'
  BY DEF Upwards
<1>1. UnitsTypes /\ WorkRight /\ CallsFree /\ Owned /\ CallsOpen /\ Upwards
  BY DEF UnitsIInv
<1>2. /\ run \in Runs /\ Root \in Callers /\ Root \notin Units
      /\ todo \subseteq Units /\ Asked(Root) \subseteq Units
      /\ \A k \in Callers : call[k].pending \subseteq Units /\ call[k].wave \subseteq Units
      /\ \A x \in Units : Depth(x) \in Nat
  BY <1>1, RunOne DEF Asked, UnitsTypes
(* Within the wave: what starts is deep, by a caller that is at work.       *)
<1>3. ASSUME phase = "wave", WithinRun, UNCHANGED <<shape, run, todo>>, Asked(Root)' \subseteq Asked(Root),
             \A t \in todo \cup Asked(Root)' :
               Off(work[run][t]) /\ call[t].pc = "free" => call'[t].pc = "free",
             \A x \in Units : ~Off(work'[run][x]) => LET w == work'[run][x] IN
               \/ ~Off(work[run][x]) /\ w.owner = work[run][x].owner
               \/ /\ Off(work[run][x]) /\ w.owner \in Callers /\ x \in Asked(w.owner),
             \A x \in Asked(Root)' : Off(work'[run][x]) => Off(work[run][x])
      PROVE  Upwards'
  <2>1. \A x : Depth(x)' = Depth(x)
    BY <1>3 DEF Depth
  <2>2. \A x \in Units : ~Ok(x) /\ Off(work[run][x]) => ~Ok(x)'
    BY <1>3, OkFresh
  <2>3. ASSUME NEW x \in Units, Off(work[run][x]), ~Off(work'[run][x])
        PROVE  /\ \A t \in todo : Depth(x) > Depth(t) /\ t # work'[run][x].owner /\ t # x
               /\ \A y \in Asked(Root) : /\ Depth(x) >= Depth(y)
                                         /\ Off(work[run][y]) => y # work'[run][x].owner
    BY <1>3, <2>3, Deeper
  <2>4. ASSUME NEW t \in todo
        PROVE  /\ Off(work'[run][t]) /\ call'[t].pc = "free" /\ ~Ok(t)'
               /\ \A x \in Units : ~Off(work'[run][x]) => work'[run][x].owner # t
               /\ \A x \in Units : x \in Asked(Root)' \/ ~Off(work'[run][x]) => Depth(x) > Depth(t)
    <3>1. /\ Off(work[run][t]) /\ call[t].pc = "free" /\ ~Ok(t)
          /\ \A x \in Units : ~Off(work[run][x]) => work[run][x].owner # t
          /\ \A x \in Units : x \in Asked(Root) \/ ~Off(work[run][x]) => Depth(x) > Depth(t)
      BY <1>1, <1>3 DEF Upwards, Waiting
    <3>2. Off(work'[run][t])
      BY <1>2, <2>3, <3>1
    <3>3. call'[t].pc = "free" /\ ~Ok(t)'
      BY <1>2, <1>3, <2>2, <3>1
    <3>4. \A x \in Units : ~Off(work'[run][x]) => work'[run][x].owner # t
      BY <1>3, <2>3, <3>1
    <3>5. \A x \in Units : x \in Asked(Root)' \/ ~Off(work'[run][x]) => Depth(x) > Depth(t)
      BY <1>3, <2>3, <3>1
    <3> QED BY <3>2, <3>3, <3>4, <3>5
  <2>5. ASSUME NEW x \in Asked(Root)'
        PROVE  /\ \A y \in Asked(Root)' : Depth(y) = Depth(x)
               /\ \A y \in Units : ~Off(work'[run][y]) => Depth(y) >= Depth(x)
               /\ Off(work'[run][x]) =>
                    /\ call'[x].pc = "free"
                    /\ \A y \in Units : ~Off(work'[run][y]) => work'[run][y].owner # x
    <3>1. /\ \A y \in Asked(Root) : Depth(y) = Depth(x)
          /\ \A y \in Units : ~Off(work[run][y]) => Depth(y) >= Depth(x)
          /\ Off(work[run][x]) =>
               /\ call[x].pc = "free"
               /\ \A y \in Units : ~Off(work[run][y]) => work[run][y].owner # x
          /\ x \in Asked(Root) /\ x \in Units
      BY <1>1, <1>2, <1>3, <2>5 DEF Upwards, Waiting
    <3>2. \A y \in Units : ~Off(work'[run][y]) => Depth(y) >= Depth(x)
      BY <1>3, <2>3, <3>1
    <3>3. ASSUME Off(work'[run][x])
          PROVE  /\ call'[x].pc = "free"
                 /\ \A y \in Units : ~Off(work'[run][y]) => work'[run][y].owner # x
      <4>1. Off(work[run][x])
        BY <1>3, <2>5, <3>3
      <4> QED BY <1>3, <2>3, <2>5, <3>1, <4>1
    <3> QED BY <1>3, <3>1, <3>2, <3>3
  <2> QED BY <1>3, <2>1, <2>4, <2>5 DEF Upwards, Waiting, Off
<1>4. ASSUME NEW k \in Callers, Return(k) \/ GiveUp(k) PROVE Upwards'
  <2>1. /\ Returns(k) /\ UNCHANGED <<shape, run, phase, todo, work>>
    BY <1>1, <1>4, ReturnMoves
  <2>2. \A j \in Callers : Asked(j)' \subseteq Asked(j) /\ (call[j].pc = "free" => call'[j].pc = "free")
    BY <2>1 DEF Returns, OtherCalls, Asked, FreeCall
  <2>3. WithinRun
    BY <1>4 DEF WithinRun
  <2>4. \A t \in todo \cup Asked(Root)' : t \in Callers
    BY <1>2, <2>2 DEF Callers
  <2> QED BY <1>2, <1>3, <2>1, <2>2, <2>3, <2>4
<1>5. ASSUME NEW k \in Callers, NextWave(k) PROVE Upwards'
  <2>1. PICK broken \in SUBSET Ready(k) : WaveLaunch(k, broken)
    BY <1>1, <1>5, WaveMoves
  <2>2. /\ UNCHANGED <<shape, run, phase, todo>> /\ call[k].pc = "launch" /\ WithinRun
        /\ Ready(k) \subseteq call[k].pending
        /\ \A x \in Starting(k, broken) : x \in call[k].pending /\ Off(work[run][x])
    BY <1>1, <1>5, <2>1, WaveMoves, StartingOff DEF WithinRun
  <2>3. \A j \in Callers : call'[j].pc = call[j].pc
    BY <2>1, <2>2 DEF WaveLaunch, OtherCalls
  <2>4. \A j \in Callers : Asked(j)' \subseteq Asked(j)
    BY <2>1, <2>2 DEF WaveLaunch, OtherCalls, Asked, InWave
  <2>5. \A x \in Units : x \notin Starting(k, broken) => work'[run][x] = work[run][x]
    BY <2>1 DEF WaveLaunch, OtherWork
  <2>6. \A x \in Starting(k, broken) : work'[run][x].owner = k /\ x \in Asked(k)
    BY <2>1, <2>2 DEF WaveLaunch, Asked
  <2>7. \A t \in todo \cup Asked(Root)' : t \in Callers
    BY <1>2, <2>4 DEF Callers
  <2>8. \A x \in Starting(k, broken) : ~Off(work'[run][x])
    BY <2>1 DEF WaveLaunch, Off
  <2> QED BY <1>2, <1>3, <2>2, <2>3, <2>4, <2>5, <2>6, <2>7, <2>8
<1>6. ASSUME NEW k \in Callers, NEW u \in Units, StartRedelegating(k, u) PROVE Upwards'
  <2>1. /\ u \in call[k].wave /\ StartsAlone(k, u) /\ UNCHANGED <<shape, run, phase, todo, call>> /\ WithinRun
        /\ Off(work[run][u])
    BY <1>1, <1>6, StartMoves DEF WithinRun
  <2>2. /\ work'[run][u].owner = k /\ ~Off(work'[run][u])
        /\ \A x \in Units : x # u => work'[run][x] = work[run][x]
    BY <1>2, <2>1 DEF StartsAlone, WorkExcept, Off
  <2>3. u \in Asked(k) /\ Asked(Root)' = Asked(Root)
    BY <2>1 DEF Asked
  <2> QED BY <1>2, <1>3, <2>1, <2>2, <2>3
<1>7. ASSUME NEW l \in Runs, NEW u \in Units, TakeSlot(l, u) \/ Gone(l, u) \/ Back(l, u)
      PROVE  Upwards'
  <2>1. /\ Advances(l, u) /\ UNCHANGED <<shape, run, phase, todo, call>>
    BY <1>1, <1>7, AdvanceMoves
  <2>2. WithinRun
    BY <1>7 DEF WithinRun
  <2>3. \A x \in Units : /\ work'[run][x].owner = work[run][x].owner
                         /\ Off(work'[run][x]) <=> Off(work[run][x])
    BY <1>2, <2>1 DEF Advances, WorkExcept, Off
  <2>4. Asked(Root)' = Asked(Root)
    BY <2>1 DEF Asked
  <2> QED BY <1>2, <1>3, <2>1, <2>2, <2>3, <2>4
<1>8. ASSUME NEW l \in Runs, NEW u \in Units, Settle(l, u) PROVE Upwards'
  <2>1. /\ UNCHANGED <<shape, run, phase, todo>>
        /\ \A k \in Callers :
              /\ call'[k].pc = call[k].pc
              /\ call'[k].pending = call[k].pending /\ call'[k].wave \subseteq call[k].wave
    BY <1>8, SettleKeeps
  <2>2. WithinRun
    BY <1>8 DEF WithinRun
  <2>3. \A x \in Units : x # u \/ l # run => work'[run][x] = work[run][x]
    BY <1>2, <1>8, SettleKeeps DEF WorkExcept
  <2>4. Asked(Root)' \subseteq Asked(Root)
    BY <1>2, <2>1 DEF Asked
  <2>5. ASSUME NEW x \in Units, ~Off(work'[run][x])
        PROVE  ~Off(work[run][x]) /\ work'[run][x].owner = work[run][x].owner
    <3>1. CASE x = u /\ l = run
      BY <1>8, <2>5, <3>1, SettleKeeps DEF Off
    <3> QED BY <2>3, <2>5, <3>1
  <2>6. ASSUME NEW x \in Asked(Root)', Off(work'[run][x]) PROVE Off(work[run][x])
    <3>1. x \in Units
      BY <1>2, <2>4, <2>6
    <3>2. CASE x = u /\ l = run
      BY <1>2, <1>8, <2>6, <3>2, EndedGone
    <3> QED BY <2>3, <2>6, <3>1, <3>2
  <2>7. \A t \in todo \cup Asked(Root)' : t \in Callers
    BY <1>2, <2>4 DEF Callers
  <2> QED BY <1>2, <1>3, <2>1, <2>2, <2>4, <2>5, <2>6, <2>7
<1>9. CASE NextGroup
  <2>1. Groups /\ UNCHANGED <<shape, run, phase, work>> /\ WithinRun
    BY <1>1, <1>9, GroupMoves DEF WithinRun
  <2>2. /\ Asked(Root)' = Group /\ Group \subseteq todo /\ todo' = todo \ Group
        /\ \A j \in Callers \ {Root} : call'[j] = call[j]
    BY <2>1 DEF Groups, Asked, OtherCalls, Group
  <2>3. \A t \in todo :
           /\ Off(work[run][t]) /\ call[t].pc = "free" /\ ~Ok(t)
           /\ \A x \in Units : ~Off(work[run][x]) => work[run][x].owner # t
           /\ \A x \in Units : ~Off(work[run][x]) => Depth(x) > Depth(t)
    BY <1>1, <2>1 DEF Upwards, Waiting, Groups
  <2>4. \A t \in todo : ~Ok(t)'
    BY <1>2, <2>1, <2>3, OkFresh
  <2>5. \A t \in todo : call'[t].pc = "free"
    BY <1>2, <2>2, <2>3 DEF Callers
  <2>6. \A x : Depth(x)' = Depth(x)
    BY <2>1 DEF Depth
  <2>7. \A t \in todo', x \in Group : Depth(x) > Depth(t)
    BY <1>2, <2>2 DEF Group
  <2>8. \A x, y \in Group : Depth(x) = Depth(y)
    BY <1>2 DEF Group
  <2>9. \A x \in Group : \A y \in Units : ~Off(work[run][y]) => Depth(y) >= Depth(x)
    BY <1>2, <2>2, <2>3
  <2>10. \A t \in todo' :
           /\ Off(work[run][t]) /\ call'[t].pc = "free" /\ ~Ok(t)'
           /\ \A x \in Units : ~Off(work[run][x]) => work[run][x].owner # t
           /\ \A x \in Units : x \in Group \/ ~Off(work[run][x]) => Depth(x) > Depth(t)
    BY <1>2, <2>2, <2>3, <2>4, <2>5, <2>7
  <2>11. \A x \in Group :
           /\ Off(work[run][x]) /\ call'[x].pc = "free"
           /\ \A y \in Units : ~Off(work[run][y]) => work[run][y].owner # x
    BY <2>2, <2>3, <2>5
  <2> HIDE DEF Group
  <2> QED BY <2>1, <2>2, <2>6, <2>8, <2>9, <2>10, <2>11 DEF Upwards, Waiting, Off
<1>10. CASE WaveEnds
  BY <1>10 DEF WaveEnds
<1>11. CASE PausedInWave \/ PausedRun \/ FailedRun \/ FinishRun \/ Crash
  <2>1. Leaves
    BY <1>11, LeaveMoves
  <2> QED BY <2>1 DEF Leaves
<1>12. ASSUME NEW k \in Callers, NEW batch \in SUBSET Children(k), Delegate(k, batch)
       PROVE  Upwards'
  <2>1. /\ Delegates(k, batch) /\ UNCHANGED <<shape, run, phase, todo, work, results>> /\ k # Root
        /\ work[run][k].pc = "run" /\ WithinRun
    BY <1>1, <1>12, DelegateMoves DEF WithinRun
  <2>2. Asked(Root)' = Asked(Root) /\ \A j \in Callers \ {k} : call'[j] = call[j]
    BY <1>2, <2>1 DEF Delegates, OtherCalls, Asked
  <2>3. \A t \in todo \cup Asked(Root)' : t \in Callers
    BY <1>2, <2>2 DEF Callers
  <2>4. ~Off(work[run][k])
    BY <2>1 DEF Off
  <2> QED BY <1>2, <1>3, <2>1, <2>2, <2>3, <2>4
<1>13. ASSUME NEW k \in Callers, NEW u \in Units, CancelDelegation(k, u) PROVE Upwards'
  <2>1. UNCHANGED <<shape, run, phase, todo, call, work>>
    BY <1>1, <1>13, CancelMoves
  <2>2. WithinRun /\ Asked(Root)' = Asked(Root)
    BY <1>13, <2>1 DEF WithinRun, Asked
  <2> QED BY <1>3, <2>1, <2>2
<1>14. CASE Resume
  <2>1. /\ phase = "idle" /\ run' = run + 1 /\ run' \in Runs /\ todo' = Relaunchable
        /\ UNCHANGED <<call, work>>
        /\ \A u \in Units : results'["run"][u] = results["disk"][u]
    BY <1>1, <1>14, ResumeMoves DEF Views
  <2>2. Asked(Root)' = {} /\ \A k \in Callers : call'[k].pc = "free"
    BY <1>1, <1>2, <2>1 DEF CallsFree, Asked, Going
  <2>3. \A x \in Units : Off(work'[run'][x])
    <3>1. run' > run
      BY <1>1, <2>1, RunOne
    <3> QED BY <1>1, <2>1, <3>1 DEF WorkRight
  <2>4. \A t \in Relaunchable : ~Ok(t)' /\ t \in Units
    BY <2>1 DEF Relaunchable, Class, Ok
  <2>5. \A t \in Relaunchable : Off(work'[run'][t]) /\ call'[t].pc = "free"
    BY <2>2, <2>3, <2>4 DEF Callers
  <2> QED BY <2>1, <2>2, <2>3, <2>4, <2>5 DEF Upwards, Waiting
<1>15. ASSUME Idles PROVE Upwards'
  BY <1>1, <1>15 DEF Idles, Upwards, Waiting, Off, Asked, Depth, Ok
<1> QED BY <1>4, <1>5, <1>6, <1>7, <1>8, <1>9, <1>10, <1>11, <1>12, <1>13, <1>14, <1>15, UnitsCases,
           IdleMoves DEF unitVars

(* A result that an execution has yet to write is not on the blackboard.    *)
LEMMA UnwrittenKept ==
  UnitsIInv /\ [UnitsNext]_unitVars => Unwritten'
<1> SUFFICES ASSUME UnitsIInv, [UnitsNext]_unitVars PROVE Unwritten'
  OBVIOUS
<1>1. UnitsTypes /\ WorkRight /\ CallsOpen /\ Unwritten
  BY DEF UnitsIInv
<1>2. run \in Runs
  BY <1>1, RunOne
<1>3. ASSUME UNCHANGED <<run, results>>,
             \A x \in Units : Unboarded(work'[run][x]) => Unboarded(work[run][x]) \/ ~Ok(x)
      PROVE  Unwritten'
  BY <1>1, <1>3 DEF Unwritten, Ok, Unboarded, AtBoard
<1>4. ASSUME NEW k \in Callers, Return(k) \/ GiveUp(k) PROVE Unwritten'
  BY <1>1, <1>3, <1>4, ReturnMoves
<1>5. ASSUME NEW k \in Callers, NextWave(k) PROVE Unwritten'
  <2>1. PICK broken \in SUBSET Ready(k) : WaveLaunch(k, broken)
    BY <1>1, <1>5, WaveMoves
  <2>2. \A x \in Starting(k, broken) : ~Ok(x)
    BY <1>5, <2>1, StartingOff
  <2>3. \A x \in Units : x \notin Starting(k, broken) => work'[run][x] = work[run][x]
    BY <2>1 DEF WaveLaunch, OtherWork
  <2>4. UNCHANGED <<run, results>>
    BY <1>1, <1>5, WaveMoves
  <2> QED BY <1>3, <2>2, <2>3, <2>4
<1>6. ASSUME NEW k \in Callers, NEW u \in Units, StartRedelegating(k, u) PROVE Unwritten'
  <2>1. u \in call[k].wave /\ Off(work[run][u]) /\ StartsAlone(k, u) /\ UNCHANGED <<run, results>>
    BY <1>1, <1>6, StartMoves
  <2>2. ~Ok(u)
    BY <1>1, <2>1 DEF CallsOpen
  <2>3. \A x \in Units : x # u => work'[run][x] = work[run][x]
    BY <1>2, <2>1 DEF StartsAlone, WorkExcept
  <2> QED BY <1>3, <2>1, <2>2, <2>3
<1>7. ASSUME NEW l \in Runs, NEW u \in Units, TakeSlot(l, u) \/ Gone(l, u) \/ Back(l, u)
      PROVE  Unwritten'
  <2>1. Advances(l, u) /\ UNCHANGED <<run, results>>
    BY <1>1, <1>7, AdvanceMoves
  <2>2. Unboarded(work[l][u])
    BY <2>1 DEF Advances, Unboarded
  <2>3. \A x \in Units : x # u \/ l # run => work'[run][x] = work[run][x]
    BY <1>2, <2>1 DEF Advances, WorkExcept
  <2> QED BY <1>3, <2>1, <2>2, <2>3
<1>8. ASSUME NEW l \in Runs, NEW u \in Units, Settle(l, u) PROVE Unwritten'
  <2>1. work[l][u].pc = "settle" /\ SettleCases(l, u) /\ run' = run
    BY <1>1, <1>8, SettleSteps
  <2>2. \A x \in Units : x # u \/ l # run =>
           work'[run][x] = work[run][x] /\ results'["run"][x] = results["run"][x]
    BY <1>2, <1>8, SettleKeeps DEF WorkExcept
  <2>3. ASSUME l = run, Unboarded(work'[run][u]) PROVE ~Ok(u)'
    <3>1. ~Off(work'[run][u])
      BY <2>3 DEF Unboarded, AtBoard, Off
    <3>2. PICK rest \in Todos : Steps(l, u, rest) /\ UNCHANGED call
      BY <1>1, <2>1, <3>1, EndsMoves, <2>3 DEF SettleCases, Todos
    <3>3. work'[run][u].pc = "settle" /\ work'[run][u].out = work[run][u].out /\ work'[run][u].todo = rest
      BY <1>1, <2>1, <2>3, <3>2, StepsMoves
    <3>4. CASE work[run][u].out = "gone"
      <4>1. UNCHANGED results
        BY <2>1, <2>3, <3>4 DEF SettleCases, Registers, Ledgers
      <4>2. ~Ok(u)
        BY <1>1, <2>1, <2>3, <3>4 DEF Unwritten, Unboarded
      <4> QED BY <4>1, <4>2 DEF Ok
    <3>5. CASE work[run][u].out # "gone"
      <4>1. rest \in OnBoard
        BY <2>3, <3>3, <3>5 DEF Unboarded, AtBoard
      <4>2. \/ Steps(l, u, <<"board", "ledger">>) /\ Registers(l, u) /\ work[run][u].todo = <<"registry", "board", "ledger">>
            \/ Ends(l, u) \/ Steps(l, u, <<"ledger">>) \/ Steps(l, u, <<"ledger", "registry">>) \/ Steps(l, u, <<"registry">>)
        BY <2>1, <2>3, <3>5 DEF SettleCases
      <4>3. ~Ends(l, u)
        BY <1>1, <2>3, <3>1, EndsMoves
      <4>4. \A r \in Todos : Steps(l, u, r) => work'[run][u].todo = r
        BY <1>1, <2>3, StepsMoves
      <4>5. ~Steps(l, u, <<"ledger">>) /\ ~Steps(l, u, <<"ledger", "registry">>) /\ ~Steps(l, u, <<"registry">>)
        BY <3>3, <4>1, <4>4 DEF Todos, OnBoard
      <4>6. Registers(l, u) /\ AtBoard(work[run][u])
        BY <2>1, <2>3, <4>2, <4>3, <4>5 DEF AtBoard, OnBoard
      <4> QED BY <1>1, <4>6 DEF Registers, Unwritten, Unboarded, Ok
    <3> QED BY <3>4, <3>5
  <2>4. ASSUME NEW x \in Units, Unboarded(work'[run][x]) PROVE ~Ok(x)'
    <3>1. CASE x = u /\ l = run
      BY <2>3, <2>4, <3>1
    <3>2. CASE x # u \/ l # run
      <4>1. Unboarded(work[run][x]) /\ results'["run"][x] = results["run"][x]
        BY <2>2, <2>4, <3>2
      <4> QED BY <1>1, <4>1 DEF Unwritten, Ok
    <3> QED BY <3>1, <3>2
  <2> QED BY <2>1, <2>4 DEF Unwritten, Unboarded, AtBoard
<1>9. CASE NextGroup
  <2>1. Groups /\ UNCHANGED <<run, work>>
    BY <1>1, <1>9, GroupMoves
  <2>2. \A x \in Units : ~Ok(x) => ~Ok(x)'
    BY <2>1 DEF Groups, Ok, Views
  <2> QED BY <1>1, <2>1, <2>2 DEF Unwritten, Unboarded, AtBoard
<1>10. CASE WaveEnds
  BY <1>3, <1>10 DEF WaveEnds
<1>11. CASE PausedInWave \/ PausedRun \/ FailedRun \/ FinishRun \/ Crash
  <2>1. UNCHANGED <<run, results>> /\ (work' = work \/ work' = [l \in Runs |-> [u \in Units |-> NoWork]])
    BY <1>11, LeaveMoves
  <2> QED BY <1>2, <1>3, <2>1 DEF Unboarded, AtBoard, NoWork
<1>12. ASSUME NEW k \in Callers, NEW batch \in SUBSET Children(k), Delegate(k, batch)
       PROVE  Unwritten'
  BY <1>1, <1>3, <1>12, DelegateMoves
<1>13. ASSUME NEW k \in Callers, NEW u \in Units, CancelDelegation(k, u) PROVE Unwritten'
  BY <1>1, <1>3, <1>13, CancelMoves
<1>14. CASE Resume
  <2>1. run' = run + 1 /\ run' \in Runs /\ UNCHANGED work
    BY <1>1, <1>14, ResumeMoves
  <2>3. \A x \in Units : Off(work'[run'][x])
    <3>1. run' > run
      BY <1>1, <2>1, RunOne
    <3> QED BY <1>1, <2>1, <3>1 DEF WorkRight
  <2> QED BY <2>3 DEF Unwritten, Unboarded, AtBoard, Off
<1>15. ASSUME Idles PROVE Unwritten'
  BY <1>3, <1>15 DEF Idles
<1> QED BY <1>4, <1>5, <1>6, <1>7, <1>8, <1>9, <1>10, <1>11, <1>12, <1>13, <1>14, <1>15, UnitsCases,
           IdleMoves DEF unitVars

(* What the registry and the resume take for completed has succeeded.       *)
LEMMA ToldRightKept ==
  UnitsIInv /\ [UnitsNext]_unitVars => ToldRight'
<1> SUFFICES ASSUME UnitsIInv, [UnitsNext]_unitVars PROVE ToldRight'
  OBVIOUS
<1>1. UnitsTypes /\ WorkRight /\ CallsFree /\ ToldRight /\ Resulted
  BY DEF UnitsIInv
<1>2. run \in Runs
  BY <1>1, RunOne
(* A run that goes on: a new status of completed has its reason.            *)
<1>3. ASSUME WithinRun, UNCHANGED <<run, phase, replay>>,
             \A k \in Callers, u \in Units : registry'[k][u] = "completed" =>
               registry[k][u] = "completed" \/ Succeeded(u),
             Going \/ UNCHANGED registry
      PROVE  ToldRight'
  <2>1. \A u \in Units : Succeeded(u) => Succeeded(u)'
    BY <1>3, SucceededKept
  <2>2. \A u \in Units : Ok(u) => Ok(u)'
    BY <1>3, OkKept
  <2> QED BY <1>1, <1>3, <2>1, <2>2 DEF ToldRight, Going
<1>4. ASSUME NEW k \in Callers, Return(k) \/ GiveUp(k) PROVE ToldRight'
  <2>1. /\ Returns(k) /\ UNCHANGED <<run, phase, replay>>
    BY <1>1, <1>4, ReturnMoves
  <2>2. WithinRun
    BY <1>4 DEF WithinRun
  <2>3. Going
    BY <1>1, <2>1 DEF CallsFree, Returns
  <2>4. \A j \in Callers, u \in Units : registry'[j][u] = registry[j][u] \/ registry'[j][u] = "failed"
    BY <2>1 DEF Returns, OtherRegistries
  <2> QED BY <1>3, <2>1, <2>2, <2>3, <2>4
<1>5. ASSUME NEW k \in Callers, NextWave(k) PROVE ToldRight'
  <2>1. PICK broken \in SUBSET Ready(k) : WaveLaunch(k, broken)
    BY <1>1, <1>5, WaveMoves
  <2>2. /\ UNCHANGED <<run, phase, replay>> /\ Going /\ WithinRun
    BY <1>1, <1>5, <2>1, WaveMoves, StartingOff DEF WithinRun
  <2>4. \A j \in Callers, u \in Units :
           registry'[j][u] = registry[j][u] \/ registry'[j][u] \in {"failed", "running"}
    BY <2>1 DEF WaveLaunch, OtherRegistries
  <2> QED BY <1>3, <2>2, <2>4
<1>6. ASSUME NEW k \in Callers, NEW u \in Units, StartRedelegating(k, u) PROVE ToldRight'
  <2>1. /\ StartsAlone(k, u) /\ UNCHANGED <<run, phase, replay>> /\ WithinRun /\ u \in call[k].wave
    BY <1>1, <1>6, StartMoves DEF WithinRun
  <2>2. Going
    BY <1>1, <2>1, RunOne DEF CallsFree
  <2>4. \A j \in Callers, x \in Units :
           registry'[j][x] = registry[j][x] \/ registry'[j][x] \in {"none", "running"}
    BY <2>1 DEF StartsAlone, Unknown
  <2> QED BY <1>3, <2>1, <2>2, <2>4
<1>7. ASSUME NEW l \in Runs, NEW u \in Units, TakeSlot(l, u) \/ Gone(l, u) \/ Back(l, u)
      PROVE  ToldRight'
  <2>1. UNCHANGED <<run, phase, replay, registry>>
    BY <1>1, <1>7, AdvanceMoves
  <2>2. WithinRun
    BY <1>7 DEF WithinRun
  <2> QED BY <1>3, <2>1, <2>2
<1>8. ASSUME NEW l \in Runs, NEW u \in Units, Settle(l, u) PROVE ToldRight'
  <2>1. UNCHANGED <<run, phase, replay>> /\ work[l][u].pc = "settle" /\ SettleCases(l, u)
    BY <1>1, <1>8, SettleSteps
  <2>2. WithinRun
    BY <1>8 DEF WithinRun
  <2>3. work[l][u].out \in Outs
    BY <1>1, <2>1 DEF WorkRight
  <2>4. UNCHANGED registry \/ Registers(l, u)
    BY <2>1 DEF SettleCases, BoardsIt, Ledgers
  <2>5. \A k \in Callers, x \in Units : registry'[k][x] # registry[k][x] =>
           /\ x = u /\ l = run /\ registry'[k][x] = RegistryOf(work[l][u].out)
           /\ registry[k][x] # "none"
    BY <1>1, <2>3, <2>4, RegistersMoves
  <2>6. \A k \in Callers, x \in Units : registry'[k][x] = "completed" =>
           registry[k][x] = "completed" \/ Succeeded(x)
    BY <2>1, <2>5 DEF RegistryOf, Succeeded
  <2>7. \A x \in Units : Succeeded(x) => Succeeded(x)'
    BY <2>2, SucceededKept
  <2>8. \A x \in Units : Ok(x) => Ok(x)'
    BY <2>2, OkKept
  <2>9. ~Going => \A k \in Callers, x \in Units : registry'[k][x] = "none"
    BY <1>1, <2>5 DEF ToldRight
  <2> QED BY <1>1, <2>1, <2>6, <2>7, <2>8, <2>9 DEF ToldRight, Going
<1>9. CASE NextGroup
  <2>1. Groups /\ UNCHANGED <<run, phase, replay>> /\ WithinRun
    BY <1>1, <1>9, GroupMoves DEF WithinRun
  <2>2. Going /\ \A u \in Units : replay[u] = "completed" => Succeeded(u)
    BY <1>1, <2>1 DEF Groups, ToldRight, Going, Succeeded
  <2>3. \A u \in Units : registry'[Root][u] = "completed" => Succeeded(u)
    BY <2>1, <2>2 DEF Groups
  <2> QED BY <1>3, <2>1, <2>2, <2>3 DEF Groups, OtherRegistries
<1>10. CASE WaveEnds
  <2>1. /\ phase' = "llm" /\ WithinRun /\ registry' = [registry EXCEPT ![Root] = Unknown]
    BY <1>10 DEF WaveEnds, WithinRun
  <2>2. \A u \in Units : Succeeded(u) => Succeeded(u)'
    BY <2>1, SucceededKept
  <2>3. registry \in [Callers -> [Units -> Statuses]]
    BY <1>1 DEF UnitsTypes
  <2>4. \A k \in Callers, u \in Units : registry'[k][u] = IF k = Root THEN "none" ELSE registry[k][u]
    BY <2>1, <2>3 DEF Unknown
  <2> QED BY <1>1, <2>1, <2>2, <2>4 DEF ToldRight, Going
<1>11. CASE PausedInWave \/ PausedRun \/ FailedRun \/ FinishRun \/ Crash
  <2>1. Leaves
    BY <1>11, LeaveMoves
  <2> QED BY <2>1 DEF Leaves, ToldRight, Unknown
<1>12. ASSUME NEW k \in Callers, NEW batch \in SUBSET Children(k), Delegate(k, batch)
       PROVE  ToldRight'
  <2>1. Delegates(k, batch) /\ UNCHANGED <<run, phase, replay>> /\ Going
    BY <1>1, <1>12, DelegateMoves
  <2>2. WithinRun
    BY <1>12 DEF WithinRun
  <2>3. \A j \in Callers, u \in Units : registry'[j][u] = "completed" =>
           registry[j][u] = "completed" \/ Succeeded(u)
    BY <2>1 DEF Delegates, OtherRegistries, Succeeded
  <2> QED BY <1>3, <2>1, <2>2, <2>3
<1>13. ASSUME NEW k \in Callers, NEW u \in Units, CancelDelegation(k, u) PROVE ToldRight'
  <2>1. /\ UNCHANGED <<run, phase, replay>> /\ registry[k][u] \in {"pending", "running"}
        /\ \A j \in Callers, x \in Units :
             registry'[j][x] = IF j = k /\ x = u THEN "cancelled" ELSE registry[j][x]
    BY <1>1, <1>13, CancelMoves
  <2>2. WithinRun /\ Going
    BY <1>1, <1>13, <2>1 DEF WithinRun, ToldRight
  <2> QED BY <1>3, <2>1, <2>2
<1>14. CASE Resume
  <2>1. /\ phase = "idle" /\ UNCHANGED registry
        /\ \A u \in Units : results'["run"][u] = results["disk"][u] /\ replay'[u] = Class(u)
    BY <1>1, <1>14, ResumeMoves DEF Views
  <2>2. \A k \in Callers, u \in Units : registry'[k][u] = "none"
    BY <1>1, <2>1 DEF ToldRight, Going
  <2>3. \A u \in Units : replay'[u] = "completed" => Ok(u)'
    <3> SUFFICES ASSUME NEW u \in Units, Class(u) = "completed" PROVE results["disk"][u] = "ok"
      BY <2>1 DEF Ok
    <3>1. results["disk"][u] \in {"none", "ok", "error", "paused"}
      BY <1>1 DEF UnitsTypes, Views
    <3>2. ledger["disk"][u] = "completed" => results["disk"][u] # "none"
      BY <1>1 DEF Resulted, Views
    <3> QED BY <3>1, <3>2 DEF Class
  <2> QED BY <2>2, <2>3 DEF ToldRight
<1>15. ASSUME Idles PROVE ToldRight'
  BY <1>1, <1>15 DEF Idles, ToldRight, Going, Ok, Succeeded
<1> QED BY <1>4, <1>5, <1>6, <1>7, <1>8, <1>9, <1>10, <1>11, <1>12, <1>13, <1>14, <1>15, UnitsCases,
           IdleMoves DEF unitVars

(* A status of completed comes after the result.                            *)
LEMMA ResultedKept ==
  UnitsIInv /\ [UnitsNext]_unitVars => Resulted'
<1> SUFFICES ASSUME UnitsIInv, [UnitsNext]_unitVars PROVE Resulted'
  OBVIOUS
<1>1. UnitsTypes /\ WorkRight /\ Resulted
  BY DEF UnitsIInv
<1>2. run \in Runs /\ \A u \in Units : results["disk"][u] \in {"none", "ok", "error", "paused"}
  BY <1>1, RunOne DEF UnitsTypes, Views
<1>3. ASSUME \A u \in Units : results["disk"][u] # "none" => results'["disk"][u] # "none",
             \A v \in Views, u \in Units : ledger'[v][u] = "completed" => \E w \in Views : ledger[w][u] = "completed",
             \A l \in Runs, u \in Units : LET w == work'[l][u] IN
               w.pc = "settle" /\ w.out = "ok" /\ ~AtBoard(w) =>
                 work[l][u].pc = "settle" /\ work[l][u].out = "ok" /\ ~AtBoard(work[l][u])
      PROVE  Resulted'
  BY <1>1, <1>3 DEF Resulted, AtBoard
<1>4. ASSUME NEW k \in Callers, Return(k) \/ GiveUp(k) PROVE Resulted'
  <2>1. Returns(k) /\ UNCHANGED <<work, results>>
    BY <1>1, <1>4, ReturnMoves
  <2>2. \A v \in Views, u \in Units : ledger'[v][u] = "completed" => ledger[v][u] = "completed"
    BY <2>1 DEF Returns
  <2> QED BY <1>3, <2>1, <2>2
<1>5. ASSUME NEW k \in Callers, NextWave(k) PROVE Resulted'
  <2>1. PICK broken \in SUBSET Ready(k) : WaveLaunch(k, broken)
    BY <1>1, <1>5, WaveMoves
  <2>2. UNCHANGED results
    BY <1>1, <1>5, WaveMoves
  <2>3. \A v \in Views, u \in Units : ledger'[v][u] = "completed" => ledger[v][u] = "completed"
    BY <2>1 DEF WaveLaunch
  <2>4. \A l \in Runs, u \in Units : work'[l][u].pc = "settle" => work'[l][u] = work[l][u]
    BY <2>1 DEF WaveLaunch, OtherWork
  <2> QED BY <1>3, <2>2, <2>3, <2>4
<1>6. ASSUME NEW k \in Callers, NEW u \in Units, StartRedelegating(k, u) PROVE Resulted'
  <2>1. StartsAlone(k, u) /\ UNCHANGED results
    BY <1>1, <1>6, StartMoves
  <2>2. \A v \in Views, x \in Units : ledger'[v][x] = "completed" => ledger[v][x] = "completed"
    BY <2>1 DEF StartsAlone
  <2>3. \A l \in Runs, x \in Units : work'[l][x].pc = "settle" => work'[l][x] = work[l][x]
    BY <2>1 DEF StartsAlone, WorkExcept
  <2> QED BY <1>3, <2>1, <2>2, <2>3
<1>7. ASSUME NEW l \in Runs, NEW u \in Units, TakeSlot(l, u) \/ Gone(l, u) \/ Back(l, u)
      PROVE  Resulted'
  <2>1. Advances(l, u) /\ UNCHANGED <<ledger, results>>
    BY <1>1, <1>7, AdvanceMoves
  <2>2. \A m \in Runs, x \in Units : LET w == work'[m][x] IN
           w.pc = "settle" /\ w.out = "ok" /\ ~AtBoard(w) => w = work[m][x]
    BY <2>1 DEF Advances, WorkExcept
  <2> QED BY <1>3, <2>1, <2>2
<1>8. ASSUME NEW l \in Runs, NEW u \in Units, Settle(l, u) PROVE Resulted'
  <2>1. work[l][u].pc = "settle" /\ SettleCases(l, u) /\ WorkExcept(l, u)
    BY <1>1, <1>8, SettleSteps, SettleKeeps
  <2>2. work[l][u].out \in Outs
    BY <1>1, <2>1 DEF WorkRight
  <2>6. \A x \in Units : results["disk"][x] # "none" => results'["disk"][x] # "none"
    <3>1. CASE BoardsIt(l, u) /\ work[l][u].out # "gone"
      BY <1>1, <2>2, <3>1, BoardsMoves DEF Views
    <3>2. UNCHANGED results \/ (BoardsIt(l, u) /\ work[l][u].out # "gone")
      BY <2>1 DEF SettleCases, Registers, Ledgers
    <3> QED BY <3>1, <3>2
(* Every step keeps the result it has written, and only the board's step     *)
(* passes the board.                                                         *)
  <2>3. ASSUME NEW m \in Runs, NEW x \in Units,
               LET w == work'[m][x] IN w.pc = "settle" /\ w.out = "ok" /\ ~AtBoard(w)
        PROVE  results'["disk"][x] # "none"
    <3>1. CASE m # l \/ x # u
      <4>1. work'[m][x] = work[m][x]
        BY <2>1, <3>1 DEF WorkExcept
      <4>2. results["disk"][x] # "none"
        BY <1>1, <2>3, <4>1 DEF Resulted
      <4> QED BY <2>6, <4>2
    <3>2. CASE m = l /\ x = u
      <4>1. ~Ends(l, u)
        BY <1>1, <2>3, <3>2, EndsMoves DEF Off
      <4>2. PICK rest \in Todos : Steps(l, u, rest)
        BY <2>1, <4>1 DEF SettleCases, Todos
      <4>3. work'[l][u].out = work[l][u].out /\ work'[l][u].todo = rest
        BY <1>1, <4>2, StepsMoves
      <4>4. \A r \in Todos : Steps(l, u, r) => r = rest
        BY <1>1, <4>2, <4>3, StepsMoves
      <4>5. rest \notin OnBoard /\ work[l][u].out = "ok"
        BY <2>3, <3>2, <4>3 DEF AtBoard
      <4>6. ~Steps(l, u, <<"board", "ledger">>)
        BY <4>4, <4>5 DEF OnBoard, Todos
      <4>7. BoardsIt(l, u)
        BY <2>1, <4>1, <4>5, <4>6 DEF SettleCases
      <4>8. results'["disk"][u] = ResultOf(work[l][u].out) /\ ResultOf(work[l][u].out) = "ok"
        BY <1>1, <4>5, <4>7, BoardsMoves DEF Views, Outs, ResultOf
      <4> QED BY <3>2, <4>8
    <3> QED BY <3>1, <3>2
  <2>4. ASSUME NEW v \in Views, NEW x \in Units, ledger'[v][x] = "completed"
        PROVE  results'["disk"][x] # "none"
    <3>1. CASE ledger[v][x] = "completed"
      <4>1. results["disk"][x] # "none"
        BY <1>1, <3>1 DEF Resulted
      <4> QED BY <2>6, <4>1
    <3>2. CASE ledger[v][x] # "completed"
      <4>1. Ledgers(l, u)
        BY <2>1, <2>4, <3>2 DEF SettleCases, Registers, BoardsIt
      <4>2. x = u /\ StatusOf(work[l][u].out) = "completed" /\ UNCHANGED results
        <5>1. x = u /\ StatusOf(work[l][u].out) = "completed"
          BY <1>1, <2>2, <2>4, <3>2, <4>1, LedgersMoves
        <5> QED BY <4>1, <5>1 DEF Ledgers
      <4>3. work[l][u].out = "ok"
        BY <2>2, <4>2 DEF StatusOf, Outs
      <4>5. ~AtBoard(work[l][u])
        <5>1. CASE AtBoard(work[l][u])
          <6>1. \/ Registers(l, u) /\ work[l][u].todo = <<"registry", "board", "ledger">>
                \/ BoardsIt(l, u) /\ work[l][u].todo = <<"board", "ledger">>
            BY <2>1, <4>3, <5>1 DEF SettleCases, AtBoard, OnBoard
          <6>2. UNCHANGED ledger
            BY <6>1 DEF Registers, BoardsIt
          <6> QED BY <2>4, <3>2, <6>2
        <5> QED BY <5>1
      <4>6. results["disk"][u] # "none"
        BY <1>1, <2>1, <4>3, <4>5 DEF Resulted
      <4> QED BY <4>2, <4>6
    <3> QED BY <3>1, <3>2
  <2> QED BY <2>3, <2>4 DEF Resulted, AtBoard
<1>9. CASE NextGroup
  <2>1. Groups /\ UNCHANGED <<work, ledger>>
    BY <1>1, <1>9, GroupMoves
  <2>2. \A u \in Units : results["disk"][u] # "none" => results'["disk"][u] # "none"
    BY <2>1 DEF Groups, Views
  <2> QED BY <1>3, <2>1, <2>2
<1>10. CASE WaveEnds
  BY <1>3, <1>10 DEF WaveEnds
<1>11. CASE PausedInWave \/ PausedRun \/ FailedRun \/ FinishRun \/ Crash
  <2>1. UNCHANGED <<ledger, results>> /\ (work' = work \/ work' = [l \in Runs |-> [u \in Units |-> NoWork]])
    BY <1>11, LeaveMoves
  <2> QED BY <1>3, <2>1 DEF NoWork
<1>12. ASSUME NEW k \in Callers, NEW batch \in SUBSET Children(k), Delegate(k, batch)
       PROVE  Resulted'
  <2>1. Delegates(k, batch) /\ UNCHANGED <<work, results>>
    BY <1>1, <1>12, DelegateMoves
  <2>2. \A v \in Views, u \in Units : ledger'[v][u] = "completed" => \E w \in Views : ledger[w][u] = "completed"
    BY <2>1 DEF Delegates, Views
  <2> QED BY <1>3, <2>1, <2>2
<1>13. ASSUME NEW k \in Callers, NEW u \in Units, CancelDelegation(k, u) PROVE Resulted'
  BY <1>1, <1>3, <1>13, CancelMoves
<1>14. CASE Resume
  <2>1. /\ UNCHANGED work
        /\ \A v \in Views, u \in Units : ledger'[v][u] = ledger["disk"][u] /\ results'[v][u] = results["disk"][u]
    BY <1>1, <1>14, ResumeMoves
  <2> QED BY <1>3, <2>1 DEF Views
<1>15. ASSUME Idles PROVE Resulted'
  BY <1>3, <1>15 DEF Idles
<1> QED BY <1>4, <1>5, <1>6, <1>7, <1>8, <1>9, <1>10, <1>11, <1>12, <1>13, <1>14, <1>15, UnitsCases,
           IdleMoves DEF unitVars

(* The executor's registry knows what is at work for it.                    *)
LEMMA KnownKept ==
  UnitsIInv /\ [UnitsNext]_unitVars => Known'
<1> SUFFICES ASSUME UnitsIInv, [UnitsNext]_unitVars, phase' = "llm" PROVE Known'
  BY DEF Known
<1>1. UnitsTypes /\ WorkRight /\ CallsFree /\ Owned /\ CallsOpen /\ Known
  BY DEF UnitsIInv
<1>2. /\ run \in Runs /\ Root \in Callers /\ Root \notin Units /\ Units \subseteq Callers
      /\ \A k \in Callers : call[k].pending \subseteq Units /\ call[k].wave \subseteq Units
  BY <1>1, RunOne
<1>3. ASSUME phase = "llm", UNCHANGED run, call'[Root].pending \subseteq call[Root].pending,
             \A u \in Units : registry'[Root][u] # registry[Root][u] =>
               u \notin call'[Root].pending /\ (~Off(work'[run][u]) => registry'[Root][u] \in {"running", "cancelled"}
                                                                     \/ work'[run][u].pc = "settle"),
             \A u \in Units : LET w == work'[run][u] IN
               w.pc \in {"slot", "run"} /\ w.async /\ w.owner = Root =>
                 \/ work[run][u].pc \in {"slot", "run"} /\ work[run][u].async /\ work[run][u].owner = Root
                 \/ registry'[Root][u] \in {"running", "cancelled"}
      PROVE  Known'
  <2>1. \A u \in call'[Root].pending : registry'[Root][u] = "pending"
    BY <1>1, <1>2, <1>3 DEF Known
  <2>2. \A u \in Units : LET w == work'[run][u] IN
           w.pc \in {"slot", "run"} /\ w.async /\ w.owner = Root => registry'[Root][u] \in {"running", "cancelled"}
    BY <1>1, <1>3 DEF Known, Off
  <2> QED BY <1>3, <2>1, <2>2 DEF Known
<1>4. ASSUME NEW k \in Callers, Return(k) \/ GiveUp(k) PROVE Known'
  <2>1. Returns(k) /\ UNCHANGED <<run, phase, work>>
    BY <1>1, <1>4, ReturnMoves
  <2>2. call'[Root].pending \subseteq call[Root].pending
    BY <1>2, <2>1 DEF Returns, OtherCalls, FreeCall
  <2>3. \A u \in Units : registry'[Root][u] # registry[Root][u] =>
           u \in call[Root].pending /\ call'[Root].pending = {}
    BY <1>2, <2>1 DEF Returns, OtherRegistries, FreeCall
  <2>4. \A u \in call[Root].pending : Off(work[run][u])
    BY <1>1, <1>2 DEF CallsOpen
  <2> QED BY <1>3, <2>1, <2>2, <2>3, <2>4
<1>5. ASSUME NEW k \in Callers, NextWave(k) PROVE Known'
  <2>1. PICK broken \in SUBSET Ready(k) : WaveLaunch(k, broken)
    BY <1>1, <1>5, WaveMoves
  <2>2. /\ UNCHANGED <<run, phase>> /\ Ready(k) \subseteq call[k].pending
        /\ \A x \in Starting(k, broken) \cup broken :
             x \in call[k].pending /\ x \in Units /\ Off(work[run][x])
    BY <1>1, <1>5, <2>1, WaveMoves, StartingOff
  <2>3. \A x \in Units : x \notin Starting(k, broken) => work'[run][x] = work[run][x]
    BY <2>1 DEF WaveLaunch, OtherWork
  <2>4. CASE k # Root
    <3>1. call'[Root] = call[Root] /\ registry'[Root] = registry[Root]
      BY <1>2, <2>1, <2>4 DEF WaveLaunch, OtherCalls, OtherRegistries
    <3>2. \A x \in Starting(k, broken) : work'[run][x].owner = k
      BY <2>1 DEF WaveLaunch
    <3> QED BY <1>3, <2>2, <2>3, <2>4, <3>1, <3>2
  <2>5. CASE k = Root
    <3>1. /\ call'[Root].pending = call[Root].pending \ Ready(Root)
          /\ \A x \in Units : registry'[Root][x] =
               IF x \in broken /\ registry[Root][x] # "cancelled" THEN "failed"
               ELSE IF x \in Starting(Root, broken) /\ registry[Root][x] = "pending" THEN "running"
               ELSE registry[Root][x]
      BY <2>1, <2>5 DEF WaveLaunch
    <3>2. \A x \in call[Root].pending : registry[Root][x] = "pending"
      BY <1>1, <2>2 DEF Known
    <3>3. \A x \in Starting(Root, broken) : registry'[Root][x] = "running" /\ x \in Ready(Root)
      BY <2>2, <2>5, <3>1, <3>2 DEF Starting
    <3>4. \A x \in broken : x \in Ready(Root) /\ work'[run][x] = work[run][x] /\ Off(work[run][x])
      BY <2>1, <2>2, <2>3, <2>5 DEF Starting
    <3>5. \A x \in Units : registry'[Root][x] # registry[Root][x] =>
             x \in Ready(Root) /\ (x \in Starting(Root, broken) \/ x \in broken)
      BY <3>1, <3>3, <3>4
    <3> QED BY <1>3, <2>2, <2>3, <2>5, <3>1, <3>3, <3>4, <3>5
  <2> QED BY <2>4, <2>5
<1>6. ASSUME NEW k \in Callers, NEW u \in Units, StartRedelegating(k, u) PROVE Known'
  <2>1. /\ u \in call[k].wave /\ StartsAlone(k, u) /\ UNCHANGED <<run, phase, call>>
    BY <1>1, <1>6, StartMoves
  <2>2. /\ ~work'[run][u].async
        /\ \A x \in Units : x # u => work'[run][x] = work[run][x]
    BY <1>2, <2>1 DEF StartsAlone, WorkExcept
  <2>3. \A x \in Units : registry'[Root][x] # registry[Root][x] =>
           k = Root /\ x = u /\ registry'[Root][x] = "running"
    BY <1>2, <2>1 DEF StartsAlone
  <2>4. k = Root => u \notin call[Root].pending
    BY <1>1, <2>1 DEF CallsOpen
  <2> QED BY <1>3, <2>1, <2>2, <2>3, <2>4
<1>7. ASSUME NEW l \in Runs, NEW u \in Units, TakeSlot(l, u) \/ Gone(l, u) \/ Back(l, u)
      PROVE  Known'
  <2>1. Advances(l, u) /\ UNCHANGED <<run, phase, call, registry>>
    BY <1>1, <1>7, AdvanceMoves
  <2>2. \A x \in Units : LET w == work'[run][x] IN
           /\ w.owner = work[run][x].owner /\ w.async = work[run][x].async
           /\ w.pc \in {"slot", "run"} => work[run][x].pc \in {"slot", "run"}
    BY <1>2, <2>1 DEF Advances, WorkExcept
  <2> QED BY <1>3, <2>1, <2>2
<1>8. ASSUME NEW l \in Runs, NEW u \in Units, Settle(l, u) PROVE Known'
  <2>1. /\ work[l][u].pc = "settle" /\ SettleCases(l, u) /\ UNCHANGED <<run, phase>>
        /\ call'[Root].pending = call[Root].pending
    BY <1>1, <1>2, <1>8, SettleSteps, SettleKeeps
  <2>2. work[l][u].out \in Outs
    BY <1>1, <2>1 DEF WorkRight
  <2>3. UNCHANGED registry \/ Registers(l, u)
    BY <2>1 DEF SettleCases, BoardsIt, Ledgers
  <2>4. \A x \in Units : registry'[Root][x] # registry[Root][x] => x = u /\ l = run
    BY <1>1, <1>2, <2>2, <2>3, RegistersMoves
  <2>5. \A x \in Units : x # u \/ l # run => work'[run][x] = work[run][x]
    BY <1>2, <1>8, SettleKeeps DEF WorkExcept
  <2>6. l = run => work'[run][u].pc \in {"off", "settle"}
    BY <1>8, SettleKeeps DEF Off
  <2>7. l = run => u \notin call[Root].pending
    BY <1>1, <1>2, <2>1 DEF CallsOpen, Off
  <2> QED BY <1>3, <2>1, <2>4, <2>5, <2>6, <2>7 DEF Off
<1>9. CASE NextGroup
  BY <1>1, <1>9, GroupMoves DEF Groups
<1>10. CASE WaveEnds
  <2>1. /\ phase = "wave" /\ call[Root].pc = "free" /\ UNCHANGED <<run, call, work>>
    BY <1>10 DEF WaveEnds
  <2>2. call[Root].pending = {}
    BY <1>1, <1>2, <2>1 DEF CallsFree
  <2>3. \A u \in Units : LET w == work[run][u] IN ~(~Off(w) /\ w.async /\ w.owner = Root)
    BY <1>1, <2>1 DEF Owned, Going
  <2> QED BY <2>1, <2>2, <2>3 DEF Known, Off
<1>11. CASE PausedInWave \/ PausedRun \/ FailedRun \/ FinishRun \/ Crash
  <2>1. Leaves
    BY <1>11, LeaveMoves
  <2> QED BY <2>1 DEF Leaves
<1>12. ASSUME NEW k \in Callers, NEW batch \in SUBSET Children(k), Delegate(k, batch)
       PROVE  Known'
  <2>1. Delegates(k, batch) /\ UNCHANGED <<run, phase, work>>
    BY <1>1, <1>12, DelegateMoves
  <2>2. CASE k # Root
    <3>1. call'[Root] = call[Root] /\ registry'[Root] = registry[Root]
      BY <1>2, <2>1, <2>2 DEF Delegates, OtherCalls, OtherRegistries
    <3> QED BY <1>3, <2>1, <3>1
  <2>3. CASE k = Root
    <3>1. /\ call'[Root].pending = Fresh(batch)
          /\ \A u \in Units : registry'[Root][u] =
               IF u \in batch THEN IF Ok(u) THEN "completed" ELSE "pending" ELSE registry[Root][u]
          /\ \A u \in batch : Off(work[run][u])
      BY <2>1, <2>3 DEF Delegates
    <3>2. \A u \in Fresh(batch) : u \in batch /\ u \in Units /\ ~Ok(u)
      BY DEF Fresh, Children
    <3>3. \A u \in call'[Root].pending : registry'[Root][u] = "pending"
      BY <3>1, <3>2
    <3>4. \A u \in Units : ~Off(work[run][u]) => registry'[Root][u] = registry[Root][u]
      BY <3>1
    <3> QED BY <1>1, <2>1, <3>3, <3>4 DEF Known, Off
  <2> QED BY <2>2, <2>3
<1>13. ASSUME NEW k \in Callers, NEW u \in Units, CancelDelegation(k, u) PROVE Known'
  <2>1. /\ UNCHANGED <<run, phase, call, work>> /\ call[k].pc = "free"
        /\ \A j \in Callers, x \in Units :
             registry'[j][x] = IF j = k /\ x = u THEN "cancelled" ELSE registry[j][x]
    BY <1>1, <1>13, CancelMoves
  <2>2. k = Root => call[Root].pending = {}
    BY <1>1, <1>2, <2>1 DEF CallsFree
  <2> QED BY <1>2, <1>3, <2>1, <2>2
<1>14. CASE Resume
  BY <1>1, <1>14, ResumeMoves
<1>15. ASSUME Idles PROVE Known'
  BY <1>3, <1>15 DEF Idles
<1> QED BY <1>4, <1>5, <1>6, <1>7, <1>8, <1>9, <1>10, <1>11, <1>12, <1>13, <1>14, <1>15, UnitsCases,
           IdleMoves DEF unitVars

(* What an execution has written, and why it stopped.                       *)
LEMMA SettledRightKept ==
  UnitsIInv /\ [UnitsNext]_unitVars => SettledRight'
<1> SUFFICES ASSUME UnitsIInv, [UnitsNext]_unitVars PROVE SettledRight'
  OBVIOUS
<1>1. UnitsTypes /\ WorkRight /\ CallsFree /\ SettledRight
  BY DEF UnitsIInv
<1>2. run \in Runs /\ Root \in Callers
  BY <1>1, RunOne
<1>3. ASSUME UNCHANGED <<run, results>>, phase' = phase \/ (Going /\ Going'), paused => paused', ctxDone \subseteq ctxDone',
             \A u \in Units : LET w == work'[run][u] o == work[run][u] IN
               w.pc = "settle" =>
                 /\ w.out = o.out /\ w.async = o.async /\ o.pc = "settle"
                 /\ ~AtBoard(w) => ~AtBoard(o)
                 /\ u \in dropped => u \in dropped',
             \A k \in Callers : call'[k].pc = "launch" /\ call'[k].hold => call[k].pc = "launch" /\ call[k].hold
      PROVE  SettledRight'
  BY <1>1, <1>3 DEF SettledRight, Going, AtBoard
<1>4. ASSUME NEW k \in Callers, Return(k) \/ GiveUp(k) PROVE SettledRight'
  <2>1. Returns(k) /\ UNCHANGED <<run, phase, paused, ctxDone, dropped, work, results>>
    BY <1>1, <1>4, ReturnMoves
  <2>2. \A j \in Callers : call'[j].pc = "launch" => call'[j] = call[j]
    BY <2>1 DEF Returns, OtherCalls, FreeCall
  <2> QED BY <1>3, <2>1, <2>2
<1>5. ASSUME NEW k \in Callers, NextWave(k) PROVE SettledRight'
  <2>1. PICK broken \in SUBSET Ready(k) : WaveLaunch(k, broken)
    BY <1>1, <1>5, WaveMoves
  <2>2. UNCHANGED <<run, phase, paused, ctxDone, results>> /\ call[k].pc = "launch"
    BY <1>1, <1>5, WaveMoves
  <2>3. \A x \in Units : x \notin Starting(k, broken) => work'[run][x] = work[run][x]
    BY <2>1 DEF WaveLaunch, OtherWork
  <2>4. \A x \in Starting(k, broken) : work'[run][x].pc = "slot"
    BY <2>1 DEF WaveLaunch
  <2>5. \A j \in Callers : call'[j].hold = call[j].hold /\ call'[j].pc = call[j].pc
    BY <2>1, <2>2 DEF WaveLaunch, OtherCalls
  <2>6. \A x \in dropped : x \notin Starting(k, broken) => x \in dropped'
    BY <2>1 DEF WaveLaunch
  <2> QED BY <1>3, <2>2, <2>3, <2>4, <2>5, <2>6
<1>6. ASSUME NEW k \in Callers, NEW u \in Units, StartRedelegating(k, u) PROVE SettledRight'
  <2>1. StartsAlone(k, u) /\ UNCHANGED <<run, phase, paused, ctxDone, dropped, call, results>>
    BY <1>1, <1>6, StartMoves
  <2>2. \A x \in Units : work'[run][x].pc = "settle" => work'[run][x] = work[run][x]
    BY <1>2, <2>1 DEF StartsAlone, WorkExcept
  <2> QED BY <1>3, <2>1, <2>2
<1>7. ASSUME NEW l \in Runs, NEW u \in Units, TakeSlot(l, u) \/ Gone(l, u) \/ Back(l, u)
      PROVE  SettledRight'
  <2>1. Advances(l, u) /\ UNCHANGED <<run, phase, paused, ctxDone, dropped, call, results>>
    BY <1>1, <1>7, AdvanceMoves
  <2>2. \A x \in Units : x # u \/ l # run => work'[run][x] = work[run][x]
    BY <1>2, <2>1 DEF Advances, WorkExcept
  <2>3. l = run /\ work'[run][u].pc = "settle" => LET w == work'[run][u] IN
          /\ w.out # "gone" => AtBoard(w)
          /\ w.out = "paused" => paused
          /\ w.out \in {"stopped", "gone"} => run \in ctxDone \/ (w.async /\ u \in dropped)
    BY <2>1 DEF Advances, ContextDone
  <2>4. \A x \in Units : LET w == work'[run][x] IN w.pc = "settle" =>
          /\ ~AtBoard(w) /\ w.out # "gone" => results["run"][x] = ResultOf(w.out)
          /\ Going /\ w.out = "paused" => paused
          /\ Going /\ w.out \in {"stopped", "gone"} => run \in ctxDone \/ (w.async /\ x \in dropped)
    <3> SUFFICES ASSUME NEW x \in Units, work'[run][x].pc = "settle"
                 PROVE  LET w == work'[run][x] IN
          /\ ~AtBoard(w) /\ w.out # "gone" => results["run"][x] = ResultOf(w.out)
          /\ Going /\ w.out = "paused" => paused
          /\ Going /\ w.out \in {"stopped", "gone"} => run \in ctxDone \/ (w.async /\ x \in dropped)
      OBVIOUS
    <3>1. CASE x = u /\ l = run
      BY <2>3, <3>1
    <3>2. CASE x # u \/ l # run
      <4>1. work'[run][x] = work[run][x]
        BY <2>2, <3>2
      <4> QED BY <1>1, <4>1 DEF SettledRight
    <3> QED BY <3>1, <3>2
  <2> QED BY <1>1, <2>1, <2>4 DEF SettledRight, Going, AtBoard
<1>8. ASSUME NEW l \in Runs, NEW u \in Units, Settle(l, u) PROVE SettledRight'
  <2>1. /\ work[l][u].pc = "settle" /\ SettleCases(l, u)
        /\ UNCHANGED <<run, phase, paused, ctxDone, dropped>>
    BY <1>1, <1>8, SettleSteps
  <2>2. work[l][u].out \in Outs /\ WorkExcept(l, u)
    BY <1>1, <1>8, <2>1, SettleKeeps DEF WorkRight
  <2>3. \A x \in Units : x # u \/ l # run =>
           work'[run][x] = work[run][x] /\ results'["run"][x] = results["run"][x]
    BY <1>2, <1>8, SettleKeeps DEF WorkExcept
  <2>4. ASSUME work'[l][u].pc = "settle", l = run
        PROVE  LET w == work'[run][u] o == work[run][u] IN
               /\ w.out = o.out /\ w.async = o.async
               /\ ~AtBoard(w) /\ w.out # "gone" => results'["run"][u] = ResultOf(w.out)
    <3>1. ~Ends(l, u)
      BY <1>1, <2>4, EndsMoves DEF Off
    <3>2. PICK rest \in Todos : Steps(l, u, rest)
      BY <2>1, <3>1 DEF SettleCases, Todos
    <3>3. /\ work'[l][u].out = work[l][u].out /\ work'[l][u].async = work[l][u].async
          /\ work'[l][u].todo = rest
      BY <1>1, <3>2, StepsMoves
    <3>4. \A r \in Todos : Steps(l, u, r) => r = rest
      BY <1>1, <3>2, <3>3, StepsMoves
    <3>5. CASE rest \notin OnBoard /\ work[l][u].out # "gone"
      <4>1. ~Steps(l, u, <<"board", "ledger">>)
        BY <3>4, <3>5 DEF OnBoard, Todos
      <4>2. BoardsIt(l, u) \/ (Ledgers(l, u) /\ work[l][u].todo = <<"ledger", "registry">>)
        BY <2>1, <3>1, <3>5, <4>1 DEF SettleCases
      <4>3. CASE BoardsIt(l, u)
        <5>1. results'["run"][u] = ResultOf(work[l][u].out)
          BY <1>1, <2>2, <2>4, <3>5, <4>3, BoardsMoves DEF Views
        <5> QED BY <2>4, <3>3, <5>1
      <4>4. CASE Ledgers(l, u) /\ work[l][u].todo = <<"ledger", "registry">>
        <5>1. ~AtBoard(work[l][u]) /\ UNCHANGED results
          BY <4>4 DEF AtBoard, OnBoard, Ledgers
        <5>2. results["run"][u] = ResultOf(work[run][u].out)
          BY <1>1, <2>1, <2>4, <3>5, <5>1 DEF SettledRight
        <5> QED BY <2>4, <3>3, <5>1, <5>2
      <4> QED BY <4>2, <4>3, <4>4
    <3>6. CASE rest \in OnBoard \/ work[l][u].out = "gone"
      BY <2>4, <3>3, <3>6 DEF AtBoard
    <3> QED BY <3>5, <3>6
  <2>5. \A x \in Units : LET w == work'[run][x] IN w.pc = "settle" =>
          /\ ~AtBoard(w) /\ w.out # "gone" => results'["run"][x] = ResultOf(w.out)
          /\ Going /\ w.out = "paused" => paused
          /\ Going /\ w.out \in {"stopped", "gone"} => run \in ctxDone \/ (w.async /\ x \in dropped)
    <3> SUFFICES ASSUME NEW x \in Units, work'[run][x].pc = "settle"
                 PROVE  LET w == work'[run][x] IN
          /\ ~AtBoard(w) /\ w.out # "gone" => results'["run"][x] = ResultOf(w.out)
          /\ Going /\ w.out = "paused" => paused
          /\ Going /\ w.out \in {"stopped", "gone"} => run \in ctxDone \/ (w.async /\ x \in dropped)
      OBVIOUS
    <3>1. CASE x = u /\ l = run
      BY <1>1, <2>1, <2>4, <3>1 DEF SettledRight
    <3>2. CASE x # u \/ l # run
      <4>1. work'[run][x] = work[run][x] /\ results'["run"][x] = results["run"][x]
        BY <2>3, <3>2
      <4> QED BY <1>1, <4>1 DEF SettledRight
    <3> QED BY <3>1, <3>2
  <2>6. \A k \in Callers : Going /\ call'[k].pc = "launch" /\ call'[k].hold => paused
    <3>1. UNCHANGED call \/ CallsAfter(l, u)
      BY <1>8, SettleKeeps
    <3>2. \A k \in Callers : Going /\ call[k].pc = "launch" /\ call[k].hold => paused
      BY <1>1 DEF SettledRight
    <3>3. Going /\ l = run /\ work[l][u].out = "paused" => paused
      BY <1>1, <2>1 DEF SettledRight
    <3>4. \A k \in Callers : call'[k].pc = call[k].pc /\
             (call'[k].hold => call[k].hold \/ (l = run /\ work[l][u].out = "paused"))
      BY <3>1 DEF CallsAfter
    <3> QED BY <3>2, <3>3, <3>4
  <2> QED BY <2>1, <2>5, <2>6 DEF SettledRight, Going, AtBoard
<1>9. CASE NextGroup
  <2>1. Groups /\ UNCHANGED <<run, phase, paused, ctxDone, dropped, work>>
    BY <1>1, <1>9, GroupMoves
  <2>2. \A x \in Group : Off(work[run][x])
    BY <2>1 DEF Group, Groups, UnitsIInv, Upwards, Waiting
  <2>3. \A x \in Units : work[run][x].pc = "settle" => results'["run"][x] = results["run"][x]
    BY <2>1, <2>2 DEF Groups, Views, Off
  <2>4. \A j \in Callers : call'[j].hold => call'[j] = call[j]
    BY <2>1 DEF Groups, OtherCalls
  <2> QED BY <1>1, <2>1, <2>3, <2>4 DEF SettledRight, Going, AtBoard
<1>10. CASE WaveEnds
  BY <1>3, <1>10 DEF WaveEnds, Going
<1>11. CASE PausedInWave \/ PausedRun \/ FailedRun \/ FinishRun \/ Crash
  <2>1. Leaves /\ UNCHANGED <<run, results>> /\ (work' = work \/ work' = [l \in Runs |-> [u \in Units |-> NoWork]])
    BY <1>11, LeaveMoves
  <2>2. ~Going'
    BY <2>1 DEF Leaves, Going
  <2>3. \A x \in Units : work'[run][x].pc = "settle" => work'[run][x] = work[run][x]
    BY <1>2, <2>1 DEF NoWork
  <2> QED BY <1>1, <2>1, <2>2, <2>3 DEF SettledRight, AtBoard
<1>12. ASSUME NEW k \in Callers, NEW batch \in SUBSET Children(k), Delegate(k, batch)
       PROVE  SettledRight'
  <2>1. Delegates(k, batch) /\ UNCHANGED <<run, phase, paused, ctxDone, dropped, work, results>>
    BY <1>1, <1>12, DelegateMoves
  <2>2. \A j \in Callers : call'[j].hold => call'[j] = call[j]
    BY <2>1 DEF Delegates, OtherCalls
  <2> QED BY <1>3, <2>1, <2>2
<1>13. ASSUME NEW k \in Callers, NEW u \in Units, CancelDelegation(k, u) PROVE SettledRight'
  BY <1>1, <1>3, <1>13, CancelMoves
<1>14. CASE Resume
  <2>1. phase = "idle" /\ run' = run + 1 /\ run' \in Runs /\ UNCHANGED <<call, work>>
    BY <1>1, <1>14, ResumeMoves
  <2>2. \A k \in Callers : call'[k].pc = "free"
    BY <1>1, <2>1 DEF CallsFree, Going
  <2>3. \A x \in Units : Off(work'[run'][x])
    <3>1. run' > run
      BY <1>1, <2>1, RunOne
    <3> QED BY <1>1, <2>1, <3>1 DEF WorkRight
  <2> QED BY <2>2, <2>3 DEF SettledRight, Off
<1>15. ASSUME Idles PROVE SettledRight'
  BY <1>3, <1>15 DEF Idles
<1> QED BY <1>4, <1>5, <1>6, <1>7, <1>8, <1>9, <1>10, <1>11, <1>12, <1>13, <1>14, <1>15, UnitsCases,
           IdleMoves DEF unitVars

(* While its delegator waits, nobody touches what a child has settled.      *)
LEMMA ChildStill ==
  ASSUME UnitsIInv, WithinRun, phase = "wave", NEW p \in Units, NEW c \in Children(p),
         p \in todo \/ (p \in Asked(Root) /\ Off(work[run][p])), c \notin Asked(Root), c \notin Group \/ ~NextGroup
  PROVE  UNCHANGED <<run, shape>> /\ (Over(c) => Over(c)')
<1>1. UnitsTypes /\ WorkRight /\ CallsFree /\ Owned /\ Upwards
  BY DEF UnitsIInv
<1>2. /\ run \in Runs /\ Root \in Callers /\ Root \notin Units /\ c \in Units /\ shape[c].by = p
      /\ Units \subseteq Callers /\ "run" \in Views
      /\ \A l \in Runs, x \in Units : work[l][x].owner \in Callers
  BY <1>1, RunOne DEF Children, Views
<1>3. /\ Off(work[run][p]) /\ call[p].pc = "free"
      /\ \A x \in Units : ~Off(work[run][x]) => work[run][x].owner # p
  BY <1>1 DEF Upwards, Waiting
<1>4. \A k \in Callers : c \notin Asked(k)
  <2>1. Asked(p) = {}
    BY <1>1, <1>2, <1>3 DEF CallsFree, Asked
  <2>2. \A k \in Callers : c \in Asked(k) => k = p \/ k = Root
    BY <1>1, <1>2 DEF Owned, Mine
  <2> QED BY <2>1, <2>2
<1>5. Off(work[run][c])
  <2>1. ~Off(work[run][c]) => c \in Mine(work[run][c].owner)
    BY <1>1, <1>2 DEF Owned, Going
  <2>2. ~Off(work[run][c]) => work[run][c].owner = Root
    BY <1>2, <1>3, <2>1 DEF Mine
  <2>3. ~Off(work[run][c]) => ~work[run][c].async
    BY <1>1, <1>2, <2>2 DEF Owned, Going
  <2>4. ~Off(work[run][c]) => c \in call[Root].wave
    BY <1>1, <1>2, <2>2, <2>3 DEF Owned, Going
  <2> QED BY <2>4 DEF Asked
<1>6. ASSUME UNCHANGED <<run, shape>>, results'["run"][c] = results["run"][c], ledger'["run"][c] = ledger["run"][c]
      PROVE  UNCHANGED <<run, shape>> /\ (Over(c) => Over(c)')
  BY <1>6 DEF Over
<1>7. ASSUME NEW k \in Callers, Return(k) \/ GiveUp(k)
      PROVE  UNCHANGED <<run, shape>> /\ (Over(c) => Over(c)')
  <2>1. Returns(k) /\ UNCHANGED <<run, shape, results>>
    BY <1>1, <1>7, ReturnMoves
  <2>2. c \notin call[k].pending
    BY <1>4 DEF Asked
  <2>3. ledger'["run"][c] = ledger["run"][c]
    BY <1>2, <2>1, <2>2 DEF Returns
  <2> QED BY <1>6, <2>1, <2>3
<1>8. ASSUME NEW k \in Callers, NextWave(k)
      PROVE  UNCHANGED <<run, shape>> /\ (Over(c) => Over(c)')
  <2>1. PICK broken \in SUBSET Ready(k) : WaveLaunch(k, broken)
    BY <1>1, <1>8, WaveMoves
  <2>2. UNCHANGED <<run, shape, results>>
    BY <1>1, <1>8, WaveMoves
  <2>3. c \notin broken /\ c \notin Starting(k, broken)
    BY <1>4, <1>8, <2>1, StartingOff DEF Asked
  <2>4. ledger'["run"][c] = ledger["run"][c]
    BY <1>2, <2>1, <2>3 DEF WaveLaunch
  <2> QED BY <1>6, <2>2, <2>4
<1>9. ASSUME NEW k \in Callers, NEW u \in Units, StartRedelegating(k, u)
      PROVE  UNCHANGED <<run, shape>> /\ (Over(c) => Over(c)')
  <2>1. u \in call[k].wave /\ StartsAlone(k, u) /\ UNCHANGED <<run, shape, results>>
    BY <1>1, <1>9, StartMoves
  <2>2. c # u
    BY <1>4, <2>1 DEF Asked
  <2>3. ledger'["run"][c] = ledger["run"][c]
    BY <1>2, <2>1, <2>2 DEF StartsAlone
  <2> QED BY <1>6, <2>1, <2>3
<1>10. ASSUME NEW l \in Runs, NEW u \in Units, TakeSlot(l, u) \/ Gone(l, u) \/ Back(l, u)
       PROVE  UNCHANGED <<run, shape>> /\ (Over(c) => Over(c)')
  BY <1>1, <1>6, <1>10, AdvanceMoves
<1>11. ASSUME NEW l \in Runs, NEW u \in Units, Settle(l, u)
       PROVE  UNCHANGED <<run, shape>> /\ (Over(c) => Over(c)')
  <2>1. c # u \/ l # run
    BY <1>5, <1>11, SettleKeeps DEF Off
  <2> QED BY <1>2, <1>6, <1>11, <2>1, SettleKeeps
<1>12. CASE NextGroup
  <2>1. Groups /\ UNCHANGED <<run, shape, ledger>>
    BY <1>1, <1>12, GroupMoves
  <2>2. results'["run"][c] = results["run"][c]
    BY <1>2, <1>12, <2>1 DEF Groups
  <2> QED BY <1>6, <2>1, <2>2
<1>13. ASSUME NEW k \in Callers, NEW batch \in SUBSET Children(k), Delegate(k, batch)
       PROVE  UNCHANGED <<run, shape>> /\ (Over(c) => Over(c)')
  <2>1. /\ Delegates(k, batch) /\ UNCHANGED <<run, shape, results>> /\ k # Root /\ work[run][k].pc = "run"
    BY <1>1, <1>13, DelegateMoves
  <2>2. k # p
    BY <1>3, <2>1 DEF Off
  <2>3. c \notin Fresh(batch)
    BY <1>2, <2>2 DEF Fresh, Children
  <2>4. ledger'["run"][c] = ledger["run"][c]
    BY <1>2, <2>1, <2>3 DEF Delegates
  <2> QED BY <1>6, <2>1, <2>4
<1>14. ASSUME NEW k \in Callers, NEW u \in Units, CancelDelegation(k, u)
       PROVE  UNCHANGED <<run, shape>> /\ (Over(c) => Over(c)')
  BY <1>1, <1>6, <1>14, CancelMoves
<1>15. WaveEnds \/ PauseSession \/ QuitRun => UNCHANGED <<run, shape, results, ledger>>
  BY DEF WaveEnds, PauseSession, QuitRun
<1> QED BY <1>6, <1>7, <1>8, <1>9, <1>10, <1>11, <1>12, <1>13, <1>14, <1>15 DEF WithinRun

LEMMA ParentsWaitKept ==
  UnitsIInv /\ [UnitsNext]_unitVars => ParentsWait'
<1> SUFFICES ASSUME UnitsIInv, [UnitsNext]_unitVars, phase' = "wave" PROVE ParentsWait'
  BY DEF ParentsWait
<1>1. UnitsTypes /\ WorkRight /\ CallsFree /\ Owned /\ CallsOpen /\ Upwards /\ SettledRight /\ ParentsWait
  BY DEF UnitsIInv
<1>2. /\ run \in Runs /\ Root \in Callers /\ Root \notin Units
      /\ call[Root].pending \subseteq Units /\ call[Root].wave \subseteq Units /\ todo \subseteq Units
      /\ "run" \in Views
  BY <1>1, RunOne DEF UnitsTypes, Views
<1>3. ASSUME NEW p \in Units, NEW c \in Children(p)
      PROVE  /\ c \in Units /\ Depth(c) > Depth(p)
             /\ phase = "wave" /\ p \in Asked(Root) => c \notin Asked(Root) \cup todo
             /\ p \in Group => c \notin Group
  <2>1. c \in Units /\ p \in Callers /\ p # Root /\ shape[c].by = p /\ Depth(c) = Depth(p) + 1
        /\ Depth(p) \in Nat
    BY <1>1, <1>2, RunOne DEF Children, Callers
  <2>2. phase = "wave" /\ p \in Asked(Root) /\ c \in Asked(Root) => Depth(c) = Depth(p)
    BY <1>1 DEF Upwards
  <2>3. phase = "wave" /\ p \in Asked(Root) /\ c \in todo => Depth(p) > Depth(c)
    BY <1>1 DEF Upwards
  <2>4. p \in Group /\ c \in Group => Depth(c) <= Depth(p)
    BY DEF Group
  <2> QED BY <2>1, <2>2, <2>3, <2>4
(* A step of the wave in which no unit is enumerated anew: who has settled  *)
(* stays so, and who leaves the executor's call has settled or halts it.    *)
<1>4. ASSUME phase = "wave", WithinRun, UNCHANGED <<shape, run, todo>>,
             call[Root].pc = "free" => call'[Root].pc = "free",
             call'[Root].pc = "launch" => ~pausedAgain',
             Halted => Halted', run \in ctxDone => run \in ctxDone',
             call'[Root].pending \subseteq call[Root].pending,
             \A c \in Asked(Root) : c \in Asked(Root)' \/ Over(c)' \/ Halted',
             \A p \in call'[Root].wave : Off(work'[run][p]) =>
               p \in Asked(Root) /\ Off(work[run][p]) /\ (p \in call[Root].wave \/ run \notin ctxDone)
      PROVE  ParentsWait'
  <2>1. \A p : Children(p)' = Children(p)
    BY <1>4 DEF Children
  <2>3. ~NextGroup
    BY <1>1, <1>4, GroupMoves DEF Groups
  <2>2. ASSUME NEW p \in Units, NEW c \in Children(p)
        PROVE  /\ p \in todo => c \in todo \cup Asked(Root)' \/ Over(c)' \/ Halted'
               /\ p \in call'[Root].pending => Over(c)' \/ run \in ctxDone'
               /\ p \in call'[Root].wave /\ Off(work'[run][p]) => Over(c)'
    <3>1. ASSUME p \in todo
          PROVE  c \in todo \cup Asked(Root)' \/ Over(c)' \/ Halted'
      <4>1. c \in todo \cup Asked(Root) \/ Over(c) \/ Halted
        BY <1>1, <1>4, <3>1 DEF ParentsWait
      <4>2. c \notin Asked(Root) /\ Over(c) => Over(c)'
        BY <1>4, <3>1, <2>3, ChildStill
      <4> QED BY <1>4, <4>1, <4>2
    <3>2. ASSUME p \in call'[Root].pending
          PROVE  Over(c)' \/ run \in ctxDone'
      <4>1. p \in call[Root].pending /\ p \in Asked(Root) /\ Off(work[run][p])
        BY <1>1, <1>2, <1>4, <3>2 DEF CallsOpen, Asked
      <4>2. Over(c) \/ run \in ctxDone
        BY <1>1, <1>4, <4>1 DEF ParentsWait
      <4>3. c \notin Asked(Root)
        BY <1>3, <1>4, <4>1
      <4>4. Over(c) => Over(c)'
        BY <1>4, <4>1, <4>3, <2>3, ChildStill
      <4> QED BY <1>4, <4>2, <4>4
    <3>3. ASSUME p \in call'[Root].wave, Off(work'[run][p])
          PROVE  Over(c)'
      <4>1. p \in Asked(Root) /\ Off(work[run][p]) /\ (p \in call[Root].wave \/ run \notin ctxDone)
        BY <1>4, <3>3
      <4>2. Over(c)
        BY <1>1, <1>4, <4>1 DEF ParentsWait, Asked
      <4>3. c \notin Asked(Root)
        BY <1>3, <1>4, <4>1
      <4> QED BY <1>4, <4>1, <4>2, <4>3, <2>3, ChildStill
    <3> QED BY <3>1, <3>2, <3>3
  <2> QED BY <1>4, <2>1, <2>2 DEF ParentsWait, Off
<1>5. ASSUME NEW k \in Callers, Return(k) \/ GiveUp(k) PROVE ParentsWait'
  <2>1. Returns(k) /\ UNCHANGED <<shape, run, phase, todo, ctxDone, work, results>>
    BY <1>1, <1>5, ReturnMoves
  <2>2. WithinRun
    BY <1>5 DEF WithinRun
  <2>3. CASE k # Root
    <3>1. call'[Root] = call[Root] /\ Asked(Root)' = Asked(Root) /\ pausedAgain' = pausedAgain
      <4>1. call'[Root] = call[Root]
        BY <1>2, <2>1, <2>3 DEF Returns, OtherCalls
      <4>2. pausedAgain \in BOOLEAN
        BY <1>1 DEF UnitsTypes
      <4>3. pausedAgain' = pausedAgain
        BY <2>1, <2>3, <4>2 DEF Returns
      <4> QED BY <4>1, <4>3 DEF Asked
    <3>2. Halted => Halted'
      BY <2>1, <3>1 DEF Halted
    <3>3. call'[Root].pc = "launch" => ~pausedAgain'
      BY <1>1, <2>1, <3>1 DEF ParentsWait
    <3>4. \A p \in call'[Root].wave : p \in Asked(Root)
      BY <3>1 DEF Asked
    <3> QED BY <1>4, <2>1, <2>2, <3>1, <3>2, <3>3, <3>4
  <2>4. CASE k = Root
    <3>1. /\ call'[Root].pc = "free" /\ call'[Root].pending = {} /\ call'[Root].wave = {}
          /\ call[Root].wave = {} /\ call[Root].pc = "launch"
      BY <2>1, <2>4 DEF Returns, FreeCall
    <3>2. \/ call[Root].hold /\ pausedAgain'
          \/ call[Root].pending = {} /\ ~call[Root].hold /\ (pausedAgain => pausedAgain')
          \/ /\ ~call[Root].hold /\ pausedAgain' = pausedAgain
             /\ \A u \in call[Root].pending : ledger'["run"][u] = IF run \in ctxDone THEN "interrupted" ELSE "failed"
      BY <1>2, <2>1, <2>4 DEF Returns
    <3>3. \A u \in Asked(Root) : Over(u)' \/ Halted'
      BY <2>1, <3>1, <3>2 DEF Asked, Over, Halted
    <3>4. Halted => Halted'
      BY <2>1, <3>1, <3>2 DEF Halted
    <3> QED BY <1>4, <2>1, <2>2, <3>1, <3>3, <3>4
  <2> QED BY <2>3, <2>4
<1>6. ASSUME NEW k \in Callers, NextWave(k) PROVE ParentsWait'
  <2>1. PICK broken \in SUBSET Ready(k) : WaveLaunch(k, broken)
    BY <1>1, <1>6, WaveMoves
  <2>2. /\ UNCHANGED <<shape, run, phase, todo, pausedAgain, ctxDone, results>> /\ run \notin ctxDone
        /\ call[k].pc = "launch" /\ call[k].wave = {}
    BY <1>1, <1>6, WaveMoves
  <2>3. /\ WithinRun /\ Ready(k) \subseteq call[k].pending
        /\ \A x \in Starting(k, broken) : Off(work[run][x])
        /\ \A x \in call[k].pending : Off(work[run][x])
    BY <1>1, <1>6, <2>1, StartingOff DEF WithinRun, CallsOpen
  <2>4. \A x \in Units : x \notin Starting(k, broken) => work'[run][x] = work[run][x]
    BY <2>1 DEF WaveLaunch, OtherWork
  <2>5. CASE k # Root
    <3>1. call'[Root] = call[Root]
      BY <1>2, <2>1, <2>5 DEF WaveLaunch, OtherCalls
    <3>2. Halted => Halted'
      BY <2>2, <3>1 DEF Halted
    <3>3. call'[Root].pc = "launch" => ~pausedAgain'
      BY <1>1, <2>2, <3>1 DEF ParentsWait
    <3>4. Asked(Root)' = Asked(Root) /\ call[Root].wave \subseteq Asked(Root)
      BY <3>1 DEF Asked
    <3>5. \A x \in Units : Off(work'[run][x]) => Off(work[run][x])
      BY <2>3, <2>4
    <3> QED BY <1>2, <1>4, <2>2, <2>3, <3>1, <3>2, <3>3, <3>4, <3>5
  <2>6. CASE k = Root
    <3>1. /\ call'[Root].pc = "launch" /\ call'[Root].hold = call[Root].hold
          /\ call'[Root].pending = call[Root].pending \ Ready(Root) /\ call'[Root].wave = InWave(Root, broken)
      BY <2>1, <2>6 DEF WaveLaunch
    <3>2. Halted => Halted'
      BY <2>2, <2>6, <3>1 DEF Halted
    <3>3. call'[Root].pc = "launch" => ~pausedAgain'
      BY <1>1, <2>2, <2>6 DEF ParentsWait
    <3>4. InWave(Root, broken) = Ready(Root) \ broken
      BY <2>2 DEF InWave, IsAsync
    <3>5. \A x \in broken : Over(x)'
      <4>1. \A x \in broken : x \in Units /\ ledger'["run"][x] = "failed"
        BY <1>2, <2>1, <2>3, <2>6 DEF WaveLaunch
      <4>2. run' = run
        BY <2>2
      <4> QED BY <4>1, <4>2 DEF Over
    <3>6. \A x \in Asked(Root) : x \in Asked(Root)' \/ Over(x)'
      BY <2>2, <2>6, <3>1, <3>4, <3>5 DEF Asked
    <3>7. \A x \in call'[Root].wave : x \in Asked(Root) /\ Off(work[run][x])
      BY <2>3, <2>6, <3>1, <3>4 DEF Asked
    <3> QED BY <1>4, <2>2, <2>3, <2>6, <3>1, <3>2, <3>3, <3>6, <3>7
  <2> QED BY <2>5, <2>6
<1>7. ASSUME NEW k \in Callers, NEW u \in Units, StartRedelegating(k, u) PROVE ParentsWait'
  <2>1. /\ StartsAlone(k, u) /\ WithinRun
        /\ UNCHANGED <<shape, run, phase, todo, pausedAgain, ctxDone, results, call>>
    BY <1>1, <1>7, StartMoves DEF WithinRun
  <2>2. \A x \in Units : Off(work'[run][x]) => work'[run][x] = work[run][x]
    BY <1>2, <2>1 DEF StartsAlone, WorkExcept, Off
  <2>3. Asked(Root)' = Asked(Root) /\ call[Root].wave \subseteq Asked(Root) /\ (Halted => Halted')
    BY <2>1 DEF Asked, Halted
  <2>4. call'[Root].pc = "launch" => ~pausedAgain'
    BY <1>1, <2>1 DEF ParentsWait
  <2> QED BY <1>2, <1>4, <2>1, <2>2, <2>3, <2>4
<1>8. ASSUME NEW l \in Runs, NEW u \in Units, TakeSlot(l, u) \/ Gone(l, u) \/ Back(l, u)
      PROVE  ParentsWait'
  <2>1. /\ Advances(l, u)
        /\ UNCHANGED <<shape, run, phase, todo, pausedAgain, ctxDone, results, call>>
    BY <1>1, <1>8, AdvanceMoves
  <2>2. WithinRun
    BY <1>8 DEF WithinRun
  <2>3. \A x \in Units : Off(work'[run][x]) => work'[run][x] = work[run][x]
    BY <1>2, <2>1 DEF Advances, WorkExcept, Off
  <2>4. Asked(Root)' = Asked(Root) /\ call[Root].wave \subseteq Asked(Root) /\ (Halted => Halted')
    BY <2>1 DEF Asked, Halted
  <2>5. call'[Root].pc = "launch" => ~pausedAgain'
    BY <1>1, <2>1 DEF ParentsWait
  <2> QED BY <1>2, <1>4, <2>1, <2>2, <2>3, <2>4, <2>5
<1>9. ASSUME NEW l \in Runs, NEW u \in Units, Settle(l, u) PROVE ParentsWait'
  <2>1. /\ work[l][u].pc = "settle" /\ SettleCases(l, u)
        /\ UNCHANGED <<shape, run, phase, todo, pausedAgain, ctxDone>>
        /\ call'[Root].pc = call[Root].pc /\ call'[Root].pending = call[Root].pending
        /\ call'[Root].wave \subseteq call[Root].wave /\ call[Root].wave \ {u} \subseteq call'[Root].wave
    BY <1>1, <1>2, <1>9, SettleSteps, SettleKeeps
  <2>2. WithinRun
    BY <1>9 DEF WithinRun
  <2>3. \A x \in Units : x # u \/ l # run => work'[run][x] = work[run][x]
    BY <1>2, <1>9, SettleKeeps DEF WorkExcept
  <2>4. call[Root].hold => call'[Root].hold
    <3>1. UNCHANGED call \/ CallsAfter(l, u)
      BY <1>9, SettleKeeps
    <3> QED BY <1>2, <3>1 DEF CallsAfter
  <2>5. Halted => Halted'
    BY <2>1, <2>4 DEF Halted
  <2>6. call'[Root].pc = "launch" => ~pausedAgain'
    BY <1>1, <2>1 DEF ParentsWait
  <2>7. ASSUME NEW x \in Asked(Root), x \notin Asked(Root)'
        PROVE  Over(x)' \/ Halted'
    <3>1. x = u /\ u \in call[Root].wave /\ u \notin call'[Root].wave
      BY <2>1, <2>7 DEF Asked
    <3>2. Ends(l, u) /\ CallsAfter(l, u)
      BY <1>9, <3>1, SettleKeeps
    <3>3. ~work[l][u].async /\ l = run /\ work[l][u].owner = Root
      BY <1>2, <3>1, <3>2 DEF CallsAfter
    <3>4. work[l][u].out \in Outs /\ (work[l][u].out = "gone" => work[l][u].async)
      BY <1>1, <2>1 DEF WorkRight
    <3>5. CASE work[l][u].out = "paused"
      <4>1. call'[Root].hold
        BY <1>2, <3>2, <3>3, <3>5 DEF CallsAfter
      <4>2. call[Root].pc = "launch"
        BY <1>1, <1>2, <3>1, RunOne DEF CallsFree
      <4> QED BY <2>1, <4>1, <4>2 DEF Halted
    <3>6. CASE work[l][u].out # "paused"
      <4>1. \A rest \in Todos : ~Steps(l, u, rest)
        <5>1. Off(work'[l][u])
          BY <1>1, <3>2, EndsMoves
        <5> QED BY <1>1, <2>1, <5>1, StepsMoves DEF Off
      <4>2. work[l][u].todo = <<"ledger">> /\ UNCHANGED results
        BY <2>1, <3>6, <4>1 DEF SettleCases, Todos, Ledgers
      <4>3. ~AtBoard(work[l][u])
        BY <4>2 DEF AtBoard, OnBoard
      <4>4. results["run"][u] = ResultOf(work[l][u].out)
        BY <1>1, <2>1, <3>3, <3>4, <4>3 DEF SettledRight
      <4>5. ResultOf(work[l][u].out) \in {"ok", "error"}
        BY <3>3, <3>4, <3>6 DEF ResultOf, Outs
      <4> QED BY <3>1, <4>2, <4>4, <4>5 DEF Over
    <3> QED BY <3>5, <3>6
  <2>8. ASSUME NEW x \in call'[Root].wave, Off(work'[run][x])
        PROVE  x \in Asked(Root) /\ Off(work[run][x]) /\ x \in call[Root].wave
    <3>1. x \in call[Root].wave /\ x \in Units /\ x \in Asked(Root) /\ x \in Asked(Root)'
      BY <1>2, <2>1, <2>8 DEF Asked
    <3>2. x # u \/ l # run
      BY <1>2, <1>9, <2>8, <3>1, EndedGone
    <3> QED BY <2>3, <2>8, <3>1, <3>2
  <2> QED BY <1>4, <2>1, <2>2, <2>5, <2>6, <2>7, <2>8
<1>10. CASE NextGroup
  <2>1. Groups /\ UNCHANGED <<shape, run, phase, pausedAgain, ctxDone, ledger>> /\ WithinRun
    BY <1>1, <1>10, GroupMoves DEF WithinRun
  <2>2. /\ call[Root].pc = "free" /\ ~pausedAgain /\ phase = "wave"
        /\ call'[Root].pending = Group /\ call'[Root].wave = {} /\ todo' = todo \ Group
        /\ Asked(Root)' = Group /\ Asked(Root) = {} /\ Group \subseteq todo
    BY <1>1, <1>2, <2>1 DEF Groups, Asked, CallsFree, Group
  <2>3. \A p : Children(p)' = Children(p)
    BY <2>1 DEF Children
  <2>4. ASSUME NEW p \in Units, NEW c \in Children(p)
        PROVE  /\ p \in todo' => c \in todo' \cup Asked(Root)' \/ Over(c)' \/ Halted'
               /\ p \in Group => Over(c)' \/ run \in ctxDone'
    <3>1. p \in todo /\ c \notin Group /\ Over(c) => Over(c)'
      BY <2>1, <2>2, ChildStill
    <3>2. p \in todo => c \in todo \/ Over(c) \/ run \in ctxDone
      BY <1>1, <2>2 DEF ParentsWait, Halted
    <3>3. ASSUME p \in todo'
          PROVE  c \in todo' \cup Asked(Root)' \/ Over(c)' \/ Halted'
      <4>1. run \in ctxDone => Halted'
        BY <2>1 DEF Halted
      <4> QED BY <2>2, <3>1, <3>2, <3>3, <4>1
    <3>4. ASSUME p \in Group
          PROVE  Over(c)' \/ run \in ctxDone'
      <4>1. c \notin todo
        <5>1. Depth(c) > Depth(p) /\ c \in Units /\ Depth(c) \in Nat /\ Depth(p) \in Nat
          BY <1>1, <1>3, RunOne
        <5> QED BY <3>4, <5>1 DEF Group
      <4>2. c \notin Group
        BY <2>2, <4>1
      <4> QED BY <2>1, <2>2, <3>1, <3>2, <3>4, <4>1, <4>2
    <3> QED BY <3>3, <3>4
  <2> HIDE DEF Group
  <2> QED BY <2>1, <2>2, <2>3, <2>4 DEF ParentsWait
<1>11. CASE WaveEnds
  BY <1>11 DEF WaveEnds
<1>12. CASE PausedInWave \/ PausedRun \/ FailedRun \/ FinishRun \/ Crash
  <2>1. Leaves
    BY <1>12, LeaveMoves
  <2> QED BY <2>1 DEF Leaves
<1>13. ASSUME NEW k \in Callers, NEW batch \in SUBSET Children(k), Delegate(k, batch)
       PROVE  ParentsWait'
  <2>1. /\ Delegates(k, batch) /\ UNCHANGED <<shape, run, phase, todo, pausedAgain, ctxDone, work, results>>
        /\ k # Root /\ WithinRun
    BY <1>1, <1>13, DelegateMoves DEF WithinRun
  <2>2. call'[Root] = call[Root]
    BY <1>2, <2>1 DEF Delegates, OtherCalls
  <2>3. Asked(Root)' = Asked(Root) /\ call[Root].wave \subseteq Asked(Root) /\ (Halted => Halted')
    BY <2>1, <2>2 DEF Asked, Halted
  <2>4. call'[Root].pc = "launch" => ~pausedAgain'
    BY <1>1, <2>1, <2>2 DEF ParentsWait
  <2> QED BY <1>4, <2>1, <2>2, <2>3, <2>4
<1>14. ASSUME NEW k \in Callers, NEW u \in Units, CancelDelegation(k, u) PROVE ParentsWait'
  <2>1. UNCHANGED <<shape, run, phase, todo, pausedAgain, ctxDone, call, work, results>>
    BY <1>1, <1>14, CancelMoves
  <2>2. WithinRun
    BY <1>14 DEF WithinRun
  <2>3. Asked(Root)' = Asked(Root) /\ call[Root].wave \subseteq Asked(Root) /\ (Halted => Halted')
    BY <2>1 DEF Asked, Halted
  <2>4. call'[Root].pc = "launch" => ~pausedAgain'
    BY <1>1, <2>1 DEF ParentsWait
  <2> QED BY <1>4, <2>1, <2>2, <2>3, <2>4
<1>15. CASE Resume
  <2>1. /\ phase = "idle" /\ todo' = Relaunchable /\ pausedAgain' = FALSE /\ UNCHANGED <<shape, call>>
        /\ \A u \in Units : results'["run"][u] = results["disk"][u] /\ ledger'["run"][u] = ledger["disk"][u]
    BY <1>1, <1>2, <1>15, ResumeMoves
  <2>2. call'[Root].pending = {} /\ call'[Root].wave = {}
    BY <1>1, <1>2, <2>1 DEF CallsFree, Going
  <2>3. \A c \in Units : c \notin Relaunchable => Over(c)'
    <3> SUFFICES ASSUME NEW c \in Units, Class(c) \in {"none", "completed", "failed"}
                 PROVE  results["disk"][c] \in {"ok", "error"} \/ ledger["disk"][c] \in {"none", "failed"}
      BY <2>1 DEF Relaunchable, Over
    <3>1. results["disk"][c] \in {"none", "ok", "error", "paused"}
      BY <1>1 DEF UnitsTypes, Views
    <3>2. ledger["disk"][c] = "completed" => results["disk"][c] # "none"
      BY DEF UnitsIInv, Resulted, Views
    <3> QED BY <3>1, <3>2 DEF Class
  <2>4. \A p : Children(p)' = Children(p)
    BY <2>1 DEF Children
  <2>5. \A p \in Units : \A c \in Children(p) : c \in Units
    BY DEF Children
  <2> QED BY <2>1, <2>2, <2>3, <2>4, <2>5 DEF ParentsWait
<1>16. ASSUME PauseSession \/ QuitRun \/ UNCHANGED unitVars, phase = "wave" PROVE ParentsWait'
  <2>1. Idles
    BY <1>16, IdleMoves
  <2>2. \A c : (Over(c) => Over(c)') /\ (Halted => Halted')
    BY <2>1 DEF Idles, Over, Halted
  <2>3. \A p : Children(p)' = Children(p)
    BY <2>1 DEF Idles, Children
  <2> QED BY <1>1, <1>16, <2>1, <2>2, <2>3 DEF Idles, ParentsWait, Asked, Off
<1>17. PauseSession \/ QuitRun \/ UNCHANGED unitVars => phase = "wave"
  BY DEF PauseSession, QuitRun, unitVars
<1> QED BY <1>5, <1>6, <1>7, <1>8, <1>9, <1>10, <1>11, <1>12, <1>13, <1>14, <1>15, <1>16, <1>17, UnitsCases

(* What was in flight has been relaunched, or is about to be.               *)
LEMMA WaveSettlesKept ==
  UnitsIInv /\ [UnitsNext]_unitVars => WaveSettles'
<1> SUFFICES ASSUME UnitsIInv, [UnitsNext]_unitVars, phase' = "wave" PROVE WaveSettles'
  BY DEF WaveSettles
<1>1. UnitsTypes /\ WorkRight /\ CallsFree /\ CallsOpen /\ SettledRight /\ WaveSettles
  BY DEF UnitsIInv
<1>2. /\ run \in Runs /\ Root \in Callers /\ "run" \in Views
      /\ call[Root].pending \subseteq Units /\ call[Root].wave \subseteq Units /\ todo \subseteq Units
  BY <1>1, RunOne DEF UnitsTypes, Views
<1>3. ASSUME phase = "wave", UNCHANGED replay,
             \A u \in Units : u \in todo \cup Asked(Root) \/ Relaunched(u) =>
               u \in todo' \cup Asked(Root)' \/ Relaunched(u)'
      PROVE  WaveSettles'
  BY <1>1, <1>3 DEF WaveSettles, Relaunched, Off
<1>4. ASSUME NEW k \in Callers, Return(k) \/ GiveUp(k) PROVE WaveSettles'
  <2>1. Returns(k) /\ UNCHANGED <<run, phase, paused, ctxDone, replay, todo, dropped, work>>
    BY <1>1, <1>4, ReturnMoves
  <2>2. \A u \in Units : Relaunched(u) => Relaunched(u)'
    BY <1>2, <2>1 DEF Returns, Relaunched, Off
  <2>3. ASSUME NEW u \in Asked(Root), u \notin Asked(Root)' PROVE Relaunched(u)'
    <3>1. k = Root
      BY <1>2, <2>1, <2>3 DEF Returns, OtherCalls, Asked
    <3>2. u \in call[Root].pending /\ u \in Units /\ call[Root].pc = "launch"
      BY <1>2, <2>1, <2>3, <3>1 DEF Returns, Asked
    <3>3. CASE call[Root].hold
      <4>1. paused
        BY <1>1, <1>2, <2>1, <3>2, <3>3 DEF SettledRight, Going
      <4> QED BY <2>1, <4>1 DEF Relaunched
    <3>4. CASE ~call[Root].hold
      <4>1. ledger'["run"][u] = IF run \in ctxDone THEN "interrupted" ELSE "failed"
        BY <1>2, <2>1, <3>1, <3>2, <3>4 DEF Returns
      <4> QED BY <2>1, <4>1 DEF Relaunched
    <3> QED BY <3>3, <3>4
  <2> QED BY <1>3, <2>1, <2>2, <2>3
<1>5. ASSUME NEW k \in Callers, NextWave(k) PROVE WaveSettles'
  <2>1. PICK broken \in SUBSET Ready(k) : WaveLaunch(k, broken)
    BY <1>1, <1>5, WaveMoves
  <2>2. UNCHANGED <<run, phase, paused, ctxDone, replay, todo>>
    BY <1>1, <1>5, WaveMoves
  <2>3. \A x \in Starting(k, broken) : ~Off(work'[run][x])
    BY <2>1 DEF WaveLaunch, Off
  <2>4. \A x \in Units : x \notin Starting(k, broken) =>
           /\ work'[run][x] = work[run][x]
           /\ x \in dropped => x \in dropped'
           /\ ledger'["run"][x] = IF x \in broken THEN "failed" ELSE ledger["run"][x]
    BY <1>2, <2>1 DEF WaveLaunch, OtherWork
  <2>5. \A x \in Units : Relaunched(x) => Relaunched(x)'
    BY <2>2, <2>3, <2>4 DEF Relaunched, Off
  <2>6. ASSUME NEW x \in Asked(Root), x \notin Asked(Root)' PROVE Relaunched(x)'
    <3>1. k = Root
      BY <1>2, <2>1, <2>6 DEF WaveLaunch, OtherCalls, Asked
    <3>2. /\ call'[Root].pending = call[Root].pending \ Ready(Root) /\ call'[Root].wave = InWave(Root, broken)
          /\ call[Root].wave = {}
      BY <1>1, <1>5, <2>1, <3>1, WaveMoves DEF WaveLaunch
    <3>3. InWave(Root, broken) = Ready(Root) \ broken
      BY <2>2 DEF InWave, IsAsync
    <3>4. x \in broken /\ x \in Units
      BY <1>2, <2>6, <3>2, <3>3 DEF Asked
    <3>5. x \notin Starting(k, broken)
      BY <3>4 DEF Starting
    <3> QED BY <2>2, <2>4, <3>4, <3>5 DEF Relaunched
  <2> QED BY <1>3, <2>2, <2>5, <2>6
<1>6. ASSUME NEW k \in Callers, NEW u \in Units, StartRedelegating(k, u) PROVE WaveSettles'
  <2>1. StartsAlone(k, u) /\ UNCHANGED <<run, phase, paused, ctxDone, replay, todo, call, dropped>>
    BY <1>1, <1>6, StartMoves
  <2>2. /\ ~Off(work'[run][u])
        /\ \A x \in Units : x # u => work'[run][x] = work[run][x] /\ ledger'["run"][x] = ledger["run"][x]
    BY <1>2, <2>1 DEF StartsAlone, WorkExcept, Off
  <2>3. \A x \in Units : Relaunched(x) => Relaunched(x)'
    BY <2>1, <2>2 DEF Relaunched, Off
  <2> QED BY <1>3, <2>1, <2>3 DEF Asked
<1>7. ASSUME NEW l \in Runs, NEW u \in Units, TakeSlot(l, u) \/ Gone(l, u) \/ Back(l, u)
      PROVE  WaveSettles'
  <2>1. Advances(l, u) /\ UNCHANGED <<run, phase, paused, ctxDone, replay, todo, call, dropped, ledger>>
    BY <1>1, <1>7, AdvanceMoves
  <2>2. \A x \in Units : Off(work'[run][x]) => Off(work[run][x])
    BY <1>2, <2>1 DEF Advances, WorkExcept, Off
  <2>3. \A x \in Units : Relaunched(x) => Relaunched(x)'
    BY <2>1, <2>2 DEF Relaunched, Off
  <2> QED BY <1>3, <2>1, <2>3 DEF Asked
<1>8. ASSUME NEW l \in Runs, NEW u \in Units, Settle(l, u) PROVE WaveSettles'
  <2>1. /\ work[l][u].pc = "settle" /\ SettleCases(l, u)
        /\ UNCHANGED <<run, phase, paused, ctxDone, replay, todo, dropped>>
    BY <1>1, <1>8, SettleSteps
  <2>2. work[l][u].out \in Outs
    BY <1>1, <2>1 DEF WorkRight
  <2>3. \A x \in Units : x # u \/ l # run =>
           work'[run][x] = work[run][x] /\ ledger'["run"][x] = ledger["run"][x]
    BY <1>2, <1>8, SettleKeeps DEF WorkExcept
  <2>4. l = run => Relaunched(u)'
    <3> SUFFICES ASSUME l = run PROVE Relaunched(u)'
      OBVIOUS
    <3>1. CASE ~Off(work'[run][u])
      BY <2>1, <3>1 DEF Relaunched, Off
    <3>2. CASE Off(work'[run][u])
      <4>1. Ends(l, u)
        BY <1>8, <3>2, EndedGone
      <4>2. Going
        BY <2>1 DEF Going
      <4>3. CASE work[run][u].out = "paused"
        <5>1. paused
          BY <1>1, <2>1, <4>2, <4>3 DEF SettledRight
        <5> QED BY <2>1, <5>1 DEF Relaunched
      <4>4. CASE work[run][u].out # "paused"
        <5>1. \A rest \in Todos : ~Steps(l, u, rest)
          BY <1>1, <2>1, <3>2, StepsMoves DEF Off
        <5>2. Ledgers(l, u)
          BY <2>1, <4>4, <5>1 DEF SettleCases, Todos
        <5>3. ledger'["run"][u] = StatusOf(work[run][u].out)
          BY <1>1, <1>2, <2>2, <5>2, LedgersMoves
        <5>4. work[run][u].out \in {"stopped", "gone"} => run \in ctxDone \/ u \in dropped
          BY <1>1, <2>1, <4>2 DEF SettledRight
        <5>5. /\ work[run][u].out \in {"stopped", "gone"} => StatusOf(work[run][u].out) = "interrupted"
              /\ work[run][u].out \in {"ok", "error"} => StatusOf(work[run][u].out) \in {"completed", "failed"}
          BY DEF StatusOf
        <5> QED BY <2>1, <2>2, <4>4, <5>3, <5>4, <5>5 DEF Relaunched, Outs
      <4> QED BY <4>3, <4>4
    <3> QED BY <3>1, <3>2
  <2>5. \A x \in Units : Relaunched(x) => Relaunched(x)'
    <3> SUFFICES ASSUME NEW x \in Units, Relaunched(x) PROVE Relaunched(x)'
      OBVIOUS
    <3>1. CASE x = u /\ l = run
      BY <2>4, <3>1
    <3>2. CASE x # u \/ l # run
      <4>1. work'[run][x] = work[run][x] /\ ledger'["run"][x] = ledger["run"][x]
        BY <2>3, <3>2
      <4> QED BY <2>1, <4>1 DEF Relaunched, Off
    <3> QED BY <3>1, <3>2
  <2>6. \A x \in Asked(Root) : x \notin Asked(Root)' => x = u /\ l = run
    <3>1. call'[Root].pending = call[Root].pending /\ call[Root].wave \ {u} \subseteq call'[Root].wave
      BY <1>2, <1>8, SettleKeeps
    <3>2. l # run => call'[Root].wave = call[Root].wave
      <4>1. UNCHANGED call \/ CallsAfter(l, u)
        BY <1>8, SettleKeeps
      <4> QED BY <1>2, <4>1 DEF CallsAfter
    <3> QED BY <3>1, <3>2 DEF Asked
  <2> QED BY <1>3, <2>1, <2>4, <2>5, <2>6
<1>9. CASE NextGroup
  <2>1. Groups /\ UNCHANGED <<run, phase, paused, ctxDone, replay, dropped, work, ledger>>
    BY <1>1, <1>9, GroupMoves
  <2>2. Asked(Root) = {} /\ todo' \cup Asked(Root)' = todo
    BY <1>1, <1>2, <2>1 DEF Groups, Asked, CallsFree, Group
  <2>3. \A x \in Units : Relaunched(x) => Relaunched(x)'
    BY <2>1 DEF Relaunched, Off
  <2> QED BY <1>3, <2>1, <2>2, <2>3 DEF Groups
<1>10. CASE WaveEnds
  BY <1>10 DEF WaveEnds
<1>11. CASE PausedInWave \/ PausedRun \/ FailedRun \/ FinishRun \/ Crash
  <2>1. Leaves
    BY <1>11, LeaveMoves
  <2> QED BY <2>1 DEF Leaves
<1>12. ASSUME NEW k \in Callers, NEW batch \in SUBSET Children(k), Delegate(k, batch)
       PROVE  WaveSettles'
  <2>1. /\ Delegates(k, batch) /\ k # Root
        /\ UNCHANGED <<run, phase, paused, ctxDone, replay, todo, dropped, work>>
    BY <1>1, <1>12, DelegateMoves
  <2>2. call'[Root] = call[Root]
    BY <1>2, <2>1 DEF Delegates, OtherCalls
  <2>3. \A x \in Units : ledger["run"][x] # "none" => ledger'["run"][x] = ledger["run"][x]
    BY <1>2, <2>1 DEF Delegates
  <2>4. \A x \in Units : Relaunched(x) => Relaunched(x)'
    BY <2>1, <2>3 DEF Relaunched, Off
  <2> QED BY <1>3, <2>1, <2>2, <2>4 DEF Asked
<1>13. ASSUME NEW k \in Callers, NEW u \in Units, CancelDelegation(k, u) PROVE WaveSettles'
  <2>1. /\ UNCHANGED <<run, phase, paused, ctxDone, replay, todo, call, work, ledger>>
        /\ dropped \subseteq dropped'
    BY <1>1, <1>13, CancelMoves
  <2>2. \A x \in Units : Relaunched(x) => Relaunched(x)'
    BY <2>1 DEF Relaunched, Off
  <2> QED BY <1>3, <2>1, <2>2 DEF Asked
<1>14. CASE Resume
  <2>1. todo' = Relaunchable /\ \A u \in Units : replay'[u] = Class(u)
    BY <1>1, <1>14, ResumeMoves
  <2> QED BY <2>1 DEF WaveSettles, Relaunchable
<1>15. ASSUME PauseSession \/ QuitRun \/ UNCHANGED unitVars PROVE WaveSettles'
  <2>1. Idles
    BY <1>15, IdleMoves
  <2>2. \A x \in Units : Relaunched(x) => Relaunched(x)'
    BY <2>1 DEF Idles, Relaunched, Off
  <2> QED BY <1>3, <2>1, <2>2 DEF Idles, Asked
<1> QED BY <1>4, <1>5, <1>6, <1>7, <1>8, <1>9, <1>10, <1>11, <1>12, <1>13, <1>14, <1>15, UnitsCases

-----------------------------------------------------------------------------
(* The invariant, and what it says of the steps.                            *)

LEMMA UnitsInvariant == UnitsSpec => []UnitsIInv
<1>1. UnitsInit => UnitsIInv
  <2> SUFFICES ASSUME UnitsInit PROVE UnitsIInv
    OBVIOUS
  <2>1. /\ run \in Runs /\ \A l \in Runs, u \in Units : work[l][u] = NoWork
        /\ \A k \in Callers : call[k] = FreeCall
        /\ \A k \in Callers, u \in Units : registry[k][u] = "none"
        /\ \A v \in Views, u \in Units : ledger[v][u] = "none" /\ results[v][u] = "none"
        /\ phase = "llm" /\ shape \in Shapes
    BY RunsAssumption DEF UnitsInit, Runs, Unknown
  <2>2. /\ FreeCall \in CallType /\ NoWork \in WorkType /\ Unknown \in [Units -> Statuses]
        /\ Unknown \in [Units -> {"none", "ok", "error", "paused"}]
    BY DEF FreeCall, CallType, NoWork, WorkType, Unknown, Statuses, Callers, Todos, Outs
  <2>3. UnitsTypes
    BY <2>1, <2>2 DEF UnitsInit, UnitsTypes
  <2>4. WorkRight /\ Unwritten
    BY <2>1 DEF WorkRight, Unwritten, Unboarded, AtBoard, Off, NoWork
  <2>5. CallsFree /\ Owned /\ CallsOpen
    BY <2>1 DEF CallsFree, Owned, CallsOpen, Asked, FreeCall, NoWork, Off, Going
  <2>6. Upwards /\ ParentsWait /\ WaveSettles
    BY <2>1 DEF Upwards, ParentsWait, WaveSettles
  <2>7. ToldRight /\ Resulted /\ Known /\ SettledRight
    <3>1. Root \in Callers /\ "run" \in Views /\ "disk" \in Views
      BY DEF Callers, Views
    <3>2. ToldRight
      BY <2>1 DEF ToldRight, Going
    <3>3. Resulted
      BY <2>1, <3>1 DEF Resulted, NoWork
    <3>4. Known
      BY <2>1, <3>1 DEF Known, FreeCall, NoWork
    <3>5. SettledRight
      BY <2>1, <3>1 DEF SettledRight, FreeCall, NoWork
    <3> QED BY <3>2, <3>3, <3>4, <3>5
  <2> QED BY <2>3, <2>4, <2>5, <2>6, <2>7 DEF UnitsIInv
<1>2. UnitsIInv /\ [UnitsNext]_unitVars => UnitsIInv'
  <2>1. UnitsIInv /\ [UnitsNext]_unitVars => UnitsTypes' /\ WorkRight'
    BY TypesKept DEF UnitsIInv
  <2> QED BY <2>1, CallsFreeKept, OwnedKept, CallsOpenKept, UpwardsKept, UnwrittenKept, ToldRightKept,
             ResultedKept, KnownKept, SettledRightKept, ParentsWaitKept, WaveSettlesKept DEF UnitsIInv
<1> QED BY <1>1, <1>2, PTL DEF UnitsSpec

(* Who launches a unit: the wave it is ready in, or its turn in it.         *)
LEMMA LaunchCases ==
  ASSUME UnitsIInv, [UnitsNext]_unitVars, NEW u \in Units, Launches(u)
  PROVE  \E k \in Callers :
           /\ work'[run][u].owner = k
           /\ \/ NextWave(k) /\ run \notin ctxDone /\ u \in Ready(k) /\ u \in call[k].pending /\ ~Ok(u)
              \/ u \in call[k].wave
<1>1. UnitsTypes /\ WorkRight
  BY DEF UnitsIInv
<1>2. run \in Runs /\ Off(work[run][u]) /\ ~Off(work'[run][u])
  BY <1>1, RunOne DEF Launches, Off
<1>3. ASSUME NEW k \in Callers, NextWave(k)
      PROVE  work'[run][u].owner = k /\ u \in Ready(k) /\ u \in call[k].pending /\ run \notin ctxDone /\ ~Ok(u)
  <2>1. PICK broken \in SUBSET Ready(k) : WaveLaunch(k, broken)
    BY <1>1, <1>3, WaveMoves
  <2>2. u \in Starting(k, broken)
    BY <1>2, <2>1 DEF WaveLaunch, OtherWork
  <2>3. work'[run][u].owner = k
    BY <2>1, <2>2 DEF WaveLaunch
  <2> QED BY <1>1, <1>3, <2>1, <2>2, <2>3, WaveMoves, StartingOff DEF Starting
<1>4. ASSUME NEW k \in Callers, NEW x \in Units, StartRedelegating(k, x)
      PROVE  u \in call[k].wave /\ work'[run][u].owner = k
  <2>1. x \in call[k].wave /\ StartsAlone(k, x)
    BY <1>1, <1>4, StartMoves
  <2>2. x = u
    BY <1>2, <2>1 DEF StartsAlone, WorkExcept
  <2> QED BY <2>1, <2>2 DEF StartsAlone
<1>5. ASSUME NEW l \in Runs, NEW x \in Units, TakeSlot(l, x) \/ Gone(l, x) \/ Back(l, x) PROVE FALSE
  <2>1. Advances(l, x)
    BY <1>1, <1>5, AdvanceMoves
  <2> QED BY <1>2, <2>1 DEF Advances, WorkExcept, Off
<1>6. ASSUME NEW l \in Runs, NEW x \in Units, Settle(l, x) PROVE FALSE
  <2>1. work[l][x].pc = "settle" /\ WorkExcept(l, x)
    BY <1>6, SettleKeeps
  <2> QED BY <1>2, <2>1 DEF WorkExcept, Off
<1>7. ASSUME NEW k \in Callers, Return(k) \/ GiveUp(k) PROVE FALSE
  BY <1>1, <1>2, <1>7, ReturnMoves
<1>8. ASSUME NextGroup PROVE FALSE
  BY <1>1, <1>2, <1>8, GroupMoves
<1>9. ASSUME PausedInWave \/ PausedRun \/ FailedRun \/ FinishRun \/ Crash PROVE FALSE
  <2>1. work' = work \/ work' = [l \in Runs |-> [x \in Units |-> NoWork]]
    BY <1>9, LeaveMoves
  <2> QED BY <1>2, <2>1 DEF NoWork, Off
<1>10. ASSUME NEW k \in Callers, NEW batch \in SUBSET Children(k), Delegate(k, batch) PROVE FALSE
  BY <1>1, <1>2, <1>10, DelegateMoves
<1>11. ASSUME NEW k \in Callers, NEW x \in Units, CancelDelegation(k, x) PROVE FALSE
  BY <1>1, <1>2, <1>11, CancelMoves
<1>12. ASSUME Resume PROVE FALSE
  BY <1>1, <1>2, <1>12, ResumeMoves
<1>13. ASSUME WaveEnds \/ PauseSession \/ QuitRun \/ UNCHANGED unitVars PROVE FALSE
  BY <1>2, <1>13 DEF WaveEnds, PauseSession, QuitRun, unitVars
<1> QED BY <1>3, <1>4, <1>5, <1>6, <1>7, <1>8, <1>9, <1>10, <1>11, <1>12, <1>13, UnitsCases

(* For every set of units, every shape of them and any number of runs and   *)
(* crashes: the ledger claims no success without its result, and a unit     *)
(* that has succeeded is not executed again.                                *)
THEOREM WorkAlwaysKept == UnitsSpec => WorkKept
<1>1. UnitsIInv => CompletedHasResult
  BY DEF UnitsIInv, Resulted, CompletedHasResult, Views
<1>2. UnitsIInv /\ [UnitsNext]_unitVars => [\A u \in Units : Launches(u) => ~Ok(u)]_unitVars
  <2> SUFFICES ASSUME UnitsIInv, [UnitsNext]_unitVars, NEW u \in Units, Launches(u) PROVE ~Ok(u)
    OBVIOUS
  <2>1. PICK k \in Callers :
             \/ ~Ok(u)
             \/ u \in call[k].wave
    BY LaunchCases
  <2>2. u \in call[k].wave => ~Ok(u)
    BY DEF UnitsIInv, CallsOpen, Launches, Off
  <2> QED BY <2>1, <2>2
<1> QED BY <1>1, <1>2, UnitsInvariant, PTL DEF WorkKept, SuccessNotRerun, UnitsSpec

(* A unit starts after what it depends on and, when the wave relaunches it, *)
(* after its children; the executor thinks after the wave, and the task is  *)
(* over only when its background delegations are.                           *)
THEOREM WaveAlwaysOrdered == UnitsSpec => WaveOrdered
<1>1. UnitsIInv /\ [UnitsNext]_unitVars =>
        [\A u \in Units : Launches(u) => \A d \in shape[u].deps :
           Ok(d) \/ (work[run][d].pc = "settle" /\ work[run][d].out = "ok")]_unitVars
  <2> SUFFICES ASSUME UnitsIInv, [UnitsNext]_unitVars, NEW u \in Units, Launches(u), NEW d \in shape[u].deps
               PROVE  Ok(d) \/ (work[run][d].pc = "settle" /\ work[run][d].out = "ok")
    OBVIOUS
  <2>1. PICK k \in Callers : u \in Ready(k) \/ u \in call[k].wave
    BY LaunchCases
  <2>2. d \in Units
    BY UnitShapes DEF UnitsIInv, UnitsTypes
  <2>3. u \in Ready(k) => Succeeded(d)
    BY <2>2 DEF UnitsIInv, ToldRight, Ready
  <2>4. u \in call[k].wave => Succeeded(d)
    BY DEF UnitsIInv, CallsOpen, Launches, Off
  <2> QED BY <2>1, <2>3, <2>4 DEF Succeeded
<1>2. UnitsIInv /\ [UnitsNext]_unitVars =>
        [\A p \in Units : Launches(p) /\ work'[run][p].owner = Root /\ phase = "wave" =>
           \A c \in Children(p) :
             results["run"][c] \in {"ok", "error"} \/ ledger["run"][c] \in {"none", "failed"}]_unitVars
  <2> SUFFICES ASSUME UnitsIInv, [UnitsNext]_unitVars, NEW p \in Units, Launches(p),
                      work'[run][p].owner = Root, phase = "wave", NEW c \in Children(p)
               PROVE  Over(c)
    BY DEF Over
  <2>1. (p \in call[Root].pending /\ run \notin ctxDone) \/ p \in call[Root].wave
    BY LaunchCases
  <2> QED BY <2>1 DEF UnitsIInv, ParentsWait, Launches, Off
<1>3. UnitsIInv /\ [UnitsNext]_unitVars =>
        [phase = "wave" /\ phase' = "llm" /\ ~paused => \A u \in Units :
           replay[u] \notin {"none", "completed", "failed"} =>
             \/ ledger["run"][u] \in {"completed", "failed"}
             \/ ledger["run"][u] = "interrupted" /\ run \in ctxDone
             \/ work[run][u].pc # "off" \/ u \in dropped]_unitVars
  <2> SUFFICES ASSUME UnitsIInv, [UnitsNext]_unitVars, phase = "wave", phase' = "llm", ~paused, NEW u \in Units,
                      replay[u] \notin {"none", "completed", "failed"}
               PROVE  \/ ledger["run"][u] \in {"completed", "failed"}
                      \/ ledger["run"][u] = "interrupted" /\ run \in ctxDone
                      \/ work[run][u].pc # "off" \/ u \in dropped
    OBVIOUS
  <2>1. UnitsTypes /\ WorkRight /\ CallsFree /\ WaveSettles /\ Root \in Callers
    BY DEF UnitsIInv, Callers
  <2>2. WaveEnds
    <3>1. \A k \in Callers : ~(Return(k) \/ GiveUp(k)) /\ ~NextWave(k)
      BY <2>1, ReturnMoves, WaveMoves
    <3>2. \A k \in Callers, x \in Units : ~StartRedelegating(k, x) /\ ~CancelDelegation(k, x)
      BY <2>1, StartMoves, CancelMoves
    <3>3. \A l \in Runs, x \in Units : ~(TakeSlot(l, x) \/ Gone(l, x) \/ Back(l, x)) /\ ~Settle(l, x)
      BY <2>1, AdvanceMoves, SettleSteps
    <3>4. ~(PausedInWave \/ PausedRun \/ FailedRun \/ FinishRun \/ Crash)
      BY LeaveMoves DEF Leaves
    <3>5. \A k \in Callers : \A batch \in SUBSET Children(k) : ~Delegate(k, batch)
      BY <2>1, DelegateMoves
    <3>6. ~NextGroup /\ ~Resume
      BY <2>1, GroupMoves, ResumeMoves
    <3>7. ~PauseSession /\ ~QuitRun /\ ~UNCHANGED unitVars
      BY DEF PauseSession, QuitRun, unitVars
    <3> QED BY <3>1, <3>2, <3>3, <3>4, <3>5, <3>6, <3>7, UnitsCases
  <2>3. todo = {} /\ call[Root].pc = "free"
    BY <2>2 DEF WaveEnds
  <2>4. Asked(Root) = {}
    BY <2>1, <2>3 DEF CallsFree, Asked
  <2>5. Relaunched(u)
    BY <2>1, <2>3, <2>4 DEF WaveSettles
  <2> QED BY <2>5 DEF Relaunched, Off
<1>4. UnitsIInv /\ [UnitsNext]_unitVars =>
        [phase' = "over" /\ phase # "over" => \A u \in Children(Root) :
           work[run][u].pc \in {"slot", "run"} => registry[Root][u] = "cancelled"]_unitVars
  <2> SUFFICES ASSUME UnitsIInv, [UnitsNext]_unitVars, phase' = "over", phase # "over",
                      NEW u \in Children(Root), work[run][u].pc \in {"slot", "run"}
               PROVE  registry[Root][u] = "cancelled"
    OBVIOUS
  <2>1. /\ UnitsTypes /\ WorkRight /\ CallsFree /\ Owned /\ Known /\ Root \in Callers /\ u \in Units
        /\ shape[u].by = Root
    BY DEF UnitsIInv, Callers, Children
  <2>2. FinishRun
    <3>1. \A k \in Callers : ~(Return(k) \/ GiveUp(k)) /\ ~NextWave(k)
      BY <2>1, ReturnMoves, WaveMoves
    <3>2. \A k \in Callers, x \in Units : ~StartRedelegating(k, x) /\ ~CancelDelegation(k, x)
      BY <2>1, StartMoves, CancelMoves
    <3>3. \A l \in Runs, x \in Units : ~(TakeSlot(l, x) \/ Gone(l, x) \/ Back(l, x)) /\ ~Settle(l, x)
      BY <2>1, AdvanceMoves, SettleSteps
    <3>4. ~PausedInWave /\ ~PausedRun /\ ~FailedRun /\ ~Crash
      BY DEF PausedInWave, PausedRun, FailedRun, Crash, Leave
    <3>5. \A k \in Callers : \A batch \in SUBSET Children(k) : ~Delegate(k, batch)
      BY <2>1, DelegateMoves
    <3>6. ~NextGroup /\ ~Resume /\ ~WaveEnds
      BY <2>1, GroupMoves, ResumeMoves DEF WaveEnds
    <3>7. ~PauseSession /\ ~QuitRun /\ ~UNCHANGED unitVars
      BY DEF PauseSession, QuitRun, unitVars
    <3> QED BY <3>1, <3>2, <3>3, <3>4, <3>5, <3>6, <3>7, UnitsCases
  <2>3. phase = "llm" /\ call[Root].pc = "free" /\ registry[Root][u] # "running"
    BY <2>1, <2>2 DEF FinishRun, Thinking, Unfinished
  <2>4. ~Off(work[run][u]) /\ Going
    BY <2>3 DEF Off, Going
  <2>5. u \in Mine(work[run][u].owner) /\ work[run][u].owner \in Callers
    BY <2>1, <2>4, RunOne DEF Owned
  <2>6. work[run][u].owner = Root
    BY <2>1, <2>3, <2>5 DEF Mine
  <2>7. call[Root].wave = {}
    BY <2>1, <2>3 DEF CallsFree
  <2>8. work[run][u].async
    BY <2>1, <2>4, <2>6, <2>7 DEF Owned
  <2> QED BY <2>1, <2>3, <2>6, <2>8 DEF Known
<1> QED BY <1>1, <1>2, <1>3, <1>4, UnitsInvariant, PTL
        DEF WaveOrdered, AfterDeps, ChildrenFirst, SettledBeforeThinking, FinishJoins, UnitsSpec
=============================================================================
