-------------------------------- MODULE MCLive --------------------------------
(***************************************************************************)
(* The liveness of the parts that MCBackend and MCCore check, on instances  *)
(* of their smallest sizes.  A behaviour runs one part; the others stay in  *)
(* their initial states, where nothing is owed, so that the properties,     *)
(* which say that something is settled again and again, hold of them.       *)
(***************************************************************************)
EXTENDS PersistPipeline, EventBatcher, TaskWriter, ManagerBackground, SessionRegistry,
        CorpusStore, DelegationUnits, GoalLoop, E2SLoop

VARIABLE part

MCEmitters == {"first"}
MCQuotas == {[events |-> [e \in MCEmitters |-> 1], totals |-> 1]}
AnyStatus == CHOOSE s \in {"in_progress", "paused"} : TRUE

(* A unit that delegates in its turn, next to one that does not.            *)
MCShapes ==
  {[u \in Units |-> [by |-> IF u = "c" THEN "a" ELSE Root, depth |-> IF u = "c" THEN 1 ELSE 0,
                     deps |-> {}, async |-> u = "b", redelegates |-> u = "a",
                     fragile |-> FALSE]]}

MCChunksOf == [s \in Snaps |-> Chunks]
MCRootOf == [p \in Attachers |-> "r1"]

(* Two attaches of one root, and one next to a sweep.                       *)
Budget(p2, sweeps) ==
  [attaches |-> [p \in Attachers |-> IF p = "p1" THEN 1 ELSE p2],
   sweeps |-> sweeps, crashes |-> 0, closes |-> 1 - sweeps]
MCBudgets == {Budget(1, 0), Budget(0, 1)}
AnyBudget == CHOOSE b \in MCBudgets : TRUE

sessionVars == <<vars, batchVars, taskVars, bgVars, registryVars>>
orchestratorVars == <<unitVars, goalVars, e2sVars>>

LiveInit ==
  /\ part \in {"persister", "batcher", "task", "registry", "background", "corpus", "units",
              "goal", "e2s"}
  /\ Init /\ BatchInit /\ BgInit /\ RegistryInit /\ UnitsInit /\ GoalInit
  /\ E2SInit
  /\ TaskInit /\ (part # "task" => status = AnyStatus)
  /\ CorpusInit /\ (part # "corpus" => left = AnyBudget /\ manifests = {})

LiveNext ==
  /\ UNCHANGED part
  /\ \/ /\ UNCHANGED <<corpusVars, orchestratorVars>>
        /\ \/ part = "persister" /\ Next /\ UNCHANGED <<batchVars, taskVars, registryVars, bgVars>>
           \/ part = "batcher" /\ BatchNext /\ UNCHANGED <<vars, taskVars, registryVars, bgVars>>
           \/ part = "task" /\ TaskNext /\ UNCHANGED <<vars, batchVars, registryVars, bgVars>>
           \/ part = "registry" /\ RegistryNext /\ UNCHANGED <<vars, batchVars, taskVars, bgVars>>
           \/ part = "background" /\ BgNext /\ UNCHANGED <<vars, batchVars, taskVars, registryVars>>
     \/ part = "corpus" /\ CorpusNext /\ UNCHANGED <<sessionVars, orchestratorVars>>
     \/ /\ UNCHANGED <<sessionVars, corpusVars>>
        /\ \/ part = "units" /\ UnitsNext /\ UNCHANGED <<goalVars, e2sVars>>
           \/ part = "goal" /\ GoalNext /\ UNCHANGED <<unitVars, e2sVars>>
           \/ part = "e2s" /\ E2SNext /\ UNCHANGED <<unitVars, goalVars>>

LiveSpec ==
  /\ LiveInit
  /\ [][LiveNext]_<<part, sessionVars, corpusVars, orchestratorVars>>
  /\ Fairness /\ BatchFairness /\ TaskFairness /\ RegistryFairness /\ BgFairness
  /\ CorpusFairness /\ UnitsFairness /\ GoalFairness /\ E2SFairness

(* Everything the backend waits for comes: flushes, the frontend's          *)
(* barriers, a task's writes, the drains of Shutdown, restores, promotions  *)
(* and deletions, attaches and sweeps of the vector store, delegated work,  *)
(* and the requests of a session with a goal or an explicit state.          *)
BackendEnds ==
  /\ FlushReturns /\ QuitEnds /\ BarrierShown /\ StopEnds
  /\ WritesReturn /\ WorkerEnds /\ DrainsReturn /\ CallsEnd /\ CorpusCallsEnd
  /\ ExecutionsEnd /\ GoalRunsEnd /\ E2SRunsEnd
===============================================================================
