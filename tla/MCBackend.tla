------------------------------ MODULE MCBackend ------------------------------
(***************************************************************************)
(* The small instance of what the backend keeps for its sessions: the       *)
(* pipelines of their events to the store and to the frontend, a task's     *)
(* writes, the background goroutines and blackboards, the registry of       *)
(* sessions, the shared store of the vector index, and the explicit-state   *)
(* runs of a session.  These parts share no state: a behaviour runs one of  *)
(* them, the others stay in their initial states.                           *)
(***************************************************************************)
EXTENDS PersistPipeline, EventBatcher, TaskWriter, ManagerBackground, SessionRegistry,
        CorpusStore, E2SLoop

VARIABLE part

MCEmitters == {"first", "second"}

(* Three shapes: one busy emitter with a token report, two emitters, and    *)
(* one emitter with two reports that can overtake each other.               *)
MCQuotas == {
  [events |-> [e \in MCEmitters |-> IF e = "first" THEN 3 ELSE 0], totals |-> 1],
  [events |-> [e \in MCEmitters |-> 1], totals |-> 0],
  [events |-> [e \in MCEmitters |-> IF e = "first" THEN 1 ELSE 0], totals |-> 2]}

MCChunksOf == [s \in Snaps |-> Chunks]
MCRootOf == [p \in Attachers |-> IF p = "p3" THEN "r2" ELSE "r1"]

Budget(p1, p2, p3, sweeps, crashes, closes) ==
  [attaches |-> [p \in Attachers |-> CASE p = "p1" -> p1 [] p = "p2" -> p2 [] OTHER -> p3],
   sweeps |-> sweeps, crashes |-> crashes, closes |-> closes]

(* Two attaches of one root, while the registry closes, and of two roots;   *)
(* a sweep during the life of one root, and across a restart.               *)
MCBudgets == {Budget(1, 1, 0, 0, 0, 1), Budget(1, 0, 1, 0, 0, 0), Budget(2, 0, 0, 1, 0, 0),
              Budget(1, 0, 0, 1, 1, 0)}

AnyBudget == CHOOSE b \in MCBudgets : TRUE
AnyQuota == CHOOSE q \in MCQuotas : TRUE
AnyStatus == CHOOSE s \in {"in_progress", "paused"} : TRUE

BackendInit ==
  /\ part \in {"persister", "batcher", "task", "background", "registry", "corpus", "e2s"}
  /\ Init /\ (part # "persister" => quota = AnyQuota)
  /\ BatchInit
  /\ TaskInit /\ (part # "task" => status = AnyStatus)
  /\ BgInit /\ RegistryInit /\ E2SInit
  /\ CorpusInit /\ (part # "corpus" => left = AnyBudget /\ manifests = {})

BackendNext ==
  /\ UNCHANGED part
  /\ \/ /\ part = "persister" /\ Next
        /\ UNCHANGED <<batchVars, taskVars, bgVars, registryVars, corpusVars, e2sVars>>
     \/ /\ part = "batcher" /\ BatchNext
        /\ UNCHANGED <<vars, taskVars, bgVars, registryVars, corpusVars, e2sVars>>
     \/ /\ part = "task" /\ TaskNext
        /\ UNCHANGED <<vars, batchVars, bgVars, registryVars, corpusVars, e2sVars>>
     \/ /\ part = "background" /\ BgNext
        /\ UNCHANGED <<vars, batchVars, taskVars, registryVars, corpusVars, e2sVars>>
     \/ /\ part = "registry" /\ RegistryNext
        /\ UNCHANGED <<vars, batchVars, taskVars, bgVars, corpusVars, e2sVars>>
     \/ /\ part = "corpus" /\ CorpusNext
        /\ UNCHANGED <<vars, batchVars, taskVars, bgVars, registryVars, e2sVars>>
     \/ /\ part = "e2s" /\ E2SNext
        /\ UNCHANGED <<vars, batchVars, taskVars, bgVars, registryVars, corpusVars>>

BackendSpec ==
  BackendInit
  /\ [][BackendNext]_<<part, vars, batchVars, taskVars, bgVars, registryVars, corpusVars,
                     e2sVars>>
===============================================================================
