----------------------------- MODULE VectorRoots -----------------------------
(***************************************************************************)
(* The registry of vector-index managers, one per workspace root            *)
(* (backend/vector_roots.go), with the embedder they share and the switch   *)
(* that turns indexing on and off (desktop/startup_phases.go,               *)
(* UpdateIndexingSettings): managers built on demand, evicted over a        *)
(* capacity, released, rebuilt for a new policy, and shut down for good.    *)
(*                                                                         *)
(* A hold of VectorRoots.mu is one step.  The shutdown of a manager takes   *)
(* time; it is bounded, so it may also return with the manager still at     *)
(* work ("stuck").  Recency is left out: any manager but the focus root's   *)
(* may be the one to evict.                                                *)
(***************************************************************************)
EXTENDS Integers, FiniteSets

CONSTANTS
  Roots,        \* workspace roots
  Searchers,    \* callers of ManagerForRoot
  Capacity,     \* vectorRootsCapacity
  MaxBuilt,     \* bound: managers built
  MaxToggles    \* bound: changes of the indexing settings

ASSUME RootsAssumption == Roots # {}
ASSUME BuiltAssumption == MaxBuilt \in Nat

Managers == 1..MaxBuilt
Epochs == 1..MaxToggles + 1
Nothing == 0
Nowhere == "no root"

VARIABLES
  life,      \* each manager: "none", "open", "draining", "closed", "stuck"
  rootOf,     \* its root
  uses,       \* the embedder it was built on
  live,       \* VectorRoots.roots
  closing,    \* VectorRoots.closing: the manager a root waits for
  focus,      \* the root in focus, or Nowhere
  factory,    \* the embedder the factory builds on, Nothing when unwired
  off,        \* VectorRoots.disabled
  down,       \* VectorRoots.shutdown
  closers,    \* Disable and ShutdownAll calls past their hold
  wanted,     \* vector_index.enabled, as saved
  saver,      \* where UpdateIndexingSettings is, under saveMu
  launchEpoch,   \* vectorIndexLauncher.epoch
  launches,   \* background inits in flight
  embedders,  \* the embedders that are open
  searches,   \* where each searcher is
  toggles,
  missed      \* history: since the last change, a launch parked a newer switch or
              \* found no embedder

rootsState == <<life, rootOf, uses, live, closing, focus>>
switch == <<wanted, saver, launchEpoch, launches, toggles>>
rootsVars == <<rootsState, factory, off, down, closers, switch, embedders, searches, missed>>

AtRest0 == [at |-> "idle"]

RootsInit ==
  /\ life = [m \in Managers |-> "none"]
  /\ rootOf = [m \in Managers |-> CHOOSE r \in Roots : TRUE]
  /\ uses = [m \in Managers |-> Nothing]
  /\ live = [r \in Roots |-> Nothing] /\ closing = [r \in Roots |-> Nothing]
  /\ focus = Nowhere
  /\ factory = Nothing /\ off = FALSE /\ down = FALSE
  /\ closers = {}
  /\ wanted \in BOOLEAN /\ saver = AtRest0
  /\ launchEpoch = 1 /\ launches = {[epoch |-> 1, at |-> "start"]}
  /\ embedders = {} /\ toggles = 0 /\ missed = FALSE
  /\ searches = [s \in Searchers |-> AtRest0]

Open(m) == life[m] \in {"open", "draining", "stuck"}
Living == {live[r] : r \in Roots} \ {Nothing}
Drained(ms) == \A m \in ms : life[m] \in {"closed", "stuck"}

-----------------------------------------------------------------------------
(* ManagerForRoot.                                                         *)

(* Mutant: a manager leaves the map without its root being marked.          *)
ParkUnmarked(ms, map) ==
  /\ life' = [m \in Managers |-> IF m \in ms THEN "draining" ELSE
                 IF m \in {map[r] : r \in Roots} THEN "open" ELSE life[m]]
  /\ live' = [r \in Roots |-> IF map[r] \in ms THEN Nothing ELSE map[r]]
  /\ UNCHANGED closing

\* The managers out of the map whose roots wait in `closing`; the others of
\* the map stay.
Park(ms, map) ==
  /\ life' = [m \in Managers |-> IF m \in ms THEN "draining" ELSE
                 IF m \in {map[r] : r \in Roots} THEN "open" ELSE life[m]]
  /\ live' = [r \in Roots |-> IF map[r] \in ms THEN Nothing ELSE map[r]]
  /\ closing' = [r \in Roots |-> IF map[r] \in ms THEN map[r] ELSE closing[r]]

\* evictLocked: beyond the capacity a manager of another root than the focus,
\* the one just inserted last of all.
InsertManager(r, m) ==
  LET map == [live EXCEPT ![r] = m]
      spare == {map[q] : q \in Roots \ {focus}} \ {Nothing}
      over == Cardinality({map[q] : q \in Roots} \ {Nothing}) > Capacity
      older == IF spare = {m} THEN spare ELSE spare \ {m}
  IN IF over /\ older # {} THEN \E v \in older : Park({v}, map) ELSE Park({}, map)

BuildManager(r) ==
  \E m \in Managers :
    /\ life[m] = "none" /\ \A n \in Managers : n < m => life[n] # "none"
    /\ InsertManager(r, m)
    /\ rootOf' = [rootOf EXCEPT ![m] = r] /\ uses' = [uses EXCEPT ![m] = factory]

Refused == down \/ off

\* The part of ManagerForRoot that needs no wait: refused, the live manager,
\* no factory yet or a build that fails; or a new manager.
Resolve(r) ==
  \/ UNCHANGED <<life, rootOf, uses, live, closing>>
  \/ ~Refused /\ live[r] = Nothing /\ factory # Nothing /\ BuildManager(r)

Search(s, r) ==
  /\ searches[s] = AtRest0
  /\ \/ /\ ~Refused /\ live[r] = Nothing /\ closing[r] # Nothing
        /\ searches' = [searches EXCEPT ![s] = [at |-> "waiting", root |-> r, for |-> closing[r]]]
        /\ UNCHANGED rootsState
     \/ closing[r] = Nothing /\ Resolve(r) /\ UNCHANGED <<searches, focus>>
  /\ UNCHANGED <<factory, off, down, closers, switch, embedders, missed>>

(* Mutant: the wait over, nothing is looked at again.                       *)
ResolveAgainBlind(s) ==
  /\ searches[s].at = "waiting" /\ closing[searches[s].root] # searches[s].for
  /\ searches' = [searches EXCEPT ![s] = AtRest0]
  /\ BuildManager(searches[s].root)
  /\ UNCHANGED <<focus, factory, off, down, closers, switch, embedders, missed>>

\* The wait over, everything is looked at again; a root that is closing anew,
\* and a wait that lasts too long, end the call.
ResolveAgain(s) ==
  LET r == searches[s].root IN
  /\ searches[s].at = "waiting"
  /\ searches' = [searches EXCEPT ![s] = AtRest0]
  /\ \/ UNCHANGED <<life, rootOf, uses, live, closing>>
     \/ closing[r] = Nothing /\ Resolve(r)
  /\ UNCHANGED <<focus, factory, off, down, closers, switch, embedders, missed>>

\* Shutdown returns: the manager is closed, or at work past its two graces.
\* The root that waits for this manager may be built again.
ManagerDown(m) ==
  /\ life[m] = "draining"
  /\ life' = [life EXCEPT ![m] = "closed"] \/ life' = [life EXCEPT ![m] = "stuck"]
  /\ closing' = [r \in Roots |-> IF closing[r] = m THEN Nothing ELSE closing[r]]
  /\ UNCHANGED <<rootOf, uses, live, focus, factory, off, down, closers, switch, embedders,
                 searches, missed>>

\* ApplyFocus and LeaveFocus.
MoveFocus ==
  /\ focus' \in (Roots \cup {Nowhere}) \ {focus}
  /\ UNCHANGED <<life, rootOf, uses, live, closing, factory, off, down, closers, switch,
                 embedders, searches, missed>>

\* Release and ReleaseProject.
ReleaseRoot(r) ==
  /\ live[r] # Nothing
  /\ Park({live[r]}, live)
  /\ focus' = IF focus = r THEN Nowhere ELSE focus
  /\ UNCHANGED <<rootOf, uses, factory, off, down, closers, switch, embedders, searches,
                 missed>>

-----------------------------------------------------------------------------
(* Disable and ShutdownAll: one hold, then the drains, then the embedder.  *)

EmptyRegistry(by, embedder) ==
  /\ life' = [m \in Managers |-> IF m \in Living THEN "draining" ELSE life[m]]
  /\ live' = [r \in Roots |-> Nothing]
  /\ closers' = closers \cup {[by |-> by, drains |-> Living, embedder |-> embedder]}

(* Mutant: the closer of the embedder is read after the wiring is dropped.  *)
DisableLeaking(by) ==
  IF down THEN UNCHANGED <<life, live, closers, factory, off>>
  ELSE off' = TRUE /\ factory' = Nothing /\ EmptyRegistry(by, Nothing)

Disable(by) ==
  IF down THEN UNCHANGED <<life, live, closers, factory, off>>
  ELSE off' = TRUE /\ factory' = Nothing /\ EmptyRegistry(by, factory)

ShutdownAll ==
  /\ ~down /\ down' = TRUE
  /\ EmptyRegistry("quit", factory) /\ focus' = Nowhere
  /\ UNCHANGED <<rootOf, uses, closing, factory, off, switch, embedders, searches, missed>>

CloserEnds(c) ==
  /\ Drained(c.drains)
  /\ closers' = closers \ {c}
  /\ embedders' = embedders \ {c.embedder}
  /\ saver' = IF c.by = "saver" THEN AtRest0 ELSE saver
  /\ UNCHANGED <<rootsState, factory, off, down, wanted, launchEpoch, launches, toggles, searches,
                 missed>>

-----------------------------------------------------------------------------
(* UpdateIndexingSettings, and the launcher behind it.                     *)

Launch == launches' = launches \cup {[epoch |-> launchEpoch + 1, at |-> "start"]}

\* Off: saved, the hook makes every launch stale.  On: a launch of its own.
SaveSwitch ==
  /\ saver = AtRest0 /\ toggles < MaxToggles
  /\ toggles' = toggles + 1
  /\ wanted' = ~wanted /\ launchEpoch' = launchEpoch + 1
  /\ IF wanted THEN saver' = [at |-> "disable"] /\ UNCHANGED launches
     ELSE Launch /\ UNCHANGED saver
  /\ missed' = FALSE
  /\ UNCHANGED <<rootsState, factory, off, down, closers, embedders, searches>>

SaverDisables ==
  /\ saver.at = "disable"
  /\ Disable("saver")
  /\ saver' = IF down THEN AtRest0 ELSE [at |-> "closing"]
  /\ UNCHANGED <<rootOf, uses, closing, focus, down, wanted, launchEpoch, launches, toggles,
                 embedders, searches, missed>>

\* ReloadPolicy, and the focus root's rebuild once the drains are over.
ReloadPolicy ==
  /\ saver = AtRest0 /\ wanted /\ toggles < MaxToggles /\ ~Refused
  /\ toggles' = toggles + 1
  /\ saver' = [at |-> "reload", drains |-> Living, root |-> focus]
  /\ Park(Living, live)
  /\ UNCHANGED <<rootOf, uses, focus, factory, off, down, closers, wanted, launchEpoch, launches,
                 embedders, searches, missed>>

RebuildFocus ==
  /\ saver.at = "reload" /\ Drained(saver.drains)
  /\ saver' = AtRest0
  /\ \/ saver.root = Nowhere /\ UNCHANGED rootsState
     \/ /\ saver.root # Nowhere /\ focus' = saver.root
        /\ \/ closing[saver.root] = Nothing /\ Resolve(saver.root)
           \/ closing[saver.root] # Nothing /\ UNCHANGED <<life, rootOf, uses, live, closing>>
  /\ UNCHANGED <<factory, off, down, closers, wanted, launchEpoch, launches, toggles, embedders,
                 searches, missed>>

\* runVectorIndexInit reads the switch once.
ReadSwitch(l) ==
  /\ l.at = "start"
  /\ launches' = (launches \ {l}) \cup {[l EXCEPT !.at = IF wanted THEN "load" ELSE "park"]}
  /\ UNCHANGED <<rootsState, factory, off, down, closers, wanted, saver, launchEpoch, toggles,
                 embedders, searches, missed>>

\* Indexing is off: the launch parks the registry, whatever its epoch.
ParkOff(l) ==
  /\ l.at = "park"
  /\ launches' = launches \ {l}
  /\ Disable("launch")
  /\ missed' = (missed \/ wanted)
  /\ UNCHANGED <<rootOf, uses, closing, focus, down, wanted, saver, launchEpoch, toggles,
                 embedders, searches>>

(* Mutant: a launch wires its factory whatever has happened since.          *)
CurrentAlways(l) == l.epoch <= launchEpoch

Current(l) == l.epoch = launchEpoch

\* The embedder is created, or is not available.
LoadEmbedder(l) ==
  /\ l.at = "load"
  /\ \/ launches' = launches \ {l} /\ missed' = (missed \/ Current(l)) /\ UNCHANGED embedders
     \/ /\ launches' = (launches \ {l}) \cup {[l EXCEPT !.at = "wire"]}
        /\ embedders' = embedders \cup {l.epoch} /\ UNCHANGED missed
  /\ UNCHANGED <<rootsState, factory, off, down, closers, wanted, saver, launchEpoch, toggles,
                 searches>>

\* wireIfCurrent and SetFactory: stale, or after the shutdown, the embedder is
\* closed again.
Wire(l) ==
  /\ l.at = "wire"
  /\ launches' = launches \ {l}
  /\ IF Current(l) /\ ~down
     THEN factory' = l.epoch /\ off' = FALSE /\ UNCHANGED embedders
     ELSE embedders' = embedders \ {l.epoch} /\ UNCHANGED <<factory, off>>
  /\ UNCHANGED <<rootsState, down, closers, wanted, saver, launchEpoch, toggles, searches,
                 missed>>

-----------------------------------------------------------------------------
RootsNext ==
  \/ \E s \in Searchers : (\E r \in Roots : Search(s, r)) \/ ResolveAgain(s)
  \/ \E m \in Managers : ManagerDown(m)
  \/ \E r \in Roots : ReleaseRoot(r)
  \/ MoveFocus \/ ShutdownAll
  \/ \E c \in closers : CloserEnds(c)
  \/ SaveSwitch \/ SaverDisables \/ ReloadPolicy \/ RebuildFocus
  \/ \E l \in launches : ReadSwitch(l) \/ ParkOff(l) \/ LoadEmbedder(l) \/ Wire(l)

RootsSpec == RootsInit /\ [][RootsNext]_rootsVars

-----------------------------------------------------------------------------
\* "two managers must never open the same chromem persistent storage": a root
\* has one manager at work, but for those whose shutdown ran out of time and
\* those a launch's Disable is still draining, which `closing` does not show.
OneOpener ==
  \A m, n \in Managers :
    m # n /\ rootOf[m] = rootOf[n] /\ life[m] = "open" /\ life[n] \in {"open", "draining"} =>
      \E c \in closers : c.by = "launch" /\ n \in c.drains

\* No manager is reachable, or at work without being shut down, once the
\* registry is parked or shut down, even for a search that waited meanwhile.
NoneWhenOff ==
  /\ \A m \in Managers : life[m] = "open" <=> m \in Living
  /\ Refused => Living = {}

\* Every open embedder is somebody's to close: the registry's, a Disable's or
\* a ShutdownAll's, a launch's.
EmbeddersAccounted ==
  embedders \subseteq {factory} \cup {c.embedder : c \in closers} \cup {l.epoch : l \in launches}

\* The switch settles: once nothing is in flight the registry is parked exactly
\* if indexing is off, unless, since the user turned it on, a launch that had
\* read it as off parked the registry or the embedder was not available.
SwitchSettles ==
  saver = AtRest0 /\ launches = {} /\ closers = {} /\ ~down =>
    off = ~wanted \/ (wanted /\ missed)

\* The switch holds, whatever a slow launch, search or shutdown does: one index
\* at work on a root, none once it is off, and nothing open that nobody closes.
SwitchHolds == OneOpener /\ NoneWhenOff /\ EmbeddersAccounted /\ SwitchSettles

\* "after every manager is shut down" (closeEmbedder): no manager is at work,
\* within its grace, on an embedder that is closed.
EmbedderOutlives ==
  \A m \in Managers : life[m] \in {"open", "draining"} => uses[m] \in embedders
=============================================================================
