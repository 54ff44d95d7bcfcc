------------------------------ MODULE CorpusStore ------------------------------
(***************************************************************************)
(* The shared store of the vector index (core/vectorindex/corpus.go,       *)
(* service_view.go, store_gc.go, prune.go): snapshot corpora that every    *)
(* root of a project reads and one builder writes, the handles the         *)
(* registry keeps open, and the sweep that collects what nobody owns.      *)
(*                                                                         *)
(* A corpus is published by its occurrence table, or by the manifest of    *)
(* its older form.  A table names chunk records that corpora share.        *)
(* Embedding eras, promotion of stores of older builds, overlays' own      *)
(* tables and the byte bound of the retained handles are left out.         *)
(***************************************************************************)
EXTENDS Integers, Sequences, FiniteSets, SequencesExt

CONSTANTS Snaps,       \* snapshot keys: commits
          Chunks,      \* chunk contents
          ChunksOf,    \* [Snaps -> SUBSET Chunks]
          Attachers,   \* goroutines that attach a root (initProject, handleBranchSwitch)
          RootOf,      \* [Attachers -> Trees]
          Trees,       \* workspace roots
          Retained,    \* handles kept open without a reader (resCapacity)
          Budgets      \* bounds of the model: the attaches of each attacher, the
                       \* sweeps, crashes and closings of a behaviour

NoSnap == "none"
Overlay == "overlay"

ASSUME CorpusAssumption ==
  /\ NoSnap \notin Snaps /\ IsFiniteSet(Attachers) /\ IsFiniteSet(Trees)
  /\ RootOf \in [Attachers -> Trees] /\ Retained \in Nat

VARIABLES
  tables,    \* snapshots whose table.json is on disk
  rowsOf,    \* the chunks that a snapshot's table names
  manifests, \* snapshots whose corpus.json is on disk
  records,   \* chunk records on disk: "absent", "young" (in the grace window), "old"
  marks,     \* refs/: the snapshot each root's marker names
  opted,     \* refs/ exists
  present,   \* the workspace trees that exist
  pool,      \* corpusStore: open handles, references, the LRU of unreferenced ones
  leases,    \* corpusStore.builds
  off,      \* CorpusRegistry.closed
  view,      \* projectState.corpus of each root's service
  store,     \* projectState.currentBranch of each root's service, with a collection
  rows,      \* projectState.chunkRows of each root's service
  point, goal,  \* an attacher's step and its snapshot
  sweep,     \* the sweep: step, keep set, held keys, reachable snapshots, counted chunks
  since,     \* auxiliary: corpora held, and pinned, ever since the sweep began
  left       \* what is left of the behaviour's budget

storeVars == <<tables, rowsOf, manifests, records>>
ownVars == <<marks, opted, present>>
serviceVars == <<view, store, rows>>
corpusVars ==
  <<storeVars, ownVars, pool, leases, off, serviceVars, point, goal, sweep, since, left>>

NoSweep == [step |-> "idle", keep |-> {}, held |-> {}, reach |-> {}, counted |-> {}]

CorpusInit ==
  /\ tables = {} /\ rowsOf = [s \in Snaps |-> {}]
  /\ manifests \in {{}, {CHOOSE s \in Snaps : TRUE}}
  /\ records = [c \in Chunks |-> "absent"]
  /\ marks = [r \in Trees |-> NoSnap] /\ opted = FALSE /\ present = Trees
  /\ pool = [cached |-> {}, refs |-> [s \in Snaps |-> 0], lru |-> <<>>]
  /\ leases = {} /\ off = FALSE
  /\ view = [r \in Trees |-> NoSnap] /\ store = [r \in Trees |-> NoSnap]
  /\ rows = [r \in Trees |-> {}]
  /\ point = [p \in Attachers |-> "idle"] /\ goal = [p \in Attachers |-> NoSnap]
  /\ sweep = NoSweep
  /\ since = [held |-> {}, pinned |-> {}]
  /\ left \in Budgets

Published(s) == s \in tables \cup manifests
OnDisk == {c \in Chunks : records[c] # "absent"}
Intact(s) == rowsOf[s] \subseteq OnDisk

(* ProtectedKeys: snapshots with a referenced handle, or under a lease.     *)
ProtectedKeys == {s \in Snaps : pool.refs[s] > 0} \cup leases
(* What live roots' markers reach (liveRootReferences).                     *)
Reached == {marks[r] : r \in present} \ {NoSnap}

(* The service lock of a root is held through a full pass and through a     *)
(* publication.                                                             *)
Locked == {"indexing", "publishing", "stamping"}
Free(r) == \A q \in Attachers : RootOf[q] = r => point[q] \notin Locked

To(p, step) == point' = [point EXCEPT ![p] = step]

-----------------------------------------------------------------------------
(* Handles                                                                  *)

(* The retained handles inside the count bound: the oldest are closed.      *)
Enforced(h) ==
  IF Len(h.lru) <= Retained THEN h
  ELSE LET kept == SubSeq(h.lru, Len(h.lru) - Retained + 1, Len(h.lru))
       IN [h EXCEPT !.lru = kept, !.cached = @ \ (ToSet(h.lru) \ ToSet(kept))]

(* A key leaves the list of the retained handles.                           *)
Detached(q, s) ==
  IF s \in ToSet(q) THEN RemoveAt(q, CHOOSE i \in DOMAIN q : q[i] = s) ELSE q

(* What is left of the list when some of its keys leave it, in its order.   *)
Remaining(q, S) ==
  {k \in SetToSeqs(ToSet(q) \ S) : \A i, j \in DOMAIN q : \A a, b \in DOMAIN k :
     i < j /\ k[a] = q[i] /\ k[b] = q[j] => a < b}

(* The last release retains the handle, or closes it.                       *)
ReleaseHandle(h, s) ==
  IF s = NoSnap THEN h
  ELSE IF h.refs[s] > 1 THEN [h EXCEPT !.refs[s] = @ - 1]
  ELSE IF off \/ Retained = 0
  THEN [h EXCEPT !.refs[s] = 0, !.cached = @ \ {s}]
  ELSE Enforced([h EXCEPT !.refs[s] = 0, !.lru = Append(@, s)])

(* A faulty hit that leaves the handle on the LRU.                          *)
ReopenListed(h, s) == [h EXCEPT !.refs[s] = @ + 1]

(* A hit serves the open handle again and takes it off the LRU.             *)
Reopen(h, s) == [h EXCEPT !.refs[s] = @ + 1, !.lru = Detached(@, s)]
Opened(h, s) == [h EXCEPT !.cached = @ \cup {s}, !.refs[s] = 1]

-----------------------------------------------------------------------------
(* AttachSnapshot of one root                                               *)

(* The root's HEAD names the snapshot.                                      *)
Resolve(p, s) ==
  /\ point[p] = "idle" /\ RootOf[p] \in present /\ left.attaches[p] > 0
  /\ left' = [left EXCEPT !.attaches[p] = @ - 1]
  /\ goal' = [goal EXCEPT ![p] = s] /\ To(p, "pin")
  /\ UNCHANGED <<storeVars, ownVars, pool, leases, off, serviceVars, sweep>>

(* PinCorpusView; a marker that cannot be written is given up.              *)
Pin(p) ==
  /\ point[p] = "pin" /\ To(p, "ensure")
  /\ \/ marks' = [marks EXCEPT ![RootOf[p]] = goal[p]] /\ opted' = TRUE
     \/ UNCHANGED <<marks, opted>>
  /\ UNCHANGED <<storeVars, present, pool, leases, off, serviceVars, goal, sweep, left>>

(* EnsureCorpus looks before it takes the lease.                            *)
EnsureCorpus(p) ==
  /\ point[p] = "ensure"
  /\ To(p, IF off THEN "idle" ELSE IF Published(goal[p]) THEN "attach" ELSE "lease")
  /\ UNCHANGED <<storeVars, ownVars, pool, leases, off, serviceVars, goal, sweep, left>>

(* A faulty lease that does not look for a builder.                         *)
BeginBuildAnyway(p) ==
  /\ point[p] = "lease" /\ To(p, "reset")
  /\ leases' = leases \cup {goal[p]}
  /\ UNCHANGED <<storeVars, ownVars, pool, off, serviceVars, goal, sweep, left>>

(* beginBuild: one builder for a key, the others wait for it.               *)
BeginBuild(p) ==
  /\ point[p] = "lease"
  /\ leases' = leases \cup {goal[p]}
  /\ To(p, IF goal[p] \in leases THEN "wait" ELSE "reset")
  /\ UNCHANGED <<storeVars, ownVars, pool, off, serviceVars, goal, sweep, left>>

(* waitBuild: the builder ended; what it left decides.                      *)
Woken(p) ==
  /\ point[p] = "woken"
  /\ To(p, IF Published(goal[p]) THEN "attach" ELSE "idle")
  /\ UNCHANGED <<storeVars, ownVars, pool, leases, off, serviceVars, goal, sweep, left>>

(* waitBuild gives up after corpusBuildWait.                                *)
WaitExpires(p) ==
  /\ point[p] = "wait" /\ To(p, "idle")
  /\ UNCHANGED <<storeVars, ownVars, pool, leases, off, serviceVars, goal, sweep, left>>

(* resetUnpublishedCorpusStore: the older form's files go.                  *)
ResetStore(p) ==
  /\ point[p] = "reset" /\ To(p, "build")
  /\ manifests' = manifests \ {goal[p]}
  /\ UNCHANGED <<tables, rowsOf, records, ownVars, pool, leases, off, serviceVars, goal,
                 sweep, left>>

(* BuildCorpusStore: the root's working store becomes the corpus.           *)
BuildStore(p) ==
  LET r == RootOf[p] IN
  /\ point[p] = "build" /\ Free(r)
  /\ \/ store' = [store EXCEPT ![r] = goal[p]] /\ To(p, "index")
     \/ store' = [store EXCEPT ![r] = NoSnap] /\ To(p, "settle_bad")
  /\ rows' = [rows EXCEPT ![r] = IF store[r] = goal[p] THEN @ ELSE {}]
  /\ UNCHANGED <<storeVars, ownVars, pool, leases, off, view, goal, sweep, left>>

(* IndexFull takes the service lock for the whole pass.                     *)
IndexStart(p) ==
  LET r == RootOf[p] IN
  /\ point[p] = "index" /\ Free(r)
  /\ To(p, IF store[r] = NoSnap THEN "close_bad" ELSE "indexing")
  /\ UNCHANGED <<storeVars, ownVars, pool, leases, off, serviceVars, goal, sweep, left>>

(* A batch commits into whatever the working store is: the chunk's record   *)
(* lands, unless one is there already, and then the row that names it.      *)
IndexChunk(p, c) ==
  LET r == RootOf[p] IN
  /\ point[p] = "indexing" /\ c \in ChunksOf[goal[p]] \ rows[r]
  /\ records' = [records EXCEPT ![c] = IF @ = "absent" THEN "young" ELSE @]
  /\ rows' = [rows EXCEPT ![r] = @ \cup {c}]
  /\ UNCHANGED <<tables, rowsOf, manifests, ownVars, pool, leases, off, view, store, point,
                 goal, sweep, left>>

(* The pass ends, or is cancelled.                                          *)
IndexEnd(p) ==
  /\ point[p] = "indexing"
  /\ \/ ChunksOf[goal[p]] \subseteq rows[RootOf[p]] /\ To(p, "publish")
     \/ To(p, "close_bad")
  /\ UNCHANGED <<storeVars, ownVars, pool, leases, off, serviceVars, goal, sweep, left>>

(* PublishCorpus: the store must still be the corpus and every record that  *)
(* the rows name must be on disk.                                           *)
Verify(p) ==
  LET r == RootOf[p] IN
  /\ point[p] = "publish" /\ Free(r)
  /\ To(p, IF store[r] = goal[p] /\ rows[r] \subseteq OnDisk THEN "publishing" ELSE "close_bad")
  /\ UNCHANGED <<storeVars, ownVars, pool, leases, off, serviceVars, goal, sweep, left>>

PublishTable(p) ==
  /\ point[p] = "publishing"
  /\ tables' = tables \cup {goal[p]}
  /\ rowsOf' = [rowsOf EXCEPT ![goal[p]] = rows[RootOf[p]]]
  /\ To(p, "stamping")
  /\ UNCHANGED <<manifests, records, ownVars, pool, leases, off, serviceVars, goal, sweep,
                 left>>

PublishManifest(p) ==
  /\ point[p] = "stamping" /\ To(p, "close_ok")
  /\ manifests' = manifests \cup {goal[p]}
  /\ UNCHANGED <<tables, rowsOf, records, ownVars, pool, leases, off, serviceVars, goal,
                 sweep, left>>

(* CloseWorkingStoreIfCurrent: a store that another attach has taken over   *)
(* is left to it.                                                           *)
CloseStore(p) ==
  LET r == RootOf[p] IN
  /\ point[p] \in {"close_ok", "close_bad"} /\ Free(r)
  /\ store' = [store EXCEPT ![r] = IF @ = goal[p] THEN NoSnap ELSE @]
  /\ rows' = [rows EXCEPT ![r] = IF store[r] = goal[p] THEN {} ELSE @]
  /\ To(p, IF point[p] = "close_ok" /\ Published(goal[p]) THEN "settle_ok" ELSE "settle_bad")
  /\ UNCHANGED <<storeVars, ownVars, pool, leases, off, view, goal, sweep, left>>

(* A faulty end that wakes nobody.                                          *)
EndBuildQuiet(p) ==
  /\ point[p] \in {"settle_ok", "settle_bad"}
  /\ leases' = leases \ {goal[p]}
  /\ To(p, IF point[p] = "settle_ok" THEN "attach" ELSE "idle")
  /\ UNCHANGED <<storeVars, ownVars, pool, off, serviceVars, goal, sweep, left>>

(* endBuild: the lease goes and every waiter wakes.                         *)
EndBuild(p) ==
  /\ point[p] \in {"settle_ok", "settle_bad"}
  /\ leases' = leases \ {goal[p]}
  /\ point' = [q \in Attachers |->
              IF q = p THEN IF point[p] = "settle_ok" THEN "attach" ELSE "idle"
              ELSE IF point[q] = "wait" /\ goal[q] = goal[p] THEN "woken" ELSE point[q]]
  /\ UNCHANGED <<storeVars, ownVars, pool, off, serviceVars, goal, sweep, left>>

(* AttachView: a view that is bound already stays; the old one is released. *)
LeaveView(p) ==
  LET r == RootOf[p] IN
  /\ point[p] = "attach" /\ Free(r)
  /\ IF view[r] = goal[p] /\ store[r] = Overlay
     THEN To(p, "idle") /\ UNCHANGED <<pool, view>>
     ELSE /\ pool' = ReleaseHandle(pool, view[r])
          /\ view' = [view EXCEPT ![r] = NoSnap]
          /\ To(p, "open")
  /\ UNCHANGED <<storeVars, ownVars, leases, off, store, rows, goal, sweep, left>>

(* corpusStore.open: the open handle, else the table with all its chunks,   *)
(* else the older form.  A table with a missing chunk loses its             *)
(* publication.                                                             *)
Open(p) ==
  LET s == goal[p] IN
  /\ point[p] = "open"
  /\ \/ off /\ To(p, "idle") /\ UNCHANGED <<pool, tables>>
     \/ /\ ~off /\ s \in pool.cached
        /\ pool' = Reopen(pool, s) /\ To(p, "overlay") /\ UNCHANGED tables
     \/ /\ ~off /\ s \notin pool.cached
        /\ tables' = IF Intact(s) THEN tables ELSE tables \ {s}
        /\ IF s \in tables' \cup manifests
           THEN pool' = Opened(pool, s) /\ To(p, "overlay")
           ELSE To(p, "idle") /\ UNCHANGED pool
  /\ UNCHANGED <<rowsOf, manifests, records, ownVars, leases, off, serviceVars, goal,
                 sweep, left>>

(* SwitchBranch to the root's overlay; when it does not open the handle     *)
(* goes back.                                                               *)
OpenOverlay(p) ==
  LET r == RootOf[p] IN
  /\ point[p] = "overlay" /\ Free(r)
  /\ \/ /\ store' = [store EXCEPT ![r] = Overlay] /\ To(p, "bind")
        /\ UNCHANGED pool
     \/ /\ store[r] # Overlay /\ store' = [store EXCEPT ![r] = NoSnap]
        /\ pool' = ReleaseHandle(pool, goal[p]) /\ To(p, "idle")
  /\ rows' = [rows EXCEPT ![r] = IF store[r] = Overlay THEN @ ELSE {}]
  /\ UNCHANGED <<storeVars, ownVars, leases, off, view, goal, sweep, left>>

(* A faulty bind that forgets what another attach bound.                    *)
BindOver(p) ==
  LET r == RootOf[p] IN
  /\ point[p] = "bind" /\ Free(r) /\ To(p, "idle")
  /\ view' = [view EXCEPT ![r] = goal[p]]
  /\ UNCHANGED <<storeVars, ownVars, pool, leases, off, store, rows, goal, sweep, left>>

(* The handle is bound; what another attach bound meanwhile is released.    *)
Bind(p) ==
  LET r == RootOf[p] IN
  /\ point[p] = "bind" /\ Free(r) /\ To(p, "idle")
  /\ pool' = ReleaseHandle(pool, view[r])
  /\ view' = [view EXCEPT ![r] = goal[p]]
  /\ UNCHANGED <<storeVars, ownVars, leases, off, store, rows, goal, sweep, left>>

-----------------------------------------------------------------------------
(* The roots' lives                                                         *)

Quiet(r) == \A q \in Attachers : RootOf[q] = r => point[q] = "idle"

(* The manager of a root is parked or shut down: the view is released.      *)
Park(r) ==
  /\ Free(r) /\ (view[r] # NoSnap \/ store[r] # NoSnap)
  /\ pool' = ReleaseHandle(pool, view[r])
  /\ view' = [view EXCEPT ![r] = NoSnap] /\ store' = [store EXCEPT ![r] = NoSnap]
  /\ rows' = [rows EXCEPT ![r] = {}]
  /\ UNCHANGED <<storeVars, ownVars, leases, off, point, goal, sweep, left>>

(* A worktree is removed: by the application, which drops its marker        *)
(* (DeleteRootOverlay), or behind its back.                                 *)
RemoveTree(r) ==
  /\ Quiet(r) /\ view[r] = NoSnap /\ store[r] = NoSnap /\ r \in present
  /\ present' = present \ {r}
  /\ marks' \in {marks, [marks EXCEPT ![r] = NoSnap]}
  /\ UNCHANGED <<storeVars, opted, pool, leases, off, serviceVars, point, goal, sweep, left>>

(* CorpusRegistry.Close: retained handles close, the rest are retired.      *)
CloseRegistry ==
  /\ ~off /\ off' = TRUE
  /\ left.closes > 0 /\ left' = [left EXCEPT !.closes = @ - 1]
  /\ pool' = [pool EXCEPT !.cached = @ \ ToSet(pool.lru), !.lru = <<>>]
  /\ UNCHANGED <<storeVars, ownVars, leases, serviceVars, point, goal, sweep>>

(* The process ends and starts again: only the disk stays.                  *)
CorpusCrash ==
  /\ left.crashes > 0
  /\ left' = [left EXCEPT !.crashes = @ - 1]
  /\ pool' = [cached |-> {}, refs |-> [s \in Snaps |-> 0], lru |-> <<>>]
  /\ leases' = {} /\ off' = FALSE
  /\ view' = [r \in Trees |-> NoSnap] /\ store' = [r \in Trees |-> NoSnap]
  /\ rows' = [r \in Trees |-> {}]
  /\ point' = [p \in Attachers |-> "idle"] /\ goal' = [p \in Attachers |-> NoSnap]
  /\ sweep' = NoSweep
  /\ UNCHANGED <<storeVars, ownVars>>

(* A record leaves the grace window of the orphan pass.                     *)
Ages(c) ==
  /\ records[c] = "young" /\ records' = [records EXCEPT ![c] = "old"]
  /\ UNCHANGED <<tables, rowsOf, manifests, ownVars, pool, leases, off, serviceVars, point,
                 goal, sweep, left>>

-----------------------------------------------------------------------------
(* The sweep: PruneMissingBranchData around RunHygiene                      *)

SweepStep(from, to, fields) ==
  /\ sweep.step = from
  /\ sweep' = [[f \in DOMAIN sweep |-> IF f \in DOMAIN fields THEN fields[f] ELSE sweep[f]]
                 EXCEPT !.step = to]

(* Markers of roots that are gone are dropped while the markers are read.   *)
DropDeadMarks == marks' = [r \in Trees |-> IF r \in present THEN marks[r] ELSE NoSnap]

(* DeleteBranchData enters at the hygiene pass.                             *)
BeginSweep ==
  /\ left.sweeps > 0
  /\ left' = [left EXCEPT !.sweeps = @ - 1]
  /\ \/ SweepStep("idle", "marks", [keep |-> ProtectedKeys])
     \/ SweepStep("idle", "hold", [keep |-> Snaps])
  /\ UNCHANGED <<storeVars, ownVars, pool, leases, off, serviceVars, point, goal>>

(* A store whose refs/ never existed keeps everything.                      *)
ReadMarks ==
  /\ SweepStep("marks", "recheck", [keep |-> IF opted THEN sweep.keep \cup Reached ELSE Snaps])
  /\ DropDeadMarks
  /\ UNCHANGED <<storeVars, opted, present, pool, leases, off, serviceVars, point, goal, left>>

Recheck ==
  /\ SweepStep("recheck", "reclaim", [keep |-> sweep.keep \cup ProtectedKeys])
  /\ UNCHANGED <<storeVars, ownVars, pool, leases, off, serviceVars, point, goal, left>>

(* ReclaimKeys closes the retained handles of the corpora that are to go.   *)
Reclaim ==
  LET doomed == {s \in manifests \ sweep.keep : pool.refs[s] = 0} IN
  /\ SweepStep("reclaim", "hold", <<>>)
  /\ \E q \in Remaining(pool.lru, doomed) :
       pool' = [pool EXCEPT !.cached = @ \ doomed, !.lru = q]
  /\ UNCHANGED <<storeVars, ownVars, leases, off, serviceVars, point, goal, left>>

(* runHygieneLocked reads what is held, then what the markers reach.        *)
ReadHeld ==
  /\ SweepStep("hold", "reach", [held |-> pool.cached \cup leases])
  /\ UNCHANGED <<storeVars, ownVars, pool, leases, off, serviceVars, point, goal, left>>

(* A faulty keep set, of what the markers reach only.                       *)
ReadReachMarks ==
  /\ SweepStep("reach", "doom", [reach |-> IF opted THEN Reached ELSE Snaps])
  /\ DropDeadMarks
  /\ UNCHANGED <<storeVars, opted, present, pool, leases, off, serviceVars, point, goal, left>>

ReadReach ==
  /\ SweepStep("reach", "doom", [reach |-> IF opted THEN sweep.held \cup Reached ELSE Snaps])
  /\ DropDeadMarks
  /\ UNCHANGED <<storeVars, opted, present, pool, leases, off, serviceVars, point, goal, left>>

Named(S) == UNION {rowsOf[s] : s \in S}

(* Snapshots that nobody reaches go with all their files; then the          *)
(* references of the tables that are left are counted.                      *)
RemoveDoomed ==
  /\ tables' = tables \cap sweep.reach
  /\ manifests' = manifests \cap (sweep.reach \cup (Snaps \ tables))
  /\ SweepStep("doom", "orphans", [counted |-> Named(tables')])
  /\ UNCHANGED <<rowsOf, records, ownVars, pool, leases, off, serviceVars, point, goal, left>>

(* sweepOrphanChunkRecords, then removeMigratedV1Legs; then the references  *)
(* are counted again.                                                       *)
RemoveOrphans ==
  /\ records' = [c \in Chunks |->
       IF records[c] = "old" /\ c \notin sweep.counted THEN "absent" ELSE records[c]]
  /\ manifests' = manifests \ (tables \ sweep.held)
  /\ SweepStep("orphans", "evict", [counted |-> tables])
  /\ UNCHANGED <<tables, rowsOf, ownVars, pool, leases, off, serviceVars, point, goal, left>>

(* A faulty eviction that takes shared records along.                       *)
EvictShared(S) ==
  /\ SweepStep("evict", "prune", [counted |-> {}])
  /\ S \subseteq tables \ sweep.reach
  /\ records' = [c \in Chunks |-> IF c \in Named(S) THEN "absent" ELSE records[c]]
  /\ tables' = tables \ S /\ manifests' = manifests \ S
  /\ UNCHANGED <<rowsOf, ownVars, pool, leases, off, serviceVars, point, goal, left>>

(* evictSnapshotsUnderBudget: unreached snapshots go until the store fits,  *)
(* each with the records that only it names, of the tables that were        *)
(* counted.                                                                 *)
EvictUnreached(S) ==
  /\ SweepStep("evict", "prune", [counted |-> {}])
  /\ S \subseteq tables \ sweep.reach
  /\ records' = [c \in Chunks |->
       IF c \in Named(S) \ Named(sweep.counted \ S) THEN "absent" ELSE records[c]]
  /\ tables' = tables \ S /\ manifests' = manifests \ S
  /\ UNCHANGED <<rowsOf, ownVars, pool, leases, off, serviceVars, point, goal, left>>

(* pruneBranchDataFS: the older form's files of what is not kept.           *)
Prune ==
  /\ sweep.step = "prune" /\ sweep' = NoSweep
  /\ manifests' = manifests \cap sweep.keep
  /\ UNCHANGED <<tables, rowsOf, records, ownVars, pool, leases, off, serviceVars, point, goal,
                 left>>

-----------------------------------------------------------------------------
Attach(p) ==
  \/ Pin(p) \/ EnsureCorpus(p) \/ BeginBuild(p) \/ Woken(p) \/ ResetStore(p) \/ BuildStore(p)
  \/ IndexStart(p) \/ (\E c \in Chunks : IndexChunk(p, c)) \/ IndexEnd(p) \/ Verify(p)
  \/ PublishTable(p) \/ PublishManifest(p) \/ CloseStore(p) \/ EndBuild(p)
  \/ LeaveView(p) \/ Open(p) \/ OpenOverlay(p) \/ Bind(p)

Sweep ==
  \/ ReadMarks \/ Recheck \/ Reclaim \/ ReadHeld \/ ReadReach \/ RemoveDoomed
  \/ RemoveOrphans \/ (\E S \in SUBSET Snaps : EvictUnreached(S)) \/ Prune

(* The snapshots that have been published with the same table, and held or  *)
(* named by a live root's marker, ever since the sweep began.               *)
Since ==
  LET same == {s \in tables' : rowsOf'[s] = rowsOf[s]}
      held == same \cap (pool.cached \cup leases)'
      pinned == same \cap Reached' IN
  since' = IF sweep.step = "idle" THEN [held |-> held, pinned |-> pinned]
           ELSE [held |-> since.held \cap held, pinned |-> since.pinned \cap pinned]

CorpusNext ==
  /\ \/ \E p \in Attachers :
          Attach(p) \/ WaitExpires(p) \/ (\E s \in Snaps : Resolve(p, s))
     \/ \E r \in Trees : Park(r) \/ RemoveTree(r)
     \/ CloseRegistry \/ CorpusCrash \/ \E c \in Chunks : Ages(c)
     \/ BeginSweep \/ Sweep
  /\ Since

CorpusFairness ==
  /\ \A p \in Attachers : WF_corpusVars(Attach(p) /\ Since)
  /\ WF_corpusVars(Sweep /\ Since)

CorpusSpec == CorpusInit /\ [][CorpusNext]_corpusVars /\ CorpusFairness

-----------------------------------------------------------------------------
Holders(s) ==
  Cardinality({r \in Trees : view[r] = s})
  + Cardinality({p \in Attachers : point[p] \in {"overlay", "bind"} /\ goal[p] = s})

(* A handle's references are the views that read it and the attaches that   *)
(* carry it: none is leaked and none is closed under a reader, whatever     *)
(* attaches of one root overlap (release, AttachView).                      *)
RefsExact == \A s \in Snaps : pool.refs[s] = Holders(s)

(* The LRU lists exactly the open handles without a reader, each once and   *)
(* no more than the bound (detachLRULocked, enforceResidencyLocked).        *)
LruExact ==
  /\ ToSet(pool.lru) = {s \in pool.cached : pool.refs[s] = 0}
  /\ IsInjective(pool.lru) /\ Len(pool.lru) <= Retained
  /\ \A s \in Snaps : pool.refs[s] > 0 => s \in pool.cached

(* A lease has exactly one builder, and nobody waits without one: a corpus  *)
(* has one writer (beginBuild, endBuild).                                   *)
Building(p) ==
  point[p] \in {"reset", "build", "index", "publish", "close_ok", "close_bad", "settle_ok",
             "settle_bad"} \cup Locked
OneWriter ==
  /\ \A s \in Snaps : Cardinality({p \in Attachers : Building(p) /\ goal[p] = s})
                        = (IF s \in leases THEN 1 ELSE 0)
  /\ \A p \in Attachers : point[p] = "wait" => goal[p] \in leases

CorpusShared == RefsExact /\ LruExact /\ OneWriter

(* A published corpus that has been open, or that a live root's marker has  *)
(* named, ever since the sweep began keeps its table and every chunk its    *)
(* table names, through each of the sweep's passes; what a builder          *)
(* publishes anew meanwhile only the grace window of its records covers.    *)
SweepSpares ==
  [][\A s \in since.held \cup since.pinned :
       Intact(s) /\ rowsOf'[s] = rowsOf[s] => s \in tables' /\ Intact(s)']_corpusVars

(* resetUnpublishedCorpusStore runs only where no publication exists.       *)
ResetsUnpublished == [][\A p \in Attachers : ResetStore(p) => ~Published(goal[p])]_corpusVars

(* Every attach returns, and every sweep ends.                              *)
CorpusCallsEnd ==
  /\ \A p \in Attachers : []<>(point[p] = "idle")
  /\ []<>(sweep.step = "idle")
===============================================================================
