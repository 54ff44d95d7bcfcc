----------------------------- MODULE ManagerProofs -----------------------------
(***************************************************************************)
(* Proofs about the session manager and the shared store of the vector      *)
(* index.  For any background jobs and blackboards: a shutdown's join is    *)
(* sound and no persistence worker is left at work unnoticed.  For any      *)
(* number of calls that need one session: there is one copy of it, the one  *)
(* of its row, and a promotion loses none of its files.  For any number of  *)
(* attaches, roots and snapshots: the store's handles are counted exactly,  *)
(* a corpus has one builder, and a sweep spares what is in use.             *)
(***************************************************************************)
EXTENDS ManagerBackground, SessionRegistry, CorpusStore, SequenceTheorems,
        FiniteSetTheorems, TLAPS

Running == {j \in Jobs : jobs[j] = "running"}

(* The types of the tracker, the blackboards and the drains.                *)
BgTypeOK ==
  /\ shut \in BOOLEAN /\ zero \in BOOLEAN
  /\ jobs \in [Jobs -> {"new", "running", "refused", "finished"}]
  /\ tracked \subseteq Boards
  /\ board \in [Boards -> {"none", "made", "live", "told", "exited"}]
  /\ stage \in [Drains -> {"idle", "join", "snapshot", "stop", "done"}]
  /\ holding \in [Drains -> SUBSET Boards]
  /\ awaited \in [Drains -> Boards \cup {NoBoard}]
  /\ expired \in [Drains -> BOOLEAN]

(* The tracker's count is the number of jobs that run.                      *)
Counted == IsFiniteSet(Running) /\ flying = Cardinality(Running)

(* Only a drain that is stopping workers has any in hand.                   *)
HandsEmpty == \A d \in Drains : stage[d] # "stop" => holding[d] = {} /\ awaited[d] = NoBoard

InHand == {b \in Boards : \E d \in Drains : b \in holding[d] \/ b = awaited[d]}

(* Without a deadline that passed, a worker at work is in the list, or in   *)
(* the hands of a drain that waits for it.                                  *)
Found ==
  ~expired["quit"] /\ ~expired["delete"] =>
    \A b \in Boards : board[b] \in {"live", "told"} => b \in tracked \cup InHand

(* The inductive invariant.                                                 *)
BgIInv == BgTypeOK /\ Counted /\ JoinedAll /\ HandsEmpty /\ NoneForgotten /\ Found

-----------------------------------------------------------------------------
(* A job that starts is counted.                                            *)
LEMMA OneMoreRunning ==
  ASSUME BgTypeOK, Counted, NEW j \in Jobs, jobs[j] = "new",
         jobs' = [jobs EXCEPT ![j] = "running"], flying' = flying + 1
  PROVE  Counted'
<1>1. Running' = Running \cup {j} /\ j \notin Running
  BY DEF Running, BgTypeOK
<1> QED BY <1>1, FS_AddElement DEF Counted

(* A job that ends is no longer counted; with the last one the count is     *)
(* zero.                                                                    *)
LEMMA OneLessRunning ==
  ASSUME BgTypeOK, Counted, NEW j \in Jobs, jobs[j] = "running",
         jobs' = [jobs EXCEPT ![j] = "finished"], flying' = flying - 1
  PROVE  Counted' /\ (flying' = 0 => Running' = {})
<1>1. Running' = Running \ {j} /\ j \in Running
  BY DEF Running, BgTypeOK
<1>2. Counted'
  BY <1>1, FS_RemoveElement DEF Counted
<1> QED BY <1>2, FS_EmptySet DEF Counted

(* With nothing counted nothing runs.                                       *)
LEMMA NoneRunning == ASSUME Counted, flying = 0 PROVE Running = {}
  BY FS_EmptySet DEF Counted

(* The empty tracker.                                                       *)
LEMMA BgInitial == BgInit => BgIInv
<1> SUFFICES ASSUME BgInit PROVE BgIInv
  OBVIOUS
<1>1. BgTypeOK
  BY DEF BgInit, BgTypeOK
<1>2. Counted
  <2>1. Running = {}
    BY DEF BgInit, Running
  <2> QED BY <2>1, FS_EmptySet DEF Counted, BgInit
<1> QED BY <1>1, <1>2 DEF BgInit, BgIInv, JoinedAll, HandsEmpty, NoneForgotten, Found

-----------------------------------------------------------------------------
(* A step that leaves the blackboards and the drains alone keeps what is    *)
(* known of them.                                                           *)
LEMMA BoardsLeft ==
  ASSUME BgIInv, UNCHANGED <<boardVars, drainVars>>
  PROVE  HandsEmpty' /\ NoneForgotten' /\ Found'
  BY DEF BgIInv, HandsEmpty, NoneForgotten, Found, InHand, boardVars, drainVars

(* A step that leaves the tracker alone keeps what is known of it.          *)
LEMMA TrackerLeft ==
  ASSUME BgIInv, UNCHANGED trackerVars
  PROVE  Counted' /\ JoinedAll'
  BY DEF BgIInv, Counted, JoinedAll, Running, trackerVars

(* Every step keeps the types.                                              *)
LEMMA BgTypes == BgTypeOK /\ [BgNext]_bgVars => BgTypeOK'
<1> SUFFICES ASSUME BgTypeOK, [BgNext]_bgVars PROVE BgTypeOK'
  OBVIOUS
<1> USE DEF BgTypeOK, trackerVars, boardVars, drainVars, Drains
<1>1. ASSUME NEW j \in Jobs, Spawn(j) \/ Finish(j) PROVE BgTypeOK'
  BY <1>1 DEF Spawn, Finish
<1>2. CASE CloseTracker \/ Joined \/ StartDelete
  BY <1>2 DEF CloseTracker, Joined, StartDelete, At
<1>3. ASSUME NEW b \in Boards, Make(b) \/ TrackBoard(b) \/ TaskEnds(b) \/ WorkerExits(b)
      PROVE  BgTypeOK'
  BY <1>3 DEF Make, TrackBoard, TaskEnds, WorkerExits
<1>4. ASSUME NEW d \in Drains, Deadline(d) \/ TakeSnapshot(d) \/ TellStop(d) \/ Stopped(d) \/ NextPass(d)
      PROVE  BgTypeOK'
  <2>1. CASE Deadline(d)
    BY <2>1 DEF Deadline
  <2>2. CASE TakeSnapshot(d)
    BY <2>2 DEF TakeSnapshot, At
  <2>3. CASE TellStop(d)
    BY <2>3 DEF TellStop
  <2>4. CASE Stopped(d)
    BY <2>4 DEF Stopped
  <2>5. CASE NextPass(d)
    BY <2>5 DEF NextPass, At
  <2> QED BY <1>4, <2>1, <2>2, <2>3, <2>4, <2>5
<1>5. CASE UNCHANGED bgVars
  BY <1>5 DEF bgVars
<1> QED BY <1>1, <1>2, <1>3, <1>4, <1>5 DEF BgNext, DrainStep

(* Every step keeps the invariant.                                          *)
LEMMA BgStep == BgIInv /\ [BgNext]_bgVars => BgIInv'
<1> SUFFICES ASSUME BgIInv, [BgNext]_bgVars PROVE BgIInv'
  OBVIOUS
<1>1. BgTypeOK /\ BgTypeOK'
  BY BgTypes DEF BgIInv
<1> USE <1>1
<1>2. ASSUME NEW j \in Jobs, Spawn(j)
      PROVE  BgIInv'
  <2>1. HandsEmpty' /\ NoneForgotten' /\ Found'
    BY <1>2, BoardsLeft DEF Spawn
  <2>2. CASE shut
    <3>1. Running' = Running
      BY <1>2, <2>2 DEF Spawn, Running, BgTypeOK
    <3>2. Counted'
      BY <1>2, <2>2, <3>1 DEF Spawn, Counted, BgIInv
    <3>3. JoinedAll'
      BY <1>2, <2>2 DEF Spawn, JoinedAll, BgIInv, BgTypeOK
    <3> QED BY <2>1, <3>2, <3>3 DEF BgIInv
  <2>3. CASE ~shut
    <3>1. Counted'
      BY <1>2, <2>3, OneMoreRunning DEF Spawn, BgIInv
    <3>2. JoinedAll'
      BY <1>2, <2>3 DEF Spawn, JoinedAll, BgIInv
    <3> QED BY <2>1, <3>1, <3>2 DEF BgIInv
  <2> QED BY <2>2, <2>3
<1>3. ASSUME NEW j \in Jobs, Finish(j)
      PROVE  BgIInv'
  <2>1. HandsEmpty' /\ NoneForgotten' /\ Found'
    BY <1>3, BoardsLeft DEF Finish
  <2>2. Counted' /\ (flying' = 0 => Running' = {})
    BY <1>3, OneLessRunning DEF Finish, BgIInv
  <2>3. JoinedAll'
    BY <1>3, <2>2 DEF Finish, JoinedAll, BgIInv, BgTypeOK, Running
  <2> QED BY <2>1, <2>2, <2>3 DEF BgIInv
<1>4. CASE CloseTracker
  <2>1. Counted'
    BY <1>4 DEF CloseTracker, Counted, Running, BgIInv
  <2>2. JoinedAll'
    BY <1>4, NoneRunning DEF CloseTracker, JoinedAll, BgIInv, Running
  <2>3. HandsEmpty' /\ NoneForgotten' /\ Found'
    BY <1>4 DEF CloseTracker, At, HandsEmpty, NoneForgotten, Found, InHand, BgIInv, BgTypeOK, Drains, boardVars
  <2> QED BY <2>1, <2>2, <2>3 DEF BgIInv
<1>5. CASE Joined \/ StartDelete
  <2>1. Counted' /\ JoinedAll'
    BY <1>5, TrackerLeft DEF Joined, StartDelete
  <2>2. HandsEmpty' /\ NoneForgotten' /\ Found'
    BY <1>5 DEF Joined, StartDelete, At, HandsEmpty, NoneForgotten, Found, InHand, BgIInv, BgTypeOK, Drains, boardVars
  <2> QED BY <2>1, <2>2 DEF BgIInv
<1>6. ASSUME NEW b \in Boards, Make(b) \/ TrackBoard(b) \/ TaskEnds(b) \/ WorkerExits(b)
      PROVE  BgIInv'
  <2>1. Counted' /\ JoinedAll'
    BY <1>6, TrackerLeft DEF Make, TrackBoard, TaskEnds, WorkerExits
  <2>2. HandsEmpty'
    BY <1>6 DEF Make, TrackBoard, TaskEnds, WorkerExits, HandsEmpty, BgIInv, drainVars
  <2>3. NoneForgotten' /\ Found'
    BY <1>6 DEF Make, TrackBoard, TaskEnds, WorkerExits, NoneForgotten, Found, InHand, BgIInv, BgTypeOK, drainVars
  <2> QED BY <2>1, <2>2, <2>3 DEF BgIInv
<1>7. ASSUME NEW d \in Drains, Deadline(d)
      PROVE  BgIInv'
  <2>1. Counted' /\ JoinedAll'
    BY <1>7, TrackerLeft DEF Deadline
  <2>2. HandsEmpty' /\ NoneForgotten' /\ Found'
    BY <1>7 DEF Deadline, HandsEmpty, NoneForgotten, Found, InHand, BgIInv, BgTypeOK, Drains, boardVars
  <2> QED BY <2>1, <2>2 DEF BgIInv
<1>8. ASSUME NEW d \in Drains, TakeSnapshot(d)
      PROVE  BgIInv'
  <2>1. Counted' /\ JoinedAll'
    BY <1>8, TrackerLeft DEF TakeSnapshot
  <2>2. HandsEmpty'
    BY <1>8 DEF TakeSnapshot, At, HandsEmpty, BgIInv, BgTypeOK
  <2>3. holding[d] = {} /\ awaited[d] = NoBoard
    BY <1>8 DEF TakeSnapshot, BgIInv, HandsEmpty
  <2>4. \A b \in tracked : board[b] # "exited" => b \in tracked' \/ (b \in holding'[d] /\ stage'[d] = "stop")
    BY <1>8 DEF TakeSnapshot, At, BgTypeOK
  <2>5. \A e \in Drains : e # d => holding'[e] = holding[e] /\ stage'[e] = stage[e]
    BY <1>8 DEF TakeSnapshot, At, BgTypeOK
  <2>6. NoneForgotten'
    BY <1>8, <2>3, <2>4, <2>5 DEF TakeSnapshot, NoneForgotten, BgIInv
  <2>7. Found'
    BY <1>8, <2>3, <2>4, <2>5 DEF TakeSnapshot, Found, InHand, BgIInv
  <2> QED BY <2>1, <2>2, <2>6, <2>7 DEF BgIInv
<1>9. ASSUME NEW d \in Drains, TellStop(d)
      PROVE  BgIInv'
  <2>1. Counted' /\ JoinedAll'
    BY <1>9, TrackerLeft DEF TellStop
  <2>2. HandsEmpty'
    BY <1>9 DEF TellStop, HandsEmpty, BgIInv, BgTypeOK
  <2>3. PICK b \in holding[d] :
          /\ board' = [board EXCEPT ![b] = IF @ = "live" THEN "told" ELSE @]
          /\ holding' = [holding EXCEPT ![d] = @ \ {b}]
          /\ awaited' = [awaited EXCEPT ![d] = b]
    BY <1>9 DEF TellStop
  <2>4. NoneForgotten'
    BY <1>9, <2>3 DEF TellStop, NoneForgotten, BgIInv, BgTypeOK
  <2>5. InHand \subseteq InHand'
    BY <1>9, <2>3, BoardsAssumption DEF TellStop, InHand, BgTypeOK
  <2>6. \A c \in Boards : board'[c] \in {"live", "told"} => board[c] \in {"live", "told"}
    BY <2>3 DEF BgTypeOK
  <2>7. Found'
    BY <1>9, <2>5, <2>6 DEF TellStop, Found, BgIInv
  <2> QED BY <2>1, <2>2, <2>4, <2>7 DEF BgIInv
<1>10. ASSUME NEW d \in Drains, Stopped(d)
       PROVE  BgIInv'
  <2>1. Counted' /\ JoinedAll'
    BY <1>10, TrackerLeft DEF Stopped
  <2>2. HandsEmpty' /\ NoneForgotten'
    BY <1>10 DEF Stopped, HandsEmpty, NoneForgotten, BgIInv, BgTypeOK, boardVars
  <2>3. Found'
    BY <1>10 DEF Stopped, Found, InHand, BgIInv, BgTypeOK, boardVars, Drains
  <2> QED BY <2>1, <2>2, <2>3 DEF BgIInv
<1>11. ASSUME NEW d \in Drains, NextPass(d)
       PROVE  BgIInv'
  <2>1. Counted' /\ JoinedAll'
    BY <1>11, TrackerLeft DEF NextPass
  <2>2. HandsEmpty' /\ NoneForgotten' /\ Found'
    BY <1>11 DEF NextPass, At, HandsEmpty, NoneForgotten, Found, InHand, BgIInv, BgTypeOK, boardVars
  <2> QED BY <2>1, <2>2 DEF BgIInv
<1>12. CASE UNCHANGED bgVars
  <2>1. Counted' /\ JoinedAll'
    BY <1>12, TrackerLeft DEF bgVars, trackerVars
  <2>2. HandsEmpty' /\ NoneForgotten' /\ Found'
    BY <1>12, BoardsLeft DEF bgVars, boardVars, drainVars
  <2> QED BY <2>1, <2>2 DEF BgIInv
<1> QED
  BY <1>2, <1>3, <1>4, <1>5, <1>6, <1>7, <1>8, <1>9, <1>10, <1>11, <1>12 DEF BgNext, DrainStep

(* The invariant gives the property.                                        *)
LEMMA BgImplies == BgIInv => Drained
<1> SUFFICES ASSUME BgIInv PROVE DrainComplete
  BY DEF BgIInv, Drained
<1> QED BY BoardsAssumption DEF BgIInv, DrainComplete, Found, InHand, HandsEmpty, BgTypeOK, Drains

(* Shutdown's join of the background goroutines can be trusted, no          *)
(* persistence worker is forgotten by the drains of a shutdown and a        *)
(* concurrent delete, and a shutdown that met no deadline has waited for    *)
(* all it could know of.                                                    *)
THEOREM DrainedHolds == BgSpec => []Drained
  BY BgInitial, BgStep, BgImplies, PTL DEF BgSpec

-----------------------------------------------------------------------------
(* The registry of sessions                                                 *)

Moving == {"move", "lift", "moveBack", "commit", "undo", "undoDir"}
Promoting == Moving \cup {"evict", "reserve", "gate"}
Labels == Promoting \cup
  {"idle", "done", "load", "mkdir", "share", "parked", "build", "insert", "finish", "release",
   "capture", "remove", "clear", "clearLast", "drop", "dropFirst", "drain", "close"}

(* The types of the registry, ...                                           *)
MapTypes ==
  /\ memory \in [project : {"none", "chat", "code", "gone"}, build : Nat]
  /\ flight \in Openers \cup {NoCall} /\ parked \in BOOLEAN /\ quitting \in BOOLEAN
  /\ builds \in Nat /\ handles \subseteq 1 .. builds /\ crossed \in BOOLEAN

(* ... of the session's row and directories, ...                            *)
DiskTypes ==
  /\ row \in {"chat", "code", "gone"}
  /\ chatDir \in {"absent", "made", "files"} /\ codeDir \in {"absent", "made", "files"}
  /\ lifted \in BOOLEAN /\ project \in BOOLEAN

(* ... and of the calls.                                                    *)
CallTypes ==
  /\ place \in [Calls -> Labels]
  /\ held \in [Calls -> [project : {"none", "chat", "code", "gone"}, build : Nat]]

RegistryTypeOK == MapTypes /\ DiskTypes /\ CallTypes

(* The call that builds is the one in flight, and finds no session when it  *)
(* inserts its own.                                                         *)
OneBuilder ==
  /\ \A o \in Openers : place[o] \in {"build", "insert", "finish"} => flight = o
  /\ \A o \in Openers : place[o] \in {"build", "insert"} => memory = None

(* What it builds is what the row describes.                                *)
BuildsRow == ~crossed => \A o \in Openers : place[o] \in {"build", "insert"} => held[o].project = row

(* A shutdown that has begun shows.                                         *)
QuitShows == place["quit"] # "idle" => quitting

(* While a promotion moves the files no call builds the session, and none   *)
(* has it in memory.                                                        *)
MovesAlone ==
  place["promote"] \in Moving => parked /\ flight = NoCall /\ (~crossed => memory = None)

(* The project of a promotion that is not over is there, and only a         *)
(* promotion that failed to move, or moved back, drops it.                  *)
ProjectKept ==
  /\ place["promote"] \in Promoting => project
  /\ place["delete"] = "idle" => FilesKept

(* The inductive invariant of the registry.                                 *)
RegistryIInv ==
  /\ RegistryTypeOK /\ OneBuilder /\ BuildsRow /\ QuitShows /\ MovesAlone
  /\ NoGhostAfterQuit /\ MemoryMatchesRow /\ HandlesOwned

-----------------------------------------------------------------------------
(* The session as a chat, in nobody's hands.                                *)
LEMMA RegistryInitial == RegistryInit => RegistryIInv /\ ProjectKept
<1> SUFFICES ASSUME RegistryInit PROVE RegistryIInv /\ ProjectKept
  OBVIOUS
<1>1. RegistryTypeOK
  BY DEF RegistryInit, RegistryTypeOK, MapTypes, DiskTypes, CallTypes, None, Labels, Promoting, Moving
<1>2. HandlesOwned /\ MovesAlone
  BY DEF RegistryInit, HandlesOwned, MovesAlone, Moving, Calls
<1> QED BY <1>1, <1>2
        DEF RegistryInit, RegistryIInv, OneBuilder, BuildsRow, QuitShows, ProjectKept, Moving, Promoting,
            NoGhostAfterQuit, MemoryMatchesRow, FilesKept, Calls

(* Every step keeps the types.                                              *)
LEMMA RegistryTypes == RegistryTypeOK /\ [RegistryNext]_registryVars => RegistryTypeOK'
<1> SUFFICES ASSUME MapTypes, DiskTypes, CallTypes, [RegistryNext]_registryVars
             PROVE  MapTypes' /\ DiskTypes' /\ CallTypes'
  BY DEF RegistryTypeOK
<1> USE DEF mapVars, diskVars, registryPastVars, MoveTo, Hold, Ensure, None
<1>1. ASSUME NEW o \in Openers, Lookup(o) \/ Load(o) \/ MakeWorkspace(o) PROVE MapTypes' /\ DiskTypes' /\ CallTypes'
  <2>1. MapTypes'
    BY <1>1 DEF Lookup, Load, MakeWorkspace, MapTypes, CallTypes, Calls
  <2>2. DiskTypes'
    BY <1>1 DEF Lookup, Load, MakeWorkspace, DiskTypes
  <2>3. CallTypes'
    BY <1>1 DEF Lookup, Load, MakeWorkspace, MapTypes, DiskTypes, CallTypes, Calls, Labels, Promoting, Moving
  <2> QED BY <2>1, <2>2, <2>3
<1>2. ASSUME NEW o \in Openers, Reserve(o) \/ Unparked(o) \/ Shared(o) \/ FinishRestore(o) PROVE MapTypes' /\ DiskTypes' /\ CallTypes'
  <2>1. MapTypes'
    BY <1>2 DEF Reserve, Unparked, Shared, FinishRestore, MapTypes, CallTypes, Calls
  <2>2. DiskTypes'
    BY <1>2 DEF Reserve, Unparked, Shared, FinishRestore, DiskTypes
  <2>3. CallTypes'
    BY <1>2 DEF Reserve, Unparked, Shared, FinishRestore, MapTypes, DiskTypes, CallTypes, Calls, Labels, Promoting, Moving
  <2> QED BY <2>1, <2>2, <2>3
<1>3. ASSUME NEW o \in Openers, Build(o) PROVE MapTypes' /\ DiskTypes' /\ CallTypes'
  <2>1. MapTypes'
    <3>1. \/ builds' = builds + 1 /\ handles' = handles \cup {builds + 1}
          \/ UNCHANGED <<builds, handles>>
      BY <1>3 DEF Build
    <3>2. 1 .. builds \subseteq 1 .. builds + 1 /\ builds + 1 \in 1 .. builds + 1
      BY DEF MapTypes
    <3>3. builds' \in Nat /\ handles' \subseteq 1 .. builds'
      <4>1. CASE builds' = builds + 1 /\ handles' = handles \cup {builds + 1}
        <5>1. handles \cup {builds + 1} \subseteq 1 .. builds + 1
          BY <3>2 DEF MapTypes
        <5> QED BY <4>1, <5>1 DEF MapTypes
      <4> QED BY <3>1, <4>1 DEF MapTypes
    <3> QED BY <1>3, <3>3 DEF Build, MapTypes
  <2>2. DiskTypes'
    BY <1>3 DEF Build, DiskTypes
  <2>3. CallTypes'
    BY <1>3 DEF Build, MapTypes, DiskTypes, CallTypes, Calls, Labels, Promoting, Moving
  <2> QED BY <2>1, <2>2, <2>3
<1>4. ASSUME NEW o \in Openers, Insert(o) PROVE MapTypes' /\ DiskTypes' /\ CallTypes'
  <2>1. MapTypes'
    BY ZenonT(30), <1>4 DEF Insert, MapTypes, CallTypes, Calls
  <2>2. DiskTypes'
    BY <1>4 DEF Insert, DiskTypes
  <2>3. CallTypes'
    BY <1>4 DEF Insert, MapTypes, DiskTypes, CallTypes, Calls, Labels, Promoting, Moving
  <2> QED BY <2>1, <2>2, <2>3
<1>5. CASE Promote \/ Evict \/ ReserveRestores \/ MoveDir
  <2>1. MapTypes'
    <3>1. CASE Evict
      <4>1. handles' \subseteq handles /\ memory' \in {memory, None}
        BY <3>1 DEF Evict
      <4> QED BY <3>1, <4>1 DEF Evict, MapTypes
    <3>2. CASE Promote \/ ReserveRestores \/ MoveDir
      BY <3>2 DEF Promote, ReserveRestores, MoveDir, MapTypes
    <3> QED BY <1>5, <3>1, <3>2
  <2>2. DiskTypes'
    BY <1>5 DEF Promote, Evict, ReserveRestores, MoveDir, DiskTypes
  <2>3. CallTypes'
    BY <1>5 DEF Promote, Evict, ReserveRestores, MoveDir, MapTypes, DiskTypes, CallTypes, Calls, Labels, Promoting, Moving
  <2> QED BY <2>1, <2>2, <2>3
<1>6. CASE LiftWorkspace \/ MoveBack \/ Commit
  <2>1. MapTypes'
    BY <1>6 DEF LiftWorkspace, MoveBack, Commit, MapTypes, CallTypes, Calls
  <2>2. DiskTypes'
    BY <1>6 DEF LiftWorkspace, MoveBack, Commit, DiskTypes
  <2>3. CallTypes'
    BY <1>6 DEF LiftWorkspace, MoveBack, Commit, MapTypes, DiskTypes, CallTypes, Calls, Labels, Promoting, Moving
  <2> QED BY <2>1, <2>2, <2>3
<1>7. CASE Undo \/ UndoDir \/ Gate \/ Release
  <2>1. MapTypes'
    BY <1>7 DEF Undo, UndoDir, Gate, Release, MapTypes, CallTypes, Calls
  <2>2. DiskTypes'
    BY <1>7 DEF Undo, UndoDir, Gate, Release, DiskTypes
  <2>3. CallTypes'
    BY <1>7 DEF Undo, UndoDir, Gate, Release, MapTypes, DiskTypes, CallTypes, Calls, Labels, Promoting, Moving
  <2> QED BY <2>1, <2>2, <2>3
<1>8. CASE Delete \/ DeleteCapture
  <2>1. MapTypes'
    BY <1>8 DEF Delete, DeleteCapture, MapTypes, CallTypes, Calls
  <2>2. DiskTypes'
    BY <1>8 DEF Delete, DeleteCapture, DiskTypes
  <2>3. CallTypes'
    BY <1>8 DEF Delete, DeleteCapture, MapTypes, DiskTypes, CallTypes, Calls, Labels, Promoting, Moving
  <2> QED BY <2>1, <2>2, <2>3
<1>9. CASE DeleteRemove
  <2>1. MapTypes'
    BY <1>9 DEF DeleteRemove, MapTypes, CallTypes, Calls
  <2>2. DiskTypes'
    BY <1>9 DEF DeleteRemove, DiskTypes
  <2>3. CallTypes'
    BY <1>9 DEF DeleteRemove, MapTypes, DiskTypes, CallTypes, Calls, Labels, Promoting, Moving
  <2> QED BY <2>1, <2>2, <2>3
<1>10. CASE ClearDir \/ DropRow
  <2>1. MapTypes'
    BY <1>10 DEF ClearDir, DropRow, MapTypes, CallTypes, Calls
  <2>2. DiskTypes'
    BY <1>10 DEF ClearDir, DropRow, DiskTypes
  <2>3. CallTypes'
    BY <1>10 DEF ClearDir, DropRow, MapTypes, DiskTypes, CallTypes, Calls, Labels, Promoting, Moving
  <2> QED BY <2>1, <2>2, <2>3
<1>11. CASE ShutdownCall \/ ShutdownDrain
  <2>1. MapTypes'
    <3>1. CASE ShutdownCall
      BY <3>1 DEF ShutdownCall, MapTypes
    <3>2. CASE ShutdownDrain
      BY <3>2 DEF ShutdownDrain, MapTypes
    <3> QED BY <1>11, <3>1, <3>2
  <2>2. DiskTypes'
    BY <1>11 DEF ShutdownCall, ShutdownDrain, DiskTypes
  <2>3. CallTypes'
    BY <1>11 DEF ShutdownCall, ShutdownDrain, MapTypes, DiskTypes, CallTypes, Calls, Labels, Promoting, Moving
  <2> QED BY <2>1, <2>2, <2>3
<1>12. CASE ShutdownClose
  <2>1. MapTypes'
    BY <1>12 DEF ShutdownClose, MapTypes, CallTypes, Calls
  <2>2. DiskTypes'
    BY <1>12 DEF ShutdownClose, DiskTypes
  <2>3. CallTypes'
    BY <1>12 DEF ShutdownClose, MapTypes, DiskTypes, CallTypes, Calls, Labels, Promoting, Moving
  <2> QED BY <2>1, <2>2, <2>3
<1>13. CASE UNCHANGED registryVars
  BY <1>13 DEF registryVars, MapTypes, DiskTypes, CallTypes
<1> QED BY <1>1, <1>2, <1>3, <1>4, <1>5, <1>6, <1>7, <1>8, <1>9, <1>10, <1>11, <1>12, <1>13
        DEF RegistryNext, OpenStep, PromoteStep, DeleteStep, ShutdownStep

(* A call that moves within its restore, without building or inserting, and *)
(* leaves the rest alone.                                                   *)
LEMMA Outside ==
  ASSUME RegistryIInv, NEW o \in Openers, NEW l \in {"load", "mkdir", "reserve", "share", "parked", "done"},
         MoveTo(o, l), RegistryTypeOK',
         UNCHANGED <<mapVars, row, handles, registryPastVars>>,
         \A c \in Calls : place[c] \in {"build", "insert", "finish", "remove", "close"} => held'[c] = held[c],
         place[o] \notin {"build", "insert"}
  PROVE  RegistryIInv'
<1> USE DEF RegistryIInv, RegistryTypeOK, MapTypes, DiskTypes, CallTypes, mapVars, registryPastVars, MoveTo, Calls, None
<1>1. /\ \A c \in Calls : c # o => place'[c] = place[c]
      /\ place'[o] = l
      /\ o \notin {"promote", "delete", "quit"}
  BY OpenersAssumption
<1>2. OneBuilder' /\ BuildsRow'
  BY <1>1 DEF OneBuilder, BuildsRow
<1>3. QuitShows' /\ MovesAlone' /\ NoGhostAfterQuit' /\ MemoryMatchesRow'
  BY <1>1 DEF QuitShows, MovesAlone, NoGhostAfterQuit, MemoryMatchesRow
<1>4. HandlesOwned'
  BY <1>1 DEF HandlesOwned
<1> QED BY <1>2, <1>3, <1>4

(* A restore's steps keep the invariant.                                    *)
LEMMA OpenKeeps ==
  ASSUME RegistryIInv, NEW o \in Openers, Lookup(o) \/ OpenStep(o), RegistryTypeOK'
  PROVE  RegistryIInv'
<1> USE DEF RegistryIInv, RegistryTypeOK, MapTypes, DiskTypes, CallTypes, mapVars, registryPastVars, MoveTo, Calls, None
<1>1. o \notin {NoCall, "promote", "delete", "quit"}
  BY OpenersAssumption
<1>2. CASE Lookup(o) \/ Load(o) \/ MakeWorkspace(o) \/ Unparked(o) \/ Shared(o)
  BY <1>2, Outside DEF Lookup, Load, MakeWorkspace, Unparked, Shared, Hold
<1>3. CASE Reserve(o)
  <2>1. \A c \in Calls : c # o => place'[c] = place[c] /\ held'[c] = held[c]
    BY <1>3 DEF Reserve, Hold
  <2>2. OneBuilder' /\ BuildsRow'
    <3>1. UNCHANGED <<memory, row, held>>
      BY <1>3 DEF Reserve
    <3>2. CASE place'[o] = "build"
      <4>1. memory = None /\ flight = NoCall /\ flight' = o /\ (~crossed' => ~crossed /\ held[o].project = row)
        BY <1>3, <3>2 DEF Reserve
      <4> QED BY <2>1, <3>1, <4>1, OpenersAssumption DEF OneBuilder, BuildsRow
    <3>3. CASE place'[o] # "build"
      <4>1. flight' = flight /\ (crossed => crossed') /\ place'[o] \notin {"build", "insert", "finish"}
        BY <1>3, <3>3 DEF Reserve
      <4> QED BY <2>1, <3>1, <4>1 DEF OneBuilder, BuildsRow
    <3> QED BY <3>2, <3>3
  <2>3. QuitShows' /\ NoGhostAfterQuit'
    BY <1>1, <1>3, <2>1 DEF Reserve, QuitShows, NoGhostAfterQuit
  <2>4. MovesAlone' /\ MemoryMatchesRow'
    BY <1>1, <1>3, <2>1 DEF Reserve, MovesAlone, MemoryMatchesRow, OneBuilder, BuildsRow, Moving
  <2>5. HandlesOwned'
    BY <1>1, <1>3, <2>1 DEF Reserve, Hold, HandlesOwned, OneBuilder
  <2> QED BY <2>2, <2>3, <2>4, <2>5
<1>4. CASE Build(o)
  <2>1. \A c \in Calls : c # o => place'[c] = place[c] /\ held'[c] = held[c]
    BY <1>4 DEF Build, Hold
  <2>2. OneBuilder' /\ BuildsRow'
    BY <1>1, <1>4, <2>1 DEF Build, Hold, OneBuilder, BuildsRow
  <2>3. QuitShows' /\ NoGhostAfterQuit'
    BY <1>1, <1>4, <2>1 DEF Build, QuitShows, NoGhostAfterQuit
  <2>4. MovesAlone' /\ MemoryMatchesRow'
    BY <1>1, <1>4, <2>1 DEF Build, MovesAlone, MemoryMatchesRow, OneBuilder, BuildsRow, Moving
  <2>5. HandlesOwned'
    BY <1>1, <1>4, <2>1 DEF Build, Hold, HandlesOwned, OneBuilder
  <2> QED BY <2>2, <2>3, <2>4, <2>5
<1>5. CASE Insert(o)
  <2>1. \A c \in Calls : c # o => place'[c] = place[c] /\ held'[c] = held[c]
    BY <1>5 DEF Insert, Hold
  <2>2. OneBuilder' /\ BuildsRow'
    BY <1>1, <1>5, <2>1 DEF Insert, Hold, OneBuilder, BuildsRow
  <2>3. QuitShows' /\ NoGhostAfterQuit'
    BY <1>1, <1>5, <2>1 DEF Insert, QuitShows, NoGhostAfterQuit
  <2>4. MovesAlone' /\ MemoryMatchesRow'
    BY <1>1, <1>5, <2>1 DEF Insert, MovesAlone, MemoryMatchesRow, OneBuilder, BuildsRow, Moving
  <2>5. HandlesOwned'
    BY <1>1, <1>5, <2>1 DEF Insert, Hold, HandlesOwned, OneBuilder
  <2> QED BY <2>2, <2>3, <2>4, <2>5
<1>6. CASE FinishRestore(o)
  <2>1. \A c \in Calls : c # o => place'[c] = place[c] /\ held'[c] = held[c]
    BY <1>6 DEF FinishRestore, Hold
  <2>2. OneBuilder' /\ BuildsRow'
    BY <1>1, <1>6, <2>1 DEF FinishRestore, Hold, OneBuilder, BuildsRow
  <2>3. QuitShows' /\ NoGhostAfterQuit'
    BY <1>1, <1>6, <2>1 DEF FinishRestore, QuitShows, NoGhostAfterQuit
  <2>4. MovesAlone' /\ MemoryMatchesRow'
    BY <1>1, <1>6, <2>1 DEF FinishRestore, MovesAlone, MemoryMatchesRow, OneBuilder, BuildsRow, Moving
  <2>5. HandlesOwned'
    BY <1>1, <1>6, <2>1 DEF FinishRestore, Hold, HandlesOwned, OneBuilder
  <2> QED BY <2>2, <2>3, <2>4, <2>5
<1> QED BY <1>2, <1>3, <1>4, <1>5, <1>6 DEF OpenStep

(* A promotion's steps keep the invariant.                                  *)
LEMMA PromoteKeeps ==
  ASSUME RegistryIInv, Promote \/ PromoteStep, RegistryTypeOK'
  PROVE  RegistryIInv'
<1> USE DEF RegistryIInv, RegistryTypeOK, MapTypes, DiskTypes, CallTypes, mapVars, registryPastVars, MoveTo, Calls, None
<1>1. \A c \in Calls : c # "promote" => place'[c] = place[c]
  BY DEF Promote, PromoteStep, Evict, ReserveRestores, MoveDir, LiftWorkspace, MoveBack, Commit,
         Undo, UndoDir, Gate, Release
<1>2. UNCHANGED <<flight, quitting, held, builds>>
  BY DEF Promote, PromoteStep, Evict, ReserveRestores, MoveDir, LiftWorkspace, MoveBack, Commit,
         Undo, UndoDir, Gate, Release
<1>3. CASE Evict
  <2>1. HandlesOwned'
    BY <1>1, <1>2, <1>3, OpenersAssumption DEF Evict, HandlesOwned
  <2> QED
    BY <1>1, <1>2, <1>3, <2>1, OpenersAssumption
    DEF Evict, OneBuilder, BuildsRow, QuitShows, MovesAlone, NoGhostAfterQuit, MemoryMatchesRow, Moving
<1>4. CASE ReserveRestores
  <2>1. HandlesOwned'
    BY <1>1, <1>2, <1>4, OpenersAssumption DEF ReserveRestores, HandlesOwned
  <2>2. OneBuilder' /\ BuildsRow'
    BY <1>1, <1>2, <1>4, OpenersAssumption DEF ReserveRestores, OneBuilder, BuildsRow
  <2>3. MovesAlone'
    BY <1>2, <1>4 DEF ReserveRestores, MovesAlone
  <2> QED
    BY <1>1, <1>2, <1>4, <2>1, <2>2, <2>3
    DEF ReserveRestores, QuitShows, NoGhostAfterQuit, MemoryMatchesRow
<1>5. CASE Commit
  <2>1. HandlesOwned'
    BY <1>1, <1>2, <1>5, OpenersAssumption DEF Commit, HandlesOwned
  <2>2. OneBuilder' /\ BuildsRow'
    BY <1>1, <1>2, <1>5, OpenersAssumption DEF Commit, OneBuilder, BuildsRow, MovesAlone, Moving
  <2> QED
    BY <1>1, <1>2, <1>5, <2>1, <2>2
    DEF Commit, QuitShows, MovesAlone, NoGhostAfterQuit, MemoryMatchesRow, Moving
<1>6. CASE Release \/ Promote \/ Gate \/ Undo \/ UndoDir \/ MoveDir \/ LiftWorkspace \/ MoveBack
  <2>1. UNCHANGED <<memory, row, handles, crossed>>
    BY <1>6 DEF Promote, MoveDir, LiftWorkspace, MoveBack, Undo, UndoDir, Gate, Release
  <2>2. MovesAlone'
    BY <1>2, <1>6, <2>1 DEF Promote, MoveDir, LiftWorkspace, MoveBack, Undo, UndoDir, Gate, Release, MovesAlone, Moving
  <2> QED
    BY <1>1, <1>2, <2>1, <2>2, OpenersAssumption
    DEF OneBuilder, BuildsRow, QuitShows, NoGhostAfterQuit, MemoryMatchesRow, HandlesOwned
<1> QED BY <1>3, <1>4, <1>5, <1>6 DEF PromoteStep

(* The steps of a deletion and of a shutdown keep the invariant.            *)
LEMMA EndKeeps ==
  ASSUME RegistryIInv, Delete \/ DeleteStep \/ ShutdownCall \/ ShutdownStep, RegistryTypeOK'
  PROVE  RegistryIInv'
<1> USE DEF RegistryIInv, RegistryTypeOK, MapTypes, DiskTypes, CallTypes, mapVars, registryPastVars, MoveTo, Calls, None
<1>1. \A o \in Openers :
        o \notin {NoCall, "promote", "delete", "quit"} /\ place'[o] = place[o] /\ held'[o] = held[o]
  BY OpenersAssumption
  DEF Delete, DeleteStep, DeleteCapture, DeleteRemove, ClearDir, DropRow, ShutdownCall, ShutdownStep, ShutdownDrain,
      ShutdownClose, Hold
<1>2. UNCHANGED <<flight, parked, builds>> /\ place'["promote"] = place["promote"]
  BY DEF Delete, DeleteStep, DeleteCapture, DeleteRemove, ClearDir, DropRow, ShutdownCall, ShutdownStep, ShutdownDrain,
         ShutdownClose
<1>3. OneBuilder' /\ BuildsRow'
  <2>1. memory' \in {memory, None}
    BY DEF Delete, DeleteStep, DeleteCapture, DeleteRemove, ClearDir, DropRow, ShutdownCall, ShutdownStep,
           ShutdownDrain, ShutdownClose
  <2>2. OneBuilder'
    BY <1>1, <1>2, <2>1 DEF OneBuilder
  <2>3. CASE DropRow
    BY <1>1, <1>2, <2>3 DEF DropRow, OneBuilder, BuildsRow
  <2>4. CASE ~DropRow
    <3>1. row' = row /\ (crossed => crossed')
      BY <2>4 DEF Delete, DeleteStep, DeleteCapture, DeleteRemove, ClearDir, ShutdownCall, ShutdownStep,
                  ShutdownDrain, ShutdownClose
    <3> QED BY <1>1, <2>2, <3>1 DEF BuildsRow
  <2> QED BY <2>2, <2>3, <2>4
<1>4. QuitShows' /\ MovesAlone' /\ NoGhostAfterQuit' /\ MemoryMatchesRow'
  <2> USE <1>2 DEF QuitShows, MovesAlone, NoGhostAfterQuit, MemoryMatchesRow
  <2>1. CASE Delete \/ DeleteCapture
    BY <2>1 DEF Delete, DeleteCapture
  <2>2. CASE DeleteRemove
    BY <2>2 DEF DeleteRemove
  <2>3. CASE ClearDir \/ DropRow
    BY <2>3 DEF ClearDir, DropRow
  <2>4. CASE ShutdownCall
    BY <2>4 DEF ShutdownCall
  <2>5. CASE ShutdownDrain
    BY <2>5 DEF ShutdownDrain
  <2>6. CASE ShutdownClose
    BY <2>6 DEF ShutdownClose
  <2> QED BY <2>1, <2>2, <2>3, <2>4, <2>5, <2>6 DEF DeleteStep, ShutdownStep
<1>5. HandlesOwned'
  <2>1. CASE Delete \/ DeleteCapture
    BY <1>1, <2>1 DEF Delete, DeleteCapture, Hold, HandlesOwned
  <2>2. CASE DeleteRemove
    <3>1. place'["quit"] = place["quit"] /\ handles' = handles \ {held["delete"].build} /\ held' = held
      BY <2>2 DEF DeleteRemove
    <3>2. ~crossed' => ~crossed /\ memory = held["delete"]
      BY <2>2 DEF DeleteRemove
    <3> QED BY <1>1, <3>1, <3>2 DEF HandlesOwned
  <2>3. CASE ClearDir \/ DropRow \/ ShutdownCall
    BY <1>1, <2>3 DEF ClearDir, DropRow, ShutdownCall, HandlesOwned
  <2>4. CASE ShutdownDrain
    BY <1>1, <2>4 DEF ShutdownDrain, HandlesOwned
  <2>5. CASE ShutdownClose
    BY <1>1, <2>5 DEF ShutdownClose, HandlesOwned
  <2> QED BY <2>1, <2>2, <2>3, <2>4, <2>5 DEF DeleteStep, ShutdownStep
<1> QED BY <1>3, <1>4, <1>5

(* Every step keeps the invariant of the registry.                          *)
LEMMA RegistryKeeps == RegistryIInv /\ [RegistryNext]_registryVars => RegistryIInv'
<1> SUFFICES ASSUME RegistryIInv, [RegistryNext]_registryVars PROVE RegistryIInv'
  OBVIOUS
<1>1. RegistryTypeOK'
  BY RegistryTypes DEF RegistryIInv
<1>2. CASE UNCHANGED registryVars
  BY <1>1, <1>2
  DEF registryVars, RegistryIInv, OneBuilder, BuildsRow, QuitShows, MovesAlone, NoGhostAfterQuit, MemoryMatchesRow,
      HandlesOwned
<1> QED BY <1>1, <1>2, OpenKeeps, PromoteKeeps, EndKeeps DEF RegistryNext

(* The invariant gives the property: a set of builders is one builder's.    *)
LEMMA RegistryImplies == RegistryIInv => OneCopy
<1> SUFFICES ASSUME RegistryIInv PROVE OneCopy
  OBVIOUS
<1> DEFINE Builders == {o \in Openers : place[o] \in {"build", "insert"}}
<1>1. Builders \subseteq {flight}
  BY DEF RegistryIInv, OneBuilder
<1>2. IsFiniteSet({flight}) /\ Cardinality({flight}) = 1
  BY FS_Singleton
<1>3. Cardinality(Builders) <= 1
  BY <1>1, <1>2, FS_Subset
<1> QED BY <1>3 DEF RegistryIInv, OneBuilder, OneCopy, SingleFlight

(* There is one copy of the session in memory, the one its row describes,   *)
(* no restore brings it back after a shutdown, and its files are closed     *)
(* with it, for any number of calls that need the session.                  *)
THEOREM OneCopyHolds == RegistrySpec => []OneCopy
<1>1. RegistryInit => RegistryIInv
  BY RegistryInitial
<1> QED BY <1>1, RegistryKeeps, RegistryImplies, PTL DEF RegistrySpec

-----------------------------------------------------------------------------
(* Until the session is deleted, every step keeps its files, and a project  *)
(* that may have them.                                                      *)
LEMMA ProjectStep ==
  RegistryTypeOK /\ ProjectKept /\ [RegistryNext]_registryVars => ProjectKept'
<1> SUFFICES ASSUME RegistryTypeOK, ProjectKept, [RegistryNext]_registryVars PROVE ProjectKept'
  OBVIOUS
<1> USE DEF RegistryTypeOK, MapTypes, DiskTypes, CallTypes, ProjectKept, FilesKept, mapVars, diskVars, registryPastVars, MoveTo, Calls
<1>1. ASSUME NEW o \in Openers, Lookup(o) \/ OpenStep(o) PROVE ProjectKept'
  <2>1. UNCHANGED <<lifted, project>> /\ place'["promote"] = place["promote"] /\ place'["delete"] = place["delete"]
    BY <1>1, OpenersAssumption
    DEF Lookup, OpenStep, Load, MakeWorkspace, Reserve, Unparked, Shared, Build, Insert, FinishRestore
  <2>2. (chatDir' = "files" <=> chatDir = "files") /\ (codeDir' = "files" <=> codeDir = "files")
    BY <1>1
    DEF Lookup, OpenStep, Load, MakeWorkspace, Reserve, Unparked, Shared, Build, Insert, FinishRestore, Ensure
  <2> QED BY <2>1, <2>2
<1>2. CASE Promote \/ PromoteStep
  BY <1>2
  DEF Promote, PromoteStep, Evict, ReserveRestores, MoveDir, LiftWorkspace, MoveBack, Commit, Undo, UndoDir, Gate,
      Release, Moving, Promoting
<1>3. CASE Delete \/ DeleteStep
  BY <1>3 DEF Delete, DeleteStep, DeleteCapture, DeleteRemove, ClearDir, DropRow
<1>4. CASE ShutdownCall \/ ShutdownStep
  BY <1>4 DEF ShutdownCall, ShutdownStep, ShutdownDrain, ShutdownClose
<1>5. CASE UNCHANGED registryVars
  BY <1>5 DEF registryVars
<1> QED BY <1>1, <1>2, <1>3, <1>4, <1>5 DEF RegistryNext

(* Whatever step of a promotion fails, the session's files are in one place *)
(* and the project that has them is kept; a promotion that failed without a *)
(* trace leaves them with the chat.                                         *)
THEOREM PromotionAtomicHolds == RegistrySpec => []PromotionAtomic
<1>1. RegistryInit => RegistryTypeOK /\ ProjectKept
  BY RegistryInitial DEF RegistryIInv
<1>2. RegistryTypeOK /\ ProjectKept => PromotionAtomic
  BY DEF RegistryTypeOK, MapTypes, DiskTypes, CallTypes, ProjectKept, PromotionAtomic, FilesKept, Compensated
<1> QED BY <1>1, <1>2, RegistryTypes, ProjectStep, PTL DEF RegistrySpec

-----------------------------------------------------------------------------
(* The shared store of the vector index                                     *)

(* The steps of an attach.                                                  *)
Stages == {"idle", "pin", "ensure", "lease", "wait", "woken", "reset", "build", "index",
           "indexing", "publish", "publishing", "stamping", "close_ok", "close_bad",
           "settle_ok", "settle_bad", "attach", "open", "overlay", "bind"}
Handles == [cached : SUBSET Snaps, refs : [Snaps -> Nat], lru : Seq(Snaps)]

(* The types of the store's handles, leases, views and attaches; an attach  *)
(* that is under way has its snapshot.                                      *)
CorpusTypes ==
  /\ pool \in Handles /\ leases \subseteq Snaps
  /\ view \in [Trees -> Snaps \cup {NoSnap}]
  /\ point \in [Attachers -> Stages]
  /\ goal \in [Attachers -> Snaps \cup {NoSnap}]
  /\ \A p \in Attachers : point[p] # "idle" => goal[p] \in Snaps

(* LruExact, of any state of the handles.                                   *)
Resident(h) ==
  /\ ToSet(h.lru) = {s \in h.cached : h.refs[s] = 0}
  /\ IsInjective(h.lru) /\ Len(h.lru) <= Retained
  /\ \A s \in Snaps : h.refs[s] > 0 => s \in h.cached

(* The snapshot whose handle an attach carries, the snapshot that it        *)
(* builds, and how many of a set a function sends to a snapshot.            *)
Carries(p) == point[p] \in {"overlay", "bind"}
Carried == [p \in Attachers |-> IF Carries(p) THEN goal[p] ELSE NoSnap]
Built == [p \in Attachers |-> IF Building(p) THEN goal[p] ELSE NoSnap]
Count(S, f, s) == Cardinality({x \in S : f[x] = s})

SharedInv == CorpusTypes /\ CorpusShared

-----------------------------------------------------------------------------
(* The list of the retained handles                                         *)

(* What is appended to a list joins its elements; a new element leaves it   *)
(* without repetitions.                                                     *)
LEMMA AppendedList ==
  ASSUME NEW q \in Seq(Snaps), NEW s \in Snaps, s \notin ToSet(q), IsInjective(q)
  PROVE  /\ Append(q, s) \in Seq(Snaps) /\ Len(Append(q, s)) = Len(q) + 1
         /\ ToSet(Append(q, s)) = ToSet(q) \cup {s} /\ IsInjective(Append(q, s))
<1> DEFINE n == Len(q)
<1>1. /\ Append(q, s) \in Seq(Snaps) /\ Len(Append(q, s)) = n + 1 /\ n \in Nat
      /\ DOMAIN Append(q, s) = 1..(n + 1) /\ DOMAIN q = 1..n
      /\ \A i \in 1..n : Append(q, s)[i] = q[i]
      /\ Append(q, s)[n + 1] = s
  OBVIOUS
<1>2. ToSet(Append(q, s)) = ToSet(q) \cup {s}
  BY <1>1 DEF ToSet
<1>3. IsInjective(Append(q, s))
  BY <1>1 DEF ToSet, IsInjective
<1> QED BY <1>1, <1>2, <1>3

(* The end of a list without repetitions has none, and only elements of     *)
(* the list.                                                                *)
LEMMA ListEnd ==
  ASSUME NEW q \in Seq(Snaps), NEW k \in 1..(Len(q) + 1), IsInjective(q)
  PROVE  LET e == SubSeq(q, k, Len(q))
         IN  /\ e \in Seq(Snaps) /\ Len(e) = Len(q) - k + 1
             /\ ToSet(e) \subseteq ToSet(q) /\ IsInjective(e)
<1> DEFINE e == SubSeq(q, k, Len(q))
<1>1. /\ e \in Seq(Snaps) /\ Len(e) = Len(q) - k + 1 /\ DOMAIN q = 1..Len(q) /\ Len(q) \in Nat
      /\ DOMAIN e = 1..(Len(q) - k + 1)
      /\ \A i \in DOMAIN e : e[i] = q[k + i - 1] /\ k + i - 1 \in DOMAIN q
  OBVIOUS
<1>2. ToSet(e) \subseteq ToSet(q)
  BY <1>1 DEF ToSet
<1>3. IsInjective(e)
  BY <1>1 DEF IsInjective
<1> QED BY <1>1, <1>2, <1>3

(* A key that leaves the list is gone from it; the others stay.             *)
LEMMA DetachedList ==
  ASSUME NEW q \in Seq(Snaps), NEW s \in Snaps, IsInjective(q)
  PROVE  /\ Detached(q, s) \in Seq(Snaps) /\ Len(Detached(q, s)) <= Len(q)
         /\ ToSet(Detached(q, s)) = ToSet(q) \ {s} /\ IsInjective(Detached(q, s))
<1>1. CASE s \notin ToSet(q)
  BY <1>1 DEF Detached
<1>2. CASE s \in ToSet(q)
  <2> DEFINE k == CHOOSE i \in DOMAIN q : q[i] = s
             d == RemoveAt(q, k)
             n == Len(q)
  <2>1. k \in 1..n /\ q[k] = s /\ n \in Nat /\ DOMAIN q = 1..n
    BY <1>2 DEF ToSet
  <2> HIDE DEF k
  <2>2. /\ SubSeq(q, 1, k - 1) \in Seq(Snaps) /\ Len(SubSeq(q, 1, k - 1)) = k - 1
        /\ \A i \in 1..(k - 1) : SubSeq(q, 1, k - 1)[i] = q[i]
    BY <2>1
  <2>3. /\ SubSeq(q, k + 1, n) \in Seq(Snaps) /\ Len(SubSeq(q, k + 1, n)) = n - k
        /\ \A i \in 1..(n - k) : SubSeq(q, k + 1, n)[i] = q[k + i]
    <3>1. k + 1 \in Int /\ n \in Int /\ k + 1 <= n + 1 /\ \A i \in (k + 1)..n : q[i] \in Snaps
      BY <2>1
    <3>2. /\ SubSeq(q, k + 1, n) \in Seq(Snaps)
          /\ Len(SubSeq(q, k + 1, n)) = n - (k + 1) + 1
          /\ \A i \in 1..(n - (k + 1) + 1) : SubSeq(q, k + 1, n)[i] = q[k + 1 + i - 1]
      BY <3>1, SubSeqProperties
    <3>3. /\ n - (k + 1) + 1 = n - k
          /\ \A i \in 1..(n - k) : k + 1 + i - 1 = k + i
      BY <2>1
    <3> QED BY <3>2, <3>3
  <2>4. /\ d \in Seq(Snaps) /\ Len(d) = n - 1 /\ DOMAIN d = 1..(n - 1)
        /\ \A i \in 1..(n - 1) : d[i] = IF i < k THEN q[i] ELSE q[i + 1]
    <3> DEFINE a == SubSeq(q, 1, k - 1)
               b == SubSeq(q, k + 1, n)
    <3>1. d = a \o b
      BY DEF RemoveAt
    <3> HIDE DEF a, b
    <3>2. a \in Seq(Snaps) /\ Len(a) = k - 1 /\ \A i \in 1..(k - 1) : a[i] = q[i]
      BY <2>2 DEF a
    <3>3. b \in Seq(Snaps) /\ Len(b) = n - k /\ \A i \in 1..(n - k) : b[i] = q[k + i]
      BY <2>3 DEF b
    <3> HIDE DEF d
    <3>4. /\ d \in Seq(Snaps) /\ Len(d) = Len(a) + Len(b) /\ DOMAIN d = 1..Len(d)
          /\ \A i \in 1..(Len(a) + Len(b)) : d[i] = IF i <= Len(a) THEN a[i] ELSE b[i - Len(a)]
      <4>1. /\ d \in Seq(Snaps) /\ Len(d) = Len(a) + Len(b)
            /\ \A i \in 1..(Len(a) + Len(b)) : d[i] = IF i <= Len(a) THEN a[i] ELSE b[i - Len(a)]
        BY <3>1, <3>2, <3>3, ConcatProperties
      <4>2. DOMAIN d = 1..Len(d)
        BY <4>1
      <4> QED BY <4>1, <4>2
    <3>5. \A i \in 1..(n - 1) : d[i] = IF i < k THEN q[i] ELSE q[i + 1]
      <4> TAKE i \in 1..(n - 1)
      <4>1. CASE i < k
        <5>1. i \in 1..(k - 1) /\ d[i] = a[i]
          BY <2>1, <3>2, <3>3, <3>4, <4>1
        <5> QED BY <3>2, <4>1, <5>1
      <4>2. CASE ~(i < k)
        <5>1. i - (k - 1) \in 1..(n - k) /\ k + (i - (k - 1)) = i + 1
          BY <2>1, <4>2
        <5>2. d[i] = b[i - (k - 1)]
          BY <2>1, <3>2, <3>3, <3>4, <4>2
        <5>3. b[i - (k - 1)] = q[k + (i - (k - 1))]
          BY <3>3, <5>1
        <5> QED BY <4>2, <5>1, <5>2, <5>3
      <4> QED BY <4>1, <4>2
    <3> QED BY <2>1, <3>2, <3>3, <3>4, <3>5
  <2> HIDE DEF d
  <2>5. IsInjective(d)
    <3> SUFFICES ASSUME NEW i \in 1..(n - 1), NEW j \in 1..(n - 1), d[i] = d[j] PROVE i = j
      BY <2>4 DEF IsInjective
    <3>1. \A a, b \in 1..n : q[a] = q[b] => a = b
      BY <2>1 DEF IsInjective
    <3>2. PICK a \in 1..n : d[i] = q[a] /\ a = IF i < k THEN i ELSE i + 1
      BY <2>1, <2>4
    <3>3. PICK b \in 1..n : d[j] = q[b] /\ b = IF j < k THEN j ELSE j + 1
      BY <2>1, <2>4
    <3>4. a = b
      BY <3>1, <3>2, <3>3
    <3> QED BY <2>1, <3>2, <3>3, <3>4
  <2>6. ToSet(d) = ToSet(q) \ {s}
    <3>1. ASSUME NEW x \in ToSet(q), x # s PROVE x \in ToSet(d)
      <4>1. PICK i \in 1..n : q[i] = x
        BY <2>1 DEF ToSet
      <4>2. CASE i < k
        BY <2>1, <2>4, <4>1, <4>2 DEF ToSet
      <4>3. CASE i > k
        <5>1. i - 1 \in 1..(n - 1) /\ ~(i - 1 < k) /\ d[i - 1] = x
          BY <2>1, <2>4, <4>1, <4>3
        <5> QED BY <2>4, <5>1 DEF ToSet
      <4> QED BY <2>1, <3>1, <4>1, <4>2, <4>3
    <3>2. ASSUME NEW x \in ToSet(d) PROVE x \in ToSet(q) /\ x # s
      BY <2>1, <2>4 DEF ToSet, IsInjective
    <3> QED BY <3>1, <3>2
  <2> QED BY <1>2, <2>1, <2>4, <2>5, <2>6 DEF Detached, k, d
<1> QED BY <1>1, <1>2

(* The elements of a list without repetitions are as many as its length.    *)
LEMMA ListSize ==
  ASSUME NEW q \in Seq(Snaps), IsInjective(q)
  PROVE  IsFiniteSet(ToSet(q)) /\ Cardinality(ToSet(q)) = Len(q)
<1>1. /\ DOMAIN q = 1..Len(q) /\ Len(q) \in Nat /\ q \in [1..Len(q) -> Snaps]
  OBVIOUS
<1>2. IsFiniteSet(1..Len(q)) /\ Cardinality(1..Len(q)) = Len(q)
  BY <1>1, FS_Interval
<1>3. q \in Surjection(1..Len(q), ToSet(q)) /\ q \in Injection(1..Len(q), ToSet(q))
  BY <1>1 DEF Surjection, Injection, ToSet, IsInjective
<1> QED BY <1>2, <1>3, FS_Surjection

(* What is left of a list has the elements that did not leave it, once.     *)
LEMMA RemainingList ==
  ASSUME NEW q \in Seq(Snaps), NEW S, IsInjective(q), NEW k \in Remaining(q, S)
  PROVE  /\ k \in Seq(Snaps) /\ Len(k) <= Len(q)
         /\ ToSet(k) = ToSet(q) \ S /\ IsInjective(k)
<1> DEFINE T == ToSet(q) \ S
           n == Cardinality(T)
<1>1. IsFiniteSet(T) /\ n \in Nat /\ n <= Len(q)
  BY ListSize, FS_Subset, FS_CardinalityType
<1>2. k \in [1..n -> T] /\ IsInjective(k)
  BY DEF Remaining, SetToSeqs, IsInjective
<1>3. IsFiniteSet(1..n) /\ Cardinality(1..n) = n
  BY <1>1, FS_Interval
<1>4. k \in Injection(1..n, T)
  BY <1>2 DEF Injection
<1>5. k \in Surjection(1..n, T)
  BY <1>1, <1>3, <1>4, FS_Injection
<1>6. ToSet(k) = T
  BY <1>2, <1>5 DEF Surjection, ToSet
<1>7. T \subseteq Snaps
  BY DEF ToSet
<1>8. k \in Seq(Snaps) /\ Len(k) = n
  <2>1. k \in [1..n -> Snaps]
    BY <1>2, <1>7
  <2> HIDE DEF n
  <2> QED BY <1>1, <2>1
<1> QED BY <1>1, <1>2, <1>6, <1>8

-----------------------------------------------------------------------------
(* The handles                                                              *)

(* A change of the handles' fields, within their types, is well typed.      *)
LEMMA HandleFields ==
  ASSUME NEW h \in Handles, NEW c \in SUBSET Snaps, NEW f \in [Snaps -> Nat],
         NEW q \in Seq(Snaps)
  PROVE  /\ [h EXCEPT !.refs = f] \in Handles
         /\ [h EXCEPT !.refs = f, !.lru = q] \in Handles
         /\ [h EXCEPT !.refs = f, !.cached = c] \in Handles
         /\ [h EXCEPT !.cached = c, !.refs = f] \in Handles
         /\ [h EXCEPT !.cached = c, !.lru = q] \in Handles
  BY DEF Handles

(* The oldest retained handle closes when the list is one too long: what    *)
(* is left is exact, and no reference changes.                              *)
LEMMA EnforcedResident ==
  ASSUME NEW h \in Handles,
         ToSet(h.lru) = {s \in h.cached : h.refs[s] = 0}, IsInjective(h.lru),
         \A s \in Snaps : h.refs[s] > 0 => s \in h.cached
  PROVE  Enforced(h) \in Handles /\ Enforced(h).refs = h.refs /\ Resident(Enforced(h))
<1>1. h.lru \in Seq(Snaps) /\ h.cached \subseteq Snaps /\ h.refs \in [Snaps -> Nat]
  BY DEF Handles
<1>2. Retained \in Nat /\ Len(h.lru) \in Nat
  BY <1>1, CorpusAssumption
<1>3. CASE Len(h.lru) <= Retained
  BY <1>3 DEF Enforced, Resident
<1>4. CASE ~(Len(h.lru) <= Retained)
  <2> DEFINE k == Len(h.lru) - Retained + 1
             e == SubSeq(h.lru, k, Len(h.lru))
             g == [h EXCEPT !.lru = e, !.cached = @ \ (ToSet(h.lru) \ ToSet(e))]
  <2>1. k \in 1..(Len(h.lru) + 1) /\ Len(h.lru) - k + 1 = Retained
    BY <1>2, <1>4
  <2>2. /\ e \in Seq(Snaps) /\ Len(e) = Retained /\ ToSet(e) \subseteq ToSet(h.lru)
        /\ IsInjective(e)
    BY <1>1, <2>1, ListEnd
  <2>3. Enforced(h) = g
    BY <1>4 DEF Enforced
  <2> HIDE DEF e
  <2>4. /\ g.lru = e /\ g.refs = h.refs /\ g.cached = h.cached \ (ToSet(h.lru) \ ToSet(e))
        /\ g \in Handles
    BY <1>1, <2>2 DEF Handles
  <2> HIDE DEF g
  <2>5. ToSet(g.lru) = {s \in g.cached : g.refs[s] = 0}
    BY <1>1, <2>2, <2>4
  <2>6. ASSUME NEW s \in Snaps, g.refs[s] > 0 PROVE s \in g.cached
    BY <1>1, <2>4, <2>6
  <2> QED BY <1>2, <2>2, <2>3, <2>4, <2>5, <2>6 DEF Resident
<1> QED BY <1>3, <1>4

(* A release takes one reference from its handle, and the handles without   *)
(* one are listed as before.                                                *)
LEMMA ReleasedResident ==
  ASSUME NEW h \in Handles, Resident(h), NEW s \in Snaps, h.refs[s] > 0
  PROVE  /\ ReleaseHandle(h, s) \in Handles /\ Resident(ReleaseHandle(h, s))
         /\ ReleaseHandle(h, s).refs = [h.refs EXCEPT ![s] = @ - 1]
<1>1. h.lru \in Seq(Snaps) /\ h.cached \subseteq Snaps /\ h.refs \in [Snaps -> Nat]
  BY DEF Handles
<1>2. s # NoSnap /\ s \in h.cached /\ s \notin ToSet(h.lru) /\ Retained \in Nat
  BY CorpusAssumption DEF Resident
<1>3. CASE h.refs[s] > 1
  <2> DEFINE g == [h EXCEPT !.refs[s] = @ - 1]
  <2>1. ReleaseHandle(h, s) = g
    BY <1>2, <1>3 DEF ReleaseHandle
  <2>2. /\ g.refs = [h.refs EXCEPT ![s] = @ - 1] /\ g.lru = h.lru /\ g.cached = h.cached
        /\ g \in Handles
    <3> DEFINE f == [h.refs EXCEPT ![s] = @ - 1]
    <3>1. f \in [Snaps -> Nat] /\ g = [h EXCEPT !.refs = f]
      BY <1>1, <1>3
    <3> HIDE DEF f, g
    <3>2. g \in Handles /\ g.refs = f /\ g.lru = h.lru /\ g.cached = h.cached
      BY <1>1, <3>1, HandleFields DEF Handles
    <3> QED BY <3>2 DEF f
  <2> HIDE DEF g
  <2>3. Resident(g)
    BY <1>1, <1>3, <2>2 DEF Resident
  <2> QED BY <2>1, <2>2, <2>3
<1>4. CASE h.refs[s] = 1 /\ (off \/ Retained = 0)
  <2> DEFINE g == [h EXCEPT !.refs[s] = 0, !.cached = @ \ {s}]
  <2>1. ReleaseHandle(h, s) = g
    BY <1>2, <1>4 DEF ReleaseHandle
  <2>2. /\ g.refs = [h.refs EXCEPT ![s] = @ - 1] /\ g.lru = h.lru
        /\ g.cached = h.cached \ {s} /\ g \in Handles
    <3> DEFINE f == [h.refs EXCEPT ![s] = 0]
               c == h.cached \ {s}
    <3>1. f \in [Snaps -> Nat] /\ f = [h.refs EXCEPT ![s] = @ - 1] /\ c \in SUBSET Snaps
      BY <1>1, <1>4
    <3>2. g = [h EXCEPT !.refs = f, !.cached = c]
      OBVIOUS
    <3> HIDE DEF f, g, c
    <3>3. g \in Handles /\ g.refs = f /\ g.lru = h.lru /\ g.cached = c
      BY <1>1, <3>1, <3>2, HandleFields DEF Handles
    <3> QED BY <3>1, <3>3 DEF c
  <2> HIDE DEF g
  <2>3. Resident(g)
    BY <1>1, <1>2, <1>4, <2>2 DEF Resident
  <2> QED BY <2>1, <2>2, <2>3
<1>5. CASE h.refs[s] = 1 /\ ~(off \/ Retained = 0)
  <2> DEFINE q == Append(h.lru, s)
             g == [h EXCEPT !.refs[s] = 0, !.lru = Append(@, s)]
  <2>1. ReleaseHandle(h, s) = Enforced(g)
    BY <1>2, <1>5 DEF ReleaseHandle
  <2>2. q \in Seq(Snaps) /\ ToSet(q) = ToSet(h.lru) \cup {s} /\ IsInjective(q)
    BY <1>1, <1>2, AppendedList DEF Resident
  <2>3. /\ g.refs = [h.refs EXCEPT ![s] = @ - 1] /\ g.lru = q /\ g.cached = h.cached
        /\ g \in Handles
    <3> DEFINE f == [h.refs EXCEPT ![s] = 0]
    <3>1. f \in [Snaps -> Nat] /\ f = [h.refs EXCEPT ![s] = @ - 1]
      BY <1>1, <1>5
    <3>2. g = [h EXCEPT !.refs = f, !.lru = q]
      OBVIOUS
    <3> HIDE DEF f, g, q
    <3>3. g \in Handles /\ g.refs = f /\ g.lru = q /\ g.cached = h.cached
      BY <1>1, <2>2, <3>1, <3>2, HandleFields DEF Handles
    <3> QED BY <3>1, <3>3
  <2> HIDE DEF g, q
  <2>4. ToSet(g.lru) = {t \in g.cached : g.refs[t] = 0}
    BY <1>1, <1>2, <1>5, <2>2, <2>3 DEF Resident
  <2>5. ASSUME NEW t \in Snaps, g.refs[t] > 0 PROVE t \in g.cached
    BY <1>1, <1>2, <1>5, <2>3, <2>5 DEF Resident
  <2>6. Enforced(g) \in Handles /\ Enforced(g).refs = g.refs /\ Resident(Enforced(g))
    BY <2>2, <2>3, <2>4, <2>5, EnforcedResident
  <2> QED BY <2>1, <2>3, <2>6
<1>6. h.refs[s] = 1 \/ h.refs[s] > 1
  BY <1>1
<1> QED BY <1>3, <1>4, <1>5, <1>6

(* A hit adds a reference to the open handle and takes it off the list.     *)
LEMMA ReopenedResident ==
  ASSUME NEW h \in Handles, Resident(h), NEW s \in h.cached
  PROVE  /\ Reopen(h, s) \in Handles /\ Resident(Reopen(h, s))
         /\ Reopen(h, s).refs = [h.refs EXCEPT ![s] = @ + 1]
<1> DEFINE q == Detached(h.lru, s)
           g == [h EXCEPT !.refs[s] = @ + 1, !.lru = Detached(@, s)]
<1>1. /\ h.lru \in Seq(Snaps) /\ h.cached \subseteq Snaps /\ h.refs \in [Snaps -> Nat]
      /\ s \in Snaps /\ Retained \in Nat /\ Len(h.lru) \in Nat
  BY CorpusAssumption DEF Handles
<1>2. /\ q \in Seq(Snaps) /\ Len(q) <= Len(h.lru) /\ Len(q) \in Nat
      /\ ToSet(q) = ToSet(h.lru) \ {s} /\ IsInjective(q)
  BY <1>1, DetachedList DEF Resident
<1>3. Reopen(h, s) = g
  BY DEF Reopen
<1>4. /\ g.refs = [h.refs EXCEPT ![s] = @ + 1] /\ g.lru = q /\ g.cached = h.cached
      /\ g \in Handles
  <2> DEFINE f == [h.refs EXCEPT ![s] = @ + 1]
  <2>1. f \in [Snaps -> Nat]
    BY <1>1
  <2>2. g = [h EXCEPT !.refs = f, !.lru = q]
    OBVIOUS
  <2> HIDE DEF f, g, q
  <2>3. g \in Handles /\ g.refs = f /\ g.lru = q /\ g.cached = h.cached
    BY <1>1, <1>2, <2>1, <2>2, HandleFields DEF Handles
  <2> QED BY <2>3 DEF f
<1> HIDE DEF g, q
<1>5. ToSet(g.lru) = {t \in g.cached : g.refs[t] = 0}
  BY <1>1, <1>2, <1>4 DEF Resident
<1>6. Len(g.lru) <= Retained /\ IsInjective(g.lru)
  BY <1>1, <1>2, <1>4 DEF Resident
<1>7. ASSUME NEW t \in Snaps, g.refs[t] > 0 PROVE t \in g.cached
  BY <1>1, <1>4, <1>7 DEF Resident
<1> QED BY <1>3, <1>4, <1>5, <1>6, <1>7 DEF Resident

(* A snapshot that was not open is opened for its first reader.             *)
LEMMA OpenedResident ==
  ASSUME NEW h \in Handles, Resident(h), NEW s \in Snaps, s \notin h.cached
  PROVE  /\ Opened(h, s) \in Handles /\ Resident(Opened(h, s))
         /\ Opened(h, s).refs = [h.refs EXCEPT ![s] = @ + 1]
<1> DEFINE g == [h EXCEPT !.cached = @ \cup {s}, !.refs[s] = 1]
<1>1. /\ h.lru \in Seq(Snaps) /\ h.cached \subseteq Snaps /\ h.refs \in [Snaps -> Nat]
  BY DEF Handles
<1>2. h.refs[s] = 0
  BY <1>1 DEF Resident
<1>3. Opened(h, s) = g
  BY DEF Opened
<1>4. /\ g.refs = [h.refs EXCEPT ![s] = @ + 1] /\ g.lru = h.lru
      /\ g.cached = h.cached \cup {s} /\ g \in Handles
  <2> DEFINE f == [h.refs EXCEPT ![s] = 1]
             c == h.cached \cup {s}
  <2>1. f \in [Snaps -> Nat] /\ f = [h.refs EXCEPT ![s] = @ + 1] /\ c \in SUBSET Snaps
    BY <1>1, <1>2
  <2>2. g = [h EXCEPT !.cached = c, !.refs = f]
    OBVIOUS
  <2> HIDE DEF f, g, c
  <2>3. g \in Handles /\ g.refs = f /\ g.lru = h.lru /\ g.cached = c
    BY <1>1, <2>1, <2>2, HandleFields DEF Handles
  <2> QED BY <2>1, <2>3 DEF c
<1> HIDE DEF g
<1>5. Resident(g)
  BY <1>1, <1>2, <1>4 DEF Resident
<1> QED BY <1>3, <1>4, <1>5

-----------------------------------------------------------------------------
(* Counting readers, carriers and builders                                  *)

(* A count is a number, and not zero where something is counted.            *)
LEMMA CountIsNat ==
  ASSUME NEW S, IsFiniteSet(S), NEW f, NEW s
  PROVE  /\ Count(S, f, s) \in Nat
         /\ \A x \in S : f[x] = s => Count(S, f, s) > 0
<1> DEFINE T == {x \in S : f[x] = s}
<1>1. IsFiniteSet(T)
  BY FS_Subset
<1>2. Cardinality(T) \in Nat
  BY <1>1, FS_CardinalityType
<1>3. ASSUME NEW x \in S, f[x] = s PROVE Cardinality(T) # 0
  BY <1>1, <1>3, FS_EmptySet
<1> QED BY <1>2, <1>3 DEF Count

(* Of the elements of a set, one goes elsewhere.                            *)
Goes(S, f, g, x, v) == x \in S /\ \A y \in S : g[y] = IF y = x THEN v ELSE f[y]

(* One element that goes elsewhere is one less where it was and one more    *)
(* where it is.                                                             *)
LEMMA CountMoves ==
  ASSUME NEW S, IsFiniteSet(S), NEW f, NEW g, NEW x, NEW v, NEW s,
         Goes(S, f, g, x, v)
  PROVE  Count(S, g, s)
           = Count(S, f, s) + (IF s = v THEN 1 ELSE 0) - (IF s = f[x] THEN 1 ELSE 0)
<1> DEFINE A == {y \in S : f[y] = s}
           B == {y \in S : g[y] = s}
<1>1. x \in S /\ \A y \in S : g[y] = IF y = x THEN v ELSE f[y]
  BY DEF Goes
<1>2. IsFiniteSet(A) /\ IsFiniteSet(B)
  BY FS_Subset
<1>3. Cardinality(A) \in Nat /\ Cardinality(B) \in Nat
  BY <1>2, FS_CardinalityType
<1>4. CASE (s = v) <=> (s = f[x])
  <2>1. A = B
    BY <1>1, <1>4
  <2>2. Count(S, g, s) = Count(S, f, s) /\ Count(S, f, s) \in Nat
    BY <1>3, <2>1 DEF Count
  <2> QED BY <1>4, <2>2
<1>5. CASE s = v /\ s # f[x]
  <2>1. B = A \cup {x} /\ x \notin A
    BY <1>1, <1>5
  <2>2. Cardinality(B) = Cardinality(A) + 1
    BY <1>2, <2>1, FS_AddElement
  <2> QED BY <1>3, <1>5, <2>2 DEF Count
<1>6. CASE s # v /\ s = f[x]
  <2>1. B = A \ {x} /\ x \in A
    BY <1>1, <1>6
  <2>2. Cardinality(B) = Cardinality(A) - 1
    BY <1>2, <2>1, FS_RemoveElement
  <2> QED BY <1>3, <1>6, <2>2 DEF Count
<1> QED BY <1>4, <1>5, <1>6

(* What CorpusShared says, by counts, in a state and in the next.           *)
SharedByCounts ==
  /\ \A s \in Snaps : pool.refs[s] = Count(Trees, view, s) + Count(Attachers, Carried, s)
  /\ Resident(pool)
  /\ \A s \in Snaps : Count(Attachers, Built, s) = (IF s \in leases THEN 1 ELSE 0)
  /\ \A p \in Attachers : point[p] = "wait" => goal[p] \in leases

LEMMA SharedIsCounted ==
  (CorpusShared <=> SharedByCounts) /\ (CorpusShared' <=> SharedByCounts')
<1>1. ASSUME NEW s \in Snaps
      PROVE  /\ {p \in Attachers : Carried[p] = s}
                  = {p \in Attachers : point[p] \in {"overlay", "bind"} /\ goal[p] = s}
             /\ {p \in Attachers : Built[p] = s} = {p \in Attachers : Building(p) /\ goal[p] = s}
  BY CorpusAssumption DEF Carried, Carries, Built
<1>2. ASSUME NEW s \in Snaps
      PROVE  /\ {p \in Attachers : Carried'[p] = s}
                  = {p \in Attachers : point'[p] \in {"overlay", "bind"} /\ goal'[p] = s}
             /\ {p \in Attachers : Built'[p] = s}
                  = {p \in Attachers : Building(p)' /\ goal'[p] = s}
  BY CorpusAssumption DEF Carried, Carries, Built
<1>3. CorpusShared <=> SharedByCounts
  BY <1>1 DEF CorpusShared, RefsExact, Holders, LruExact, OneWriter, SharedByCounts, Count, Resident
<1>4. CorpusShared' <=> SharedByCounts'
  BY <1>2 DEF CorpusShared, RefsExact, Holders, LruExact, OneWriter, SharedByCounts, Count, Resident
<1> QED BY <1>3, <1>4

-----------------------------------------------------------------------------
(* The steps of an attach                                                   *)

Carrying == {"overlay", "bind"}
BuildStages == {"reset", "build", "index", "publish", "close_ok", "close_bad", "settle_ok",
                "settle_bad", "indexing", "publishing", "stamping"}

(* One attach that takes a step is counted anew by its stage.               *)
LEMMA StageMoves ==
  ASSUME CorpusTypes, NEW p \in Attachers, NEW x, To(p, x), UNCHANGED goal
  PROVE  /\ Carried' = [Carried EXCEPT ![p] = IF x \in Carrying THEN goal[p] ELSE NoSnap]
         /\ Built' = [Built EXCEPT ![p] = IF x \in BuildStages THEN goal[p] ELSE NoSnap]
         /\ Carried[p] = IF point[p] \in Carrying THEN goal[p] ELSE NoSnap
         /\ Built[p] = IF point[p] \in BuildStages THEN goal[p] ELSE NoSnap
         /\ \A q \in Attachers : point'[q] = IF q = p THEN x ELSE point[q]
<1>1. \A q \in Attachers : point'[q] = IF q = p THEN x ELSE point[q]
  BY DEF CorpusTypes, To
<1>2. /\ Carried' = [q \in Attachers |-> IF point'[q] \in Carrying THEN goal[q] ELSE NoSnap]
      /\ Carried = [q \in Attachers |-> IF point[q] \in Carrying THEN goal[q] ELSE NoSnap]
  BY DEF Carried, Carries, Carrying
<1>3. /\ Built' = [q \in Attachers |-> IF point'[q] \in BuildStages THEN goal[q] ELSE NoSnap]
      /\ Built = [q \in Attachers |-> IF point[q] \in BuildStages THEN goal[q] ELSE NoSnap]
  BY DEF Built, Building, BuildStages, Locked
<1> QED BY <1>1, <1>2, <1>3

(* The types after a step of an attach.                                     *)
LEMMA StageTypes ==
  ASSUME CorpusTypes, NEW p \in Attachers, NEW x \in Stages, To(p, x), UNCHANGED goal,
         point[p] # "idle"
  PROVE  /\ point' \in [Attachers -> Stages] /\ goal' \in [Attachers -> Snaps \cup {NoSnap}]
         /\ \A q \in Attachers : point'[q] # "idle" => goal'[q] \in Snaps
         /\ goal[p] \in Snaps /\ goal[p] # NoSnap
  BY CorpusAssumption DEF CorpusTypes, To

(* A state with the same handles, leases, views and attaches.               *)
LEMMA StillShared ==
  ASSUME SharedInv, UNCHANGED <<pool, leases, view, point, goal>>
  PROVE  SharedInv'
<1>1. CorpusTypes'
  BY DEF SharedInv, CorpusTypes
<1>2. SharedByCounts'
  BY SharedIsCounted DEF SharedInv, SharedByCounts, Carried, Carries, Built, Building, Resident
<1> QED BY <1>1, <1>2, SharedIsCounted DEF SharedInv

(* A step that neither takes up nor gives up a handle or a build.           *)
LEMMA StepShared ==
  ASSUME SharedInv, NEW p \in Attachers, NEW x \in Stages, To(p, x),
         UNCHANGED <<pool, leases, view, goal>>, point[p] # "idle", x # "wait",
         point[p] \in Carrying <=> x \in Carrying,
         point[p] \in BuildStages <=> x \in BuildStages
  PROVE  SharedInv'
<1>1. CorpusTypes'
  BY StageTypes DEF SharedInv, CorpusTypes
<1>2. Carried' = Carried /\ Built' = Built
  <2>1. /\ Carried' = [Carried EXCEPT ![p] = Carried[p]]
        /\ Built' = [Built EXCEPT ![p] = Built[p]]
    BY StageMoves DEF SharedInv
  <2>2. Carried' = Carried
    BY <2>1 DEF Carried
  <2>3. Built' = Built
    BY <2>1 DEF Built
  <2> QED BY <2>2, <2>3
<1>3. SharedByCounts'
  BY <1>2, StageMoves, SharedIsCounted DEF SharedInv, SharedByCounts, Resident
<1> QED BY <1>1, <1>3, SharedIsCounted DEF SharedInv

(* A release of what a view or an attach reads.                             *)
LEMMA ReleaseCounts ==
  ASSUME pool \in Handles, Resident(pool), NEW v \in Snaps \cup {NoSnap},
         v \in Snaps => pool.refs[v] > 0, pool' = ReleaseHandle(pool, v)
  PROVE  /\ pool' \in Handles /\ Resident(pool)'
         /\ \A s \in Snaps : pool'.refs[s] = pool.refs[s] - (IF s = v THEN 1 ELSE 0)
<1>1. pool.refs \in [Snaps -> Nat]
  BY DEF Handles
<1>2. CASE v = NoSnap
  BY <1>1, <1>2, CorpusAssumption DEF ReleaseHandle, Resident
<1>3. CASE v # NoSnap
  <2>1. /\ pool' \in Handles /\ Resident(pool')
        /\ pool'.refs = [pool.refs EXCEPT ![v] = @ - 1]
    BY <1>3, ReleasedResident
  <2>2. Resident(pool)'
    BY <2>1 DEF Resident
  <2> QED BY <1>1, <1>3, <2>1, <2>2
<1> QED BY <1>2, <1>3

(* The references of what a root reads, and of what an attach carries, are  *)
(* not zero; the counts of an invariant state are numbers.                  *)
LEMMA HeldCounts ==
  ASSUME SharedInv
  PROVE  /\ \A s \in Snaps : /\ Count(Trees, view, s) \in Nat
                             /\ Count(Attachers, Carried, s) \in Nat
                             /\ Count(Attachers, Built, s) \in Nat
         /\ \A r \in Trees : view[r] \in Snaps => pool.refs[view[r]] > 0
         /\ \A p \in Attachers : Carried[p] \in Snaps => pool.refs[Carried[p]] > 0
         /\ \A p \in Attachers : Built[p] \in Snaps => Built[p] \in leases
<1>1. SharedByCounts
  BY SharedIsCounted DEF SharedInv
<1>2. \A s \in Snaps : /\ Count(Trees, view, s) \in Nat
                       /\ Count(Attachers, Carried, s) \in Nat
                       /\ Count(Attachers, Built, s) \in Nat
  BY CountIsNat, CorpusAssumption
<1>3. ASSUME NEW r \in Trees, view[r] \in Snaps PROVE pool.refs[view[r]] > 0
  <2>1. Count(Trees, view, view[r]) > 0
    BY CountIsNat, CorpusAssumption
  <2> QED BY <1>1, <1>2, <1>3, <2>1 DEF SharedByCounts
<1>4. ASSUME NEW p \in Attachers, Carried[p] \in Snaps PROVE pool.refs[Carried[p]] > 0
  <2>1. Count(Attachers, Carried, Carried[p]) > 0
    BY CountIsNat, CorpusAssumption
  <2> QED BY <1>1, <1>2, <1>4, <2>1 DEF SharedByCounts
<1>5. ASSUME NEW p \in Attachers, Built[p] \in Snaps PROVE Built[p] \in leases
  <2>1. Count(Attachers, Built, Built[p]) > 0
    BY CountIsNat, CorpusAssumption
  <2> QED BY <1>1, <1>2, <1>5, <2>1 DEF SharedByCounts
<1> QED BY <1>2, <1>3, <1>4, <1>5

(* One root's view changes.                                                 *)
Rebinds(r, v) == view' = [view EXCEPT ![r] = v]

(* A step of an attach that takes up or gives up a handle, and builds       *)
(* nothing.                                                                 *)
LEMMA HandleStep ==
  ASSUME SharedInv, NEW p \in Attachers, NEW x \in Stages, To(p, x), UNCHANGED <<leases, goal>>,
         point[p] # "idle", x # "wait", point[p] \notin BuildStages, x \notin BuildStages,
         NEW r \in Trees, NEW v \in Snaps \cup {NoSnap}, Rebinds(r, v),
         pool' \in Handles, Resident(pool)',
         \A s \in Snaps :
           pool'.refs[s] = pool.refs[s]
             + (IF s = v THEN 1 ELSE 0) - (IF s = view[r] THEN 1 ELSE 0)
             + (IF x \in Carrying /\ s = goal[p] THEN 1 ELSE 0)
             - (IF point[p] \in Carrying /\ s = goal[p] THEN 1 ELSE 0)
  PROVE  SharedInv'
<1>1. CorpusTypes'
  BY StageTypes DEF SharedInv, CorpusTypes, Rebinds
<1> DEFINE c == IF x \in Carrying THEN goal[p] ELSE NoSnap
<1>2. /\ Carried' = [Carried EXCEPT ![p] = c]
      /\ Carried[p] = IF point[p] \in Carrying THEN goal[p] ELSE NoSnap
      /\ Built' = [Built EXCEPT ![p] = Built[p]]
      /\ \A q \in Attachers : point'[q] = IF q = p THEN x ELSE point[q]
  BY StageMoves DEF SharedInv
<1>3. Built' = Built
  BY <1>2 DEF Built
<1>4. \A s \in Snaps : /\ (s = c) <=> (x \in Carrying /\ s = goal[p])
                       /\ (s = Carried[p]) <=> (point[p] \in Carrying /\ s = goal[p])
  BY <1>2, CorpusAssumption
<1> HIDE DEF c
<1>5. \A s \in Snaps :
           pool'.refs[s] = pool.refs[s]
             + (IF s = v THEN 1 ELSE 0) - (IF s = view[r] THEN 1 ELSE 0)
             + (IF s = c THEN 1 ELSE 0) - (IF s = Carried[p] THEN 1 ELSE 0)
  BY <1>4
<1>6. \A s \in Snaps :
           pool'.refs[s] = Count(Trees, view', s) + Count(Attachers, Carried', s)
  <2> SUFFICES ASSUME NEW s \in Snaps
               PROVE  pool'.refs[s] = Count(Trees, view', s) + Count(Attachers, Carried', s)
    OBVIOUS
  <2>1. pool.refs[s] = Count(Trees, view, s) + Count(Attachers, Carried, s)
    BY SharedIsCounted DEF SharedInv, SharedByCounts
  <2>2. Count(Trees, view, s) \in Nat /\ Count(Attachers, Carried, s) \in Nat
    BY HeldCounts
  <2>3. Count(Trees, view', s)
          = Count(Trees, view, s) + (IF s = v THEN 1 ELSE 0) - (IF s = view[r] THEN 1 ELSE 0)
    <3>1. IsFiniteSet(Trees) /\ Goes(Trees, view, view', r, v)
      BY CorpusAssumption DEF SharedInv, CorpusTypes, Goes, Rebinds
    <3> QED BY <3>1, CountMoves
  <2>4. Count(Attachers, Carried', s)
          = Count(Attachers, Carried, s) + (IF s = c THEN 1 ELSE 0)
              - (IF s = Carried[p] THEN 1 ELSE 0)
    <3>1. IsFiniteSet(Attachers) /\ Goes(Attachers, Carried, Carried', p, c)
      <4>1. DOMAIN Carried = Attachers
        BY DEF Carried
      <4> QED BY <1>2, <4>1, CorpusAssumption DEF Goes
    <3> QED BY <3>1, CountMoves
  <2> QED BY <1>5, <2>1, <2>2, <2>3, <2>4
<1>7. SharedByCounts
  BY SharedIsCounted DEF SharedInv
<1>8. SharedByCounts'
  BY <1>2, <1>3, <1>6, <1>7 DEF SharedByCounts
<1> QED BY <1>1, <1>8, SharedIsCounted DEF SharedInv

(* A step of an attach that begins or ends no build.                        *)
LEMMA PlainSteps ==
  ASSUME SharedInv, NEW p \in Attachers,
         \/ Pin(p) \/ EnsureCorpus(p) \/ Woken(p) \/ WaitExpires(p) \/ ResetStore(p)
         \/ BuildStore(p) \/ IndexStart(p) \/ IndexEnd(p) \/ Verify(p) \/ PublishTable(p)
         \/ PublishManifest(p) \/ CloseStore(p)
  PROVE  SharedInv'
<1>1. \E x \in Stages :
        /\ To(p, x) /\ UNCHANGED <<pool, leases, view, goal>> /\ point[p] # "idle" /\ x # "wait"
        /\ (point[p] \in Carrying) <=> (x \in Carrying)
        /\ (point[p] \in BuildStages) <=> (x \in BuildStages)
  <2> USE DEF Stages, Carrying, BuildStages
  <2>1. CASE Pin(p)
    BY <2>1 DEF Pin, serviceVars
  <2>2. CASE EnsureCorpus(p)
    BY <2>2 DEF EnsureCorpus, serviceVars
  <2>3. CASE Woken(p)
    BY <2>3 DEF Woken, serviceVars
  <2>4. CASE WaitExpires(p)
    BY <2>4 DEF WaitExpires, serviceVars
  <2>5. CASE ResetStore(p)
    BY <2>5 DEF ResetStore, serviceVars
  <2>6. CASE BuildStore(p)
    BY <2>6 DEF BuildStore
  <2>7. CASE IndexStart(p)
    BY <2>7 DEF IndexStart, serviceVars
  <2>8. CASE IndexEnd(p)
    BY <2>8 DEF IndexEnd, serviceVars
  <2>9. CASE Verify(p)
    BY <2>9 DEF Verify, serviceVars
  <2>10. CASE PublishTable(p)
    BY <2>10 DEF PublishTable, serviceVars
  <2>11. CASE PublishManifest(p)
    BY <2>11 DEF PublishManifest, serviceVars
  <2>12. CASE CloseStore(p)
    BY <2>12 DEF CloseStore
  <2> QED BY <2>1, <2>2, <2>3, <2>4, <2>5, <2>6, <2>7, <2>8, <2>9, <2>10, <2>11, <2>12
<1> QED BY <1>1, StepShared

(* The attach of another snapshot begins.                                   *)
LEMMA ResolveShared ==
  ASSUME SharedInv, NEW p \in Attachers, NEW s \in Snaps, Resolve(p, s)
  PROVE  SharedInv'
<1>1. /\ point[p] = "idle" /\ point' = [point EXCEPT ![p] = "pin"]
      /\ goal' = [goal EXCEPT ![p] = s] /\ UNCHANGED <<pool, leases, view>>
  BY DEF Resolve, To, serviceVars
<1>2. CorpusTypes'
  BY <1>1 DEF SharedInv, CorpusTypes, Stages
<1>3. \A q \in Attachers : /\ point'[q] = IF q = p THEN "pin" ELSE point[q]
                           /\ goal'[q] = IF q = p THEN s ELSE goal[q]
  BY <1>1 DEF SharedInv, CorpusTypes
<1>4. Carried' = Carried
  BY <1>1, <1>3 DEF Carried, Carries
<1>5. Built' = Built
  BY <1>1, <1>3 DEF Built, Building, Locked
<1>6. SharedByCounts
  BY SharedIsCounted DEF SharedInv
<1>7. SharedByCounts'
  BY <1>1, <1>3, <1>4, <1>5, <1>6 DEF SharedByCounts, Resident
<1> QED BY <1>2, <1>7, SharedIsCounted DEF SharedInv

(* One builder takes the lease of a snapshot; who finds it taken waits.     *)
LEMMA BeginBuildShared ==
  ASSUME SharedInv, NEW p \in Attachers, BeginBuild(p)
  PROVE  SharedInv'
<1> DEFINE x == IF goal[p] \in leases THEN "wait" ELSE "reset"
<1>1. /\ point[p] = "lease" /\ leases' = leases \cup {goal[p]} /\ To(p, x) /\ x \in Stages
      /\ UNCHANGED <<pool, view, goal>>
  BY DEF BeginBuild, serviceVars, Stages
<1> HIDE DEF x
<1>2. CorpusTypes'
  BY <1>1, StageTypes DEF SharedInv, CorpusTypes
<1>3. goal[p] \in Snaps /\ goal[p] # NoSnap
  BY <1>1, StageTypes DEF SharedInv
<1>4. SharedByCounts
  BY SharedIsCounted DEF SharedInv
<1>5. /\ Carried' = [Carried EXCEPT ![p] = IF x \in Carrying THEN goal[p] ELSE NoSnap]
      /\ Built' = [Built EXCEPT ![p] = IF x \in BuildStages THEN goal[p] ELSE NoSnap]
      /\ Carried[p] = IF point[p] \in Carrying THEN goal[p] ELSE NoSnap
      /\ Built[p] = IF point[p] \in BuildStages THEN goal[p] ELSE NoSnap
      /\ \A q \in Attachers : point'[q] = IF q = p THEN x ELSE point[q]
  BY <1>1, StageMoves DEF SharedInv
<1>6. Carried' = Carried
  BY <1>1, <1>5 DEF Carried, Carrying, x
<1>7. \A q \in Attachers : point'[q] = "wait" => goal'[q] \in leases'
  BY <1>1, <1>4, <1>5 DEF SharedByCounts, x
<1>8. \A s \in Snaps : Count(Attachers, Built', s) = (IF s \in leases' THEN 1 ELSE 0)
  <2>1. CASE goal[p] \in leases
    <3>1. Built' = Built /\ leases' = leases
      BY <1>1, <1>5, <2>1 DEF Built, BuildStages, x
    <3> QED BY <1>4, <3>1 DEF SharedByCounts
  <2>2. CASE goal[p] \notin leases
    <3> SUFFICES ASSUME NEW s \in Snaps
                 PROVE  Count(Attachers, Built', s) = (IF s \in leases' THEN 1 ELSE 0)
      OBVIOUS
    <3>1. Built[p] = NoSnap
      BY <1>1, <1>5 DEF BuildStages
    <3>2. Goes(Attachers, Built, Built', p, goal[p]) /\ IsFiniteSet(Attachers)
      BY <1>5, <2>2, CorpusAssumption DEF Goes, Built, BuildStages, x
    <3>3. Count(Attachers, Built', s)
            = Count(Attachers, Built, s) + (IF s = goal[p] THEN 1 ELSE 0)
                - (IF s = Built[p] THEN 1 ELSE 0)
      BY <3>2, CountMoves
    <3>4. Count(Attachers, Built, s) = (IF s \in leases THEN 1 ELSE 0) /\ s # NoSnap
      BY <1>4, CorpusAssumption DEF SharedByCounts
    <3> QED BY <1>1, <2>2, <3>1, <3>3, <3>4
  <2> QED BY <2>1, <2>2
<1>9. SharedByCounts'
  BY <1>1, <1>4, <1>6, <1>7, <1>8 DEF SharedByCounts, Resident
<1> QED BY <1>2, <1>9, SharedIsCounted DEF SharedInv

(* A build ends with its lease, and nobody is left to wait for it.          *)
LEMMA EndBuildShared ==
  ASSUME SharedInv, NEW p \in Attachers, EndBuild(p)
  PROVE  SharedInv'
<1> DEFINE x == IF point[p] = "settle_ok" THEN "attach" ELSE "idle"
<1>1. /\ point[p] \in {"settle_ok", "settle_bad"} /\ leases' = leases \ {goal[p]}
      /\ UNCHANGED <<pool, view, goal>> /\ x \in {"attach", "idle"}
      /\ point' = [q \in Attachers |->
              IF q = p THEN x
              ELSE IF point[q] = "wait" /\ goal[q] = goal[p] THEN "woken" ELSE point[q]]
  BY DEF EndBuild, serviceVars
<1> HIDE DEF x
<1>2. \A q \in Attachers : point'[q] = IF q = p THEN x
              ELSE IF point[q] = "wait" /\ goal[q] = goal[p] THEN "woken" ELSE point[q]
  BY <1>1
<1>3. CorpusTypes'
  BY <1>1, <1>2 DEF SharedInv, CorpusTypes, Stages
<1>4. goal[p] \in Snaps
  BY <1>1 DEF SharedInv, CorpusTypes
<1>5. SharedByCounts
  BY SharedIsCounted DEF SharedInv
<1>6. Carried' = Carried
  BY <1>1, <1>2 DEF Carried, Carries
<1>7. /\ \A q \in Attachers : Built'[q] = IF q = p THEN NoSnap ELSE Built[q]
      /\ Built[p] = goal[p]
  BY <1>1, <1>2 DEF Built, Building, Locked
<1>8. goal[p] \in leases
  BY <1>4, <1>7, HeldCounts
<1>9. \A s \in Snaps : Count(Attachers, Built', s) = (IF s \in leases' THEN 1 ELSE 0)
  <2> SUFFICES ASSUME NEW s \in Snaps
               PROVE  Count(Attachers, Built', s) = (IF s \in leases' THEN 1 ELSE 0)
    OBVIOUS
  <2>1. Goes(Attachers, Built, Built', p, NoSnap) /\ IsFiniteSet(Attachers)
    BY <1>7, CorpusAssumption DEF Goes
  <2>2. Count(Attachers, Built', s)
          = Count(Attachers, Built, s) + (IF s = NoSnap THEN 1 ELSE 0)
              - (IF s = Built[p] THEN 1 ELSE 0)
    BY <2>1, CountMoves
  <2>3. Count(Attachers, Built, s) = (IF s \in leases THEN 1 ELSE 0) /\ s # NoSnap
    BY <1>5, CorpusAssumption DEF SharedByCounts
  <2> QED BY <1>1, <1>7, <1>8, <2>2, <2>3
<1>10. \A q \in Attachers : point'[q] = "wait" => goal'[q] \in leases'
  BY <1>1, <1>2, <1>5 DEF SharedByCounts
<1>11. SharedByCounts'
  BY <1>1, <1>5, <1>6, <1>9, <1>10 DEF SharedByCounts, Resident
<1> QED BY <1>3, <1>11, SharedIsCounted DEF SharedInv

(* The old view of a root is given up.                                      *)
LEMMA LeaveViewShared ==
  ASSUME SharedInv, NEW p \in Attachers, LeaveView(p)
  PROVE  SharedInv'
<1> DEFINE r == RootOf[p]
<1>1. point[p] = "attach" /\ UNCHANGED <<leases, goal>> /\ r \in Trees
  BY CorpusAssumption DEF LeaveView
<1>2. CASE To(p, "idle") /\ UNCHANGED <<pool, view>>
  BY <1>1, <1>2, StepShared DEF Stages, Carrying, BuildStages
<1>3. CASE /\ pool' = ReleaseHandle(pool, view[r]) /\ To(p, "open")
           /\ view' = [view EXCEPT ![r] = NoSnap]
  <2> HIDE DEF r
  <2>1. pool \in Handles /\ Resident(pool) /\ view[r] \in Snaps \cup {NoSnap}
    BY <1>1, SharedIsCounted DEF SharedInv, CorpusTypes, SharedByCounts
  <2>2. view[r] \in Snaps => pool.refs[view[r]] > 0
    BY <1>1, HeldCounts
  <2>3. /\ pool' \in Handles /\ Resident(pool)'
        /\ \A s \in Snaps : pool'.refs[s] = pool.refs[s] - (IF s = view[r] THEN 1 ELSE 0)
    BY <1>3, <2>1, <2>2, ReleaseCounts
  <2>4. pool.refs \in [Snaps -> Nat]
    BY <2>1 DEF Handles
  <2>5. \A s \in Snaps :
          pool'.refs[s] = pool.refs[s]
            + (IF s = NoSnap THEN 1 ELSE 0) - (IF s = view[r] THEN 1 ELSE 0)
            + (IF "open" \in Carrying /\ s = goal[p] THEN 1 ELSE 0)
            - (IF point[p] \in Carrying /\ s = goal[p] THEN 1 ELSE 0)
    BY <1>1, <2>3, <2>4, CorpusAssumption DEF Carrying
  <2>6. /\ "open" \in Stages /\ point[p] # "idle" /\ "open" # "wait"
        /\ point[p] \notin BuildStages /\ "open" \notin BuildStages /\ NoSnap \in Snaps \cup {NoSnap}
        /\ Rebinds(r, NoSnap)
    BY <1>1, <1>3 DEF Stages, BuildStages, Rebinds
  <2> QED BY <1>1, <1>3, <2>3, <2>5, <2>6, HandleStep
<1> QED BY <1>2, <1>3 DEF LeaveView

(* The attach takes up the handle of its snapshot.                          *)
LEMMA OpenShared ==
  ASSUME SharedInv, NEW p \in Attachers, Open(p)
  PROVE  SharedInv'
<1>1. point[p] = "open" /\ UNCHANGED <<leases, goal, view>> /\ goal[p] \in Snaps
  BY DEF Open, serviceVars, SharedInv, CorpusTypes
<1>2. CASE To(p, "idle") /\ UNCHANGED pool
  BY <1>1, <1>2, StepShared DEF Stages, Carrying, BuildStages
<1>3. CASE /\ To(p, "overlay")
           /\ \/ goal[p] \in pool.cached /\ pool' = Reopen(pool, goal[p])
              \/ goal[p] \notin pool.cached /\ pool' = Opened(pool, goal[p])
  <2>1. pool \in Handles /\ Resident(pool)
    BY SharedIsCounted DEF SharedInv, CorpusTypes, SharedByCounts
  <2>2. /\ pool' \in Handles /\ Resident(pool')
        /\ pool'.refs = [pool.refs EXCEPT ![goal[p]] = @ + 1]
    <3>1. CASE goal[p] \in pool.cached /\ pool' = Reopen(pool, goal[p])
      BY <2>1, <3>1, ReopenedResident
    <3>2. CASE goal[p] \notin pool.cached /\ pool' = Opened(pool, goal[p])
      BY <1>1, <2>1, <3>2, OpenedResident
    <3> QED BY <1>3, <3>1, <3>2
  <2>3. Resident(pool)'
    BY <2>2 DEF Resident
  <2>4. pool.refs \in [Snaps -> Nat]
    BY <2>1 DEF Handles
  <2>5. PICK r \in Trees : r = RootOf[p]
    BY CorpusAssumption
  <2>6. PICK v \in Snaps \cup {NoSnap} : v = view[r] /\ Rebinds(r, v)
    BY <1>1 DEF SharedInv, CorpusTypes, Rebinds
  <2>7. \A s \in Snaps :
          pool'.refs[s] = pool.refs[s]
            + (IF s = v THEN 1 ELSE 0) - (IF s = view[r] THEN 1 ELSE 0)
            + (IF "overlay" \in Carrying /\ s = goal[p] THEN 1 ELSE 0)
            - (IF point[p] \in Carrying /\ s = goal[p] THEN 1 ELSE 0)
    BY <1>1, <2>2, <2>4, <2>6 DEF Carrying
  <2>8. /\ "overlay" \in Stages /\ point[p] # "idle" /\ "overlay" # "wait"
        /\ point[p] \notin BuildStages /\ "overlay" \notin BuildStages
    BY <1>1 DEF Stages, BuildStages
  <2> QED BY <1>1, <1>3, <2>2, <2>3, <2>6, <2>7, <2>8, HandleStep
<1> QED BY <1>2, <1>3 DEF Open

(* The overlay opens, or the handle goes back.                              *)
LEMMA OpenOverlayShared ==
  ASSUME SharedInv, NEW p \in Attachers, OpenOverlay(p)
  PROVE  SharedInv'
<1>1. point[p] = "overlay" /\ UNCHANGED <<leases, goal, view>> /\ goal[p] \in Snaps
  BY DEF OpenOverlay, SharedInv, CorpusTypes
<1>2. CASE To(p, "bind") /\ UNCHANGED pool
  BY <1>1, <1>2, StepShared DEF Stages, Carrying, BuildStages
<1>3. CASE To(p, "idle") /\ pool' = ReleaseHandle(pool, goal[p])
  <2>1. pool \in Handles /\ Resident(pool)
    BY SharedIsCounted DEF SharedInv, CorpusTypes, SharedByCounts
  <2>2. pool.refs[goal[p]] > 0
    <3>1. Carried[p] = goal[p]
      BY <1>1 DEF Carried, Carries
    <3> QED BY <1>1, <3>1, HeldCounts
  <2>3. /\ pool' \in Handles /\ Resident(pool)'
        /\ \A s \in Snaps : pool'.refs[s] = pool.refs[s] - (IF s = goal[p] THEN 1 ELSE 0)
    BY <1>1, <1>3, <2>1, <2>2, ReleaseCounts
  <2>4. pool.refs \in [Snaps -> Nat]
    BY <2>1 DEF Handles
  <2>5. PICK r \in Trees : r = RootOf[p]
    BY CorpusAssumption
  <2>6. PICK v \in Snaps \cup {NoSnap} : v = view[r] /\ Rebinds(r, v)
    BY <1>1 DEF SharedInv, CorpusTypes, Rebinds
  <2>7. \A s \in Snaps :
          pool'.refs[s] = pool.refs[s]
            + (IF s = v THEN 1 ELSE 0) - (IF s = view[r] THEN 1 ELSE 0)
            + (IF "idle" \in Carrying /\ s = goal[p] THEN 1 ELSE 0)
            - (IF point[p] \in Carrying /\ s = goal[p] THEN 1 ELSE 0)
    BY <1>1, <2>3, <2>4, <2>6 DEF Carrying
  <2>8. /\ "idle" \in Stages /\ point[p] # "idle" /\ "idle" # "wait"
        /\ point[p] \notin BuildStages /\ "idle" \notin BuildStages
    BY <1>1 DEF Stages, BuildStages
  <2> QED BY <1>1, <1>3, <2>3, <2>6, <2>7, <2>8, HandleStep
<1> QED BY <1>2, <1>3 DEF OpenOverlay

(* The handle is bound, and what was bound meanwhile goes back.             *)
LEMMA BindShared ==
  ASSUME SharedInv, NEW p \in Attachers, Bind(p)
  PROVE  SharedInv'
<1>1. PICK r \in Trees : r = RootOf[p]
  BY CorpusAssumption
<1>2. /\ point[p] = "bind" /\ UNCHANGED <<leases, goal>> /\ goal[p] \in Snaps /\ To(p, "idle")
      /\ pool' = ReleaseHandle(pool, view[r]) /\ view' = [view EXCEPT ![r] = goal[p]]
  BY <1>1 DEF Bind, SharedInv, CorpusTypes
<1>3. pool \in Handles /\ Resident(pool) /\ view[r] \in Snaps \cup {NoSnap}
  BY SharedIsCounted DEF SharedInv, CorpusTypes, SharedByCounts
<1>4. view[r] \in Snaps => pool.refs[view[r]] > 0
  BY HeldCounts
<1>5. /\ pool' \in Handles /\ Resident(pool)'
      /\ \A s \in Snaps : pool'.refs[s] = pool.refs[s] - (IF s = view[r] THEN 1 ELSE 0)
  BY <1>2, <1>3, <1>4, ReleaseCounts
<1>6. pool.refs \in [Snaps -> Nat]
  BY <1>3 DEF Handles
<1>7. \A s \in Snaps :
        pool'.refs[s] = pool.refs[s]
          + (IF s = goal[p] THEN 1 ELSE 0) - (IF s = view[r] THEN 1 ELSE 0)
          + (IF "idle" \in Carrying /\ s = goal[p] THEN 1 ELSE 0)
          - (IF point[p] \in Carrying /\ s = goal[p] THEN 1 ELSE 0)
  BY <1>2, <1>5, <1>6 DEF Carrying
<1>8. /\ "idle" \in Stages /\ point[p] # "idle" /\ "idle" # "wait"
      /\ point[p] \notin BuildStages /\ "idle" \notin BuildStages
      /\ goal[p] \in Snaps \cup {NoSnap} /\ Rebinds(r, goal[p])
  BY <1>2 DEF Stages, BuildStages, Rebinds
<1> QED BY <1>2, <1>5, <1>7, <1>8, HandleStep

-----------------------------------------------------------------------------
(* The other steps                                                          *)

(* The handles change, the views and the attaches that read them keep the   *)
(* references.                                                              *)
LEMMA PoolShared ==
  ASSUME SharedInv, UNCHANGED <<leases, view, point, goal>>, pool' \in Handles, Resident(pool)',
         \A s \in Snaps : pool'.refs[s] = pool.refs[s]
  PROVE  SharedInv'
<1>1. CorpusTypes'
  BY DEF SharedInv, CorpusTypes
<1>2. Carried' = Carried /\ Built' = Built
  BY DEF Carried, Carries, Built, Building
<1>3. SharedByCounts
  BY SharedIsCounted DEF SharedInv
<1>4. SharedByCounts'
  BY <1>2, <1>3 DEF SharedByCounts
<1> QED BY <1>1, <1>4, SharedIsCounted DEF SharedInv

(* Retained handles that close leave the others as they are.                *)
LEMMA ClosedShared ==
  ASSUME SharedInv, UNCHANGED <<leases, view, point, goal>>, NEW S, NEW q,
         \A s \in S \cap Snaps : pool.refs[s] = 0,
         q \in Seq(Snaps), Len(q) <= Len(pool.lru), ToSet(q) = ToSet(pool.lru) \ S, IsInjective(q),
         pool' = [pool EXCEPT !.cached = @ \ S, !.lru = q]
  PROVE  SharedInv'
<1>1. pool \in Handles /\ Resident(pool)
  BY SharedIsCounted DEF SharedInv, CorpusTypes, SharedByCounts
<1> DEFINE c == pool.cached \ S
<1>2. c \in SUBSET Snaps /\ pool.refs \in [Snaps -> Nat] /\ pool.lru \in Seq(Snaps)
  BY <1>1 DEF Handles
<1>3. pool' = [pool EXCEPT !.cached = c, !.lru = q]
  OBVIOUS
<1> HIDE DEF c
<1>4. pool' \in Handles
  BY <1>1, <1>2, <1>3 DEF Handles
<1>5. pool'.cached = c /\ pool'.lru = q /\ pool'.refs = pool.refs
  BY <1>1, <1>3 DEF Handles
<1>6. Len(q) <= Retained
  BY <1>1, <1>2, CorpusAssumption DEF Resident
<1>7. ToSet(pool'.lru) = {s \in pool'.cached : pool'.refs[s] = 0}
  BY <1>1, <1>5 DEF Resident, c
<1>8. ASSUME NEW s \in Snaps, pool'.refs[s] > 0 PROVE s \in pool'.cached
  BY <1>1, <1>5, <1>8 DEF Resident, c
<1>9. Resident(pool)'
  BY <1>5, <1>6, <1>7, <1>8 DEF Resident
<1> QED BY <1>4, <1>5, <1>9, PoolShared

(* A root's manager goes and gives up its view.                             *)
LEMMA ParkShared ==
  ASSUME SharedInv, NEW r \in Trees, Park(r)
  PROVE  SharedInv'
<1>1. /\ UNCHANGED <<leases, point, goal>> /\ pool' = ReleaseHandle(pool, view[r])
      /\ view' = [view EXCEPT ![r] = NoSnap]
  BY DEF Park
<1>2. pool \in Handles /\ Resident(pool) /\ view[r] \in Snaps \cup {NoSnap}
  BY SharedIsCounted DEF SharedInv, CorpusTypes, SharedByCounts
<1>3. view[r] \in Snaps => pool.refs[view[r]] > 0
  BY HeldCounts
<1>4. /\ pool' \in Handles /\ Resident(pool)'
      /\ \A s \in Snaps : pool'.refs[s] = pool.refs[s] - (IF s = view[r] THEN 1 ELSE 0)
  BY <1>1, <1>2, <1>3, ReleaseCounts
<1>5. CorpusTypes'
  BY <1>1, <1>4 DEF SharedInv, CorpusTypes
<1>6. Carried' = Carried /\ Built' = Built
  BY <1>1 DEF Carried, Carries, Built, Building
<1>7. SharedByCounts
  BY SharedIsCounted DEF SharedInv
<1>8. ASSUME NEW s \in Snaps
      PROVE  pool'.refs[s] = Count(Trees, view', s) + Count(Attachers, Carried', s)
  <2>1. IsFiniteSet(Trees) /\ Goes(Trees, view, view', r, NoSnap)
    BY <1>1, CorpusAssumption DEF SharedInv, CorpusTypes, Goes
  <2>2. Count(Trees, view', s)
          = Count(Trees, view, s) + (IF s = NoSnap THEN 1 ELSE 0) - (IF s = view[r] THEN 1 ELSE 0)
    BY <2>1, CountMoves
  <2>3. /\ pool.refs[s] = Count(Trees, view, s) + Count(Attachers, Carried, s) /\ s # NoSnap
        /\ Count(Trees, view, s) \in Nat /\ Count(Attachers, Carried, s) \in Nat
    BY <1>7, HeldCounts, CorpusAssumption DEF SharedByCounts
  <2> QED BY <1>4, <1>6, <2>2, <2>3
<1>9. SharedByCounts'
  BY <1>1, <1>4, <1>6, <1>7, <1>8 DEF SharedByCounts
<1> QED BY <1>5, <1>9, SharedIsCounted DEF SharedInv

(* Nothing is held, and nobody builds or waits.                             *)
Vacant ==
  /\ pool = [cached |-> {}, refs |-> [s \in Snaps |-> 0], lru |-> <<>>] /\ leases = {}
  /\ view = [r \in Trees |-> NoSnap] /\ point = [p \in Attachers |-> "idle"]
  /\ goal = [p \in Attachers |-> NoSnap]

LEMMA VacantShared == Vacant => SharedInv
<1> SUFFICES ASSUME Vacant PROVE SharedInv
  OBVIOUS
<1> USE DEF Vacant
<1>1. CorpusTypes
  BY DEF CorpusTypes, Handles, Stages
<1>2. Resident(pool)
  <2>1. /\ pool.cached = {} /\ pool.lru = <<>> /\ \A s \in Snaps : pool.refs[s] = 0
        /\ Len(pool.lru) = 0 /\ DOMAIN pool.lru = {}
    OBVIOUS
  <2>2. ToSet(pool.lru) = {} /\ IsInjective(pool.lru)
    BY <2>1 DEF ToSet, IsInjective
  <2> QED BY <2>1, <2>2, CorpusAssumption DEF Resident
<1>3. ASSUME NEW s \in Snaps
      PROVE  /\ Count(Trees, view, s) = 0 /\ Count(Attachers, Carried, s) = 0
             /\ Count(Attachers, Built, s) = 0
  <2>1. {r \in Trees : view[r] = s} = {}
    BY CorpusAssumption
  <2>2. {p \in Attachers : Carried[p] = s} = {} /\ {p \in Attachers : Built[p] = s} = {}
    BY CorpusAssumption DEF Carried, Built, Carries, Building, Locked
  <2> QED BY <2>1, <2>2, FS_EmptySet DEF Count
<1>4. SharedByCounts
  BY <1>2, <1>3 DEF SharedByCounts
<1> QED BY <1>1, <1>4, SharedIsCounted DEF SharedInv

(* Initially the invariant holds.                                           *)
LEMMA SharedInit == CorpusInit => SharedInv
  BY VacantShared DEF CorpusInit, Vacant

(* Every step keeps the invariant.                                          *)
LEMMA SharedStep == SharedInv /\ [CorpusNext]_corpusVars => SharedInv'
<1> SUFFICES ASSUME SharedInv, [CorpusNext]_corpusVars PROVE SharedInv'
  OBVIOUS
<1>1. CASE UNCHANGED corpusVars
  BY <1>1, StillShared DEF corpusVars, serviceVars
<1>2. ASSUME NEW p \in Attachers, Attach(p) \/ WaitExpires(p) \/ \E s \in Snaps : Resolve(p, s)
      PROVE  SharedInv'
  <2>1. CASE \/ Pin(p) \/ EnsureCorpus(p) \/ Woken(p) \/ WaitExpires(p) \/ ResetStore(p)
             \/ BuildStore(p) \/ IndexStart(p) \/ IndexEnd(p) \/ Verify(p) \/ PublishTable(p)
             \/ PublishManifest(p) \/ CloseStore(p)
    BY <2>1, PlainSteps
  <2>2. ASSUME NEW c \in Chunks, IndexChunk(p, c) PROVE SharedInv'
    BY <2>2, StillShared DEF IndexChunk
  <2>3. CASE BeginBuild(p)
    BY <2>3, BeginBuildShared
  <2>4. CASE EndBuild(p)
    BY <2>4, EndBuildShared
  <2>5. CASE LeaveView(p)
    BY <2>5, LeaveViewShared
  <2>6. CASE Open(p)
    BY <2>6, OpenShared
  <2>7. CASE OpenOverlay(p)
    BY <2>7, OpenOverlayShared
  <2>8. CASE Bind(p)
    BY <2>8, BindShared
  <2>9. CASE \E s \in Snaps : Resolve(p, s)
    BY <2>9, ResolveShared
  <2> QED BY <1>2, <2>1, <2>2, <2>3, <2>4, <2>5, <2>6, <2>7, <2>8, <2>9 DEF Attach
<1>3. ASSUME NEW r \in Trees, Park(r) \/ RemoveTree(r) PROVE SharedInv'
  <2>1. CASE RemoveTree(r)
    BY <2>1, StillShared DEF RemoveTree, serviceVars
  <2> QED BY <1>3, <2>1, ParkShared
<1>4. CASE CloseRegistry
  <2>1. /\ pool \in Handles /\ Resident(pool) /\ UNCHANGED <<leases, view, point, goal>>
        /\ pool' = [pool EXCEPT !.cached = @ \ ToSet(pool.lru), !.lru = <<>>]
    BY <1>4, SharedIsCounted
       DEF SharedInv, CorpusTypes, SharedByCounts, CloseRegistry, serviceVars
  <2>2. \A s \in ToSet(pool.lru) \cap Snaps : pool.refs[s] = 0
    BY <2>1 DEF Resident
  <2> DEFINE q == <<>>
  <2>3. /\ q \in Seq(Snaps) /\ Len(q) <= Len(pool.lru) /\ DOMAIN q = {}
    BY <2>1 DEF Handles
  <2>4. ToSet(q) = ToSet(pool.lru) \ ToSet(pool.lru) /\ IsInjective(q)
    BY <2>3 DEF ToSet, IsInjective
  <2> QED BY <2>1, <2>2, <2>3, <2>4, ClosedShared
<1>5. CASE CorpusCrash
  <2>1. Vacant'
    BY <1>5 DEF CorpusCrash, Vacant
  <2> QED BY <2>1, VacantShared, PTL
<1>6. ASSUME NEW c \in Chunks, Ages(c) PROVE SharedInv'
  BY <1>6, StillShared DEF Ages, serviceVars
<1>7. CASE BeginSweep
  BY <1>7, StillShared DEF BeginSweep, serviceVars
<1>8. CASE Reclaim
  <2> DEFINE doomed == {s \in manifests \ sweep.keep : pool.refs[s] = 0}
  <2>1. PICK q \in Remaining(pool.lru, doomed) :
          pool' = [pool EXCEPT !.cached = @ \ doomed, !.lru = q]
    BY <1>8 DEF Reclaim
  <2>2. pool \in Handles /\ Resident(pool) /\ UNCHANGED <<leases, view, point, goal>>
    BY <1>8, SharedIsCounted DEF SharedInv, CorpusTypes, SharedByCounts, Reclaim, serviceVars
  <2>3. \A s \in doomed \cap Snaps : pool.refs[s] = 0
    OBVIOUS
  <2> HIDE DEF doomed
  <2>4. /\ q \in Seq(Snaps) /\ Len(q) <= Len(pool.lru)
        /\ ToSet(q) = ToSet(pool.lru) \ doomed /\ IsInjective(q)
    BY <2>2, RemainingList DEF Handles, Resident
  <2> QED BY <2>1, <2>2, <2>3, <2>4, ClosedShared
<1>9. CASE Sweep /\ ~Reclaim
  <2>1. UNCHANGED <<pool, leases, view, point, goal>>
    BY <1>9 DEF Sweep, ReadMarks, Recheck, ReadHeld, ReadReach, RemoveDoomed, RemoveOrphans,
                EvictUnreached, Prune, serviceVars
  <2> QED BY <2>1, StillShared
<1> QED BY <1>1, <1>2, <1>3, <1>4, <1>5, <1>6, <1>7, <1>8, <1>9 DEF CorpusNext

(* A handle has as many references as views that read it and attaches that  *)
(* carry it, the LRU lists the open handles without one, and every lease    *)
(* has one builder: for any number of attaches, roots and snapshots,        *)
(* through parks, sweeps, crashes and the end of the registry               *)
(* (corpusStore.open, release, beginBuild, endBuild, AttachView).           *)
THEOREM CorpusSharedHolds == CorpusSpec => []CorpusShared
<1>1. SharedInv => CorpusShared
  BY DEF SharedInv
<1> QED BY <1>1, SharedInit, SharedStep, PTL DEF CorpusSpec

-----------------------------------------------------------------------------
(* What a sweep spares                                                      *)

Spared == since.held \cup since.pinned

(* The corpora that were held or named ever since the sweep began are among *)
(* the keys it found held, in the keep set it took from those and from the  *)
(* markers, and their chunks among what each of its counts found.           *)
SweepInv ==
  /\ DOMAIN sweep = {"step", "keep", "held", "reach", "counted"}
  /\ DOMAIN records = Chunks /\ DOMAIN rowsOf = Snaps /\ tables \subseteq Snaps
  /\ since.held \subseteq tables \cap (pool.cached \cup leases)
  /\ since.pinned \subseteq tables \cap Reached
  /\ sweep.step \in {"reach", "doom", "orphans", "evict"} => since.held \subseteq sweep.held
  /\ sweep.step \in {"doom", "orphans", "evict"} => Spared \subseteq sweep.reach
  /\ sweep.step = "orphans" => \A s \in Spared : rowsOf[s] \subseteq sweep.counted
  /\ sweep.step = "evict" => Spared \subseteq sweep.counted

(* A step of the sweep changes the fields it names.                         *)
LEMMA SweepMoves ==
  ASSUME DOMAIN sweep = {"step", "keep", "held", "reach", "counted"},
         NEW from, NEW to, NEW fields, SweepStep(from, to, fields)
  PROVE  /\ DOMAIN sweep' = {"step", "keep", "held", "reach", "counted"}
         /\ sweep.step = from /\ sweep'.step = to
         /\ sweep'.held = IF "held" \in DOMAIN fields THEN fields["held"] ELSE sweep.held
         /\ sweep'.reach = IF "reach" \in DOMAIN fields THEN fields["reach"] ELSE sweep.reach
         /\ sweep'.counted = IF "counted" \in DOMAIN fields THEN fields["counted"]
                             ELSE sweep.counted
  BY DEF SweepStep

(* What was held or named since the sweep began can only become less.       *)
LEMMA SinceShrinks ==
  ASSUME Since
  PROVE  /\ since'.held \subseteq tables' \cap (pool.cached \cup leases)'
         /\ since'.pinned \subseteq tables' \cap Reached'
         /\ Spared' = since'.held \cup since'.pinned
         /\ \A s \in Spared' : rowsOf'[s] = rowsOf[s]
         /\ sweep.step # "idle" => /\ since'.held \subseteq since.held
                                   /\ since'.pinned \subseteq since.pinned
                                   /\ Spared' \subseteq Spared
  BY DEF Since, Spared

(* A step of anybody but the sweep.                                         *)
LEMMA NotSwept ==
  ASSUME SweepInv, Since, UNCHANGED sweep, DOMAIN records' = Chunks, DOMAIN rowsOf' = Snaps,
         tables' \subseteq Snaps
  PROVE  SweepInv'
  BY SinceShrinks DEF SweepInv

LEMMA SweepInvInit == CorpusInit => SweepInv
  BY DEF CorpusInit, SweepInv, NoSweep, Spared

(* Every step keeps the invariant.                                          *)
LEMMA SweepInvStep ==
  ASSUME SharedInv, SweepInv, CorpusNext
  PROVE  SweepInv'
<1>1. Since
  BY DEF CorpusNext
<1>2. /\ DOMAIN records = Chunks /\ DOMAIN rowsOf = Snaps /\ tables \subseteq Snaps
      /\ DOMAIN sweep = {"step", "keep", "held", "reach", "counted"}
  BY DEF SweepInv
<1>3. ASSUME NEW p \in Attachers, Attach(p) \/ WaitExpires(p) \/ \E s \in Snaps : Resolve(p, s)
      PROVE  SweepInv'
  <2>1. UNCHANGED sweep
    BY <1>3 DEF Attach, Pin, EnsureCorpus, BeginBuild, Woken, ResetStore, BuildStore, IndexStart,
                IndexChunk, IndexEnd, Verify, PublishTable, PublishManifest, CloseStore, EndBuild,
                LeaveView, Open, OpenOverlay, Bind, WaitExpires, Resolve
  <2>2. CASE PublishTable(p)
    <3>1. goal[p] \in Snaps
      BY <2>2 DEF PublishTable, SharedInv, CorpusTypes
    <3> QED BY <1>1, <1>2, <2>1, <2>2, <3>1, NotSwept DEF PublishTable
  <2>3. ASSUME NEW c \in Chunks, IndexChunk(p, c) PROVE SweepInv'
    BY <1>1, <1>2, <2>1, <2>3, NotSwept DEF IndexChunk
  <2>4. CASE Open(p)
    BY <1>1, <1>2, <2>1, <2>4, NotSwept DEF Open
  <2>5. CASE /\ ~PublishTable(p) /\ ~Open(p)
             /\ ~(\E c \in Chunks : IndexChunk(p, c))
    <3>1. UNCHANGED <<tables, rowsOf, records>>
      BY <1>3, <2>5
         DEF Attach, Pin, EnsureCorpus, BeginBuild, Woken, ResetStore, BuildStore, IndexStart,
             IndexEnd, Verify, PublishManifest, CloseStore, EndBuild,
             LeaveView, OpenOverlay, Bind, WaitExpires, Resolve, storeVars
    <3> QED BY <1>1, <1>2, <2>1, <3>1, NotSwept
  <2> QED BY <2>2, <2>3, <2>4, <2>5
<1>4. ASSUME NEW r \in Trees, Park(r) \/ RemoveTree(r) PROVE SweepInv'
  <2>1. UNCHANGED <<sweep, tables, rowsOf, records>>
    BY <1>4 DEF Park, RemoveTree, storeVars
  <2> QED BY <1>1, <1>2, <2>1, NotSwept
<1>5. CASE CloseRegistry
  <2>1. UNCHANGED <<sweep, tables, rowsOf, records>>
    BY <1>5 DEF CloseRegistry, storeVars
  <2> QED BY <1>1, <1>2, <2>1, NotSwept
<1>6. CASE CorpusCrash
  <2>1. sweep' = NoSweep /\ UNCHANGED <<tables, rowsOf, records>>
    BY <1>6 DEF CorpusCrash, storeVars
  <2> QED BY <1>1, <1>2, <2>1, SinceShrinks DEF SweepInv, NoSweep
<1>7. ASSUME NEW c \in Chunks, Ages(c) PROVE SweepInv'
  BY <1>1, <1>2, <1>7, NotSwept DEF Ages
<1>8. CASE BeginSweep
  <2>1. /\ UNCHANGED <<tables, rowsOf, records>>
        /\ \/ SweepStep("idle", "marks", [keep |-> ProtectedKeys])
           \/ SweepStep("idle", "hold", [keep |-> Snaps])
    BY <1>8 DEF BeginSweep, storeVars
  <2>2. sweep'.step \in {"marks", "hold"} /\ DOMAIN sweep' = DOMAIN sweep
    BY <1>2, <2>1, SweepMoves
  <2> QED BY <1>1, <1>2, <2>1, <2>2, SinceShrinks DEF SweepInv
<1>9. CASE ReadMarks \/ Recheck \/ Reclaim \/ Prune
  <2>1. /\ UNCHANGED <<tables, rowsOf, records>>
        /\ sweep'.step \in {"recheck", "reclaim", "hold", "idle"} /\ DOMAIN sweep' = DOMAIN sweep
    <3>1. CASE ReadMarks
      BY <1>2, <3>1, SweepMoves DEF ReadMarks, storeVars
    <3>2. CASE Recheck
      BY <1>2, <3>2, SweepMoves DEF Recheck, storeVars
    <3>3. CASE Reclaim
      BY <1>2, <3>3, SweepMoves DEF Reclaim, storeVars
    <3>4. CASE Prune
      BY <1>2, <3>4 DEF Prune, NoSweep
    <3> QED BY <1>9, <3>1, <3>2, <3>3, <3>4
  <2> QED BY <1>1, <1>2, <2>1, SinceShrinks DEF SweepInv
<1>10. CASE ReadHeld
  <2>1. /\ UNCHANGED <<tables, rowsOf, records, pool, leases>>
        /\ SweepStep("hold", "reach", [held |-> pool.cached \cup leases])
    BY <1>10 DEF ReadHeld, storeVars
  <2>2. /\ sweep.step = "hold" /\ sweep'.step = "reach" /\ DOMAIN sweep' = DOMAIN sweep
        /\ sweep'.held = pool.cached \cup leases
    BY <1>2, <2>1, SweepMoves
  <2> QED BY <1>1, <1>2, <2>1, <2>2, SinceShrinks DEF SweepInv
<1>11. CASE ReadReach
  <2> DEFINE reach == IF opted THEN sweep.held \cup Reached ELSE Snaps
  <2>1. /\ UNCHANGED <<tables, rowsOf, records>>
        /\ SweepStep("reach", "doom", [reach |-> reach])
    BY <1>11 DEF ReadReach, storeVars
  <2>2. /\ sweep.step = "reach" /\ sweep'.step = "doom" /\ DOMAIN sweep' = DOMAIN sweep
        /\ sweep'.held = sweep.held /\ sweep'.reach = reach
    <3> HIDE DEF reach
    <3> QED BY <1>2, <2>1, SweepMoves
  <2>3. since'.held \subseteq sweep.held /\ Spared' \subseteq sweep'.reach
    BY <1>1, <1>2, <2>2, SinceShrinks DEF SweepInv
  <2> QED BY <1>1, <1>2, <2>1, <2>2, <2>3, SinceShrinks DEF SweepInv
<1>12. CASE RemoveDoomed
  <2>1. /\ UNCHANGED <<rowsOf, records>> /\ tables' = tables \cap sweep.reach
        /\ SweepStep("doom", "orphans", [counted |-> Named(tables')])
    BY <1>12 DEF RemoveDoomed
  <2>2. /\ sweep.step = "doom" /\ sweep'.step = "orphans" /\ DOMAIN sweep' = DOMAIN sweep
        /\ sweep'.held = sweep.held /\ sweep'.reach = sweep.reach
        /\ sweep'.counted = Named(tables')
    BY <1>2, <2>1, SweepMoves
  <2>3. \A s \in Spared' : rowsOf'[s] \subseteq Named(tables')
    BY <1>1, <2>1, SinceShrinks DEF Named
  <2>4. since'.held \subseteq sweep'.held /\ Spared' \subseteq sweep'.reach
    BY <1>1, <2>2, SinceShrinks DEF SweepInv
  <2>5. /\ \A s \in Spared' : rowsOf'[s] \subseteq sweep'.counted
        /\ tables' \subseteq Snaps
    BY <1>2, <2>1, <2>2, <2>3
  <2>6. /\ since'.held \subseteq tables' \cap (pool.cached \cup leases)'
        /\ since'.pinned \subseteq tables' \cap Reached'
    BY <1>1, SinceShrinks
  <2> QED BY <1>2, <2>1, <2>2, <2>4, <2>5, <2>6 DEF SweepInv
<1>13. CASE RemoveOrphans
  <2>1. /\ UNCHANGED <<rowsOf, tables>> /\ DOMAIN records' = Chunks
        /\ SweepStep("orphans", "evict", [counted |-> tables])
    BY <1>13 DEF RemoveOrphans
  <2>2. /\ sweep.step = "orphans" /\ sweep'.step = "evict" /\ DOMAIN sweep' = DOMAIN sweep
        /\ sweep'.held = sweep.held /\ sweep'.reach = sweep.reach /\ sweep'.counted = tables
    BY <1>2, <2>1, SweepMoves
  <2>3. since'.held \subseteq sweep'.held /\ Spared' \subseteq sweep'.reach
    BY <1>1, <2>2, SinceShrinks DEF SweepInv
  <2>4. Spared' \subseteq tables
    BY <1>1, <2>1, SinceShrinks
  <2> QED BY <1>1, <1>2, <2>1, <2>2, <2>3, <2>4, SinceShrinks DEF SweepInv
<1>14. ASSUME NEW S \in SUBSET Snaps, EvictUnreached(S) PROVE SweepInv'
  <2>1. /\ UNCHANGED rowsOf /\ tables' = tables \ S /\ DOMAIN records' = Chunks
        /\ SweepStep("evict", "prune", [counted |-> {}])
    BY <1>14 DEF EvictUnreached
  <2>2. sweep'.step = "prune" /\ DOMAIN sweep' = DOMAIN sweep
    BY <1>2, <2>1, SweepMoves
  <2> QED BY <1>1, <1>2, <2>1, <2>2, SinceShrinks DEF SweepInv
<1> QED BY <1>3, <1>4, <1>5, <1>6, <1>7, <1>8, <1>9, <1>10, <1>11, <1>12, <1>13, <1>14
        DEF CorpusNext, Sweep

(* A step that leaves a corpus its table and the records of its chunks.     *)
LEMMA NothingRemoved ==
  ASSUME NEW s, s \in tables', Intact(s), rowsOf'[s] = rowsOf[s],
         \A c \in rowsOf[s] : records[c] # "absent" => records'[c] # "absent"
  PROVE  s \in tables' /\ Intact(s)'
  BY DEF Intact, OnDisk

(* No step takes a corpus's table or records from it while the sweep is to  *)
(* spare it.                                                                *)
LEMMA StepSpares ==
  ASSUME SharedInv, SweepInv, CorpusNext, NEW s \in Spared, Intact(s), rowsOf'[s] = rowsOf[s]
  PROVE  s \in tables' /\ Intact(s)'
<1>1. /\ s \in tables /\ DOMAIN records = Chunks
      /\ \A c \in rowsOf[s] : c \in Chunks /\ records[c] # "absent"
  BY DEF SweepInv, Spared, Intact, OnDisk
<1>2. CASE /\ s \in tables' /\ \A c \in rowsOf[s] : records'[c] # "absent"
  BY <1>1, <1>2, NothingRemoved
<1>3. ASSUME NEW p \in Attachers, Attach(p) \/ WaitExpires(p) \/ \E t \in Snaps : Resolve(p, t)
      PROVE  s \in tables' /\ \A c \in rowsOf[s] : records'[c] # "absent"
  <2>1. CASE PublishTable(p)
    BY <1>1, <2>1 DEF PublishTable
  <2>2. ASSUME NEW c \in Chunks, IndexChunk(p, c)
        PROVE  s \in tables' /\ \A d \in rowsOf[s] : records'[d] # "absent"
    BY <1>1, <2>2 DEF IndexChunk
  <2>3. CASE Open(p)
    BY <1>1, <2>3 DEF Open
  <2>4. CASE ~PublishTable(p) /\ ~Open(p) /\ ~(\E c \in Chunks : IndexChunk(p, c))
    <3>1. UNCHANGED <<tables, records>>
      BY <1>3, <2>4
         DEF Attach, Pin, EnsureCorpus, BeginBuild, Woken, ResetStore, BuildStore, IndexStart,
             IndexEnd, Verify, PublishManifest, CloseStore, EndBuild,
             LeaveView, OpenOverlay, Bind, WaitExpires, Resolve, storeVars
    <3> QED BY <1>1, <3>1
  <2> QED BY <2>1, <2>2, <2>3, <2>4
<1>4. CASE \/ \E r \in Trees : Park(r) \/ RemoveTree(r)
           \/ CloseRegistry \/ CorpusCrash \/ BeginSweep
           \/ ReadMarks \/ Recheck \/ Reclaim \/ ReadHeld \/ ReadReach \/ Prune
  <2>1. UNCHANGED <<tables, records>>
    BY <1>4 DEF Park, RemoveTree, CloseRegistry, CorpusCrash, BeginSweep, ReadMarks, Recheck,
                Reclaim, ReadHeld, ReadReach, Prune, storeVars
  <2> QED BY <1>1, <1>2, <2>1
<1>5. ASSUME NEW c \in Chunks, Ages(c)
      PROVE  s \in tables' /\ \A d \in rowsOf[s] : records'[d] # "absent"
  BY <1>1, <1>5 DEF Ages
<1>6. CASE RemoveDoomed
  <2>1. sweep.step = "doom" /\ tables' = tables \cap sweep.reach /\ UNCHANGED records
    BY <1>6 DEF RemoveDoomed, SweepStep
  <2>2. s \in sweep.reach
    BY <2>1 DEF SweepInv
  <2> QED BY <1>1, <1>2, <2>1, <2>2
<1>7. CASE RemoveOrphans
  <2>1. /\ sweep.step = "orphans" /\ UNCHANGED tables
        /\ records' = [c \in Chunks |->
             IF records[c] = "old" /\ c \notin sweep.counted THEN "absent" ELSE records[c]]
    BY <1>7 DEF RemoveOrphans, SweepStep
  <2>2. rowsOf[s] \subseteq sweep.counted
    BY <2>1 DEF SweepInv
  <2> QED BY <1>1, <1>2, <2>1, <2>2
<1>8. ASSUME NEW S \in SUBSET Snaps, EvictUnreached(S)
      PROVE  s \in tables' /\ \A c \in rowsOf[s] : records'[c] # "absent"
  <2>1. /\ sweep.step = "evict" /\ S \subseteq tables \ sweep.reach /\ tables' = tables \ S
        /\ records' = [c \in Chunks |->
             IF c \in Named(S) \ Named(sweep.counted \ S) THEN "absent" ELSE records[c]]
    BY <1>8 DEF EvictUnreached, SweepStep
  <2>2. s \in sweep.reach /\ s \in sweep.counted
    BY <2>1 DEF SweepInv
  <2>3. s \notin S /\ rowsOf[s] \subseteq Named(sweep.counted \ S)
    BY <2>1, <2>2 DEF Named
  <2> QED BY <1>1, <2>1, <2>3
<1> QED BY <1>2, <1>3, <1>4, <1>5, <1>6, <1>7, <1>8 DEF CorpusNext, Sweep

(* A sweep takes nothing from a corpus that has been open, leased or named  *)
(* by a live root ever since it began, through its passes and whatever the  *)
(* attaches, parks and crashes between them (runHygieneLocked,              *)
(* sweepOrphanChunkRecords, evictSnapshotsUnderBudget).                     *)
THEOREM SweepSparesHolds == CorpusSpec => SweepSpares
<1>1. CorpusInit => SharedInv /\ SweepInv
  BY SharedInit, SweepInvInit
<1>2. SharedInv /\ SweepInv /\ [CorpusNext]_corpusVars => (SharedInv /\ SweepInv)'
  <2>1. CASE UNCHANGED corpusVars
    BY <2>1, SharedStep
       DEF SweepInv, Spared, Reached, corpusVars, storeVars, ownVars
  <2> QED BY <2>1, SharedStep, SweepInvStep
<1>3. SharedInv /\ SweepInv /\ [CorpusNext]_corpusVars
        => [\A s \in since.held \cup since.pinned :
              Intact(s) /\ rowsOf'[s] = rowsOf[s] => s \in tables' /\ Intact(s)']_corpusVars
  BY StepSpares DEF Spared
<1> QED BY <1>1, <1>2, <1>3, PTL DEF CorpusSpec, SweepSpares
=============================================================================
