--------------------------- MODULE SessionRegistry ---------------------------
(***************************************************************************)
(* One session in the manager's registry: restored from the store when it   *)
(* is first used (getOrRestoreSession), promoted from a chat to a project   *)
(* (FrontendAPI.PromoteSessionToProject with the evict, the reservation and *)
(* the moves of manager_promote.go), deleted, and drained by Shutdown.      *)
(* A step is one hold of m.mu, one transaction, or one change of the disk.  *)
(*                                                                         *)
(* The session is idle: what a running task or a compaction refuses and     *)
(* delays is in SessionRun.                                                 *)
(***************************************************************************)
EXTENDS Integers, FiniteSets

CONSTANT Openers   \* calls that need the session in memory

VARIABLES
  memory,     \* m.sessions[id]
  flight,     \* restoreInFlight: the call that builds the session
  parked,     \* restoreParked
  quitting,   \* shuttingDown
  row,        \* the project of the session's row in the store
  chatDir, codeDir,   \* the session's directory under each project
  lifted,     \* the files' workspace is in the project's Workspace slot
  project,    \* the promotion's project exists
  place,      \* where each call is
  held,       \* what each call has read or built
  handles,    \* builds whose log and dump files are open
  (* history *)
  builds,     \* sessions built so far
  crossed     \* a decision of an earlier hold was overtaken (see below)

mapVars == <<memory, flight, parked, quitting>>
diskVars == <<chatDir, codeDir, lifted, project>>
callVars == <<place, held>>
registryPastVars == <<builds, crossed>>
registryVars == <<memory, flight, parked, quitting, row, chatDir, codeDir, lifted, project,
                  place, held, handles, builds, crossed>>

None == [project |-> "none", build |-> 0]
NoCall == "nobody"
Calls == Openers \cup {"promote", "delete", "quit"}

ASSUME OpenersAssumption == Openers \cap {NoCall, "promote", "delete", "quit"} = {}

MoveTo(c, label) == place' = [place EXCEPT ![c] = label]
Hold(c, p, b) == held' = [held EXCEPT ![c] = [project |-> p, build |-> b]]

RegistryInit ==
  /\ memory = None /\ flight = NoCall /\ parked = FALSE /\ quitting = FALSE
  /\ row = "chat"
  /\ chatDir = "files" /\ codeDir = "absent" /\ lifted = FALSE /\ project = FALSE
  /\ place = [c \in Calls |-> "idle"]
  /\ held = [c \in Calls |-> None]
  /\ handles = {} /\ builds = 0 /\ crossed = FALSE

(* Directories are created on the way when they are missing.                *)
Ensure(p) ==
  /\ chatDir' = IF p = "chat" /\ chatDir = "absent" THEN "made" ELSE chatDir
  /\ codeDir' = IF p = "code" /\ codeDir = "absent" THEN "made" ELSE codeDir

-----------------------------------------------------------------------------
(* getOrRestoreSession                                                      *)

Lookup(o) ==
  /\ place[o] = "idle"
  /\ memory = None /\ ~quitting
  /\ MoveTo(o, "load")
  /\ UNCHANGED <<mapVars, row, diskVars, held, handles, registryPastVars>>

(* The row is read outside the lock; a chat's workspace is made on the way.  *)
Load(o) ==
  /\ place[o] = "load"
  /\ IF row = "gone" THEN MoveTo(o, "done") /\ UNCHANGED <<held, chatDir, codeDir>>
     ELSE /\ Hold(o, row, 0)
          /\ MoveTo(o, IF row = "chat" THEN "mkdir" ELSE "reserve")
          /\ UNCHANGED <<chatDir, codeDir>>
  /\ UNCHANGED <<mapVars, row, lifted, project, handles, registryPastVars>>

MakeWorkspace(o) ==
  /\ place[o] = "mkdir"
  /\ Ensure("chat")
  /\ MoveTo(o, "reserve")
  /\ UNCHANGED <<mapVars, row, lifted, project, held, handles, registryPastVars>>

(* Mutant: a parked session is restored all the same.                       *)
ReserveUnparked(o) ==
  /\ place[o] = "reserve"
  /\ crossed' = (crossed \/ (memory = None /\ flight = NoCall /\ held[o].project # row))
  /\ IF memory # None THEN MoveTo(o, "done") /\ UNCHANGED flight
     ELSE IF flight # NoCall THEN MoveTo(o, "share") /\ UNCHANGED flight
     ELSE MoveTo(o, "build") /\ flight' = o
  /\ UNCHANGED <<memory, parked, quitting, row, diskVars, held, handles, builds>>

(* Mutant: a second call builds the session too.                            *)
ReserveAgain(o) ==
  /\ place[o] = "reserve"
  /\ crossed' = (crossed \/ (memory = None /\ ~parked /\ held[o].project # row))
  /\ IF memory # None THEN MoveTo(o, "done") /\ UNCHANGED flight
     ELSE IF parked THEN MoveTo(o, "parked") /\ UNCHANGED flight
     ELSE MoveTo(o, "build") /\ flight' = o
  /\ UNCHANGED <<memory, parked, quitting, row, diskVars, held, handles, builds>>

(* One call builds the session; the others wait for it, or for the end of a *)
(* promotion.  What the call has read of the row may be stale by now.       *)
Reserve(o) ==
  /\ place[o] = "reserve"
  /\ crossed' = (crossed \/ (memory = None /\ ~parked /\ flight = NoCall
                             /\ held[o].project # row))
  /\ IF memory # None THEN MoveTo(o, "done") /\ UNCHANGED flight
     ELSE IF parked THEN MoveTo(o, "parked") /\ UNCHANGED flight
     ELSE IF flight # NoCall THEN MoveTo(o, "share") /\ UNCHANGED flight
     ELSE MoveTo(o, "build") /\ flight' = o
  /\ UNCHANGED <<memory, parked, quitting, row, diskVars, held, handles, builds>>

(* parkCh is closed: the call starts over.                                   *)
Unparked(o) ==
  /\ place[o] = "parked" /\ ~parked
  /\ IF memory = None /\ ~quitting THEN MoveTo(o, "load") ELSE MoveTo(o, "done")
  /\ held' = [held EXCEPT ![o] = None]
  /\ UNCHANGED <<mapVars, row, diskVars, handles, registryPastVars>>

Shared(o) ==
  /\ place[o] = "share" /\ flight = NoCall
  /\ MoveTo(o, "done")
  /\ UNCHANGED <<mapVars, row, diskVars, held, handles, registryPastVars>>

(* The slow part, which opens the log and dump files; any step of it may    *)
(* fail, and a failure closes them.                                         *)
Build(o) ==
  /\ place[o] = "build"
  /\ \/ /\ Ensure(held[o].project)
        /\ builds' = builds + 1
        /\ handles' = handles \cup {builds + 1}
        /\ Hold(o, held[o].project, builds + 1)
        /\ MoveTo(o, "insert")
     \/ /\ Ensure(held[o].project)
        /\ MoveTo(o, "finish")
        /\ UNCHANGED <<builds, handles, held>>
  /\ UNCHANGED <<mapVars, row, lifted, project, crossed>>

(* Mutant: shuttingDown is not looked at again.                             *)
InsertLate(o) ==
  /\ place[o] = "insert"
  /\ IF memory # None
       THEN handles' = handles \ {held[o].build} /\ UNCHANGED memory
       ELSE memory' = held[o] /\ UNCHANGED handles
  /\ MoveTo(o, "finish")
  /\ UNCHANGED <<flight, parked, quitting, row, diskVars, held, registryPastVars>>

(* Mutant: a build that comes too late leaves its files open.               *)
InsertLeaking(o) ==
  /\ place[o] = "insert"
  /\ IF memory # None \/ quitting THEN UNCHANGED memory ELSE memory' = held[o]
  /\ MoveTo(o, "finish")
  /\ UNCHANGED <<flight, parked, quitting, row, diskVars, held, handles, registryPastVars>>

Insert(o) ==
  /\ place[o] = "insert"
  /\ IF memory # None \/ quitting
       THEN handles' = handles \ {held[o].build} /\ UNCHANGED memory
       ELSE memory' = held[o] /\ UNCHANGED handles
  /\ MoveTo(o, "finish")
  /\ UNCHANGED <<flight, parked, quitting, row, diskVars, held, registryPastVars>>

(* finishRestore                                                            *)
FinishRestore(o) ==
  /\ place[o] = "finish"
  /\ flight' = NoCall
  /\ MoveTo(o, "done")
  /\ UNCHANGED <<memory, parked, quitting, row, diskVars, held, handles, registryPastVars>>

-----------------------------------------------------------------------------
(* PromoteSessionToProject.  Renames, the transaction and the deletion of   *)
(* the project may fail.                                                    *)

Promote ==
  /\ place["promote"] = "idle" /\ row = "chat"
  /\ project' = TRUE
  /\ MoveTo("promote", "evict")
  /\ UNCHANGED <<mapVars, row, chatDir, codeDir, lifted, held, handles, registryPastVars>>

(* EvictSession waits for a build in flight; a busy session refuses it.     *)
Evict ==
  /\ place["promote"] = "evict" /\ flight = NoCall
  /\ \/ /\ memory' = None
        /\ handles' = handles \ {memory.build}
        /\ MoveTo("promote", "reserve")
     \/ memory # None /\ MoveTo("promote", "gate") /\ UNCHANGED <<memory, handles>>
  /\ UNCHANGED <<flight, parked, quitting, row, diskVars, held, registryPastVars>>

(* ReserveRestores.  The session may have been restored since the evict.    *)
ReserveRestores ==
  /\ place["promote"] = "reserve" /\ flight = NoCall
  /\ parked' = TRUE
  /\ crossed' = (crossed \/ memory # None)
  /\ MoveTo("promote", "move")
  /\ UNCHANGED <<memory, flight, quitting, row, diskVars, held, handles, builds>>

(* MoveSessionStorage: the session's directory, then its workspace.         *)
MoveDir ==
  /\ place["promote"] = "move"
  /\ \/ codeDir # "absent" /\ MoveTo("promote", "gate") /\ UNCHANGED <<chatDir, codeDir>>
     \/ /\ codeDir = "absent" /\ chatDir = "absent"
        /\ MoveTo("promote", "commit") /\ UNCHANGED <<chatDir, codeDir>>
     \/ /\ codeDir = "absent" /\ chatDir # "absent"
        /\ \/ codeDir' = chatDir /\ chatDir' = "absent" /\ MoveTo("promote", "lift")
           \/ MoveTo("promote", "gate") /\ UNCHANGED <<chatDir, codeDir>>
  /\ UNCHANGED <<mapVars, row, lifted, project, held, handles, registryPastVars>>

LiftWorkspace ==
  /\ place["promote"] = "lift"
  /\ \/ codeDir # "absent" /\ lifted' = TRUE /\ MoveTo("promote", "commit")
     \/ MoveTo("promote", "moveBack") /\ UNCHANGED lifted
  /\ UNCHANGED <<mapVars, row, chatDir, codeDir, project, held, handles, registryPastVars>>

MoveBack ==
  /\ place["promote"] = "moveBack"
  /\ \/ /\ codeDir # "absent" /\ chatDir = "absent"
        /\ chatDir' = codeDir /\ codeDir' = "absent"
     \/ UNCHANGED <<chatDir, codeDir>>
  /\ MoveTo("promote", "gate")
  /\ UNCHANGED <<mapVars, row, lifted, project, held, handles, registryPastVars>>

(* The transaction re-parents the row if it is still a chat's.              *)
Commit ==
  /\ place["promote"] = "commit"
  /\ \/ row = "chat" /\ row' = "code" /\ MoveTo("promote", "release")
     \/ MoveTo("promote", "undo") /\ UNCHANGED row
  /\ UNCHANGED <<mapVars, diskVars, held, handles, registryPastVars>>

(* UndoMoveSessionStorage                                                   *)
Undo ==
  /\ place["promote"] = "undo"
  /\ \/ codeDir = "absent" /\ MoveTo("promote", "gate") /\ UNCHANGED lifted
     \/ /\ codeDir # "absent" /\ chatDir # "absent"
        /\ MoveTo("promote", "release") /\ UNCHANGED lifted
     \/ /\ codeDir # "absent" /\ chatDir = "absent"
        /\ \/ lifted' = FALSE /\ MoveTo("promote", "undoDir")
           \/ MoveTo("promote", "release") /\ UNCHANGED lifted
  /\ UNCHANGED <<mapVars, row, chatDir, codeDir, project, held, handles, registryPastVars>>

UndoDir ==
  /\ place["promote"] = "undoDir"
  /\ \/ /\ codeDir # "absent" /\ chatDir = "absent"
        /\ chatDir' = codeDir /\ codeDir' = "absent"
        /\ MoveTo("promote", "gate") /\ UNCHANGED lifted
     \/ lifted' \in BOOLEAN /\ MoveTo("promote", "release") /\ UNCHANGED <<chatDir, codeDir>>
  /\ UNCHANGED <<mapVars, row, project, held, handles, registryPastVars>>

(* Mutant: a failed promotion deletes its project without looking into it.   *)
GateOpen ==
  /\ place["promote"] = "gate"
  /\ project' = FALSE /\ codeDir' = "absent" /\ lifted' = FALSE
  /\ MoveTo("promote", "release")
  /\ UNCHANGED <<mapVars, row, chatDir, held, handles, registryPastVars>>

(* compensateFailedPromotion deletes the project with its tree, unless the  *)
(* session's directory is there.                                            *)
Gate ==
  /\ place["promote"] = "gate"
  /\ \/ /\ codeDir = "absent"
        /\ project' = FALSE /\ lifted' = FALSE
     \/ UNCHANGED <<project, lifted>>
  /\ MoveTo("promote", "release")
  /\ UNCHANGED <<mapVars, row, chatDir, codeDir, held, handles, registryPastVars>>

(* Mutant: a promotion that failed does not release the session.            *)
ReleaseDone ==
  /\ place["promote"] = "release" /\ row = "code"
  /\ parked' = FALSE
  /\ MoveTo("promote", "done")
  /\ UNCHANGED <<memory, flight, quitting, row, diskVars, held, handles, registryPastVars>>

Release ==
  /\ place["promote"] = "release"
  /\ parked' = FALSE
  /\ MoveTo("promote", "done")
  /\ UNCHANGED <<memory, flight, quitting, row, diskVars, held, handles, registryPastVars>>

-----------------------------------------------------------------------------
(* DeleteSessionWithOptions                                                 *)

(* HasSession decides which way; otherwise the row says where the files are. *)
Delete ==
  /\ place["delete"] = "idle"
  /\ IF memory # None THEN MoveTo("delete", "capture") /\ UNCHANGED held
     ELSE MoveTo("delete", "dropFirst") /\ Hold("delete", row, 0)
  /\ UNCHANGED <<mapVars, row, diskVars, handles, registryPastVars>>

DeleteCapture ==
  /\ place["delete"] = "capture"
  /\ IF memory = None THEN MoveTo("delete", "done") /\ UNCHANGED held
     ELSE MoveTo("delete", "remove") /\ held' = [held EXCEPT !["delete"] = memory]
  /\ UNCHANGED <<mapVars, row, diskVars, handles, registryPastVars>>

(* The second hold: the files of the captured session are closed, and       *)
(* whichever session is in the map leaves it.                               *)
DeleteRemove ==
  /\ place["delete"] = "remove"
  /\ memory' = None
  /\ handles' = handles \ {held["delete"].build}
  /\ crossed' = (crossed \/ memory # held["delete"])
  /\ MoveTo("delete", "clear")
  /\ UNCHANGED <<flight, parked, quitting, row, diskVars, held, builds>>

ClearDir ==
  /\ place["delete"] \in {"clear", "clearLast"}
  /\ chatDir' = IF held["delete"].project = "chat" THEN "absent" ELSE chatDir
  /\ codeDir' = IF held["delete"].project = "code" THEN "absent" ELSE codeDir
  /\ MoveTo("delete", IF place["delete"] = "clear" THEN "drop" ELSE "done")
  /\ UNCHANGED <<mapVars, row, lifted, project, held, handles, registryPastVars>>

(* store.DeleteSession.  A restore may be in flight, or done, since the     *)
(* session was looked for in memory.                                        *)
DropRow ==
  /\ place["delete"] \in {"drop", "dropFirst"}
  /\ row' = "gone"
  /\ crossed' = (crossed \/ memory # None \/ flight # NoCall)
  /\ MoveTo("delete", IF place["delete"] = "drop" THEN "done" ELSE "clearLast")
  /\ UNCHANGED <<mapVars, diskVars, held, handles, builds>>

-----------------------------------------------------------------------------
(* Shutdown                                                                 *)

ShutdownCall ==
  /\ place["quit"] = "idle"
  /\ quitting' = TRUE
  /\ MoveTo("quit", "drain")
  /\ UNCHANGED <<memory, flight, parked, row, diskVars, held, handles, registryPastVars>>

ShutdownDrain ==
  /\ place["quit"] = "drain"
  /\ memory' = None
  /\ held' = [held EXCEPT !["quit"] = memory]
  /\ MoveTo("quit", "close")
  /\ UNCHANGED <<flight, parked, quitting, row, diskVars, handles, registryPastVars>>

ShutdownClose ==
  /\ place["quit"] = "close"
  /\ handles' = handles \ {held["quit"].build}
  /\ MoveTo("quit", "done")
  /\ UNCHANGED <<mapVars, row, diskVars, held, registryPastVars>>

-----------------------------------------------------------------------------
OpenStep(o) ==
  \/ Load(o) \/ MakeWorkspace(o) \/ Reserve(o) \/ Unparked(o) \/ Shared(o)
  \/ Build(o) \/ Insert(o) \/ FinishRestore(o)
PromoteStep ==
  \/ Evict \/ ReserveRestores \/ MoveDir \/ LiftWorkspace \/ MoveBack \/ Commit
  \/ Undo \/ UndoDir \/ Gate \/ Release
DeleteStep == DeleteCapture \/ DeleteRemove \/ ClearDir \/ DropRow
ShutdownStep == ShutdownDrain \/ ShutdownClose

RegistryNext ==
  \/ \E o \in Openers : Lookup(o) \/ OpenStep(o)
  \/ Promote \/ PromoteStep \/ Delete \/ DeleteStep \/ ShutdownCall \/ ShutdownStep

(* Every call that has begun runs on.                                       *)
RegistryFairness ==
  /\ \A o \in Openers : WF_registryVars(OpenStep(o))
  /\ WF_registryVars(PromoteStep) /\ WF_registryVars(DeleteStep)
  /\ WF_registryVars(ShutdownStep)

RegistrySpec == RegistryInit /\ [][RegistryNext]_registryVars /\ RegistryFairness

-----------------------------------------------------------------------------
(* Properties                                                               *)

(* One call builds the session, and none finds it there when it inserts it: *)
(* the second check is the unreachable one the code says it is.             *)
SingleFlight ==
  /\ Cardinality({o \in Openers : place[o] \in {"build", "insert"}}) <= 1
  /\ \A o \in Openers : place[o] = "insert" => memory = None

(* Once Shutdown has drained the map no restore brings a session back.      *)
NoGhostAfterQuit == place["quit"] \in {"close", "done"} => memory = None

(* The session in memory is the one its row describes: never the chat of a  *)
(* promoted session, never a deleted one - as long as no decision crossed   *)
(* another's change.                                                        *)
MemoryMatchesRow == ~crossed /\ memory # None => memory.project = row

(* Every open log file belongs to the session in memory, to the one being   *)
(* inserted or to the one Shutdown is about to close: all others are closed. *)
HandlesOwned ==
  ~crossed => \A b \in handles :
    \/ b = memory.build
    \/ \E o \in Openers : place[o] = "insert" /\ held[o].build = b
    \/ place["quit"] = "close" /\ held["quit"].build = b
    \/ place["delete"] = "remove" /\ held["delete"].build = b

(* There is one copy of the session, the one its row describes, and its     *)
(* files are closed with it.                                                *)
OneCopy == SingleFlight /\ NoGhostAfterQuit /\ MemoryMatchesRow /\ HandlesOwned

(* A promotion never loses the session's files, whatever fails: they are in *)
(* one place, and a project that has them is not deleted.                   *)
FilesKept ==
  place["delete"] = "idle" =>
    /\ (chatDir = "files") # (codeDir = "files")
    /\ codeDir = "files" \/ lifted => project

(* A failed promotion leaves the session a chat again, in the store and on  *)
(* disk, unless it says so by keeping its project.                          *)
Compensated ==
  place["promote"] = "done" /\ place["delete"] = "idle" /\ row = "chat" /\ ~project =>
    chatDir = "files"

(* A promotion happens or does not, to the row, the files and the project   *)
(* at once.                                                                 *)
PromotionAtomic == FilesKept /\ Compensated

(* Every call ends: no restore waits forever for another, for a promotion   *)
(* that failed, or for a shutdown.                                          *)
CallsEnd == \A c \in Calls : []<>(place[c] \in {"idle", "done"})

(* The comment at runPromotionMoves: restores are parked "so none can       *)
(* rebuild from the pre-commit store state".                                *)
NoPreCommitRestore ==
  place["promote"] = "done" /\ row = "code" /\ memory # None => memory.project = "code"
=============================================================================
