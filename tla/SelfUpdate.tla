------------------------------- MODULE SelfUpdate -------------------------------
(***************************************************************************)
(* The update of the application by itself: backend/frontend_api_updater.go *)
(* (check, download, skip, apply), core/updater/downloader.go and the       *)
(* staging updater of core/updater/installer.go, a second process that      *)
(* waits for the application to exit, swaps the install tree and starts it  *)
(* again.  Either process may end, or the machine lose power, at any step.  *)
(*                                                                         *)
(* A version is a number; a tree or an archive is its version, 0 when there *)
(* is none, and Damaged when it is incomplete or mixed.                     *)
(***************************************************************************)
EXTENDS Integers

CONSTANTS
  Newest,        \* bound: the last version that is published
  Downloaders,   \* calls of DownloadUpdate
  Updaters,      \* staging updaters
  MaxStarts,     \* bound: starts of the application
  MaxLosses      \* bound: power losses

VARIABLES
  up,            \* the application runs
  pid,
  version,       \* version.Version of the application that runs or ran last
  release,       \* the version GitHub calls latest
  offered,       \* AssetURL of lastCheckResult, 0 unless Available
  ready,         \* downloadedArchivePath is set
  archive,       \* the archive at its path in update-staging
  sums,          \* the version SHA256SUMS beside it is of
  fetch,         \* per download: where it is and its version
  check,         \* per check, the user's or the background one: where and skippedVersion
  skipped,       \* SkippedVersion of update_state.json
  choice,        \* a SkipVersion that has read the state: its version, or Idle
  target,        \* the install tree
  backup,        \* target.old
  staged,        \* target.new
  updater,       \* per updater: where it is, the parent's pid and its archive
  losses,
  crowd,         \* history: an updater went on after another that was past its wait or is torn
  contended,     \* history: the archive was staged or written while another wrote it
  late           \* history: a skip was saved between the last reading and saving of the state

appVars == <<up, pid, version>>
downloadVars == <<archive, sums, fetch>>
skipVars == <<check, skipped, choice, late>>
treeVars == <<target, backup, staged>>
updateVars == <<appVars, release, offered, ready, downloadVars, skipVars, treeVars, updater, losses,
                crowd, contended>>

Damaged == -1
NoChoice == -1
Checks == {"user", "background"}
Resting == [at |-> "off", v |-> 0]
Unused == [at |-> "unused", parent |-> 0, v |-> 0]

Swapping == {"extract", "stage", "copy", "clear", "aside", "place", "rollback"}

UpdateInit ==
  /\ up = TRUE /\ pid = 1 /\ version = 1 /\ release = 1
  /\ offered = 0 /\ ready = FALSE
  /\ archive = 0 /\ sums = 0 /\ fetch = [d \in Downloaders |-> Resting]
  /\ check = [c \in Checks |-> Resting] /\ skipped = 0 /\ choice = NoChoice
  /\ target = 1 /\ backup = 0 /\ staged = 0
  /\ updater = [u \in Updaters |-> Unused]
  /\ losses = 0 /\ crowd = FALSE /\ contended = FALSE /\ late = FALSE

PublishRelease ==
  /\ release < Newest /\ release' = release + 1
  /\ UNCHANGED <<appVars, offered, ready, downloadVars, skipVars, treeVars, updater, losses, crowd, contended>>

-----------------------------------------------------------------------------
(* Checks: checkAndCache, CheckForUpdates, RunBackgroundUpdateCheck          *)

CheckTo(c, at, v) == check' = [check EXCEPT ![c] = [at |-> at, v |-> v]]

Ask(c) ==
  /\ up /\ check[c].at = "off"
  /\ CheckTo(c, "ask", skipped)
  /\ UNCHANGED <<appVars, release, offered, ready, downloadVars, skipped, choice, late, treeVars, updater,
                 losses, crowd, contended>>

Offer(skip) == IF release > version /\ release # skip THEN release ELSE 0

(* The answer is cached and invalidates an earlier download; an error       *)
(* leaves both.  The background check then reads the state again.           *)
Answer(c) ==
  /\ check[c].at = "ask"
  /\ \/ offered' = Offer(check[c].v) /\ ready' = FALSE
     \/ UNCHANGED <<offered, ready>>
  /\ IF c = "user" THEN CheckTo(c, "off", 0) ELSE CheckTo(c, "reread", check[c].v)
  /\ UNCHANGED <<appVars, release, downloadVars, skipped, choice, late, treeVars, updater, losses, crowd, contended>>

(* Mutant: the state is saved as it was read before the check.              *)
RereadSkipped(skip) == skip

(* What the record of the check keeps: the version skipped now, or the one  *)
(* skipped before the check.                                                *)
Reread(skip) == IF skipped # 0 THEN skipped ELSE skip

ReadAgain ==
  /\ check["background"].at = "reread"
  /\ CheckTo("background", "save", Reread(check["background"].v))
  /\ UNCHANGED <<appVars, release, offered, ready, downloadVars, skipped, choice, late, treeVars, updater, losses, crowd, contended>>

SaveState ==
  /\ check["background"].at = "save"
  /\ skipped' \in {check["background"].v, skipped}
  /\ CheckTo("background", "off", 0)
  /\ late' = FALSE
  /\ UNCHANGED <<appVars, release, offered, ready, downloadVars, choice, treeVars, updater, losses, crowd, contended>>

(* SkipVersion of what is offered, or of nothing, which clears the skip.    *)
ChooseSkip ==
  /\ up /\ choice = NoChoice
  /\ choice' \in {0, offered}
  /\ UNCHANGED <<appVars, release, offered, ready, downloadVars, check, skipped, late, treeVars, updater,
                 losses, crowd, contended>>

SaveSkip ==
  /\ choice # NoChoice
  /\ choice' = NoChoice
  /\ \/ skipped' = choice /\ offered' = 0 /\ late' = (check["background"].at = "save")
     \/ UNCHANGED <<skipped, offered, late>>
  /\ UNCHANGED <<appVars, release, ready, downloadVars, check, treeVars, updater, losses, crowd, contended>>

-----------------------------------------------------------------------------
(* Downloads: DownloadUpdate, Downloader.Download                            *)

FetchTo(d, at) == fetch' = [fetch EXCEPT ![d].at = at]
FetchEnds(d) == fetch' = [fetch EXCEPT ![d] = Resting]

BeginDownload(d) ==
  /\ up /\ fetch[d].at = "off" /\ offered > 0
  /\ fetch' = [fetch EXCEPT ![d] = [at |-> "asset", v |-> offered]]
  /\ UNCHANGED <<appVars, release, offered, ready, archive, sums, skipVars, treeVars, updater, losses,
                 crowd, contended>>

(* The archive, whole or damaged on the way, replaces the one at its path,  *)
(* which is the same for all versions.                                      *)
FetchAsset(d) ==
  /\ fetch[d].at = "asset"
  /\ \/ /\ archive' \in {fetch[d].v, Damaged} /\ FetchTo(d, "sums")
        /\ contended' = (contended \/ \E e \in Downloaders \ {d} : fetch[e].at # "off")
     \/ FetchEnds(d) /\ UNCHANGED <<archive, contended>>
  /\ UNCHANGED <<appVars, release, offered, ready, sums, skipVars, treeVars, updater, losses, crowd>>

FetchSums(d) ==
  /\ fetch[d].at = "sums"
  /\ \/ sums' = fetch[d].v /\ FetchTo(d, "verify") /\ UNCHANGED archive
     \/ archive' = 0 /\ FetchEnds(d) /\ UNCHANGED sums
  /\ UNCHANGED <<appVars, release, offered, ready, skipVars, treeVars, updater, losses, crowd, contended>>

(* Mutant: an archive that does not match stays where it is.                *)
VerifyArchiveKeeping(d) ==
  /\ fetch[d].at = "verify"
  /\ IF archive = sums THEN FetchTo(d, "done") ELSE FetchEnds(d)
  /\ UNCHANGED <<appVars, release, offered, ready, archive, sums, skipVars, treeVars, updater, losses,
                 crowd, contended>>

VerifyArchive(d) ==
  /\ fetch[d].at = "verify"
  /\ IF archive = sums THEN FetchTo(d, "done") /\ UNCHANGED archive
                       ELSE FetchEnds(d) /\ archive' = 0
  /\ UNCHANGED <<appVars, release, offered, ready, sums, skipVars, treeVars, updater, losses, crowd, contended>>

Downloaded(d) ==
  /\ fetch[d].at = "done" /\ FetchEnds(d)
  /\ ready' = TRUE
  /\ UNCHANGED <<appVars, release, offered, archive, sums, skipVars, treeVars, updater, losses, crowd, contended>>

-----------------------------------------------------------------------------
(* The application: ApplyUpdate, exits and starts                            *)

(* An updater is staged with the archive and started; the application asks  *)
(* itself to quit, which the close guard may hold back for long.  An        *)
(* updater that dies within the probe is not waited for.                    *)
ApplyUpdate(u) ==
  /\ up /\ ready /\ archive # 0 /\ updater[u] = Unused
  /\ updater' = [updater EXCEPT ![u] = [at |-> "wait", parent |-> pid, v |-> archive]]
  /\ contended' = (contended \/ \E d \in Downloaders : fetch[d].at \in {"sums", "verify"})
  /\ UNCHANGED <<appVars, release, offered, ready, downloadVars, skipVars, treeVars, losses, crowd>>

Halted ==
  /\ up' = FALSE
  /\ offered' = 0 /\ ready' = FALSE /\ choice' = NoChoice /\ late' = FALSE
  /\ fetch' = [d \in Downloaders |-> Resting] /\ check' = [c \in Checks |-> Resting]

(* The application quits or dies.                                           *)
AppExits ==
  /\ up /\ Halted
  /\ UNCHANGED <<pid, version, release, archive, sums, skipped, treeVars, updater, losses, crowd, contended>>

Starts ==
  /\ up' = TRUE /\ pid < MaxStarts /\ pid' = pid + 1 /\ version' = target

(* The user starts it; what is damaged does not start.                      *)
StartApp ==
  /\ ~up /\ target > 0 /\ Starts
  /\ UNCHANGED <<release, offered, ready, downloadVars, skipVars, treeVars, updater, losses, crowd, contended>>

(* The user moves the backup back.                                          *)
RestoreBackup ==
  /\ target = 0 /\ backup > 0
  /\ \A u \in Updaters : updater[u].at \notin Swapping
  /\ target' = backup /\ backup' = 0
  /\ UNCHANGED <<appVars, release, offered, ready, downloadVars, skipVars, staged, updater, losses, crowd, contended>>

-----------------------------------------------------------------------------
(* The staging updater: ApplySelfUpdate, swapInstallTrees                    *)

UpdaterTo(u, at) == updater' = [updater EXCEPT ![u].at = at]

ParentAlive(u) == up /\ pid = updater[u].parent

(* Mutant: past its time the updater goes on.                               *)
GivesUpWaiting(u) == UpdaterTo(u, "extract")

(* Past its time the updater gives up.                                      *)
GivesUp(u) == UpdaterTo(u, "ended")

WaitForExit(u) ==
  /\ updater[u].at = "wait"
  /\ IF ParentAlive(u) THEN GivesUp(u) ELSE UpdaterTo(u, "extract")
  /\ crowd' = (crowd \/ \E w \in Updaters \ {u} : updater'[u].at = "extract" /\ updater[w].at \in Swapping \cup {"torn"})
  /\ UNCHANGED <<appVars, release, offered, ready, downloadVars, skipVars, treeVars, losses, contended>>

Unchanged == UNCHANGED <<appVars, release, offered, ready, downloadVars, skipVars, losses, crowd, contended>>

Extract(u) ==
  /\ updater[u].at = "extract"
  /\ \E at \in {"stage", "ended"} : UpdaterTo(u, at)
  /\ UNCHANGED treeVars /\ Unchanged

(* The new tree is copied beside the install tree, over what another copies *)
(* there at the same time.                                                  *)
StageTree(u) ==
  /\ updater[u].at = "stage"
  /\ staged' = Damaged /\ UpdaterTo(u, "copy")
  /\ UNCHANGED <<target, backup>> /\ Unchanged

StageCopied(u) ==
  /\ updater[u].at = "copy"
  /\ \/ /\ staged' = IF \E w \in Updaters \ {u} : updater[w].at = "copy" THEN Damaged ELSE updater[u].v
        /\ UpdaterTo(u, "clear")
     \/ staged' = 0 /\ UpdaterTo(u, "ended")
  /\ UNCHANGED <<target, backup>> /\ Unchanged

(* An older backup may be left whole or half removed: no error is looked at.*)
ClearBackup(u) ==
  /\ updater[u].at = "clear"
  /\ backup' \in {0} \cup (IF backup = 0 THEN {} ELSE {backup, Damaged})
  /\ UpdaterTo(u, "aside")
  /\ UNCHANGED <<target, staged>> /\ Unchanged

(* A rename fails without its source, over another tree, or anyway.         *)
MoveAside(u) ==
  /\ updater[u].at = "aside"
  /\ \/ /\ target # 0 /\ backup = 0
        /\ backup' = target /\ target' = 0 /\ UpdaterTo(u, "place")
        /\ UNCHANGED staged
     \/ staged' = 0 /\ UpdaterTo(u, "ended") /\ UNCHANGED <<target, backup>>
  /\ Unchanged

(* Mutant: a new tree that cannot be moved leaves the backup where it is.   *)
PlaceUndone(u) == UpdaterTo(u, "ended")

PlaceFails(u) == UpdaterTo(u, "rollback")

Place(u) ==
  /\ updater[u].at = "place"
  /\ \/ /\ staged # 0 /\ target = 0
        /\ target' = staged /\ staged' = 0 /\ UpdaterTo(u, "relaunch")
     \/ PlaceFails(u) /\ UNCHANGED <<target, staged>>
  /\ UNCHANGED backup /\ Unchanged

RollBack(u) ==
  /\ updater[u].at = "rollback"
  /\ \/ /\ backup # 0 /\ target = 0
        /\ target' = backup /\ backup' = 0 /\ UpdaterTo(u, "ended")
     \/ UpdaterTo(u, "torn") /\ UNCHANGED <<target, backup>>
  /\ UNCHANGED staged /\ Unchanged

(* The application is started; next to one that runs it hands over and ends.*)
Relaunch(u) ==
  /\ updater[u].at = "relaunch" /\ UpdaterTo(u, "ended")
  /\ (~up /\ target > 0 /\ Starts) \/ UNCHANGED appVars
  /\ UNCHANGED <<release, offered, ready, downloadVars, skipVars, treeVars, losses, crowd, contended>>

PowerLoss ==
  /\ losses < MaxLosses /\ losses' = losses + 1
  /\ Halted
  /\ updater' = [u \in Updaters |->
       CASE updater[u].at \in {"place", "rollback"} -> [updater[u] EXCEPT !.at = "torn"]
         [] updater[u].at \in {"unused", "torn"} -> updater[u]
         [] OTHER -> [updater[u] EXCEPT !.at = "ended"]]
  /\ UNCHANGED <<pid, version, release, archive, sums, skipped, treeVars, crowd, contended>>

-----------------------------------------------------------------------------

UpdaterStep(u) ==
  \/ WaitForExit(u) \/ Extract(u) \/ StageTree(u) \/ StageCopied(u) \/ ClearBackup(u)
  \/ MoveAside(u) \/ Place(u) \/ RollBack(u) \/ Relaunch(u)

DownloadStep(d) == FetchAsset(d) \/ FetchSums(d) \/ VerifyArchive(d) \/ Downloaded(d)

UpdateNext ==
  \/ PublishRelease \/ ReadAgain \/ SaveState \/ ChooseSkip \/ SaveSkip
  \/ AppExits \/ StartApp \/ RestoreBackup \/ PowerLoss
  \/ \E c \in Checks : Ask(c) \/ Answer(c)
  \/ \E d \in Downloaders : BeginDownload(d) \/ DownloadStep(d)
  \/ \E u \in Updaters : ApplyUpdate(u) \/ UpdaterStep(u)

(* An updater runs, and its wait is bounded.                                *)
UpdateFairness == \A u \in Updaters : WF_updateVars(UpdaterStep(u))

UpdateSpec == UpdateInit /\ [][UpdateNext]_updateVars /\ UpdateFairness

-----------------------------------------------------------------------------
(* Properties                                                               *)

(* An update that is refused, fails or is cut off leaves an application:    *)
(* no damaged tree is ever installed, a whole one is there, or beside it as *)
(* the backup, and it is missing only in the middle of a swap or after one  *)
(* that was cut off or could not be undone.  The exceptions are two         *)
(* updaters at once, and an archive staged while a download replaces it.    *)
InstallKept ==
  crowd \/ contended \/
    /\ target >= 0
    /\ target = 0 => /\ backup > 0
                     /\ \E u \in Updaters : updater[u].at \in {"place", "rollback", "torn"}

(* The tree of the application an updater was started by is not touched     *)
(* while that instance still runs: an updater whose parent quits late has   *)
(* given up.  An instance started anew in the meantime is not spared.       *)
SwapAfterExit == \A u \in Updaters : updater[u].at \in Swapping => ~ParentAlive(u)

(* A version the user dismissed stays dismissed until the user chooses      *)
(* again, also when it is dismissed while the background check waits for an *)
(* answer; between its last reading and its saving of the state it is lost. *)
SkipHolds == skipped # 0 /\ skipped' # skipped => (choice # NoChoice /\ choice' = NoChoice) \/ late

(* What an update promises to the installation and to the user.             *)
UpdateSafe == [](InstallKept /\ SwapAfterExit) /\ [][SkipHolds]_updateVars

(* Every updater comes to an end, whether the application quits or not.     *)
UpdatersEnd == []<>(\A u \in Updaters : updater[u].at \in {"unused", "ended", "torn"})
===============================================================================
