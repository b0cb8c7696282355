------------------------- MODULE RestoreTransaction -------------------------
(***************************************************************************)
(* Restoring a checkpoint into a project's files (src-tauri/src/           *)
(* checkpoints.rs).  A restore stages the checkpoint's files in a          *)
(* transaction directory of the store (incoming), moves the project's      *)
(* files out of the way (backup), moves the staged ones in, and leaves a   *)
(* marker file for each phase it enters.  A pending marker in the project  *)
(* keeps every other reader and writer out until the restore, or its       *)
(* recovery by a later process, reached an end; a terminal marker in the   *)
(* store tells recovery that only the cleaning up is left.                 *)
(*                                                                         *)
(* The worktree lock lets one restore or recovery run at a time, so step   *)
(* is the only program counter.  Every other user of the files needs the   *)
(* lock and no pending marker.  A process may be killed between any two    *)
(* steps, any call may fail, and a power loss may undo the renames whose   *)
(* directories were not synced yet (older remembers what they undo to).    *)
(* Other programs take no lock: they may put a file where none is, also    *)
(* between the step that finds a place of the project free and the rename  *)
(* into it, which replaces what it meets.  Which of these come together in *)
(* a behaviour is decided at its beginning.                                *)
(***************************************************************************)
EXTENDS Integers, FiniteSets

CONSTANTS
  File, Folder,    \* project-relative files and their folders
  Top, FolderOf,   \* the folder of each file, Top for the project's root
  Version,         \* contents of a file
  Nothing,         \* the content of a file that does not exist
  Checkpoint,      \* snapshots: the content of every file, or Nothing
  Theirs,          \* what another program writes
  Adversity        \* which of kill, io, power, foreign may come together

FilesOf(snapshot) == {f \in File : snapshot[f] # Nothing}
FoldersFor(some) == {FolderOf[f] : f \in some} \ {Top}

ASSUME NothingAssumption == Nothing \notin Version \cup {Theirs}
ASSUME FolderAssumption == FolderOf \in [File -> Folder \cup {Top}]
ASSUME CheckpointAssumption ==
  /\ Checkpoint \subseteq [File -> Version \cup {Nothing}]
  /\ \A c \in Checkpoint : FilesOf(c) # {}
ASSUME AdversityAssumption ==
  Adversity \subseteq SUBSET {"kill", "io", "power", "foreign"}

VARIABLES
  project,      \* content of the project's files
  folders,      \* folders of the project
  transaction,  \* the transaction directory exists
  incoming,     \* its staged files
  backup,       \* the project files it holds
  plan,         \* its restore-plan.json
  marks,        \* its phase markers
  pending,      \* the project's restore-pending marker exists
  terminal,     \* the store's terminal marker: absent, partial or complete
  step,         \* what the running restore or recovery does next
  todo,         \* the files its current loop has not come to
  touched,      \* the files its current loop has moved
  vacant,       \* the file whose place in the project it just found free
  older,        \* for each file, where a power loss could put it back
  faults        \* what may still happen

staged  == <<transaction, incoming, backup, plan, marks>>
markers == <<pending, terminal>>
process == <<step, todo, touched, vacant>>
files   == <<project, folders, staged, markers, process, older>>
vars    == <<files, faults>>

-----------------------------------------------------------------------------
Contents == Version \cup {Theirs, Nothing}
Places == [project : Contents, backup : Contents, incoming : Contents]
NoFiles == [f \in File |-> Nothing]
NoPlan == [files |-> {}, folders |-> {}]
NeverMoved == [f \in File |-> {}]

Marks ==
  {"backing_up", "installing", "installed", "rolling_back", "restoring_backup"}

(* The steps of a restore that undoing covers, and those of cleaning up    *)
(* and of recovery, whose failure leaves the rest to the next recovery.    *)
RestoreSteps ==
  {"mark_backing_up", "back_up", "mark_installing", "make_folders", "install",
   "mark_installed"}
RecoverySteps ==
  {"recover", "mark_rolling_back", "move_back", "mark_restoring_backup",
   "restore_backup", "remove_folders"}
CleanupSteps ==
  {"open_terminal", "write_terminal", "remove", "clear_pending",
   "clear_terminal"}
Steps ==
  {"idle", "discard", "create", "prepare", "write_pending", "abandon"}
    \cup RestoreSteps \cup RecoverySteps \cup CleanupSteps

Goto(next) == step' = next /\ todo' = {} /\ touched' = {} /\ vacant' = {}
Loop(next) ==
  step' = next /\ todo' = plan.files /\ touched' = {} /\ vacant' = {}

Place(f) ==
  [project |-> project[f], backup |-> backup[f], incoming |-> incoming[f]]

(* A rename within a loop over the plan's files; it is not durable yet.    *)
Moved(f) ==
  /\ todo' = todo \ {f} /\ touched' = touched \cup {f} /\ vacant' = {}
  /\ older' = IF "power" \in faults
                THEN [older EXCEPT ![f] = @ \cup {Place(f)}] ELSE older
  /\ UNCHANGED <<folders, transaction, plan, marks, markers, step>>

(* The loop has nothing to do for the file.                                *)
Skip(f) ==
  /\ vacant = {}
  /\ todo' = todo \ {f}
  /\ UNCHANGED <<project, folders, staged, markers, step, touched, vacant,
                 older>>

(* The loop looks where the file goes and finds nothing there.             *)
FindVacant(f) ==
  /\ vacant = {}
  /\ vacant' = {f}
  /\ UNCHANGED <<project, folders, staged, markers, step, todo, touched,
                 older>>

(* The loop's end: the directories it moved files in or out of are synced. *)
SyncTouched ==
  /\ todo = {}
  /\ older' = [f \in File |->
       IF \E g \in touched : FolderOf[f] = FolderOf[g] THEN {} ELSE older[f]]
  /\ UNCHANGED <<project, folders, staged, markers>>
SyncNothing ==
  todo = {} /\ UNCHANGED <<project, folders, staged, markers, older>>

Mark(mark) ==
  /\ marks' = marks \cup {mark}
  /\ UNCHANGED <<project, folders, transaction, incoming, backup, plan,
                 markers, older>>

Init ==
  /\ project \in [File -> Version \cup {Nothing}]
  /\ folders = FoldersFor(FilesOf(project))
  /\ transaction = FALSE /\ marks = {} /\ plan = NoPlan
  /\ incoming = NoFiles /\ backup = NoFiles
  /\ pending = FALSE /\ terminal = "absent"
  /\ step = "idle" /\ todo = {} /\ touched = {} /\ vacant = {}
  /\ older = NeverMoved
  /\ faults \in Adversity

-----------------------------------------------------------------------------
(* The transaction directory goes, file by file: until the last one any    *)
(* part of it may be left.                                                 *)
Tear ==
  /\ step \in {"discard", "abandon", "remove"} /\ transaction
  /\ marks' \in SUBSET marks
  /\ plan' \in {plan, NoPlan}
  /\ incoming' \in {incoming, NoFiles} /\ backup' \in {backup, NoFiles}
  /\ UNCHANGED <<project, folders, transaction, markers, process, older>>

EmptyTransaction ==
  /\ transaction' = FALSE /\ marks' = {} /\ plan' = NoPlan
  /\ incoming' = NoFiles /\ backup' = NoFiles
  /\ older' = [f \in File |->
       {[o EXCEPT !.backup = Nothing, !.incoming = Nothing] : o \in older[f]}]

RemoveTransaction ==
  /\ step \in {"discard", "abandon", "remove"}
  /\ EmptyTransaction
  /\ Goto(CASE step = "discard" -> "create"
            [] step = "abandon" -> "idle"
            [] step = "remove" -> "clear_pending")
  /\ UNCHANGED <<project, folders, markers>>

-----------------------------------------------------------------------------
(* Restore.                                                                *)

(* A variant, not the code: the stale marker stays.                        *)
StartRestoreKeepingMarker ==
  /\ step = "idle" /\ ~pending
  /\ Goto("discard")
  /\ UNCHANGED <<project, folders, staged, markers, older>>

(* With no recovery pending, a terminal marker an earlier restore left     *)
(* behind is removed, and so is a transaction that never began to move.    *)
StartRestore ==
  /\ step = "idle" /\ ~pending
  /\ terminal = "absent" \/ (terminal = "complete" /\ ~transaction)
  /\ terminal' = "absent"
  /\ Goto("discard")
  /\ UNCHANGED <<project, folders, staged, pending, older>>

(* Opening a project with no restore pending does the first of the two.    *)
ClearStaleTerminal ==
  /\ step = "idle" /\ ~pending
  /\ terminal = "complete" /\ ~transaction
  /\ terminal' = "absent"
  /\ UNCHANGED <<project, folders, staged, pending, process, older>>

CreateTransaction ==
  /\ step = "create"
  /\ transaction' = TRUE
  /\ Goto("prepare")
  /\ UNCHANGED <<project, folders, incoming, backup, plan, marks, markers,
                 older>>

(* materialize, the plan and the "prepared" marker, which nothing reads.   *)
Prepare(checkpoint) ==
  /\ step = "prepare"
  /\ incoming' = checkpoint
  /\ plan' = [files |-> FilesOf(checkpoint),
              folders |-> FoldersFor(FilesOf(checkpoint)) \ folders]
  /\ Goto("write_pending")
  /\ UNCHANGED <<project, folders, transaction, backup, marks, markers, older>>

WritePending ==
  /\ step = "write_pending"
  /\ pending' = TRUE
  /\ Goto("mark_backing_up")
  /\ UNCHANGED <<project, folders, staged, terminal, older>>

MarkBackingUp ==
  step = "mark_backing_up" /\ Mark("backing_up") /\ Loop("back_up")

BackUp(f) ==
  /\ step = "back_up" /\ f \in todo
  /\ \/ project[f] = Nothing /\ Skip(f)
     \/ /\ project[f] # Nothing
        /\ backup' = [backup EXCEPT ![f] = project[f]]
        /\ project' = [project EXCEPT ![f] = Nothing]
        /\ Moved(f)
        /\ UNCHANGED incoming

BackedUp == step = "back_up" /\ SyncTouched /\ Goto("mark_installing")

MarkInstalling ==
  step = "mark_installing" /\ Mark("installing") /\ Goto("make_folders")

MakeFolder(folder) ==
  /\ step = "make_folders" /\ folder \in plan.folders \ folders
  /\ folders' = folders \cup {folder}
  /\ UNCHANGED <<project, staged, markers, process, older>>

FoldersMade ==
  /\ step = "make_folders" /\ plan.folders \subseteq folders
  /\ Loop("install")
  /\ UNCHANGED <<project, folders, staged, markers, older>>

InstallVacant(f) ==
  step = "install" /\ f \in todo /\ project[f] = Nothing /\ FindVacant(f)

(* The rename replaces whatever has come into the place by now.            *)
Install(f) ==
  /\ step = "install" /\ f \in vacant
  /\ project' = [project EXCEPT ![f] = incoming[f]]
  /\ incoming' = [incoming EXCEPT ![f] = Nothing]
  /\ Moved(f)
  /\ UNCHANGED backup

(* Another file is in the way: the restore fails and is undone.            *)
InstallConflict(f) ==
  /\ step = "install" /\ f \in todo
  /\ vacant = {} /\ project[f] # Nothing
  /\ Goto("recover")
  /\ UNCHANGED <<project, folders, staged, markers, older>>

Installed == step = "install" /\ SyncTouched /\ Goto("mark_installed")

MarkInstalled ==
  step = "mark_installed" /\ Mark("installed") /\ Goto("open_terminal")

-----------------------------------------------------------------------------
(* Cleaning up after a restore or a rollback reached its end.              *)
OpenTerminal ==
  /\ step = "open_terminal" /\ terminal = "absent"
  /\ terminal' = "partial"
  /\ Goto("write_terminal")
  /\ UNCHANGED <<project, folders, staged, pending, older>>

WriteTerminal ==
  /\ step = "write_terminal"
  /\ terminal' = "complete"
  /\ Goto("remove")
  /\ UNCHANGED <<project, folders, staged, pending, older>>

(* A variant, not the code: the pending marker stays.                      *)
ClearPendingForgotten ==
  /\ step = "clear_pending"
  /\ Goto("clear_terminal")
  /\ UNCHANGED <<project, folders, staged, markers, older>>

ClearPending ==
  /\ step = "clear_pending"
  /\ pending' = FALSE
  /\ Goto("clear_terminal")
  /\ UNCHANGED <<project, folders, staged, terminal, older>>

ClearTerminal ==
  /\ step = "clear_terminal"
  /\ terminal' = "absent"
  /\ Goto("idle")
  /\ UNCHANGED <<project, folders, staged, pending, older>>

-----------------------------------------------------------------------------
(* Recovery, of the failed restore itself or by whoever opens the project. *)
Reopen ==
  /\ step = "idle" /\ pending
  /\ Goto("recover")
  /\ UNCHANGED <<project, folders, staged, markers, older>>

Installing == marks \cap {"installing", "rolling_back"} # {}
Usable == terminal = "absent" /\ transaction
HasData == "installed" \in marks \/ plan # NoPlan

(* The terminal marker is not what was written, or the transaction is not  *)
(* there, or it has no plan: recovery gives up, the restore stays pending. *)
RecoveryRefused ==
  /\ step = "recover"
  /\ terminal # "complete" /\ ~(Usable /\ HasData)
  /\ Goto("idle")
  /\ UNCHANGED <<project, folders, staged, markers, older>>

(* A variant, not the code: nothing is moved back.                         *)
RecoverByMarksNoRollback ==
  \/ "installed" \in marks /\ Goto("open_terminal")
  \/ /\ "installed" \notin marks /\ plan # NoPlan
     /\ \/ "restoring_backup" \in marks /\ Loop("restore_backup")
        \/ /\ "restoring_backup" \notin marks /\ "backing_up" \in marks
           /\ Goto("mark_restoring_backup")
        \/ /\ marks \cap Marks = {}
           /\ Goto("open_terminal")

RecoverByMarks ==
  \/ "installed" \in marks /\ Goto("open_terminal")
  \/ /\ "installed" \notin marks /\ plan # NoPlan
     /\ \/ "restoring_backup" \in marks /\ Loop("restore_backup")
        \/ /\ "restoring_backup" \notin marks /\ Installing
           /\ Goto("mark_rolling_back")
        \/ /\ "restoring_backup" \notin marks /\ ~Installing
           /\ "backing_up" \in marks
           /\ Goto("mark_restoring_backup")
        \/ /\ marks \cap Marks = {}
           /\ Goto("open_terminal")

Recover ==
  /\ step = "recover"
  /\ \/ terminal = "complete" /\ Goto("remove")
     \/ Usable /\ RecoverByMarks
  /\ UNCHANGED <<project, folders, staged, markers, older>>

MarkRollingBack ==
  step = "mark_rolling_back" /\ Mark("rolling_back") /\ Loop("move_back")

(* A file that is still staged was not installed.                          *)
MoveBack(f) ==
  /\ step = "move_back" /\ f \in todo
  /\ \/ incoming[f] # Nothing /\ Skip(f)
     \/ /\ incoming[f] = Nothing /\ project[f] # Nothing
        /\ incoming' = [incoming EXCEPT ![f] = project[f]]
        /\ project' = [project EXCEPT ![f] = Nothing]
        /\ Moved(f)
        /\ UNCHANGED backup

MovedBack ==
  step = "move_back" /\ SyncTouched /\ Goto("mark_restoring_backup")

MarkRestoringBackup ==
  /\ step = "mark_restoring_backup"
  /\ Mark("restoring_backup") /\ Loop("restore_backup")

(* A variant, not the code: the place is not looked at.                    *)
BackupUnchecked(f) ==
  step = "restore_backup" /\ f \in todo /\ backup[f] # Nothing /\ FindVacant(f)

BackupVacant(f) ==
  /\ step = "restore_backup" /\ f \in todo
  /\ backup[f] # Nothing /\ project[f] = Nothing
  /\ FindVacant(f)

(* The rename, after its folder was made sure of and synced: it replaces   *)
(* whatever has come into the place by now.                                *)
RestoreBackup(f) ==
  /\ step = "restore_backup" /\ f \in todo
  /\ \/ backup[f] = Nothing /\ Skip(f)
     \/ /\ backup[f] # Nothing /\ f \in vacant
        /\ project' = [project EXCEPT ![f] = backup[f]]
        /\ backup' = [backup EXCEPT ![f] = Nothing]
        /\ Moved(f)
        /\ UNCHANGED incoming

(* Another file is in the way: the restore stays pending.                  *)
RestoreBackupConflict(f) ==
  /\ step = "restore_backup" /\ f \in todo
  /\ vacant = {} /\ backup[f] # Nothing /\ project[f] # Nothing
  /\ Goto("idle")
  /\ UNCHANGED <<project, folders, staged, markers, older>>

(* A variant, not the code: the directories are not synced.                *)
BackupRestoredUnsynced ==
  step = "restore_backup" /\ SyncNothing /\ Goto("remove_folders")

BackupRestored ==
  step = "restore_backup" /\ SyncTouched /\ Goto("remove_folders")

Empty(folder) == \A f \in FilesOf(project) : FolderOf[f] # folder

RemoveFolder(folder) ==
  /\ step = "remove_folders"
  /\ folder \in plan.folders \cap folders /\ Empty(folder)
  /\ folders' = folders \ {folder}
  /\ UNCHANGED <<project, staged, markers, process, older>>

FoldersRemoved ==
  /\ step = "remove_folders"
  /\ \A folder \in plan.folders \cap folders : ~Empty(folder)
  /\ Goto("open_terminal")
  /\ UNCHANGED <<project, folders, staged, markers, older>>

-----------------------------------------------------------------------------
(* Failing calls.                                                          *)

(* Before the pending marker: the transaction is discarded if possible.    *)
RestoreRefused ==
  /\ "io" \in faults
  /\ \/ step \in {"discard", "abandon"} /\ Goto("idle") /\ UNCHANGED transaction
     \/ step = "create" /\ Goto("idle") /\ transaction' \in BOOLEAN
     \/ step = "prepare" /\ Goto("abandon") /\ UNCHANGED transaction
  /\ UNCHANGED <<project, folders, incoming, backup, plan, marks, markers,
                 older>>

(* The marker whose writing failed is removed, if that succeeds.           *)
PendingFails ==
  /\ "io" \in faults /\ step = "write_pending"
  /\ pending' \in BOOLEAN
  /\ Goto(IF pending' THEN "recover" ELSE "abandon")
  /\ UNCHANGED <<project, folders, staged, terminal, older>>

MarkOf(s) ==
  CASE s = "mark_backing_up" -> {"backing_up"}
    [] s = "mark_installing" -> {"installing"}
    [] s = "mark_installed" -> {"installed"}
    [] s = "mark_rolling_back" -> {"rolling_back"}
    [] s = "mark_restoring_backup" -> {"restoring_backup"}
    [] OTHER -> {}

RestoreFails ==
  /\ "io" \in faults /\ step \in RestoreSteps
  /\ marks' \in {marks, marks \cup MarkOf(step)}
  /\ Goto("recover")
  /\ UNCHANGED <<project, folders, transaction, incoming, backup, plan,
                 markers, older>>

RecoveryFails ==
  /\ "io" \in faults /\ step \in RecoverySteps \cup CleanupSteps
  /\ marks' \in {marks, marks \cup MarkOf(step)}
  /\ pending' \in {pending, pending /\ step # "clear_pending"}
  /\ terminal' \in
       {terminal, IF step = "clear_terminal" THEN "absent" ELSE terminal}
  /\ Goto("idle")
  /\ UNCHANGED <<project, folders, transaction, incoming, backup, plan, older>>

Kill ==
  /\ "kill" \in faults /\ step # "idle"
  /\ Goto("idle")
  /\ UNCHANGED <<project, folders, staged, markers, older>>

PowerLoss ==
  /\ "power" \in faults
  /\ \E left \in
          [File -> UNION {older[f] \cup {Place(f)} : f \in File}] :
       /\ \A f \in File : left[f] \in older[f] \cup {Place(f)}
       /\ project' = [f \in File |-> left[f].project]
       /\ backup' = [f \in File |-> left[f].backup]
       /\ incoming' = [f \in File |-> left[f].incoming]
  /\ older' = NeverMoved
  /\ Goto("idle")
  /\ UNCHANGED <<folders, transaction, plan, marks, markers>>

-----------------------------------------------------------------------------
(* The other users of the project.                                         *)

(* Every command of the application: it takes the worktree lock and finds  *)
(* no restore pending.                                                     *)
Edit(f, content) ==
  /\ step = "idle" /\ ~pending
  /\ project' = [project EXCEPT ![f] = content]
  /\ folders' = folders \cup
       (IF content = Nothing THEN {} ELSE FoldersFor({f}))
  /\ older' = [older EXCEPT ![f] = {}]
  /\ UNCHANGED <<staged, markers, process>>

(* Resetting the project's Checkpoints removes the store's directory.      *)
DestroyStore ==
  /\ step = "idle"
  /\ EmptyTransaction
  /\ terminal' = "absent"
  /\ UNCHANGED <<project, folders, pending, process>>
ResetCheckpoints == ~pending /\ DestroyStore

(* Another program creates a file, at any time.                            *)
ForeignCreate(f) ==
  /\ "foreign" \in faults /\ project[f] = Nothing
  /\ FolderOf[f] \in folders \cup {Top}
  /\ project' = [project EXCEPT ![f] = Theirs]
  /\ UNCHANGED <<folders, staged, markers, process, older>>

-----------------------------------------------------------------------------
Advance ==
  \/ RemoveTransaction \/ CreateTransaction
  \/ \E c \in Checkpoint : Prepare(c)
  \/ WritePending \/ MarkBackingUp \/ BackedUp
  \/ MarkInstalling \/ FoldersMade \/ Installed \/ MarkInstalled
  \/ \E folder \in plan.folders : MakeFolder(folder) \/ RemoveFolder(folder)
  \/ \E f \in todo :
       \/ BackUp(f) \/ MoveBack(f)
       \/ InstallVacant(f) \/ Install(f) \/ InstallConflict(f)
       \/ BackupVacant(f) \/ RestoreBackup(f) \/ RestoreBackupConflict(f)
  \/ OpenTerminal \/ WriteTerminal \/ ClearPending \/ ClearTerminal
  \/ Recover \/ RecoveryRefused
  \/ MarkRollingBack \/ MovedBack \/ MarkRestoringBackup \/ BackupRestored
  \/ FoldersRemoved

Fault ==
  \/ RestoreRefused \/ PendingFails \/ RestoreFails \/ RecoveryFails
  \/ Kill \/ PowerLoss
  \/ \E f \in File : ForeignCreate(f)

User ==
  \/ StartRestore \/ ClearStaleTerminal \/ ResetCheckpoints
  \/ \E f \in File, content \in Version \cup {Nothing} : Edit(f, content)

Continue == Advance /\ UNCHANGED faults
Recovery == Reopen /\ UNCHANGED faults
CalmDown == faults # {} /\ faults' = {} /\ UNCHANGED files

Next ==
  \/ Continue \/ Recovery
  \/ (Tear \/ Fault \/ User) /\ UNCHANGED faults
  \/ CalmDown

Spec == Init /\ [][Next]_vars

(* A restore in progress keeps running, the user opens a project whose     *)
(* restore is pending, and faults stop some day.                           *)
FairSpec ==
  Spec /\ WF_vars(Continue) /\ WF_vars(Recovery) /\ WF_vars(CalmDown)

-----------------------------------------------------------------------------
TypeOK ==
  /\ project \in [File -> Contents]
  /\ folders \subseteq Folder
  /\ transaction \in BOOLEAN
  /\ incoming \in [File -> Contents] /\ backup \in [File -> Contents]
  /\ plan \in [files : SUBSET File, folders : SUBSET Folder]
  /\ marks \subseteq Marks
  /\ pending \in BOOLEAN
  /\ terminal \in {"absent", "partial", "complete"}
  /\ step \in Steps
  /\ todo \subseteq plan.files /\ touched \subseteq plan.files
  /\ vacant \subseteq todo
  /\ older \in [File -> SUBSET Places]
  /\ faults \in Adversity \cup {{}}

(* What the project's files were before an unfinished restore, put         *)
(* together from where it has moved them.  A file of another program in a  *)
(* place that was just found free does not count until the restore fails   *)
(* before its rename: the rename would replace it.                         *)
Unfinished ==
  pending /\ transaction /\ "installed" \notin marks /\ terminal # "complete"
Original ==
  [f \in File |->
     IF ~Unfinished \/ f \notin plan.files THEN project[f]
     ELSE IF backup[f] # Nothing THEN backup[f]
     ELSE IF incoming[f] # Nothing /\ f \notin vacant THEN project[f]
     ELSE Nothing]
OriginalFolders ==
  IF Unfinished
    THEN folders \ (plan.folders \ FoldersFor(FilesOf(Original)))
    ELSE folders

Reserved == step # "idle" \/ pending

(* A restore happens at once or not at all, whatever fails or crashes:     *)
(* what the next user of the files is allowed to see is the whole          *)
(* checkpoint or exactly what was there before, and until then nobody      *)
(* edits them.  Files of other programs add to what was there, except one  *)
(* the rename of a restore replaced, see Original.                         *)
Atomic == INSTANCE AtomicRestore
            WITH tree <- Original, folders <- OriginalFolders,
                 reserved <- Reserved
RestoreIsAtomic == Atomic!Spec

(* A pending restore always has what its recovery needs: the terminal      *)
(* marker, or the transaction with its plan or its "installed" marker.     *)
PendingHasData == pending => terminal # "absent" \/ (transaction /\ HasData)

(* Nothing of the project is moved, and no new restore is prepared, while  *)
(* the terminal marker exists: a recovery that found it would throw away   *)
(* the backup of a restore that is half done.                              *)
TerminalMeansDone ==
  terminal # "absent" /\ transaction =>
    pending /\ step \in {"idle", "recover"} \cup CleanupSteps

(* Once a restore is over no power loss can move a file of it any more.    *)
SettledIsDurable ==
  step = "idle" /\ ~pending =>
    \A f \in File : \A place \in older[f] : place.project = project[f]

(* A file that another program put into the project is moved to the backup *)
(* with the rest or stays where it is and stops the restore, also when it  *)
(* came in the middle of it.  The code cannot promise that of a file which *)
(* comes between the check that finds its place free and the rename, but   *)
(* of no other: nothing is taken for free where such a file was.           *)
ForeignKept ==
  [][\A f \in File :
       project[f] = Theirs /\ step # "idle" /\ f \notin vacant
       => /\ f \notin vacant'
          /\ project'[f] = Theirs \/ backup'[f] = Theirs]_vars

(* The same without the exception.                                         *)
ForeignNeverReplaced ==
  [][\A f \in File :
       project[f] = Theirs /\ step # "idle"
       => project'[f] = Theirs \/ backup'[f] = Theirs]_vars

(* A pending restore is recovered when the project is opened again, unless *)
(* the terminal marker was only partly written or another program's file   *)
(* is in the way.                                                          *)
RecoveryEnds ==
  pending ~>
    ~pending \/ terminal = "partial" \/ \E f \in File : project[f] = Theirs

(* "The installed marker makes cleanup restartable."                       *)
CleanupRestartable == pending ~> ~pending
=============================================================================
