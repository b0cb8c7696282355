----------------------- MODULE RestoreTransactionProofs -----------------------
(***************************************************************************)
(* Safety of RestoreTransaction for any files, folders, checkpoints and    *)
(* other programs' files: what the markers always say of the files, that   *)
(* a restore happens at once or not at all (AtomicRestore), and what may   *)
(* stop it.                                                                *)
(***************************************************************************)
EXTENDS RestoreTransaction, TLAPS

Loops == {"back_up", "install", "move_back", "restore_backup"}
Preparing == {"discard", "create", "prepare", "write_pending", "abandon"}
Looping == step \notin Loops => todo = {} /\ touched = {}

(* Two of the loops look where a file goes before they move it there.      *)
Finding ==
  /\ vacant \subseteq todo /\ \A f, g \in vacant : f = g
  /\ step \notin {"install", "restore_backup"} => vacant = {}
  /\ step = "restore_backup" => \A f \in vacant : backup[f] # Nothing

AllSteps ==
  {"idle", "discard", "create", "prepare", "write_pending", "abandon",
   "mark_backing_up", "back_up", "mark_installing", "make_folders", "install",
   "mark_installed", "recover", "mark_rolling_back", "move_back",
   "mark_restoring_backup", "restore_backup", "remove_folders",
   "open_terminal", "write_terminal", "remove", "clear_pending",
   "clear_terminal"}

LEMMA StepsAre == Steps = AllSteps
BY DEF Steps, AllSteps, RestoreSteps, RecoverySteps, CleanupSteps

-----------------------------------------------------------------------------
(* Types.                                                                  *)
FileTypes ==
  /\ project \in [File -> Contents]
  /\ incoming \in [File -> Contents] /\ backup \in [File -> Contents]
  /\ older \in [File -> SUBSET Places]

PhaseTypes ==
  /\ transaction \in BOOLEAN /\ pending \in BOOLEAN
  /\ marks \subseteq Marks
  /\ terminal \in {"absent", "partial", "complete"}
  /\ step \in AllSteps

PlanTypes ==
  /\ folders \subseteq Folder
  /\ plan \in [files : SUBSET File, folders : SUBSET Folder]
  /\ todo \subseteq plan.files /\ touched \subseteq plan.files
  /\ Looping /\ Finding

FaultTypes == faults \in Adversity \cup {{}}

Types == FileTypes /\ PhaseTypes /\ PlanTypes /\ FaultTypes

LEMMA TypesGive == ASSUME Types PROVE TypeOK
BY StepsAre
DEF Types, FileTypes, PhaseTypes, PlanTypes, Finding, FaultTypes, TypeOK

LEMMA NoFilesTyped ==
  /\ NoFiles \in [File -> Contents]
  /\ NeverMoved \in [File -> SUBSET Places]
BY DEF NoFiles, NeverMoved, Contents

LEMMA FoldersTyped ==
  ASSUME NEW some \in SUBSET File
  PROVE  FoldersFor(some) \subseteq Folder
BY FolderAssumption DEF FoldersFor

LEMMA PlaceTyped ==
  ASSUME FileTypes, NEW f \in File
  PROVE  Place(f) \in Places
BY DEF FileTypes, Place, Places

-----------------------------------------------------------------------------
(* What the actions on files do, file by file.                             *)
LEMMA EmptyTyped ==
  ASSUME FileTypes, EmptyTransaction
  PROVE  /\ incoming' \in [File -> Contents] /\ backup' \in [File -> Contents]
         /\ older' \in [File -> SUBSET Places]
         /\ \A f \in File : older[f] = {} => older'[f] = {}
<1> DEFINE emptied(o) == [o EXCEPT !.backup = Nothing, !.incoming = Nothing]
<1>1. ASSUME NEW o \in Places PROVE emptied(o) \in Places
  BY DEF Places, Contents
<1>2. \A f \in File : {emptied(o) : o \in older[f]} \in SUBSET Places
  BY <1>1 DEF FileTypes
<1>3. older' = [f \in File |-> {emptied(o) : o \in older[f]}]
  BY DEF EmptyTransaction
<1>4. /\ older' \in [File -> SUBSET Places]
      /\ \A f \in File : older[f] = {} => older'[f] = {}
  <2> HIDE DEF emptied
  <2> QED BY <1>2, <1>3
<1> QED BY <1>4, NoFilesTyped DEF EmptyTransaction

(* A file's contents are moved to x, y and z, the rest stays.              *)
Elsewhere(f) ==
  \A g \in File \ {f} :
    /\ project'[g] = project[g]
    /\ backup'[g] = backup[g] /\ incoming'[g] = incoming[g]
    /\ older'[g] = older[g]

MovesTo(f, x, y, z) ==
  /\ FileTypes' /\ f \in File /\ f \in plan.files
  /\ project'[f] = x /\ backup'[f] = y /\ incoming'[f] = z
  /\ older'[f] = IF "power" \in faults THEN older[f] \cup {Place(f)}
                                        ELSE older[f]
  /\ Elsewhere(f)
  /\ todo' = todo \ {f} /\ touched' = touched \cup {f} /\ vacant' = {}
  /\ UNCHANGED <<folders, transaction, plan, marks, pending, terminal, step>>

LEMMA Moving ==
  ASSUME Types, NEW f \in todo, Moved(f),
         NEW x \in Contents, NEW y \in Contents, NEW z \in Contents,
         project' = [project EXCEPT ![f] = x],
         backup' = [backup EXCEPT ![f] = y],
         incoming' = [incoming EXCEPT ![f] = z]
  PROVE  MovesTo(f, x, y, z)
<1>1. f \in File /\ f \in plan.files /\ Place(f) \in Places
  BY PlaceTyped DEF Types, PlanTypes
<1>2. /\ older' \in [File -> SUBSET Places]
      /\ older'[f] = IF "power" \in faults THEN older[f] \cup {Place(f)}
                                           ELSE older[f]
      /\ \A g \in File \ {f} : older'[g] = older[g]
  BY <1>1 DEF Moved, Types, FileTypes
<1>3. /\ project' \in [File -> Contents] /\ project'[f] = x
      /\ \A g \in File \ {f} : project'[g] = project[g]
  BY <1>1 DEF Types, FileTypes
<1>4. /\ backup' \in [File -> Contents] /\ backup'[f] = y
      /\ \A g \in File \ {f} : backup'[g] = backup[g]
  BY <1>1 DEF Types, FileTypes
<1>5. /\ incoming' \in [File -> Contents] /\ incoming'[f] = z
      /\ \A g \in File \ {f} : incoming'[g] = incoming[g]
  BY <1>1 DEF Types, FileTypes
<1>6. Elsewhere(f)
  BY <1>2, <1>3, <1>4, <1>5 DEF Elsewhere
<1>7. /\ todo' = todo \ {f} /\ touched' = touched \cup {f} /\ vacant' = {}
      /\ UNCHANGED <<folders, transaction, plan, marks, pending, terminal,
                     step>>
  BY DEF Moved, markers
<1> QED BY <1>1, <1>2, <1>3, <1>4, <1>5, <1>6, <1>7 DEF MovesTo, FileTypes

LEMMA ContentsOf ==
  ASSUME Types, NEW f \in todo
  PROVE  /\ f \in File /\ Nothing \in Contents
         /\ project[f] \in Contents
         /\ project = [project EXCEPT ![f] = project[f]]
         /\ backup[f] \in Contents /\ backup = [backup EXCEPT ![f] = backup[f]]
         /\ incoming[f] \in Contents
         /\ incoming = [incoming EXCEPT ![f] = incoming[f]]
<1>1. f \in File /\ Nothing \in Contents
  BY DEF Types, PlanTypes, Contents
<1>2. project[f] \in Contents /\ project = [project EXCEPT ![f] = project[f]]
  BY <1>1 DEF Types, FileTypes
<1>3. backup[f] \in Contents /\ backup = [backup EXCEPT ![f] = backup[f]]
  BY <1>1 DEF Types, FileTypes
<1>4. /\ incoming[f] \in Contents
      /\ incoming = [incoming EXCEPT ![f] = incoming[f]]
  BY <1>1 DEF Types, FileTypes
<1> QED BY <1>1, <1>2, <1>3, <1>4

LEMMA BackUpMoves ==
  ASSUME Types, NEW f \in todo, BackUp(f)
  PROVE  \/ project[f] = Nothing /\ Skip(f)
         \/ /\ project[f] # Nothing
            /\ MovesTo(f, Nothing, project[f], incoming[f])
<1>1. CASE project[f] # Nothing /\ Moved(f)
  <2>1. /\ project' = [project EXCEPT ![f] = Nothing]
        /\ backup' = [backup EXCEPT ![f] = project[f]]
        /\ incoming' = [incoming EXCEPT ![f] = incoming[f]]
    BY <1>1, ContentsOf DEF BackUp
  <2> QED BY <1>1, <2>1, ContentsOf, Moving
<1> QED BY <1>1 DEF BackUp

LEMMA InstallMoves ==
  ASSUME Types, NEW f \in todo, Install(f)
  PROVE  f \in vacant /\ MovesTo(f, incoming[f], backup[f], Nothing)
<1>1. /\ project' = [project EXCEPT ![f] = incoming[f]]
      /\ backup' = [backup EXCEPT ![f] = backup[f]]
      /\ incoming' = [incoming EXCEPT ![f] = Nothing] /\ Moved(f)
  BY ContentsOf DEF Install
<1> QED BY <1>1, ContentsOf, Moving DEF Install

LEMMA MoveBackMoves ==
  ASSUME Types, NEW f \in todo, MoveBack(f)
  PROVE  \/ incoming[f] # Nothing /\ Skip(f)
         \/ /\ incoming[f] = Nothing /\ project[f] # Nothing
            /\ MovesTo(f, Nothing, backup[f], project[f])
<1>1. CASE incoming[f] = Nothing /\ project[f] # Nothing /\ Moved(f)
  <2>1. /\ project' = [project EXCEPT ![f] = Nothing]
        /\ backup' = [backup EXCEPT ![f] = backup[f]]
        /\ incoming' = [incoming EXCEPT ![f] = project[f]]
    BY <1>1, ContentsOf DEF MoveBack
  <2> QED BY <1>1, <2>1, ContentsOf, Moving
<1> QED BY <1>1 DEF MoveBack

LEMMA RestoreBackupMoves ==
  ASSUME Types, NEW f \in todo, RestoreBackup(f)
  PROVE  \/ backup[f] = Nothing /\ Skip(f)
         \/ /\ backup[f] # Nothing /\ f \in vacant
            /\ MovesTo(f, backup[f], Nothing, incoming[f])
<1>1. CASE backup[f] # Nothing /\ Moved(f)
  <2>1. /\ project' = [project EXCEPT ![f] = backup[f]]
        /\ backup' = [backup EXCEPT ![f] = Nothing]
        /\ incoming' = [incoming EXCEPT ![f] = incoming[f]]
    BY <1>1, ContentsOf DEF RestoreBackup
  <2> QED BY <1>1, <2>1, ContentsOf, Moving DEF RestoreBackup
<1> QED BY <1>1 DEF RestoreBackup

(* To find a place free changes nothing else.                              *)
Finds(f) == InstallVacant(f) \/ BackupVacant(f)

LEMMA FindingStandsStill ==
  ASSUME NEW f \in todo, Finds(f)
  PROVE  /\ UNCHANGED <<project, folders, transaction, incoming, backup, plan,
                        marks, pending, terminal, step, todo, touched, older>>
         /\ vacant = {} /\ vacant' = {f} /\ project[f] = Nothing
         /\ step \in {"install", "restore_backup"} /\ step \in Loops
         /\ step = "restore_backup" => backup[f] # Nothing
BY DEF Finds, InstallVacant, BackupVacant, FindVacant, staged, markers, Loops

(* A power loss leaves each file at one of the places it may be at.        *)
Possible(f) == older[f] \cup {Place(f)}

LEMMA PowerLossLeaves ==
  ASSUME Types, PowerLoss
  PROVE  /\ FileTypes' /\ older' = NeverMoved
         /\ \A f \in File : \E p \in Possible(f) :
              /\ project'[f] = p.project
              /\ backup'[f] = p.backup /\ incoming'[f] = p.incoming
<1> PICK left : /\ \A f \in File : left[f] \in Possible(f)
                /\ project' = [f \in File |-> left[f].project]
                /\ backup' = [f \in File |-> left[f].backup]
                /\ incoming' = [f \in File |-> left[f].incoming]
  BY DEF PowerLoss, Possible
<1>1. \A f \in File : Possible(f) \subseteq Places
  BY PlaceTyped DEF Types, FileTypes, Possible
<1>2. \A f \in File : /\ left[f].project \in Contents
                      /\ left[f].backup \in Contents
                      /\ left[f].incoming \in Contents
  BY <1>1 DEF Places
<1>3. /\ project' \in [File -> Contents] /\ backup' \in [File -> Contents]
      /\ incoming' \in [File -> Contents]
  BY <1>2
<1>4. FileTypes' /\ older' = NeverMoved
  BY <1>3, NoFilesTyped DEF FileTypes, PowerLoss
<1>5. ASSUME NEW f \in File
      PROVE  /\ project'[f] = left[f].project
             /\ backup'[f] = left[f].backup
             /\ incoming'[f] = left[f].incoming
  OBVIOUS
<1> QED BY <1>4, <1>5

LEMMA Written ==
  ASSUME Types, NEW f \in File, NEW x \in Contents,
         project' = [project EXCEPT ![f] = x]
  PROVE  /\ project' \in [File -> Contents] /\ project'[f] = x
         /\ \A g \in File \ {f} : project'[g] = project[g]
BY DEF Types, FileTypes

LEMMA EditWrites ==
  ASSUME Types, NEW f \in File, NEW content \in Version \cup {Nothing},
         Edit(f, content)
  PROVE  /\ FileTypes' /\ project'[f] = content
         /\ \A g \in File \ {f} : project'[g] = project[g]
         /\ older'[f] = {} /\ \A g \in File \ {f} : older'[g] = older[g]
         /\ UNCHANGED <<incoming, backup>>
<1>1. /\ project' \in [File -> Contents] /\ project'[f] = content
      /\ \A g \in File \ {f} : project'[g] = project[g]
  BY Written DEF Edit, Contents
<1>2. /\ older' \in [File -> SUBSET Places] /\ older'[f] = {}
      /\ \A g \in File \ {f} : older'[g] = older[g]
  BY DEF Edit, Types, FileTypes
<1> QED BY <1>1, <1>2 DEF Edit, staged, Types, FileTypes

LEMMA ForeignWrites ==
  ASSUME Types, NEW f \in File, ForeignCreate(f)
  PROVE  /\ FileTypes' /\ project'[f] = Theirs
         /\ \A g \in File \ {f} : project'[g] = project[g]
         /\ UNCHANGED <<incoming, backup, older>>
<1>1. /\ project' \in [File -> Contents] /\ project'[f] = Theirs
      /\ \A g \in File \ {f} : project'[g] = project[g]
  BY Written DEF ForeignCreate, Contents
<1> QED BY <1>1 DEF ForeignCreate, staged, Types, FileTypes

LEMMA PlanMade ==
  ASSUME Types, NEW c \in Checkpoint, Prepare(c)
  PROVE  /\ plan'.files = FilesOf(c) /\ FilesOf(c) # {}
         /\ plan'.folders = FoldersFor(FilesOf(c)) \ folders
         /\ plan' \in [files : SUBSET File, folders : SUBSET Folder]
         /\ plan' # NoPlan /\ incoming' \in [File -> Contents]
<1>1. /\ FilesOf(c) \in SUBSET File /\ FilesOf(c) # {}
      /\ c \in [File -> Contents]
  BY CheckpointAssumption DEF FilesOf, Contents
<1>2. FoldersFor(FilesOf(c)) \subseteq Folder
  BY <1>1, FoldersTyped
<1> QED BY <1>1, <1>2 DEF Prepare, NoPlan

LEMMA NoPlanTyped == NoPlan \in [files : SUBSET File, folders : SUBSET Folder]
BY DEF NoPlan

LEMMA FileTypesKept ==
  ASSUME Types, [Next]_vars PROVE FileTypes'
<1> USE DEF staged, markers, files
<1>1. ASSUME Tear PROVE FileTypes'
  BY <1>1, NoFilesTyped DEF Tear, Types, FileTypes
<1>2. ASSUME RemoveTransaction \/ ResetCheckpoints PROVE FileTypes'
  <2>1. EmptyTransaction /\ UNCHANGED project
    BY <1>2 DEF RemoveTransaction, ResetCheckpoints, DestroyStore
  <2> QED BY <2>1, EmptyTyped DEF Types, FileTypes
<1>3. ASSUME NEW c \in Checkpoint, Prepare(c) PROVE FileTypes'
  BY <1>3, PlanMade DEF Prepare, Types, FileTypes
<1>4. ASSUME BackedUp \/ Installed \/ MovedBack \/ BackupRestored
      PROVE  FileTypes'
  BY <1>4 DEF BackedUp, Installed, MovedBack, BackupRestored, SyncTouched,
              Types, FileTypes
<1>5. ASSUME NEW f \in todo,
             BackUp(f) \/ Install(f) \/ MoveBack(f) \/ RestoreBackup(f)
      PROVE  FileTypes'
  <2>1. ASSUME Skip(f) PROVE FileTypes'
    BY <2>1 DEF Skip, Types, FileTypes
  <2>2. ASSUME NEW x, NEW y, NEW z, MovesTo(f, x, y, z) PROVE FileTypes'
    BY <2>2 DEF MovesTo
  <2> QED BY <1>5, <2>1, <2>2, BackUpMoves, InstallMoves, MoveBackMoves,
             RestoreBackupMoves
<1>6. ASSUME PowerLoss PROVE FileTypes'
  BY <1>6, PowerLossLeaves
<1>7. ASSUME NEW f \in File, ForeignCreate(f) PROVE FileTypes'
  BY <1>7, ForeignWrites
<1>8. ASSUME NEW f \in File, NEW content \in Version \cup {Nothing},
             Edit(f, content)
      PROVE  FileTypes'
  BY <1>8, EditWrites
<1>9. ASSUME UNCHANGED <<project, incoming, backup, older>> PROVE FileTypes'
  BY <1>9 DEF Types, FileTypes
<1>10. ASSUME NEW f \in todo, InstallConflict(f) \/ RestoreBackupConflict(f)
       PROVE  UNCHANGED <<project, incoming, backup, older>>
  BY <1>10 DEF InstallConflict, RestoreBackupConflict
<1>11. ASSUME NEW folder, MakeFolder(folder) \/ RemoveFolder(folder)
       PROVE  UNCHANGED <<project, incoming, backup, older>>
  BY <1>11 DEF MakeFolder, RemoveFolder
<1>12. CASE Continue
  BY <1>1, <1>2, <1>3, <1>4, <1>5, <1>9, <1>10, <1>11, <1>12,
     FindingStandsStill
  DEF Continue, Advance, Finds, CreateTransaction, WritePending, MarkBackingUp,
      MarkInstalling, FoldersMade, MarkInstalled, OpenTerminal, WriteTerminal,
      ClearPending, ClearTerminal, Recover, RecoveryRefused, MarkRollingBack,
      MarkRestoringBackup, FoldersRemoved, Mark
<1>13. CASE Fault
  BY <1>6, <1>7, <1>9, <1>13
  DEF Fault, RestoreRefused, PendingFails, RestoreFails, RecoveryFails, Kill
<1>14. CASE User
  BY <1>2, <1>8, <1>9, <1>14 DEF User, StartRestore, ClearStaleTerminal
<1>15. CASE Recovery \/ CalmDown \/ UNCHANGED vars
  BY <1>9, <1>15 DEF Recovery, Reopen, CalmDown, vars
<1> QED BY <1>1, <1>12, <1>13, <1>14, <1>15 DEF Next

-----------------------------------------------------------------------------
(* What the markers and the steps say of each other.                       *)
Control ==
  /\ ~pending =>
       marks = {} /\ step \in {"idle", "clear_terminal"} \cup Preparing
  /\ ~pending /\ terminal # "absent" => terminal = "complete" /\ ~transaction
  /\ pending /\ terminal # "complete" => transaction /\ HasData
  /\ ~transaction => marks = {} /\ plan = NoPlan
  /\ step \in Preparing => ~pending /\ terminal = "absent"
  /\ step = "create" => ~transaction
  /\ step = "prepare" => transaction /\ plan = NoPlan
  /\ step = "write_pending" => transaction /\ plan # NoPlan
  /\ step \in (RestoreSteps \cup RecoverySteps) \ {"recover"} =>
       /\ pending /\ terminal = "absent"
       /\ plan # NoPlan /\ "installed" \notin marks
  /\ step = "recover" => pending
  /\ step = "open_terminal" => pending /\ terminal = "absent"
  /\ step = "write_terminal" => pending /\ terminal = "partial"
  /\ step = "remove" => pending /\ terminal = "complete"
  /\ step = "clear_pending" => pending /\ terminal = "complete" /\ ~transaction
  /\ step = "clear_terminal" =>
       ~pending /\ terminal = "complete" /\ ~transaction

Markers ==
  /\ step = "mark_backing_up" => marks = {}
  /\ step \in {"back_up", "mark_installing"} => marks = {"backing_up"}
  /\ step \in {"make_folders", "install", "mark_installed"} =>
       marks = {"backing_up", "installing"}
  /\ step = "move_back" => "rolling_back" \in marks
  /\ step \in {"restore_backup", "remove_folders"} =>
       "restoring_backup" \in marks

LEMMA StandingStill ==
  ASSUME Control, Markers,
         UNCHANGED <<transaction, plan, marks, pending, terminal, step>>
  PROVE  Control' /\ Markers'
BY DEF Control, Markers, HasData

LEMMA MoversStandStill ==
  ASSUME Types, NEW f \in todo,
         BackUp(f) \/ Install(f) \/ MoveBack(f) \/ RestoreBackup(f)
  PROVE  /\ UNCHANGED <<folders, transaction, plan, marks, pending, terminal,
                        step>>
         /\ step \in Loops /\ vacant' = {}
         /\ todo' = todo \ {f} /\ touched' \in {touched, touched \cup {f}}
<1>1. step \in Loops
  BY DEF BackUp, Install, MoveBack, RestoreBackup, Loops
<1>2. ASSUME Skip(f)
      PROVE  /\ UNCHANGED <<folders, transaction, plan, marks, pending,
                            terminal, step>>
             /\ todo' = todo \ {f} /\ touched' = touched /\ vacant' = {}
  BY <1>2 DEF Skip, staged, markers
<1>3. ASSUME NEW x, NEW y, NEW z, MovesTo(f, x, y, z)
      PROVE  /\ UNCHANGED <<folders, transaction, plan, marks, pending,
                            terminal, step>>
             /\ todo' = todo \ {f} /\ touched' = touched \cup {f}
             /\ vacant' = {}
  BY <1>3 DEF MovesTo
<1> QED BY <1>1, <1>2, <1>3, BackUpMoves, InstallMoves, MoveBackMoves,
           RestoreBackupMoves

LEMMA ControlKept ==
  ASSUME Types, Control, Markers, [Next]_vars PROVE Control' /\ Markers'
<1> USE DEF staged, markers, process
<1>1. ASSUME RemoveTransaction PROVE Control' /\ Markers'
  BY <1>1
  DEF RemoveTransaction, EmptyTransaction, Goto, Control, Markers, HasData,
    Preparing, RestoreSteps, RecoverySteps
<1>2. ASSUME CreateTransaction PROVE Control' /\ Markers'
  BY <1>2
  DEF CreateTransaction, Goto, Control, Markers, HasData, Preparing,
    RestoreSteps, RecoverySteps
<1>3. ASSUME WritePending PROVE Control' /\ Markers'
  BY <1>3
  DEF WritePending, Goto, Control, Markers, HasData, Preparing, RestoreSteps,
    RecoverySteps
<1>4. ASSUME MarkBackingUp PROVE Control' /\ Markers'
  BY <1>4
  DEF MarkBackingUp, Mark, Loop, Goto, Control, Markers, HasData, Preparing,
    RestoreSteps, RecoverySteps
<1>5. ASSUME BackedUp PROVE Control' /\ Markers'
  BY <1>5
  DEF BackedUp, SyncTouched, Goto, Control, Markers, HasData, Preparing,
    RestoreSteps, RecoverySteps
<1>6. ASSUME MarkInstalling PROVE Control' /\ Markers'
  BY <1>6
  DEF MarkInstalling, Mark, Goto, Control, Markers, HasData, Preparing,
    RestoreSteps, RecoverySteps
<1>7. ASSUME FoldersMade PROVE Control' /\ Markers'
  BY <1>7
  DEF FoldersMade, Loop, Goto, Control, Markers, HasData, Preparing,
    RestoreSteps, RecoverySteps
<1>8. ASSUME Installed PROVE Control' /\ Markers'
  BY <1>8
  DEF Installed, SyncTouched, Goto, Control, Markers, HasData, Preparing,
    RestoreSteps, RecoverySteps
<1>9. ASSUME MarkInstalled PROVE Control' /\ Markers'
  BY <1>9
  DEF MarkInstalled, Mark, Goto, Control, Markers, HasData, Preparing,
    RestoreSteps, RecoverySteps
<1>10. ASSUME OpenTerminal PROVE Control' /\ Markers'
  BY <1>10
  DEF OpenTerminal, Goto, Control, Markers, HasData, Preparing, RestoreSteps,
    RecoverySteps
<1>11. ASSUME WriteTerminal PROVE Control' /\ Markers'
  BY <1>11
  DEF WriteTerminal, Goto, Control, Markers, HasData, Preparing,
    RestoreSteps, RecoverySteps
<1>12. ASSUME ClearPending PROVE Control' /\ Markers'
  BY <1>12
  DEF ClearPending, Goto, Control, Markers, HasData, Preparing, RestoreSteps,
    RecoverySteps
<1>13. ASSUME ClearTerminal PROVE Control' /\ Markers'
  BY <1>13
  DEF ClearTerminal, Goto, Control, Markers, HasData, Preparing,
    RestoreSteps, RecoverySteps, Types, PhaseTypes, AllSteps, Marks
<1>14. ASSUME Recover PROVE Control' /\ Markers'
  BY <1>14
  DEF Recover, RecoverByMarks, Loop, Goto, Control, Markers, HasData,
    Preparing, RestoreSteps, RecoverySteps, Types, PhaseTypes, AllSteps,
    Marks, Usable
<1>15. ASSUME RecoveryRefused PROVE Control' /\ Markers'
  BY <1>15
  DEF RecoveryRefused, Goto, Control, Markers, HasData, Preparing,
    RestoreSteps, RecoverySteps, Types, PhaseTypes, AllSteps, Marks, Usable
<1>16. ASSUME MarkRollingBack PROVE Control' /\ Markers'
  BY <1>16
  DEF MarkRollingBack, Mark, Loop, Goto, Control, Markers, HasData,
    Preparing, RestoreSteps, RecoverySteps
<1>17. ASSUME MovedBack PROVE Control' /\ Markers'
  BY <1>17
  DEF MovedBack, SyncTouched, Goto, Control, Markers, HasData, Preparing,
    RestoreSteps, RecoverySteps
<1>18. ASSUME MarkRestoringBackup PROVE Control' /\ Markers'
  BY <1>18
  DEF MarkRestoringBackup, Mark, Loop, Goto, Control, Markers, HasData,
    Preparing, RestoreSteps, RecoverySteps
<1>19. ASSUME BackupRestored PROVE Control' /\ Markers'
  BY <1>19
  DEF BackupRestored, SyncTouched, Goto, Control, Markers, HasData,
    Preparing, RestoreSteps, RecoverySteps
<1>20. ASSUME FoldersRemoved PROVE Control' /\ Markers'
  BY <1>20
  DEF FoldersRemoved, Goto, Control, Markers, HasData, Preparing,
    RestoreSteps, RecoverySteps
<1>21. ASSUME RestoreRefused PROVE Control' /\ Markers'
  BY <1>21
  DEF RestoreRefused, Goto, Control, Markers, HasData, Preparing,
    RestoreSteps, RecoverySteps
<1>22. ASSUME PendingFails PROVE Control' /\ Markers'
  BY <1>22
  DEF PendingFails, Goto, Control, Markers, HasData, Preparing, RestoreSteps,
    RecoverySteps, Types, PhaseTypes, AllSteps, Marks
<1>23. ASSUME RestoreFails PROVE Control' /\ Markers'
  BY <1>23
  DEF RestoreFails, MarkOf, RestoreSteps, Goto, Control, Markers, HasData,
    Preparing, RecoverySteps, Types, PhaseTypes, AllSteps, Marks
<1>24. ASSUME RecoveryFails PROVE Control' /\ Markers'
  BY <1>24
  DEF RecoveryFails, MarkOf, RecoverySteps, CleanupSteps, Goto, Control,
    Markers, HasData, Preparing, RestoreSteps, Types, PhaseTypes, AllSteps,
    Marks
<1>25. ASSUME Kill PROVE Control' /\ Markers'
  BY <1>25
  DEF Kill, Goto, Control, Markers, HasData, Preparing, RestoreSteps,
    RecoverySteps, Types, PhaseTypes, AllSteps, Marks
<1>26. ASSUME PowerLoss PROVE Control' /\ Markers'
  BY <1>26
  DEF PowerLoss, Goto, Control, Markers, HasData, Preparing, RestoreSteps,
    RecoverySteps, Types, PhaseTypes, AllSteps, Marks
<1>27. ASSUME StartRestore PROVE Control' /\ Markers'
  BY <1>27
  DEF StartRestore, Goto, Control, Markers, HasData, Preparing, RestoreSteps,
    RecoverySteps, Types, PhaseTypes, AllSteps, Marks
<1>28. ASSUME ClearStaleTerminal PROVE Control' /\ Markers'
  BY <1>28
  DEF ClearStaleTerminal, Goto, Control, Markers, HasData, Preparing,
    RestoreSteps, RecoverySteps, Types, PhaseTypes, AllSteps, Marks
<1>29. ASSUME ResetCheckpoints PROVE Control' /\ Markers'
  BY <1>29
  DEF ResetCheckpoints, DestroyStore, EmptyTransaction, Goto, Control,
    Markers, HasData, Preparing, RestoreSteps, RecoverySteps
<1>30. ASSUME Reopen PROVE Control' /\ Markers'
  BY <1>30
  DEF Reopen, Goto, Control, Markers, HasData, Preparing, RestoreSteps,
    RecoverySteps, Types, PhaseTypes, AllSteps, Marks
<1>31. ASSUME Tear PROVE Control' /\ Markers'
  <2>1. CASE step \in {"discard", "abandon"}
    BY <1>31, <2>1 DEF Tear, Control, Markers, HasData, Preparing,
                     RestoreSteps, RecoverySteps
  <2>2. CASE step = "remove"
    BY <1>31, <2>2 DEF Tear, Control, Markers, HasData, Preparing,
                     RestoreSteps, RecoverySteps
  <2> QED BY <1>31, <2>1, <2>2 DEF Tear
<1>32. ASSUME NEW c \in Checkpoint, Prepare(c) PROVE Control' /\ Markers'
  BY <1>32, PlanMade
  DEF Prepare, Goto, Control, Markers, HasData, Preparing, RestoreSteps,
    RecoverySteps
<1>33. ASSUME NEW folder \in plan.folders, MakeFolder(folder)
       PROVE  Control' /\ Markers'
  BY <1>33
  DEF MakeFolder, Goto, Control, Markers, HasData, Preparing, RestoreSteps,
    RecoverySteps
<1>34. ASSUME NEW folder \in plan.folders, RemoveFolder(folder)
       PROVE  Control' /\ Markers'
  BY <1>34
  DEF RemoveFolder, Goto, Control, Markers, HasData, Preparing, RestoreSteps,
    RecoverySteps
<1>35. ASSUME NEW f \in todo, InstallConflict(f) PROVE Control' /\ Markers'
  BY <1>35
  DEF InstallConflict, Goto, Control, Markers, HasData, Preparing,
    RestoreSteps, RecoverySteps
<1>36. ASSUME NEW f \in todo, RestoreBackupConflict(f)
       PROVE  Control' /\ Markers'
  BY <1>36
  DEF RestoreBackupConflict, Goto, Control, Markers, HasData, Preparing,
    RestoreSteps, RecoverySteps
<1>37. ASSUME NEW f \in todo,
             BackUp(f) \/ Install(f) \/ MoveBack(f) \/ RestoreBackup(f)
       PROVE  Control' /\ Markers'
  BY <1>37, MoversStandStill, StandingStill
<1>38. ASSUME UNCHANGED <<transaction, plan, marks, pending, terminal, step>>
       PROVE  Control' /\ Markers'
  BY <1>38, StandingStill
<1>39. CASE Continue
  BY <1>39, <1>1, <1>2, <1>32, <1>3, <1>4, <1>5, <1>6, <1>7, <1>8, <1>9,
    <1>33, <1>34, <1>37, <1>35, <1>36, <1>10, <1>11, <1>12, <1>13, <1>14,
    <1>15, <1>16, <1>17, <1>18, <1>19, <1>20, <1>38, FindingStandsStill
  DEF Continue, Advance, Finds
<1>40. CASE Fault
  BY <1>40, <1>21, <1>22, <1>23, <1>24, <1>25, <1>26, <1>38
  DEF Fault, ForeignCreate
<1>41. CASE User
  BY <1>41, <1>27, <1>28, <1>29, <1>38
  DEF User, Edit
<1>42. CASE Recovery \/ CalmDown \/ UNCHANGED vars
  BY <1>42, <1>30, <1>38
  DEF Recovery, CalmDown, vars, files
<1> QED BY <1>31, <1>39, <1>40, <1>41, <1>42 DEF Next

LEMMA FaultsKept ==
  ASSUME FaultTypes, [Next]_vars
  PROVE  FaultTypes' /\ faults' \in {faults, {}}
BY DEF FaultTypes, Next, Continue, Recovery, CalmDown, vars

LEMMA PhaseTypesKept ==
  ASSUME Types, [Next]_vars PROVE PhaseTypes'
<1> USE DEF staged, markers, process
<1>1. ASSUME Tear PROVE PhaseTypes'
  BY <1>1
  DEF Tear, Goto, Types, PhaseTypes, AllSteps, Marks
<1>2. ASSUME RemoveTransaction PROVE PhaseTypes'
  BY <1>2
  DEF RemoveTransaction, EmptyTransaction, Goto, Types, PhaseTypes, AllSteps,
    Marks
<1>3. ASSUME CreateTransaction PROVE PhaseTypes'
  BY <1>3
  DEF CreateTransaction, Goto, Types, PhaseTypes, AllSteps, Marks
<1>4. ASSUME WritePending PROVE PhaseTypes'
  BY <1>4
  DEF WritePending, Goto, Types, PhaseTypes, AllSteps, Marks
<1>5. ASSUME MarkBackingUp PROVE PhaseTypes'
  BY <1>5
  DEF MarkBackingUp, Mark, Loop, Goto, Types, PhaseTypes, AllSteps, Marks
<1>6. ASSUME BackedUp PROVE PhaseTypes'
  BY <1>6
  DEF BackedUp, SyncTouched, Goto, Types, PhaseTypes, AllSteps, Marks
<1>7. ASSUME MarkInstalling PROVE PhaseTypes'
  BY <1>7
  DEF MarkInstalling, Mark, Goto, Types, PhaseTypes, AllSteps, Marks
<1>8. ASSUME FoldersMade PROVE PhaseTypes'
  BY <1>8
  DEF FoldersMade, Loop, Goto, Types, PhaseTypes, AllSteps, Marks
<1>9. ASSUME Installed PROVE PhaseTypes'
  BY <1>9
  DEF Installed, SyncTouched, Goto, Types, PhaseTypes, AllSteps, Marks
<1>10. ASSUME MarkInstalled PROVE PhaseTypes'
  BY <1>10
  DEF MarkInstalled, Mark, Goto, Types, PhaseTypes, AllSteps, Marks
<1>11. ASSUME OpenTerminal PROVE PhaseTypes'
  BY <1>11
  DEF OpenTerminal, Goto, Types, PhaseTypes, AllSteps, Marks
<1>12. ASSUME WriteTerminal PROVE PhaseTypes'
  BY <1>12
  DEF WriteTerminal, Goto, Types, PhaseTypes, AllSteps, Marks
<1>13. ASSUME ClearPending PROVE PhaseTypes'
  BY <1>13
  DEF ClearPending, Goto, Types, PhaseTypes, AllSteps, Marks
<1>14. ASSUME ClearTerminal PROVE PhaseTypes'
  BY <1>14
  DEF ClearTerminal, Goto, Types, PhaseTypes, AllSteps, Marks
<1>15. ASSUME Recover PROVE PhaseTypes'
  BY <1>15
  DEF Recover, RecoverByMarks, Loop, Goto, Types, PhaseTypes, AllSteps, Marks
<1>16. ASSUME RecoveryRefused PROVE PhaseTypes'
  BY <1>16
  DEF RecoveryRefused, Goto, Types, PhaseTypes, AllSteps, Marks
<1>17. ASSUME MarkRollingBack PROVE PhaseTypes'
  BY <1>17
  DEF MarkRollingBack, Mark, Loop, Goto, Types, PhaseTypes, AllSteps, Marks
<1>18. ASSUME MovedBack PROVE PhaseTypes'
  BY <1>18
  DEF MovedBack, SyncTouched, Goto, Types, PhaseTypes, AllSteps, Marks
<1>19. ASSUME MarkRestoringBackup PROVE PhaseTypes'
  BY <1>19
  DEF MarkRestoringBackup, Mark, Loop, Goto, Types, PhaseTypes, AllSteps,
    Marks
<1>20. ASSUME BackupRestored PROVE PhaseTypes'
  BY <1>20
  DEF BackupRestored, SyncTouched, Goto, Types, PhaseTypes, AllSteps, Marks
<1>21. ASSUME FoldersRemoved PROVE PhaseTypes'
  BY <1>21
  DEF FoldersRemoved, Goto, Types, PhaseTypes, AllSteps, Marks
<1>22. ASSUME RestoreRefused PROVE PhaseTypes'
  BY <1>22
  DEF RestoreRefused, Goto, Types, PhaseTypes, AllSteps, Marks
<1>23. ASSUME PendingFails PROVE PhaseTypes'
  BY <1>23
  DEF PendingFails, Goto, Types, PhaseTypes, AllSteps, Marks
<1>24. ASSUME RestoreFails PROVE PhaseTypes'
  BY <1>24
  DEF RestoreFails, MarkOf, RestoreSteps, Goto, Types, PhaseTypes, AllSteps,
    Marks
<1>25. ASSUME RecoveryFails PROVE PhaseTypes'
  BY <1>25
  DEF RecoveryFails, MarkOf, RecoverySteps, CleanupSteps, Goto, Types,
    PhaseTypes, AllSteps, Marks
<1>26. ASSUME Kill PROVE PhaseTypes'
  BY <1>26
  DEF Kill, Goto, Types, PhaseTypes, AllSteps, Marks
<1>27. ASSUME PowerLoss PROVE PhaseTypes'
  BY <1>27
  DEF PowerLoss, Goto, Types, PhaseTypes, AllSteps, Marks
<1>28. ASSUME StartRestore PROVE PhaseTypes'
  BY <1>28
  DEF StartRestore, Goto, Types, PhaseTypes, AllSteps, Marks
<1>29. ASSUME ClearStaleTerminal PROVE PhaseTypes'
  BY <1>29
  DEF ClearStaleTerminal, Goto, Types, PhaseTypes, AllSteps, Marks
<1>30. ASSUME ResetCheckpoints PROVE PhaseTypes'
  BY <1>30
  DEF ResetCheckpoints, DestroyStore, EmptyTransaction, Goto, Types,
    PhaseTypes, AllSteps, Marks
<1>31. ASSUME Reopen PROVE PhaseTypes'
  BY <1>31
  DEF Reopen, Goto, Types, PhaseTypes, AllSteps, Marks
<1>32. ASSUME NEW c \in Checkpoint, Prepare(c) PROVE PhaseTypes'
  BY <1>32
  DEF Prepare, Goto, Types, PhaseTypes, AllSteps, Marks
<1>33. ASSUME NEW folder \in plan.folders, MakeFolder(folder) PROVE PhaseTypes'
  BY <1>33
  DEF MakeFolder, Goto, Types, PhaseTypes, AllSteps, Marks
<1>34. ASSUME NEW folder \in plan.folders, RemoveFolder(folder)
       PROVE  PhaseTypes'
  BY <1>34
  DEF RemoveFolder, Goto, Types, PhaseTypes, AllSteps, Marks
<1>35. ASSUME NEW f \in todo, InstallConflict(f) PROVE PhaseTypes'
  BY <1>35
  DEF InstallConflict, Goto, Types, PhaseTypes, AllSteps, Marks
<1>36. ASSUME NEW f \in todo, RestoreBackupConflict(f) PROVE PhaseTypes'
  BY <1>36
  DEF RestoreBackupConflict, Goto, Types, PhaseTypes, AllSteps, Marks
<1>37. ASSUME NEW f \in todo,
             BackUp(f) \/ Install(f) \/ MoveBack(f) \/ RestoreBackup(f)
       PROVE  PhaseTypes'
  BY <1>37, MoversStandStill DEF Types, PhaseTypes
<1>38. ASSUME UNCHANGED <<transaction, pending, marks, terminal, step>>
       PROVE  PhaseTypes'
  BY <1>38 DEF Types, PhaseTypes
<1>39. CASE Continue
  BY <1>39, <1>2, <1>3, <1>32, <1>4, <1>5, <1>6, <1>7, <1>8, <1>9, <1>10,
    <1>33, <1>34, <1>37, <1>35, <1>36, <1>11, <1>12, <1>13, <1>14, <1>15,
    <1>16, <1>17, <1>18, <1>19, <1>20, <1>21, <1>38, FindingStandsStill
  DEF Continue, Advance, Finds
<1>40. CASE Fault
  BY <1>40, <1>22, <1>23, <1>24, <1>25, <1>26, <1>27, <1>38
  DEF Fault, ForeignCreate
<1>41. CASE User
  BY <1>41, <1>28, <1>29, <1>30, <1>38
  DEF User, Edit
<1>42. CASE Recovery \/ CalmDown \/ UNCHANGED vars
  BY <1>42, <1>31, <1>38
  DEF Recovery, CalmDown, vars, files
<1> QED BY <1>1, <1>39, <1>40, <1>41, <1>42 DEF Next

LEMMA EditFolders ==
  ASSUME Types, NEW f \in File, NEW content, Edit(f, content)
  PROVE  PlanTypes'
<1>1. FoldersFor({f}) \subseteq Folder
  BY FoldersTyped
<1> QED BY <1>1 DEF Edit, staged, process, Types, PlanTypes, Looping, Finding

LEMMA PlanTypesKept ==
  ASSUME Types, [Next]_vars PROVE PlanTypes'
<1> USE DEF staged, markers, process
<1>1. ASSUME Tear PROVE PlanTypes'
  <2>1. todo = {} /\ touched = {} /\ vacant = {} /\ step \notin Loops
    BY <1>1 DEF Tear, Types, PlanTypes, Looping, Finding, Loops
  <2> QED BY <1>1, <2>1, NoPlanTyped DEF Tear, Types, PlanTypes, Looping,
                                         Finding
<1>2. ASSUME RemoveTransaction PROVE PlanTypes'
  BY <1>2, NoPlanTyped
  DEF RemoveTransaction, EmptyTransaction, Goto, Types, PlanTypes, Looping,
      Finding
<1>3. ASSUME CreateTransaction PROVE PlanTypes'
  BY <1>3
  DEF CreateTransaction, Goto, Types, PlanTypes, Looping, Finding, Loops
<1>4. ASSUME WritePending PROVE PlanTypes'
  BY <1>4
  DEF WritePending, Goto, Types, PlanTypes, Looping, Finding, Loops
<1>5. ASSUME MarkBackingUp PROVE PlanTypes'
  BY <1>5
  DEF MarkBackingUp, Mark, Loop, Goto, Types, PlanTypes, Looping, Finding, Loops
<1>6. ASSUME BackedUp PROVE PlanTypes'
  BY <1>6
  DEF BackedUp, SyncTouched, Goto, Types, PlanTypes, Looping, Finding, Loops
<1>7. ASSUME MarkInstalling PROVE PlanTypes'
  BY <1>7
  DEF MarkInstalling, Mark, Goto, Types, PlanTypes, Looping, Finding, Loops
<1>8. ASSUME FoldersMade PROVE PlanTypes'
  BY <1>8
  DEF FoldersMade, Loop, Goto, Types, PlanTypes, Looping, Finding, Loops
<1>9. ASSUME Installed PROVE PlanTypes'
  BY <1>9
  DEF Installed, SyncTouched, Goto, Types, PlanTypes, Looping, Finding, Loops
<1>10. ASSUME MarkInstalled PROVE PlanTypes'
  BY <1>10
  DEF MarkInstalled, Mark, Goto, Types, PlanTypes, Looping, Finding, Loops
<1>11. ASSUME OpenTerminal PROVE PlanTypes'
  BY <1>11
  DEF OpenTerminal, Goto, Types, PlanTypes, Looping, Finding, Loops
<1>12. ASSUME WriteTerminal PROVE PlanTypes'
  BY <1>12
  DEF WriteTerminal, Goto, Types, PlanTypes, Looping, Finding, Loops
<1>13. ASSUME ClearPending PROVE PlanTypes'
  BY <1>13
  DEF ClearPending, Goto, Types, PlanTypes, Looping, Finding, Loops
<1>14. ASSUME ClearTerminal PROVE PlanTypes'
  BY <1>14
  DEF ClearTerminal, Goto, Types, PlanTypes, Looping, Finding, Loops
<1>15. ASSUME Recover PROVE PlanTypes'
  BY <1>15
  DEF Recover, RecoverByMarks, Loop, Goto, Types, PlanTypes, Looping, Finding,
      Loops
<1>16. ASSUME RecoveryRefused PROVE PlanTypes'
  BY <1>16
  DEF RecoveryRefused, Goto, Types, PlanTypes, Looping, Finding, Loops
<1>17. ASSUME MarkRollingBack PROVE PlanTypes'
  BY <1>17
  DEF MarkRollingBack, Mark, Loop, Goto, Types, PlanTypes, Looping, Finding,
      Loops
<1>18. ASSUME MovedBack PROVE PlanTypes'
  BY <1>18
  DEF MovedBack, SyncTouched, Goto, Types, PlanTypes, Looping, Finding, Loops
<1>19. ASSUME MarkRestoringBackup PROVE PlanTypes'
  BY <1>19
  DEF MarkRestoringBackup, Mark, Loop, Goto, Types, PlanTypes, Looping,
      Finding, Loops
<1>20. ASSUME BackupRestored PROVE PlanTypes'
  BY <1>20
  DEF BackupRestored, SyncTouched, Goto, Types, PlanTypes, Looping, Finding,
      Loops
<1>21. ASSUME FoldersRemoved PROVE PlanTypes'
  BY <1>21
  DEF FoldersRemoved, Goto, Types, PlanTypes, Looping, Finding, Loops
<1>22. ASSUME RestoreRefused PROVE PlanTypes'
  BY <1>22
  DEF RestoreRefused, Goto, Types, PlanTypes, Looping, Finding, Loops
<1>23. ASSUME PendingFails PROVE PlanTypes'
  BY <1>23
  DEF PendingFails, Goto, Types, PlanTypes, Looping, Finding, Loops
<1>24. ASSUME RestoreFails PROVE PlanTypes'
  BY <1>24
  DEF RestoreFails, MarkOf, RestoreSteps, Goto, Types, PlanTypes, Looping,
      Finding,
    Loops
<1>25. ASSUME RecoveryFails PROVE PlanTypes'
  BY <1>25
  DEF RecoveryFails, MarkOf, RecoverySteps, CleanupSteps, Goto, Types,
    PlanTypes, Looping, Finding, Loops
<1>26. ASSUME Kill PROVE PlanTypes'
  BY <1>26
  DEF Kill, Goto, Types, PlanTypes, Looping, Finding, Loops
<1>27. ASSUME PowerLoss PROVE PlanTypes'
  BY <1>27
  DEF PowerLoss, Goto, Types, PlanTypes, Looping, Finding, Loops
<1>28. ASSUME StartRestore PROVE PlanTypes'
  BY <1>28
  DEF StartRestore, Goto, Types, PlanTypes, Looping, Finding, Loops
<1>29. ASSUME ClearStaleTerminal PROVE PlanTypes'
  BY <1>29
  DEF ClearStaleTerminal, Goto, Types, PlanTypes, Looping, Finding, Loops
<1>30. ASSUME ResetCheckpoints PROVE PlanTypes'
  <2>1. todo = {} /\ touched = {} /\ vacant = {} /\ step \notin Loops
    BY <1>30 DEF ResetCheckpoints, DestroyStore, Types, PlanTypes, Looping,
                 Finding,
                 Loops
  <2> QED BY <1>30, <2>1, NoPlanTyped
          DEF ResetCheckpoints, DestroyStore, EmptyTransaction, Types,
              PlanTypes,
              Looping, Finding
<1>31. ASSUME Reopen PROVE PlanTypes'
  BY <1>31
  DEF Reopen, Goto, Types, PlanTypes, Looping, Finding, Loops
<1>32. ASSUME NEW c \in Checkpoint, Prepare(c) PROVE PlanTypes'
  BY <1>32, PlanMade DEF Prepare, Goto, Types, PlanTypes, Looping, Finding
<1>33. ASSUME NEW folder \in plan.folders, MakeFolder(folder) PROVE PlanTypes'
  BY <1>33
  DEF MakeFolder, Goto, Types, PlanTypes, Looping, Finding, Loops
<1>34. ASSUME NEW folder \in plan.folders, RemoveFolder(folder) PROVE PlanTypes'
  BY <1>34
  DEF RemoveFolder, Goto, Types, PlanTypes, Looping, Finding, Loops
<1>35. ASSUME NEW f \in todo, InstallConflict(f) PROVE PlanTypes'
  BY <1>35
  DEF InstallConflict, Goto, Types, PlanTypes, Looping, Finding, Loops
<1>36. ASSUME NEW f \in todo, RestoreBackupConflict(f) PROVE PlanTypes'
  BY <1>36
  DEF RestoreBackupConflict, Goto, Types, PlanTypes, Looping, Finding, Loops
<1>37. ASSUME NEW f \in todo,
             BackUp(f) \/ Install(f) \/ MoveBack(f) \/ RestoreBackup(f)
       PROVE  PlanTypes'
  <2>1. f \in plan.files
    BY DEF Types, PlanTypes
  <2> QED BY <1>37, <2>1, MoversStandStill DEF Types, PlanTypes, Looping,
                                               Finding
<1>38. ASSUME UNCHANGED <<folders, plan, todo, touched, vacant, step, backup>>
       PROVE  PlanTypes'
  BY <1>38 DEF Types, PlanTypes, Looping, Finding
<1>39. ASSUME NEW f \in todo, Finds(f) PROVE PlanTypes'
  BY <1>39, FindingStandsStill DEF Types, PlanTypes, Looping, Finding, Loops
<1>40. CASE Continue
  BY <1>40, <1>2, <1>3, <1>32, <1>4, <1>5, <1>6, <1>7, <1>8, <1>9, <1>10,
    <1>33, <1>34, <1>37, <1>35, <1>36, <1>11, <1>12, <1>13, <1>14, <1>15,
    <1>16, <1>17, <1>18, <1>19, <1>20, <1>21, <1>39
  DEF Continue, Advance, Finds
<1>41. CASE Fault
  BY <1>41, <1>22, <1>23, <1>24, <1>25, <1>26, <1>27, <1>38
  DEF Fault, ForeignCreate
<1>42. CASE User
  BY <1>42, <1>28, <1>29, <1>30, <1>38, EditFolders
  DEF User
<1>43. CASE Recovery \/ CalmDown \/ UNCHANGED vars
  BY <1>43, <1>31, <1>38
  DEF Recovery, CalmDown, vars, files
<1> QED BY <1>1, <1>40, <1>41, <1>42, <1>43 DEF Next

(* The part of the invariant that holds whatever faults come together.     *)
Base == Types /\ Control /\ Markers

LEMMA InitBase == ASSUME Init PROVE Base
<1>1. FileTypes
  BY NoFilesTyped DEF Init, FileTypes, Contents
<1>2. folders \subseteq Folder
  <2>1. FilesOf(project) \in SUBSET File
    BY DEF FilesOf
  <2> QED BY <2>1, FoldersTyped DEF Init
<1>3. PhaseTypes /\ PlanTypes /\ FaultTypes
  BY <1>2, NoPlanTyped
  DEF Init, PhaseTypes, PlanTypes, FaultTypes, AllSteps, Looping, Finding
<1>4. Control /\ Markers
  BY DEF Init, Control, Markers, Preparing, RestoreSteps, RecoverySteps
<1> QED BY <1>1, <1>3, <1>4 DEF Base, Types

LEMMA StepBase == ASSUME Base, [Next]_vars PROVE Base'
<1>1. FileTypes' /\ PhaseTypes' /\ PlanTypes' /\ FaultTypes'
  BY FileTypesKept, PhaseTypesKept, PlanTypesKept, FaultsKept DEF Base, Types
<1>2. Control' /\ Markers'
  BY ControlKept DEF Base
<1> QED BY <1>1, <1>2 DEF Base, Types

LEMMA AlwaysBase == Spec => []Base
BY InitBase, StepBase, PTL DEF Spec

(* The restore's state stays well typed for any files, checkpoints and     *)
(* faults.                                                                 *)
THEOREM TypeCorrectness == Spec => []TypeOK
<1>1. Base => TypeOK
  BY TypesGive DEF Base
<1> QED BY <1>1, AlwaysBase, PTL

(* Whatever fails or crashes, also power losses among other faults: a      *)
(* pending restore has what its recovery needs, the terminal marker or the *)
(* transaction with its plan or its "installed" marker.                    *)
THEOREM RecoveryHasData == Spec => []PendingHasData
<1>1. Base => PendingHasData
  BY DEF Base, Control, PendingHasData
<1> QED BY <1>1, AlwaysBase, PTL

(* Whatever fails or crashes: while the terminal marker exists beside the  *)
(* transaction, the only steps taken are those of cleaning up, so that no  *)
(* backup of a restore that is half done is thrown away.                   *)
THEOREM TerminalIsTheEnd == Spec => []TerminalMeansDone
<1>1. Base => TerminalMeansDone
  BY DEF Base, Types, PhaseTypes, Control, TerminalMeansDone, AllSteps,
         Preparing, RestoreSteps, RecoverySteps, CleanupSteps
<1> QED BY <1>1, AlwaysBase, PTL

-----------------------------------------------------------------------------
(* What the markers say of the files.                                      *)
Powered == "power" \in faults \/ \E f \in File : older[f] # {}

(* Only a rename of the running loop may still be undone, and a power loss *)
(* comes alone.                                                            *)
Durable ==
  /\ \A f \in File : older[f] # {} => f \in touched
  /\ Powered => faults \subseteq {"power"}

Empties ==
  /\ ~transaction \/ step = "prepare" => incoming = NoFiles /\ backup = NoFiles
  /\ step = "write_pending" =>
       backup = NoFiles /\ \A f \in plan.files : incoming[f] # Nothing

(* Every place a file may be in holds the checkpoint's content of it,      *)
(* staged or installed.                                                    *)
Staged(c, f, p) ==
  p.incoming = c[f] \/ (p.incoming = Nothing /\ p.project = c[f])
Of(c) ==
  /\ plan.files = FilesOf(c)
  /\ \A f \in plan.files : \A p \in Possible(f) : Staged(c, f, p)
FromCheckpoint ==
  Unfinished \/ step = "write_pending" => \E c \in Checkpoint : Of(c)

(* The phases of an unfinished restore, and what each means for the places *)
(* a file may be in; the last is what the file was before.                 *)
NothingMoved ==
  \/ marks = {} \/ terminal = "partial"
  \/ step \in {"remove_folders", "open_terminal", "write_terminal"}
NothingInstalled ==
  \/ NothingMoved \/ "restoring_backup" \in marks
  \/ marks \cap {"installing", "rolling_back"} = {}

OriginalAt(p) ==
  IF p.backup # Nothing THEN p.backup
  ELSE IF p.incoming # Nothing THEN p.project ELSE Nothing

Clear(content) == content = Nothing \/ (~Powered /\ content = Theirs)

Fits(f, p) ==
  /\ p.backup # Nothing /\ p.incoming # Nothing => Clear(p.project)
  /\ NothingInstalled => p.incoming # Nothing
  /\ NothingMoved => p.backup = Nothing
  /\ OriginalAt(p) = OriginalAt(Place(f))

(* How far the running loop has come with a file.                          *)
Progress(f) ==
  /\ step = "back_up" =>
       IF f \in todo THEN backup[f] = Nothing ELSE Clear(project[f])
  /\ step \in {"mark_installing", "make_folders"} =>
       incoming[f] # Nothing /\ Clear(project[f])
  /\ step = "install" =>
       IF f \in todo THEN incoming[f] # Nothing /\ Clear(project[f])
                     ELSE incoming[f] = Nothing
  /\ step = "mark_installed" => incoming[f] = Nothing
  /\ step = "move_back" /\ f \notin todo => incoming[f] # Nothing
  /\ step = "mark_restoring_backup" => incoming[f] # Nothing
  /\ step = "restore_backup" /\ f \notin todo => backup[f] = Nothing

Journal ==
  Unfinished =>
    \A f \in plan.files : Progress(f) /\ \A p \in Possible(f) : Fits(f, p)

(* The folders a restore has to make are those its files lack.             *)
FolderPlan ==
  Unfinished \/ step = "write_pending" =>
    /\ plan.folders \subseteq FoldersFor(plan.files)
    /\ FoldersFor(plan.files) \subseteq folders \cup plan.folders
    /\ "installing" \notin marks => plan.folders \cap folders = {}
    /\ step \in {"install", "mark_installed"} => plan.folders \subseteq folders
    /\ terminal = "partial" \/ step \in {"open_terminal", "write_terminal"} =>
         plan.folders \cap folders \subseteq FoldersFor(FilesOf(project))

PowerAlone == \A together \in Adversity : "power" \in together =>
  together = {"power"}

Inv == Base /\ Durable /\ Empties /\ FromCheckpoint /\ Journal /\ FolderPlan

LEMMA PlaceIs ==
  ASSUME NEW f
  PROVE  /\ Place(f).project = project[f] /\ Place(f).backup = backup[f]
         /\ Place(f).incoming = incoming[f] /\ Place(f) \in Possible(f)
BY DEF Place, Possible

(* Between the loops no power loss can change anything.                    *)
LEMMA Settled ==
  ASSUME Types, Durable, step \notin Loops
  PROVE  \A f \in File : older[f] = {}
BY DEF Types, PlanTypes, Looping, Durable

LEMMA SyncSettles ==
  ASSUME Types, Durable, SyncTouched
  PROVE  /\ \A f \in File : older'[f] = {}
         /\ UNCHANGED <<project, incoming, backup, plan, folders, transaction,
                        marks, pending, terminal>>
<1>1. older' = [f \in File |->
        IF \E g \in touched : FolderOf[f] = FolderOf[g] THEN {} ELSE older[f]]
  BY DEF SyncTouched
<1>2. ASSUME NEW f \in File PROVE older'[f] = {}
  BY <1>1 DEF Durable
<1> QED BY <1>2 DEF SyncTouched, staged, markers

LEMMA StillThere ==
  ASSUME Inv, faults' \in {faults, {}}, UNCHANGED <<project, incoming, backup,
                                                    plan>>,
         \A g \in File : older'[g] \in {older[g], {}}
  PROVE  /\ Powered' => Powered
         /\ \A f \in plan'.files :
              /\ f \in plan.files /\ f \in File /\ Place(f)' = Place(f)
              /\ Place(f).project = project[f] /\ Place(f).backup = backup[f]
              /\ Place(f).incoming = incoming[f]
              /\ Possible(f)' \subseteq Possible(f) /\ Place(f) \in Possible(f)
              /\ step \notin Loops \/ older'[f] = {} =>
                   Possible(f)' = {Place(f)}
<1>1. Powered' => Powered
  BY DEF Powered
<1>2. ASSUME NEW f \in plan'.files
      PROVE  /\ f \in plan.files /\ f \in File /\ Place(f)' = Place(f)
             /\ step \notin Loops => older[f] = {}
  BY Settled DEF Place, Inv, Base, Types, PlanTypes
<1>3. ASSUME NEW f \in plan'.files
      PROVE  /\ Possible(f)' \subseteq Possible(f)
             /\ step \notin Loops \/ older'[f] = {} => Possible(f)' = {Place(f)}
  BY <1>2 DEF Possible
<1> QED BY <1>1, <1>2, <1>3, PlaceIs

LEMMA MarkBackingUpJournal ==
  ASSUME Inv, UNCHANGED faults, MarkBackingUp PROVE Journal'
<1> SUFFICES ASSUME Unfinished', NEW f \in plan'.files
             PROVE  Progress(f)' /\ \A p \in Possible(f)' : Fits(f, p)'
  BY DEF Journal
<1>1. UNCHANGED <<project, incoming, backup, plan, older>>
  BY DEF MarkBackingUp, Mark, staged, markers, process, Goto
<1>2. (Powered' => Powered) /\ f \in plan.files /\ f \in File
  BY <1>1, StillThere
<1>3. /\ Place(f)' = Place(f) /\ Place(f) \in Possible(f)
      /\ Place(f).project = project[f] /\ Place(f).backup = backup[f]
      /\ Place(f).incoming = incoming[f]
      /\ Possible(f)' \subseteq Possible(f)
      /\ step \notin Loops => Possible(f)' = {Place(f)}
  BY <1>1, <1>2, StillThere
<1> QED
  BY <1>1, <1>2, <1>3
  DEF MarkBackingUp, Mark, Loop, Goto, staged, markers, Inv, Base, Control,
    Markers, Journal, Fits, Progress, Clear, NothingMoved, NothingInstalled,
    Unfinished, RestoreSteps, RecoverySteps, Loops

LEMMA MarkInstallingJournal ==
  ASSUME Inv, UNCHANGED faults, MarkInstalling PROVE Journal'
<1> SUFFICES ASSUME Unfinished', NEW f \in plan'.files
             PROVE  Progress(f)' /\ \A p \in Possible(f)' : Fits(f, p)'
  BY DEF Journal
<1>1. UNCHANGED <<project, incoming, backup, plan, older>>
  BY DEF MarkInstalling, Mark, staged, markers, process, Goto
<1>2. (Powered' => Powered) /\ f \in plan.files /\ f \in File
  BY <1>1, StillThere
<1>3. /\ Place(f)' = Place(f) /\ Place(f) \in Possible(f)
      /\ Place(f).project = project[f] /\ Place(f).backup = backup[f]
      /\ Place(f).incoming = incoming[f]
      /\ Possible(f)' \subseteq Possible(f)
      /\ step \notin Loops => Possible(f)' = {Place(f)}
  BY <1>1, <1>2, StillThere
<1> QED
  BY <1>1, <1>2, <1>3
  DEF MarkInstalling, Mark, Goto, staged, markers, Inv, Base, Control,
    Markers, Journal, Fits, Progress, Clear, NothingMoved, NothingInstalled,
    Unfinished, RestoreSteps, RecoverySteps, Loops

LEMMA FoldersMadeJournal ==
  ASSUME Inv, UNCHANGED faults, FoldersMade PROVE Journal'
<1> SUFFICES ASSUME Unfinished', NEW f \in plan'.files
             PROVE  Progress(f)' /\ \A p \in Possible(f)' : Fits(f, p)'
  BY DEF Journal
<1>1. UNCHANGED <<project, incoming, backup, plan, older>>
  BY DEF FoldersMade, staged, markers, process, Goto
<1>2. (Powered' => Powered) /\ f \in plan.files /\ f \in File
  BY <1>1, StillThere
<1>3. /\ Place(f)' = Place(f) /\ Place(f) \in Possible(f)
      /\ Place(f).project = project[f] /\ Place(f).backup = backup[f]
      /\ Place(f).incoming = incoming[f]
      /\ Possible(f)' \subseteq Possible(f)
      /\ step \notin Loops => Possible(f)' = {Place(f)}
  BY <1>1, <1>2, StillThere
<1> QED
  BY <1>1, <1>2, <1>3
  DEF FoldersMade, Loop, Goto, staged, markers, Inv, Base, Control, Markers,
    Journal, Fits, Progress, Clear, NothingMoved, NothingInstalled,
    Unfinished, RestoreSteps, RecoverySteps, Loops

LEMMA MarkInstalledJournal ==
  ASSUME Inv, UNCHANGED faults, MarkInstalled PROVE Journal'
<1> SUFFICES ASSUME Unfinished', NEW f \in plan'.files
             PROVE  Progress(f)' /\ \A p \in Possible(f)' : Fits(f, p)'
  BY DEF Journal
<1>1. UNCHANGED <<project, incoming, backup, plan, older>>
  BY DEF MarkInstalled, Mark, staged, markers, process, Goto
<1>2. (Powered' => Powered) /\ f \in plan.files /\ f \in File
  BY <1>1, StillThere
<1>3. /\ Place(f)' = Place(f) /\ Place(f) \in Possible(f)
      /\ Place(f).project = project[f] /\ Place(f).backup = backup[f]
      /\ Place(f).incoming = incoming[f]
      /\ Possible(f)' \subseteq Possible(f)
      /\ step \notin Loops => Possible(f)' = {Place(f)}
  BY <1>1, <1>2, StillThere
<1> QED
  BY <1>1, <1>2, <1>3
  DEF MarkInstalled, Mark, Goto, staged, markers, Inv, Base, Control,
    Markers, Journal, Fits, Progress, Clear, NothingMoved, NothingInstalled,
    Unfinished, RestoreSteps, RecoverySteps, Loops

LEMMA OpenTerminalJournal ==
  ASSUME Inv, UNCHANGED faults, OpenTerminal PROVE Journal'
<1> SUFFICES ASSUME Unfinished', NEW f \in plan'.files
             PROVE  Progress(f)' /\ \A p \in Possible(f)' : Fits(f, p)'
  BY DEF Journal
<1>1. UNCHANGED <<project, incoming, backup, plan, older>>
  BY DEF OpenTerminal, staged, markers, process, Goto
<1>2. (Powered' => Powered) /\ f \in plan.files /\ f \in File
  BY <1>1, StillThere
<1>3. /\ Place(f)' = Place(f) /\ Place(f) \in Possible(f)
      /\ Place(f).project = project[f] /\ Place(f).backup = backup[f]
      /\ Place(f).incoming = incoming[f]
      /\ Possible(f)' \subseteq Possible(f)
      /\ step \notin Loops => Possible(f)' = {Place(f)}
  BY <1>1, <1>2, StillThere
<1> QED
  BY <1>1, <1>2, <1>3
  DEF OpenTerminal, Goto, staged, markers, Inv, Base, Control, Markers,
    Journal, Fits, Progress, Clear, NothingMoved, NothingInstalled,
    Unfinished, RestoreSteps, RecoverySteps, Loops

LEMMA WriteTerminalJournal ==
  ASSUME Inv, UNCHANGED faults, WriteTerminal PROVE Journal'
<1> SUFFICES ASSUME Unfinished', NEW f \in plan'.files
             PROVE  Progress(f)' /\ \A p \in Possible(f)' : Fits(f, p)'
  BY DEF Journal
<1>1. UNCHANGED <<project, incoming, backup, plan, older>>
  BY DEF WriteTerminal, staged, markers, process, Goto
<1>2. (Powered' => Powered) /\ f \in plan.files /\ f \in File
  BY <1>1, StillThere
<1>3. /\ Place(f)' = Place(f) /\ Place(f) \in Possible(f)
      /\ Place(f).project = project[f] /\ Place(f).backup = backup[f]
      /\ Place(f).incoming = incoming[f]
      /\ Possible(f)' \subseteq Possible(f)
      /\ step \notin Loops => Possible(f)' = {Place(f)}
  BY <1>1, <1>2, StillThere
<1> QED
  BY <1>1, <1>2, <1>3
  DEF WriteTerminal, Goto, staged, markers, Inv, Base, Control, Markers,
    Journal, Fits, Progress, Clear, NothingMoved, NothingInstalled,
    Unfinished, RestoreSteps, RecoverySteps, Loops

LEMMA ClearPendingJournal ==
  ASSUME Inv, UNCHANGED faults, ClearPending PROVE Journal'
<1> SUFFICES ASSUME Unfinished', NEW f \in plan'.files
             PROVE  Progress(f)' /\ \A p \in Possible(f)' : Fits(f, p)'
  BY DEF Journal
<1>1. UNCHANGED <<project, incoming, backup, plan, older>>
  BY DEF ClearPending, staged, markers, process, Goto
<1>2. (Powered' => Powered) /\ f \in plan.files /\ f \in File
  BY <1>1, StillThere
<1>3. /\ Place(f)' = Place(f) /\ Place(f) \in Possible(f)
      /\ Place(f).project = project[f] /\ Place(f).backup = backup[f]
      /\ Place(f).incoming = incoming[f]
      /\ Possible(f)' \subseteq Possible(f)
      /\ step \notin Loops => Possible(f)' = {Place(f)}
  BY <1>1, <1>2, StillThere
<1> QED
  BY <1>1, <1>2, <1>3
  DEF ClearPending, Goto, staged, markers, Inv, Base, Control, Markers,
    Journal, Fits, Progress, Clear, NothingMoved, NothingInstalled,
    Unfinished, RestoreSteps, RecoverySteps, Loops

LEMMA ClearTerminalJournal ==
  ASSUME Inv, UNCHANGED faults, ClearTerminal PROVE Journal'
<1> SUFFICES ASSUME Unfinished', NEW f \in plan'.files
             PROVE  Progress(f)' /\ \A p \in Possible(f)' : Fits(f, p)'
  BY DEF Journal
<1>1. UNCHANGED <<project, incoming, backup, plan, older>>
  BY DEF ClearTerminal, staged, markers, process, Goto
<1>2. (Powered' => Powered) /\ f \in plan.files /\ f \in File
  BY <1>1, StillThere
<1>3. /\ Place(f)' = Place(f) /\ Place(f) \in Possible(f)
      /\ Place(f).project = project[f] /\ Place(f).backup = backup[f]
      /\ Place(f).incoming = incoming[f]
      /\ Possible(f)' \subseteq Possible(f)
      /\ step \notin Loops => Possible(f)' = {Place(f)}
  BY <1>1, <1>2, StillThere
<1> QED
  BY <1>1, <1>2, <1>3
  DEF ClearTerminal, Goto, staged, markers, Inv, Base, Control, Markers,
    Journal, Fits, Progress, Clear, NothingMoved, NothingInstalled,
    Unfinished, RestoreSteps, RecoverySteps, Loops

LEMMA RecoverJournal ==
  ASSUME Inv, UNCHANGED faults, Recover PROVE Journal'
<1> SUFFICES ASSUME Unfinished', NEW f \in plan'.files
             PROVE  Progress(f)' /\ \A p \in Possible(f)' : Fits(f, p)'
  BY DEF Journal
<1>1. UNCHANGED <<project, incoming, backup, plan, older>>
  BY DEF Recover, RecoverByMarks, staged, markers, process, Goto
<1>2. (Powered' => Powered) /\ f \in plan.files /\ f \in File
  BY <1>1, StillThere
<1>3. /\ Place(f)' = Place(f) /\ Place(f) \in Possible(f)
      /\ Place(f).project = project[f] /\ Place(f).backup = backup[f]
      /\ Place(f).incoming = incoming[f]
      /\ Possible(f)' \subseteq Possible(f)
      /\ step \notin Loops => Possible(f)' = {Place(f)}
  BY <1>1, <1>2, StillThere
<1>4. /\ Usable /\ RecoverByMarks /\ step = "recover"
      /\ UNCHANGED <<transaction, marks, pending, terminal>>
  BY DEF Recover, Goto, Unfinished, staged, markers
<1>5. Unfinished /\ "installed" \notin marks /\ plan # NoPlan
  BY <1>4 DEF RecoverByMarks, Unfinished
<1>6. Fits(f, Place(f)) /\ \A p \in Possible(f) : Fits(f, p)
  BY <1>2, <1>3, <1>5 DEF Inv, Journal
<1>7. CASE marks = {} /\ Goto("open_terminal")
  <2>1. NothingMoved /\ NothingInstalled
    BY <1>7 DEF NothingMoved, NothingInstalled
  <2> QED BY <1>2, <1>3, <1>4, <1>6, <1>7, <2>1 DEF Goto, Fits, Progress, Clear
<1>8. CASE Loop("restore_backup") /\ "restoring_backup" \in marks
  BY <1>2, <1>3, <1>4, <1>6, <1>8
  DEF Loop, Fits, Progress, Clear, NothingMoved, NothingInstalled
<1>9. CASE Goto("mark_rolling_back")
  BY <1>2, <1>3, <1>4, <1>6, <1>9
  DEF Goto, Fits, Progress, Clear, NothingMoved, NothingInstalled
<1>10. CASE Goto("mark_restoring_backup") /\ ~Installing
  <2>1. NothingInstalled /\ incoming[f] # Nothing
    BY <1>3, <1>6, <1>10 DEF Installing, NothingInstalled, Fits
  <2>2. /\ step' = "mark_restoring_backup"
        /\ NothingMoved' => NothingMoved
    BY <1>4, <1>10 DEF Goto, NothingMoved
  <2>3. Progress(f)'
    BY <1>1, <2>1, <2>2 DEF Progress
  <2> QED BY <1>2, <1>3, <1>6, <2>1, <2>2, <2>3 DEF Fits, Clear
<1>11. marks \cap Marks = {} => marks = {}
  BY DEF Inv, Base, Types, PhaseTypes
<1> QED BY <1>4, <1>5, <1>7, <1>8, <1>9, <1>10, <1>11 DEF RecoverByMarks

LEMMA RecoveryRefusedJournal ==
  ASSUME Inv, UNCHANGED faults, RecoveryRefused PROVE Journal'
<1> SUFFICES ASSUME Unfinished', NEW f \in plan'.files
             PROVE  Progress(f)' /\ \A p \in Possible(f)' : Fits(f, p)'
  BY DEF Journal
<1>1. UNCHANGED <<project, incoming, backup, plan, older>>
  BY DEF RecoveryRefused, staged, markers, process, Goto
<1>2. (Powered' => Powered) /\ f \in plan.files /\ f \in File
  BY <1>1, StillThere
<1>3. /\ Place(f)' = Place(f) /\ Place(f) \in Possible(f)
      /\ Place(f).project = project[f] /\ Place(f).backup = backup[f]
      /\ Place(f).incoming = incoming[f]
      /\ Possible(f)' \subseteq Possible(f)
      /\ step \notin Loops => Possible(f)' = {Place(f)}
  BY <1>1, <1>2, StillThere
<1> QED
  BY <1>1, <1>2, <1>3
  DEF RecoveryRefused, Usable, Goto, staged, markers, Inv, Base, Control,
    Markers, Journal, Fits, Progress, Clear, NothingMoved, NothingInstalled,
    Unfinished, RestoreSteps, RecoverySteps, Loops

LEMMA MarkRollingBackJournal ==
  ASSUME Inv, UNCHANGED faults, MarkRollingBack PROVE Journal'
<1> SUFFICES ASSUME Unfinished', NEW f \in plan'.files
             PROVE  Progress(f)' /\ \A p \in Possible(f)' : Fits(f, p)'
  BY DEF Journal
<1>1. UNCHANGED <<project, incoming, backup, plan, older>>
  BY DEF MarkRollingBack, Mark, staged, markers, process, Goto
<1>2. (Powered' => Powered) /\ f \in plan.files /\ f \in File
  BY <1>1, StillThere
<1>3. /\ Place(f)' = Place(f) /\ Place(f) \in Possible(f)
      /\ Place(f).project = project[f] /\ Place(f).backup = backup[f]
      /\ Place(f).incoming = incoming[f]
      /\ Possible(f)' \subseteq Possible(f)
      /\ step \notin Loops => Possible(f)' = {Place(f)}
  BY <1>1, <1>2, StillThere
<1> QED
  BY <1>1, <1>2, <1>3
  DEF MarkRollingBack, Mark, Loop, Goto, staged, markers, Inv, Base, Control,
    Markers, Journal, Fits, Progress, Clear, NothingMoved, NothingInstalled,
    Unfinished, RestoreSteps, RecoverySteps, Loops

LEMMA MarkRestoringBackupJournal ==
  ASSUME Inv, UNCHANGED faults, MarkRestoringBackup PROVE Journal'
<1> SUFFICES ASSUME Unfinished', NEW f \in plan'.files
             PROVE  Progress(f)' /\ \A p \in Possible(f)' : Fits(f, p)'
  BY DEF Journal
<1>1. UNCHANGED <<project, incoming, backup, plan, older>>
  BY DEF MarkRestoringBackup, Mark, staged, markers, process, Goto
<1>2. (Powered' => Powered) /\ f \in plan.files /\ f \in File
  BY <1>1, StillThere
<1>3. /\ Place(f)' = Place(f) /\ Place(f) \in Possible(f)
      /\ Place(f).project = project[f] /\ Place(f).backup = backup[f]
      /\ Place(f).incoming = incoming[f]
      /\ Possible(f)' \subseteq Possible(f)
      /\ step \notin Loops => Possible(f)' = {Place(f)}
  BY <1>1, <1>2, StillThere
<1> QED
  BY <1>1, <1>2, <1>3
  DEF MarkRestoringBackup, Mark, Loop, Goto, staged, markers, Inv, Base,
    Control, Markers, Journal, Fits, Progress, Clear, NothingMoved,
    NothingInstalled, Unfinished, RestoreSteps, RecoverySteps, Loops

LEMMA FoldersRemovedJournal ==
  ASSUME Inv, UNCHANGED faults, FoldersRemoved PROVE Journal'
<1> SUFFICES ASSUME Unfinished', NEW f \in plan'.files
             PROVE  Progress(f)' /\ \A p \in Possible(f)' : Fits(f, p)'
  BY DEF Journal
<1>1. UNCHANGED <<project, incoming, backup, plan, older>>
  BY DEF FoldersRemoved, staged, markers, process, Goto
<1>2. (Powered' => Powered) /\ f \in plan.files /\ f \in File
  BY <1>1, StillThere
<1>3. /\ Place(f)' = Place(f) /\ Place(f) \in Possible(f)
      /\ Place(f).project = project[f] /\ Place(f).backup = backup[f]
      /\ Place(f).incoming = incoming[f]
      /\ Possible(f)' \subseteq Possible(f)
      /\ step \notin Loops => Possible(f)' = {Place(f)}
  BY <1>1, <1>2, StillThere
<1> QED
  BY <1>1, <1>2, <1>3
  DEF FoldersRemoved, Goto, staged, markers, Inv, Base, Control, Markers,
    Journal, Fits, Progress, Clear, NothingMoved, NothingInstalled,
    Unfinished, RestoreSteps, RecoverySteps, Loops

LEMMA RestoreFailsJournal ==
  ASSUME Inv, UNCHANGED faults, RestoreFails PROVE Journal'
<1> SUFFICES ASSUME Unfinished', NEW f \in plan'.files
             PROVE  Progress(f)' /\ \A p \in Possible(f)' : Fits(f, p)'
  BY DEF Journal
<1>1. UNCHANGED <<project, incoming, backup, plan, older>>
  BY DEF RestoreFails, staged, markers, process, Goto
<1>2. (Powered' => Powered) /\ f \in plan.files /\ f \in File
  BY <1>1, StillThere
<1>3. /\ Place(f)' = Place(f) /\ Place(f) \in Possible(f)
      /\ Place(f).project = project[f] /\ Place(f).backup = backup[f]
      /\ Place(f).incoming = incoming[f]
      /\ Possible(f)' \subseteq Possible(f)
      /\ step \notin Loops => Possible(f)' = {Place(f)}
  BY <1>1, <1>2, StillThere
<1> QED
  BY <1>1, <1>2, <1>3
  DEF RestoreFails, MarkOf, RestoreSteps, Goto, staged, markers, Inv, Base,
    Control, Markers, Journal, Fits, Progress, Clear, NothingMoved,
    NothingInstalled, Unfinished, RecoverySteps, Loops

LEMMA RecoveryFailsJournal ==
  ASSUME Inv, UNCHANGED faults, RecoveryFails PROVE Journal'
<1> SUFFICES ASSUME Unfinished', NEW f \in plan'.files
             PROVE  Progress(f)' /\ \A p \in Possible(f)' : Fits(f, p)'
  BY DEF Journal
<1>1. UNCHANGED <<project, incoming, backup, plan, older>>
  BY DEF RecoveryFails, staged, markers, process, Goto
<1>2. (Powered' => Powered) /\ f \in plan.files /\ f \in File
  BY <1>1, StillThere
<1>3. /\ Place(f)' = Place(f) /\ Place(f) \in Possible(f)
      /\ Place(f).project = project[f] /\ Place(f).backup = backup[f]
      /\ Place(f).incoming = incoming[f]
      /\ Possible(f)' \subseteq Possible(f)
      /\ step \notin Loops => Possible(f)' = {Place(f)}
  BY <1>1, <1>2, StillThere
<1> QED
  BY <1>1, <1>2, <1>3
  DEF RecoveryFails, MarkOf, RecoverySteps, CleanupSteps, Goto, staged,
    markers, Inv, Base, Control, Markers, Journal, Fits, Progress, Clear,
    NothingMoved, NothingInstalled, Unfinished, RestoreSteps, Loops

LEMMA KillJournal ==
  ASSUME Inv, UNCHANGED faults, Kill PROVE Journal'
<1> SUFFICES ASSUME Unfinished', NEW f \in plan'.files
             PROVE  Progress(f)' /\ \A p \in Possible(f)' : Fits(f, p)'
  BY DEF Journal
<1>1. UNCHANGED <<project, incoming, backup, plan, older>>
  BY DEF Kill, staged, markers, process, Goto
<1>2. (Powered' => Powered) /\ f \in plan.files /\ f \in File
  BY <1>1, StillThere
<1>3. /\ Place(f)' = Place(f) /\ Place(f) \in Possible(f)
      /\ Place(f).project = project[f] /\ Place(f).backup = backup[f]
      /\ Place(f).incoming = incoming[f]
      /\ Possible(f)' \subseteq Possible(f)
      /\ step \notin Loops => Possible(f)' = {Place(f)}
  BY <1>1, <1>2, StillThere
<1> QED
  BY <1>1, <1>2, <1>3
  DEF Kill, Goto, staged, markers, Inv, Base, Control, Markers, Journal,
    Fits, Progress, Clear, NothingMoved, NothingInstalled, Unfinished,
    RestoreSteps, RecoverySteps, Loops

LEMMA ReopenJournal ==
  ASSUME Inv, UNCHANGED faults, Reopen PROVE Journal'
<1> SUFFICES ASSUME Unfinished', NEW f \in plan'.files
             PROVE  Progress(f)' /\ \A p \in Possible(f)' : Fits(f, p)'
  BY DEF Journal
<1>1. UNCHANGED <<project, incoming, backup, plan, older>>
  BY DEF Reopen, staged, markers, process, Goto
<1>2. (Powered' => Powered) /\ f \in plan.files /\ f \in File
  BY <1>1, StillThere
<1>3. /\ Place(f)' = Place(f) /\ Place(f) \in Possible(f)
      /\ Place(f).project = project[f] /\ Place(f).backup = backup[f]
      /\ Place(f).incoming = incoming[f]
      /\ Possible(f)' \subseteq Possible(f)
      /\ step \notin Loops => Possible(f)' = {Place(f)}
  BY <1>1, <1>2, StillThere
<1> QED
  BY <1>1, <1>2, <1>3
  DEF Reopen, Goto, staged, markers, Inv, Base, Control, Markers, Journal,
    Fits, Progress, Clear, NothingMoved, NothingInstalled, Unfinished,
    RestoreSteps, RecoverySteps, Loops

LEMMA StartRestoreJournal ==
  ASSUME Inv, UNCHANGED faults, StartRestore PROVE Journal'
<1> SUFFICES ASSUME Unfinished', NEW f \in plan'.files
             PROVE  Progress(f)' /\ \A p \in Possible(f)' : Fits(f, p)'
  BY DEF Journal
<1>1. UNCHANGED <<project, incoming, backup, plan, older>>
  BY DEF StartRestore, staged, markers, process, Goto
<1>2. (Powered' => Powered) /\ f \in plan.files /\ f \in File
  BY <1>1, StillThere
<1>3. /\ Place(f)' = Place(f) /\ Place(f) \in Possible(f)
      /\ Place(f).project = project[f] /\ Place(f).backup = backup[f]
      /\ Place(f).incoming = incoming[f]
      /\ Possible(f)' \subseteq Possible(f)
      /\ step \notin Loops => Possible(f)' = {Place(f)}
  BY <1>1, <1>2, StillThere
<1> QED
  BY <1>1, <1>2, <1>3
  DEF StartRestore, Goto, staged, markers, Inv, Base, Control, Markers,
    Journal, Fits, Progress, Clear, NothingMoved, NothingInstalled,
    Unfinished, RestoreSteps, RecoverySteps, Loops

LEMMA ClearStaleTerminalJournal ==
  ASSUME Inv, UNCHANGED faults, ClearStaleTerminal PROVE Journal'
<1> SUFFICES ASSUME Unfinished', NEW f \in plan'.files
             PROVE  Progress(f)' /\ \A p \in Possible(f)' : Fits(f, p)'
  BY DEF Journal
<1>1. UNCHANGED <<project, incoming, backup, plan, older>>
  BY DEF ClearStaleTerminal, staged, markers, process, Goto
<1>2. (Powered' => Powered) /\ f \in plan.files /\ f \in File
  BY <1>1, StillThere
<1>3. /\ Place(f)' = Place(f) /\ Place(f) \in Possible(f)
      /\ Place(f).project = project[f] /\ Place(f).backup = backup[f]
      /\ Place(f).incoming = incoming[f]
      /\ Possible(f)' \subseteq Possible(f)
      /\ step \notin Loops => Possible(f)' = {Place(f)}
  BY <1>1, <1>2, StillThere
<1> QED
  BY <1>1, <1>2, <1>3
  DEF ClearStaleTerminal, Goto, staged, markers, Inv, Base, Control, Markers,
    Journal, Fits, Progress, Clear, NothingMoved, NothingInstalled,
    Unfinished, RestoreSteps, RecoverySteps, Loops

LEMMA RestoreRefusedJournal ==
  ASSUME Inv, UNCHANGED faults, RestoreRefused PROVE Journal'
<1> SUFFICES ASSUME Unfinished', NEW f \in plan'.files
             PROVE  Progress(f)' /\ \A p \in Possible(f)' : Fits(f, p)'
  BY DEF Journal
<1>1. UNCHANGED <<project, incoming, backup, plan, older>>
  BY DEF RestoreRefused, staged, markers, process, Goto
<1>2. (Powered' => Powered) /\ f \in plan.files /\ f \in File
  BY <1>1, StillThere
<1>3. /\ Place(f)' = Place(f) /\ Place(f) \in Possible(f)
      /\ Place(f).project = project[f] /\ Place(f).backup = backup[f]
      /\ Place(f).incoming = incoming[f]
      /\ Possible(f)' \subseteq Possible(f)
      /\ step \notin Loops => Possible(f)' = {Place(f)}
  BY <1>1, <1>2, StillThere
<1> QED
  BY <1>1, <1>2, <1>3
  DEF RestoreRefused, Goto, staged, markers, Inv, Base, Control, Markers,
    Journal, Fits, Progress, Clear, NothingMoved, NothingInstalled,
    Unfinished, RestoreSteps, RecoverySteps, Loops

LEMMA CreateTransactionJournal ==
  ASSUME Inv, UNCHANGED faults, CreateTransaction PROVE Journal'
<1> SUFFICES ASSUME Unfinished', NEW f \in plan'.files
             PROVE  Progress(f)' /\ \A p \in Possible(f)' : Fits(f, p)'
  BY DEF Journal
<1>1. UNCHANGED <<project, incoming, backup, plan, older>>
  BY DEF CreateTransaction, staged, markers, process, Goto
<1>2. (Powered' => Powered) /\ f \in plan.files /\ f \in File
  BY <1>1, StillThere
<1>3. /\ Place(f)' = Place(f) /\ Place(f) \in Possible(f)
      /\ Place(f).project = project[f] /\ Place(f).backup = backup[f]
      /\ Place(f).incoming = incoming[f]
      /\ Possible(f)' \subseteq Possible(f)
      /\ step \notin Loops => Possible(f)' = {Place(f)}
  BY <1>1, <1>2, StillThere
<1> QED
  BY <1>1, <1>2, <1>3
  DEF CreateTransaction, Goto, staged, markers, Inv, Base, Control, Markers,
    Journal, Fits, Progress, Clear, NothingMoved, NothingInstalled,
    Unfinished, RestoreSteps, RecoverySteps, Loops

LEMMA WritePendingJournal ==
  ASSUME Inv, UNCHANGED faults, WritePending PROVE Journal'
<1> SUFFICES ASSUME Unfinished', NEW f \in plan'.files
             PROVE  Progress(f)' /\ \A p \in Possible(f)' : Fits(f, p)'
  BY DEF Journal
<1>1. UNCHANGED <<project, incoming, backup, plan, older>>
  BY DEF WritePending, staged, markers, process, Goto
<1>2. (Powered' => Powered) /\ f \in plan.files /\ f \in File
  BY <1>1, StillThere
<1>3. /\ Place(f)' = Place(f) /\ Place(f) \in Possible(f)
      /\ Place(f).project = project[f] /\ Place(f).backup = backup[f]
      /\ Place(f).incoming = incoming[f]
      /\ Possible(f)' \subseteq Possible(f)
      /\ step \notin Loops => Possible(f)' = {Place(f)}
  BY <1>1, <1>2, StillThere
<1> QED
  BY <1>1, <1>2, <1>3
  DEF WritePending, Goto, staged, markers, Inv, Base, Control, Markers,
    Journal, Fits, Progress, Clear, NothingMoved, NothingInstalled,
    Unfinished, HasData, Empties, NoFiles, RestoreSteps, RecoverySteps, Loops

LEMMA PendingFailsJournal ==
  ASSUME Inv, UNCHANGED faults, PendingFails PROVE Journal'
<1> SUFFICES ASSUME Unfinished', NEW f \in plan'.files
             PROVE  Progress(f)' /\ \A p \in Possible(f)' : Fits(f, p)'
  BY DEF Journal
<1>1. UNCHANGED <<project, incoming, backup, plan, older>>
  BY DEF PendingFails, staged, markers, process, Goto
<1>2. (Powered' => Powered) /\ f \in plan.files /\ f \in File
  BY <1>1, StillThere
<1>3. /\ Place(f)' = Place(f) /\ Place(f) \in Possible(f)
      /\ Place(f).project = project[f] /\ Place(f).backup = backup[f]
      /\ Place(f).incoming = incoming[f]
      /\ Possible(f)' \subseteq Possible(f)
      /\ step \notin Loops => Possible(f)' = {Place(f)}
  BY <1>1, <1>2, StillThere
<1> QED
  BY <1>1, <1>2, <1>3
  DEF PendingFails, Goto, staged, markers, Inv, Base, Control, Markers,
    Journal, Fits, Progress, Clear, NothingMoved, NothingInstalled,
    Unfinished, HasData, Empties, NoFiles, RestoreSteps, RecoverySteps, Loops

LEMMA BackedUpJournal ==
  ASSUME Inv, UNCHANGED faults, BackedUp PROVE Journal'
<1> SUFFICES ASSUME Unfinished', NEW f \in plan'.files
             PROVE  Progress(f)' /\ \A p \in Possible(f)' : Fits(f, p)'
  BY DEF Journal
<1>1. SyncTouched /\ todo = {} /\ step \in Loops
  BY DEF BackedUp, SyncTouched, Loops
<1>2. /\ UNCHANGED <<project, incoming, backup, plan, transaction, marks,
                     pending, terminal>>
      /\ \A g \in File : older'[g] = {}
  BY <1>1, SyncSettles DEF Inv, Base
<1>3. (Powered' => Powered) /\ f \in plan.files /\ f \in File
  BY <1>2, StillThere
<1>4. /\ Place(f)' = Place(f) /\ Place(f) \in Possible(f)
      /\ Place(f).project = project[f] /\ Place(f).backup = backup[f]
      /\ Place(f).incoming = incoming[f] /\ Possible(f)' = {Place(f)}
  BY <1>2, <1>3, StillThere
<1> QED
  BY <1>1, <1>2, <1>3, <1>4
  DEF BackedUp, Goto, Loop, Inv, Base, Control, Markers, Journal, Fits,
    Progress, Clear, NothingMoved, NothingInstalled, Unfinished,
    RestoreSteps, RecoverySteps

LEMMA InstalledJournal ==
  ASSUME Inv, UNCHANGED faults, Installed PROVE Journal'
<1> SUFFICES ASSUME Unfinished', NEW f \in plan'.files
             PROVE  Progress(f)' /\ \A p \in Possible(f)' : Fits(f, p)'
  BY DEF Journal
<1>1. SyncTouched /\ todo = {} /\ step \in Loops
  BY DEF Installed, SyncTouched, Loops
<1>2. /\ UNCHANGED <<project, incoming, backup, plan, transaction, marks,
                     pending, terminal>>
      /\ \A g \in File : older'[g] = {}
  BY <1>1, SyncSettles DEF Inv, Base
<1>3. (Powered' => Powered) /\ f \in plan.files /\ f \in File
  BY <1>2, StillThere
<1>4. /\ Place(f)' = Place(f) /\ Place(f) \in Possible(f)
      /\ Place(f).project = project[f] /\ Place(f).backup = backup[f]
      /\ Place(f).incoming = incoming[f] /\ Possible(f)' = {Place(f)}
  BY <1>2, <1>3, StillThere
<1> QED
  BY <1>1, <1>2, <1>3, <1>4
  DEF Installed, Goto, Loop, Inv, Base, Control, Markers, Journal, Fits,
    Progress, Clear, NothingMoved, NothingInstalled, Unfinished,
    RestoreSteps, RecoverySteps

LEMMA MovedBackJournal ==
  ASSUME Inv, UNCHANGED faults, MovedBack PROVE Journal'
<1> SUFFICES ASSUME Unfinished', NEW f \in plan'.files
             PROVE  Progress(f)' /\ \A p \in Possible(f)' : Fits(f, p)'
  BY DEF Journal
<1>1. SyncTouched /\ todo = {} /\ step \in Loops
  BY DEF MovedBack, SyncTouched, Loops
<1>2. /\ UNCHANGED <<project, incoming, backup, plan, transaction, marks,
                     pending, terminal>>
      /\ \A g \in File : older'[g] = {}
  BY <1>1, SyncSettles DEF Inv, Base
<1>3. (Powered' => Powered) /\ f \in plan.files /\ f \in File
  BY <1>2, StillThere
<1>4. /\ Place(f)' = Place(f) /\ Place(f) \in Possible(f)
      /\ Place(f).project = project[f] /\ Place(f).backup = backup[f]
      /\ Place(f).incoming = incoming[f] /\ Possible(f)' = {Place(f)}
  BY <1>2, <1>3, StillThere
<1> QED
  BY <1>1, <1>2, <1>3, <1>4
  DEF MovedBack, Goto, Loop, Inv, Base, Control, Markers, Journal, Fits,
    Progress, Clear, NothingMoved, NothingInstalled, Unfinished,
    RestoreSteps, RecoverySteps

LEMMA BackupRestoredJournal ==
  ASSUME Inv, UNCHANGED faults, BackupRestored PROVE Journal'
<1> SUFFICES ASSUME Unfinished', NEW f \in plan'.files
             PROVE  Progress(f)' /\ \A p \in Possible(f)' : Fits(f, p)'
  BY DEF Journal
<1>1. SyncTouched /\ todo = {} /\ step \in Loops
  BY DEF BackupRestored, SyncTouched, Loops
<1>2. /\ UNCHANGED <<project, incoming, backup, plan, transaction, marks,
                     pending, terminal>>
      /\ \A g \in File : older'[g] = {}
  BY <1>1, SyncSettles DEF Inv, Base
<1>3. (Powered' => Powered) /\ f \in plan.files /\ f \in File
  BY <1>2, StillThere
<1>4. /\ Place(f)' = Place(f) /\ Place(f) \in Possible(f)
      /\ Place(f).project = project[f] /\ Place(f).backup = backup[f]
      /\ Place(f).incoming = incoming[f] /\ Possible(f)' = {Place(f)}
  BY <1>2, <1>3, StillThere
<1> QED
  BY <1>1, <1>2, <1>3, <1>4
  DEF BackupRestored, Goto, Loop, Inv, Base, Control, Markers, Journal, Fits,
    Progress, Clear, NothingMoved, NothingInstalled, Unfinished,
    RestoreSteps, RecoverySteps

-----------------------------------------------------------------------------
(* The renames.                                                            *)
LEMMA PlacesAfter ==
  ASSUME NEW f, NEW x, NEW y, NEW z, MovesTo(f, x, y, z),
         NEW n, n = [project |-> x, backup |-> y, incoming |-> z]
  PROVE  /\ Place(f)' = n /\ n.project = x /\ n.backup = y /\ n.incoming = z
         /\ Possible(f)' \subseteq Possible(f) \cup {n}
         /\ \A g \in File \ {f} :
              Place(g)' = Place(g) /\ Possible(g)' = Possible(g)
<1>1. Place(f)' = n /\ n.project = x /\ n.backup = y /\ n.incoming = z
  BY DEF MovesTo, Place
<1>2. Possible(f)' \subseteq Possible(f) \cup {n}
  BY <1>1 DEF MovesTo, Possible
<1>3. ASSUME NEW g \in File \ {f}
      PROVE  Place(g)' = Place(g) /\ older'[g] = older[g]
  BY DEF MovesTo, Elsewhere, Place
<1> QED BY <1>1, <1>2, <1>3 DEF Possible

LEMMA MovePowered ==
  ASSUME UNCHANGED faults, NEW f, NEW x, NEW y, NEW z, MovesTo(f, x, y, z)
  PROVE  Powered' => Powered
<1>1. CASE "power" \in faults
  BY <1>1 DEF Powered
<1>2. CASE "power" \notin faults
  <2>1. \A g \in File : older'[g] = older[g]
    BY <1>2 DEF MovesTo, Elsewhere
  <2> QED BY <1>2, <2>1 DEF Powered
<1> QED BY <1>1, <1>2

(* A rename keeps the journal if the file's new place fits, keeps what the *)
(* file was before where a power loss may undo it, and is the progress the *)
(* loop makes.                                                             *)
LEMMA MoveKeepsJournal ==
  ASSUME Inv, UNCHANGED faults, Unfinished,
         NEW f, NEW x, NEW y, NEW z, MovesTo(f, x, y, z),
         NEW n, n = [project |-> x, backup |-> y, incoming |-> z],
         Powered => OriginalAt(n) = OriginalAt(Place(f)),
         y # Nothing /\ z # Nothing => x = Nothing,
         NothingInstalled => z # Nothing, ~NothingMoved, Progress(f)'
  PROVE  Journal'
<1>1. /\ Place(f)' = n /\ n.project = x /\ n.backup = y /\ n.incoming = z
      /\ Possible(f)' \subseteq Possible(f) \cup {n}
      /\ \A g \in File \ {f} :
           Place(g)' = Place(g) /\ Possible(g)' = Possible(g)
  BY PlacesAfter
<1>2. /\ UNCHANGED <<plan, transaction, marks, pending, terminal, step>>
      /\ todo' = todo \ {f} /\ f \in plan.files
  BY DEF MovesTo
<1>3. \A g \in plan.files : Progress(g) /\ \A p \in Possible(g) : Fits(g, p)
  BY DEF Inv, Journal
<1>4. /\ NothingMoved' = NothingMoved /\ NothingInstalled' = NothingInstalled
      /\ Powered' => Powered
  BY <1>2, MovePowered DEF NothingMoved, NothingInstalled
<1>5. ASSUME NEW p \in Possible(f)' PROVE Fits(f, p)'
  <2>1. CASE p = n
    BY <2>1, <1>1, <1>4 DEF Fits, Clear
  <2>2. CASE p \in Possible(f) /\ Powered
    BY <2>2, <1>1, <1>2, <1>3, <1>4 DEF Fits, Clear
  <2>3. ASSUME ~Powered PROVE p = n
    BY <1>1, <2>3 DEF MovesTo, Powered, Possible
  <2> QED BY <1>1, <2>1, <2>2, <2>3
<1>6. ASSUME NEW g \in plan.files, g # f
      PROVE  Progress(g)' /\ \A p \in Possible(g)' : Fits(g, p)'
  <2>1. g \in File
    BY DEF Inv, Base, Types, PlanTypes
  <2>2. /\ Place(g)' = Place(g) /\ Possible(g)' = Possible(g)
        /\ project'[g] = project[g] /\ backup'[g] = backup[g]
        /\ incoming'[g] = incoming[g]
    BY <1>1, <1>6, <2>1 DEF MovesTo, Elsewhere
  <2>3. Progress(g)'
    BY <1>2, <1>3, <1>4, <1>6, <2>2 DEF Progress, Clear
  <2>4. \A p \in Possible(g)' : Fits(g, p)'
    BY <1>3, <1>4, <2>2 DEF Fits, Clear
  <2> QED BY <2>3, <2>4
<1> QED BY <1>2, <1>5, <1>6 DEF Journal

(* A file the loop has nothing to do for.                                  *)
LEMMA SkipKeepsJournal ==
  ASSUME Inv, UNCHANGED faults, NEW f \in todo, Skip(f),
         Unfinished => Progress(f)'
  PROVE  Journal'
<1> SUFFICES ASSUME Unfinished', NEW g \in plan'.files
             PROVE  Progress(g)' /\ \A p \in Possible(g)' : Fits(g, p)'
  BY DEF Journal
<1>1. /\ UNCHANGED <<project, incoming, backup, plan, older, transaction,
                     marks, pending, terminal, step>>
      /\ todo' = todo \ {f}
  BY DEF Skip, staged, markers
<1>2. /\ Unfinished /\ g \in plan.files /\ UNCHANGED Powered
      /\ NothingMoved' = NothingMoved /\ NothingInstalled' = NothingInstalled
  BY <1>1 DEF Unfinished, Powered, NothingMoved, NothingInstalled
<1>3. Place(g)' = Place(g) /\ Possible(g)' = Possible(g)
  BY <1>1 DEF Place, Possible
<1>4. Progress(g) /\ \A p \in Possible(g) : Fits(g, p)
  BY <1>2 DEF Inv, Journal
<1>5. Progress(g)'
  BY <1>1, <1>2, <1>4 DEF Progress, Clear
<1>6. \A p \in Possible(g)' : Fits(g, p)'
  BY <1>2, <1>3, <1>4 DEF Fits, Clear
<1> QED BY <1>5, <1>6

(* Of a file a loop has to move, the journal says what is left to do.      *)
LEMMA Current ==
  ASSUME Inv, step \in Loops, NEW f \in todo
  PROVE  /\ Unfinished /\ f \in plan.files /\ f \in File
         /\ Progress(f) /\ Fits(f, Place(f))
         /\ terminal = "absent" /\ "installed" \notin marks
         /\ OriginalAt(Place(f)) =
              IF backup[f] # Nothing THEN backup[f]
              ELSE IF incoming[f] # Nothing THEN project[f] ELSE Nothing
<1>1. Unfinished /\ terminal = "absent" /\ "installed" \notin marks
  BY DEF Inv, Base, Control, Unfinished, Loops, RestoreSteps, RecoverySteps
<1>2. f \in plan.files /\ f \in File
  BY DEF Inv, Base, Types, PlanTypes
<1> QED BY <1>1, <1>2, PlaceIs DEF Inv, Journal, OriginalAt

LEMMA BackUpJournal ==
  ASSUME Inv, UNCHANGED faults, NEW f \in todo, BackUp(f) PROVE Journal'
<1>1. step = "back_up" /\ step \in Loops
  BY DEF BackUp, Loops
<1>2. /\ Unfinished /\ Progress(f) /\ Fits(f, Place(f))
      /\ backup[f] = Nothing /\ marks = {"backing_up"} /\ terminal = "absent"
  BY <1>1, Current DEF Inv, Base, Markers, Progress
<1>3. incoming[f] # Nothing /\ ~NothingMoved
  BY <1>1, <1>2, PlaceIs DEF Fits, NothingMoved, NothingInstalled
<1>4. CASE project[f] = Nothing /\ Skip(f)
  <2>1. Progress(f)'
    BY <1>1, <1>4 DEF Skip, Progress, Clear
  <2> QED BY <1>4, <2>1, SkipKeepsJournal
<1>5. CASE project[f] # Nothing /\ MovesTo(f, Nothing, project[f], incoming[f])
  <2>1. PICK n : n = [project |-> Nothing, backup |-> project[f],
                      incoming |-> incoming[f]]
    OBVIOUS
  <2>2. OriginalAt(n) = OriginalAt(Place(f))
    BY <1>1, <1>2, <1>3, <1>5, <2>1, Current DEF OriginalAt
  <2>3. Progress(f)'
    BY <1>1, <1>5 DEF MovesTo, Progress, Clear
  <2> QED BY <1>2, <1>3, <1>5, <2>1, <2>2, <2>3, MoveKeepsJournal
<1> QED BY <1>4, <1>5, BackUpMoves DEF Inv, Base

LEMMA InstallJournal ==
  ASSUME Inv, UNCHANGED faults, NEW f \in todo, Install(f) PROVE Journal'
<1>1. step = "install" /\ step \in Loops
  BY DEF Install, Loops
<1>2. /\ Unfinished /\ Progress(f) /\ incoming[f] # Nothing
      /\ Clear(project[f])
      /\ marks = {"backing_up", "installing"} /\ terminal = "absent"
  BY <1>1, Current DEF Inv, Base, Markers, Progress
<1>3. ~NothingMoved /\ ~NothingInstalled
  BY <1>1, <1>2 DEF NothingMoved, NothingInstalled
<1>4. MovesTo(f, incoming[f], backup[f], Nothing)
  BY InstallMoves DEF Inv, Base
<1>5. PICK n : n = [project |-> incoming[f], backup |-> backup[f],
                    incoming |-> Nothing]
  OBVIOUS
<1>6. Powered => OriginalAt(n) = OriginalAt(Place(f))
  BY <1>1, <1>2, <1>5, Current DEF OriginalAt, Clear
<1>7. Progress(f)'
  BY <1>1, <1>4 DEF MovesTo, Progress
<1> QED BY <1>2, <1>3, <1>4, <1>5, <1>6, <1>7, MoveKeepsJournal

LEMMA MoveBackJournal ==
  ASSUME Inv, UNCHANGED faults, NEW f \in todo, MoveBack(f) PROVE Journal'
<1>1. step = "move_back" /\ step \in Loops
  BY DEF MoveBack, Loops
<1>2. /\ Unfinished /\ Fits(f, Place(f)) /\ "rolling_back" \in marks
      /\ terminal = "absent"
  BY <1>1, Current DEF Inv, Base, Markers
<1>3. CASE incoming[f] # Nothing /\ Skip(f)
  <2>1. Progress(f)'
    BY <1>1, <1>3 DEF Skip, staged, Progress
  <2> QED BY <1>3, <2>1, SkipKeepsJournal
<1>4. CASE /\ incoming[f] = Nothing /\ project[f] # Nothing
           /\ MovesTo(f, Nothing, backup[f], project[f])
  <2>1. ~NothingMoved
    BY <1>1, <1>2 DEF NothingMoved
  <2>2. PICK n : n = [project |-> Nothing, backup |-> backup[f],
                      incoming |-> project[f]]
    OBVIOUS
  <2>3. OriginalAt(n) = OriginalAt(Place(f))
    BY <1>1, <1>4, <2>2, Current DEF OriginalAt
  <2>4. Progress(f)'
    BY <1>1, <1>4 DEF MovesTo, Progress
  <2> QED BY <1>2, <1>4, <2>1, <2>2, <2>3, <2>4, MoveKeepsJournal
<1> QED BY <1>3, <1>4, MoveBackMoves DEF Inv, Base

LEMMA RestoreBackupJournal ==
  ASSUME Inv, UNCHANGED faults, NEW f \in todo, RestoreBackup(f) PROVE Journal'
<1>1. step = "restore_backup" /\ step \in Loops
  BY DEF RestoreBackup, Loops
<1>2. /\ Unfinished /\ Fits(f, Place(f)) /\ "restoring_backup" \in marks
      /\ terminal = "absent"
  BY <1>1, Current DEF Inv, Base, Markers
<1>3. incoming[f] # Nothing /\ ~NothingMoved
  BY <1>1, <1>2, PlaceIs DEF Fits, NothingMoved, NothingInstalled
<1>4. CASE backup[f] = Nothing /\ Skip(f)
  <2>1. Progress(f)'
    BY <1>1, <1>4 DEF Skip, staged, Progress
  <2> QED BY <1>4, <2>1, SkipKeepsJournal
<1>5. CASE /\ backup[f] # Nothing
           /\ MovesTo(f, backup[f], Nothing, incoming[f])
  <2>1. PICK n : n = [project |-> backup[f], backup |-> Nothing,
                      incoming |-> incoming[f]]
    OBVIOUS
  <2>2. OriginalAt(n) = OriginalAt(Place(f))
    BY <1>1, <1>3, <1>5, <2>1, Current DEF OriginalAt
  <2>3. Progress(f)'
    BY <1>1, <1>5 DEF MovesTo, Progress
  <2> QED BY <1>2, <1>3, <1>5, <2>1, <2>2, <2>3, MoveKeepsJournal
<1> QED BY <1>4, <1>5, RestoreBackupMoves DEF Inv, Base

(* A power loss takes each file to a place that fits.                      *)
LEMMA PowerLossJournal ==
  ASSUME Inv, UNCHANGED faults, PowerLoss PROVE Journal'
<1> SUFFICES ASSUME Unfinished', NEW f \in plan'.files
             PROVE  Progress(f)' /\ \A p \in Possible(f)' : Fits(f, p)'
  BY DEF Journal
<1>1. /\ UNCHANGED <<plan, transaction, marks, pending, terminal>>
      /\ step' = "idle" /\ older' = NeverMoved
  BY DEF PowerLoss, Goto, markers
<1>2. Unfinished /\ f \in plan.files /\ f \in File
  BY <1>1 DEF Unfinished, Inv, Base, Types, PlanTypes
<1>3. PICK p \in Possible(f) : /\ project'[f] = p.project
                               /\ backup'[f] = p.backup
                               /\ incoming'[f] = p.incoming
  BY <1>2, PowerLossLeaves DEF Inv, Base
<1>4. /\ Place(f)'.project = p.project /\ Place(f)'.backup = p.backup
      /\ Place(f)'.incoming = p.incoming /\ Possible(f)' = {Place(f)'}
  BY <1>1, <1>2, <1>3 DEF Place, Possible, NeverMoved
<1>5. Fits(f, p)
  BY <1>2 DEF Inv, Journal
<1>6. /\ NothingMoved' => NothingMoved
      /\ NothingInstalled' => NothingInstalled
      /\ Powered' => Powered
  BY <1>1 DEF NothingMoved, NothingInstalled, Powered, NeverMoved
<1>7. Fits(f, Place(f))'
  BY <1>4, <1>5, <1>6 DEF Fits, Clear
<1>8. Progress(f)'
  BY <1>1 DEF Progress
<1> QED BY <1>4, <1>7, <1>8

(* Without power losses a file is where it is.                             *)
LEMMA Unpowered ==
  ASSUME Inv, ~Powered PROVE \A f : f \in File => Possible(f) = {Place(f)}
BY DEF Powered, Possible

LEMMA ForeignUnpowered ==
  ASSUME Inv, NEW f, ForeignCreate(f) PROVE ~Powered
BY DEF ForeignCreate, Inv, Durable

LEMMA ForeignJournal ==
  ASSUME Inv, UNCHANGED faults, NEW f \in File, ForeignCreate(f) PROVE Journal'
<1> SUFFICES ASSUME Unfinished', NEW g \in plan'.files
             PROVE  Progress(g)' /\ \A p \in Possible(g)' : Fits(g, p)'
  BY DEF Journal
<1>1. /\ UNCHANGED <<incoming, backup, older, plan, transaction, marks,
                     pending, terminal, step, todo>>
      /\ project[f] = Nothing /\ project'[f] = Theirs
      /\ \A h \in File \ {f} : project'[h] = project[h]
  BY ForeignWrites DEF ForeignCreate, staged, markers, process, Inv, Base
<1>2. /\ Unfinished /\ g \in plan.files /\ g \in File /\ ~Powered /\ ~Powered'
      /\ NothingMoved' = NothingMoved /\ NothingInstalled' = NothingInstalled
  BY <1>1, ForeignUnpowered
  DEF Unfinished, Inv, Base, Types, PlanTypes, Powered, NothingMoved,
      NothingInstalled
<1>3. Progress(g) /\ Fits(g, Place(g))
  BY <1>2, PlaceIs DEF Inv, Journal
<1>4. /\ Place(g)'.project = project'[g] /\ Place(g)'.backup = backup[g]
      /\ Place(g)'.incoming = incoming[g] /\ Possible(g)' = {Place(g)'}
  BY <1>1, <1>2, Unpowered DEF Place, Possible, Powered
<1>5. project'[g] = project[g] \/ (project'[g] = Theirs /\ project[g] = Nothing)
  BY <1>1, <1>2
<1>6. Progress(g)'
  BY <1>1, <1>2, <1>3, <1>5 DEF Progress, Clear
<1>7. Fits(g, Place(g))'
  BY <1>2, <1>3, <1>4, <1>5, PlaceIs DEF Fits, Clear
<1> QED BY <1>4, <1>6, <1>7

LEMMA FoldersJournal ==
  ASSUME Inv, faults' \in {faults, {}},
         UNCHANGED <<project, staged, markers, step, todo, older>>
  PROVE  Journal'
<1> SUFFICES ASSUME Unfinished', NEW f \in plan'.files
             PROVE  Progress(f)' /\ \A p \in Possible(f)' : Fits(f, p)'
  BY DEF Journal
<1>1. /\ UNCHANGED <<project, incoming, backup, older, plan, transaction,
                     marks, pending, terminal, step, todo>>
  BY DEF staged, markers
<1>2. /\ Unfinished /\ f \in plan.files /\ (Powered' => Powered)
      /\ NothingMoved' = NothingMoved /\ NothingInstalled' = NothingInstalled
  BY <1>1 DEF Unfinished, Powered, NothingMoved, NothingInstalled
<1>3. Progress(f) /\ \A p \in Possible(f) : Fits(f, p)
  BY <1>2 DEF Inv, Journal
<1>4. Place(f)' = Place(f) /\ Possible(f)' = Possible(f)
  BY <1>1 DEF Place, Possible
<1>5. Progress(f)'
  BY <1>1, <1>2, <1>3 DEF Progress, Clear
<1>6. \A p \in Possible(f)' : Fits(f, p)'
  BY <1>2, <1>3, <1>4 DEF Fits, Clear
<1> QED BY <1>5, <1>6

(* A file in the way stops a loop, which leaves the rest to recovery.      *)
LEMMA ConflictJournal ==
  ASSUME Inv, UNCHANGED faults, NEW f \in todo,
         InstallConflict(f) \/ RestoreBackupConflict(f)
  PROVE  Journal'
<1> SUFFICES ASSUME Unfinished', NEW g \in plan'.files
             PROVE  Progress(g)' /\ \A p \in Possible(g)' : Fits(g, p)'
  BY DEF Journal
<1>1. /\ UNCHANGED <<project, incoming, backup, older, plan, transaction,
                     marks, pending, terminal>>
      /\ step' \in {"recover", "idle"}
  BY DEF InstallConflict, RestoreBackupConflict, Goto, staged, markers
<1>2. (Powered' => Powered) /\ g \in plan.files
  BY <1>1, StillThere
<1>3. Place(g)' = Place(g) /\ Possible(g)' \subseteq Possible(g)
  BY <1>1, <1>2, StillThere
<1>4. \A p \in Possible(g) : Fits(g, p)
  BY <1>1, <1>2 DEF Inv, Journal, Unfinished
<1>5. /\ NothingMoved' => NothingMoved
      /\ NothingInstalled' => NothingInstalled
  BY <1>1 DEF NothingMoved, NothingInstalled
<1>6. \A p \in Possible(g)' : Fits(g, p)'
  BY <1>2, <1>3, <1>4, <1>5 DEF Fits, Clear
<1>7. Progress(g)'
  BY <1>1 DEF Progress
<1> QED BY <1>6, <1>7

LEMMA JournalKept ==
  ASSUME Inv, FaultTypes', [Next]_vars PROVE Journal'
<1>1. ASSUME Tear \/ RemoveTransaction \/ ResetCheckpoints PROVE ~Unfinished'
  BY <1>1
  DEF Tear, RemoveTransaction, ResetCheckpoints, DestroyStore,
      EmptyTransaction, markers, process, Unfinished, Inv, Base, Control,
      Preparing
<1>2. ASSUME NEW c, Prepare(c) PROVE ~Unfinished'
  BY <1>2 DEF Prepare, markers, Unfinished, Inv, Base, Control, Preparing
<1>3. ASSUME NEW f, NEW content, Edit(f, content) PROVE ~Unfinished'
  BY <1>3 DEF Edit, markers, Unfinished
<1>4. ASSUME ~Unfinished' PROVE Journal'
  BY <1>4 DEF Journal
<1>5. ASSUME NEW folder, MakeFolder(folder) \/ RemoveFolder(folder),
             UNCHANGED faults
      PROVE  Journal'
  BY <1>5, FoldersJournal DEF MakeFolder, RemoveFolder, process
<1>6. ASSUME NEW f \in todo, Finds(f), UNCHANGED faults PROVE Journal'
  BY <1>6, FindingStandsStill, FoldersJournal DEF staged, markers
<1>7. CASE Continue
  BY <1>1, <1>2, <1>4, <1>5, <1>7, <1>6, CreateTransactionJournal,
     WritePendingJournal,
     MarkBackingUpJournal, BackedUpJournal, MarkInstallingJournal,
     FoldersMadeJournal, InstalledJournal, MarkInstalledJournal,
     BackUpJournal, InstallJournal, MoveBackJournal, RestoreBackupJournal,
     ConflictJournal, OpenTerminalJournal, WriteTerminalJournal,
     ClearPendingJournal, ClearTerminalJournal, RecoverJournal,
     RecoveryRefusedJournal, MarkRollingBackJournal, MovedBackJournal,
     MarkRestoringBackupJournal, BackupRestoredJournal, FoldersRemovedJournal
  DEF Continue, Advance, Finds
<1>8. CASE Fault /\ UNCHANGED faults
  BY <1>8, RestoreRefusedJournal, PendingFailsJournal, RestoreFailsJournal,
     RecoveryFailsJournal, KillJournal, PowerLossJournal, ForeignJournal
  DEF Fault
<1>9. CASE User /\ UNCHANGED faults
  BY <1>1, <1>3, <1>4, <1>9, StartRestoreJournal, ClearStaleTerminalJournal
  DEF User
<1>10. CASE Recovery
  BY <1>10, ReopenJournal DEF Recovery
<1>11. CASE CalmDown \/ UNCHANGED vars
  BY <1>11, FoldersJournal DEF CalmDown, vars, files, process
<1> QED BY <1>1, <1>4, <1>7, <1>8, <1>9, <1>10, <1>11 DEF Next

-----------------------------------------------------------------------------
(* What a restore installs is a checkpoint, whole.                         *)
(* A step's new places of a file each follow one it could be in before.    *)
Follows(p, q) ==
  \/ p.incoming = q.incoming
     /\ (p.project = q.project \/ q.project = Nothing \/ q.incoming # Nothing)
  \/ p.incoming = Nothing /\ p.project = q.incoming /\ q.incoming # Nothing
  \/ p.incoming = q.project /\ q.incoming = Nothing /\ q.project # Nothing

PlacesFollow ==
  \A f \in plan.files : \A p \in Possible(f)' :
    \E q \in Possible(f) : Follows(p, q)

LEMMA StagedTogether ==
  ASSUME Inv, Unfinished \/ step = "write_pending", UNCHANGED plan, PlacesFollow
  PROVE  FromCheckpoint'
<1> PICK c \in Checkpoint : Of(c)
  BY DEF Inv, FromCheckpoint
<1>1. \A f \in plan.files : c[f] # Nothing
  BY DEF Of, FilesOf
<1>2. ASSUME NEW f \in plan.files, NEW p \in Possible(f)' PROVE Staged(c, f, p)
  <2>1. \A q \in Possible(f) : Staged(c, f, q)
    BY DEF Of
  <2>2. PICK q \in Possible(f) : Follows(p, q)
    BY DEF PlacesFollow
  <2> QED BY <1>1, <2>1, <2>2 DEF Staged, Follows
<1>3. Of(c)'
  BY <1>2 DEF Of
<1> QED BY <1>3 DEF FromCheckpoint

LEMMA StayingFollows ==
  ASSUME Inv, UNCHANGED <<project, incoming, backup, plan>>,
         \A f \in File : older'[f] \in {older[f], {}}
  PROVE  PlacesFollow
<1>1. ASSUME NEW f \in plan.files PROVE Possible(f)' \subseteq Possible(f)
  BY DEF Possible, Place, Inv, Base, Types, PlanTypes
<1> QED BY <1>1 DEF PlacesFollow, Follows

LEMMA MovingFollows ==
  ASSUME Inv, NEW f \in todo, NEW x, NEW y, NEW z, MovesTo(f, x, y, z),
         \/ z = incoming[f] /\ incoming[f] # Nothing
         \/ z = Nothing /\ x = incoming[f] /\ incoming[f] # Nothing
         \/ z = project[f] /\ incoming[f] = Nothing /\ project[f] # Nothing
  PROVE  PlacesFollow
<1> PICK n : n = [project |-> x, backup |-> y, incoming |-> z]
  OBVIOUS
<1>1. /\ n.project = x /\ n.incoming = z
      /\ Possible(f)' \subseteq Possible(f) \cup {n}
      /\ \A g \in File \ {f} : Possible(g)' = Possible(g)
  BY PlacesAfter
<1>2. Follows(n, Place(f)) /\ Place(f) \in Possible(f)
  BY <1>1, PlaceIs DEF Follows
<1>3. \A q : Follows(q, q)
  BY DEF Follows
<1>4. plan.files \subseteq File
  BY DEF Inv, Base, Types, PlanTypes
<1> QED BY <1>1, <1>2, <1>3, <1>4 DEF PlacesFollow

LEMMA MoversFollow ==
  ASSUME Inv, NEW f \in todo,
         BackUp(f) \/ Install(f) \/ MoveBack(f) \/ RestoreBackup(f)
  PROVE  PlacesFollow
<1>1. step \in Loops
  BY MoversStandStill DEF Inv, Base
<1>2. Progress(f) /\ Fits(f, Place(f))
  BY <1>1, Current
<1>3. ASSUME Skip(f) PROVE PlacesFollow
  BY <1>3, StayingFollows DEF Skip, staged
<1>4. CASE BackUp(f)
  <2>1. step = "back_up" /\ marks = {"backing_up"}
    BY <1>4 DEF BackUp, Inv, Base, Markers
  <2>2. incoming[f] # Nothing
    BY <1>2, <2>1, PlaceIs DEF Fits, NothingInstalled
  <2> QED BY <1>3, <1>4, <2>2, BackUpMoves, MovingFollows DEF Inv, Base
<1>5. CASE Install(f)
  <2>1. incoming[f] # Nothing
    BY <1>2, <1>5 DEF Install, Progress
  <2> QED BY <1>5, <2>1, InstallMoves, MovingFollows DEF Inv, Base
<1>6. CASE MoveBack(f)
  BY <1>3, <1>6, MoveBackMoves, MovingFollows DEF Inv, Base
<1>7. CASE RestoreBackup(f)
  <2>1. step = "restore_backup" /\ "restoring_backup" \in marks
    BY <1>7 DEF RestoreBackup, Inv, Base, Markers
  <2>2. incoming[f] # Nothing
    BY <1>2, <2>1, PlaceIs DEF Fits, NothingInstalled
  <2> QED BY <1>3, <1>7, <2>2, RestoreBackupMoves, MovingFollows DEF Inv, Base
<1> QED BY <1>4, <1>5, <1>6, <1>7

LEMMA PowerLossFollows ==
  ASSUME Inv, PowerLoss PROVE PlacesFollow
<1> SUFFICES ASSUME NEW f \in plan.files, NEW p \in Possible(f)'
             PROVE  \E q \in Possible(f) : Follows(p, q)
  BY DEF PlacesFollow
<1>1. f \in File
  BY DEF Inv, Base, Types, PlanTypes
<1>2. PICK q \in Possible(f) : /\ project'[f] = q.project
                               /\ backup'[f] = q.backup
                               /\ incoming'[f] = q.incoming
  BY <1>1, PowerLossLeaves DEF Inv, Base
<1>3. p.project = project'[f] /\ p.incoming = incoming'[f]
  BY <1>1, PowerLossLeaves DEF Inv, Base, Possible, Place, NeverMoved
<1> QED BY <1>2, <1>3 DEF Follows

LEMMA ForeignFollows ==
  ASSUME Inv, NEW f \in File, ForeignCreate(f) PROVE PlacesFollow
<1>1. /\ UNCHANGED <<incoming, backup, older>> /\ project[f] = Nothing
      /\ \A g \in File \ {f} : project'[g] = project[g]
  BY ForeignWrites DEF ForeignCreate, Inv, Base
<1>2. ASSUME NEW g \in plan.files, NEW p \in Possible(g)'
      PROVE  \E q \in Possible(g) : Follows(p, q)
  <2>1. CASE p = Place(g)'
    <3>1. p.project = project'[g] /\ p.incoming = incoming[g] /\ g \in File
      BY <1>1, <2>1 DEF Place, Inv, Base, Types, PlanTypes
    <3> QED BY <1>1, <3>1, PlaceIs DEF Follows
  <2>2. CASE p \in older[g]
    BY <2>2 DEF Possible, Follows
  <2> QED BY <1>1, <2>1, <2>2 DEF Possible
<1> QED BY <1>2 DEF PlacesFollow

LEMMA PrepareStages ==
  ASSUME Inv, NEW c \in Checkpoint, Prepare(c)
  PROVE  FromCheckpoint' /\ FolderPlan' /\ Empties'
<1>1. /\ plan'.files = FilesOf(c)
      /\ plan'.folders = FoldersFor(FilesOf(c)) \ folders
      /\ incoming' = c /\ backup' = backup /\ older' = older /\ marks = {}
      /\ step = "prepare" /\ transaction /\ terminal = "absent" /\ ~pending
      /\ UNCHANGED <<transaction, terminal, pending, marks, folders>>
      /\ step' = "write_pending"
  BY PlanMade DEF Prepare, markers, Goto, Inv, Base, Control, Preparing
<1>2. ASSUME NEW f \in plan'.files
      PROVE  older'[f] = {} /\ incoming'[f] = c[f] /\ c[f] # Nothing
  BY <1>1, Settled DEF Inv, Base, FilesOf, Loops
<1>3. \A f \in plan'.files : \A p \in Possible(f)' : Staged(c, f, p)
  BY <1>2 DEF Possible, Place, Staged
<1>4. FromCheckpoint'
  BY <1>1, <1>3 DEF FromCheckpoint, Of
<1>5. FolderPlan'
  BY <1>1 DEF FolderPlan
<1>6. Empties'
  BY <1>1, <1>2 DEF Empties, Inv
<1> QED BY <1>4, <1>5, <1>6

Active == Unfinished \/ step = "write_pending"
Onward == Active' => Active /\ UNCHANGED plan /\ PlacesFollow

(* A restore becomes active when its plan is written, and no step after    *)
(* that changes the plan.                                                  *)
LEMMA OnwardKeeps == ASSUME Inv, Onward PROVE FromCheckpoint'
BY StagedTogether DEF Onward, Active, FromCheckpoint

LEMMA AdvanceOnward ==
  ASSUME Inv, Advance, UNCHANGED faults
  PROVE  Onward \/ \E c \in Checkpoint : Prepare(c)
<1> USE DEF staged, markers, process
<1>1. ASSUME CreateTransaction \/ WritePending \/ MarkBackingUp \/
               MarkInstalling
      PROVE  Onward
  <2>1. UNCHANGED <<project, incoming, backup, plan, older>>
    BY <1>1 DEF CreateTransaction, WritePending, MarkBackingUp, MarkInstalling,
                Mark
  <2>2. Active' => Active
    BY <1>1 DEF CreateTransaction, WritePending, MarkBackingUp,
      MarkInstalling, Mark, Loop, Goto, Active, Unfinished, Inv, Base,
      Control, Preparing, RestoreSteps, RecoverySteps
  <2> QED BY <2>1, <2>2, StayingFollows DEF Onward
<1>2. ASSUME FoldersMade \/ MarkInstalled \/ OpenTerminal \/ WriteTerminal
      PROVE  Onward
  <2>1. UNCHANGED <<project, incoming, backup, plan, older>>
    BY <1>2 DEF FoldersMade, MarkInstalled, OpenTerminal, WriteTerminal, Mark
  <2>2. Active' => Active
    BY <1>2 DEF FoldersMade, MarkInstalled, OpenTerminal, WriteTerminal,
      Loop, Mark, Goto, Active, Unfinished, Inv, Base, Control, Preparing,
      RestoreSteps, RecoverySteps
  <2> QED BY <2>1, <2>2, StayingFollows DEF Onward
<1>3. ASSUME ClearPending \/ ClearTerminal \/ Recover \/ RecoveryRefused
      PROVE  Onward
  <2>1. UNCHANGED <<project, incoming, backup, plan, older>>
    BY <1>3 DEF ClearPending, ClearTerminal, Recover, RecoveryRefused
  <2>2. Active' => Active
    BY <1>3 DEF ClearPending, ClearTerminal, Recover, RecoveryRefused,
      RecoverByMarks, Loop, Goto, Active, Unfinished, Inv, Base, Control,
      Preparing, RestoreSteps, RecoverySteps
  <2> QED BY <2>1, <2>2, StayingFollows DEF Onward
<1>4. ASSUME MarkRollingBack \/ MarkRestoringBackup \/ FoldersRemoved
      PROVE  Onward
  <2>1. UNCHANGED <<project, incoming, backup, plan, older>>
    BY <1>4 DEF MarkRollingBack, MarkRestoringBackup, FoldersRemoved, Mark
  <2>2. Active' => Active
    BY <1>4 DEF MarkRollingBack, MarkRestoringBackup, FoldersRemoved, Mark,
      Loop, Goto, Active, Unfinished, Inv, Base, Control, Preparing,
      RestoreSteps, RecoverySteps
  <2> QED BY <2>1, <2>2, StayingFollows DEF Onward
<1>5. ASSUME BackedUp \/ Installed \/ MovedBack \/ BackupRestored
      PROVE  Onward
  <2>1. SyncTouched /\ step' # "write_pending"
    BY <1>5 DEF BackedUp, Installed, MovedBack, BackupRestored, Goto
  <2>2. /\ UNCHANGED <<project, incoming, backup, plan, transaction, marks,
                       pending, terminal>>
        /\ \A f \in File : older'[f] = {}
    BY <2>1, SyncSettles DEF Inv, Base
  <2> QED BY <2>1, <2>2, StayingFollows DEF Onward, Active, Unfinished
<1>6. ASSUME NEW folder, MakeFolder(folder) \/ RemoveFolder(folder)
      PROVE  Onward
  BY <1>6, StayingFollows
  DEF MakeFolder, RemoveFolder, Onward, Active, Unfinished
<1>7. ASSUME NEW f \in todo, InstallConflict(f) \/ RestoreBackupConflict(f)
      PROVE  Onward
  BY <1>7, StayingFollows
  DEF InstallConflict, RestoreBackupConflict, Goto, Onward, Active, Unfinished
<1>8. ASSUME NEW f \in todo,
             BackUp(f) \/ Install(f) \/ MoveBack(f) \/ RestoreBackup(f)
      PROVE  Onward
  <2>1. UNCHANGED <<transaction, plan, marks, pending, terminal, step>>
    BY <1>8, MoversStandStill DEF Inv, Base
  <2> QED BY <1>8, <2>1, MoversFollow DEF Onward, Active, Unfinished
<1>9. ASSUME RemoveTransaction PROVE Onward
  BY <1>9
  DEF RemoveTransaction, EmptyTransaction, Goto, Onward, Active, Unfinished
<1>10. ASSUME NEW f \in todo, Finds(f) PROVE Onward
  BY <1>10, FindingStandsStill, StayingFollows DEF Onward, Active, Unfinished
<1> QED BY <1>1, <1>2, <1>3, <1>4, <1>5, <1>6, <1>7, <1>8, <1>9, <1>10
        DEF Advance, Finds

LEMMA OthersOnward ==
  ASSUME Inv, [Next]_vars, ~Continue PROVE Onward
<1> USE DEF staged, markers, process
<1>1. ASSUME \/ RestoreRefused \/ PendingFails \/ RestoreFails
             \/ RecoveryFails \/ Kill
      PROVE  Onward
  <2>1. UNCHANGED <<project, incoming, backup, plan, older>>
    BY <1>1 DEF RestoreRefused, PendingFails, RestoreFails, RecoveryFails, Kill
  <2>2. Active' => Active
    BY <1>1
    DEF RestoreRefused, PendingFails, RestoreFails, RecoveryFails, Kill, Goto,
        MarkOf, Active, Unfinished, Inv, Base, Control, Preparing, RestoreSteps,
        RecoverySteps, CleanupSteps
  <2> QED BY <2>1, <2>2, StayingFollows DEF Onward
<1>2. ASSUME PowerLoss PROVE Onward
  BY <1>2, PowerLossFollows DEF PowerLoss, Goto, Onward, Active, Unfinished
<1>3. ASSUME NEW f \in File, ForeignCreate(f) PROVE Onward
  BY <1>3, ForeignFollows DEF ForeignCreate, Onward, Active, Unfinished
<1>4. ASSUME StartRestore \/ ClearStaleTerminal \/ ResetCheckpoints \/ Reopen
      PROVE  Onward
  BY <1>4, StayingFollows
  DEF StartRestore, ClearStaleTerminal, ResetCheckpoints, DestroyStore, Reopen,
      Goto, Onward, Active, Unfinished
<1>5. ASSUME NEW f, NEW content, Edit(f, content) PROVE Onward
  BY <1>5 DEF Edit, Onward, Active, Unfinished
<1>6. ASSUME Tear PROVE Onward
  BY <1>6
  DEF Tear, Onward, Active, Unfinished, Inv, Base, Control, Preparing
<1>7. ASSUME CalmDown \/ UNCHANGED vars PROVE Onward
  BY <1>7, StayingFollows
  DEF CalmDown, vars, files, Onward, Active, Unfinished
<1> QED BY <1>1, <1>2, <1>3, <1>4, <1>5, <1>6, <1>7
        DEF Next, Fault, User, Recovery

LEMMA FromCheckpointKept ==
  ASSUME Inv, [Next]_vars PROVE FromCheckpoint'
<1>1. CASE Continue
  BY <1>1, AdvanceOnward, OnwardKeeps, PrepareStages DEF Continue
<1>2. CASE ~Continue
  BY <1>2, OthersOnward, OnwardKeeps
<1> QED BY <1>1, <1>2

-----------------------------------------------------------------------------
(* The folders a restore makes, and removes again.                         *)
Ending == terminal = "partial" \/ step \in {"open_terminal", "write_terminal"}
Filling == step \in {"install", "mark_installed"}

Grounded ==
  Active' =>
    /\ Active /\ UNCHANGED <<plan, folders>> /\ marks \subseteq marks'
    /\ Filling' => Filling \/ plan.folders \subseteq folders
    /\ Ending' =>
         \/ Ending /\ FilesOf(project) \subseteq FilesOf(project')
         \/ plan.folders \cap folders \subseteq FoldersFor(FilesOf(project'))

LEMMA GroundedKeeps == ASSUME Inv, Grounded PROVE FolderPlan'
<1>1. FilesOf(project)' = FilesOf(project')
  BY DEF FilesOf
<1>2. \A some, more : some \subseteq more =>
         FoldersFor(some) \subseteq FoldersFor(more)
  BY DEF FoldersFor
<1>3. Active => FolderPlan /\ Active
  BY DEF Inv
<1>4. FoldersFor(plan.files)' = FoldersFor(plan'.files)
  BY DEF FoldersFor
<1>5. FoldersFor(FilesOf(project))' = FoldersFor(FilesOf(project'))
  BY <1>1 DEF FoldersFor
<1> SUFFICES ASSUME Active'
             PROVE /\ plan'.folders \subseteq FoldersFor(plan'.files)
                   /\ FoldersFor(plan'.files) \subseteq folders' \cup plan'.folders
                   /\ "installing" \notin marks' =>
                        plan'.folders \cap folders' = {}
                   /\ Filling' => plan'.folders \subseteq folders'
                   /\ Ending' => plan'.folders \cap folders' \subseteq
                                   FoldersFor(FilesOf(project'))
  BY <1>4, <1>5 DEF FolderPlan, Active, Filling, Ending
<1>6. /\ plan.folders \subseteq FoldersFor(plan.files)
      /\ FoldersFor(plan.files) \subseteq folders \cup plan.folders
      /\ "installing" \notin marks => plan.folders \cap folders = {}
      /\ Filling => plan.folders \subseteq folders
      /\ Ending =>
           plan.folders \cap folders \subseteq FoldersFor(FilesOf(project))
  BY DEF Grounded, Inv, FolderPlan, Active, Filling, Ending
<1>7. Ending' =>
        plan.folders \cap folders \subseteq FoldersFor(FilesOf(project'))
  BY <1>2, <1>6 DEF Grounded
<1> QED BY <1>6, <1>7 DEF Grounded

LEMMA NonemptyFolders ==
  ASSUME Inv, FoldersRemoved
  PROVE  plan.folders \cap folders \subseteq FoldersFor(FilesOf(project))
<1> SUFFICES ASSUME NEW folder \in plan.folders \cap folders
             PROVE  folder \in FoldersFor(FilesOf(project))
  OBVIOUS
<1>1. PICK f \in FilesOf(project) : FolderOf[f] = folder
  BY DEF FoldersRemoved, Empty
<1>2. folder # Top
  <2>1. Active
    BY DEF FoldersRemoved, Active, Unfinished, Inv, Base, Control, RestoreSteps,
           RecoverySteps
  <2> QED BY <2>1 DEF Inv, FolderPlan, Active, FoldersFor
<1> QED BY <1>1, <1>2 DEF FoldersFor

LEMMA AdvanceGrounded ==
  ASSUME Inv, Advance, UNCHANGED faults
  PROVE  FolderPlan'
<1> USE DEF staged, markers, process
<1>1. ASSUME \/ CreateTransaction \/ WritePending \/ MarkBackingUp
             \/ MarkInstalling \/ MarkInstalled
      PROVE  Grounded
  BY <1>1
  DEF CreateTransaction, WritePending, MarkBackingUp, MarkInstalling,
      MarkInstalled, Mark, Loop, Goto, Grounded, Active, Unfinished, Filling,
      Ending, Inv, Base, Control, Preparing, RestoreSteps, RecoverySteps
<1>2. ASSUME \/ OpenTerminal \/ WriteTerminal \/ ClearPending \/ ClearTerminal
             \/ RecoveryRefused
      PROVE  Grounded
  BY <1>2
  DEF OpenTerminal, WriteTerminal, ClearPending, ClearTerminal,
      RecoveryRefused, Goto, Grounded, Active, Unfinished, Filling, Ending,
      Inv, Base, Control, Preparing, RestoreSteps, RecoverySteps
<1>3. ASSUME MarkRollingBack \/ MarkRestoringBackup PROVE Grounded
  BY <1>3
  DEF MarkRollingBack, MarkRestoringBackup, Mark, Loop, Goto, Grounded, Active,
      Unfinished, Filling, Ending, Inv, Base, Control, Preparing, RestoreSteps,
      RecoverySteps
<1>4. ASSUME FoldersMade PROVE Grounded
  BY <1>4
  DEF FoldersMade, Loop, Grounded, Active, Unfinished, Filling, Ending
<1>5. ASSUME FoldersRemoved PROVE Grounded
  BY <1>5, NonemptyFolders
  DEF FoldersRemoved, Goto, Grounded, Active, Unfinished, Filling, Ending
<1>6. ASSUME Recover PROVE Grounded
  <2>1. /\ UNCHANGED <<project, folders, transaction, plan, marks, pending,
                       terminal>>
        /\ step = "recover"
        /\ step' \notin {"install", "mark_installed", "write_terminal",
                        "write_pending"}
        /\ Unfinished /\ step' = "open_terminal" => marks \cap Marks = {}
    BY <1>6 DEF Recover, RecoverByMarks, Goto, Loop, Unfinished
  <2>2. marks \cap Marks = {} => marks = {}
    BY DEF Inv, Base, Types, PhaseTypes
  <2>3. Unfinished /\ marks = {} => plan.folders \cap folders = {}
    BY DEF Inv, FolderPlan
  <2> QED BY <2>1, <2>2, <2>3
          DEF Grounded, Active, Unfinished, Filling, Ending
<1>7. ASSUME BackedUp \/ Installed \/ MovedBack \/ BackupRestored
      PROVE  Grounded
  BY <1>7
  DEF BackedUp, Installed, MovedBack, BackupRestored, SyncTouched, Goto,
      Grounded, Active, Unfinished, Filling, Ending
<1>8. ASSUME NEW f \in todo, InstallConflict(f) \/ RestoreBackupConflict(f)
      PROVE  Grounded
  BY <1>8
  DEF InstallConflict, RestoreBackupConflict, Goto, Grounded, Active,
      Unfinished, Filling, Ending
<1>9. ASSUME NEW f \in todo,
             BackUp(f) \/ Install(f) \/ MoveBack(f) \/ RestoreBackup(f)
      PROVE  Grounded
  <2>1. /\ UNCHANGED <<folders, transaction, plan, marks, pending, terminal,
                       step>>
        /\ step \in Loops
    BY <1>9, MoversStandStill DEF Inv, Base
  <2>2. terminal = "absent"
    BY <2>1 DEF Inv, Base, Control, Loops, RestoreSteps, RecoverySteps
  <2> QED BY <2>1, <2>2
          DEF Grounded, Active, Unfinished, Filling, Ending, Loops
<1>10. ASSUME RemoveTransaction PROVE Grounded
  BY <1>10
  DEF RemoveTransaction, EmptyTransaction, Goto, Grounded, Active, Unfinished
<1>11. ASSUME NEW folder, MakeFolder(folder) \/ RemoveFolder(folder)
       PROVE  FolderPlan'
  <2>1. /\ UNCHANGED <<project, transaction, plan, marks, pending, terminal,
                       step>>
        /\ step \in {"make_folders", "remove_folders"}
        /\ folder \in plan.folders
    BY <1>11 DEF MakeFolder, RemoveFolder
  <2>2. Active /\ terminal = "absent"
    BY <2>1 DEF Inv, Base, Control, Active, Unfinished, RestoreSteps,
                RecoverySteps
  <2>3. step = "make_folders" => marks = {"backing_up", "installing"}
    BY DEF Inv, Base, Markers
  <2>4. folders' = IF step = "make_folders" THEN folders \cup {folder}
                                            ELSE folders \ {folder}
    BY <1>11 DEF MakeFolder, RemoveFolder
  <2> QED BY <2>1, <2>2, <2>3, <2>4 DEF Inv, FolderPlan, Active, FoldersFor
<1>12. ASSUME NEW c \in Checkpoint, Prepare(c) PROVE FolderPlan'
  BY <1>12, PrepareStages
<1>13. ASSUME NEW f \in todo, Finds(f) PROVE Grounded
  BY <1>13, FindingStandsStill
  DEF Grounded, Active, Unfinished, Filling, Ending
<1> QED BY <1>1, <1>2, <1>3, <1>4, <1>5, <1>6, <1>7, <1>8, <1>9, <1>10, <1>11,
           <1>12, <1>13, GroundedKeeps DEF Advance, Finds

LEMMA OthersGrounded ==
  ASSUME Inv, [Next]_vars, ~Continue PROVE FolderPlan'
<1> USE DEF staged, markers, process
<1>1. ASSUME \/ RestoreRefused \/ PendingFails \/ RestoreFails
             \/ RecoveryFails \/ Kill
      PROVE  Grounded
  <2>1. UNCHANGED <<project, folders, plan>> /\ (Active' => Active)
    BY <1>1
    DEF RestoreRefused, PendingFails, RestoreFails, RecoveryFails, Kill, Goto,
        MarkOf, Active, Unfinished, Inv, Base, Control, Preparing, RestoreSteps,
        RecoverySteps, CleanupSteps
  <2>2. /\ marks \subseteq marks' /\ ~Filling'
        /\ Ending' => Ending
    BY <1>1
    DEF RestoreRefused, PendingFails, RestoreFails, RecoveryFails, Kill, Goto,
        Filling, Ending
  <2> QED BY <2>1, <2>2 DEF Grounded
<1>2. ASSUME PowerLoss PROVE Grounded
  <2>1. /\ UNCHANGED <<folders, transaction, plan, marks, pending, terminal>>
        /\ step' = "idle"
    BY <1>2 DEF PowerLoss, Goto
  <2>2. ASSUME terminal = "partial" PROVE project' = project
    <3>1. step \notin Loops
      BY <2>2 DEF Inv, Base, Control, Loops, RestoreSteps, RecoverySteps
    <3>2. \A f \in File : Possible(f) = {Place(f)}
      BY <3>1, Settled DEF Inv, Base, Possible
    <3>3. \A f \in File : project'[f] = project[f]
      BY <1>2, <3>2, PowerLossLeaves DEF Inv, Base, Place
    <3>4. project \in [File -> Contents] /\ project' \in [File -> Contents]
      BY <1>2, PowerLossLeaves DEF Inv, Base, Types, FileTypes
    <3> QED BY <3>3, <3>4
  <2> QED BY <2>1, <2>2 DEF Grounded, Active, Unfinished, Filling, Ending
<1>3. ASSUME NEW f \in File, ForeignCreate(f) PROVE Grounded
  <2>1. FilesOf(project) \subseteq FilesOf(project')
    BY <1>3, ForeignWrites, NothingAssumption DEF FilesOf, Inv, Base
  <2> QED BY <1>3, <2>1
          DEF ForeignCreate, Grounded, Active, Unfinished, Filling, Ending
<1>4. ASSUME StartRestore \/ ClearStaleTerminal \/ ResetCheckpoints \/ Reopen
      PROVE  Grounded
  BY <1>4
  DEF StartRestore, ClearStaleTerminal, ResetCheckpoints, DestroyStore, Reopen,
      Goto, Grounded, Active, Unfinished, Filling, Ending
<1>5. ASSUME NEW f, NEW content, Edit(f, content) PROVE Grounded
  BY <1>5 DEF Edit, Grounded, Active, Unfinished
<1>6. ASSUME Tear PROVE Grounded
  BY <1>6
  DEF Tear, Grounded, Active, Unfinished, Inv, Base, Control, Preparing
<1>7. ASSUME CalmDown \/ UNCHANGED vars PROVE Grounded
  BY <1>7
  DEF CalmDown, vars, files, Grounded, Active, Unfinished, Filling, Ending
<1> QED BY <1>1, <1>2, <1>3, <1>4, <1>5, <1>6, <1>7, GroundedKeeps
        DEF Next, Fault, User, Recovery

-----------------------------------------------------------------------------
(* What a power loss may still undo.                                       *)
Settling == \A f \in File : older[f] = {} => older'[f] = {}

LEMMA SettlingKeeps ==
  ASSUME Inv, faults' \in {faults, {}}, Settling,
         \/ step \notin Loops \/ ~Powered \/ \A f \in File : older'[f] = {}
         \/ touched' = touched
  PROVE  Durable'
<1>1. Powered' => Powered
  BY DEF Powered, Settling
<1>2. \A f \in File : older'[f] # {} => f \in touched'
  BY Settled DEF Inv, Base, Durable, Settling, Powered
<1> QED BY <1>1, <1>2 DEF Inv, Durable

LEMMA ConflictUnpowered ==
  ASSUME Inv, NEW f \in todo, InstallConflict(f) \/ RestoreBackupConflict(f)
  PROVE  ~Powered
<1>1. step \in Loops /\ project[f] # Nothing
  BY DEF InstallConflict, RestoreBackupConflict, Loops
<1>2. Progress(f) /\ Fits(f, Place(f))
  BY <1>1, Current
<1>3. CASE InstallConflict(f)
  BY <1>1, <1>2, <1>3 DEF InstallConflict, Progress, Clear
<1>4. CASE RestoreBackupConflict(f)
  <2>1. /\ step = "restore_backup" /\ "restoring_backup" \in marks
        /\ backup[f] # Nothing
    BY <1>4 DEF RestoreBackupConflict, Inv, Base, Markers
  <2> QED BY <1>1, <1>2, <2>1, PlaceIs DEF Fits, NothingInstalled, Clear
<1> QED BY <1>3, <1>4

LEMMA FaultsUnpowered ==
  ASSUME Inv, RestoreFails \/ RecoveryFails \/ Kill PROVE ~Powered
BY DEF RestoreFails, RecoveryFails, Kill, Inv, Durable

LEMMA MoversDurable ==
  ASSUME Inv, UNCHANGED faults, NEW f \in todo,
         BackUp(f) \/ Install(f) \/ MoveBack(f) \/ RestoreBackup(f)
  PROVE  Durable'
<1>1. ASSUME Skip(f) PROVE Durable'
  BY <1>1 DEF Skip, Inv, Durable, Powered
<1>2. ASSUME NEW x, NEW y, NEW z, MovesTo(f, x, y, z) PROVE Durable'
  <2>1. Powered' => Powered
    BY <1>2, MovePowered
  <2>2. \A g \in File : older'[g] # {} => g \in touched'
    BY <1>2 DEF MovesTo, Elsewhere, Inv, Durable
  <2> QED BY <2>1, <2>2 DEF Inv, Durable
<1> QED BY <1>1, <1>2, BackUpMoves, InstallMoves, MoveBackMoves,
           RestoreBackupMoves DEF Inv, Base

LEMMA DurableKept ==
  ASSUME Inv, FaultTypes', [Next]_vars PROVE Durable'
<1> USE DEF staged, markers, process
<1>1. faults' \in {faults, {}}
  BY FaultsKept DEF Inv, Base, Types
<1>2. ASSUME UNCHANGED older,
             step \notin Loops \/ ~Powered \/ touched' = touched
      PROVE  Durable'
  BY <1>1, <1>2, SettlingKeeps DEF Settling
<1>3. ASSUME RemoveTransaction \/ ResetCheckpoints PROVE Durable'
  <2>1. EmptyTransaction /\ step \notin Loops
    BY <1>3 DEF RemoveTransaction, ResetCheckpoints, DestroyStore, Loops
  <2> QED BY <1>1, <2>1, EmptyTyped, SettlingKeeps
          DEF Settling, Inv, Base, Types
<1>4. ASSUME BackedUp \/ Installed \/ MovedBack \/ BackupRestored PROVE Durable'
  <2>1. \A f \in File : older'[f] = {}
    BY <1>4, SyncSettles
    DEF BackedUp, Installed, MovedBack, BackupRestored, Inv, Base
  <2> QED BY <1>1, <2>1, SettlingKeeps DEF Settling
<1>5. ASSUME PowerLoss PROVE Durable'
  <2>1. \A f \in File : older'[f] = {}
    BY <1>5 DEF PowerLoss, NeverMoved
  <2> QED BY <1>1, <2>1, SettlingKeeps DEF Settling
<1>6. ASSUME NEW f \in File, NEW content \in Version \cup {Nothing},
             Edit(f, content)
      PROVE  Durable'
  <2>1. Settling /\ touched' = touched
    BY <1>6, EditWrites DEF Settling, Edit, Inv, Base
  <2> QED BY <1>1, <2>1, SettlingKeeps
<1>7. ASSUME NEW f \in File, ForeignCreate(f) PROVE Durable'
  BY <1>2, <1>7 DEF ForeignCreate
<1>8. ASSUME NEW folder, MakeFolder(folder) \/ RemoveFolder(folder)
      PROVE  Durable'
  BY <1>2, <1>8 DEF MakeFolder, RemoveFolder
<1>9. ASSUME NEW f \in todo, InstallConflict(f) \/ RestoreBackupConflict(f)
      PROVE  Durable'
  BY <1>2, <1>9, ConflictUnpowered DEF InstallConflict, RestoreBackupConflict
<1>10. ASSUME NEW c \in Checkpoint, Prepare(c) PROVE Durable'
  BY <1>2, <1>10 DEF Prepare, Loops
<1>11. ASSUME \/ CreateTransaction \/ WritePending \/ MarkBackingUp
              \/ MarkInstalling \/ FoldersMade \/ MarkInstalled
              \/ OpenTerminal \/ WriteTerminal \/ ClearPending \/ ClearTerminal
              \/ Recover \/ RecoveryRefused \/ MarkRollingBack
              \/ MarkRestoringBackup \/ FoldersRemoved
       PROVE  UNCHANGED older /\ step \notin Loops
  BY <1>11
  DEF CreateTransaction, WritePending, MarkBackingUp, MarkInstalling,
      FoldersMade, MarkInstalled, OpenTerminal, WriteTerminal, ClearPending,
      ClearTerminal, Recover, RecoveryRefused, MarkRollingBack,
      MarkRestoringBackup, FoldersRemoved, Mark, Loops
<1>12. CASE Continue
  BY <1>2, <1>3, <1>4, <1>8, <1>9, <1>10, <1>11, <1>12, MoversDurable,
     FindingStandsStill
  DEF Continue, Advance, Finds
<1>13. ASSUME RestoreRefused \/ PendingFails
       PROVE  UNCHANGED older /\ step \notin Loops
  BY <1>13 DEF RestoreRefused, PendingFails, Loops
<1>14. ASSUME RestoreFails \/ RecoveryFails \/ Kill
       PROVE  UNCHANGED older
  BY <1>14 DEF RestoreFails, RecoveryFails, Kill
<1>15. CASE Fault
  BY <1>2, <1>5, <1>7, <1>13, <1>14, <1>15, FaultsUnpowered DEF Fault
<1>16. CASE User
  BY <1>2, <1>3, <1>6, <1>16 DEF User, StartRestore, ClearStaleTerminal, Loops
<1>17. CASE Recovery \/ CalmDown \/ Tear \/ UNCHANGED vars
  BY <1>2, <1>17 DEF Recovery, Reopen, CalmDown, Tear, vars, files, Loops
<1> QED BY <1>12, <1>15, <1>16, <1>17 DEF Next

(* Outside a transaction nothing is staged or backed up.                   *)
LEMMA EmptiesKept ==
  ASSUME Inv, [Next]_vars PROVE Empties'
<1> USE DEF staged, markers, process
<1>1. ASSUME UNCHANGED <<incoming, backup, plan, transaction>>,
             step' \in {"prepare", "write_pending"} => step' = step
      PROVE  Empties'
  BY <1>1 DEF Inv, Empties
<1>2. ASSUME transaction', step' \notin {"prepare", "write_pending"}
      PROVE  Empties'
  BY <1>2 DEF Empties
<1>3. ASSUME NEW c \in Checkpoint, Prepare(c) PROVE Empties'
  BY <1>3, PrepareStages
<1>4. ASSUME RemoveTransaction \/ ResetCheckpoints PROVE Empties'
  BY <1>4
  DEF RemoveTransaction, ResetCheckpoints, DestroyStore, EmptyTransaction,
      Goto, Empties
<1>5. ASSUME CreateTransaction \/ RestoreRefused PROVE Empties'
  BY <1>5
  DEF CreateTransaction, RestoreRefused, Goto, Inv, Base, Control, Empties
<1>6. ASSUME \/ WritePending \/ MarkBackingUp
             \/ MarkInstalling \/ FoldersMade \/ MarkInstalled
             \/ OpenTerminal \/ WriteTerminal \/ ClearPending \/ ClearTerminal
             \/ Recover \/ RecoveryRefused \/ MarkRollingBack
             \/ MarkRestoringBackup \/ FoldersRemoved
             \/ PendingFails \/ RestoreFails \/ RecoveryFails \/ Kill
             \/ StartRestore \/ Reopen
      PROVE  Empties'
  <2>1. UNCHANGED <<incoming, backup, plan, transaction>>
    BY <1>6
    DEF WritePending, MarkBackingUp, MarkInstalling,
        FoldersMade, MarkInstalled, OpenTerminal, WriteTerminal, ClearPending,
        ClearTerminal, Recover, RecoveryRefused, MarkRollingBack,
        MarkRestoringBackup, FoldersRemoved, PendingFails, RestoreFails,
        RecoveryFails, Kill, StartRestore, Reopen, Mark
  <2>2. step' \notin {"prepare", "write_pending"}
    BY <1>6
    DEF WritePending, MarkBackingUp, MarkInstalling,
        FoldersMade, MarkInstalled, OpenTerminal, WriteTerminal, ClearPending,
        ClearTerminal, Recover, RecoverByMarks, RecoveryRefused,
        MarkRollingBack, MarkRestoringBackup, FoldersRemoved, PendingFails,
        RestoreFails, RecoveryFails, Kill, StartRestore, Reopen, Goto, Loop
  <2> QED BY <1>1, <2>1, <2>2
<1>7. ASSUME BackedUp \/ Installed \/ MovedBack \/ BackupRestored PROVE Empties'
  BY <1>1, <1>7
  DEF BackedUp, Installed, MovedBack, BackupRestored, SyncTouched, Goto
<1>8. ASSUME NEW f \in todo, InstallConflict(f) \/ RestoreBackupConflict(f)
      PROVE  Empties'
  BY <1>1, <1>8 DEF InstallConflict, RestoreBackupConflict, Goto
<1>9. ASSUME NEW folder, MakeFolder(folder) \/ RemoveFolder(folder)
      PROVE  Empties'
  BY <1>1, <1>9 DEF MakeFolder, RemoveFolder
<1>10. ASSUME NEW f \in todo,
              BackUp(f) \/ Install(f) \/ MoveBack(f) \/ RestoreBackup(f)
       PROVE  Empties'
  <2>1. UNCHANGED <<transaction, step>> /\ step \in Loops
    BY <1>10, MoversStandStill DEF Inv, Base
  <2>2. transaction
    BY <2>1 DEF Inv, Base, Control, Loops, RestoreSteps, RecoverySteps, HasData
  <2> QED BY <1>2, <2>1, <2>2 DEF Loops
<1>11. ASSUME PowerLoss PROVE Empties'
  <2>1. step' = "idle" /\ transaction' = transaction
    BY <1>11 DEF PowerLoss, Goto
  <2>2. ASSUME ~transaction PROVE incoming' = NoFiles /\ backup' = NoFiles
    <3>1. step \notin Loops /\ incoming = NoFiles /\ backup = NoFiles
      BY <2>2 DEF Inv, Base, Control, Loops, RestoreSteps, RecoverySteps,
                  HasData,
                  Empties
    <3>2. \A f \in File : Possible(f) = {Place(f)}
      BY <3>1, Settled DEF Inv, Base, Possible
    <3>3. \A f \in File : incoming'[f] = Nothing /\ backup'[f] = Nothing
      BY <1>11, <3>1, <3>2, PowerLossLeaves DEF Inv, Base, Place, NoFiles
    <3>4. incoming' \in [File -> Contents] /\ backup' \in [File -> Contents]
      BY <1>11, PowerLossLeaves DEF Inv, Base, FileTypes
    <3> QED BY <3>3, <3>4 DEF NoFiles
  <2> QED BY <2>1, <2>2 DEF Empties
<1>12. ASSUME Tear PROVE Empties'
  BY <1>12 DEF Tear, Empties
<1>13. CASE Continue
  BY <1>1, <1>3, <1>4, <1>5, <1>6, <1>7, <1>8, <1>9, <1>10, <1>13,
     FindingStandsStill
  DEF Continue, Advance, Finds
<1>14. CASE Fault
  BY <1>1, <1>5, <1>6, <1>11, <1>14 DEF Fault, ForeignCreate
<1>15. CASE User
  BY <1>1, <1>4, <1>6, <1>15 DEF User, ClearStaleTerminal, Edit
<1>16. CASE Recovery \/ CalmDown \/ UNCHANGED vars
  BY <1>1, <1>6, <1>16 DEF Recovery, CalmDown, vars, files
<1> QED BY <1>12, <1>13, <1>14, <1>15, <1>16 DEF Next

-----------------------------------------------------------------------------
(* The invariant of restores, and what follows from it.                    *)
LEMMA InitInv == ASSUME PowerAlone, Init PROVE Inv
<1>1. Base
  BY InitBase
<1>2. \A f \in File : older[f] = {}
  BY DEF Init, NeverMoved
<1>3. Durable
  BY <1>2 DEF Init, PowerAlone, Durable, Powered
<1>4. ~Unfinished /\ step = "idle"
  BY DEF Init, Unfinished
<1> QED BY <1>1, <1>3, <1>4
        DEF Inv, Init, Empties, FromCheckpoint, Journal, FolderPlan

LEMMA StepInv == ASSUME Inv, [Next]_vars PROVE Inv'
<1>1. Base'
  BY StepBase DEF Inv
<1>2. Durable' /\ Journal' /\ Empties' /\ FromCheckpoint'
  BY <1>1, DurableKept, JournalKept, EmptiesKept, FromCheckpointKept
  DEF Base, Types
<1>3. FolderPlan'
  BY AdvanceGrounded, OthersGrounded DEF Continue
<1> QED BY <1>1, <1>2, <1>3 DEF Inv

(* The journal of every restore: unless power losses come together with    *)
(* other faults, the markers say for each file of an unfinished restore    *)
(* where it can be, also after a power loss.                               *)
THEOREM Invariance ==
  ASSUME PowerAlone
  PROVE  Spec => []Inv
BY InitInv, StepInv, PTL DEF Spec

(* Once a restore is over, no power loss takes anything of it back.        *)
THEOREM SettledRestoresLast ==
  ASSUME PowerAlone
  PROVE  Spec => []SettledIsDurable
<1>1. Inv => SettledIsDurable
  <2> SUFFICES ASSUME Inv, step = "idle", ~pending,
                      NEW f \in File, NEW place \in older[f]
               PROVE  place.project = project[f]
    BY DEF SettledIsDurable
  <2>1. step \notin Loops
    BY DEF Loops
  <2> QED BY <2>1, Settled DEF Inv, Base
<1> QED BY <1>1, Invariance, PTL

-----------------------------------------------------------------------------
(* A restore happens at once or not at all.                                *)
Housed == FoldersFor(FilesOf(Original)) \subseteq OriginalFolders

LEMMA OriginalOf ==
  ASSUME NEW f \in File
  PROVE  Original[f] =
           IF ~(Unfinished /\ f \in plan.files) THEN project[f]
           ELSE IF f \in vacant THEN backup[f] ELSE OriginalAt(Place(f))
BY PlaceIs DEF Original, OriginalAt

LEMMA OriginalOfNext ==
  ASSUME NEW f \in File
  PROVE  Original'[f] =
           IF ~(Unfinished' /\ f \in plan'.files) THEN project'[f]
           ELSE IF f \in vacant' THEN backup'[f] ELSE OriginalAt(Place(f)')
<1>1. /\ Place(f)'.project = project'[f] /\ Place(f)'.backup = backup'[f]
      /\ Place(f)'.incoming = incoming'[f]
  BY DEF Place
<1> QED BY <1>1 DEF Original, OriginalAt

LEMMA SameOriginal ==
  ASSUME \A f \in File : Original'[f] = Original[f]
  PROVE  Original' = Original /\ FilesOf(Original)' = FilesOf(Original)
         /\ FoldersFor(FilesOf(Original))' = FoldersFor(FilesOf(Original))
<1>1. Original' = Original
  BY DEF Original
<1>2. FilesOf(Original)' = FilesOf(Original)
  BY <1>1 DEF FilesOf
<1> QED BY <1>1, <1>2 DEF FoldersFor

Same == UNCHANGED <<Original, OriginalFolders>>
Refines == [Atomic!Next]_(Atomic!avars)

(* What a step does to the mapped files decides what it is of              *)
(* AtomicRestore: if it leaves them alone, it may reserve or release them. *)
LEMMA SameRefines == ASSUME Same PROVE Refines
<1>1. Reserved \in BOOLEAN /\ Reserved' \in BOOLEAN
  BY DEF Reserved
<1>2. CASE Reserved' = Reserved
  BY <1>2 DEF Same, Refines, Atomic!avars
<1>3. CASE ~Reserved /\ Reserved'
  BY <1>3 DEF Same, Refines, Atomic!Next, Atomic!Reserve
<1>4. CASE Reserved /\ ~Reserved'
  BY <1>4 DEF Same, Refines, Atomic!Next, Atomic!Release
<1> QED BY <1>1, <1>2, <1>3, <1>4

LEMMA SamePlaces ==
  ASSUME \A f \in File : Original'[f] = Original[f],
         UNCHANGED <<folders, plan>>, Unfinished' = Unfinished
  PROVE  Same
<1>1. /\ Original' = Original
      /\ FoldersFor(FilesOf(Original))' = FoldersFor(FilesOf(Original))
  BY SameOriginal
<1>2. OriginalFolders' = OriginalFolders
  BY <1>1 DEF OriginalFolders
<1> QED BY <1>1, <1>2 DEF Same

(* The files and the markers that count stay as they are, and no place is  *)
(* found free, or no longer taken for free, that is not.                   *)
LEMMA StillSame ==
  ASSUME UNCHANGED <<project, incoming, backup, plan, folders>>,
         Unfinished' = Unfinished,
         \A f \in File : \/ f \in vacant <=> f \in vacant'
                        \/ OriginalAt(Place(f)) = backup[f]
  PROVE  Same
<1>1. ASSUME NEW f \in File PROVE Original'[f] = Original[f]
  <2>1. Place(f)' = Place(f)
    BY DEF Place
  <2> QED BY <2>1, OriginalOf, OriginalOfNext
<1> QED BY <1>1, SamePlaces

(* Only a step of one of the two loops goes on between its look and its    *)
(* rename.                                                                 *)
LEMMA NotFinding ==
  ASSUME Inv, step \notin {"install", "restore_backup"} \/ todo = {}
  PROVE  vacant = {}
BY DEF Inv, Base, Types, PlanTypes, Finding

(* A file in a place that was just found free got there since, unless a    *)
(* backup of the file is waiting to go there.                              *)
LEMMA FoundFree ==
  ASSUME Inv, NEW f \in vacant
  PROVE  /\ Unfinished /\ f \in plan.files /\ f \in File /\ f \in todo
         /\ vacant \subseteq {f}
         /\ step = "install" \/ OriginalAt(Place(f)) = backup[f]
         /\ \/ OriginalAt(Place(f)) = backup[f]
            \/ /\ ~Powered /\ project[f] = Theirs /\ backup[f] = Nothing
               /\ OriginalAt(Place(f)) = Theirs
<1>1. /\ f \in todo /\ vacant \subseteq {f} /\ step \in Loops
      /\ step = "install" \/ (step = "restore_backup" /\ backup[f] # Nothing)
  BY DEF Inv, Base, Types, PlanTypes, Finding, Loops
<1>2. /\ Unfinished /\ f \in plan.files /\ f \in File /\ Progress(f)
      /\ OriginalAt(Place(f)) =
           IF backup[f] # Nothing THEN backup[f]
           ELSE IF incoming[f] # Nothing THEN project[f] ELSE Nothing
  BY <1>1, Current
<1>3. CASE step = "install" /\ backup[f] = Nothing
  <2>1. incoming[f] # Nothing /\ Clear(project[f])
    BY <1>1, <1>2, <1>3 DEF Progress
  <2> QED BY <1>1, <1>2, <1>3, <2>1 DEF Clear
<1> QED BY <1>1, <1>2, <1>3

(* No restore is unfinished.                                               *)
LEMMA RestSame ==
  ASSUME UNCHANGED <<project, folders>>, ~Unfinished, ~Unfinished'
  PROVE  Same
<1>1. \A f \in File : Original'[f] = Original[f]
  BY OriginalOf, OriginalOfNext
<1>2. Original' = Original
  BY <1>1, SameOriginal
<1> QED BY <1>2 DEF Same, OriginalFolders

(* Where nothing was moved yet, or everything was moved back, the mapped   *)
(* files are the project's.                                                *)
LEMMA StartSame ==
  ASSUME Inv, step = "write_pending", Unfinished', vacant' = {},
         UNCHANGED <<project, incoming, backup, plan, folders>>
  PROVE  Same
<1>1. ~Unfinished /\ marks = {}
  BY DEF Inv, Base, Control, Preparing, Unfinished
<1>2. ASSUME NEW f \in File PROVE Original'[f] = Original[f]
  <2>1. Original[f] = project[f]
    BY <1>1, OriginalOf
  <2>2. CASE f \in plan.files
    <3>1. backup'[f] = Nothing /\ incoming'[f] # Nothing
      BY <2>2 DEF Inv, Empties, NoFiles
    <3>2. OriginalAt(Place(f)') = project[f]
      BY <3>1 DEF Place, OriginalAt
    <3> QED BY <2>1, <2>2, <3>2, OriginalOfNext
  <2>3. CASE f \notin plan.files
    BY <2>1, <2>3, OriginalOfNext
  <2> QED BY <2>2, <2>3
<1>3. Original' = Original
  BY <1>2, SameOriginal
<1>4. plan.folders \cap folders = {}
  BY <1>1 DEF Inv, FolderPlan
<1>5. OriginalFolders = folders /\ OriginalFolders' = folders
  BY <1>1, <1>4 DEF OriginalFolders
<1> QED BY <1>3, <1>5 DEF Same

LEMMA EndSame ==
  ASSUME Inv, WriteTerminal PROVE Same
<1>1. /\ UNCHANGED <<project, folders>> /\ ~Unfinished'
      /\ step = "write_terminal"
  BY DEF WriteTerminal, Unfinished
<1>2. CASE ~Unfinished
  BY <1>1, <1>2, RestSame
<1>3. CASE Unfinished
  <2>1. ASSUME NEW f \in File PROVE Original[f] = project[f]
    <3>1. CASE f \in plan.files
      <4>1. Fits(f, Place(f)) /\ NothingMoved /\ NothingInstalled
        BY <1>1, <1>3, <3>1, PlaceIs
        DEF Inv, Journal, NothingMoved, NothingInstalled
      <4>2. vacant = {}
        BY <1>1, NotFinding
      <4> QED BY <4>1, <4>2, PlaceIs, OriginalOf DEF Fits, OriginalAt
    <3>2. CASE f \notin plan.files
      BY <3>2, OriginalOf
    <3> QED BY <3>1, <3>2
  <2>2. \A f \in File : Original'[f] = Original[f]
    BY <1>1, <2>1, OriginalOfNext
  <2>3. Original' = Original
    BY <2>2, SameOriginal
  <2>4. FilesOf(Original) = FilesOf(project)
    BY <2>1 DEF FilesOf
  <2>5. plan.folders \cap folders \subseteq FoldersFor(FilesOf(Original))
    BY <1>1, <1>3, <2>4 DEF Inv, FolderPlan
  <2>6. OriginalFolders = folders /\ OriginalFolders' = folders
    BY <1>1, <1>3, <2>5 DEF OriginalFolders
  <2> QED BY <2>3, <2>6 DEF Same
<1> QED BY <1>2, <1>3

(* The "installed" marker is the moment of the restore.                    *)
LEMMA InstalledRestores ==
  ASSUME Inv, step = "mark_installed", "installed" \in marks',
         step' # "idle", UNCHANGED <<project, folders>>
  PROVE  Refines
<1>1. Unfinished /\ ~Unfinished'
  BY DEF Unfinished, Inv, Base, Control, RestoreSteps, RecoverySteps
<1> PICK c \in Checkpoint : Of(c)
  BY <1>1 DEF Inv, FromCheckpoint
<1>2. /\ plan.files = FilesOf(c) /\ plan.files \subseteq File
      /\ \A f \in plan.files : project[f] = c[f]
  <2>1. plan.files = FilesOf(c) /\ plan.files \subseteq File
    BY DEF Of, Inv, Base, Types, PlanTypes
  <2>2. ASSUME NEW f \in plan.files PROVE project[f] = c[f]
    <3>1. incoming[f] = Nothing
      BY <1>1 DEF Inv, Journal, Progress
    <3>2. Staged(c, f, Place(f)) /\ c[f] # Nothing
      BY <2>1, PlaceIs DEF Of, FilesOf
    <3> QED BY <3>1, <3>2, PlaceIs DEF Staged
  <2> QED BY <2>1, <2>2
<1>3. \A f \in File : Original'[f] = project[f]
  BY <1>1, OriginalOfNext
<1>4. \A f \in File \ plan.files : Original[f] = project[f]
  BY OriginalOf
<1>5. Original' = [f \in File |->
                     IF f \in FilesOf(c) THEN c[f] ELSE Original[f]]
  <2>1. Original' = [f \in File |-> Original'[f]]
    BY DEF Original
  <2>2. \A f \in File :
          Original'[f] = IF f \in FilesOf(c) THEN c[f] ELSE Original[f]
    BY <1>2, <1>3, <1>4
  <2> QED BY <2>1, <2>2
<1>6. OriginalFolders' = OriginalFolders \cup FoldersFor(FilesOf(c))
  <2>1. OriginalFolders' = folders
    BY <1>1 DEF OriginalFolders
  <2>2. /\ plan.folders \subseteq FoldersFor(plan.files)
        /\ FoldersFor(plan.files) \subseteq folders \cup plan.folders
        /\ plan.folders \subseteq folders
    BY <1>1 DEF Inv, FolderPlan
  <2>3. OriginalFolders = folders \ (plan.folders \ FoldersFor(FilesOf(Original)))
    BY <1>1 DEF OriginalFolders
  <2> QED BY <1>2, <2>1, <2>2, <2>3
<1>7. Reserved /\ Reserved'
  BY DEF Reserved
<1> QED BY <1>5, <1>6, <1>7
        DEF Refines, Atomic!Next, Atomic!Restore, Atomic!FilesOf,
            Atomic!FoldersFor, FilesOf, FoldersFor

(* A rename changes where a file is, not what it was.                      *)
LEMMA MoveSame ==
  ASSUME Unfinished, NEW f, NEW x, NEW y, NEW z, MovesTo(f, x, y, z),
         vacant \subseteq {f},
         \/ z # Nothing /\ incoming[f] # Nothing /\
            \/ /\ backup[f] = Nothing /\ y = project[f] /\ y # Nothing
               /\ f \notin vacant
            \/ backup[f] # Nothing /\ y = Nothing /\ x = backup[f]
         \/ y = backup[f] /\
            \/ incoming[f] = Nothing /\ x = Nothing /\ f \notin vacant
            \/ z = Nothing /\ f \in vacant
  PROVE  Same
<1> PICK n : n = [project |-> x, backup |-> y, incoming |-> z]
  OBVIOUS
<1>1. /\ Place(f)' = n /\ n.project = x /\ n.backup = y /\ n.incoming = z
      /\ \A g \in File \ {f} : Place(g)' = Place(g)
  BY PlacesAfter
<1>2. /\ UNCHANGED <<folders, plan>> /\ Unfinished' = Unfinished
      /\ f \in plan.files /\ vacant' = {}
      /\ \A g \in File \ {f} : project'[g] = project[g]
  BY DEF MovesTo, Elsewhere, Unfinished
<1>3. OriginalAt(n) = IF f \in vacant THEN backup[f] ELSE OriginalAt(Place(f))
  BY <1>1, PlaceIs DEF OriginalAt
<1>4. ASSUME NEW g \in File PROVE Original'[g] = Original[g]
  <2>1. CASE g = f
    BY <1>1, <1>2, <1>3, <2>1, OriginalOf, OriginalOfNext
  <2>2. CASE g # f
    BY <1>1, <1>2, <2>2, OriginalOf, OriginalOfNext
  <2> QED BY <2>1, <2>2
<1> QED BY <1>2, <1>4, SamePlaces

LEMMA MoversSame ==
  ASSUME Inv, NEW f \in todo,
         BackUp(f) \/ Install(f) \/ MoveBack(f) \/ RestoreBackup(f)
  PROVE  Same
<1>1. step \in Loops
  BY MoversStandStill DEF Inv, Base
<1>2. Unfinished /\ Progress(f) /\ Fits(f, Place(f))
  BY <1>1, Current
<1>3. ASSUME Skip(f) PROVE Same
  BY <1>3, StillSame DEF Skip, staged, markers, Unfinished
<1>4. ASSUME step \notin {"install", "restore_backup"} PROVE vacant = {}
  BY <1>4, NotFinding
<1>5. ASSUME f \in vacant PROVE vacant \subseteq {f}
  BY <1>5, FoundFree
<1>6. CASE BackUp(f)
  <2>1. step = "back_up" /\ marks = {"backing_up"}
    BY <1>6 DEF BackUp, Inv, Base, Markers
  <2>2. incoming[f] # Nothing /\ backup[f] = Nothing
    BY <1>2, <2>1, PlaceIs DEF Fits, Progress, NothingInstalled
  <2>3. vacant = {}
    BY <1>4, <2>1
  <2> QED BY <1>2, <1>3, <1>6, <2>2, <2>3, BackUpMoves, MoveSame DEF Inv, Base
<1>7. CASE Install(f)
  BY <1>2, <1>7, <1>5, InstallMoves, MoveSame DEF Inv, Base
<1>8. CASE MoveBack(f)
  <2>1. vacant = {}
    BY <1>8, <1>4 DEF MoveBack
  <2> QED BY <1>2, <1>3, <1>8, <2>1, MoveBackMoves, MoveSame DEF Inv, Base
<1>9. CASE RestoreBackup(f)
  <2>1. step = "restore_backup" /\ "restoring_backup" \in marks
    BY <1>9 DEF RestoreBackup, Inv, Base, Markers
  <2>2. incoming[f] # Nothing
    BY <1>2, <2>1, PlaceIs DEF Fits, NothingInstalled
  <2> QED BY <1>2, <1>3, <1>9, <1>5, <2>2, RestoreBackupMoves, MoveSame
          DEF Inv, Base
<1> QED BY <1>6, <1>7, <1>8, <1>9

LEMMA PowerLossSame ==
  ASSUME Inv, PowerLoss PROVE Same
<1>1. /\ UNCHANGED <<folders, plan>> /\ Unfinished' = Unfinished
      /\ vacant' = {} /\ Powered
  BY DEF PowerLoss, Goto, markers, Unfinished, Powered
<1>2. ASSUME NEW f \in File PROVE Original'[f] = Original[f]
  <2>1. PICK p \in Possible(f) : /\ project'[f] = p.project
                                 /\ backup'[f] = p.backup
                                 /\ incoming'[f] = p.incoming
    BY PowerLossLeaves DEF Inv, Base
  <2>2. CASE Unfinished /\ f \in plan.files
    <3>1. OriginalAt(p) = OriginalAt(Place(f))
      BY <2>2 DEF Inv, Journal, Fits
    <3>2. OriginalAt(Place(f)') = OriginalAt(p)
      BY <2>1 DEF Place, OriginalAt
    <3>3. f \in vacant => OriginalAt(Place(f)) = backup[f]
      BY <1>1, FoundFree
    <3> QED BY <1>1, <2>2, <3>1, <3>2, <3>3, OriginalOf, OriginalOfNext
  <2>3. CASE ~(Unfinished /\ f \in plan.files)
    <3>1. step \notin Loops \/ f \notin touched
      BY <2>3
      DEF Inv, Base, Types, PlanTypes, Control, Loops, RestoreSteps,
          RecoverySteps, Unfinished
    <3>2. older[f] = {}
      BY <3>1, Settled DEF Inv, Base, Durable
    <3>3. project'[f] = project[f]
      BY <2>1, <3>2, PlaceIs DEF Possible
    <3> QED BY <1>1, <2>3, <3>3, OriginalOf, OriginalOfNext
  <2> QED BY <2>2, <2>3
<1> QED BY <1>1, <1>2, SamePlaces

(* Folders are made for files to be installed, and removed when empty.     *)
LEMMA FoldersSame ==
  ASSUME Inv, Housed, NEW folder, MakeFolder(folder) \/ RemoveFolder(folder)
  PROVE  Same
<1> DEFINE Kept == FoldersFor(FilesOf(Original))
<1>1. /\ UNCHANGED <<project, incoming, backup, plan, transaction, marks,
                     pending, terminal, step>>
      /\ step \in {"make_folders", "remove_folders"} /\ folder \in plan.folders
  BY DEF MakeFolder, RemoveFolder, staged, markers, process
<1>2. vacant = {} /\ vacant' = {}
  BY <1>1, NotFinding DEF MakeFolder, RemoveFolder, process
<1>3. Unfinished /\ Unfinished'
  BY <1>1 DEF Inv, Base, Control, Unfinished, RestoreSteps, RecoverySteps
<1>4. \A f \in File : Original'[f] = Original[f]
  <2>1. \A f \in File : Place(f)' = Place(f)
    BY <1>1 DEF Place
  <2> QED BY <1>1, <1>3, <1>2, <2>1, OriginalOf, OriginalOfNext
<1>5. Original' = Original /\ Kept' = Kept
  BY <1>4, SameOriginal
<1>6. folder \notin Kept
  <2>1. CASE MakeFolder(folder)
    BY <2>1 DEF MakeFolder, Housed, OriginalFolders
  <2>2. CASE RemoveFolder(folder)
    <3>1. ASSUME NEW f \in File PROVE Original[f] = project[f]
      <4>1. CASE f \in plan.files
        <5>1. Fits(f, Place(f)) /\ NothingMoved /\ NothingInstalled
          BY <1>3, <2>2, <4>1, PlaceIs
          DEF RemoveFolder, Inv, Journal, NothingMoved, NothingInstalled
        <5> QED BY <1>2, <5>1, PlaceIs, OriginalOf DEF Fits, OriginalAt
      <4>2. CASE f \notin plan.files
        BY <4>2, OriginalOf
      <4> QED BY <4>1, <4>2
    <3>2. FilesOf(Original) = FilesOf(project)
      BY <3>1 DEF FilesOf
    <3> QED BY <2>2, <3>2 DEF RemoveFolder, Empty, FoldersFor
  <2> QED BY <2>1, <2>2
<1>7. /\ OriginalFolders = folders \ (plan.folders \ Kept)
      /\ OriginalFolders' = folders' \ (plan.folders \ Kept)
  BY <1>1, <1>3, <1>5 DEF OriginalFolders
<1>8. folders' \in {folders \cup {folder}, folders \ {folder}}
  BY DEF MakeFolder, RemoveFolder
<1> QED BY <1>1, <1>5, <1>6, <1>7, <1>8 DEF Same

(* One file of a map of files changes.                                     *)
LEMMA OneFolderMore ==
  ASSUME NEW a, NEW b, NEW f \in File,
         \A g \in File \ {f} : b[g] = a[g]
  PROVE  /\ b[f] # Nothing => FilesOf(b) = FilesOf(a) \cup {f}
         /\ FoldersFor(FilesOf(b)) \subseteq
              FoldersFor(FilesOf(a)) \cup
                (IF b[f] = Nothing THEN {} ELSE FoldersFor({f}))
         /\ b[f] # Nothing =>
              FoldersFor(FilesOf(b)) = FoldersFor(FilesOf(a)) \cup FoldersFor({f})
              \/ a[f] # Nothing
BY DEF FilesOf, FoldersFor

LEMMA FilesOfNext ==
  /\ FilesOf(Original)' = FilesOf(Original')
  /\ FoldersFor(FilesOf(Original))' = FoldersFor(FilesOf(Original'))
BY DEF FilesOf, FoldersFor

(* Another program's file changes what was there before ...                *)
LEMMA ForeignAppears ==
  ASSUME NEW f \in File, Original[f] = Nothing, Original'[f] = Theirs,
         \A g \in File \ {f} : Original'[g] = Original[g],
         UNCHANGED <<folders, plan>>, Unfinished' = Unfinished,
         FolderOf[f] \in folders \cup {Top}, UNCHANGED Reserved
  PROVE  Refines
<1>1. Original' = [Original EXCEPT ![f] = Theirs]
  BY DEF Original
<1>2. FoldersFor(FilesOf(Original')) =
        FoldersFor(FilesOf(Original)) \cup FoldersFor({f})
  BY OneFolderMore, NothingAssumption
<1>3. FoldersFor({f}) \subseteq folders
  BY DEF FoldersFor
<1>4. OriginalFolders' = OriginalFolders \cup FoldersFor({f})
  <2>1. CASE Unfinished
    <3>1. /\ OriginalFolders =
               folders \ (plan.folders \ FoldersFor(FilesOf(Original)))
          /\ OriginalFolders' =
               folders \ (plan.folders \ FoldersFor(FilesOf(Original')))
      BY <2>1, FilesOfNext DEF OriginalFolders
    <3> QED BY <1>2, <1>3, <3>1
  <2>2. CASE ~Unfinished
    BY <1>3, <2>2 DEF OriginalFolders
  <2> QED BY <2>1, <2>2
<1>5. Atomic!Foreign(f)
  BY <1>1, <1>4 DEF Atomic!Foreign, Atomic!FoldersFor, FoldersFor
<1> QED BY <1>5 DEF Refines, Atomic!Next

(* ... or is in the way, or will be replaced.                              *)
LEMMA ForeignRefines ==
  ASSUME Inv, UNCHANGED faults, NEW f \in File, ForeignCreate(f)
  PROVE  Refines
<1>1. /\ UNCHANGED <<folders, incoming, backup, plan, transaction, marks,
                     pending, terminal, step, vacant>>
      /\ project[f] = Nothing /\ project'[f] = Theirs
      /\ \A g \in File \ {f} : project'[g] = project[g]
      /\ FolderOf[f] \in folders \cup {Top}
  BY ForeignWrites DEF ForeignCreate, staged, markers, process, Inv, Base
<1>2. Unfinished' = Unfinished
  BY <1>1 DEF Unfinished
<1>3. ASSUME NEW g \in File \ {f} PROVE Original'[g] = Original[g]
  <2>1. Place(g)' = Place(g)
    BY <1>1 DEF Place
  <2> QED BY <1>1, <1>2, <2>1, OriginalOf, OriginalOfNext
<1>4. CASE Original'[f] = Original[f]
  BY <1>1, <1>2, <1>3, <1>4, SamePlaces, SameRefines
<1>5. CASE Original'[f] # Original[f]
  <2>1. Original[f] = Nothing /\ Original'[f] = Theirs
    <3>1. CASE Unfinished /\ f \in plan.files
      <4>1. /\ OriginalAt(Place(f)) =
                 IF backup[f] # Nothing THEN backup[f] ELSE Nothing
            /\ OriginalAt(Place(f)') =
                 IF backup[f] # Nothing THEN backup[f]
                 ELSE IF incoming[f] # Nothing THEN Theirs ELSE Nothing
        BY <1>1 DEF OriginalAt, Place
      <4> QED BY <1>1, <1>2, <1>5, <3>1, <4>1, OriginalOf, OriginalOfNext
    <3>2. CASE ~(Unfinished /\ f \in plan.files)
      BY <1>1, <1>2, <3>2, OriginalOf, OriginalOfNext
    <3> QED BY <3>1, <3>2
  <2>2. UNCHANGED Reserved
    BY <1>1 DEF Reserved
  <2> QED BY <1>1, <1>2, <1>3, <2>1, <2>2, ForeignAppears
<1> QED BY <1>4, <1>5

(* A restore that ends between a look and its rename leaves what has come  *)
(* there since.                                                            *)
LEMMA StopRefines ==
  ASSUME Inv, UNCHANGED <<project, incoming, backup, plan, folders>>,
         Unfinished' = Unfinished, vacant' = {},
         step = "install" => UNCHANGED pending
  PROVE  Refines
<1>1. CASE \A f \in vacant : OriginalAt(Place(f)) = backup[f]
  BY <1>1, StillSame, SameRefines
<1>2. ASSUME NEW f \in vacant, OriginalAt(Place(f)) # backup[f]
      PROVE  Refines
  <2>1. /\ Unfinished /\ f \in plan.files /\ f \in File
        /\ vacant \subseteq {f} /\ step = "install"
        /\ backup[f] = Nothing /\ OriginalAt(Place(f)) = Theirs
    BY <1>2, FoundFree
  <2>2. ASSUME NEW g \in File PROVE Place(g)' = Place(g)
    BY DEF Place
  <2>3. Original[f] = Nothing /\ Original'[f] = Theirs
    BY <1>2, <2>1, <2>2, OriginalOf, OriginalOfNext
  <2>4. ASSUME NEW g \in File \ {f} PROVE Original'[g] = Original[g]
    BY <2>1, <2>2, OriginalOf, OriginalOfNext
  <2>5. FolderOf[f] \in folders \cup {Top}
    <3>1. /\ FoldersFor(plan.files) \subseteq folders \cup plan.folders
          /\ plan.folders \subseteq folders
      BY <2>1 DEF Inv, FolderPlan
    <3> QED BY <2>1, <3>1 DEF FoldersFor
  <2>6. UNCHANGED Reserved
    BY <2>1 DEF Reserved, Unfinished
  <2> QED BY <2>1, <2>3, <2>4, <2>5, <2>6, ForeignAppears
<1> QED BY <1>1, <1>2

LEMMA EditRefines ==
  ASSUME Inv, NEW f \in File, NEW content \in Version \cup {Nothing},
         Edit(f, content)
  PROVE  Refines
<1>1. /\ ~Unfinished /\ ~Unfinished' /\ ~Reserved /\ ~Reserved'
      /\ project'[f] = content
      /\ \A g \in File \ {f} : project'[g] = project[g]
      /\ folders' = folders \cup
           (IF content = Nothing THEN {} ELSE FoldersFor({f}))
  BY EditWrites DEF Edit, markers, process, Unfinished, Reserved, Inv, Base
<1>2. \A g \in File : Original[g] = project[g] /\ Original'[g] = project'[g]
  BY <1>1, OriginalOf, OriginalOfNext
<1>3. Original' = [Original EXCEPT ![f] = content]
  BY <1>1, <1>2 DEF Original
<1>4. /\ OriginalFolders = folders /\ OriginalFolders' = folders'
  BY <1>1 DEF OriginalFolders
<1>5. UNCHANGED Reserved
  BY <1>1 DEF Reserved
<1>6. Atomic!Edit(f, content)
  BY <1>1, <1>3, <1>4, <1>5 DEF Atomic!Edit, Atomic!FoldersFor, FoldersFor
<1> QED BY <1>6 DEF Refines, Atomic!Next

(* What AtomicRestore does keeps every file's folder.                      *)
LEMMA HousedKept ==
  ASSUME Housed, Refines PROVE Housed'
<1> SUFFICES FoldersFor(FilesOf(Original')) \subseteq OriginalFolders'
  BY FilesOfNext DEF Housed
<1>1. ASSUME UNCHANGED <<Original, OriginalFolders>>
      PROVE  FoldersFor(FilesOf(Original')) \subseteq OriginalFolders'
  BY <1>1 DEF Housed
<1>2. ASSUME NEW f \in File, NEW content,
             Original' = [Original EXCEPT ![f] = content],
             OriginalFolders' = OriginalFolders \cup
               (IF content = Nothing THEN {} ELSE FoldersFor({f}))
      PROVE  FoldersFor(FilesOf(Original')) \subseteq OriginalFolders'
  <2>1. /\ Original'[f] = content
        /\ \A g \in File \ {f} : Original'[g] = Original[g]
    BY <1>2 DEF Original
  <2>2. FoldersFor(FilesOf(Original')) \subseteq
          FoldersFor(FilesOf(Original)) \cup
            (IF Original'[f] = Nothing THEN {} ELSE FoldersFor({f}))
    BY <2>1, OneFolderMore
  <2> QED BY <1>2, <2>1, <2>2 DEF Housed
<1>3. ASSUME NEW f \in File, Atomic!Foreign(f)
      PROVE  FoldersFor(FilesOf(Original')) \subseteq OriginalFolders'
  BY <1>2, <1>3, NothingAssumption
  DEF Atomic!Foreign, Atomic!FoldersFor, FoldersFor
<1>4. ASSUME NEW f \in File, NEW content, Atomic!Edit(f, content)
      PROVE  FoldersFor(FilesOf(Original')) \subseteq OriginalFolders'
  BY <1>2, <1>4 DEF Atomic!Edit, Atomic!FoldersFor, FoldersFor
<1>5. ASSUME NEW c \in Checkpoint, Atomic!Restore(c)
      PROVE  FoldersFor(FilesOf(Original')) \subseteq OriginalFolders'
  <2>1. /\ Original' = [f \in File |->
                          IF f \in FilesOf(c) THEN c[f] ELSE Original[f]]
        /\ OriginalFolders' = OriginalFolders \cup FoldersFor(FilesOf(c))
    BY <1>5
    DEF Atomic!Restore, Atomic!FilesOf, Atomic!FoldersFor, FilesOf, FoldersFor
  <2>2. FilesOf(Original') \subseteq FilesOf(Original) \cup FilesOf(c)
    BY <2>1 DEF FilesOf
  <2> QED BY <2>1, <2>2 DEF Housed, FoldersFor
<1> QED BY <1>1, <1>3, <1>4, <1>5
        DEF Refines, Atomic!Next, Atomic!avars, Atomic!Reserve, Atomic!Release

(* The files put together from where the restore has moved them are those  *)
(* of AtomicRestore, through every step.                                   *)
LEMMA AdvanceRefines ==
  ASSUME Inv, Housed, Advance, UNCHANGED faults PROVE Refines
<1> USE DEF staged, markers, process
<1>1. ASSUME RemoveTransaction \/ CreateTransaction \/ ClearPending
               \/ ClearTerminal
      PROVE  Same
  <2>1. UNCHANGED <<project, folders>>
    BY <1>1
    DEF RemoveTransaction, CreateTransaction, ClearPending, ClearTerminal
  <2>2. step \in Preparing \cup {"remove", "clear_pending", "clear_terminal"}
    BY <1>1
    DEF RemoveTransaction, CreateTransaction, ClearPending, ClearTerminal,
        Preparing
  <2>3. ~pending \/ terminal = "complete"
    BY <2>2 DEF Inv, Base, Control
  <2>4. (pending' => pending) /\ terminal' \in {terminal, "absent"}
        /\ (terminal' # terminal => ~pending')
    BY <1>1
    DEF RemoveTransaction, CreateTransaction, ClearPending, ClearTerminal, Inv,
        Base, Control
  <2>5. ~Unfinished /\ ~Unfinished'
    BY <2>3, <2>4 DEF Unfinished
  <2> QED BY <2>1, <2>5, RestSame
<1>2. ASSUME NEW c \in Checkpoint, Prepare(c) PROVE Same
  BY <1>2, RestSame DEF Prepare, Unfinished, Inv, Base, Control, Preparing
<1>3. ASSUME WritePending PROVE Same
  <2>1. /\ UNCHANGED <<project, incoming, backup, plan, folders>> /\ Unfinished'
        /\ step = "write_pending" /\ vacant' = {}
    BY <1>3 DEF WritePending, Goto, Unfinished, Inv, Base, Control, Preparing
  <2> QED BY <2>1, StartSame
<1>4. ASSUME \/ MarkBackingUp \/ MarkInstalling \/ MarkRollingBack
             \/ MarkRestoringBackup
      PROVE  Same
  <2>1. UNCHANGED <<project, incoming, backup, plan, folders>>
    BY <1>4 DEF MarkBackingUp, MarkInstalling, MarkRollingBack,
                MarkRestoringBackup, Mark
  <2>2. Unfinished' = Unfinished
    BY <1>4 DEF MarkBackingUp, MarkInstalling, MarkRollingBack,
                MarkRestoringBackup, Mark, Unfinished
  <2>3. vacant = {} /\ vacant' = {}
    BY <1>4, NotFinding DEF MarkBackingUp, MarkInstalling, MarkRollingBack,
                            MarkRestoringBackup, Goto, Loop
  <2> QED BY <2>1, <2>2, <2>3, StillSame
<1>5. ASSUME BackedUp \/ Installed \/ MovedBack \/ BackupRestored PROVE Same
  <2>1. UNCHANGED <<project, incoming, backup, plan, folders>>
    BY <1>5 DEF BackedUp, Installed, MovedBack, BackupRestored, SyncTouched
  <2>2. Unfinished' = Unfinished
    BY <1>5 DEF BackedUp, Installed, MovedBack, BackupRestored, SyncTouched,
                Unfinished
  <2>3. vacant = {} /\ vacant' = {}
    BY <1>5, NotFinding DEF BackedUp, Installed, MovedBack, BackupRestored,
                            SyncTouched, Goto
  <2> QED BY <2>1, <2>2, <2>3, StillSame
<1>6. ASSUME \/ FoldersMade \/ OpenTerminal \/ Recover \/ RecoveryRefused
             \/ FoldersRemoved
      PROVE  Same
  <2>1. UNCHANGED <<project, incoming, backup, plan, folders>>
    BY <1>6 DEF FoldersMade, OpenTerminal, Recover, RecoveryRefused,
                FoldersRemoved
  <2>2. Unfinished' = Unfinished
    BY <1>6 DEF FoldersMade, OpenTerminal, Recover, RecoveryRefused,
                FoldersRemoved, Unfinished
  <2>3. vacant = {} /\ vacant' = {}
    BY <1>6, NotFinding DEF FoldersMade, OpenTerminal, Recover, RecoverByMarks,
                            RecoveryRefused, FoldersRemoved, Goto, Loop
  <2> QED BY <2>1, <2>2, <2>3, StillSame
<1>7. ASSUME NEW f \in todo, InstallConflict(f) \/ RestoreBackupConflict(f)
      PROVE  Same
  <2>1. UNCHANGED <<project, incoming, backup, plan, folders>>
    BY <1>7 DEF InstallConflict, RestoreBackupConflict
  <2>2. Unfinished' = Unfinished
    BY <1>7 DEF InstallConflict, RestoreBackupConflict, Unfinished
  <2>3. vacant = {} /\ vacant' = {}
    BY <1>7 DEF InstallConflict, RestoreBackupConflict, Goto
  <2> QED BY <2>1, <2>2, <2>3, StillSame
<1>8. ASSUME MarkInstalled PROVE Refines
  <2>1. /\ step = "mark_installed" /\ "installed" \in marks' /\ step' # "idle"
        /\ UNCHANGED <<project, folders>>
    BY <1>8 DEF MarkInstalled, Mark, Goto
  <2> QED BY <2>1, InstalledRestores
<1>9. ASSUME NEW f \in todo, Finds(f) PROVE Same
  <2>1. /\ UNCHANGED <<project, incoming, backup, plan, folders, transaction,
                       marks, pending, terminal>>
        /\ vacant = {} /\ vacant' = {f} /\ project[f] = Nothing
    BY <1>9, FindingStandsStill
  <2>2. OriginalAt(Place(f)) = backup[f]
    BY <2>1, PlaceIs DEF OriginalAt
  <2> QED BY <2>1, <2>2, StillSame DEF Unfinished
<1> QED BY <1>1, <1>2, <1>3, <1>4, <1>5, <1>6, <1>7, <1>8, <1>9, SameRefines,
           EndSame, MoversSame, FoldersSame
        DEF Advance, Finds

LEMMA FaultRefines ==
  ASSUME Inv, Fault, UNCHANGED faults PROVE Refines
<1> USE DEF staged, markers, process
<1>1. ASSUME RestoreRefused PROVE Same
  <2>1. UNCHANGED <<project, folders>>
    BY <1>1 DEF RestoreRefused
  <2>2. ~Unfinished /\ ~Unfinished'
    BY <1>1 DEF RestoreRefused, Unfinished, Inv, Base, Control, Preparing
  <2> QED BY <2>1, <2>2, RestSame
<1>2. ASSUME PendingFails PROVE Same
  <2>1. /\ UNCHANGED <<project, incoming, backup, plan, folders>>
        /\ step = "write_pending" /\ ~Unfinished /\ vacant' = {}
    BY <1>2 DEF PendingFails, Goto, Unfinished, Inv, Base, Control, Preparing
  <2> QED BY <2>1, StartSame, RestSame
<1>3. ASSUME RestoreFails \/ RecoveryFails,
             "installed" \in marks' => "installed" \in marks
      PROVE  Refines
  <2>1. UNCHANGED <<project, incoming, backup, plan, folders>>
    BY <1>3 DEF RestoreFails, RecoveryFails
  <2>2. CASE step \in {"clear_pending", "clear_terminal"}
    <3>1. ~Unfinished /\ ~Unfinished'
      BY <1>3, <2>2
      DEF RestoreFails, RecoveryFails, RestoreSteps, Unfinished, Inv, Base,
          Control
    <3> QED BY <2>1, <3>1, RestSame, SameRefines
  <2>3. CASE step \notin {"clear_pending", "clear_terminal"}
    <3>1. UNCHANGED <<transaction, terminal>> /\ pending' = pending
          /\ marks \subseteq marks'
      BY <1>3, <2>3 DEF RestoreFails, RecoveryFails, Inv, Base, Types,
                        PhaseTypes
    <3>2. Unfinished' = Unfinished
      BY <1>3, <3>1 DEF Unfinished
    <3>3. vacant' = {}
      BY <1>3 DEF RestoreFails, RecoveryFails, Goto
    <3> QED BY <2>1, <3>1, <3>2, <3>3, StopRefines
  <2> QED BY <2>2, <2>3
<1>4. ASSUME RestoreFails \/ RecoveryFails,
             "installed" \in marks', "installed" \notin marks
      PROVE  Refines
  <2>1. step = "mark_installed"
    BY <1>4 DEF RestoreFails, RecoveryFails, MarkOf
  <2>2. step' # "idle" /\ UNCHANGED <<project, folders>>
    BY <1>4, <2>1 DEF RestoreFails, RecoveryFails, RecoverySteps, CleanupSteps,
                      Goto
  <2> QED BY <1>4, <2>1, <2>2, InstalledRestores
<1>5. ASSUME Kill PROVE Refines
  <2>1. UNCHANGED <<project, incoming, backup, plan, folders, pending>>
    BY <1>5 DEF Kill
  <2>2. Unfinished' = Unfinished /\ vacant' = {}
    BY <1>5 DEF Kill, Goto, Unfinished
  <2> QED BY <2>1, <2>2, StopRefines
<1> QED BY <1>1, <1>2, <1>3, <1>4, <1>5, SameRefines, PowerLossSame,
           ForeignRefines
        DEF Fault

LEMMA OthersRefine ==
  ASSUME Inv, [Next]_vars, ~Continue, ~(Fault /\ UNCHANGED faults) PROVE Refines
<1> USE DEF staged, markers, process
<1>1. ASSUME \/ StartRestore \/ ClearStaleTerminal \/ ResetCheckpoints
      PROVE  Same
  <2>1. UNCHANGED <<project, folders>> /\ ~pending /\ ~pending'
    BY <1>1 DEF StartRestore, ClearStaleTerminal, ResetCheckpoints, DestroyStore
  <2> QED BY <2>1, RestSame DEF Unfinished
<1>2. ASSUME Tear PROVE Same
  <2>1. UNCHANGED <<project, folders>>
    BY <1>2 DEF Tear
  <2>2. ~Unfinished /\ ~Unfinished'
    BY <1>2 DEF Tear, Unfinished, Inv, Base, Control, Preparing
  <2> QED BY <2>1, <2>2, RestSame
<1>3. ASSUME Reopen \/ CalmDown \/ UNCHANGED vars PROVE Same
  <2>1. UNCHANGED <<project, incoming, backup, plan, folders>>
    BY <1>3 DEF Reopen, CalmDown, vars, files
  <2>2. Unfinished' = Unfinished
    BY <1>3 DEF Reopen, CalmDown, vars, files, Unfinished
  <2>3. vacant' = vacant
    BY <1>3, NotFinding DEF Reopen, Goto, CalmDown, vars, files
  <2> QED BY <2>1, <2>2, <2>3, StillSame
<1> QED BY <1>1, <1>2, <1>3, SameRefines, EditRefines
        DEF Next, User, Recovery

LEMMA InitRefines ==
  ASSUME Init PROVE Atomic!Init /\ Housed
<1>1. ~Unfinished /\ ~Reserved
  BY DEF Init, Unfinished, Reserved
<1>2. \A f \in File : Original[f] = project[f]
  BY <1>1, OriginalOf
<1>3. Original = project
  BY <1>2 DEF Original, Init
<1>4. OriginalFolders = FoldersFor(FilesOf(Original))
  BY <1>1, <1>3 DEF OriginalFolders, Init
<1>5. Reserved = FALSE
  BY <1>1 DEF Reserved
<1>6. Original \in [File -> Version \cup {Nothing}]
  BY <1>3 DEF Init
<1> QED BY <1>4, <1>5, <1>6
        DEF Housed, Atomic!Init, Atomic!FoldersFor, Atomic!FilesOf, FoldersFor,
            FilesOf

(* A restore happens at once or not at all, whatever is killed, fails or   *)
(* is written by other programs meanwhile, and whatever a power loss takes *)
(* back if nothing else goes wrong with it: every step of a restore or its *)
(* recovery leaves the files a user may see as they are, but the one that  *)
(* writes the "installed" marker, which puts the whole checkpoint there.   *)
(* A file that another program puts into a place just found free counts    *)
(* only if the restore stops before its rename.                            *)
THEOREM RestoresAreAtomic ==
  ASSUME PowerAlone
  PROVE  Spec => RestoreIsAtomic
<1>1. Init => Atomic!Init /\ Inv /\ Housed
  BY InitRefines, InitInv
<1>2. Inv /\ Housed /\ [Next]_vars => Inv' /\ Housed' /\ Refines
  <2> SUFFICES ASSUME Inv, Housed, [Next]_vars PROVE Inv' /\ Housed' /\ Refines
    OBVIOUS
  <2>1. Refines
    BY AdvanceRefines, FaultRefines, OthersRefine DEF Continue
  <2> QED BY <2>1, HousedKept, StepInv
<1> QED BY <1>1, <1>2, PTL DEF Spec, RestoreIsAtomic, Atomic!Spec, Refines

-----------------------------------------------------------------------------
(* No place where another program's file is is taken for free.  Where      *)
(* power may be lost, which could put such a file back, there is none.     *)
Ours(p) == p.project # Theirs /\ p.backup # Theirs /\ p.incoming # Theirs
AllOurs(f) == \A p \in Possible(f) : Ours(p)
NoneTheirs == Powered => \A f \in File : AllOurs(f)

LEMMA OursKept ==
  ASSUME NoneTheirs, faults' \in {faults, {}}, Settling,
         \A f \in File : AllOurs(f) => AllOurs(f)'
  PROVE  NoneTheirs'
<1>1. Powered' => Powered
  BY DEF Settling, Powered
<1> QED BY <1>1 DEF NoneTheirs

LEMMA StayingOurs ==
  ASSUME NoneTheirs, faults' \in {faults, {}},
         UNCHANGED <<project, incoming, backup>>,
         \A f \in File : older'[f] \in {older[f], {}}
  PROVE  NoneTheirs'
<1>1. \A f \in File : Possible(f)' \subseteq Possible(f)
  BY DEF Possible, Place
<1>2. Settling
  BY DEF Settling
<1> QED BY <1>1, <1>2, OursKept DEF AllOurs, Ours

LEMMA MovingOurs ==
  ASSUME NoneTheirs, UNCHANGED faults, NEW f \in File,
         NEW x, NEW y, NEW z, MovesTo(f, x, y, z),
         {x, y, z} \subseteq {project[f], backup[f], incoming[f], Nothing}
  PROVE  NoneTheirs'
<1> PICK n : n = [project |-> x, backup |-> y, incoming |-> z]
  OBVIOUS
<1>1. /\ n.project = x /\ n.backup = y /\ n.incoming = z
      /\ Possible(f)' \subseteq Possible(f) \cup {n}
      /\ \A g \in File \ {f} : Possible(g)' = Possible(g)
  BY PlacesAfter
<1>2. AllOurs(f) => Ours(n)
  BY <1>1, PlaceIs, NothingAssumption DEF AllOurs, Ours
<1>3. \A g \in File : AllOurs(g) => AllOurs(g)'
  BY <1>1, <1>2 DEF AllOurs, Ours
<1>4. Powered' => Powered
  BY MovePowered
<1> QED BY <1>3, <1>4 DEF NoneTheirs

LEMMA MoversOurs ==
  ASSUME Inv, NoneTheirs, UNCHANGED faults, NEW f \in todo,
         BackUp(f) \/ Install(f) \/ MoveBack(f) \/ RestoreBackup(f)
  PROVE  NoneTheirs'
<1>1. f \in File
  BY DEF Inv, Base, Types, PlanTypes
<1>2. ASSUME Skip(f) PROVE NoneTheirs'
  BY <1>2, StayingOurs DEF Skip, staged
<1> QED BY <1>1, <1>2, BackUpMoves, InstallMoves, MoveBackMoves,
           RestoreBackupMoves, MovingOurs DEF Inv, Base

LEMMA PowerLossOurs ==
  ASSUME Inv, NoneTheirs, UNCHANGED faults, PowerLoss PROVE NoneTheirs'
<1>1. ASSUME NEW f \in File, AllOurs(f) PROVE AllOurs(f)'
  <2>1. PICK p \in Possible(f) : /\ project'[f] = p.project
                                 /\ backup'[f] = p.backup
                                 /\ incoming'[f] = p.incoming
    BY PowerLossLeaves DEF Inv, Base
  <2>2. Ours(Place(f))'
    BY <1>1, <2>1 DEF AllOurs, Ours, Place
  <2>3. Possible(f)' = {Place(f)'}
    BY PowerLossLeaves DEF Inv, Base, Possible, NeverMoved
  <2> QED BY <2>2, <2>3 DEF AllOurs, Ours
<1>2. Settling
  BY PowerLossLeaves DEF Inv, Base, Settling, NeverMoved
<1> QED BY <1>1, <1>2, OursKept

(* Files that are staged, or thrown away, are not another program's.       *)
LEMMA StagingOurs ==
  ASSUME Inv, NoneTheirs, faults' \in {faults, {}}, Theirs \notin Version,
         step \notin Loops, Settling, UNCHANGED project,
         \A f \in File :
           /\ backup'[f] \in {backup[f], Nothing}
           /\ incoming'[f] \in Version \cup {incoming[f], Nothing}
  PROVE  NoneTheirs'
<1>1. ASSUME NEW f \in File, AllOurs(f) PROVE AllOurs(f)'
  <2>1. older[f] = {} /\ older'[f] = {}
    BY Settled DEF Inv, Base, Settling
  <2>2. Possible(f)' = {Place(f)'}
    BY <2>1 DEF Possible
  <2>3. Ours(Place(f))
    BY <1>1, PlaceIs DEF AllOurs
  <2>4. Ours(Place(f))'
    BY <2>3, NothingAssumption DEF Ours, Place
  <2> QED BY <2>2, <2>4 DEF AllOurs, Ours
<1> QED BY <1>1, OursKept

LEMMA AdvanceOurs ==
  ASSUME Inv, NoneTheirs, Theirs \notin Version, Advance, UNCHANGED faults
  PROVE  NoneTheirs'
<1> USE DEF staged, markers, process
<1>1. ASSUME UNCHANGED <<project, incoming, backup, older>> PROVE NoneTheirs'
  BY <1>1, StayingOurs
<1>2. ASSUME RemoveTransaction PROVE NoneTheirs'
  <2>1. EmptyTransaction /\ step \notin Loops /\ UNCHANGED project
    BY <1>2 DEF RemoveTransaction, Loops
  <2>2. Settling
    BY <2>1, EmptyTyped DEF Settling, Inv, Base, Types
  <2>3. \A f \in File : backup'[f] = Nothing /\ incoming'[f] = Nothing
    BY <2>1 DEF EmptyTransaction, NoFiles
  <2> QED BY <2>1, <2>2, <2>3, StagingOurs
<1>3. ASSUME NEW c \in Checkpoint, Prepare(c) PROVE NoneTheirs'
  <2>1. /\ UNCHANGED <<project, backup, older>> /\ incoming' = c
        /\ step \notin Loops
    BY <1>3 DEF Prepare, Loops
  <2>2. \A f \in File : incoming'[f] \in Version \cup {Nothing}
    BY <2>1, CheckpointAssumption
  <2> QED BY <2>1, <2>2, StagingOurs DEF Settling
<1>4. ASSUME BackedUp \/ Installed \/ MovedBack \/ BackupRestored
      PROVE  NoneTheirs'
  BY <1>4, SyncSettles, StayingOurs
  DEF BackedUp, Installed, MovedBack, BackupRestored, Inv, Base
<1>5. ASSUME NEW f \in todo, InstallConflict(f) \/ RestoreBackupConflict(f)
      PROVE  UNCHANGED <<project, incoming, backup, older>>
  BY <1>5 DEF InstallConflict, RestoreBackupConflict
<1>6. ASSUME NEW folder, MakeFolder(folder) \/ RemoveFolder(folder)
      PROVE  UNCHANGED <<project, incoming, backup, older>>
  BY <1>6 DEF MakeFolder, RemoveFolder
<1>7. ASSUME \/ CreateTransaction \/ WritePending \/ MarkBackingUp
             \/ MarkInstalling \/ FoldersMade \/ MarkInstalled
             \/ OpenTerminal \/ WriteTerminal \/ ClearPending \/ ClearTerminal
             \/ Recover \/ RecoveryRefused \/ MarkRollingBack
             \/ MarkRestoringBackup \/ FoldersRemoved
      PROVE  UNCHANGED <<project, incoming, backup, older>>
  BY <1>7
  DEF CreateTransaction, WritePending, MarkBackingUp, MarkInstalling,
      FoldersMade, MarkInstalled, OpenTerminal, WriteTerminal, ClearPending,
      ClearTerminal, Recover, RecoveryRefused, MarkRollingBack,
      MarkRestoringBackup, FoldersRemoved, Mark
<1> QED BY <1>1, <1>2, <1>3, <1>4, <1>5, <1>6, <1>7, MoversOurs,
           FindingStandsStill
        DEF Advance, Finds

LEMMA OthersOurs ==
  ASSUME Inv, NoneTheirs, Theirs \notin Version, [Next]_vars, ~Continue
  PROVE  NoneTheirs'
<1> USE DEF staged, markers, process
<1>1. faults' \in {faults, {}}
  BY FaultsKept DEF Inv, Base, Types
<1>2. ASSUME UNCHANGED <<project, incoming, backup, older>> PROVE NoneTheirs'
  BY <1>1, <1>2, StayingOurs
<1>3. ASSUME \/ RestoreRefused \/ PendingFails \/ RestoreFails
             \/ RecoveryFails \/ Kill \/ StartRestore \/ ClearStaleTerminal
             \/ Reopen \/ CalmDown \/ UNCHANGED vars
      PROVE  UNCHANGED <<project, incoming, backup, older>>
  BY <1>3
  DEF RestoreRefused, PendingFails, RestoreFails, RecoveryFails, Kill,
      StartRestore, ClearStaleTerminal, Reopen, CalmDown, vars, files
<1>4. ASSUME NEW f \in File, ForeignCreate(f), UNCHANGED faults
      PROVE  NoneTheirs'
  <2>1. ~Powered /\ UNCHANGED older
    BY <1>4, ForeignUnpowered DEF ForeignCreate
  <2> QED BY <1>4, <2>1 DEF NoneTheirs, Powered
<1>5. ASSUME ResetCheckpoints PROVE NoneTheirs'
  <2>1. EmptyTransaction /\ step \notin Loops /\ UNCHANGED project
    BY <1>5 DEF ResetCheckpoints, DestroyStore, Loops
  <2>2. Settling
    BY <2>1, EmptyTyped DEF Settling, Inv, Base, Types
  <2>3. \A f \in File : backup'[f] = Nothing /\ incoming'[f] = Nothing
    BY <2>1 DEF EmptyTransaction, NoFiles
  <2> QED BY <1>1, <2>1, <2>2, <2>3, StagingOurs
<1>6. ASSUME Tear PROVE NoneTheirs'
  <2>1. /\ step \notin Loops /\ UNCHANGED <<project, older>>
        /\ \A f \in File : /\ backup'[f] \in {backup[f], Nothing}
                           /\ incoming'[f] \in {incoming[f], Nothing}
    BY <1>6 DEF Tear, Loops, NoFiles
  <2> QED BY <1>1, <2>1, StagingOurs DEF Settling
<1>7. ASSUME NEW f \in File, NEW content \in Version \cup {Nothing},
             Edit(f, content)
      PROVE  NoneTheirs'
  <2>1. /\ UNCHANGED <<incoming, backup>> /\ project'[f] = content
        /\ older'[f] = {}
        /\ \A g \in File \ {f} :
             project'[g] = project[g] /\ older'[g] = older[g]
    BY <1>7, EditWrites DEF Inv, Base
  <2>2. \A g \in File \ {f} : Possible(g)' = Possible(g)
    BY <2>1 DEF Possible, Place
  <2>3. AllOurs(f) => AllOurs(f)'
    <3>1. Possible(f)' = {Place(f)'}
      BY <2>1 DEF Possible
    <3>2. AllOurs(f) => Ours(Place(f))
      BY PlaceIs DEF AllOurs
    <3>3. AllOurs(f) => Ours(Place(f))'
      BY <2>1, <3>2, NothingAssumption DEF Ours, Place
    <3> QED BY <3>1, <3>3 DEF AllOurs, Ours
  <2>4. Settling
    BY <2>1 DEF Settling
  <2> QED BY <1>1, <2>2, <2>3, <2>4, OursKept DEF AllOurs, Ours
<1> QED BY <1>2, <1>3, <1>4, <1>5, <1>6, <1>7, PowerLossOurs
        DEF Next, Fault, User, Recovery

(* The step that could replace another program's file finds it in the way, *)
(* moves it to the backup, found its place free before it came there, or   *)
(* is none of the running restore's.                                       *)
Keeps ==
  \A f \in File :
    project[f] = Theirs /\ step # "idle" /\ f \notin vacant
    => /\ f \notin vacant'
       /\ project'[f] = Theirs \/ backup'[f] = Theirs

LEMMA MoversKeep ==
  ASSUME Inv, Theirs \notin Version, NEW f \in todo,
         BackUp(f) \/ Install(f) \/ MoveBack(f) \/ RestoreBackup(f)
  PROVE  Keeps
<1>1. /\ step \in Loops /\ f \in File
  BY MoversStandStill DEF Inv, Base, Types, PlanTypes
<1>2. Unfinished /\ f \in plan.files
  BY <1>1, Current
<1>3. ASSUME Skip(f) PROVE Keeps
  BY <1>3 DEF Skip, Keeps
<1>4. ASSUME NEW x, NEW y, NEW z, MovesTo(f, x, y, z),
             project[f] = Theirs => x = Theirs \/ y = Theirs \/ f \in vacant
      PROVE  Keeps
  BY <1>4 DEF MovesTo, Elsewhere, Keeps
<1>5. CASE BackUp(f)
  BY <1>3, <1>4, <1>5, BackUpMoves DEF Inv, Base
<1>6. CASE Install(f)
  BY <1>4, <1>6, InstallMoves DEF Inv, Base
<1>7. CASE MoveBack(f)
  <2>1. ASSUME incoming[f] = Nothing PROVE project[f] # Theirs
    <3>1. PICK c \in Checkpoint : Of(c)
      BY <1>2 DEF Inv, FromCheckpoint
    <3>2. /\ Staged(c, f, Place(f))
          /\ c[f] # Nothing /\ c[f] \in Version \cup {Nothing}
      BY <1>2, <3>1, PlaceIs, CheckpointAssumption DEF Of, FilesOf
    <3> QED BY <2>1, <3>2, PlaceIs DEF Staged
  <2> QED BY <1>3, <1>4, <1>7, <2>1, MoveBackMoves DEF Inv, Base
<1>8. CASE RestoreBackup(f)
  BY <1>3, <1>4, <1>8, RestoreBackupMoves DEF Inv, Base
<1> QED BY <1>5, <1>6, <1>7, <1>8

LEMMA StepKeeps ==
  ASSUME Inv, NoneTheirs, Theirs \notin Version, [Next]_vars PROVE Keeps
<1> USE DEF staged, markers, process
<1>1. ASSUME UNCHANGED project, vacant' \subseteq vacant PROVE Keeps
  BY <1>1 DEF Keeps
<1>2. ASSUME PowerLoss PROVE Keeps
  <2>1. \A f \in File : project[f] # Theirs
    BY <1>2, PlaceIs DEF PowerLoss, NoneTheirs, Powered, AllOurs, Ours
  <2> QED BY <2>1 DEF Keeps
<1>3. ASSUME NEW f \in File, ForeignCreate(f) PROVE Keeps
  BY <1>3, ForeignWrites DEF ForeignCreate, Keeps, Inv, Base
<1>4. ASSUME NEW f, NEW content, Edit(f, content) PROVE Keeps
  BY <1>4 DEF Edit, Keeps
<1>5. CASE Advance
  <2>1. ASSUME \/ RemoveTransaction \/ CreateTransaction \/ WritePending
               \/ MarkBackingUp \/ BackedUp \/ MarkInstalling \/ FoldersMade
               \/ Installed \/ MarkInstalled \/ OpenTerminal \/ WriteTerminal
               \/ ClearPending \/ ClearTerminal \/ Recover \/ RecoveryRefused
               \/ MarkRollingBack \/ MovedBack \/ MarkRestoringBackup
               \/ BackupRestored \/ FoldersRemoved
        PROVE  UNCHANGED project /\ vacant' \subseteq vacant
    BY <2>1
    DEF RemoveTransaction, CreateTransaction, WritePending, MarkBackingUp,
        BackedUp, MarkInstalling, FoldersMade, Installed, MarkInstalled,
        OpenTerminal, WriteTerminal, ClearPending, ClearTerminal, Recover,
        RecoveryRefused, MarkRollingBack, MovedBack, MarkRestoringBackup,
        BackupRestored, FoldersRemoved, RecoverByMarks, Mark, SyncTouched,
        Goto, Loop
  <2>2. ASSUME NEW c, Prepare(c)
        PROVE  UNCHANGED project /\ vacant' \subseteq vacant
    BY <2>2 DEF Prepare, Goto
  <2>3. ASSUME NEW folder, MakeFolder(folder) \/ RemoveFolder(folder)
        PROVE  UNCHANGED project /\ vacant' \subseteq vacant
    BY <2>3 DEF MakeFolder, RemoveFolder
  <2>4. ASSUME NEW f, InstallConflict(f) \/ RestoreBackupConflict(f)
        PROVE  UNCHANGED project /\ vacant' \subseteq vacant
    BY <2>4 DEF InstallConflict, RestoreBackupConflict, Goto
  <2>5. ASSUME NEW f \in todo, Finds(f) PROVE Keeps
    BY <2>5, FindingStandsStill, NothingAssumption DEF Keeps
  <2> QED BY <1>1, <1>5, <2>1, <2>2, <2>3, <2>4, <2>5, MoversKeep
          DEF Advance, Finds
<1>6. ASSUME \/ RestoreRefused \/ PendingFails \/ RestoreFails
             \/ RecoveryFails \/ Kill \/ StartRestore \/ ClearStaleTerminal
             \/ ResetCheckpoints \/ Reopen \/ CalmDown \/ Tear
             \/ UNCHANGED vars
      PROVE  UNCHANGED project /\ vacant' \subseteq vacant
  BY <1>6
  DEF RestoreRefused, PendingFails, RestoreFails, RecoveryFails, Kill,
      StartRestore, ClearStaleTerminal, ResetCheckpoints, DestroyStore, Reopen,
      CalmDown, Tear, vars, files, Goto
<1> QED BY <1>1, <1>2, <1>3, <1>4, <1>5, <1>6
        DEF Next, Continue, Fault, User, Recovery

(* A running restore, undone or not, replaces no file that another program *)
(* put into the project, except one that came between the look that found  *)
(* its place free and the rename: every other goes to the backup with the  *)
(* rest, or stops the restore, and its place is never taken for free.      *)
THEOREM ForeignFilesAreKept ==
  ASSUME PowerAlone, Theirs \notin Version
  PROVE  Spec => ForeignKept
<1>1. Init => Inv /\ NoneTheirs
  <2>1. ASSUME Init, NEW f \in File PROVE AllOurs(f)
    <3>1. /\ Possible(f) = {Place(f)} /\ backup[f] = Nothing
          /\ incoming[f] = Nothing /\ project[f] \in Version \cup {Nothing}
      BY <2>1 DEF Init, Possible, NoFiles, NeverMoved
    <3>2. Ours(Place(f))
      BY <3>1, PlaceIs, NothingAssumption DEF Ours
    <3> QED BY <3>1, <3>2 DEF AllOurs
  <2> QED BY <2>1, InitInv DEF NoneTheirs
<1>2. Inv /\ NoneTheirs /\ [Next]_vars => Inv' /\ NoneTheirs' /\ [Keeps]_vars
  BY AdvanceOurs, OthersOurs, StepKeeps, StepInv DEF Continue
<1> QED BY <1>1, <1>2, PTL DEF Spec, ForeignKept, Keeps

=============================================================================
