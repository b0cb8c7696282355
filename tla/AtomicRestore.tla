---------------------------- MODULE AtomicRestore ----------------------------
(***************************************************************************)
(* What restoring a checkpoint promises about a project's files, without   *)
(* staging, markers or recovery.  A restore reserves the files; while they *)
(* are reserved nobody edits them, and they change all at once, to those   *)
(* of the checkpoint, or not at all.  Files the checkpoint does not have   *)
(* stay as they are, and no folder is made that no file of it needs.       *)
(* Other programs respect no reservation, but only add files.              *)
(***************************************************************************)
CONSTANTS File, Folder, Top, FolderOf, Version, Nothing, Checkpoint, Theirs

VARIABLES tree, folders, reserved

avars == <<tree, folders, reserved>>

FilesOf(checkpoint) == {f \in File : checkpoint[f] # Nothing}
FoldersFor(files) == {FolderOf[f] : f \in files} \ {Top}

Init ==
  /\ tree \in [File -> Version \cup {Nothing}]
  /\ folders = FoldersFor(FilesOf(tree))
  /\ reserved = FALSE

Edit(f, content) ==
  /\ ~reserved
  /\ tree' = [tree EXCEPT ![f] = content]
  /\ folders' = folders \cup
       (IF content = Nothing THEN {} ELSE FoldersFor({f}))
  /\ UNCHANGED reserved

Reserve == ~reserved /\ reserved' = TRUE /\ UNCHANGED <<tree, folders>>

Restore(checkpoint) ==
  /\ reserved
  /\ tree' = [f \in File |->
                IF f \in FilesOf(checkpoint) THEN checkpoint[f] ELSE tree[f]]
  /\ folders' = folders \cup FoldersFor(FilesOf(checkpoint))
  /\ UNCHANGED reserved

Release == reserved /\ reserved' = FALSE /\ UNCHANGED <<tree, folders>>

Foreign(f) ==
  /\ tree[f] = Nothing
  /\ tree' = [tree EXCEPT ![f] = Theirs]
  /\ folders' = folders \cup FoldersFor({f})
  /\ UNCHANGED reserved

Next ==
  \/ \E f \in File, content \in Version \cup {Nothing} : Edit(f, content)
  \/ \E f \in File : Foreign(f)
  \/ Reserve \/ Release
  \/ \E checkpoint \in Checkpoint : Restore(checkpoint)

Spec == Init /\ [][Next]_avars
=============================================================================
