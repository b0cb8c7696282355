------------------------ MODULE MCRestoreTransaction ------------------------
(***************************************************************************)
(* Two files, one of them in a folder; a checkpoint that has both and one  *)
(* that has only the file in the folder, so that a restore replaces files, *)
(* creates one, leaves one alone, and has to make and remove a folder.     *)
(***************************************************************************)
EXTENDS RestoreTransaction, TLC

CONSTANTS f1, f2, d1, v1, v2

MCFolderOf == f1 :> Top @@ f2 :> d1
MCCheckpoints ==
  { f1 :> v1 @@ f2 :> v1, f1 :> Nothing @@ f2 :> v2 }
=============================================================================
