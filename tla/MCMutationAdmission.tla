------------------------- MODULE MCMutationAdmission -------------------------
(***************************************************************************)
(* Four commands on a project with a document and a folder: writing a      *)
(* chapter, deleting the folder, importing into the folder (announced as   *)
(* the whole project), and writing the document.                           *)
(***************************************************************************)
EXTENDS MutationAdmission, TLC

CONSTANTS w1, w2, write, delete, import, save

File(path) == [path |-> path, descendants |-> FALSE]
Subtree(path) == [path |-> path, descendants |-> TRUE]

Main == File(<<"main">>)
Chapter == File(<<"chapters", "one">>)
Folder == Subtree(<<"chapters">>)
Project == Subtree(<<>>)
Scopes == {Main, Chapter, Folder, Project}

Announces ==
  write :> {Chapter} @@ delete :> {Folder} @@ import :> {Project}
  @@ save :> {Main}
Commits ==
  write :> {Chapter} @@ delete :> {Folder} @@ import :> {Folder}
  @@ save :> {Main}
Owners == write :> w1 @@ delete :> w2 @@ import :> w1 @@ save :> w2
Announces3 == [m \in Mutation |-> Announces[m]]
Commits3 == [m \in Mutation |-> Commits[m]]
OneOwner == [m \in Mutation |-> w1]
Owners3 == [m \in Mutation |-> Owners[m]]
=============================================================================
