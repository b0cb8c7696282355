------------------------- MODULE MCPublicationLane -------------------------
(***************************************************************************)
(* Three publications, so that a successor can be replaced, beside a save  *)
(* and the deletion of the history, or the recycling of the project and    *)
(* the deletion of a checkpoint; and two publications of two passes beside *)
(* a restore, or the recycling of the project and its cleanup.             *)
(***************************************************************************)
EXTENDS PublicationLane, TLC

CONSTANTS c1, c2

Edits ==
  {c1 :> "save" @@ c2 :> "reset", c1 :> "recycle" @@ c2 :> "delete"}
Ends ==
  {c1 :> "recycle" @@ c2 :> "cleanup", c1 :> "restore" @@ c2 :> "cleanup"}

Alike == Permutations(Request) \cup Permutations(Version)
=============================================================================
