------------------------- MODULE MCMutationLookback -------------------------
(***************************************************************************)
(* The commands of MCMutationAdmission, with what their windows have seen. *)
(***************************************************************************)
EXTENDS MCMutationAdmission, MutationLookback
=============================================================================
