-------------------------- MODULE MutationLookback --------------------------
(***************************************************************************)
(* MutationAdmission with two history variables: how much had been changed *)
(* when a window last learnt a generation, and how much of it a mutation   *)
(* that expects a generation therefore knows of.                           *)
(***************************************************************************)
EXTENDS MutationAdmission

VARIABLES
  seen,    \* per window, the length of the log when it last learnt one
  since    \* per mutation, what its window had seen when it asked

history == <<seen, since>>

InitLookback ==
  /\ Init
  /\ seen = [w \in Window |-> 0]
  /\ since = [m \in Mutation |-> 0]

Learns(w) == seen' = [seen EXCEPT ![w] = Len(log)] /\ UNCHANGED since

NextLookback ==
  \/ \E w \in Window : ReadGeneration(w) /\ Learns(w)
  \/ \E m \in Mutation : Return(m) /\ Learns(OwnerOf[m])
  \/ \E m \in Mutation :
       /\ Arrive(m)
       /\ since' = [since EXCEPT ![m] = seen[OwnerOf[m]]] /\ UNCHANGED seen
  \/ /\ UNCHANGED history
     /\ \/ \E m \in Mutation :
             \/ TooManyProjects(m) \/ Abandon(m)
             \/ Number(m) \/ Announce(m) \/ TooManyPending(m)
             \/ TakeOperation(m) \/ LockRefused(m) \/ Preflight(m) \/ Refuse(m)
             \/ OperationFails(m) \/ Unchanged(m) \/ Change(m)
             \/ RecordCommit(m) \/ Release(m) \/ Drop(m)
        \/ Evict
        \/ Elsewhere

SpecLookback == InitLookback /\ [][NextLookback]_<<vars, history>>

(* A change made on the expectation of a generation follows no overlapping *)
(* change made after that generation was read: otherwise the target has    *)
(* changed since, and the caller is to be told so (project.rs:1247).       *)
TargetUnchanged ==
  \A i, j \in DOMAIN log :
    i < j /\ Follows(log[j], log[i]) /\ expected[log[j]] # None =>
      i <= since[log[j]]
=============================================================================
