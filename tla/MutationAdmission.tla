-------------------------- MODULE MutationAdmission --------------------------
(***************************************************************************)
(* How the changes of one project's files are put in order                 *)
(* (src-tauri/src/project.rs, MutationAdmission).  Every command that      *)
(* writes, creates, renames, copies, deletes, imports or restores files    *)
(* takes a generation from a counter all projects share, announces the     *)
(* paths it will touch, waits for the project's operation mutex, and is    *)
(* refused if something newer overlaps it or, when the caller names the    *)
(* generation it has seen, if something overlapping came after that.  What *)
(* was committed is remembered per path, up to a limit after which it is   *)
(* compacted, and forgotten when the registry of projects evicts the       *)
(* coordinator.  A window remembers the newest generation it has seen.     *)
(*                                                                         *)
(* The state mutex is held for one action; the operation mutex across the  *)
(* file system calls.  Waiting for the compile locks and the worktree lock *)
(* is a mutation staying where it is.  The counter has 64 bits and is not  *)
(* exhausted.                                                              *)
(***************************************************************************)
EXTENDS Integers, FiniteSets, Sequences

CONSTANTS
  Window,         \* the windows (and agents) that change the project
  Mutation,       \* the changes they ask for, each once
  OwnerOf,        \* the window that asks for a mutation
  ScopesOf,       \* the scopes a mutation announces
  CommitsOf,      \* the scopes it is remembered by
  Scope,          \* all of these scopes
  MaxPending,     \* MAX_PENDING_MUTATIONS_PER_PROJECT
  MaxTracked,     \* MAX_TRACKED_MUTATION_SCOPES
  MaxElsewhere,   \* bounds the mutations of other projects
  None

(* path_is_within: the root holds everything, a folder what is below it.   *)
Within(path, root) ==
  \/ root = <<>>
  \/ Len(root) < Len(path) /\ SubSeq(path, 1, Len(root)) = root

Intersects(a, b) ==
  \/ a.path = b.path
  \/ a.descendants /\ Within(b.path, a.path)
  \/ b.descendants /\ Within(a.path, b.path)

Overlap(scopes, others) == \E a \in scopes, b \in others : Intersects(a, b)

ASSUME OwnerAssumption == OwnerOf \in [Mutation -> Window]
ASSUME ScopeAssumption ==
  /\ ScopesOf \in [Mutation -> SUBSET Scope]
  /\ CommitsOf \in [Mutation -> SUBSET Scope]
(* A mutation is remembered by nothing that it did not announce.           *)
ASSUME CommitAssumption ==
  \A m \in Mutation : \A s \in CommitsOf[m] : Overlap(ScopesOf[m], {s})
ASSUME LimitAssumption ==
  MaxPending \in Nat /\ MaxTracked \in Nat /\ MaxElsewhere \in Nat
ASSUME NoneAssumption == None \notin Mutation

VARIABLES
  next,         \* NEXT_MUTATION_GENERATION, shared by all projects
  live,         \* the registry has a coordinator for this project
  committed,    \* committed_generation
  compacted,    \* compacted_through
  tracked,      \* committed_scopes: a scope's generation, 0 if it has none
  pending,      \* the mutations whose generation is pending
  operation,    \* who holds the operation mutex
  phase,        \* where each mutation is
  generation,   \* the generation it was given, 0 before
  expected,     \* the generation its caller expects, or None
  outcome,      \* how it ended
  known,        \* the newest generation each window has seen
  log           \* the mutations that changed the files, in order

coordinator == <<live, committed, compacted, tracked>>
callers     == <<expected, known>>
vars == <<next, coordinator, pending, operation, phase, generation, outcome,
          log, callers>>

-----------------------------------------------------------------------------
Phases ==
  {"new", "arrived", "numbered", "admitted", "operating", "checked",
   "written", "returning", "releasing", "dropping", "ended"}
Outcomes == {"none", "changed", "unchanged", "conflict", "failed", "full"}

(* The phases whose mutation holds the mutex, and has a pending entry.     *)
Holding == {"operating", "checked", "written", "returning", "releasing"}
Announced ==
  {"admitted", "operating", "checked", "written", "releasing", "dropping"}

Admitted(m) ==
  phase[m] \notin {"new", "arrived", "numbered"} /\ outcome[m] # "full"

At(m, p) == phase[m] = p
To(m, p) == phase' = [phase EXCEPT ![m] = p]
Ends(m, why) == outcome' = [outcome EXCEPT ![m] = why]

(* A variant, not the code: one too many.                                  *)
WatermarkAbove == next
Watermark == next - 1
Untracked == [s \in Scope |-> 0]
Tracked == {s \in Scope : tracked[s] > 0}

(* What project_mutation_generation would answer.                          *)
Authority == IF live THEN committed ELSE Watermark

Init ==
  /\ next = 1
  /\ live = FALSE /\ committed = 0 /\ compacted = 0 /\ tracked = Untracked
  /\ pending = {} /\ operation = None
  /\ phase = [m \in Mutation |-> "new"]
  /\ generation = [m \in Mutation |-> 0]
  /\ expected = [m \in Mutation |-> None]
  /\ outcome = [m \in Mutation |-> "none"]
  /\ known = [w \in Window |-> 0]
  /\ log = <<>>

-----------------------------------------------------------------------------
(* The registry.                                                           *)

(* project_mutation_coordinator: a new one knows nothing of what came      *)
(* before, and says so by its floor.                                       *)
Open ==
  IF live THEN UNCHANGED coordinator
  ELSE /\ live' = TRUE /\ tracked' = Untracked
       /\ committed' = Watermark /\ compacted' = Watermark

(* A coordinator nobody uses makes room for another project's.             *)
Evict ==
  /\ live
  /\ \A m \in Mutation : phase[m] \in {"new", "ended"}
  /\ live' = FALSE /\ tracked' = Untracked /\ committed' = 0 /\ compacted' = 0
  /\ UNCHANGED <<next, pending, operation, phase, generation, outcome, log,
                 callers>>

(* A mutation of another project takes a generation.                       *)
Elsewhere ==
  /\ next <= MaxElsewhere
  /\ next' = next + 1
  /\ UNCHANGED <<coordinator, pending, operation, phase, generation, outcome,
                 log, callers>>

ReadGeneration(w) ==
  /\ Open
  /\ known' = [known EXCEPT ![w] = IF committed' > @ THEN committed' ELSE @]
  /\ UNCHANGED <<next, pending, operation, phase, generation, outcome, log,
                 expected>>

-----------------------------------------------------------------------------
(* Admission.                                                              *)

Arrive(m) ==
  /\ At(m, "new") /\ To(m, "arrived")
  /\ Open
  /\ \E e \in {None, known[OwnerOf[m]]} :
       expected' = [expected EXCEPT ![m] = e]
  /\ UNCHANGED <<next, pending, operation, generation, outcome, log, known>>

(* The registry is full and every coordinator in it is in use.             *)
TooManyProjects(m) ==
  /\ At(m, "new") /\ ~live /\ To(m, "ended") /\ Ends(m, "full")
  /\ UNCHANGED <<next, coordinator, pending, operation, generation, log,
                 callers>>

Number(m) ==
  /\ At(m, "arrived") /\ To(m, "numbered")
  /\ generation' = [generation EXCEPT ![m] = next]
  /\ next' = next + 1
  /\ UNCHANGED <<coordinator, pending, operation, outcome, log, callers>>

Announce(m) ==
  /\ At(m, "numbered") /\ To(m, "admitted")
  /\ Cardinality(pending) < MaxPending
  /\ pending' = pending \cup {m}
  /\ UNCHANGED <<next, coordinator, operation, generation, outcome, log,
                 callers>>

TooManyPending(m) ==
  /\ At(m, "numbered") /\ Cardinality(pending) >= MaxPending
  /\ To(m, "ended") /\ Ends(m, "full")
  /\ UNCHANGED <<next, coordinator, pending, operation, generation, log,
                 callers>>

(* The command gives up before it runs: its content does not decode.       *)
Abandon(m) ==
  /\ At(m, "admitted") /\ To(m, "dropping") /\ Ends(m, "failed")
  /\ UNCHANGED <<next, coordinator, pending, operation, generation, log,
                 callers>>

-----------------------------------------------------------------------------
(* run_with_change_status.                                                 *)

TakeOperation(m) ==
  /\ At(m, "admitted") /\ To(m, "operating")
  /\ operation = None /\ operation' = m
  /\ UNCHANGED <<next, coordinator, pending, generation, outcome, log,
                 callers>>

(* The worktree lock: a restore is pending, or the file cannot be locked.  *)
LockRefused(m) ==
  /\ At(m, "operating") /\ To(m, "releasing") /\ Ends(m, "failed")
  /\ UNCHANGED <<next, coordinator, pending, operation, generation, log,
                 callers>>

(* latest_overlapping_generation and latest_pending_overlap.               *)
ChangedAfter(m, g) ==
  \E s \in Scope : tracked[s] > g /\ Overlap(ScopesOf[m], {s})
NewerPending(m) ==
  \E n \in pending :
    generation[n] > generation[m] /\ Overlap(ScopesOf[m], ScopesOf[n])

Unexpected(m) ==
  /\ expected[m] # None
  /\ \/ expected[m] > committed
     \/ expected[m] < compacted
     \/ ChangedAfter(m, expected[m])

(* A variant, not the code: what a newer one has committed is ignored.     *)
ConflictWithPending(m) ==
  generation[m] <= compacted \/ Unexpected(m) \/ NewerPending(m)

Conflict(m) ==
  \/ generation[m] <= compacted
  \/ Unexpected(m)
  \/ ChangedAfter(m, generation[m])
  \/ NewerPending(m)

Preflight(m) ==
  /\ At(m, "operating") /\ ~Conflict(m) /\ To(m, "checked")
  /\ UNCHANGED <<next, coordinator, pending, operation, generation, outcome,
                 log, callers>>

Refuse(m) ==
  /\ At(m, "operating") /\ Conflict(m)
  /\ To(m, "releasing") /\ Ends(m, "conflict")
  /\ UNCHANGED <<next, coordinator, pending, operation, generation, log,
                 callers>>

(* The operation runs: it fails and leaves the files as they were, it      *)
(* finds nothing to change, or it changes them.                            *)
OperationFails(m) ==
  /\ At(m, "checked") /\ To(m, "releasing") /\ Ends(m, "failed")
  /\ UNCHANGED <<next, coordinator, pending, operation, generation, log,
                 callers>>

Unchanged(m) ==
  /\ At(m, "checked") /\ To(m, "returning") /\ Ends(m, "unchanged")
  /\ pending' = pending \ {m}
  /\ UNCHANGED <<next, coordinator, operation, generation, log, callers>>

Change(m) ==
  /\ At(m, "checked") /\ To(m, "written")
  /\ log' = Append(log, m)
  /\ UNCHANGED <<next, coordinator, pending, operation, generation, outcome,
                 callers>>

-----------------------------------------------------------------------------
(* record_commit.                                                          *)

Newest(m) == IF generation[m] > committed THEN generation[m] ELSE committed

(* Too many scopes are remembered: forget them, and remember that.         *)
Overflows(m) == Cardinality(Tracked \cup CommitsOf[m]) > MaxTracked
(* A variant, not the code: it forgets without saying so.                  *)
CompactSilently(m) ==
  /\ compacted' = compacted
  /\ tracked' = [s \in Scope |->
       IF s \in CommitsOf[m] THEN generation[m]
       ELSE IF Overflows(m) THEN 0 ELSE tracked[s]]

Compact(m) ==
  /\ compacted' = IF Overflows(m) THEN Newest(m) ELSE compacted
  /\ tracked' = [s \in Scope |->
       IF s \in CommitsOf[m] THEN generation[m]
       ELSE IF Overflows(m) THEN 0 ELSE tracked[s]]

RecordCommit(m) ==
  /\ At(m, "written") /\ To(m, "returning") /\ Ends(m, "changed")
  /\ committed' = Newest(m)
  /\ Compact(m)
  /\ pending' = pending \ {m}
  /\ UNCHANGED <<next, live, operation, generation, log, callers>>

(* The locks are released and the window learns the generation.            *)
Result(m) == IF outcome[m] = "changed" THEN generation[m] ELSE committed
Return(m) ==
  /\ At(m, "returning") /\ To(m, "ended")
  /\ operation' = None
  /\ known' = [known EXCEPT ![OwnerOf[m]] =
                 IF Result(m) > @ THEN Result(m) ELSE @]
  /\ UNCHANGED <<next, coordinator, pending, generation, outcome, log,
                 expected>>

(* A variant, not the code: the mutex stays locked.                        *)
ReleaseHolding(m) ==
  /\ At(m, "releasing") /\ To(m, "dropping")
  /\ UNCHANGED <<next, coordinator, pending, operation, generation, outcome,
                 log, callers>>

(* An error: the guards are dropped first, the admission after them.       *)
Release(m) ==
  /\ At(m, "releasing") /\ To(m, "dropping")
  /\ operation' = None
  /\ UNCHANGED <<next, coordinator, pending, generation, outcome, log,
                 callers>>

(* A variant, not the code, without the removal.                           *)
DropKeeping(m) ==
  /\ At(m, "dropping") /\ To(m, "ended")
  /\ UNCHANGED <<next, coordinator, pending, operation, generation, outcome,
                 log, callers>>

Drop(m) ==
  /\ At(m, "dropping") /\ To(m, "ended")
  /\ pending' = pending \ {m}
  /\ UNCHANGED <<next, coordinator, operation, generation, outcome, log,
                 callers>>

-----------------------------------------------------------------------------
Advance(m) ==
  \/ Number(m) \/ Announce(m) \/ TooManyPending(m)
  \/ TakeOperation(m) \/ LockRefused(m) \/ Preflight(m) \/ Refuse(m)
  \/ OperationFails(m) \/ Unchanged(m) \/ Change(m) \/ RecordCommit(m)
  \/ Return(m) \/ Release(m) \/ Drop(m)

Request(m) == Arrive(m) \/ TooManyProjects(m) \/ Abandon(m)

Next ==
  \/ \E m \in Mutation : Request(m) \/ Advance(m)
  \/ \E w \in Window : ReadGeneration(w)
  \/ Evict
  \/ Elsewhere

Spec == Init /\ [][Next]_vars
(* What has been admitted runs: the commands are tasks of the runtime, and *)
(* a mutex that is free is given to a thread that waits for it.            *)
FairSpec == Spec /\ \A m \in Mutation : WF_vars(Advance(m))

-----------------------------------------------------------------------------
TypeOK ==
  /\ next \in Nat \ {0} /\ live \in BOOLEAN
  /\ committed \in Nat /\ compacted \in Nat /\ tracked \in [Scope -> Nat]
  /\ pending \subseteq Mutation /\ operation \in Mutation \cup {None}
  /\ phase \in [Mutation -> Phases]
  /\ generation \in [Mutation -> Nat]
  /\ expected \in [Mutation -> Nat \cup {None}]
  /\ outcome \in [Mutation -> Outcomes]
  /\ known \in [Window -> Nat]
  /\ log \in Seq(Mutation)

(* The second of two changes overlaps what the first one left.             *)
Follows(later, earlier) == Overlap(ScopesOf[later], CommitsOf[earlier])

(* Changes that overlap reach the disk in the order of their admission,    *)
(* however they waited: a late autosave never undoes a rename or a delete  *)
(* that was asked for after it (preflight; the tests at project.rs:6342).  *)
OverlapsInOrder ==
  \A i, j \in DOMAIN log :
    i < j /\ Follows(log[j], log[i]) =>
      generation[log[i]] < generation[log[j]]

(* A change made on the expectation of a generation follows no overlapping *)
(* change of a later generation, also after the history was compacted or   *)
(* the coordinator evicted (preflight, record_commit).                     *)
ExpectationHonoured ==
  \A i, j \in DOMAIN log :
    i < j /\ Follows(log[j], log[i]) /\ expected[log[j]] # None =>
      generation[log[i]] <= expected[log[j]]

(* No window has seen a generation newer than the authoritative one, so    *)
(* that no command is refused for knowing too much (preflight's second     *)
(* test), also when an evicted coordinator has come back.                  *)
KnownIsOld == \A w \in Window : known[w] <= Authority

(* A mutation without expectation is a conflict only if a newer one has    *)
(* been admitted: the newest is never refused, not even by the floor of a  *)
(* coordinator that has come back (preflight, current_mutation_watermark). *)
OnlyNewerRefuses ==
  \A m \in Mutation : outcome[m] = "conflict" /\ expected[m] = None =>
    \E n \in Mutation : Admitted(n) /\ generation[n] > generation[m]

(* Exactly the mutations under way are pending: an entry nobody removes    *)
(* would refuse every older change of its paths, and use up the limit.     *)
PendingIsLive == pending = {m \in Mutation : phase[m] \in Announced}

(* The generation a window can read never goes back.                       *)
GenerationAdvances == [][Authority' >= Authority]_vars

(* Every mutation that has a coordinator comes to its end.                 *)
MutationsEnd == \A m \in Mutation : At(m, "arrived") ~> At(m, "ended")
=============================================================================
