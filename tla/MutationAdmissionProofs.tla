----------------------- MODULE MutationAdmissionProofs -----------------------
(***************************************************************************)
(* The safety properties of MutationAdmission, proved for any number of    *)
(* windows, mutations and scopes, any relation between the scopes that     *)
(* Intersects gives them, and any limits.                                  *)
(*                                                                         *)
(* The inductive invariant IInv: the operation mutex has one holder        *)
(* (Exclusion); generations are distinct and below the counter, and        *)
(* nothing a coordinator knows is above its committed one (Numbering);     *)
(* only what is committed or compacted is in the log (Remembered); the     *)
(* checks of a preflight still hold when its operation runs (Cleared); and *)
(* who is overtaken by the committed generation is overtaken by an         *)
(* admitted mutation (Overtaken).  Remembered and Cleared together make    *)
(* the log ordered: the order is decided by what is tracked now, not by    *)
(* the whole past, and compaction may only raise the floor.                *)
(***************************************************************************)
EXTENDS MutationAdmission, TLAPS

Given == {"numbered", "returning"} \cup Announced
Queued == {"numbered", "admitted", "operating"}
Logged(m) == \E i \in DOMAIN log : log[i] = m

Exclusion == \A m \in Mutation : phase[m] \in Holding <=> operation = m

Idle ==
  ~live =>
    /\ committed = 0 /\ compacted = 0 /\ tracked = Untracked
    /\ \A m \in Mutation : phase[m] \in {"new", "ended"}

Numbering ==
  /\ \A m \in Mutation : generation[m] < next
  /\ \A m \in Mutation : phase[m] \in Given \/ Logged(m) => generation[m] > 0
  /\ \A m, n \in Mutation :
       generation[m] = generation[n] /\ generation[m] > 0 => m = n
  /\ committed < next /\ compacted <= committed
  /\ \A s \in Scope : tracked[s] <= committed

Local ==
  \A m \in Mutation :
    /\ outcome[m] = "full" => phase[m] = "ended"
    /\ Logged(m) => phase[m] \in {"written", "returning", "ended"}
    /\ phase[m] = "returning" /\ outcome[m] = "changed" =>
         generation[m] <= committed
    /\ phase[m] \notin {"releasing", "dropping", "ended"} =>
         outcome[m] # "conflict"

Cleared ==
  \A m \in Mutation : phase[m] \in {"checked", "written"} =>
    /\ generation[m] > compacted
    /\ ~ChangedAfter(m, generation[m])
    /\ ~Unexpected(m)

Remembered ==
  live => \A i \in DOMAIN log :
    \/ phase[log[i]] = "written"
    \/ generation[log[i]] <= compacted
    \/ /\ generation[log[i]] <= committed
       /\ \A s \in CommitsOf[log[i]] : tracked[s] >= generation[log[i]]

Overtaken ==
  \A m \in Mutation : phase[m] \in Queued /\ generation[m] <= committed =>
    \E n \in Mutation : Admitted(n) /\ generation[n] > generation[m]

Ordered == OverlapsInOrder /\ ExpectationHonoured

IInv ==
  /\ TypeOK /\ Exclusion /\ Idle /\ Numbering /\ Local /\ PendingIsLive
  /\ Cleared /\ Remembered /\ Overtaken /\ Ordered
  /\ KnownIsOld /\ OnlyNewerRefuses

-----------------------------------------------------------------------------
(* Types.                                                                  *)

LEMMA WatermarkType == TypeOK => Watermark \in Nat /\ Authority \in Nat
BY DEF TypeOK, Watermark, Authority

LEMMA OpenTypes ==
  ASSUME TypeOK, Open
  PROVE  /\ live' \in BOOLEAN /\ committed' \in Nat /\ compacted' \in Nat
         /\ tracked' \in [Scope -> Nat]
<1>1. CASE live
  BY <1>1 DEF TypeOK, Open, coordinator
<1>2. CASE ~live
  BY <1>2, WatermarkType DEF TypeOK, Open, Untracked
<1> QED
  BY <1>1, <1>2

LEMMA RequestTypes ==
  ASSUME TypeOK, NEW m \in Mutation, Request(m)
  PROVE  TypeOK'
<1> USE DEF Phases, Outcomes, At, To, Ends, coordinator, callers
<1>1. CASE Arrive(m)
  <2>1. PICK e \in {None, known[OwnerOf[m]]} :
          expected' = [expected EXCEPT ![m] = e]
    BY <1>1 DEF Arrive
  <2>2. e \in Nat \cup {None}
    BY OwnerAssumption DEF TypeOK
  <2>3. expected' \in [Mutation -> Nat \cup {None}]
    BY <2>1, <2>2 DEF TypeOK
  <2> QED
    BY <1>1, <2>3, OpenTypes DEF Arrive, TypeOK
<1>2. CASE TooManyProjects(m) \/ Abandon(m)
  BY <1>2 DEF TooManyProjects, Abandon, TypeOK
<1> QED
  BY <1>1, <1>2 DEF Request

LEMMA NextTypes ==
  ASSUME TypeOK, [Next]_vars
  PROVE  TypeOK'
<1> USE DEF TypeOK, Phases, Outcomes, At, To, Ends, coordinator, callers
<1>1. ASSUME NEW m \in Mutation, Request(m) PROVE TypeOK'
  BY <1>1, RequestTypes
<1>2. ASSUME NEW m \in Mutation, Advance(m) PROVE TypeOK'
  <2>0. CASE Number(m)
    <3>1. next \in Nat /\ next' \in Nat \ {0}
      BY <2>0 DEF Number
    <3> QED
      BY <2>0, <3>1 DEF Number
  <2>1. CASE Announce(m) \/ TooManyPending(m)
    BY <2>1 DEF Announce, TooManyPending
  <2>2. CASE TakeOperation(m) \/ LockRefused(m) \/ Preflight(m) \/ Refuse(m)
    BY <2>2 DEF TakeOperation, LockRefused, Preflight, Refuse
  <2>3. CASE OperationFails(m) \/ Unchanged(m)
    BY <2>3 DEF OperationFails, Unchanged
  <2>4. CASE Change(m)
    BY <2>4 DEF Change
  <2>5. CASE RecordCommit(m)
    BY <2>5 DEF RecordCommit, Compact, Newest
  <2>6. CASE Return(m)
    BY <2>6, OwnerAssumption DEF Return, Result
  <2>7. CASE Release(m) \/ Drop(m)
    BY <2>7 DEF Release, Drop
  <2> QED
    BY <1>2, <2>0, <2>1, <2>2, <2>3, <2>4, <2>5, <2>6, <2>7 DEF Advance
<1>3. ASSUME NEW w \in Window, ReadGeneration(w) PROVE TypeOK'
  BY <1>3, OpenTypes DEF ReadGeneration
<1>4. CASE Evict
  BY <1>4 DEF Evict, Untracked
<1>5. CASE Elsewhere
  BY <1>5 DEF Elsewhere
<1>6. CASE UNCHANGED vars
  BY <1>6 DEF vars
<1> QED
  BY <1>1, <1>2, <1>3, <1>4, <1>5, <1>6 DEF Next

-----------------------------------------------------------------------------
(* What every step leaves alone.                                           *)

(* A step of one mutation leaves the others where they are.                *)
LEMMA OthersStay ==
  ASSUME TypeOK, NEW m \in Mutation, Request(m) \/ Advance(m),
         NEW n \in Mutation, n # m
  PROVE  /\ phase'[n] = phase[n] /\ generation'[n] = generation[n]
         /\ expected'[n] = expected[n] /\ outcome'[n] = outcome[n]
<1> USE DEF TypeOK, At, To, Ends, coordinator, callers
<1>1. CASE Request(m)
  BY <1>1 DEF Request, Arrive, TooManyProjects, Abandon
<1>2. CASE Number(m) \/ Announce(m) \/ TooManyPending(m) \/ TakeOperation(m)
  BY <1>2 DEF Number, Announce, TooManyPending, TakeOperation
<1>3. CASE LockRefused(m) \/ Preflight(m) \/ Refuse(m) \/ OperationFails(m)
  BY <1>3 DEF LockRefused, Preflight, Refuse, OperationFails
<1>4. CASE Unchanged(m) \/ Change(m) \/ RecordCommit(m) \/ Return(m)
  BY <1>4 DEF Unchanged, Change, RecordCommit, Return
<1>5. CASE Release(m) \/ Drop(m)
  BY <1>5 DEF Release, Drop
<1> QED
  BY <1>1, <1>2, <1>3, <1>4, <1>5 DEF Advance

(* Only these two actions change what is expected and what was given.      *)
LEMMA NumbersStay ==
  ASSUME TypeOK, [Next]_vars, NEW n \in Mutation,
         phase[n] \notin {"new", "arrived"}
  PROVE  generation'[n] = generation[n] /\ expected'[n] = expected[n]
<1> USE DEF TypeOK, At, To, Ends, coordinator, callers
<1>1. ASSUME NEW m \in Mutation, Request(m) PROVE
        generation'[n] = generation[n] /\ expected'[n] = expected[n]
  BY <1>1 DEF Request, Arrive, TooManyProjects, Abandon
<1>2. ASSUME NEW m \in Mutation, Advance(m) PROVE
        generation'[n] = generation[n] /\ expected'[n] = expected[n]
  <2>1. CASE Number(m)
    BY <2>1 DEF Number
  <2>2. CASE Announce(m) \/ TooManyPending(m) \/ TakeOperation(m)
             \/ LockRefused(m) \/ Preflight(m) \/ Refuse(m)
    BY <2>2 DEF Announce, TooManyPending, TakeOperation, LockRefused,
                Preflight, Refuse
  <2>3. CASE OperationFails(m) \/ Unchanged(m) \/ Change(m) \/ RecordCommit(m)
             \/ Return(m) \/ Release(m) \/ Drop(m)
    BY <2>3 DEF OperationFails, Unchanged, Change, RecordCommit, Return,
                Release, Drop
  <2> QED
    BY <1>2, <2>1, <2>2, <2>3 DEF Advance
<1>3. ASSUME NEW w \in Window, ReadGeneration(w) PROVE
        generation'[n] = generation[n] /\ expected'[n] = expected[n]
  BY <1>3 DEF ReadGeneration
<1>4. CASE Evict \/ Elsewhere \/ UNCHANGED vars
  BY <1>4 DEF Evict, Elsewhere, vars
<1> QED
  BY <1>1, <1>2, <1>3, <1>4 DEF Next

(* Who is admitted stays admitted, with its generation.                    *)
LEMMA AdmittedStays ==
  ASSUME TypeOK, [Next]_vars, NEW n \in Mutation, Admitted(n)
  PROVE  Admitted(n)' /\ generation'[n] = generation[n]
<1> USE DEF TypeOK, At, To, Ends, coordinator, callers, Admitted
<1>1. generation'[n] = generation[n]
  BY NumbersStay
<1>2. ASSUME NEW m \in Mutation, Request(m) PROVE Admitted(n)'
  BY <1>2 DEF Request, Arrive, TooManyProjects, Abandon
<1>3. ASSUME NEW m \in Mutation, Advance(m) PROVE Admitted(n)'
  <2>1. CASE Number(m) \/ Announce(m) \/ TooManyPending(m)
    BY <2>1 DEF Number, Announce, TooManyPending
  <2>2. CASE TakeOperation(m) \/ LockRefused(m) \/ Preflight(m) \/ Refuse(m)
    BY <2>2 DEF TakeOperation, LockRefused, Preflight, Refuse
  <2>3. CASE OperationFails(m) \/ Unchanged(m) \/ Change(m) \/ RecordCommit(m)
             \/ Return(m) \/ Release(m) \/ Drop(m)
    BY <2>3 DEF OperationFails, Unchanged, Change, RecordCommit, Return,
                Release, Drop
  <2> QED
    BY <1>3, <2>1, <2>2, <2>3 DEF Advance
<1>4. ASSUME NEW w \in Window, ReadGeneration(w) PROVE Admitted(n)'
  BY <1>4 DEF ReadGeneration
<1>5. CASE Evict \/ Elsewhere \/ UNCHANGED vars
  BY <1>5 DEF Evict, Elsewhere, vars
<1> QED
  BY <1>1, <1>2, <1>3, <1>4, <1>5 DEF Next

(* The log grows only by the change of one mutation.                       *)
LEMMA LogGrows ==
  ASSUME TypeOK, NEW m \in Mutation, log' = Append(log, m)
  PROVE  /\ DOMAIN log' = DOMAIN log \cup {Len(log) + 1}
         /\ \A i \in DOMAIN log : log'[i] = log[i] /\ i < Len(log) + 1
         /\ log'[Len(log) + 1] = m
         /\ \A n \in Mutation : Logged(n)' <=> Logged(n) \/ n = m
<1>1. /\ DOMAIN log' = DOMAIN log \cup {Len(log) + 1}
      /\ \A i \in DOMAIN log : log'[i] = log[i] /\ i < Len(log) + 1
      /\ log'[Len(log) + 1] = m
  BY DEF TypeOK
<1> QED
  BY <1>1 DEF Logged

-----------------------------------------------------------------------------
(* The operation mutex and the pending entries.                            *)

LEMMA ExclusionKept ==
  ASSUME TypeOK, Exclusion, [Next]_vars
  PROVE  Exclusion'
<1> USE NoneAssumption
        DEF TypeOK, At, To, Ends, coordinator, callers, Exclusion, Holding
<1>1. ASSUME NEW m \in Mutation, Request(m) PROVE Exclusion'
  BY <1>1 DEF Request, Arrive, TooManyProjects, Abandon
<1>2. ASSUME NEW m \in Mutation, Advance(m) PROVE Exclusion'
  <2>1. CASE Number(m) \/ Announce(m) \/ TooManyPending(m)
    BY <2>1 DEF Number, Announce, TooManyPending
  <2>2. CASE TakeOperation(m)
    BY <2>2 DEF TakeOperation
  <2>3. CASE LockRefused(m) \/ Preflight(m) \/ Refuse(m)
    BY <2>3 DEF LockRefused, Preflight, Refuse
  <2>4. CASE OperationFails(m) \/ Unchanged(m) \/ Change(m) \/ RecordCommit(m)
    BY <2>4 DEF OperationFails, Unchanged, Change, RecordCommit
  <2>5. CASE Return(m) \/ Release(m)
    BY <2>5 DEF Return, Release
  <2>6. CASE Drop(m)
    BY <2>6 DEF Drop
  <2> QED
    BY <1>2, <2>1, <2>2, <2>3, <2>4, <2>5, <2>6 DEF Advance
<1>3. ASSUME NEW w \in Window, ReadGeneration(w) PROVE Exclusion'
  BY <1>3 DEF ReadGeneration
<1>4. CASE Evict \/ Elsewhere \/ UNCHANGED vars
  BY <1>4 DEF Evict, Elsewhere, vars
<1> QED
  BY <1>1, <1>2, <1>3, <1>4 DEF Next

LEMMA PendingKept ==
  ASSUME TypeOK, PendingIsLive, [Next]_vars
  PROVE  PendingIsLive'
<1> USE DEF TypeOK, At, To, Ends, coordinator, callers, PendingIsLive, Announced
<1>1. ASSUME NEW m \in Mutation, Request(m) PROVE PendingIsLive'
  BY <1>1 DEF Request, Arrive, TooManyProjects, Abandon
<1>2. ASSUME NEW m \in Mutation, Advance(m) PROVE PendingIsLive'
  <2>1. CASE Number(m) \/ TooManyPending(m)
    BY <2>1 DEF Number, TooManyPending
  <2>2. CASE Announce(m)
    BY <2>2 DEF Announce
  <2>3. CASE TakeOperation(m) \/ LockRefused(m) \/ Preflight(m) \/ Refuse(m)
    BY <2>3 DEF TakeOperation, LockRefused, Preflight, Refuse
  <2>4. CASE OperationFails(m) \/ Change(m) \/ Return(m) \/ Release(m)
    BY <2>4 DEF OperationFails, Change, Return, Release
  <2>5. CASE Unchanged(m) \/ RecordCommit(m) \/ Drop(m)
    BY <2>5 DEF Unchanged, RecordCommit, Drop
  <2> QED
    BY <1>2, <2>1, <2>2, <2>3, <2>4, <2>5 DEF Advance
<1>3. ASSUME NEW w \in Window, ReadGeneration(w) PROVE PendingIsLive'
  BY <1>3 DEF ReadGeneration
<1>4. CASE Evict \/ Elsewhere \/ UNCHANGED vars
  BY <1>4 DEF Evict, Elsewhere, vars
<1> QED
  BY <1>1, <1>2, <1>3, <1>4 DEF Next

-----------------------------------------------------------------------------
(* The coordinator.                                                        *)

(* A coordinator that is there is changed by a commit, or evicted.         *)
LEMMA CoordinatorStays ==
  ASSUME TypeOK, live, [Next]_vars, ~Evict,
         \A m \in Mutation : ~RecordCommit(m)
  PROVE  UNCHANGED coordinator
<1>1. ASSUME NEW m \in Mutation, Request(m) PROVE UNCHANGED coordinator
  BY <1>1 DEF Request, Arrive, TooManyProjects, Abandon, Open
<1>2. ASSUME NEW m \in Mutation, Advance(m) PROVE UNCHANGED coordinator
  BY <1>2 DEF Advance, Number, Announce, TooManyPending, TakeOperation,
              LockRefused, Preflight, Refuse, OperationFails, Unchanged,
              Change, Return, Release, Drop
<1>3. ASSUME NEW w \in Window, ReadGeneration(w) PROVE UNCHANGED coordinator
  BY <1>3 DEF ReadGeneration, Open
<1>4. CASE Elsewhere \/ UNCHANGED vars
  BY <1>4 DEF Elsewhere, vars
<1> QED
  BY <1>1, <1>2, <1>3, <1>4 DEF Next

(* One that is not there stays away, or is opened at the watermark.        *)
LEMMA CoordinatorOpens ==
  ASSUME TypeOK, Idle, ~live, [Next]_vars
  PROVE  \/ UNCHANGED coordinator
         \/ /\ live' /\ next' = next /\ tracked' = Untracked
            /\ committed' = Watermark /\ compacted' = Watermark
<1> USE DEF Idle, At
<1>1. ASSUME NEW m \in Mutation, Request(m)
      PROVE  \/ UNCHANGED coordinator
             \/ /\ live' /\ next' = next /\ tracked' = Untracked
                /\ committed' = Watermark /\ compacted' = Watermark
  BY <1>1 DEF Request, Arrive, TooManyProjects, Abandon, Open
<1>2. ASSUME NEW m \in Mutation, Advance(m) PROVE FALSE
  BY <1>2 DEF Advance, Number, Announce, TooManyPending, TakeOperation,
              LockRefused, Preflight, Refuse, OperationFails, Unchanged,
              Change, RecordCommit, Return, Release, Drop
<1>3. ASSUME NEW w \in Window, ReadGeneration(w)
      PROVE  \/ UNCHANGED coordinator
             \/ /\ live' /\ next' = next /\ tracked' = Untracked
                /\ committed' = Watermark /\ compacted' = Watermark
  BY <1>3 DEF ReadGeneration, Open
<1>4. CASE Evict \/ Elsewhere \/ UNCHANGED vars
  BY <1>4 DEF Evict, Elsewhere, vars
<1> QED
  BY <1>1, <1>2, <1>3, <1>4 DEF Next

LEMMA IdleKept ==
  ASSUME TypeOK, Idle, [Next]_vars
  PROVE  Idle'
<1> USE DEF TypeOK, At, To, Ends, callers
<1>1. ASSUME NEW m \in Mutation, Request(m) PROVE Idle'
  BY <1>1 DEF Request, Arrive, TooManyProjects, Abandon, Open, Idle, Untracked,
              coordinator
<1>2. ASSUME NEW m \in Mutation, Advance(m) PROVE Idle'
  <2>1. live
    BY <1>2 DEF Idle, Advance, Number, Announce, TooManyPending, TakeOperation,
                LockRefused, Preflight, Refuse, OperationFails, Unchanged,
                Change, RecordCommit, Return, Release, Drop
  <2>2. live' = live
    BY <1>2 DEF Advance, Number, Announce, TooManyPending, TakeOperation,
                LockRefused, Preflight, Refuse, OperationFails, Unchanged,
                Change, RecordCommit, Return, Release, Drop, coordinator
  <2> QED
    BY <2>1, <2>2 DEF Idle
<1>3. ASSUME NEW w \in Window, ReadGeneration(w) PROVE Idle'
  BY <1>3 DEF ReadGeneration, Open, Idle, coordinator
<1>4. CASE Evict \/ Elsewhere \/ UNCHANGED vars
  BY <1>4 DEF Evict, Elsewhere, vars, Idle, Untracked, coordinator
<1> QED
  BY <1>1, <1>2, <1>3, <1>4 DEF Next

LEMMA LogStays ==
  ASSUME [Next]_vars, \A m \in Mutation : ~Change(m)
  PROVE  log' = log
<1>1. ASSUME NEW m \in Mutation, Request(m) PROVE log' = log
  BY <1>1 DEF Request, Arrive, TooManyProjects, Abandon
<1>2. ASSUME NEW m \in Mutation, Advance(m) PROVE log' = log
  BY <1>2 DEF Advance, Number, Announce, TooManyPending, TakeOperation,
              LockRefused, Preflight, Refuse, OperationFails, Unchanged,
              RecordCommit, Return, Release, Drop
<1>3. ASSUME NEW w \in Window, ReadGeneration(w) PROVE log' = log
  BY <1>3 DEF ReadGeneration
<1>4. CASE Evict \/ Elsewhere \/ UNCHANGED vars
  BY <1>4 DEF Evict, Elsewhere, vars
<1> QED
  BY <1>1, <1>2, <1>3, <1>4 DEF Next

LEMMA NextGrows ==
  ASSUME TypeOK, [Next]_vars
  PROVE  next' \in Nat /\ next' >= next
<1> USE DEF TypeOK
<1>1. ASSUME NEW m \in Mutation, Request(m) PROVE next' \in Nat /\ next' >= next
  BY <1>1 DEF Request, Arrive, TooManyProjects, Abandon
<1>2. ASSUME NEW m \in Mutation, Advance(m) PROVE next' \in Nat /\ next' >= next
  BY <1>2 DEF Advance, Number, Announce, TooManyPending, TakeOperation,
              LockRefused, Preflight, Refuse, OperationFails, Unchanged,
              Change, RecordCommit, Return, Release, Drop
<1>3. CASE \E w \in Window : ReadGeneration(w)
  BY <1>3 DEF ReadGeneration
<1>4. CASE Evict \/ Elsewhere \/ UNCHANGED vars
  BY <1>4 DEF Evict, Elsewhere, vars
<1> QED
  BY <1>1, <1>2, <1>3, <1>4 DEF Next

(* While a coordinator lives, what it knows only grows.                    *)
LEMMA CommittedGrows ==
  ASSUME TypeOK, Idle, Numbering, [Next]_vars, live'
  PROVE  /\ committed' >= committed
         /\ live => compacted' >= compacted
<1>1. CASE \E m \in Mutation : RecordCommit(m)
  BY <1>1 DEF RecordCommit, Compact, Newest, TypeOK, Numbering
<1>2. CASE Evict
  BY <1>2 DEF Evict
<1>3. CASE live /\ ~Evict /\ \A m \in Mutation : ~RecordCommit(m)
  BY <1>3, CoordinatorStays DEF coordinator, TypeOK
<1>4. CASE ~live
  <2>1. committed' = Watermark
    BY <1>4, CoordinatorOpens DEF coordinator
  <2>2. committed = 0
    BY <1>4 DEF Idle
  <2> QED
    BY <1>4, <2>1, <2>2, WatermarkType
<1> QED
  BY <1>1, <1>2, <1>3, <1>4

LEMMA BelowIsNat == \A a \in Nat \ {0} : a - 1 \in Nat
OBVIOUS

LEMMA BelowGrows ==
  \A a, b, c \in Nat : b >= a => b - 1 >= a - 1 /\ (c < a => b - 1 >= c)
OBVIOUS

(* The generation a window can read never goes back.                       *)
LEMMA AuthorityGrows ==
  ASSUME TypeOK, Idle, Numbering, [Next]_vars
  PROVE  Authority' >= Authority
<1>0. TypeOK'
  BY NextTypes
<1>1. next' >= next
  BY NextGrows
<1>2. next \in Nat /\ next' \in Nat /\ committed \in Nat /\ committed < next
  BY <1>0 DEF TypeOK, Numbering
<1>3. CASE live /\ live'
  BY <1>3, CommittedGrows DEF Authority
<1>4. CASE live /\ ~live'
  <2>1. Authority = committed /\ Authority' = next' - 1
    BY <1>4 DEF Authority, Watermark
  <2>2. next' - 1 >= committed
    BY <1>1, <1>2, BelowGrows
  <2> QED
    BY <2>1, <2>2
<1>5. CASE ~live /\ live'
  <2>1. committed' = Watermark
    BY <1>5, CoordinatorOpens DEF coordinator
  <2>2. Authority = Watermark /\ Authority' = committed'
    BY <1>5 DEF Authority
  <2> QED
    BY <2>1, <2>2, WatermarkType
<1>6. CASE ~live /\ ~live'
  <2>1. Authority = next - 1 /\ Authority' = next' - 1
    BY <1>6 DEF Authority, Watermark
  <2>2. next' - 1 >= next - 1
    BY <1>1, <1>2, BelowGrows
  <2> QED
    BY <2>1, <2>2
<1> QED
  BY <1>3, <1>4, <1>5, <1>6

-----------------------------------------------------------------------------
(* Generations.                                                            *)

(* Whoever has a generation, or is given one now.                          *)
LEMMA Numbers ==
  ASSUME TypeOK, [Next]_vars, NEW n \in Mutation
  PROVE  \/ generation'[n] = generation[n]
         \/ /\ phase[n] = "arrived" /\ generation'[n] = next
            /\ next' = next + 1 /\ Number(n)
<1> USE DEF TypeOK, At, To
<1>1. ASSUME NEW m \in Mutation, Number(m), m # n
      PROVE  generation'[n] = generation[n]
  BY <1>1 DEF Number
<1>2. CASE Number(n)
  BY <1>2 DEF Number
<1>3. CASE \A m \in Mutation : ~Number(m)
  <2>1. generation' = generation
    <3>1. ASSUME NEW m \in Mutation, Request(m) PROVE generation' = generation
      BY <3>1 DEF Request, Arrive, TooManyProjects, Abandon
    <3>2. ASSUME NEW m \in Mutation, Advance(m) PROVE generation' = generation
      BY <3>2, <1>3 DEF Advance, Announce, TooManyPending, TakeOperation,
         LockRefused, Preflight, Refuse, OperationFails, Unchanged, Change,
         RecordCommit, Return, Release, Drop
    <3>3. CASE \E w \in Window : ReadGeneration(w)
      BY <3>3 DEF ReadGeneration
    <3>4. CASE Evict \/ Elsewhere \/ UNCHANGED vars
      BY <3>4 DEF Evict, Elsewhere, vars
    <3> QED
      BY <3>1, <3>2, <3>3, <3>4 DEF Next
  <2> QED
    BY <2>1
<1> QED
  BY <1>1, <1>2, <1>3

LEMMA GivenKept ==
  ASSUME TypeOK, Numbering, [Next]_vars, NEW n \in Mutation,
         phase'[n] \in Given \/ Logged(n)'
  PROVE  generation'[n] > 0
<1> USE DEF TypeOK, At, To, Given, Announced
<1>1. CASE Number(n)
  BY <1>1 DEF Number
<1>2. CASE ~Number(n)
  <2>1. phase[n] \in Given \/ Logged(n)
    <3>1. ASSUME NEW m \in Mutation, Request(m)
          PROVE  phase[n] \in Given \/ Logged(n)
      BY <3>1 DEF Request, Arrive, TooManyProjects, Abandon, Logged
    <3>2. ASSUME NEW m \in Mutation, Advance(m), ~Change(m)
          PROVE  phase[n] \in Given \/ Logged(n)
      BY <3>2, <1>2 DEF Advance, Number, Announce, TooManyPending,
         TakeOperation, LockRefused, Preflight, Refuse, OperationFails,
         Unchanged, RecordCommit, Return, Release, Drop, Logged
    <3>3. ASSUME NEW m \in Mutation, Change(m)
          PROVE  phase[n] \in Given \/ Logged(n)
      BY <3>3, LogGrows DEF Change
    <3>4. CASE \E w \in Window : ReadGeneration(w)
      BY <3>4 DEF ReadGeneration, Logged
    <3>5. CASE Evict \/ Elsewhere \/ UNCHANGED vars
      BY <3>5 DEF Evict, Elsewhere, vars, Logged
    <3> QED
      BY <3>1, <3>2, <3>3, <3>4, <3>5 DEF Next
  <2>2. generation'[n] = generation[n]
    BY <1>2, Numbers
  <2> QED
    BY <2>1, <2>2 DEF Numbering
<1> QED
  BY <1>1, <1>2

LEMMA NumberingKept ==
  ASSUME TypeOK, Idle, Numbering, [Next]_vars
  PROVE  Numbering'
<1>1. ASSUME NEW m \in Mutation PROVE generation'[m] < next'
  <2>1. next \in Nat /\ next' \in Nat /\ next' >= next
    BY NextGrows DEF TypeOK
  <2>2. generation[m] \in Nat /\ generation[m] < next
    BY DEF Numbering, TypeOK
  <2>3. CASE generation'[m] = generation[m]
    BY <2>1, <2>2, <2>3
  <2>4. CASE generation'[m] = next /\ next' = next + 1
    BY <2>1, <2>4
  <2> QED
    BY <2>3, <2>4, Numbers
<1>2. \A m \in Mutation : phase'[m] \in Given \/ Logged(m)' => generation'[m] > 0
  BY GivenKept
<1>3. \A m, n \in Mutation :
        generation'[m] = generation'[n] /\ generation'[m] > 0 => m = n
  <2> SUFFICES ASSUME NEW m \in Mutation, NEW n \in Mutation, m # n,
                      generation'[m] = generation'[n], generation'[m] > 0
               PROVE  FALSE
    OBVIOUS
  <2>1. CASE generation'[m] = generation[m] /\ generation'[n] = generation[n]
    BY <2>1 DEF Numbering
  <2>2. CASE Number(m)
    BY <2>2 DEF Number, Numbering, TypeOK
  <2>3. CASE Number(n)
    BY <2>3 DEF Number, Numbering, TypeOK
  <2> QED
    BY <2>1, <2>2, <2>3, Numbers
<1>4. /\ committed' < next' /\ compacted' <= committed'
      /\ \A s \in Scope : tracked'[s] <= committed'
  <2>1. CASE \E m \in Mutation : RecordCommit(m)
    BY <2>1 DEF RecordCommit, Compact, Newest, TypeOK, Numbering
  <2>2. CASE Evict
    BY <2>2 DEF Evict, TypeOK, Untracked
  <2>3. CASE UNCHANGED coordinator
    BY <2>3, NextGrows DEF coordinator, TypeOK, Numbering
  <2>4. CASE /\ next' = next /\ tracked' = Untracked
             /\ committed' = Watermark /\ compacted' = Watermark
    BY <2>4 DEF Watermark, Untracked, TypeOK
  <2> QED
    BY <2>1, <2>2, <2>3, <2>4, CoordinatorStays, CoordinatorOpens
<1> QED
  BY <1>1, <1>2, <1>3, <1>4 DEF Numbering

-----------------------------------------------------------------------------
(* Where a mutation is.                                                    *)

LEMMA LocalKept ==
  ASSUME TypeOK, Idle, Numbering, Local, [Next]_vars
  PROVE  Local'
<1> SUFFICES ASSUME NEW n \in Mutation
    PROVE /\ outcome'[n] = "full" => phase'[n] = "ended"
          /\ Logged(n)' => phase'[n] \in {"written", "returning", "ended"}
          /\ phase'[n] = "returning" /\ outcome'[n] = "changed" =>
               generation'[n] <= committed'
          /\ phase'[n] \notin {"releasing", "dropping", "ended"} =>
               outcome'[n] # "conflict"
  BY DEF Local
<1> USE DEF TypeOK, At, To, Ends, callers
<1>1. /\ outcome'[n] = "full" => phase'[n] = "ended"
      /\ phase'[n] \notin {"releasing", "dropping", "ended"} =>
           outcome'[n] # "conflict"
  <2>1. ASSUME NEW m \in Mutation, Request(m) PROVE <1>1!:
    BY <2>1 DEF Request, Arrive, TooManyProjects, Abandon, Local
  <2>2. ASSUME NEW m \in Mutation, Advance(m) PROVE <1>1!:
    BY <2>2 DEF Advance, Number, Announce, TooManyPending, TakeOperation,
                LockRefused, Preflight, Refuse, OperationFails, Unchanged,
                Change, RecordCommit, Return, Release, Drop, Local
  <2>3. CASE \E w \in Window : ReadGeneration(w)
    BY <2>3 DEF ReadGeneration, Local
  <2>4. CASE Evict \/ Elsewhere \/ UNCHANGED vars
    BY <2>4 DEF Evict, Elsewhere, vars, Local
  <2> QED
    BY <2>1, <2>2, <2>3, <2>4 DEF Next
<1>2. Logged(n)' => phase'[n] \in {"written", "returning", "ended"}
  <2>1. ASSUME NEW m \in Mutation, Request(m) PROVE <1>2!:
    BY <2>1 DEF Request, Arrive, TooManyProjects, Abandon, Local, Logged
  <2>2. ASSUME NEW m \in Mutation, Change(m) PROVE <1>2!:
    BY <2>2, LogGrows DEF Change, Local
  <2>3. ASSUME NEW m \in Mutation, Advance(m), ~Change(m) PROVE <1>2!:
    BY <2>3 DEF Advance, Number, Announce, TooManyPending, TakeOperation,
                LockRefused, Preflight, Refuse, OperationFails, Unchanged,
                RecordCommit, Return, Release, Drop, Local, Logged
  <2>4. CASE \E w \in Window : ReadGeneration(w)
    BY <2>4 DEF ReadGeneration, Local, Logged
  <2>5. CASE Evict \/ Elsewhere \/ UNCHANGED vars
    BY <2>5 DEF Evict, Elsewhere, vars, Local, Logged
  <2> QED
    BY <2>1, <2>2, <2>3, <2>4, <2>5 DEF Next
<1>3. ASSUME phase'[n] = "returning", outcome'[n] = "changed"
      PROVE  generation'[n] <= committed'
  <2>1. CASE RecordCommit(n)
    BY <2>1 DEF RecordCommit, Newest
  <2>2. CASE ~RecordCommit(n)
    <3>1. phase[n] = "returning" /\ outcome[n] = "changed"
      <4>1. ASSUME NEW m \in Mutation, Request(m) PROVE <3>1!:
        BY <4>1, <1>3 DEF Request, Arrive, TooManyProjects, Abandon
      <4>2. ASSUME NEW m \in Mutation, Advance(m) PROVE <3>1!:
        BY <4>2, <2>2, <1>3 DEF Advance, Number, Announce, TooManyPending,
           TakeOperation, LockRefused, Preflight, Refuse, OperationFails,
           Unchanged, Change, RecordCommit, Return, Release, Drop
      <4>3. CASE \E w \in Window : ReadGeneration(w)
        BY <4>3, <1>3 DEF ReadGeneration
      <4>4. CASE Evict \/ Elsewhere \/ UNCHANGED vars
        BY <4>4, <1>3 DEF Evict, Elsewhere, vars
      <4> QED
        BY <4>1, <4>2, <4>3, <4>4 DEF Next
    <3>2. live /\ ~Evict
      BY <3>1 DEF Idle, Evict
    <3>3. live'
      <4>1. CASE \E m \in Mutation : RecordCommit(m)
        BY <3>2, <4>1 DEF RecordCommit
      <4>2. CASE \A m \in Mutation : ~RecordCommit(m)
        BY <3>2, <4>2, CoordinatorStays DEF coordinator
      <4> QED
        BY <4>1, <4>2
    <3>4. committed' >= committed /\ committed' \in Nat
      BY <3>3, CommittedGrows, NextTypes
    <3>5. generation'[n] = generation[n] /\ generation[n] <= committed
      BY <3>1, NumbersStay DEF Local
    <3> QED
      BY <3>4, <3>5
  <2> QED
    BY <2>1, <2>2
<1> QED
  BY <1>1, <1>2, <1>3

-----------------------------------------------------------------------------
(* What a preflight has checked still holds when the change is made.       *)

LEMMA ClearedKept ==
  ASSUME TypeOK, Exclusion, Idle, Cleared, [Next]_vars
  PROVE  Cleared'
<1> SUFFICES ASSUME NEW n \in Mutation, phase'[n] \in {"checked", "written"}
    PROVE /\ generation'[n] > compacted'
          /\ ~ChangedAfter(n, generation[n])'
          /\ ~Unexpected(n)'
  BY DEF Cleared
<1> USE DEF TypeOK, At, To, Ends, callers
<1>1. \/ Preflight(n)
      \/ phase[n] \in {"checked", "written"} /\ ~RecordCommit(n)
  <2>1. ASSUME NEW m \in Mutation, Request(m) PROVE <1>1!:
    BY <2>1 DEF Request, Arrive, TooManyProjects, Abandon, RecordCommit
  <2>2. ASSUME NEW m \in Mutation, Advance(m) PROVE <1>1!:
    BY <2>2 DEF Advance, Number, Announce, TooManyPending, TakeOperation,
                LockRefused, Preflight, Refuse, OperationFails, Unchanged,
                Change, RecordCommit, Return, Release, Drop
  <2>3. CASE \E w \in Window : ReadGeneration(w)
    BY <2>3 DEF ReadGeneration, RecordCommit
  <2>4. CASE Evict \/ Elsewhere \/ UNCHANGED vars
    BY <2>4 DEF Evict, Elsewhere, vars, RecordCommit
  <2> QED
    BY <2>1, <2>2, <2>3, <2>4 DEF Next
<1>2. CASE Preflight(n)
  <2>1. /\ generation[n] > compacted /\ ~ChangedAfter(n, generation[n])
        /\ ~Unexpected(n)
    BY <1>2 DEF Preflight, Conflict
  <2> QED
    BY <1>2, <2>1 DEF Preflight, coordinator, ChangedAfter, Unexpected
<1>3. CASE phase[n] \in {"checked", "written"} /\ ~RecordCommit(n)
  <2>1. \A m \in Mutation : ~RecordCommit(m)
    <3> SUFFICES ASSUME NEW m \in Mutation, RecordCommit(m) PROVE FALSE
      OBVIOUS
    <3>1. operation = m
      BY DEF RecordCommit, Exclusion, Holding
    <3>2. operation = n
      BY <1>3 DEF Exclusion, Holding
    <3> QED
      BY <1>3, <3>1, <3>2
  <2>2. live /\ ~Evict
    BY <1>3 DEF Idle, Evict
  <2>3. UNCHANGED coordinator
    BY <2>1, <2>2, CoordinatorStays
  <2>4. generation'[n] = generation[n] /\ expected'[n] = expected[n]
    BY <1>3, NumbersStay
  <2> QED
    BY <1>3, <2>3, <2>4 DEF Cleared, coordinator, ChangedAfter, Unexpected
<1> QED
  BY <1>1, <1>2, <1>3

(* The mutation whose commit is recorded is later than what it overlaps.   *)
LEMMA TrackedGrows ==
  ASSUME TypeOK, Cleared, NEW m \in Mutation, RecordCommit(m), ~Overflows(m),
         NEW s \in Scope
  PROVE  tracked'[s] >= tracked[s]
<1>1. CASE s \in CommitsOf[m]
  <2>1. ~(tracked[s] > generation[m])
    BY <1>1, CommitAssumption DEF Cleared, RecordCommit, At, ChangedAfter
  <2> QED
    BY <1>1, <2>1 DEF RecordCommit, Compact, TypeOK
<1>2. CASE s \notin CommitsOf[m]
  BY <1>2 DEF RecordCommit, Compact, TypeOK
<1> QED
  BY <1>1, <1>2

LEMMA RememberedByCommit ==
  ASSUME TypeOK, Exclusion, Idle, Numbering, Cleared, Remembered,
         NEW m \in Mutation, RecordCommit(m)
  PROVE  Remembered'
<1> USE DEF TypeOK
<1>1. log' = log /\ generation' = generation /\ live
  BY DEF RecordCommit, Idle, At
<1> SUFFICES ASSUME NEW i \in DOMAIN log
    PROVE \/ phase'[log[i]] = "written"
          \/ generation[log[i]] <= compacted'
          \/ /\ generation[log[i]] <= committed'
             /\ \A s \in CommitsOf[log[i]] : tracked'[s] >= generation[log[i]]
  BY <1>1 DEF Remembered
<1>2. log[i] \in Mutation /\ generation[log[i]] \in Nat
  OBVIOUS
<1>3. /\ committed' \in Nat /\ committed' >= committed
      /\ committed' >= generation[m]
      /\ compacted' \in Nat /\ compacted' >= compacted
      /\ Overflows(m) => compacted' = committed'
  BY DEF RecordCommit, Compact, Newest, Numbering
<1>4. CASE log[i] = m
  <2>1. \A s \in CommitsOf[m] : tracked'[s] = generation[m]
    BY ScopeAssumption DEF RecordCommit, Compact
  <2> QED
    BY <1>2, <1>3, <1>4, <2>1
<1>5. CASE log[i] # m
  <2>1. phase[log[i]] # "written"
    BY <1>2, <1>5 DEF Exclusion, Holding, RecordCommit, At
  <2>2. CASE generation[log[i]] <= compacted
    BY <1>2, <1>3, <2>2
  <2>3. CASE /\ generation[log[i]] <= committed
             /\ \A s \in CommitsOf[log[i]] : tracked[s] >= generation[log[i]]
    <3>1. generation[log[i]] <= committed'
      BY <1>2, <1>3, <2>3
    <3>2. CASE Overflows(m)
      BY <3>1, <3>2, <1>3
    <3>3. ASSUME ~Overflows(m), NEW s \in CommitsOf[log[i]]
          PROVE  tracked'[s] >= generation[log[i]]
      <4>1. s \in Scope /\ tracked'[s] >= tracked[s]
        BY <1>2, <3>3, TrackedGrows, ScopeAssumption
      <4>2. tracked'[s] \in Nat /\ tracked[s] \in Nat
        BY <4>1, ScopeAssumption DEF RecordCommit, Compact
      <4> QED
        BY <1>2, <2>3, <4>1, <4>2
    <3> QED
      BY <3>1, <3>2, <3>3
  <2> QED
    BY <1>1, <2>1, <2>2, <2>3 DEF Remembered
<1> QED
  BY <1>4, <1>5

LEMMA RememberedKept ==
  ASSUME TypeOK, Exclusion, Idle, Numbering, Local, Cleared, Remembered,
         [Next]_vars
  PROVE  Remembered'
<1> USE DEF TypeOK, At, To, Ends, callers
<1>1. CASE \E m \in Mutation : RecordCommit(m)
  BY <1>1, RememberedByCommit
<1>2. CASE Evict
  BY <1>2 DEF Evict, Remembered
<1>3. ASSUME ~live PROVE Remembered'
  <2>1. log' = log
    BY <1>3, LogStays DEF Change, Idle
  <2>2. CASE UNCHANGED coordinator
    BY <1>3, <2>2 DEF Remembered, coordinator
  <2>3. CASE next' = next /\ compacted' = Watermark
    <3>1. ASSUME NEW i \in DOMAIN log
          PROVE  generation'[log[i]] <= compacted'
      <4>1. log[i] \in Mutation /\ Logged(log[i])
        BY DEF Logged
      <4>2. phase[log[i]] \notin {"new", "arrived"}
        BY <4>1 DEF Local
      <4>3. generation'[log[i]] = generation[log[i]]
        BY <4>1, <4>2, NumbersStay
      <4> QED
        BY <2>3, <4>1, <4>3 DEF Watermark, Numbering
    <3> QED
      BY <2>1, <3>1 DEF Remembered
  <2> QED
    BY <1>3, <2>2, <2>3, CoordinatorOpens
<1>4. ASSUME live, ~Evict, \A m \in Mutation : ~RecordCommit(m)
      PROVE  Remembered'
  <2>1. UNCHANGED coordinator
    BY <1>4, CoordinatorStays
  <2>2. ASSUME NEW i \in DOMAIN log
        PROVE  \/ phase'[log[i]] = "written"
               \/ generation'[log[i]] <= compacted
               \/ /\ generation'[log[i]] <= committed
                  /\ \A s \in CommitsOf[log[i]] :
                       tracked[s] >= generation'[log[i]]
    <3>1. log[i] \in Mutation /\ Logged(log[i])
      BY DEF Logged
    <3>2. generation'[log[i]] = generation[log[i]]
      BY <3>1, NumbersStay DEF Local
    <3>3. phase[log[i]] = "written" => phase'[log[i]] = "written"
      <4>1. ASSUME NEW m \in Mutation, Request(m) PROVE <3>3!:
        BY <4>1, <3>1 DEF Request, Arrive, TooManyProjects, Abandon
      <4>2. ASSUME NEW m \in Mutation, Advance(m) PROVE <3>3!:
        BY <4>2, <3>1, <1>4 DEF Advance, Number, Announce, TooManyPending,
           TakeOperation, LockRefused, Preflight, Refuse, OperationFails,
           Unchanged, Change, Return, Release, Drop
      <4>3. CASE \E w \in Window : ReadGeneration(w)
        BY <4>3 DEF ReadGeneration
      <4>4. CASE Elsewhere \/ UNCHANGED vars
        BY <4>4 DEF Elsewhere, vars
      <4> QED
        BY <1>4, <4>1, <4>2, <4>3, <4>4 DEF Next
    <3> QED
      BY <1>4, <3>2, <3>3 DEF Remembered
  <2>3. CASE log' = log
    BY <2>1, <2>2, <2>3 DEF Remembered, coordinator
  <2>4. ASSUME NEW m \in Mutation, Change(m) PROVE Remembered'
    <3>1. /\ DOMAIN log' = DOMAIN log \cup {Len(log) + 1}
          /\ \A i \in DOMAIN log : log'[i] = log[i]
          /\ log'[Len(log) + 1] = m
      BY <2>4, LogGrows DEF Change
    <3>2. phase'[m] = "written"
      BY <2>4 DEF Change
    <3> QED
      BY <2>1, <2>2, <3>1, <3>2 DEF Remembered, coordinator
  <2> QED
    BY <2>3, <2>4, LogStays
<1> QED
  BY <1>1, <1>2, <1>3, <1>4

-----------------------------------------------------------------------------
(* Who is overtaken.                                                       *)

LEMMA OvertakenKept ==
  ASSUME TypeOK, Idle, Numbering, Local, Overtaken, [Next]_vars
  PROVE  Overtaken'
<1> SUFFICES ASSUME NEW n \in Mutation, phase'[n] \in Queued,
                    generation'[n] <= committed'
             PROVE  \E k \in Mutation :
                      Admitted(k)' /\ generation'[k] > generation'[n]
  BY DEF Overtaken
<1> USE DEF TypeOK, At, To, Ends, callers, Queued
<1>1. Number(n) \/ phase[n] \in Queued
  <2>1. ASSUME NEW m \in Mutation, Request(m) PROVE <1>1!:
    BY <2>1 DEF Request, Arrive, TooManyProjects, Abandon
  <2>2. ASSUME NEW m \in Mutation, Advance(m) PROVE <1>1!:
    BY <2>2 DEF Advance, Number, Announce, TooManyPending, TakeOperation,
                LockRefused, Preflight, Refuse, OperationFails, Unchanged,
                Change, RecordCommit, Return, Release, Drop
  <2>3. CASE \E w \in Window : ReadGeneration(w)
    BY <2>3 DEF ReadGeneration
  <2>4. CASE Evict \/ Elsewhere \/ UNCHANGED vars
    BY <2>4 DEF Evict, Elsewhere, vars
  <2> QED
    BY <2>1, <2>2, <2>3, <2>4 DEF Next
<1>2. CASE Number(n)
  <2>1. generation'[n] = next /\ committed' = committed
    BY <1>2 DEF Number, coordinator
  <2> QED
    BY <2>1 DEF Numbering
<1>3. CASE phase[n] \in Queued
  <2>1. generation'[n] = generation[n] /\ generation[n] \in Nat
    BY <1>3, NumbersStay
  <2>2. ASSUME generation[n] <= committed
        PROVE  \E k \in Mutation :
                 Admitted(k)' /\ generation'[k] > generation'[n]
    <3>1. PICK k \in Mutation : Admitted(k) /\ generation[k] > generation[n]
      BY <1>3, <2>2 DEF Overtaken
    <3>2. Admitted(k)' /\ generation'[k] = generation[k]
      BY <3>1, AdmittedStays
    <3> QED
      BY <2>1, <3>1, <3>2
  <2>3. ASSUME NEW m \in Mutation, RecordCommit(m)
        PROVE  \E k \in Mutation :
                 Admitted(k)' /\ generation'[k] > generation'[n]
    <3>1. CASE generation[n] <= committed
      BY <2>2, <3>1
    <3>2. CASE ~(generation[n] <= committed)
      <4>1. generation[n] <= generation[m]
        BY <2>1, <2>3, <3>2 DEF RecordCommit, Newest
      <4>2. m # n /\ Admitted(m)
        BY <1>3, <2>3 DEF RecordCommit, Local, Admitted
      <4>3. generation[m] # generation[n]
        BY <1>3, <4>2 DEF Numbering, Given, Announced
      <4>4. Admitted(m)' /\ generation'[m] = generation[m]
        BY <4>2, AdmittedStays
      <4>5. generation'[m] > generation'[n]
        BY <2>1, <4>1, <4>3, <4>4
      <4> QED
        BY <4>4, <4>5
    <3> QED
      BY <3>1, <3>2
  <2>4. live /\ ~Evict
    BY <1>3 DEF Idle, Evict
  <2>5. CASE \A m \in Mutation : ~RecordCommit(m)
    <3>1. committed' = committed
      BY <2>4, <2>5, CoordinatorStays DEF coordinator
    <3> QED
      BY <2>1, <2>2, <3>1
  <2> QED
    BY <2>3, <2>5
<1> QED
  BY <1>1, <1>2, <1>3

-----------------------------------------------------------------------------
(* The order of the changes.                                               *)

(* What a change follows is older than it, and than what it expects.       *)
LEMMA ChangeFollows ==
  ASSUME TypeOK, Exclusion, Idle, Numbering, Local, Cleared, Remembered,
         NEW m \in Mutation, Change(m),
         NEW i \in DOMAIN log, Follows(m, log[i])
  PROVE  /\ generation[log[i]] < generation[m]
         /\ expected[m] # None => generation[log[i]] <= expected[m]
<1> USE DEF TypeOK
<1>1. log[i] \in Mutation /\ Logged(log[i])
  BY DEF Logged
<1>2. phase[m] = "checked" /\ live
  BY DEF Change, At, Idle
<1>3. log[i] # m /\ phase[log[i]] # "written"
  BY <1>1, <1>2 DEF Local, Exclusion, Holding
<1>4. generation[log[i]] \in Nat /\ generation[m] \in Nat
      /\ expected[m] \in Nat \cup {None}
  BY <1>1
<1>5. /\ generation[m] > compacted
      /\ expected[m] # None => expected[m] >= compacted
  BY <1>2, <1>4 DEF Cleared, Unexpected
<1>6. CASE generation[log[i]] <= compacted
  BY <1>4, <1>5, <1>6
<1>7. CASE \A s \in CommitsOf[log[i]] : tracked[s] >= generation[log[i]]
  <2>1. PICK a \in ScopesOf[m], b \in CommitsOf[log[i]] : Intersects(a, b)
    BY DEF Follows, Overlap
  <2>2. b \in Scope /\ Overlap(ScopesOf[m], {b})
    BY <1>1, <2>1, ScopeAssumption DEF Overlap
  <2>3. tracked[b] \in Nat /\ tracked[b] >= generation[log[i]]
    BY <1>7, <2>1, <2>2
  <2>4. ~(tracked[b] > generation[m])
    BY <1>2, <2>2 DEF Cleared, ChangedAfter
  <2>5. generation[log[i]] # generation[m]
    BY <1>1, <1>3 DEF Numbering
  <2>6. generation[log[i]] < generation[m]
    BY <1>4, <2>3, <2>4, <2>5
  <2>7. ASSUME expected[m] # None PROVE generation[log[i]] <= expected[m]
    <3>1. ~(tracked[b] > expected[m])
      BY <1>2, <2>2, <2>7 DEF Cleared, Unexpected, ChangedAfter
    <3> QED
      BY <1>4, <2>3, <2>7, <3>1
  <2> QED
    BY <2>6, <2>7
<1> QED
  BY <1>2, <1>3, <1>6, <1>7 DEF Remembered

LEMMA OrderedKept ==
  ASSUME TypeOK, Exclusion, Idle, Numbering, Local, Cleared, Remembered,
         Ordered, [Next]_vars
  PROVE  Ordered'
<1> DEFINE Right(a, b) ==
      Follows(b, a) =>
        /\ generation[a] < generation[b]
        /\ expected[b] # None => generation[a] <= expected[b]
<1>1. \A i, j \in DOMAIN log : i < j => Right(log[i], log[j])
  BY DEF Ordered, OverlapsInOrder, ExpectationHonoured
<1>2. ASSUME NEW i \in DOMAIN log
      PROVE  /\ generation'[log[i]] = generation[log[i]]
             /\ expected'[log[i]] = expected[log[i]]
  <2>1. log[i] \in Mutation /\ Logged(log[i])
    BY DEF Logged, TypeOK
  <2> QED
    BY <2>1, NumbersStay DEF Local
<1>3. \A i, j \in DOMAIN log' : i < j => Right(log[i], log[j])'
  <2>1. CASE log' = log
    BY <1>1, <1>2, <2>1 DEF Follows
  <2>2. ASSUME NEW m \in Mutation, Change(m)
        PROVE  \A i, j \in DOMAIN log' : i < j => Right(log[i], log[j])'
    <3>1. /\ DOMAIN log' = DOMAIN log \cup {Len(log) + 1}
          /\ \A i \in DOMAIN log : log'[i] = log[i] /\ i < Len(log) + 1
          /\ log'[Len(log) + 1] = m
      BY <2>2, LogGrows DEF Change
    <3>2. generation' = generation /\ expected' = expected
      BY <2>2 DEF Change, callers
    <3> SUFFICES ASSUME NEW i \in DOMAIN log', NEW j \in DOMAIN log', i < j
                 PROVE  Right(log[i], log[j])'
      OBVIOUS
    <3>3. i \in DOMAIN log
      BY <3>1 DEF TypeOK
    <3>4. CASE j \in DOMAIN log
      BY <1>1, <3>1, <3>2, <3>3, <3>4 DEF Follows
    <3>5. CASE j = Len(log) + 1
      <4>1. Right(log[i], m)
        BY <2>2, <3>3, ChangeFollows
      <4> QED
        BY <3>1, <3>2, <3>3, <3>5, <4>1 DEF Follows
    <3> QED
      BY <3>1, <3>4, <3>5
  <2> QED
    BY <2>1, <2>2, LogStays
<1> QED
  BY <1>3 DEF Ordered, OverlapsInOrder, ExpectationHonoured

-----------------------------------------------------------------------------
(* What the windows know, and who is refused.                              *)

LEMMA KnownKept ==
  ASSUME TypeOK, Idle, Numbering, Local, KnownIsOld, [Next]_vars
  PROVE  KnownIsOld'
<1> USE DEF TypeOK
<1>1. Authority' >= Authority /\ Authority \in Nat /\ Authority' \in Nat
  <2>1. TypeOK'
    BY NextTypes
  <2>2. Authority' \in Nat
    BY <2>1, BelowIsNat DEF Authority, Watermark
  <2> QED
    BY <2>2, AuthorityGrows, WatermarkType
<1>2. CASE known' = known
  BY <1>1, <1>2 DEF KnownIsOld
<1>3. ASSUME NEW v \in Window, ReadGeneration(v) PROVE KnownIsOld'
  <2>1. Authority' = committed'
    BY <1>3 DEF ReadGeneration, Open, Authority, coordinator
  <2>2. ASSUME NEW w \in Window PROVE known'[w] <= Authority'
    <3>1. known'[w] = known[w] \/ known'[w] = committed'
      BY <1>3 DEF ReadGeneration
    <3> QED
      BY <1>1, <2>1, <3>1 DEF KnownIsOld
  <2> QED
    BY <2>2 DEF KnownIsOld
<1>4. ASSUME NEW m \in Mutation, Return(m) PROVE KnownIsOld'
  <2>0. phase[m] = "returning" /\ live
    BY <1>4 DEF Return, At, Idle
  <2>1. Result(m) \in Nat /\ Result(m) <= committed
    <3>1. CASE outcome[m] = "changed"
      BY <2>0, <3>1 DEF Result, Local
    <3>2. CASE outcome[m] # "changed"
      BY <3>2 DEF Result
    <3> QED
      BY <3>1, <3>2
  <2>2. Authority = committed
    BY <2>0 DEF Authority
  <2>3. ASSUME NEW w \in Window PROVE known'[w] <= Authority'
    <3>1. known'[w] = known[w] \/ known'[w] = Result(m)
      BY <1>4, OwnerAssumption DEF Return
    <3> QED
      BY <1>1, <2>1, <2>2, <3>1 DEF KnownIsOld
  <2> QED
    BY <2>3 DEF KnownIsOld
<1>5. \/ known' = known
      \/ \E w \in Window : ReadGeneration(w)
      \/ \E m \in Mutation : Return(m)
  <2>1. ASSUME NEW m \in Mutation, Request(m) PROVE known' = known
    BY <2>1 DEF Request, Arrive, TooManyProjects, Abandon, callers
  <2>2. ASSUME NEW m \in Mutation, Advance(m), ~Return(m)
        PROVE  known' = known
    BY <2>2 DEF Advance, Number, Announce, TooManyPending, TakeOperation,
       LockRefused, Preflight, Refuse, OperationFails, Unchanged, Change,
       RecordCommit, Release, Drop, callers
  <2>3. CASE Evict \/ Elsewhere \/ UNCHANGED vars
    BY <2>3 DEF Evict, Elsewhere, vars, callers
  <2> QED
    BY <2>1, <2>2, <2>3 DEF Next
<1> QED
  BY <1>2, <1>3, <1>4, <1>5

(* A preflight that expects nothing refuses only who is overtaken.         *)
LEMMA RefusedIsOvertaken ==
  ASSUME TypeOK, Numbering, Local, PendingIsLive, Overtaken,
         NEW m \in Mutation, Refuse(m), expected[m] = None
  PROVE  \E n \in Mutation : Admitted(n) /\ generation[n] > generation[m]
<1> USE DEF TypeOK
<1>1. phase[m] = "operating" /\ generation[m] \in Nat
  BY DEF Refuse, At
<1>2. CASE generation[m] <= committed
  BY <1>1, <1>2 DEF Overtaken, Queued
<1>3. CASE generation[m] <= compacted
  BY <1>1, <1>2, <1>3 DEF Numbering
<1>4. CASE ChangedAfter(m, generation[m])
  BY <1>1, <1>2, <1>4 DEF ChangedAfter, Numbering
<1>5. CASE NewerPending(m)
  <2>1. PICK n \in pending : generation[n] > generation[m]
    BY <1>5 DEF NewerPending
  <2>2. n \in Mutation /\ phase[n] \in Announced
    BY DEF PendingIsLive
  <2>3. Admitted(n)
    BY <2>2 DEF Admitted, Announced, Local
  <2> QED
    BY <2>1, <2>2, <2>3
<1> QED
  BY <1>3, <1>4, <1>5 DEF Refuse, Conflict, Unexpected

LEMMA RefusalsKept ==
  ASSUME TypeOK, Numbering, Local, PendingIsLive, Overtaken, OnlyNewerRefuses,
         [Next]_vars
  PROVE  OnlyNewerRefuses'
<1> SUFFICES ASSUME NEW m \in Mutation,
                    outcome'[m] = "conflict", expected'[m] = None
             PROVE  \E n \in Mutation :
                      Admitted(n)' /\ generation'[n] > generation'[m]
  BY DEF OnlyNewerRefuses
<1> USE DEF TypeOK, At, To, Ends, callers
<1>1. Refuse(m) \/ outcome[m] = "conflict"
  <2>1. ASSUME NEW k \in Mutation, Request(k) PROVE <1>1!:
    BY <2>1 DEF Request, Arrive, TooManyProjects, Abandon
  <2>2. ASSUME NEW k \in Mutation, Advance(k) PROVE <1>1!:
    BY <2>2 DEF Advance, Number, Announce, TooManyPending, TakeOperation,
                LockRefused, Preflight, Refuse, OperationFails, Unchanged,
                Change, RecordCommit, Return, Release, Drop
  <2>3. CASE \E w \in Window : ReadGeneration(w)
    BY <2>3 DEF ReadGeneration
  <2>4. CASE Evict \/ Elsewhere \/ UNCHANGED vars
    BY <2>4 DEF Evict, Elsewhere, vars
  <2> QED
    BY <2>1, <2>2, <2>3, <2>4 DEF Next
<1>2. phase[m] \notin {"new", "arrived"}
  BY <1>1 DEF Refuse, Local
<1>3. generation'[m] = generation[m] /\ expected[m] = None
  BY <1>2, NumbersStay
<1>4. PICK n \in Mutation : Admitted(n) /\ generation[n] > generation[m]
  <2>1. CASE Refuse(m)
    BY <1>3, <2>1, RefusedIsOvertaken
  <2>2. CASE outcome[m] = "conflict"
    BY <1>3, <2>2 DEF OnlyNewerRefuses
  <2> QED
    BY <1>1, <2>1, <2>2
<1>5. Admitted(n)' /\ generation'[n] = generation[n]
  BY <1>4, AdmittedStays
<1> QED
  BY <1>3, <1>4, <1>5

-----------------------------------------------------------------------------
(* The theorems.                                                           *)

LEMMA InitInvariant == Init => IInv
<1> SUFFICES ASSUME Init PROVE IInv
  OBVIOUS
<1>1. TypeOK
  <2>1. log \in Seq(Mutation)
    BY DEF Init
  <2>2. /\ phase \in [Mutation -> Phases]
        /\ generation \in [Mutation -> Nat]
        /\ expected \in [Mutation -> Nat \cup {None}]
        /\ outcome \in [Mutation -> Outcomes]
        /\ known \in [Window -> Nat] /\ tracked \in [Scope -> Nat]
    BY DEF Init, Untracked, Phases, Outcomes
  <2>3. next \in Nat \ {0} /\ committed \in Nat /\ compacted \in Nat
    BY DEF Init
  <2>4. pending \subseteq Mutation /\ operation \in Mutation \cup {None}
    BY DEF Init
  <2>5. live \in BOOLEAN
    BY DEF Init
  <2> QED
    BY <2>1, <2>2, <2>3, <2>4, <2>5 DEF TypeOK
<1>2. Exclusion /\ Idle /\ Local /\ PendingIsLive /\ Cleared
  BY NoneAssumption DEF Init, Exclusion, Holding, Idle, Local, Logged,
     PendingIsLive, Announced, Cleared
<1>3. Numbering /\ Remembered /\ Overtaken /\ Ordered /\ OnlyNewerRefuses
  BY DEF Init, Numbering, Given, Announced, Logged, Untracked, Remembered,
     Overtaken, Queued, Ordered, OverlapsInOrder, ExpectationHonoured,
     OnlyNewerRefuses
<1>4. KnownIsOld
  BY DEF Init, KnownIsOld, Authority, Watermark
<1> QED
  BY <1>1, <1>2, <1>3, <1>4 DEF IInv

LEMMA NextInvariant == IInv /\ [Next]_vars => IInv'
<1> SUFFICES ASSUME IInv, [Next]_vars PROVE IInv'
  OBVIOUS
<1>1. TypeOK' /\ Exclusion' /\ Idle' /\ PendingIsLive'
  BY NextTypes, ExclusionKept, IdleKept, PendingKept DEF IInv
<1>2. Numbering' /\ Local' /\ KnownIsOld'
  BY NumberingKept, LocalKept, KnownKept DEF IInv
<1>3. Cleared' /\ Remembered' /\ Ordered'
  BY ClearedKept, RememberedKept, OrderedKept DEF IInv
<1>4. Overtaken' /\ OnlyNewerRefuses'
  BY OvertakenKept, RefusalsKept DEF IInv
<1> QED
  BY <1>1, <1>2, <1>3, <1>4 DEF IInv

(* The inductive invariant holds in every reachable state, for any         *)
(* windows, mutations, scopes and limits.                                  *)
THEOREM Admission == Spec => []IInv
BY InitInvariant, NextInvariant, PTL DEF Spec

(* Every variable keeps its type.                                          *)
THEOREM AdmissionTypes == Spec => []TypeOK
<1>1. IInv => TypeOK
  BY DEF IInv
<1> QED
  BY <1>1, Admission, PTL

(* However the commands are delayed, changes that overlap are made in the  *)
(* order in which they were admitted, whatever has been compacted since.   *)
THEOREM OrderOfOverlaps == Spec => []OverlapsInOrder
<1>1. IInv => OverlapsInOrder
  BY DEF IInv, Ordered
<1> QED
  BY <1>1, Admission, PTL

(* An expected generation is honoured: what is remembered and what is      *)
(* compacted together stand for every change that was ever made.           *)
THEOREM Expectations == Spec => []ExpectationHonoured
<1>1. IInv => ExpectationHonoured
  BY DEF IInv, Ordered
<1> QED
  BY <1>1, Admission, PTL

(* No window is ahead of the coordinator, also after an eviction.          *)
THEOREM KnowledgeIsOld == Spec => []KnownIsOld
<1>1. IInv => KnownIsOld
  BY DEF IInv
<1> QED
  BY <1>1, Admission, PTL

(* A change without expectation is refused only for a newer one.           *)
THEOREM Refusals == Spec => []OnlyNewerRefuses
<1>1. IInv => OnlyNewerRefuses
  BY DEF IInv
<1> QED
  BY <1>1, Admission, PTL

(* The pending entries are those of the mutations under way.               *)
THEOREM PendingEntries == Spec => []PendingIsLive
<1>1. IInv => PendingIsLive
  BY DEF IInv
<1> QED
  BY <1>1, Admission, PTL

(* What a window can read never goes back, through commit, compaction,     *)
(* eviction and return.                                                    *)
THEOREM GenerationsAdvance == Spec => GenerationAdvances
<1>1. IInv /\ [Next]_vars => [Authority' >= Authority]_vars
  BY AuthorityGrows DEF IInv
<1> QED
  BY <1>1, Admission, PTL DEF Spec, GenerationAdvances
=============================================================================
