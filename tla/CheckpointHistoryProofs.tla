----------------------- MODULE CheckpointHistoryProofs -----------------------
(***************************************************************************)
(* The checkpoint store implements CheckpointHistory, whatever its numbers *)
(* of processes, snapshots, chunks and archives and whatever its faults:   *)
(* each step maps to one step of the plain history or to a stutter.        *)
(***************************************************************************)
EXTENDS CheckpointStoreProofs

LEMMA InitRefines == Init => History!Init
BY DEF Init, History!Init

(* What neither commits nor trims leaves the history alone.                *)
LEMMA OthersStutter ==
  ASSUME [Next]_vars, ~Trim,
         \A p \in Proc : ~CommitPublication(p) /\ ~CommitImport(p)
  PROVE  UNCHANGED History!hvars
<1>1. ASSUME NEW p \in Proc, Begin(p) \/ Kill(p)
      PROVE  UNCHANGED <<checkpoints, named, lineage>>
  BY <1>1
  DEF Begin, Stage, ImportLoad, Load, ReadCheckpoint, Verify, ExportHistory,
      GarbageCollect, Collect, Open, Kill, catalog
<1>2. ASSUME NEW p \in Proc, Advance(p)
      PROVE  UNCHANGED <<checkpoints, named, lineage>>
  BY <1>2
  DEF Advance, PublishExisting, MovePack, ReusePack, SyncPack, Abandon, Unlink,
      Unlinked, RemoveOrphan, Swept, SweepFails, ReadChunk, ReadDone, catalog
<1>3. ASSUME PowerLoss \/ UNCHANGED vars
      PROVE  UNCHANGED <<checkpoints, named, lineage>>
  BY <1>3 DEF PowerLoss, vars, catalog
<1> QED BY <1>1, <1>2, <1>3 DEF Next, History!hvars

(* A publication records one new snapshot as the newest.                   *)
LEMMA PublicationRecords ==
  ASSUME IInv, NEW p \in Proc, CommitPublication(p)
  PROVE  \E root \in Root : History!Record(root)
<1>1. /\ phase[p] = "packed" /\ HasCandidate(p) /\ ~Importing(p)
      /\ checkpoints' = checkpoints \o incoming[p].roots
      /\ UNCHANGED <<named, lineage>>
      /\ checkpoints \in Seq(Root)
  BY DEF IInv, Types, CommitPublication, HasCandidate
<1>2. PICK root \in Root : incoming[p] = Brings(<<root>>)
  BY <1>1 DEF IInv, Local, CandidateOK
<1>3. incoming[p].roots = <<root>>
  BY <1>2 DEF Brings
<1>4. root \notin Visible
  BY <1>1, <1>3 DEF IInv, Local, CandidateOK
<1>5. checkpoints' = Append(checkpoints, root)
  BY <1>1, <1>3, AppendIsConcat
<1> QED
  BY <1>1, <1>4, <1>5
  DEF History!Record, History!Listed, History!Range, Visible, Range

(* An import adopts what the history did not have, labels included.        *)
LEMMA ImportAdopts ==
  ASSUME IInv, NEW p \in Proc, CommitImport(p)
  PROVE  \E older \in UNION {[1..n -> Root] : n \in 0..Len(checkpoints')} :
           \E labels \in SUBSET Range(older) : History!Adopt(older, labels)
<1> DEFINE archive == incoming[p]
<1>1. /\ archive.roots \in Seq(Root) /\ Range(archive.roots) \subseteq Root
      /\ archive.lineage \in Lineage
      /\ checkpoints \in Seq(Root)
  BY RangeType DEF IInv, Types, Candidates, CommitImport, Importing
<1>2. PICK older \in Lists(Range(archive.roots), Len(archive.roots)) :
        /\ IsMissing(older, archive.roots)
        /\ checkpoints' = Adopted(older)
        /\ named' = named \cup (archive.named \cap Range(older))
  BY DEF CommitImport
<1>3. older \in Seq(Root)
  BY <1>1, ListsType, LenProperties
<1>4. checkpoints' = older \o checkpoints
      /\ Range(older) \cap Visible = {}
  BY <1>2 DEF Adopted, IsMissing
<1>5. older \in UNION {[1..n -> Root] : n \in 0..Len(checkpoints')}
  <2>1. Len(older) \in 0..Len(checkpoints')
    BY <1>1, <1>3, <1>4, ConcatProperties, LenProperties
  <2>2. older \in [1..Len(older) -> Root]
    BY <1>3, LenProperties
  <2> QED BY <2>1, <2>2
<1>6. lineage' \in Lineage /\ (checkpoints # <<>> => lineage' = lineage)
  BY <1>1 DEF CommitImport, IInv, Types
<1>7. History!Adopt(older, archive.named \cap Range(older))
  BY <1>2, <1>4, <1>6
  DEF History!Adopt, History!Listed, History!Range, Visible, Range
<1> QED BY <1>5, <1>7

(* Trimming forgets some snapshots and keeps the order of the others.      *)
LEMMA TrimForgets ==
  ASSUME IInv, Trim
  PROVE  \/ \E root \in Root : History!Label(root)
         \/ \E kept \in SUBSET History!Listed : History!Forget(kept)
<1>1. /\ checkpoints \in Seq(Root) /\ IsInjective(checkpoints)
      /\ named \subseteq Visible
  BY DEF IInv, Types, Closed, CatalogClosed
<1>2. ASSUME NEW root \in Root, NEW labelled \in BOOLEAN,
             SetLabel(root, labelled)
      PROVE  History!Label(root)
  BY <1>2
  DEF SetLabel, History!Label, History!Listed, History!Range, Visible, Range
<1>3. ASSUME NEW i \in DOMAIN checkpoints, DeleteCheckpoint(i)
      PROVE  History!Forget(Visible \ {checkpoints[i]})
  <2>1. i \in 1..Len(checkpoints)
    BY <1>1, LenProperties
  <2>2. /\ checkpoints' \in Seq(Root)
        /\ Len(checkpoints') = Len(checkpoints) - 1
        /\ \A j \in 1..(i - 1) : checkpoints'[j] = checkpoints[j]
        /\ \A j \in i..(Len(checkpoints) - 1) :
             checkpoints'[j] = checkpoints[j + 1]
    BY <1>1, <1>3, <2>1, RemoveAtShape DEF DeleteCheckpoint
  <2>3. Range(checkpoints') = Visible \ {checkpoints[i]}
    BY <1>1, <1>3, <2>1, RemoveAtProperties DEF DeleteCheckpoint, Visible
  <2>4. ASSUME NEW j \in DOMAIN checkpoints',
               NEW k \in DOMAIN checkpoints', j < k
        PROVE  \E m, n \in DOMAIN checkpoints :
                 /\ m < n /\ checkpoints[m] = checkpoints'[j]
                 /\ checkpoints[n] = checkpoints'[k]
    <3> DEFINE from(n) == IF n < i THEN n ELSE n + 1
    <3>1. /\ DOMAIN checkpoints = 1..Len(checkpoints)
          /\ DOMAIN checkpoints' = 1..(Len(checkpoints) - 1)
          /\ Len(checkpoints) \in Nat
      BY <1>1, <2>2, LenProperties
    <3>2. \A n \in DOMAIN checkpoints' :
            /\ from(n) \in DOMAIN checkpoints
            /\ checkpoints'[n] = checkpoints[from(n)]
      BY <2>1, <2>2, <3>1
    <3>3. from(j) < from(k)
      BY <2>1, <2>4, <3>1
    <3> QED BY <3>2, <3>3
  <2>5. named' = named \cap (Visible \ {checkpoints[i]}) /\ lineage' = lineage
    BY <1>1, <1>3 DEF DeleteCheckpoint
  <2>6. Len(checkpoints') <= Len(checkpoints)
    BY <1>1, <2>2, LenProperties
  <2> QED BY <2>3, <2>4, <2>5, <2>6 DEF History!Forget, History!Range, Range
<1>4. CASE KeepLatest
  <2>1. Len(checkpoints) \in Nat /\ Len(checkpoints) >= 1
        /\ NewestVisible \in Visible
    BY <1>1, <1>4, EmptySeq, LenProperties
    DEF KeepLatest, NewestVisible, Visible, Range
  <2>2. checkpoints' = <<NewestVisible>> /\ lineage' = lineage
        /\ named' = named \cap {NewestVisible}
    BY <1>4 DEF KeepLatest
  <2>3. Len(checkpoints') = 1 /\ DOMAIN checkpoints' = {1}
        /\ Range(checkpoints') = {NewestVisible}
    BY <2>2 DEF Range
  <2>4. History!Forget({NewestVisible})
    BY <2>1, <2>2, <2>3 DEF History!Forget, History!Range, Range
  <2> QED BY <2>1, <2>4 DEF History!Listed, History!Range, Visible, Range
<1>5. CASE Reset
  <2>1. checkpoints' = <<>> /\ named' = {} /\ lineage' = lineage
    BY <1>5 DEF Reset
  <2>2. Len(checkpoints) \in Nat
    BY <1>1, LenProperties
  <2>3. History!Forget({})
    BY <2>1, <2>2 DEF History!Forget, History!Range, Range
  <2> QED BY <2>3
<1>6. ASSUME NEW i \in DOMAIN checkpoints
      PROVE  Visible \ {checkpoints[i]} \in SUBSET History!Listed
  BY DEF Visible, Range, History!Listed, History!Range
<1> QED BY <1>2, <1>3, <1>4, <1>5, <1>6 DEF Trim

LEMMA StepRefines == IInv /\ [Next]_vars => [History!Next]_(History!hvars)
<1> SUFFICES ASSUME IInv, [Next]_vars PROVE [History!Next]_(History!hvars)
  OBVIOUS
<1>1. ASSUME NEW p \in Proc, CommitPublication(p) PROVE History!Next
  BY <1>1, PublicationRecords DEF History!Next
<1>2. ASSUME NEW p \in Proc, CommitImport(p) PROVE History!Next
  BY <1>2, ImportAdopts DEF History!Next, History!Range, Range
<1>3. CASE Trim
  BY <1>3, TrimForgets DEF History!Next
<1> QED BY <1>1, <1>2, <1>3, OthersStutter

(* Whoever uses the store through any number of processes, with kills,     *)
(* failing calls and power losses, sees the plain history of snapshots     *)
(* that CheckpointHistory describes.                                       *)
THEOREM Refinement == Spec => KeepsHistory
BY InitRefines, StepRefines, Invariance, PTL
DEF Spec, KeepsHistory, History!Spec
=============================================================================
