------------------------ MODULE CheckpointStoreProofs ------------------------
(***************************************************************************)
(* The safety properties of CheckpointStore, proved for every number of    *)
(* processes, snapshots, chunks, archives and for every history limit.     *)
(*                                                                         *)
(* The inductive invariant IInv has five parts.  Types; Exclusion, that a  *)
(* phase is exclusive exactly for the holder of the lock; Local, what a    *)
(* process relies on between two of its steps (its candidate, its garbage, *)
(* its unread chunks); Closed, that the tables agree; and FilesOK, that    *)
(* the files the catalog names exist, which is where the faults matter.    *)
(* Exclusion carries the argument: while one process writes all others are *)
(* idle, so a change of the catalog can disturb only its own Local part.   *)
(***************************************************************************)
EXTENDS CheckpointStore, SequenceTheorems, TLAPS

Types ==
  /\ chunks \in [Chunk -> SUBSET Chunk]
  /\ manifests \subseteq Root
  /\ checkpoints \in Seq(Root)
  /\ named \subseteq Root
  /\ lineage \in Lineage
  /\ packs \subseteq SUBSET Chunk /\ durable \subseteq SUBSET Chunk
  /\ staging \subseteq Proc
  /\ writer \in Proc \cup {NoProc}
  /\ readers \subseteq Proc
  /\ phase \in [Proc -> Phases]
  /\ incoming \in [Proc -> Candidates]
  /\ fresh \in [Proc -> SUBSET Chunk]
  /\ doomed \in [Proc -> SUBSET SUBSET Chunk]
  /\ unread \in [Proc -> SUBSET Chunk]

LEMMA NoCandidateType == NoCandidate \in Candidates
BY DEF NoCandidate, Brings, Candidates

LEMMA ChunksOfAllType ==
  ASSUME NEW roots \in SUBSET Root
  PROVE  ChunksOfAll(roots) \subseteq Chunk
BY RootAssumption DEF ChunksOfAll

LEMMA RangeType ==
  ASSUME NEW S, NEW s \in Seq(S)
  PROVE  Range(s) \subseteq S
BY DEF Range

LEMMA ListsType ==
  ASSUME NEW S, NEW T \in SUBSET S, NEW longest \in Nat,
         NEW list \in Lists(T, longest)
  PROVE  list \in Seq(S)
<1>1. PICK n \in 0..longest : list \in [1..n -> T]
  BY DEF Lists
<1>2. list \in [1..n -> S]
  BY <1>1
<1> QED
  BY <1>1, <1>2, IsASeq

LEMMA ReturnTypes ==
  ASSUME Types, NEW p \in Proc, Return(p)
  PROVE  /\ writer' \in Proc \cup {NoProc}
         /\ readers' \subseteq Proc
         /\ phase' \in [Proc -> Phases]
         /\ incoming' \in [Proc -> Candidates]
         /\ fresh' \in [Proc -> SUBSET Chunk]
         /\ doomed' \in [Proc -> SUBSET SUBSET Chunk]
         /\ unread' \in [Proc -> SUBSET Chunk]
BY NoCandidateType DEF Types, Return, Phases

LEMMA InitTypes == Init => Types
BY NoCandidateType DEF Init, Types, Phases

LEMMA BeginTypes ==
  ASSUME Types, NEW p \in Proc, Begin(p)
  PROVE  Types'
<1>1. ASSUME NEW root \in Root, Stage(p, root) PROVE Types'
  <2> DEFINE cand == Brings(<<root>>)
  <2>1. cand \in Candidates
    BY DEF NoCandidate, Brings, Candidates
  <2>2. /\ fresh' = [fresh EXCEPT ![p] = ChunksOfAll(Range(cand.roots)) \ Known]
        /\ incoming' = [incoming EXCEPT ![p] = cand]
    BY <1>1 DEF Stage, Hold, HoldExcept
  <2>3. ChunksOfAll(Range(cand.roots)) \subseteq Chunk
    BY <2>1, RangeType, ChunksOfAllType DEF Candidates
  <2> QED
    BY <1>1, <2>1, <2>2, <2>3
    DEF Types, Stage, LockExclusive, Goto, Phases, ExclusivePhases, catalog
<1>2. ASSUME NEW archive \in Archive, ImportLoad(p, archive) PROVE Types'
  <2>1. archive \in Candidates
    BY ArchiveAssumption DEF Archives, Candidates
  <2>3. ChunksOfAll(Range(archive.roots)) \subseteq Chunk
    BY <2>1, RangeType, ChunksOfAllType DEF Candidates
  <2> QED
    BY <1>2, <2>1, <2>3
    DEF Types, ImportLoad, Load, Hold, HoldExcept, LockExclusive, Goto, Phases,
        ExclusivePhases, catalog
<1>3. ASSUME NEW root \in Root, ReadCheckpoint(p, root) PROVE Types'
  BY <1>3, RootAssumption
  DEF Types, ReadCheckpoint, LockShared, Goto, Phases, catalog, files
<1>4. CASE Verify(p)
  BY <1>4, RangeType, ChunksOfAllType
  DEF Types, Verify, LockShared, Goto, Phases, catalog, files, Known, Visible
<1>5. CASE ExportHistory(p)
  BY <1>5, RangeType, ChunksOfAllType
  DEF Types, ExportHistory, LockShared, Goto, Phases, catalog, files, Visible
<1>6. CASE GarbageCollect(p)
  BY <1>6, RangeType
  DEF Types, GarbageCollect, Collect, LockExclusive, Goto, Phases,
      ExclusivePhases, Visible, Catalogued, Known
<1>7. CASE Open(p)
  BY <1>7 DEF Types, Open, LockExclusive, Goto, Phases, ExclusivePhases, catalog
<1> QED
  BY <1>1, <1>2, <1>3, <1>4, <1>5, <1>6, <1>7 DEF Begin

LEMMA TrimTypes ==
  ASSUME Types, Trim
  PROVE  Types'
<1>1. ASSUME NEW root \in Root, NEW labelled \in BOOLEAN,
             SetLabel(root, labelled)
      PROVE  Types'
  BY <1>1 DEF Types, SetLabel, files, locks, local
<1>2. ASSUME NEW i \in DOMAIN checkpoints, DeleteCheckpoint(i) PROVE Types'
  <2>1. checkpoints' \in Seq(Root)
    BY <1>2 DEF Types, DeleteCheckpoint, RemoveAt
  <2> QED
    BY <1>2, <2>1 DEF Types, DeleteCheckpoint, files, locks, local
<1>3. CASE KeepLatest
  <2>1. NewestVisible \in Root
    BY <1>3, EmptySeq, LenProperties DEF Types, KeepLatest, NewestVisible
  <2> QED
    BY <1>3, <2>1 DEF Types, KeepLatest, files, locks, local
<1>4. CASE Reset
  BY <1>4 DEF Types, Reset, files, locks, local
<1> QED
  BY <1>1, <1>2, <1>3, <1>4 DEF Trim

LEMMA AdvanceTypes ==
  ASSUME Types, NEW p \in Proc, Advance(p) \/ Kill(p)
  PROVE  Types'
<1>1. CASE PublishExisting(p)
  BY <1>1, ReturnTypes DEF Types, PublishExisting, catalog
<1>2. CASE MovePack(p)
  BY <1>2 DEF Types, MovePack, catalog, locks, Goto, Phases, ExclusivePhases
<1>3. CASE ReusePack(p)
  BY <1>3
  DEF Types, ReusePack, catalog, files, locks, Goto, Phases, ExclusivePhases
<1>4. CASE SyncPack(p)
  BY <1>4 DEF Types, SyncPack, catalog, locks, Goto, Phases, ExclusivePhases
<1>5. CASE CommitPublication(p)
  <2>1. incoming[p].roots \in Seq(Root)
    BY DEF Types, Candidates
  <2>2. checkpoints' \in Seq(Root) /\ manifests' \subseteq Root
    BY <1>5, <2>1, RangeType, ConcatProperties DEF Types, CommitPublication
  <2>3. chunks' \in [Chunk -> SUBSET Chunk]
    BY <1>5 DEF Types, CommitPublication, InsertPack
  <2> QED
    BY <1>5, <2>2, <2>3, ReturnTypes DEF Types, CommitPublication
<1>6. CASE CommitImport(p)
  <2> DEFINE archive == incoming[p]
  <2>1. archive.roots \in Seq(Root)
    BY DEF Types, Candidates
  <2>2. PICK missing \in Lists(Range(archive.roots), Len(archive.roots)) :
           /\ manifests' = manifests \cup Range(missing)
           /\ checkpoints' = Adopted(missing)
           /\ named' = named \cup (archive.named \cap Range(missing))
    BY <1>6 DEF CommitImport
  <2>3. missing \in Seq(Root)
    BY <2>1, RangeType, ListsType
  <2>4. checkpoints' \in Seq(Root) /\ manifests' \subseteq Root
    BY <2>2, <2>3, RangeType, ConcatProperties DEF Types, Adopted
  <2>5. chunks' \in [Chunk -> SUBSET Chunk]
    BY <1>6 DEF Types, CommitImport, InsertPack
  <2>6. named' \subseteq Root
    BY <2>2, <2>3, RangeType DEF Types
  <2>7. lineage' \in Lineage
    BY <1>6 DEF Types, CommitImport, Importing, Candidates
  <2> QED
    BY <1>6, <2>4, <2>5, <2>6, <2>7, ReturnTypes DEF Types, CommitImport
<1>7. CASE Abandon(p)
  BY <1>7, ReturnTypes DEF Types, Abandon, catalog
<1>8. ASSUME NEW pack \in doomed[p], Unlink(p, pack) PROVE Types'
  BY <1>8 DEF Types, Unlink, catalog, locks
<1>9. CASE Unlinked(p)
  BY <1>9
  DEF Types, Unlinked, catalog, files, locks, Goto, Phases, ExclusivePhases
<1>10. ASSUME NEW pack \in packs, RemoveOrphan(p, pack) PROVE Types'
  BY <1>10 DEF Types, RemoveOrphan, catalog, locks, local
<1>11. CASE Swept(p)
  BY <1>11, ReturnTypes DEF Types, Swept, catalog
<1>12. CASE SweepFails(p)
  BY <1>12, ReturnTypes DEF Types, SweepFails, catalog, files
<1>13. ASSUME NEW c \in unread[p], ReadChunk(p, c) PROVE Types'
  BY <1>13 DEF Types, ReadChunk, catalog, files, locks
<1>14. CASE ReadDone(p)
  BY <1>14, ReturnTypes DEF Types, ReadDone, catalog, files
<1>15. CASE Kill(p)
  BY <1>15, ReturnTypes DEF Types, Kill, catalog, files
<1> QED
  BY <1>1, <1>2, <1>3, <1>4, <1>5, <1>6, <1>7, <1>8, <1>9, <1>10, <1>11,
     <1>12, <1>13, <1>14, <1>15 DEF Advance

LEMMA PowerLossTypes ==
  ASSUME Types, PowerLoss
  PROVE  Types'
<1>1. PICK left \in SUBSET (packs \cup durable) : packs' = left /\ durable' = left
  BY DEF PowerLoss
<1>2. packs' \subseteq SUBSET Chunk /\ durable' \subseteq SUBSET Chunk
  BY <1>1 DEF Types
<1>3. incoming' \in [Proc -> Candidates]
  BY NoCandidateType DEF PowerLoss
<1> QED
  BY <1>2, <1>3 DEF Types, PowerLoss, catalog, Phases, ExclusivePhases

-----------------------------------------------------------------------------
LEMMA ConcatInjective ==
  ASSUME NEW S, NEW s \in Seq(S), NEW t \in Seq(S),
         IsInjective(s), IsInjective(t), Range(s) \cap Range(t) = {}
  PROVE  IsInjective(s \o t) /\ Range(s \o t) = Range(s) \cup Range(t)
<1>1. Range(s \o t) = Range(s) \cup Range(t)
  <2>1. ASSUME NEW i \in 1..Len(s \o t)
        PROVE  (s \o t)[i] \in Range(s) \cup Range(t)
    BY <2>1, ConcatProperties DEF Range
  <2>2. ASSUME NEW i \in 1..Len(s) PROVE s[i] \in Range(s \o t)
    <3>1. i \in 1..Len(s \o t) /\ (s \o t)[i] = s[i]
      BY <2>2, ConcatProperties
    <3> QED BY <3>1, ConcatProperties DEF Range
  <2>3. ASSUME NEW i \in 1..Len(t) PROVE t[i] \in Range(s \o t)
    <3>1. Len(s) + i \in 1..Len(s \o t) /\ (s \o t)[Len(s) + i] = t[i]
      BY <2>3, ConcatProperties
    <3> QED BY <3>1, ConcatProperties DEF Range
  <2>4. Range(s \o t) \subseteq Range(s) \cup Range(t)
    <3>1. DOMAIN (s \o t) = 1..Len(s \o t)
      BY ConcatProperties
    <3> QED BY <2>1, <3>1 DEF Range
  <2>5. Range(s) \subseteq Range(s \o t)
    BY <2>2 DEF Range
  <2>6. Range(t) \subseteq Range(s \o t)
    BY <2>3 DEF Range
  <2> QED BY <2>4, <2>5, <2>6
<1>2. ASSUME NEW i \in 1..Len(s \o t), NEW j \in 1..Len(s \o t),
             (s \o t)[i] = (s \o t)[j]
      PROVE  i = j
  <2>1. CASE i <= Len(s) /\ j <= Len(s)
    BY <1>2, <2>1, ConcatProperties DEF IsInjective
  <2>2. CASE i > Len(s) /\ j > Len(s)
    BY <1>2, <2>2, ConcatProperties DEF IsInjective
  <2>3. ASSUME NEW k \in 1..Len(s), NEW l \in (Len(s) + 1)..Len(s \o t),
               (s \o t)[k] = (s \o t)[l]
        PROVE  FALSE
    BY <2>3, ConcatProperties DEF Range
  <2> QED
    BY <1>2, <2>1, <2>2, <2>3
<1> QED
  BY <1>1, <1>2, ConcatProperties DEF IsInjective

LEMMA RemoveAtShape ==
  ASSUME NEW S, NEW s \in Seq(S), NEW i \in 1..Len(s)
  PROVE  /\ RemoveAt(s, i) \in Seq(S) /\ Len(RemoveAt(s, i)) = Len(s) - 1
         /\ \A j \in 1..(i - 1) : RemoveAt(s, i)[j] = s[j]
         /\ \A j \in i..(Len(s) - 1) : RemoveAt(s, i)[j] = s[j + 1]
<1> DEFINE t == RemoveAt(s, i)
           front == SubSeq(s, 1, i - 1)
           back == SubSeq(s, i + 1, Len(s))
<1>1. /\ front \in Seq(S) /\ Len(front) = i - 1
      /\ \A j \in 1..(i - 1) : front[j] = s[j]
  BY SubSeqProperties
<1>2. /\ back \in Seq(S) /\ Len(back) = Len(s) - i
      /\ \A j \in 1..(Len(s) - i) : back[j] = s[i + j]
  BY SubSeqProperties
<1>3. t = front \o back
  BY DEF RemoveAt
<1> HIDE DEF front, back, t
<1>4. t \in Seq(S) /\ Len(t) = Len(s) - 1
  <2>1. front \o back \in Seq(S) /\ Len(front \o back) = Len(front) + Len(back)
    BY <1>1, <1>2, ConcatProperties
  <2> QED BY <1>1, <1>2, <1>3, <2>1
<1>5. ASSUME NEW j \in 1..(i - 1) PROVE t[j] = s[j]
  BY <1>1, <1>2, <1>3, ConcatProperties
<1>6. ASSUME NEW j \in i..(Len(s) - 1) PROVE t[j] = s[j + 1]
  <2>1. j - (i - 1) \in 1..(Len(s) - i) /\ t[j] = back[j - (i - 1)]
    BY <1>1, <1>2, <1>3, ConcatProperties
  <2>2. back[j - (i - 1)] = s[i + (j - (i - 1))]
    BY <1>2, <2>1
  <2> QED BY <2>1, <2>2
<1> QED BY <1>4, <1>5, <1>6 DEF t

LEMMA RemoveAtProperties ==
  ASSUME NEW S, NEW s \in Seq(S), NEW i \in 1..Len(s), IsInjective(s)
  PROVE  /\ IsInjective(RemoveAt(s, i))
         /\ Range(RemoveAt(s, i)) = Range(s) \ {s[i]}
<1> DEFINE t == RemoveAt(s, i)
<1>1. /\ t \in Seq(S) /\ Len(t) = Len(s) - 1
      /\ \A j \in 1..(i - 1) : t[j] = s[j]
      /\ \A j \in i..(Len(s) - 1) : t[j] = s[j + 1]
  BY RemoveAtShape
<1> HIDE DEF t
<1>2. IsInjective(t)
  <2>1. ASSUME NEW j \in 1..Len(t), NEW k \in 1..Len(t), t[j] = t[k]
        PROVE  j = k
    <3> DEFINE from(n) == IF n < i THEN n ELSE n + 1
    <3>1. \A n \in 1..Len(t) : from(n) \in 1..Len(s) /\ t[n] = s[from(n)]
      BY <1>1
    <3>2. from(j) = from(k)
      BY <2>1, <3>1 DEF IsInjective
    <3> QED BY <3>2
  <2> QED BY <1>1, <2>1 DEF IsInjective
<1>3. Range(t) \subseteq Range(s) \ {s[i]}
  BY <1>1 DEF IsInjective, Range
<1>4. ASSUME NEW j \in 1..Len(s), j # i PROVE s[j] \in Range(t)
  <2>1. CASE j < i
    BY <1>1, <2>1 DEF Range
  <2>2. CASE j > i
    <3>1. j - 1 \in i..(Len(s) - 1) /\ t[j - 1] = s[j]
      BY <1>1, <2>2
    <3> QED
      BY <1>1, <3>1 DEF Range
  <2> QED
    BY <1>4, <2>1, <2>2
<1>5. Range(s) \ {s[i]} \subseteq Range(t)
  BY <1>4 DEF Range
<1> QED
  BY <1>2, <1>3, <1>5 DEF t

-----------------------------------------------------------------------------
(* Who holds what of the operation lock.                                   *)
Exclusion ==
  /\ \A p \in Proc : phase[p] \in ExclusivePhases <=> writer = p
  /\ \A p \in Proc : phase[p] = "reading" <=> p \in readers
  /\ writer # NoProc => readers = {}

LEMMA AllIdle ==
  ASSUME Types, Exclusion, Unlocked
  PROVE  \A p \in Proc : phase[p] = "idle"
BY ProcAssumption DEF Types, Exclusion, Unlocked, Phases

LEMMA OthersIdle ==
  ASSUME Types, Exclusion, NEW p \in Proc, phase[p] \in ExclusivePhases
  PROVE  writer = p /\ readers = {}
         /\ \A q \in Proc \ {p} : phase[q] = "idle"
BY ProcAssumption DEF Types, Exclusion, Phases

LEMMA NoWriter ==
  ASSUME Types, Exclusion, writer = NoProc
  PROVE  \A p \in Proc : phase[p] \in {"idle", "reading"}
BY ProcAssumption DEF Types, Exclusion, Phases

LEMMA ReturnExclusion ==
  ASSUME Types, Exclusion, NEW p \in Proc, Return(p)
  PROVE  Exclusion'
<1>1. \A q \in Proc : phase'[q] = IF q = p THEN "idle" ELSE phase[q]
  BY DEF Return, Types
<1> QED
  BY <1>1, ProcAssumption DEF Types, Exclusion, Return, ExclusivePhases

LEMMA LockExclusion ==
  ASSUME Types, Exclusion, NEW p \in Proc, phase[p] = "idle",
         NEW next \in Phases \ {"idle"}, Goto(p, next),
         \/ next \in ExclusivePhases /\ LockExclusive(p)
         \/ next = "reading" /\ LockShared(p)
  PROVE  Exclusion'
<1>1. \A q \in Proc : phase'[q] = IF q = p THEN next ELSE phase[q]
  BY DEF Goto, Types
<1>2. CASE next \in ExclusivePhases /\ LockExclusive(p)
  BY <1>1, <1>2, ProcAssumption
  DEF Types, Exclusion, LockExclusive, Unlocked, ExclusivePhases
<1>3. CASE next = "reading" /\ LockShared(p)
  BY <1>1, <1>3, ProcAssumption
  DEF Types, Exclusion, LockShared, ExclusivePhases
<1> QED
  BY <1>2, <1>3

LEMMA StepExclusion ==
  ASSUME Types, Exclusion, NEW p \in Proc, phase[p] \in ExclusivePhases,
         NEW next \in ExclusivePhases, Goto(p, next), UNCHANGED locks
  PROVE  Exclusion'
<1>1. \A q \in Proc : phase'[q] = IF q = p THEN next ELSE phase[q]
  BY DEF Goto, Types
<1> QED
  BY <1>1 DEF Types, Exclusion, locks, ExclusivePhases

LEMMA SameExclusion ==
  Exclusion /\ UNCHANGED <<locks, phase>> => Exclusion'
BY DEF Exclusion, locks

LEMMA NextExclusion ==
  ASSUME Types, Exclusion, [Next]_vars
  PROVE  Exclusion'
<1>1. ASSUME NEW p \in Proc, Begin(p) PROVE Exclusion'
  BY <1>1, LockExclusion
  DEF Begin, Stage, ImportLoad, Load, ReadCheckpoint, Verify, ExportHistory,
      GarbageCollect, Collect, Open, Phases, ExclusivePhases
<1>2. ASSUME NEW p \in Proc,
             \/ PublishExisting(p) \/ CommitPublication(p) \/ CommitImport(p)
             \/ Abandon(p) \/ Swept(p) \/ SweepFails(p)
             \/ ReadDone(p) \/ Kill(p)
      PROVE  Exclusion'
  BY <1>2, ReturnExclusion
  DEF PublishExisting, CommitPublication, CommitImport, Abandon, Swept,
      SweepFails, ReadDone, Kill
<1>3. ASSUME NEW p \in Proc,
             MovePack(p) \/ ReusePack(p) \/ SyncPack(p) \/ Unlinked(p)
      PROVE  Exclusion'
  BY <1>3, StepExclusion
  DEF MovePack, ReusePack, SyncPack, Unlinked, ExclusivePhases, locks
<1>4. ASSUME NEW p \in Proc,
             \/ \E pack \in doomed[p] : Unlink(p, pack)
             \/ \E pack \in packs : RemoveOrphan(p, pack)
             \/ \E c \in unread[p] : ReadChunk(p, c)
      PROVE  Exclusion'
  BY <1>4, SameExclusion DEF Unlink, RemoveOrphan, ReadChunk, local
<1>5. CASE Trim
  BY <1>5, SameExclusion
  DEF Trim, SetLabel, DeleteCheckpoint, KeepLatest, Reset, local
<1>6. CASE PowerLoss
  BY <1>6, ProcAssumption DEF PowerLoss, Exclusion, ExclusivePhases
<1>7. CASE UNCHANGED vars
  BY <1>7, SameExclusion DEF vars, local
<1> QED
  BY <1>1, <1>2, <1>3, <1>4, <1>5, <1>6, <1>7 DEF Next, Advance

LEMMA NextTypes ==
  ASSUME Types, [Next]_vars
  PROVE  Types'
<1>1. CASE UNCHANGED vars
  BY <1>1 DEF Types, vars, catalog, files, locks, local
<1> QED
  BY <1>1, BeginTypes, AdvanceTypes, TrimTypes, PowerLossTypes DEF Next

-----------------------------------------------------------------------------
(* What a process relies on between two steps of its operation.            *)
CandidateOK(p) ==
  HasCandidate(p) =>
    /\ p \in staging
    /\ fresh[p] = ChunksOfAll(Range(incoming[p].roots)) \ Known
    /\ ~Importing(p) => \E root \in Root : incoming[p] = Brings(<<root>>)
    /\ phase[p] # "staged" /\ ~Importing(p)
         => Head(incoming[p].roots) \notin Visible
    /\ Importing(p) /\ checkpoints # <<>> => incoming[p].lineage = lineage

GarbageOK(p) ==
  /\ doomed[p] \cap Catalogued = {}
  /\ phase[p] # "unlinking" => doomed[p] = {}

ReaderOK(p) ==
  /\ unread[p] \subseteq Known
  /\ phase[p] # "reading" => unread[p] = {}

Local == \A p \in Proc : CandidateOK(p) /\ GarbageOK(p) /\ ReaderOK(p)

Closed == CatalogClosed /\ IsInjective(checkpoints)

LEMMA InsertPackProperties ==
  ASSUME Types, CatalogClosed, NEW p \in Proc, InsertPack(p),
         fresh[p] \cap Known = {}
  PROVE  /\ Known' = Known \cup fresh[p]
         /\ Catalogued' = Catalogued \cup ({fresh[p]} \ {{}})
         /\ \A c \in Known' : c \in chunks'[c] /\ RowsOf(chunks[c])' = chunks'[c]
<1> DEFINE F == fresh[p]
<1>1. F \subseteq Chunk
  BY DEF Types
<1>2. \A c \in Chunk : chunks'[c] = IF c \in F THEN F ELSE chunks[c]
  BY DEF InsertPack
<1>3. Known' = Known \cup F
  BY <1>1, <1>2 DEF Known
<1>4. Catalogued' = Catalogued \cup ({F} \ {{}})
  BY <1>1, <1>2, <1>3 DEF Catalogued, Known
<1>5. \A c \in Known : c \notin F /\ chunks[c] # F
  BY <1>1 DEF CatalogClosed
<1>6. ASSUME NEW c \in Known'
      PROVE  c \in chunks'[c] /\ {d \in Chunk : chunks'[d] = chunks'[c]} = chunks'[c]
  <2>1. CASE c \in F
    <3>1. chunks'[c] = F
      BY <1>1, <1>2, <2>1
    <3>2. ASSUME NEW d \in Chunk PROVE chunks'[d] = F <=> d \in F
      BY <1>2, <1>5, <2>1 DEF Known
    <3> QED BY <1>1, <2>1, <3>1, <3>2
  <2>2. CASE c \in Known
    <3>1. chunks'[c] = chunks[c] /\ c \in Chunk
      BY <1>2, <1>5, <2>2 DEF Known
    <3>2. ASSUME NEW d \in Chunk
          PROVE  chunks'[d] = chunks[c] <=> chunks[d] = chunks[c]
      BY <1>2, <1>5, <2>2 DEF CatalogClosed, RowsOf, Known
    <3>3. c \in chunks[c] /\ {d \in Chunk : chunks[d] = chunks[c]} = chunks[c]
      BY <2>2 DEF CatalogClosed, RowsOf
    <3> QED BY <3>1, <3>2, <3>3
  <2> QED BY <1>3, <1>6, <2>1, <2>2
<1> QED
  BY <1>3, <1>4, <1>6 DEF RowsOf

LEMMA CollectProperties ==
  ASSUME Types, CatalogClosed, NEW p \in Proc, GarbageCollect(p)
  PROVE  /\ CatalogClosed'
         /\ Catalogued' = Catalogued \ doomed'[p]
         /\ doomed'[p] \subseteq Catalogued
<1> DEFINE unused == {pack \in Catalogued :
                        RowsOf(pack) \cap ChunksOfAll(Visible) = {}}
<1>1. /\ \A c \in Chunk : chunks'[c] = IF chunks[c] \in unused THEN {} ELSE chunks[c]
      /\ doomed'[p] = unused
      /\ manifests' = Visible
      /\ UNCHANGED <<checkpoints, named, lineage>>
  BY DEF GarbageCollect, Collect, Types
<1>2. Known' = {c \in Known : chunks[c] \notin unused}
  BY <1>1 DEF Known
<1>3. Catalogued' = Catalogued \ unused
  BY <1>1, <1>2 DEF Catalogued, Known
<1>4. ChunksOfAll(Visible) \subseteq Known'
  <2>1. ChunksOfAll(Visible) \subseteq Known
    BY DEF CatalogClosed, ChunksOfAll
  <2>2. ASSUME NEW c \in ChunksOfAll(Visible) PROVE chunks[c] \notin unused
    BY <2>1, <2>2 DEF RowsOf, Known
  <2> QED BY <1>2, <2>1, <2>2
<1>5. ASSUME NEW c \in Known'
      PROVE  c \in chunks'[c] /\ {d \in Chunk : chunks'[d] = chunks'[c]} = chunks'[c]
  <2>1. c \in Known /\ c \in Chunk /\ chunks'[c] = chunks[c] /\ chunks[c] \notin unused
        /\ chunks[c] # {}
    BY <1>1, <1>2 DEF Known
  <2>2. ASSUME NEW d \in Chunk
        PROVE  chunks'[d] = chunks[c] <=> chunks[d] = chunks[c]
    BY <1>1, <2>1
  <2>3. c \in chunks[c] /\ {d \in Chunk : chunks[d] = chunks[c]} = chunks[c]
    BY <2>1 DEF CatalogClosed, RowsOf
  <2> QED BY <2>1, <2>2, <2>3
<1>6. CatalogClosed'
  <2>1. Visible' = Visible /\ manifests' = Visible /\ named' = named
    BY <1>1 DEF Visible
  <2>2. ChunksOfAll(manifests)' \subseteq Known'
    BY <1>4, <2>1 DEF ChunksOfAll
  <2> QED BY <1>5, <2>1, <2>2 DEF CatalogClosed, RowsOf
<1> QED
  BY <1>1, <1>3, <1>6

LEMMA SameCatalog == Closed /\ UNCHANGED catalog => Closed'
BY DEF Closed, CatalogClosed, catalog, Visible, Known, RowsOf, ChunksOfAll

LEMMA TrimClosed ==
  ASSUME Types, Closed, Trim
  PROVE  Closed'
<1>1. ASSUME Visible' \subseteq Visible, named' \subseteq Visible',
             UNCHANGED <<chunks, manifests>>, IsInjective(checkpoints')
      PROVE  Closed'
  BY <1>1 DEF Closed, CatalogClosed, Known, RowsOf, ChunksOfAll
<1>2. ASSUME NEW root \in Root, NEW labelled \in BOOLEAN,
             SetLabel(root, labelled)
      PROVE  Closed'
  BY <1>1, <1>2 DEF SetLabel, Closed, CatalogClosed, Visible
<1>3. ASSUME NEW i \in DOMAIN checkpoints, DeleteCheckpoint(i) PROVE Closed'
  <2>1. IsInjective(checkpoints') /\ Visible' = Visible \ {checkpoints[i]}
    BY <1>3, RemoveAtProperties DEF Types, Closed, DeleteCheckpoint, Visible
  <2> QED BY <1>1, <1>3, <2>1 DEF DeleteCheckpoint, Closed, CatalogClosed
<1>4. CASE KeepLatest
  <2>1. Visible' = {NewestVisible} /\ NewestVisible \in Visible
    BY <1>4, EmptySeq, LenProperties
    DEF Types, KeepLatest, NewestVisible, Visible, Range
  <2>2. IsInjective(checkpoints')
    BY <1>4 DEF KeepLatest, IsInjective
  <2> QED BY <1>1, <1>4, <2>1, <2>2 DEF KeepLatest
<1>5. CASE Reset
  BY <1>1, <1>5 DEF Reset, Visible, Range, IsInjective
<1> QED
  BY <1>2, <1>3, <1>4, <1>5 DEF Trim

LEMMA CommitClosed ==
  ASSUME Types, Exclusion, Local, Closed, NEW p \in Proc,
         CommitPublication(p) \/ CommitImport(p)
  PROVE  Closed'
<1> DEFINE roots == incoming[p].roots
<1>1. /\ HasCandidate(p) /\ phase[p] = "packed" /\ InsertPack(p)
      /\ roots \in Seq(Root) /\ Range(roots) \subseteq Root
  BY RangeType
  DEF CommitPublication, CommitImport, HasCandidate, Types, Candidates
<1>2. /\ fresh[p] = ChunksOfAll(Range(roots)) \ Known
      /\ fresh[p] \cap Known = {}
  BY <1>1 DEF Local, CandidateOK
<1>3. /\ Known' = Known \cup fresh[p]
      /\ \A c \in Known' : c \in chunks'[c] /\ RowsOf(chunks[c])' = chunks'[c]
  BY <1>1, <1>2, InsertPackProperties DEF Closed
<1>4. ASSUME NEW added \in SUBSET Range(roots),
             manifests' = manifests \cup added,
             Visible' = Visible \cup added, named' \subseteq named \cup added,
             IsInjective(checkpoints')
      PROVE  Closed'
  <2>1. ChunksOfAll(manifests') \subseteq Known'
    BY <1>2, <1>3, <1>4 DEF Closed, CatalogClosed, ChunksOfAll
  <2>2. Visible' \subseteq manifests' /\ named' \subseteq Visible'
    BY <1>4 DEF Closed, CatalogClosed
  <2> QED BY <1>3, <1>4, <2>1, <2>2 DEF Closed, CatalogClosed, ChunksOfAll
<1>5. CASE CommitPublication(p)
  <2>1. PICK root \in Root : roots = <<root>>
    <3>1. PICK root \in Root : incoming[p] = Brings(<<root>>)
      BY <1>1, <1>5 DEF CommitPublication, Local, CandidateOK
    <3> QED BY <3>1 DEF Brings
  <2>2. Range(roots) = {root} /\ IsInjective(roots) /\ Head(roots) = root
    BY <2>1 DEF Range, IsInjective
  <2>3. root \notin Visible
    BY <1>1, <1>5, <2>2 DEF CommitPublication, Local, CandidateOK
  <2>4. IsInjective(checkpoints') /\ Visible' = Visible \cup Range(roots)
    BY <1>1, <1>5, <2>2, <2>3, ConcatInjective
    DEF CommitPublication, Closed, Visible, Types
  <2> QED BY <1>4, <1>5, <2>4 DEF CommitPublication
<1>6. CASE CommitImport(p)
  <2>1. PICK missing \in Lists(Range(roots), Len(roots)) :
           /\ IsMissing(missing, roots)
           /\ manifests' = manifests \cup Range(missing)
           /\ checkpoints' = Adopted(missing)
           /\ named' = named \cup (incoming[p].named \cap Range(missing))
    BY <1>6 DEF CommitImport
  <2>2. missing \in Seq(Root)
    BY <1>1, <2>1, ListsType, LenProperties
  <2>3. /\ IsInjective(missing) /\ Range(missing) \subseteq Range(roots)
        /\ Range(missing) \cap Visible = {}
    BY <2>1 DEF IsMissing, IsSubsequence
  <2>4. IsInjective(checkpoints') /\ Visible' = Range(missing) \cup Visible
    BY <2>1, <2>2, <2>3, ConcatInjective DEF Closed, Visible, Types, Adopted
  <2> QED BY <1>4, <2>1, <2>3, <2>4
<1> QED
  BY <1>5, <1>6

LEMMA NextClosed ==
  ASSUME Types, Exclusion, Local, Closed, [Next]_vars
  PROVE  Closed'
<1>1. ASSUME NEW p \in Proc, GarbageCollect(p) PROVE Closed'
  BY <1>1, CollectProperties DEF Closed, GarbageCollect, Collect
<1>2. ASSUME NEW p \in Proc, Begin(p), ~GarbageCollect(p) PROVE Closed'
  BY <1>2, SameCatalog
  DEF Begin, Stage, ImportLoad, Load, ReadCheckpoint, Verify, ExportHistory, Open
<1>3. ASSUME NEW p \in Proc, Advance(p), ~CommitPublication(p), ~CommitImport(p)
      PROVE  Closed'
  BY <1>3, SameCatalog
  DEF Advance, PublishExisting, MovePack, ReusePack, SyncPack, Abandon, Unlink,
      Unlinked, RemoveOrphan, Swept, SweepFails, ReadChunk, ReadDone
<1>4. ASSUME NEW p \in Proc, Kill(p) PROVE Closed'
  BY <1>4, SameCatalog DEF Kill
<1>5. CASE PowerLoss
  BY <1>5, SameCatalog DEF PowerLoss
<1>6. CASE UNCHANGED vars
  BY <1>6, SameCatalog DEF vars
<1> QED
  BY <1>1, <1>2, <1>3, <1>4, <1>5, <1>6, CommitClosed, TrimClosed DEF Next

-----------------------------------------------------------------------------
(* What a process relies on holds trivially while it is idle, ...          *)
IdleAt(p) == phase[p] = "idle" /\ doomed[p] = {} /\ unread[p] = {}

LEMMA IdleOK ==
  ASSUME NEW p \in Proc, IdleAt(p)'
  PROVE  (CandidateOK(p) /\ GarbageOK(p) /\ ReaderOK(p))'
BY DEF IdleAt, CandidateOK, HasCandidate, GarbageOK, ReaderOK

LEMMA IdleNow ==
  ASSUME Local, NEW p \in Proc, phase[p] = "idle"
  PROVE  IdleAt(p)
BY DEF Local, GarbageOK, ReaderOK, IdleAt

(* ... and a step that is not of it and leaves the catalog alone keeps it. *)
SameAt(p) ==
  /\ phase'[p] = phase[p] /\ incoming'[p] = incoming[p]
  /\ fresh'[p] = fresh[p] /\ doomed'[p] = doomed[p] /\ unread'[p] = unread[p]

LEMMA SameOK ==
  ASSUME Local, NEW p \in Proc, SameAt(p), UNCHANGED catalog,
         p \in staging => p \in staging'
  PROVE  (CandidateOK(p) /\ GarbageOK(p) /\ ReaderOK(p))'
<1>1. /\ Known' = Known /\ Catalogued' = Catalogued /\ Visible' = Visible
      /\ (Importing(p) <=> Importing(p)') /\ (HasCandidate(p) <=> HasCandidate(p)')
  BY DEF SameAt, catalog, Known, Catalogued, Visible, Importing, HasCandidate
<1>2. CandidateOK(p) /\ GarbageOK(p) /\ ReaderOK(p)
  BY DEF Local
<1>3. CandidateOK(p)'
  BY <1>1, <1>2 DEF CandidateOK, SameAt, catalog
<1>4. GarbageOK(p)' /\ ReaderOK(p)'
  BY <1>1, <1>2 DEF GarbageOK, ReaderOK, SameAt
<1> QED BY <1>3, <1>4

LEMMA ReturnAt ==
  ASSUME Types, NEW p \in Proc, Return(p)
  PROVE  IdleAt(p)' /\ \A q \in Proc \ {p} : SameAt(q)
BY DEF Types, Return, IdleAt, SameAt

LEMMA ReturnLocal ==
  ASSUME Types, Local, NEW p \in Proc, Return(p), UNCHANGED catalog,
         staging' \in {staging, staging \ {p}}
  PROVE  Local'
BY ReturnAt, IdleOK, SameOK DEF Local

LEMMA BeginLocal ==
  ASSUME Types, Exclusion, Local, Closed, NEW p \in Proc, Begin(p)
  PROVE  Local'
<1>1. ASSUME NEW candidate \in Candidates,
             \/ Importing(p)'
             \/ \E root \in Root : candidate = Brings(<<root>>),
             candidate.lineage # NoLineage /\ checkpoints # <<>>
               => candidate.lineage = lineage,
             phase[p] = "idle", LockExclusive(p), Goto(p, "staged"),
             Hold(p, candidate), p \in staging', UNCHANGED <<catalog, doomed, unread>>
      PROVE  Local'
  <2>1. ASSUME NEW q \in Proc \ {p} PROVE IdleAt(q)'
    BY <1>1, AllIdle, IdleNow
    DEF LockExclusive, Goto, Hold, HoldExcept, Types, IdleAt
  <2>2. /\ phase'[p] = "staged" /\ incoming'[p] = candidate
        /\ fresh'[p] = ChunksOfAll(Range(candidate.roots)) \ Known
        /\ doomed'[p] = {} /\ unread'[p] = {}
    BY <1>1, IdleNow DEF Goto, Hold, HoldExcept, Types, IdleAt
  <2>3. Known' = Known
    BY <1>1 DEF Known, catalog
  <2>4. CandidateOK(p)'
    BY <1>1, <2>2, <2>3 DEF CandidateOK, Importing, ChunksOfAll, catalog
  <2>5. GarbageOK(p)' /\ ReaderOK(p)'
    BY <2>2 DEF GarbageOK, ReaderOK
  <2> QED BY <2>1, <2>4, <2>5, IdleOK DEF Local
<1>2. ASSUME NEW root \in Root, Stage(p, root) PROVE Local'
  <2>1. Brings(<<root>>) \in Candidates /\ Brings(<<root>>).lineage = NoLineage
    BY DEF Brings, Candidates
  <2> QED BY <1>1, <1>2, <2>1 DEF Stage
<1>3. ASSUME NEW archive \in Archive, ImportLoad(p, archive) PROVE Local'
  <2>1. archive \in Candidates /\ archive.lineage # NoLineage
    BY ArchiveAssumption, LineageAssumption DEF Archives, Candidates
  <2>2. Importing(p)'
    BY <1>3, <2>1 DEF ImportLoad, Load, Hold, HoldExcept, Importing, Types
  <2> QED BY <1>1, <1>3, <2>1, <2>2 DEF ImportLoad, Load
<1>4. ASSUME NEW wanted \in SUBSET Known,
             phase[p] = "idle", LockShared(p), Goto(p, "reading"),
             unread' = [unread EXCEPT ![p] = wanted],
             UNCHANGED <<catalog, files, incoming, fresh, doomed>>
      PROVE  Local'
  <2>1. ASSUME NEW q \in Proc \ {p} PROVE SameAt(q)
    BY <1>4 DEF Goto, Types, SameAt
  <2>2. phase'[p] = "reading" /\ unread'[p] = wanted /\ doomed'[p] = {}
    BY <1>4, IdleNow DEF Goto, Types, IdleAt
  <2>3. Known' = Known
    BY <1>4 DEF Known, catalog
  <2>4. CandidateOK(p)' /\ GarbageOK(p)' /\ ReaderOK(p)'
    BY <2>2, <2>3 DEF CandidateOK, HasCandidate, GarbageOK, ReaderOK
  <2> QED BY <1>4, <2>1, <2>4, SameOK DEF Local, files
<1>5. ChunksOfAll(Visible) \subseteq Known
  BY DEF Closed, CatalogClosed, ChunksOfAll
<1>6. ASSUME NEW root \in Root, ReadCheckpoint(p, root) PROVE Local'
  BY <1>4, <1>5, <1>6 DEF ReadCheckpoint, ChunksOfAll
<1>7. CASE Verify(p)
  BY <1>4, <1>5, <1>7 DEF Verify
<1>8. CASE ExportHistory(p)
  BY <1>4, <1>5, <1>8 DEF ExportHistory
<1>9. CASE GarbageCollect(p)
  <2>1. ASSUME NEW q \in Proc \ {p} PROVE IdleAt(q)'
    BY <1>9, AllIdle, IdleNow
    DEF GarbageCollect, Collect, LockExclusive, Goto, Types, IdleAt
  <2>2. phase'[p] = "unlinking" /\ unread'[p] = {}
    BY <1>9, IdleNow DEF GarbageCollect, Collect, Goto, Types, IdleAt
  <2>3. Catalogued' = Catalogued \ doomed'[p]
    BY <1>9, CollectProperties DEF Closed
  <2>4. CandidateOK(p)' /\ GarbageOK(p)' /\ ReaderOK(p)'
    BY <2>2, <2>3 DEF CandidateOK, HasCandidate, GarbageOK, ReaderOK
  <2> QED BY <2>1, <2>4, IdleOK DEF Local
<1>10. CASE Open(p)
  <2>1. ASSUME NEW q \in Proc \ {p} PROVE IdleAt(q)'
    BY <1>10, AllIdle, IdleNow DEF Open, LockExclusive, Goto, Types, IdleAt
  <2>2. phase'[p] = "sweeping" /\ unread'[p] = {} /\ doomed'[p] = {}
    BY <1>10, IdleNow DEF Open, Goto, Types, IdleAt
  <2>3. CandidateOK(p)' /\ GarbageOK(p)' /\ ReaderOK(p)'
    BY <2>2 DEF CandidateOK, HasCandidate, GarbageOK, ReaderOK
  <2> QED BY <2>1, <2>3, IdleOK DEF Local
<1> QED
  BY <1>2, <1>3, <1>6, <1>7, <1>8, <1>9, <1>10 DEF Begin

LEMMA CommitLocal ==
  ASSUME Types, Exclusion, Local, NEW p \in Proc,
         CommitPublication(p) \/ CommitImport(p)
  PROVE  Local'
<1>1. Return(p) /\ phase[p] \in ExclusivePhases
  BY DEF CommitPublication, CommitImport, ExclusivePhases
<1>2. ASSUME NEW q \in Proc \ {p} PROVE IdleAt(q)'
  BY <1>1, OthersIdle, IdleNow, ReturnAt DEF IdleAt, SameAt
<1> QED
  BY <1>1, <1>2, ReturnAt, IdleOK DEF Local

(* A step of the exclusive holder that leaves the catalog alone.           *)
LEMMA HolderLocal ==
  ASSUME Types, Local, NEW p \in Proc, NEW next \in ExclusivePhases \ {"staged"},
         HasCandidate(p) <=> next \in {"moved", "packed"},
         next # "sweeping" => HasCandidate(p),
         next # "staged" /\ HasCandidate(p) /\ ~Importing(p)
           => Head(incoming[p].roots) \notin Visible,
         doomed[p] = {}, Goto(p, next),
         UNCHANGED <<catalog, staging, incoming, fresh, doomed, unread>>,
         phase[p] # "reading"
  PROVE  Local'
<1>1. ASSUME NEW q \in Proc \ {p} PROVE SameAt(q)
  BY DEF Goto, Types, SameAt
<1>2. phase'[p] = next
  BY DEF Goto, Types
<1>3. /\ Known' = Known /\ Catalogued' = Catalogued /\ Visible' = Visible
      /\ (Importing(p) <=> Importing(p)')
  BY DEF catalog, Known, Catalogued, Visible, Importing
<1>4. CandidateOK(p)'
  BY <1>2, <1>3 DEF Local, CandidateOK, HasCandidate, catalog
<1>5. GarbageOK(p)' /\ ReaderOK(p)'
  BY <1>2, <1>3 DEF Local, GarbageOK, ReaderOK
<1> QED
  BY <1>1, <1>4, <1>5, SameOK DEF Local

LEMMA AdvanceLocal ==
  ASSUME Types, Exclusion, Local, NEW p \in Proc, Advance(p) \/ Kill(p)
  PROVE  Local'
<1>1. CASE \/ PublishExisting(p) \/ Abandon(p) \/ Swept(p) \/ SweepFails(p)
           \/ ReadDone(p) \/ Kill(p)
  BY <1>1, ReturnLocal
  DEF PublishExisting, Abandon, Swept, SweepFails, ReadDone, Kill,
      files
<1>2. CASE MovePack(p)
  BY <1>2, HolderLocal
  DEF MovePack, MayInstall, HasCandidate, ExclusivePhases, Local, GarbageOK
<1>3. CASE ReusePack(p)
  BY <1>3, HolderLocal
  DEF ReusePack, MayInstall, HasCandidate, ExclusivePhases, Local, GarbageOK,
      files
<1>4. CASE SyncPack(p)
  BY <1>4, HolderLocal
  DEF SyncPack, HasCandidate, ExclusivePhases, Local, GarbageOK, CandidateOK
<1>5. CASE Unlinked(p)
  BY <1>5, HolderLocal DEF Unlinked, HasCandidate, ExclusivePhases, files
<1>6. ASSUME NEW pack \in doomed[p], Unlink(p, pack) PROVE Local'
  <2>1. ASSUME NEW q \in Proc \ {p} PROVE SameAt(q)
    BY <1>6 DEF Unlink, Types, SameAt
  <2>2. /\ phase'[p] = "unlinking" /\ doomed'[p] \subseteq doomed[p]
        /\ unread'[p] = {} /\ Catalogued' = Catalogued
    BY <1>6 DEF Unlink, Types, Local, ReaderOK, Catalogued, Known, catalog
  <2>3. CandidateOK(p)' /\ GarbageOK(p)' /\ ReaderOK(p)'
    BY <2>2 DEF Local, CandidateOK, HasCandidate, GarbageOK, ReaderOK
  <2> QED BY <1>6, <2>1, <2>3, SameOK DEF Local, Unlink
<1>7. ASSUME NEW pack \in packs, RemoveOrphan(p, pack) PROVE Local'
  BY <1>7, SameOK DEF RemoveOrphan, local, SameAt, Local
<1>8. ASSUME NEW c \in unread[p], ReadChunk(p, c) PROVE Local'
  <2>1. ASSUME NEW q \in Proc \ {p} PROVE SameAt(q)
    BY <1>8 DEF ReadChunk, Types, SameAt
  <2>2. /\ phase'[p] = "reading" /\ unread'[p] \subseteq unread[p]
        /\ doomed'[p] = {} /\ Known' = Known
    BY <1>8 DEF ReadChunk, Types, Local, GarbageOK, Known, catalog
  <2>3. CandidateOK(p)' /\ GarbageOK(p)' /\ ReaderOK(p)'
    BY <2>2 DEF Local, CandidateOK, HasCandidate, GarbageOK, ReaderOK
  <2> QED BY <1>8, <2>1, <2>3, SameOK DEF Local, ReadChunk, files
<1> QED
  BY <1>1, <1>2, <1>3, <1>4, <1>5, <1>6, <1>7, <1>8, CommitLocal DEF Advance

LEMMA NextLocal ==
  ASSUME Types, Exclusion, Local, Closed, [Next]_vars
  PROVE  Local'
<1>1. CASE Trim
  <2>1. Unlocked /\ UNCHANGED local
    BY <1>1 DEF Trim, SetLabel, DeleteCheckpoint, KeepLatest, Reset
  <2>2. ASSUME NEW q \in Proc PROVE IdleAt(q)'
    BY <2>1, AllIdle, IdleNow DEF local, IdleAt
  <2> QED BY <2>2, IdleOK DEF Local
<1>2. CASE PowerLoss
  BY <1>2, IdleOK DEF PowerLoss, IdleAt, Local
<1>3. CASE UNCHANGED vars
  BY <1>3, SameOK DEF vars, local, files, SameAt, Local
<1> QED
  BY <1>1, <1>2, <1>3, BeginLocal, AdvanceLocal DEF Next

-----------------------------------------------------------------------------
(* The pack files.  OnlyPower leaves out the kill between installing and   *)
(* syncing a pack that a later power loss would turn into a missing file.  *)
OnlyPower == Faults \subseteq {"power"}
SafeFaults == "power" \notin Faults \/ OnlyPower

Installed ==
  \A p \in Proc : phase[p] \in {"moved", "packed"} => fresh[p] \in packs \cup {{}}

Present == Catalogued \subseteq packs

Synced ==
  /\ Catalogued \subseteq durable
  /\ \A p \in Proc : phase[p] = "packed" => fresh[p] \in durable \cup {{}}
  /\ \A pack \in packs \ durable :
       \E p \in Proc : phase[p] = "moved" /\ fresh[p] = pack

LEMMA CommitCatalogued ==
  ASSUME Types, Local, Closed, NEW p \in Proc,
         CommitPublication(p) \/ CommitImport(p)
  PROVE  Catalogued' \subseteq Catalogued \cup ({fresh[p]} \ {{}})
<1>1. HasCandidate(p) /\ InsertPack(p)
  BY DEF CommitPublication, CommitImport, HasCandidate
<1>2. fresh[p] \cap Known = {}
  BY <1>1 DEF Local, CandidateOK
<1> QED
  BY <1>1, <1>2, InsertPackProperties DEF Closed

LEMMA SameCatalogued == UNCHANGED chunks => Catalogued' = Catalogued
BY DEF Catalogued, Known

LEMMA BeginFiles ==
  ASSUME Types, Exclusion, Closed, NEW p \in Proc, Begin(p)
  PROVE  /\ Installed => Installed'
         /\ Present => Present'
         /\ Synced => Synced'
<1>1. /\ UNCHANGED <<packs, durable>>
      /\ UNCHANGED chunks \/ GarbageCollect(p)
      /\ \A q \in Proc : phase[q] \in {"idle", "reading"}
      /\ \A q \in Proc : phase'[q] \notin {"moved", "packed"}
  <2>1. \E next \in Phases \ {"moved", "packed"} : Goto(p, next)
    BY DEF Begin, Stage, ImportLoad, Load, ReadCheckpoint, Verify, ExportHistory,
           GarbageCollect, Collect, Open, Phases, ExclusivePhases
  <2>2. writer = NoProc
    BY DEF Begin, Stage, ImportLoad, Load, ReadCheckpoint, Verify, ExportHistory,
           GarbageCollect, Collect, Open, LockExclusive, LockShared, Unlocked
  <2>3. /\ UNCHANGED <<packs, durable>>
        /\ UNCHANGED chunks \/ GarbageCollect(p)
    BY DEF Begin, Stage, ImportLoad, Load, ReadCheckpoint, Verify, ExportHistory,
           GarbageCollect, Collect, Open, files, catalog
  <2> QED BY <2>1, <2>2, <2>3, NoWriter DEF Goto, Types
<1>2. Catalogued' \subseteq Catalogued
  BY <1>1, SameCatalogued, CollectProperties DEF Closed
<1> QED
  BY <1>1, <1>2 DEF Installed, Present, Synced

LEMMA AdvanceInstalled ==
  ASSUME Types, Exclusion, Installed, NEW p \in Proc, Advance(p) \/ Kill(p)
  PROVE  Installed'
<1>1. ASSUME Return(p), UNCHANGED packs PROVE Installed'
  BY <1>1, ReturnAt DEF Installed, IdleAt, SameAt
<1>2. CASE \/ PublishExisting(p) \/ CommitPublication(p) \/ CommitImport(p)
           \/ Abandon(p) \/ Swept(p) \/ SweepFails(p)
           \/ ReadDone(p) \/ Kill(p)
  BY <1>1, <1>2
  DEF PublishExisting, CommitPublication, CommitImport, Abandon, Swept,
      SweepFails, ReadDone, Kill, files
<1>3. CASE MovePack(p)
  BY <1>3 DEF MovePack, Goto, Types, Installed
<1>4. CASE ReusePack(p)
  BY <1>4 DEF ReusePack, Goto, Types, Installed, files
<1>5. CASE SyncPack(p)
  BY <1>5 DEF SyncPack, Goto, Types, Installed
<1>6. CASE Unlinked(p)
  BY <1>6 DEF Unlinked, Goto, Types, Installed, files
<1>7. ASSUME NEW pack, Unlink(p, pack) \/ RemoveOrphan(p, pack) PROVE Installed'
  <2>1. \A q \in Proc : phase[q] \notin {"moved", "packed"}
    BY <1>7, OthersIdle DEF Unlink, RemoveOrphan, ExclusivePhases
  <2> QED BY <1>7, <2>1 DEF Unlink, RemoveOrphan, Installed, local
<1>8. ASSUME NEW c \in unread[p], ReadChunk(p, c) PROVE Installed'
  BY <1>8 DEF ReadChunk, Installed, files
<1> QED
  BY <1>2, <1>3, <1>4, <1>5, <1>6, <1>7, <1>8 DEF Advance

LEMMA AdvancePresent ==
  ASSUME Types, Local, Closed, Installed, Present,
         NEW p \in Proc, Advance(p) \/ Kill(p)
  PROVE  Present'
<1>1. CASE CommitPublication(p) \/ CommitImport(p)
  BY <1>1, CommitCatalogued DEF CommitPublication, CommitImport, Installed, Present
<1>2. CASE \/ PublishExisting(p) \/ MovePack(p) \/ ReusePack(p) \/ SyncPack(p)
           \/ Abandon(p) \/ Unlinked(p) \/ Swept(p) \/ SweepFails(p)
           \/ ReadDone(p) \/ Kill(p)
  BY <1>2, SameCatalogued
  DEF PublishExisting, MovePack, ReusePack, SyncPack, Abandon, Unlinked, Swept,
      SweepFails, ReadDone, Kill, catalog, files, Present
<1>3. ASSUME NEW pack \in doomed[p], Unlink(p, pack) PROVE Present'
  BY <1>3, SameCatalogued DEF Unlink, catalog, Present, Local, GarbageOK
<1>4. ASSUME NEW pack \in packs, RemoveOrphan(p, pack) PROVE Present'
  BY <1>4, SameCatalogued DEF RemoveOrphan, catalog, Present
<1>5. ASSUME NEW c \in unread[p], ReadChunk(p, c) PROVE Present'
  BY <1>5, SameCatalogued DEF ReadChunk, catalog, files, Present
<1> QED
  BY <1>1, <1>2, <1>3, <1>4, <1>5 DEF Advance

LEMMA AdvanceSynced ==
  ASSUME Types, Exclusion, Local, Closed, Installed, Present, Synced, OnlyPower,
         NEW p \in Proc, Advance(p) \/ Kill(p)
  PROVE  Synced'
<1>1. "kill" \notin Faults /\ "io" \notin Faults
  BY DEF OnlyPower
<1>2. ASSUME phase[p] \in ExclusivePhases \ {"moved"} PROVE packs \subseteq durable
  <2>1. \A q \in Proc : phase[q] # "moved"
    BY <1>2, OthersIdle
  <2> QED BY <2>1 DEF Synced
<1>3. ASSUME Return(p), UNCHANGED <<packs, durable, chunks>>,
             phase[p] \in ExclusivePhases \ {"moved"} \/ phase[p] = "reading"
      PROVE  Synced'
  <2>1. Catalogued' \subseteq durable'
    BY <1>3, SameCatalogued DEF Synced
  <2>2. \A q \in Proc : phase[q] = "moved" =>
          phase'[q] = "moved" /\ fresh'[q] = fresh[q]
    BY <1>3, ReturnAt DEF SameAt, ExclusivePhases
  <2>3. \A q \in Proc : phase'[q] = "packed" =>
          phase[q] = "packed" /\ fresh'[q] = fresh[q]
    BY <1>3, ReturnAt DEF SameAt, IdleAt
  <2> QED BY <1>3, <2>1, <2>2, <2>3 DEF Synced
<1>4. CASE PublishExisting(p) \/ Abandon(p) \/ ReadDone(p)
  BY <1>1, <1>3, <1>4
  DEF PublishExisting, Abandon, ReadDone, files, catalog,
      ExclusivePhases
<1>5. CASE CommitPublication(p) \/ CommitImport(p)
  <2>1. /\ Return(p) /\ UNCHANGED <<packs, durable>>
        /\ phase[p] = "packed" /\ phase[p] \in ExclusivePhases
    BY <1>5 DEF CommitPublication, CommitImport, ExclusivePhases
  <2>2. packs \subseteq durable
    BY <1>2, <2>1
  <2>3. Catalogued' \subseteq durable
    BY <1>5, <2>1, CommitCatalogued DEF Synced
  <2>4. \A q \in Proc : phase'[q] = "idle"
    BY <2>1, OthersIdle, ReturnAt DEF SameAt, IdleAt
  <2> QED BY <2>1, <2>2, <2>3, <2>4 DEF Synced
<1>6. CASE MovePack(p)
  <2>1. packs \subseteq durable
    BY <1>2, <1>6 DEF MovePack, ExclusivePhases
  <2>2. phase'[p] = "moved" /\ fresh'[p] = fresh[p] /\ packs' = packs \cup {fresh[p]}
    BY <1>6 DEF MovePack, Goto, Types
  <2>3. \A q \in Proc : phase'[q] # "packed"
    BY <1>6, OthersIdle DEF MovePack, Goto, Types, ExclusivePhases
  <2>4. Catalogued' \subseteq durable'
    BY <1>6, SameCatalogued DEF MovePack, catalog, Synced
  <2>5. durable' = durable
    BY <1>6 DEF MovePack
  <2> QED BY <2>1, <2>2, <2>3, <2>4, <2>5 DEF Synced
<1>7. CASE ReusePack(p)
  <2>1. packs \subseteq durable
    BY <1>2, <1>7 DEF ReusePack, ExclusivePhases
  <2>2. \A q \in Proc : phase'[q] = "packed" => fresh'[q] \in durable \cup {{}}
    BY <1>7, <2>1 DEF ReusePack, Goto, Types, Synced
  <2> QED BY <1>7, <2>1, <2>2, SameCatalogued DEF ReusePack, catalog, files, Synced
<1>8. CASE SyncPack(p)
  <2>1. durable' = packs' /\ Catalogued' \subseteq durable'
    BY <1>8, SameCatalogued DEF SyncPack, catalog, Present
  <2>2. \A q \in Proc : phase'[q] = "packed" => fresh'[q] \in durable' \cup {{}}
    BY <1>8, <2>1 DEF SyncPack, Goto, Types, Installed
  <2> QED BY <2>1, <2>2 DEF Synced
<1>9. ASSUME NEW pack, Unlink(p, pack) \/ RemoveOrphan(p, pack) PROVE Synced'
  <2>1. packs' \subseteq durable'
    BY <1>2, <1>9 DEF Unlink, RemoveOrphan, ExclusivePhases
  <2> QED BY <1>9, <2>1, SameCatalogued
      DEF Unlink, RemoveOrphan, catalog, local, Synced
<1>10. CASE Unlinked(p)
  <2>1. packs' \subseteq durable'
    BY <1>2, <1>10 DEF Unlinked, ExclusivePhases, files
  <2> QED BY <1>10, <2>1, SameCatalogued
      DEF Unlinked, catalog, files, Goto, Types, Synced
<1>11. CASE Swept(p)
  <2>1. durable' = packs' /\ Catalogued' \subseteq durable'
    BY <1>11, SameCatalogued DEF Swept, catalog, Present
  <2>2. \A q \in Proc : phase'[q] = "idle"
    BY <1>11, OthersIdle, ReturnAt DEF Swept, ExclusivePhases, SameAt, IdleAt
  <2> QED BY <2>1, <2>2 DEF Synced
<1>12. CASE SweepFails(p) \/ Kill(p)
  BY <1>1, <1>12 DEF SweepFails, Kill
<1>13. ASSUME NEW c \in unread[p], ReadChunk(p, c) PROVE Synced'
  BY <1>13, SameCatalogued DEF ReadChunk, catalog, files, Synced
<1> QED
  BY <1>4, <1>5, <1>6, <1>7, <1>8, <1>9, <1>10, <1>11, <1>12, <1>13 DEF Advance

FilesOK ==
  /\ Installed
  /\ SafeFaults => Present
  /\ OnlyPower => Synced

LEMMA NextFiles ==
  ASSUME Types, Exclusion, Local, Closed, FilesOK, [Next]_vars
  PROVE  FilesOK'
<1>1. ASSUME NEW p \in Proc, Begin(p) PROVE FilesOK'
  BY <1>1, BeginFiles DEF FilesOK, SafeFaults, OnlyPower
<1>2. ASSUME NEW p \in Proc, Advance(p) \/ Kill(p) PROVE FilesOK'
  BY <1>2, AdvanceInstalled, AdvancePresent, AdvanceSynced
  DEF FilesOK, SafeFaults, OnlyPower
<1>3. CASE UNCHANGED <<chunks, packs, durable, phase, fresh>>
  BY <1>3, SameCatalogued
  DEF FilesOK, SafeFaults, OnlyPower, Installed, Present, Synced
<1>4. CASE Trim
  BY <1>3, <1>4
  DEF Trim, SetLabel, DeleteCheckpoint, KeepLatest, Reset, files, local
<1>5. CASE PowerLoss
  <2>1. PICK left \in SUBSET (packs \cup durable) :
          packs \cap durable \subseteq left /\ packs' = left /\ durable' = left
    BY <1>5 DEF PowerLoss
  <2>2. SafeFaults => OnlyPower
    BY <1>5 DEF PowerLoss, SafeFaults
  <2>3. SafeFaults => Catalogued' \subseteq packs' /\ packs' = durable'
    BY <1>5, <2>1, <2>2, SameCatalogued
    DEF PowerLoss, catalog, FilesOK, Present, Synced
  <2>4. \A q \in Proc : phase'[q] = "idle"
    BY <1>5 DEF PowerLoss
  <2> QED BY <2>3, <2>4 DEF FilesOK, Installed, Present, Synced, SafeFaults, OnlyPower
<1>6. CASE UNCHANGED vars
  BY <1>3, <1>6 DEF vars, catalog, files, local
<1> QED
  BY <1>1, <1>2, <1>4, <1>5, <1>6 DEF Next

-----------------------------------------------------------------------------
(* The inductive invariant: the conjuncts lean on each other.  The lock    *)
(* keeps the other processes idle while the catalog changes; what a        *)
(* candidate found missing is therefore still missing when it commits; so  *)
(* packs stay whole, and a collection removes files of no row.             *)
IInv == Types /\ Exclusion /\ Local /\ Closed /\ FilesOK

LEMMA InitIInv == Init => IInv
<1> SUFFICES ASSUME Init PROVE IInv
  OBVIOUS
<1>1. Types
  BY InitTypes
<1>2. Known = {} /\ Catalogued = {} /\ Visible = {}
  BY DEF Init, Known, Catalogued, Visible, Range
<1>3. Exclusion
  BY ProcAssumption DEF Init, Exclusion, ExclusivePhases
<1>4. Local
  BY DEF Init, Local, CandidateOK, HasCandidate, GarbageOK, ReaderOK
<1>5. Closed
  BY <1>2 DEF Init, Closed, CatalogClosed, ChunksOfAll, IsInjective
<1>6. FilesOK
  BY <1>2 DEF Init, FilesOK, Installed, Present, Synced
<1> QED
  BY <1>1, <1>3, <1>4, <1>5, <1>6 DEF IInv

LEMMA NextIInv == IInv /\ [Next]_vars => IInv'
BY NextTypes, NextExclusion, NextLocal, NextClosed, NextFiles DEF IInv

(* The five parts hold together in every reachable state of the store,     *)
(* whatever Faults it runs under.                                          *)
THEOREM Invariance == Spec => []IInv
BY InitIInv, NextIInv, PTL DEF Spec

(* The tables and files are what their names say, in every reachable state *)
(* and under every fault.                                                  *)
THEOREM TypeCorrectness == Spec => []TypeOK
<1>1. IInv => TypeOK
  BY DEF IInv, Types, Closed, TypeOK
<1> QED BY <1>1, Invariance, PTL

(* The foreign keys of the catalog hold after every transaction, and packs *)
(* are catalogued whole.                                                   *)
THEOREM Consistency == Spec => []CatalogClosed
<1>1. IInv => CatalogClosed
  BY DEF IInv, Closed
<1> QED BY <1>1, Invariance, PTL

(* remove_stale_staging never takes away a candidate in use.               *)
THEOREM Isolation == Spec => []CandidateIntact
<1>1. IInv => CandidateIntact
  BY DEF IInv, Local, CandidateOK, CandidateIntact
<1> QED BY <1>1, Invariance, PTL

(* What a candidate staged is still what the catalog lacks when it commits *)
(* and between, whatever others publish, import or collect.                *)
THEOREM Freshness == Spec => []FreshStaysFresh
<1>1. IInv => FreshStaysFresh
  BY DEF IInv, Local, CandidateOK, FreshStaysFresh
<1> QED BY <1>1, Invariance, PTL

LEMMA KnownReadable ==
  ASSUME SafeFaults, IInv
  PROVE  \A c \in Known : Readable(c)
BY DEF IInv, FilesOK, Present, Catalogued, Known, Readable

(* Every visible checkpoint can be read back, whatever was published,      *)
(* imported, trimmed, collected or swept, with any kills and I/O errors,   *)
(* or with any power losses: but not with both, see PackDurable.           *)
THEOREM Readability ==
  ASSUME SafeFaults
  PROVE  Spec => []VisibleReadable
<1>1. IInv => VisibleReadable
  BY KnownReadable
  DEF IInv, Closed, CatalogClosed, ChunksOfAll, VisibleReadable
<1> QED BY <1>1, Invariance, PTL

(* Under the same faults, a reader finds every chunk it took from the      *)
(* catalog, however long it takes.                                         *)
THEOREM UntornReads ==
  ASSUME SafeFaults
  PROVE  Spec => []NoTornRead
<1>1. IInv => NoTornRead
  BY KnownReadable DEF IInv, Local, ReaderOK, NoTornRead
<1> QED BY <1>1, Invariance, PTL

(* With power losses as the only fault, the catalog never refers to a pack *)
(* whose directory entry is not durable.                                   *)
THEOREM Durability ==
  ASSUME OnlyPower
  PROVE  Spec => []PackDurable
<1>1. IInv => PackDurable
  BY DEF IInv, FilesOK, Synced, PackDurable
<1> QED BY <1>1, Invariance, PTL

(* No step changes the lineage of a store that shows checkpoints.          *)
THEOREM Lineages == Spec => LineageStable
<1>1. ASSUME IInv, [Next]_vars, checkpoints # <<>> PROVE lineage' = lineage
  <2>1. CASE UNCHANGED vars
    BY <2>1 DEF vars, catalog
  <2>2. ASSUME NEW p \in Proc, Begin(p) PROVE lineage' = lineage
    BY <2>2
    DEF Begin, Stage, ImportLoad, Load, ReadCheckpoint, Verify, ExportHistory,
        GarbageCollect, Collect, Open, catalog
  <2>3. ASSUME NEW p \in Proc, Advance(p) \/ Kill(p) PROVE lineage' = lineage
    BY <1>1, <2>3
    DEF Advance, Kill, PublishExisting, MovePack, ReusePack, SyncPack,
        CommitPublication, CommitImport, Abandon, Unlink, Unlinked,
        RemoveOrphan, Swept, SweepFails, ReadChunk, ReadDone, catalog
  <2>4. CASE Trim \/ PowerLoss
    BY <2>4
    DEF Trim, SetLabel, DeleteCheckpoint, KeepLatest, Reset, PowerLoss, catalog
  <2> QED BY <1>1, <2>1, <2>2, <2>3, <2>4 DEF Next
<1>2. ASSUME IInv, NEW p \in Proc, HasCandidate(p), Importing(p),
             checkpoints # <<>>
      PROVE  incoming[p].lineage = lineage
  BY <1>2 DEF IInv, Local, CandidateOK
<1>3. IInv /\ [Next]_vars =>
        [/\ checkpoints # <<>> => lineage' = lineage
         /\ \A p \in Proc :
              /\ HasCandidate(p) /\ Importing(p)
              /\ checkpoints # <<>> /\ checkpoints' # checkpoints
              => incoming[p].lineage = lineage]_vars
  BY <1>1, <1>2
<1> QED BY <1>3, Invariance, PTL DEF Spec, LineageStable
=============================================================================
