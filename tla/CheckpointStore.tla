--------------------------- MODULE CheckpointStore ---------------------------
(***************************************************************************)
(* The per-project checkpoint store of crates/oleafly-history: an SQLite   *)
(* catalog (chunks, packs, manifests, checkpoints, store_identity), a      *)
(* directory packs/ of immutable content-addressed files, a directory      *)
(* staging/ of candidates, and one advisory operation lock that every      *)
(* operation takes shared (to read) or exclusive (to write).               *)
(*                                                                         *)
(* A snapshot root names a set of chunks (ChunksOf).  A pack is named by   *)
(* its content, so a pack is the nonempty set of chunks it was written     *)
(* with.  SQLite commits with synchronous = FULL, so a catalog transaction *)
(* is one durable atomic step.  The packs directory is weaker: an entry    *)
(* survives a power loss for certain only once the directory was synced,   *)
(* which durable records.                                                  *)
(*                                                                         *)
(* Two writers can never overlap, so each step of a writer is an action    *)
(* and what can come between two steps of one is a kill of the process     *)
(* (locks are released, files stay), a power loss (files whose entry was   *)
(* not synced may be lost, removed ones may come back) or an I/O error.    *)
(* Faults says which of them happen in a behaviour.                        *)
(***************************************************************************)
EXTENDS Integers, Sequences, FiniteSets, SequencesExt

CONSTANTS
  Proc,            \* threads and processes that open the store
  NoProc,          \* the operation lock has no exclusive holder
  Root,            \* snapshot roots a capture can produce
  Chunk,           \* content-defined chunks
  ChunksOf,        \* [Root -> SUBSET Chunk], the manifest of each root
  Lineage,         \* store lineages
  NoLineage,       \* what a publication brings: no history of another store
  Archive,         \* portable histories a user may import
  MaxCheckpoints,  \* MAX_HISTORY_CHECKPOINTS
  Faults           \* subset of {"kill", "io", "power"}

Archives == [lineage : Lineage, roots : Seq(Root), named : SUBSET Root]
Candidates ==
  [lineage : Lineage \cup {NoLineage}, roots : Seq(Root), named : SUBSET Root]
Brings(roots) == [lineage |-> NoLineage, roots |-> roots, named |-> {}]
NoCandidate == Brings(<<>>)

ASSUME ProcAssumption == NoProc \notin Proc
ASSUME LineageAssumption == NoLineage \notin Lineage
ASSUME RootAssumption == ChunksOf \in [Root -> SUBSET Chunk]
ASSUME ArchiveAssumption ==
  /\ Archive \subseteq Archives
  /\ \A a \in Archive : IsInjective(a.roots)
ASSUME LimitAssumption == MaxCheckpoints \in Nat \ {0}
ASSUME FaultAssumption == Faults \subseteq {"kill", "io", "power"}

VARIABLES
  chunks,       \* chunks and packs tables: the pack of a chunk, {} if unknown
  manifests,    \* manifests and manifest_chunks tables: known roots
  checkpoints,  \* checkpoints table: the visible roots, oldest first
  named,        \* checkpoints.label: the roots that carry a label
  lineage,      \* store_identity.lineage
  packs,        \* files in packs/
  durable,      \* files in packs/ as of the last directory sync
  staging,      \* processes with a candidate directory in staging/
  writer,       \* exclusive holder of the operation lock
  readers,      \* shared holders of the operation lock
  phase,        \* where each process is in its operation
  incoming,     \* the history its candidate would make visible
  fresh,        \* the chunks of its staged pack
  doomed,       \* pack files a garbage collection still has to unlink
  unread        \* chunks a reader still has to read

catalog == <<chunks, manifests, checkpoints, named, lineage>>
files   == <<packs, durable, staging>>
locks   == <<writer, readers>>
local   == <<phase, incoming, fresh, doomed, unread>>
vars    == <<catalog, files, locks, local>>

-----------------------------------------------------------------------------
Visible == Range(checkpoints)
NewestVisible == checkpoints[Len(checkpoints)]
ChunksOfAll(roots) == UNION {ChunksOf[r] : r \in roots}
Known == {c \in Chunk : chunks[c] # {}}
Catalogued == {chunks[c] : c \in Known}
RowsOf(pack) == {c \in Chunk : chunks[c] = pack}

ExclusivePhases == {"staged", "moved", "packed", "unlinking", "sweeping"}
Phases == ExclusivePhases \cup {"idle", "reading"}

Unlocked == writer = NoProc /\ readers = {}

(* A variant, not the code: readers do not keep a writer out.              *)
LockExclusiveOverReaders(p) ==
  writer = NoProc /\ writer' = p /\ UNCHANGED readers

LockExclusive(p) == Unlocked /\ writer' = p /\ UNCHANGED readers
LockShared(p) ==
  writer = NoProc /\ readers' = readers \cup {p} /\ UNCHANGED writer

(* Every way an operation ends: its locks are dropped with its StoreLocks. *)
Return(p) ==
  /\ writer' = IF writer = p THEN NoProc ELSE writer
  /\ readers' = readers \ {p}
  /\ phase' = [phase EXCEPT ![p] = "idle"]
  /\ incoming' = [incoming EXCEPT ![p] = NoCandidate]
  /\ fresh' = [fresh EXCEPT ![p] = {}]
  /\ doomed' = [doomed EXCEPT ![p] = {}]
  /\ unread' = [unread EXCEPT ![p] = {}]

Goto(p, next) == phase' = [phase EXCEPT ![p] = next]

Init ==
  /\ chunks = [c \in Chunk |-> {}]
  /\ manifests = {}
  /\ checkpoints = <<>>
  /\ named = {}
  /\ lineage \in Lineage
  /\ packs = {} /\ durable = {} /\ staging = {}
  /\ writer = NoProc /\ readers = {}
  /\ phase = [p \in Proc |-> "idle"]
  /\ incoming = [p \in Proc |-> NoCandidate]
  /\ fresh = [p \in Proc |-> {}]
  /\ doomed = [p \in Proc |-> {}]
  /\ unread = [p \in Proc |-> {}]

-----------------------------------------------------------------------------
(* Publication: a candidate is staged under the exclusive lock, which it   *)
(* keeps until it is published or dropped.                                 *)

(* What a candidate holds: the roots it brings and, as the content of its  *)
(* staged pack, those of their chunks the catalog does not have yet.       *)
HoldExcept(p, candidate, stored) ==
  /\ incoming' = [incoming EXCEPT ![p] = candidate]
  /\ fresh' =
       [fresh EXCEPT ![p] = ChunksOfAll(Range(candidate.roots)) \ stored]
HoldDedupingFiles(p, candidate) == HoldExcept(p, candidate, UNION packs)
Hold(p, candidate) == HoldExcept(p, candidate, Known)

HasCandidate(p) == phase[p] \in {"staged", "moved", "packed"}
Importing(p) == incoming[p].lineage # NoLineage

(* A variant, not the code: staging does not ask for the lock.             *)
StageUnlocked(p, root) ==
  /\ phase[p] = "idle" /\ writer = NoProc
  /\ Goto(p, "staged")
  /\ Hold(p, Brings(<<root>>))
  /\ staging' = staging \cup {p}
  /\ UNCHANGED <<catalog, packs, durable, locks, doomed, unread>>

Stage(p, root) ==
  /\ phase[p] = "idle"
  /\ LockExclusive(p)
  /\ Goto(p, "staged")
  /\ Hold(p, Brings(<<root>>))
  /\ staging' = staging \cup {p}
  /\ UNCHANGED <<catalog, packs, durable, doomed, unread>>

(* The root is visible already: the candidate is cleaned up, nothing is    *)
(* written and the caller is told the checkpoint exists.                   *)
PublishExisting(p) ==
  /\ phase[p] = "staged" /\ ~Importing(p)
  /\ Head(incoming[p].roots) \in Visible
  /\ staging' = staging \ {p}
  /\ Return(p)
  /\ UNCHANGED <<catalog, packs, durable>>

(* The pack may be installed: for a publication the root is new and the    *)
(* history with it stays within the portable limits.                       *)
MayInstall(p) ==
  \/ Importing(p)
  \/ /\ Head(incoming[p].roots) \notin Visible
     /\ Len(checkpoints) < MaxCheckpoints

(* rename(staged pack, packs/<id>.pack)                                    *)
MovePack(p) ==
  /\ phase[p] = "staged" /\ MayInstall(p) /\ p \in staging
  /\ fresh[p] # {} /\ fresh[p] \notin packs
  /\ packs' = packs \cup {fresh[p]}
  /\ Goto(p, "moved")
  /\ UNCHANGED <<catalog, durable, staging, locks, incoming,
                 fresh, doomed, unread>>

(* A file of that name is already there: it is hashed and kept, the staged *)
(* pack is removed.  The packs directory is not synced on this path.       *)
ReusePack(p) ==
  /\ phase[p] = "staged" /\ MayInstall(p) /\ p \in staging
  /\ fresh[p] \in packs \cup {{}}
  /\ Goto(p, "packed")
  /\ UNCHANGED <<catalog, files, locks, incoming, fresh,
                 doomed, unread>>

(* A variant, not the code: the directory is not synced.                   *)
SyncPackNever(p) ==
  /\ phase[p] = "moved"
  /\ Goto(p, "packed")
  /\ UNCHANGED <<catalog, files, locks, incoming, fresh, doomed, unread>>

SyncPack(p) ==
  /\ phase[p] = "moved"
  /\ durable' = packs
  /\ Goto(p, "packed")
  /\ UNCHANGED <<catalog, packs, staging, locks, incoming,
                 fresh, doomed, unread>>

InsertPack(p) ==
  chunks' = [c \in Chunk |-> IF c \in fresh[p] THEN fresh[p] ELSE chunks[c]]

(* The catalog transaction of a publication: pack and chunk rows, the      *)
(* manifest and, last, the visible root.                                   *)
CommitPublication(p) ==
  /\ phase[p] = "packed" /\ ~Importing(p)
  /\ InsertPack(p)
  /\ manifests' = manifests \cup Range(incoming[p].roots)
  /\ checkpoints' = checkpoints \o incoming[p].roots
  /\ staging' = staging \ {p}
  /\ Return(p)
  /\ UNCHANGED <<named, lineage, packs, durable>>

(* The candidate is dropped: cancelled, refused, or an operation failed.   *)
(* Its pack, if installed, stays behind as a file no row refers to.        *)
Abandon(p) ==
  /\ \/ phase[p] \in {"staged", "packed"}
     \/ phase[p] = "moved" /\ "io" \in Faults
  /\ staging' = staging \ {p}
  /\ Return(p)
  /\ UNCHANGED <<catalog, packs, durable>>

-----------------------------------------------------------------------------
(* Import of a portable history, in one catalog transaction.               *)

(* Every record is read and verified into a staged pack; a history of      *)
(* another lineage is refused unless the store is empty.                   *)
Load(p, archive) ==
  /\ phase[p] = "idle"
  /\ LockExclusive(p)
  /\ Len(archive.roots) <= MaxCheckpoints
  /\ Goto(p, "staged")
  /\ Hold(p, archive)
  /\ staging' = {p}
  /\ UNCHANGED <<catalog, packs, durable, doomed, unread>>

(* A variant, not the code: the lineage is not compared.                   *)
ImportLoadAnyLineage(p, archive) == Load(p, archive)

ImportLoad(p, archive) ==
  (checkpoints # <<>> => archive.lineage = lineage) /\ Load(p, archive)

(* The sequences over a set, up to a length.                               *)
Lists(S, longest) == UNION {[1..n -> S] : n \in 0..longest}

(* missing is the subsequence of the archive's roots that are not visible. *)
IsSubsequence(missing, roots) ==
  /\ \A i, j \in DOMAIN missing : i < j =>
       \E k, l \in DOMAIN roots :
         k < l /\ roots[k] = missing[i] /\ roots[l] = missing[j]
  /\ IsInjective(missing)

IsMissing(missing, roots) ==
  Range(missing) = Range(roots) \ Visible /\ IsSubsequence(missing, roots)

(* A variant, not the code: the roots go to the front.                     *)
AdoptedInFront(missing) == checkpoints \o missing

(* The missing roots go behind those already visible, which are deleted    *)
(* and inserted again, labels included.                                    *)
Adopted(missing) == missing \o checkpoints

(* An empty store takes the archive's lineage.                             *)
CommitImport(p) ==
  LET archive == incoming[p]
  IN /\ phase[p] = "packed" /\ Importing(p)
     /\ InsertPack(p)
     /\ \E missing \in Lists(Range(archive.roots), Len(archive.roots)) :
          /\ IsMissing(missing, archive.roots)
          /\ manifests' = manifests \cup Range(missing)
          /\ checkpoints' = Adopted(missing)
          /\ named' = named \cup (archive.named \cap Range(missing))
     /\ lineage' = IF checkpoints = <<>> THEN archive.lineage ELSE lineage
     /\ staging' = staging \ {p}
     /\ Return(p)
     /\ UNCHANGED <<packs, durable>>

-----------------------------------------------------------------------------
(* Trimming the history: one statement or transaction each, between taking *)
(* the exclusive lock and dropping it.                                     *)

SetLabel(root, labelled) ==
  /\ Unlocked /\ root \in Visible
  /\ Len(checkpoints) <= MaxCheckpoints
  /\ named' = IF labelled THEN named \cup {root} ELSE named \ {root}
  /\ UNCHANGED <<chunks, manifests, checkpoints, lineage, files,
                 locks, local>>

DeleteCheckpoint(i) ==
  /\ Unlocked
  /\ checkpoints' = RemoveAt(checkpoints, i)
  /\ named' = named \ {checkpoints[i]}
  /\ UNCHANGED <<chunks, manifests, lineage, files, locks, local>>

KeepLatest ==
  /\ Unlocked /\ checkpoints # <<>>
  /\ checkpoints' = <<NewestVisible>>
  /\ named' = named \cap {NewestVisible}
  /\ UNCHANGED <<chunks, manifests, lineage, files, locks, local>>

Reset ==
  /\ Unlocked
  /\ checkpoints' = <<>>
  /\ named' = {}
  /\ UNCHANGED <<chunks, manifests, lineage, files, locks, local>>

-----------------------------------------------------------------------------
(* Garbage collection and the sweep of files no row refers to.             *)

(* The collection's transaction.  Manifests of roots no longer visible go, *)
(* then every pack none of whose chunks a remaining manifest refers to.    *)
Collect(p, unused) ==
  /\ phase[p] = "idle"
  /\ LockExclusive(p)
  /\ Goto(p, "unlinking")
  /\ staging' = {}
  /\ manifests' = Visible
  /\ chunks' = [c \in Chunk |-> IF chunks[c] \in unused THEN {} ELSE chunks[c]]
  /\ doomed' = [doomed EXCEPT ![p] = unused]
  /\ UNCHANGED <<checkpoints, named, lineage, packs, durable, incoming, fresh,
                 unread>>

(* A variant, not the code: mixed packs are collected too.                 *)
GarbageCollectMixed(p) ==
  Collect(p, {pack \in Catalogued :
                ~(RowsOf(pack) \subseteq ChunksOfAll(Visible))})

GarbageCollect(p) ==
  Collect(p, {pack \in Catalogued :
                RowsOf(pack) \cap ChunksOfAll(Visible) = {}})

Unlink(p, pack) ==
  /\ phase[p] = "unlinking" /\ pack \in doomed[p]
  /\ packs' = packs \ {pack}
  /\ doomed' = [doomed EXCEPT ![p] = @ \ {pack}]
  /\ UNCHANGED <<catalog, durable, staging, locks, phase,
                 incoming, fresh, unread>>

Unlinked(p) ==
  /\ phase[p] = "unlinking" /\ doomed[p] = {}
  /\ Goto(p, "sweeping")
  /\ UNCHANGED <<catalog, files, locks, incoming, fresh,
                 doomed, unread>>

(* A variant, not the code: the cleanup does not ask for the lock.         *)
OpenUnlocked(p) ==
  /\ phase[p] = "idle"
  /\ staging' = {}
  /\ UNCHANGED <<catalog, packs, durable, locks, local>>

(* Store::open on an existing store: stale staging goes, then the sweep.   *)
Open(p) ==
  /\ phase[p] = "idle"
  /\ LockExclusive(p)
  /\ Goto(p, "sweeping")
  /\ staging' = {}
  /\ UNCHANGED <<catalog, packs, durable, incoming, fresh,
                 doomed, unread>>

RemoveOrphan(p, pack) ==
  /\ phase[p] = "sweeping" /\ pack \in packs \ Catalogued
  /\ packs' = packs \ {pack}
  /\ UNCHANGED <<catalog, durable, staging, locks, local>>

Swept(p) ==
  /\ phase[p] = "sweeping" /\ packs \subseteq Catalogued
  /\ durable' = packs
  /\ Return(p)
  /\ UNCHANGED <<catalog, packs, staging>>

(* A file could not be removed, or the directory not synced.               *)
SweepFails(p) ==
  /\ "io" \in Faults
  /\ phase[p] \in {"unlinking", "sweeping"}
  /\ Return(p)
  /\ UNCHANGED <<catalog, files>>

-----------------------------------------------------------------------------
(* Readers.                                                                *)

(* materialize and export_checkpoint of a visible root.                    *)
ReadCheckpoint(p, root) ==
  /\ phase[p] = "idle" /\ root \in Visible
  /\ LockShared(p)
  /\ Goto(p, "reading")
  /\ unread' = [unread EXCEPT ![p] = ChunksOf[root]]
  /\ UNCHANGED <<catalog, files, incoming, fresh, doomed>>

(* verify hashes every pack of the catalog and reads every visible root.   *)
Verify(p) ==
  /\ phase[p] = "idle"
  /\ LockShared(p)
  /\ Goto(p, "reading")
  /\ unread' = [unread EXCEPT ![p] = Known \cup ChunksOfAll(Visible)]
  /\ UNCHANGED <<catalog, files, incoming, fresh, doomed>>

(* export_history reads every visible root, within the format's limits.    *)
ExportHistory(p) ==
  /\ phase[p] = "idle"
  /\ Len(checkpoints) <= MaxCheckpoints
  /\ LockShared(p)
  /\ Goto(p, "reading")
  /\ unread' = [unread EXCEPT ![p] = ChunksOfAll(Visible)]
  /\ UNCHANGED <<catalog, files, incoming, fresh, doomed>>

Readable(c) == chunks[c] # {} /\ chunks[c] \in packs

ReadChunk(p, c) ==
  /\ phase[p] = "reading" /\ c \in unread[p]
  /\ Readable(c)
  /\ unread' = [unread EXCEPT ![p] = @ \ {c}]
  /\ UNCHANGED <<catalog, files, locks, phase, incoming, fresh,
                 doomed>>

(* The operation has read everything, or stops at a chunk it cannot find.  *)
ReadDone(p) ==
  /\ phase[p] = "reading"
  /\ unread[p] # {} => \E c \in unread[p] : ~Readable(c)
  /\ Return(p)
  /\ UNCHANGED <<catalog, files>>

-----------------------------------------------------------------------------
(* The environment.                                                        *)

(* The process dies: the system drops its locks, its files stay.           *)
Kill(p) ==
  /\ "kill" \in Faults /\ phase[p] # "idle"
  /\ Return(p)
  /\ UNCHANGED <<catalog, files>>

(* The machine stops: everything in memory is lost, and of the packs       *)
(* directory only what was synced is certain.                              *)
PowerLoss ==
  /\ "power" \in Faults
  /\ \E left \in SUBSET (packs \cup durable) :
       /\ packs \cap durable \subseteq left
       /\ packs' = left /\ durable' = left
  /\ writer' = NoProc /\ readers' = {}
  /\ phase' = [p \in Proc |-> "idle"]
  /\ incoming' = [p \in Proc |-> NoCandidate]
  /\ fresh' = [p \in Proc |-> {}]
  /\ doomed' = [p \in Proc |-> {}]
  /\ unread' = [p \in Proc |-> {}]
  /\ UNCHANGED <<catalog, staging>>

-----------------------------------------------------------------------------
(* The steps a process takes once its operation holds the lock.            *)
Advance(p) ==
  \/ PublishExisting(p) \/ MovePack(p) \/ ReusePack(p) \/ SyncPack(p)
  \/ CommitPublication(p) \/ CommitImport(p) \/ Abandon(p)
  \/ \E pack \in doomed[p] : Unlink(p, pack)
  \/ Unlinked(p)
  \/ \E pack \in packs : RemoveOrphan(p, pack)
  \/ Swept(p) \/ SweepFails(p)
  \/ \E c \in unread[p] : ReadChunk(p, c)
  \/ ReadDone(p)

Begin(p) ==
  \/ \E root \in Root : Stage(p, root) \/ ReadCheckpoint(p, root)
  \/ \E archive \in Archive : ImportLoad(p, archive)
  \/ GarbageCollect(p) \/ Open(p)
  \/ Verify(p) \/ ExportHistory(p)

Trim ==
  \/ \E root \in Root, labelled \in BOOLEAN : SetLabel(root, labelled)
  \/ \E i \in DOMAIN checkpoints : DeleteCheckpoint(i)
  \/ KeepLatest \/ Reset

Next ==
  \/ \E p \in Proc : Begin(p) \/ Advance(p) \/ Kill(p)
  \/ Trim
  \/ PowerLoss

Spec == Init /\ [][Next]_vars

-----------------------------------------------------------------------------
(* The variables hold values of the tables and files they stand for, no    *)
(* root is visible twice, and the exclusive lock has an owner exactly      *)
(* while one process is in an operation that writes.                       *)
TypeOK ==
  /\ chunks \in [Chunk -> SUBSET Chunk]
  /\ manifests \subseteq Root
  /\ checkpoints \in Seq(Root) /\ IsInjective(checkpoints)
  /\ named \subseteq Root
  /\ lineage \in Lineage
  /\ packs \subseteq SUBSET Chunk /\ durable \subseteq SUBSET Chunk
  /\ staging \subseteq Proc
  /\ writer \in Proc \cup {NoProc}
  /\ readers \subseteq Proc
  /\ phase \in [Proc -> Phases]
  /\ incoming \in [Proc -> Candidates]
  /\ fresh \in [Proc -> SUBSET Chunk]
  /\ doomed \in [Proc -> SUBSET SUBSET Chunk]
  /\ unread \in [Proc -> SUBSET Chunk]

(* Every chunk of every visible checkpoint is in a pack of the catalog     *)
(* whose file exists, whatever publications, imports, trims, collections,  *)
(* sweeps and faults came before: the store never shows a checkpoint it    *)
(* cannot give back.                                                       *)
VisibleReadable ==
  \A root \in Visible : \A c \in ChunksOf[root] : Readable(c)

(* The tables agree (their foreign keys): a visible root has its manifest, *)
(* a manifest its chunks, only a visible root has a label, and a pack is   *)
(* in the catalog with all of its chunks or not at all.                    *)
CatalogClosed ==
  /\ Visible \subseteq manifests
  /\ named \subseteq Visible
  /\ ChunksOfAll(manifests) \subseteq Known
  /\ \A c \in Known : c \in chunks[c] /\ RowsOf(chunks[c]) = chunks[c]

(* A pack is durable before the catalog refers to it: "publishes a         *)
(* candidate root last, after its immutable pack is durable".              *)
PackDurable == Catalogued \subseteq durable

(* A reader that passed the lock never meets a missing chunk or pack, even *)
(* while collections, sweeps and publications are waiting or starting.     *)
NoTornRead == \A p \in Proc : \A c \in unread[p] : Readable(c)

(* Nobody removes a candidate its owner still means to publish: stale      *)
(* staging is cleaned by opening, importing and collecting.                *)
CandidateIntact == \A p \in Proc : HasCandidate(p) => p \in staging

(* What a candidate found missing from the catalog stays missing until its *)
(* commit, so a pack never repeats a chunk another pack already has.       *)
FreshStaysFresh ==
  \A p \in Proc : HasCandidate(p) =>
    fresh[p] = ChunksOfAll(Range(incoming[p].roots)) \ Known

(* A store that shows checkpoints never changes its lineage, and the       *)
(* history an import is about to add to it is of that lineage: the         *)
(* histories of two stores never mix.                                      *)
LineageStable ==
  [][/\ checkpoints # <<>> => lineage' = lineage
     /\ \A p \in Proc :
          /\ HasCandidate(p) /\ Importing(p)
          /\ checkpoints # <<>> /\ checkpoints' # checkpoints
          => incoming[p].lineage = lineage]_vars

(* The history stays within the format's limits: totals above them are     *)
(* what PortableHistoryBudget::from_totals calls corrupt.                  *)
WithinFormatLimits == Len(checkpoints) <= MaxCheckpoints

(* The promise of CheckpointHistory, kept by the store.                    *)
History == INSTANCE CheckpointHistory WITH history <- checkpoints
KeepsHistory == History!Spec
=============================================================================
