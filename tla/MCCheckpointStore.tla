-------------------------- MODULE MCCheckpointStore --------------------------
(***************************************************************************)
(* Two processes and three snapshots over two chunks: a small document, an *)
(* other one, and one that holds both, so that a pack can serve several    *)
(* roots, become mixed when one of them goes, and be written again.        *)
(***************************************************************************)
EXTENDS CheckpointStore, TLC

CONSTANTS p1, p2, r1, r2, r3, c1, c2, ours, theirs

MCChunksOf == r1 :> {c1} @@ r2 :> {c2} @@ r3 :> {c1, c2}

(* A history of this store's lineage saved earlier, and a foreign one.     *)
MCArchives ==
  { [lineage |-> ours, roots |-> <<r1, r2>>, named |-> {r2}],
    [lineage |-> theirs, roots |-> <<r3>>, named |-> {}] }

Processes == Permutations({p1, p2})
=============================================================================
