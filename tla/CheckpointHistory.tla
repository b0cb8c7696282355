-------------------------- MODULE CheckpointHistory --------------------------
(***************************************************************************)
(* What the checkpoint store promises to the Versioning window, without    *)
(* packs, locks or processes: a history of distinct snapshots, oldest      *)
(* first, some of them labelled.  A compile records one new snapshot as    *)
(* the newest.  Trimming forgets snapshots and reorders none.  Importing a *)
(* history of the same lineage brings in older snapshots only, so what was *)
(* the newest before stays the newest, and it changes no label of a        *)
(* snapshot that was there.                                                *)
(***************************************************************************)
EXTENDS Integers, Sequences, Functions

CONSTANTS Root, Lineage

VARIABLES history, named, lineage

hvars == <<history, named, lineage>>

Listed == Range(history)

Init == history = <<>> /\ named = {} /\ lineage \in Lineage

Record(root) ==
  /\ root \notin Listed
  /\ history' = Append(history, root)
  /\ UNCHANGED <<named, lineage>>

Label(root) ==
  /\ root \in Listed
  /\ named' \in {named \cup {root}, named \ {root}}
  /\ UNCHANGED <<history, lineage>>

(* The kept snapshots, in their order, with their labels.                  *)
Forget(kept) ==
  /\ Range(history') = kept /\ Len(history') <= Len(history)
  /\ \A i, j \in DOMAIN history' : i < j =>
       \E k, l \in DOMAIN history :
         k < l /\ history[k] = history'[i] /\ history[l] = history'[j]
  /\ named' = named \cap kept
  /\ UNCHANGED lineage

(* older are snapshots the history did not have.                           *)
Adopt(older, labels) ==
  /\ Range(older) \cap Listed = {}
  /\ history' = older \o history
  /\ labels \subseteq Range(older)
  /\ named' = named \cup labels
  /\ lineage' \in Lineage
  /\ history # <<>> => lineage' = lineage

Next ==
  \/ \E root \in Root : Record(root) \/ Label(root)
  \/ \E kept \in SUBSET Listed : Forget(kept)
  \/ \E older \in UNION {[1..n -> Root] : n \in 0..Len(history')} :
       \E labels \in SUBSET Range(older) : Adopt(older, labels)

Spec == Init /\ [][Next]_hvars
=============================================================================
