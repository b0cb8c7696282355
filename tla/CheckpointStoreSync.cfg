\* A kill between installing a pack and syncing the directory.
CONSTANTS
  p1 = p1
  p2 = p2
  r1 = r1
  r2 = r2
  r3 = r3
  c1 = c1
  c2 = c2
  ours = ours
  theirs = theirs
  NoProc = NoProc
  NoLineage = NoLineage
  Proc = {p1, p2}
  Root = {r1, r2, r3}
  Chunk = {c1, c2}
  ChunksOf <- MCChunksOf
  Lineage = {ours, theirs}
  Archive <- MCArchives
  MaxCheckpoints = 3
  Faults = {"kill"}
SPECIFICATION Spec
SYMMETRY Processes
INVARIANTS
  PackDurable
