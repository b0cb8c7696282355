\* Three publications; a save and a reset, or recycling and a deletion.
CONSTANTS
  c1 = c1
  c2 = c2
  Request = {q1, q2, q3}
  Version = {v1, v2}
  Torn = Torn
  Command = {c1, c2}
  Scripts <- Edits
  Passes = 1
  None = None
SPECIFICATION Spec
SYMMETRY Alike
INVARIANTS
  OneAtATime
  StoppedStaysInvisible
  ErasedStaysErased
  WholeProjects
  StopReachesCompiler
CHECK_DEADLOCK FALSE
