\* A restore, or recycling and cleaning up; a probe is two compiler runs.
CONSTANTS
  c1 = c1
  c2 = c2
  Request = {q1, q2}
  Version = {v1}
  Torn = Torn
  Command = {c1, c2}
  Scripts <- Ends
  Passes = 2
  None = None
SPECIFICATION FairSpec
PROPERTIES
  PublicationsEnd
  CommandsEnd
CHECK_DEADLOCK FALSE
