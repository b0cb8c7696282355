\* Closing a project while the user types.
CONSTANTS
  main = main
  bib = bib
  None = None
  Path = {main, bib}
  Scenarios <- Sessions
SPECIFICATION Spec
INVARIANT CloseKeepsEdits
CHECK_DEADLOCK FALSE
