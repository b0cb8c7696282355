SPECIFICATION FairSpec
CONSTANTS
  main = main
  bib = bib
  None = None
  Path = {main, bib}
  Scenarios <- Sessions
CHECK_DEADLOCK FALSE
INVARIANTS
  DirtyIsPending
PROPERTIES
  EditsSurvive
  DirtyIsSaved
  TransitionsEnd
