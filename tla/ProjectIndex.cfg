SPECIFICATION FairSpec
CONSTANTS
  thesis = thesis
  main = main
  chapter = chapter
  letter = letter
  None = None
  Project = {thesis}
  Path = {main, chapter, letter}
  StoredMain = main
  RootOf <- Roots
  Budgets <- Scenarios
CHECK_DEADLOCK FALSE
INVARIANTS
  PaintedIsCurrent
  BufferIsIndexed
  ContributionMatches
PROPERTIES
  IndexSettles
