SPECIFICATION FairSpec
CONSTANTS
  thesis = thesis
  book = book
  main = main
  chapter = chapter
  letter = letter
  one = one
  two = two
  None = None
  Project = {thesis, book}
  Home = thesis
  File = {main, chapter, letter}
  StoredMain = main
  Attempt = {one, two}
  RemoteRevs = {0, 1}
  RootOf <- Roots
  Budgets <- Scenarios
CHECK_DEADLOCK FALSE
INVARIANTS
  NoForeignPdf
  IndicatorHasAttempt
PROPERTIES
  RerunIsSettled
  OutputsAdvance
  TypingKeepsTheBuild
  CompilingEnds
