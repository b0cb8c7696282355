\* Compiling, typing and changing tabs.
SPECIFICATION Spec
CONSTANTS
  thesis = thesis
  book = book
  main = main
  chapter = chapter
  letter = letter
  one = one
  two = two
  None = None
  Project = {thesis, book}
  Home = thesis
  File = {main, chapter, letter}
  StoredMain = main
  Attempt = {one, two}
  RemoteRevs = {0, 1}
  RootOf <- Roots
  Budgets <- Typing
INVARIANT CurrentIsFresh
CHECK_DEADLOCK FALSE
