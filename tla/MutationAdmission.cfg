\* Three mutations of two windows; two may be pending, one scope is remembered.
CONSTANTS
  w1 = w1  w2 = w2
  write = write  delete = delete  import = import  save = save
  Window = {w1, w2}
  Mutation = {write, delete, save}
  OwnerOf <- Owners3
  ScopesOf <- Announces3
  CommitsOf <- Commits3
  Scope <- Scopes
  MaxPending = 2
  MaxTracked = 1
  MaxElsewhere = 1
  None = None
SPECIFICATION Spec
INVARIANTS
  OverlapsInOrder
  ExpectationHonoured
  PendingIsLive
  OnlyNewerRefuses
CHECK_DEADLOCK FALSE
