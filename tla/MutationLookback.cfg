\* Two changes of different paths, and a third on what was read between.
CONSTANTS
  w1 = w1  w2 = w2
  write = write  delete = delete  import = import  save = save
  Window = {w1, w2}
  Mutation = {write, save, delete}
  OwnerOf <- Owners3
  ScopesOf <- Announces3
  CommitsOf <- Commits3
  Scope <- Scopes
  MaxPending = 3
  MaxTracked = 3
  MaxElsewhere = 0
  None = None
SPECIFICATION SpecLookback
INVARIANT TargetUnchanged
CHECK_DEADLOCK FALSE
