\* Three overlapping mutations of one window; two may be pending.
CONSTANTS
  w1 = w1  w2 = w2
  write = write  delete = delete  import = import  save = save
  Window = {w1}
  Mutation = {write, delete, import}
  OwnerOf <- OneOwner
  ScopesOf <- Announces3
  CommitsOf <- Commits3
  Scope <- Scopes
  MaxPending = 2
  MaxTracked = 1
  MaxElsewhere = 0
  None = None
SPECIFICATION FairSpec
PROPERTY MutationsEnd
CHECK_DEADLOCK FALSE
