SPECIFICATION FairSpec
CONSTANTS
  h1 = h1
  h2 = h2
  p1 = p1
  f = f
  forward = forward
  q = q
  far = far
  thunk = thunk
  Data = Data
  NULL = NULL
  Callers = {p1}
  Hooks = {h1, h2}
  Rdata <- Linked
  Vtables <- Classes
  Jump <- Displacements
  MaxOps = 3
INVARIANT TypeOK
INVARIANT RightEntry
INVARIANT EntriesRestored
PROPERTY ImplementsStack
PROPERTY EnableCompletes
