SPECIFICATION Spec
CONSTANTS
  Insts <- AllInsts
  Target = 1000
  Buffer = 5000
  MaxPadding = 5
INVARIANT TypeOK
INVARIANT FitsSlot
INVARIANT OverwritesOnlyMoved
INVARIANT ForwardJumpsLand
INVARIANT NoBranchLost
CHECK_DEADLOCK FALSE
