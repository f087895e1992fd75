SPECIFICATION Spec
CONSTANTS
  Insts <- AllInsts
  Target = 1000
  Buffer = 5000
  MaxPadding = 5
INVARIANT CallsReachRelay
CHECK_DEADLOCK FALSE
