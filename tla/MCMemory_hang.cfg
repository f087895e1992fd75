SPECIFICATION FairSpec
CONSTANTS
  NULL = NULL
  Gran = 16
  BlockSize = 8
  SlotSize = 2
  MaxRange = 32
  MinApp = 16
  MaxApp = 127
  Busy <- CodeGranules
  Origins <- EdgeAndFar
  MaxHanded = 2
PROPERTY AllocationReturns
