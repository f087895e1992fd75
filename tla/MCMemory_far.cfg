SPECIFICATION Spec
CONSTANTS
  NULL = NULL
  Gran = 16
  BlockSize = 8
  SlotSize = 2
  MaxRange = 56
  MinApp = 16
  MaxApp = 127
  Busy <- CodeGranules
  Origins <- TwoModules
  MaxHanded = 4
INVARIANT TypeOK
INVARIANT SlotsAccountedFor
PROPERTY ImplementsPool
