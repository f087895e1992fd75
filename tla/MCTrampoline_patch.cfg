SPECIFICATION Spec
CONSTANTS
  t1 = t1
  t2 = t2
  h1 = h1
  h2 = h2
  p1 = p1
  p2 = p2
  NULL = NULL
  Callers = {p1, p2}
  Hooks = {h1, h2}
  Targets = {t1, t2}
  PageOf <- OnePage
  Slots = 3
SYMMETRY Symmetry
INVARIANT TypeOK
INVARIANT NoFault
INVARIANT CodeRestored
PROPERTY SlotsStay
PROPERTY ImplementsStack
CHECK_DEADLOCK FALSE
