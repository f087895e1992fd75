SPECIFICATION Spec
CONSTANTS
  admin1 = admin1
  admin2 = admin2
  caller1 = caller1
  caller2 = caller2
  h1 = h1
  h2 = h2
  h3 = h3
  t1 = t1
  t2 = t2
  d1 = d1
  x1 = x1
  x2 = x2
  NULL = NULL
  Admins = {admin1}
  Callers = {}
  Hooks = {h1, h2}
  Targets = {t1, t2}
  Detours = {d1}
  Pages = {0, 1, 2}
  PageOf <- SharedPage
  Fallible = {}
  Handles = {x1, x2}
  PinHook = h1
  PinTarget = t1
  PinDetour = d1
  Careful = TRUE
  MaxOps = 3
INVARIANT GuardRemoved
CHECK_DEADLOCK FALSE
