SPECIFICATION Spec
CONSTANTS
  admin1 = admin1
  admin2 = admin2
  caller = caller
  h1 = h1
  h2 = h2
  h3 = h3
  t1 = t1
  t2 = t2
  d1 = d1
  d2 = d2
  x1 = x1
  x2 = x2
  Int3 = Int3
  NULL = NULL
  Admins = {admin1, admin2}
  Callers = {}
  Hooks = {h1, h2}
  Targets = {t1, t2}
  Detours = {d1, d2}
  Handles = {x1, x2}
  OrigByte <- CompiledByte
  PinHook = NULL
  PinTarget = NULL
  PinDetour = NULL
  MaxOps = 3
INVARIANT HookIntercepts
CHECK_DEADLOCK FALSE
