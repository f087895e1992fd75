SPECIFICATION Spec
CONSTANTS
  t1 = t1
  t2 = t2
  t3 = t3
  p1 = p1
  p2 = p2
  NULL = NULL
  Callers = {p1, p2}
  Targets = {t1, t2, t3}
  PageOf <- TwoPages
SYMMETRY Symmetry
INVARIANT TypeOK
INVARIANT GuardsKept
INVARIANT NoCrash
PROPERTY OwnCodeOnlyInWindow
CHECK_DEADLOCK FALSE
