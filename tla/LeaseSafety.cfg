CONSTANTS
  k1 = k1  k2 = k2  w1 = w1  w2 = w2
  p1 = p1  e1 = e1  e2 = e2
  None = None
  Clients = {k1, k2}
  Watchers = {w1, w2}
  Stoppers = {p1}
  Expirers = {e1, e2}
  MayKill = TRUE
  MaxFailures = 1
SYMMETRY Symmetry
SPECIFICATION Spec
CHECK_DEADLOCK FALSE
INVARIANT CleanExit
PROPERTY RemovalJustified
