CONSTANTS
  c1 = c1
  c2 = c2
  c3 = c3
  i1 = i1
  i2 = i2
  so = so
  w1 = w1
  w2 = w2
  wo = wo
  p1 = p1
  p2 = p2
  p3 = p3
  o1 = o1
  None = none
  Clients = {c1, c2, c3}
  Sessions = {i1, i2, so}
  Windows = {w1, w2, wo}
  Panes = {p1, p2, p3, o1}
  Window <- MCWindow
  Linked <- MCLinked
  Parent <- MCParent
  Freshness = 1
  MaxMoves = 1
  MaxClock = 2
  MaxBurst = 2
SPECIFICATION MCSpec
CHECK_DEADLOCK FALSE
INVARIANTS
  OneEffect
  FreshEdge
PROPERTIES
  TypistOnly
  GestureEnds
