CONSTANTS
  c1 = c1  c2 = c2  t1 = t1  t2 = t2  p1 = p1  p2 = p2
  None = None  Unset = unset  Inactive = inactive
  Original = own
  Clients = {c1, c2}
  Tokens = {t1, t2}
  Processes = {p1, p2}
  MayFail = TRUE
  MayMiss = TRUE
SYMMETRY Symmetry
SPECIFICATION Spec
CHECK_DEADLOCK FALSE
INVARIANTS
  OriginalKept
  DimAccounted
PROPERTY RestoredOnlyWhenFree
