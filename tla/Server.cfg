CONSTANTS
  a1 = a1  a2 = a2  f1 = f1  t1 = t1  Other = Other  None = None
  Navs = {a1, a2}
  Focuses = {f1}
  Tokens = {t1}
  MaxHandlers = 2
  Spurious = TRUE
SPECIFICATION FairSpec
CHECK_DEADLOCK FALSE
INVARIANTS
  TurnHasHolder
  ClaimEndsWithServer
PROPERTIES
  GateKept
  StopEnds
  AcceptedIsFinished
