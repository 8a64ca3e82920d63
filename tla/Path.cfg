CONSTANTS
  a = a
  b = b
  Requests = {a, b}
  None = none
  N = 3
  Plain = {2}
  Entry <- MCEntry
SPECIFICATION FairSpec
CHECK_DEADLOCK FALSE
INVARIANTS
  OwnAnswer
  LeftoversHarmless
PROPERTIES
  KeepsPromise
  OneGetsThrough
  GatesComeFree
