CONSTANTS
  n1 = n1  n2 = n2  x1 = x1  s1 = s1  s2 = s2  c1 = c1  c2 = c2
  None = None
  Nonces = {n1, n2}
  Strays = {}
  Servers = {s1}
  Clients = {c1, c2}
  Routes <- SoleRelay
SPECIFICATION FairSpec
CHECK_DEADLOCK FALSE
INVARIANTS
  OwnReply
PROPERTIES
  PromiseKept
  BegunIsAnswered
