CONSTANTS
  n1 = n1  n2 = n2  x1 = x1
  s1 = s1  s2 = s2  c1 = c1  c2 = c2
  None = None
  Nonces = {n1, n2}
  Strays = {x1}
  Servers = {s1, s2}
  Clients = {c1}
  Routes <- SharedClient
SYMMETRY Symmetry
SPECIFICATION Spec
CHECK_DEADLOCK FALSE
INVARIANTS
  AtMostOneOutstanding
  ExecutedAtMostOnce
  ArmedMeansHandled
  NoStrandedDirective
  PoisonJustified
