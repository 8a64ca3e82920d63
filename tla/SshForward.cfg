CONSTANTS
  c1 = c1
  c2 = c2
  Callers = {c1, c2}
  Supervisor = c1
  PipeCap = 2
  MaxOut = 3
SPECIFICATION MCSpec
CHECK_DEADLOCK FALSE
INVARIANT
  ForwardAskedBack
