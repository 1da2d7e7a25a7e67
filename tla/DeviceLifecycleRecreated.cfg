SPECIFICATION Spec
CONSTANTS
  w1 = w1
  t1 = t1
  t2 = t2
  t3 = t3
  None = None
  Bare = Bare
  Workspace = {w1}
  Token = {t1, t2, t3}
  MaxGens = 2
  MaxLoops = 2
  MaxSteps = 2
  MaxFaults = 0
  MaxUpsets = 1
  RejectedMax = 2
INVARIANT LiveIndexIsOfOneLife
CHECK_DEADLOCK FALSE
