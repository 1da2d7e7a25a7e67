SPECIFICATION Spec
CONSTANTS
  Device = {d1, d2}
  Content = {a, b}
  None = None
  MaxSteps = 2
  MaxFaults = 0
INVARIANTS DeletionsArrive
SYMMETRY Symmetry
CHECK_DEADLOCK FALSE
