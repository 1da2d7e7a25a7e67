SPECIFICATION Spec
CONSTANTS
  None = None
  Device = {d1, d2}
  Content = {a, b, c}
  Breaks = {"copy"}
  MaxEdits = 2
  MaxFaults = 1
PROPERTY
  NoSilentOverwrite
CHECK_DEADLOCK FALSE
