SPECIFICATION Spec
CONSTANTS
  None = None
  Device = {d1, d2}
  Content = {a, b, c}
  Breaks = {}
  MaxEdits = 2
  MaxFaults = 0
PROPERTY
  LocalBytesKept
