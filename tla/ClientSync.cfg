SPECIFICATION FairSpec
CONSTANTS
  None = None
  Device = {d1, d2}
  Content = {a, b, c}
  Breaks = {"crash", "drop", "page", "head", "submit", "reply"}
  MaxEdits = 2
  MaxFaults = 1
INVARIANTS
  TypeOK
  CaughtUp
  NoEcho
PROPERTIES
  NoSilentOverwrite
  EventuallySynced
CHECK_DEADLOCK FALSE
