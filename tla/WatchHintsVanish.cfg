SPECIFICATION Spec
CONSTANTS
  Path <- MCPath
  Dir <- MCDir
  Present <- MCPresent
  ChanCap = 1
  MaxEdits = 3
  MaxFaults = 0
PROPERTY DeletesOnlyTheGone
CHECK_DEADLOCK FALSE
