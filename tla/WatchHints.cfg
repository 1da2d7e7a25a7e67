SPECIFICATION FairSpec
CONSTANTS
  Path <- MCPath
  Dir <- MCDir
  Present <- MCPresent
  ChanCap = 1
  MaxEdits = 3
  MaxFaults = 1
INVARIANTS TypeOK ChangesAreAnnounced
PROPERTY ChangesGetPublished
CHECK_DEADLOCK FALSE
