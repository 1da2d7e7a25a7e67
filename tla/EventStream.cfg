SPECIFICATION FairSpec
CONSTANTS
  None = None
  Device = {d1}
  Conn = {c1, c2}
  MaxSeq = 3
  Limit = 1
  Buffer = 1
  Wire = 1
  Page = 2
INVARIANTS
  TypeOK
  NoLostWakeup
PROPERTIES
  HintsSuffice
  EventuallyKnown
