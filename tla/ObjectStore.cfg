SPECIFICATION Spec
CONSTANTS
  None = None
  Workspace = {w1, w2}
  Chunk = {c1, c2}
  Snap = {s1}
  Event = {e1, e2}
  TornPrune = FALSE
INVARIANTS
  TypeOK
  ServedRowsHaveFiles
  RetainedIsRetrievable
  CountsCountReferences
  PurgedStaysPurged
