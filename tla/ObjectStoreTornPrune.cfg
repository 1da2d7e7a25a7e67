SPECIFICATION Spec
CONSTANTS
  None = None
  Workspace = {w1}
  Chunk = {c1}
  Snap = {s1}
  Event = {e1}
  TornPrune = TRUE
INVARIANT
  RetainedIsRetrievable
