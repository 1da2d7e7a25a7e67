SPECIFICATION Spec
CONSTANTS
  r1 = r1
  p1 = p1
  h1 = h1
  h2 = h2
  None = None
  Root = {r1}
  Path = {p1}
  Handler = {h1, h2}
  MaxSeq = 4
SYMMETRY Symmetry
INVARIANTS
  TypeOK
  NoLostUpdate
  IncarnationBound
  TablesMatchLog
  NonEmptyReplyCovers
PROPERTIES
  PublishInOrder
  ImplementsContract
  FloorKept
