SPECIFICATION HealthySpec
CONSTANTS
  r1 = r1
  r2 = r2
  p1 = p1
  h1 = h1
  None = None
  Root = {r1, r2}
  Path = {p1}
  Handler = {h1}
  MaxSeq = 5
SYMMETRY Symmetry
INVARIANT FetchOmitsNothing
