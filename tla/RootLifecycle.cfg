SPECIFICATION Spec
CONSTANTS
  Device = {d1, d2}
  Content = {a, b}
  None = None
  MaxSteps = 3
  MaxFaults = 1
INVARIANTS TypeOK RootsAgree CaughtUp SnapshotIsHistory
PROPERTIES OwnIncarnationOnly
SYMMETRY Symmetry
CHECK_DEADLOCK FALSE
