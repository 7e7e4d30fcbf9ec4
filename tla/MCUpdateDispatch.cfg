SPECIFICATION Spec
CONSTANTS
  Runs = {r1, r2}
  Sessions = {r1, r2}
  Sources = {s1, s2}
  NoOne = NoOne
  NoRow = NoRow
  STALE_SESSION = 0
  RETENTION = 0
  LEASE = 1
  MaxFaults = 1
SYMMETRY Symmetry
INVARIANTS
  LeasesExclude
  RefusedHoldsNothing
CHECK_DEADLOCK FALSE
