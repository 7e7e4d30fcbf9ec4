SPECIFICATION Spec
CONSTANTS
  Keys = {k1}
  Requests = {r1, r2, r3}
  Hashes = {h1}
  NoRow = NoRow
  NoStamp = NoStamp
  RETENTION = 2
  MAX_ADMISSION_ATTEMPTS = 2
  SWEEP_LIMIT = 1
  MaxTime = 2
SYMMETRY Symmetry
INVARIANTS
  AtMostOneEffect
  EffectKeepsItsRow
  AcknowledgedIsReplayable
  RejectionFreesKey
PROPERTIES
  CompletedIsStable
  ImplementsContract
CHECK_DEADLOCK FALSE
