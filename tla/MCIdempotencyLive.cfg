SPECIFICATION FairSpec
CONSTANTS
  Keys = {k1, k2}
  Requests = {r1, r2}
  Hashes = {h1, h2}
  NoRow = NoRow
  NoStamp = NoStamp
  RETENTION = 1
  MAX_ADMISSION_ATTEMPTS = 2
  SWEEP_LIMIT = 1
  MaxTime = 1
INVARIANTS
  ReplayIsOfSameRequest
PROPERTIES
  EveryRequestEnds
  ExpiredRowsLeave
CHECK_DEADLOCK FALSE
