SPECIFICATION FairHubSpec
CONSTANTS
  Sessions = {a, b}
  NoRow = NoRow
  STALE_SESSION = 1
  RETENTION = 3
INVARIANTS
  FirstReportStands
PROPERTIES
  FinishedIsFinal
  SilentSessionsSettle
CHECK_DEADLOCK FALSE
