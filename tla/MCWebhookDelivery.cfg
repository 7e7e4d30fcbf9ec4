SPECIFICATION FairSpec
CONSTANTS
  s1 = s1
  Subs = {s1}
  Messages = {m1, m2}
  Consumers = {c1, c2}
  SubOf <- AllToOne
  UserOwned = {s1}
  Deleted = Deleted
  NoStreak = NoStreak
  NoJob = NoJob
  MAX_RETRIES = 2
  ADMIN_AUTO_DISABLE_FAILURES = 4
  USER_AUTO_DISABLE_FAILURES = 3
  USER_AUTO_DISABLE_MIN_FAILURES = 2
  USER_AUTO_DISABLE_STREAK = 1
  MaxTime = 1
  MaxEdits = 1
  MaxCrashes = 1
INVARIANTS
  CountersAreExact
  NoStalePause
  
  ThresholdNotMissed
  NoMessageLost
PROPERTIES
  EveryMessageSettles
CHECK_DEADLOCK FALSE
