SPECIFICATION FairSpec
CONSTANTS
    Batches = {b1}
    OrgSubs = 2
    FollowSubs = 2
    Limit = 2
    Retries = 1
    MaxFaults = 3
    MaxToggles = 2
INVARIANTS
    EveryMatchGetsEvent
    DuplicatesNeedFailures
PROPERTIES
    EveryBatchSettles
CHECK_DEADLOCK FALSE
