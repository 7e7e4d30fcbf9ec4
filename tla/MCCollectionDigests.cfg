SPECIFICATION Spec
CONSTANTS
    Weeks = 2
    Copies = 2
    Retries = 1
    MaxUpsets = 5
INVARIANTS
    WeekMailedOnce
    ClaimIsKeptBySend
CHECK_DEADLOCK FALSE
