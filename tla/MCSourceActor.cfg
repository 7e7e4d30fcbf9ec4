SPECIFICATION FairTimerSpec
CONSTANTS
    None = None
    Window = 2
    Retry = 1
    Interval = 3
    Jitter = 1
    Backoff = 2
    Life = 2
    Mishaps = 2
INVARIANTS
    OneLiveRun
    PauseStopsFetching
PROPERTIES
    KeepsFetching
