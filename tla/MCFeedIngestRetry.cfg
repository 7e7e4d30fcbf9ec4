SPECIFICATION Spec
CONSTANTS
    Runs = {r1}
    Versions = 2
    Shown = 2
    Chunk = 1
    Retries = 1
    MaxFaults = 1
INVARIANTS
    RetryIsSafe
