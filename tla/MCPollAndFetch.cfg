SPECIFICATION FairPollSpec
CONSTANTS
    Runs = {r1, r2}
    Versions = 3
    Shown = 2
    Chunk = 1
    Retries = 1
    MaxFaults = 2
    Sources = {p1, p2}
    Broken = {p1}
    Updates = {u1}
    Nobody = Nobody
    Cap = 1
    Cooldown = 2
    Stale = 3
    MaxChanges = 1
    MaxUpsets = 1
INVARIANTS
    
    AnnouncedOnce
    
PROPERTIES
    
    EveryPageIsStored
