SPECIFICATION Spec
CONSTANTS
    Releases = {i1, i2}
    MaxTime = 3
    MaxPerMail = 1
    Retries = 1
    MaxUpsets = 2
SYMMETRY Symmetry
INVARIANTS
    WatermarkSkipsNothing
    
CHECK_DEADLOCK FALSE
