SPECIFICATION OtaFairSpec
CONSTANTS
    Versions = {v1, v2}
    v1 = v1
    v2 = v2
    Junk = Junk
    Sectors = 2
    MaxCuts = 2
    MaxLoads = 2
INVARIANTS
    AutobootWhole
    Resumable
PROPERTIES
    Completes
CHECK_DEADLOCK FALSE
