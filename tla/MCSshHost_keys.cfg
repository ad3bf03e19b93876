CONSTANTS
    TTL = 1
    MaxTime = 3
    LastOp = 2
    MaxGrants = 2
    MaxRenewals = 0
    MaxFaults = 1
    MaxCrashes = 0
    MaxEdits = 2
SPECIFICATION Spec
INVARIANTS
    ClosedHostIsClean
    LinesKept
CHECK_DEADLOCK FALSE
