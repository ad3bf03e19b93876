CONSTANTS
    TTL = 1
    MaxTime = 3
    LastOp = 2
    MaxGrants = 2
    MaxRenewals = 1
    MaxFaults = 1
    MaxCrashes = 1
    MaxEdits = 0
SPECIFICATION Spec
INVARIANTS
    ClosedHostIsClean
    Guarded
PROPERTIES
    HostEndsAccess
CHECK_DEADLOCK FALSE
