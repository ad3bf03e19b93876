CONSTANTS
    TTL = 1
    MaxTime = 3
    LastOp = 2
    MaxGrants = 2
    MaxRenewals = 1
    MaxFaults = 1
    MaxCrashes = 1
    MaxEdits = 1
SPECIFICATION Spec
INVARIANTS BackstopStillFires
CHECK_DEADLOCK FALSE
