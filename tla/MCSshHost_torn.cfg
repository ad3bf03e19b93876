CONSTANTS
    TTL = 1
    MaxTime = 3
    LastOp = 2
    MaxGrants = 1
    MaxRenewals = 0
    MaxFaults = 0
    MaxCrashes = 0
    MaxEdits = 2
SPECIFICATION Spec
INVARIANTS TornFenceSpared
CHECK_DEADLOCK FALSE
