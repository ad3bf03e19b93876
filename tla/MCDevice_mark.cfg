SPECIFICATION Spec
CONSTANTS
    TTL = 2
    MaxGrants = 1
    MaxRenewals = 0
    MaxFaults = 1
INVARIANT MarkSurvives
CHECK_DEADLOCK FALSE
