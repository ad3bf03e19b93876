SPECIFICATION FairSpec
CONSTANTS
    TTL = 2
    MaxGrants = 2
    MaxRenewals = 1
    MaxFaults = 3
INVARIANTS
    ClosedIsClosed
    OwnGrant
    AnchorsOnce
PROPERTIES
    LoadIsOff
    RevertSucceeds
    DeviceCloses
CHECK_DEADLOCK FALSE
