CONSTANTS
    MaxWaitCap = 9
    Inventories <- AllInventories
    ApprovalWindow = 3
SPECIFICATION Spec
INVARIANTS
    CycleVerdict
    AcceptedIsServable
    NothingForFree
    Approvable
PROPERTIES
    LoadDecides
    MetStays
