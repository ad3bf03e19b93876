CONSTANTS
    Threads = {"old", "main", "listener"}
    Pids = {"p1", "p2"}
    PidOf <- TwoProcesses
    MayStall = TRUE
    MaxUpdates = 1
    MaxCrashes = 1
    NoPid = NoPid
    NoLock = NoLock
    Absent = Absent
    Partial = Partial
SPECIFICATION FairSpec
INVARIANTS
    OneHolder
PROPERTIES
    KeepsPromise
    DeadHolderStolen
