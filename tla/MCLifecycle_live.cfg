CONSTANTS
    h1 = h1
    main = main
    operator = operator
    mcp = mcp
    once = once
    Channels = {"ssh", "vnc"}
    Profiles <- MCProfiles
    Authenticators = {"a"}
    MAX_TTL = 2
    RENEWAL_WINDOW = 1
    Hosts = {h1}
    Main = main
    Listeners = {operator}
    Mcp = {}
    Once = {}
    Declared <- DeclaredAll
    SshHosts = {h1}
    SshBorne = {"ssh"}
    DrillHosts = {}
    DryRun = FALSE
    Permitted = {"key"}
    McpProfiles = {}
    Evaluate <- MCEvaluate
    ApprovalWindow = 1
    Requests <- NoDrillOps
    Ttls = {1}
    MaxTime = 4
    LastOp = 1
    MaxRequests = 1
    MaxFaults = 2
    MaxCrashes = 1
SPECIFICATION FairSpec
INVARIANTS
    NoHiddenAccess
PROPERTIES
    AccessEnds
    RevertCompletes
