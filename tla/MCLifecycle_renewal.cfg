CONSTANTS
    h1 = h1
    main = main
    operator = operator
    mcp = mcp
    once = once
    Channels = {"ssh"}
    Profiles <- MCProfiles
    Authenticators = {"a"}
    MAX_TTL = 2
    RENEWAL_WINDOW = 2
    Hosts = {h1}
    Main = main
    Listeners = {operator, mcp}
    Mcp = {mcp}
    Once = {}
    Declared <- DeclaredAll
    SshHosts = {h1}
    SshBorne = {"ssh"}
    DrillHosts = {h1}
    DryRun = FALSE
    Permitted = {"key"}
    McpProfiles = {"key"}
    Evaluate <- MCEvaluate
    ApprovalWindow = 2
    Requests <- BothRenew
    Ttls = {1, 2}
    MaxTime = 3
    LastOp = 1
    MaxRequests = 1
    MaxFaults = 1
    MaxCrashes = 0
SPECIFICATION BackstopSpec
PROPERTIES
    OpensUnderBackstop
    BackstopEndsAccess
CHECK_DEADLOCK FALSE
