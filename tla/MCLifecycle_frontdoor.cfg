CONSTANTS
    h1 = h1
    main = main
    operator = operator
    mcp = mcp
    once = once
    Channels = {"ssh", "vnc"}
    Profiles <- MCProfiles
    Authenticators = {"a"}
    MAX_TTL = 2
    RENEWAL_WINDOW = 1
    Hosts = {h1}
    Main = main
    Listeners = {operator, mcp}
    Mcp = {mcp}
    Once = {}
    Declared <- DeclaredAll
    SshHosts = {h1}
    SshBorne = {"ssh"}
    DrillHosts = {}
    DryRun = FALSE
    Permitted = {"key", "wait"}
    McpProfiles = {"key"}
    Evaluate <- MCEvaluate
    ApprovalWindow = 2
    Requests <- FrontDoorOps
    Ttls = {1}
    MaxTime = 2
    LastOp = 1
    MaxRequests = 2
    MaxFaults = 0
    MaxCrashes = 0
SPECIFICATION Spec
PROPERTIES
    FrontDoorGated
