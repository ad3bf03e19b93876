CONSTANTS
    h1 = h1
    main = main
    operator = operator
    mcp = mcp
    once = once
    Channels = {"ssh", "vnc"}
    Profiles <- MCProfiles
    Authenticators = {"a"}
    MAX_TTL = 2
    RENEWAL_WINDOW = 1
    Hosts = {h1}
    Main = main
    Listeners = {operator}
    Mcp = {}
    Once = {}
    Declared <- DeclaredAll
    SshHosts = {h1}
    SshBorne = {"ssh"}
    DrillHosts = {}
    DryRun = FALSE
    Permitted = {"key", "wait"}
    McpProfiles = {}
    Evaluate <- MCEvaluate
    ApprovalWindow = 2
    Requests <- OpenCloseOps
    Ttls = {2}
    MaxTime = 4
    LastOp = 2
    MaxRequests = 2
    MaxFaults = 1
    MaxCrashes = 0
SPECIFICATION Spec
INVARIANTS
    NoHiddenAccessEver
