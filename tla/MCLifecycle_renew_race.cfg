CONSTANTS
    h1 = h1
    main = main
    operator = operator
    mcp = mcp
    once = once
    Channels = {"ssh", "vnc"}
    Profiles <- MCProfiles
    Authenticators = {"a"}
    MAX_TTL = 4
    RENEWAL_WINDOW = 2
    Hosts = {h1}
    Main = main
    Listeners = {operator, mcp}
    Mcp = {mcp}
    Once = {}
    Declared <- DeclaredAll
    SshHosts = {h1}
    SshBorne = {"ssh"}
    DrillHosts = {}
    DryRun = FALSE
    Permitted = {"key"}
    McpProfiles = {"key"}
    Evaluate <- MCEvaluate
    ApprovalWindow = 2
    Requests <- BothRenew
    Ttls = {1, 2}
    MaxTime = 4
    LastOp = 2
    MaxRequests = 1
    MaxFaults = 0
    MaxCrashes = 0
SPECIFICATION Spec
PROPERTIES
    NeverPastTheBackstop
