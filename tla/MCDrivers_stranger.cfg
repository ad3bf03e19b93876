CONSTANTS
    h1 = h1
    h2 = h2
    operator = operator
    main = main
    None = None
    Hosts = {h1, h2}
    Threads = {operator, main}
    Channels = {"bmc", "vnc", "http", "mqtt"}
    MaxOpens = 3
    MaxFaults = 2
    MaxInbox = 2
    MaxCrashes = 1
SPECIFICATION Spec
PROPERTIES
    StrangerUntouched
CHECK_DEADLOCK FALSE
