SPECIFICATION Spec
CONSTANTS
    Threads = {t1, t2}
    Hosts = {h1}
    Kind <- SortOf
    TotpSecrets <- Secrets
    PasswordHashes <- Hashes
    CodeOf <- Codes
    WordOf <- Words
    Enough <- Two
    FidoCounters = {0, 1}
    Nobody = Nobody
    STEP_SECS = 1
    RETAIN_SECS = 3
    MaxLag = 1
    MaxTime = 4
    MaxRequests = 2
    MaxProofs = 3
    MaxCrashes = 1
INVARIANTS
    SpentOnce
    CountersAdvance
SYMMETRY Symmetry
CHECK_DEADLOCK FALSE
