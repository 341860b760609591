SPECIFICATION FairSpec
CONSTANTS
    MaxAttempts = 2
    Strikes = 2
    RefusedTries = 2
    ReleasedKept = 4
    MaxId = 2
    Native = FALSE
    Once = FALSE
    BootAuto = TRUE
    HostNetwork = FALSE
    ProbeUrl = FALSE
    ColdBackup = TRUE
    Hooks = FALSE
    IngressOf <- NoIngress
    Commands = {"backup"}
    Installed = TRUE
    DiskFails = FALSE
    EngineFails = TRUE
    TasksFail = TRUE
    Crashes = FALSE
    CanCorrupt = FALSE
    Shutdowns = FALSE
    EventsLost = FALSE
    Verdicts = FALSE
    Settings = {}
    MaxQueue = 2
INVARIANTS
    TokenOnlyWhileUp
PROPERTIES
    EveryOperationEnds
    DeadContainerComesBack
CHECK_DEADLOCK FALSE
