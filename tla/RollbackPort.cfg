SPECIFICATION Spec
CONSTANTS
    MaxAttempts = 2
    Strikes = 2
    RefusedTries = 2
    ReleasedKept = 4
    MaxId = 2
    Native = FALSE
    Once = FALSE
    BootAuto = TRUE
    HostNetwork = FALSE
    ProbeUrl = FALSE
    ColdBackup = FALSE
    Hooks = FALSE
    IngressOf <- LaterDynamic
    Commands = {"update"}
    Installed = TRUE
    DiskFails = FALSE
    EngineFails = TRUE
    TasksFail = FALSE
    Crashes = FALSE
    CanCorrupt = FALSE
    Shutdowns = FALSE
    EventsLost = FALSE
    Verdicts = FALSE
    Settings = {}
    MaxQueue = 2
INVARIANTS
    TokenOnlyWhileUp
CHECK_DEADLOCK FALSE
