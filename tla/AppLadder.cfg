SPECIFICATION Spec
CONSTANTS
    MaxAttempts = 2
    Strikes = 2
    RefusedTries = 2
    ReleasedKept = 4
    MaxId = 2
    Native = FALSE
    Once = FALSE
    BootAuto = TRUE
    HostNetwork = FALSE
    ProbeUrl = TRUE
    ColdBackup = FALSE
    Hooks = TRUE
    IngressOf <- NoIngress
    Commands = {"backup"}
    Installed = TRUE
    DiskFails = FALSE
    EngineFails = FALSE
    TasksFail = FALSE
    Crashes = FALSE
    CanCorrupt = FALSE
    Shutdowns = FALSE
    EventsLost = FALSE
    Verdicts = TRUE
    Settings = {}
    MaxQueue = 2
INVARIANTS
    BeliefMatchesEngine
    NoRestartIsLost
    NoProbeBesideAnOperation
CHECK_DEADLOCK FALSE
