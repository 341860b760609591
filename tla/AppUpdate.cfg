SPECIFICATION Spec
CONSTANTS
    MaxAttempts = 2
    Strikes = 2
    RefusedTries = 2
    ReleasedKept = 4
    MaxId = 2
    Native = FALSE
    Once = FALSE
    BootAuto = TRUE
    HostNetwork = FALSE
    ProbeUrl = FALSE
    ColdBackup = FALSE
    Hooks = FALSE
    IngressOf <- NoIngress
    Commands = {"update"}
    Installed = TRUE
    DiskFails = TRUE
    EngineFails = FALSE
    TasksFail = TRUE
    Crashes = FALSE
    CanCorrupt = FALSE
    Shutdowns = FALSE
    EventsLost = FALSE
    Verdicts = FALSE
    Settings = {}
    MaxQueue = 1
INVARIANTS
    RunsItsVersion
    SuccessIsOnDisk
CHECK_DEADLOCK FALSE
