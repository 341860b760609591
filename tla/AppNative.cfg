SPECIFICATION Spec
CONSTANTS
    MaxAttempts = 2
    Strikes = 2
    RefusedTries = 2
    ReleasedKept = 4
    MaxId = 3
    Native = TRUE
    Once = FALSE
    BootAuto = TRUE
    HostNetwork = FALSE
    ProbeUrl = FALSE
    ColdBackup = FALSE
    Hooks = FALSE
    IngressOf <- LaterDynamic
    Commands = {"start", "update", "backup", "restart", "stop"}
    Installed = TRUE
    DiskFails = FALSE
    EngineFails = FALSE
    TasksFail = FALSE
    Crashes = FALSE
    CanCorrupt = FALSE
    Shutdowns = FALSE
    EventsLost = TRUE
    Verdicts = FALSE
    Settings = {"watchdog"}
    MaxQueue = 2
INVARIANTS
    TypeOK
    DirectoryFollowsData
CHECK_DEADLOCK FALSE
