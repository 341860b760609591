SPECIFICATION Spec
CONSTANTS
    MaxAttempts = 1
    Strikes = 2
    RefusedTries = 1
    ReleasedKept = 4
    MaxId = 1
    Native = FALSE
    Once = FALSE
    BootAuto = TRUE
    HostNetwork = FALSE
    ProbeUrl = FALSE
    ColdBackup = FALSE
    Hooks = FALSE
    IngressOf <- NoIngress
    Commands = {"install", "uninstall", "restore"}
    Installed = FALSE
    DiskFails = TRUE
    EngineFails = FALSE
    TasksFail = TRUE
    Crashes = TRUE
    CanCorrupt = TRUE
    Shutdowns = TRUE
    EventsLost = FALSE
    Verdicts = FALSE
    Settings = {"options"}
    MaxQueue = 1
INVARIANTS
    EveryCallerAnsweredOnce
    AckedOptionsStand
    HaltedIsDown
PROPERTIES
    UninstalledStaysGone
    KeepsAppPromise
CHECK_DEADLOCK FALSE
