SPECIFICATION Spec
CONSTANTS
    mqtt = mqtt
    db = db
    web = web
    Apps = {mqtt, web}
    NativeApps = {}
    OnceApps = {}
    Defaults = {}
    StageOf <- OneEarlier
    Agent = FALSE
    Boots = TRUE
    GateTries = 1
    FatalGates = FALSE
    NoPrimary = FALSE
    Overruns = FALSE
    BudgetRunsOut = TRUE
    Crashes = FALSE
    Failures = FALSE
    MaxShutdowns = 2
    MaxRestarts = 0
INVARIANTS
    CoreDownOnceAnswered
CHECK_DEADLOCK FALSE
