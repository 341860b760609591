SPECIFICATION Spec
CONSTANTS
    mqtt = mqtt
    db = db
    web = web
    Apps = {mqtt, db, web}
    NativeApps = {db}
    OnceApps = {web}
    Defaults = {mqtt, db}
    StageOf <- OneEarlier
    Agent = TRUE
    Boots = TRUE
    GateTries = 2
    FatalGates = TRUE
    NoPrimary = TRUE
    Overruns = TRUE
    BudgetRunsOut = TRUE
    Crashes = TRUE
    Failures = TRUE
    MaxShutdowns = 1
    MaxRestarts = 1
INVARIANTS
    TypeOK
    AppsDownOnceAnswered
    CompleteBootRanEveryStage
CHECK_DEADLOCK FALSE
