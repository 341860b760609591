SPECIFICATION FairSpec
CONSTANTS
    mqtt = mqtt
    db = db
    web = web
    Apps = {mqtt, web}
    NativeApps = {}
    OnceApps = {}
    Defaults = {}
    StageOf <- OneEarlier
    Agent = FALSE
    Boots = TRUE
    GateTries = 1
    FatalGates = FALSE
    NoPrimary = TRUE
    Overruns = FALSE
    BudgetRunsOut = FALSE
    Crashes = FALSE
    Failures = TRUE
    MaxShutdowns = 2
    MaxRestarts = 1
INVARIANTS
    CoreDownOnceAnswered
    EveryAppIsRuled
PROPERTIES
    EveryShutdownIsAnswered
    HaltedAppsComeBack
CHECK_DEADLOCK FALSE
