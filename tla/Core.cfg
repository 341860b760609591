SPECIFICATION MCSpec
CONSTANTS
    Versions <- MCVersions
    Callers <- MCCallers
    Latest = 2
    MaxTroubles = 2
    MaxFailures = 1
    ExpandOutlasts = FALSE
    MaxCalls = 1
    MaxShutdowns = 1
    MaxRaises = 1
    MaxReanimations = 1
    StableTicks = 1
    DieThreshold = 2
    MaxActions = 1
    MaxKills = 1
    MaxToggles = 1
    MaxCrashes = 2
INVARIANTS TypeOK EachReanimationRan
PROPERTIES Reconciles Promise HungCoreIsHandled PendingCoreComesUp
CHECK_DEADLOCK FALSE
