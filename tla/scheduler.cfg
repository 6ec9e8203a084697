SPECIFICATION Spec
CONSTANTS
    Specs = {"a", "b"}
    SpecOf <- MCSpecOf
    AllowExec = TRUE
    Hosts <- MCHosts
    Configs <- MCConfigs
    Start <- MCStart
    Horizon <- MCHorizon
    Step = 45
    MaxTroubles = 1
    MaxChanges = 2
PROPERTIES
    OncePerMinute
    MissedHasCause
    IntervalRuns
CHECK_DEADLOCK FALSE
