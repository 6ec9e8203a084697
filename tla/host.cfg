SPECIFICATION Spec
CONSTANTS
    Names = {1, 2}
    Offered <- MCOffered
    MaxVer = 4
    MaxGen = 3
    Keep = 1
    Quota = 3
    MaxAttempts = 2
    Unfit = {4}
    MaxStops = 1
    MaxMishaps = 1
INVARIANTS
    ActiveInStore
    SavedInStore
PROPERTIES
    KeepsPromise
    ReconcileEnds
CHECK_DEADLOCK FALSE
