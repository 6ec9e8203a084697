SPECIFICATION Spec
CONSTANTS
    Versions = {1, 2}
    Earlier = 2
    MaxChanges = 3
    MaxFaults = 2
    MaxFlight = 2
INVARIANTS
    GenerationCoversRows
PROPERTIES
    Converges
    CenterLearns
    PendingEnds
CHECK_DEADLOCK FALSE
