SPECIFICATION Spec
CONSTANTS
    Nodes = {n1}
    Schedules = {s1, s2}
    Requests = {r1, r2}
    MaxStarts = 6
    MaxTouched = 1
INVARIANTS
    EntryHasSchedule
    StatesAgree
    SettingsReachNodes
SYMMETRY Symmetry
CHECK_DEADLOCK FALSE
