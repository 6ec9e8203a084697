SPECIFICATION RunSpec
CONSTANTS
    Dirs <- MCDirs
    Files <- MCFiles
    Links <- MCLinks
    Secret <- MCSecret
    Closed <- MCClosed
    Packages <- MCPackages
    Wanted <- MCWanted
    LastVer = 3
    Ticks = 2
    MaxDenials = 1
INVARIANTS
    AcceptedRuns
    RunsItsModule
    EarlyHasCause
PROPERTIES
    ReadsAreApproved
    RunsEnd
CHECK_DEADLOCK FALSE
