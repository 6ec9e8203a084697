SPECIFICATION FairSpoolSpec
CONSTANTS
    Reports = {p1, p2}
    NL = NL
    Scrap = Scrap
    MaxFailures = 2
INVARIANTS LossHasCause RepeatHasCause
PROPERTIES SpoolDrains
CHECK_DEADLOCK FALSE
