SPECIFICATION Spec
CONSTANTS
    Nodes = {n1, n2}
    Sessions = {s1}
    Runs = {r1}
    MaxGen = 2
    Outcomes = {ran}
    NoNode = NoNode
    NoSession = NoSession
    ChanCap = 1
    MaxFaults = 2
INVARIANTS TypeOK HubSound RowUntilResult NoOrphanClaim
PROPERTIES RefinesLedger
CHECK_DEADLOCK FALSE
