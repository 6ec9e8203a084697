SPECIFICATION DSpec
CONSTANTS
    Node = n1
    Nodes = {n1}
    Sessions = {s1, s2}
    Runs = {r1}
    MaxGen = 1
    Outcomes = {"ran", "failed", "duplicate"}
    NoNode = NoNode
    NoSession = NoSession
    ChanCap = 4
    MaxFaults = 0
    BadGens = {}
    UpCap = 2
    HalfOpen = TRUE
    MaxCuts = 0
    MaxCrashes = 1
    MaxTroubles = 0
SYMMETRY Symmetry
INVARIANTS AtMostOncePerBoot ConfigBeforeDispatch
