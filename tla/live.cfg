SPECIFICATION FairSpec
CONSTANTS
    Node = n1
    Nodes = {n1}
    Sessions = {s1, s2}
    Runs = {r1}
    MaxGen = 1
    Outcomes = {"ran", "failed", "duplicate"}
    NoNode = NoNode
    NoSession = NoSession
    ChanCap = 4
    MaxFaults = 1
    BadGens = {1}
    UpCap = 4
    HalfOpen = FALSE
    MaxCuts = 1
    MaxCrashes = 0
    MaxTroubles = 1
PROPERTIES QueuedGetsResult
