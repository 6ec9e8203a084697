SPECIFICATION Spec
CONSTANTS
    Nodes = {n1, n2}
    Skills = {k1}
    MaxVersion = 2
    OldNodes = {n2}
    HttpOps = {h1, h2}
    TagOps = {t1}
    NodeOps = {c1, c2}
    NoOp = NoOp
    DeniedRuns = {d1}
    MaxEvents = 2
SYMMETRY Symmetry
INVARIANTS ForkHasCause OneDenialPerRun
PROPERTIES GenerationCountsChanges
CHECK_DEADLOCK FALSE
