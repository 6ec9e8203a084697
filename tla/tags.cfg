SPECIFICATION Spec
CONSTANTS
    Nodes = {1, 2}
    Requests = {r1, r2}
    MaxCenter = 1
    First = {"PROD"}
    Bulks = {{1, 2}}
    Targets <- MCTargets
    MaxStarts = 4
INVARIANTS
    ProdTargetsConfirmed
    BulkGoesOn
PROPERTIES
    CenterWithinLimit
    ProdChangeConfirmed
CHECK_DEADLOCK FALSE
SYMMETRY Symmetry
