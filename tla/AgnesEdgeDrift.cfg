CONSTANTS
    Ids = {a, b, c}
    MaxTasks = 3
    AllowForwardRefs = FALSE
    HasRunner = FALSE
    MaxDepth = 0
    MaxEdges = 1
    MaxDrift = 0
SYMMETRY IdSymmetry
SPECIFICATION Spec
INVARIANTS
    EdgesExact
