CONSTANTS
    Ids = {a, b, c}
    MaxTasks = 3
    AllowForwardRefs = FALSE
    HasRunner = TRUE
    MaxDepth = 1
    MaxEdges = 1
    MaxDrift = 0
SYMMETRY IdSymmetry
SPECIFICATION Spec
INVARIANTS
    ReadyIsQueued
    PendingIsBlocked
    NoLiveBehindFailed
