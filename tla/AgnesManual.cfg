CONSTANTS
    Ids = {a, b, c}
    MaxTasks = 3
    AllowForwardRefs = TRUE
    HasRunner = FALSE
    MaxDepth = 0
    MaxEdges = 3
    MaxDrift = 0
SYMMETRY IdSymmetry
SPECIFICATION Spec
INVARIANTS
    TypeOK
    Acyclic
    ValidationIsExact
    ReadyIsQueued
    QueuedIsReadyOrOver
    ReverseEdgesExist
    PendingIsBlocked
    NoLiveBehindFailed
    CountersExact
PROPERTIES
    TerminalStands
