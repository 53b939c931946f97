CONSTANTS
    Ids = {a, b, c}
    MaxTasks = 0
    MaxBatch = 2
    MaxFrames = 2
    MaxInFlight = 1
    MaxEdges = 3
SYMMETRY IdSymmetry
SPECIFICATION Spec
INVARIANTS
    TypeOK
    ReverseIndexExact
    CountNeverTooHigh
PROPERTIES
    NobodyIsStranded
    StatusesFollowTable
    UpdatesKeepAcyclic
    OnlyBatchesForget
