CONSTANTS
    Ids = {a, b, c}
    MaxTasks = 2
    MaxBatch = 1
    MaxFrames = 1
    MaxInFlight = 1
    MaxEdges = 1
SYMMETRY IdSymmetry
SPECIFICATION Spec
INVARIANT ReadyIsQueued
