CONSTANTS
    Ids = {a, b, c}
    MaxId = 3
    Priorities <- TwoValues
    Times <- TwoValues
    ClockTimes <- LaterTimes
    CreationTimes <- OneTime
    MaxFrames = 2
    KatEdges = 3
    BigbangEdges = 2
SYMMETRY IdSymmetry
SPECIFICATION Spec
INVARIANTS
    TypeOK
    AgnesReadyIsQueued
    QwenHeapsKeepTime
    KatGraphSound
    KatNeverStuck
    BigbangGraphSound
PROPERTIES
    AgnesChoosesFirstDue
    QwenChoosesFirstDue
