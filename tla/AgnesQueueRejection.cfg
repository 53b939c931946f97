CONSTANTS
    o1 = o1
    o2 = o2
    o3 = o3
    d1 = d1
    Ops <- FourOps
    Disposals <- OneDisposal
    NoOp = NoOp
    Disciplines <- OnlySequential
SPECIFICATION Spec
CHECK_DEADLOCK FALSE
INVARIANTS
    OnlyLateCallsAreSkipped
