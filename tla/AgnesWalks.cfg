CONSTANTS
    Ids = {a, b, c}
    NoId = NoId
SPECIFICATION Spec
CHECK_DEADLOCK FALSE
INVARIANTS
    TypeOK
    EdgeCheckIsRight
    AuditIsRight
    PropagationIsRight
PROPERTIES
    EveryWalkEnds
