CONSTANTS
    Keys = {k1, k2, k3, k4, k5, k6}
    Ranks <- ThreeRanks
SYMMETRY KeySymmetry
SPECIFICATION Spec
INVARIANTS
    TypeOK
    HeapOrdered
PROPERTIES
    PopTakesFirst
