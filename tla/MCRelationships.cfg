SPECIFICATION Spec
CONSTANTS
    Ids = {a, b, c}
    a = a
    b = b
    c = c
SYMMETRY IdSymmetry
INVARIANTS
    FindsCyclesIfAny
    ReportsSimpleCycles
    NoAcceptedCycleUnasked
