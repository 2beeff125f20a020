SPECIFICATION Spec
CONSTANTS
    Procs = {p1}
    Free = Free
    Stale = Stale
    Ids = {a, b}
    Legacies <- OneRecord
    Commands = {"propose", "migrate", "repair"}
    Guided = TRUE
    MaxOps = 4
    MaxFaults = 0
    p1 = p1
    p2 = p2
    a = a
    b = b
INVARIANTS
    LegacyRecordKept
