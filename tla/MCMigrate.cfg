SPECIFICATION Spec
CONSTANTS
    Procs = {p1, p2}
    Free = Free
    Stale = Stale
    Ids = {a, b}
    Legacies <- OldLedgers
    Commands = {"propose", "review", "export", "check", "repair", "migrate"}
    Guided = TRUE
    MaxOps = 4
    MaxFaults = 1
    p1 = p1
    p2 = p2
    a = a
    b = b
SYMMETRY ProcSymmetry
INVARIANTS
    MigratedOnce
    ParityAfterMigration
    CleanVerdictWasTrue
