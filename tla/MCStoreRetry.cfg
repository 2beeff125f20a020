SPECIFICATION Spec
CONSTANTS
    Procs = {p1, p2}
    p1 = p1
    p2 = p2
    Free = Free
    Stale = Stale
    Ids <- TwoIds
    Dests = {memory}
    Dest <- OneDest
    Supersedes <- NewSupersedesOld
    Conflicts <- RivalConflictsWithOld
    Commands <- Replacement
    LogCapacity = 20
    FaultKinds = {"crash"}
    LoneRepair = TRUE
    MaxOps = 5
    MaxFaults = 1
    old = old
    new = new
    rival = rival
    memory = memory
    notes = notes
SYMMETRY ProcSymmetry
INVARIANTS
    DriftIsRepairable
