SPECIFICATION Spec
CONSTANTS
    Procs = {p1, p2}
    p1 = p1
    p2 = p2
    Free = Free
    Stale = Stale
    Ids <- TwoIds
    Dests = {memory}
    Dest <- OneDest
    Supersedes <- NewSupersedesOld
    Conflicts <- RivalConflictsWithOld
    Commands <- ReplacementAndRepair
    LogCapacity = 20
    FaultKinds = {}
    LoneRepair = FALSE
    MaxOps = 3
    MaxFaults = 0
    old = old
    new = new
    rival = rival
    memory = memory
    notes = notes
SYMMETRY ProcSymmetry
PROPERTIES
    RepairRestoresReplay
