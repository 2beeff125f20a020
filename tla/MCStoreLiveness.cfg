SPECIFICATION FairSpec
CONSTANTS
    Procs = {p1, p2}
    p1 = p1
    p2 = p2
    Free = Free
    Stale = Stale
    Ids <- TwoIds
    Dests = {memory}
    Dest <- OneDest
    Supersedes <- NewSupersedesOld
    Conflicts <- RivalConflictsWithOld
    Commands <- ReplacementAndRepair
    LogCapacity = 2
    FaultKinds = {"crash", "io", "torn"}
    LoneRepair = TRUE
    MaxOps = 4
    MaxFaults = 1
    old = old
    new = new
    rival = rival
    memory = memory
    notes = notes
PROPERTIES
    CommandsTerminate
    LockIsReleased
