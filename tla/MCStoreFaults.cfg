SPECIFICATION Spec
CONSTANTS
    Procs = {p1, p2}
    p1 = p1
    p2 = p2
    Free = Free
    Stale = Stale
    Ids <- TwoIds
    Dests = {memory}
    Dest <- OneDest
    Supersedes <- NewSupersedesOld
    Conflicts <- RivalConflictsWithOld
    Commands <- WithRepair
    LogCapacity = 4
    FaultKinds = {"crash", "io", "torn"}
    LoneRepair = TRUE
    MaxOps = 4
    MaxFaults = 2
    old = old
    new = new
    rival = rival
    memory = memory
    notes = notes
SYMMETRY ProcSymmetry
INVARIANTS
    LedgerIsLogged
    PublishedIsAudited
PROPERTIES
    LifecycleIsOneWay
    UsesAbstractLock
    ImplementsLedger
