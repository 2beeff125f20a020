SPECIFICATION Spec
CONSTANTS
    Procs = {p1, p2}
    p1 = p1
    p2 = p2
    Free = Free
    Stale = Stale
    Ids <- ThreeIds
    Dests = {memory, notes}
    Dest <- NewElsewhere
    Supersedes <- NewSupersedesOld
    Conflicts <- RivalConflictsWithOld
    Commands <- Mutations
    LogCapacity = 20
    FaultKinds = {}
    LoneRepair = TRUE
    MaxOps = 5
    MaxFaults = 0
    old = old
    new = new
    rival = rival
    memory = memory
    notes = notes
SYMMETRY ProcSymmetry
INVARIANTS
    TypeOK
    NoSilentDrift
    LinksPointBack
PROPERTIES
    NoRecordRollsBack
