SPECIFICATION FairSpec
CONSTANTS
    Procs = {p1, p2, p3}
    p1 = p1
    p2 = p2
    p3 = p3
    NoFile = NoFile
    Orphan = Orphan
    MaxTries = 1
    MaxForced = 2
PROPERTIES
    ImplementsAbstractLock
    RemovesOwnFileOnly
    AttemptsEnd
