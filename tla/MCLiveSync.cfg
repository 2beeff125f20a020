SPECIFICATION FairSpec
CONSTANTS
    Procs = {p1, p2}
    Ids = {a, b}
    Links <- SupersedesA
    Retries = 1
    MaxSyncs = 2
    MaxReviews = 2
    p1 = p1
    p2 = p2
    a = a
    b = b
INVARIANTS
    TypeOK
    SyncedIsDelivered
    CleanSyncIsCurrent
PROPERTIES
    RepeatPushesNothing
    SyncsEnd
