SPECIFICATION Spec
CONSTANTS
    c1 = c1
    c2 = c2
    url = url
    local = local
    Conns = {c1, c2}
    Environments <- SomeEnvironments
    Calls <- SomeCalls
    Resource = url
    Window = 2
    Absent = Absent
    Malformed = Malformed
    Never = Never
    Down = Down
    NoBucket = NoBucket
    Nothing = Nothing
    MaxClock = 3
    MaxCalls = 4
    p1 = p1
    p2 = p2
    plain = plain
    secret = secret
    advice = advice
    text = text
    bullet = bullet
    leak = leak
    talk = talk
    shown = shown
    memoryFile = memoryFile
    chat = chat
    lockfile = lockfile
    Nobody = Nobody
    Start = Start
    End = End
    Finding <- AFinding
    Terms <- ATerms
    Strong = {advice}
    Procs = {p1, p2}
    Commands <- SomeCommands
    PolicyFiles <- Policies
    Saves <- SomeSaves
    MemoryFile = memoryFile
    Chat = chat
    GitFiles <- AGit
    Bullet <- ABullet
    Cues <- ACues
    Kind <- AKind
    Rendered <- ARendered
    ScopeRank <- ARank
    Grouped = TRUE
    MaxCommands = 3
    MaxSaves = 1
    MaxReviews = 1
INVARIANTS
    TypeOK
    ServedWithinScope
    RateIsBounded
    AutoAcceptIsJustified
    PreviewPredicts
    BatchIsAccounted
    UserTextIsKept
    GuardSawTheBlock
