SPECIFICATION Spec
CONSTANTS
    r1 = r1
    Readers = {r1}
    Ids = {rec1, rec2, rec3}
    Dests = {memory, notes}
    Scopes = {team, self}
    Principals = {ann}
    Dest <- ADest
    Scope <- AScope
    Supersedes <- NoSupersession
    Conflicts <- BConflictsWithA
    Content <- AContent
    Ttl <- ATtl
    DayLength = 2
    WarningWindow = 1
    ReadPolicies <- Policies
    PrincipalStores <- Stores
    Requests <- SomeRequests
    Never = Never
    Absent = Absent
    Malformed = Malformed
    Anywhere = Anywhere
    Nobody = Nobody
    Unconstrained = Unconstrained
    Missing = Missing
    MaxTime = 1
    MaxChanges = 2
    Order <- AOrder
    rec1 = rec1
    rec2 = rec2
    rec3 = rec3
    ann = ann
    memory = memory
    notes = notes
    team = team
    self = self
INVARIANTS
    TypeOK
    ContentWasAllowed
    TimelineCoversRecord
PROPERTIES
    ContextIsClean
