SPECIFICATION FairSpec
CONSTANTS
    c1 = c1
    c2 = c2
    u1 = u1
    s1 = s1
    s2 = s2
    Call = {c1, c2}
    User = {u1}
    Owner <- MCOwner
    Source = {s1, s2}
    Route <- MCRoute
    HubSource = {s2}
    SourceLimit = 2
    UserLimit = 1
    FailureThreshold = 2
    InitialPoints = 3
    Estimate <- MCEstimate
    Cost <- MCCost
    req = req
    none = none
    Id = {req}
    NoId = none
    MaxFaults = 1
INVARIANTS
    SlotsAreCounted
    PendingIsHeld
    PaidIsAnswered
PROPERTIES
    ReservationsEnd
CHECK_DEADLOCK FALSE
