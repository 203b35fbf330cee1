SPECIFICATION FairSpec
CONSTANTS
    v1 = v1
    v2 = v2
    u1 = u1
    Video = {v1, v2}
    User = {u1}
    Owner <- MCOwner
    InitialPoints = 3
    Estimate <- MCEstimate
    Cost <- MCCost
    Limit = 1
    Poller = {"q1"}
    NoVideo = NoVideo
    UsageQueueSize = 1
    MaxFaults = 1
INVARIANTS
    SlotsRespected
    ChargedIsDelivered
    PendingIsHeld
PROPERTIES
    ReservationsEnd
    UsageCostRepaired
CHECK_DEADLOCK FALSE
