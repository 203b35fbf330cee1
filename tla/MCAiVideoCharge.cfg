SPECIFICATION Spec
CONSTANTS
    v1 = v1
    v2 = v2
    u1 = u1
    Video = {v1, v2}
    User = {u1}
    Owner <- MCOwner
    InitialPoints = 5
    Estimate <- MCEstimate
    Cost <- MCCost
    Limit = 1
    Poller = {"q1"}
    NoVideo = NoVideo
    UsageQueueSize = 2
    MaxFaults = 0
INVARIANTS
    PaidOnce
CHECK_DEADLOCK FALSE
