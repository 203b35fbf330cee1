SPECIFICATION FairSpec
CONSTANTS
    t1 = t1
    t2 = t2
    Task = {t1, t2}
    Priority <- MCPriority
    MaxAttempts <- MCMaxAttempts
    Unsupported = {t2}
    Poller = {p1, p2}
    Consumer = {c1}
    Operator = {o1}
    OperatorStatus = {"succeeded", "cancelled"}
    NoTask = NoTask
    MaxForcedAttempts = 2
INVARIANTS
    OneExecution
    AttemptsBounded
    RunningIsHeld
PROPERTIES
    SettledStays
    EveryTaskEnds
