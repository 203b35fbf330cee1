SPECIFICATION Spec
CONSTANTS
    t1 = t1
    t2 = t2
    Task = {t1, t2}
    Priority <- MCPriority
    MaxAttempts <- MCMaxAttempts
    Unsupported = {t2}
    Poller = {p1}
    Consumer = {c1}
    Operator = {o1}
    OperatorStatus = {"cancelled"}
    NoTask = NoTask
    MaxForcedAttempts = 2
PROPERTIES
    TerminalIsFinal
