SPECIFICATION MCSpec
CONSTANTS
    a1 = a1
    a2 = a2
    Agreement = {a1, a2}
    Scheduler = {"s1"}
    Admin = {"m1"}
    h1 = h1
    Handler = {h1}
    Nobody = "nobody"
    ExecuteTime <- MCExecuteTime
    Period = 2
    Day = 1
    MembershipDays = 3
    BatchSize = 1
    MaxTime = 5
    MaxManual = 1
    MaxFaults = 1
INVARIANTS
    DueDeductedOnce
    
    ValidIsScheduled
    PaidIsGranted
PROPERTIES
    DueIsServed
    PaidIsRecorded
CHECK_DEADLOCK FALSE
