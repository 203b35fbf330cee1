SPECIFICATION Spec
CONSTANTS
    o1 = o1
    u1 = u1
    Order = {o1}
    User = {u1}
    Buyer <- MCBuyer
    Item <- MCItems
    InitialPoints = 1
    Handler = {"h1", "h2"}
    Admin = {}
    Price = 1
    MaxNotices = 2
    MaxFaults = 0
INVARIANTS
    CallbackIdempotent
CHECK_DEADLOCK FALSE
