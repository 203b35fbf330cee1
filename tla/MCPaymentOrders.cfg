SPECIFICATION FairSpec
CONSTANTS
    o1 = o1
    u1 = u1
    Order = {o1}
    User = {u1}
    Buyer <- MCBuyer
    Item <- MCItems
    InitialPoints = 1
    Handler = {"h1", "h2"}
    Admin = {"a1"}
    Price = 2
    MaxNotices = 2
    MaxFaults = 1
INVARIANTS
    DeductionKept
    RefundOnce
    TopupOnce
    GrantedIsPaid
    RefundedIsReturned
PROPERTIES
    TopupArrives
    RefundArrives
CHECK_DEADLOCK FALSE
