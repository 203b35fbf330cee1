SPECIFICATION Spec
CONSTANTS
    u1 = u1
    k1 = k1
    k2 = k2
    User = {u1}
    Key = {k1, k2}
    Owner <- MCOwner
    InitialPoints = 2
    Task = {t1, t2}
    None = None
    Call = {c1, c2}
    Amount = {1, 2}
    Actual = {1, 3}
    MaxEarned = 4
SYMMETRY Symmetry
INVARIANTS
    FrozenIsPending
    LedgerExplainsBalance
    ReservationNet
    DebtIsExtraCapture
PROPERTIES
    ImplementsAccount
