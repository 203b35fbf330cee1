SPECIFICATION MCSpec
CONSTANTS
    k1 = k1
    k2 = k2
    u1 = u1
    u2 = u2
    g1 = g1
    p1 = p1
    n1 = n1
    n2 = n2
    a1 = a1
    a2 = a2
    d1 = d1
    r1 = r1
    Code = {k1, k2}
    User = {u1, u2}
    Grants <- MCGrants
    MaxUses <- MCMaxUses
    Gift = {g1}
    GiftUser <- MCGiftUser
    GiftGrants <- MCGiftGrants
    Purchase = {p1}
    Buyer <- MCBuyer
    Bought <- MCBought
    Nothing = Nothing
    MaxDay = 1
    Transaction = {1, 2}
    Customer = {a1, a2}
    Nobody = Nobody
    Token = Nobody
    Notice = {n1, n2}
    Device = {d1}
    Restore = {r1}
SYMMETRY MCSymmetry
INVARIANTS
    UsesCounted
    DaysKept
    BoughtIsKept
    StatusIsNewest
    EntitlementFollows
CHECK_DEADLOCK FALSE
