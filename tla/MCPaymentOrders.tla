-------------------------- MODULE MCPaymentOrders --------------------------
(***************************************************************************)
(* Orders of every channel and product, chosen at the start.               *)
(***************************************************************************)
EXTENDS PaymentOrders

CONSTANTS o1, u1

MCBuyer == [o \in Order |-> u1]

For(channel, product, topup, deduct, misreported) ==
    [channel |-> channel, product |-> product, topup |-> topup, deduct |-> deduct,
     misreported |-> misreported]

MCItems ==
    {For("ALIPAY", "points", 2, 2, FALSE), For("ALIPAY", "package", 0, 2, FALSE),
     For("ALIPAY", "membership", 0, 2, TRUE), For("WECHAT", "points", 2, 0, FALSE),
     For("WECHAT", "membership", 0, 0, TRUE), For("SAAS", "points", 2, 0, FALSE),
     For("SAAS", "membership", 0, 0, FALSE), For("SAAS", "points", 2, 0, TRUE)}
=============================================================================
