--------------------------- MODULE PaymentOrders ---------------------------
(***************************************************************************)
(* One-time orders (payments.service.ts): an order is created, part of it  *)
(* paid with points; the payment provider's notifications and the buyer's  *)
(* status queries move it on, in any order and more than once; a paid      *)
(* order grants its product or tops up points, an unpaid one gives the     *)
(* points back; an administrator refunds it.                               *)
(*                                                                         *)
(* A request is a process with one step per statement or transaction.      *)
(* PENDING refunds of alipay_refunds and the texts of a row are left out.  *)
(***************************************************************************)
EXTENDS Integers, FiniteSets

CONSTANTS
    Order,           \* out_trade_no's
    User, Buyer,     \* whose order it is
    Item,            \* what an order may be for
    InitialPoints,
    Handler,         \* callbacks and status queries under way at a time
    Admin,           \* refund requests under way at a time
    Price,           \* total_amount of every order
    MaxNotices,      \* bound on the provider's notifications
    MaxFaults        \* bound on failing statements and dying processes

Channel == {"ALIPAY", "WECHAT", "SAAS"}
Product == {"points", "membership", "package"}

ASSUME BuyerAssumption == Order # {} /\ Buyer \in [Order -> User]
ASSUME PriceAssumption == Price \in Nat \ {0}
\* Only an Alipay order is paid with points, the points a topup brings are
\* positive, and misreported is whether the provider names another amount.
ASSUME ItemAssumption ==
    /\ Item \subseteq [channel : Channel, product : Product, topup : Nat, deduct : Nat,
                       misreported : BOOLEAN]
    /\ \A i \in Item : /\ i.deduct > 0 => i.channel = "ALIPAY"
                       /\ i.topup > 0 <=> i.product = "points"
ASSUME InitialAssumption == InitialPoints \in Nat
ASSUME AdminAssumption == IsFiniteSet(Admin)
ASSUME BoundAssumption == MaxNotices \in Nat /\ MaxFaults \in Nat
ASSUME TokenAssumption == Handler \cap {"NONE", "SUCCESS"} = {} /\ Handler \cap Admin = {}

VARIABLES
    item,            \* what each order is for
    creating,        \* the request that creates the order
    order,           \* alipay_orders; the handler whose PROCESSING: token is
                     \* in points_..._ledger_id stands for the status, too
    trade,           \* the provider's trade
    said,            \* the states the provider may send a notification of
    wallet,
    ledger,          \* points of each order: deducted, given back, topped up
    granted,         \* how often the order granted its product
    aged,            \* orders written five minutes ago or more
    proc,            \* callbacks and queries
    admin,           \* refund requests
    refunds,         \* money: successful alipay_refunds, returned by Alipay
    broken,          \* history, see below
    notices, faults

progress == <<order, trade, said, wallet, ledger, granted, aged>>
history == <<broken, notices, faults>>
vars == <<item, creating, progress, proc, admin, refunds, history>>

Account == INSTANCE PointsAccount
             WITH Key <- {}, Owner <- Buyer, Amount <- {}, Actual <- {}, resv <- <<>>

Final == {"FAILED", "CLOSED"}
Status == {"absent", "PENDING", "PAID", "REFUNDED"} \cup Final
Told == {"PAID"} \cup Final                  \* what a notification may say

TopupSteps == {"topup", "check", "adopt", "credit", "topup_done", "topup_reset"}
RefundSteps == {"refund", "back", "refund_done", "refund_reset"}
Label == {"idle", "read", "mismatch", "write", "package"} \cup TopupSteps \cup RefundSteps

TypeOK ==
    /\ item \in [Order -> Item]
    /\ creating \in [Order -> [at : {"wallet", "consume", "insert", "compensate", "checkout",
                                     "refuse", "done", "failed"}, points : Nat]]
    /\ order \in [Order -> [status : Status, deducted : Nat,
                            refund : {"NONE", "SUCCESS"} \cup Handler,
                            topup : {"NONE", "SUCCESS"} \cup Handler]]
    /\ trade \in [Order -> {"none", "WAIT"} \cup Told]
    /\ said \in [Order -> SUBSET Told]
    /\ wallet \in [User -> Account!Wallet]
    /\ ledger \in [Order -> [deduct : Nat, back : Nat, topup : Nat]]
    /\ granted \in [Order -> Nat]
    /\ aged \subseteq Order
    /\ proc \in [Handler -> [at : Label, order : Order, says : Told]]
    /\ admin \in [Admin -> [at : {"idle", "ask", "record", "sum", "write"}, order : Order,
                            amount : 0 .. Price, status : {"PAID", "REFUNDED"}]]
    /\ refunds \in [Order -> [recorded : Nat, returned : 0 .. Price]]
    /\ broken \in [{"creation", "refund", "topup", "overtaken"} -> SUBSET Order]
    /\ notices \in 0 .. MaxNotices /\ faults \in 0 .. MaxFaults

Idle == [at |-> "idle", order |-> CHOOSE o \in Order : TRUE, says |-> "PAID"]
NoRefund == [at |-> "idle", order |-> CHOOSE o \in Order : TRUE, amount |-> 0, status |-> "PAID"]

Init ==
    /\ item \in [Order -> Item]
    /\ creating = [o \in Order |-> [at |-> "wallet", points |-> 0]]
    /\ order = [o \in Order |-> [status |-> "absent", deducted |-> 0, refund |-> "NONE",
                                 topup |-> "NONE"]]
    /\ trade = [o \in Order |-> "none"]
    /\ said = [o \in Order |-> {}]
    /\ wallet = [u \in User |-> Account!Opened]
    /\ ledger = [o \in Order |-> [deduct |-> 0, back |-> 0, topup |-> 0]]
    /\ granted = [o \in Order |-> 0]
    /\ aged = {}
    /\ proc = [p \in Handler |-> Idle]
    /\ admin = [a \in Admin |-> NoRefund]
    /\ refunds = [o \in Order |-> [recorded |-> 0, returned |-> 0]]
    /\ broken = [k \in {"creation", "refund", "topup", "overtaken"} |-> {}]
    /\ notices = 0 /\ faults = 0

-----------------------------------------------------------------------------
(* createPagePayOrder, createWechatNativeOrder, createCheckoutOrder        *)

Creates(o, from, to) ==
    /\ creating[o].at = from
    /\ creating' = [creating EXCEPT ![o].at = to]

\* The points are those the wallet has when it is looked at.
ReadWallet(o) ==
    /\ creating[o].at = "wallet"
    /\ LET balance == wallet[Buyer[o]].balance
           points == IF item[o].deduct <= balance THEN item[o].deduct ELSE balance
       IN  creating' = [creating EXCEPT ![o] =
                          [at |-> IF points > 0 THEN "consume" ELSE "insert", points |-> points]]
    /\ UNCHANGED <<item, progress, proc, admin, refunds, history>>

ConsumePoints(o) ==
    LET points == creating[o].points IN
    /\ IF wallet[Buyer[o]].balance >= points
       THEN /\ Creates(o, "consume", "insert")
            /\ Account!Consume(Buyer[o], points)
            /\ ledger' = [ledger EXCEPT ![o].deduct = points]
       ELSE Creates(o, "consume", "failed") /\ UNCHANGED <<wallet, ledger>>
    /\ UNCHANGED <<item, order, trade, said, granted, aged, proc, admin, refunds, history>>

\* Alipay is reached by the form in the answer: there the trade may begin.
InsertOrder(o) ==
    /\ IF item[o].channel = "ALIPAY"
       THEN Creates(o, "insert", "done") /\ trade' = [trade EXCEPT ![o] = "WAIT"]
       ELSE Creates(o, "insert", "checkout") /\ UNCHANGED trade
    /\ order' = [order EXCEPT ![o].status = "PENDING", ![o].deducted = creating[o].points]
    /\ UNCHANGED <<item, said, wallet, ledger, granted, aged, proc, admin, refunds, history>>

\* A compensation of the points the buyer asked to use.
CompensateRequested(o) ==
    /\ Creates(o, "compensate", "failed")
    /\ Account!Credit(Buyer[o], item[o].deduct)
    /\ ledger' = [ledger EXCEPT ![o].back = @ + item[o].deduct]
    /\ UNCHANGED <<item, order, trade, said, granted, aged, proc, admin, refunds, history>>

\* Points that were taken for a row that was not written come back.
Compensate(o) ==
    /\ Creates(o, "compensate", "failed")
    /\ Account!Credit(Buyer[o], creating[o].points)
    /\ ledger' = [ledger EXCEPT ![o].back = @ + creating[o].points]
    /\ UNCHANGED <<item, order, trade, said, granted, aged, proc, admin, refunds, history>>

\* WeChat's unified order, or the checkout of a SaaS provider, who refuses
\* with an exception.
Checkout(o) ==
    /\ \/ Creates(o, "checkout", "done") /\ trade' = [trade EXCEPT ![o] = "WAIT"]
       \/ /\ Creates(o, "checkout", IF item[o].channel = "WECHAT" THEN "refuse" ELSE "failed")
          /\ UNCHANGED trade
    /\ UNCHANGED <<item, order, said, wallet, ledger, granted, aged, proc, admin, refunds, history>>

RefuseOrder(o) ==
    /\ Creates(o, "refuse", "failed")
    /\ order' = [order EXCEPT ![o].status = "FAILED"]
    /\ aged' = aged \ {o}
    /\ UNCHANGED <<item, trade, said, wallet, ledger, granted, proc, admin, refunds, history>>

-----------------------------------------------------------------------------
(* The provider, the buyer's other purchases, the clock                    *)

\* A trade is paid, fails or is closed; a SaaS payment may be tried again.
TradeMoves(o) ==
    /\ \E s \in Told :
         /\ \/ trade[o] = "WAIT"
            \/ trade[o] = "FAILED" /\ s = "PAID" /\ item[o].channel = "SAAS"
         /\ trade' = [trade EXCEPT ![o] = s]
         /\ said' = [said EXCEPT ![o] = @ \cup {s}]
    /\ UNCHANGED <<item, creating, order, wallet, ledger, granted, aged, proc, admin, refunds,
                   history>>

SpendElsewhere(u) ==
    /\ \E n \in 1 .. InitialPoints : Account!Consume(u, n)
    /\ UNCHANGED <<item, creating, order, trade, said, ledger, granted, aged, proc, admin,
                   refunds, history>>

\* Five minutes without a write to an order that is being topped up.
Age(o) ==
    /\ order[o].topup \in Handler
    /\ aged' = aged \cup {o}
    /\ UNCHANGED <<item, creating, order, trade, said, wallet, ledger, granted, proc, admin,
                   refunds, history>>

-----------------------------------------------------------------------------
(* processTradeNotify, processWechatNotify, processSaasWebhook             *)

At(p, label) == proc[p].at = label
Goto(p, label) == proc' = [proc EXCEPT ![p].at = label]
Leave(p) == proc' = [proc EXCEPT ![p] = Idle]

Stay == UNCHANGED <<item, creating, admin, refunds, history>>

\* A notification, new, repeated or overtaken by a later one.
Notice(p) ==
    /\ At(p, "idle")
    /\ notices < MaxNotices /\ notices' = notices + 1
    /\ \E o \in Order : \E s \in said[o] :
         /\ item[o].channel = "WECHAT" => s = "PAID"
         /\ proc' = [proc EXCEPT ![p] = [at |-> "read", order |-> o, says |-> s]]
    /\ UNCHANGED <<item, creating, progress, admin, refunds, broken, faults>>

\* getOrderStatus: a paid order is topped up, another one is looked up at
\* the provider, whose answer is handled as a notification.
Ask(p, o) ==
    /\ At(p, "idle")
    /\ order[o].status \notin {"absent", "REFUNDED"}
    /\ \/ /\ order[o].status = "PAID"
          /\ proc' = [proc EXCEPT ![p] = [Idle EXCEPT !.at = "topup", !.order = o]]
       \/ /\ order[o].status # "PAID"
          /\ \/ item[o].channel = "ALIPAY" /\ trade[o] \in Told
             \/ item[o].channel = "WECHAT" /\ trade[o] = "PAID"
          /\ proc' = [proc EXCEPT ![p] = [at |-> "read", order |-> o, says |-> trade[o]]]
    /\ UNCHANGED progress /\ Stay

\* A handler that leaves the amount to the provider.
ReadAmountUnchecked(p) ==
    LET o == proc[p].order
        paid == proc[p].says = "PAID"
        status == order[o].status
    IN  /\ At(p, "read")
        /\ Goto(p, IF item[o].channel # "SAAS" /\ status = "PAID" THEN "topup"
                   ELSE IF item[o].channel = "ALIPAY"
                           /\ (status = "REFUNDED" \/ (status \in Final /\ ~paid)) THEN "refund"
                   ELSE "write")
        /\ UNCHANGED progress /\ Stay

\* A handler that is done with an order which failed or was closed before.
ReadFinalDone(p) ==
    LET o == proc[p].order
        paid == proc[p].says = "PAID"
        status == order[o].status
    IN  /\ At(p, "read")
        /\ Goto(p, IF item[o].channel # "SAAS" /\ status = "PAID" THEN "topup"
                   ELSE IF item[o].channel = "ALIPAY"
                           /\ (status = "REFUNDED" \/ (status \in Final /\ ~paid)) THEN "idle"
                   ELSE IF paid /\ item[o].misreported THEN "mismatch"
                   ELSE "write")
        /\ UNCHANGED progress /\ Stay

Read(p) ==
    LET o == proc[p].order
        paid == proc[p].says = "PAID"
        status == order[o].status
    IN  /\ At(p, "read")
        /\ Goto(p, IF item[o].channel # "SAAS" /\ status = "PAID" THEN "topup"
                   ELSE IF item[o].channel = "ALIPAY"
                           /\ (status = "REFUNDED" \/ (status \in Final /\ ~paid)) THEN "refund"
                   ELSE IF paid /\ item[o].misreported THEN "mismatch"
                   ELSE "write")
        /\ UNCHANGED progress /\ Stay

Mismatch(p) ==
    LET o == proc[p].order IN
    /\ At(p, "mismatch")
    /\ order' = [order EXCEPT ![o].status = "FAILED"]
    /\ aged' = aged \ {o}
    /\ IF item[o].channel = "WECHAT" THEN Leave(p) ELSE Goto(p, "refund")
    /\ UNCHANGED <<trade, said, wallet, ledger, granted>> /\ Stay

\* One transaction: the status, whatever it has become since it was read,
\* and a membership.
Write(p) ==
    LET o == proc[p].order
        says == proc[p].says
    IN  /\ At(p, "write")
        /\ IF says # "PAID" /\ item[o].channel = "SAAS" /\ order[o].status = "PAID"
           THEN UNCHANGED <<order, aged>>
           ELSE order' = [order EXCEPT ![o].status = says] /\ aged' = aged \ {o}
        /\ granted' = IF says = "PAID" /\ item[o].product = "membership"
                      THEN [granted EXCEPT ![o] = @ + 1] ELSE granted
        /\ Goto(p, IF says # "PAID" THEN "refund"
                   ELSE IF item[o].channel = "ALIPAY" /\ item[o].product = "package" THEN "package"
                   ELSE "topup")
        /\ UNCHANGED <<trade, said, wallet, ledger>> /\ Stay

\* grantRedeemPackageForOrderIfNeeded logs a failure and goes on.
Package(p) ==
    LET o == proc[p].order IN
    /\ At(p, "package")
    /\ granted' = [granted EXCEPT ![o] = @ + 1]
    /\ Goto(p, "topup")
    /\ UNCHANGED <<order, trade, said, wallet, ledger, aged>> /\ Stay

-----------------------------------------------------------------------------
(* grantOrderTopupPointsIfNeeded                                           *)

\* A topup that waits for whoever is at it.
TopupNoTakeover(p) ==
    LET o == proc[p].order IN
    /\ At(p, "topup")
    /\ IF order[o].status = "PAID" /\ item[o].topup > 0 /\ order[o].topup = "NONE"
       THEN /\ order' = [order EXCEPT ![o].topup = p]
            /\ aged' = aged \ {o}
            /\ Goto(p, "check")
       ELSE Leave(p) /\ UNCHANGED <<order, aged>>
    /\ UNCHANGED <<trade, said, wallet, ledger, granted>> /\ Stay

\* Under the lock of the row: paid, and not topped up nor being so, unless
\* for five minutes.
Topup(p) ==
    LET o == proc[p].order
        holder == order[o].topup
    IN  /\ At(p, "topup")
        /\ IF /\ order[o].status = "PAID" /\ item[o].topup > 0
              /\ holder = "NONE" \/ (holder \in Handler /\ o \in aged)
           THEN /\ order' = [order EXCEPT ![o].topup = p]
                /\ aged' = aged \ {o}
                /\ Goto(p, "check")
                /\ broken' = IF holder \in Handler /\ proc[holder].order = o
                                   /\ proc[holder].at \in TopupSteps \ {"topup"}
                             THEN [broken EXCEPT !["overtaken"] = @ \cup {o}] ELSE broken
           ELSE Leave(p) /\ UNCHANGED <<order, aged, broken>>
        /\ UNCHANGED <<item, creating, trade, said, wallet, ledger, granted, admin, refunds,
                       notices, faults>>

\* A takeover that does not look whether the points were credited.
CheckSkipped(p) ==
    /\ At(p, "check")
    /\ Goto(p, "credit")
    /\ UNCHANGED progress /\ Stay

\* Is there a ledger row under the order's reference?
Check(p) ==
    /\ At(p, "check")
    /\ Goto(p, IF ledger[proc[p].order].topup > 0 THEN "adopt" ELSE "credit")
    /\ UNCHANGED progress /\ Stay

\* The order is written only while it has the token of this call.
SetTopup(p, value) ==
    LET o == proc[p].order IN
    /\ IF order[o].topup = p
       THEN order' = [order EXCEPT ![o].topup = value] /\ aged' = aged \ {o}
       ELSE UNCHANGED <<order, aged>>
    /\ Leave(p)
    /\ UNCHANGED <<trade, said, wallet, ledger, granted>> /\ Stay

Adopt(p) == At(p, "adopt") /\ SetTopup(p, "SUCCESS")

CreditTopup(p) ==
    LET o == proc[p].order IN
    /\ At(p, "credit")
    /\ Account!Credit(Buyer[o], item[o].topup)
    /\ ledger' = [ledger EXCEPT ![o].topup = @ + item[o].topup]
    /\ Goto(p, "topup_done")
    /\ UNCHANGED <<order, trade, said, granted, aged>> /\ Stay

TopupDone(p) == At(p, "topup_done") /\ SetTopup(p, "SUCCESS")

TopupReset(p) == At(p, "topup_reset") /\ SetTopup(p, "NONE")

-----------------------------------------------------------------------------
(* refundOrderPointsIfNeeded                                               *)

\* A refund that only stops at one that is over.
RefundUnmarked(p) ==
    LET o == proc[p].order IN
    /\ At(p, "refund")
    /\ IF order[o].status \in Final /\ order[o].deducted > 0 /\ order[o].refund # "SUCCESS"
       THEN /\ order' = [order EXCEPT ![o].refund = p]
            /\ aged' = aged \ {o}
            /\ Goto(p, "back")
       ELSE Leave(p) /\ UNCHANGED <<order, aged>>
    /\ UNCHANGED <<trade, said, wallet, ledger, granted>> /\ Stay

Refund(p) ==
    LET o == proc[p].order IN
    /\ At(p, "refund")
    /\ IF order[o].status \in Final /\ order[o].deducted > 0 /\ order[o].refund = "NONE"
       THEN /\ order' = [order EXCEPT ![o].refund = p]
            /\ aged' = aged \ {o}
            /\ Goto(p, "back")
       ELSE Leave(p) /\ UNCHANGED <<order, aged>>
    /\ UNCHANGED <<trade, said, wallet, ledger, granted>> /\ Stay

CreditBack(p) ==
    LET o == proc[p].order IN
    /\ At(p, "back")
    /\ Account!Credit(Buyer[o], order[o].deducted)
    /\ ledger' = [ledger EXCEPT ![o].back = @ + order[o].deducted]
    /\ Goto(p, "refund_done")
    /\ UNCHANGED <<order, trade, said, granted, aged>> /\ Stay

SetRefund(p, value) ==
    LET o == proc[p].order IN
    /\ IF order[o].refund = p
       THEN order' = [order EXCEPT ![o].refund = value] /\ aged' = aged \ {o}
       ELSE UNCHANGED <<order, aged>>
    /\ Leave(p)
    /\ UNCHANGED <<trade, said, wallet, ledger, granted>> /\ Stay

RefundDone(p) == At(p, "refund_done") /\ SetRefund(p, "SUCCESS")

RefundReset(p) == At(p, "refund_reset") /\ SetRefund(p, "NONE")

-----------------------------------------------------------------------------
(* adminRefundOrder                                                        *)

AdminStays == UNCHANGED <<item, creating, said, wallet, ledger, granted, proc, history>>

\* At most what was not given back yet.
AdminRead(a) ==
    /\ admin[a].at = "idle"
    /\ \E o \in Order : \E n \in 1 .. Price - refunds[o].recorded :
         /\ order[o].status = "PAID" /\ item[o].channel # "WECHAT"
         /\ admin' = [admin EXCEPT ![a] = [NoRefund EXCEPT !.at = "ask", !.order = o, !.amount = n]]
    /\ UNCHANGED <<item, creating, progress, proc, refunds, history>>

\* Alipay, who is asked whatever the channel, refuses a trade it does not
\* know and more than what is left of it; it closes a trade returned in full.
AdminAsk(a) ==
    LET o == admin[a].order
        returned == refunds[o].returned + admin[a].amount
    IN  /\ admin[a].at = "ask"
        /\ \/ /\ item[o].channel = "ALIPAY" /\ returned <= Price
              /\ refunds' = [refunds EXCEPT ![o].returned = returned]
              /\ IF returned = Price
                 THEN /\ trade' = [trade EXCEPT ![o] = "CLOSED"]
                      /\ said' = [said EXCEPT ![o] = @ \cup {"CLOSED"}]
                 ELSE UNCHANGED <<trade, said>>
              /\ admin' = [admin EXCEPT ![a].at = "record"]
           \/ /\ admin' = [admin EXCEPT ![a] = NoRefund]
              /\ UNCHANGED <<refunds, trade, said>>
        /\ UNCHANGED <<item, creating, order, wallet, ledger, granted, aged, proc, history>>

AdminRecord(a) ==
    /\ admin[a].at = "record"
    /\ refunds' = [refunds EXCEPT ![admin[a].order].recorded = @ + admin[a].amount]
    /\ admin' = [admin EXCEPT ![a].at = "sum"]
    /\ UNCHANGED <<order, trade, aged>> /\ AdminStays

\* The request's own amount added to a sum it is already part of.
AdminSumTwice(a) ==
    LET total == refunds[admin[a].order].recorded + admin[a].amount IN
    /\ admin[a].at = "sum"
    /\ admin' = [admin EXCEPT ![a].at = "write",
                    ![a].status = IF total >= Price THEN "REFUNDED" ELSE "PAID"]
    /\ UNCHANGED <<order, trade, aged, refunds>> /\ AdminStays

AdminSum(a) ==
    /\ admin[a].at = "sum"
    /\ admin' = [admin EXCEPT ![a].at = "write",
                    ![a].status = IF refunds[admin[a].order].recorded >= Price
                                  THEN "REFUNDED" ELSE "PAID"]
    /\ UNCHANGED <<order, trade, aged, refunds>> /\ AdminStays

AdminWrite(a) ==
    /\ admin[a].at = "write"
    /\ order' = [order EXCEPT ![admin[a].order].status = admin[a].status]
    /\ aged' = aged \ {admin[a].order}
    /\ admin' = [admin EXCEPT ![a] = NoRefund]
    /\ UNCHANGED <<trade, refunds>> /\ AdminStays

-----------------------------------------------------------------------------
(* Failing statements and dying processes                                  *)

Fault == faults < MaxFaults /\ faults' = faults + 1

Broken(kind, o, when) ==
    broken' = IF when THEN [broken EXCEPT ![kind] = @ \cup {o}] ELSE broken

\* A creation that throws: only the row's insert has a catch.  The process
\* may also stop.  A provider that did not answer may have opened a trade.
CreationFault(o) ==
    /\ creating[o].at \notin {"done", "failed"}
    /\ Fault
    /\ LET taken == creating[o].points > 0 /\ creating[o].at \in {"insert", "compensate"} IN
         \/ /\ creating[o].at = "insert" /\ taken
            /\ creating' = [creating EXCEPT ![o].at = "compensate"]
            /\ UNCHANGED broken
         \/ /\ creating' = [creating EXCEPT ![o].at = "failed"]
            /\ Broken("creation", o, taken)
    /\ IF creating[o].at = "checkout"
       THEN trade' \in {trade, [trade EXCEPT ![o] = "WAIT"]}
       ELSE UNCHANGED trade
    /\ UNCHANGED <<item, order, said, wallet, ledger, granted, aged, proc, admin, refunds, notices>>

\* Where an exception of the statement is caught, if it is.
Catch(label) ==
    IF label = "package" THEN "topup"
    ELSE IF label \in {"check", "adopt"} THEN "credit"
    ELSE IF label \in {"credit", "topup_done"} THEN "topup_reset"
    ELSE IF label \in {"back", "refund_done"} THEN "refund_reset"
    ELSE "idle"

\* broken: the credit follows without the look at the ledger, or the
\* credited refund is forgotten.
Throw(p) ==
    LET o == proc[p].order
        next == Catch(proc[p].at)
    IN  /\ ~At(p, "idle")
        /\ Fault
        /\ IF next = "idle" THEN Leave(p) ELSE Goto(p, next)
        /\ \/ /\ At(p, "refund_done") /\ Broken("refund", o, TRUE)
           \/ /\ ~At(p, "refund_done") /\ Broken("topup", o, next = "credit" /\ ledger[o].topup > 0)
        /\ UNCHANGED <<item, creating, progress, admin, refunds, notices>>

Die(p) ==
    /\ ~At(p, "idle")
    /\ Fault
    /\ Leave(p)
    /\ UNCHANGED <<item, creating, progress, admin, refunds, broken, notices>>

\* A refund request throws or stops; Alipay may have returned the money.
AdminFault(a) ==
    /\ admin[a].at # "idle"
    /\ Fault
    /\ admin' = [admin EXCEPT ![a] = NoRefund]
    /\ UNCHANGED <<item, creating, progress, proc, refunds, broken, notices>>

-----------------------------------------------------------------------------

CreationStep(o) == ReadWallet(o) \/ ConsumePoints(o) \/ InsertOrder(o) \/ Compensate(o)
                     \/ Checkout(o) \/ RefuseOrder(o)

NoticeStep(p) == Read(p) \/ Mismatch(p) \/ Write(p) \/ Package(p)
TopupStep(p) == Topup(p) \/ Check(p) \/ Adopt(p) \/ CreditTopup(p) \/ TopupDone(p) \/ TopupReset(p)
RefundStep(p) == Refund(p) \/ CreditBack(p) \/ RefundDone(p) \/ RefundReset(p)

AdminStep(a) == AdminRead(a) \/ AdminAsk(a) \/ AdminRecord(a) \/ AdminSum(a) \/ AdminWrite(a)

Next ==
    \/ \E o \in Order : CreationStep(o) \/ TradeMoves(o) \/ Age(o) \/ CreationFault(o)
    \/ \E p \in Handler : \/ Notice(p) \/ NoticeStep(p) \/ TopupStep(p) \/ RefundStep(p)
                          \/ Throw(p) \/ Die(p)
                          \/ \E o \in Order : Ask(p, o)
    \/ \E a \in Admin : AdminStep(a) \/ AdminFault(a)
    \/ \E u \in User : SpendElsewhere(u)

Spec == Init /\ [][Next]_vars

\* Requests run to their end, time passes, and a buyer keeps asking for the
\* order (there are more requests at a time than Handler has).
Fairness ==
    /\ \A p \in Handler : WF_vars(NoticeStep(p) \/ TopupStep(p) \/ RefundStep(p))
    /\ \A o \in Order : WF_vars(Age(o)) /\ SF_vars(\E p \in Handler : Ask(p, o))

FairSpec == Spec /\ Fairness

-----------------------------------------------------------------------------
(* Properties                                                              *)

\* The points an order took are in its row, or they are given back, but for
\* a creation whose process stopped or whose compensation failed.
DeductionKept ==
    \A o \in Order \ broken["creation"] :
      IF order[o].status # "absent" THEN ledger[o].deduct = order[o].deducted
      ELSE ledger[o].deduct - ledger[o].back
             = IF creating[o].at \in {"insert", "compensate"} THEN creating[o].points ELSE 0

\* Whatever notifications come twice or late, and whatever crashes, points
\* of an unpaid order are given back once -- unless the write that should
\* note it failed.
RefundOnce ==
    \A o \in Order \ broken["refund"] : order[o].status # "absent" =>
      /\ ledger[o].back \in {0, order[o].deducted}
      /\ order[o].refund = "NONE" => ledger[o].back = 0
      /\ order[o].refund = "SUCCESS" => ledger[o].back = order[o].deducted

\* A paid order is topped up once, by whichever request, taken over from a
\* dead one or not -- unless the look at the ledger failed, or the request
\* that was taken over was still at it.
TopupOnce ==
    \A o \in Order \ (broken["topup"] \cup broken["overtaken"]) :
      /\ ledger[o].topup \in {0, item[o].topup}
      /\ order[o].topup = "SUCCESS" => ledger[o].topup = item[o].topup

\* Nothing is granted for an order that the provider was not paid for in
\* full.
GrantedIsPaid ==
    \A o \in Order : granted[o] > 0 \/ ledger[o].topup > 0
                       => "PAID" \in said[o] /\ ~item[o].misreported

\* An order is called refunded only when all of its money was returned.
RefundedIsReturned ==
    \A o \in Order : order[o].status = "REFUNDED" => refunds[o].returned = Price

\* A paid topup brings its points in the end, even when the request that
\* was at it died, or the order is not paid any more.
TopupArrives ==
    \A o \in Order : order[o].status = "PAID" /\ item[o].topup > 0
                       ~> (ledger[o].topup > 0 \/ order[o].status # "PAID")

\* The request that was to give the points back is gone; nobody takes over.
Orphaned(o) == order[o].refund \in Handler
                 /\ ~ (proc[order[o].refund].order = o
                       /\ proc[order[o].refund].at \in RefundSteps \ {"refund"})

\* Points of an unpaid order come back in the end, but for orphaned ones.
RefundArrives ==
    \A o \in Order : order[o].status \in Final /\ order[o].deducted > 0
                       ~> (ledger[o].back > 0 \/ order[o].status \notin Final \/ Orphaned(o))

\* README.md, callback idempotency: however often a provider repeats a
\* notification, its effect is that of one.
CallbackIdempotent ==
    \A o \in Order : granted[o] <= 1 /\ ledger[o].topup <= item[o].topup
                       /\ ledger[o].back <= ledger[o].deduct
=============================================================================
