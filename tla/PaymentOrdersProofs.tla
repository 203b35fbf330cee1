------------------------ MODULE PaymentOrdersProofs ------------------------
(***************************************************************************)
(* Proofs about PaymentOrders for any orders, buyers, products, amounts,   *)
(* concurrent callbacks, refunds, notifications and faults: types, that an *)
(* order keeps or returns the points it took, that points move once in     *)
(* each direction, that nothing is granted without the payment, and that   *)
(* an order is called refunded when its money was returned.                *)
(*                                                                         *)
(* OrderOK says of one order what its row, its ledger and the requests at  *)
(* work on it have to do with each other; orders share nothing else, so a  *)
(* step owes it for the order it is about (Elsewhere), and for the other   *)
(* requests at that order only what the step changes of it (Beside).       *)
(* MoneyOK adds what the administrators' requests have returned and        *)
(* recorded of it.                                                         *)
(***************************************************************************)
EXTENDS PaymentOrders, Sums

Topping == TopupSteps \ {"topup"}
Returning == RefundSteps \ {"refund"}
Spoiled == broken["topup"] \cup broken["overtaken"]

Paid(o) == "PAID" \in said[o] /\ ~item[o].misreported

\* No wallet is overdrawn, and so the points an order asks for are positive.
Solvent == \A u \in User : wallet[u].open /\ wallet[u].balance >= 0

\* Where the creation is and whether there is a row.
Made(o) ==
    /\ creating[o].at \in {"wallet", "consume", "insert", "compensate"}
         => order[o].status = "absent"
    /\ creating[o].at \in {"checkout", "refuse", "done"} => order[o].status # "absent"
    /\ order[o].status = "absent" =>
         /\ trade[o] = "none" /\ said[o] = {}
         /\ order[o].refund = "NONE" /\ order[o].topup = "NONE"
         /\ ledger[o].topup = 0 /\ granted[o] = 0

\* The points the creation took.
Taken(o) ==
    /\ creating[o].at \in {"wallet", "consume"} => ledger[o].deduct = 0 /\ ledger[o].back = 0
    /\ creating[o].at \in {"insert", "compensate"} =>
         ledger[o].deduct = creating[o].points /\ ledger[o].back = 0
    /\ order[o].status # "absent" => ledger[o].deduct = order[o].deducted
    /\ creating[o].at = "failed" /\ order[o].status = "absent" /\ o \notin broken["creation"]
         => ledger[o].deduct = ledger[o].back

\* What the provider has said, and what follows from it.
Granting(o) ==
    /\ trade[o] \in Told => trade[o] \in said[o]
    /\ order[o].status = "PAID" => Paid(o)
    /\ granted[o] > 0 \/ ledger[o].topup > 0 => Paid(o)

BackOnce(o) ==
    o \notin broken["refund"] /\ order[o].status # "absent" =>
      /\ ledger[o].back \in {0, order[o].deducted}
      /\ order[o].refund = "NONE" => ledger[o].back = 0
      /\ order[o].refund = "SUCCESS" => ledger[o].back = order[o].deducted

ToppedOnce(o) ==
    o \notin Spoiled =>
      /\ ledger[o].topup \in {0, item[o].topup}
      /\ order[o].topup = "SUCCESS" => ledger[o].topup = item[o].topup

\* What holds of request p that is at work on order o.
Working(p, o) ==
    /\ order[o].status # "absent"
    /\ proc[p].at \in {"read", "write"} => proc[p].says \in said[o]
    /\ proc[p].at = "write" /\ proc[p].says = "PAID" => ~item[o].misreported
    /\ proc[p].at \in Topping \cup {"package"} => Paid(o)
    /\ proc[p].at \in Returning => order[o].refund = p
    /\ proc[p].at \in Topping /\ o \notin broken["overtaken"] => order[o].topup = p
    /\ proc[p].at \in {"back", "refund_reset"} /\ o \notin broken["refund"] => ledger[o].back = 0
    /\ proc[p].at = "refund_done" /\ o \notin broken["refund"]
         => ledger[o].back = order[o].deducted
    /\ proc[p].at = "credit" /\ o \notin Spoiled => ledger[o].topup = 0
    /\ proc[p].at \in {"adopt", "topup_done"} /\ o \notin Spoiled
         => ledger[o].topup = item[o].topup

IsAt(p, o) == proc[p].at # "idle" /\ proc[p].order = o

RowOK(o) == Made(o) /\ Taken(o) /\ Granting(o) /\ BackOnce(o) /\ ToppedOnce(o)
OrderOK(o) == RowOK(o) /\ \A p \in Handler : IsAt(p, o) => Working(p, o)

\* A refund is asked for paid orders only.
AdminOK ==
    \A a \in Admin : admin[a].at # "idle" =>
      Paid(admin[a].order) /\ order[admin[a].order].status # "absent"

IInv == TypeOK /\ Solvent /\ (\A o \in Order : OrderOK(o)) /\ AdminOK

Kind == {"creation", "refund", "topup", "overtaken"}
CreationLabel == {"wallet", "consume", "insert", "compensate", "checkout", "refuse", "done",
                  "failed"}
Creation == [at : CreationLabel, points : Nat]
Row == [status : Status, deducted : Nat, refund : {"NONE", "SUCCESS"} \cup Handler,
        topup : {"NONE", "SUCCESS"} \cup Handler]
Tally == [deduct : Nat, back : Nat, topup : Nat]
Work == [at : Label, order : Order, says : Told]
AdminWork == [at : {"idle", "ask", "record", "sum", "write"}, order : Order,
              amount : 0 .. Price, status : {"PAID", "REFUNDED"}]
Refunded == [recorded : Nat, returned : 0 .. Price]

-----------------------------------------------------------------------------
(* Constants and the wallet                                                *)

LEMMA Constants ==
  /\ \A o \in Order : Buyer[o] \in User
  /\ Price \in Nat /\ InitialPoints \in Nat /\ MaxNotices \in Nat /\ MaxFaults \in Nat
  /\ \A i \in Item : i.topup \in Nat /\ i.deduct \in Nat /\ i.misreported \in BOOLEAN
  /\ \A i \in Item : i.channel \in Channel /\ i.product \in Product
  /\ "NONE" \notin Handler /\ "SUCCESS" \notin Handler
  /\ (CHOOSE o \in Order : TRUE) \in Order
  BY BuyerAssumption, PriceAssumption, ItemAssumption, InitialAssumption, TokenAssumption,
     BoundAssumption

LEMMA CreditedWallet ==
  ASSUME NEW w \in Account!Wallet, NEW n \in Nat
  PROVE  /\ Account!Credited(w, n) \in Account!Wallet
         /\ Account!Credited(w, n).open = w.open
         /\ w.balance >= 0 => Account!Credited(w, n).balance >= 0
  <1>1. w.balance + n \in Int /\ w.earned + n \in Nat /\ (w.balance >= 0 => w.balance + n >= 0)
    BY DEF Account!Wallet
  <1> QED BY <1>1 DEF Account!Credited, Account!Wallet

LEMMA ConsumedWallet ==
  ASSUME NEW w \in Account!Wallet, NEW n \in Nat, w.balance >= n
  PROVE  /\ Account!Consumed(w, n) \in Account!Wallet
         /\ Account!Consumed(w, n).open = w.open
         /\ Account!Consumed(w, n).balance >= 0
  <1>1. w.balance - n \in Int /\ w.spent + n \in Nat /\ w.balance - n >= 0
    BY DEF Account!Wallet
  <1> QED BY <1>1 DEF Account!Consumed, Account!Wallet

Purse == wallet \in [User -> Account!Wallet] /\ Solvent

LEMMA CreditOK ==
  ASSUME Purse, NEW u \in User, NEW n \in Nat, Account!Credit(u, n)
  PROVE  Purse'
  <1> DEFINE new == Account!Credited(wallet[u], n)
  <1>1. wallet[u] \in Account!Wallet /\ wallet[u].open /\ wallet[u].balance >= 0
    BY DEF Purse, Solvent
  <1>2. new \in Account!Wallet /\ new.open /\ new.balance >= 0
    BY <1>1, CreditedWallet
  <1>3. wallet' = [wallet EXCEPT ![u] = new]
    BY DEF Account!Credit, Purse
  <1> HIDE DEF new
  <1> QED BY <1>2, <1>3 DEF Purse, Solvent

LEMMA ConsumeOK ==
  ASSUME Purse, NEW u \in User, NEW n \in Nat, Account!Consume(u, n)
  PROVE  Purse'
  <1> DEFINE new == Account!Consumed(wallet[u], n)
  <1>1. wallet[u] \in Account!Wallet /\ wallet[u].open /\ wallet[u].balance >= n
    BY DEF Purse, Solvent, Account!Consume
  <1>2. new \in Account!Wallet /\ new.open /\ new.balance >= 0
    BY <1>1, ConsumedWallet
  <1>3. wallet' = [wallet EXCEPT ![u] = new]
    BY DEF Account!Consume, Purse
  <1> HIDE DEF new
  <1> QED BY <1>2, <1>3 DEF Purse, Solvent

-----------------------------------------------------------------------------
(* Frames                                                                  *)

\* Nothing about order x changes, but that a request at it may leave it.
Untouched(x) ==
    /\ item' = item
    /\ creating'[x] = creating[x] /\ order'[x] = order[x] /\ trade'[x] = trade[x]
    /\ said'[x] = said[x] /\ ledger'[x] = ledger[x] /\ granted'[x] = granted[x]
    /\ \A k \in Kind : x \in broken'[k] <=> x \in broken[k]
    /\ \A p \in Handler : IsAt(p, x)' => proc'[p] = proc[p]

LEMMA Elsewhere ==
  ASSUME NEW x \in Order, OrderOK(x), Untouched(x)
  PROVE  OrderOK(x)'
  <1>1. RowOK(x)'
    BY DEF OrderOK, RowOK, Untouched, Made, Taken, Granting, BackOnce, ToppedOnce, Paid, Spoiled,
       Kind
  <1>2. ASSUME NEW p \in Handler, IsAt(p, x)'
        PROVE  Working(p, x)'
    <2>1. proc'[p] = proc[p] /\ IsAt(p, x) /\ Working(p, x)
      BY <1>2 DEF Untouched, IsAt, OrderOK
    <2> QED BY <2>1 DEF Untouched, Working, Paid, Spoiled, Kind
  <1> QED BY <1>1, <1>2 DEF OrderOK

\* Request q stays at order o while another step changes the order.
LEMMA Beside ==
  ASSUME NEW q \in Handler, NEW o \in Order, Working(q, o), proc'[q] = proc[q], item' = item,
         order'[o].status # "absent", said[o] \subseteq said'[o],
         \A k \in Kind : o \in broken[k] => o \in broken'[k],
         proc[q].at \in Returning =>
           /\ order'[o].refund = order[o].refund
           /\ ledger'[o].back = ledger[o].back /\ order'[o].deducted = order[o].deducted,
         proc[q].at \in Topping /\ o \notin broken'["overtaken"] =>
           order'[o].topup = order[o].topup,
         proc[q].at \in Topping /\ o \notin Spoiled' => ledger'[o].topup = ledger[o].topup
  PROVE  Working(q, o)'
  <1>1. Paid(o) => Paid(o)'
    BY DEF Paid
  <1>2. o \notin Spoiled' => o \notin Spoiled
    BY DEF Spoiled, Kind
  <1>3. {"back", "refund_reset", "refund_done"} \subseteq Returning
        /\ {"credit", "adopt", "topup_done"} \subseteq Topping
    BY DEF Returning, Topping, RefundSteps, TopupSteps
  <1> QED BY <1>1, <1>2, <1>3 DEF Working, Kind

-----------------------------------------------------------------------------
(* What a step owes the invariant                                          *)

LEMMA Types ==
  TypeOK <=>
    /\ item \in [Order -> Item]
    /\ creating \in [Order -> Creation]
    /\ order \in [Order -> Row]
    /\ trade \in [Order -> {"none", "WAIT"} \cup Told]
    /\ said \in [Order -> SUBSET Told]
    /\ wallet \in [User -> Account!Wallet]
    /\ ledger \in [Order -> Tally]
    /\ granted \in [Order -> Nat]
    /\ aged \subseteq Order
    /\ proc \in [Handler -> Work]
    /\ admin \in [Admin -> AdminWork]
    /\ refunds \in [Order -> Refunded]
    /\ broken \in [Kind -> SUBSET Order]
    /\ notices \in 0 .. MaxNotices /\ faults \in 0 .. MaxFaults
  BY DEF TypeOK, Creation, CreationLabel, Row, Tally, Work, AdminWork, Refunded, Kind

\* What is paid stays so, and an order's row stays.
LEMMA AdminKeeps ==
  ASSUME IInv, item' = item, admin' \in [Admin -> AdminWork],
         \A o \in Order : /\ said[o] \subseteq said'[o]
                          /\ order[o].status # "absent" => order'[o].status # "absent",
         \A a \in Admin : admin'[a].at # "idle" =>
           admin[a].at # "idle" /\ admin'[a].order = admin[a].order
  PROVE  AdminOK'
  <1>1. ASSUME NEW a \in Admin, admin'[a].at # "idle"
        PROVE  (Paid(admin[a].order) /\ order[admin[a].order].status # "absent")'
    <2>1. admin[a].at # "idle" /\ admin'[a].order = admin[a].order /\ admin[a].order \in Order
      BY <1>1, Types DEF IInv, AdminWork
    <2>2. Paid(admin[a].order) /\ order[admin[a].order].status # "absent"
      BY <2>1 DEF IInv, AdminOK
    <2> QED BY <2>1, <2>2 DEF Paid
  <1> QED BY <1>1 DEF AdminOK

\* A step of the environment, a creation or a refund request about order o.
LEMMA OutsideStep ==
  ASSUME IInv, NEW o \in Order, TypeOK', Purse', AdminOK',
         UNCHANGED <<item, proc>>,
         \A x \in Order \ {o} : Untouched(x),
         RowOK(o)',
         \A x \in Order : said[x] \subseteq said'[x],
         order[o].status # "absent" =>
           /\ order'[o].status # "absent" /\ order'[o].refund = order[o].refund
           /\ order'[o].topup = order[o].topup /\ order'[o].deducted = order[o].deducted
           /\ ledger'[o] = ledger[o],
         \A k \in Kind : broken[k] \subseteq broken'[k]
  PROVE  IInv'
  <1>1. ASSUME NEW x \in Order \ {o}
        PROVE  OrderOK(x)'
    BY <1>1, Elsewhere DEF IInv
  <1>2. ASSUME NEW q \in Handler, IsAt(q, o)'
        PROVE  Working(q, o)'
    <2>1. proc'[q] = proc[q] /\ IsAt(q, o) /\ Working(q, o)
      BY <1>2 DEF IsAt, IInv, OrderOK
    <2>2. order[o].status # "absent"
      BY <2>1 DEF Working
    <2> QED BY <2>1, <2>2, Beside
  <1>3. OrderOK(o)'
    BY <1>2 DEF OrderOK
  <1> QED BY <1>1, <1>3 DEF IInv, Purse

\* What the other requests at order o hold of it is so in its new row and
\* ledger.
OthersStay(p, o, row, l) ==
    \A q \in Handler \ {p} : IsAt(q, o) /\ Working(q, o) =>
      /\ proc[q].at \in Returning => row.refund = order[o].refund /\ l.back = ledger[o].back
                                      /\ row.deducted = order[o].deducted
      /\ proc[q].at \in Topping /\ o \notin broken'["overtaken"] => row.topup = order[o].topup
      /\ proc[q].at \in Topping /\ o \notin Spoiled' => l.topup = ledger[o].topup

\* A step of request p about order o.
LEMMA RequestStep ==
  ASSUME IInv, NEW p \in Handler, NEW o \in Order, IsAt(p, o) \/ proc[p].at = "idle",
         NEW r \in Work, NEW row \in Row, NEW l \in Tally, NEW g \in Nat,
         proc' = [proc EXCEPT ![p] = r], order' = [order EXCEPT ![o] = row],
         ledger' = [ledger EXCEPT ![o] = l], granted' = [granted EXCEPT ![o] = g],
         aged' \subseteq Order, Purse',
         UNCHANGED <<item, creating, trade, said, admin, refunds>>,
         notices' \in 0 .. MaxNotices, faults' \in 0 .. MaxFaults,
         broken' \in [Kind -> SUBSET Order],
         \A k \in Kind : broken[k] \subseteq broken'[k] /\ broken'[k] \subseteq broken[k] \cup {o},
         r.at # "idle" => r.order = o,
         row.status # "absent",
         RowOK(o)',
         r.at # "idle" => Working(p, o)',
         OthersStay(p, o, row, l)
  PROVE  IInv'
  <1>1. TypeOK
    BY DEF IInv
  <1>2. TypeOK'
    <2>1. /\ order' \in [Order -> Row] /\ ledger' \in [Order -> Tally]
          /\ granted' \in [Order -> Nat] /\ proc' \in [Handler -> Work]
          /\ wallet' \in [User -> Account!Wallet]
      BY <1>1, Types DEF Purse
    <2> QED BY <1>1, <2>1, Types DEF TypeOK, Creation, CreationLabel, Row, Tally, Work, AdminWork,
            Refunded, Kind
  <1>3. order'[o] = row /\ ledger'[o] = l /\ proc'[p] = r
    BY <1>1, Types
  <1>4. ASSUME NEW x \in Order \ {o}
        PROVE  OrderOK(x)'
    <2>1. /\ order'[x] = order[x] /\ ledger'[x] = ledger[x] /\ granted'[x] = granted[x]
          /\ creating'[x] = creating[x] /\ trade'[x] = trade[x] /\ said'[x] = said[x]
          /\ \A k \in Kind : x \in broken'[k] <=> x \in broken[k]
      BY <1>1, Types
    <2>2. ASSUME NEW q \in Handler, IsAt(q, x)'
          PROVE  proc'[q] = proc[q]
      BY <1>1, <1>3, <2>2, Types DEF IsAt
    <2>3. Untouched(x)
      BY <2>1, <2>2 DEF Untouched
    <2> QED BY <2>3, Elsewhere DEF IInv
  <1>5. ASSUME NEW q \in Handler, IsAt(q, o)'
        PROVE  Working(q, o)'
    <2>1. CASE q = p
      BY <1>3, <1>5, <2>1 DEF IsAt
    <2>2. CASE q # p
      <3>1. proc'[q] = proc[q]
        BY <1>1, <2>2, Types
      <3>2. IsAt(q, o) /\ Working(q, o)
        BY <1>5, <3>1 DEF IsAt, IInv, OrderOK
      <3> QED BY <1>3, <2>2, <3>1, <3>2, Beside DEF OthersStay
    <2> QED BY <2>1, <2>2
  <1>6. \A x \in Order : order[x].status # "absent" => order'[x].status # "absent"
    BY <1>1, <1>3, <1>4, Types
  <1>7. AdminOK'
    BY <1>1, <1>6, AdminKeeps, Types
  <1>8. OrderOK(o)'
    BY <1>5 DEF OrderOK
  <1> QED BY <1>2, <1>4, <1>7, <1>8 DEF IInv, Purse

\* What is known of a request at work.
LEMMA AtWork ==
  ASSUME IInv, NEW p \in Handler, proc[p].at # "idle"
  PROVE  /\ proc[p] \in Work /\ proc[p].order \in Order /\ IsAt(p, proc[p].order)
         /\ RowOK(proc[p].order) /\ Working(p, proc[p].order)
         /\ order[proc[p].order] \in Row /\ ledger[proc[p].order] \in Tally
         /\ granted[proc[p].order] \in Nat /\ item[proc[p].order] \in Item
         /\ creating[proc[p].order] \in Creation
  <1>1. proc[p] \in Work /\ proc[p].order \in Order /\ IsAt(p, proc[p].order)
    BY Types DEF IInv, Work, IsAt
  <1>2. OrderOK(proc[p].order)
    BY <1>1 DEF IInv
  <1> QED BY <1>1, <1>2, Types DEF IInv, OrderOK

LEMMA IdleIdle == Idle \in Work /\ Idle.at = "idle"
  BY Constants DEF Idle, Work, Label, Told

LEMMA RowStays ==
  ASSUME NEW o \in Order, RowOK(o), UNCHANGED <<item, creating, trade, said>>,
         order'[o] = order[o], ledger'[o] = ledger[o], granted'[o] = granted[o],
         \A k \in Kind : broken[k] \subseteq broken'[k]
  PROVE  RowOK(o)'
  BY DEF RowOK, Made, Taken, Granting, BackOnce, ToppedOnce, Paid, Spoiled, Kind

\* A step that only says where its request goes.
LEMMA MoveStep ==
  ASSUME IInv, NEW p \in Handler, NEW o \in Order, IsAt(p, o) \/ proc[p].at = "idle", RowOK(o),
         order[o].status # "absent",
         NEW r \in Work, proc' = [proc EXCEPT ![p] = r], r.at # "idle" => r.order = o,
         UNCHANGED <<progress, item, creating, admin, refunds>>,
         notices' \in 0 .. MaxNotices, faults' \in 0 .. MaxFaults,
         broken' \in [Kind -> SUBSET Order],
         \A k \in Kind : broken[k] \subseteq broken'[k] /\ broken'[k] \subseteq broken[k] \cup {o},
         r.at # "idle" => Working(p, o)'
  PROVE  IInv'
  <1>1. /\ order[o] \in Row /\ ledger[o] \in Tally /\ granted[o] \in Nat
        /\ order' = [order EXCEPT ![o] = order[o]] /\ ledger' = [ledger EXCEPT ![o] = ledger[o]]
        /\ granted' = [granted EXCEPT ![o] = granted[o]]
    BY Types DEF IInv, progress
  <1>2. UNCHANGED <<trade, said, aged, order, ledger, granted, wallet>>
    BY DEF progress
  <1>3. Purse' /\ aged' \subseteq Order
    BY <1>2, Types DEF Purse, IInv, Solvent
  <1>4. RowOK(o)'
    BY <1>2, RowStays
  <1> DEFINE row == order[o]
             l == ledger[o]
             g == granted[o]
  <1>5. /\ row \in Row /\ l \in Tally /\ g \in Nat /\ row.status # "absent"
        /\ order' = [order EXCEPT ![o] = row] /\ ledger' = [ledger EXCEPT ![o] = l]
        /\ granted' = [granted EXCEPT ![o] = g] /\ OthersStay(p, o, row, l)
    BY <1>1 DEF OthersStay
  <1> HIDE DEF row, l, g
  <1> QED BY <1>2, <1>3, <1>4, <1>5, RequestStep

-----------------------------------------------------------------------------
(* Notifications                                                           *)

LEMMA ReadKeeps ==
  ASSUME IInv, NEW p \in Handler, NEW o \in Order, o = proc[p].order, Read(p)
  PROVE  IInv'
  <1> DEFINE paid == proc[p].says = "PAID"
             label == IF item[o].channel # "SAAS" /\ order[o].status = "PAID" THEN "topup"
                      ELSE IF item[o].channel = "ALIPAY"
                              /\ (order[o].status = "REFUNDED" \/ (order[o].status \in Final /\ ~paid))
                      THEN "refund"
                      ELSE IF paid /\ item[o].misreported THEN "mismatch" ELSE "write"
             r == [proc[p] EXCEPT !.at = label]
  <1>1. proc[p].at = "read" /\ proc' = [proc EXCEPT ![p] = r]
        /\ UNCHANGED <<progress, item, creating, admin, refunds, broken, notices, faults>>
    BY DEF Read, At, Goto, Stay, history
  <1>2. /\ o \in Order /\ IsAt(p, o) /\ RowOK(o) /\ Working(p, o) /\ proc[p] \in Work
    BY <1>1, AtWork
  <1>3. label \in {"topup", "refund", "mismatch", "write"}
        /\ (label = "write" /\ paid => ~item[o].misreported)
    OBVIOUS
  <1>4. r \in Work /\ r.at = label /\ r.order = o /\ r.says = proc[p].says
    BY <1>2, <1>3 DEF Work, Label, TopupSteps, RefundSteps
  <1>5. proc'[p] = r
    BY <1>1, Types DEF IInv
  <1> HIDE DEF label, r
  <1>6. Working(p, o)'
    BY <1>1, <1>2, <1>3, <1>4, <1>5 DEF Working, Paid, Spoiled, progress, Topping, Returning,
       TopupSteps, RefundSteps
  <1>7. broken' \in [Kind -> SUBSET Order] /\ notices' \in 0 .. MaxNotices
        /\ faults' \in 0 .. MaxFaults
        /\ \A k \in Kind : broken[k] \subseteq broken'[k] /\ broken'[k] \subseteq broken[k] \cup {o}
    BY <1>1, Types DEF IInv
  <1>8. order[o].status # "absent"
    BY <1>2 DEF Working
  <1> QED BY <1>1, <1>2, <1>4, <1>6, <1>7, <1>8, MoveStep

LEMMA StayOK ==
  ASSUME IInv, UNCHANGED <<broken, notices, faults>>, NEW o \in Order
  PROVE  /\ broken' \in [Kind -> SUBSET Order] /\ notices' \in 0 .. MaxNotices
         /\ faults' \in 0 .. MaxFaults
         /\ \A k \in Kind : broken[k] \subseteq broken'[k] /\ broken'[k] \subseteq broken[k] \cup {o}
  BY Types DEF IInv

\* Request p is over; nothing else has changed.
LEMMA LeaveStep ==
  ASSUME IInv, NEW p \in Handler, NEW o \in Order, IsAt(p, o), Leave(p),
         UNCHANGED <<progress, item, creating, admin, refunds, broken, notices, faults>>
  PROVE  IInv'
  <1>1. proc[p].at # "idle" /\ o = proc[p].order
    BY DEF IsAt
  <1>2. RowOK(o) /\ order[o].status # "absent"
    BY <1>1, AtWork DEF Working
  <1> QED BY <1>2, IdleIdle, StayOK, MoveStep DEF Leave

LEMMA NoticeKeeps ==
  ASSUME IInv, NEW p \in Handler, Notice(p)
  PROVE  IInv'
  <1>0. PICK o \in Order : \E s \in said[o] :
             proc' = [proc EXCEPT ![p] = [at |-> "read", order |-> o, says |-> s]]
    BY DEF Notice
  <1>1. PICK s \in said[o] :
             proc' = [proc EXCEPT ![p] = [at |-> "read", order |-> o, says |-> s]]
    BY <1>0
  <1> DEFINE r == [at |-> "read", order |-> o, says |-> s]
  <1>2. proc[p].at = "idle" /\ notices' = notices + 1 /\ notices < MaxNotices
        /\ UNCHANGED <<item, creating, progress, admin, refunds, broken, faults>>
    BY DEF Notice, At
  <1>3. notices' \in 0 .. MaxNotices
    BY <1>2, Constants, Types DEF IInv
  <1>4. RowOK(o) /\ order[o].status # "absent" /\ s \in Told
    BY Types DEF IInv, OrderOK, RowOK, Made
  <1>5. r \in Work /\ proc'[p] = r /\ r.at = "read" /\ r.order = o /\ r.says = s
    BY <1>1, <1>4, Types DEF IInv, Work, Label
  <1> HIDE DEF r
  <1>6. Working(p, o)'
    BY <1>2, <1>4, <1>5 DEF Working, progress, Topping, Returning, TopupSteps, RefundSteps
  <1>7. broken' \in [Kind -> SUBSET Order] /\ faults' \in 0 .. MaxFaults
        /\ \A k \in Kind : broken[k] \subseteq broken'[k] /\ broken'[k] \subseteq broken[k] \cup {o}
    BY <1>2, Types DEF IInv
  <1>8. proc' = [proc EXCEPT ![p] = r]
    BY <1>1 DEF r
  <1> QED BY <1>2, <1>3, <1>4, <1>5, <1>6, <1>7, <1>8, MoveStep

LEMMA AskKeeps ==
  ASSUME IInv, NEW p \in Handler, NEW o \in Order, Ask(p, o)
  PROVE  IInv'
  <1>1. proc[p].at = "idle" /\ order[o].status # "absent"
        /\ UNCHANGED <<progress, item, creating, admin, refunds, broken, notices, faults>>
    BY DEF Ask, At, Stay, history
  <1>2. RowOK(o) /\ said[o] \subseteq Told
    BY Types DEF IInv, OrderOK
  <1>3. PICK r \in Work : /\ proc' = [proc EXCEPT ![p] = r] /\ r.order = o
                          /\ r.at \in {"topup", "read"}
                          /\ r.at = "read" => r.says \in said[o]
    <2>1. CASE proc' = [proc EXCEPT ![p] = [Idle EXCEPT !.at = "topup", !.order = o]]
      <3> DEFINE r == [Idle EXCEPT !.at = "topup", !.order = o]
      <3>1. r \in Work /\ r.order = o /\ r.at = "topup"
        BY IdleIdle DEF Work, Label, TopupSteps
      <3> QED BY <2>1, <3>1
    <2>2. CASE /\ trade[o] \in Told
               /\ proc' = [proc EXCEPT ![p] = [at |-> "read", order |-> o, says |-> trade[o]]]
      <3> DEFINE r == [at |-> "read", order |-> o, says |-> trade[o]]
      <3>1. trade[o] \in said[o]
        BY <1>2, <2>2 DEF RowOK, Granting
      <3>2. r \in Work
        BY <2>2 DEF Work, Label
      <3> QED BY <2>2, <3>1, <3>2
    <2> QED BY <2>1, <2>2 DEF Ask, Told
  <1>4. proc'[p] = r
    BY <1>3, Types DEF IInv
  <1>5. Working(p, o)'
    BY <1>1, <1>3, <1>4 DEF Working, progress, Topping, Returning, TopupSteps, RefundSteps
  <1> QED BY <1>1, <1>2, <1>3, <1>5, StayOK, MoveStep

\* A write of the order's status, or of what it granted, by the request that
\* goes on to a step for which nothing more is needed.
LEMMA StatusStep ==
  ASSUME IInv, NEW p \in Handler, NEW o \in Order, IsAt(p, o),
         NEW s \in Status \ {"absent"}, NEW g \in Nat, NEW r \in Work,
         proc' = [proc EXCEPT ![p] = r], order' = [order EXCEPT ![o].status = s],
         granted' = [granted EXCEPT ![o] = g], aged' \subseteq Order,
         UNCHANGED <<trade, said, wallet, ledger, item, creating, admin, refunds, history>>,
         s = "PAID" => Paid(o), g > 0 => Paid(o),
         r.at \in {"idle", "topup", "refund", "package"}, r.at # "idle" => r.order = o,
         r.at = "package" => Paid(o)
  PROVE  IInv'
  <1> DEFINE row == [order[o] EXCEPT !.status = s]
  <1>1. order[o] \in Row /\ ledger[o] \in Tally /\ RowOK(o) /\ order[o].status # "absent"
    <2>1. proc[p].at # "idle" /\ o = proc[p].order
      BY DEF IsAt
    <2> QED BY <2>1, AtWork DEF Working
  <1>2. /\ row \in Row /\ row.status = s /\ row.deducted = order[o].deducted
        /\ row.refund = order[o].refund /\ row.topup = order[o].topup
    BY <1>1 DEF Row
  <1>3. order' = [order EXCEPT ![o] = row] /\ ledger' = [ledger EXCEPT ![o] = ledger[o]]
    BY Types DEF IInv
  <1>4. order'[o] = row /\ ledger'[o] = ledger[o] /\ granted'[o] = g /\ proc'[p] = r
    BY <1>3, Types DEF IInv
  <1> HIDE DEF row
  <1>5. RowOK(o)'
    BY <1>1, <1>2, <1>4 DEF RowOK, Made, Taken, Granting, BackOnce, ToppedOnce, Paid, Spoiled, Kind,
       history
  <1>6. r.at # "idle" => Working(p, o)'
    BY <1>2, <1>4 DEF Working, Paid, Topping, Returning, TopupSteps, RefundSteps
  <1>7. Purse'
    BY Types DEF Purse, IInv, Solvent
  <1>8. UNCHANGED <<broken, notices, faults>>
    BY DEF history
  <1>9. OthersStay(p, o, row, ledger[o])
    BY <1>2 DEF OthersStay
  <1> QED BY <1>1, <1>2, <1>3, <1>5, <1>6, <1>7, <1>8, <1>9, StayOK, RequestStep

LEMMA MismatchKeeps ==
  ASSUME IInv, NEW p \in Handler, NEW o \in Order, o = proc[p].order, Mismatch(p)
  PROVE  IInv'
  <1>1. proc[p].at = "mismatch" /\ order' = [order EXCEPT ![o].status = "FAILED"]
        /\ aged' = aged \ {o}
        /\ UNCHANGED <<trade, said, wallet, ledger, granted, item, creating, admin, refunds, history>>
    BY DEF Mismatch, At, Stay
  <1>2. /\ IsAt(p, o) /\ RowOK(o) /\ proc[p] \in Work /\ granted[o] \in Nat
    BY <1>1, AtWork
  <1>3. PICK r \in Work : /\ proc' = [proc EXCEPT ![p] = r] /\ r.at \in {"idle", "refund"}
                          /\ r.at # "idle" => r.order = o
    <2>1. CASE Leave(p)
      BY <2>1, IdleIdle DEF Leave
    <2>2. CASE Goto(p, "refund")
      <3> DEFINE r == [proc[p] EXCEPT !.at = "refund"]
      <3>1. r \in Work /\ r.at = "refund" /\ r.order = o
        BY <1>2 DEF Work, Label, RefundSteps
      <3> QED BY <2>2, <3>1 DEF Goto
    <2> QED BY <2>1, <2>2 DEF Mismatch
  <1>4. granted' = [granted EXCEPT ![o] = granted[o]] /\ aged' \subseteq Order
    BY <1>1, Types DEF IInv
  <1>5. granted[o] > 0 => Paid(o)
    BY <1>2 DEF RowOK, Granting
  <1> DEFINE s == "FAILED"
             g == granted[o]
  <1>6. s \in Status \ {"absent"} /\ s # "PAID" /\ r.at # "package"
        /\ r.at \in {"idle", "topup", "refund", "package"}
    BY <1>3 DEF Status, Final
  <1>7. order' = [order EXCEPT ![o].status = s] /\ granted' = [granted EXCEPT ![o] = g]
        /\ g \in Nat /\ (g > 0 => Paid(o))
    BY <1>1, <1>2, <1>4, <1>5
  <1>8. /\ proc' = [proc EXCEPT ![p] = r] /\ (r.at # "idle" => r.order = o)
        /\ (s = "PAID" => Paid(o)) /\ (r.at = "package" => Paid(o)) /\ aged' \subseteq Order
    BY <1>3, <1>4, <1>6
  <1>9. UNCHANGED <<trade, said, wallet, ledger, item, creating, admin, refunds, history>>
    BY <1>1
  <1> HIDE DEF s, g
  <1> QED BY <1>2, <1>6, <1>7, <1>8, <1>9, StatusStep

LEMMA WriteKeeps ==
  ASSUME IInv, NEW p \in Handler, NEW o \in Order, o = proc[p].order, Write(p)
  PROVE  IInv'
  <1> DEFINE says == proc[p].says
             keeps == says # "PAID" /\ item[o].channel = "SAAS" /\ order[o].status = "PAID"
             s == IF keeps THEN order[o].status ELSE says
             g == IF says = "PAID" /\ item[o].product = "membership" THEN granted[o] + 1
                  ELSE granted[o]
             label == IF says # "PAID" THEN "refund"
                      ELSE IF item[o].channel = "ALIPAY" /\ item[o].product = "package"
                      THEN "package" ELSE "topup"
             r == [proc[p] EXCEPT !.at = label]
  <1>1. proc[p].at = "write" /\ proc' = [proc EXCEPT ![p] = r]
        /\ UNCHANGED <<trade, said, wallet, ledger, item, creating, admin, refunds, history>>
    BY DEF Write, At, Stay, Goto
  <1>2. /\ IsAt(p, o) /\ RowOK(o) /\ Working(p, o) /\ proc[p] \in Work /\ granted[o] \in Nat
        /\ order[o] \in Row
    BY <1>1, AtWork
  <1>3. says \in Told /\ says \in said[o] /\ (says = "PAID" => Paid(o))
    BY <1>1, <1>2 DEF Work, Working, Paid
  <1>4. s \in Status \ {"absent"} /\ (s = "PAID" => Paid(o))
    BY <1>2, <1>3 DEF Status, Told, Final, Working, RowOK, Granting
  <1>5. order' = [order EXCEPT ![o].status = s] /\ aged' \subseteq Order
    <2>1. TypeOK
      BY DEF IInv
    <2>2. CASE keeps
      BY <2>1, <2>2, Types DEF Write, Row
    <2>3. CASE ~keeps
      BY <2>1, <2>3, Types DEF Write
    <2> QED BY <2>2, <2>3
  <1>6. granted' = [granted EXCEPT ![o] = g] /\ g \in Nat /\ (g > 0 => Paid(o))
    <2>1. granted \in [Order -> Nat]
      BY Types DEF IInv
    <2>2. granted' = [granted EXCEPT ![o] = g]
      BY <2>1 DEF Write
    <2> QED BY <1>2, <1>3, <2>2 DEF RowOK, Granting
  <1>7. label \in {"refund", "package", "topup"} /\ (label = "package" => Paid(o))
    BY <1>3
  <1>8. r \in Work /\ r.at = label /\ r.order = o
    BY <1>2, <1>7 DEF Work, Label, TopupSteps, RefundSteps
  <1> HIDE DEF s, g, label, r
  <1> QED BY <1>1, <1>2, <1>4, <1>5, <1>6, <1>7, <1>8, StatusStep

LEMMA PackageKeeps ==
  ASSUME IInv, NEW p \in Handler, NEW o \in Order, o = proc[p].order, Package(p)
  PROVE  IInv'
  <1> DEFINE r == [proc[p] EXCEPT !.at = "topup"]
             s == order[o].status
  <1>1. proc[p].at = "package" /\ proc' = [proc EXCEPT ![p] = r]
        /\ granted' = [granted EXCEPT ![o] = @ + 1]
        /\ UNCHANGED <<order, trade, said, wallet, ledger, item, creating, admin, refunds, aged, history>>
    BY DEF Package, At, Stay, Goto
  <1>2. /\ IsAt(p, o) /\ RowOK(o) /\ Working(p, o) /\ proc[p] \in Work /\ granted[o] \in Nat
        /\ order[o] \in Row
    BY <1>1, AtWork
  <1>3. Paid(o) /\ s \in Status \ {"absent"}
    BY <1>1, <1>2 DEF Working, Row
  <1>4. order' = [order EXCEPT ![o].status = s] /\ aged' \subseteq Order
        /\ granted' = [granted EXCEPT ![o] = granted[o] + 1] /\ granted[o] + 1 \in Nat
    <2>1. order = [order EXCEPT ![o].status = s] /\ aged \subseteq Order
      BY <1>2, Types DEF IInv, Row
    <2> QED BY <1>1, <1>2, <2>1
  <1>5. r \in Work /\ r.at = "topup" /\ r.order = o
    BY <1>2 DEF Work, Label, TopupSteps
  <1> HIDE DEF s, r
  <1> QED BY <1>1, <1>2, <1>3, <1>4, <1>5, StatusStep

-----------------------------------------------------------------------------
(* Topups                                                                  *)

\* A step about an order's marks and its points, the status as it was.
LEMMA MarkStep ==
  ASSUME IInv, NEW p \in Handler, NEW o \in Order, IsAt(p, o),
         NEW r \in Work, NEW row \in Row, NEW l \in Tally,
         proc' = [proc EXCEPT ![p] = r], order' = [order EXCEPT ![o] = row],
         ledger' = [ledger EXCEPT ![o] = l], aged' \subseteq Order, Purse',
         UNCHANGED <<trade, said, granted, item, creating, admin, refunds, notices, faults>>,
         broken' \in [Kind -> SUBSET Order],
         \A k \in Kind : broken[k] \subseteq broken'[k] /\ broken'[k] \subseteq broken[k] \cup {o},
         row.status = order[o].status, row.deducted = order[o].deducted,
         l.deduct = ledger[o].deduct, l.topup > 0 => Paid(o),
         BackOnce(o)', ToppedOnce(o)',
         r.at # "idle" => r.order = o,
         r.at # "idle" => Working(p, o)',
         OthersStay(p, o, row, l)
  PROVE  IInv'
  <1>1. RowOK(o) /\ order[o].status # "absent" /\ granted[o] \in Nat /\ creating[o] \in Creation
    <2>1. proc[p].at # "idle" /\ o = proc[p].order
      BY DEF IsAt
    <2> QED BY <2>1, AtWork DEF Working
  <1>2. order'[o] = row /\ ledger'[o] = l
    BY Types DEF IInv
  <1>3. granted' = [granted EXCEPT ![o] = granted[o]]
    BY Types DEF IInv
  <1>4. Made(o)' /\ Granting(o)'
    BY <1>1, <1>2 DEF RowOK, Made, Granting, Paid
  <1>5. Taken(o)'
    BY <1>1, <1>2 DEF RowOK, Made, Taken
  <1>6. RowOK(o)'
    BY <1>4, <1>5 DEF RowOK
  <1>7. notices' \in 0 .. MaxNotices /\ faults' \in 0 .. MaxFaults
    BY Types DEF IInv
  <1> DEFINE g == granted[o]
  <1>8. g \in Nat /\ granted' = [granted EXCEPT ![o] = g] /\ row.status # "absent"
    BY <1>1, <1>3
  <1> HIDE DEF g
  <1> QED BY <1>6, <1>7, <1>8, RequestStep

LEMMA PurseStays == ASSUME IInv, wallet' = wallet PROVE Purse'
  BY Types DEF Purse, IInv, Solvent

LEMMA TopupKeeps ==
  ASSUME IInv, NEW p \in Handler, NEW o \in Order, o = proc[p].order, Topup(p)
  PROVE  IInv'
  <1> DEFINE holder == order[o].topup
             row == [order[o] EXCEPT !.topup = p]
             r == [proc[p] EXCEPT !.at = "check"]
  <1>1. proc[p].at = "topup" /\ UNCHANGED <<trade, said, granted, wallet, ledger, item, creating,
                                            admin, refunds, notices, faults>>
    BY DEF Topup, At
  <1>2. /\ IsAt(p, o) /\ RowOK(o) /\ Working(p, o) /\ proc[p] \in Work /\ order[o] \in Row
        /\ ledger[o] \in Tally /\ broken \in [Kind -> SUBSET Order]
    BY <1>1, AtWork, Types DEF IInv
  <1>3. CASE /\ Leave(p) /\ UNCHANGED <<order, aged, broken>>
    BY <1>1, <1>2, <1>3, LeaveStep DEF progress
  <1>4. CASE /\ order[o].status = "PAID" /\ order' = [order EXCEPT ![o].topup = p]
             /\ aged' = aged \ {o} /\ Goto(p, "check")
             /\ holder = "NONE" \/ holder \in Handler
             /\ broken' = IF holder \in Handler /\ proc[holder].order = o
                               /\ proc[holder].at \in Topping
                          THEN [broken EXCEPT !["overtaken"] = @ \cup {o}] ELSE broken
    <2>1. /\ row \in Row /\ row.status = "PAID" /\ row.deducted = order[o].deducted
          /\ row.refund = order[o].refund /\ row.topup = p
      BY <1>2, <1>4 DEF Row
    <2>2. /\ r \in Work /\ r.at = "check" /\ r.order = o
      BY <1>2 DEF Work, Label, TopupSteps
    <2>3. /\ proc' = [proc EXCEPT ![p] = r] /\ order' = [order EXCEPT ![o] = row]
          /\ ledger' = [ledger EXCEPT ![o] = ledger[o]] /\ aged' \subseteq Order
      BY <1>1, <1>4, Types DEF IInv, Goto
    <2>4. proc'[p] = r /\ order'[o] = row /\ ledger'[o] = ledger[o]
      BY <2>3, Types DEF IInv
    <2>5. broken' \in [Kind -> SUBSET Order]
          /\ \A k \in Kind : broken[k] \subseteq broken'[k] /\ broken'[k] \subseteq broken[k] \cup {o}
      <3>1. broken' = broken \/ broken' = [broken EXCEPT !["overtaken"] = @ \cup {o}]
        BY <1>4
      <3> QED BY <1>2, <3>1 DEF Kind
    <2> HIDE DEF row, r
    <2>6. BackOnce(o)' /\ ToppedOnce(o)'
      BY <1>1, <1>2, <1>4, <2>1, <2>4, <2>5, Constants DEF RowOK, BackOnce, ToppedOnce, Spoiled, Kind
    <2>7. ledger[o].topup > 0 => Paid(o)
      BY <1>2 DEF RowOK, Granting
    <2>8. Working(p, o)'
      BY <1>1, <1>2, <1>4, <2>1, <2>2, <2>4 DEF Working, RowOK, Granting, Paid, Topping, Returning,
         TopupSteps, RefundSteps
    <2>9. ASSUME NEW q \in Handler \ {p}, IsAt(q, o), Working(q, o), proc[q].at \in Topping,
                 o \notin broken'["overtaken"]
          PROVE  FALSE
      <3>1. o \notin broken["overtaken"] /\ proc[q].order = o
        BY <2>5, <2>9 DEF Kind, IsAt
      <3>2. holder = q
        BY <2>9, <3>1 DEF Working
      <3>3. broken' = [broken EXCEPT !["overtaken"] = @ \cup {o}]
        BY <1>4, <2>9, <3>1, <3>2
      <3> QED BY <1>2, <2>9, <3>3 DEF Kind
    <2> DEFINE l == ledger[o]
    <2>10. /\ l \in Tally /\ ledger' = [ledger EXCEPT ![o] = l] /\ l.deduct = ledger[o].deduct
           /\ l.back = ledger[o].back /\ l.topup = ledger[o].topup
           /\ row.status = order[o].status
      BY <1>2, <1>4, <2>1, <2>3
    <2> HIDE DEF l
    <2>11. OthersStay(p, o, row, l)
      BY <2>1, <2>9, <2>10 DEF OthersStay
    <2> QED BY <1>1, <1>2, <2>1, <2>2, <2>3, <2>5, <2>6, <2>7, <2>8, <2>10, <2>11, PurseStays,
               MarkStep
  <1> QED BY <1>3, <1>4 DEF Topup, Topping

LEMMA CheckKeeps ==
  ASSUME IInv, NEW p \in Handler, NEW o \in Order, o = proc[p].order, Check(p)
  PROVE  IInv'
  <1> DEFINE label == IF ledger[o].topup > 0 THEN "adopt" ELSE "credit"
             r == [proc[p] EXCEPT !.at = label]
  <1>1. proc[p].at = "check" /\ proc' = [proc EXCEPT ![p] = r]
        /\ UNCHANGED <<progress, item, creating, admin, refunds, broken, notices, faults>>
    BY DEF Check, At, Goto, Stay, history
  <1>2. /\ IsAt(p, o) /\ RowOK(o) /\ Working(p, o) /\ proc[p] \in Work /\ ledger[o] \in Tally
        /\ item[o] \in Item
    BY <1>1, AtWork
  <1>3. /\ label \in {"adopt", "credit"}
        /\ label = "adopt" /\ o \notin Spoiled => ledger[o].topup = item[o].topup
        /\ label = "credit" => ledger[o].topup = 0
    BY <1>2 DEF RowOK, ToppedOnce, Tally
  <1>4. r \in Work /\ r.at = label /\ r.order = o /\ r.says = proc[p].says
    BY <1>2, <1>3 DEF Work, Label, TopupSteps, RefundSteps
  <1>5. proc'[p] = r
    BY <1>1, Types DEF IInv
  <1> HIDE DEF label, r
  <1>6. Working(p, o)'
    BY <1>1, <1>2, <1>3, <1>4, <1>5 DEF Working, Paid, Spoiled, progress, Topping, Returning,
       TopupSteps, RefundSteps
  <1>7. order[o].status # "absent"
    BY <1>2 DEF Working
  <1> QED BY <1>1, <1>2, <1>4, <1>6, <1>7, StayOK, MoveStep

\* A request that writes its mark, if it still holds it, and is over.
LEMMA SetTopupKeeps ==
  ASSUME IInv, NEW p \in Handler, NEW o \in Order, o = proc[p].order,
         NEW v \in {"NONE", "SUCCESS"}, SetTopup(p, v), proc[p].at \in Topping,
         v = "SUCCESS" => proc[p].at \in {"adopt", "topup_done"}
  PROVE  IInv'
  <1> DEFINE row == [order[o] EXCEPT !.topup = v]
  <1>1. proc[p].at # "idle" /\ UNCHANGED <<trade, said, granted, wallet, ledger, item, creating,
                                            admin, refunds, history>>
        /\ Leave(p)
    BY DEF SetTopup, Stay, Topping, TopupSteps
  <1>2. /\ IsAt(p, o) /\ RowOK(o) /\ Working(p, o) /\ proc[p] \in Work /\ order[o] \in Row
        /\ ledger[o] \in Tally
    BY <1>1, AtWork
  <1>3. UNCHANGED <<broken, notices, faults>>
    BY <1>1 DEF history
  <1>4. CASE UNCHANGED <<order, aged>>
    BY <1>1, <1>2, <1>3, <1>4, LeaveStep DEF progress
  <1>5. CASE /\ order[o].topup = p
             /\ order' = [order EXCEPT ![o].topup = v] /\ aged' = aged \ {o}
    <2> DEFINE l == ledger[o]
               r == Idle
    <2>1. /\ row \in Row /\ row.status = order[o].status /\ row.deducted = order[o].deducted
          /\ row.refund = order[o].refund /\ row.topup = v
      BY <1>2 DEF Row
    <2>2. /\ proc' = [proc EXCEPT ![p] = r] /\ order' = [order EXCEPT ![o] = row]
          /\ ledger' = [ledger EXCEPT ![o] = l] /\ aged' \subseteq Order
      BY <1>1, <1>5, Types DEF IInv, Leave
    <2>3. /\ l \in Tally /\ l.deduct = ledger[o].deduct /\ r \in Work /\ r.at = "idle"
          /\ l.back = ledger[o].back /\ l.topup = ledger[o].topup
      BY <1>2, IdleIdle
    <2>4. order'[o] = row /\ ledger'[o] = ledger[o]
      BY <1>1, <2>2, Types DEF IInv
    <2> HIDE DEF row, l, r
    <2>5. BackOnce(o)' /\ ToppedOnce(o)'
      <3>1. v = "SUCCESS" /\ o \notin Spoiled => ledger[o].topup = item[o].topup
        BY <1>2 DEF Working
      <3> QED BY <1>1, <1>2, <1>3, <2>1, <2>4, <3>1 DEF RowOK, BackOnce, ToppedOnce, Spoiled
    <2>6. ledger[o].topup > 0 => Paid(o)
      BY <1>2 DEF RowOK, Granting
    <2>7. ASSUME NEW q \in Handler \ {p}, IsAt(q, o), Working(q, o), proc[q].at \in Topping,
                 o \notin broken'["overtaken"]
          PROVE  FALSE
      BY <1>3, <1>5, <2>7 DEF Working
    <2>8. OthersStay(p, o, row, l)
      BY <2>1, <2>3, <2>7 DEF OthersStay
    <2>9. l.topup > 0 => Paid(o)
      BY <2>3, <2>6
    <2> QED BY <1>1, <1>2, <1>3, <2>1, <2>2, <2>3, <2>5, <2>8, <2>9, StayOK, PurseStays, MarkStep
  <1> QED BY <1>4, <1>5 DEF SetTopup

LEMMA TopupEnds ==
  ASSUME IInv, NEW p \in Handler, Adopt(p) \/ TopupDone(p) \/ TopupReset(p)
  PROVE  IInv'
  <1>1. PICK o \in Order : o = proc[p].order
    BY Types DEF IInv, Work
  <1>2. CASE Adopt(p)
    BY <1>1, <1>2, SetTopupKeeps DEF Adopt, At, Topping, TopupSteps
  <1>3. CASE TopupDone(p)
    BY <1>1, <1>3, SetTopupKeeps DEF TopupDone, At, Topping, TopupSteps
  <1>4. CASE TopupReset(p)
    BY <1>1, <1>4, SetTopupKeeps DEF TopupReset, At, Topping, TopupSteps
  <1> QED BY <1>2, <1>3, <1>4

LEMMA CreditTopupKeeps ==
  ASSUME IInv, NEW p \in Handler, NEW o \in Order, o = proc[p].order, CreditTopup(p)
  PROVE  IInv'
  <1> DEFINE l == [ledger[o] EXCEPT !.topup = @ + item[o].topup]
             r == [proc[p] EXCEPT !.at = "topup_done"]
             row == order[o]
  <1>1. proc[p].at = "credit" /\ UNCHANGED <<order, trade, said, granted, aged, item, creating,
                                             admin, refunds, history>>
        /\ Account!Credit(Buyer[o], item[o].topup)
        /\ ledger' = [ledger EXCEPT ![o].topup = @ + item[o].topup] /\ Goto(p, "topup_done")
    BY DEF CreditTopup, At, Stay
  <1>2. /\ IsAt(p, o) /\ RowOK(o) /\ Working(p, o) /\ proc[p] \in Work /\ order[o] \in Row
        /\ ledger[o] \in Tally /\ item[o] \in Item
    BY <1>1, AtWork
  <1>3. UNCHANGED <<broken, notices, faults>>
    BY <1>1 DEF history
  <1>4. item[o].topup \in Nat /\ Buyer[o] \in User
    BY <1>2, Constants
  <1>5. Purse'
    BY <1>1, <1>4, CreditOK, Types DEF Purse, IInv
  <1>6. /\ l \in Tally /\ l.deduct = ledger[o].deduct /\ l.back = ledger[o].back
        /\ l.topup = ledger[o].topup + item[o].topup
    BY <1>2, <1>4 DEF Tally
  <1>7. /\ r \in Work /\ r.at = "topup_done" /\ r.order = o /\ row \in Row
    BY <1>2 DEF Work, Label, TopupSteps
  <1>8. /\ proc' = [proc EXCEPT ![p] = r] /\ order' = [order EXCEPT ![o] = row]
        /\ ledger' = [ledger EXCEPT ![o] = l] /\ aged' \subseteq Order
    BY <1>1, Types DEF IInv, Goto
  <1>9. proc'[p] = r /\ order'[o] = order[o] /\ ledger'[o] = l
    BY <1>1, <1>8, Types DEF IInv
  <1>10. /\ row.status = order[o].status /\ row.deducted = order[o].deducted
         /\ row.refund = order[o].refund /\ row.topup = order[o].topup
    OBVIOUS
  <1> HIDE DEF l, r, row
  <1>11. Paid(o) /\ (o \notin Spoiled => l.topup = item[o].topup /\ order[o].topup = p)
    <2>1. ledger[o].topup \in Nat
      BY <1>2 DEF Tally
    <2> QED BY <1>1, <1>2, <1>4, <1>6, <2>1 DEF Working, Topping, TopupSteps, Spoiled
  <1>12. BackOnce(o)' /\ ToppedOnce(o)'
    BY <1>1, <1>2, <1>3, <1>6, <1>9, <1>11 DEF RowOK, BackOnce, ToppedOnce, Spoiled
  <1>13. Working(p, o)'
    <2>1. Paid(o)'
      BY <1>1, <1>11 DEF Paid
    <2>2. o \notin broken["overtaken"] => order[o].topup = p
      BY <1>1, <1>2 DEF Working, Topping, TopupSteps
    <2>3. r.at \in Topping /\ r.at \notin Returning
      BY <1>7 DEF Topping, Returning, TopupSteps, RefundSteps
    <2>4. order[o].status # "absent"
      BY <1>2 DEF Working
    <2> QED BY <1>1, <1>3, <1>7, <1>9, <1>11, <2>1, <2>2, <2>3, <2>4 DEF Working, Spoiled
  <1>14. ASSUME NEW q \in Handler \ {p}, IsAt(q, o), Working(q, o), proc[q].at \in Topping
         PROVE  o \in Spoiled'
    <2>1. o \notin Spoiled => order[o].topup = q
      BY <1>14 DEF Working, Spoiled
    <2> QED BY <1>3, <1>11, <1>14, <2>1 DEF Spoiled
  <1>15. OthersStay(p, o, row, l)
    BY <1>6, <1>10, <1>14 DEF OthersStay
  <1> QED BY <1>1, <1>2, <1>3, <1>5, <1>6, <1>7, <1>8, <1>10, <1>11, <1>12, <1>13, <1>15, StayOK,
             MarkStep

-----------------------------------------------------------------------------
(* Points given back                                                       *)

LEMMA RefundKeeps ==
  ASSUME IInv, NEW p \in Handler, NEW o \in Order, o = proc[p].order, Refund(p)
  PROVE  IInv'
  <1> DEFINE row == [order[o] EXCEPT !.refund = p]
             r == [proc[p] EXCEPT !.at = "back"]
             l == ledger[o]
  <1>1. proc[p].at = "refund" /\ UNCHANGED <<trade, said, granted, wallet, ledger, item, creating,
                                             admin, refunds, history>>
    BY DEF Refund, At, Stay
  <1>2. /\ IsAt(p, o) /\ RowOK(o) /\ Working(p, o) /\ proc[p] \in Work /\ order[o] \in Row
        /\ ledger[o] \in Tally
    BY <1>1, AtWork
  <1>3. UNCHANGED <<broken, notices, faults>>
    BY <1>1 DEF history
  <1>4. CASE Leave(p) /\ UNCHANGED <<order, aged>>
    BY <1>1, <1>2, <1>3, <1>4, LeaveStep DEF progress
  <1>5. CASE /\ order[o].refund = "NONE" /\ order' = [order EXCEPT ![o].refund = p]
             /\ aged' = aged \ {o} /\ Goto(p, "back")
    <2>1. /\ row \in Row /\ row.status = order[o].status /\ row.deducted = order[o].deducted
          /\ row.topup = order[o].topup /\ row.refund = p
      BY <1>2 DEF Row
    <2>2. /\ proc' = [proc EXCEPT ![p] = r] /\ order' = [order EXCEPT ![o] = row]
          /\ ledger' = [ledger EXCEPT ![o] = l] /\ aged' \subseteq Order
      BY <1>1, <1>5, Types DEF IInv, Goto
    <2>3. /\ l \in Tally /\ l.deduct = ledger[o].deduct /\ r \in Work /\ r.at = "back"
          /\ l.back = ledger[o].back /\ l.topup = ledger[o].topup /\ r.order = o
      BY <1>2 DEF Work, Label, RefundSteps
    <2>4. order'[o] = row /\ ledger'[o] = ledger[o] /\ proc'[p] = r
      BY <1>1, <2>2, Types DEF IInv
    <2> HIDE DEF row, l, r
    <2>5. o \notin broken["refund"] => ledger[o].back = 0
      BY <1>2, <1>5 DEF RowOK, BackOnce, Working
    <2>6. BackOnce(o)' /\ ToppedOnce(o)'
      BY <1>1, <1>2, <1>3, <2>1, <2>4, <2>5, Constants DEF RowOK, BackOnce, ToppedOnce, Spoiled
    <2>7. Working(p, o)'
      BY <1>1, <1>2, <1>3, <2>1, <2>3, <2>4, <2>5 DEF Working, Topping, TopupSteps
    <2>8. ASSUME NEW q \in Handler \ {p}, IsAt(q, o), Working(q, o), proc[q].at \in Returning
          PROVE  FALSE
      BY <1>5, <2>8, Constants DEF Working
    <2>9. OthersStay(p, o, row, l)
      BY <2>1, <2>3, <2>8 DEF OthersStay
    <2>10. l.topup > 0 => Paid(o)
      BY <1>2, <2>3 DEF RowOK, Granting
    <2> QED BY <1>1, <1>2, <1>3, <2>1, <2>2, <2>3, <2>6, <2>7, <2>9, <2>10, StayOK, PurseStays,
               MarkStep
  <1> QED BY <1>4, <1>5 DEF Refund

LEMMA SetRefundKeeps ==
  ASSUME IInv, NEW p \in Handler, NEW o \in Order, o = proc[p].order,
         NEW v \in {"NONE", "SUCCESS"}, SetRefund(p, v),
         \/ v = "SUCCESS" /\ proc[p].at = "refund_done"
         \/ v = "NONE" /\ proc[p].at = "refund_reset"
  PROVE  IInv'
  <1> DEFINE row == [order[o] EXCEPT !.refund = v]
  <1>1. proc[p].at \in Returning /\ Leave(p)
        /\ UNCHANGED <<trade, said, granted, wallet, ledger, item, creating, admin, refunds, history>>
    BY DEF SetRefund, Stay, Returning, RefundSteps
  <1>2. proc[p].at # "idle"
    OBVIOUS
  <1>3. /\ IsAt(p, o) /\ RowOK(o) /\ Working(p, o) /\ order[o] \in Row /\ ledger[o] \in Tally
    BY <1>2, AtWork
  <1>4. UNCHANGED <<broken, notices, faults>>
    BY <1>1 DEF history
  <1>5. CASE UNCHANGED <<order, aged>>
    BY <1>1, <1>3, <1>4, <1>5, LeaveStep DEF progress
  <1>6. CASE /\ order[o].refund = p
             /\ order' = [order EXCEPT ![o].refund = v] /\ aged' = aged \ {o}
    <2> DEFINE l == ledger[o]
               r == Idle
    <2>1. /\ row \in Row /\ row.status = order[o].status /\ row.deducted = order[o].deducted
          /\ row.topup = order[o].topup /\ row.refund = v
      BY <1>3 DEF Row
    <2>2. /\ proc' = [proc EXCEPT ![p] = r] /\ order' = [order EXCEPT ![o] = row]
          /\ ledger' = [ledger EXCEPT ![o] = l] /\ aged' \subseteq Order
      BY <1>1, <1>6, Types DEF IInv, Leave
    <2>3. /\ l \in Tally /\ l.deduct = ledger[o].deduct /\ r \in Work /\ r.at = "idle"
          /\ l.back = ledger[o].back /\ l.topup = ledger[o].topup
      BY <1>3, IdleIdle
    <2>4. order'[o] = row /\ ledger'[o] = ledger[o]
      BY <1>1, <2>2, Types DEF IInv
    <2> HIDE DEF row, l, r
    <2>5. BackOnce(o)' /\ ToppedOnce(o)'
      <3>1. o \notin broken["refund"] =>
              ledger[o].back = IF v = "SUCCESS" THEN order[o].deducted ELSE 0
        BY <1>3 DEF Working
      <3> QED BY <1>1, <1>3, <1>4, <2>1, <2>4, <3>1 DEF RowOK, BackOnce, ToppedOnce, Spoiled
    <2>6. ASSUME NEW q \in Handler \ {p}, IsAt(q, o), Working(q, o), proc[q].at \in Returning
          PROVE  FALSE
      BY <1>6, <2>6 DEF Working
    <2>7. OthersStay(p, o, row, l)
      BY <2>1, <2>3, <2>6 DEF OthersStay
    <2>8. l.topup > 0 => Paid(o)
      BY <1>3, <2>3 DEF RowOK, Granting
    <2> QED BY <1>1, <1>3, <1>4, <2>1, <2>2, <2>3, <2>5, <2>7, <2>8, StayOK, PurseStays, MarkStep
  <1> QED BY <1>5, <1>6 DEF SetRefund

LEMMA RefundEnds ==
  ASSUME IInv, NEW p \in Handler, RefundDone(p) \/ RefundReset(p)
  PROVE  IInv'
  <1>1. PICK o \in Order : o = proc[p].order
    BY Types DEF IInv, Work
  <1>2. CASE RefundDone(p)
    BY <1>1, <1>2, SetRefundKeeps DEF RefundDone, At
  <1>3. CASE RefundReset(p)
    BY <1>1, <1>3, SetRefundKeeps DEF RefundReset, At
  <1> QED BY <1>2, <1>3

LEMMA CreditBackKeeps ==
  ASSUME IInv, NEW p \in Handler, NEW o \in Order, o = proc[p].order, CreditBack(p)
  PROVE  IInv'
  <1> DEFINE l == [ledger[o] EXCEPT !.back = @ + order[o].deducted]
             r == [proc[p] EXCEPT !.at = "refund_done"]
             row == order[o]
  <1>1. proc[p].at = "back" /\ UNCHANGED <<order, trade, said, granted, aged, item, creating,
                                           admin, refunds, history>>
        /\ Account!Credit(Buyer[o], order[o].deducted)
        /\ ledger' = [ledger EXCEPT ![o].back = @ + order[o].deducted] /\ Goto(p, "refund_done")
    BY DEF CreditBack, At, Stay
  <1>2. /\ IsAt(p, o) /\ RowOK(o) /\ Working(p, o) /\ proc[p] \in Work /\ order[o] \in Row
        /\ ledger[o] \in Tally /\ item[o] \in Item
    BY <1>1, AtWork
  <1>3. UNCHANGED <<broken, notices, faults>>
    BY <1>1 DEF history
  <1>4. order[o].deducted \in Nat /\ Buyer[o] \in User /\ ledger[o].back \in Nat
    BY <1>2, Constants DEF Row, Tally
  <1>5. Purse'
    BY <1>1, <1>4, CreditOK, Types DEF Purse, IInv
  <1>6. /\ l \in Tally /\ l.deduct = ledger[o].deduct /\ l.topup = ledger[o].topup
        /\ l.back = ledger[o].back + order[o].deducted
    BY <1>2, <1>4 DEF Tally
  <1>7. /\ r \in Work /\ r.at = "refund_done" /\ r.order = o /\ row \in Row
    BY <1>2 DEF Work, Label, RefundSteps
  <1>8. /\ proc' = [proc EXCEPT ![p] = r] /\ order' = [order EXCEPT ![o] = row]
        /\ ledger' = [ledger EXCEPT ![o] = l] /\ aged' \subseteq Order
    BY <1>1, Types DEF IInv, Goto
  <1>9. proc'[p] = r /\ order'[o] = order[o] /\ ledger'[o] = l
    BY <1>1, <1>8, Types DEF IInv
  <1>10. /\ row.status = order[o].status /\ row.deducted = order[o].deducted
         /\ row.refund = order[o].refund /\ row.topup = order[o].topup
    OBVIOUS
  <1> HIDE DEF l, r, row
  <1>11. order[o].refund = p /\ (o \notin broken["refund"] => l.back = order[o].deducted)
    BY <1>1, <1>2, <1>4, <1>6 DEF Working, Returning, RefundSteps
  <1>12. BackOnce(o)' /\ ToppedOnce(o)'
    BY <1>1, <1>2, <1>3, <1>6, <1>9, <1>11, Constants DEF RowOK, BackOnce, ToppedOnce, Spoiled
  <1>13. Working(p, o)'
    BY <1>1, <1>2, <1>3, <1>7, <1>9, <1>11 DEF Working, Topping, TopupSteps
  <1>14. ASSUME NEW q \in Handler \ {p}, IsAt(q, o), Working(q, o), proc[q].at \in Returning
         PROVE  FALSE
    BY <1>11, <1>14 DEF Working
  <1>15. OthersStay(p, o, row, l)
    BY <1>6, <1>10, <1>14 DEF OthersStay
  <1>16. l.topup > 0 => Paid(o)
    BY <1>2, <1>6 DEF RowOK, Granting
  <1> QED BY <1>1, <1>2, <1>3, <1>5, <1>6, <1>7, <1>8, <1>10, <1>12, <1>13, <1>15, <1>16, StayOK,
             MarkStep

-----------------------------------------------------------------------------
(* Faults                                                                  *)

LEMMA FaultOK ==
  ASSUME IInv, Fault
  PROVE  faults' \in 0 .. MaxFaults
  BY Constants, Types DEF IInv, Fault

LEMMA DieKeeps ==
  ASSUME IInv, NEW p \in Handler, Die(p)
  PROVE  IInv'
  <1>1. /\ proc[p].at # "idle" /\ Leave(p)
        /\ UNCHANGED <<item, creating, progress, admin, refunds, broken, notices>>
        /\ faults' \in 0 .. MaxFaults
    BY FaultOK DEF Die, At
  <1>2. PICK o \in Order : IsAt(p, o) /\ RowOK(o) /\ order[o].status # "absent"
    BY <1>1, AtWork DEF Working
  <1>3. broken' \in [Kind -> SUBSET Order] /\ notices' \in 0 .. MaxNotices
        /\ \A k \in Kind : broken[k] \subseteq broken'[k] /\ broken'[k] \subseteq broken[k] \cup {o}
    BY <1>1, Types DEF IInv
  <1> DEFINE r == Idle
  <1>4. r \in Work /\ r.at = "idle" /\ proc' = [proc EXCEPT ![p] = r]
    BY <1>1, IdleIdle DEF Leave
  <1> HIDE DEF r
  <1> QED BY <1>1, <1>2, <1>3, <1>4, MoveStep

LEMMA ThrowKeeps ==
  ASSUME IInv, NEW p \in Handler, NEW o \in Order, o = proc[p].order, Throw(p)
  PROVE  IInv'
  <1> DEFINE at == proc[p].at
             next == Catch(at)
             r == IF next = "idle" THEN Idle ELSE [proc[p] EXCEPT !.at = next]
  <1>1. at # "idle" /\ faults' \in 0 .. MaxFaults /\ proc' = [proc EXCEPT ![p] = r]
        /\ UNCHANGED <<item, creating, progress, admin, refunds, notices>>
    BY FaultOK DEF Throw, At, Leave, Goto
  <1>2. /\ IsAt(p, o) /\ RowOK(o) /\ Working(p, o) /\ proc[p] \in Work /\ ledger[o] \in Tally
    BY <1>1, AtWork
  <1>3. /\ broken' \in [Kind -> SUBSET Order]
        /\ \A k \in Kind : broken[k] \subseteq broken'[k] /\ broken'[k] \subseteq broken[k] \cup {o}
        /\ at = "refund_done" => o \in broken'["refund"]
        /\ next = "credit" /\ ledger[o].topup > 0 => o \in broken'["topup"]
    <2>1. broken \in [Kind -> SUBSET Order]
      BY Types DEF IInv
    <2>2. CASE at = "refund_done" /\ broken' = [broken EXCEPT !["refund"] = @ \cup {o}]
      BY <2>1, <2>2 DEF Kind, Catch
    <2>3. CASE /\ at # "refund_done"
               /\ broken' = IF next = "credit" /\ ledger[o].topup > 0
                            THEN [broken EXCEPT !["topup"] = @ \cup {o}] ELSE broken
      BY <2>1, <2>3 DEF Kind
    <2> QED BY <2>2, <2>3 DEF Throw, Broken, At
  <1>4. /\ next \in {"idle", "topup", "credit", "topup_reset", "refund_reset"}
        /\ next = "credit" => at \in {"check", "adopt"}
        /\ next = "topup_reset" => at \in {"credit", "topup_done"}
        /\ next = "refund_reset" => at \in {"back", "refund_done"}
    BY DEF Catch
  <1>5. r \in Work /\ r.at = next /\ (next # "idle" => r.order = o)
    BY <1>2, <1>4, IdleIdle DEF Work, Label, TopupSteps, RefundSteps
  <1>6. proc'[p] = r
    BY <1>1, Types DEF IInv
  <1>7. ledger[o].topup \in Nat
    BY <1>2 DEF Tally
  <1> HIDE DEF at, next, r
  <1>8. /\ at \in {"check", "adopt", "credit", "topup_done"} => at \in Topping
        /\ at \in {"back", "refund_done"} => at \in Returning
        /\ next \in Topping => next \in {"credit", "topup_reset"}
        /\ next \in Returning => next = "refund_reset"
    BY <1>4 DEF Topping, Returning, TopupSteps, RefundSteps
  <1>9. order'[o] = order[o] /\ ledger'[o] = ledger[o] /\ said'[o] = said[o] /\ item'[o] = item[o]
    BY <1>1 DEF progress
  <1>10. next # "idle" => Working(p, o)'
    <2>1. /\ order[o].status # "absent"
          /\ at \in Topping => Paid(o)
          /\ at \in Returning => order[o].refund = p
          /\ at \in Topping /\ o \notin broken["overtaken"] => order[o].topup = p
          /\ at = "back" /\ o \notin broken["refund"] => ledger[o].back = 0
      BY <1>2 DEF Working, at
    <2>2. /\ o \notin broken'["overtaken"] => o \notin broken["overtaken"]
          /\ o \notin broken'["refund"] => o \notin broken["refund"]
      BY <1>3 DEF Kind
    <2>3. next = "credit" /\ o \notin Spoiled' => ledger[o].topup = 0
      BY <1>3, <1>7 DEF Spoiled
    <2> QED BY <1>3, <1>4, <1>5, <1>6, <1>8, <1>9, <2>1, <2>2, <2>3 DEF Working, Paid
  <1>11. order[o].status # "absent" /\ (r.at # "idle" => r.order = o)
         /\ (r.at # "idle" => Working(p, o)') /\ notices' \in 0 .. MaxNotices
    BY <1>1, <1>2, <1>5, <1>10, Types DEF Working, IInv
  <1> QED BY <1>1, <1>2, <1>3, <1>5, <1>11, MoveStep

-----------------------------------------------------------------------------
(* Creations, the provider, refund requests                                *)

\* A step of no request that changes at most the creation, the row, the
\* ledger and the trade of order o, and what was said of it.
Only(o) ==
    /\ creating' \in [Order -> Creation] /\ order' \in [Order -> Row]
    /\ ledger' \in [Order -> Tally] /\ trade' \in [Order -> {"none", "WAIT"} \cup Told]
    /\ said' \in [Order -> SUBSET Told] /\ said[o] \subseteq said'[o]
    /\ \A x \in Order \ {o} : /\ creating'[x] = creating[x] /\ order'[x] = order[x]
                              /\ ledger'[x] = ledger[x] /\ trade'[x] = trade[x]
                              /\ said'[x] = said[x]
    /\ order[o].status # "absent" =>
         /\ order'[o].status # "absent" /\ order'[o].refund = order[o].refund
         /\ order'[o].topup = order[o].topup /\ order'[o].deducted = order[o].deducted
         /\ ledger'[o] = ledger[o]
    /\ UNCHANGED <<item, granted, proc>> /\ aged' \subseteq Order

Bounds(o) ==
    /\ admin' \in [Admin -> AdminWork] /\ refunds' \in [Order -> Refunded]
    /\ broken' \in [Kind -> SUBSET Order]
    /\ \A k \in Kind : broken[k] \subseteq broken'[k] /\ broken'[k] \subseteq broken[k] \cup {o}
    /\ notices' \in 0 .. MaxNotices /\ faults' \in 0 .. MaxFaults

LEMMA OrderStep ==
  ASSUME IInv, NEW o \in Order, Only(o), Bounds(o), Purse', AdminOK', RowOK(o)'
  PROVE  IInv'
  <1>1. TypeOK
    BY DEF IInv
  <1>2. TypeOK'
    BY <1>1, Types DEF Only, Bounds, Purse, TypeOK, Creation, CreationLabel, Row, Tally, Work,
       AdminWork, Refunded, Kind
  <1>3. ASSUME NEW x \in Order \ {o}
        PROVE  Untouched(x)
    BY <1>1, Types DEF Untouched, Only, Bounds
  <1>4. \A x \in Order : said[x] \subseteq said'[x]
    BY DEF Only
  <1> QED BY <1>2, <1>3, <1>4, OutsideStep DEF Only, Bounds

\* What the creations and the provider leave alone.
LEMMA Calm ==
  ASSUME IInv, NEW o \in Order, Only(o), UNCHANGED <<admin, refunds, broken, notices, faults>>
  PROVE  AdminOK' /\ Bounds(o)
  <1>1. \A x \in Order : /\ said[x] \subseteq said'[x]
                         /\ order[x].status # "absent" => order'[x].status # "absent"
    BY DEF Only
  <1> QED BY <1>1, AdminKeeps, Types DEF IInv, Only, Bounds

\* What is known of an order.
LEMMA OrderTypes ==
  ASSUME IInv, NEW o \in Order
  PROVE  /\ RowOK(o) /\ order[o] \in Row /\ ledger[o] \in Tally /\ creating[o] \in Creation
         /\ item[o] \in Item /\ trade[o] \in {"none", "WAIT"} \cup Told /\ said[o] \in SUBSET Told
         /\ broken \in [Kind -> SUBSET Order] /\ aged \subseteq Order
         /\ order = [order EXCEPT ![o] = order[o]] /\ ledger = [ledger EXCEPT ![o] = ledger[o]]
         /\ trade = [trade EXCEPT ![o] = trade[o]] /\ said = [said EXCEPT ![o] = said[o]]
         /\ creating = [creating EXCEPT ![o] = creating[o]]
         /\ Buyer[o] \in User /\ wallet[Buyer[o]] \in Account!Wallet /\ wallet[Buyer[o]].balance >= 0
  BY Constants, Types DEF IInv, OrderOK, Solvent

LEMMA ReadWalletKeeps ==
  ASSUME IInv, NEW o \in Order, ReadWallet(o)
  PROVE  IInv'
  <1> DEFINE balance == wallet[Buyer[o]].balance
             points == IF item[o].deduct <= balance THEN item[o].deduct ELSE balance
             c == [at |-> IF points > 0 THEN "consume" ELSE "insert", points |-> points]
  <1>1. creating[o].at = "wallet" /\ creating' = [creating EXCEPT ![o] = c]
        /\ UNCHANGED <<item, order, trade, said, wallet, ledger, granted, aged, proc, admin, refunds,
                       broken, notices, faults>>
    BY DEF ReadWallet, progress, history
  <1>2. RowOK(o) /\ balance \in Int /\ balance >= 0 /\ item[o].deduct \in Nat
    BY OrderTypes, Constants DEF Account!Wallet
  <1>3. c \in Creation /\ c.at \in {"consume", "insert"} /\ (c.at = "insert" => c.points = 0)
    BY <1>2 DEF Creation, CreationLabel
  <1>4. creating'[o] = c
    BY <1>1, Types DEF IInv
  <1> HIDE DEF c
  <1>5. RowOK(o)'
    BY <1>1, <1>2, <1>3, <1>4 DEF RowOK, Made, Taken, Granting, BackOnce, ToppedOnce, Paid, Spoiled
  <1>6. Only(o)
    BY <1>1, <1>3, Types DEF IInv, Only
  <1> QED BY <1>1, <1>5, <1>6, Calm, PurseStays, OrderStep

LEMMA ConsumePointsKeeps ==
  ASSUME IInv, NEW o \in Order, ConsumePoints(o)
  PROVE  IInv'
  <1> DEFINE points == creating[o].points
  <1>1. creating[o].at = "consume"
        /\ UNCHANGED <<item, order, trade, said, granted, aged, proc, admin, refunds,
                       broken, notices, faults>>
    BY DEF ConsumePoints, Creates, history
  <1>2. RowOK(o) /\ points \in Nat /\ Buyer[o] \in User /\ ledger[o] \in Tally
        /\ creating[o] \in Creation
    BY OrderTypes DEF Creation
  <1>3. order[o].status = "absent" /\ ledger[o].deduct = 0 /\ ledger[o].back = 0
    BY <1>1, <1>2 DEF RowOK, Made, Taken
  <1>4. CASE /\ creating' = [creating EXCEPT ![o].at = "insert"]
             /\ Account!Consume(Buyer[o], points)
             /\ ledger' = [ledger EXCEPT ![o].deduct = points]
    <2> DEFINE c == [creating[o] EXCEPT !.at = "insert"]
               l == [ledger[o] EXCEPT !.deduct = points]
    <2>1. c \in Creation /\ c.at = "insert" /\ c.points = points
      BY <1>2 DEF Creation, CreationLabel
    <2>2. l \in Tally /\ l.deduct = points /\ l.back = 0 /\ l.topup = ledger[o].topup
      BY <1>2, <1>3 DEF Tally
    <2>3. creating' = [creating EXCEPT ![o] = c] /\ ledger' = [ledger EXCEPT ![o] = l]
      BY <1>4, Types DEF IInv
    <2> HIDE DEF c, l
    <2>4. creating'[o] = c /\ ledger'[o] = l
      BY <2>3, Types DEF IInv
    <2>5. RowOK(o)'
      BY <1>1, <1>2, <1>3, <2>1, <2>2, <2>4 DEF RowOK, Made, Taken, Granting, BackOnce, ToppedOnce,
         Paid, Spoiled
    <2>6. Only(o)
      BY <1>1, <1>3, <2>1, <2>2, <2>3, Types DEF IInv, Only
    <2>7. Purse'
      BY <1>2, <1>4, ConsumeOK, Types DEF Purse, IInv
    <2> QED BY <1>1, <2>5, <2>6, <2>7, Calm, OrderStep
  <1>5. CASE creating' = [creating EXCEPT ![o].at = "failed"] /\ UNCHANGED <<wallet, ledger>>
    <2> DEFINE c == [creating[o] EXCEPT !.at = "failed"]
    <2>1. c \in Creation /\ c.at = "failed"
      BY <1>2 DEF Creation, CreationLabel
    <2>2. creating' = [creating EXCEPT ![o] = c]
      BY <1>5, Types DEF IInv
    <2> HIDE DEF c
    <2>3. creating'[o] = c
      BY <2>2, Types DEF IInv
    <2>4. RowOK(o)'
      BY <1>1, <1>2, <1>3, <1>5, <2>1, <2>3 DEF RowOK, Made, Taken, Granting, BackOnce, ToppedOnce,
         Paid, Spoiled
    <2>5. Only(o)
      BY <1>1, <1>5, <2>1, <2>2, Types DEF IInv, Only
    <2> QED BY <1>1, <1>5, <2>4, <2>5, Calm, PurseStays, OrderStep
  <1> QED BY <1>4, <1>5 DEF ConsumePoints, Creates

LEMMA InsertOrderKeeps ==
  ASSUME IInv, NEW o \in Order, InsertOrder(o)
  PROVE  IInv'
  <1> DEFINE row == [order[o] EXCEPT !.status = "PENDING", !.deducted = creating[o].points]
  <1>1. creating[o].at = "insert"
        /\ order' = [order EXCEPT ![o].status = "PENDING", ![o].deducted = creating[o].points]
        /\ UNCHANGED <<item, said, wallet, ledger, granted, aged, proc, admin, refunds,
                       broken, notices, faults>>
    BY DEF InsertOrder, Creates, history
  <1>2. /\ RowOK(o) /\ creating[o].points \in Nat /\ order[o] \in Row /\ creating[o] \in Creation
    BY OrderTypes DEF Creation
  <1>3. order[o].status = "absent" /\ ledger[o].deduct = creating[o].points /\ ledger[o].back = 0
    BY <1>1, <1>2 DEF RowOK, Made, Taken
  <1>4. PICK to \in {"done", "checkout"} : creating' = [creating EXCEPT ![o].at = to]
    BY DEF InsertOrder, Creates
  <1>5. trade' = [trade EXCEPT ![o] = "WAIT"] \/ trade' = trade
    BY DEF InsertOrder
  <1> DEFINE c == [creating[o] EXCEPT !.at = to]
  <1>6. c \in Creation /\ c.at \in {"done", "checkout"}
    BY <1>2 DEF Creation, CreationLabel
  <1>7. /\ row \in Row /\ row.status = "PENDING" /\ row.deducted = creating[o].points
        /\ row.refund = order[o].refund /\ row.topup = order[o].topup
    BY <1>2 DEF Row, Status
  <1>8. creating' = [creating EXCEPT ![o] = c] /\ order' = [order EXCEPT ![o] = row]
    BY <1>1, <1>4, Types DEF IInv
  <1> HIDE DEF c, row
  <1>9. creating'[o] = c /\ order'[o] = row /\ trade'[o] \in {"WAIT", trade[o]}
    BY <1>5, <1>8, Types DEF IInv
  <1>10. RowOK(o)'
    BY <1>1, <1>2, <1>3, <1>6, <1>7, <1>9, Constants DEF RowOK, Made, Taken, Granting, BackOnce,
       ToppedOnce, Paid, Spoiled, Told, Final
  <1>11. Only(o)
    <2>1. trade' \in [Order -> {"none", "WAIT"} \cup Told]
          /\ \A x \in Order \ {o} : trade'[x] = trade[x]
      BY <1>5, Types DEF IInv
    <2> QED BY <1>1, <1>3, <1>6, <1>7, <1>8, <2>1, Types DEF IInv, Only
  <1> QED BY <1>1, <1>10, <1>11, Calm, PurseStays, OrderStep

LEMMA CompensateKeeps ==
  ASSUME IInv, NEW o \in Order, Compensate(o)
  PROVE  IInv'
  <1> DEFINE c == [creating[o] EXCEPT !.at = "failed"]
             l == [ledger[o] EXCEPT !.back = @ + creating[o].points]
  <1>1. creating[o].at = "compensate" /\ creating' = [creating EXCEPT ![o].at = "failed"]
        /\ Account!Credit(Buyer[o], creating[o].points)
        /\ ledger' = [ledger EXCEPT ![o].back = @ + creating[o].points]
        /\ UNCHANGED <<item, order, trade, said, granted, aged, proc, admin, refunds,
                       broken, notices, faults>>
    BY DEF Compensate, Creates, history
  <1>2. RowOK(o) /\ creating[o].points \in Nat /\ Buyer[o] \in User /\ ledger[o] \in Tally
        /\ creating[o] \in Creation
    BY OrderTypes DEF Creation
  <1>3. order[o].status = "absent" /\ ledger[o].deduct = creating[o].points /\ ledger[o].back = 0
    BY <1>1, <1>2 DEF RowOK, Made, Taken
  <1>4. c \in Creation /\ c.at = "failed"
    BY <1>2 DEF Creation, CreationLabel
  <1>5. /\ l \in Tally /\ l.deduct = ledger[o].deduct /\ l.back = l.deduct
        /\ l.topup = ledger[o].topup
    BY <1>2, <1>3 DEF Tally
  <1>6. creating' = [creating EXCEPT ![o] = c] /\ ledger' = [ledger EXCEPT ![o] = l]
    BY <1>1, Types DEF IInv
  <1> HIDE DEF c, l
  <1>7. creating'[o] = c /\ ledger'[o] = l
    BY <1>6, Types DEF IInv
  <1>8. RowOK(o)'
    BY <1>1, <1>2, <1>3, <1>4, <1>5, <1>7 DEF RowOK, Made, Taken, Granting, BackOnce, ToppedOnce,
       Paid, Spoiled
  <1>9. Only(o)
    BY <1>1, <1>3, <1>4, <1>5, <1>6, Types DEF IInv, Only
  <1>10. Purse'
    BY <1>1, <1>2, CreditOK, Types DEF Purse, IInv
  <1> QED BY <1>1, <1>8, <1>9, <1>10, Calm, OrderStep

\* A step of a creation whose row is there.
LEMMA MadeStep ==
  ASSUME IInv, NEW o \in Order, NEW to \in {"refuse", "done", "failed"},
         creating[o].at \in {"checkout", "refuse"}, creating' = [creating EXCEPT ![o].at = to],
         order' = order \/ order' = [order EXCEPT ![o].status = "FAILED"],
         trade' = trade \/ trade' = [trade EXCEPT ![o] = "WAIT"], aged' \subseteq Order,
         UNCHANGED <<item, said, wallet, ledger, granted, proc>>, AdminOK', Bounds(o)
  PROVE  IInv'
  <1>1. RowOK(o) /\ order[o] \in Row /\ creating[o] \in Creation
    BY OrderTypes
  <1>2. order[o].status # "absent"
    BY <1>1 DEF RowOK, Made
  <1> DEFINE c == [creating[o] EXCEPT !.at = to]
  <1>3. c \in Creation /\ c.at = to
    BY <1>1 DEF Creation, CreationLabel
  <1>4. creating' = [creating EXCEPT ![o] = c]
    BY Types DEF IInv
  <1> HIDE DEF c
  <1>5. creating' \in [Order -> Creation] /\ creating'[o].at = to
        /\ \A x \in Order \ {o} : creating'[x] = creating[x]
    BY <1>3, <1>4, Types DEF IInv
  <1>6. /\ order' \in [Order -> Row] /\ \A x \in Order \ {o} : order'[x] = order[x]
        /\ order'[o].status \in {"FAILED", order[o].status}
        /\ order'[o].refund = order[o].refund /\ order'[o].topup = order[o].topup
        /\ order'[o].deducted = order[o].deducted
    <2>1. CASE order' = order
      BY <2>1, Types DEF IInv
    <2>2. CASE order' = [order EXCEPT ![o].status = "FAILED"]
      <3> DEFINE row == [order[o] EXCEPT !.status = "FAILED"]
      <3>1. /\ row \in Row /\ row.status = "FAILED" /\ row.refund = order[o].refund
            /\ row.topup = order[o].topup /\ row.deducted = order[o].deducted
        BY <1>1 DEF Row, Status, Final
      <3>2. order' = [order EXCEPT ![o] = row]
        BY <2>2, Types DEF IInv
      <3> HIDE DEF row
      <3> QED BY <3>1, <3>2, Types DEF IInv
    <2> QED BY <2>1, <2>2
  <1>7. /\ trade' \in [Order -> {"none", "WAIT"} \cup Told] /\ trade'[o] \in {"WAIT", trade[o]}
        /\ \A x \in Order \ {o} : trade'[x] = trade[x]
    BY Types DEF IInv
  <1>8. RowOK(o)'
    BY <1>1, <1>2, <1>5, <1>6, <1>7 DEF RowOK, Made, Taken, Granting, BackOnce, ToppedOnce,
       Paid, Spoiled, Told, Final, Bounds, Kind
  <1>9. Only(o)
    BY <1>2, <1>5, <1>6, <1>7, Types DEF IInv, Only
  <1> QED BY <1>8, <1>9, PurseStays, OrderStep

LEMMA CheckoutKeeps ==
  ASSUME IInv, NEW o \in Order, Checkout(o) \/ RefuseOrder(o)
  PROVE  IInv'
  <1>1. /\ UNCHANGED <<item, said, wallet, ledger, granted, proc, admin, refunds,
                       broken, notices, faults>>
        /\ creating[o].at \in {"checkout", "refuse"}
        /\ order' = order \/ order' = [order EXCEPT ![o].status = "FAILED"]
        /\ trade' = trade \/ trade' = [trade EXCEPT ![o] = "WAIT"]
    BY DEF Checkout, RefuseOrder, Creates, history
  <1>2. PICK to \in {"refuse", "done", "failed"} : creating' = [creating EXCEPT ![o].at = to]
    BY DEF Checkout, RefuseOrder, Creates
  <1>3. aged' \subseteq Order
    BY OrderTypes DEF Checkout, RefuseOrder
  <1>4. Bounds(o)
    BY <1>1, Types DEF IInv, Bounds
  <1>5. \A x \in Order : order[x].status # "absent" => order'[x].status # "absent"
    BY <1>1, Types DEF IInv, Row
  <1>6. AdminOK'
    BY <1>1, <1>5, AdminKeeps, Types DEF IInv
  <1> QED BY <1>1, <1>2, <1>3, <1>4, <1>6, MadeStep

LEMMA CreationFaultKeeps ==
  ASSUME IInv, NEW o \in Order, CreationFault(o)
  PROVE  IInv'
  <1> DEFINE at == creating[o].at
             taken == creating[o].points > 0 /\ at \in {"insert", "compensate"}
  <1>1. /\ at \notin {"done", "failed"} /\ faults' \in 0 .. MaxFaults
        /\ UNCHANGED <<item, order, said, wallet, ledger, granted, aged, proc, admin, refunds,
                       notices>>
    BY FaultOK DEF CreationFault
  <1>2. /\ RowOK(o) /\ creating[o] \in Creation /\ creating[o].points \in Nat
        /\ broken \in [Kind -> SUBSET Order]
    BY OrderTypes DEF Creation
  <1>3. /\ trade' \in [Order -> {"none", "WAIT"} \cup Told]
        /\ trade'[o] = trade[o] \/ (trade'[o] = "WAIT" /\ at = "checkout")
        /\ \A x \in Order \ {o} : trade'[x] = trade[x]
    <2>1. trade' = trade \/ (trade' = [trade EXCEPT ![o] = "WAIT"] /\ at = "checkout")
      BY DEF CreationFault
    <2> QED BY <2>1, Types DEF IInv
  <1>4. PICK to \in {"compensate", "failed"} :
          /\ creating' = [creating EXCEPT ![o].at = to]
          /\ to = "compensate" => at = "insert" /\ broken' = broken
          /\ to = "failed" => broken' = IF taken THEN [broken EXCEPT !["creation"] = @ \cup {o}]
                                        ELSE broken
    BY DEF CreationFault, Broken
  <1> DEFINE c == [creating[o] EXCEPT !.at = to]
  <1>5. c \in Creation /\ c.at = to /\ c.points = creating[o].points
    BY <1>2 DEF Creation, CreationLabel
  <1>6. creating' = [creating EXCEPT ![o] = c]
    BY <1>4, Types DEF IInv
  <1> HIDE DEF c
  <1>7. creating'[o] = c
    BY <1>6, Types DEF IInv
  <1>8. /\ broken' \in [Kind -> SUBSET Order]
        /\ \A k \in Kind : broken[k] \subseteq broken'[k] /\ broken'[k] \subseteq broken[k] \cup {o}
        /\ \A k \in Kind \ {"creation"} : broken'[k] = broken[k]
        /\ to = "failed" /\ taken => o \in broken'["creation"]
    BY <1>2, <1>4 DEF Kind
  <1>9. Bounds(o)
    BY <1>1, <1>8, Types DEF IInv, Bounds
  <1>10. Only(o)
    BY <1>1, <1>3, <1>5, <1>6, Types DEF IInv, Only
  <1>11. Taken(o)'
    <2>1. at \in {"wallet", "consume", "insert", "compensate", "checkout", "refuse"}
      BY <1>1, <1>2 DEF Creation, CreationLabel
    <2>2. order[o].status = "absent" /\ o \notin broken'["creation"] /\ to = "failed"
            => ledger[o].deduct = ledger[o].back
      BY <1>2, <1>8, <2>1 DEF RowOK, Made, Taken
    <2>3. to = "compensate" => ledger[o].deduct = creating[o].points /\ ledger[o].back = 0
      BY <1>2, <1>4 DEF RowOK, Taken
    <2> QED BY <1>1, <1>2, <1>5, <1>7, <2>2, <2>3 DEF RowOK, Taken
  <1>12. RowOK(o)'
    <2>1. to = "compensate" => order[o].status = "absent"
      BY <1>2, <1>4 DEF RowOK, Made
    <2>2. at = "checkout" => order[o].status # "absent"
      BY <1>2 DEF RowOK, Made
    <2> QED BY <1>1, <1>2, <1>3, <1>5, <1>7, <1>8, <1>11, <2>1, <2>2 DEF RowOK, Made, Granting,
            BackOnce, ToppedOnce, Paid, Spoiled, Told, Final, Kind
  <1>13. AdminOK'
    BY <1>1, AdminKeeps, Types DEF IInv
  <1> QED BY <1>1, <1>9, <1>10, <1>12, <1>13, PurseStays, OrderStep

\* A trade that moves, whoever moves it, and perhaps the status of the row.
LEMMA SaidStep ==
  ASSUME IInv, NEW o \in Order, NEW s \in Told,
         trade[o] # "none" \/ order[o].status # "absent",
         trade' = [trade EXCEPT ![o] = s], said' = [said EXCEPT ![o] = @ \cup {s}],
         UNCHANGED <<item, creating, order, wallet, ledger, granted, aged, proc>>,
         AdminOK', Bounds(o)
  PROVE  IInv'
  <1>1. RowOK(o) /\ said[o] \in SUBSET Told
    BY OrderTypes
  <1>2. order[o].status # "absent"
    BY <1>1 DEF RowOK, Made
  <1>3. trade'[o] = s /\ said'[o] = said[o] \cup {s}
    BY Types DEF IInv
  <1>4. RowOK(o)'
    BY <1>1, <1>2, <1>3 DEF RowOK, Made, Taken, Granting, BackOnce, ToppedOnce, Paid, Spoiled, Bounds,
       Kind
  <1>5. Only(o)
    BY <1>1, <1>2, <1>3, Types DEF IInv, Only
  <1> QED BY <1>4, <1>5, PurseStays, OrderStep

LEMMA TradeKeeps ==
  ASSUME IInv, NEW o \in Order, TradeMoves(o)
  PROVE  IInv'
  <1>1. PICK s \in Told : /\ trade[o] # "none" /\ trade' = [trade EXCEPT ![o] = s]
                          /\ said' = [said EXCEPT ![o] = @ \cup {s}]
    BY DEF TradeMoves
  <1>2. UNCHANGED <<item, creating, order, wallet, ledger, granted, aged, proc, admin, refunds,
                    broken, notices, faults>>
    BY DEF TradeMoves, history
  <1>3. \A x \in Order : said[x] \subseteq said'[x]
    BY <1>1, Types DEF IInv
  <1>4. AdminOK' /\ Bounds(o)
    BY <1>2, <1>3, AdminKeeps, Types DEF IInv, Bounds
  <1> QED BY <1>1, <1>2, <1>4, SaidStep

\* Nothing about any order changes.
LEMMA BesideOrders ==
  ASSUME IInv, UNCHANGED <<item, creating, order, trade, said, ledger, granted, proc, broken>>,
         aged' \subseteq Order, Purse', AdminOK',
         admin' \in [Admin -> AdminWork], refunds' \in [Order -> Refunded],
         notices' \in 0 .. MaxNotices, faults' \in 0 .. MaxFaults
  PROVE  IInv'
  <1>1. TypeOK'
    BY Types DEF IInv, Purse, TypeOK, Creation, CreationLabel, Row, Tally, Work, AdminWork, Refunded,
       Kind
  <1>2. \A x \in Order : Untouched(x)
    BY DEF Untouched
  <1> QED BY <1>1, <1>2, Elsewhere DEF IInv, Purse

LEMMA SpendKeeps ==
  ASSUME IInv, NEW u \in User, SpendElsewhere(u)
  PROVE  IInv'
  <1>1. PICK n \in 1 .. InitialPoints : Account!Consume(u, n)
    BY DEF SpendElsewhere
  <1>2. Purse'
    BY <1>1, ConsumeOK, Constants, Types DEF Purse, IInv
  <1>3. UNCHANGED <<item, creating, order, trade, said, ledger, granted, aged, proc, admin, refunds,
                    broken, notices, faults>>
    BY DEF SpendElsewhere, history
  <1>4. AdminOK'
    BY <1>3, AdminKeeps, Types DEF IInv
  <1> QED BY <1>2, <1>3, <1>4, BesideOrders, Types DEF IInv

LEMMA AgeKeeps ==
  ASSUME IInv, NEW o \in Order, Age(o)
  PROVE  IInv'
  <1>1. UNCHANGED <<item, creating, order, trade, said, wallet, ledger, granted, proc, admin, refunds,
                    broken, notices, faults>> /\ aged' \subseteq Order
    BY OrderTypes DEF Age, history
  <1>2. AdminOK'
    BY <1>1, AdminKeeps, Types DEF IInv
  <1> QED BY <1>1, <1>2, BesideOrders, PurseStays, Types DEF IInv

LEMMA NoRefundOK == NoRefund \in AdminWork /\ NoRefund.at = "idle"
  BY Constants DEF NoRefund, AdminWork

LEMMA AdminReadKeeps ==
  ASSUME IInv, NEW a \in Admin, AdminRead(a)
  PROVE  IInv'
  <1>1. UNCHANGED <<item, creating, order, trade, said, wallet, ledger, granted, aged, proc, refunds,
                    broken, notices, faults>>
    BY DEF AdminRead, progress, history
  <1>2. PICK o \in Order : \E n \in 1 .. Price - refunds[o].recorded :
          /\ order[o].status = "PAID"
          /\ admin' = [admin EXCEPT ![a] =
                         [NoRefund EXCEPT !.at = "ask", !.order = o, !.amount = n]]
    BY DEF AdminRead
  <1>3. PICK n \in 1 .. Price - refunds[o].recorded :
          admin' = [admin EXCEPT ![a] = [NoRefund EXCEPT !.at = "ask", !.order = o, !.amount = n]]
    BY <1>2
  <1> DEFINE w == [NoRefund EXCEPT !.at = "ask", !.order = o, !.amount = n]
  <1>4. w \in AdminWork /\ w.order = o
    <2>1. refunds[o].recorded \in Nat
      BY Types DEF IInv, Refunded
    <2>2. n \in 0 .. Price
      BY <2>1, Constants
    <2> QED BY <2>2, NoRefundOK DEF AdminWork
  <1>5. admin' = [admin EXCEPT ![a] = w]
    BY <1>3
  <1> HIDE DEF w
  <1>6. admin' \in [Admin -> AdminWork]
    BY <1>4, <1>5, Types DEF IInv
  <1>7. Paid(o) /\ order[o].status # "absent"
    BY <1>2, OrderTypes DEF RowOK, Granting
  <1>8. AdminOK'
    <2>1. ASSUME NEW b \in Admin, admin'[b].at # "idle"
          PROVE  Paid(admin'[b].order) /\ order[admin'[b].order].status # "absent"
      <3>1. CASE b = a
        BY <1>4, <1>5, <1>7, <3>1, Types DEF IInv
      <3>2. CASE b # a
        BY <1>5, <2>1, <3>2, Types DEF IInv, AdminOK
      <3> QED BY <3>1, <3>2
    <2> QED BY <1>1, <2>1 DEF AdminOK, Paid
  <1> QED BY <1>1, <1>6, <1>8, BesideOrders, PurseStays, Types DEF IInv

\* What is known of a refund request at work, and of one that goes on or ends.
LEMMA AdminAtWork ==
  ASSUME IInv, NEW a \in Admin, admin[a].at # "idle"
  PROVE  /\ admin[a] \in AdminWork /\ admin[a].order \in Order
         /\ Paid(admin[a].order) /\ order[admin[a].order].status # "absent"
  BY Types DEF IInv, AdminOK, AdminWork

LEMMA AdminGoes ==
  ASSUME IInv, NEW a \in Admin, admin[a].at # "idle", NEW w \in AdminWork,
         admin' = [admin EXCEPT ![a] = w], w.at # "idle" => w.order = admin[a].order,
         UNCHANGED item,
         \A o \in Order : /\ said[o] \subseteq said'[o]
                          /\ order[o].status # "absent" => order'[o].status # "absent"
  PROVE  AdminOK' /\ admin' \in [Admin -> AdminWork]
  <1>1. admin' \in [Admin -> AdminWork] /\ admin'[a] = w
        /\ \A b \in Admin \ {a} : admin'[b] = admin[b]
    BY Types DEF IInv
  <1>2. \A b \in Admin : admin'[b].at # "idle" =>
          admin[b].at # "idle" /\ admin'[b].order = admin[b].order
    BY <1>1
  <1> QED BY <1>1, <1>2, AdminKeeps

LEMMA AdminAskKeeps ==
  ASSUME IInv, NEW a \in Admin, NEW o \in Order, o = admin[a].order, AdminAsk(a)
  PROVE  IInv'
  <1> DEFINE returned == refunds[o].returned + admin[a].amount
  <1>1. /\ admin[a].at = "ask"
        /\ UNCHANGED <<item, creating, order, wallet, ledger, granted, aged, proc, broken, notices,
                       faults>>
    BY DEF AdminAsk, history
  <1>2. admin[a] \in AdminWork /\ order[o].status # "absent" /\ refunds[o] \in Refunded
    BY <1>1, AdminAtWork, Types DEF IInv
  <1>3. CASE /\ returned <= Price /\ refunds' = [refunds EXCEPT ![o].returned = returned]
             /\ admin' = [admin EXCEPT ![a].at = "record"]
    <2> DEFINE w == [admin[a] EXCEPT !.at = "record"]
               f == [refunds[o] EXCEPT !.returned = returned]
    <2>1. w \in AdminWork /\ w.order = o
      BY <1>2 DEF AdminWork
    <2>2. f \in Refunded
      BY <1>2, <1>3, Constants DEF Refunded, AdminWork
    <2>3. admin' = [admin EXCEPT ![a] = w] /\ refunds' = [refunds EXCEPT ![o] = f]
      BY <1>3, Types DEF IInv
    <2> HIDE DEF w, f
    <2>4. refunds' \in [Order -> Refunded]
      BY <2>2, <2>3, Types DEF IInv
    <2>5. CASE UNCHANGED <<trade, said>>
      <3>1. AdminOK' /\ admin' \in [Admin -> AdminWork]
        BY <1>1, <2>1, <2>3, <2>5, AdminGoes
      <3> QED BY <1>1, <2>4, <2>5, <3>1, BesideOrders, PurseStays, Types DEF IInv
    <2>6. CASE trade' = [trade EXCEPT ![o] = "CLOSED"] /\ said' = [said EXCEPT ![o] = @ \cup {"CLOSED"}]
      <3>1. \A x \in Order : said[x] \subseteq said'[x]
        BY <2>6, Types DEF IInv
      <3>2. AdminOK' /\ admin' \in [Admin -> AdminWork]
        BY <1>1, <2>1, <2>3, <3>1, AdminGoes
      <3>3. Bounds(o)
        BY <1>1, <2>4, <3>2, Types DEF IInv, Bounds
      <3> DEFINE s == "CLOSED"
      <3>4. s \in Told /\ trade' = [trade EXCEPT ![o] = s] /\ said' = [said EXCEPT ![o] = @ \cup {s}]
        BY <2>6 DEF Told, Final
      <3> HIDE DEF s
      <3> QED BY <1>1, <1>2, <3>2, <3>3, <3>4, SaidStep
    <2> QED BY <1>3, <2>5, <2>6 DEF AdminAsk
  <1>4. CASE admin' = [admin EXCEPT ![a] = NoRefund] /\ UNCHANGED <<refunds, trade, said>>
    <2> DEFINE w == NoRefund
    <2>1. w \in AdminWork /\ w.at = "idle" /\ admin' = [admin EXCEPT ![a] = w]
      BY <1>4, NoRefundOK
    <2> HIDE DEF w
    <2>2. AdminOK' /\ admin' \in [Admin -> AdminWork]
      BY <1>1, <1>4, <2>1, AdminGoes
    <2> QED BY <1>1, <1>4, <2>2, BesideOrders, PurseStays, Types DEF IInv
  <1> QED BY <1>3, <1>4 DEF AdminAsk

LEMMA AdminMoves ==
  ASSUME IInv, NEW a \in Admin, AdminRecord(a) \/ AdminSum(a) \/ AdminFault(a)
  PROVE  IInv'
  <1>1. /\ admin[a].at # "idle" /\ notices' = notices /\ faults' \in 0 .. MaxFaults
        /\ UNCHANGED <<item, creating, order, trade, said, wallet, ledger, granted, aged, proc, broken>>
    <2>1. faults \in 0 .. MaxFaults
      BY Types DEF IInv
    <2> QED BY <2>1, FaultOK DEF AdminRecord, AdminSum, AdminFault, AdminStays, history, progress
  <1>2. admin[a] \in AdminWork /\ admin[a].order \in Order
    BY <1>1, AdminAtWork
  <1>3. PICK w \in AdminWork : /\ admin' = [admin EXCEPT ![a] = w]
                               /\ w.at # "idle" => w.order = admin[a].order
    <2>1. CASE AdminRecord(a)
      <3> DEFINE w == [admin[a] EXCEPT !.at = "sum"]
      <3>1. w \in AdminWork /\ w.order = admin[a].order /\ admin' = [admin EXCEPT ![a] = w]
        BY <1>2, <2>1, Types DEF IInv, AdminWork, AdminRecord
      <3> QED BY <3>1
    <2>2. CASE AdminSum(a)
      <3> DEFINE st == IF refunds[admin[a].order].recorded >= Price THEN "REFUNDED" ELSE "PAID"
                 w == [admin[a] EXCEPT !.at = "write", !.status = st]
      <3>1. w \in AdminWork /\ w.order = admin[a].order
        BY <1>2 DEF AdminWork
      <3>2. admin' = [admin EXCEPT ![a] = w]
        BY <2>2, Types DEF IInv, AdminSum
      <3> QED BY <3>1, <3>2
    <2>3. CASE AdminFault(a)
      BY <2>3, NoRefundOK DEF AdminFault
    <2> QED BY <2>1, <2>2, <2>3
  <1>4. AdminOK' /\ admin' \in [Admin -> AdminWork]
    BY <1>1, <1>3, AdminGoes
  <1>5. refunds' \in [Order -> Refunded]
    <2>1. CASE refunds' = refunds
      BY <2>1, Types DEF IInv
    <2>2. CASE refunds' = [refunds EXCEPT ![admin[a].order].recorded = @ + admin[a].amount]
      <3> DEFINE o == admin[a].order
                 f == [refunds[o] EXCEPT !.recorded = @ + admin[a].amount]
      <3>1. refunds[o] \in Refunded /\ admin[a].amount \in Nat
        BY <1>2, Constants, Types DEF IInv, AdminWork
      <3>2. f \in Refunded
        BY <3>1 DEF Refunded
      <3>3. refunds' = [refunds EXCEPT ![o] = f]
        BY <1>2, <2>2, Types DEF IInv
      <3> QED BY <1>2, <3>2, <3>3, Types DEF IInv
    <2> QED BY <2>1, <2>2 DEF AdminRecord, AdminSum, AdminFault, AdminStays
  <1> QED BY <1>1, <1>4, <1>5, BesideOrders, PurseStays, Types DEF IInv

LEMMA AdminWriteKeeps ==
  ASSUME IInv, NEW a \in Admin, NEW o \in Order, o = admin[a].order, AdminWrite(a)
  PROVE  IInv'
  <1> DEFINE row == [order[o] EXCEPT !.status = admin[a].status]
             w == NoRefund
  <1>1. /\ admin[a].at = "write" /\ order' = [order EXCEPT ![o].status = admin[a].status]
        /\ aged' = aged \ {o} /\ admin' = [admin EXCEPT ![a] = w]
        /\ UNCHANGED <<item, creating, trade, said, wallet, ledger, granted, proc, refunds, broken,
                       notices, faults>>
    BY DEF AdminWrite, AdminStays, history
  <1>2. /\ RowOK(o) /\ order[o] \in Row /\ order[o].status # "absent" /\ Paid(o)
        /\ admin[a] \in AdminWork
    BY <1>1, AdminAtWork, OrderTypes
  <1>3. /\ row \in Row /\ row.status \in {"PAID", "REFUNDED"} /\ row.deducted = order[o].deducted
        /\ row.refund = order[o].refund /\ row.topup = order[o].topup
    BY <1>2 DEF Row, Status, AdminWork
  <1>4. order' = [order EXCEPT ![o] = row] /\ aged' \subseteq Order
    BY <1>1, Types DEF IInv
  <1>5. w \in AdminWork /\ w.at = "idle"
    BY NoRefundOK
  <1> HIDE DEF row, w
  <1>6. order' \in [Order -> Row] /\ order'[o] = row /\ \A x \in Order \ {o} : order'[x] = order[x]
    BY <1>3, <1>4, Types DEF IInv
  <1>7. RowOK(o)'
    BY <1>1, <1>2, <1>3, <1>6 DEF RowOK, Made, Taken, Granting, BackOnce, ToppedOnce, Paid, Spoiled
  <1>8. Only(o)
    BY <1>1, <1>2, <1>3, <1>4, <1>6, Types DEF IInv, Only
  <1>9. \A x \in Order : order[x].status # "absent" => order'[x].status # "absent"
    BY <1>3, <1>6
  <1>10. AdminOK' /\ admin' \in [Admin -> AdminWork]
    BY <1>1, <1>5, <1>9, AdminGoes
  <1>11. Bounds(o)
    BY <1>1, <1>10, Types DEF IInv, Bounds
  <1> QED BY <1>1, <1>7, <1>8, <1>10, <1>11, PurseStays, OrderStep

-----------------------------------------------------------------------------
(* The invariant and what follows from it                                  *)

LEMMA InitIInv == Init => IInv
  <1> SUFFICES ASSUME Init PROVE IInv
    OBVIOUS
  <1>1. Account!Opened \in Account!Wallet /\ Account!Opened.open /\ Account!Opened.balance >= 0
    BY Constants DEF Account!Opened, Account!Wallet
  <1>2. TypeOK
    <2>1. [at |-> "wallet", points |-> 0] \in Creation
      BY DEF Creation, CreationLabel
    <2>2. [status |-> "absent", deducted |-> 0, refund |-> "NONE", topup |-> "NONE"] \in Row
      BY DEF Row, Status
    <2>3. [deduct |-> 0, back |-> 0, topup |-> 0] \in Tally
      BY DEF Tally
    <2>4. [recorded |-> 0, returned |-> 0] \in Refunded
      BY Constants DEF Refunded
    <2> QED BY <1>1, <2>1, <2>2, <2>3, <2>4, IdleIdle, NoRefundOK, Constants, Types DEF Init, Kind
  <1>3. Solvent
    BY <1>1 DEF Init, Solvent
  <1>4. ASSUME NEW o \in Order
        PROVE  OrderOK(o)
    <2>1. RowOK(o)
      BY <1>4 DEF Init, RowOK, Made, Taken, Granting, BackOnce, ToppedOnce, Told, Final
    <2>2. \A p \in Handler : proc[p].at = "idle"
      BY IdleIdle DEF Init
    <2> QED BY <2>1, <2>2 DEF OrderOK, IsAt
  <1>5. AdminOK
    BY NoRefundOK DEF Init, AdminOK
  <1> QED BY <1>2, <1>3, <1>4, <1>5 DEF IInv

\* The steps of a request, about the order it is at.
LEMMA AtItsOrder ==
  ASSUME IInv, NEW p \in Handler, NoticeStep(p) \/ TopupStep(p) \/ RefundStep(p) \/ Throw(p)
  PROVE  IInv'
  <1>1. PICK o \in Order : o = proc[p].order
    BY Types DEF IInv, Work
  <1>2. CASE NoticeStep(p)
    BY <1>1, <1>2, ReadKeeps, MismatchKeeps, WriteKeeps, PackageKeeps DEF NoticeStep
  <1>3. CASE TopupStep(p)
    BY <1>1, <1>3, TopupKeeps, CheckKeeps, TopupEnds, CreditTopupKeeps DEF TopupStep
  <1>4. CASE RefundStep(p)
    BY <1>1, <1>4, RefundKeeps, CreditBackKeeps, RefundEnds DEF RefundStep
  <1>5. CASE Throw(p)
    BY <1>1, <1>5, ThrowKeeps
  <1> QED BY <1>2, <1>3, <1>4, <1>5

LEMMA StepIInv == IInv /\ [Next]_vars => IInv'
  <1> SUFFICES ASSUME IInv, [Next]_vars PROVE IInv'
    OBVIOUS
  <1>1. ASSUME NEW o \in Order, CreationStep(o) \/ TradeMoves(o) \/ Age(o) \/ CreationFault(o)
        PROVE  IInv'
    BY <1>1, ReadWalletKeeps, ConsumePointsKeeps, InsertOrderKeeps, CompensateKeeps, CheckoutKeeps,
       TradeKeeps, AgeKeeps, CreationFaultKeeps DEF CreationStep
  <1>2. ASSUME NEW p \in Handler, Notice(p) \/ Die(p) \/ \E o \in Order : Ask(p, o)
        PROVE  IInv'
    BY <1>2, NoticeKeeps, DieKeeps, AskKeeps
  <1>3. ASSUME NEW a \in Admin, AdminStep(a) \/ AdminFault(a)
        PROVE  IInv'
    <2>1. PICK o \in Order : o = admin[a].order
      BY Types DEF IInv, AdminWork
    <2> QED BY <1>3, <2>1, AdminReadKeeps, AdminAskKeeps, AdminMoves, AdminWriteKeeps DEF AdminStep
  <1>4. CASE UNCHANGED vars
    <2>1. UNCHANGED <<item, creating, order, trade, said, wallet, ledger, granted, aged, proc, admin,
                      refunds, broken, notices, faults>>
      BY <1>4 DEF vars, progress, history
    <2>2. AdminOK'
      BY <2>1, AdminKeeps, Types DEF IInv
    <2> QED BY <2>1, <2>2, BesideOrders, PurseStays, Types DEF IInv
  <1> QED BY <1>1, <1>2, <1>3, <1>4, AtItsOrder, SpendKeeps DEF Next

\* The inductive invariant holds of every reachable state.
THEOREM InvariantHolds == Spec => []IInv
  BY InitIInv, StepIInv, PTL DEF Spec

\* Every reachable state of the orders is well typed.
THEOREM OrdersTyped == Spec => []TypeOK
  <1>1. IInv => TypeOK
    BY DEF IInv
  <1> QED BY <1>1, InvariantHolds, PTL

\* Whatever part of a creation fails, the points an order took are in its
\* row or given back, unless the creation could not do its own cleanup.
THEOREM DeductionsAreKept == Spec => []DeductionKept
  <1>1. IInv => DeductionKept
    <2> SUFFICES ASSUME IInv, NEW o \in Order, o \notin broken["creation"]
                 PROVE  IF order[o].status # "absent" THEN ledger[o].deduct = order[o].deducted
                        ELSE ledger[o].deduct - ledger[o].back
                               = IF creating[o].at \in {"insert", "compensate"}
                                 THEN creating[o].points ELSE 0
      BY DEF DeductionKept
    <2>1. /\ RowOK(o) /\ creating[o].at \in CreationLabel /\ creating[o].points \in Nat
          /\ ledger[o].deduct \in Nat /\ ledger[o].back \in Nat
      BY OrderTypes DEF Creation, Tally
    <2> QED BY <2>1 DEF RowOK, Made, Taken, CreationLabel
  <1> QED BY <1>1, InvariantHolds, PTL

\* However requests about an order that was not paid overlap, and wherever
\* one of them stops, its points come back at most once -- unless the write
\* that notes the return failed.
THEOREM BackIsOnce == Spec => []RefundOnce
  <1>1. IInv => RefundOnce
    BY DEF IInv, OrderOK, RowOK, BackOnce, RefundOnce
  <1> QED BY <1>1, InvariantHolds, PTL

\* However requests about a paid order overlap, and whoever takes over from
\* a request that died, its topup is credited at most once -- unless the
\* look at the ledger failed, or the request taken over was alive.
THEOREM TopupIsOnce == Spec => []TopupOnce
  <1>1. IInv => TopupOnce
    BY DEF IInv, OrderOK, RowOK, ToppedOnce, Spoiled, TopupOnce
  <1> QED BY <1>1, InvariantHolds, PTL

\* A product is granted, and a topup credited, only for an order whose
\* payment the provider reported with the right amount.
THEOREM GrantsArePaid == Spec => []GrantedIsPaid
  <1>1. IInv => GrantedIsPaid
    BY DEF IInv, OrderOK, RowOK, Granting, Paid, GrantedIsPaid
  <1> QED BY <1>1, InvariantHolds, PTL

-----------------------------------------------------------------------------
(* The money an administrator returns.  Alipay returns it before it is     *)
(* recorded, so what is recorded of an order and what the requests between *)
(* the two steps have yet to record is at most what was returned; a        *)
(* request calls the order refunded when all of it is recorded, and what   *)
(* is recorded stays so.                                                   *)

\* What request w of an administrator has yet to record of order o.
Pending(w, o) == IF w.at = "record" /\ w.order = o THEN w.amount ELSE 0
PendingOf(o) == [a \in Admin |-> Pending(admin[a], o)]

Recorded(o) == refunds[o].recorded + SumFunctionOnSet(PendingOf(o), Admin) <= refunds[o].returned

Sure(w) == w.at = "write" /\ w.status = "REFUNDED" => refunds[w.order].recorded >= Price

MoneyOK ==
    /\ \A o \in Order : /\ Recorded(o)
                        /\ order[o].status = "REFUNDED" => refunds[o].recorded >= Price
    /\ \A a \in Admin : Sure(admin[a])

MInv == IInv /\ MoneyOK

LEMMA PendingTyped ==
  ASSUME NEW w \in AdminWork, NEW o
  PROVE  Pending(w, o) \in Nat
  BY Constants DEF Pending, AdminWork

LEMMA PendingTotal ==
  ASSUME admin \in [Admin -> AdminWork], NEW o
  PROVE  SumFunctionOnSet(PendingOf(o), Admin) \in Nat
  <1>1. \A a \in Admin : PendingOf(o)[a] \in Nat
    BY PendingTyped DEF PendingOf
  <1> QED BY <1>1, AdminAssumption, SumNat

\* A step that returns and records nothing, and calls no order refunded.
NoMoney ==
    /\ UNCHANGED <<admin, refunds>>
    /\ \A o \in Order : order'[o].status = "REFUNDED" => order[o].status = "REFUNDED"

LEMMA NoMoneyKeeps ==
  ASSUME MoneyOK, NoMoney
  PROVE  MoneyOK'
  <1>1. admin' = admin /\ refunds' = refunds
    BY DEF NoMoney
  <1> QED BY <1>1 DEF NoMoney, MoneyOK, Recorded, Sure, PendingOf, Pending

\* A step of the administrator's request a, that becomes w: it returns at
\* least as much as it records or leaves to be recorded.
LEMMA MoneyStep ==
  ASSUME MInv, NEW a \in Admin, NEW w \in AdminWork, admin' = [admin EXCEPT ![a] = w],
         refunds' \in [Order -> Refunded],
         \A o \in Order :
           /\ refunds'[o].recorded >= refunds[o].recorded
           /\ refunds'[o].recorded + Pending(w, o) - refunds[o].recorded - Pending(admin[a], o)
                <= refunds'[o].returned - refunds[o].returned
           /\ order'[o].status = "REFUNDED" =>
                order[o].status = "REFUNDED" \/ refunds[o].recorded >= Price,
         w.at = "write" /\ w.status = "REFUNDED" => refunds'[w.order].recorded >= Price
  PROVE  MoneyOK'
  <1>1. /\ admin \in [Admin -> AdminWork] /\ admin' \in [Admin -> AdminWork]
        /\ refunds \in [Order -> Refunded] /\ Price \in Nat
    BY Types, Constants DEF MInv, IInv
  <1>2. ASSUME NEW o \in Order
        PROVE  Recorded(o)'
    <2> DEFINE old == PendingOf(o)
               new == PendingOf(o)'
    <2>1. \A b \in Admin : old[b] \in Int /\ new[b] \in Int
      BY <1>1, PendingTyped DEF PendingOf
    <2>2. \A b \in Admin \ {a} : new[b] = old[b]
      BY <1>1 DEF PendingOf
    <2>3. old[a] = Pending(admin[a], o) /\ new[a] = Pending(w, o)
      BY <1>1 DEF PendingOf
    <2>4. SumFunctionOnSet(old, Admin) \in Nat
      BY <1>1, PendingTotal
    <2>5. SumFunctionOnSet(new, Admin)
            = SumFunctionOnSet(old, Admin) - Pending(admin[a], o) + Pending(w, o)
      <3> HIDE DEF old, new
      <3> QED BY <2>1, <2>2, <2>3, AdminAssumption, SumChange
    <2>6. /\ refunds[o].recorded \in Nat /\ refunds[o].returned \in Int
          /\ refunds'[o].recorded \in Nat /\ refunds'[o].returned \in Int
          /\ Pending(admin[a], o) \in Nat /\ Pending(w, o) \in Nat
      BY <1>1, PendingTyped DEF Refunded
    <2>7. refunds[o].recorded + SumFunctionOnSet(old, Admin) <= refunds[o].returned
      BY DEF MInv, MoneyOK, Recorded
    <2>8. refunds'[o].recorded + SumFunctionOnSet(new, Admin) <= refunds'[o].returned
      <3> DEFINE s == SumFunctionOnSet(old, Admin)
                 t == SumFunctionOnSet(new, Admin)
                 m == Pending(admin[a], o)
                 n == Pending(w, o)
      <3> HIDE DEF s, t, m, n, old, new
      <3>1. /\ s \in Nat /\ t = s - m + n /\ m \in Nat /\ n \in Nat
            /\ refunds[o].recorded + s <= refunds[o].returned
            /\ refunds'[o].recorded + n - refunds[o].recorded - m
                 <= refunds'[o].returned - refunds[o].returned
        BY <2>4, <2>5, <2>6, <2>7 DEF s, t, m, n
      <3>2. refunds'[o].recorded + t <= refunds'[o].returned
        BY <2>6, <3>1
      <3> QED BY <3>2 DEF t
    <2> QED BY <2>8 DEF Recorded
  <1>3. ASSUME NEW o \in Order, order'[o].status = "REFUNDED"
        PROVE  refunds'[o].recorded >= Price
    <2>1. refunds[o].recorded >= Price
      BY <1>3 DEF MInv, MoneyOK
    <2> QED BY <1>1, <2>1 DEF Refunded
  <1>4. ASSUME NEW b \in Admin
        PROVE  Sure(admin[b])'
    <2>1. CASE b = a
      BY <1>1, <2>1 DEF Sure
    <2>2. CASE b # a
      <3>1. admin'[b] = admin[b] /\ admin[b].order \in Order /\ Sure(admin[b])
        BY <1>1, <2>2 DEF MInv, MoneyOK, AdminWork
      <3>2. /\ refunds[admin[b].order].recorded \in Nat /\ refunds'[admin[b].order].recorded \in Nat
            /\ refunds'[admin[b].order].recorded >= refunds[admin[b].order].recorded
        BY <1>1, <3>1 DEF Refunded
      <3> QED BY <1>1, <3>1, <3>2 DEF Sure
    <2> QED BY <2>1, <2>2
  <1> QED BY <1>2, <1>3, <1>4 DEF MoneyOK

\* Requests that return and record nothing.
LEMMA IdleMoney ==
  ASSUME MInv, NEW a \in Admin, NEW w \in AdminWork, admin' = [admin EXCEPT ![a] = w],
         refunds' = refunds, w.at # "record",
         \A o \in Order : order'[o].status = "REFUNDED" =>
                order[o].status = "REFUNDED" \/ refunds[o].recorded >= Price,
         w.at = "write" /\ w.status = "REFUNDED" => refunds[w.order].recorded >= Price
  PROVE  MoneyOK'
  <1>1. /\ admin[a] \in AdminWork /\ refunds \in [Order -> Refunded]
    BY Types DEF MInv, IInv
  <1>2. ASSUME NEW o \in Order
        PROVE  /\ refunds'[o].recorded >= refunds[o].recorded
               /\ refunds'[o].recorded + Pending(w, o) - refunds[o].recorded - Pending(admin[a], o)
                    <= refunds'[o].returned - refunds[o].returned
    <2>1. refunds[o].recorded \in Nat /\ refunds[o].returned \in Int
      BY <1>1 DEF Refunded
    <2>2. Pending(w, o) = 0 /\ Pending(admin[a], o) \in Nat
      BY <1>1, PendingTyped DEF Pending
    <2> QED BY <2>1, <2>2
  <1> QED BY <1>1, <1>2, MoneyStep

LEMMA AdminReadMoney ==
  ASSUME MInv, NEW a \in Admin, AdminRead(a)
  PROVE  MoneyOK'
  <1>0. PICK o \in Order : \E n \in 1 .. Price - refunds[o].recorded :
          admin' = [admin EXCEPT ![a] = [NoRefund EXCEPT !.at = "ask", !.order = o, !.amount = n]]
    BY DEF AdminRead
  <1>1. PICK n \in 1 .. Price - refunds[o].recorded :
          admin' = [admin EXCEPT ![a] = [NoRefund EXCEPT !.at = "ask", !.order = o, !.amount = n]]
    BY <1>0
  <1> DEFINE w == [NoRefund EXCEPT !.at = "ask", !.order = o, !.amount = n]
  <1>2. w \in AdminWork /\ w.at = "ask"
    <2>1. refunds[o].recorded \in Nat
      BY Types DEF MInv, IInv, Refunded
    <2>2. n \in 0 .. Price
      BY <2>1, Constants
    <2> QED BY <2>2, NoRefundOK DEF AdminWork
  <1>3. admin' = [admin EXCEPT ![a] = w] /\ UNCHANGED <<order, refunds>>
    BY <1>1 DEF AdminRead, progress
  <1> HIDE DEF w
  <1> QED BY <1>2, <1>3, IdleMoney

LEMMA AdminAskMoney ==
  ASSUME MInv, NEW a \in Admin, NEW o \in Order, o = admin[a].order, AdminAsk(a)
  PROVE  MoneyOK'
  <1> DEFINE returned == refunds[o].returned + admin[a].amount
  <1>1. /\ admin[a].at = "ask" /\ order' = order /\ admin[a] \in AdminWork
        /\ refunds \in [Order -> Refunded] /\ admin \in [Admin -> AdminWork]
    BY Types DEF AdminAsk, MInv, IInv
  <1>2. CASE /\ returned <= Price /\ refunds' = [refunds EXCEPT ![o].returned = returned]
             /\ admin' = [admin EXCEPT ![a].at = "record"]
    <2> DEFINE w == [admin[a] EXCEPT !.at = "record"]
               f == [refunds[o] EXCEPT !.returned = returned]
    <2>1. w \in AdminWork /\ w.order = o /\ w.at = "record" /\ w.amount = admin[a].amount
      BY <1>1 DEF AdminWork
    <2>2. /\ f \in Refunded /\ f.recorded = refunds[o].recorded
          /\ f.returned = refunds[o].returned + admin[a].amount
      BY <1>1, <1>2, Constants DEF Refunded, AdminWork
    <2>3. admin' = [admin EXCEPT ![a] = w] /\ refunds' = [refunds EXCEPT ![o] = f]
      BY <1>1, <1>2
    <2> HIDE DEF w, f
    <2>4. /\ refunds' \in [Order -> Refunded] /\ refunds'[o] = f
          /\ \A x \in Order \ {o} : refunds'[x] = refunds[x]
      BY <1>1, <2>2, <2>3
    <2>5. ASSUME NEW x \in Order
          PROVE  /\ refunds'[x].recorded >= refunds[x].recorded
                 /\ refunds'[x].recorded + Pending(w, x) - refunds[x].recorded - Pending(admin[a], x)
                      <= refunds'[x].returned - refunds[x].returned
      <3>1. Pending(admin[a], x) = 0
        BY <1>1 DEF Pending
      <3>2. refunds[x].recorded \in Nat /\ refunds[x].returned \in Int /\ admin[a].amount \in Int
        BY <1>1, Constants DEF Refunded, AdminWork
      <3>3. CASE x = o
        <4>1. Pending(w, x) = admin[a].amount
          BY <2>1, <3>3 DEF Pending
        <4> QED BY <2>2, <2>4, <3>1, <3>2, <3>3, <4>1
      <3>4. CASE x # o
        <4>1. Pending(w, x) = 0
          BY <2>1, <3>4 DEF Pending
        <4> QED BY <2>4, <3>1, <3>2, <3>4, <4>1
      <3> QED BY <3>3, <3>4
    <2> QED BY <1>1, <2>1, <2>3, <2>4, <2>5, MoneyStep
  <1>3. CASE admin' = [admin EXCEPT ![a] = NoRefund] /\ UNCHANGED refunds
    <2> DEFINE w == NoRefund
    <2>1. w \in AdminWork /\ w.at = "idle" /\ admin' = [admin EXCEPT ![a] = w]
      BY <1>3, NoRefundOK
    <2> HIDE DEF w
    <2> QED BY <1>1, <1>3, <2>1, IdleMoney
  <1> QED BY <1>2, <1>3 DEF AdminAsk

LEMMA AdminRecordMoney ==
  ASSUME MInv, NEW a \in Admin, NEW o \in Order, o = admin[a].order, AdminRecord(a)
  PROVE  MoneyOK'
  <1>1. /\ admin[a].at = "record" /\ order' = order /\ admin[a] \in AdminWork
        /\ refunds \in [Order -> Refunded] /\ admin \in [Admin -> AdminWork]
    BY Types DEF AdminRecord, MInv, IInv
  <1> DEFINE w == [admin[a] EXCEPT !.at = "sum"]
             f == [refunds[o] EXCEPT !.recorded = @ + admin[a].amount]
  <1>2. w \in AdminWork /\ w.at = "sum"
    BY <1>1 DEF AdminWork
  <1>3. /\ f \in Refunded /\ f.recorded = refunds[o].recorded + admin[a].amount
        /\ f.returned = refunds[o].returned
    <2>1. refunds[o] \in Refunded /\ admin[a].amount \in Nat
      BY <1>1, Constants DEF AdminWork
    <2> QED BY <2>1 DEF Refunded
  <1>4. admin' = [admin EXCEPT ![a] = w] /\ refunds' = [refunds EXCEPT ![o] = f]
    BY <1>1 DEF AdminRecord
  <1> HIDE DEF w, f
  <1>5. /\ refunds' \in [Order -> Refunded] /\ refunds'[o] = f
        /\ \A x \in Order \ {o} : refunds'[x] = refunds[x]
    BY <1>1, <1>3, <1>4
  <1>6. ASSUME NEW x \in Order
        PROVE  /\ refunds'[x].recorded >= refunds[x].recorded
               /\ refunds'[x].recorded + Pending(w, x) - refunds[x].recorded - Pending(admin[a], x)
                    <= refunds'[x].returned - refunds[x].returned
    <2>1. Pending(w, x) = 0
      BY <1>2 DEF Pending
    <2>2. refunds[x].recorded \in Nat /\ refunds[x].returned \in Int /\ admin[a].amount \in Nat
      BY <1>1, Constants DEF Refunded, AdminWork
    <2>3. CASE x = o
      <3>1. Pending(admin[a], x) = admin[a].amount
        BY <1>1, <2>3 DEF Pending
      <3> QED BY <1>3, <1>5, <2>1, <2>2, <2>3, <3>1
    <2>4. CASE x # o
      <3>1. Pending(admin[a], x) = 0
        BY <2>4 DEF Pending
      <3> QED BY <1>5, <2>1, <2>2, <2>4, <3>1
    <2> QED BY <2>3, <2>4
  <1> QED BY <1>1, <1>2, <1>4, <1>5, <1>6, MoneyStep

LEMMA AdminSumMoney ==
  ASSUME MInv, NEW a \in Admin, AdminSum(a)
  PROVE  MoneyOK'
  <1>1. /\ order' = order /\ refunds' = refunds /\ admin[a] \in AdminWork
        /\ admin \in [Admin -> AdminWork]
    BY Types DEF AdminSum, MInv, IInv
  <1> DEFINE st == IF refunds[admin[a].order].recorded >= Price THEN "REFUNDED" ELSE "PAID"
             w == [admin[a] EXCEPT !.at = "write", !.status = st]
  <1>2. /\ w \in AdminWork /\ w.at = "write"
        /\ w.status = "REFUNDED" => refunds[w.order].recorded >= Price
    BY <1>1 DEF AdminWork
  <1>3. admin' = [admin EXCEPT ![a] = w]
    BY <1>1 DEF AdminSum
  <1> HIDE DEF w
  <1> QED BY <1>1, <1>2, <1>3, IdleMoney

LEMMA AdminEndMoney ==
  ASSUME MInv, NEW a \in Admin, AdminWrite(a) \/ AdminFault(a)
  PROVE  MoneyOK'
  <1> DEFINE w == NoRefund
  <1>1. w \in AdminWork /\ w.at = "idle"
    BY NoRefundOK
  <1>2. admin' = [admin EXCEPT ![a] = w] /\ refunds' = refunds
    BY DEF AdminWrite, AdminFault
  <1> HIDE DEF w
  <1>3. CASE AdminWrite(a)
    <2>1. /\ admin[a].at = "write"
          /\ order' = [order EXCEPT ![admin[a].order].status = admin[a].status]
          /\ order \in [Order -> Row] /\ Sure(admin[a])
      BY <1>3, Types DEF AdminWrite, MInv, IInv, MoneyOK
    <2>2. ASSUME NEW o \in Order, order'[o].status = "REFUNDED"
          PROVE  order[o].status = "REFUNDED" \/ refunds[o].recorded >= Price
      <3>1. CASE o = admin[a].order
        <4>1. order'[o].status = admin[a].status
          BY <2>1, <3>1 DEF Row
        <4> QED BY <2>1, <2>2, <3>1, <4>1 DEF Sure
      <3>2. CASE o # admin[a].order
        BY <2>1, <2>2, <3>2
      <3> QED BY <3>1, <3>2
    <2> QED BY <1>1, <1>2, <2>2, IdleMoney
  <1>4. CASE AdminFault(a)
    <2>1. order' = order
      BY <1>4 DEF AdminFault, progress
    <2> QED BY <1>1, <1>2, <2>1, IdleMoney
  <1> QED BY <1>3, <1>4


\* Only an administrator's request calls an order refunded.
LEMMA StatusMoney ==
  ASSUME MInv, NEW o \in Order, NEW s, s # "REFUNDED", UNCHANGED <<admin, refunds>>,
         order' = [order EXCEPT ![o].status = s]
  PROVE  NoMoney
  BY Types DEF MInv, IInv, NoMoney, Row

LEMMA CreationMoney ==
  ASSUME MInv, NEW o \in Order, CreationStep(o)
  PROVE  NoMoney
  <1>1. order \in [Order -> Row]
    BY Types DEF MInv, IInv
  <1>2. CASE InsertOrder(o)
    <2>1. UNCHANGED <<admin, refunds>>
          /\ order' = [order EXCEPT ![o] = [@ EXCEPT !.status = "PENDING",
                                                      !.deducted = creating[o].points]]
      BY <1>1, <1>2 DEF InsertOrder
    <2>2. order'[o].status # "REFUNDED" /\ \A x \in Order \ {o} : order'[x] = order[x]
      BY <1>1, <2>1 DEF Row
    <2> QED BY <2>1, <2>2 DEF NoMoney
  <1>3. CASE RefuseOrder(o)
    BY <1>3, StatusMoney DEF RefuseOrder
  <1>4. CASE ReadWallet(o) \/ ConsumePoints(o) \/ Compensate(o) \/ Checkout(o)
    BY <1>4 DEF ReadWallet, ConsumePoints, Compensate, Checkout, NoMoney, progress
  <1> QED BY <1>2, <1>3, <1>4 DEF CreationStep

LEMMA RequestMoney ==
  ASSUME MInv, NEW p \in Handler, NEW o \in Order, o = proc[p].order,
         NoticeStep(p) \/ TopupStep(p) \/ RefundStep(p)
  PROVE  NoMoney
  <1>1. order \in [Order -> Row] /\ proc[p].says \in Told
    BY Types DEF MInv, IInv, Work
  <1>2. \A s \in Told : s # "REFUNDED"
    BY DEF Told, Final
  <1>3. CASE Read(p) \/ Package(p) \/ Check(p) \/ CreditTopup(p) \/ CreditBack(p)
    BY <1>3 DEF Read, Package, Check, CreditTopup, CreditBack, NoMoney, Stay, progress
  <1>4. CASE Mismatch(p) \/ Write(p)
    <2>1. UNCHANGED <<admin, refunds>>
      BY <1>4 DEF Mismatch, Write, Stay
    <2>2. \/ order' = order
          \/ order' = [order EXCEPT ![o].status = "FAILED"]
          \/ order' = [order EXCEPT ![o].status = proc[p].says]
      BY <1>4 DEF Mismatch, Write
    <2> QED BY <1>1, <1>2, <2>1, <2>2, StatusMoney DEF NoMoney
  <1>5. CASE \/ Topup(p) \/ Adopt(p) \/ TopupDone(p) \/ TopupReset(p)
             \/ Refund(p) \/ RefundDone(p) \/ RefundReset(p)
    <2>1. UNCHANGED <<admin, refunds>>
      BY <1>5 DEF Topup, Adopt, TopupDone, TopupReset, Refund, RefundDone, RefundReset, SetTopup,
         SetRefund, Stay
    <2>2. \/ order' = order
          \/ \E v : order' = [order EXCEPT ![o].topup = v] \/ order' = [order EXCEPT ![o].refund = v]
      BY <1>5 DEF Topup, Adopt, TopupDone, TopupReset, Refund, RefundDone, RefundReset, SetTopup,
         SetRefund
    <2>3. ASSUME NEW v, \/ order' = [order EXCEPT ![o].topup = v]
                        \/ order' = [order EXCEPT ![o].refund = v],
                 NEW x \in Order
          PROVE  order'[x].status = order[x].status
      <3>1. CASE order' = [order EXCEPT ![o].topup = v]
        <4> DEFINE row == [order[o] EXCEPT !.topup = v]
        <4>1. o \in Order => row.status = order[o].status
          BY <1>1 DEF Row
        <4>2. order' = [order EXCEPT ![o] = row]
          BY <3>1
        <4> HIDE DEF row
        <4> QED BY <1>1, <4>1, <4>2
      <3>2. CASE order' = [order EXCEPT ![o].refund = v]
        <4> DEFINE row == [order[o] EXCEPT !.refund = v]
        <4>1. o \in Order => row.status = order[o].status
          BY <1>1 DEF Row
        <4>2. order' = [order EXCEPT ![o] = row]
          BY <3>2
        <4> HIDE DEF row
        <4> QED BY <1>1, <4>1, <4>2
      <3> QED BY <2>3, <3>1, <3>2
    <2>4. \A x \in Order : order'[x].status = order[x].status
      BY <2>2, <2>3
    <2> QED BY <2>1, <2>4 DEF NoMoney
  <1> QED BY <1>3, <1>4, <1>5 DEF NoticeStep, TopupStep, RefundStep

LEMMA StepMoney == MInv /\ [Next]_vars => MoneyOK'
  <1> SUFFICES ASSUME MInv, [Next]_vars PROVE MoneyOK'
    OBVIOUS
  <1>0. MoneyOK
    BY DEF MInv
  <1>1. ASSUME NEW o \in Order, CreationStep(o) \/ TradeMoves(o) \/ Age(o) \/ CreationFault(o)
        PROVE  NoMoney
    BY <1>1, CreationMoney DEF TradeMoves, Age, CreationFault, NoMoney
  <1>2. ASSUME NEW p \in Handler,
               \/ Notice(p) \/ NoticeStep(p) \/ TopupStep(p) \/ RefundStep(p) \/ Throw(p) \/ Die(p)
               \/ \E o \in Order : Ask(p, o)
        PROVE  NoMoney
    <2>1. PICK o \in Order : o = proc[p].order
      BY Types DEF MInv, IInv, Work
    <2>2. CASE NoticeStep(p) \/ TopupStep(p) \/ RefundStep(p)
      BY <2>1, <2>2, RequestMoney
    <2>3. CASE Notice(p) \/ Throw(p) \/ Die(p) \/ \E x \in Order : Ask(p, x)
      BY <2>3 DEF Notice, Throw, Die, Ask, NoMoney, Stay, progress
    <2> QED BY <1>2, <2>2, <2>3
  <1>3. ASSUME NEW a \in Admin, AdminStep(a) \/ AdminFault(a)
        PROVE  MoneyOK'
    <2>1. PICK o \in Order : o = admin[a].order
      BY Types DEF MInv, IInv, AdminWork
    <2> QED BY <1>3, <2>1, AdminReadMoney, AdminAskMoney, AdminRecordMoney, AdminSumMoney,
            AdminEndMoney DEF AdminStep
  <1>4. ASSUME NEW u \in User, SpendElsewhere(u)
        PROVE  NoMoney
    BY <1>4 DEF SpendElsewhere, NoMoney
  <1>5. CASE UNCHANGED vars
    <2>1. order' = order /\ admin' = admin /\ refunds' = refunds
      BY <1>5 DEF vars, progress
    <2>2. NoMoney
      BY <2>1 DEF NoMoney
    <2> QED BY <1>0, <2>2, NoMoneyKeeps
  <1> QED BY <1>0, <1>1, <1>2, <1>3, <1>4, <1>5, NoMoneyKeeps DEF Next

LEMMA InitMoney == Init => MoneyOK
  <1> SUFFICES ASSUME Init PROVE MoneyOK
    OBVIOUS
  <1>1. NoRefund.at = "idle"
    BY NoRefundOK
  <1>2. ASSUME NEW o \in Order
        PROVE  Recorded(o)
    <2>1. \A a \in Admin : PendingOf(o)[a] = 0
      BY <1>1 DEF Init, PendingOf, Pending
    <2>2. SumFunctionOnSet(PendingOf(o), Admin) = 0
      BY <2>1, AdminAssumption, SumZero
    <2>3. refunds[o].recorded = 0 /\ refunds[o].returned = 0
      BY DEF Init
    <2> QED BY <2>2, <2>3 DEF Recorded
  <1>3. \A a \in Admin : Sure(admin[a])
    BY <1>1 DEF Init, Sure
  <1>4. \A o \in Order : order[o].status # "REFUNDED"
    BY DEF Init
  <1> QED BY <1>2, <1>3, <1>4 DEF MoneyOK

\* However many administrators refund an order at a time, and wherever one
\* of their requests stops, the order is called refunded only when Alipay
\* returned all of its money.
THEOREM RefundsAreReturned == Spec => []RefundedIsReturned
  <1>1. MInv => RefundedIsReturned
    <2> SUFFICES ASSUME MInv, NEW o \in Order, order[o].status = "REFUNDED"
                 PROVE  refunds[o].returned = Price
      BY DEF RefundedIsReturned
    <2>1. /\ refunds[o].recorded \in Nat /\ refunds[o].returned \in 0 .. Price /\ Price \in Nat
          /\ admin \in [Admin -> AdminWork]
      BY Types, Constants DEF MInv, IInv, Refunded
    <2>2. SumFunctionOnSet(PendingOf(o), Admin) \in Nat
      BY <2>1, PendingTotal
    <2>3. /\ refunds[o].recorded + SumFunctionOnSet(PendingOf(o), Admin) <= refunds[o].returned
          /\ refunds[o].recorded >= Price
      BY DEF MInv, MoneyOK, Recorded
    <2> QED BY <2>1, <2>2, <2>3
  <1>2. Init => MInv
    BY InitIInv, InitMoney DEF MInv
  <1>3. MInv /\ [Next]_vars => MInv'
    BY StepIInv, StepMoney DEF MInv
  <1> QED BY <1>1, <1>2, <1>3, PTL DEF Spec

\* No purchase, give-back or topup overdraws a wallet: the points a creation
\* takes are looked at again when they are taken (consumePoints), so that a
\* wallet that was spent in between stays at zero or above, and the credits
\* (of a creation's compensation, of refundOrderPointsIfNeeded and of
\* grantOrderTopupPointsIfNeeded) meet a wallet that is there.  Captures
\* above what was reserved, which may overdraw it, are not among these steps.
THEOREM WalletsAreSolvent == Spec => []Solvent
  <1>1. IInv => Solvent
    BY DEF IInv, Purse
  <1> QED BY <1>1, InvariantHolds, PTL
=============================================================================
