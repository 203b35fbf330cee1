--------------------------- MODULE PointsAccount ---------------------------
(***************************************************************************)
(* What AiPointsService promises its callers about a user's AI points: a   *)
(* credit, a consumption, the reservation of an amount and its settlement  *)
(* are single, indivisible steps, whatever requests run at the same time.  *)
(* AiPoints, which models the service statement by statement, is shown to  *)
(* implement this module; the modules of the AI gateway that use the       *)
(* service take its steps from here.                                       *)
(***************************************************************************)
EXTENDS Integers

CONSTANTS
    User,            \* (app, user) pairs: one wallet each
    Key,             \* reservation keys
    Owner,           \* the user whose request made the key
    InitialPoints,   \* app_ai_points_settings.initial_points
    Amount,          \* amounts credited, consumed or reserved
    Actual           \* costs a settlement may capture


VARIABLES
    wallet,          \* user_ai_points_wallets, one row per user
    resv             \* user_ai_points_reservations, one row per key

vars == <<wallet, resv>>

Pending  == "pending"
Captured == "captured"
Released == "released"
Unmade   == "none"               \* there is no row
Terminal == {Captured, Released}

Wallet == [open : BOOLEAN, balance : Int, earned : Nat, spent : Nat]
Reservation ==
    [status : Terminal \cup {Pending, Unmade}, reserved : Nat, settled : Nat]

NoWallet == [open |-> FALSE, balance |-> 0, earned |-> 0, spent |-> 0]
NoReservation == [status |-> Unmade, reserved |-> 0, settled |-> 0]

TypeOK ==
    /\ wallet \in [User -> Wallet]
    /\ resv \in [Key -> Reservation]

Init ==
    /\ wallet = [u \in User |-> NoWallet]
    /\ resv = [k \in Key |-> NoReservation]

-----------------------------------------------------------------------------
(* Row values after one accounting entry.                                  *)

Opened == [open |-> TRUE, balance |-> InitialPoints,
           earned |-> InitialPoints, spent |-> 0]

Credited(w, n) == [w EXCEPT !.balance = @ + n, !.earned = @ + n]

Consumed(w, n) == [w EXCEPT !.balance = @ - n, !.spent = @ + n]

\* Reserving freezes the amount: it leaves the balance and is not spent yet.
Frozen(w, n) == [w EXCEPT !.balance = @ - n]

\* max(0, reserved - actual) comes back, max(0, actual - reserved) is taken
\* on top: the balance moves by the difference and the actual cost is spent.
Settled(w, reserved, actual) ==
    [w EXCEPT !.balance = @ + (reserved - actual), !.spent = @ + actual]

-----------------------------------------------------------------------------

OpenWallet(u) ==
    /\ ~wallet[u].open
    /\ wallet' = [wallet EXCEPT ![u] = Opened]
    /\ UNCHANGED resv

Credit(u, n) ==
    /\ wallet[u].open
    /\ wallet' = [wallet EXCEPT ![u] = Credited(@, n)]
    /\ UNCHANGED resv

Consume(u, n) ==
    /\ wallet[u].open
    /\ wallet[u].balance >= n
    /\ wallet' = [wallet EXCEPT ![u] = Consumed(@, n)]
    /\ UNCHANGED resv

Reserve(k, n) ==
    /\ wallet[Owner[k]].open
    /\ wallet[Owner[k]].balance >= n
    /\ resv[k].status = Unmade
    /\ wallet' = [wallet EXCEPT ![Owner[k]] = Frozen(@, n)]
    /\ resv' = [resv EXCEPT ![k] = [status |-> Pending, reserved |-> n, settled |-> 0]]

\* A reservation is settled once: captured for the actual cost, which may
\* exceed what was reserved, or released for nothing.
Settle(k, outcome, actual) ==
    /\ resv[k].status = Pending
    /\ outcome = Released => actual = 0
    /\ wallet' = [wallet EXCEPT ![Owner[k]] = Settled(@, resv[k].reserved, actual)]
    /\ resv' = [resv EXCEPT ![k].status = outcome, ![k].settled = actual]

Next ==
    \/ \E u \in User : OpenWallet(u)
    \/ \E u \in User, n \in Amount : Credit(u, n) \/ Consume(u, n)
    \/ \E k \in Key, n \in Amount : Reserve(k, n)
    \/ \E k \in Key, outcome \in Terminal, actual \in Actual \cup {0} :
         Settle(k, outcome, actual)

Spec == Init /\ [][Next]_vars
=============================================================================
