------------------------------ MODULE AiPoints ------------------------------
(***************************************************************************)
(* AiPointsService (modules/ai-chat/ai-points.service.ts): wallets, their  *)
(* ledger and the reservations that freeze points while a request to an    *)
(* AI provider is in flight, in Postgres.                                  *)
(*                                                                         *)
(* A call of the service is a process whose steps are its statements.      *)
(* Statements of one transaction that follow the lock of the wallet row    *)
(* are one step together with the commit: no other call can tell them      *)
(* apart.  What precedes that lock is a step of its own: the unlocked      *)
(* reads, and the row lock on a reservation (rowLock).                     *)
(* Points are counted in the smallest unit, 1/100 of a point, so that      *)
(* amounts are integers; ledger rows are kept as sums of their deltas.     *)
(***************************************************************************)
EXTENDS Integers, FiniteSetsExt

CONSTANTS
    User, Key, Owner, InitialPoints, Amount, Actual,    \* see PointsAccount
    Task,            \* external task ids
    Call,            \* concurrent calls of the service
    None,            \* NULL: no task id, no lock holder, no argument
    MaxEarned        \* bound on the points ever granted to a user

ASSUME OwnerAssumption == Owner \in [Key -> User]
ASSUME InitialPointsAssumption == InitialPoints \in Nat
ASSUME NoneAssumption == None \notin User \cup Key \cup Task \cup Call
ASSUME AmountAssumption == Amount \subseteq Nat \ {0}
ASSUME ActualAssumption == Actual \subseteq Nat

VARIABLES
    wallet,          \* user_ai_points_wallets
    resv,            \* user_ai_points_reservations, without external_task_id
    task,            \* user_ai_points_reservations.external_task_id
    ledger,          \* per user, sums of user_ai_points_ledger.delta by event
    keyLedger,       \* per reservation key, the sum of delta over its rows
    rowLock,         \* per reservation row, the transaction that holds it
    call             \* per call, the statement it is at and its arguments

rows == <<wallet, resv, task, ledger, keyLedger>>
vars == <<wallet, resv, task, ledger, keyLedger, rowLock, call>>

Account == INSTANCE PointsAccount

Label == {"idle", "wallet_insert", "wallet_init_row", "consume", "credit",
          "reserve_read", "reserve", "settle_lock", "settle",
          "release_read", "release_lock", "release"}

\* The transaction a call goes on to once the wallet row is known to exist.
AfterWallet(op) == IF op = "reserve" THEN "reserve_read" ELSE op

CallState == [at : Label, op : {"none", "consume", "credit", "reserve"},
              user : User \cup {None}, key : Key \cup {None},
              task : Task \cup {None}, n : Nat, success : BOOLEAN]

Idle == [at |-> "idle", op |-> "none", user |-> None, key |-> None,
         task |-> None, n |-> 0, success |-> FALSE]

LedgerSums == [init : Int, credit : Int, consume : Int, reservation : Int]

\* The arguments a call has at each statement.
ArgumentsOK(s) ==
    /\ s.at \in {"wallet_insert", "wallet_init_row", "consume", "credit",
                "reserve_read", "reserve", "settle_lock"} => s.user \in User
    /\ s.at \in {"wallet_insert", "wallet_init_row"} => s.op # "none"
    /\ s.at = "settle_lock" => s.task \in Task
    /\ s.op = "reserve" \/ s.at \in {"settle", "release_read", "release_lock", "release"}
         => s.key \in Key /\ s.user = Owner[s.key]
    /\ s.at \in {"reserve_read", "reserve"} => s.op = "reserve"
    /\ s.at \in {"consume", "credit"} => s.op = s.at
    /\ s.op # "none" => s.n \in Amount
    /\ s.at \in {"release_read", "settle_lock", "settle"} => s.n \in Actual \cup {0}

TypeOK ==
    /\ wallet \in [User -> Account!Wallet]
    /\ resv \in [Key -> Account!Reservation]
    /\ task \in [Key -> Task \cup {None}]
    /\ ledger \in [User -> LedgerSums]
    /\ keyLedger \in [Key -> Int]
    /\ rowLock \in [Key -> Call \cup {None}]
    /\ call \in [Call -> CallState]
    /\ \A c \in Call : ArgumentsOK(call[c])

Init ==
    /\ wallet = [u \in User |-> Account!NoWallet]
    /\ resv = [k \in Key |-> Account!NoReservation]
    /\ task = [k \in Key |-> None]
    /\ ledger = [u \in User |-> [init |-> 0, credit |-> 0, consume |-> 0, reservation |-> 0]]
    /\ keyLedger = [k \in Key |-> 0]
    /\ rowLock = [k \in Key |-> None]
    /\ call = [c \in Call |-> Idle]

-----------------------------------------------------------------------------

At(c, label) == call[c].at = label

Goto(c, label) == call' = [call EXCEPT ![c].at = label]

\* The call returns (or throws, its transaction rolled back).
Return(c) == call' = [call EXCEPT ![c] = Idle]

Locks(c, k) == rowLock' = [rowLock EXCEPT ![k] = c]

Unlocks(c) == rowLock' = [k \in Key |-> IF rowLock[k] = c THEN None ELSE rowLock[k]]

\* The reservation the unique index (app, user, external_task_id) finds.
HasTask(k, u, t) == Owner[k] = u /\ task[k] = t /\ resv[k].status # Account!Unmade

\* Ledger rows of a reservation: reserve, release, extra capture and the
\* zero-delta capture row all carry the reservation key.
PostReservationRow(k, delta) ==
    /\ ledger' = [ledger EXCEPT ![Owner[k]].reservation = @ + delta]
    /\ keyLedger' = [keyLedger EXCEPT ![k] = @ + delta]

-----------------------------------------------------------------------------
(* consumePoints, creditPoints and reservePoints begin by making sure that *)
(* the wallet row exists: SELECT, INSERT ... ON CONFLICT DO NOTHING, and   *)
(* a ledger row for the initial points in a statement of its own.          *)

Begin(c, op, u, k, n) ==
    /\ At(c, "idle")
    /\ call' = [call EXCEPT ![c] =
                  [Idle EXCEPT !.op = op, !.user = u, !.key = k, !.n = n,
                     !.at = IF wallet[u].open THEN AfterWallet(op) ELSE "wallet_insert"]]
    /\ UNCHANGED <<rows, rowLock>>

BeginConsume(c, u, n) == Begin(c, "consume", u, None, n)
BeginCredit(c, u, n) ==
    /\ wallet[u].earned + n <= MaxEarned
    /\ Begin(c, "credit", u, None, n)
BeginReserve(c, k, n) == Begin(c, "reserve", Owner[k], k, n)

\* A wallet opened twice: the INSERT without its ON CONFLICT clause, into a
\* table without the unique index, as an UPSERT would do it.
WalletInsertAgain(c) ==
    /\ At(c, "wallet_insert")
    /\ wallet' = [wallet EXCEPT ![call[c].user] = Account!Opened]
    /\ Goto(c, IF InitialPoints > 0 THEN "wallet_init_row" ELSE AfterWallet(call[c].op))
    /\ UNCHANGED <<resv, task, ledger, keyLedger, rowLock>>

WalletInsert(c) ==
    /\ At(c, "wallet_insert")
    /\ IF wallet[call[c].user].open
       THEN /\ Goto(c, AfterWallet(call[c].op))
            /\ UNCHANGED wallet
       ELSE /\ wallet' = [wallet EXCEPT ![call[c].user] = Account!Opened]
            /\ Goto(c, IF InitialPoints > 0 THEN "wallet_init_row"
                       ELSE AfterWallet(call[c].op))
    /\ UNCHANGED <<resv, task, ledger, keyLedger, rowLock>>

WalletInitRow(c) ==
    /\ At(c, "wallet_init_row")
    /\ ledger' = [ledger EXCEPT ![call[c].user].init = @ + InitialPoints]
    /\ Goto(c, AfterWallet(call[c].op))
    /\ UNCHANGED <<wallet, resv, task, keyLedger, rowLock>>

-----------------------------------------------------------------------------
(* Transactions on the wallet row alone.                                   *)

\* A consumption that looks at the balance before it locks the row.
ConsumeUnchecked(c) ==
    LET u == call[c].user IN
    /\ At(c, "consume")
    /\ wallet' = [wallet EXCEPT ![u] = Account!Consumed(@, call[c].n)]
    /\ ledger' = [ledger EXCEPT ![u].consume = @ - call[c].n]
    /\ Return(c)
    /\ UNCHANGED <<resv, task, keyLedger, rowLock>>

Consume(c) ==
    LET u == call[c].user IN
    /\ At(c, "consume")
    /\ IF wallet[u].balance >= call[c].n
       THEN /\ wallet' = [wallet EXCEPT ![u] = Account!Consumed(@, call[c].n)]
            /\ ledger' = [ledger EXCEPT ![u].consume = @ - call[c].n]
       ELSE UNCHANGED <<wallet, ledger>>
    /\ Return(c)
    /\ UNCHANGED <<resv, task, keyLedger, rowLock>>

Credit(c) ==
    LET u == call[c].user IN
    /\ At(c, "credit")
    /\ wallet' = [wallet EXCEPT ![u] = Account!Credited(@, call[c].n)]
    /\ ledger' = [ledger EXCEPT ![u].credit = @ + call[c].n]
    /\ Return(c)
    /\ UNCHANGED <<resv, task, keyLedger, rowLock>>

-----------------------------------------------------------------------------
(* reservePoints                                                           *)

\* The first statement of the transaction takes no lock: a key that has a
\* row already is answered with that row.
ReserveRead(c) ==
    /\ At(c, "reserve_read")
    /\ IF resv[call[c].key].status = Account!Unmade THEN Goto(c, "reserve") ELSE Return(c)
    /\ UNCHANGED <<rows, rowLock>>

MakeReservation(k, n) ==
    /\ wallet' = [wallet EXCEPT ![Owner[k]] = Account!Frozen(@, n)]
    /\ resv' = [resv EXCEPT ![k] =
                  [status |-> Account!Pending, reserved |-> n, settled |-> 0]]
    /\ PostReservationRow(k, -n)

\* A reservation that relies on its unlocked read: an upsert by key.
ReserveUpsert(c) ==
    LET k == call[c].key IN
    /\ At(c, "reserve")
    /\ IF wallet[call[c].user].balance >= call[c].n
       THEN MakeReservation(k, call[c].n)
       ELSE UNCHANGED <<wallet, resv, ledger, keyLedger>>
    /\ Return(c)
    /\ UNCHANGED <<task, rowLock>>

\* Lock the wallet, check, debit, insert: a balance too small, or a row made
\* under the same key since the read (unique index), rolls everything back.
Reserve(c) ==
    LET k == call[c].key IN
    /\ At(c, "reserve")
    /\ IF /\ wallet[call[c].user].balance >= call[c].n
          /\ resv[k].status = Account!Unmade
       THEN MakeReservation(k, call[c].n)
       ELSE UNCHANGED <<wallet, resv, ledger, keyLedger>>
    /\ Return(c)
    /\ UNCHANGED <<task, rowLock>>

\* attachReservationTask: one UPDATE by key, with no condition on the status.
\* It waits for the row lock, and the unique index refuses a task id that
\* another reservation of the user has.
Attach(k, t) ==
    /\ resv[k].status # Account!Unmade
    /\ rowLock[k] = None
    /\ ~\E j \in Key \ {k} : HasTask(j, Owner[k], t)
    /\ task' = [task EXCEPT ![k] = t]
    /\ UNCHANGED <<wallet, resv, ledger, keyLedger, rowLock, call>>

-----------------------------------------------------------------------------
(* settleReservation                                                       *)

BeginSettle(c, u, t, success, n) ==
    /\ At(c, "idle")
    /\ call' = [call EXCEPT ![c] =
                  [Idle EXCEPT !.user = u, !.task = t, !.n = n,
                     !.success = success, !.at = "settle_lock"]]
    /\ UNCHANGED <<rows, rowLock>>

\* The row read without FOR UPDATE.
SettleReadUnlocked(c) ==
    /\ At(c, "settle_lock")
    /\ \/ /\ ~\E k \in Key : HasTask(k, call[c].user, call[c].task)
          /\ Return(c)
       \/ \E k \in Key :
            /\ HasTask(k, call[c].user, call[c].task)
            /\ IF resv[k].status \in Account!Terminal
               THEN Return(c)
               ELSE call' = [call EXCEPT ![c].at = "settle", ![c].key = k]
    /\ UNCHANGED <<rows, rowLock>>

\* SELECT ... FOR UPDATE by task: no row and a row settled before end the
\* call; a row another transaction holds is waited for.
SettleLock(c) ==
    /\ At(c, "settle_lock")
    /\ \/ /\ ~\E k \in Key : HasTask(k, call[c].user, call[c].task)
          /\ Return(c)
          /\ UNCHANGED rowLock
       \/ \E k \in Key :
            /\ HasTask(k, call[c].user, call[c].task)
            /\ rowLock[k] = None
            /\ IF resv[k].status \in Account!Terminal
               THEN Return(c) /\ UNCHANGED rowLock
               ELSE /\ call' = [call EXCEPT ![c].at = "settle", ![c].key = k]
                    /\ Locks(c, k)
    /\ UNCHANGED rows

SettleRow(k, outcome, actual) ==
    /\ wallet' = [wallet EXCEPT ![Owner[k]] =
                    Account!Settled(@, resv[k].reserved, actual)]
    /\ resv' = [resv EXCEPT ![k].status = outcome, ![k].settled = actual]
    /\ PostReservationRow(k, resv[k].reserved - actual)
    /\ UNCHANGED task

\* The extra capture is posted but not taken from the balance.
SettleForgetsExtra(c) ==
    LET k == call[c].key
        actual == IF call[c].success THEN call[c].n ELSE 0
        extra == IF actual > resv[k].reserved THEN actual - resv[k].reserved ELSE 0
    IN  /\ At(c, "settle")
        /\ wallet' = [wallet EXCEPT ![Owner[k]].balance = @ + (resv[k].reserved - actual) + extra,
                                    ![Owner[k]].spent = @ + actual]
        /\ resv' = [resv EXCEPT ![k].status = IF call[c].success THEN Account!Captured
                                              ELSE Account!Released,
                                ![k].settled = actual]
        /\ PostReservationRow(k, resv[k].reserved - actual)
        /\ UNCHANGED task
        /\ Unlocks(c)
        /\ Return(c)

\* Lock the wallet, move the difference between what was reserved and what
\* it cost, close the reservation, commit.
Settle(c) ==
    /\ At(c, "settle")
    /\ SettleRow(call[c].key,
                 IF call[c].success THEN Account!Captured ELSE Account!Released,
                 IF call[c].success THEN call[c].n ELSE 0)
    /\ Unlocks(c)
    /\ Return(c)

-----------------------------------------------------------------------------
(* releaseReservationByKey                                                 *)

BeginRelease(c, k) ==
    /\ At(c, "idle")
    /\ call' = [call EXCEPT ![c] =
                  [Idle EXCEPT !.user = Owner[k], !.key = k,
                     !.at = "release_read"]]
    /\ UNCHANGED <<rows, rowLock>>

\* An unlocked read decides whether the row is released through its task id
\* (as a failed settlement) or by its key.
ReleaseRead(c) ==
    LET k == call[c].key IN
    /\ At(c, "release_read")
    /\ IF resv[k].status = Account!Unmade
       THEN Return(c)
       ELSE IF task[k] # None
            THEN call' = [call EXCEPT ![c].at = "settle_lock", ![c].task = task[k]]
            ELSE Goto(c, "release_lock")
    /\ UNCHANGED <<rows, rowLock>>

\* A release that trusts the status it read without the lock.
ReleaseLockUnchecked(c) ==
    LET k == call[c].key IN
    /\ At(c, "release_lock")
    /\ rowLock[k] = None
    /\ Goto(c, "release") /\ Locks(c, k)
    /\ UNCHANGED rows

ReleaseLock(c) ==
    LET k == call[c].key IN
    /\ At(c, "release_lock")
    /\ rowLock[k] = None
    /\ IF resv[k].status # Account!Pending
       THEN Return(c) /\ UNCHANGED rowLock
       ELSE Goto(c, "release") /\ Locks(c, k)
    /\ UNCHANGED rows

Release(c) ==
    /\ At(c, "release")
    /\ SettleRow(call[c].key, Account!Released, 0)
    /\ Unlocks(c)
    /\ Return(c)

-----------------------------------------------------------------------------

\* The gateway process stops, or its connection to Postgres breaks: the open
\* transaction is rolled back with its row locks, what was committed stays.
Die(c) ==
    /\ ~At(c, "idle")
    /\ Return(c)
    /\ Unlocks(c)
    /\ UNCHANGED rows

Step(c) ==
    \/ WalletInsert(c) \/ WalletInitRow(c)
    \/ Consume(c) \/ Credit(c)
    \/ ReserveRead(c) \/ Reserve(c)
    \/ SettleLock(c) \/ Settle(c)
    \/ ReleaseRead(c) \/ ReleaseLock(c) \/ Release(c)

Next ==
    \/ \E c \in Call :
         \/ Step(c)
         \/ Die(c)
         \/ \E u \in User, n \in Amount : BeginConsume(c, u, n) \/ BeginCredit(c, u, n)
         \/ \E k \in Key, n \in Amount : BeginReserve(c, k, n)
         \/ \E u \in User, t \in Task, n \in Actual, success \in BOOLEAN :
              BeginSettle(c, u, t, success, n)
         \/ \E k \in Key : BeginRelease(c, k)
    \/ \E k \in Key, t \in Task : Attach(k, t)

Spec == Init /\ [][Next]_vars

-----------------------------------------------------------------------------
(* Properties                                                              *)

PendingOf(u) == {k \in Key : Owner[k] = u /\ resv[k].status = Account!Pending}

\* A row is locked by exactly the call that is about to settle it, and it is
\* still pending: the status read under FOR UPDATE holds until the commit.
RowLockInv ==
    /\ \A c \in Call : call[c].at \in {"settle", "release"} =>
         /\ rowLock[call[c].key] = c
         /\ resv[call[c].key].status = Account!Pending
    /\ \A k \in Key : rowLock[k] # None =>
         /\ call[rowLock[k]].at \in {"settle", "release"}
         /\ call[rowLock[k]].key = k

\* A call past getOrCreateWalletByAppId finds a wallet.
WalletFound ==
    \A c \in Call :
        call[c].at \in {"wallet_init_row", "consume", "credit", "reserve_read", "reserve"}
          => wallet[call[c].user].open

\* A wallet is opened once, and the one call that opened it still has to
\* write its ledger row.
OpenedOnce ==
    /\ \A c \in Call : call[c].at = "wallet_init_row" => ledger[call[c].user].init = 0
    /\ \A c, d \in Call :
         /\ call[c].at = "wallet_init_row" /\ call[d].at = "wallet_init_row"
         /\ call[c].user = call[d].user
         => c = d
    /\ \A u \in User :
         ~wallet[u].open => wallet[u] = Account!NoWallet /\ ledger[u].init = 0

\* A reservation belongs to an open wallet, and an absent one is blank.
RowsExist ==
    \A k \in Key :
        IF resv[k].status = Account!Unmade THEN resv[k] = Account!NoReservation
        ELSE wallet[Owner[k]].open

WalletRowInv == WalletFound /\ OpenedOnce /\ RowsExist

\* What makes a transaction's reads still true when it writes: the inductive
\* invariant behind the properties below.
IInv == RowLockInv /\ WalletRowInv

\* What a user was granted is either still in the balance, spent, or frozen
\* by the reservations that are pending right now; no interleaving of
\* reservePoints, settleReservation and releaseReservationByKey lets a point
\* be frozen without a pending row or returned twice.
FrozenIsPending ==
    \A u \in User :
        wallet[u].earned - wallet[u].spent - wallet[u].balance
            = SumFunctionOnSet([k \in Key |-> resv[k].reserved], PendingOf(u))

\* The balance is the sum of the user's ledger rows, the row of the initial
\* points (written in a statement of its own) counted as if it were there.
LedgerExplainsBalance ==
    \A u \in User :
        /\ wallet[u].balance = ledger[u].credit + ledger[u].consume + ledger[u].reservation
                                 + IF wallet[u].open THEN InitialPoints ELSE 0
        /\ ledger[u].init \in {0, IF wallet[u].open THEN InitialPoints ELSE 0}

\* The rows a reservation leaves in the ledger add up to what it took from
\* the user: all of it while pending, the captured cost or nothing after.
ReservationNet ==
    \A k \in Key :
        /\ keyLedger[k] = IF resv[k].status = Account!Pending
                          THEN -resv[k].reserved ELSE -resv[k].settled
        /\ resv[k].status = Account!Released => resv[k].settled = 0

\* The reservations captured for more than was reserved.
Exceeded(u) == {k \in Key : Owner[k] = u /\ resv[k].settled > resv[k].reserved}

\* A balance below zero is owed to captures that cost more than was
\* reserved: nothing else takes points a user does not have.
DebtIsExtraCapture ==
    \A u \in User :
        wallet[u].balance >=
            -SumFunctionOnSet([k \in Key |-> resv[k].settled - resv[k].reserved], Exceeded(u))

\* A reservation is settled at most once, in one step with the wallet: what
\* is spent, its outcome and its cost never change afterwards.
SettledOnce ==
    [][\A k \in Key :
         /\ resv[k].status \in Account!Terminal => resv'[k] = resv[k]
         /\ resv'[k] # resv[k] /\ resv[k].status = Account!Pending =>
              wallet'[Owner[k]].spent = wallet[Owner[k]].spent + resv'[k].settled]_vars

\* Seen through its wallets and reservations, the service takes one step of
\* PointsAccount at a time.
ImplementsAccount == Account!Spec
=============================================================================
