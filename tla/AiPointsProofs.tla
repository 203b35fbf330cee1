--------------------------- MODULE AiPointsProofs ---------------------------
(***************************************************************************)
(* Proofs about AiPoints: type correctness, the row-lock discipline, the   *)
(* ledger invariants, final settlement, and the refinement of              *)
(* PointsAccount, for any users, keys, tasks, calls and amounts.           *)
(***************************************************************************)
EXTENDS AiPoints, Sums

USE DEF Account!Wallet, Account!NoWallet, Account!Reservation,
        Account!NoReservation, Account!Unmade, Account!Pending,
        Account!Captured, Account!Released, Account!Terminal

LEMMA InitTypeOK == Init => TypeOK
  BY InitialPointsAssumption, OwnerAssumption
  DEF Init, TypeOK, Idle, CallState, Label, ArgumentsOK, LedgerSums

\* A call that returns, and a call that starts, has the arguments its label
\* asks for.
LEMMA IdleOK == Idle \in CallState /\ ArgumentsOK(Idle)
  BY DEF Idle, CallState, Label, ArgumentsOK

LEMMA ReturnOK ==
  ASSUME NEW c \in Call, TypeOK, Return(c)
  PROVE  call' \in [Call -> CallState] /\ \A d \in Call : ArgumentsOK(call'[d])
  BY IdleOK DEF Return, TypeOK

(* Each accounting entry maps a wallet row to a wallet row.                *)

LEMMA OpenedOK == Account!Opened \in Account!Wallet
  BY InitialPointsAssumption DEF Account!Opened

LEMMA EntryOK ==
  ASSUME NEW w \in Account!Wallet, NEW n \in Nat, NEW a \in Nat
  PROVE  /\ Account!Credited(w, n) \in Account!Wallet
         /\ Account!Consumed(w, n) \in Account!Wallet
         /\ Account!Frozen(w, n) \in Account!Wallet
         /\ Account!Settled(w, n, a) \in Account!Wallet
  <1>1. w.balance \in Int /\ w.spent \in Nat /\ w.earned \in Nat
    OBVIOUS
  <1>2. w.balance + n \in Int /\ w.balance - n \in Int /\ w.balance + (n - a) \in Int
    BY <1>1
  <1>3. w.earned + n \in Nat /\ w.spent + n \in Nat /\ w.spent + a \in Nat
    BY <1>1
  <1> QED
    BY <1>2, <1>3 DEF Account!Credited, Account!Consumed, Account!Frozen, Account!Settled

LEMMA PostOK ==
  ASSUME TypeOK, NEW k \in Key, NEW d \in Int, PostReservationRow(k, d)
  PROVE  ledger' \in [User -> LedgerSums] /\ keyLedger' \in [Key -> Int]
  <1>1. Owner[k] \in User
    BY OwnerAssumption
  <1>2. ledger[Owner[k]] \in LedgerSums /\ keyLedger[k] \in Int
    BY <1>1 DEF TypeOK
  <1>3. ledger[Owner[k]].reservation + d \in Int /\ keyLedger[k] + d \in Int
    BY <1>2 DEF LedgerSums
  <1>4. [ledger[Owner[k]] EXCEPT !.reservation = @ + d] \in LedgerSums
    BY <1>2, <1>3 DEF LedgerSums
  <1> QED
    BY <1>3, <1>4 DEF PostReservationRow, TypeOK

LEMMA BeginTypeOK ==
  ASSUME TypeOK, NEW c \in Call, NEW op \in {"consume", "credit", "reserve"},
         NEW u \in User, NEW k \in Key \cup {None}, NEW n \in Amount,
         op = "reserve" => k \in Key /\ u = Owner[k],
         Begin(c, op, u, k, n)
  PROVE  TypeOK'
  <1> DEFINE s == [Idle EXCEPT !.op = op, !.user = u, !.key = k, !.n = n,
                     !.at = IF wallet[u].open THEN AfterWallet(op) ELSE "wallet_insert"]
  <1>1. s \in CallState /\ ArgumentsOK(s)
    BY IdleOK, AmountAssumption DEF Idle, CallState, Label, ArgumentsOK, AfterWallet
  <1>2. call' = [call EXCEPT ![c] = s]
    BY DEF Begin
  <1>3. call' \in [Call -> CallState] /\ \A d \in Call : ArgumentsOK(call'[d])
    BY <1>1, <1>2 DEF TypeOK
  <1> QED
    BY <1>3 DEF TypeOK, Begin, rows

\* A call that only moves to another statement keeps its arguments.
LEMMA GotoOK ==
  ASSUME TypeOK, NEW c \in Call, NEW label \in Label, Goto(c, label),
         ArgumentsOK([call[c] EXCEPT !.at = label])
  PROVE  call' \in [Call -> CallState] /\ \A d \in Call : ArgumentsOK(call'[d])
  <1>1. [call[c] EXCEPT !.at = label] \in CallState
    BY DEF TypeOK, CallState
  <1> QED
    BY <1>1 DEF TypeOK, Goto

LEMMA AfterWalletOK ==
  ASSUME TypeOK, NEW c \in Call, call[c].at \in {"wallet_insert", "wallet_init_row"}
  PROVE  /\ AfterWallet(call[c].op) \in Label
         /\ ArgumentsOK([call[c] EXCEPT !.at = AfterWallet(call[c].op)])
         /\ ArgumentsOK([call[c] EXCEPT !.at = "wallet_init_row"])
  BY DEF TypeOK, CallState, ArgumentsOK, AfterWallet, Label

LEMMA WalletInsertTypeOK ==
  ASSUME TypeOK, NEW c \in Call, WalletInsert(c)
  PROVE  TypeOK'
  <1>1. call[c].at = "wallet_insert" /\ call[c].user \in User
    BY DEF WalletInsert, At, TypeOK, ArgumentsOK
  <1>2. wallet' \in [User -> Account!Wallet]
    BY <1>1, OpenedOK DEF WalletInsert, TypeOK
  <1>3. Goto(c, AfterWallet(call[c].op)) \/ Goto(c, "wallet_init_row")
    BY DEF WalletInsert
  <1>4. call' \in [Call -> CallState] /\ \A d \in Call : ArgumentsOK(call'[d])
    BY <1>1, <1>3, AfterWalletOK, GotoOK DEF Label
  <1> QED
    BY <1>2, <1>4 DEF TypeOK, WalletInsert

LEMMA WalletInitRowTypeOK ==
  ASSUME TypeOK, NEW c \in Call, WalletInitRow(c)
  PROVE  TypeOK'
  <1>1. call[c].at = "wallet_init_row" /\ call[c].user \in User
    BY DEF WalletInitRow, At, TypeOK, ArgumentsOK
  <1>2. ledger[call[c].user] \in LedgerSums
    BY <1>1 DEF TypeOK
  <1>3. ledger[call[c].user].init + InitialPoints \in Int
    BY <1>2, InitialPointsAssumption DEF LedgerSums
  <1>4. ledger' \in [User -> LedgerSums]
    BY <1>1, <1>2, <1>3 DEF WalletInitRow, TypeOK, LedgerSums
  <1>5. call' \in [Call -> CallState] /\ \A d \in Call : ArgumentsOK(call'[d])
    BY <1>1, AfterWalletOK, GotoOK DEF WalletInitRow
  <1> QED
    BY <1>4, <1>5 DEF TypeOK, WalletInitRow


LEMMA ConsumeTypeOK ==
  ASSUME TypeOK, NEW c \in Call, Consume(c)
  PROVE  TypeOK'
  <1>1. call[c].user \in User /\ call[c].n \in Nat
    BY AmountAssumption DEF Consume, At, TypeOK, ArgumentsOK, CallState
  <1>2. Account!Consumed(wallet[call[c].user], call[c].n) \in Account!Wallet
    BY <1>1, EntryOK DEF TypeOK
  <1>3. wallet' \in [User -> Account!Wallet]
    BY <1>1, <1>2 DEF Consume, TypeOK
  <1>4. ledger[call[c].user] \in LedgerSums
    BY <1>1 DEF TypeOK
  <1>5. ledger[call[c].user].consume - call[c].n \in Int
    BY <1>1, <1>4 DEF LedgerSums
  <1>6. ledger' \in [User -> LedgerSums]
    BY <1>1, <1>4, <1>5 DEF Consume, TypeOK, LedgerSums
  <1> QED
    BY <1>3, <1>6, ReturnOK DEF TypeOK, Consume

LEMMA CreditTypeOK ==
  ASSUME TypeOK, NEW c \in Call, Credit(c)
  PROVE  TypeOK'
  <1>1. call[c].user \in User /\ call[c].n \in Nat
    BY DEF Credit, At, TypeOK, ArgumentsOK, CallState
  <1>2. Account!Credited(wallet[call[c].user], call[c].n) \in Account!Wallet
    BY <1>1, EntryOK DEF TypeOK
  <1>3. wallet' \in [User -> Account!Wallet]
    BY <1>1, <1>2 DEF Credit, TypeOK
  <1>4. ledger[call[c].user] \in LedgerSums
    BY <1>1 DEF TypeOK
  <1>5. ledger[call[c].user].credit + call[c].n \in Int
    BY <1>1, <1>4 DEF LedgerSums
  <1>6. ledger' \in [User -> LedgerSums]
    BY <1>1, <1>4, <1>5 DEF Credit, TypeOK, LedgerSums
  <1> QED
    BY <1>3, <1>6, ReturnOK DEF TypeOK, Credit

LEMMA ReserveReadTypeOK ==
  ASSUME TypeOK, NEW c \in Call, ReserveRead(c)
  PROVE  TypeOK'
  <1>1. ArgumentsOK([call[c] EXCEPT !.at = "reserve"])
    BY DEF ReserveRead, At, TypeOK, CallState, ArgumentsOK
  <1>2. call' \in [Call -> CallState] /\ \A d \in Call : ArgumentsOK(call'[d])
    BY <1>1, GotoOK, ReturnOK DEF ReserveRead, Label
  <1> QED
    BY <1>2 DEF TypeOK, ReserveRead, rows

LEMMA ReserveTypeOK ==
  ASSUME TypeOK, NEW c \in Call, Reserve(c)
  PROVE  TypeOK'
  <1> DEFINE k == call[c].key
             n == call[c].n
  <1>1. k \in Key /\ Owner[k] \in User /\ n \in Nat /\ -n \in Int
    BY OwnerAssumption DEF Reserve, At, TypeOK, ArgumentsOK, CallState
  <1>2. Account!Frozen(wallet[Owner[k]], n) \in Account!Wallet
    BY <1>1, EntryOK DEF TypeOK
  <1>3. CASE MakeReservation(k, n)
    <2>1. wallet' \in [User -> Account!Wallet]
      BY <1>1, <1>2, <1>3 DEF MakeReservation, TypeOK
    <2>2. resv' \in [Key -> Account!Reservation]
      BY <1>1, <1>3 DEF MakeReservation, TypeOK
    <2>3. ledger' \in [User -> LedgerSums] /\ keyLedger' \in [Key -> Int]
      BY <1>1, <1>3, PostOK DEF MakeReservation
    <2> QED
      BY <2>1, <2>2, <2>3, ReturnOK DEF TypeOK, Reserve
  <1>4. CASE UNCHANGED <<wallet, resv, ledger, keyLedger>>
    BY <1>4, ReturnOK DEF TypeOK, Reserve
  <1> QED
    BY <1>3, <1>4 DEF Reserve

LEMMA AttachTypeOK ==
  ASSUME TypeOK, NEW k \in Key, NEW t \in Task, Attach(k, t)
  PROVE  TypeOK'
  BY DEF TypeOK, Attach

LEMMA BeginSettleTypeOK ==
  ASSUME TypeOK, NEW c \in Call, NEW u \in User, NEW t \in Task,
         NEW success \in BOOLEAN, NEW n \in Actual, BeginSettle(c, u, t, success, n)
  PROVE  TypeOK'
  <1> DEFINE s == [Idle EXCEPT !.user = u, !.task = t, !.n = n,
                     !.success = success, !.at = "settle_lock"]
  <1>1. s \in CallState /\ ArgumentsOK(s)
    BY ActualAssumption DEF Idle, CallState, Label, ArgumentsOK
  <1>2. call' = [call EXCEPT ![c] = s]
    BY DEF BeginSettle
  <1> QED
    BY <1>1, <1>2 DEF TypeOK, BeginSettle, rows

LEMMA UnlocksOK ==
  ASSUME TypeOK, NEW c \in Call, Unlocks(c)
  PROVE  rowLock' \in [Key -> Call \cup {None}]
  BY DEF TypeOK, Unlocks

LEMMA SettleLockTypeOK ==
  ASSUME TypeOK, NEW c \in Call, SettleLock(c)
  PROVE  TypeOK'
  <1>1. CASE Return(c) /\ UNCHANGED rowLock
    BY <1>1, ReturnOK DEF TypeOK, SettleLock, rows
  <1>2. ASSUME NEW k \in Key, HasTask(k, call[c].user, call[c].task), Locks(c, k),
               call' = [call EXCEPT ![c].at = "settle", ![c].key = k]
        PROVE  TypeOK'
    <2> DEFINE s == [call[c] EXCEPT !.at = "settle", !.key = k]
    <2>1. s \in CallState
      BY DEF TypeOK, CallState, Label
    <2>a. /\ s.at = "settle" /\ s.key = k /\ s.user = call[c].user
          /\ s.op = call[c].op /\ s.n = call[c].n
      BY DEF TypeOK, CallState
    <2>b. call[c].at = "settle_lock" /\ ArgumentsOK(call[c]) /\ call[c].user = Owner[k]
      BY <1>2 DEF SettleLock, At, TypeOK, HasTask
    <2>2. ArgumentsOK(s)
      BY <2>a, <2>b DEF ArgumentsOK
    <2>3. call' = [call EXCEPT ![c] = s]
      BY <1>2 DEF TypeOK, CallState
    <2> QED
      BY <1>2, <2>1, <2>2, <2>3 DEF TypeOK, SettleLock, Locks, rows
  <1> QED
    BY <1>1, <1>2 DEF SettleLock

LEMMA SettleRowOK ==
  ASSUME TypeOK, NEW k \in Key, NEW outcome \in Account!Terminal,
         NEW actual \in Nat, SettleRow(k, outcome, actual)
  PROVE  /\ wallet' \in [User -> Account!Wallet]
         /\ resv' \in [Key -> Account!Reservation]
         /\ ledger' \in [User -> LedgerSums]
         /\ keyLedger' \in [Key -> Int]
  <1>1. Owner[k] \in User /\ resv[k] \in Account!Reservation
    BY OwnerAssumption DEF TypeOK
  <1>2. Account!Settled(wallet[Owner[k]], resv[k].reserved, actual) \in Account!Wallet
    BY <1>1, EntryOK DEF TypeOK
  <1>3. resv[k].reserved - actual \in Int
    BY <1>1
  <1>4. wallet' \in [User -> Account!Wallet]
    BY <1>1, <1>2 DEF SettleRow, TypeOK
  <1>5. resv' \in [Key -> Account!Reservation]
    BY <1>1 DEF SettleRow, TypeOK
  <1> QED
    BY <1>3, <1>4, <1>5, PostOK DEF SettleRow

LEMMA SettleTypeOK ==
  ASSUME TypeOK, NEW c \in Call, Settle(c)
  PROVE  TypeOK'
  <1>1. call[c].key \in Key /\ call[c].n \in Nat
    BY ActualAssumption DEF Settle, At, TypeOK, ArgumentsOK, CallState
  <1> DEFINE outcome == IF call[c].success THEN Account!Captured ELSE Account!Released
             actual == IF call[c].success THEN call[c].n ELSE 0
  <1>2. outcome \in Account!Terminal /\ actual \in Nat /\ SettleRow(call[c].key, outcome, actual)
    BY <1>1 DEF Settle
  <1> HIDE DEF outcome, actual
  <1>3. UNCHANGED task /\ Unlocks(c) /\ Return(c)
    BY DEF Settle, SettleRow
  <1> QED
    BY <1>1, <1>2, <1>3, SettleRowOK, UnlocksOK, ReturnOK DEF TypeOK

LEMMA BeginReleaseTypeOK ==
  ASSUME TypeOK, NEW c \in Call, NEW k \in Key, BeginRelease(c, k)
  PROVE  TypeOK'
  <1> DEFINE s == [Idle EXCEPT !.user = Owner[k], !.key = k, !.at = "release_read"]
  <1>1. s \in CallState /\ ArgumentsOK(s)
    BY OwnerAssumption DEF Idle, CallState, Label, ArgumentsOK
  <1>2. call' = [call EXCEPT ![c] = s]
    BY DEF BeginRelease
  <1> QED
    BY <1>1, <1>2 DEF TypeOK, BeginRelease, rows

LEMMA ReleaseReadTypeOK ==
  ASSUME TypeOK, NEW c \in Call, ReleaseRead(c)
  PROVE  TypeOK'
  <1>1. call[c].key \in Key
    BY DEF ReleaseRead, At, TypeOK, ArgumentsOK
  <1>2. CASE Return(c)
    BY <1>2, ReturnOK DEF TypeOK, ReleaseRead, rows
  <1>3. CASE Goto(c, "release_lock")
    <2>1. ArgumentsOK([call[c] EXCEPT !.at = "release_lock"])
      BY DEF ReleaseRead, At, TypeOK, CallState, ArgumentsOK
    <2> QED
      BY <1>3, <2>1, GotoOK DEF TypeOK, ReleaseRead, rows, Label
  <1>4. CASE /\ task[call[c].key] # None
             /\ call' = [call EXCEPT ![c].at = "settle_lock", ![c].task = task[call[c].key]]
    <2> DEFINE s == [call[c] EXCEPT !.at = "settle_lock", !.task = task[call[c].key]]
    <2>1. s \in CallState
      BY <1>1 DEF TypeOK, CallState, Label
    <2>a. /\ s.at = "settle_lock" /\ s.key = call[c].key /\ s.user = call[c].user
          /\ s.op = call[c].op /\ s.n = call[c].n /\ s.task = task[call[c].key]
      BY DEF TypeOK, CallState
    <2>b. call[c].at = "release_read" /\ ArgumentsOK(call[c]) /\ s.task \in Task
      BY <1>1, <1>4, <2>a DEF ReleaseRead, At, TypeOK
    <2>2. ArgumentsOK(s)
      BY <1>1, <2>a, <2>b, OwnerAssumption DEF ArgumentsOK
    <2>3. call' = [call EXCEPT ![c] = s]
      BY <1>4 DEF TypeOK, CallState
    <2> QED
      BY <2>1, <2>2, <2>3 DEF TypeOK, ReleaseRead, rows
  <1> QED
    BY <1>2, <1>3, <1>4 DEF ReleaseRead

LEMMA ReleaseLockTypeOK ==
  ASSUME TypeOK, NEW c \in Call, ReleaseLock(c)
  PROVE  TypeOK'
  <1>1. call[c].key \in Key
    BY DEF ReleaseLock, At, TypeOK, ArgumentsOK
  <1>2. ArgumentsOK([call[c] EXCEPT !.at = "release"])
    BY DEF ReleaseLock, At, TypeOK, CallState, ArgumentsOK
  <1>3. call' \in [Call -> CallState] /\ \A d \in Call : ArgumentsOK(call'[d])
    BY <1>2, GotoOK, ReturnOK DEF ReleaseLock, Label
  <1>4. rowLock' \in [Key -> Call \cup {None}]
    BY <1>1 DEF TypeOK, ReleaseLock, Locks
  <1> QED
    BY <1>3, <1>4 DEF TypeOK, ReleaseLock, rows

LEMMA ReleaseTypeOK ==
  ASSUME TypeOK, NEW c \in Call, Release(c)
  PROVE  TypeOK'
  <1>1. call[c].key \in Key
    BY DEF Release, At, TypeOK, ArgumentsOK
  <1>2. UNCHANGED task /\ Unlocks(c) /\ Return(c)
    BY DEF Release, SettleRow
  <1>3. SettleRow(call[c].key, Account!Released, 0)
    BY DEF Release
  <1> QED
    BY <1>1, <1>2, <1>3, SettleRowOK, UnlocksOK, ReturnOK DEF TypeOK

LEMMA DieTypeOK ==
  ASSUME TypeOK, NEW c \in Call, Die(c)
  PROVE  TypeOK'
  BY UnlocksOK, ReturnOK DEF TypeOK, Die, rows

LEMMA NextTypeOK == TypeOK /\ [Next]_vars => TypeOK'
  <1> SUFFICES ASSUME TypeOK, [Next]_vars
               PROVE  TypeOK'
    OBVIOUS
  <1>1. ASSUME NEW c \in Call, Step(c)
        PROVE  TypeOK'
    BY <1>1, WalletInsertTypeOK, WalletInitRowTypeOK, ConsumeTypeOK, CreditTypeOK,
       ReserveReadTypeOK, ReserveTypeOK, SettleLockTypeOK, SettleTypeOK,
       ReleaseReadTypeOK, ReleaseLockTypeOK, ReleaseTypeOK DEF Step
  <1>2. ASSUME NEW c \in Call, NEW u \in User, NEW n \in Amount,
               BeginConsume(c, u, n) \/ BeginCredit(c, u, n)
        PROVE  TypeOK'
    BY <1>2, BeginTypeOK DEF BeginConsume, BeginCredit
  <1>3. ASSUME NEW c \in Call, NEW k \in Key, NEW n \in Amount, BeginReserve(c, k, n)
        PROVE  TypeOK'
    BY <1>3, BeginTypeOK, OwnerAssumption DEF BeginReserve
  <1>4. CASE UNCHANGED vars
    BY <1>4 DEF vars, TypeOK
  <1> QED
    BY <1>1, <1>2, <1>3, <1>4, DieTypeOK, BeginSettleTypeOK, BeginReleaseTypeOK,
       AttachTypeOK DEF Next

\* Every reachable state is well typed, and a call has at each statement the
\* arguments that statement reads.
THEOREM TypeCorrect == Spec => []TypeOK
  BY InitTypeOK, NextTypeOK, PTL DEF Spec

-----------------------------------------------------------------------------
(* The row-lock discipline.                                                *)

Settling == {"settle", "release"}
Others(c) == \A d \in Call : d # c => call'[d] = call[d]

LEMMA QuietLocks ==
  ASSUME TypeOK, RowLockInv, NEW c \in Call, UNCHANGED rowLock, Others(c),
         call[c].at \notin Settling, call'[c].at \notin Settling,
         \A k \in Key : resv[k].status = Account!Pending => resv'[k].status = Account!Pending
  PROVE  RowLockInv'
  <1>1. ASSUME NEW d \in Call, call'[d].at \in Settling
        PROVE  rowLock'[call'[d].key] = d /\ resv'[call'[d].key].status = Account!Pending
    <2>1. call'[d] = call[d]
      BY <1>1 DEF Others
    <2>2. call[d].key \in Key
      BY <1>1, <2>1 DEF TypeOK, ArgumentsOK, Settling
    <2> QED
      BY <1>1, <2>1, <2>2 DEF RowLockInv, Settling
  <1>2. ASSUME NEW k \in Key, rowLock'[k] # None
        PROVE  call'[rowLock'[k]].at \in Settling /\ call'[rowLock'[k]].key = k
    <2>1. rowLock[k] \in Call
      BY <1>2 DEF TypeOK
    <2>2. call[rowLock[k]].at \in Settling /\ call[rowLock[k]].key = k
      BY <1>2 DEF RowLockInv, Settling
    <2> QED
      BY <2>1, <2>2 DEF Others
  <1> QED
    BY <1>1, <1>2 DEF RowLockInv, Settling

LEMMA TakeLock ==
  ASSUME TypeOK, RowLockInv, NEW c \in Call, NEW k \in Key, Locks(c, k), Others(c),
         rowLock[k] = None, call[c].at \notin Settling,
         call'[c].at \in Settling, call'[c].key = k,
         resv[k].status = Account!Pending, UNCHANGED resv
  PROVE  RowLockInv'
  <1> USE NoneAssumption
  <1>1. rowLock' = [rowLock EXCEPT ![k] = c] /\ rowLock \in [Key -> Call \cup {None}]
    BY DEF Locks, TypeOK
  <1>2. ASSUME NEW d \in Call, call'[d].at \in Settling
        PROVE  rowLock'[call'[d].key] = d /\ resv'[call'[d].key].status = Account!Pending
    <2>1. CASE d = c
      BY <1>1, <2>1
    <2>2. CASE d # c
      <3>1. call'[d] = call[d] /\ rowLock[call[d].key] = d
        BY <1>2, <2>2 DEF Others, RowLockInv, Settling
      <3>2. call[d].key \in Key /\ call[d].key # k
        BY <1>2, <3>1 DEF TypeOK, ArgumentsOK, Settling
      <3> QED
        BY <1>1, <1>2, <3>1, <3>2 DEF RowLockInv, Settling
    <2> QED
      BY <2>1, <2>2
  <1>3. ASSUME NEW j \in Key, rowLock'[j] # None
        PROVE  call'[rowLock'[j]].at \in Settling /\ call'[rowLock'[j]].key = j
    <2>1. CASE j = k
      BY <1>1, <2>1
    <2>2. CASE j # k
      <3>1. rowLock'[j] = rowLock[j] /\ rowLock[j] \in Call
        BY <1>1, <1>3, <2>2
      <3>2. call[rowLock[j]].at \in Settling /\ call[rowLock[j]].key = j
        BY <1>3, <3>1 DEF RowLockInv, Settling
      <3> QED
        BY <3>1, <3>2 DEF Others
    <2> QED
      BY <2>1, <2>2
  <1> QED
    BY <1>2, <1>3 DEF RowLockInv, Settling

\* Returning and rolling back both drop every lock of the call; only a row
\* the call had locked may have changed.
LEMMA DropLocks ==
  ASSUME TypeOK, RowLockInv, NEW c \in Call, Unlocks(c), Others(c), call'[c].at = "idle",
         \A k \in Key : rowLock[k] # c => resv'[k] = resv[k]
  PROVE  RowLockInv'
  <1> USE NoneAssumption
  <1>1. ASSUME NEW d \in Call, call'[d].at \in Settling
        PROVE  rowLock'[call'[d].key] = d /\ resv'[call'[d].key].status = Account!Pending
    <2>1. d # c
      BY <1>1 DEF Settling
    <2>2. call'[d] = call[d]
      BY <2>1 DEF Others
    <2>3. call[d].key \in Key /\ rowLock[call[d].key] = d
      BY <1>1, <2>2 DEF RowLockInv, TypeOK, ArgumentsOK, Settling
    <2>4. rowLock'[call[d].key] = d /\ resv'[call[d].key] = resv[call[d].key]
      BY <2>1, <2>3 DEF Unlocks
    <2> QED
      BY <1>1, <2>2, <2>4 DEF RowLockInv, Settling
  <1>2. ASSUME NEW k \in Key, rowLock'[k] # None
        PROVE  call'[rowLock'[k]].at \in Settling /\ call'[rowLock'[k]].key = k
    <2>1. rowLock'[k] = rowLock[k] /\ rowLock[k] # c /\ rowLock[k] \in Call
      BY <1>2 DEF Unlocks, TypeOK
    <2>2. call[rowLock[k]].at \in Settling /\ call[rowLock[k]].key = k
      BY <1>2, <2>1 DEF RowLockInv, Settling
    <2> QED
      BY <2>1, <2>2 DEF Others
  <1> QED
    BY <1>1, <1>2 DEF RowLockInv, Settling

\* How the steps of a call move its control.
LEMMA OthersKept ==
  ASSUME TypeOK, NEW c \in Call, Step(c) \/ Die(c)
  PROVE  Others(c)
  BY DEF Others, TypeOK, Step, Die, WalletInsert, WalletInitRow, Consume, Credit, ReserveRead,
         Reserve, SettleLock, Settle, ReleaseRead, ReleaseLock, Release, Goto, Return

LEMMA LockQuietStep ==
  ASSUME TypeOK, RowLockInv, NEW c \in Call,
         \/ WalletInsert(c) \/ WalletInitRow(c) \/ Consume(c) \/ Credit(c)
         \/ ReserveRead(c) \/ Reserve(c) \/ ReleaseRead(c)
  PROVE  RowLockInv'
  <1>1. Others(c) /\ UNCHANGED rowLock
    BY OthersKept DEF Step, WalletInsert, WalletInitRow, Consume, Credit, ReserveRead,
                      Reserve, ReleaseRead
  <1>2. call[c].at \notin Settling
    BY DEF Settling, At, WalletInsert, WalletInitRow, Consume, Credit, ReserveRead,
           Reserve, ReleaseRead
  <1>3. call'[c].at \notin Settling
    <2>1. call[c].at \in {"wallet_insert", "wallet_init_row"}
            => AfterWallet(call[c].op) \notin Settling
      BY DEF TypeOK, CallState, AfterWallet, Settling
    <2> QED
      BY <2>1 DEF Settling, TypeOK, CallState, At, Goto, Return, Idle, WalletInsert,
         WalletInitRow, Consume, Credit, ReserveRead, Reserve, ReleaseRead
  <1>4. \A k \in Key : resv[k].status = Account!Pending => resv'[k].status = Account!Pending
    <2>1. CASE UNCHANGED resv
      BY <2>1
    <2>2. CASE /\ resv[call[c].key].status = Account!Unmade
               /\ MakeReservation(call[c].key, call[c].n)
      BY <2>2 DEF MakeReservation, TypeOK
    <2> QED
      BY <2>1, <2>2 DEF WalletInsert, WalletInitRow, Consume, Credit, ReserveRead,
                        Reserve, ReleaseRead, rows
  <1> QED
    BY <1>1, <1>2, <1>3, <1>4, QuietLocks

LEMMA LockTakenStep ==
  ASSUME TypeOK, RowLockInv, NEW c \in Call, SettleLock(c) \/ ReleaseLock(c)
  PROVE  RowLockInv'
  <1>1. Others(c) /\ UNCHANGED resv /\ call[c].at \notin Settling
    BY OthersKept DEF Step, SettleLock, ReleaseLock, rows, At, Settling
  <1>2. CASE Return(c) /\ UNCHANGED rowLock
    <2>1. call'[c].at \notin Settling
      BY <1>2 DEF Return, TypeOK, Idle, Settling
    <2> QED
      BY <1>1, <1>2, <2>1, QuietLocks
  <1>3. CASE SettleLock(c) /\ ~(Return(c) /\ UNCHANGED rowLock)
    <2>1. PICK k \in Key : /\ HasTask(k, call[c].user, call[c].task)
                           /\ rowLock[k] = None
                           /\ resv[k].status \notin Account!Terminal
                           /\ call' = [call EXCEPT ![c].at = "settle", ![c].key = k]
                           /\ Locks(c, k)
      BY <1>3 DEF SettleLock
    <2>2. resv[k].status = Account!Pending
      BY <2>1 DEF TypeOK, HasTask
    <2>3. call'[c].at \in Settling /\ call'[c].key = k
      BY <2>1 DEF TypeOK, CallState, Settling
    <2> QED
      BY <1>1, <2>1, <2>2, <2>3, TakeLock
  <1>4. CASE ReleaseLock(c) /\ ~(Return(c) /\ UNCHANGED rowLock)
    <2>1. /\ call[c].key \in Key
          /\ rowLock[call[c].key] = None
          /\ resv[call[c].key].status = Account!Pending
          /\ Goto(c, "release") /\ Locks(c, call[c].key)
      BY <1>4 DEF ReleaseLock, At, TypeOK, ArgumentsOK
    <2>2. call'[c].at \in Settling /\ call'[c].key = call[c].key
      BY <2>1 DEF TypeOK, CallState, Settling, Goto
    <2> QED
      BY <1>1, <2>1, <2>2, TakeLock
  <1> QED
    BY <1>2, <1>3, <1>4

LEMMA LockDroppedStep ==
  ASSUME TypeOK, RowLockInv, NEW c \in Call, Settle(c) \/ Release(c) \/ Die(c)
  PROVE  RowLockInv'
  <1>1. Others(c) /\ Unlocks(c) /\ call'[c].at = "idle"
    BY OthersKept DEF Step, Settle, Release, Die, Return, TypeOK, Idle
  <1>2. \A k \in Key : rowLock[k] # c => resv'[k] = resv[k]
    <2>1. CASE Die(c)
      BY <2>1 DEF Die, rows
    <2>2. CASE Settle(c) \/ Release(c)
      <3>1. call[c].key \in Key /\ rowLock[call[c].key] = c
        BY <2>2 DEF Settle, Release, At, RowLockInv, TypeOK, ArgumentsOK
      <3>2. \A k \in Key : k # call[c].key => resv'[k] = resv[k]
        BY <2>2 DEF Settle, Release, SettleRow, TypeOK
      <3> QED
        BY <3>1, <3>2
    <2> QED
      BY <2>1, <2>2
  <1> QED
    BY <1>1, <1>2, DropLocks

LEMMA LockBeginStep ==
  ASSUME TypeOK, RowLockInv, NEW c \in Call, call[c].at = "idle", Others(c),
         UNCHANGED <<rows, rowLock>>, call'[c].at \notin Settling
  PROVE  RowLockInv'
  BY QuietLocks DEF rows, Settling

LEMMA NextRowLock == TypeOK /\ RowLockInv /\ [Next]_vars => RowLockInv'
  <1> SUFFICES ASSUME TypeOK, RowLockInv, [Next]_vars
               PROVE  RowLockInv'
    OBVIOUS
  <1>1. ASSUME NEW c \in Call, Step(c) \/ Die(c)
        PROVE  RowLockInv'
    BY <1>1, LockQuietStep, LockTakenStep, LockDroppedStep DEF Step
  <1>2. ASSUME NEW c \in Call, NEW op \in {"consume", "credit", "reserve"},
               NEW u, NEW k, NEW n, Begin(c, op, u, k, n)
        PROVE  RowLockInv'
    <2>1. call'[c].at \notin Settling /\ Others(c)
      BY <1>2 DEF Begin, TypeOK, Idle, AfterWallet, Settling, Others
    <2> QED
      BY <1>2, <2>1, LockBeginStep DEF Begin, At
  <1>3. ASSUME NEW c \in Call, NEW u \in User, NEW t \in Task, NEW n \in Actual,
               NEW success \in BOOLEAN, BeginSettle(c, u, t, success, n)
        PROVE  RowLockInv'
    <2>1. call'[c].at \notin Settling /\ Others(c)
      BY <1>3 DEF BeginSettle, TypeOK, Idle, Settling, Others
    <2> QED
      BY <1>3, <2>1, LockBeginStep DEF BeginSettle, At
  <1>4. ASSUME NEW c \in Call, NEW k \in Key, BeginRelease(c, k)
        PROVE  RowLockInv'
    <2>1. call'[c].at \notin Settling /\ Others(c)
      BY <1>4 DEF BeginRelease, TypeOK, Idle, Settling, Others
    <2> QED
      BY <1>4, <2>1, LockBeginStep DEF BeginRelease, At
  <1>5. ASSUME NEW k \in Key, NEW t \in Task, Attach(k, t)
        PROVE  RowLockInv'
    BY <1>5 DEF Attach, RowLockInv
  <1>6. CASE UNCHANGED vars
    BY <1>6 DEF vars, RowLockInv
  <1> QED
    BY <1>1, <1>2, <1>3, <1>4, <1>5, <1>6 DEF Next, BeginConsume, BeginCredit, BeginReserve

LEMMA InitRowLock == Init => RowLockInv
  BY DEF Init, RowLockInv, Idle

-----------------------------------------------------------------------------
(* Wallet rows and their initial ledger rows.                              *)

LEMMA InitWalletRow == Init => WalletRowInv
  BY OwnerAssumption DEF Init, WalletRowInv, WalletFound, OpenedOnce, RowsExist, Idle

\* A step that opens no wallet and writes no initial row keeps all three
\* parts, if the call that takes it does not arrive where it would write one.
LEMMA QuietWallets ==
  ASSUME TypeOK, WalletRowInv, NEW c \in Call, Others(c),
         \A u \in User : /\ wallet'[u].open = wallet[u].open
                         /\ ledger'[u].init = ledger[u].init
                         /\ ~wallet[u].open => wallet'[u] = wallet[u],
         call'[c].at # "wallet_init_row",
         call'[c].at \in {"consume", "credit", "reserve_read", "reserve"}
           => call'[c].user \in User /\ wallet[call'[c].user].open,
         \A k \in Key : resv'[k] = resv[k] \/
                          (resv'[k].status # Account!Unmade /\ wallet[Owner[k]].open)
  PROVE  WalletRowInv'
  <1>1. ASSUME NEW d \in Call,
               call'[d].at \in {"wallet_init_row", "consume", "credit", "reserve_read", "reserve"}
        PROVE  wallet'[call'[d].user].open
    <2>1. CASE d = c
      BY <1>1, <2>1
    <2>2. CASE d # c
      <3>1. call'[d] = call[d] /\ call[d].user \in User
        BY <1>1, <2>2 DEF Others, TypeOK, ArgumentsOK
      <3> QED
        BY <1>1, <3>1 DEF WalletRowInv, WalletFound
    <2> QED
      BY <2>1, <2>2
  <1>2. ASSUME NEW d \in Call, call'[d].at = "wallet_init_row"
        PROVE  call'[d] = call[d] /\ call[d].user \in User
    BY <1>2 DEF Others, TypeOK, ArgumentsOK
  <1>3. OpenedOnce'
    BY <1>2 DEF WalletRowInv, OpenedOnce
  <1>4. RowsExist'
    BY OwnerAssumption DEF WalletRowInv, RowsExist
  <1> QED
    BY <1>1, <1>3, <1>4 DEF WalletRowInv, WalletFound

LEMMA WalletInsertRows ==
  ASSUME TypeOK, WalletRowInv, NEW c \in Call, WalletInsert(c)
  PROVE  WalletRowInv'
  <1> DEFINE u == call[c].user
  <1>1. call[c].at = "wallet_insert" /\ u \in User /\ call[c].op # "none"
    BY DEF WalletInsert, At, TypeOK, ArgumentsOK
  <1>2. Others(c)
    BY OthersKept DEF Step
  <1>3. AfterWallet(call[c].op) \in {"consume", "credit", "reserve_read"}
    BY <1>1 DEF TypeOK, CallState, AfterWallet
  <1>4. CASE wallet[u].open
    <2>1. Goto(c, AfterWallet(call[c].op)) /\ UNCHANGED <<wallet, ledger, resv>>
      BY <1>4 DEF WalletInsert
    <2>2. call'[c].at = AfterWallet(call[c].op) /\ call'[c].user = u
      BY <2>1 DEF TypeOK, CallState, Goto
    <2> QED
      BY <1>1, <1>2, <1>3, <1>4, <2>1, <2>2, QuietWallets
  <1>5. CASE ~wallet[u].open
    <2>1. /\ wallet' = [wallet EXCEPT ![u] = Account!Opened]
          /\ UNCHANGED <<ledger, resv>>
      BY <1>5 DEF WalletInsert
    <2>2. wallet'[u].open /\ \A v \in User : v # u => wallet'[v] = wallet[v]
      BY <1>1, <2>1 DEF TypeOK, Account!Opened
    <2>3. call'[c].user = u
      BY DEF WalletInsert, Goto, TypeOK, CallState
    <2>4. ASSUME NEW d \in Call,
                 call'[d].at \in {"wallet_init_row", "consume", "credit", "reserve_read", "reserve"}
          PROVE  wallet'[call'[d].user].open /\ call'[d].user \in User
      <3>1. CASE d = c
        BY <1>1, <2>2, <2>3, <3>1
      <3>2. CASE d # c
        <4>1. call'[d] = call[d] /\ call[d].user \in User
          BY <1>2, <2>4, <3>2 DEF Others, TypeOK, ArgumentsOK
        <4> QED
          BY <2>2, <2>4, <4>1 DEF WalletRowInv, WalletFound
      <3> QED
        BY <3>1, <3>2
    <2>5. ASSUME NEW d \in Call, d # c, call'[d].at = "wallet_init_row"
          PROVE  call'[d] = call[d] /\ call[d].user # u
      BY <1>2, <1>5, <2>5 DEF Others, WalletRowInv, WalletFound
    <2>6. ledger[u].init = 0
      BY <1>1, <1>5 DEF WalletRowInv, OpenedOnce
    <2>7. OpenedOnce'
      <3>1. ASSUME NEW d \in Call, call'[d].at = "wallet_init_row"
            PROVE  ledger'[call'[d].user].init = 0
        BY <2>1, <2>3, <2>5, <2>6, <3>1 DEF WalletRowInv, OpenedOnce
      <3>2. ASSUME NEW d \in Call, NEW e \in Call, call'[d].at = "wallet_init_row",
                   call'[e].at = "wallet_init_row", call'[d].user = call'[e].user
            PROVE  d = e
        BY <2>3, <2>5, <3>2 DEF WalletRowInv, OpenedOnce
      <3>3. ASSUME NEW v \in User, ~wallet'[v].open
            PROVE  wallet'[v] = Account!NoWallet /\ ledger'[v].init = 0
        BY <2>1, <2>2, <3>3 DEF WalletRowInv, OpenedOnce
      <3> QED
        BY <3>1, <3>2, <3>3 DEF OpenedOnce
    <2>8. RowsExist'
      BY <2>1, <2>2, OwnerAssumption DEF WalletRowInv, RowsExist
    <2> QED
      BY <2>4, <2>7, <2>8 DEF WalletRowInv, WalletFound
  <1> QED
    BY <1>4, <1>5

LEMMA WalletInitRowRows ==
  ASSUME TypeOK, WalletRowInv, NEW c \in Call, WalletInitRow(c)
  PROVE  WalletRowInv'
  <1> DEFINE u == call[c].user
  <1>1. call[c].at = "wallet_init_row" /\ u \in User /\ call[c].op # "none" /\ wallet[u].open
    BY DEF WalletInitRow, At, TypeOK, ArgumentsOK, WalletRowInv, WalletFound
  <1>2. Others(c) /\ UNCHANGED <<wallet, resv>>
    BY OthersKept DEF Step, WalletInitRow
  <1>3. AfterWallet(call[c].op) \in {"consume", "credit", "reserve_read"}
    BY <1>1 DEF TypeOK, CallState, AfterWallet
  <1>4. call'[c].at = AfterWallet(call[c].op) /\ call'[c].user = u
    BY DEF WalletInitRow, TypeOK, CallState, Goto
  <1>5. \A v \in User : v # u => ledger'[v] = ledger[v]
    BY DEF WalletInitRow, TypeOK
  <1>6. ASSUME NEW d \in Call, call'[d].at = "wallet_init_row"
        PROVE  call'[d] = call[d] /\ call[d].user # u /\ call[d].user \in User
    <2>1. d # c
      BY <1>3, <1>4, <1>6
    <2>2. call'[d] = call[d]
      BY <1>2, <2>1 DEF Others
    <2> QED
      BY <1>1, <1>6, <2>1, <2>2 DEF WalletRowInv, OpenedOnce, TypeOK, ArgumentsOK
  <1>7. OpenedOnce'
    BY <1>1, <1>2, <1>5, <1>6 DEF WalletRowInv, OpenedOnce
  <1>8. WalletFound'
    BY <1>1, <1>2, <1>4 DEF WalletRowInv, WalletFound, Others
  <1> QED
    BY <1>2, <1>7, <1>8 DEF WalletRowInv, RowsExist

\* Posting to a user's reservation, consume or credit sum leaves the initial
\* rows alone; so does an entry on the wallet for the wallet being open.
LEMMA PostKeepsInit ==
  ASSUME TypeOK, NEW k \in Key, NEW d, PostReservationRow(k, d)
  PROVE  \A u \in User : ledger'[u].init = ledger[u].init
  BY OwnerAssumption DEF PostReservationRow, TypeOK, LedgerSums

LEMMA EntryKeepsOpen ==
  ASSUME NEW w \in Account!Wallet, NEW n, NEW a
  PROVE  /\ Account!Credited(w, n).open = w.open
         /\ Account!Consumed(w, n).open = w.open
         /\ Account!Frozen(w, n).open = w.open
         /\ Account!Settled(w, n, a).open = w.open
  BY DEF Account!Credited, Account!Consumed, Account!Frozen, Account!Settled

\* What every step but WalletInsert and WalletInitRow leaves in place.
KeepsWallets ==
    /\ \A u \in User : /\ wallet'[u].open = wallet[u].open
                       /\ ledger'[u].init = ledger[u].init
                       /\ ~wallet[u].open => wallet'[u] = wallet[u]
    /\ \A k \in Key : resv'[k] = resv[k] \/
                       (resv'[k].status # Account!Unmade /\ wallet[Owner[k]].open)

LEMMA ConsumeKeeps ==
  ASSUME TypeOK, WalletRowInv, NEW c \in Call, Consume(c) \/ Credit(c)
  PROVE  KeepsWallets
  <1>1. call[c].user \in User /\ wallet[call[c].user].open
    BY DEF Consume, Credit, At, TypeOK, ArgumentsOK, WalletRowInv, WalletFound
  <1>2. UNCHANGED resv
    BY DEF Consume, Credit
  <1> DEFINE v == call[c].user
             n == call[c].n
  <1>3. \A u \in User : ledger'[u].init = ledger[u].init
    <2>1. ledger \in [User -> LedgerSums] /\ ledger[v] \in LedgerSums
      BY <1>1 DEF TypeOK
    <2>2. \/ UNCHANGED ledger
          \/ ledger' = [ledger EXCEPT ![v] = [ledger[v] EXCEPT !.consume = @ - n]]
          \/ ledger' = [ledger EXCEPT ![v] = [ledger[v] EXCEPT !.credit = @ + n]]
      BY DEF Consume, Credit
    <2>3. /\ [ledger[v] EXCEPT !.consume = @ - n].init = ledger[v].init
          /\ [ledger[v] EXCEPT !.credit = @ + n].init = ledger[v].init
      BY <2>1 DEF LedgerSums
    <2> QED
      BY <1>1, <2>1, <2>2, <2>3
  <1>4. /\ wallet'[v].open = wallet[v].open
        /\ \A u \in User : u # v => wallet'[u] = wallet[u]
    <2>1. wallet \in [User -> Account!Wallet] /\ wallet[v] \in Account!Wallet
      BY <1>1 DEF TypeOK
    <2>2. /\ Account!Consumed(wallet[v], n).open = wallet[v].open
          /\ Account!Credited(wallet[v], n).open = wallet[v].open
      BY <2>1, EntryKeepsOpen
    <2>3. \/ UNCHANGED wallet
          \/ wallet' = [wallet EXCEPT ![v] = Account!Consumed(@, n)]
          \/ wallet' = [wallet EXCEPT ![v] = Account!Credited(@, n)]
      BY DEF Consume, Credit
    <2> QED
      BY <1>1, <2>1, <2>2, <2>3
  <1> QED
    BY <1>1, <1>2, <1>3, <1>4 DEF KeepsWallets

LEMMA ReserveKeeps ==
  ASSUME TypeOK, WalletRowInv, NEW c \in Call, Reserve(c)
  PROVE  KeepsWallets
  <1> DEFINE k == call[c].key
  <1>1. k \in Key /\ Owner[k] \in User /\ wallet[Owner[k]].open
    BY OwnerAssumption DEF Reserve, At, TypeOK, ArgumentsOK, WalletRowInv, WalletFound
  <1>2. CASE UNCHANGED <<wallet, resv, ledger, keyLedger>>
    BY <1>2 DEF KeepsWallets
  <1>3. CASE MakeReservation(k, call[c].n)
    <2>1. \A u \in User : ledger'[u].init = ledger[u].init
      BY <1>1, <1>3, PostKeepsInit DEF MakeReservation
    <2>2. /\ wallet'[Owner[k]].open = wallet[Owner[k]].open
          /\ \A u \in User : u # Owner[k] => wallet'[u] = wallet[u]
      BY <1>1, <1>3, EntryKeepsOpen DEF MakeReservation, TypeOK
    <2>3. \A j \in Key : resv'[j] = resv[j] \/
                         (resv'[j].status # Account!Unmade /\ wallet[Owner[j]].open)
      BY <1>1, <1>3 DEF MakeReservation, TypeOK
    <2> QED
      BY <1>1, <2>1, <2>2, <2>3 DEF KeepsWallets
  <1> QED
    BY <1>2, <1>3 DEF Reserve

LEMMA SettleKeeps ==
  ASSUME TypeOK, RowLockInv, WalletRowInv, NEW c \in Call, Settle(c) \/ Release(c)
  PROVE  KeepsWallets
  <1> DEFINE k == call[c].key
  <1>1. k \in Key /\ Owner[k] \in User /\ resv[k].status = Account!Pending
    BY OwnerAssumption DEF Settle, Release, At, TypeOK, ArgumentsOK, RowLockInv
  <1>2. wallet[Owner[k]].open
    BY <1>1 DEF WalletRowInv, RowsExist
  <1>3. PICK outcome \in Account!Terminal, actual \in Nat : SettleRow(k, outcome, actual)
    BY <1>1, ActualAssumption DEF Settle, Release, At, TypeOK, ArgumentsOK
  <1>4. \A u \in User : ledger'[u].init = ledger[u].init
    BY <1>1, <1>3, PostKeepsInit DEF SettleRow
  <1>5. /\ wallet'[Owner[k]].open = wallet[Owner[k]].open
        /\ \A u \in User : u # Owner[k] => wallet'[u] = wallet[u]
    BY <1>1, <1>3, EntryKeepsOpen DEF SettleRow, TypeOK
  <1>6. \A j \in Key : resv'[j] = resv[j] \/
                       (resv'[j].status # Account!Unmade /\ wallet[Owner[j]].open)
    BY <1>1, <1>2, <1>3 DEF SettleRow, TypeOK
  <1> QED
    BY <1>2, <1>4, <1>5, <1>6 DEF KeepsWallets

LEMMA UnchangedKeeps == UNCHANGED rows => KeepsWallets
  BY DEF rows, KeepsWallets

LEMMA ReadsKeep ==
  ASSUME NEW c \in Call, ReserveRead(c) \/ SettleLock(c) \/ ReleaseRead(c) \/ ReleaseLock(c) \/ Die(c)
  PROVE  UNCHANGED rows
  BY DEF ReserveRead, SettleLock, ReleaseRead, ReleaseLock, Die

LEMMA StepKeeps ==
  ASSUME TypeOK, RowLockInv, WalletRowInv, NEW c \in Call,
         Step(c) \/ Die(c), ~WalletInsert(c), ~WalletInitRow(c)
  PROVE  KeepsWallets
  BY ConsumeKeeps, ReserveKeeps, SettleKeeps, ReadsKeep, UnchangedKeeps DEF Step

LEMMA StepRows ==
  ASSUME TypeOK, RowLockInv, WalletRowInv, NEW c \in Call,
         Step(c) \/ Die(c), ~WalletInsert(c), ~WalletInitRow(c)
  PROVE  WalletRowInv'
  <1>1. KeepsWallets /\ Others(c)
    BY StepKeeps, OthersKept
  <1>2. \/ call'[c].at \notin {"wallet_init_row", "consume", "credit", "reserve_read", "reserve"}
        \/ call[c].at = "reserve_read" /\ Goto(c, "reserve")
    <2>1. Return(c) => call'[c].at = "idle"
      BY DEF Return, TypeOK, Idle
    <2>2. CASE SettleLock(c)
      <3>1. Return(c) \/ call'[c].at = "settle"
        BY <2>2 DEF SettleLock, TypeOK, CallState
      <3> QED
        BY <2>1, <3>1
    <2>3. CASE ReleaseRead(c)
      <3>1. Return(c) \/ call'[c].at \in {"release_lock", "settle_lock"}
        BY <2>3 DEF ReleaseRead, Goto, TypeOK, CallState
      <3> QED
        BY <2>1, <3>1
    <2>4. CASE ReleaseLock(c)
      <3>1. Return(c) \/ call'[c].at = "release"
        BY <2>4 DEF ReleaseLock, Goto, TypeOK, CallState
      <3> QED
        BY <2>1, <3>1
    <2>5. CASE Consume(c) \/ Credit(c) \/ Reserve(c) \/ Settle(c) \/ Release(c) \/ Die(c)
      BY <2>1, <2>5 DEF Consume, Credit, Reserve, Settle, Release, Die
    <2>6. CASE ReserveRead(c)
      BY <2>1, <2>6 DEF ReserveRead, At
    <2> QED
      BY <2>2, <2>3, <2>4, <2>5, <2>6 DEF Step
  <1>3. CASE call[c].at = "reserve_read" /\ Goto(c, "reserve")
    <2>1. call[c].user \in User /\ wallet[call[c].user].open
      BY <1>3 DEF TypeOK, ArgumentsOK, WalletRowInv, WalletFound
    <2>2. call'[c].at = "reserve" /\ call'[c].user = call[c].user
      BY <1>3 DEF Goto, TypeOK, CallState
    <2> QED
      BY <1>1, <2>1, <2>2, QuietWallets DEF KeepsWallets
  <1> QED
    BY <1>1, <1>2, <1>3, QuietWallets DEF KeepsWallets

LEMMA BeginRows ==
  ASSUME TypeOK, WalletRowInv, NEW c \in Call, NEW op \in {"consume", "credit", "reserve"},
         NEW u \in User, NEW k, NEW n, Begin(c, op, u, k, n)
  PROVE  WalletRowInv'
  <1>1. KeepsWallets /\ Others(c)
    BY UnchangedKeeps DEF Begin, Others, TypeOK
  <1>2. \/ call'[c].at \in {"consume", "credit", "reserve_read"} /\ wallet[u].open
        \/ call'[c].at = "wallet_insert"
    BY DEF Begin, TypeOK, Idle, AfterWallet
  <1>3. call'[c].user = u
    BY DEF Begin, TypeOK, Idle
  <1> QED
    BY <1>1, <1>2, <1>3, QuietWallets DEF KeepsWallets

LEMMA NextWalletRow == TypeOK /\ IInv /\ [Next]_vars => WalletRowInv'
  <1> SUFFICES ASSUME TypeOK, RowLockInv, WalletRowInv, [Next]_vars
               PROVE  WalletRowInv'
    BY DEF IInv
  <1>1. ASSUME NEW c \in Call, Step(c) \/ Die(c)
        PROVE  WalletRowInv'
    BY <1>1, WalletInsertRows, WalletInitRowRows, StepRows
  <1>2. ASSUME NEW c \in Call, NEW u \in User, NEW n \in Amount,
               BeginConsume(c, u, n) \/ BeginCredit(c, u, n)
        PROVE  WalletRowInv'
    BY <1>2, BeginRows DEF BeginConsume, BeginCredit
  <1>3. ASSUME NEW c \in Call, NEW k \in Key, NEW n \in Amount, BeginReserve(c, k, n)
        PROVE  WalletRowInv'
    BY <1>3, BeginRows, OwnerAssumption DEF BeginReserve
  <1>4. ASSUME NEW c \in Call, NEW u \in User, NEW t \in Task, NEW n \in Actual,
               NEW success \in BOOLEAN, BeginSettle(c, u, t, success, n)
        PROVE  WalletRowInv'
    <2>1. KeepsWallets /\ Others(c) /\ call'[c].at = "settle_lock"
      BY <1>4, UnchangedKeeps DEF BeginSettle, Others, TypeOK, Idle
    <2> QED
      BY <2>1, QuietWallets DEF KeepsWallets
  <1>5. ASSUME NEW c \in Call, NEW k \in Key, BeginRelease(c, k)
        PROVE  WalletRowInv'
    <2>1. KeepsWallets /\ Others(c) /\ call'[c].at = "release_read"
      BY <1>5, UnchangedKeeps DEF BeginRelease, Others, TypeOK, Idle
    <2> QED
      BY <2>1, QuietWallets DEF KeepsWallets
  <1>6. ASSUME UNCHANGED <<wallet, resv, ledger, call>>
        PROVE  WalletRowInv'
    BY <1>6 DEF WalletRowInv, WalletFound, OpenedOnce, RowsExist
  <1> QED
    BY <1>1, <1>2, <1>3, <1>4, <1>5, <1>6 DEF Next, Attach, vars

\* The status a transaction read under its row lock still holds when it
\* writes, and a wallet gets its initial points and their ledger row once.
THEOREM LocksAndWallets == Spec => []IInv
  <1>1. Init => IInv
    BY InitRowLock, InitWalletRow DEF IInv
  <1>2. TypeOK /\ IInv /\ [Next]_vars => IInv'
    BY NextRowLock, NextWalletRow DEF IInv
  <1> QED
    BY <1>1, <1>2, TypeCorrect, PTL DEF Spec

-----------------------------------------------------------------------------
(* What a step does to the rows: nothing, or one of six things, whose      *)
(* conditions the transaction checked under its locks or, for a wallet     *)
(* known to be open and a row known to be pending, are in IInv.            *)

Nothing == UNCHANGED <<wallet, resv, ledger, keyLedger>>

Opens(u) ==
    /\ ~wallet[u].open
    /\ wallet' = [wallet EXCEPT ![u] = Account!Opened]
    /\ UNCHANGED <<resv, ledger, keyLedger>>

PostsInit(u) ==
    /\ wallet[u].open /\ ledger[u].init = 0
    /\ ledger' = [ledger EXCEPT ![u].init = @ + InitialPoints]
    /\ UNCHANGED <<wallet, resv, keyLedger>>

Spends(u, n) ==
    /\ wallet[u].open /\ wallet[u].balance >= n
    /\ wallet' = [wallet EXCEPT ![u] = Account!Consumed(@, n)]
    /\ ledger' = [ledger EXCEPT ![u].consume = @ - n]
    /\ UNCHANGED <<resv, keyLedger>>

Grants(u, n) ==
    /\ wallet[u].open
    /\ wallet' = [wallet EXCEPT ![u] = Account!Credited(@, n)]
    /\ ledger' = [ledger EXCEPT ![u].credit = @ + n]
    /\ UNCHANGED <<resv, keyLedger>>

Reserves(k, n) ==
    /\ wallet[Owner[k]].open /\ wallet[Owner[k]].balance >= n
    /\ resv[k].status = Account!Unmade
    /\ MakeReservation(k, n)

Closes(k, outcome, actual) ==
    /\ resv[k].status = Account!Pending
    /\ outcome = Account!Released => actual = 0
    /\ SettleRow(k, outcome, actual)

RowEffect ==
    \/ Nothing
    \/ \E u \in User : Opens(u) \/ PostsInit(u)
    \/ \E u \in User, n \in Amount : Spends(u, n) \/ Grants(u, n)
    \/ \E k \in Key, n \in Amount : Reserves(k, n)
    \/ \E k \in Key, outcome \in Account!Terminal, actual \in Actual \cup {0} :
         Closes(k, outcome, actual)

LEMMA WalletEffect ==
  ASSUME TypeOK, IInv, NEW c \in Call, WalletInsert(c) \/ WalletInitRow(c)
  PROVE  RowEffect
  <1>1. call[c].user \in User
    BY DEF WalletInsert, WalletInitRow, At, TypeOK, ArgumentsOK
  <1>2. CASE WalletInsert(c)
    BY <1>1, <1>2 DEF WalletInsert, RowEffect, Nothing, Opens
  <1>3. CASE WalletInitRow(c)
    <2>1. wallet[call[c].user].open /\ ledger[call[c].user].init = 0
      BY <1>3 DEF WalletInitRow, At, IInv, WalletRowInv, WalletFound, OpenedOnce
    <2> QED
      BY <1>1, <1>3, <2>1 DEF WalletInitRow, RowEffect, PostsInit
  <1> QED
    BY <1>2, <1>3

LEMMA EntryEffect ==
  ASSUME TypeOK, IInv, NEW c \in Call, Consume(c) \/ Credit(c) \/ Reserve(c)
  PROVE  RowEffect
  <1>1. /\ call[c].user \in User /\ call[c].n \in Amount /\ wallet[call[c].user].open
        /\ Reserve(c) => call[c].key \in Key /\ call[c].user = Owner[call[c].key]
    BY DEF Consume, Credit, Reserve, At, TypeOK, ArgumentsOK, IInv, WalletRowInv, WalletFound
  <1>2. CASE Consume(c)
    BY <1>1, <1>2 DEF Consume, RowEffect, Nothing, Spends
  <1>3. CASE Credit(c)
    BY <1>1, <1>3 DEF Credit, RowEffect, Grants
  <1>4. CASE Reserve(c)
    BY <1>1, <1>4 DEF Reserve, RowEffect, Nothing, Reserves
  <1> QED
    BY <1>2, <1>3, <1>4

LEMMA SettleEffect ==
  ASSUME TypeOK, IInv, NEW c \in Call, Settle(c) \/ Release(c)
  PROVE  RowEffect
  <1>1. call[c].key \in Key /\ resv[call[c].key].status = Account!Pending
    BY DEF Settle, Release, At, TypeOK, ArgumentsOK, IInv, RowLockInv
  <1>2. CASE Settle(c) /\ call[c].success
    <2>1. call[c].n \in Actual \cup {0}
      BY <1>2 DEF Settle, At, TypeOK, ArgumentsOK
    <2>2. Closes(call[c].key, Account!Captured, call[c].n)
      BY <1>1, <1>2 DEF Settle, Closes
    <2> QED
      BY <1>1, <2>1, <2>2 DEF RowEffect
  <1>3. CASE Release(c) \/ (Settle(c) /\ ~call[c].success)
    <2>1. Closes(call[c].key, Account!Released, 0)
      BY <1>1, <1>3 DEF Settle, Release, Closes
    <2> QED
      BY <1>1, <2>1 DEF RowEffect
  <1> QED
    BY <1>2, <1>3

LEMMA NextEffect == TypeOK /\ IInv /\ [Next]_vars => RowEffect
  <1> SUFFICES ASSUME TypeOK, IInv, [Next]_vars
               PROVE  RowEffect
    OBVIOUS
  <1>1. ASSUME NEW c \in Call, Step(c) \/ Die(c)
        PROVE  RowEffect
    BY <1>1, WalletEffect, EntryEffect, SettleEffect, ReadsKeep
    DEF Step, RowEffect, Nothing, rows
  <1>2. ASSUME UNCHANGED <<wallet, resv, ledger, keyLedger>>
        PROVE  RowEffect
    BY <1>2 DEF RowEffect, Nothing
  <1> QED
    BY <1>1, <1>2 DEF Next, BeginConsume, BeginCredit, BeginReserve, Begin, BeginSettle,
                      BeginRelease, Attach, vars, rows

-----------------------------------------------------------------------------
(* The refinement and the ledger.                                          *)

LEMMA EffectImplements == RowEffect => [Account!Next]_(Account!vars)
  BY DEF RowEffect, Nothing, Opens, PostsInit, Spends, Grants, Reserves, Closes,
         MakeReservation, SettleRow, Account!Next, Account!vars, Account!OpenWallet,
         Account!Credit, Account!Consume, Account!Reserve, Account!Settle

\* The service implements PointsAccount: whatever calls run together and
\* wherever they are cut off, wallets and reservations change by one whole
\* accounting operation at a time.
THEOREM Refinement == Spec => ImplementsAccount
  <1>1. Init => Account!Init
    BY DEF Init, Account!Init
  <1>2. TypeOK /\ IInv /\ [Next]_vars => [Account!Next]_(Account!vars)
    BY NextEffect, EffectImplements
  <1> QED
    BY <1>1, <1>2, TypeCorrect, LocksAndWallets, PTL DEF Spec, ImplementsAccount, Account!Spec

SettledOnceStep ==
    \A k \in Key :
        /\ resv[k].status \in Account!Terminal => resv'[k] = resv[k]
        /\ resv'[k] # resv[k] /\ resv[k].status = Account!Pending =>
             wallet'[Owner[k]].spent = wallet[Owner[k]].spent + resv'[k].settled

LEMMA EffectSettlesOnce == TypeOK /\ RowEffect => SettledOnceStep
  <1> SUFFICES ASSUME TypeOK, RowEffect
               PROVE  SettledOnceStep
    OBVIOUS
  <1>1. CASE UNCHANGED resv
    BY <1>1 DEF SettledOnceStep
  <1>2. ASSUME NEW k \in Key, NEW n \in Amount, Reserves(k, n)
        PROVE  SettledOnceStep
    BY <1>2 DEF SettledOnceStep, Reserves, MakeReservation, TypeOK
  <1>3. ASSUME NEW k \in Key, NEW o \in Account!Terminal, NEW a \in Actual \cup {0},
               Closes(k, o, a)
        PROVE  SettledOnceStep
    <2>1. Owner[k] \in User /\ resv[k] \in Account!Reservation
      BY OwnerAssumption DEF TypeOK
    <2>2. /\ resv' = [resv EXCEPT ![k].status = o, ![k].settled = a]
          /\ wallet' = [wallet EXCEPT ![Owner[k]] = Account!Settled(@, resv[k].reserved, a)]
          /\ resv[k].status = Account!Pending
      BY <1>3 DEF Closes, SettleRow
    <2>3. resv'[k].settled = a /\ \A j \in Key : j # k => resv'[j] = resv[j]
      BY <2>1, <2>2 DEF TypeOK
    <2>4. wallet'[Owner[k]].spent = wallet[Owner[k]].spent + a
      BY <2>1, <2>2 DEF TypeOK, Account!Settled
    <2> QED
      BY <2>2, <2>3, <2>4 DEF SettledOnceStep
  <1> QED
    BY <1>1, <1>2, <1>3 DEF RowEffect, Nothing, Opens, PostsInit, Spends, Grants

\* A reservation is settled at most once, in one step with the wallet.
THEOREM SettlementIsFinal == Spec => SettledOnce
  <1>1. TypeOK /\ IInv /\ [Next]_vars => [SettledOnceStep]_vars
    BY NextEffect, EffectSettlesOnce
  <1> QED
    BY <1>1, TypeCorrect, LocksAndWallets, PTL DEF Spec, SettledOnce, SettledOnceStep

LEMMA EffectNet == TypeOK /\ IInv /\ ReservationNet /\ RowEffect => ReservationNet'
  <1> SUFFICES ASSUME TypeOK, IInv, ReservationNet, RowEffect
               PROVE  ReservationNet'
    OBVIOUS
  <1>1. CASE UNCHANGED <<resv, keyLedger>>
    BY <1>1 DEF ReservationNet
  <1>2. ASSUME NEW k \in Key, NEW n \in Amount, Reserves(k, n)
        PROVE  ReservationNet'
    <2>1. keyLedger[k] = 0 /\ n \in Nat
      BY <1>2, AmountAssumption DEF Reserves, IInv, WalletRowInv, RowsExist, ReservationNet
    <2>2. keyLedger' = [keyLedger EXCEPT ![k] = @ + (-n)]
      BY <1>2 DEF Reserves, MakeReservation, PostReservationRow
    <2>3. keyLedger'[k] = -n /\ \A j \in Key : j # k => keyLedger'[j] = keyLedger[j]
      BY <2>1, <2>2 DEF TypeOK
    <2>4. /\ resv'[k].status = Account!Pending /\ resv'[k].reserved = n
          /\ \A j \in Key : j # k => resv'[j] = resv[j]
      BY <1>2 DEF Reserves, MakeReservation, TypeOK
    <2> QED
      BY <2>3, <2>4 DEF ReservationNet
  <1>3. ASSUME NEW k \in Key, NEW o \in Account!Terminal, NEW a \in Actual \cup {0},
               Closes(k, o, a)
        PROVE  ReservationNet'
    <2>1. /\ resv[k] \in Account!Reservation /\ a \in Nat
          /\ keyLedger[k] = -resv[k].reserved
      BY <1>3, ActualAssumption DEF Closes, TypeOK, ReservationNet
    <2>2. keyLedger' = [keyLedger EXCEPT ![k] = @ + (resv[k].reserved - a)]
      BY <1>3 DEF Closes, SettleRow, PostReservationRow
    <2>3. keyLedger'[k] = -a /\ \A j \in Key : j # k => keyLedger'[j] = keyLedger[j]
      BY <2>1, <2>2 DEF TypeOK
    <2>4. /\ resv'[k].status = o /\ resv'[k].settled = a
          /\ o = Account!Released => a = 0
          /\ \A j \in Key : j # k => resv'[j] = resv[j]
      BY <1>3 DEF Closes, SettleRow, TypeOK
    <2> QED
      BY <2>3, <2>4 DEF ReservationNet
  <1> QED
    BY <1>1, <1>2, <1>3 DEF RowEffect, Nothing, Opens, PostsInit, Spends, Grants

\* The ledger rows of a reservation add up to what it took from its user.
THEOREM LedgerOfReservation == Spec => []ReservationNet
  <1>1. Init => ReservationNet
    BY DEF Init, ReservationNet
  <1>2. TypeOK /\ IInv /\ ReservationNet /\ [Next]_vars => ReservationNet'
    BY NextEffect, EffectNet
  <1> QED
    BY <1>1, <1>2, TypeCorrect, LocksAndWallets, PTL DEF Spec

(* A user's balance and ledger sums.                                       *)

Explained(w, l) ==
    /\ w.balance = l.credit + l.consume + l.reservation + IF w.open THEN InitialPoints ELSE 0
    /\ l.init \in {0, IF w.open THEN InitialPoints ELSE 0}

LEMMA OneUserExplained ==
  ASSUME TypeOK, LedgerExplainsBalance, NEW u \in User,
         \A v \in User : v # u => wallet'[v] = wallet[v] /\ ledger'[v] = ledger[v],
         Explained(wallet'[u], ledger'[u])
  PROVE  LedgerExplainsBalance'
  BY DEF LedgerExplainsBalance, Explained

LEMMA SpendExplained ==
  ASSUME TypeOK, LedgerExplainsBalance, NEW u \in User, NEW n \in Amount, Spends(u, n) \/ Grants(u, n)
  PROVE  LedgerExplainsBalance'
  <1>1. /\ n \in Nat /\ wallet[u] \in Account!Wallet /\ ledger[u] \in LedgerSums
        /\ Explained(wallet[u], ledger[u])
    BY AmountAssumption DEF TypeOK, LedgerExplainsBalance, Explained
  <1>2. \A v \in User : v # u => wallet'[v] = wallet[v] /\ ledger'[v] = ledger[v]
    BY DEF Spends, Grants, TypeOK
  <1>3. CASE Spends(u, n)
    <2>1. /\ wallet'[u].balance = wallet[u].balance - n
          /\ wallet'[u].open = wallet[u].open
      BY <1>1, <1>3 DEF Spends, TypeOK, Account!Consumed
    <2>2. /\ ledger'[u].consume = ledger[u].consume - n
          /\ ledger'[u].credit = ledger[u].credit
          /\ ledger'[u].reservation = ledger[u].reservation
          /\ ledger'[u].init = ledger[u].init
      BY <1>1, <1>3 DEF Spends, TypeOK, LedgerSums
    <2>3. Explained(wallet'[u], ledger'[u])
      BY <1>1, <2>1, <2>2, InitialPointsAssumption DEF Explained, LedgerSums
    <2> QED
      BY <1>2, <2>3, OneUserExplained
  <1>4. CASE Grants(u, n)
    <2>1. /\ wallet'[u].balance = wallet[u].balance + n
          /\ wallet'[u].open = wallet[u].open
      BY <1>1, <1>4 DEF Grants, TypeOK, Account!Credited
    <2>2. /\ ledger'[u].credit = ledger[u].credit + n
          /\ ledger'[u].consume = ledger[u].consume
          /\ ledger'[u].reservation = ledger[u].reservation
          /\ ledger'[u].init = ledger[u].init
      BY <1>1, <1>4 DEF Grants, TypeOK, LedgerSums
    <2>3. Explained(wallet'[u], ledger'[u])
      BY <1>1, <2>1, <2>2, InitialPointsAssumption DEF Explained, LedgerSums
    <2> QED
      BY <1>2, <2>3, OneUserExplained
  <1> QED
    BY <1>3, <1>4

\* Freezing and settling move the balance and the reservation sum together.
LEMMA ReservationExplained ==
  ASSUME TypeOK, LedgerExplainsBalance, NEW k \in Key, NEW d \in Int,
         PostReservationRow(k, d),
         \A v \in User : v # Owner[k] => wallet'[v] = wallet[v],
         wallet'[Owner[k]].balance = wallet[Owner[k]].balance + d,
         wallet'[Owner[k]].open = wallet[Owner[k]].open
  PROVE  LedgerExplainsBalance'
  <1> DEFINE u == Owner[k]
  <1>1. /\ u \in User /\ wallet[u] \in Account!Wallet /\ ledger[u] \in LedgerSums
        /\ Explained(wallet[u], ledger[u])
    BY OwnerAssumption DEF TypeOK, LedgerExplainsBalance, Explained
  <1>2. \A v \in User : v # u => ledger'[v] = ledger[v]
    BY DEF PostReservationRow, TypeOK
  <1>3. /\ ledger'[u].reservation = ledger[u].reservation + d
        /\ ledger'[u].credit = ledger[u].credit
        /\ ledger'[u].consume = ledger[u].consume
        /\ ledger'[u].init = ledger[u].init
    BY <1>1 DEF PostReservationRow, TypeOK, LedgerSums
  <1>4. Explained(wallet'[u], ledger'[u])
    BY <1>1, <1>3, InitialPointsAssumption DEF Explained, LedgerSums
  <1> QED
    BY <1>1, <1>2, <1>4, OneUserExplained

LEMMA EffectExplained ==
  TypeOK /\ IInv /\ LedgerExplainsBalance /\ RowEffect => LedgerExplainsBalance'
  <1> SUFFICES ASSUME TypeOK, IInv, LedgerExplainsBalance, RowEffect
               PROVE  LedgerExplainsBalance'
    OBVIOUS
  <1>1. CASE Nothing
    BY <1>1 DEF Nothing, LedgerExplainsBalance
  <1>2. ASSUME NEW u \in User, Opens(u)
        PROVE  LedgerExplainsBalance'
    <2>1. /\ wallet[u].balance = 0 /\ ledger[u].init = 0 /\ ledger[u] \in LedgerSums
          /\ Explained(wallet[u], ledger[u])
      BY <1>2 DEF Opens, IInv, WalletRowInv, OpenedOnce, LedgerExplainsBalance, Explained, TypeOK
    <2>2. /\ wallet'[u].open /\ wallet'[u].balance = InitialPoints
          /\ \A v \in User : v # u => wallet'[v] = wallet[v]
      BY <1>2 DEF Opens, TypeOK, Account!Opened
    <2>3. UNCHANGED ledger /\ ~wallet[u].open
      BY <1>2 DEF Opens
    <2>4. Explained(wallet'[u], ledger'[u])
      BY <2>1, <2>2, <2>3, InitialPointsAssumption DEF Explained, LedgerSums
    <2> QED
      BY <2>2, <2>3, <2>4, OneUserExplained
  <1>3. ASSUME NEW u \in User, PostsInit(u)
        PROVE  LedgerExplainsBalance'
    <2>1. /\ wallet[u].open /\ ledger[u].init = 0 /\ ledger[u] \in LedgerSums
          /\ Explained(wallet[u], ledger[u]) /\ UNCHANGED wallet
      BY <1>3 DEF PostsInit, LedgerExplainsBalance, Explained, TypeOK
    <2>2. /\ ledger'[u].init = InitialPoints
          /\ ledger'[u].credit = ledger[u].credit
          /\ ledger'[u].consume = ledger[u].consume
          /\ ledger'[u].reservation = ledger[u].reservation
          /\ \A v \in User : v # u => ledger'[v] = ledger[v]
      BY <1>3, <2>1, InitialPointsAssumption DEF PostsInit, TypeOK, LedgerSums
    <2>3. Explained(wallet'[u], ledger'[u])
      BY <2>1, <2>2 DEF Explained
    <2> QED
      BY <2>1, <2>2, <2>3, OneUserExplained
  <1>4. ASSUME NEW k \in Key, NEW n \in Amount, Reserves(k, n)
        PROVE  LedgerExplainsBalance'
    <2>1. Owner[k] \in User /\ wallet[Owner[k]] \in Account!Wallet /\ n \in Nat
      BY OwnerAssumption, AmountAssumption DEF TypeOK
    <2>2. /\ PostReservationRow(k, -n)
          /\ wallet' = [wallet EXCEPT ![Owner[k]] = Account!Frozen(@, n)]
      BY <1>4 DEF Reserves, MakeReservation
    <2>3. /\ \A v \in User : v # Owner[k] => wallet'[v] = wallet[v]
          /\ wallet'[Owner[k]].balance = wallet[Owner[k]].balance - n
          /\ wallet'[Owner[k]].open = wallet[Owner[k]].open
      BY <2>1, <2>2 DEF TypeOK, Account!Frozen
    <2>4. wallet'[Owner[k]].balance = wallet[Owner[k]].balance + (-n) /\ -n \in Int
      BY <2>1, <2>3
    <2> QED
      BY <2>2, <2>3, <2>4, ReservationExplained
  <1>5. ASSUME NEW k \in Key, NEW o \in Account!Terminal, NEW a \in Actual \cup {0},
               Closes(k, o, a)
        PROVE  LedgerExplainsBalance'
    <2> DEFINE d == resv[k].reserved - a
    <2>1. Owner[k] \in User /\ wallet[Owner[k]] \in Account!Wallet /\ d \in Int
      BY OwnerAssumption, ActualAssumption DEF TypeOK
    <2>2. /\ PostReservationRow(k, d)
          /\ wallet' = [wallet EXCEPT ![Owner[k]] = Account!Settled(@, resv[k].reserved, a)]
      BY <1>5 DEF Closes, SettleRow
    <2>3. /\ \A v \in User : v # Owner[k] => wallet'[v] = wallet[v]
          /\ wallet'[Owner[k]].balance = wallet[Owner[k]].balance + d
          /\ wallet'[Owner[k]].open = wallet[Owner[k]].open
      BY <2>1, <2>2 DEF TypeOK, Account!Settled
    <2> QED
      BY <2>1, <2>2, <2>3, ReservationExplained
  <1> QED
    BY <1>1, <1>2, <1>3, <1>4, <1>5, SpendExplained DEF RowEffect

\* The balance is what the ledger rows add up to, but for the row of the
\* initial points, which is written after the wallet.
THEOREM LedgerOfWallet == Spec => []LedgerExplainsBalance
  <1>1. Init => LedgerExplainsBalance
    BY DEF Init, LedgerExplainsBalance
  <1>2. TypeOK /\ IInv /\ LedgerExplainsBalance /\ [Next]_vars => LedgerExplainsBalance'
    BY NextEffect, EffectExplained
  <1> QED
    BY <1>1, <1>2, TypeCorrect, LocksAndWallets, PTL DEF Spec

-----------------------------------------------------------------------------
(* What is frozen, and what is owed: sums over the reservations of a user. *)

\* What each reservation froze, and what it was captured for above that.
ReservedOf == [k \in Key |-> resv[k].reserved]
ExtraOf == [k \in Key |-> resv[k].settled - resv[k].reserved]

\* The sums are over finite sets, whatever the set of keys, because a step
\* makes one reservation; and a reservation has a cost once it is closed.
Counted ==
    /\ \A u \in User : IsFiniteSet(PendingOf(u)) /\ IsFiniteSet(Exceeded(u))
    /\ \A k \in Key : resv[k].status \notin Account!Terminal => resv[k].settled = 0

Balanced == Counted /\ FrozenIsPending /\ DebtIsExtraCapture

LEMMA InitBalanced == Init => Balanced
  <1> SUFFICES ASSUME Init PROVE Balanced
    OBVIOUS
  <1>1. \A u \in User : PendingOf(u) = {} /\ Exceeded(u) = {}
    BY DEF Init, PendingOf, Exceeded
  <1>2. Counted
    BY <1>1, FS_EmptySet DEF Init, Counted
  <1>3. \A u \in User : wallet[u] = Account!NoWallet
    BY DEF Init
  <1>4. /\ SumFunctionOnSet([k \in Key |-> resv[k].reserved], {}) = 0
        /\ SumFunctionOnSet([k \in Key |-> resv[k].settled - resv[k].reserved], {}) = 0
    BY SumEmpty
  <1>5. ASSUME NEW u \in User
        PROVE  /\ wallet[u].earned - wallet[u].spent - wallet[u].balance = 0
               /\ wallet[u].balance >= -0
    BY <1>3
  <1>6. FrozenIsPending
    BY <1>1, <1>4, <1>5 DEF FrozenIsPending
  <1>7. DebtIsExtraCapture
    BY <1>1, <1>4, <1>5 DEF DebtIsExtraCapture
  <1> QED
    BY <1>2, <1>6, <1>7 DEF Balanced

\* A sum over finite sets of the user's reservations is an integer.
LEMMA SumsTyped ==
  ASSUME TypeOK, Counted, NEW u \in User
  PROVE  /\ SumFunctionOnSet(ReservedOf, PendingOf(u)) \in Int
         /\ SumFunctionOnSet(ExtraOf, Exceeded(u)) \in Nat
  <1>1. \A k \in PendingOf(u) : ReservedOf[k] \in Int
    BY DEF PendingOf, ReservedOf, TypeOK
  <1>2. \A k \in Exceeded(u) : ExtraOf[k] \in Nat
    BY DEF Exceeded, ExtraOf, TypeOK
  <1> QED
    BY <1>1, <1>2, SumType, SumNat DEF Counted

\* The two accounts of one user.
FrozenOf(u) ==
    wallet[u].earned - wallet[u].spent - wallet[u].balance
        = SumFunctionOnSet(ReservedOf, PendingOf(u))
OwedBy(u) == wallet[u].balance >= -SumFunctionOnSet(ExtraOf, Exceeded(u))

LEMMA BalancedIs ==
  Balanced <=> Counted /\ \A u \in User : FrozenOf(u) /\ OwedBy(u)
  BY DEF Balanced, FrozenIsPending, DebtIsExtraCapture, FrozenOf, OwedBy, ReservedOf, ExtraOf

LEMMA BalancedNext ==
  ASSUME Counted', \A u \in User : FrozenOf(u)' /\ OwedBy(u)'
  PROVE  Balanced'
  BY DEF Balanced, FrozenIsPending, DebtIsExtraCapture, FrozenOf, OwedBy, ReservedOf, ExtraOf

\* A user whose wallet and reservations a step leaves alone keeps both.
LEMMA OthersBalanced ==
  ASSUME Counted, NEW u \in User, FrozenOf(u), OwedBy(u), wallet'[u] = wallet[u],
         \A k \in Key : Owner[k] = u => resv'[k] = resv[k]
  PROVE  FrozenOf(u)' /\ OwedBy(u)' /\ IsFiniteSet(PendingOf(u)') /\ IsFiniteSet(Exceeded(u)')
  <1>1. PendingOf(u)' = PendingOf(u) /\ Exceeded(u)' = Exceeded(u)
    BY DEF PendingOf, Exceeded
  <1>2. /\ \A k \in PendingOf(u) : ReservedOf[k] = ReservedOf'[k]
        /\ \A k \in Exceeded(u) : ExtraOf[k] = ExtraOf'[k]
    BY DEF PendingOf, Exceeded, ReservedOf, ExtraOf
  <1>3. IsFiniteSet(PendingOf(u)) /\ IsFiniteSet(Exceeded(u))
    BY DEF Counted
  <1>4. /\ SumFunctionOnSet(ReservedOf', PendingOf(u)) = SumFunctionOnSet(ReservedOf, PendingOf(u))
        /\ SumFunctionOnSet(ExtraOf', Exceeded(u)) = SumFunctionOnSet(ExtraOf, Exceeded(u))
    BY <1>2, <1>3, SumAgrees
  <1> QED
    BY <1>1, <1>3, <1>4 DEF FrozenOf, OwedBy

\* An entry that grants, spends or opens moves the balance with what it
\* explains, and takes no more than the balance.
LEMMA WalletBalanced ==
  ASSUME TypeOK, Balanced, resv' = resv, NEW u \in User,
         \A v \in User : v # u => wallet'[v] = wallet[v],
         wallet'[u].balance \in Int,
         wallet'[u].earned - wallet'[u].spent - wallet'[u].balance
             = wallet[u].earned - wallet[u].spent - wallet[u].balance,
         wallet'[u].balance >= 0 \/ wallet'[u].balance >= wallet[u].balance
  PROVE  Balanced'
  <1>1. Counted /\ \A v \in User : FrozenOf(v) /\ OwedBy(v)
    BY BalancedIs
  <1>2. \A v \in User : PendingOf(v)' = PendingOf(v) /\ Exceeded(v)' = Exceeded(v)
    BY DEF PendingOf, Exceeded
  <1>3. ReservedOf' = ReservedOf /\ ExtraOf' = ExtraOf
    BY DEF ReservedOf, ExtraOf
  <1>4. Counted'
    BY <1>1, <1>2 DEF Counted
  <1>5. FrozenOf(u)'
    BY <1>1, <1>2, <1>3 DEF FrozenOf
  <1>6. OwedBy(u)'
    <2>1. wallet[u].balance \in Int /\ SumFunctionOnSet(ExtraOf, Exceeded(u)) \in Nat
      BY <1>1, SumsTyped DEF TypeOK
    <2>2. OwedBy(u)' = (wallet'[u].balance >= -SumFunctionOnSet(ExtraOf, Exceeded(u)))
      BY <1>2, <1>3 DEF OwedBy
    <2> QED
      BY <1>1, <2>1, <2>2 DEF OwedBy
  <1>7. ASSUME NEW v \in User, v # u PROVE FrozenOf(v)' /\ OwedBy(v)'
    BY <1>1, <1>7, OthersBalanced
  <1>8. Counted' /\ \A v \in User : FrozenOf(v)' /\ OwedBy(v)'
    BY <1>4, <1>5, <1>6, <1>7
  <1> QED
    BY <1>8, BalancedNext

\* A reservation leaves the balance and joins what is frozen.
LEMMA ReservesBalanced ==
  ASSUME TypeOK, Balanced, NEW k \in Key, NEW n \in Amount, Reserves(k, n)
  PROVE  Balanced'
  <1> DEFINE u == Owner[k]
             w == wallet[u]
             P == PendingOf(u)
             E == Exceeded(u)
  <1>1. u \in User /\ w \in Account!Wallet /\ n \in Nat /\ resv[k].status = Account!Unmade
    BY OwnerAssumption, AmountAssumption DEF TypeOK, Reserves
  <1>2. Counted /\ \A v \in User : FrozenOf(v) /\ OwedBy(v)
    BY BalancedIs
  <1>3. /\ wallet'[u] = Account!Frozen(w, n) /\ w.balance >= n
        /\ \A v \in User : v # u => wallet'[v] = wallet[v]
    BY <1>1 DEF Reserves, MakeReservation, TypeOK
  <1>4. /\ resv'[k] = [status |-> Account!Pending, reserved |-> n, settled |-> 0]
        /\ \A j \in Key : j # k => resv'[j] = resv[j]
    BY DEF Reserves, MakeReservation, TypeOK
  <1>5. P' = P \cup {k} /\ k \notin P
    BY <1>1, <1>4 DEF PendingOf
  <1>6. E' = E /\ k \notin E
    BY <1>1, <1>2, <1>4 DEF Exceeded, Counted, TypeOK
  <1>7. IsFiniteSet(P) /\ IsFiniteSet(E) /\ IsFiniteSet(P')
    BY <1>1, <1>2, <1>5, FS_AddElement DEF Counted
  <1> HIDE DEF u, w, P, E
  <1>8. FrozenOf(u)'
    <2>0. ASSUME NEW j \in P
          PROVE  resv'[j] = resv[j] /\ j \in Key
      BY <1>4, <1>5, <2>0 DEF P, PendingOf
    <2>1. ASSUME NEW j \in P
          PROVE  ReservedOf'[j] = ReservedOf[j] /\ ReservedOf[j] \in Int
      BY <2>0 DEF ReservedOf, TypeOK
    <2>2. SumFunctionOnSet(ReservedOf', P) = SumFunctionOnSet(ReservedOf, P)
      BY <1>7, <2>1, SumAgrees
    <2>3. ReservedOf'[k] = n
      BY <1>4 DEF ReservedOf
    <2>a. \A j \in P \cup {k} : ReservedOf'[j] \in Int
      BY <1>1, <2>1, <2>3
    <2>4. SumFunctionOnSet(ReservedOf', P \cup {k}) = n + SumFunctionOnSet(ReservedOf', P)
      BY <1>5, <1>7, <2>3, <2>a, SumAdd
    <2>5. FrozenOf(u) /\ SumFunctionOnSet(ReservedOf, P) \in Int
      BY <1>1, <1>2, SumsTyped DEF P
    <2>6. /\ wallet'[u].earned = w.earned /\ wallet'[u].spent = w.spent
          /\ wallet'[u].balance = w.balance - n
      BY <1>1, <1>3 DEF Account!Frozen
    <2>7. w.earned - w.spent - w.balance = SumFunctionOnSet(ReservedOf, P)
      BY <2>5 DEF FrozenOf, w, P
    <2>8. wallet'[u].earned - wallet'[u].spent - wallet'[u].balance
            = SumFunctionOnSet(ReservedOf', P')
      BY <1>1, <1>5, <2>2, <2>4, <2>5, <2>6, <2>7
    <2> QED
      BY <2>8 DEF FrozenOf, P, u
  <1>9. OwedBy(u)'
    <2>1. \A j \in E : ExtraOf[j] = ExtraOf'[j]
      BY <1>4, <1>6 DEF E, Exceeded, ExtraOf
    <2>2. SumFunctionOnSet(ExtraOf', E') = SumFunctionOnSet(ExtraOf, E)
      BY <1>6, <1>7, <2>1, SumAgrees
    <2>3. SumFunctionOnSet(ExtraOf, E) \in Nat
      BY <1>1, <1>2, SumsTyped DEF E
    <2>4. wallet'[u].balance = w.balance - n
      BY <1>1, <1>3 DEF Account!Frozen
    <2>5. wallet'[u].balance >= -SumFunctionOnSet(ExtraOf', E')
      BY <1>1, <1>3, <2>2, <2>3, <2>4
    <2> QED
      BY <2>5 DEF OwedBy, E, u
  <1>10. ASSUME NEW v \in User, v # u
         PROVE  FrozenOf(v)' /\ OwedBy(v)' /\ IsFiniteSet(PendingOf(v)') /\ IsFiniteSet(Exceeded(v)')
    <2>1. \A j \in Key : Owner[j] = v => resv'[j] = resv[j]
      BY <1>4, <1>10 DEF u
    <2> QED
      BY <1>2, <1>3, <1>10, <2>1, OthersBalanced
  <1>11. Counted'
    <2>1. \A v \in User : IsFiniteSet(PendingOf(v)') /\ IsFiniteSet(Exceeded(v)')
      BY <1>6, <1>7, <1>10 DEF P, E, u
    <2>2. \A j \in Key : resv'[j].status \notin Account!Terminal => resv'[j].settled = 0
      BY <1>2, <1>4 DEF Counted
    <2> QED
      BY <2>1, <2>2 DEF Counted
  <1>12. Counted' /\ \A v \in User : FrozenOf(v)' /\ OwedBy(v)'
    BY <1>8, <1>9, <1>10, <1>11
  <1> QED
    BY <1>12, BalancedNext

\* A reservation that is closed gives back what it had frozen and takes its
\* cost: what the cost has above it is an extra capture, and nothing else
\* brings the balance down.
LEMMA ClosesBalanced ==
  ASSUME TypeOK, Balanced, NEW k \in Key, NEW o \in Account!Terminal, NEW a \in Nat,
         Closes(k, o, a)
  PROVE  Balanced'
  <1> DEFINE u == Owner[k]
             w == wallet[u]
             r == resv[k].reserved
             P == PendingOf(u)
             E == Exceeded(u)
  <1>1. /\ u \in User /\ w \in Account!Wallet /\ r \in Nat
        /\ resv[k].status = Account!Pending
    BY OwnerAssumption DEF TypeOK, Closes
  <1>2. Counted /\ \A v \in User : FrozenOf(v) /\ OwedBy(v)
    BY BalancedIs
  <1>3. /\ wallet'[u] = Account!Settled(w, r, a)
        /\ \A v \in User : v # u => wallet'[v] = wallet[v]
    BY <1>1 DEF Closes, SettleRow, TypeOK
  <1>4. /\ resv'[k].status = o /\ resv'[k].settled = a /\ resv'[k].reserved = r
        /\ \A j \in Key : j # k => resv'[j] = resv[j]
    BY DEF Closes, SettleRow, TypeOK
  <1>5. P' = P \ {k} /\ k \in P
    BY <1>1, <1>4 DEF PendingOf
  <1>6. resv[k].settled = 0 /\ k \notin E
    BY <1>1, <1>2 DEF Exceeded, Counted
  <1>7. E' = IF a > r THEN E \cup {k} ELSE E
    BY <1>1, <1>4, <1>6 DEF Exceeded
  <1>8. IsFiniteSet(P) /\ IsFiniteSet(E)
    BY <1>1, <1>2 DEF Counted
  <1>9. IsFiniteSet(P') /\ IsFiniteSet(E')
    BY <1>5, <1>7, <1>8, FS_AddElement, FS_RemoveElement
  <1>10. /\ wallet'[u].earned = w.earned /\ wallet'[u].spent = w.spent + a
         /\ wallet'[u].balance = w.balance + (r - a)
    BY <1>1, <1>3 DEF Account!Settled
  <1> HIDE DEF u, w, r, P, E
  <1>11. FrozenOf(u)'
    <2>1. ASSUME NEW j \in P
          PROVE  j \in Key /\ ReservedOf[j] \in Int
      BY <2>1 DEF P, PendingOf, ReservedOf, TypeOK
    <2>2. ASSUME NEW j \in P \ {k}
          PROVE  ReservedOf'[j] = ReservedOf[j]
      BY <1>4, <2>1, <2>2 DEF ReservedOf
    <2>3. IsFiniteSet(P \ {k})
      BY <1>5, <1>9
    <2>4. SumFunctionOnSet(ReservedOf', P \ {k}) = SumFunctionOnSet(ReservedOf, P \ {k})
      BY <2>2, <2>3, SumAgrees
    <2>5. SumFunctionOnSet(ReservedOf, P) = ReservedOf[k] + SumFunctionOnSet(ReservedOf, P \ {k})
      BY <1>5, <1>8, <2>1, SumTake
    <2>6. ReservedOf[k] = r
      BY DEF ReservedOf, r
    <2>7. FrozenOf(u) /\ SumFunctionOnSet(ReservedOf, P \ {k}) \in Int
      BY <1>1, <1>2, <2>1, <2>3, SumType
    <2>8. w.earned - w.spent - w.balance = SumFunctionOnSet(ReservedOf, P)
      BY <2>7 DEF FrozenOf, w, P
    <2>9. wallet'[u].earned - wallet'[u].spent - wallet'[u].balance
            = SumFunctionOnSet(ReservedOf', P')
      BY <1>1, <1>5, <1>10, <2>4, <2>5, <2>6, <2>7, <2>8
    <2> QED
      BY <2>9 DEF FrozenOf, P, u
  <1>12. OwedBy(u)'
    <2>1. ASSUME NEW j \in E
          PROVE  j \in Key /\ j # k /\ ExtraOf[j] \in Int
      BY <1>6, <2>1 DEF E, Exceeded, ExtraOf, TypeOK
    <2>2. ASSUME NEW j \in E
          PROVE  ExtraOf'[j] = ExtraOf[j] /\ ExtraOf'[j] \in Int
      BY <1>4, <2>1, <2>2 DEF ExtraOf
    <2>3. SumFunctionOnSet(ExtraOf', E) = SumFunctionOnSet(ExtraOf, E)
      BY <1>8, <2>2, SumAgrees
    <2>4. SumFunctionOnSet(ExtraOf, E) \in Nat /\ OwedBy(u)
      BY <1>1, <1>2, SumsTyped DEF E
    <2>5. w.balance >= -SumFunctionOnSet(ExtraOf, E)
      BY <2>4 DEF OwedBy, w, E
    <2>6. ExtraOf'[k] = a - r
      BY <1>4 DEF ExtraOf
    <2>7. a > r => SumFunctionOnSet(ExtraOf', E \cup {k}) = (a - r) + SumFunctionOnSet(ExtraOf', E)
      <3>1. \A j \in E \cup {k} : ExtraOf'[j] \in Int
        BY <1>1, <2>2, <2>6
      <3> QED
        BY <1>6, <1>8, <2>6, <3>1, SumAdd
    <2>8. CASE a > r
      <3>1. SumFunctionOnSet(ExtraOf', E') = (a - r) + SumFunctionOnSet(ExtraOf, E)
        BY <1>7, <2>3, <2>7, <2>8
      <3>2. wallet'[u].balance >= -SumFunctionOnSet(ExtraOf', E')
        BY <1>1, <1>10, <2>4, <2>5, <3>1
      <3> QED
        BY <3>2 DEF OwedBy, E, u
    <2>9. CASE ~ a > r
      <3>1. SumFunctionOnSet(ExtraOf', E') = SumFunctionOnSet(ExtraOf, E)
        BY <1>7, <2>3, <2>9
      <3>2. wallet'[u].balance >= -SumFunctionOnSet(ExtraOf', E')
        BY <1>1, <1>10, <2>4, <2>5, <2>9, <3>1
      <3> QED
        BY <3>2 DEF OwedBy, E, u
    <2> QED
      BY <2>8, <2>9
  <1>13. ASSUME NEW v \in User, v # u
         PROVE  FrozenOf(v)' /\ OwedBy(v)' /\ IsFiniteSet(PendingOf(v)') /\ IsFiniteSet(Exceeded(v)')
    <2>1. \A j \in Key : Owner[j] = v => resv'[j] = resv[j]
      BY <1>4, <1>13 DEF u
    <2> QED
      BY <1>2, <1>3, <1>13, <2>1, OthersBalanced
  <1>14. Counted'
    <2>1. \A v \in User : IsFiniteSet(PendingOf(v)') /\ IsFiniteSet(Exceeded(v)')
      BY <1>9, <1>13 DEF P, E, u
    <2>2. \A j \in Key : resv'[j].status \notin Account!Terminal => resv'[j].settled = 0
      BY <1>2, <1>4 DEF Counted
    <2> QED
      BY <2>1, <2>2 DEF Counted
  <1> QED
    BY <1>11, <1>12, <1>13, <1>14, BalancedNext

LEMMA EffectBalanced == TypeOK /\ IInv /\ Balanced /\ RowEffect => Balanced'
  <1> SUFFICES ASSUME TypeOK, IInv, Balanced, RowEffect
               PROVE  Balanced'
    OBVIOUS
  <1>1. CASE UNCHANGED <<wallet, resv>>
    BY <1>1 DEF Balanced, Counted, FrozenIsPending, DebtIsExtraCapture, PendingOf, Exceeded
  <1>2. ASSUME NEW u \in User, Opens(u)
        PROVE  Balanced'
    <2>1. wallet[u] = Account!NoWallet /\ resv' = resv
      BY <1>2 DEF Opens, IInv, WalletRowInv, OpenedOnce
    <2>2. wallet'[u] = Account!Opened /\ \A v \in User : v # u => wallet'[v] = wallet[v]
      BY <1>2 DEF Opens, TypeOK
    <2> QED
      BY <2>1, <2>2, InitialPointsAssumption, WalletBalanced DEF Account!Opened
  <1>3. ASSUME NEW u \in User, NEW n \in Amount, Spends(u, n)
        PROVE  Balanced'
    <2>1. wallet[u] \in Account!Wallet /\ n \in Nat /\ wallet[u].balance >= n /\ resv' = resv
      BY <1>3, AmountAssumption DEF Spends, TypeOK
    <2>2. /\ wallet'[u] = Account!Consumed(wallet[u], n)
          /\ \A v \in User : v # u => wallet'[v] = wallet[v]
      BY <1>3 DEF Spends, TypeOK
    <2>3. /\ wallet'[u].balance = wallet[u].balance - n
          /\ wallet'[u].earned = wallet[u].earned /\ wallet'[u].spent = wallet[u].spent + n
      BY <2>1, <2>2 DEF Account!Consumed
    <2>4. /\ wallet'[u].balance \in Int /\ wallet'[u].balance >= 0
          /\ wallet'[u].earned - wallet'[u].spent - wallet'[u].balance
               = wallet[u].earned - wallet[u].spent - wallet[u].balance
      BY <2>1, <2>3
    <2> QED
      BY <2>1, <2>2, <2>4, WalletBalanced
  <1>4. ASSUME NEW u \in User, NEW n \in Amount, Grants(u, n)
        PROVE  Balanced'
    <2>1. wallet[u] \in Account!Wallet /\ n \in Nat /\ resv' = resv
      BY <1>4, AmountAssumption DEF Grants, TypeOK
    <2>2. /\ wallet'[u] = Account!Credited(wallet[u], n)
          /\ \A v \in User : v # u => wallet'[v] = wallet[v]
      BY <1>4 DEF Grants, TypeOK
    <2>3. /\ wallet'[u].balance = wallet[u].balance + n
          /\ wallet'[u].earned = wallet[u].earned + n /\ wallet'[u].spent = wallet[u].spent
      BY <2>1, <2>2 DEF Account!Credited
    <2>4. /\ wallet'[u].balance \in Int /\ wallet'[u].balance >= wallet[u].balance
          /\ wallet'[u].earned - wallet'[u].spent - wallet'[u].balance
               = wallet[u].earned - wallet[u].spent - wallet[u].balance
      BY <2>1, <2>3
    <2> QED
      BY <2>1, <2>2, <2>4, WalletBalanced
  <1>5. ASSUME NEW k \in Key, NEW o \in Account!Terminal, NEW a \in Actual \cup {0}, Closes(k, o, a)
        PROVE  Balanced'
    BY <1>5, ActualAssumption, ClosesBalanced
  <1> QED
    BY <1>1, <1>2, <1>3, <1>4, <1>5, ReservesBalanced DEF RowEffect, Nothing, PostsInit

LEMMA AlwaysBalanced == Spec => []Balanced
  <1>1. TypeOK /\ IInv /\ Balanced /\ [Next]_vars => Balanced'
    BY NextEffect, EffectBalanced
  <1> QED
    BY <1>1, InitBalanced, TypeCorrect, LocksAndWallets, PTL DEF Spec

\* What a user was granted is in the balance, spent, or frozen by the
\* reservations that are pending, for any number of calls and keys.
THEOREM FrozenPoints == Spec => []FrozenIsPending
  <1>1. Balanced => FrozenIsPending
    BY DEF Balanced
  <1> QED
    BY <1>1, AlwaysBalanced, PTL

\* A balance below zero is owed to captures above what was reserved.
THEOREM DebtOfWallet == Spec => []DebtIsExtraCapture
  <1>1. Balanced => DebtIsExtraCapture
    BY DEF Balanced
  <1> QED
    BY <1>1, AlwaysBalanced, PTL
=============================================================================
