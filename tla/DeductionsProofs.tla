-------------------------- MODULE DeductionsProofs --------------------------
(***************************************************************************)
(* Proofs about Deductions for any agreements, processes and times: no     *)
(* due date is deducted twice, an agreement has a due date exactly while   *)
(* it is valid, and every payment that was recorded is in the membership.  *)
(*                                                                         *)
(* The argument is the row's lock.  A deduction whose transaction is open  *)
(* has it (Locked), so that the agreement still is as it was read and no   *)
(* other deduction was recorded since (Pinned).  What was recorded lies    *)
(* before the date that is next (Dated).  That no period is paid twice is  *)
(* a matter of the dates alone (Kept): n payments have moved the next date *)
(* n periods or more, and a notification starts again behind all of them.  *)
(***************************************************************************)
EXTENDS Deductions, Sums, SequenceTheorems

Busy(r) == runner[r].at \in {"pay", "record"}

Mine(r) == trade[Current(r)][runner[r].trade]

Notified == \A h \in Handler :
    handler[h] # <<>> => handler[h][2] \in DOMAIN trade[handler[h][1]]

Working == \A r \in Runner : Busy(r) =>
    /\ runner[r].todo # <<>>
    /\ runner[r].trade \in DOMAIN trade[Current(r)]

Locked == \A r \in Runner : Open(r) => lock[Current(r)] = r

PinnedBy(r) ==
    /\ agreement[Current(r)].status = "VALID"
    /\ agreement[Current(r)].due = Mine(r).due
    /\ runner[r].began <= clock
    /\ Mine(r).scheduled => Mine(r).due <= runner[r].began
    /\ \A j \in Scheduled(Current(r)) : trade[Current(r)][j].due <= runner[r].began

Pinned == \A r \in Runner : Open(r) => PinnedBy(r)

Dated == \A a \in Agreement : \A j \in Scheduled(a) :
    /\ trade[a][j].due <= clock
    /\ agreement[a].due # NoDue => trade[a][j].due < agreement[a].due

IInv == TypeOK /\ Notified /\ Working /\ Locked /\ Pinned /\ Dated
          /\ ValidIsScheduled /\ DueDeductedOnce

-----------------------------------------------------------------------------
(* Dates                                                                   *)

LEMMA Quotient ==
  ASSUME NEW n \in Nat, NEW p \in Nat \ {0}
  PROVE  n \div p \in Nat /\ p * (n \div p + 1) \in Nat /\ p * (n \div p + 1) > n
  <1>1. n \div p \in Int /\ n % p \in 0 .. p - 1 /\ n = p * (n \div p) + (n % p)
    BY SMTT(30)
  <1>2. n \div p \in Nat
    BY <1>1, SMTT(30)
  <1>3. p * (n \div p + 1) = p * (n \div p) + p
    BY <1>2, SMTT(30)
  <1>4. p * (n \div p) \in Nat
    BY <1>2, SMTT(30)
  <1> QED
    BY <1>1, <1>2, <1>3, <1>4

LEMMA RollForwardLater ==
  ASSUME NEW due \in Nat, NEW step \in Nat \ {0}, clock \in Nat
  PROVE  /\ RollForward(due, step) \in Nat
         /\ RollForward(due, step) > clock /\ RollForward(due, step) >= due
         /\ \E k \in Nat : RollForward(due, step) = due + step * k
  <1>1. CASE due > clock
    <2>1. RollForward(due, step) = due /\ due = due + step * 0
      BY <1>1 DEF RollForward
    <2> QED
      BY <1>1, <2>1
  <1>2. CASE ~(due > clock)
    <2>1. PICK n \in Nat : n = (clock - due) \div step + 1
      BY <1>2, Quotient
    <2>2. step * n \in Nat /\ step * n > clock - due
      BY <1>2, <2>1, Quotient
    <2>3. RollForward(due, step) = due + step * n
      BY <1>2, <2>1 DEF RollForward
    <2>4. PICK m \in Nat : m = step * n
      BY <2>2
    <2>5. RollForward(due, step) = due + m /\ m > clock - due
      BY <2>2, <2>3, <2>4
    <2>6. \E k \in Nat : RollForward(due, step) = due + step * k
      BY <2>3
    <2> QED
      BY <2>5, <2>6
  <1> QED
    BY <1>1, <1>2

LEMMA NextDueLater ==
  ASSUME NEW a \in Agreement, NEW due \in Nat, clock \in Nat
  PROVE  /\ NextDue(a, due) \in Nat /\ NextDue(a, due) > clock
         /\ NextDue(a, due) >= BaseDue(a, due) + Period
  <1>1. BaseDue(a, due) + Period \in Nat /\ Day \in Nat \ {0}
    BY TimesAssumption DEF BaseDue
  <1> QED
    BY <1>1, RollForwardLater DEF NextDue

-----------------------------------------------------------------------------
(* Types                                                                   *)

LEMMA BatchTyped ==
  ASSUME NEW todo \in DueBatches
  PROVE  todo \in Seq(Agreement)
  <1> DEFINE due == {a \in Agreement : Due(a)}
  <1>1. PICK s \in SetToSeqs(due) :
          todo = SubSeq(s, 1, IF Len(s) < BatchSize THEN Len(s) ELSE BatchSize)
    BY DEF DueBatches
  <1>2. Cardinality(due) \in Nat
    BY AgreementAssumption, FS_Subset, FS_CardinalityType
  <1>3. s \in [1 .. Cardinality(due) -> due]
    BY DEF SetToSeqs
  <1> HIDE DEF due
  <1>4. s \in Seq(due)
    BY <1>2, <1>3
  <1>5. due \subseteq Agreement
    BY DEF due
  <1>6. s \in Seq(Agreement)
    BY <1>4, <1>5
  <1>7. BatchSize \in Nat /\ Len(s) \in Nat
    BY <1>6, TimesAssumption
  <1> DEFINE n == IF Len(s) < BatchSize THEN Len(s) ELSE BatchSize
  <1>8. n \in Nat /\ n <= Len(s)
    BY <1>7
  <1>9. \A i \in 1 .. n : s[i] \in Agreement
    BY <1>6, <1>8
  <1> HIDE DEF n
  <1>10. SubSeq(s, 1, n) \in Seq(Agreement)
    BY <1>6, <1>8, <1>9
  <1> QED
    BY <1>1, <1>10 DEF n

\* The agreement whose turn it is.
LEMMA CurrentTyped ==
  ASSUME TypeOK, NEW r \in Runner, runner[r].todo # <<>>
  PROVE  Current(r) \in Agreement /\ Tail(runner[r].todo) \in Seq(Agreement)
  <1>1. runner[r].todo \in Seq(Agreement)
    BY DEF TypeOK, Task
  <1> QED
    BY <1>1 DEF Current

\* One trade changes and no other.
LEMMA SetTradeEffect ==
  ASSUME TypeOK, NEW a \in Agreement, NEW t \in DOMAIN trade[a], NEW new \in Trade,
         SetTrade(a, t, new)
  PROVE  /\ trade' \in [Agreement -> Seq(Trade)]
         /\ \A b \in Agreement :
              /\ DOMAIN trade'[b] = DOMAIN trade[b]
              /\ \A i \in DOMAIN trade[b] :
                   trade'[b][i] = IF b = a /\ i = t THEN new ELSE trade[b][i]
  <1> DEFINE log == [trade[a] EXCEPT ![t] = new]
  <1>1. trade \in [Agreement -> Seq(Trade)] /\ trade[a] \in Seq(Trade)
    BY DEF TypeOK
  <1>2. trade' = [trade EXCEPT ![a] = log]
    BY DEF SetTrade
  <1>3. /\ log \in Seq(Trade) /\ DOMAIN log = DOMAIN trade[a]
        /\ \A i \in DOMAIN trade[a] : log[i] = IF i = t THEN new ELSE trade[a][i]
    BY <1>1
  <1> HIDE DEF log
  <1> QED
    BY <1>1, <1>2, <1>3

LEMMA TradeTyped ==
  ASSUME TypeOK, NEW a \in Agreement, NEW t \in DOMAIN trade[a]
  PROVE  trade[a][t] \in Trade /\ t \in Nat
  <1>1. trade[a] \in Seq(Trade)
    BY DEF TypeOK
  <1> QED
    BY <1>1

LEMMA InitIInv == Init => IInv
  <1> SUFFICES ASSUME Init PROVE IInv
    OBVIOUS
  <1>1. Idle \in Task
    BY DEF Idle, Task
  <1>2. <<>> \in Seq(Trade)
    OBVIOUS
  <1>3. TypeOK
    BY <1>1, <1>2 DEF Init, TypeOK, Row, NoDue
  <1>4. \A r \in Runner : ~Busy(r) /\ ~Open(r)
    BY DEF Init, Busy, Open, Idle
  <1>5. \A a \in Agreement : Scheduled(a) = {}
    BY DEF Init, Scheduled, Committed
  <1>6. Notified
    BY DEF Init, Notified
  <1>7. ValidIsScheduled
    BY DEF Init, ValidIsScheduled, NoDue
  <1> QED
    BY <1>3, <1>4, <1>5, <1>6, <1>7
    DEF IInv, Working, Locked, Pinned, Dated, DueDeductedOnce

-----------------------------------------------------------------------------
(* Steps that record nothing                                               *)

\* What is recorded, and what the open transactions hold, is as it was.
SameAt(a) ==
    /\ Committed(a)' = Committed(a)
    /\ \A i \in Committed(a) :
         trade'[a][i].due = trade[a][i].due /\ trade'[a][i].scheduled = trade[a][i].scheduled

SameRecords == \A a \in Agreement : SameAt(a)

SameOpen(r) ==
    /\ Open(r)
    /\ Current(r)' = Current(r)
    /\ runner'[r].began = runner[r].began
    /\ Mine(r)'.due = Mine(r).due /\ Mine(r)'.scheduled = Mine(r).scheduled
    /\ lock'[Current(r)] = lock[Current(r)]
    /\ agreement'[Current(r)] = agreement[Current(r)]

LEMMA SameScheduled ==
  ASSUME NEW a, SameAt(a)
  PROVE  /\ Scheduled(a)' = Scheduled(a)
         /\ \A i \in Scheduled(a) : trade'[a][i].due = trade[a][i].due
  BY DEF SameAt, Scheduled

LEMMA OpenTyped ==
  ASSUME TypeOK, Working, NEW r \in Runner, Busy(r)
  PROVE  /\ Current(r) \in Agreement
         /\ runner[r].trade \in DOMAIN trade[Current(r)]
         /\ Mine(r) \in Trade
         /\ runner[r].began \in Nat
         /\ Tail(runner[r].todo) \in Seq(Agreement)
  <1>1. runner[r].todo # <<>> /\ runner[r].trade \in DOMAIN trade[Current(r)]
    BY DEF Working
  <1>2. Current(r) \in Agreement /\ Tail(runner[r].todo) \in Seq(Agreement)
    BY <1>1, CurrentTyped
  <1>3. runner[r].began \in Nat
    BY DEF TypeOK, Task
  <1> QED
    BY <1>1, <1>2, <1>3, TradeTyped DEF Mine

\* A transaction that stays open beside a step of others.
LEMMA PinnedStays ==
  ASSUME IInv, clock' \in {clock, clock + 1}, NEW r \in Runner, SameOpen(r), SameAt(Current(r))
  PROVE  lock'[Current(r)'] = r /\ PinnedBy(r)'
  <1>1. Open(r) /\ Busy(r)
    BY DEF SameOpen, Open, Busy
  <1>2. lock[Current(r)] = r /\ PinnedBy(r)
    BY <1>1 DEF IInv, Locked, Pinned
  <1>3. Current(r) \in Agreement /\ runner[r].began \in Nat
    BY <1>1, OpenTyped DEF IInv
  <1>4. Current(r)' = Current(r) /\ lock'[Current(r)'] = r
    BY <1>2 DEF SameOpen
  <1>5. agreement'[Current(r)'] = agreement[Current(r)]
    BY <1>4 DEF SameOpen
  <1>6. agreement'[Current(r)'].status = "VALID" /\ agreement'[Current(r)'].due = Mine(r)'.due
    BY <1>2, <1>5 DEF PinnedBy, SameOpen
  <1>7. clock \in Nat
    BY DEF IInv, TypeOK
  <1>8. runner'[r].began <= clock'
    BY <1>2, <1>3, <1>7 DEF PinnedBy, SameOpen
  <1>9. Mine(r)'.scheduled => Mine(r)'.due <= runner'[r].began
    BY <1>2 DEF PinnedBy, SameOpen
  <1>10. PICK a \in Agreement : a = Current(r)
    BY <1>3
  <1>11. \A j \in Scheduled(a)' : trade'[a][j].due <= runner'[r].began
    BY <1>2, <1>10, SameScheduled DEF PinnedBy, SameOpen
  <1>12. Scheduled(Current(r))' = Scheduled(a)' /\ Current(r)' = a
    BY <1>4, <1>10 DEF Scheduled, Committed
  <1> QED
    BY <1>4, <1>6, <1>8, <1>9, <1>11, <1>12 DEF PinnedBy

LEMMA DatesStay ==
  ASSUME IInv, clock' \in {clock, clock + 1}, NEW a \in Agreement, SameAt(a)
  PROVE  /\ \A j \in Scheduled(a)' :
              /\ trade'[a][j].due <= clock'
              /\ agreement'[a].due = agreement[a].due /\ agreement[a].due # NoDue
                   => trade'[a][j].due < agreement'[a].due
         /\ \A i, j \in Scheduled(a)' : i # j => trade'[a][i].due # trade'[a][j].due
  <1>1. clock \in Nat
    BY DEF IInv, TypeOK
  <1>2. ASSUME NEW j \in Scheduled(a)'
        PROVE  /\ trade'[a][j].due <= clock'
               /\ agreement'[a].due = agreement[a].due /\ agreement[a].due # NoDue
                    => trade'[a][j].due < agreement'[a].due
    <2>1. j \in Scheduled(a) /\ trade'[a][j].due = trade[a][j].due
      BY <1>2, SameScheduled
    <2>2. trade[a][j].due \in Nat
      BY <2>1, TradeTyped DEF Scheduled, Committed, IInv, Trade
    <2> QED
      BY <1>1, <2>1, <2>2 DEF IInv, Dated
  <1>3. \A i, j \in Scheduled(a)' : i # j => trade'[a][i].due # trade'[a][j].due
    BY SameScheduled DEF DueDeductedOnce, IInv
  <1> QED
    BY <1>2, <1>3

\* Steps after which fewer transactions are open, or as many.
LEMMA Quiet ==
  ASSUME IInv, TypeOK', SameRecords, clock' \in {clock, clock + 1},
         \A r \in Runner : Open(r)' => SameOpen(r),
         \A a \in Agreement : agreement'[a] = agreement[a]
  PROVE  Locked' /\ Pinned' /\ Dated' /\ ValidIsScheduled' /\ DueDeductedOnce'
  <1>1. ASSUME NEW r \in Runner, Open(r)'
        PROVE  lock'[Current(r)'] = r /\ PinnedBy(r)'
    <2>1. SameOpen(r) /\ Busy(r)
      BY <1>1 DEF SameOpen, Open, Busy
    <2>2. SameAt(Current(r))
      BY <2>1, OpenTyped DEF SameRecords, IInv
    <2> QED
      BY <2>1, <2>2, PinnedStays
  <1>2. Dated'
    BY DatesStay DEF Dated, SameRecords
  <1>3. DueDeductedOnce'
    BY DatesStay DEF DueDeductedOnce, SameRecords
  <1>4. ValidIsScheduled'
    BY DEF ValidIsScheduled, IInv
  <1> QED
    BY <1>1, <1>2, <1>3, <1>4 DEF Locked, Pinned

LEMMA MovesKeep ==
  ASSUME IInv, TypeOK', Notified', UNCHANGED <<trade, agreement, lock>>,
         clock' \in {clock, clock + 1},
         \A r \in Runner : runner'[r] = runner[r] \/ runner'[r].at \in {"idle", "batch"}
  PROVE  IInv'
  <1>1. SameRecords
    BY DEF SameRecords, SameAt, Committed
  <1>2. ASSUME NEW r \in Runner, Busy(r)'
        PROVE  runner'[r] = runner[r] /\ Busy(r)
    BY <1>2 DEF Busy
  <1>3. Working'
    BY <1>2 DEF IInv, Working, Current
  <1>4. ASSUME NEW r \in Runner, Open(r)'
        PROVE  SameOpen(r)
    <2>1. runner'[r] = runner[r] /\ Busy(r)
      BY <1>2, <1>4 DEF Open, Busy
    <2>2. Current(r)' = Current(r)
      BY <2>1 DEF Current
    <2> QED
      BY <1>4, <2>1, <2>2 DEF SameOpen, Open, Mine
  <1> QED
    BY <1>1, <1>3, <1>4, Quiet DEF IInv

\* A trade changes in what neither the tables' dates nor its status say.
LEMMA CosmeticKeep ==
  ASSUME IInv, TypeOK', Notified', UNCHANGED <<clock, agreement, lock>>,
         NEW a \in Agreement, NEW t \in DOMAIN trade[a], NEW new \in Trade,
         SetTrade(a, t, new),
         new.due = trade[a][t].due, new.scheduled = trade[a][t].scheduled,
         new.deduction = trade[a][t].deduction,
         \A r \in Runner : \/ runner'[r] = runner[r]
                           \/ /\ Busy(r) /\ runner'[r].todo = runner[r].todo
                              /\ runner'[r].trade = runner[r].trade
                              /\ runner'[r].began = runner[r].began
  PROVE  IInv'
  <1>1. \A b \in Agreement :
          /\ DOMAIN trade'[b] = DOMAIN trade[b]
          /\ \A i \in DOMAIN trade[b] :
               /\ trade'[b][i].due = trade[b][i].due
               /\ trade'[b][i].scheduled = trade[b][i].scheduled
               /\ trade'[b][i].deduction = trade[b][i].deduction
    BY SetTradeEffect DEF IInv
  <1>2. SameRecords
    BY <1>1 DEF SameRecords, SameAt, Committed
  <1>3. ASSUME NEW r \in Runner, Busy(r)'
        PROVE  /\ Busy(r) /\ Current(r)' = Current(r) /\ runner'[r].todo = runner[r].todo
               /\ runner'[r].trade = runner[r].trade
               /\ runner'[r].began = runner[r].began
               /\ Current(r) \in Agreement /\ runner[r].trade \in DOMAIN trade[Current(r)]
    <2>1. Busy(r) /\ runner'[r].todo = runner[r].todo /\ runner'[r].trade = runner[r].trade
          /\ runner'[r].began = runner[r].began
      BY <1>3 DEF Busy
    <2> QED
      BY <2>1, OpenTyped DEF IInv, Current
  <1>4. Working'
    <2> SUFFICES ASSUME NEW r \in Runner, Busy(r)'
                 PROVE  runner'[r].todo # <<>> /\ runner'[r].trade \in DOMAIN trade'[Current(r)']
      BY DEF Working
    <2>1. runner[r].todo # <<>>
      BY <1>3 DEF IInv, Working
    <2> QED
      BY <1>1, <1>3, <2>1
  <1>5. ASSUME NEW r \in Runner, Open(r)'
        PROVE  SameOpen(r)
    <2>1. Busy(r)'
      BY <1>5 DEF Open, Busy
    <2>2. PICK b \in Agreement : b = Current(r)
      BY <1>3, <2>1
    <2>3. PICK i \in DOMAIN trade[b] : i = runner[r].trade
      BY <1>3, <2>1, <2>2
    <2>4. Current(r)' = b /\ runner'[r].trade = i
      BY <1>3, <2>1, <2>2, <2>3
    <2>5. Mine(r) = trade[b][i] /\ Mine(r)' = trade'[b][i]
      BY <2>2, <2>3, <2>4 DEF Mine
    <2>6. trade'[b][i].deduction = "PENDING"
      BY <1>5, <2>4 DEF Open
    <2>7. Open(r)
      BY <1>1, <1>3, <2>1, <2>2, <2>3, <2>6 DEF Open, Busy
    <2> QED
      BY <1>1, <1>3, <2>1, <2>2, <2>4, <2>5, <2>7 DEF SameOpen
  <1> QED
    BY <1>2, <1>4, <1>5, Quiet DEF IInv

\* A transaction that is rolled back.
LEMMA RollBackKeeps ==
  ASSUME IInv, TypeOK', UNCHANGED <<clock, agreement, handler>>,
         NEW r \in Runner, Open(r), NEW new \in Trade,
         SetTrade(Current(r), runner[r].trade, new), Unlock(Current(r)),
         new.due = Mine(r).due, new.scheduled = Mine(r).scheduled, new.deduction = "GONE",
         \A q \in Runner : runner'[q] = runner[q] \/ (q = r /\ runner'[q].at \in {"idle", "batch"})
  PROVE  IInv'
  <1>0. Busy(r)
    BY DEF Open, Busy
  <1>1. PICK a \in Agreement : a = Current(r)
    BY <1>0, OpenTyped DEF IInv
  <1>2. PICK t \in DOMAIN trade[a] : t = runner[r].trade
    BY <1>0, <1>1, OpenTyped DEF IInv
  <1>3. SetTrade(a, t, new) /\ trade[a][t].deduction = "PENDING"
    BY <1>1, <1>2 DEF Open
  <1>4. \A b \in Agreement :
          /\ DOMAIN trade'[b] = DOMAIN trade[b]
          /\ \A i \in DOMAIN trade[b] :
               trade'[b][i] = IF b = a /\ i = t THEN new ELSE trade[b][i]
    BY <1>3, SetTradeEffect DEF IInv
  <1>5. ASSUME NEW b \in Agreement
        PROVE  Committed(b)' = Committed(b)
    BY <1>3, <1>4 DEF Committed
  <1>6. SameRecords
    BY <1>3, <1>4, <1>5 DEF SameRecords, SameAt, Committed
  <1>7. ASSUME NEW q \in Runner, Busy(q)'
        PROVE  runner'[q] = runner[q] /\ Busy(q) /\ Current(q)' = Current(q)
               /\ Current(q) \in Agreement /\ runner[q].trade \in DOMAIN trade[Current(q)]
    <2>1. runner'[q] = runner[q] /\ Busy(q)
      BY <1>7 DEF Busy
    <2> QED
      BY <2>1, OpenTyped DEF IInv, Current
  <1>8. Working'
    <2> SUFFICES ASSUME NEW q \in Runner, Busy(q)'
                 PROVE  runner'[q].todo # <<>> /\ runner'[q].trade \in DOMAIN trade'[Current(q)']
      BY DEF Working
    <2>1. runner[q].todo # <<>>
      BY <1>7 DEF IInv, Working
    <2> QED
      BY <1>4, <1>7, <2>1
  <1>9. ASSUME NEW q \in Runner, Open(q)'
        PROVE  SameOpen(q)
    <2>1. Busy(q)'
      BY <1>9 DEF Open, Busy
    <2>2. PICK b \in Agreement : b = Current(q)
      BY <1>7, <2>1
    <2>3. PICK i \in DOMAIN trade[b] : i = runner[q].trade
      BY <1>7, <2>1, <2>2
    <2>4. Current(q)' = b /\ runner'[q].trade = i
      BY <1>7, <2>1, <2>2, <2>3
    <2>5. trade'[b][i].deduction = "PENDING"
      BY <1>9, <2>4 DEF Open
    <2>6. trade'[b][i] = trade[b][i] /\ ~(b = a /\ i = t)
      BY <1>4, <2>5
    <2>7. Open(q)
      BY <1>7, <2>1, <2>2, <2>3, <2>5, <2>6 DEF Open, Busy
    <2>8. lock[a] = r /\ lock[b] = q
      BY <1>1, <2>2, <2>7 DEF IInv, Locked
    <2>9. b # a
      BY <1>1, <1>2, <2>2, <2>3, <2>6, <2>8
    <2>10. lock'[b] = lock[b]
      BY <1>1, <2>9 DEF Unlock, IInv, TypeOK
    <2>11. Mine(q) = trade[b][i] /\ Mine(q)' = trade'[b][i]
      BY <2>2, <2>3, <2>4 DEF Mine
    <2> QED
      BY <1>7, <2>1, <2>2, <2>4, <2>6, <2>7, <2>10, <2>11 DEF SameOpen
  <1>10. Notified'
    BY <1>4 DEF IInv, Notified, TypeOK
  <1> QED
    BY <1>6, <1>8, <1>9, <1>10, Quiet DEF IInv

-----------------------------------------------------------------------------
(* The actions                                                             *)

LEMMA RowTyped ==
  ASSUME TypeOK, NEW a \in Agreement
  PROVE  agreement[a] \in Row
  BY DEF TypeOK

\* A free row is no open transaction's.
LEMMA FreeIsIdle ==
  ASSUME IInv, NEW a \in Agreement, lock[a] = Nobody
  PROVE  \A r \in Runner : Open(r) => Current(r) # a
  BY RunnerAssumption DEF IInv, Locked

\* A row changes that no open transaction has.
LEMMA IdleRowKeeps ==
  ASSUME IInv, NEW a \in Agreement, NEW new \in Row,
         \A r \in Runner : Open(r) => Current(r) # a,
         agreement' = [agreement EXCEPT ![a] = new],
         new.due = NoDue \/ new.due > clock,
         new.status = "VALID" <=> new.due # NoDue,
         UNCHANGED <<clock, lock, trade, expires, procs, bounds>>
  PROVE  IInv'
  <1>1. \A b \in Agreement : agreement'[b] = IF b = a THEN new ELSE agreement[b]
    BY DEF IInv, TypeOK
  <1>2. TypeOK'
    BY <1>1 DEF IInv, TypeOK, procs, bounds
  <1>3. Notified' /\ Working'
    BY DEF IInv, Notified, Working, Busy, Current, procs
  <1>4. ASSUME NEW b \in Agreement
        PROVE  Scheduled(b)' = Scheduled(b)
    BY DEF Scheduled, Committed
  <1>5. ASSUME NEW r \in Runner, Open(r)'
        PROVE  lock'[Current(r)'] = r /\ PinnedBy(r)'
    <2>1. Open(r) /\ Busy(r) /\ Current(r)' = Current(r)
      BY <1>5 DEF Open, Busy, Current, procs
    <2>2. lock[Current(r)] = r /\ PinnedBy(r)
      BY <2>1 DEF IInv, Locked, Pinned
    <2>3. PICK b \in Agreement : b = Current(r)
      BY <2>1, OpenTyped DEF IInv
    <2>4. b # a
      BY <2>1, <2>3
    <2>5. agreement'[b] = agreement[b]
      BY <1>1, <2>4
    <2>6. Scheduled(Current(r))' = Scheduled(b)
      BY <1>4, <2>1, <2>3 DEF Scheduled, Committed
    <2>7. Mine(r)' = Mine(r) /\ runner'[r] = runner[r]
      BY <2>1 DEF Mine, procs
    <2> QED
      BY <2>1, <2>2, <2>3, <2>5, <2>6, <2>7 DEF PinnedBy
  <1>6. Dated'
    <2> SUFFICES ASSUME NEW b \in Agreement, NEW j \in Scheduled(b)
                 PROVE  /\ trade[b][j].due <= clock
                        /\ agreement'[b].due # NoDue => trade[b][j].due < agreement'[b].due
      BY <1>4 DEF Dated
    <2>1. trade[b][j].due \in Nat /\ clock \in Nat
      BY TradeTyped DEF Scheduled, Committed, IInv, Trade, TypeOK
    <2>2. /\ trade[b][j].due <= clock
          /\ agreement[b].due # NoDue => trade[b][j].due < agreement[b].due
      BY DEF IInv, Dated
    <2>3. new.due \in Nat
      BY DEF Row
    <2> QED
      BY <1>1, <2>1, <2>2, <2>3
  <1>7. ValidIsScheduled'
    BY <1>1 DEF IInv, ValidIsScheduled
  <1>8. DueDeductedOnce'
    BY <1>4 DEF IInv, DueDeductedOnce
  <1> QED
    BY <1>2, <1>3, <1>5, <1>6, <1>7, <1>8 DEF IInv, Locked, Pinned

LEMMA AgreementStepKeeps ==
  ASSUME IInv, NEW a \in Agreement, AgreementStep(a)
  PROVE  IInv'
  <1>1. CASE CreateAgreementSign(a)
    <2>1. agreement[a] \in Row /\ agreement[a].status = "NONE"
      BY <1>1, RowTyped DEF CreateAgreementSign, IInv
    <2> DEFINE new == [agreement[a] EXCEPT !.status = "PENDING"]
    <2>2. agreement' = [agreement EXCEPT ![a] = new]
      BY <1>1 DEF CreateAgreementSign
    <2>3. new \in Row /\ new.status = "PENDING" /\ new.due = agreement[a].due
      BY <2>1 DEF Row
    <2>4. agreement[a].due = NoDue
      BY <2>1 DEF IInv, ValidIsScheduled
    <2>5. \A r \in Runner : Open(r) => Current(r) # a
      BY <2>1 DEF IInv, Pinned, PinnedBy
    <2> HIDE DEF new
    <2> QED
      BY <1>1, <2>2, <2>3, <2>4, <2>5, IdleRowKeeps DEF CreateAgreementSign
  <1>2. ASSUME NEW status \in {"VALID", "UNSIGNED", "INVALID"}, ProcessAgreementNotify(a, status)
        PROVE  IInv'
    <2>1. PICK numbered \in BOOLEAN :
            agreement' = [agreement EXCEPT ![a] =
              [status |-> status, numbered |-> agreement[a].numbered \/ numbered,
               due |-> IF status = "VALID" THEN RollForward(ExecuteTime[a], Period) ELSE NoDue]]
      BY <1>2 DEF ProcessAgreementNotify
    <2> DEFINE due == IF status = "VALID" THEN RollForward(ExecuteTime[a], Period) ELSE NoDue
               new == [status |-> status, numbered |-> agreement[a].numbered \/ numbered,
                       due |-> due]
    <2>2. clock \in Nat /\ ExecuteTime[a] \in Nat
      BY TimesAssumption DEF IInv, TypeOK
    <2>3. RollForward(ExecuteTime[a], Period) \in Nat /\ RollForward(ExecuteTime[a], Period) > clock
      BY <2>2, RollForwardLater, TimesAssumption
    <2>4. due \in Nat /\ (due = NoDue \/ due > clock) /\ (status = "VALID" <=> due # NoDue)
      BY <2>2, <2>3 DEF NoDue
    <2> HIDE DEF due
    <2>5. new \in Row /\ new.due = due /\ new.status = status
      BY <2>4 DEF Row
    <2>6. agreement' = [agreement EXCEPT ![a] = new]
      BY <2>1 DEF due
    <2> HIDE DEF new
    <2> QED
      BY <1>2, <2>4, <2>5, <2>6, IdleRowKeeps, FreeIsIdle DEF ProcessAgreementNotify
  <1>3. CASE AdminUnsignAgreement(a)
    <2> DEFINE new == [[agreement[a] EXCEPT !.status = "UNSIGNED"] EXCEPT !.due = NoDue]
    <2>1. agreement' = [agreement EXCEPT ![a] = new]
      BY <1>3, RowTyped DEF AdminUnsignAgreement, IInv, TypeOK
    <2>2. new \in Row /\ new.due = NoDue /\ new.status = "UNSIGNED"
      BY RowTyped DEF Row, IInv, NoDue
    <2> HIDE DEF new
    <2> QED
      BY <1>3, <2>1, <2>2, IdleRowKeeps, FreeIsIdle DEF AdminUnsignAgreement
  <1> QED
    BY <1>1, <1>2, <1>3 DEF AgreementStep

\* Tasks of a runner.
LEMMA TaskTyped ==
  ASSUME TypeOK, NEW r \in Runner, NEW new \in Task, runner' = [runner EXCEPT ![r] = new]
  PROVE  /\ runner' \in [Runner -> Task]
         /\ \A q \in Runner : runner'[q] = IF q = r THEN new ELSE runner[q]
  BY DEF TypeOK

LEMMA StartTyped ==
  ASSUME TypeOK, NEW r \in Runner, NEW todo \in Seq(Agreement), NEW scheduled \in BOOLEAN,
         Start(r, todo, scheduled)
  PROVE  /\ runner' \in [Runner -> Task] /\ runner'[r].at = "batch"
         /\ \A q \in Runner \ {r} : runner'[q] = runner[q]
  <1> DEFINE new == [Idle EXCEPT !.at = "batch", !.todo = todo, !.scheduled = scheduled]
  <1>1. new \in Task /\ new.at = "batch"
    BY DEF Idle, Task
  <1>2. runner' = [runner EXCEPT ![r] = new]
    BY DEF Start
  <1> HIDE DEF new
  <1>3. /\ runner' \in [Runner -> Task]
        /\ \A q \in Runner : runner'[q] = IF q = r THEN new ELSE runner[q]
    BY <1>1, <1>2, TaskTyped
  <1> QED
    BY <1>1, <1>3

LEMMA NextOneTyped ==
  ASSUME TypeOK, NEW r \in Runner, runner[r].todo # <<>>, NextOne(r)
  PROVE  /\ runner' \in [Runner -> Task] /\ runner'[r].at = "batch"
         /\ \A q \in Runner \ {r} : runner'[q] = runner[q]
  <1>1. runner[r].scheduled \in BOOLEAN
    BY DEF TypeOK, Task
  <1>2. Tail(runner[r].todo) \in Seq(Agreement)
    BY CurrentTyped
  <1> QED
    BY <1>1, <1>2, StartTyped DEF NextOne

LEMMA IdleTyped ==
  ASSUME TypeOK, NEW r \in Runner, runner' = [runner EXCEPT ![r] = Idle]
  PROVE  /\ runner' \in [Runner -> Task] /\ runner'[r].at = "idle"
         /\ \A q \in Runner \ {r} : runner'[q] = runner[q]
  <1>1. Idle \in Task /\ Idle.at = "idle"
    BY DEF Idle, Task
  <1> QED
    BY <1>1, TaskTyped

\* Steps that leave the tables alone.
LEMMA BatchKeeps ==
  ASSUME IInv, NEW r \in Runner,
         \/ r \in Scheduler /\ RunAutoDeductionInterval(r)
         \/ r \in Admin /\ AdminTriggerAutoRun(r)
         \/ r \in Admin /\ \E a \in Agreement : AdminExecuteDeduction(r, a)
         \/ TurnDown(r) \/ RecordThrows(r) \/ WaitExpires(r) \/ Finish(r)
  PROVE  IInv'
  <1>1. /\ UNCHANGED <<clock, tables, handler>>
        /\ manual' \in {manual, manual + 1} /\ faults' \in {faults, faults + 1}
    BY DEF RunAutoDeductionInterval, AdminTriggerAutoRun, AdminExecuteDeduction, TurnDown,
           RecordThrows, WaitExpires, Finish, bounds
  <1>2. running' \in [Scheduler -> BOOLEAN]
    BY DEF RunAutoDeductionInterval, AdminTriggerAutoRun, AdminExecuteDeduction, TurnDown,
           RecordThrows, WaitExpires, Finish, IInv, TypeOK
  <1>3. /\ runner' \in [Runner -> Task]
        /\ \A q \in Runner : runner'[q] = runner[q] \/ runner'[q].at \in {"idle", "batch"}
    <2>1. CASE \/ r \in Scheduler /\ RunAutoDeductionInterval(r)
               \/ r \in Admin /\ AdminTriggerAutoRun(r)
      <3>1. PICK todo \in DueBatches : Start(r, todo, TRUE)
        BY <2>1 DEF RunAutoDeductionInterval, AdminTriggerAutoRun
      <3> QED
        BY <3>1, BatchTyped, StartTyped DEF IInv
    <2>2. CASE \E a \in Agreement : AdminExecuteDeduction(r, a)
      <3>1. PICK a \in Agreement : Start(r, <<a>>, FALSE)
        BY <2>2 DEF AdminExecuteDeduction
      <3>2. <<a>> \in Seq(Agreement) /\ FALSE \in BOOLEAN
        OBVIOUS
      <3> QED
        BY <3>1, <3>2, StartTyped DEF IInv
    <2>3. CASE TurnDown(r) \/ RecordThrows(r) \/ WaitExpires(r)
      <3>1. runner[r].todo # <<>>
        BY <2>3 DEF TurnDown, RecordThrows, WaitExpires, Busy, IInv, Working
      <3> QED
        BY <2>3, <3>1, NextOneTyped DEF TurnDown, RecordThrows, WaitExpires, IInv
    <2>4. CASE Finish(r)
      BY <2>4, IdleTyped DEF Finish, IInv
    <2> QED
      BY <2>1, <2>2, <2>3, <2>4
  <1>4. TypeOK'
    BY <1>1, <1>2, <1>3 DEF IInv, TypeOK, tables
  <1>5. Notified'
    BY <1>1 DEF IInv, Notified, tables
  <1> QED
    BY <1>1, <1>3, <1>4, <1>5, MovesKeep DEF tables

LEMMA TickKeeps ==
  ASSUME IInv, Tick
  PROVE  IInv'
  <1>1. TypeOK'
    BY DEF IInv, TypeOK, Tick, tables, procs, bounds
  <1>2. Notified'
    BY DEF IInv, Notified, Tick, tables, procs
  <1> QED
    BY <1>1, <1>2, MovesKeep DEF Tick, tables, procs

LEMMA TradeStepKeeps ==
  ASSUME IInv, NEW a \in Agreement, TradeStep(a)
  PROVE  IInv'
  <1>1. PICK t \in DOMAIN trade[a] :
          AlipayPays(a, t) \/ \E h \in Handler : ReadNotified(h, a, t)
    BY DEF TradeStep
  <1>2. trade[a][t] \in Trade /\ t \in Nat
    BY TradeTyped DEF IInv
  <1>3. CASE AlipayPays(a, t)
    <2> DEFINE new == [trade[a][t] EXCEPT !.alipay = "PAID"]
    <2>1. /\ new \in Trade /\ new.due = trade[a][t].due
          /\ new.scheduled = trade[a][t].scheduled /\ new.deduction = trade[a][t].deduction
      BY <1>2 DEF Trade
    <2>2. SetTrade(a, t, new)
      BY <1>3 DEF AlipayPays
    <2> HIDE DEF new
    <2>3. /\ trade' \in [Agreement -> Seq(Trade)]
          /\ \A b \in Agreement : DOMAIN trade'[b] = DOMAIN trade[b]
      BY <2>1, <2>2, SetTradeEffect DEF IInv
    <2>4. UNCHANGED <<clock, agreement, lock, expires, running, runner, handler, manual, faults>>
      BY <1>3 DEF AlipayPays, procs, bounds
    <2>5. TypeOK'
      BY <2>3, <2>4 DEF IInv, TypeOK
    <2>6. Notified'
      BY <2>3, <2>4 DEF IInv, Notified, TypeOK
    <2> QED
      BY <2>1, <2>2, <2>4, <2>5, <2>6, CosmeticKeep
  <1>4. ASSUME NEW h \in Handler, ReadNotified(h, a, t)
        PROVE  IInv'
    <2>1. /\ handler' = [handler EXCEPT ![h] = <<a, t>>]
          /\ UNCHANGED <<clock, agreement, lock, trade, expires, running, runner, manual, faults>>
      BY <1>4 DEF ReadNotified, tables, bounds
    <2>2. \A g \in Handler : handler'[g] = IF g = h THEN <<a, t>> ELSE handler[g]
      BY <2>1 DEF IInv, TypeOK
    <2>3. handler' \in [Handler -> {<<>>} \cup (Agreement \X Nat)]
      BY <1>2, <2>1 DEF IInv, TypeOK
    <2>4. TypeOK'
      BY <2>1, <2>3 DEF IInv, TypeOK
    <2>5. Notified'
      BY <2>1, <2>2 DEF IInv, Notified
    <2> QED
      BY <2>1, <2>4, <2>5, MovesKeep
  <1> QED
    BY <1>1, <1>3, <1>4

LEMMA WriteNotifiedKeeps ==
  ASSUME IInv, NEW h \in Handler, WriteNotified(h)
  PROVE  IInv'
  <1>1. handler[h] # <<>> /\ handler[h] \in Agreement \X Nat
    BY DEF WriteNotified, IInv, TypeOK
  <1>2. PICK a \in Agreement : a = handler[h][1]
    BY <1>1
  <1>3. PICK t \in DOMAIN trade[a] : t = handler[h][2]
    BY <1>1, <1>2 DEF IInv, Notified
  <1> DEFINE new == [trade[a][t] EXCEPT !.order = "PAID"]
  <1>4. /\ new \in Trade /\ new.due = trade[a][t].due
        /\ new.scheduled = trade[a][t].scheduled /\ new.deduction = trade[a][t].deduction
    BY TradeTyped DEF Trade, IInv
  <1>5. SetTrade(a, t, new)
    BY <1>2, <1>3 DEF WriteNotified
  <1> HIDE DEF new
  <1>6. /\ trade' \in [Agreement -> Seq(Trade)]
        /\ \A b \in Agreement : DOMAIN trade'[b] = DOMAIN trade[b]
    BY <1>4, <1>5, SetTradeEffect DEF IInv
  <1>7. UNCHANGED <<clock, agreement, lock, running, runner, manual, faults>>
    BY DEF WriteNotified, bounds
  <1>8. \A g \in Handler : handler'[g] = IF g = h THEN <<>> ELSE handler[g]
    BY DEF WriteNotified, IInv, TypeOK
  <1>9. expires' \in Nat
    BY TimesAssumption DEF WriteNotified, ExtendMembership, IInv, TypeOK
  <1>10. handler' \in [Handler -> {<<>>} \cup (Agreement \X Nat)]
    BY DEF WriteNotified, IInv, TypeOK
  <1>11. TypeOK'
    BY <1>6, <1>7, <1>9, <1>10 DEF IInv, TypeOK
  <1>12. Notified'
    BY <1>6, <1>8 DEF IInv, Notified, TypeOK
  <1> QED
    BY <1>4, <1>5, <1>7, <1>11, <1>12, CosmeticKeep

LEMMA FaultKeeps ==
  ASSUME IInv, NEW r \in Runner, Expire(r) \/ PayThrows(r) \/ Die(r)
  PROVE  IInv'
  <1> DEFINE a == Current(r)
             t == runner[r].trade
  <1>1. CASE Open(r)
    <2>1. PICK new \in Trade :
            /\ SetTrade(a, t, new) /\ Unlock(a)
            /\ new.due = Mine(r).due /\ new.scheduled = Mine(r).scheduled
            /\ new.deduction = "GONE"
      <3>1. Mine(r) \in Trade /\ Mine(r) = trade[a][t]
        BY <1>1, OpenTyped DEF IInv, Open, Busy, Mine
      <3>2. CASE Expire(r) \/ Die(r)
        <4> DEFINE new == [Mine(r) EXCEPT !.deduction = "GONE"]
        <4>1. /\ new \in Trade /\ new.due = Mine(r).due /\ new.scheduled = Mine(r).scheduled
              /\ new.deduction = "GONE"
          BY <3>1 DEF Trade
        <4>2. SetTrade(a, t, new) /\ Unlock(a)
          BY <1>1, <3>1, <3>2 DEF Expire, Die, RollBack
        <4> HIDE DEF new
        <4> QED
          BY <4>1, <4>2
      <3>3. CASE PayThrows(r)
        <4>1. PICK outcome \in {"NONE", "PROCESSING", "PAID", "REFUSED"} :
                SetTrade(a, t, [Mine(r) EXCEPT !.deduction = "GONE", !.alipay = outcome])
          BY <3>1, <3>3 DEF PayThrows
        <4> DEFINE new == [Mine(r) EXCEPT !.deduction = "GONE", !.alipay = outcome]
        <4>2. /\ new \in Trade /\ new.due = Mine(r).due /\ new.scheduled = Mine(r).scheduled
              /\ new.deduction = "GONE"
          BY <3>1 DEF Trade
        <4>3. SetTrade(a, t, new) /\ Unlock(a)
          BY <3>3, <4>1 DEF PayThrows
        <4> HIDE DEF new
        <4> QED
          BY <4>2, <4>3
      <3> QED
        BY <3>2, <3>3
    <2>2. /\ runner' \in [Runner -> Task]
          /\ \A q \in Runner : runner'[q] = runner[q] \/ (q = r /\ runner'[q].at \in {"idle", "batch"})
      <3>1. CASE Expire(r)
        BY <3>1 DEF Expire, procs, IInv, TypeOK
      <3>2. CASE Die(r)
        BY <3>2, IdleTyped DEF Die, IInv
      <3>3. CASE PayThrows(r)
        <4>1. runner[r].todo # <<>>
          BY <1>1 DEF Open, Busy, IInv, Working
        <4> QED
          BY <3>3, <4>1, NextOneTyped DEF PayThrows, IInv
      <3> QED
        BY <3>1, <3>2, <3>3
    <2>3. UNCHANGED <<clock, agreement, expires, handler, manual>> /\ faults' = faults + 1
      BY DEF Expire, Die, PayThrows, procs
    <2>4. running' \in [Scheduler -> BOOLEAN]
      BY DEF Expire, Die, PayThrows, procs, IInv, TypeOK
    <2>5. a \in Agreement /\ t \in DOMAIN trade[a]
      BY <1>1, OpenTyped DEF IInv, Open, Busy
    <2> HIDE DEF a, t
    <2>6. trade' \in [Agreement -> Seq(Trade)]
      BY <2>1, <2>5, SetTradeEffect DEF IInv
    <2>7. lock' \in [Agreement -> Runner \cup {Nobody}]
      BY <2>1 DEF Unlock, IInv, TypeOK
    <2>8. TypeOK'
      BY <2>2, <2>3, <2>4, <2>6, <2>7 DEF IInv, TypeOK
    <2> QED
      BY <1>1, <2>1, <2>2, <2>3, <2>8, RollBackKeeps DEF a, t
  <1>2. CASE ~Open(r)
    <2>1. /\ Die(r) /\ faults' = faults + 1
          /\ UNCHANGED <<trade, lock, clock, agreement, expires, handler, manual>>
      BY <1>2 DEF Expire, PayThrows, Die
    <2>2. runner' \in [Runner -> Task] /\ runner'[r].at = "idle"
          /\ \A q \in Runner \ {r} : runner'[q] = runner[q]
      BY <2>1, IdleTyped DEF Die, IInv
    <2>5. running' \in [Scheduler -> BOOLEAN]
      BY <2>1 DEF Die, IInv, TypeOK
    <2>6. faults' \in Nat
      BY <2>1 DEF IInv, TypeOK
    <2>3. TypeOK'
      BY <2>1, <2>2, <2>5, <2>6 DEF IInv, TypeOK
    <2>4. Notified'
      BY <2>1 DEF IInv, Notified
    <2> QED
      BY <2>1, <2>2, <2>3, <2>4, MovesKeep
  <1> QED
    BY <1>1, <1>2

LEMMA PayKeeps ==
  ASSUME IInv, NEW r \in Runner, Pay(r)
  PROVE  IInv'
  <1>1. Busy(r)
    BY DEF Pay, Busy
  <1>2. PICK a \in Agreement : a = Current(r)
    BY <1>1, OpenTyped DEF IInv
  <1>3. PICK t \in DOMAIN trade[a] : t = runner[r].trade
    BY <1>1, <1>2, OpenTyped DEF IInv
  <1>4. PICK outcome \in {"PROCESSING", "PAID", "REFUSED"} :
          /\ SetTrade(a, t, [trade[a][t] EXCEPT !.alipay = outcome])
          /\ runner' = [runner EXCEPT ![r].at = "record", ![r].reply = outcome]
    BY <1>2, <1>3 DEF Pay
  <1> DEFINE new == [trade[a][t] EXCEPT !.alipay = outcome]
             task == [runner[r] EXCEPT !.at = "record", !.reply = outcome]
  <1>5. /\ new \in Trade /\ new.due = trade[a][t].due
        /\ new.scheduled = trade[a][t].scheduled /\ new.deduction = trade[a][t].deduction
    BY TradeTyped DEF Trade, IInv
  <1>6. SetTrade(a, t, new)
    BY <1>4
  <1>7. runner[r] \in Task
    BY DEF IInv, TypeOK
  <1>8. /\ task \in Task /\ task.todo = runner[r].todo
        /\ task.trade = runner[r].trade /\ task.began = runner[r].began
    BY <1>7 DEF Task
  <1>9. runner' = [runner EXCEPT ![r] = task]
    BY <1>4, <1>7 DEF IInv, TypeOK
  <1> HIDE DEF new, task
  <1>10. /\ runner' \in [Runner -> Task]
         /\ \A q \in Runner : runner'[q] = IF q = r THEN task ELSE runner[q]
    BY <1>8, <1>9, TaskTyped DEF IInv
  <1>11. /\ trade' \in [Agreement -> Seq(Trade)]
         /\ \A b \in Agreement : DOMAIN trade'[b] = DOMAIN trade[b]
    BY <1>5, <1>6, SetTradeEffect DEF IInv
  <1>12. UNCHANGED <<clock, agreement, lock, expires, running, handler, manual, faults>>
    BY DEF Pay, bounds
  <1>13. TypeOK'
    BY <1>10, <1>11, <1>12 DEF IInv, TypeOK
  <1>14. Notified'
    BY <1>11, <1>12 DEF IInv, Notified, TypeOK
  <1> QED
    BY <1>1, <1>5, <1>6, <1>8, <1>10, <1>12, <1>13, <1>14, CosmeticKeep
LEMMA BeginKeeps ==
  ASSUME IInv, NEW r \in Runner, BeginDeduction(r)
  PROVE  IInv'
  <1>1. runner[r].todo # <<>> /\ runner[r].at = "batch" /\ ~Declined(r)
    BY DEF BeginDeduction
  <1>2. PICK a \in Agreement : a = Current(r)
    BY <1>1, CurrentTyped DEF IInv
  <1>3. lock[a] = Nobody
    BY <1>2 DEF BeginDeduction
  <1> DEFINE new == [due |-> agreement[a].due, scheduled |-> runner[r].scheduled,
                     deduction |-> "PENDING", order |-> "PENDING", alipay |-> "NONE"]
             task == [at |-> "pay", todo |-> runner[r].todo, scheduled |-> runner[r].scheduled,
                      trade |-> Len(trade[a]) + 1, began |-> clock, reply |-> "NONE"]
  <1>4. /\ trade[a] \in Seq(Trade) /\ runner[r] \in Task /\ agreement[a] \in Row
        /\ clock \in Nat
    BY DEF IInv, TypeOK
  <1>5. /\ new \in Trade /\ new.due = agreement[a].due /\ new.scheduled = runner[r].scheduled
        /\ new.deduction = "PENDING"
    BY <1>4 DEF Trade, Task, Row
  <1>27. Len(trade[a]) + 1 \in Nat
    BY <1>4
  <1>6. /\ task \in Task /\ task.at = "pay" /\ task.trade = Len(trade[a]) + 1
        /\ task.began = clock /\ task.todo = runner[r].todo
    BY <1>4, <1>27 DEF Task
  <1>7. trade' = [trade EXCEPT ![a] = Append(trade[a], new)]
    BY <1>2 DEF BeginDeduction
  <1>8. runner' = [runner EXCEPT ![r] = task]
    BY <1>2, <1>4 DEF BeginDeduction, IInv, TypeOK
  <1>9. lock' = [lock EXCEPT ![a] = r]
    BY <1>2 DEF BeginDeduction, LockAgreement
  <1>10. UNCHANGED <<clock, agreement, expires, running, handler, manual, faults>>
    BY DEF BeginDeduction, bounds
  <1> DEFINE n == Len(trade[a]) + 1
  <1> HIDE DEF new, task
  <1>11. /\ Append(trade[a], new) \in Seq(Trade)
         /\ n \in Nat /\ n \in DOMAIN Append(trade[a], new) /\ n \notin DOMAIN trade[a]
         /\ DOMAIN Append(trade[a], new) = DOMAIN trade[a] \cup {n}
         /\ \A i \in DOMAIN trade[a] : Append(trade[a], new)[i] = trade[a][i]
         /\ Append(trade[a], new)[n] = new
    BY <1>4, <1>5
  <1>12. trade'[a] = Append(trade[a], new) /\ \A b \in Agreement \ {a} : trade'[b] = trade[b]
    BY <1>7 DEF IInv, TypeOK
  <1>13. trade' \in [Agreement -> Seq(Trade)]
    BY <1>7, <1>11 DEF IInv, TypeOK
  <1>14. /\ runner' \in [Runner -> Task]
         /\ \A q \in Runner : runner'[q] = IF q = r THEN task ELSE runner[q]
    BY <1>6, <1>8, TaskTyped DEF IInv
  <1>15. /\ lock' \in [Agreement -> Runner \cup {Nobody}]
         /\ \A b \in Agreement : lock'[b] = IF b = a THEN r ELSE lock[b]
    BY <1>9 DEF IInv, TypeOK
  <1>16. TypeOK'
    BY <1>10, <1>13, <1>14, <1>15 DEF IInv, TypeOK
  <1> HIDE DEF n
  <1>17. \A b \in Agreement : DOMAIN trade[b] \subseteq DOMAIN trade'[b]
    BY <1>11, <1>12
  <1>18. Notified'
    BY <1>10, <1>17 DEF IInv, Notified, TypeOK
  <1>19. Current(r)' = a /\ runner'[r].trade = n
    BY <1>2, <1>6, <1>14 DEF Current, n
  <1>20. Working'
    <2> SUFFICES ASSUME NEW q \in Runner, Busy(q)'
                 PROVE  runner'[q].todo # <<>> /\ runner'[q].trade \in DOMAIN trade'[Current(q)']
      BY DEF Working
    <2>1. CASE q = r
      BY <2>1, <1>1, <1>6, <1>11, <1>12, <1>14, <1>19
    <2>2. CASE q # r
      <3>1. runner'[q] = runner[q] /\ Busy(q) /\ Current(q)' = Current(q)
        BY <1>14, <2>2 DEF Busy, Current
      <3> QED
        BY <1>17, <3>1, OpenTyped DEF IInv, Working
    <2> QED
      BY <2>1, <2>2
  <1>21. ASSUME NEW b \in Agreement
         PROVE  SameAt(b)
    <2>1. CASE b = a
      <3>1. Committed(a)' = Committed(a)
        BY <1>5, <1>11, <1>12 DEF Committed
      <3> QED
        BY <2>1, <3>1, <1>11, <1>12 DEF SameAt, Committed
    <2>2. CASE b # a
      BY <2>2, <1>12 DEF SameAt, Committed
    <2> QED
      BY <2>1, <2>2
  <1>22. lock'[Current(r)'] = r /\ PinnedBy(r)'
    <2>1. Mine(r)' = new /\ runner'[r].began = clock
      BY <1>6, <1>11, <1>12, <1>14, <1>19 DEF Mine
    <2>2. agreement[a].status = "VALID" /\ (runner[r].scheduled => agreement[a].due <= clock)
      BY <1>1, <1>2 DEF Declined, Due
    <2>3. \A j \in Scheduled(a)' : trade'[a][j].due <= clock
      BY <1>21, SameScheduled DEF IInv, Dated
    <2>4. Scheduled(Current(r))' = Scheduled(a)'
      BY <1>19 DEF Scheduled, Committed
    <2> QED
      BY <1>4, <1>5, <1>10, <1>15, <1>19, <2>1, <2>2, <2>3, <2>4 DEF PinnedBy
  <1>23. ASSUME NEW q \in Runner, q # r, Open(q)'
         PROVE  lock'[Current(q)'] = q /\ PinnedBy(q)'
    <2>1. runner'[q] = runner[q] /\ Busy(q) /\ Current(q)' = Current(q)
      BY <1>14, <1>23 DEF Open, Busy, Current
    <2>2. PICK b \in Agreement : b = Current(q)
      BY <2>1, OpenTyped DEF IInv
    <2>3. PICK i \in DOMAIN trade[b] : i = runner[q].trade
      BY <2>1, <2>2, OpenTyped DEF IInv
    <2>4. trade'[b][i] = trade[b][i]
      BY <1>11, <1>12
    <2>5. Mine(q) = trade[b][i] /\ Mine(q)' = trade'[b][i]
      BY <2>1, <2>2, <2>3 DEF Mine
    <2>6. Open(q)
      BY <1>23, <2>1, <2>2, <2>3, <2>4 DEF Open, Busy
    <2>7. b # a
      BY <1>3, <2>2, <2>6, RunnerAssumption DEF IInv, Locked
    <2>8. SameOpen(q)
      BY <1>10, <1>15, <2>1, <2>2, <2>4, <2>5, <2>6, <2>7 DEF SameOpen
    <2> QED
      BY <1>10, <1>21, <2>2, <2>8, PinnedStays
  <1>24. Locked' /\ Pinned'
    BY <1>22, <1>23 DEF Locked, Pinned
  <1>25. Dated' /\ DueDeductedOnce'
    BY <1>10, <1>21, DatesStay DEF Dated, DueDeductedOnce
  <1>26. ValidIsScheduled'
    BY <1>10 DEF ValidIsScheduled, IInv
  <1> QED
    BY <1>16, <1>18, <1>20, <1>24, <1>25, <1>26 DEF IInv
\* A deduction that is committed, with its end and a date for the next.
LEMMA RecordKeeps ==
  ASSUME IInv, TypeOK', UNCHANGED <<clock, handler>>,
         NEW r \in Runner, Open(r), NEW new \in Trade,
         SetTrade(Current(r), runner[r].trade, new), Unlock(Current(r)),
         new.due = Mine(r).due, new.scheduled = Mine(r).scheduled,
         new.deduction \in {"SUCCESS", "FAILED"},
         NEW next \in Nat, next > runner[r].began,
         agreement' = [agreement EXCEPT ![Current(r)].due = next],
         runner'[r].at = "batch", \A q \in Runner \ {r} : runner'[q] = runner[q]
  PROVE  IInv'
  <1>0. Busy(r)
    BY DEF Open, Busy
  <1>1. PICK a \in Agreement : a = Current(r)
    BY <1>0, OpenTyped DEF IInv
  <1>2. PICK t \in DOMAIN trade[a] : t = runner[r].trade
    BY <1>0, <1>1, OpenTyped DEF IInv
  <1>3. SetTrade(a, t, new) /\ trade[a][t].deduction = "PENDING" /\ Mine(r) = trade[a][t]
    BY <1>1, <1>2 DEF Open, Mine
  <1>4. \A b \in Agreement :
          /\ DOMAIN trade'[b] = DOMAIN trade[b]
          /\ \A i \in DOMAIN trade[b] :
               trade'[b][i] = IF b = a /\ i = t THEN new ELSE trade[b][i]
    BY <1>3, SetTradeEffect DEF IInv
  <1>5. lock[a] = r /\ PinnedBy(r)
    BY <1>1 DEF IInv, Locked, Pinned
  <1>6. /\ agreement[a].status = "VALID" /\ agreement[a].due = trade[a][t].due
        /\ runner[r].began <= clock
        /\ trade[a][t].scheduled => trade[a][t].due <= runner[r].began
        /\ \A j \in Scheduled(a) : trade[a][j].due <= runner[r].began
    BY <1>1, <1>3, <1>5 DEF PinnedBy
  <1>7. /\ agreement'[a].due = next /\ agreement'[a].status = agreement[a].status
        /\ \A b \in Agreement \ {a} : agreement'[b] = agreement[b]
    BY <1>1 DEF IInv, TypeOK, Row
  <1>8. clock \in Nat /\ runner[r].began \in Nat /\ agreement[a].due \in Nat
    BY <1>0, OpenTyped DEF IInv, TypeOK, Row
  <1>9. ASSUME NEW b \in Agreement \ {a}
        PROVE  SameAt(b)
    BY <1>4 DEF SameAt, Committed
  <1>10. ASSUME NEW j \in Scheduled(a)', j # t
         PROVE  j \in Scheduled(a) /\ trade'[a][j].due = trade[a][j].due
    BY <1>4, <1>10 DEF Scheduled, Committed
  <1>11. t \in Scheduled(a)' => trade[a][t].scheduled /\ trade'[a][t].due = trade[a][t].due
    BY <1>3, <1>4 DEF Scheduled, Committed
  <1>12. \A j \in Scheduled(a)' : j \in DOMAIN trade[a] /\ trade'[a][j].due = trade[a][j].due
    BY <1>4, <1>10, <1>11 DEF Scheduled, Committed
  <1>13. ASSUME NEW j \in Scheduled(a)'
         PROVE  trade'[a][j].due <= runner[r].began /\ trade'[a][j].due \in Nat
    <2>1. trade[a][j].due \in Nat
      BY <1>12, TradeTyped DEF IInv, Trade
    <2> QED
      BY <1>6, <1>10, <1>11, <1>12, <2>1
  <1>14. Dated'
    <2> SUFFICES ASSUME NEW b \in Agreement, NEW j \in Scheduled(b)'
                 PROVE  /\ trade'[b][j].due <= clock'
                        /\ agreement'[b].due # NoDue => trade'[b][j].due < agreement'[b].due
      BY DEF Dated
    <2>1. CASE b = a
      BY <2>1, <1>6, <1>7, <1>8, <1>13
    <2>2. CASE b # a
      BY <2>2, <1>7, <1>9, DatesStay
    <2> QED
      BY <2>1, <2>2
  <1>15. ASSUME NEW i \in Scheduled(a)', i # t, t \in Scheduled(a)'
         PROVE  trade'[a][i].due # trade'[a][t].due
    <2>1. i \in Scheduled(a) /\ trade'[a][i].due = trade[a][i].due
      BY <1>10, <1>15
    <2>2. agreement[a].due # NoDue
      BY <1>6 DEF IInv, ValidIsScheduled
    <2>3. trade[a][i].due < agreement[a].due
      BY <2>1, <2>2 DEF IInv, Dated
    <2> QED
      BY <1>6, <1>8, <1>11, <1>13, <1>15, <2>1, <2>3
  <1>16. ASSUME NEW i \in Scheduled(a)', NEW j \in Scheduled(a)', i # j
         PROVE  trade'[a][i].due # trade'[a][j].due
    <2>1. CASE i = t \/ j = t
      BY <2>1, <1>15, <1>16
    <2>2. CASE i # t /\ j # t
      BY <2>2, <1>10, <1>16 DEF IInv, DueDeductedOnce
    <2> QED
      BY <2>1, <2>2
  <1>17. DueDeductedOnce'
    <2> SUFFICES ASSUME NEW b \in Agreement
                 PROVE  \A i \in Scheduled(b)' :
                          /\ trade'[b][i].due <= clock'
                          /\ \A j \in Scheduled(b)' : i # j => trade'[b][i].due # trade'[b][j].due
      BY DEF DueDeductedOnce
    <2>1. CASE b = a
      BY <2>1, <1>14, <1>16 DEF Dated
    <2>2. CASE b # a
      BY <2>2, <1>9, DatesStay
    <2> QED
      BY <2>1, <2>2
  <1>18. ValidIsScheduled'
    <2> SUFFICES ASSUME NEW b \in Agreement
                 PROVE  agreement'[b].status = "VALID" <=> agreement'[b].due # NoDue
      BY DEF ValidIsScheduled
    <2>1. next # NoDue
      BY <1>8 DEF NoDue
    <2>2. CASE b = a
      BY <2>1, <2>2, <1>6, <1>7
    <2>3. CASE b # a
      BY <2>3, <1>7 DEF IInv, ValidIsScheduled
    <2> QED
      BY <2>2, <2>3
  <1>19. ASSUME NEW q \in Runner, Busy(q)'
         PROVE  /\ q # r /\ runner'[q] = runner[q] /\ Busy(q) /\ Current(q)' = Current(q)
                /\ Current(q) \in Agreement /\ runner[q].trade \in DOMAIN trade[Current(q)]
    <2>1. q # r /\ runner'[q] = runner[q] /\ Busy(q)
      BY <1>19 DEF Busy
    <2> QED
      BY <2>1, OpenTyped DEF IInv, Current
  <1>20. Working'
    <2> SUFFICES ASSUME NEW q \in Runner, Busy(q)'
                 PROVE  runner'[q].todo # <<>> /\ runner'[q].trade \in DOMAIN trade'[Current(q)']
      BY DEF Working
    <2>1. runner[q].todo # <<>>
      BY <1>19 DEF IInv, Working
    <2> QED
      BY <1>4, <1>19, <2>1
  <1>21. ASSUME NEW q \in Runner, Open(q)'
         PROVE  lock'[Current(q)'] = q /\ PinnedBy(q)'
    <2>1. Busy(q)'
      BY <1>21 DEF Open, Busy
    <2>2. PICK b \in Agreement : b = Current(q)
      BY <1>19, <2>1
    <2>3. PICK i \in DOMAIN trade[b] : i = runner[q].trade
      BY <1>19, <2>1, <2>2
    <2>4. Current(q)' = b /\ runner'[q].trade = i
      BY <1>19, <2>1, <2>2, <2>3
    <2>5. trade'[b][i].deduction = "PENDING"
      BY <1>21, <2>4 DEF Open
    <2>6. trade'[b][i] = trade[b][i] /\ ~(b = a /\ i = t)
      BY <1>4, <2>5
    <2>7. Open(q)
      BY <1>19, <2>1, <2>2, <2>3, <2>5, <2>6 DEF Open, Busy
    <2>8. lock[b] = q
      BY <2>2, <2>7 DEF IInv, Locked
    <2>9. b # a
      BY <1>5, <1>19, <2>1, <2>8
    <2>10. lock'[b] = lock[b]
      BY <1>1, <2>9 DEF Unlock, IInv, TypeOK
    <2>11. Mine(q) = trade[b][i] /\ Mine(q)' = trade'[b][i]
      BY <2>2, <2>3, <2>4 DEF Mine
    <2>12. SameOpen(q)
      BY <1>7, <1>19, <2>1, <2>2, <2>4, <2>6, <2>7, <2>9, <2>10, <2>11 DEF SameOpen
    <2> QED
      BY <1>9, <2>2, <2>9, <2>12, PinnedStays
  <1>22. Notified'
    BY <1>4 DEF IInv, Notified, TypeOK
  <1> QED
    BY <1>14, <1>17, <1>18, <1>20, <1>21, <1>22 DEF IInv, Locked, Pinned

LEMMA RecordStepKeeps ==
  ASSUME IInv, NEW r \in Runner, RecordPaid(r) \/ RecordFailed(r)
  PROVE  IInv'
  <1>1. Open(r) /\ Busy(r)
    BY DEF RecordPaid, RecordFailed, Open, Busy
  <1>2. PICK a \in Agreement : a = Current(r)
    BY <1>1, OpenTyped DEF IInv
  <1>3. PICK t \in DOMAIN trade[a] : t = runner[r].trade
    BY <1>1, <1>2, OpenTyped DEF IInv
  <1>4. Mine(r) \in Trade /\ Mine(r) = trade[a][t] /\ runner[r].began \in Nat
    BY <1>1, <1>2, <1>3, OpenTyped DEF IInv, Mine
  <1>5. PinnedBy(r) /\ clock \in Nat
    BY <1>1 DEF IInv, Pinned, TypeOK
  <1>6. PICK new \in Trade :
          /\ SetTrade(a, t, new) /\ new.due = Mine(r).due /\ new.scheduled = Mine(r).scheduled
          /\ new.deduction \in {"SUCCESS", "FAILED"}
    <2>1. CASE RecordPaid(r)
      <3> DEFINE new == [trade[a][t] EXCEPT !.deduction = "SUCCESS", !.order = "PAID"]
      <3>1. /\ new \in Trade /\ new.due = Mine(r).due /\ new.scheduled = Mine(r).scheduled
            /\ new.deduction \in {"SUCCESS", "FAILED"}
        BY <1>4 DEF Trade
      <3>2. SetTrade(a, t, new)
        BY <1>2, <1>3, <2>1 DEF RecordPaid
      <3> HIDE DEF new
      <3> QED
        BY <3>1, <3>2
    <2>2. CASE RecordFailed(r)
      <3> DEFINE new == [trade[a][t] EXCEPT !.deduction = "FAILED", !.order = "FAILED"]
      <3>1. /\ new \in Trade /\ new.due = Mine(r).due /\ new.scheduled = Mine(r).scheduled
            /\ new.deduction \in {"SUCCESS", "FAILED"}
        BY <1>4 DEF Trade
      <3>2. SetTrade(a, t, new)
        BY <1>2, <1>3, <2>2 DEF RecordFailed
      <3> HIDE DEF new
      <3> QED
        BY <3>1, <3>2
    <2> QED
      BY <2>1, <2>2
  <1>7. PICK next \in Nat : next > runner[r].began /\ agreement' = [agreement EXCEPT ![a].due = next]
    <2>1. CASE RecordPaid(r)
      <3>1. trade[a][t].due \in Nat
        BY <1>4 DEF Trade
      <3>2. NextDue(a, trade[a][t].due) \in Nat /\ NextDue(a, trade[a][t].due) > clock
        BY <1>5, <3>1, NextDueLater
      <3>3. agreement' = [agreement EXCEPT ![a].due = NextDue(a, trade[a][t].due)]
        BY <1>2, <1>3, <2>1 DEF RecordPaid
      <3>4. runner[r].began <= clock
        BY <1>5 DEF PinnedBy
      <3>5. NextDue(a, trade[a][t].due) > runner[r].began
        BY <1>4, <1>5, <3>2, <3>4
      <3> QED
        BY <3>2, <3>3, <3>5
    <2>2. CASE RecordFailed(r)
      <3>1. runner[r].began + Day \in Nat /\ runner[r].began + Day > runner[r].began
        BY <1>4, TimesAssumption
      <3>2. agreement' = [agreement EXCEPT ![a].due = runner[r].began + Day]
        BY <1>2, <2>2 DEF RecordFailed
      <3> QED
        BY <3>1, <3>2
    <2> QED
      BY <2>1, <2>2
  <1>8. /\ Unlock(a) /\ NextOne(r)
        /\ UNCHANGED <<clock, running, handler, manual, faults>>
    BY <1>2 DEF RecordPaid, RecordFailed, bounds
  <1>9. /\ runner' \in [Runner -> Task] /\ runner'[r].at = "batch"
        /\ \A q \in Runner \ {r} : runner'[q] = runner[q]
    BY <1>1, <1>8, NextOneTyped DEF IInv, Working
  <1>10. trade' \in [Agreement -> Seq(Trade)]
    BY <1>6, SetTradeEffect DEF IInv
  <1>11. lock' \in [Agreement -> Runner \cup {Nobody}]
    BY <1>8 DEF Unlock, IInv, TypeOK
  <1>12. agreement' \in [Agreement -> Row]
    <2>1. [agreement[a] EXCEPT !.due = next] \in Row
      BY RowTyped DEF Row, IInv
    <2>2. agreement' = [agreement EXCEPT ![a] = [agreement[a] EXCEPT !.due = next]]
      BY <1>7 DEF IInv, TypeOK
    <2> QED
      BY <2>1, <2>2 DEF IInv, TypeOK
  <1>13. expires' \in Nat
    BY TimesAssumption DEF RecordPaid, RecordFailed, ExtendMembership, IInv, TypeOK
  <1>14. TypeOK'
    BY <1>8, <1>9, <1>10, <1>11, <1>12, <1>13 DEF IInv, TypeOK
  <1> QED
    BY <1>1, <1>2, <1>3, <1>6, <1>7, <1>8, <1>9, <1>14, RecordKeeps

-----------------------------------------------------------------------------

LEMMA StepIInv == IInv /\ [Next]_vars => IInv'
  <1> SUFFICES ASSUME IInv, [Next]_vars PROVE IInv'
    OBVIOUS
  <1>1. ASSUME NEW r \in Runner, DeductionStep(r)
        PROVE  IInv'
    BY <1>1, BatchKeeps, BeginKeeps, PayKeeps, RecordStepKeeps DEF DeductionStep
  <1>2. ASSUME NEW s \in Scheduler, RunAutoDeductionInterval(s)
        PROVE  IInv'
    BY <1>2, BatchKeeps DEF Runner
  <1>3. ASSUME NEW m \in Admin,
               AdminTriggerAutoRun(m) \/ \E a \in Agreement : AdminExecuteDeduction(m, a)
        PROVE  IInv'
    BY <1>3, BatchKeeps DEF Runner
  <1>4. ASSUME NEW r \in Runner, Fault(r)
        PROVE  IInv'
    BY <1>4, BatchKeeps, FaultKeeps DEF Fault
  <1>5. CASE UNCHANGED vars
    <2>1. UNCHANGED <<clock, agreement, lock, trade, expires, running, runner, handler, manual, faults>>
      BY <1>5 DEF vars, tables, procs, bounds
    <2>2. TypeOK'
      BY <2>1 DEF IInv, TypeOK
    <2>3. Notified'
      BY <2>1 DEF IInv, Notified
    <2> QED
      BY <2>1, <2>2, <2>3, MovesKeep
  <1> QED
    BY <1>1, <1>2, <1>3, <1>4, <1>5, AgreementStepKeeps, TradeStepKeeps,
       WriteNotifiedKeeps, TickKeeps
    DEF Next

\* Every reachable state is of its type (the rows of alipay_agreements and
\* alipay_deductions, and what the batches hold of them).
THEOREM DeductionsTyped == Spec => []TypeOK
  <1>1. IInv => TypeOK
    BY DEF IInv
  <1> QED
    BY <1>1, InitIInv, StepIInv, PTL DEF Spec

\* No due date is deducted twice, nor before it has come, by any number of
\* processes and administrators (executeDeductionForAgreement).
THEOREM DatesAreDeductedOnce == Spec => []DueDeductedOnce
  <1>1. IInv => DueDeductedOnce
    BY DEF IInv
  <1> QED
    BY <1>1, InitIInv, StepIInv, PTL DEF Spec

\* A due date is there exactly while the agreement is valid, whatever
\* deduction ends beside an unsigning (adminUnsignAgreement,
\* processAgreementNotify).
THEOREM ValidAreScheduled == Spec => []ValidIsScheduled
  <1>1. IInv => ValidIsScheduled
    BY DEF IInv
  <1> QED
    BY <1>1, InitIInv, StepIInv, PTL DEF Spec

-----------------------------------------------------------------------------
(* Payments and the days they bought                                       *)

PaidOf(a) == {t \in Committed(a) : trade[a][t].order = "PAID"}

PaidCount == [a \in Agreement |-> Cardinality(PaidOf(a))]

LEMMA PaidIs == PaidIsGranted <=> expires >= MembershipDays * SumFunctionOnSet(PaidCount, Agreement)
  BY DEF PaidIsGranted, PaidCount, PaidOf, SumFunction

LEMMA PaidIsNext ==
  ASSUME expires' >= MembershipDays * SumFunctionOnSet(PaidCount', Agreement)
  PROVE  PaidIsGranted'
  BY DEF PaidIsGranted, PaidCount, PaidOf, SumFunction

\* An agreement has finitely many trades.
LEMMA PaidFinite ==
  ASSUME TypeOK, NEW a \in Agreement
  PROVE  IsFiniteSet(PaidOf(a)) /\ PaidCount[a] \in Nat
  <1>1. trade[a] \in Seq(Trade)
    BY DEF TypeOK
  <1>2. DOMAIN trade[a] = 1 .. Len(trade[a]) /\ Len(trade[a]) \in Nat
    BY <1>1
  <1>3. IsFiniteSet(DOMAIN trade[a])
    BY <1>2, FS_Interval
  <1>4. PaidOf(a) \subseteq DOMAIN trade[a]
    BY DEF PaidOf, Committed
  <1>5. IsFiniteSet(PaidOf(a))
    BY <1>3, <1>4, FS_Subset
  <1> QED
    BY <1>5, FS_CardinalityType DEF PaidCount

PaidCounted == \A a \in Agreement : IsFiniteSet(PaidOf(a)) /\ PaidCount[a] \in Nat

LEMMA TypedCounted == TypeOK => PaidCounted
  BY PaidFinite DEF PaidCounted

LEMMA TypedCountedNext == TypeOK' => PaidCounted'
  BY TypedCounted, PTL

\* A step either records no payment and gives no days, or gives the days of
\* the one payment it records.
PaysNothing ==
    /\ expires' = expires
    /\ \A b \in Agreement : PaidOf(b)' \subseteq PaidOf(b)

PaysFor(a, t) ==
    /\ expires' >= expires + MembershipDays
    /\ \A b \in Agreement : PaidOf(b)' \subseteq PaidOf(b) \cup (IF b = a THEN {t} ELSE {})

LEMMA SetTradePays ==
  ASSUME TypeOK, NEW a \in Agreement, NEW t \in DOMAIN trade[a], NEW new \in Trade,
         SetTrade(a, t, new)
  PROVE  /\ \A b \in Agreement : PaidOf(b)' \subseteq PaidOf(b) \cup (IF b = a THEN {t} ELSE {})
         /\ (new.order = "PAID" /\ new.deduction \in {"SUCCESS", "FAILED"}
               => trade[a][t].order = new.order /\ trade[a][t].deduction = new.deduction)
              => \A b \in Agreement : PaidOf(b)' \subseteq PaidOf(b)
  <1>1. \A b \in Agreement :
          /\ DOMAIN trade'[b] = DOMAIN trade[b]
          /\ \A i \in DOMAIN trade[b] :
               trade'[b][i] = IF b = a /\ i = t THEN new ELSE trade[b][i]
    BY SetTradeEffect
  <1>2. ASSUME NEW b \in Agreement, NEW i \in PaidOf(b)'
        PROVE  /\ i \in DOMAIN trade[b]
               /\ trade'[b][i].order = "PAID" /\ trade'[b][i].deduction \in {"SUCCESS", "FAILED"}
    BY <1>1, <1>2 DEF PaidOf, Committed
  <1>3. ASSUME NEW b \in Agreement, NEW i \in PaidOf(b)', ~(b = a /\ i = t)
        PROVE  i \in PaidOf(b)
    BY <1>1, <1>2, <1>3 DEF PaidOf, Committed
  <1>4. ASSUME NEW b \in Agreement, NEW i \in PaidOf(b)', b = a, i = t,
               trade[a][t].order = new.order, trade[a][t].deduction = new.deduction
        PROVE  i \in PaidOf(b)
    BY <1>1, <1>2, <1>4 DEF PaidOf, Committed
  <1>5. t \in PaidOf(a)' => new.order = "PAID" /\ new.deduction \in {"SUCCESS", "FAILED"}
    BY <1>1, <1>2
  <1> QED
    BY <1>3, <1>4, <1>5

LEMMA ExtendGives ==
  ASSUME TypeOK, ExtendMembership
  PROVE  expires' >= expires + MembershipDays
  BY TimesAssumption DEF TypeOK, ExtendMembership

LEMMA SameTradesPay ==
  ASSUME trade' = trade, expires' = expires
  PROVE  PaysNothing
  BY DEF PaysNothing, PaidOf, Committed

LEMMA NotifiedPays ==
  ASSUME IInv, NEW h \in Handler, WriteNotified(h)
  PROVE  \E a \in Agreement : \E t \in DOMAIN trade[a] : PaysFor(a, t)
  <1>1. handler[h] # <<>> /\ handler[h] \in Agreement \X Nat
    BY DEF WriteNotified, IInv, TypeOK
  <1>2. PICK a \in Agreement : a = handler[h][1]
    BY <1>1
  <1>3. PICK t \in DOMAIN trade[a] : t = handler[h][2]
    BY <1>1, <1>2 DEF IInv, Notified
  <1> DEFINE new == [trade[a][t] EXCEPT !.order = "PAID"]
  <1>4. new \in Trade
    BY TradeTyped DEF Trade, IInv
  <1>5. SetTrade(a, t, new) /\ ExtendMembership
    BY <1>2, <1>3 DEF WriteNotified
  <1> HIDE DEF new
  <1>6. PaysFor(a, t)
    BY <1>4, <1>5, SetTradePays, ExtendGives DEF PaysFor, IInv
  <1> QED
    BY <1>6

LEMMA RecordPays ==
  ASSUME IInv, NEW r \in Runner, RecordPaid(r)
  PROVE  \E a \in Agreement : \E t \in DOMAIN trade[a] : PaysFor(a, t)
  <1>1. Busy(r)
    BY DEF RecordPaid, Open, Busy
  <1>2. PICK a \in Agreement : a = Current(r)
    BY <1>1, OpenTyped DEF IInv
  <1>3. PICK t \in DOMAIN trade[a] : t = runner[r].trade
    BY <1>1, <1>2, OpenTyped DEF IInv
  <1> DEFINE new == [trade[a][t] EXCEPT !.deduction = "SUCCESS", !.order = "PAID"]
  <1>a. trade[a][t] \in Trade
    BY TradeTyped DEF IInv
  <1>4. new \in Trade
    BY <1>a DEF Trade
  <1>5. SetTrade(a, t, new) /\ ExtendMembership
    BY <1>2, <1>3 DEF RecordPaid
  <1> HIDE DEF new
  <1>6. PaysFor(a, t)
    BY <1>4, <1>5, SetTradePays, ExtendGives DEF PaysFor, IInv
  <1> QED
    BY <1>6

\* What Alipay answers, a refusal and a roll-back pay for nothing.
LEMMA OthersPayNothing ==
  ASSUME IInv, NEW r \in Runner,
         Pay(r) \/ RecordFailed(r) \/ Expire(r) \/ PayThrows(r) \/ Die(r)
  PROVE  PaysNothing
  <1>1. expires' = expires
    BY DEF Pay, RecordFailed, Expire, PayThrows, Die
  <1>2. CASE Die(r) /\ ~Open(r)
    BY <1>1, <1>2, SameTradesPay DEF Die
  <1>3. CASE ~(Die(r) /\ ~Open(r))
    <2>1. Busy(r)
      BY <1>3 DEF Pay, RecordFailed, Expire, PayThrows, Die, Open, Busy
    <2>2. PICK a \in Agreement : a = Current(r)
      BY <2>1, OpenTyped DEF IInv
    <2>3. PICK t \in DOMAIN trade[a] : t = runner[r].trade
      BY <2>1, <2>2, OpenTyped DEF IInv
    <2>4. trade[a][t] \in Trade
      BY TradeTyped DEF IInv
    <2>5. \E new \in Trade :
            /\ SetTrade(a, t, new)
            /\ \/ new.order = "FAILED" \/ new.deduction = "GONE"
               \/ new.order = trade[a][t].order /\ new.deduction = trade[a][t].deduction
      <3>1. CASE Pay(r)
        <4>1. PICK outcome \in {"PROCESSING", "PAID", "REFUSED"} :
                SetTrade(a, t, [trade[a][t] EXCEPT !.alipay = outcome])
          BY <2>2, <2>3, <3>1 DEF Pay
        <4>2. /\ [trade[a][t] EXCEPT !.alipay = outcome] \in Trade
              /\ [trade[a][t] EXCEPT !.alipay = outcome].order = trade[a][t].order
              /\ [trade[a][t] EXCEPT !.alipay = outcome].deduction = trade[a][t].deduction
          BY <2>4 DEF Trade
        <4> QED
          BY <4>1, <4>2
      <3>2. CASE RecordFailed(r)
        <4>1. SetTrade(a, t, [trade[a][t] EXCEPT !.deduction = "FAILED", !.order = "FAILED"])
          BY <2>2, <2>3, <3>2 DEF RecordFailed
        <4>2. /\ [trade[a][t] EXCEPT !.deduction = "FAILED", !.order = "FAILED"] \in Trade
              /\ [trade[a][t] EXCEPT !.deduction = "FAILED", !.order = "FAILED"].order = "FAILED"
          BY <2>4 DEF Trade
        <4> QED
          BY <4>1, <4>2
      <3>3. CASE Expire(r) \/ (Die(r) /\ Open(r))
        <4>1. SetTrade(a, t, [trade[a][t] EXCEPT !.deduction = "GONE"])
          BY <2>2, <2>3, <3>3 DEF Expire, Die, RollBack
        <4>2. /\ [trade[a][t] EXCEPT !.deduction = "GONE"] \in Trade
              /\ [trade[a][t] EXCEPT !.deduction = "GONE"].deduction = "GONE"
          BY <2>4 DEF Trade
        <4> QED
          BY <4>1, <4>2
      <3>4. CASE PayThrows(r)
        <4>1. PICK outcome \in {"NONE", "PROCESSING", "PAID", "REFUSED"} :
                SetTrade(a, t, [trade[a][t] EXCEPT !.deduction = "GONE", !.alipay = outcome])
          BY <2>2, <2>3, <3>4 DEF PayThrows
        <4>2. /\ [trade[a][t] EXCEPT !.deduction = "GONE", !.alipay = outcome] \in Trade
              /\ [trade[a][t] EXCEPT !.deduction = "GONE", !.alipay = outcome].deduction = "GONE"
          BY <2>4 DEF Trade
        <4> QED
          BY <4>1, <4>2
      <3> QED
        BY <1>3, <3>1, <3>2, <3>3, <3>4
    <2> QED
      BY <1>1, <2>5, SetTradePays DEF PaysNothing, IInv
  <1> QED
    BY <1>2, <1>3

LEMMA AlipayPaysNothing ==
  ASSUME IInv, NEW a \in Agreement, NEW t \in DOMAIN trade[a], AlipayPays(a, t)
  PROVE  PaysNothing
  <1> DEFINE new == [trade[a][t] EXCEPT !.alipay = "PAID"]
  <1>1. /\ new \in Trade /\ new.order = trade[a][t].order
        /\ new.deduction = trade[a][t].deduction
    BY TradeTyped DEF Trade, IInv
  <1>2. SetTrade(a, t, new) /\ expires' = expires
    BY DEF AlipayPays
  <1> HIDE DEF new
  <1> QED
    BY <1>1, <1>2, SetTradePays DEF PaysNothing, IInv

\* A deduction that begins is recorded when it ends.
LEMMA BeginPaysNothing ==
  ASSUME IInv, NEW r \in Runner, BeginDeduction(r)
  PROVE  PaysNothing
  <1>1. PICK a \in Agreement : a = Current(r)
    BY CurrentTyped DEF BeginDeduction, IInv
  <1> DEFINE new == [due |-> agreement[a].due, scheduled |-> runner[r].scheduled,
                     deduction |-> "PENDING", order |-> "PENDING", alipay |-> "NONE"]
  <1>2. trade[a] \in Seq(Trade) /\ trade \in [Agreement -> Seq(Trade)]
    BY DEF IInv, TypeOK
  <1>3. trade' = [trade EXCEPT ![a] = Append(trade[a], new)] /\ expires' = expires
    BY <1>1 DEF BeginDeduction
  <1>4. trade'[a] = Append(trade[a], new) /\ \A b \in Agreement : b # a => trade'[b] = trade[b]
    BY <1>2, <1>3
  <1>5. /\ DOMAIN trade'[a] = DOMAIN trade[a] \cup {Len(trade[a]) + 1}
        /\ trade'[a][Len(trade[a]) + 1] = new
        /\ \A i \in DOMAIN trade[a] : trade'[a][i] = trade[a][i]
    BY <1>2, <1>4
  <1>6. PaidOf(a)' \subseteq PaidOf(a)
    BY <1>5 DEF PaidOf, Committed
  <1>7. ASSUME NEW b \in Agreement, b # a PROVE PaidOf(b)' \subseteq PaidOf(b)
    BY <1>4, <1>7 DEF PaidOf, Committed
  <1> QED
    BY <1>3, <1>6, <1>7 DEF PaysNothing

LEMMA StepPays ==
  ASSUME IInv, [Next]_vars
  PROVE  PaysNothing \/ \E a \in Agreement : \E t \in DOMAIN trade[a] : PaysFor(a, t)
  <1>1. CASE UNCHANGED tables
    BY <1>1, SameTradesPay DEF tables
  <1>2. ASSUME NEW a \in Agreement, AgreementStep(a)
        PROVE  PaysNothing
    BY <1>2, SameTradesPay
    DEF AgreementStep, CreateAgreementSign, ProcessAgreementNotify, AdminUnsignAgreement
  <1>3. ASSUME NEW a \in Agreement, TradeStep(a)
        PROVE  PaysNothing \/ UNCHANGED tables
    BY <1>3, AlipayPaysNothing DEF TradeStep, ReadNotified
  <1>4. ASSUME NEW r \in Runner, DeductionStep(r) \/ Fault(r)
        PROVE  \/ PaysNothing \/ UNCHANGED tables
               \/ \E a \in Agreement : \E t \in DOMAIN trade[a] : PaysFor(a, t)
    BY <1>4, RecordPays, OthersPayNothing, BeginPaysNothing
    DEF DeductionStep, Fault, TurnDown, RecordThrows, Finish, WaitExpires
  <1>5. CASE \/ \E s \in Scheduler : RunAutoDeductionInterval(s)
             \/ \E m \in Admin : AdminTriggerAutoRun(m)
                                   \/ \E a \in Agreement : AdminExecuteDeduction(m, a)
             \/ Tick \/ UNCHANGED vars
    BY <1>1, <1>5 DEF RunAutoDeductionInterval, AdminTriggerAutoRun, AdminExecuteDeduction, Tick, vars
  <1> QED
    BY <1>1, <1>2, <1>3, <1>4, <1>5, NotifiedPays DEF Next

LEMMA StepGrants ==
  ASSUME IInv, IInv', PaidIsGranted, [Next]_vars
  PROVE  PaidIsGranted'
  <1> DEFINE total == SumFunctionOnSet(PaidCount, Agreement)
             total2 == SumFunctionOnSet(PaidCount', Agreement)
  <1>1. /\ \A b \in Agreement : IsFiniteSet(PaidOf(b)) /\ PaidCount[b] \in Nat
        /\ \A b \in Agreement : PaidCount'[b] = Cardinality(PaidOf(b)') /\ PaidCount'[b] \in Nat
    BY TypedCounted, TypedCountedNext DEF IInv, PaidCounted, PaidCount
  <1>2. total \in Int /\ total2 \in Int
    BY <1>1, AgreementAssumption, SumType
  <1>3. expires \in Nat /\ expires' \in Nat /\ MembershipDays \in Nat
    BY TimesAssumption DEF IInv, TypeOK
  <1>4. expires >= MembershipDays * total
    BY PaidIs
  <1>5. CASE PaysNothing
    <2>1. \A b \in Agreement : PaidCount'[b] <= PaidCount[b]
      BY <1>1, <1>5, FS_Subset DEF PaysNothing, PaidCount
    <2>2. total2 <= total
      BY <1>1, <2>1, AgreementAssumption, SumMonotone
    <2> HIDE DEF total, total2
    <2>3. MembershipDays * total2 <= MembershipDays * total
      BY <1>2, <1>3, <2>2, TimesMonotone
    <2>4. MembershipDays * total \in Int /\ MembershipDays * total2 \in Int /\ expires' = expires
      BY <1>2, <1>3, <1>5 DEF PaysNothing
    <2>5. expires' >= MembershipDays * total2
      BY <1>3, <1>4, <2>3, <2>4
    <2> QED
      BY <2>5, PaidIsNext DEF total2
  <1>6. ASSUME NEW a \in Agreement, NEW t \in DOMAIN trade[a], PaysFor(a, t)
        PROVE  PaidIsGranted'
    <2> DEFINE more == [PaidCount EXCEPT ![a] = @ + 1]
               total1 == SumFunctionOnSet(more, Agreement)
    <2>1. \A b \in Agreement : more[b] = IF b = a THEN PaidCount[b] + 1 ELSE PaidCount[b]
      BY DEF PaidCount
    <2> HIDE DEF more
    <2>2. total1 = total - PaidCount[a] + more[a]
      BY <1>1, <2>1, AgreementAssumption, SumChange
    <2>3. \A b \in Agreement : PaidCount'[b] <= more[b]
      <3> SUFFICES ASSUME NEW b \in Agreement PROVE PaidCount'[b] <= more[b]
        OBVIOUS
      <3>1. CASE b = a
        <4>1. PaidOf(b)' \in SUBSET (PaidOf(b) \cup {t})
          BY <1>6, <3>1 DEF PaysFor
        <4>a. Cardinality(PaidOf(b)) = PaidCount[b] /\ IsFiniteSet(PaidOf(b)) /\ PaidCount[b] \in Nat
          BY <1>1 DEF PaidCount
        <4>b. /\ IsFiniteSet(PaidOf(b) \cup {t})
              /\ Cardinality(PaidOf(b) \cup {t})
                   = IF t \in PaidOf(b) THEN PaidCount[b] ELSE PaidCount[b] + 1
          BY <4>a, FS_AddElement
        <4>2. /\ IsFiniteSet(PaidOf(b) \cup {t})
              /\ Cardinality(PaidOf(b) \cup {t}) <= PaidCount[b] + 1
          BY <4>a, <4>b
        <4>3. Cardinality(PaidOf(b)') <= Cardinality(PaidOf(b) \cup {t})
          BY <4>1, <4>2, FS_Subset
        <4>4. Cardinality(PaidOf(b) \cup {t}) \in Nat
          BY <4>2, FS_CardinalityType
        <4> QED
          BY <1>1, <2>1, <3>1, <4>2, <4>3, <4>4
      <3>2. CASE b # a
        BY <1>1, <1>6, <2>1, <3>2, FS_Subset DEF PaysFor, PaidCount
      <3> QED
        BY <3>1, <3>2
    <2>4. total2 <= total1
      BY <1>1, <2>1, <2>3, AgreementAssumption, SumMonotone
    <2> HIDE DEF total, total1, total2
    <2>5. total1 = total + 1
      BY <1>1, <1>2, <2>1, <2>2
    <2>6. MembershipDays * total2 <= MembershipDays * (total + 1)
      BY <1>2, <1>3, <2>4, <2>5, TimesMonotone
    <2>7. MembershipDays * (total + 1) = MembershipDays * total + MembershipDays /\ MembershipDays * total \in Int /\ MembershipDays * total2 \in Int
      BY <1>2, <1>3
    <2>8. expires' >= expires + MembershipDays
      BY <1>6 DEF PaysFor
    <2>9. expires' >= MembershipDays * total2
      BY <1>3, <1>4, <2>6, <2>7, <2>8
    <2> QED
      BY <2>9, PaidIsNext DEF total2
  <1> QED
    BY <1>5, <1>6, StepPays

\* Every payment recorded, by the deduction or by a notification, has its
\* days in the membership.
THEOREM PaymentsAreGranted == Spec => []PaidIsGranted
  <1>1. Init => PaidIsGranted
    <2> SUFFICES ASSUME Init PROVE PaidIsGranted
      OBVIOUS
    <2>1. \A a \in Agreement : PaidOf(a) = {}
      BY DEF Init, PaidOf, Committed
    <2>2. \A a \in Agreement : PaidCount[a] = 0
      BY <2>1, FS_EmptySet DEF PaidCount
    <2>3. SumFunctionOnSet(PaidCount, Agreement) = 0
      BY <2>2, AgreementAssumption, SumZero
    <2>4. expires = 0 /\ MembershipDays * 0 = 0
      BY TimesAssumption DEF Init
    <2> QED
      BY <2>3, <2>4, PaidIs
  <1>2. IInv /\ IInv' /\ PaidIsGranted /\ [Next]_vars => PaidIsGranted'
    BY StepGrants
  <1> QED
    BY <1>1, <1>2, InitIInv, StepIInv, PTL DEF Spec

-----------------------------------------------------------------------------
(* Periods and what the batches took for them                              *)

Taken(a) == Cardinality(PaidByBatches(a))

\* After n payments the next date is n periods after the first, or later, and
\* the last of them was not taken before its period began.
KeptAt(a, n) ==
    /\ agreement[a].due # NoDue => agreement[a].due >= ExecuteTime[a] + Period * n
    /\ n > 0 => clock >= ExecuteTime[a] + Period * (n - 1)

Kept(a) == ~RefusedByHand(a) => KeptAt(a, Taken(a))

\* The date is gone, or moves forward, or is set by a notification.
DueMoves(a) ==
    \/ agreement'[a].due = NoDue
    \/ agreement[a].due # NoDue /\ agreement'[a].due >= agreement[a].due
    \/ /\ agreement'[a].due > clock
       /\ \E k \in Nat : agreement'[a].due = ExecuteTime[a] + Period * k

\* A step that takes nothing for agreement a.
TakesNothing(a) ==
    /\ RefusedByHand(a) => RefusedByHand(a)'
    /\ RefusedByHand(a)' \/ (PaidByBatches(a)' \subseteq PaidByBatches(a) /\ DueMoves(a))

\* A step that takes a payment when it is due, and moves the date on by a
\* period or more.
TakesPeriod(a) ==
    /\ RefusedByHand(a) => RefusedByHand(a)'
    /\ \E t : PaidByBatches(a)' \subseteq PaidByBatches(a) \cup {t}
    /\ agreement[a].due # NoDue /\ agreement[a].due <= clock
    /\ agreement'[a].due >= agreement[a].due + Period

LEMMA TakenTyped ==
  ASSUME TypeOK, NEW a \in Agreement
  PROVE  IsFiniteSet(PaidByBatches(a)) /\ Taken(a) \in Nat
  <1>1. trade[a] \in Seq(Trade)
    BY DEF TypeOK
  <1>2. DOMAIN trade[a] = 1 .. Len(trade[a]) /\ Len(trade[a]) \in Nat
    BY <1>1
  <1>3. IsFiniteSet(DOMAIN trade[a])
    BY <1>2, FS_Interval
  <1>4. PaidByBatches(a) \subseteq DOMAIN trade[a]
    BY DEF PaidByBatches, Scheduled, Committed
  <1>5. IsFiniteSet(PaidByBatches(a))
    BY <1>3, <1>4, FS_Subset
  <1> QED
    BY <1>5, FS_CardinalityType DEF Taken

AllTaken == \A a \in Agreement : IsFiniteSet(PaidByBatches(a)) /\ Taken(a) \in Nat

LEMMA AllTakenTyped == TypeOK => AllTaken
  BY TakenTyped DEF AllTaken

LEMMA AllTakenTypedNext == TypeOK' => AllTaken'
  BY AllTakenTyped, PTL

\* The types in which the dates are compared.
LEMMA DatesTyped ==
  ASSUME TypeOK, TypeOK', NEW a \in Agreement
  PROVE  /\ agreement[a].due \in Nat /\ agreement'[a].due \in Nat
         /\ clock \in Nat /\ clock' \in Nat /\ ExecuteTime[a] \in Nat /\ Period \in Nat \ {0}
  <1>1. agreement[a] \in Row /\ agreement'[a] \in Row
    BY DEF TypeOK
  <1> QED
    BY <1>1, TimesAssumption DEF TypeOK, Row

LEMMA TakesNothingKeeps ==
  ASSUME IInv, IInv', NEW a \in Agreement, Kept(a), clock <= clock', TakesNothing(a)
  PROVE  Kept(a)'
  <1> SUFFICES ASSUME ~RefusedByHand(a)' PROVE KeptAt(a, Taken(a))'
    BY DEF Kept
  <1>1. PaidByBatches(a)' \subseteq PaidByBatches(a) /\ DueMoves(a) /\ KeptAt(a, Taken(a))
    BY DEF TakesNothing, Kept
  <1>2. PICK n \in Nat : n = Taken(a)
    BY TakenTyped DEF IInv
  <1>3. PICK m \in Nat : m = Taken(a)'
    BY AllTakenTypedNext DEF IInv, AllTaken
  <1>4. m <= n
    BY <1>1, <1>2, <1>3, FS_Subset, TakenTyped DEF Taken, IInv
  <1>5. PICK e \in Nat : e = ExecuteTime[a]
    BY DatesTyped DEF IInv
  <1>6. PICK d \in Nat : d = agreement[a].due
    BY DatesTyped DEF IInv
  <1>7. PICK d2 \in Nat : d2 = agreement'[a].due
    BY DatesTyped DEF IInv
  <1>8. clock \in Nat /\ clock' \in Nat /\ Period \in Nat /\ Period > 0
    BY DatesTyped DEF IInv
  <1>9. (d # NoDue => d >= e + Period * n) /\ (n > 0 => clock >= e + Period * (n - 1))
    BY <1>1, <1>2, <1>5, <1>6 DEF KeptAt
  <1>10. Period * m <= Period * n /\ Period * (m - 1) <= Period * (n - 1)
    BY <1>4, <1>8, TimesMonotone
  <1>11. Period * m \in Int /\ Period * n \in Int /\ Period * (m - 1) \in Int /\ Period * (n - 1) \in Int
    BY <1>8
  <1>12. m > 0 => clock' >= e + Period * (m - 1)
    BY <1>4, <1>8, <1>9, <1>10, <1>11
  <1>13. d2 # NoDue => d2 >= e + Period * m
    <2>1. CASE d2 = NoDue
      BY <2>1
    <2>2. CASE d # NoDue /\ d2 >= d
      BY <2>2, <1>9, <1>10, <1>11
    <2>3. ASSUME NEW k \in Nat, d2 = e + Period * k, d2 > clock
          PROVE  d2 >= e + Period * m
      <3>1. CASE n = 0
        <4>1. m = 0 /\ Period * k \in Nat /\ Period * 0 = 0
          BY <1>4, <1>8, <3>1
        <4> QED
          BY <2>3, <4>1
      <3>2. CASE n > 0
        <4>1. e + Period * k > e + Period * (n - 1)
          BY <1>8, <1>9, <1>11, <2>3, <3>2
        <4>2. Period * k \in Int /\ Period * k > Period * (n - 1)
          BY <1>8, <1>11, <4>1
        <4>3. ~(k <= n - 1)
          BY <1>8, <1>11, <4>2, TimesMonotone
        <4>4. n <= k
          BY <4>3
        <4>5. Period * n <= Period * k
          BY <1>8, <4>4, TimesMonotone
        <4> QED
          BY <1>10, <1>11, <2>3, <4>2, <4>5
      <3> QED
        BY <3>1, <3>2
    <2> QED
      BY <1>1, <1>5, <1>6, <1>7, <2>1, <2>2, <2>3 DEF DueMoves
  <1> QED
    BY <1>3, <1>5, <1>7, <1>12, <1>13 DEF KeptAt

LEMMA TakesPeriodKeeps ==
  ASSUME IInv, IInv', NEW a \in Agreement, Kept(a), clock' = clock, TakesPeriod(a)
  PROVE  Kept(a)'
  <1> SUFFICES ASSUME ~RefusedByHand(a)' PROVE KeptAt(a, Taken(a))'
    BY DEF Kept
  <1>1. KeptAt(a, Taken(a))
    BY DEF TakesPeriod, Kept
  <1>2. PICK n \in Nat : n = Taken(a)
    BY TakenTyped DEF IInv
  <1>3. PICK m \in Nat : m = Taken(a)'
    BY AllTakenTypedNext DEF IInv, AllTaken
  <1>4. m <= n + 1
    <2>1. PICK t : PaidByBatches(a)' \subseteq PaidByBatches(a) \cup {t}
      BY DEF TakesPeriod
    <2>2. IsFiniteSet(PaidByBatches(a)) /\ Cardinality(PaidByBatches(a)) = n
      BY <1>2, TakenTyped DEF IInv, Taken
    <2>3. /\ IsFiniteSet(PaidByBatches(a) \cup {t})
          /\ Cardinality(PaidByBatches(a) \cup {t}) = IF t \in PaidByBatches(a) THEN n ELSE n + 1
      BY <2>2, FS_AddElement
    <2>4. Cardinality(PaidByBatches(a)') <= Cardinality(PaidByBatches(a) \cup {t})
      BY <2>1, <2>3, FS_Subset
    <2>5. Cardinality(PaidByBatches(a)') = m
      BY <1>3 DEF Taken
    <2> QED
      BY <2>3, <2>4, <2>5
  <1>5. PICK e \in Nat : e = ExecuteTime[a]
    BY DatesTyped DEF IInv
  <1>6. PICK d \in Nat : d = agreement[a].due
    BY DatesTyped DEF IInv
  <1>7. PICK d2 \in Nat : d2 = agreement'[a].due
    BY DatesTyped DEF IInv
  <1>8. clock \in Nat /\ clock' = clock /\ Period \in Nat
    BY DatesTyped DEF IInv
  <1>9. d # NoDue /\ d <= clock /\ d2 >= d + Period /\ d >= e + Period * n
    BY <1>1, <1>2, <1>5, <1>6, <1>7 DEF KeptAt, TakesPeriod
  <1>10. Period * m <= Period * (n + 1) /\ Period * (m - 1) <= Period * n
    BY <1>4, <1>8, TimesMonotone
  <1>11. /\ Period * m \in Int /\ Period * n \in Int /\ Period * (m - 1) \in Int
         /\ Period * (n + 1) = Period * n + Period
    BY <1>8
  <1>12. d2 >= e + Period * m /\ clock' >= e + Period * (m - 1)
    BY <1>8, <1>9, <1>10, <1>11
  <1> QED
    BY <1>3, <1>5, <1>7, <1>12 DEF KeptAt

\* The periods that have begun are as many as the payments, or more.
LEMMA KeptCounts ==
  ASSUME IInv, \A a \in Agreement : Kept(a)
  PROVE  PeriodsPaidOnce
  <1> SUFFICES ASSUME NEW a \in Agreement, ~RefusedByHand(a)
               PROVE  Taken(a) <= PeriodsBegun(a)
    BY DEF PeriodsPaidOnce, Taken
  <1>1. PICK n \in Nat : n = Taken(a)
    BY TakenTyped DEF IInv
  <1>2. PICK e \in Nat : e = ExecuteTime[a]
    BY TimesAssumption
  <1>3. clock \in Nat /\ Period \in Nat \ {0}
    BY TimesAssumption DEF IInv, TypeOK
  <1>4. n > 0 => clock >= e + Period * (n - 1)
    BY <1>1, <1>2 DEF Kept, KeptAt
  <1>5. CASE n = 0
    <2>1. CASE clock < e
      BY <1>1, <1>2, <1>5, <2>1 DEF PeriodsBegun
    <2>2. CASE ~(clock < e)
      <3>1. clock - e \in Nat
        BY <1>3, <2>2
      <3>2. (clock - e) \div Period \in Nat
        BY <1>3, <3>1, Quotient
      <3> QED
        BY <1>1, <1>2, <1>5, <2>2, <3>2 DEF PeriodsBegun
    <2> QED
      BY <2>1, <2>2
  <1>6. CASE n > 0
    <2>1. Period * (n - 1) \in Nat
      BY <1>3, <1>6
    <2>2. clock - e \in Nat /\ clock - e >= Period * (n - 1) /\ ~(clock < e)
      BY <1>3, <1>4, <1>6, <2>1
    <2>3. PICK q \in Nat : q = (clock - e) \div Period
      BY <1>3, <2>2, Quotient
    <2>4. Period * (q + 1) \in Nat /\ Period * (q + 1) > clock - e
      BY <1>3, <2>2, <2>3, Quotient
    <2>5. Period * (q + 1) > Period * (n - 1)
      BY <1>3, <2>1, <2>2, <2>4
    <2>6. ~(q + 1 <= n - 1)
      BY <1>3, <2>1, <2>4, <2>5, TimesMonotone
    <2>7. PeriodsBegun(a) = q + 1
      BY <1>2, <2>2, <2>3 DEF PeriodsBegun
    <2> QED
      BY <1>1, <2>6, <2>7
  <1> QED
    BY <1>5, <1>6

\* A trade changes and the batches' payments with it.
LEMMA SetTradeTakes ==
  ASSUME TypeOK, NEW a \in Agreement, NEW t \in DOMAIN trade[a], NEW new \in Trade,
         SetTrade(a, t, new), new.scheduled = trade[a][t].scheduled,
         t \in Committed(a) => new.deduction = trade[a][t].deduction
  PROVE  /\ \A b \in Agreement : RefusedByHand(b) => RefusedByHand(b)'
         /\ \A b \in Agreement \ {a} : PaidByBatches(b)' \subseteq PaidByBatches(b)
         /\ PaidByBatches(a)' \subseteq PaidByBatches(a) \cup {t}
         /\ t \in PaidByBatches(a)' => new.scheduled /\ new.deduction = "SUCCESS"
         /\ new.deduction = "FAILED" /\ ~new.scheduled => RefusedByHand(a)'
  <1>1. \A b \in Agreement :
          /\ DOMAIN trade'[b] = DOMAIN trade[b]
          /\ \A i \in DOMAIN trade[b] :
               trade'[b][i] = IF b = a /\ i = t THEN new ELSE trade[b][i]
    BY SetTradeEffect
  <1>2. ASSUME NEW b \in Agreement, RefusedByHand(b)
        PROVE  RefusedByHand(b)'
    <2>1. PICK i \in Committed(b) : ~trade[b][i].scheduled /\ trade[b][i].deduction = "FAILED"
      BY <1>2 DEF RefusedByHand
    <2>2. i \in DOMAIN trade[b]
      BY DEF Committed
    <2>3. ~trade'[b][i].scheduled /\ trade'[b][i].deduction = "FAILED"
      BY <1>1, <2>1, <2>2
    <2> QED
      BY <1>1, <2>2, <2>3 DEF RefusedByHand, Committed
  <1>3. ASSUME NEW b \in Agreement, NEW i \in PaidByBatches(b)', ~(b = a /\ i = t)
        PROVE  i \in PaidByBatches(b)
    <2>1. /\ i \in DOMAIN trade'[b] /\ trade'[b][i].scheduled
          /\ trade'[b][i].deduction = "SUCCESS"
      BY <1>3 DEF PaidByBatches, Scheduled, Committed
    <2>2. i \in DOMAIN trade[b] /\ trade'[b][i] = trade[b][i]
      BY <1>1, <1>3, <2>1
    <2> QED
      BY <2>1, <2>2 DEF PaidByBatches, Scheduled, Committed
  <1>4. t \in PaidByBatches(a)' => new.scheduled /\ new.deduction = "SUCCESS"
    BY <1>1 DEF PaidByBatches, Scheduled, Committed
  <1>5. new.deduction = "FAILED" /\ ~new.scheduled => RefusedByHand(a)'
    BY <1>1 DEF RefusedByHand, Committed
  <1> QED
    BY <1>2, <1>3, <1>4, <1>5

\* The rows are as they were, and so is what was taken.
LEMMA SameRowsTakeNothing ==
  ASSUME IInv, IInv', agreement' = agreement,
         \A b \in Agreement : RefusedByHand(b) => RefusedByHand(b)',
         \A b \in Agreement : PaidByBatches(b)' \subseteq PaidByBatches(b)
  PROVE  \A b \in Agreement : TakesNothing(b)
  <1> SUFFICES ASSUME NEW b \in Agreement PROVE DueMoves(b)
    BY DEF TakesNothing
  <1> QED
    BY DatesTyped DEF DueMoves, IInv

LEMMA SameTradesTakeNothing ==
  ASSUME IInv, IInv', trade' = trade, agreement' = agreement
  PROVE  \A b \in Agreement : TakesNothing(b)
  <1>1. \A b \in Agreement : /\ RefusedByHand(b) => RefusedByHand(b)'
                             /\ PaidByBatches(b)' \subseteq PaidByBatches(b)
    BY DEF RefusedByHand, PaidByBatches, Scheduled, Committed
  <1> QED
    BY <1>1, SameRowsTakeNothing

LEMMA AgreementTakesNothing ==
  ASSUME IInv, IInv', NEW a \in Agreement, AgreementStep(a)
  PROVE  \A b \in Agreement : TakesNothing(b)
  <1>1. trade' = trade
    BY DEF AgreementStep, CreateAgreementSign, ProcessAgreementNotify, AdminUnsignAgreement
  <1>2. \A b \in Agreement : /\ RefusedByHand(b) => RefusedByHand(b)'
                             /\ PaidByBatches(b)' \subseteq PaidByBatches(b)
    BY <1>1 DEF RefusedByHand, PaidByBatches, Scheduled, Committed
  <1>3. \A b \in Agreement \ {a} : agreement'[b] = agreement[b]
    BY DEF AgreementStep, CreateAgreementSign, ProcessAgreementNotify, AdminUnsignAgreement,
           IInv, TypeOK
  <1>4. \A b \in Agreement \ {a} : DueMoves(b)
    BY <1>3, DatesTyped DEF DueMoves, IInv
  <1>5. agreement \in [Agreement -> Row] /\ agreement[a] \in Row
    BY DEF IInv, TypeOK
  <1>6. DueMoves(a)
    <2>1. CASE CreateAgreementSign(a)
      <3>1. agreement'[a].due = agreement[a].due
        BY <1>5, <2>1 DEF CreateAgreementSign, Row
      <3> QED
        BY <3>1, DatesTyped DEF DueMoves, IInv
    <2>2. ASSUME NEW status \in {"VALID", "UNSIGNED", "INVALID"}, ProcessAgreementNotify(a, status)
          PROVE  DueMoves(a)
      <3>1. agreement'[a].due = IF status = "VALID" THEN RollForward(ExecuteTime[a], Period) ELSE NoDue
        BY <1>5, <2>2 DEF ProcessAgreementNotify
      <3>2. ExecuteTime[a] \in Nat /\ Period \in Nat \ {0} /\ clock \in Nat
        BY DatesTyped DEF IInv
      <3>3. /\ RollForward(ExecuteTime[a], Period) > clock
            /\ \E k \in Nat : RollForward(ExecuteTime[a], Period) = ExecuteTime[a] + Period * k
        BY <3>2, RollForwardLater
      <3> QED
        BY <3>1, <3>3 DEF DueMoves
    <2>3. CASE AdminUnsignAgreement(a)
      <3>1. agreement'[a].due = NoDue
        BY <1>5, <2>3 DEF AdminUnsignAgreement, Row
      <3> QED
        BY <3>1 DEF DueMoves
    <2> QED
      BY <2>1, <2>2, <2>3 DEF AgreementStep
  <1> QED
    BY <1>2, <1>4, <1>6 DEF TakesNothing

\* A trade changes that is committed already, or is rolled back, and no row.
LEMMA TradeTakesNothing ==
  ASSUME IInv, IInv', NEW a \in Agreement, NEW t \in DOMAIN trade[a], NEW new \in Trade,
         SetTrade(a, t, new), agreement' = agreement,
         new.scheduled = trade[a][t].scheduled,
         \/ new.deduction = trade[a][t].deduction
         \/ new.deduction = "GONE" /\ trade[a][t].deduction = "PENDING"
  PROVE  \A b \in Agreement : TakesNothing(b)
  <1>1. t \in Committed(a) => new.deduction = trade[a][t].deduction
    BY DEF Committed
  <1>2. /\ \A b \in Agreement : RefusedByHand(b) => RefusedByHand(b)'
        /\ \A b \in Agreement \ {a} : PaidByBatches(b)' \subseteq PaidByBatches(b)
        /\ PaidByBatches(a)' \subseteq PaidByBatches(a) \cup {t}
        /\ t \in PaidByBatches(a)' => new.scheduled /\ new.deduction = "SUCCESS"
    BY <1>1, SetTradeTakes DEF IInv
  <1>3. t \in PaidByBatches(a)' => t \in PaidByBatches(a)
    BY <1>2 DEF PaidByBatches, Scheduled, Committed
  <1>4. PaidByBatches(a)' \subseteq PaidByBatches(a)
    BY <1>2, <1>3
  <1> QED
    BY <1>2, <1>4, SameRowsTakeNothing

LEMMA TradeStepTakesNothing ==
  ASSUME IInv, IInv', NEW a \in Agreement, TradeStep(a)
  PROVE  \A b \in Agreement : TakesNothing(b)
  <1>1. PICK t \in DOMAIN trade[a] :
          AlipayPays(a, t) \/ \E h \in Handler : ReadNotified(h, a, t)
    BY DEF TradeStep
  <1>2. CASE AlipayPays(a, t)
    <2> DEFINE new == [trade[a][t] EXCEPT !.alipay = "PAID"]
    <2>1. /\ new \in Trade /\ new.scheduled = trade[a][t].scheduled
          /\ new.deduction = trade[a][t].deduction
      BY TradeTyped DEF Trade, IInv
    <2>2. SetTrade(a, t, new) /\ agreement' = agreement
      BY <1>2 DEF AlipayPays
    <2> HIDE DEF new
    <2> QED
      BY <2>1, <2>2, TradeTakesNothing
  <1>3. CASE \E h \in Handler : ReadNotified(h, a, t)
    BY <1>3, SameTradesTakeNothing DEF ReadNotified, tables
  <1> QED
    BY <1>1, <1>2, <1>3

LEMMA NotifiedTakesNothing ==
  ASSUME IInv, IInv', NEW h \in Handler, WriteNotified(h)
  PROVE  \A b \in Agreement : TakesNothing(b)
  <1>1. handler[h] # <<>> /\ handler[h] \in Agreement \X Nat
    BY DEF WriteNotified, IInv, TypeOK
  <1>2. PICK a \in Agreement : a = handler[h][1]
    BY <1>1
  <1>3. PICK t \in DOMAIN trade[a] : t = handler[h][2]
    BY <1>1, <1>2 DEF IInv, Notified
  <1> DEFINE new == [trade[a][t] EXCEPT !.order = "PAID"]
  <1>4. /\ new \in Trade /\ new.scheduled = trade[a][t].scheduled
        /\ new.deduction = trade[a][t].deduction
    BY TradeTyped DEF Trade, IInv
  <1>5. SetTrade(a, t, new) /\ agreement' = agreement
    BY <1>2, <1>3 DEF WriteNotified
  <1> HIDE DEF new
  <1> QED
    BY <1>4, <1>5, TradeTakesNothing

\* What Alipay answers, and a roll-back.
LEMMA OthersTakeNothing ==
  ASSUME IInv, IInv', NEW r \in Runner, Pay(r) \/ Expire(r) \/ PayThrows(r) \/ Die(r)
  PROVE  \A b \in Agreement : TakesNothing(b)
  <1>1. agreement' = agreement
    BY DEF Pay, Expire, PayThrows, Die
  <1>2. CASE Die(r) /\ ~Open(r)
    BY <1>1, <1>2, SameTradesTakeNothing DEF Die
  <1>3. CASE ~(Die(r) /\ ~Open(r))
    <2>1. Busy(r)
      BY <1>3 DEF Pay, Expire, PayThrows, Die, Open, Busy
    <2>2. PICK a \in Agreement : a = Current(r)
      BY <2>1, OpenTyped DEF IInv
    <2>3. PICK t \in DOMAIN trade[a] : t = runner[r].trade
      BY <2>1, <2>2, OpenTyped DEF IInv
    <2>4. trade[a][t] \in Trade
      BY TradeTyped DEF IInv
    <2>5. CASE Pay(r)
      <3>1. PICK outcome \in {"PROCESSING", "PAID", "REFUSED"} :
              SetTrade(a, t, [trade[a][t] EXCEPT !.alipay = outcome])
        BY <2>2, <2>3, <2>5 DEF Pay
      <3> DEFINE new == [trade[a][t] EXCEPT !.alipay = outcome]
      <3>2. /\ new \in Trade /\ new.scheduled = trade[a][t].scheduled
            /\ new.deduction = trade[a][t].deduction /\ SetTrade(a, t, new)
        BY <2>4, <3>1 DEF Trade
      <3> HIDE DEF new
      <3> QED
        BY <1>1, <3>2, TradeTakesNothing
    <2>6. CASE Expire(r) \/ PayThrows(r) \/ (Die(r) /\ Open(r))
      <3>1. trade[a][t].deduction = "PENDING"
        BY <2>2, <2>3, <2>6 DEF Open, Expire, PayThrows
      <3>2. PICK outcome \in {"NONE", "PROCESSING", "PAID", "REFUSED"} :
              \/ SetTrade(a, t, [trade[a][t] EXCEPT !.deduction = "GONE", !.alipay = outcome])
              \/ SetTrade(a, t, [trade[a][t] EXCEPT !.deduction = "GONE"])
        BY <2>2, <2>3, <2>6 DEF Expire, PayThrows, Die, RollBack
      <3> DEFINE one == [trade[a][t] EXCEPT !.deduction = "GONE", !.alipay = outcome]
                 two == [trade[a][t] EXCEPT !.deduction = "GONE"]
      <3>3. /\ one \in Trade /\ one.scheduled = trade[a][t].scheduled /\ one.deduction = "GONE"
            /\ two \in Trade /\ two.scheduled = trade[a][t].scheduled /\ two.deduction = "GONE"
        BY <2>4 DEF Trade
      <3>4. SetTrade(a, t, one) \/ SetTrade(a, t, two)
        BY <3>2
      <3> HIDE DEF one, two
      <3> QED
        BY <1>1, <3>1, <3>3, <3>4, TradeTakesNothing
    <2> QED
      BY <1>3, <2>5, <2>6
  <1> QED
    BY <1>2, <1>3

LEMMA BeginTakesNothing ==
  ASSUME IInv, IInv', NEW r \in Runner, BeginDeduction(r)
  PROVE  \A b \in Agreement : TakesNothing(b)
  <1>1. PICK a \in Agreement : a = Current(r)
    BY CurrentTyped DEF BeginDeduction, IInv
  <1> DEFINE new == [due |-> agreement[a].due, scheduled |-> runner[r].scheduled,
                     deduction |-> "PENDING", order |-> "PENDING", alipay |-> "NONE"]
  <1>2. trade[a] \in Seq(Trade) /\ trade \in [Agreement -> Seq(Trade)]
    BY DEF IInv, TypeOK
  <1>3. trade' = [trade EXCEPT ![a] = Append(trade[a], new)] /\ agreement' = agreement
    BY <1>1 DEF BeginDeduction
  <1>4. trade'[a] = Append(trade[a], new) /\ \A b \in Agreement : b # a => trade'[b] = trade[b]
    BY <1>2, <1>3
  <1>5. /\ DOMAIN trade'[a] = DOMAIN trade[a] \cup {Len(trade[a]) + 1}
        /\ trade'[a][Len(trade[a]) + 1].deduction = "PENDING"
        /\ \A i \in DOMAIN trade[a] : trade'[a][i] = trade[a][i]
    BY <1>2, <1>4
  <1>6. PaidByBatches(a)' \subseteq PaidByBatches(a) /\ (RefusedByHand(a) => RefusedByHand(a)')
    BY <1>5 DEF PaidByBatches, RefusedByHand, Scheduled, Committed
  <1>7. ASSUME NEW b \in Agreement, b # a
        PROVE  PaidByBatches(b)' \subseteq PaidByBatches(b) /\ (RefusedByHand(b) => RefusedByHand(b)')
    BY <1>4, <1>7 DEF PaidByBatches, RefusedByHand, Scheduled, Committed
  <1> QED
    BY <1>3, <1>6, <1>7, SameRowsTakeNothing

\* A deduction that ends: a batch's that was paid takes a period, of one that
\* was refused the date moves on, and one by hand takes none.
LEMMA RecordTakes ==
  ASSUME IInv, IInv', NEW r \in Runner, RecordPaid(r) \/ RecordFailed(r)
  PROVE  \A b \in Agreement : TakesNothing(b) \/ TakesPeriod(b)
  <1>1. Open(r) /\ Busy(r)
    BY DEF RecordPaid, RecordFailed, Open, Busy
  <1>2. PICK a \in Agreement : a = Current(r)
    BY <1>1, OpenTyped DEF IInv
  <1>3. PICK t \in DOMAIN trade[a] : t = runner[r].trade
    BY <1>1, <1>2, OpenTyped DEF IInv
  <1>4. /\ Mine(r) = trade[a][t] /\ trade[a][t] \in Trade /\ trade[a][t].deduction = "PENDING"
        /\ runner[r].began \in Nat /\ Day \in Nat \ {0}
    BY <1>1, <1>2, <1>3, OpenTyped, TimesAssumption DEF IInv, Mine, Open
  <1>5. /\ agreement[a].status = "VALID" /\ agreement[a].due = trade[a][t].due
        /\ runner[r].began <= clock
        /\ trade[a][t].scheduled => agreement[a].due <= runner[r].began
    BY <1>1, <1>2, <1>4 DEF IInv, Pinned, PinnedBy
  <1>6. agreement[a].due # NoDue
    BY <1>5 DEF IInv, ValidIsScheduled
  <1>7. t \notin Committed(a)
    BY <1>4 DEF Committed
  <1>8. /\ agreement[a].due \in Nat /\ agreement'[a].due \in Nat /\ clock \in Nat
        /\ Period \in Nat \ {0}
    BY DatesTyped DEF IInv
  <1>9. \A b \in Agreement \ {a} : agreement'[b] = agreement[b]
    BY <1>2 DEF RecordPaid, RecordFailed, IInv, TypeOK
  <1>10. \A b \in Agreement \ {a} : DueMoves(b)
    BY <1>9, DatesTyped DEF DueMoves, IInv
  <1>11. agreement \in [Agreement -> Row] /\ agreement[a] \in Row
    BY DEF IInv, TypeOK
  <1>12. CASE RecordPaid(r)
    <2> DEFINE new == [trade[a][t] EXCEPT !.deduction = "SUCCESS", !.order = "PAID"]
    <2>1. /\ new \in Trade /\ new.scheduled = trade[a][t].scheduled
          /\ new.deduction = "SUCCESS"
      BY <1>4 DEF Trade
    <2>2. SetTrade(a, t, new)
      BY <1>2, <1>3, <1>12 DEF RecordPaid
    <2> HIDE DEF new
    <2>3. /\ \A b \in Agreement : RefusedByHand(b) => RefusedByHand(b)'
          /\ \A b \in Agreement \ {a} : PaidByBatches(b)' \subseteq PaidByBatches(b)
          /\ PaidByBatches(a)' \subseteq PaidByBatches(a) \cup {t}
          /\ t \in PaidByBatches(a)' => trade[a][t].scheduled
      BY <1>7, <2>1, <2>2, SetTradeTakes DEF IInv
    <2>4. agreement'[a].due = NextDue(a, trade[a][t].due)
      BY <1>2, <1>3, <1>11, <1>12 DEF RecordPaid, Row
    <2>5. BaseDue(a, trade[a][t].due) = agreement[a].due /\ trade[a][t].due \in Nat
      BY <1>4, <1>5, <1>6 DEF BaseDue, Trade
    <2>6. agreement'[a].due >= agreement[a].due + Period
      BY <1>8, <2>4, <2>5, NextDueLater
    <2>7. CASE trade[a][t].scheduled
      <3>1. TakesPeriod(a)
        BY <1>4, <1>5, <1>6, <1>8, <2>3, <2>6, <2>7 DEF TakesPeriod
      <3> QED
        BY <1>10, <2>3, <3>1 DEF TakesNothing
    <2>8. CASE ~trade[a][t].scheduled
      <3>1. DueMoves(a)
        BY <1>6, <1>8, <2>6 DEF DueMoves
      <3> QED
        BY <1>10, <2>3, <2>8, <3>1 DEF TakesNothing
    <2> QED
      BY <2>7, <2>8
  <1>13. CASE RecordFailed(r)
    <2> DEFINE new == [trade[a][t] EXCEPT !.deduction = "FAILED", !.order = "FAILED"]
    <2>1. /\ new \in Trade /\ new.scheduled = trade[a][t].scheduled
          /\ new.deduction = "FAILED"
      BY <1>4 DEF Trade
    <2>2. SetTrade(a, t, new)
      BY <1>2, <1>3, <1>13 DEF RecordFailed
    <2> HIDE DEF new
    <2>3. /\ \A b \in Agreement : RefusedByHand(b) => RefusedByHand(b)'
          /\ \A b \in Agreement \ {a} : PaidByBatches(b)' \subseteq PaidByBatches(b)
          /\ PaidByBatches(a)' \subseteq PaidByBatches(a) \cup {t}
          /\ t \notin PaidByBatches(a)'
          /\ ~trade[a][t].scheduled => RefusedByHand(a)'
      BY <1>7, <2>1, <2>2, SetTradeTakes DEF IInv
    <2>4. agreement'[a].due = runner[r].began + Day
      BY <1>2, <1>11, <1>13 DEF RecordFailed, Row
    <2>5. trade[a][t].scheduled => DueMoves(a)
      BY <1>4, <1>5, <1>6, <1>8, <2>4 DEF DueMoves
    <2> QED
      BY <1>10, <2>3, <2>5 DEF TakesNothing
  <1> QED
    BY <1>12, <1>13

LEMMA StepTakes ==
  ASSUME IInv, IInv', [Next]_vars
  PROVE  \A b \in Agreement : TakesNothing(b) \/ (TakesPeriod(b) /\ clock' = clock)
  <1>1. CASE UNCHANGED tables
    BY <1>1, SameTradesTakeNothing DEF tables
  <1>2. ASSUME NEW r \in Runner, DeductionStep(r) \/ Fault(r)
        PROVE  \/ UNCHANGED tables
               \/ \A b \in Agreement : TakesNothing(b) \/ (TakesPeriod(b) /\ clock' = clock)
    <2>1. CASE RecordPaid(r) \/ RecordFailed(r)
      <3>1. clock' = clock
        BY <2>1 DEF RecordPaid, RecordFailed
      <3> QED
        BY <2>1, <3>1, RecordTakes
    <2> QED
      BY <1>2, <2>1, OthersTakeNothing, BeginTakesNothing
      DEF DeductionStep, Fault, TurnDown, RecordThrows, Finish, WaitExpires
  <1>3. CASE \/ \E s \in Scheduler : RunAutoDeductionInterval(s)
             \/ \E m \in Admin : AdminTriggerAutoRun(m)
                                   \/ \E a \in Agreement : AdminExecuteDeduction(m, a)
             \/ Tick \/ UNCHANGED vars
    BY <1>1, <1>3 DEF RunAutoDeductionInterval, AdminTriggerAutoRun, AdminExecuteDeduction, Tick, vars
  <1> QED
    BY <1>1, <1>2, <1>3, AgreementTakesNothing, TradeStepTakesNothing, NotifiedTakesNothing DEF Next

LEMMA ClockForward ==
  ASSUME IInv, [Next]_vars
  PROVE  clock <= clock'
  <1>1. clock \in Nat
    BY DEF IInv, TypeOK
  <1>2. clock' \in {clock, clock + 1}
    BY DEF Next, AgreementStep, CreateAgreementSign, ProcessAgreementNotify, AdminUnsignAgreement,
           TradeStep, AlipayPays, ReadNotified, WriteNotified, Tick, RunAutoDeductionInterval,
           AdminTriggerAutoRun, AdminExecuteDeduction, DeductionStep, Fault, TurnDown,
           BeginDeduction, Pay, RecordPaid, RecordFailed, RecordThrows, Finish, Expire,
           WaitExpires, PayThrows, Die, vars
  <1> QED
    BY <1>1, <1>2

AllKept == \A a \in Agreement : Kept(a)

LEMMA InitKept == Init => AllKept
  <1> SUFFICES ASSUME Init, NEW a \in Agreement PROVE KeptAt(a, Taken(a))
    BY DEF AllKept, Kept
  <1>1. PaidByBatches(a) = {}
    BY DEF Init, PaidByBatches, Scheduled, Committed
  <1>2. Taken(a) = 0
    BY <1>1, FS_EmptySet DEF Taken
  <1> QED
    BY <1>2 DEF Init, KeptAt, NoDue

LEMMA StepKept == IInv /\ IInv' /\ AllKept /\ [Next]_vars => AllKept'
  <1> SUFFICES ASSUME IInv, IInv', AllKept, [Next]_vars, NEW a \in Agreement
               PROVE  Kept(a)'
    BY DEF AllKept
  <1> QED
    BY StepTakes, ClockForward, TakesNothingKeeps, TakesPeriodKeeps DEF AllKept

\* The batches take no period's payment twice, nor before it begins, whatever
\* the length of a period and however late they are (calculateNextDeduction
\* and rollForwardDueDate), unless a deduction by hand was refused.
THEOREM PeriodsArePaidOnce == Spec => []PeriodsPaidOnce
  <1>1. IInv /\ AllKept => PeriodsPaidOnce
    BY KeptCounts DEF AllKept
  <1> QED
    BY <1>1, InitIInv, StepIInv, InitKept, StepKept, PTL DEF Spec
=============================================================================
