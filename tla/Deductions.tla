----------------------------- MODULE Deductions -----------------------------
(***************************************************************************)
(* Recurring deductions (payments.service.ts): a user signs an agreement   *)
(* at Alipay, and when it is due a scheduler, or an administrator who      *)
(* starts the same batch, asks Alipay for the money.  The agreement's row  *)
(* is locked while that happens, in one database transaction which Prisma  *)
(* ends after five seconds, whatever Alipay is doing.                      *)
(*                                                                         *)
(* The agreements are of one user, a period has always the same length,    *)
(* and Alipay's gateway is configured.                                     *)
(***************************************************************************)
EXTENDS Integers, Sequences, FiniteSets, SequencesExt

CONSTANTS
    Agreement,
    Scheduler,       \* gateway processes: the interval of each
    Admin,           \* requests of administrators
    Handler,         \* requests that handle Alipay's notifications
    Nobody,
    ExecuteTime,     \* execute_time of each agreement
    Period,          \* period_type and period of the product
    Day,             \* 24 hours
    MembershipDays,  \* membership_days of the product
    BatchSize,
    MaxTime,         \* bound: the clock stops there
    MaxManual,       \* bound: deductions that administrators ask for
    MaxFaults        \* bound: failures

Runner == Scheduler \cup Admin

ASSUME RunnerAssumption == Nobody \notin Runner
ASSUME AgreementAssumption == IsFiniteSet(Agreement)
ASSUME TimesAssumption ==
    /\ ExecuteTime \in [Agreement -> Nat \ {0}]
    /\ Period \in Nat \ {0} /\ Day \in Nat \ {0} /\ MembershipDays \in Nat \ {0}
    /\ BatchSize \in Nat \ {0}

VARIABLES
    clock,
    agreement,       \* alipay_agreements
    lock,            \* the transaction that has the agreement's row
    trade,           \* alipay_deductions, their alipay_orders, and what Alipay made of them
    expires,         \* users.membership_expires_at
    running,         \* autoDeductionRunning of each process
    runner,          \* the batches and deductions in progress
    handler,         \* the notifications in progress
    manual, faults   \* counters for the bounds

tables == <<agreement, lock, trade, expires>>
procs == <<running, runner, handler>>
bounds == <<manual, faults>>
vars == <<clock, tables, procs, bounds>>

NoDue == 0

Row == [status : {"NONE", "PENDING", "VALID", "UNSIGNED", "INVALID"},
        numbered : BOOLEAN, due : Nat]

\* A trade that was rolled back is gone from the tables, not from Alipay.
Trade == [due : Nat, scheduled : BOOLEAN,
          deduction : {"PENDING", "SUCCESS", "FAILED", "GONE"},
          order : {"PENDING", "PAID", "FAILED"},
          alipay : {"NONE", "PROCESSING", "PAID", "REFUSED"}]

Task == [at : {"idle", "batch", "pay", "record"}, todo : Seq(Agreement),
         scheduled : BOOLEAN, trade : Nat, began : Nat,
         reply : {"NONE", "PROCESSING", "PAID", "REFUSED"}]

Idle == [at |-> "idle", todo |-> <<>>, scheduled |-> TRUE, trade |-> 0,
         began |-> 0, reply |-> "NONE"]

TypeOK ==
    /\ clock \in Nat
    /\ agreement \in [Agreement -> Row]
    /\ lock \in [Agreement -> Runner \cup {Nobody}]
    /\ trade \in [Agreement -> Seq(Trade)]
    /\ expires \in Nat
    /\ running \in [Scheduler -> BOOLEAN]
    /\ runner \in [Runner -> Task]
    /\ handler \in [Handler -> {<<>>} \cup (Agreement \X Nat)]
    /\ manual \in Nat /\ faults \in Nat

Init ==
    /\ clock = 1
    /\ agreement = [a \in Agreement |-> [status |-> "NONE", numbered |-> FALSE, due |-> NoDue]]
    /\ lock = [a \in Agreement |-> Nobody]
    /\ trade = [a \in Agreement |-> <<>>]
    /\ expires = 0
    /\ running = [s \in Scheduler |-> FALSE]
    /\ runner = [r \in Runner |-> Idle]
    /\ handler = [h \in Handler |-> <<>>]
    /\ manual = 0 /\ faults = 0

SetTrade(a, t, new) == trade' = [trade EXCEPT ![a] = [@ EXCEPT ![t] = new]]

-----------------------------------------------------------------------------
(* Agreements                                                              *)

\* rollForwardDueDate: the first date after the present in steps of the period
\* it is given, which is a day when it is given none.
RollForward(due, step) ==
    IF due > clock THEN due ELSE due + step * ((clock - due) \div step + 1)

\* createAgreementSign
CreateAgreementSign(a) ==
    /\ agreement[a].status = "NONE"
    /\ agreement' = [agreement EXCEPT ![a].status = "PENDING"]
    /\ UNCHANGED <<clock, lock, trade, expires, procs, bounds>>

\* processAgreementNotify: notifications come in any order, with Alipay's
\* number of the agreement or without it.  The UPDATE waits for the row.
ProcessAgreementNotify(a, status) ==
    /\ agreement[a].status # "NONE"
    /\ lock[a] = Nobody
    /\ \E numbered \in BOOLEAN :
         agreement' = [agreement EXCEPT ![a] =
           [status |-> status, numbered |-> @.numbered \/ numbered,
            due |-> IF status = "VALID" THEN RollForward(ExecuteTime[a], Period) ELSE NoDue]]
    /\ UNCHANGED <<clock, lock, trade, expires, procs, bounds>>

\* adminUnsignAgreement, when Alipay has agreed.
AdminUnsignAgreement(a) ==
    /\ agreement[a].status # "NONE"
    /\ lock[a] = Nobody
    /\ agreement' = [agreement EXCEPT ![a].status = "UNSIGNED", ![a].due = NoDue]
    /\ UNCHANGED <<clock, lock, trade, expires, procs, bounds>>

-----------------------------------------------------------------------------
(* Batches                                                                 *)

Due(a) == agreement[a].status = "VALID" /\ agreement[a].due # NoDue /\ agreement[a].due <= clock

\* What the batch's query may return: the oldest first, and no more than
\* BatchSize of them.
DueBatches ==
    LET oldestFirst == {s \in SetToSeqs({a \in Agreement : Due(a)}) :
          \A i, j \in DOMAIN s : i < j => agreement[s[i]].due <= agreement[s[j]].due}
    IN  {SubSeq(s, 1, IF Len(s) < BatchSize THEN Len(s) ELSE BatchSize) : s \in oldestFirst}

Start(r, todo, scheduled) ==
    runner' = [runner EXCEPT ![r] = [Idle EXCEPT !.at = "batch", !.todo = todo,
                                                 !.scheduled = scheduled]]

\* runAutoDeductionInterval.  A tick too early, or with nothing due, changes
\* nothing.
RunAutoDeductionInterval(s) ==
    /\ ~running[s]
    /\ running' = [running EXCEPT ![s] = TRUE]
    /\ \E todo \in DueBatches \ {<<>>} : Start(s, todo, TRUE)
    /\ UNCHANGED <<clock, tables, handler, bounds>>

AdminTriggerAutoRun(m) ==
    /\ runner[m].at = "idle"
    /\ \E todo \in DueBatches \ {<<>>} : Start(m, todo, TRUE)
    /\ UNCHANGED <<clock, tables, running, handler, bounds>>

\* adminExecuteDeduction: due or not.
AdminExecuteDeduction(m, a) ==
    /\ runner[m].at = "idle"
    /\ manual < MaxManual /\ manual' = manual + 1
    /\ Start(m, <<a>>, FALSE)
    /\ UNCHANGED <<clock, tables, running, handler, faults>>

\* The end of runDueDeductionBatch, and autoDeductionRunning's in the
\* finally block.
Finish(r) ==
    /\ runner[r].at = "batch" /\ runner[r].todo = <<>>
    /\ runner' = [runner EXCEPT ![r] = Idle]
    /\ running' = [s \in Scheduler |-> IF s = r THEN FALSE ELSE running[s]]
    /\ UNCHANGED <<clock, tables, handler, bounds>>

-----------------------------------------------------------------------------
(* executeDeductionForAgreement: one transaction                           *)

Current(r) == Head(runner[r].todo)

NextOne(r) == Start(r, Tail(runner[r].todo), runner[r].scheduled)

Committed(a) == {i \in DOMAIN trade[a] : trade[a][i].deduction \in {"SUCCESS", "FAILED"}}

\* The agreement was due when the batch was chosen.
DeclinedUndated(r) ==
    LET a == Current(r) IN
    \/ agreement[a].status # "VALID"
    \/ ~agreement[a].numbered

\* The row says no: an exception, or skipped.  A deduction that is PENDING
\* would do the same, but nobody sees one: it is committed with its end.
Declined(r) ==
    LET a == Current(r) IN
    \/ agreement[a].status # "VALID"
    \/ runner[r].scheduled /\ ~Due(a)
    \/ ~agreement[a].numbered

TurnDown(r) ==
    /\ runner[r].at = "batch" /\ runner[r].todo # <<>>
    /\ lock[Current(r)] = Nobody
    /\ Declined(r)
    /\ NextOne(r)
    /\ UNCHANGED <<clock, tables, running, handler, bounds>>

\* SELECT
ReadAgreement(r, a) == UNCHANGED lock

\* SELECT ... FOR UPDATE
LockAgreement(r, a) == lock' = [lock EXCEPT ![a] = r]

Unlock(a) == lock' = [lock EXCEPT ![a] = Nobody]

BeginDeduction(r) ==
    LET a == Current(r) IN
    /\ runner[r].at = "batch" /\ runner[r].todo # <<>>
    /\ lock[a] = Nobody
    /\ ~Declined(r)
    /\ LockAgreement(r, a)
    /\ trade' = [trade EXCEPT ![a] = Append(@,
         [due |-> agreement[a].due, scheduled |-> runner[r].scheduled,
          deduction |-> "PENDING", order |-> "PENDING", alipay |-> "NONE"])]
    /\ runner' = [runner EXCEPT ![r] =
         [at |-> "pay", todo |-> @.todo, scheduled |-> @.scheduled,
          trade |-> Len(trade[a]) + 1, began |-> clock, reply |-> "NONE"]]
    /\ UNCHANGED <<clock, agreement, expires, running, handler, bounds>>

\* alipay.trade.pay
Pay(r) ==
    LET a == Current(r)
        t == runner[r].trade
    IN
    /\ runner[r].at = "pay"
    /\ \E outcome \in {"PROCESSING", "PAID", "REFUSED"} :
         /\ SetTrade(a, t, [trade[a][t] EXCEPT !.alipay = outcome])
         /\ runner' = [runner EXCEPT ![r].at = "record", ![r].reply = outcome]
    /\ UNCHANGED <<clock, agreement, lock, expires, running, handler, bounds>>

\* The transaction of a deduction is still open.
Open(r) ==
    /\ runner[r].at \in {"pay", "record"}
    /\ trade[Current(r)][runner[r].trade].deduction = "PENDING"

\* The days begin today.
StartMembership == expires' = clock + MembershipDays

\* extendMembership, under the lock of the user's row.
ExtendMembership == expires' = (IF expires > clock THEN expires ELSE clock) + MembershipDays

BaseDue(a, due) == IF due # NoDue THEN due ELSE ExecuteTime[a]

\* A date that is rolled forward without the period's length.
NextDueNoPeriod(a, due) == RollForward(BaseDue(a, due), Day)

\* A period on; if that is past, the same hour of the next day, for the period
\* is not handed on to rollForwardDueDate.
NextDue(a, due) == RollForward(BaseDue(a, due) + Period, Day)

RecordPaid(r) ==
    LET a == Current(r)
        t == runner[r].trade
    IN  /\ runner[r].at = "record" /\ Open(r)
        /\ runner[r].reply = "PAID"
        /\ SetTrade(a, t, [trade[a][t] EXCEPT !.deduction = "SUCCESS", !.order = "PAID"])
        /\ ExtendMembership
        /\ agreement' = [agreement EXCEPT ![a].due = NextDue(a, trade[a][t].due)]
        /\ Unlock(a)
        /\ NextOne(r)
        /\ UNCHANGED <<clock, running, handler, bounds>>

\* Alipay refuses, or is not done yet.  now() is the time when the
\* transaction began.
RecordFailed(r) ==
    LET a == Current(r)
        t == runner[r].trade
    IN  /\ runner[r].at = "record" /\ Open(r)
        /\ runner[r].reply # "PAID"
        /\ SetTrade(a, t, [trade[a][t] EXCEPT !.deduction = "FAILED", !.order = "FAILED"])
        /\ agreement' = [agreement EXCEPT ![a].due = runner[r].began + Day]
        /\ Unlock(a)
        /\ NextOne(r)
        /\ UNCHANGED <<clock, expires, running, handler, bounds>>

-----------------------------------------------------------------------------
(* Failures                                                                *)

RollBack(a, t) == SetTrade(a, t, [trade[a][t] EXCEPT !.deduction = "GONE"])

\* Prisma's timeout: the row is free while Alipay is still being asked.
Expire(r) ==
    LET a == Current(r) IN
    /\ Open(r)
    /\ faults < MaxFaults /\ faults' = faults + 1
    /\ RollBack(a, runner[r].trade)
    /\ Unlock(a)
    /\ UNCHANGED <<clock, agreement, expires, procs, manual>>

\* The same timeout, while the transaction waits for the row.
WaitExpires(r) ==
    /\ runner[r].at = "batch" /\ runner[r].todo # <<>>
    /\ lock[Current(r)] # Nobody
    /\ faults < MaxFaults /\ faults' = faults + 1
    /\ NextOne(r)
    /\ UNCHANGED <<clock, tables, running, handler, manual>>

\* A statement after the timeout throws, and the batch goes on.
RecordThrows(r) ==
    /\ runner[r].at = "record" /\ ~Open(r)
    /\ NextOne(r)
    /\ UNCHANGED <<clock, tables, running, handler, bounds>>

\* The failure ends the run, without a look at autoDeductionRunning.
PayThrowsOut(r) ==
    LET a == Current(r)
        t == runner[r].trade
    IN  /\ runner[r].at = "pay" /\ Open(r)
        /\ faults < MaxFaults /\ faults' = faults + 1
        /\ \E outcome \in {"NONE", "PROCESSING", "PAID", "REFUSED"} :
             SetTrade(a, t, [trade[a][t] EXCEPT !.deduction = "GONE", !.alipay = outcome])
        /\ Unlock(a)
        /\ runner' = [runner EXCEPT ![r] = Idle]
        /\ UNCHANGED <<clock, agreement, expires, running, handler, manual>>

\* Alipay's answer does not arrive: the batch goes on.
PayThrows(r) ==
    LET a == Current(r)
        t == runner[r].trade
    IN  /\ runner[r].at = "pay" /\ Open(r)
        /\ faults < MaxFaults /\ faults' = faults + 1
        /\ \E outcome \in {"NONE", "PROCESSING", "PAID", "REFUSED"} :
             SetTrade(a, t, [trade[a][t] EXCEPT !.deduction = "GONE", !.alipay = outcome])
        /\ Unlock(a)
        /\ NextOne(r)
        /\ UNCHANGED <<clock, agreement, expires, running, handler, manual>>

\* The process dies, and Postgres rolls back.
Die(r) ==
    /\ runner[r].at # "idle"
    /\ faults < MaxFaults /\ faults' = faults + 1
    /\ IF Open(r)
       THEN RollBack(Current(r), runner[r].trade) /\ Unlock(Current(r))
       ELSE UNCHANGED <<trade, lock>>
    /\ runner' = [runner EXCEPT ![r] = Idle]
    /\ running' = [s \in Scheduler |-> IF s = r THEN FALSE ELSE running[s]]
    /\ UNCHANGED <<clock, agreement, expires, handler, manual>>

-----------------------------------------------------------------------------
(* Alipay's notifications of trades, and time                              *)

AlipayPays(a, t) ==
    /\ trade[a][t].alipay = "PROCESSING"
    /\ SetTrade(a, t, [trade[a][t] EXCEPT !.alipay = "PAID"])
    /\ UNCHANGED <<clock, agreement, lock, expires, procs, bounds>>

\* A failed order is final.
ReadNotifiedFinal(h, a, t) ==
    /\ handler[h] = <<>>
    /\ trade[a][t].alipay = "PAID"
    /\ t \in Committed(a) /\ trade[a][t].order = "PENDING"
    /\ handler' = [handler EXCEPT ![h] = <<a, t>>]
    /\ UNCHANGED <<clock, tables, running, runner, bounds>>

\* processTradeNotify.  An order that is PAID, or that the tables do not
\* have, is left alone; one that failed is paid after all.
ReadNotified(h, a, t) ==
    /\ handler[h] = <<>>
    /\ trade[a][t].alipay = "PAID"
    /\ t \in Committed(a) /\ trade[a][t].order = "FAILED"
    /\ handler' = [handler EXCEPT ![h] = <<a, t>>]
    /\ UNCHANGED <<clock, tables, running, runner, bounds>>

\* The deduction keeps its status and the agreement its date.
WriteNotified(h) ==
    /\ handler[h] # <<>>
    /\ LET a == handler[h][1]
           t == handler[h][2]
       IN  SetTrade(a, t, [trade[a][t] EXCEPT !.order = "PAID"])
    /\ ExtendMembership
    /\ handler' = [handler EXCEPT ![h] = <<>>]
    /\ UNCHANGED <<clock, agreement, lock, running, runner, bounds>>

Tick ==
    /\ clock < MaxTime
    /\ clock' = clock + 1
    /\ UNCHANGED <<tables, procs, bounds>>

-----------------------------------------------------------------------------

DeductionStep(r) == TurnDown(r) \/ BeginDeduction(r) \/ Pay(r) \/ RecordPaid(r)
                      \/ RecordFailed(r) \/ RecordThrows(r) \/ Finish(r)

Fault(r) == Expire(r) \/ WaitExpires(r) \/ PayThrows(r) \/ Die(r)

AgreementStep(a) ==
    \/ CreateAgreementSign(a)
    \/ \E status \in {"VALID", "UNSIGNED", "INVALID"} : ProcessAgreementNotify(a, status)
    \/ AdminUnsignAgreement(a)

TradeStep(a) ==
    \E t \in DOMAIN trade[a] :
      AlipayPays(a, t) \/ \E h \in Handler : ReadNotified(h, a, t)

Next ==
    \/ \E a \in Agreement : AgreementStep(a) \/ TradeStep(a)
    \/ \E s \in Scheduler : RunAutoDeductionInterval(s)
    \/ \E m \in Admin : AdminTriggerAutoRun(m) \/ \E a \in Agreement : AdminExecuteDeduction(m, a)
    \/ \E r \in Runner : DeductionStep(r) \/ Fault(r)
    \/ \E h \in Handler : WriteNotified(h)
    \/ Tick

Spec == Init /\ [][Next]_vars

\* Intervals go off and statements return, those that wait for a row in
\* their turn; Alipay repeats the notification of a payment.
Fairness ==
    /\ \A s \in Scheduler : WF_vars(RunAutoDeductionInterval(s))
    /\ \A r \in Runner : SF_vars(DeductionStep(r))
    /\ \A h \in Handler : WF_vars(WriteNotified(h))
    /\ \A a \in Agreement : SF_vars(\E t \in DOMAIN trade[a] : \E h \in Handler : ReadNotified(h, a, t))

FairSpec == Spec /\ Fairness

-----------------------------------------------------------------------------
(* Properties                                                              *)

Scheduled(a) == {i \in Committed(a) : trade[a][i].scheduled}

\* A due date is deducted when it has come, and once: of all batches that
\* saw the agreement due, of several processes and of administrators, one
\* records a deduction for that date, however notifications, refusals,
\* deductions by hand and failures move the date.
DueDeductedOnce ==
    \A a \in Agreement : \A i \in Scheduled(a) :
      /\ trade[a][i].due <= clock
      /\ \A j \in Scheduled(a) : i # j => trade[a][i].due # trade[a][j].due

RefusedByHand(a) == \E i \in Committed(a) : ~trade[a][i].scheduled /\ trade[a][i].deduction = "FAILED"

PaidByBatches(a) == {i \in Scheduled(a) : trade[a][i].deduction = "SUCCESS"}

PeriodsBegun(a) ==
    IF clock < ExecuteTime[a] THEN 0 ELSE (clock - ExecuteTime[a]) \div Period + 1

\* The batches take no period's payment twice, nor before the period begins,
\* although a late agreement is deducted again a day later, refusals and
\* deductions by hand move the date, and a notification starts the series
\* anew.  A deduction by hand that is refused is excepted: it brings the date
\* forward to the next day, however far off it was.
PeriodsPaidOnce ==
    \A a \in Agreement : ~RefusedByHand(a) => Cardinality(PaidByBatches(a)) <= PeriodsBegun(a)

\* An agreement has a date for its next deduction as long as it is valid,
\* and no longer: a deduction that ends beside an unsigning does not set one.
ValidIsScheduled ==
    \A a \in Agreement : agreement[a].status = "VALID" <=> agreement[a].due # NoDue

\* Every paid order has its days in the membership, whoever recorded the
\* payment: the deduction or a notification of it.
PaidIsGranted ==
    expires >= MembershipDays * SumFunction(
      [a \in Agreement |-> Cardinality({t \in Committed(a) : trade[a][t].order = "PAID"})])

\* So many agreements without a number are due that they fill the batch,
\* again and again.
Crowded == Cardinality({a \in Agreement : Due(a) /\ ~agreement[a].numbered}) >= BatchSize

\* A due agreement is deducted, or ends: a failure of one agreement does not
\* keep the batch from the others, nor a failed batch the next one.
DueIsServed ==
    \A a \in Agreement : Due(a) /\ agreement[a].numbered ~> ~Due(a) \/ Crowded

\* A payment that Alipay completed after its answer is recorded in the end.
PaidIsRecorded ==
    \A a \in Agreement :
      (\E t \in Committed(a) : trade[a][t].alipay = "PAID")
        ~> (\A t \in Committed(a) : trade[a][t].alipay = "PAID" => trade[a][t].order = "PAID")
=============================================================================
