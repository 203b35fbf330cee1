# A verification development for the OPG gateway

TLA+ specifications of the parts of the OPG gateway (`src/services/gateway`)
where several requests, workers and providers act on shared rows: the points
account of the AI gateway; the synchronous calls, with the throttle they pass,
and the asynchronous video tasks that spend it; the one-time payment orders that
fill and use it; recurring deductions; redeem codes and App Store subscriptions,
which give memberships; the platform task runtime; and mail campaigns. Each module
is written from the TypeScript code, statement by statement where the statements
can interleave; TLC checks small instances of all of them, and TLAPS proves
theorems about every one of them for every value of their constants.

Contents: [system](#1-the-system), [modules](#2-modules-and-the-code-they-model),
[runs](#3-runs), [fairness](#4-fairness), [proofs](#5-proofs),
[disagreements](#6-where-the-code-and-its-documents-disagree),
[not modelled](#7-what-is-not-modelled), [plan](#8-plan).

File abbreviations: PTS `ai-chat/ai-points.service.ts`, CHAT
`ai-chat/ai-chat.service.ts`, THR `ai-chat/ai-gateway-throttle.service.ts`, PAY
`payments/payments.service.ts`, IAP `payments/apple-iap.service.ts`, RDM
`redeem/redeem.service.ts`, TASK `platform-tasks/platform-tasks.service.ts`, MAIL
`email-delivery/email-delivery.service.ts`, all below
`src/services/gateway/src/modules/`.

## 1. The system

The gateway is one NestJS process, or several behind a load balancer. All
lasting state is in Postgres, reached by raw SQL through Prisma: a statement
outside `$transaction` commits by itself, and row locks are taken only where the
SQL says `FOR UPDATE` or an UPDATE matches the row. Redis (optional) holds
BullMQ jobs and throttle counters. Handlers of different HTTP requests interleave
at every `await`, and with those of other gateway processes at any statement.

### Components, their state, and what makes them correct

"Modelled" is said of a component's protocol; what of it is left out, mostly
administration and data, is listed in section 7, and `PROJECT.json` calls such a
component partly modelled.

**AI points** (PTS) - *modelled*. State: `user_ai_points_wallets` (balance,
earned, spent), `user_ai_points_ledger`, `user_ai_points_reservations` (status,
reserved, settled, `external_task_id`). Operations: open a wallet with its
initial points, consume, credit, reserve, attach a task id, settle, release.
Called by everything that costs or grants points. Hard: two calls on one wallet
or one reservation, retries with the same key, a settlement and a release at
once, a crash between two statements. Correct when no point is lost, frozen
without a reservation, or returned twice, when the ledger explains the balance,
and when each call looks indivisible to its caller.

**Asynchronous video** (CHAT) - *DashScope path modelled*. State:
`ai_async_video_tasks` (status, external id, response), the reservation, the
in-memory usage queue, `ai_usage_logs`. Operations: invoke (reserve, insert a
QUEUED row), pump (claim a slot under an advisory lock, submit to the provider,
mark, attach the id to the reservation), query (pump, look the task up, settle,
price). Hard: every request pumps for everybody; the row and the reservation
learn the provider's id in two statements; any of them can fail with the
provider already at work. Correct when the slot limit holds, when only delivered
videos are charged, once, and when frozen points always have somebody who ends
them.

**One-time orders** (PAY) - *modelled*. State: `alipay_orders` (status, deducted
points and their give-back, topup points and their status - both statuses double
as locks by a `PROCESSING:` token), `alipay_refunds`, the membership of
`users`, redeem packages, the buyer's wallet. Operations: create over three
channels, notification, status query, topup, give-back, administrator's refund.
Hard: notifications repeat, come late and race with queries; the provider's state
and the row's are different; points and order rows change in different
transactions. Correct when nothing is granted that was not paid, points move once
per order in each direction, and what is due arrives.

**Platform task runtime** (`platform-tasks/`) - *modelled*. State:
`platform_tasks` rows, BullMQ jobs, worker loops. Operations: create, enqueue,
claim by poll or by job, execute, succeed, retry, fail, cancel, transition. Hard:
at-least-once jobs race with the poll; outcomes are written by id after
an unlocked read; a worker dies. Correct when a task runs once at a time, at most
`max_attempts` times, and ends.

**AI invocation pipeline** (CHAT, scheduler, usage queue) - *modelled up to the
forwarders of single providers*. State: the request's own context (its
reservation travels in it from route to route), the reservation, the in-memory
usage queue. Operations: preflight check and reservation, preparation, upstream
call, body, stream, report of the usage, RunningHub's images with a reservation
of their own, and the queue's attach, settle and charge. Hard: the candidates are
tried one after the other with one context; forwarders are returned unawaited, so
their errors pass by the catch block that releases; a stream ends, is cancelled
and is read to its end independently; the settlement is a task in memory. Correct
when each answer of a provider is paid once, frozen points always have somebody
who ends them, and a failed call gives its reservation back.

**AI throttle** (THR) - *concurrency limits and cooldown modelled*. State:
counters per source and per user and source, in the process's memory or in Redis,
and the health of sources. Operations: acquire, refuse, release, record a success
or a failure, expiry in Redis. Hard: the memory counters are taken one after the
other; every way out of a call must release exactly once. Correct when the
counter is what is running.

**Redeem codes** (RDM, `extendMembership` in PAY) - *modelled*. State: codes
with their use counts, redemptions, the membership on the user's row, entitlement
rows per user and scope. Operations: redeem, distribute a package, revoke a
redemption, void a code, and a paid order's extension of the same membership.
Hard: rows are locked one after the other in the order of the grants; a first
insert has no row to lock; a revocation infers from two equal ends that the
membership was the code's. Correct when no code is used more often than it may be,
no day is lost or given twice, and no bought day is revoked.

**Apple IAP** (IAP) - *one subscription modelled*. State: notifications,
transaction rows, the user's entitlement. Operations: process a notification,
verify a receipt, restore purchases with Apple's history, refresh. Hard: Apple's
words come in any order, twice, or from an old receipt; nothing locks the rows
between the statements of a request. Correct when a transaction's row says what
Apple said last and the entitlement follows the latest period.

**Recurring agreements and deductions** (PAY) - *modelled*. State:
`alipay_agreements` (status, number, next date), `alipay_deductions` with an
order each, the membership's end, `autoDeductionRunning` of each process.
Operations: sign, Alipay's notifications of agreements and of payments, unsign,
the interval's batch, an administrator's batch, a deduction by hand. Hard: a batch
is chosen without a lock and worked off row by row; several processes run it;
Alipay is asked for the money inside the database transaction, which Prisma ends
after five seconds; a payment may be finished later. Correct when a date is
deducted once, a valid agreement has a next date and another has none, and every
payment Alipay reports is in the membership.

**Mail campaigns** (MAIL) - *modelled*. State: `email_campaigns`,
`email_campaign_recipients`, `email_contacts`, `email_suppression_list`, and
`processing` of each process. Operations: import, change, unsubscribe and suppress
contacts, schedule and cancel a campaign, and the interval's run: claim due
recipients, mail each, record, retry, complete. Hard: every process has the
interval; the requests and a run's statements commit one by one; the provider's
answer may be lost or its record fail; a campaign may be cancelled and scheduled
again while it is mailed. Correct when an address gets a campaign's mail once,
who left the list gets none, and every recipient comes to an end.

**Auth sessions, SDK login, email and SMS verification** - *not modelled*. Access
control, whose correctness is a matter of cryptography and of who may do what.

**Workflows, functions, agents, forms, feedback, notifications** - *not modelled
yet*. Run records and small state machines over JSON documents.

**The rest** - *not modelled*: catalogue and settings CRUD, schema and policy
documents, observability, analytics, realtime fan-out, uploads, web console, CLI
and SDK clients; they have no protocol of their own.

### How they interact

    HTTP -> AI calls, video --reserve/attach/settle/release/consume--> AI points
              |  throttle: acquire, release, health
              |  usage queue --record, attach, settle, consume--> usage log, AI points
    HTTP, provider callbacks -> orders --consume/credit--> AI points
                                   |  extendMembership
    interval, admin API, Alipay -> deductions --> users.membership
    HTTP, admin API -> redeem codes --> users.membership, user_entitlements
    Apple, devices -> Apple IAP ------> user_entitlements (rows of its own)
    admin API, modules -> platform tasks <-- pollers, BullMQ consumers
    admin API, recipients -> mail campaigns <-- interval of each process

The hub is the points account. It is specified twice: `PointsAccount` says what
a caller may rely on (each operation is one step), `AiPoints` says how the
service does it, and the second is proved to implement the first. Calls, video
tasks and orders are then modelled on top of `PointsAccount`, which keeps them
small. That is sound only if they do not lean on a step the contract withholds, so
it is proved of them that they never ask for one (`PromiseSuffices`,
`VideoPromiseSuffices`, `WalletsAreSolvent`), and of calls and videos that they
touch wallets and reservations in no other way (`PromiseIsKept`,
`VideoKeepsToPromise`).

## 2. Modules and the code they model

    PointsAccount  <-- implemented by --  AiPoints        (AiPointsProofs)
         ^  INSTANCE
         |-- AiInvocation (AiInvocationProofs) -- EXTENDS --> AiThrottle
         |-- AiVideo        (AiVideoProofs)
         |-- PaymentOrders  (PaymentOrdersProofs)

    PlatformTasks, EmailCampaigns  (BackgroundProofs)     Deductions  (DeductionsProofs)
    RedeemCodes, AppleIap          (MembershipsProofs)

    Sums: lemmas on sums over finite sets, for the proof modules
    MC<module>: the constants TLC uses; MCMemberships: RedeemCodes and AppleIap

| module | code | process | step |
|---|---|---|---|
| `PointsAccount` | the contract of PTS | - | one operation |
| `AiPoints` | PTS 220-1010 | a call of the service | an unlocked read, the lock of a reservation row, or everything from the lock of the wallet to the commit |
| `AiVideo` | CHAT 1290-2110, usage queue | an invocation or a query | one statement, one provider call, or one transaction |
| `PaymentOrders` | PAY 600-900, 1070-1730, 2100-2275, 3566-3585, 4675-5024 | a creation, a callback or status query, a refund request | one statement, provider call or transaction |
| `AiThrottle` | THR 90-487 | - | one operation of the throttle |
| `AiInvocation` | CHAT 1080-1290, 6100-6990, 12090-12180, 13740-14411, scheduler, usage queue | a call or a task of the usage queue | from one await to the next |
| `RedeemCodes` | RDM 130-420, 1270-1420, 1690-1850; PAY `extendMembership` | a transaction | the statement that locks a row; the last one makes the writes |
| `AppleIap` | IAP 100-850 | a notification, a receipt's verification, a restore | one statement |
| `Deductions` | PAY 311-348, 1133-1205, 1265-1342, 1451-1538, 2696-2872, 2948-3267, 5500-5531 | a process's interval, an administrator's request, a notification | the row lock with the inserts, Alipay's call, the outcome with the commit |
| `EmailCampaigns` | MAIL 504-546, 642-694, 745-905, 1173-1179 | a process's interval, a request | one statement, one provider call, or the claim's transaction |
| `PlatformTasks` | `platform-tasks/*.ts` | a poller, a queue consumer, an operator | one statement on `platform_tasks` |

Variables are named for the tables or the request state; every action's comment
or its section's heading names the method. Where a function has several
exits, the labels of a process (`at`) name the statement it is about to execute.

**Amounts.** Points are integers in the smallest unit the service keeps (1/100).
Prices and estimates are constants: which number a price rule yields is data, that
the actual cost may exceed the estimate is kept.

**AiPoints.** Statements after the wallet's `FOR UPDATE` are one step with the
commit, because every other transaction on that wallet waits for the lock. The
read of `reservePoints` (PTS 513) and of `releaseReservationByKey` (PTS 915)
come before any lock and are steps of their own, and so is the lock of a
reservation row (PTS 694), which `rowLock` records. Opening a wallet is two
autocommitted statements (PTS 240, 252) and two steps. `Die` rolls back what is
open. Ledger rows are kept as sums per wallet and event, and per reservation.

**AiVideo.** The pump's claim runs under an advisory lock: one step. Submitting,
marking the row, attaching the id, the catch and the release in it are separate
steps; so are the lookup, the read of the reservation, the read of the usage
rows, the settlement and the write of the row in a query. The usage queue is a
bag of tasks per video in the stages record, charge and price. `abandoned` and
`revived` are history variables: they name the videos for which a cleanup failed
or a process stopped, and the ended rows a query with an older answer made active
again, so that the properties can say what holds otherwise. `told` is history as
well: the last answer to the video's client, which is an end, or not, or an end
told by a query that had found no reservation (`unmatched`).

**PaymentOrders.** `item` fixes per order the channel, the product, the points
it brings or deducts, and whether the provider reports another amount. An order's
`refund` and `topup` hold NONE, SUCCESS or the handler that is at it, which
stands for the PROCESSING status with its token. `said` collects the states the
provider has been in, so a notification can come late and again. `aged` stands for
`updated_at` older than five minutes. Alipay's own rules are the environment: a
trade moves from waiting to an end, and Alipay refuses to return more than was
paid. `broken` is history: the orders for which a named statement failed or a
takeover met a request that was still alive.

**AiThrottle and AiInvocation.** A call's record holds the attempt (its place in
the list of candidate routes), whether it has a slot, the attempt whose
reservation is in its context, and the one whose reservation an image made for
itself. That both survive or not when the next route is tried (`NextRoute`) is
what the properties turn on. `Prepare` and `Body` contain what can throw before
and after the upstream call; where a catch block sees an error, `release` or
`hub_fail` follows, where it does not, `Fail`. A cancelled stream gives its slot
back while its reader goes on (`Cancelled`). `Refuse` keeps the difference
between the memory counters, of which earlier ones stay taken when a later one is
full, and Redis's script, which checks all of them first. A reservation of the
points service is keyed by the call and the attempt. Whose request id becomes the
task id is kept: the provider's own are unique, the client's need not be. `lost`
counts the slots nobody will give back, `forgotten` names the reservations whose
settlement failed or was lost in memory, `answers` what providers answered.

**RedeemCodes.** Transactions lock in the order of their statements and write at
the commit, because the locks keep everybody else from what they read. A missing
entitlement row cannot be locked: `insert` waits for another insert of the key and
fails if that one was committed. Days are numbers; `owed`, `due` and `bought` are
history: what codes, gifts and orders gave and is not over.

**AppleIap.** `date` is Apple's clock: each signature has one of its own. A
payload is a transaction, a status and that date. A device's receipt is signed
early and may be shown at any time. Requests share no lock and no transaction:
persist, entitle, link, read and write of several requests interleave freely. That
the rows are read by `updated_at` is the relation `before`: a row that is written
comes after all others, and the rows of a restore's one UPDATE are side by side.
`newest` is history: the newest payload written about a transaction; `alone` says
that the last notification or restore had nobody beside it.

**Deductions.** A deduction is three steps: the lock of the agreement's row with
all that follows up to Alipay, the call, and the outcome with the commit. Nobody
sees the new rows before that, which is why the look for a PENDING deduction of the
last ten minutes finds none and is left out. A trade that was rolled back is `GONE`
from the tables and remains for Alipay, who may have the money. `Expire` is
Prisma's timeout: it frees the row while the call is still going on; `WaitExpires`
is the same for a transaction that waits for the row. Periods have one length where
the code adds months; `Day` is 24 hours, the wait after a refusal. A notification
starts the series of dates at `execute_time` and goes forward to the present in
periods (PAY 1492). A payment takes the date one period on, and from there the code
goes forward to the present without the period's length, which `rollForwardDueDate`
takes for days (PAY 3194, 5524-5531): `RollForward` has the step as a parameter,
`NextDue` uses `Day`. So an agreement that is more than one period late is deducted
again within a day, and its series moves to that hour of the day. How long ago the
last run was is left out: the interval may go off at any time. The agreements
belong to one user and the gateway is configured; the points of a deduction's order
are granted by `grantOrderTopupPointsIfNeeded`, which `PaymentOrders` has.

**PlatformTasks.** A row is its status, its attempts and whether it is due. The
appends to the event and log tables are part of the step next to them and may
throw, since `seq` is MAX + 1 under a unique index. `lost` and `forced` are
history: tasks a worker left half-way, and tasks an operator moved other than
to cancel.

**EmailCampaigns.** A recipient's `none` is a row that is not there. The claim is
one step because it locks the recipients and their campaigns; it may take any part
of what is due, since `SKIP LOCKED` passes by what another statement holds. The
UPDATE that refreshes a campaign's counts takes its tallies when it begins and
writes them when it gets the campaign's row: two steps, of which only the verdict
"nobody is outstanding" is kept. A failure of the mail is retryable or final by
the provider's choice. `barred`, `doubted`, `stranded` and `hasty` are history:
recipients suppressed before they were listed, those whose provider's answer was
not recorded, those a broken run left claimed, campaigns completed on an old tally.
Senders and providers are active throughout.

**A failing statement** has not been executed; a failing provider call may or may
not have had its effect. `MaxFaults` bounds failures and deaths together.

## 3. Runs

| run | specification | question | bounds |
|---|---|---|---|
| `points` | Spec | Is the account exact under concurrency and crashes, and does the service implement the contract? | 1 user, 2 keys, 2 task ids, 2 calls at a time, any number of calls; amounts 1, 2, costs 0, 1, 3, initial points 2, granted at most 4 |
| `tasks` | FairSpec | Who runs a task, how often, when is it over, and does it end? | 2 tasks (one retried once, one of higher priority without a handler), 2 pollers, 1 consumer, 1 operator who forces a success or cancels |
| `tasks_terminal` | Spec | Is a terminal status final? (no) | the same |
| `video` | FairSpec | Slots, charges, who ends a frozen reservation; do reservations end for clients that ask until they are told, and do further queries repair the usage log? | 2 videos of 1 user, limit 1, an invocation and a query of each at a time, 1 usage task kept per video, 1 fault |
| `video_charge` | Spec | Is a video paid once? (no, without any fault) | the same, no fault |
| `invoke` | FairSpec | Are slots and frozen points given back once, and is each answer paid once? Do reservations end? | 2 calls of 1 user, each for text or an image and with or without a client's own request id; 2 routes, the second RunningHub; memory or Redis; source limit 2, user limit 1, threshold 2, 1 fault |
| `invoke_release` | FairSpec | Does a failed call release its reservation? (no, without any fault) | the same, no fault |
| `memberships` | Spec | Codes, days and bought memberships; the row and the entitlement of a subscription | 2 users, 2 codes with 1 and 2 uses and grants in opposite orders, 1 gift, 1 order, 1 day that passes; 2 customers, 2 periods, 2 notifications, 1 device, 1 restore |
| `orders` | FairSpec | Points and products against what was paid and returned; do topup points, and points of an unpaid order, arrive? | 1 order of any of 8 items, 2 callbacks or queries at a time, 1 refund request, price 2, 2 notifications, 1 fault |
| `deductions` | MCSpec | Is a date deducted once and a period paid once, and does an agreement have a date exactly while it is valid? Is every payment granted, a due agreement served, a late payment recorded? | a period of 2 days; scene one: 1 agreement from day 2, clock to 3, the interval, an administrator who acts once or 1 fault, notifications; scene two: 2 agreements from days 2 and 3, a batch of 1, 1 fault, no INVALID; scene late: 1 agreement, clock to 5, no fault |
| `campaigns` | MCSpec | Is a mail sent once and to nobody who left? Does every recipient come to an end? | 2 processes, batches of 2, 2 attempts; scene one: 1 campaign to 2 addresses, 3 requests, or 1 and 1 fault; scene two: 2 campaigns to 1 address, 3 requests and faults |
| `orders_callback` | Spec | Does a repeated callback have the effect of one? (no) | 1 order, 2 notifications, no fault |

**Why the bounds are enough for the questions.** In `points` two calls suffice for
every pair of statements to meet, and each kind of interference in PTS is between
two calls on one row; two keys and two task ids let a settlement by task find the
wrong key if it could; a cost of 3 exceeds every reserved amount, and the initial
points are fewer than two reservations. The theorems lift these bounds. In `tasks`
two pollers and a consumer meet in every pair, and a worker that gave a task up can
meet its successor; an operator's other statuses are excepted by the safety
properties, which are proved for all of them. In `invoke` two calls of one user
over the user's limit make the second be refused while the first runs, at either
route; a source limit of 2 lets a leaked slot and a running call be told apart; two
attempts are the least with which a reservation is used by a later route, and the
second route being RunningHub brings an image's own reservation on the last and on
a middle route (a text call cannot use it); a client's id shared by both calls is
the collision of task ids. One fault suffices for every property that excepts what
a fault left. In `memberships` two codes whose grants are in opposite orders
deadlock and insert the same rows; two users over a code with one use and one with
two reach both limits; one gift and one order share the rows of one user. Two
periods are the least for which "the latest" is a question; of two notifications
one can be late or follow a restore; one old receipt is enough to overwrite. The
two components of this run keep rows in one table under keys of their own and
neither reads the other's, so `side` chooses one instead of interleaving them;
notifications and customers are interchangeable and reduced by symmetry (only
invariants are checked). In `video` two videos and one slot make one wait for the
other; a query and an invocation of each can both be in the pump; the first video
costs more than it reserved. In `orders` one order is enough because orders share
nothing but the wallet, which the environment also spends from (`SpendElsewhere`);
two requests at a time meet in every pair, a third one follows; of two
notifications one can repeat the other or be late. The initial points are fewer
than the order asks for, so that creation deducts less than requested. More
notifications, requests and faults are left to the theorems. In `deductions` the
row lock is per agreement, so one agreement with two dates, of its period and of a
refusal, is enough for the first scene; two runners are the least that can both
have it in their batches, and a deduction by hand moves the date under a batch. One
fault lets a batch find a date that another one failed to deduct. In the second
scene a batch of one has to choose between the agreements, and a clock that stops
leaves the due ones due until they are served. In the third scene the clock passes
three dates of one agreement, so that a deduction is more than a period late and
the two steps of `RollForward`, a period of two days and a day, give different
dates. In `campaigns` two processes are the least that can claim beside each other,
and two addresses the least of which one is mailed while the other is pending; two
campaigns to one address show that a suppression made by one is respected by the
other; three requests schedule, cancel and schedule again; the theorems lift these
bounds. Deadlock is checked where a next request is always possible (`points`,
`tasks`), and not where a finite number of calls, videos, orders, codes, requests
and faults comes to its end.

Types are not among the properties of the runs: each module's type invariant is a
theorem (section 5; those of `PointsAccount` and `AiThrottle` are parts of
`AiInvocation`'s).

**What the properties say.**

- `points`: `FrozenIsPending` (earned - spent - balance is what pending
  reservations froze), `LedgerExplainsBalance`, `ReservationNet` (the ledger rows
  of a reservation sum to what it took), `DebtIsExtraCapture` (a balance below
  zero comes from captures above the reservation only), `ImplementsAccount` (every
  statement is a step of the contract or none, so that a reservation is frozen and
  settled once).
- `tasks`: `OneExecution`, `AttemptsBounded`, `RunningIsHeld`, `SettledStays`
  (nobody changes a terminal task that nobody holds or has read). They except what
  operators put back and, for `RunningIsHeld`, what a worker lost: there is no
  lease. `EveryTaskEnds`, whatever becomes of the job in the queue.
- `invoke`: `SlotsAreCounted` (a counter is what runs and what was lost to a
  refused call: nothing is given back twice, so no more calls pass than the limit
  says), `PendingIsHeld` (frozen points are in a call's context, an image's hands
  or a task of the queue), `PaidIsAnswered` (what a call paid is at most its cost
  times the answers providers completed, over all routes, reports and faults),
  `ReservationsEnd` (with the one exception that `invoke_release` shows).
- `memberships`: `UsesCounted`, `DaysKept` (nobody's days are lost or given twice
  by interleaved grants, gifts and orders), `BoughtIsKept` (the first revocation
  takes no bought day; a later one may, see the comment of the property),
  `StatusIsNewest`, `EntitlementFollows` (one undisturbed notification or restore
  repairs whatever went before).
- `video`: `SlotsRespected`, `ChargedIsDelivered`, `PendingIsHeld`;
  `ReservationsEnd` for clients who ask until they are told of the end, except where
  that was told by a query which came between the two statements of the submission:
  such a client may stop, and its points stay frozen with no fault at all;
  `UsageCostRepaired`: while a video is asked about again and again, its usage rows
  get the points of the settlement. Without further queries they need not (section 6).
- `deductions`: `DueDeductedOnce` (committed deductions of batches have dates that
  had come, all different), `PeriodsPaidOnce` (the batches take no more payments than
  periods have begun, however late they are; excepted is an agreement of which a
  deduction by hand was refused, for that moves its date to the next day, PAY 3138),
  `ValidIsScheduled`, `PaidIsGranted` (the membership has
  the days of every paid order, whoever recorded it), `DueIsServed`,
  `PaidIsRecorded`. `DueIsServed` excepts `Crowded`: agreements without a number
  always throw, stay the oldest, and if they fill the batch nobody else is served
  (PAY 2766).
- `orders`: `DeductionKept` (points taken are in the order's row or are given
  back), `RefundOnce`, `TopupOnce`, `GrantedIsPaid`, `RefundedIsReturned`,
  `TopupArrives`, `RefundArrives`.
- `campaigns`: `MailedOnce` (the exception are answers that were not recorded, and
  those no more often than attempts are made), `BarredIsSpared` (though the address
  be imported again and the campaign scheduled again), `RecipientsEnd` (with the
  exceptions a broken run and an old tally leave).

An exception in a property is a claim as well: it names the one fault that breaks
it, and every other fault and interleaving is covered. For example `TopupOnce`
excepts the orders whose look at the ledger failed (PAY 4956, 4971: the catch goes
on to credit again) and those taken over from a request that was still alive.

## 4. Fairness

- Statements and provider calls of a request return: weak fairness of the steps
  of a request, as one disjunction per process. A process may still die
  (`Die`), which no fairness forbids.
- Platform tasks: the poll is a cron job and `next_retry_at` passes (weak
  fairness of `Poll` and `RetryDue`). Nothing is assumed of the queue's
  consumers taking jobs, of operators, or of `createTask` finishing.
- Video: the provider ends what it began, the usage queue's worker runs, and a
  client that was given a task id asks again after every answer but an end (`told`).
  The last is needed: slots are freed by queries only (CHAT 2031), there is no
  background poll. Nothing makes a client ask after an end; `UsageCostRepaired`
  has that as its premise.
- Calls: each step of a call is taken (statements return, a provider answers or
  the attempt is given up by its timeout, and a stream ends or is cancelled), and
  the queue's workers reach every task (`drain` takes the next one until none is
  left). Nothing is assumed of the cooldown's end or of Redis's expiry.
- Deductions: the interval goes off (weak fairness). The steps of a batch are
  strongly fair: Postgres grants a row lock to those that wait in turn, and a
  deduction that is passed over while others hold the row gets it. So is the start
  of a notification's handler, since Alipay repeats it until it is acknowledged.
  Nothing is assumed of administrators, of users, or of when a payment that is in
  progress succeeds.
- Campaigns: the interval goes off and its statements return, a request once begun
  goes on, `scheduled_at` and `next_retry_at` come. Nothing is assumed of
  administrators, and a run may break off.
- Orders: the buyer's page polls `getOrderStatus`. This is strong fairness of
  `Ask` over all handlers, because the model has two request slots where the
  gateway has no limit: notifications that keep both busy would otherwise
  starve the query. Time passes (`Age`). Notifications are never assumed.

## 5. Proofs

The proof modules are checked by TLAPS for arbitrary sets of users, keys, tasks,
calls, routes, codes, periods and workers and any amounts and limits; they use
the named assumptions of the component module and nothing else. Those are the
typing of the constants; that `None`, `NoTask`, `Nothing` and `Nobody` are outside
the other sets, that a handler is no administrator and that Apple's notifications,
receipts and restores are different requests; and that users, calls, videos,
agreements, transactions and administrators are finitely many where something is
counted or summed over them. Every invariant and every action property of the
passing runs is the statement of a theorem.

**Sums.** Accounts are sums: of pending reservations, of settled amounts, of the
days of grants. The community modules' `SumFunctionOnSet` is a CHOOSE of a recursive
function, and the library's induction cannot be applied to it (its premise is an
operator). `Sums` gets what is needed from a least counterexample instead: the
finite subsets of a set are well-founded under inclusion, so that a set of sets on
which a fact fails has a least member (`LeastSet`), whose smaller sets have the fact.
In this way: the recursive function exists and is unique on a finite set
(`SumsExist`, `SumsUnique`), and a sum depends on the values on its set only
(`SumAgrees`), can be taken apart at any element (`SumTake`, `SumAdd`), changes by
the difference of the one value that changes (`SumChange`), and is a natural number,
zero or smaller where its values are (`SumNat`, `SumZero`, `SumMonotone`).

**AiPoints.** `TypeCorrect` proves `TypeOK`, which includes `ArgumentsOK`: what
the local variables of a call are at each of its statements. The inductive
invariant is `IInv == RowLockInv /\ WalletRowInv`. `RowLockInv`: the call at a
settling statement holds the lock of its reservation row, which is still
pending, and nobody else holds it - this is what the `FOR UPDATE` read buys, and
without it the status read would be stale at the write. `WalletRowInv`: a call
past `getOrCreateWalletByAppId` finds a wallet, a wallet is opened once, and a
reservation has one. From `IInv`, the lemma `NextEffect` shows that every step
changes the rows in one of six ways (`RowEffect`: nothing, a wallet opened, a
credit, a consumption, a reservation, a settlement). All else follows from
`RowEffect` alone: `Refinement` (each effect is a step of `PointsAccount`),
`SettlementIsFinal`, `LedgerOfReservation`, `LedgerOfWallet`, and the two sums over
reservations, `FrozenPoints` and `DebtOfWallet`, which are inductive together with
the sets being finite (`Balanced`): users and keys may be infinitely many, but at
any time finitely many reservations are pending or were captured for more than they
had reserved.

**AiInvocation.** `IInv` joins the types with `SlotsAreCounted` and
`PendingIsHeld`. What makes them inductive is where a call is (`Good`): it has a
slot at exactly four of its labels, which is why each way out gives back at most
the one it has; an image's own reservation belongs to the route it is on, so that
no step to the next route drops it unsettled; an image never has one in its
context, so that a report cannot leave the image's behind; and a task without a
reservation is one that charges (`OfTask`). The lemma `CallStep` says what a step
of a call owes the invariant, and there is one lemma per action. Theorems:
`TypeCorrect`, `SlotsCounted`, `PointsAreHeld`.

`AnswersPaidOnce` needs what will still be paid besides what was paid: `BillInv`
bounds charges and captures together with what is under way, the queue's tasks that
will be paid and the image about to be captured, by the cost of the answers; an
attempt is answered once (`AnsweredOnce`), and a failed call's task never charges.
`PromiseSuffices` is the theorem `Spec => []Answerable`: wherever a route reserves
its key is new, wherever an image captures its reservation is pending, and wallets
are open. `AskInv` is its invariant: a key is made at its own attempt only and
attempts only go up.

**AiVideo.** `IInv` joins the types with what a request is at (`Good`): the video
it submits is its own, is SUBMITTING and has no task yet, and what a query carries
of the provider's task, of the reservation and of the usage rows was true when it
was read and, for ends, still is. With it are one holder per video (`OneEach`),
rows and reservations that fit each other (`Fresh`, `Queued`, `Money`), the usage
queue's tasks (`Usage`), and the three properties. Theorems: `VideoTyped`,
`SlotsAreRespected`, `ChargesAreDelivered`, `VideoPointsAreHeld`,
`VideoPromiseSuffices`, `VideoKeepsToPromise`.

**PaymentOrders.** The invariant is per order (`OrderOK`): what the row, the
ledger and the provider's words say of each other (`RowOK`), and what each request
at the order owes it (`Working`): the handler whose token is in the row is the one
that may write it, a handler past its read with PAID has an order that was paid
in full, a creation between its statements has the points it took. A step at one
order leaves all others alone (`OthersStay`), which is what makes the argument
local. Theorems: `OrdersTyped`, `DeductionsAreKept`, `BackIsOnce`, `TopupIsOnce`,
`GrantsArePaid`, `WalletsAreSolvent`. `RefundsAreReturned` is about several
administrators at once, each of whom sums what was recorded before writing the
status. `MoneyOK`: what is recorded of an order, and what the requests that were
answered have yet to record, is no more than Alipay returned; and a request that
is about to write REFUNDED has seen the price recorded, which no later record
takes back.

**RedeemCodes** (in `MembershipsProofs`). A transaction that redeems or revokes has
its code's row locked from its first step to its last (`Holding`), so that what it
found at the first is still so when it commits (`Ready`); with the types, that a
grant's index is within the list (`Granting`) and where a revocation can be
(`OfRevoke`), this makes `UsesCounted` inductive: theorems `CodesAreCounted` and
`CodesTyped`. `EveryDayKept` and `BoughtDaysKept` rest on `DaysInv`: the ends a
transaction carries are those of the rows it has locked plus the days of the grants
it is past, a sum over the list of the grants so far (`TransactionsOK`), so that its
commit adds to each row just what the history says is owed. Until a first
revocation a membership is the entitlement's days and the bought ones (`Accounted`),
so that the equal ends from which the revocation infers that the membership was the
code's mean that no bought day is left.

**AppleIap** (in `MembershipsProofs`). A row has the status and the date of the
newest payload written to it (`InStep`). The guard in `persistTransaction` compares
dates only, so the proof needs that two payloads about one transaction with one
date agree (`Agree`), of all that are kept, on their way or written (`Heard`), and
that none is dated in Apple's future (`Dated`): theorems `RowIsNewest` and
`AppleTyped`. `EntitledAsLatest` is about requests that have been by themselves
while everything before them may have gone wrong, so nothing can be assumed of the
rows they find. `Stage` says for each step of such a request what it has made true
already: which rows it has linked, that they are the last in the order of updates,
that what it read is still what the latest row says. The order of updates is a
strict one (`Ordered`) and there are finitely many rows, hence a last one
(`SomeLast`).

**Deductions.** `IInv` is the row lock's argument: a runner whose transaction is
open holds the lock of the row it is at (`Locked`), the date it began with is still
the row's date (`Pinned`), and all dates deducted by batches are earlier than the
row's (`Dated`), which every way to set a date keeps: a notification and a success
roll forward past the present, a refusal goes a `Day` ahead of the transaction's
beginning, and an agreement was due when a batch took it. An unsigning waits for
the lock, so the date set at the end of a deduction is that of a valid agreement.
Theorems: `DeductionsTyped`, `DatesAreDeductedOnce`, `ValidAreScheduled`. For
`PaymentsAreGranted` each step pays nothing or adds at most one trade to the paid
ones and at least its days to the membership (`PaysNothing`, `PaysFor`); the rest
is the sum over the agreements. `PeriodsArePaidOnce` rests on `Kept`: after n
payments by batches the next date is n periods or more after the first, and the
last payment was not taken before its period began. A payment is taken when the
date has come and moves it a period or more (`TakesPeriod`); all else leaves the
date, moves it forward, or is a notification, whose date lies on the series and in
the future and so behind the periods that were paid (`TakesNothing`).

**PlatformTasks** (in `BackgroundProofs`). `IInv` joins the four safety properties
with `Prefixes` (a worker about to record a success has a result of a registered
handler; a recorded task is not running any more). They are inductive only together:
that one worker holds a task is preserved by a claim because a held task is not
runnable, which is preserved by a failure because a retried task is let go of in the
same statement. Theorems: `ExecutedByOne`, `AttemptsAreBounded`, `RunningHasWorker`,
`SuccessHasResult`, and `SettledTasksStay` for the action property.

**EmailCampaigns** (in `BackgroundProofs`). A claim makes its rows 'sending', and
only the run that has them touches such rows: runs have disjoint recipients
(`OneEach`), a recipient that a run has yet to mail was never mailed, or a doubt is
on record, and has an attempt more than it has mails (`Unmailed`, `RunOK`); a row
that may be claimed has attempts left, and a barred one is not listed or skipped
(`RowOK`). Theorems: `CampaignsTyped`, `MailsAreSingle`, `BarredAreSpared`.

**Only model-checked**: the liveness properties (`EveryTaskEnds`, `ReservationsEnd`
of calls and of videos, `UsageCostRepaired`, `TopupArrives`, `RefundArrives`,
`DueIsServed`, `PaidIsRecorded`, `RecipientsEnd`): the provers reason about neither
fairness nor ENABLED. The properties of the four runs that expect a violation are
false of the code and have no theorem.

## 6. Where the code and its documents disagree

- `TerminalIsFinal` (`tasks_terminal`): `transitionTask` refuses terminal tasks,
  but every UPDATE names the row by id only; a worker's outcome overwrites a
  cancellation. What holds is `SettledStays`.
- `PaidOnce` (`video_charge`): a query between the two statements that store the
  provider's id finds no reservation and has the usage charged, and the
  reservation is captured later. The document says queries never charge again.
- `CallbackIdempotent` (`orders_callback`): a SaaS webhook delivered twice extends
  the membership twice. The topup of points is protected by its own status
  (`TopupOnce`).
- `FailedIsReleased` (`invoke_release`): the billing document says that failed
  requests must release their reservation. `invokeResolvedRoute` returns its
  forwarders' promises unawaited (CHAT 1176-1267), so that the catch which
  releases (CHAT 1268) never sees their errors; a last route that is refused its
  slot, cannot be reached or answers with a body that cannot be read leaves the
  reservation pending for good. `ReservationsEnd` shows that this is the only way.

Two more have no run of their own:

- `docs/AI_GATEWAY_BILLING_ARCHITECTURE.md:138` says that a successful request's
  usage row has the settled points as its `points_cost`. The first query that sees a
  video's success enqueues the row with NULL (CHAT 13548-13599) and updates it at once
  (CHAT 1579); if the queue has not inserted it yet, the update matches no row, and a
  client that was told of the success has no reason to ask again. What holds is
  `UsageCostRepaired`: later queries write the points.
- line 84 of that document says that synchronous images are charged in advance and
  settled after. Apart from RunningHub's, whose images have a reservation of their
  own, the balance for an image is checked before the call and charged after it
  (CHAT 13790), so that concurrent calls each pass the check.

## 7. What is not modelled

Within the modelled components: the settings cache and the pricing arithmetic of
the points service; the forwarders of single providers, which differ in format
only, and synchronous videos; the throttle's limits per API key and account, its
rate windows and `throttle_fail_open`, all off by default, and a release in Redis
that fails, since nobody waits for it (THR 333; the counter's expiry is modelled);
the scheduler's stickiness, which only changes the order of the candidates; the
RunningHub video path (its rows end in the same settlement) and OpenRouter videos
(which keep no row); the expiry of codes and the administration of packages;
Apple's grace periods, upgrades between products and consumables; of orders, a
notification that the buyer has yet to pay (PAY 1366, it changes no status), one
without an amount (PAY 1306, which is then not compared), and a topup marked
SUCCESS without a ledger id (PAY 4829, which is begun anew; a credit of points
returns its id); senders, templates, test and transactional mails, and the counts
of a campaign that decide nothing; signatures, request formats and callback
authentication; payment administration CRUD; task progress, events, logs and the
worker heartbeat table, which nothing reads back into control. Unbounded data is
left out throughout: names, payloads, timestamps other than "due", "older than five
minutes", days and Apple's signing dates.

What the models and the reading show of the code, and no property states because
no code or document says otherwise:

- an agreement deducted more than a period late is due again within a day, and its
  series of dates moves (PAY 3194): `PeriodsPaidOnce` shows that this takes no more
  than what is owed;
- a deduction that is rolled back after Alipay took the money leaves no trace (PAY
  3087), and the next run asks again under a new trade number; a payment still in
  progress is recorded as FAILED and the agreement is due again in 24 hours, so that
  both may be paid (PAY 3109); a deduction by hand that is refused moves the date to
  tomorrow (PAY 3138);
- of two partial refunds at once the one that summed first may write last, and an
  order returned in full is PAID again (PAY 2251);
- only Alipay's notifications and status queries grant a redeem package (PAY 1392); an
  order for one that is paid over WeChat or a SaaS provider gets none;
- the idempotency index of platform tasks has `app_id` as its first column, and a
  platform task's is NULL: its key does not stop a second task (TASK 95);
- a run that read a campaign's status before it was cancelled writes 'sending' over
  the cancellation (MAIL 790); a cancelled campaign's retries stay outstanding, and
  its batch left in 'sending' by a dead process stays so, for nothing reads
  `claimed_at`; a campaign scheduled while nobody is outstanding is never completed.

Other components: see `PROJECT.json`, which lists each with its sources and the
reason. Every hazard listed there has a property.

## 8. Plan

1. *Done*: every module of section 2, its runs, its type theorem and the theorems
   of section 5.
2. The forwarders of single providers (Anthropic, Google, DashScope images, voices)
   as instances of `AiInvocation`'s pattern, once one of them keeps state of its own.
3. A status that an order's partial refunds would have to keep, once a document or a
   test says what it is: `RefundsAreReturned` speaks of REFUNDED only, for any number
   of administrators.
4. Workflows and agents, if their run lifecycles prove to be more than a record, and
   the policy engine as a pure function checked against a reference definition.
5. The membership's end as an abstract account of days, in the place `PointsAccount`
   has for points, shown to be implemented by `RedeemCodes`, `PaymentOrders` and
   `Deductions`.
