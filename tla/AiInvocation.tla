--------------------------- MODULE AiInvocation ---------------------------
(***************************************************************************)
(* A synchronous AI call through the gateway (ai-chat.service.ts,          *)
(* ai-gateway-scheduler.service.ts, ai-gateway-usage-queue.service.ts):    *)
(* the candidate routes are tried in order; text is reserved for before    *)
(* the upstream is called, and what the call reports at its end -- a       *)
(* usage task in the in-memory queue -- settles the reservation.  Images   *)
(* over RunningHub reserve and settle by themselves, other images are      *)
(* charged by the queue.                                                   *)
(*                                                                         *)
(* Calls are processes, with one step between two awaits.  The points      *)
(* service is taken at its promise, PointsAccount; the slots of the        *)
(* upstream calls are those of AiThrottle.                                 *)
(***************************************************************************)
EXTENDS Sequences, FiniteSets, FiniteSetsExt, AiThrottle

CONSTANTS
    Call,            \* requests of users
    Owner,
    Route,           \* candidate routes of the model by priority: sources
    HubSource,       \* sources that are RunningHub
    InitialPoints,   \* balance of every wallet at the start
    Estimate,        \* preflight points: 0 makes no reservation
    Cost,            \* points of a provider's answer
    Id,              \* request ids that clients give themselves
    NoId,
    MaxFaults        \* bound on restarts, failing statements and lost tasks

Attempt == 1 .. Len(Route)
Key == Call \X Attempt               \* the reservation made at an attempt

KeyOwner == [k \in Key |-> Owner[k[1]]]

ASSUME OwnerAssumption == Owner \in [Call -> User]
ASSUME RouteAssumption == Route \in Seq(Source) /\ Len(Route) > 0
ASSUME CallAssumption == IsFiniteSet(Call)
ASSUME PointsAssumption ==
    InitialPoints \in Nat /\ Estimate \in [Call -> Nat] /\ Cost \in [Call -> Nat]
ASSUME BoundAssumption == MaxFaults \in Nat
ASSUME IdAssumption == NoId \notin Id

VARIABLES
    image,           \* calls for an image; the others are for text
    clientId,        \* request_id or previous_response_id in the payload
    call,            \* the requests in progress
    wallet, resv,    \* see PointsAccount
    taskOf,          \* external_task_id of each reservation
    usage,           \* tasks in the usage queue
    charged,         \* points consumed without a reservation
    answers,         \* history: attempts whose answer the provider completed
    lost,            \* history: source slots taken that nobody gives back
    forgotten,       \* history: reservations whose settlement failed or was lost
    faults

requests == <<image, clientId>>
account == <<wallet, resv>>
billing == <<taskOf, usage, charged>>
history == <<answers, lost, forgotten, faults>>
vars == <<requests, call, account, billing, throttle, history>>

Account == INSTANCE PointsAccount
             WITH Key <- Key, Owner <- KeyOwner, Amount <- {}, Actual <- {}

Label == {"preflight", "prepare", "release", "acquire", "upstream", "unwind", "body", "stream",
          "cancelled", "hub_reserve", "hub_attach", "hub_poll", "hub_settle", "hub_fail",
          "hub_release", "done", "failed"}
Ended == {"done", "failed"}

NoKey == 0                           \* no attempt's reservation
NoRef == <<>>
Own(k) == <<k>>                      \* a reference nobody else has
Ref == {NoRef} \cup {Own(k) : k \in Key} \cup Id

\* A usage task: what the call reported, and the reservation it took along.
Task == [call : Call, attempt : Attempt, success : BOOLEAN,
         held : Attempt \cup {NoKey}, ref : Ref, stage : {"attach", "settle", "charge"}]

TypeOK ==
    /\ ThrottleTypeOK
    /\ image \subseteq Call
    /\ clientId \in [Call -> Id \cup {NoId}]
    /\ call \in [Call -> [at : Label, attempt : Attempt, slot : BOOLEAN,
                          context : Attempt \cup {NoKey}, hub : Attempt \cup {NoKey}]]
    /\ Account!TypeOK
    /\ taskOf \in [Key -> Ref]
    /\ usage \subseteq Task
    /\ charged \in [Call -> Nat]
    /\ answers \in [Call -> SUBSET Attempt]
    /\ lost \in [Source -> Nat]
    /\ forgotten \subseteq Key
    /\ faults \in 0 .. MaxFaults

Init ==
    /\ ThrottleInit
    /\ image \in SUBSET Call
    /\ clientId \in [Call -> Id \cup {NoId}]
    /\ call = [c \in Call |-> [at |-> "preflight", attempt |-> 1, slot |-> FALSE,
                               context |-> NoKey, hub |-> NoKey]]
    /\ wallet = [u \in User |-> Account!Opened]
    /\ resv = [k \in Key |-> Account!NoReservation]
    /\ taskOf = [k \in Key |-> NoRef]
    /\ usage = {}
    /\ charged = [c \in Call |-> 0]
    /\ answers = [c \in Call |-> {}]
    /\ lost = [s \in Source |-> 0]
    /\ forgotten = {}
    /\ faults = 0

-----------------------------------------------------------------------------

At(c, label) == call[c].at = label

SourceOf(c) == Route[call[c].attempt]

UsesHub(c) == c \in image /\ SourceOf(c) \in HubSource

Goto(c, label) == call' = [call EXCEPT ![c].at = label]

\* invokeCandidates: an error that may be the source's leads to the next
\* route, which is invoked with the same context.
NextRoute(r, retry) ==
    IF retry /\ r.attempt < Len(Route)
    THEN [r EXCEPT !.at = "preflight", !.attempt = @ + 1, !.slot = FALSE, !.hub = NoKey]
    ELSE [r EXCEPT !.at = "failed", !.slot = FALSE, !.hub = NoKey]

Fail(c, retry) == call' = [call EXCEPT ![c] = NextRoute(@, retry)]

Finish(c) ==
    call' = [call EXCEPT ![c].at = "done", ![c].slot = FALSE, ![c].context = NoKey,
                         ![c].hub = NoKey]

\* The provider's answer is complete.
Answered(c) == answers' = [answers EXCEPT ![c] = @ \cup {call[c].attempt}]

-----------------------------------------------------------------------------
(* logUsageSafe                                                            *)

\* The request id is the provider's or the gateway's own, or -- for an
\* error, a stream or a binary answer -- what the client sent.
RefFor(c) == {Own(<<c, call[c].attempt>>)} \cup ({clientId[c]} \ {NoId})

\* The reservation goes from the call's context to the task.  A task that
\* settles nothing and charges nothing only records the usage and is left out.
Report(c, success, ref) ==
    IF call[c].context = NoKey /\ ~success THEN {}
    ELSE {[call |-> c, attempt |-> call[c].attempt, success |-> success,
           held |-> call[c].context, ref |-> ref,
           stage |-> IF call[c].context = NoKey THEN "charge" ELSE "attach"]}

LogUsage(c, success) == \E ref \in RefFor(c) : usage' = usage \cup Report(c, success, ref)

ReleaseReservation(k) ==
    IF resv[k].status = Account!Pending THEN Account!Settle(k, Account!Released, 0)
    ELSE UNCHANGED account

-----------------------------------------------------------------------------
(* invokeResolvedRoute: up to the forwarder                                *)

\* Mutant: the next route reserves again.
PreflightAgain(c) ==
    LET i == call[c].attempt IN
    /\ At(c, "preflight")
    /\ IF Estimate[c] = 0 THEN Goto(c, "prepare") /\ UNCHANGED account
       ELSE IF wallet[Owner[c]].balance < Estimate[c] THEN Fail(c, FALSE) /\ UNCHANGED account
       ELSE IF c \in image THEN Goto(c, "prepare") /\ UNCHANGED account
       ELSE /\ Account!Reserve(<<c, i>>, Estimate[c])
            /\ call' = [call EXCEPT ![c].at = "prepare", ![c].context = i]
    /\ UNCHANGED <<requests, billing, throttle, history>>

\* assertSufficientPointsBeforeInvoke.  A reservation of an earlier route is
\* used again; for images the balance is only looked at.
Preflight(c) ==
    LET i == call[c].attempt IN
    /\ At(c, "preflight")
    /\ IF Estimate[c] = 0 \/ (c \notin image /\ call[c].context # NoKey)
       THEN Goto(c, "prepare") /\ UNCHANGED account
       ELSE IF wallet[Owner[c]].balance < Estimate[c] THEN Fail(c, FALSE) /\ UNCHANGED account
       ELSE IF c \in image THEN Goto(c, "prepare") /\ UNCHANGED account
       ELSE /\ Account!Reserve(<<c, i>>, Estimate[c])
            /\ call' = [call EXCEPT ![c].at = "prepare", ![c].context = i]
    /\ UNCHANGED <<requests, billing, throttle, history>>

\* Inputs are uploaded and the forwarder is chosen; what is thrown here is
\* caught.  RunningHub has no text.
Prepare(c) ==
    /\ At(c, "prepare")
    /\ \/ Goto(c, "release")
       \/ UsesHub(c) /\ Goto(c, "hub_reserve")
       \/ SourceOf(c) \notin HubSource /\ Goto(c, "acquire")
    /\ UNCHANGED <<requests, account, billing, throttle, history>>

\* releasePendingSyncPointsReservation, and the error is thrown on.
ReleasePending(c) ==
    /\ At(c, "release")
    /\ IF call[c].context = NoKey THEN UNCHANGED account
       ELSE ReleaseReservation(<<c, call[c].context>>)
    /\ \E retry \in BOOLEAN :
         call' = [call EXCEPT ![c] = NextRoute([@ EXCEPT !.context = NoKey], retry)]
    /\ UNCHANGED <<requests, billing, throttle, history>>

-----------------------------------------------------------------------------
(* forwardToUpstream and its like.  Their errors pass by the catch block   *)
(* of invokeResolvedRoute, which returns their promises unawaited.         *)

GiveBack(c) ==
    IF call[c].slot THEN Release(SourceOf(c), Owner[c]) ELSE UNCHANGED active

\* A full or a cooling source is an error that leads to the next route.
Acquire(c) ==
    LET s == SourceOf(c)
        u == Owner[c]
    IN  /\ At(c, "acquire")
        /\ \/ /\ Granted(s, u) /\ Take(s, u)
              /\ call' = [call EXCEPT ![c].at = "upstream", ![c].slot = TRUE]
              /\ UNCHANGED lost
           \/ /\ Refuse(s, u)
              /\ lost' = [lost EXCEPT ![s] = @ + active'.source[s] - active.source[s]]
              /\ IF UsesHub(c) THEN Goto(c, "hub_fail") ELSE Fail(c, TRUE)
        /\ UNCHANGED <<requests, account, billing, redis, health, answers, forgotten, faults>>

\* An answer that is an error is reported, a connection that fails or times
\* out is not.  Some failures count against the source.
UpstreamFails(c) ==
    /\ At(c, "upstream")
    /\ RecordFailure(SourceOf(c)) \/ UNCHANGED health
    /\ \/ Goto(c, "unwind") /\ UNCHANGED usage
       \/ /\ ~UsesHub(c)
          /\ LogUsage(c, FALSE)
          /\ call' = [call EXCEPT ![c].at = "unwind", ![c].context = NoKey]
    /\ UNCHANGED <<requests, account, taskOf, charged, redis, active, history>>

Unwind(c) ==
    /\ At(c, "unwind")
    /\ GiveBack(c)
    /\ IF UsesHub(c) THEN call' = [call EXCEPT ![c].at = "hub_fail", ![c].slot = FALSE]
       ELSE \E retry \in BOOLEAN : Fail(c, retry)
    /\ UNCHANGED <<requests, account, billing, redis, health, history>>

\* The headers of a good answer are there.  RunningHub's first answer is
\* the id of a task.
UpstreamAnswers(c) ==
    /\ At(c, "upstream")
    /\ RecordSuccess(SourceOf(c))
    /\ \/ ~UsesHub(c) /\ Goto(c, "body") /\ UNCHANGED active
       \/ c \notin image /\ Goto(c, "stream") /\ UNCHANGED active
       \/ /\ UsesHub(c)
          /\ GiveBack(c)
          /\ call' = [call EXCEPT ![c].at = "hub_attach", ![c].slot = FALSE]
    /\ UNCHANGED <<requests, account, billing, redis, history>>

\* A body that cannot be read or parsed is an error without a report.
Body(c) ==
    /\ At(c, "body")
    /\ GiveBack(c)
    /\ \/ LogUsage(c, TRUE) /\ Finish(c) /\ Answered(c)
       \/ (\E retry \in BOOLEAN : Fail(c, retry)) /\ UNCHANGED <<usage, answers>>
    /\ UNCHANGED <<requests, account, taskOf, charged, redis, health, lost, forgotten, faults>>

\* wrapSseStreamWithUsageLogging: the response was returned, there is no
\* next route any more.
Stream(c) ==
    /\ At(c, "stream")
    /\ GiveBack(c)
    /\ \/ LogUsage(c, TRUE) /\ Finish(c) /\ Answered(c)
       \/ LogUsage(c, FALSE) /\ Finish(c) /\ UNCHANGED answers
       \/ /\ call' = [call EXCEPT ![c].at = "cancelled", ![c].slot = FALSE]
          /\ UNCHANGED <<usage, answers>>
    /\ UNCHANGED <<requests, account, taskOf, charged, redis, health, lost, forgotten, faults>>

\* Mutant: the end of the reading gives the slot back once more.
CancelledTwice(c) ==
    /\ At(c, "cancelled")
    /\ Finish(c)
    /\ Release(SourceOf(c), Owner[c])
    /\ \/ LogUsage(c, FALSE) /\ UNCHANGED answers
       \/ LogUsage(c, TRUE) /\ Answered(c)
    /\ UNCHANGED <<requests, account, taskOf, charged, redis, health, lost, forgotten, faults>>

\* The client went away.  The reading goes on up to the next chunk, which
\* has nowhere to go, or up to the end of the stream.
Cancelled(c) ==
    /\ At(c, "cancelled")
    /\ Finish(c)
    /\ \/ LogUsage(c, FALSE) /\ UNCHANGED answers
       \/ LogUsage(c, TRUE) /\ Answered(c)
    /\ UNCHANGED <<requests, account, taskOf, charged, throttle, lost, forgotten, faults>>

-----------------------------------------------------------------------------
(* forwardRunningHubImage                                                  *)

HubReserve(c) ==
    LET i == call[c].attempt IN
    /\ At(c, "hub_reserve")
    /\ IF Estimate[c] = 0 THEN Goto(c, "acquire") /\ UNCHANGED account
       ELSE IF wallet[Owner[c]].balance < Estimate[c] THEN Fail(c, FALSE) /\ UNCHANGED account
       ELSE /\ Account!Reserve(<<c, i>>, Estimate[c])
            /\ call' = [call EXCEPT ![c].at = "acquire", ![c].hub = i]
    /\ UNCHANGED <<requests, billing, throttle, history>>

HubAttach(c) ==
    LET k == <<c, call[c].attempt>> IN
    /\ At(c, "hub_attach")
    /\ taskOf' = IF call[c].hub = NoKey THEN taskOf ELSE [taskOf EXCEPT ![k] = Own(k)]
    /\ Goto(c, "hub_poll")
    /\ UNCHANGED <<requests, account, usage, charged, throttle, history>>

\* Mutant: the usage of a reserved image is billable, too.
HubPollBillable(c) ==
    /\ At(c, "hub_poll")
    /\ \/ Goto(c, "hub_fail") /\ UNCHANGED <<usage, answers>>
       \/ /\ Answered(c)
          /\ LogUsage(c, TRUE)
          /\ IF call[c].hub = NoKey THEN Finish(c) ELSE Goto(c, "hub_settle")
    /\ UNCHANGED <<requests, account, taskOf, charged, throttle, lost, forgotten, faults>>

\* The usage of a reserved image is not billable.
HubPoll(c) ==
    /\ At(c, "hub_poll")
    /\ \/ Goto(c, "hub_fail") /\ UNCHANGED <<usage, answers>>
       \/ /\ Answered(c)
          /\ IF call[c].hub = NoKey THEN LogUsage(c, TRUE) /\ Finish(c)
             ELSE Goto(c, "hub_settle") /\ UNCHANGED usage
    /\ UNCHANGED <<requests, account, taskOf, charged, throttle, lost, forgotten, faults>>

HubSettle(c) ==
    LET k == <<c, call[c].hub>> IN
    /\ At(c, "hub_settle")
    /\ Account!Settle(k, Account!Captured, Cost[c])
    /\ Finish(c)
    /\ UNCHANGED <<requests, billing, throttle, history>>

\* The catch block: settled as failed by the task id, or released by key.
HubFail(c) ==
    /\ At(c, "hub_fail")
    /\ IF call[c].hub = NoKey THEN UNCHANGED account
       ELSE ReleaseReservation(<<c, call[c].hub>>)
    /\ \E retry \in BOOLEAN : Fail(c, retry)
    /\ UNCHANGED <<requests, billing, throttle, history>>

-----------------------------------------------------------------------------
(* The usage queue                                                         *)

Without(t) == usage' = usage \ {t}

\* attachReservationTask, under the reference of the usage, which is unique
\* per user: where another reservation has it, the settlement fails.
TaskAttach(t) ==
    LET k == <<t.call, t.held>> IN
    /\ t.stage = "attach"
    /\ IF \E other \in Key \ {k} : KeyOwner[other] = KeyOwner[k] /\ taskOf[other] = t.ref
       THEN /\ Without(t)
            /\ forgotten' = forgotten \cup {k}
            /\ UNCHANGED taskOf
       ELSE /\ taskOf' = [taskOf EXCEPT ![k] = t.ref]
            /\ usage' = (usage \ {t}) \cup {[t EXCEPT !.stage = "settle"]}
            /\ UNCHANGED forgotten
    /\ UNCHANGED <<requests, call, account, charged, throttle, answers, lost, faults>>

\* Mutant: nothing is settled for a failure.
TaskSettleAnswered(t) ==
    LET k == <<t.call, t.held>> IN
    /\ t.stage = "settle"
    /\ IF resv[k].status # Account!Pending \/ ~t.success THEN UNCHANGED account
       ELSE Account!Settle(k, Account!Captured, Cost[t.call])
    /\ Without(t)
    /\ UNCHANGED <<requests, call, taskOf, charged, throttle, history>>

\* settleReservation for the cost, or for nothing after a failure.
TaskSettle(t) ==
    LET k == <<t.call, t.held>> IN
    /\ t.stage = "settle"
    /\ IF resv[k].status # Account!Pending THEN UNCHANGED account
       ELSE IF t.success THEN Account!Settle(k, Account!Captured, Cost[t.call])
       ELSE Account!Settle(k, Account!Released, 0)
    /\ Without(t)
    /\ UNCHANGED <<requests, call, taskOf, charged, throttle, history>>

\* chargeAiPointsForUsage: nothing is charged when the balance is too small.
TaskCharge(t) ==
    LET c == t.call IN
    /\ t.stage = "charge"
    /\ IF wallet[Owner[c]].balance >= Cost[c]
       THEN /\ Account!Consume(Owner[c], Cost[c])
            /\ charged' = [charged EXCEPT ![c] = @ + Cost[c]]
       ELSE UNCHANGED <<account, charged>>
    /\ Without(t)
    /\ UNCHANGED <<requests, call, taskOf, throttle, history>>

-----------------------------------------------------------------------------
(* Time, and what goes wrong                                               *)

Cool(s) ==
    /\ CooledDown(s)
    /\ UNCHANGED <<requests, call, account, billing, history>>

RedisForgets(s) ==
    /\ Expire(s)
    /\ lost' = [lost EXCEPT ![s] = 0]
    /\ UNCHANGED <<requests, call, account, billing, answers, forgotten, faults>>

\* A database statement of the request throws.  A settlement that throws may
\* be committed all the same, or only its price was not written; a release
\* that throws is only noted.
Throw(c) ==
    /\ faults < MaxFaults /\ faults' = faults + 1
    /\ \E retry \in BOOLEAN :
         \/ /\ At(c, "preflight") /\ Estimate[c] > 0
            /\ c \in image \/ call[c].context = NoKey
            /\ Goto(c, "release")
            /\ UNCHANGED <<account, forgotten>>
         \/ /\ At(c, "release")
            /\ forgotten' = forgotten \cup ({<<c, call[c].context>>} \cap Key)
            /\ call' = [call EXCEPT ![c] = NextRoute([@ EXCEPT !.context = NoKey], retry)]
            /\ UNCHANGED account
         \/ At(c, "hub_reserve") /\ Fail(c, retry) /\ UNCHANGED <<account, forgotten>>
         \/ At(c, "hub_attach") /\ Goto(c, "hub_fail") /\ UNCHANGED <<account, forgotten>>
         \/ /\ At(c, "hub_settle")
            /\ Account!Settle(<<c, call[c].hub>>, Account!Captured, Cost[c]) \/ UNCHANGED account
            /\ Goto(c, "hub_fail")
            /\ UNCHANGED forgotten
         \/ /\ At(c, "hub_fail")
            /\ forgotten' = forgotten \cup ({<<c, call[c].hub>>} \cap Key)
            /\ Fail(c, retry)
            /\ UNCHANGED account
    /\ UNCHANGED <<requests, billing, throttle, answers, lost>>

\* A task is dropped by a full queue, or a statement of it fails.
LoseTask(t) ==
    /\ faults < MaxFaults /\ faults' = faults + 1
    /\ Without(t)
    /\ forgotten' = forgotten \cup ({<<t.call, t.held>>} \cap Key)
    /\ UNCHANGED <<requests, call, account, taskOf, charged, throttle, answers, lost>>

Holding(s) == {c \in Call : call[c].slot /\ SourceOf(c) = s}

Begun(c) == call[c].at \notin Ended /\ ~(At(c, "preflight") /\ call[c].attempt = 1)

\* The gateway process ends, and another one starts.
Crash ==
    /\ faults < MaxFaults /\ faults' = faults + 1
    /\ Restart
    /\ lost' = [s \in Source |-> IF redis THEN lost[s] + Cardinality(Holding(s)) ELSE 0]
    /\ call' = [c \in Call |-> IF Begun(c)
                  THEN [call[c] EXCEPT !.at = "failed", !.slot = FALSE, !.hub = NoKey] ELSE call[c]]
    /\ usage' = {}
    /\ forgotten' = forgotten \cup {k \in Key : resv[k].status = Account!Pending}
    /\ UNCHANGED <<requests, account, taskOf, charged, answers>>

-----------------------------------------------------------------------------

Step(c) ==
    \/ Preflight(c) \/ Prepare(c) \/ ReleasePending(c) \/ Acquire(c)
    \/ UpstreamFails(c) \/ Unwind(c) \/ UpstreamAnswers(c) \/ Body(c) \/ Stream(c) \/ Cancelled(c)
    \/ HubReserve(c) \/ HubAttach(c) \/ HubPoll(c) \/ HubSettle(c) \/ HubFail(c)

Work(t) == TaskAttach(t) \/ TaskSettle(t) \/ TaskCharge(t)

Next ==
    \/ \E c \in Call : Step(c) \/ Throw(c)
    \/ \E t \in usage : Work(t) \/ LoseTask(t)
    \/ \E s \in Source : Cool(s) \/ RedisForgets(s)
    \/ Crash

Spec == Init /\ [][Next]_vars

\* Statements return, providers answer or are given up (a stream is not: that
\* it ends is the provider's), and the queue's workers get to every task.
Fairness ==
    /\ \A c \in Call : WF_vars(Step(c))
    /\ \A k \in Key : WF_vars(\E t \in usage : t.call = k[1] /\ t.attempt = k[2] /\ Work(t))

FairSpec == Spec /\ Fairness

-----------------------------------------------------------------------------
(* Properties                                                              *)

\* A counter is what is running and what was lost to refused calls, so that
\* no interleaving of two calls, and no cancelled stream, gives back a slot
\* twice and lets more calls through than the limit.  Redis may have
\* forgotten some; it never counts more.  A limit of 0 counts nothing.
SlotsAreCounted ==
    \A s \in Source : SourceLimit > 0 =>
        /\ active.source[s] <= Cardinality(Holding(s)) + lost[s]
        /\ ~redis => active.source[s] = Cardinality(Holding(s)) + lost[s]

\* Frozen points have somebody who will settle them: the call, whose context
\* or image has them, or a task of the queue.
PendingIsHeld ==
    \A k \in Key \ forgotten : resv[k].status = Account!Pending =>
        \/ call[k[1]].context = k[2]
        \/ call[k[1]].hub = k[2]
        \/ \E t \in usage : t.call = k[1] /\ t.held = k[2]

\* However many routes a call tries, and whatever is reported twice, each
\* answer of a provider is paid for once and nothing else is.
PaidIsAnswered ==
    \A c \in Call :
        charged[c] + SumFunctionOnSet([i \in Attempt |-> resv[<<c, i>>].settled], Attempt)
            <= Cost[c] * Cardinality(answers[c])

\* A call that failed on its last route by something else than an answer of
\* the provider ends with its reservation.
EndsUnsettled(k) == At(k[1], "failed") /\ call[k[1]].context = k[2]

\* Every other reservation comes to its end.
ReservationsEnd ==
    \A k \in Key : resv[k].status = Account!Pending
                     ~> (resv[k].status # Account!Pending \/ k \in forgotten \/ EndsUnsettled(k))

\* docs/AI_GATEWAY_BILLING_ARCHITECTURE.md: failed requests must release
\* their reservation.
FailedIsReleased ==
    \A k \in Key : (At(k[1], "failed") /\ resv[k].status = Account!Pending)
                     ~> resv[k].status # Account!Pending
=============================================================================
