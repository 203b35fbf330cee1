------------------------------ MODULE AiVideo ------------------------------
(***************************************************************************)
(* Asynchronous video generation over DashScope (ai-chat.service.ts):      *)
(* invokeVideoAsync reserves points and queues a row; whoever invokes or   *)
(* queries next pumps the queue, submitting queued rows to the provider up *)
(* to a concurrency limit; a query looks the task up at the provider and   *)
(* settles the reservation when it has ended.                              *)
(*                                                                         *)
(* Requests are processes, with one step per statement or provider call.   *)
(* The points service is taken at its promise, PointsAccount.  Usage       *)
(* records and charges run in the in-memory queue of their own.            *)
(***************************************************************************)
EXTENDS Integers, Sequences, FiniteSets

CONSTANTS
    Video,           \* requests for a video; the reservation key of each
    User, Owner,     \* who asked for it
    InitialPoints,   \* balance of every wallet at the start
    Estimate,        \* preflight points per video: 0 makes no reservation
    Cost,            \* points of the finished video
    Limit,           \* video_queue.concurrency_limit
    Poller,          \* concurrent queries of one video
    NoVideo,
    UsageQueueSize,  \* usage tasks kept per video; more are dropped
    MaxFaults        \* bound on failing statements and dying processes

ASSUME OwnerAssumption == Owner \in [Video -> User]
ASSUME VideoAssumption == IsFiniteSet(Video)
ASSUME PointsAssumption ==
    InitialPoints \in Nat /\ Estimate \in [Video -> Nat] /\ Cost \in [Video -> Nat \ {0}]
ASSUME LimitAssumption == Limit \in Nat \ {0} /\ UsageQueueSize \in Nat /\ MaxFaults \in Nat
ASSUME NamesAssumption == NoVideo \notin Video /\ "invoke" \notin Poller

VARIABLES
    row,             \* ai_async_video_tasks: status, whether the external id
                     \* is there, and the status in response_json
    queue,           \* the QUEUED rows by queued_at
    provider,        \* the task at DashScope
    wallet, resv,    \* see PointsAccount
    attached,        \* reservations that have their external_task_id
    proc,            \* the requests in progress
    usage,           \* tasks in the usage queue, counted by stage
    logged,          \* points_cost of the usage rows under the video's reference
    charged,         \* points consumed under the video's reference
    abandoned,       \* history: videos whose cleanup failed or whose process died
    revived,         \* history: ended rows that became active again
    told,            \* history: the last answer to the video's client
    faults

account == <<wallet, resv>>
billing == <<usage, logged, charged>>
history == <<abandoned, revived, told, faults>>
vars == <<row, queue, provider, account, attached, proc, billing, history>>

Account == INSTANCE PointsAccount
             WITH Key <- Video, Amount <- {}, Actual <- {}

Proc == Video \X (Poller \cup {"invoke"})
Invoke(v) == <<v, "invoke">>
IsInvoke(p) == p[2] = "invoke"

ActiveStatus == {"SUBMITTING", "RUNNING"}    \* RUNNING stands for PENDING, too
EndStatus == {"SUCCEEDED", "FAILED"}

Pumping == {"submit", "mark", "attach", "pump_fail", "pump_release"}
Label == Pumping \cup {"reserve", "create", "pump", "respond", "release_own", "done", "failed",
          "idle", "find", "fetch", "reservation", "usage", "settle", "price", "finish", "refresh"}

Stage == {"record_free", "record_charge", "charge", "price"}
NoCost == -1                                 \* points_cost is NULL

\* "unmatched" is an end, too, told by a query that had found no reservation.
Answer == {"going", "end", "unmatched"}

Row == [status : {"absent", "QUEUED"} \cup ActiveStatus \cup EndStatus,
        ext : BOOLEAN, resp : {"none", "RUNNING"} \cup EndStatus]

Request == [at : Label, mine : Video \cup {NoVideo}, starts : 0 .. Limit,
            data : {"none", "RUNNING"} \cup EndStatus,
            seen : Account!Terminal \cup {Account!Pending, Account!Unmade}]

TypeOK ==
    /\ row \in [Video -> Row]
    /\ queue \in Seq(Video)
    /\ provider \in [Video -> {"none", "RUNNING"} \cup EndStatus]
    /\ Account!TypeOK
    /\ attached \subseteq Video
    /\ proc \in [Proc -> Request]
    /\ \A p \in Proc : proc[p].at \in Pumping <=> proc[p].mine # NoVideo
    /\ usage \in [Video -> [Stage -> Nat]]
    /\ logged \in [Video -> SUBSET (Nat \cup {NoCost})]
    /\ charged \in [Video -> Nat]
    /\ abandoned \subseteq Video /\ revived \subseteq Video
    /\ told \in [Video -> Answer]
    /\ faults \in 0 .. MaxFaults

Quiet(label) == [at |-> label, mine |-> NoVideo, starts |-> 0, data |-> "none",
                 seen |-> Account!Unmade]

Init ==
    /\ row = [v \in Video |-> [status |-> "absent", ext |-> FALSE, resp |-> "none"]]
    /\ queue = <<>>
    /\ provider = [v \in Video |-> "none"]
    /\ wallet = [u \in User |-> Account!Opened]
    /\ resv = [v \in Video |-> Account!NoReservation]
    /\ attached = {}
    /\ proc = [p \in Proc |-> Quiet(IF IsInvoke(p) THEN "reserve" ELSE "idle")]
    /\ usage = [v \in Video |-> [s \in Stage |-> 0]]
    /\ logged = [v \in Video |-> {}]
    /\ charged = [v \in Video |-> 0]
    /\ abandoned = {} /\ revived = {} /\ faults = 0
    /\ told = [v \in Video |-> "going"]

-----------------------------------------------------------------------------

At(p, label) == proc[p].at = label

Goto(p, label) == proc' = [proc EXCEPT ![p].at = label]

End(p) == IF IsInvoke(p) THEN "done" ELSE "idle"

Active == {v \in Video : row[v].status \in ActiveStatus}

HasKey(v) == Estimate[v] > 0                  \* the row has a reservation_key

\* An answer with status s reaches the client of video v.
Tell(v, s, end) ==
    told' = [told EXCEPT ![v] = IF s \in EndStatus THEN end ELSE "going"]

\* releaseReservationByKey: nothing happens to a settled reservation.
ReleaseByKey(v) ==
    IF resv[v].status = Account!Pending THEN Account!Settle(v, Account!Released, 0)
    ELSE UNCHANGED account

-----------------------------------------------------------------------------
(* invokeVideoAsync                                                        *)

Reserve(v) ==
    LET p == Invoke(v) IN
    /\ At(p, "reserve")
    /\ IF ~HasKey(v) THEN Goto(p, "create") /\ UNCHANGED account
       ELSE IF wallet[Owner[v]].balance >= Estimate[v]
            THEN Goto(p, "create") /\ Account!Reserve(v, Estimate[v])
            ELSE Goto(p, "failed") /\ UNCHANGED account
    /\ UNCHANGED <<row, queue, provider, attached, billing, history>>

CreateRow(v) ==
    LET p == Invoke(v) IN
    /\ At(p, "create")
    /\ row' = [row EXCEPT ![v].status = "QUEUED"]
    /\ queue' = Append(queue, v)
    /\ Goto(p, "pump")
    /\ UNCHANGED <<provider, account, attached, billing, history>>

\* The answer with the task id: only now can the client query the video.
Respond(v) ==
    /\ At(Invoke(v), "respond")
    /\ Goto(Invoke(v), "done")
    /\ Tell(v, row[v].status, "end")
    /\ UNCHANGED <<row, queue, provider, account, attached, billing, abandoned, revived, faults>>

\* The catch block: the row, if there is one, is left as it is.
ReleaseOwn(v) ==
    /\ At(Invoke(v), "release_own")
    /\ Goto(Invoke(v), "failed")
    /\ ReleaseByKey(v)
    /\ UNCHANGED <<row, queue, provider, attached, billing, history>>

-----------------------------------------------------------------------------
(* pumpDashscopeVideoQueue, run by every invocation and every query        *)

NextStart(p) ==
    proc' = [proc EXCEPT ![p].at = "pump", ![p].mine = NoVideo, ![p].starts = @ + 1]

\* The slot count leaves out what is being submitted.
PumpClaimCountsRunning(p) ==
    /\ At(p, "pump")
    /\ IF \/ proc[p].starts = Limit
          \/ Cardinality({v \in Video : row[v].status = "RUNNING"}) >= Limit
          \/ queue = <<>>
       THEN /\ proc' = [proc EXCEPT ![p].at = IF IsInvoke(p) THEN "respond" ELSE "find",
                                    ![p].starts = 0]
            /\ UNCHANGED <<row, queue>>
       ELSE /\ row' = [row EXCEPT ![Head(queue)].status = "SUBMITTING"]
            /\ queue' = Tail(queue)
            /\ proc' = [proc EXCEPT ![p].at = "submit", ![p].mine = Head(queue)]
    /\ UNCHANGED <<provider, account, attached, billing, history>>

\* Under the advisory lock of the source and model: count, pick, update.
PumpClaim(p) ==
    /\ At(p, "pump")
    /\ IF proc[p].starts = Limit \/ Cardinality(Active) >= Limit \/ queue = <<>>
       THEN /\ proc' = [proc EXCEPT ![p].at = IF IsInvoke(p) THEN "respond" ELSE "find",
                                    ![p].starts = 0]
            /\ UNCHANGED <<row, queue>>
       ELSE /\ row' = [row EXCEPT ![Head(queue)].status = "SUBMITTING"]
            /\ queue' = Tail(queue)
            /\ proc' = [proc EXCEPT ![p].at = "submit", ![p].mine = Head(queue)]
    /\ UNCHANGED <<provider, account, attached, billing, history>>

\* The provider creates a task or refuses to.
PumpSubmit(p) ==
    /\ At(p, "submit")
    /\ \/ /\ provider' = [provider EXCEPT ![proc[p].mine] = "RUNNING"]
          /\ Goto(p, "mark")
       \/ /\ Goto(p, "pump_fail")
          /\ UNCHANGED provider
    /\ UNCHANGED <<row, queue, account, attached, billing, history>>

\* A submission that keeps the provider's id to itself.
PumpMarkUnattached(p) ==
    LET v == proc[p].mine IN
    /\ At(p, "mark")
    /\ row' = [row EXCEPT ![v] = [status |-> "RUNNING", ext |-> TRUE, resp |-> "RUNNING"]]
    /\ NextStart(p)
    /\ UNCHANGED <<queue, provider, account, attached, billing, history>>

PumpMark(p) ==
    LET v == proc[p].mine IN
    /\ At(p, "mark")
    /\ row' = [row EXCEPT ![v] = [status |-> "RUNNING", ext |-> TRUE, resp |-> "RUNNING"]]
    /\ IF HasKey(v) THEN Goto(p, "attach") ELSE NextStart(p)
    /\ UNCHANGED <<queue, provider, account, attached, billing, history>>

PumpAttach(p) ==
    /\ At(p, "attach")
    /\ attached' = attached \cup {proc[p].mine}
    /\ NextStart(p)
    /\ UNCHANGED <<row, queue, provider, account, billing, history>>

\* The catch block, reached from a failure of the attachment as well.
PumpFail(p) ==
    LET v == proc[p].mine IN
    /\ At(p, "pump_fail")
    /\ row' = [row EXCEPT ![v].status = "FAILED"]
    /\ IF HasKey(v) THEN Goto(p, "pump_release") ELSE NextStart(p)
    /\ UNCHANGED <<queue, provider, account, attached, billing, history>>

PumpRelease(p) ==
    /\ At(p, "pump_release")
    /\ ReleaseByKey(proc[p].mine)
    /\ NextStart(p)
    /\ UNCHANGED <<row, queue, provider, attached, billing, history>>

-----------------------------------------------------------------------------
(* queryVideoAsyncTask: the pump, and then the video's own row             *)

Query(p) ==
    /\ ~IsInvoke(p) /\ At(p, "idle")
    /\ At(Invoke(p[1]), "done")
    /\ Goto(p, "pump")
    /\ UNCHANGED <<row, queue, provider, account, attached, billing, history>>

\* Without an external id the queue position is all there is to say; an
\* ended row with a response is not looked up again.
Find(p) ==
    LET r == row[p[1]] IN
    /\ At(p, "find")
    /\ IF ~r.ext THEN Goto(p, "idle") /\ Tell(p[1], r.status, "end")
       ELSE /\ IF r.status \in EndStatus /\ r.resp # "none"
               THEN proc' = [proc EXCEPT ![p].at = "reservation", ![p].data = r.resp]
               ELSE Goto(p, "fetch")
            /\ UNCHANGED told
    /\ UNCHANGED <<row, queue, provider, account, attached, billing, abandoned, revived, faults>>

Fetch(p) ==
    /\ At(p, "fetch")
    /\ proc' = [proc EXCEPT ![p].at = "reservation", ![p].data = provider[p[1]]]
    /\ UNCHANGED <<row, queue, provider, account, attached, billing, history>>

\* findReservationByTask
ReadReservation(p) ==
    LET v == p[1] IN
    /\ At(p, "reservation")
    /\ proc' = [proc EXCEPT ![p].at = "usage",
                            ![p].seen = IF v \in attached THEN resv[v].status ELSE Account!Unmade]
    /\ UNCHANGED <<row, queue, provider, account, attached, billing, history>>

\* The usage queue's overflow policy "drop" (the default runs the task at
\* once instead).
Enqueue(v, stage) ==
    usage' = IF usage[v]["record_free"] + usage[v]["record_charge"] + usage[v]["charge"]
                  + usage[v]["price"] < UsageQueueSize
             THEN [usage EXCEPT ![v][stage] = @ + 1]
             ELSE usage

\* A failed task is only noted.
ReadUsageFailureNoted(p) ==
    LET v == p[1]
        recorded == logged[v] # {}
        seen == proc[p].seen
    IN  /\ At(p, "usage")
        /\ IF proc[p].data = "SUCCEEDED"
           THEN /\ IF recorded THEN UNCHANGED usage
                   ELSE Enqueue(v, IF seen = Account!Unmade THEN "record_charge" ELSE "record_free")
                /\ Goto(p, IF seen = Account!Pending THEN "settle"
                           ELSE IF recorded /\ seen = Account!Captured THEN "price" ELSE "finish")
           ELSE Goto(p, "refresh") /\ UNCHANGED usage
        /\ UNCHANGED <<row, queue, provider, account, attached, logged, charged, history>>

\* Any end of the task is taken for a success.
ReadUsageAnyEnd(p) ==
    LET v == p[1]
        recorded == logged[v] # {}
        seen == proc[p].seen
    IN  /\ At(p, "usage")
        /\ IF proc[p].data \in EndStatus
           THEN /\ IF recorded THEN UNCHANGED usage
                   ELSE Enqueue(v, IF seen = Account!Unmade THEN "record_charge" ELSE "record_free")
                /\ Goto(p, IF seen = Account!Pending THEN "settle"
                           ELSE IF recorded /\ seen = Account!Captured THEN "price" ELSE "finish")
           ELSE Goto(p, "refresh") /\ UNCHANGED usage
        /\ UNCHANGED <<row, queue, provider, account, attached, logged, charged, history>>

\* The points of a reservation settled before are not written to the usage
\* rows of a later query.
ReadUsageNoRepair(p) ==
    LET v == p[1]
        seen == proc[p].seen
    IN  /\ At(p, "usage")
        /\ IF proc[p].data = "SUCCEEDED"
           THEN /\ IF logged[v] # {} THEN UNCHANGED usage
                   ELSE Enqueue(v, IF seen = Account!Unmade THEN "record_charge" ELSE "record_free")
                /\ Goto(p, IF seen = Account!Pending THEN "settle" ELSE "finish")
           ELSE /\ Goto(p, IF proc[p].data = "FAILED" /\ seen = Account!Pending
                           THEN "settle" ELSE "refresh")
                /\ UNCHANGED usage
        /\ UNCHANGED <<row, queue, provider, account, attached, logged, charged, history>>

\* hasUsageReference, and where the end of the task leads: a success is
\* recorded once, and charged there when no reservation was found; a
\* pending reservation is settled; one captured before has its points
\* written to the usage rows.  A failure without one just refreshes the row.
ReadUsage(p) ==
    LET v == p[1]
        recorded == logged[v] # {}
        seen == proc[p].seen
    IN  /\ At(p, "usage")
        /\ IF proc[p].data = "SUCCEEDED"
           THEN /\ IF recorded THEN UNCHANGED usage
                   ELSE Enqueue(v, IF seen = Account!Unmade THEN "record_charge" ELSE "record_free")
                /\ Goto(p, IF seen = Account!Pending THEN "settle"
                           ELSE IF recorded /\ seen = Account!Captured THEN "price" ELSE "finish")
           ELSE /\ Goto(p, IF proc[p].data = "FAILED" /\ seen = Account!Pending
                           THEN "settle" ELSE "refresh")
                /\ UNCHANGED usage
        /\ UNCHANGED <<row, queue, provider, account, attached, logged, charged, history>>

\* settleReservation, a no-op on a reservation settled since it was read.
Settle(p) ==
    LET v == p[1]
        success == proc[p].data = "SUCCEEDED"
    IN  /\ At(p, "settle")
        /\ IF resv[v].status = Account!Pending
           THEN Account!Settle(v, IF success THEN Account!Captured ELSE Account!Released,
                               IF success THEN Cost[v] ELSE 0)
           ELSE UNCHANGED account
        /\ Goto(p, IF success THEN "price" ELSE "finish")
        /\ UNCHANGED <<row, queue, provider, attached, billing, history>>

\* updateUsagePointsSettlement: every usage row under the reference.
PriceLogged(v) ==
    logged' = [logged EXCEPT ![v] = {Cost[v] : cost \in @}]

Price(p) ==
    /\ At(p, "price")
    /\ PriceLogged(p[1])
    /\ Goto(p, "finish")
    /\ UNCHANGED <<row, queue, provider, account, attached, usage, charged, history>>

\* The row, and the answer.
Write(p) ==
    /\ row' = [row EXCEPT ![p[1]].status = proc[p].data, ![p[1]].resp = proc[p].data]
    /\ proc' = [proc EXCEPT ![p] = Quiet("idle")]
    /\ Tell(p[1], proc[p].data, IF proc[p].seen = Account!Unmade THEN "unmatched" ELSE "end")

Finish(p) ==
    /\ At(p, "finish")
    /\ Write(p)
    /\ UNCHANGED <<queue, provider, account, attached, billing, abandoned, revived, faults>>

\* refreshDashscopeAsyncVideoTaskStatus writes what the query saw over
\* whatever the row has become.
Refresh(p) ==
    /\ At(p, "refresh")
    /\ Write(p)
    /\ revived' = IF row[p[1]].status \in EndStatus /\ proc[p].data \in ActiveStatus
                  THEN revived \cup {p[1]} ELSE revived
    /\ UNCHANGED <<queue, provider, account, attached, billing, abandoned, faults>>

-----------------------------------------------------------------------------
(* logUsageSafe, in the usage queue                                        *)

Move(v, from, to) ==
    usage' = [usage EXCEPT ![v][from] = @ - 1, ![v][to] = @ + 1]

Done(v, stage) == usage' = [usage EXCEPT ![v][stage] = @ - 1]

\* recordUsage; the reference is not unique.  A charge follows even when
\* the insert failed (see UsageFault).
RecordUsage(v) ==
    /\ \/ usage[v]["record_free"] > 0 /\ Done(v, "record_free")
       \/ usage[v]["record_charge"] > 0 /\ Move(v, "record_charge", "charge")
    /\ logged' = [logged EXCEPT ![v] = @ \cup {NoCost}]
    /\ UNCHANGED <<row, queue, provider, account, attached, proc, charged, history>>

\* chargeAiPointsForUsage: consumePoints, unless the balance is too small.
ChargeUsage(v) ==
    /\ usage[v]["charge"] > 0
    /\ IF wallet[Owner[v]].balance >= Cost[v]
       THEN /\ Account!Consume(Owner[v], Cost[v])
            /\ charged' = [charged EXCEPT ![v] = @ + Cost[v]]
            /\ Move(v, "charge", "price")
       ELSE Done(v, "charge") /\ UNCHANGED <<account, charged>>
    /\ UNCHANGED <<row, queue, provider, attached, proc, logged, history>>

PriceUsage(v) ==
    /\ usage[v]["price"] > 0
    /\ PriceLogged(v)
    /\ Done(v, "price")
    /\ UNCHANGED <<row, queue, provider, account, attached, proc, charged, history>>

-----------------------------------------------------------------------------
(* The provider, and what goes wrong                                       *)

ProviderEnds(v) ==
    /\ provider[v] = "RUNNING"
    /\ \E s \in EndStatus : provider' = [provider EXCEPT ![v] = s]
    /\ UNCHANGED <<row, queue, account, attached, proc, billing, history>>

\* Where an exception of the statement is caught.  What leaves the pump is
\* thrown on by the request around it.
Catch(p) ==
    IF proc[p].at \in {"submit", "mark", "attach"} THEN "pump_fail"
    ELSE IF ~IsInvoke(p) THEN "idle"
    ELSE IF proc[p].at \in {"reserve", "release_own"} \/ ~HasKey(p[1]) THEN "failed"
    ELSE "release_own"

\* An exception: the database or the provider did not answer, or not in
\* time.  A provider that was called may have created the task all the same;
\* when the cleanup of the pump or of the invocation fails, it is not done.
Throw(p) ==
    /\ proc[p].at \notin {"idle", "done", "failed"}
    /\ faults < MaxFaults /\ faults' = faults + 1
    /\ proc' = [proc EXCEPT ![p] = [Quiet(Catch(p)) EXCEPT
                    !.mine = IF Catch(p) = "pump_fail" THEN proc[p].mine ELSE NoVideo,
                    !.starts = IF Catch(p) = "pump_fail" THEN proc[p].starts ELSE 0]]
    /\ IF At(p, "submit")
       THEN provider' \in {provider, [provider EXCEPT ![proc[p].mine] = "RUNNING"]}
       ELSE UNCHANGED provider
    /\ abandoned' = abandoned \cup (IF At(p, "release_own") THEN {p[1]} ELSE {})
                              \cup (IF At(p, "pump_fail") \/ At(p, "pump_release")
                                    THEN {proc[p].mine} ELSE {})
    /\ UNCHANGED <<row, queue, account, attached, billing, revived, told>>

\* The gateway process stops in the middle of a request.
Die(p) ==
    /\ proc[p].at \notin {"idle", "done", "failed"}
    /\ faults < MaxFaults /\ faults' = faults + 1
    /\ proc' = [proc EXCEPT ![p] = Quiet(IF IsInvoke(p) THEN "failed" ELSE "idle")]
    /\ abandoned' = abandoned \cup (IF IsInvoke(p) THEN {p[1]} ELSE {})
                              \cup ({proc[p].mine} \ {NoVideo})
    /\ UNCHANGED <<row, queue, provider, account, attached, billing, revived, told>>

\* A usage task is lost with its process, or a statement of it fails: the
\* charge is still tried when the record could not be written.
UsageFault(v) ==
    /\ faults < MaxFaults /\ faults' = faults + 1
    /\ \/ \E stage \in Stage : usage[v][stage] > 0 /\ Done(v, stage)
       \/ usage[v]["record_charge"] > 0 /\ Move(v, "record_charge", "charge")
    /\ UNCHANGED <<row, queue, provider, account, attached, proc, logged, charged,
                   abandoned, revived, told>>

-----------------------------------------------------------------------------

Pump(p) == PumpClaim(p) \/ PumpSubmit(p) \/ PumpMark(p) \/ PumpAttach(p)
             \/ PumpFail(p) \/ PumpRelease(p)

InvokeStep(v) == Reserve(v) \/ CreateRow(v) \/ Respond(v) \/ ReleaseOwn(v)

QueryStep(p) == Find(p) \/ Fetch(p) \/ ReadReservation(p) \/ ReadUsage(p) \/ Settle(p)
                  \/ Price(p) \/ Finish(p) \/ Refresh(p)

UsageStep(v) == RecordUsage(v) \/ ChargeUsage(v) \/ PriceUsage(v)

Next ==
    \/ \E p \in Proc : Pump(p) \/ Query(p) \/ QueryStep(p) \/ Throw(p) \/ Die(p)
    \/ \E v \in Video : InvokeStep(v) \/ UsageStep(v) \/ ProviderEnds(v) \/ UsageFault(v)

Spec == Init /\ [][Next]_vars

\* Statements return, the provider ends what it began, and a client that
\* has its task id asks again after every answer but an end.
Fairness ==
    /\ \A p \in Proc : WF_vars(Pump(p) \/ QueryStep(p))
    /\ \A p \in Proc : WF_vars(told[p[1]] = "going" /\ Query(p))
    /\ \A v \in Video : WF_vars(InvokeStep(v)) /\ WF_vars(ProviderEnds(v))
    /\ \A v \in Video : WF_vars(RecordUsage(v)) /\ WF_vars(ChargeUsage(v)) /\ WF_vars(PriceUsage(v))

FairSpec == Spec /\ Fairness

-----------------------------------------------------------------------------
(* Properties                                                              *)

\* At most Limit videos are with the provider or on the way there, however
\* many requests pump the queue at once -- but for ended rows which a query
\* with an older answer made active again.
SlotsRespected == Cardinality(Active \ revived) <= Limit

\* Points are taken for a video only when the provider delivered it.
ChargedIsDelivered ==
    \A v \in Video : charged[v] > 0 \/ resv[v].status = Account!Captured
                       => provider[v] = "SUCCEEDED"

\* Frozen points have somebody who will bring them to an end: the request
\* that froze them, the queue, the request that is submitting the video, or
\* the queries that find the reservation by the task id it was given.
PendingIsHeld ==
    \A v \in Video \ abandoned : resv[v].status = Account!Pending =>
        \/ proc[Invoke(v)].at \in {"create", "release_own"}
        \/ row[v].status = "QUEUED"
        \/ \E p \in Proc : proc[p].mine = v
        \/ v \in attached

\* A client that was answered with an error has no task id to query: its
\* video may hold a slot for good.
Unasked == {v \in Video : At(Invoke(v), "failed") /\ row[v].status # "absent"}

\* Reserved points are captured or given back in the end, if clients ask
\* until they are told of the end and no request was cut off half-way.  A
\* client whose query came before the reservation had the task's id may have
\* been told too early.
ReservationsEnd ==
    \A v \in Video : resv[v].status = Account!Pending
      ~> (resv[v].status # Account!Pending \/ told[v] = "unmatched" \/ abandoned \cup Unasked # {})

AskedAbout(v) == \E q \in Poller : At(<<v, q>>, "usage")

\* A usage row that was lost or has no price is written by the queries that
\* follow: as long as a video is asked about, its usage rows get the points
\* that were settled, whatever usage task was dropped or failed.
UsageCostRepaired ==
    \A v \in Video : []<>AskedAbout(v)
      => (resv[v].status = Account!Captured ~> logged[v] = {resv[v].settled})

\* docs/AI_GATEWAY_BILLING_ARCHITECTURE.md: queries only advance and settle
\* a task, they never charge it again.
PaidOnce == \A v \in Video : charged[v] + resv[v].settled <= Cost[v]
=============================================================================
