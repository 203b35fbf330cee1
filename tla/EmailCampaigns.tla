--------------------------- MODULE EmailCampaigns ---------------------------
(***************************************************************************)
(* Marketing mails (email-delivery.service.ts): an administrator schedules *)
(* and cancels campaigns, contacts are imported, changed and unsubscribe,  *)
(* and each gateway process has an interval that claims due recipients and *)
(* mails them one after the other.  One step per statement; the transaction*)
(* of a claim is one step, since it locks all it reads.                    *)
(*                                                                         *)
(* The refresh of a campaign's counts is an UPDATE whose tallies are taken *)
(* when the statement begins and written when it has the campaign's row:   *)
(* two steps.  Of the counts only what decides about completion is kept: a *)
(* tally that finds outstanding recipients changes nothing.                *)
(***************************************************************************)
EXTENDS Integers, FiniteSets

CONSTANTS
    Campaign, Email,
    Process,         \* gateway processes, one interval each
    Request,         \* requests under way at a time
    EmailMaxAttempts, \* EMAIL_MAX_ATTEMPTS
    BatchSize,       \* EMAIL_DELIVERY_BATCH_SIZE
    MaxRequests,     \* bound on the requests
    MaxFaults        \* bound on lost answers, failing statements, dying processes

ASSUME AttemptsAssumption == EmailMaxAttempts \in Nat \ {0} /\ BatchSize \in Nat \ {0}
ASSUME PeopleAssumption == Campaign # {} /\ Email # {}
ASSUME BoundAssumption == MaxRequests \in Nat /\ MaxFaults \in Nat

VARIABLES
    campaign,        \* email_campaigns; early: scheduled_at is still to come
    recipient,       \* email_campaign_recipients; due: next_retry_at has passed
    contact,         \* email_contacts
    suppressed,      \* email_suppression_list
    run,             \* the interval's run in each process
    request,
    accepted,        \* mails the provider accepted, per recipient
    barred,          \* history: recipients suppressed before they were listed
    doubted,         \* history: the provider's answer was not recorded
    stranded,        \* history: left behind by a run that broke off
    hasty,           \* history: campaigns completed on an old tally
    requests, faults

rows == <<campaign, recipient>>
people == <<contact, suppressed, barred>>
history == <<doubted, stranded, hasty>>
mailVars == <<rows, people, run, request, accepted, history, requests, faults>>

Recipient == Campaign \X Email
RowsOf(c) == {c} \X Email

Outstanding == {"pending", "retry", "sending"}
Ended == {"delivered", "bounced", "failed", "skipped"}
Active == {"scheduled", "sending"}

MailTypeOK ==
    /\ campaign \in [Campaign -> [status : {"draft", "completed", "cancelled"} \cup Active,
                                  early : BOOLEAN]]
    /\ recipient \in [Recipient -> [status : {"none"} \cup Outstanding \cup Ended,
                                    attempts : 0 .. EmailMaxAttempts, due : BOOLEAN]]
    /\ contact \in [Email -> {"none", "subscribed", "unsubscribed", "bounced", "suppressed"}]
    /\ suppressed \subseteq Email
    /\ run \in [Process -> [at : {"idle", "read", "skip", "mark", "send", "record", "suppress",
                                     "failure", "count", "refresh"},
                               batch : SUBSET Recipient, item : Recipient,
                               outcome : {"delivered", "bounced", "retryable", "final"}]]
    /\ request \in [Request -> [at : {"idle", "schedule", "skip", "count", "refresh",
                                      "suppress", "leave"},
                                campaign : Campaign, email : Email]]
    /\ accepted \in [Recipient -> Nat]
    /\ barred \subseteq Recipient /\ doubted \subseteq Recipient /\ stranded \subseteq Recipient
    /\ hasty \subseteq Campaign
    /\ requests \in 0 .. MaxRequests /\ faults \in 0 .. MaxFaults

NoRun == [at |-> "idle", batch |-> {}, item |-> CHOOSE r \in Recipient : TRUE,
          outcome |-> "final"]
NoRequest == [at |-> "idle", campaign |-> CHOOSE c \in Campaign : TRUE,
              email |-> CHOOSE e \in Email : TRUE]

MailInit ==
    /\ campaign = [c \in Campaign |-> [status |-> "draft", early |-> FALSE]]
    /\ recipient = [r \in Recipient |-> [status |-> "none", attempts |-> 0, due |-> TRUE]]
    /\ contact \in [Email -> {"none", "subscribed"}]
    /\ suppressed = {} /\ barred = {}
    /\ run = [p \in Process |-> NoRun]
    /\ request = [a \in Request |-> NoRequest]
    /\ accepted = [r \in Recipient |-> 0]
    /\ doubted = {} /\ stranded = {} /\ hasty = {}
    /\ requests = 0 /\ faults = 0

Open(c) == \E r \in RowsOf(c) : recipient[r].status \in Outstanding

\* suppressEmail: the list only grows.
Suppress(e) ==
    /\ suppressed' = suppressed \cup {e}
    /\ barred' = barred \cup {r \in Campaign \X {e} : recipient[r].status = "none"}

\* refreshCampaignCounts, on a tally that found nobody outstanding.
Complete(c) ==
    /\ campaign' = IF campaign[c].status = "cancelled" THEN campaign
                   ELSE [campaign EXCEPT ![c].status = "completed"]
    /\ hasty' = IF campaign'[c].status = "completed" /\ Open(c) THEN hasty \cup {c} ELSE hasty

-----------------------------------------------------------------------------
(* Requests of administrators and of the people who get the mails          *)

Begins(a) == request[a].at = "idle" /\ requests < MaxRequests /\ requests' = requests + 1
Continues(a, label) == request[a].at = label /\ UNCHANGED requests
Done(a) == request' = [request EXCEPT ![a] = NoRequest]

\* A conflict with a row that is there makes it pending again.
ScheduleAnew(a, c) ==
    /\ Begins(a)
    /\ recipient' = [r \in Recipient |->
         IF r[1] = c /\ recipient[r].status # "sending" /\ contact[r[2]] = "subscribed"
         THEN [recipient[r] EXCEPT !.status = IF r[2] \in suppressed THEN "skipped" ELSE "pending"]
         ELSE recipient[r]]
    /\ request' = [request EXCEPT ![a] = [NoRequest EXCEPT !.at = "schedule", !.campaign = c]]
    /\ UNCHANGED <<campaign, people, run, accepted, history, faults>>

\* The suppression list is not looked at.
ScheduleUnlisted(a, c) ==
    /\ Begins(a)
    /\ recipient' = [r \in Recipient |->
         IF r[1] = c /\ recipient[r].status = "none" /\ contact[r[2]] = "subscribed"
         THEN [recipient[r] EXCEPT !.status = "pending"]
         ELSE recipient[r]]
    /\ request' = [request EXCEPT ![a] = [NoRequest EXCEPT !.at = "schedule", !.campaign = c]]
    /\ UNCHANGED <<campaign, people, run, accepted, history, faults>>

\* scheduleCampaign, whatever the campaign's status: subscribed contacts that
\* have no row yet get one.
Schedule(a, c) ==
    /\ Begins(a)
    /\ recipient' = [r \in Recipient |->
         IF r[1] = c /\ recipient[r].status = "none" /\ contact[r[2]] = "subscribed"
         THEN [recipient[r] EXCEPT !.status = IF r[2] \in suppressed THEN "skipped" ELSE "pending"]
         ELSE recipient[r]]
    /\ request' = [request EXCEPT ![a] = [NoRequest EXCEPT !.at = "schedule", !.campaign = c]]
    /\ UNCHANGED <<campaign, people, run, accepted, history, faults>>

SetScheduled(a) ==
    /\ Continues(a, "schedule")
    /\ \E early \in BOOLEAN :
         campaign' = [campaign EXCEPT ![request[a].campaign] =
                        [status |-> "scheduled", early |-> early]]
    /\ Done(a)
    /\ UNCHANGED <<recipient, people, run, accepted, history, faults>>

\* cancelCampaign: the pending recipients are skipped though the campaign be
\* sending already and stay so.
Cancel(a, c) ==
    /\ Begins(a)
    /\ campaign' = IF campaign[c].status \in {"draft", "scheduled"}
                   THEN [campaign EXCEPT ![c].status = "cancelled"] ELSE campaign
    /\ request' = [request EXCEPT ![a] = [NoRequest EXCEPT !.at = "skip", !.campaign = c]]
    /\ UNCHANGED <<recipient, people, run, accepted, history, faults>>

SkipPending(a) ==
    /\ Continues(a, "skip")
    /\ recipient' = [r \in Recipient |->
         IF r[1] = request[a].campaign /\ recipient[r].status = "pending"
         THEN [recipient[r] EXCEPT !.status = "skipped"] ELSE recipient[r]]
    /\ request' = [request EXCEPT ![a].at = "count"]
    /\ UNCHANGED <<campaign, people, run, accepted, history, faults>>

CountCancelled(a) ==
    /\ Continues(a, "count")
    /\ IF Open(request[a].campaign) THEN Done(a) ELSE request' = [request EXCEPT ![a].at = "refresh"]
    /\ UNCHANGED <<rows, people, run, accepted, history, faults>>

RefreshCancelled(a) ==
    /\ Continues(a, "refresh")
    /\ Complete(request[a].campaign)
    /\ Done(a)
    /\ UNCHANGED <<recipient, people, run, accepted, doubted, stranded, faults>>

\* importContacts brings back everybody but those who unsubscribed; the
\* suppression list stays.
Import(a, e) ==
    /\ Begins(a)
    /\ contact' = [contact EXCEPT ![e] = IF @ = "unsubscribed" THEN @ ELSE "subscribed"]
    /\ UNCHANGED <<rows, suppressed, barred, run, request, accepted, history, faults>>

UpdateContact(a, e, status) ==
    /\ Begins(a)
    /\ contact[e] # "none"
    /\ contact' = [contact EXCEPT ![e] = status]
    /\ request' = IF status \in {"subscribed", "bounced"} THEN request
                  ELSE [request EXCEPT ![a] = [NoRequest EXCEPT !.at = "suppress", !.email = e]]
    /\ UNCHANGED <<rows, suppressed, barred, run, accepted, history, faults>>

SuppressContact(a) ==
    /\ Continues(a, "suppress")
    /\ Suppress(request[a].email)
    /\ Done(a)
    /\ UNCHANGED <<rows, contact, run, accepted, history, faults>>

Unsubscribe(a, e) ==
    /\ Begins(a)
    /\ Suppress(e)
    /\ request' = [request EXCEPT ![a] = [NoRequest EXCEPT !.at = "leave", !.email = e]]
    /\ UNCHANGED <<rows, contact, run, accepted, history, faults>>

LeaveList(a) ==
    /\ Continues(a, "leave")
    /\ contact' = [contact EXCEPT ![request[a].email] = IF @ = "none" THEN @ ELSE "unsubscribed"]
    /\ Done(a)
    /\ UNCHANGED <<rows, suppressed, barred, run, accepted, history, faults>>

-----------------------------------------------------------------------------
(* The clock                                                               *)

Arrive(c) ==
    /\ campaign[c].early
    /\ campaign' = [campaign EXCEPT ![c].early = FALSE]
    /\ UNCHANGED <<recipient, people, run, request, accepted, history, requests, faults>>

RetryComes(r) ==
    /\ recipient[r].status = "retry" /\ ~recipient[r].due
    /\ recipient' = [recipient EXCEPT ![r].due = TRUE]
    /\ UNCHANGED <<campaign, people, run, request, accepted, history, requests, faults>>

-----------------------------------------------------------------------------
(* processPendingDeliveries                                                *)

At(p, label) == run[p].at = label
MailGoto(p, label) == run' = [run EXCEPT ![p].at = label]

\* The loop takes the next recipient, or the run is over.
NextItem(p) == run' = [run EXCEPT ![p] = IF @.batch = {} THEN NoRun ELSE [@ EXCEPT !.at = "read"]]

Still == UNCHANGED <<people, request, requests, faults>>

\* Claims that forget the retries.
DueFirst == {r \in Recipient :
               /\ recipient[r].status = "pending"
               /\ campaign[r[1]].status \in Active /\ ~campaign[r[1]].early}

Due == {r \in Recipient :
          /\ recipient[r].status \in {"pending", "retry"} /\ recipient[r].due
          /\ campaign[r[1]].status \in Active /\ ~campaign[r[1]].early}

Claimed(r) == [status |-> "sending", attempts |-> recipient[r].attempts + 1, due |-> TRUE]

\* claimDueRecipients: a run begins only when the last one is over.  Rows
\* whose campaign another statement holds are skipped, hence any part of Due.
ClaimDue(p) ==
    /\ At(p, "idle")
    /\ \E batch \in SUBSET Due \ {{}} :
         /\ Cardinality(batch) <= BatchSize
         /\ recipient' = [r \in Recipient |-> IF r \in batch THEN Claimed(r) ELSE recipient[r]]
         /\ run' = [run EXCEPT ![p] = [NoRun EXCEPT !.at = "read", !.batch = batch]]
    /\ UNCHANGED <<campaign, accepted, history>> /\ Still

ReadStatus(p) ==
    /\ At(p, "read")
    /\ \E r \in run[p].batch :
         run' = [run EXCEPT ![p].item = r, ![p].batch = @ \ {r},
                      ![p].at = IF campaign[r[1]].status \in Active THEN "mark" ELSE "skip"]
    /\ UNCHANGED <<rows, accepted, history>> /\ Still

Skip(p) ==
    LET r == run[p].item IN
    /\ At(p, "skip")
    /\ recipient' = IF recipient[r].status = "sending"
                    THEN [recipient EXCEPT ![r].status = "skipped"] ELSE recipient
    /\ NextItem(p)
    /\ UNCHANGED <<campaign, accepted, history>> /\ Still

\* Whatever the status has become since it was read.
Mark(p) ==
    /\ At(p, "mark")
    /\ campaign' = [campaign EXCEPT ![run[p].item[1]].status = "sending"]
    /\ MailGoto(p, "send")
    /\ UNCHANGED <<recipient, accepted, history>> /\ Still

\* The provider delivers, returns the address, or refuses.
Dispatch(p) ==
    LET r == run[p].item IN
    /\ At(p, "send")
    /\ \/ /\ run' = [run EXCEPT ![p].at = "record", ![p].outcome = "delivered"]
          /\ accepted' = [accepted EXCEPT ![r] = @ + 1]
       \/ /\ run' = [run EXCEPT ![p].at = "record", ![p].outcome = "bounced"]
          /\ UNCHANGED accepted
       \/ /\ \E why \in {"retryable", "final"} :
               run' = [run EXCEPT ![p].at = "failure", ![p].outcome = why]
          /\ UNCHANGED accepted
    /\ UNCHANGED <<rows, history>> /\ Still

Record(p) ==
    LET outcome == run[p].outcome IN
    /\ At(p, "record")
    /\ recipient' = [recipient EXCEPT ![run[p].item].status = outcome]
    /\ MailGoto(p, IF outcome = "bounced" THEN "suppress" ELSE "count")
    /\ UNCHANGED <<campaign, accepted, history>> /\ Still

SuppressBounced(p) ==
    /\ At(p, "suppress")
    /\ Suppress(run[p].item[2])
    /\ MailGoto(p, "count")
    /\ UNCHANGED <<rows, contact, request, accepted, history, requests, faults>>

\* markDeliveryFailure
Failure(p) ==
    LET r == run[p].item IN
    /\ At(p, "failure")
    /\ recipient' = IF run[p].outcome = "retryable" /\ recipient[r].attempts < EmailMaxAttempts
                    THEN [recipient EXCEPT ![r].status = "retry", ![r].due = FALSE]
                    ELSE [recipient EXCEPT ![r].status = "failed"]
    /\ MailGoto(p, "count")
    /\ UNCHANGED <<campaign, accepted, history>> /\ Still

Count(p) ==
    /\ At(p, "count")
    /\ IF Open(run[p].item[1]) THEN NextItem(p) ELSE MailGoto(p, "refresh")
    /\ UNCHANGED <<rows, accepted, history>> /\ Still

Refresh(p) ==
    /\ At(p, "refresh")
    /\ Complete(run[p].item[1])
    /\ NextItem(p)
    /\ UNCHANGED <<recipient, accepted, doubted, stranded>> /\ Still

-----------------------------------------------------------------------------
(* Failing statements, lost answers, dying processes                       *)

Fault == faults < MaxFaults /\ faults' = faults + 1
Quiet == UNCHANGED <<rows, people, request, hasty, requests>>

\* The catch of a delivery takes the failure for one of the mail.
Mistake(p) ==
    /\ \E why \in {"retryable", "final"} :
         run' = [run EXCEPT ![p].at = "failure", ![p].outcome = why]
    /\ doubted' = doubted \cup {run[p].item}
    /\ UNCHANGED stranded /\ Quiet

AnswerLost(p) ==
    /\ At(p, "send")
    /\ Fault
    /\ accepted' = [accepted EXCEPT ![run[p].item] = @ + 1]
    /\ Mistake(p)

RecordFails(p) ==
    /\ run[p].at \in {"record", "suppress"}
    /\ Fault
    /\ UNCHANGED accepted
    /\ Mistake(p)

Claims(p) == IF run[p].at \in {"read", "count", "refresh"} THEN run[p].batch
             ELSE run[p].batch \cup {run[p].item}

\* Another statement throws, or the process dies: the rest of the batch
\* stays as it was claimed.
BreakOff(p) ==
    /\ ~At(p, "idle")
    /\ Fault
    /\ run' = [run EXCEPT ![p] = NoRun]
    /\ stranded' = stranded \cup {r \in Claims(p) : recipient[r].status = "sending"}
    /\ UNCHANGED <<accepted, doubted>> /\ Quiet

RequestFails(a) ==
    /\ request[a].at # "idle"
    /\ Fault
    /\ Done(a)
    /\ UNCHANGED <<rows, people, run, accepted, history, requests>>

-----------------------------------------------------------------------------

RunStep(p) ==
    \/ ClaimDue(p) \/ ReadStatus(p) \/ Skip(p) \/ Mark(p) \/ Dispatch(p)
    \/ Record(p) \/ SuppressBounced(p) \/ Failure(p) \/ Count(p) \/ Refresh(p)

RequestStep(a) ==
    \/ SetScheduled(a) \/ SkipPending(a) \/ CountCancelled(a) \/ RefreshCancelled(a)
    \/ SuppressContact(a) \/ LeaveList(a)

MailNext ==
    \/ \E p \in Process : RunStep(p) \/ AnswerLost(p) \/ RecordFails(p) \/ BreakOff(p)
    \/ \E a \in Request :
         \/ RequestStep(a) \/ RequestFails(a)
         \/ \E c \in Campaign : Schedule(a, c) \/ Cancel(a, c)
         \/ \E e \in Email :
              \/ Import(a, e) \/ Unsubscribe(a, e)
              \/ \E status \in {"subscribed", "unsubscribed", "bounced", "suppressed"} :
                   UpdateContact(a, e, status)
    \/ \E c \in Campaign : Arrive(c)
    \/ \E r \in Recipient : RetryComes(r)

\* The interval goes off, statements and providers answer, time passes.
MailFairness ==
    /\ \A p \in Process : WF_mailVars(RunStep(p))
    /\ \A a \in Request : WF_mailVars(RequestStep(a))
    /\ \A c \in Campaign : WF_mailVars(Arrive(c))
    /\ \A r \in Recipient : WF_mailVars(RetryComes(r))

MailSpec == MailInit /\ [][MailNext]_mailVars
MailFairSpec == MailSpec /\ MailFairness

-----------------------------------------------------------------------------
(* Properties                                                              *)

\* Nobody gets a campaign's mail twice, whichever processes claim, however
\* often the campaign is scheduled, cancelled and scheduled again, unless
\* the provider's answer got lost; and then no more often than attempts are
\* made.
MailedOnce ==
    \A r \in Recipient : accepted[r] <= IF r \in doubted THEN EmailMaxAttempts ELSE 1

\* Somebody who unsubscribed, was suppressed or whose address bounced before
\* a campaign listed its recipients gets none of its mails, though the
\* contact be imported or subscribed again and the campaign scheduled again.
BarredIsSpared == \A r \in barred : accepted[r] = 0

\* A recipient of a campaign that is being sent comes to an end, or the
\* campaign is cancelled; but for those a broken run left claimed, and
\* campaigns completed by a tally that did not see them.
RecipientsEnd ==
    \A c \in Campaign : \A r \in RowsOf(c) :
      recipient[r].status \in Outstanding /\ campaign[c].status \in Active
        ~> \/ recipient[r].status \in Ended
           \/ campaign[c].status = "cancelled"
           \/ r \in stranded \/ c \in hasty
=============================================================================
