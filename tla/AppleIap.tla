----------------------------- MODULE AppleIap -----------------------------
(***************************************************************************)
(* Subscriptions bought in the App Store (apple-iap.service.ts).  Apple    *)
(* signs what it knows of a transaction: in notifications to the server,   *)
(* which come in any order, and in receipts, which a user's device may     *)
(* keep and show later.  Each is written to the transaction's row and to   *)
(* the user's entitlement, by requests that share no lock and no database  *)
(* transaction: a step is one statement.                                   *)
(*                                                                         *)
(* All transactions are of one subscription (original transaction id).     *)
(* The end of a period is a matter of Apple's word EXPIRED; end dates only *)
(* order the transactions.                                                 *)
(***************************************************************************)
EXTENDS Integers, Sequences, FiniteSets

CONSTANTS
    Transaction,     \* the periods of the subscription, Nat: the last ends last
    Customer,
    Token,           \* the user that Apple's appAccountToken names, or Nobody
    Nobody,
    Notice,          \* notifications
    Device,          \* receipts that users keep
    Restore          \* requests of users to restore their purchases

Status == {"ACTIVE", "BILLING_RETRY", "EXPIRED", "REVOKED"}

ASSUME TransactionAssumption == IsFiniteSet(Transaction) /\ Transaction \subseteq Nat
ASSUME RequestAssumption ==
    Notice \cap Device = {} /\ Notice \cap Restore = {} /\ Device \cap Restore = {}
ASSUME TokenAssumption == Nobody \notin Customer /\ Token \in Customer \cup {Nobody}

VARIABLES
    date,            \* Apple's clock: one tick for each signature
    apple,           \* what Apple knows of each transaction
    signed,          \* what a notification or a receipt says: its payload
    received,        \* apple_iap_notifications by processing_status
    row,             \* apple_iap_transactions
    before,          \* the rows by updated_at: <<x, y>> when x's is the older one
    entitled,        \* user_entitlements, one row per user
    request,         \* the requests in progress
    newest,          \* history: the newest of all that was written about a transaction
    alone            \* history: the last request that began, a notification or a
                     \* restore, has had nobody beside it and has not failed

outside == <<date, apple, signed>>
tables == <<received, row, before, entitled>>
news == <<newest, alone>>
appleVars == <<outside, tables, request, news>>

Request == Notice \cup Device \cup Restore

Payload == [transaction : Transaction, status : Status, date : Nat]
Unsigned == [transaction |-> 0, status |-> "NONE", date |-> 0]

NoRow == [there |-> FALSE, status |-> "NONE", date |-> 0, user |-> Nobody]
NoEntitlement == "NONE"

\* A request writes what it was told, one payload after the other.
Unbegun == [at |-> "idle", user |-> Nobody, todo |-> <<>>]

AppleTypeOK ==
    /\ date \in Nat
    /\ apple \in [Transaction -> Status \cup {"NONE"}]
    /\ signed \in [Notice \cup Device -> Payload \cup {Unsigned}]
    /\ received \in [Notice -> {"NONE", "RECEIVED", "PROCESSED", "FAILED"}]
    /\ row \in [Transaction -> [there : BOOLEAN, status : Status \cup {"NONE"}, date : Nat,
                                user : Customer \cup {Nobody}]]
    /\ before \subseteq Transaction \X Transaction
    /\ entitled \in [Customer -> Status \cup {NoEntitlement}]
    /\ request \in [Request -> [at : {"idle", "resolve", "history", "persist", "entitle", "link",
                                      "read", "write", "mark", "over"},
                                user : Customer \cup {Nobody}, todo : Seq(Payload)]]
    /\ newest \in [Transaction -> Payload \cup {Unsigned}]
    /\ alone \in BOOLEAN

AppleInit ==
    /\ date = 0
    /\ apple = [t \in Transaction |-> "NONE"]
    /\ signed = [x \in Notice \cup Device |-> Unsigned]
    /\ received = [n \in Notice |-> "NONE"]
    /\ row = [t \in Transaction |-> NoRow]
    /\ before = {}
    /\ entitled = [u \in Customer |-> NoEntitlement]
    /\ request = [r \in Request |-> Unbegun]
    /\ newest = [t \in Transaction |-> Unsigned]
    /\ alone = FALSE

-----------------------------------------------------------------------------
(* Apple                                                                   *)

\* Something happens to a transaction, and a notification says so.  Periods
\* begin one after the other.
Happens(n, t, status) ==
    /\ signed[n] = Unsigned
    /\ apple[t] = "NONE" =>
         status = "ACTIVE" /\ \A x \in Transaction : x < t => apple[x] # "NONE"
    /\ date' = date + 1
    /\ apple' = [apple EXCEPT ![t] = status]
    /\ signed' = [signed EXCEPT ![n] = [transaction |-> t, status |-> status, date |-> date']]
    /\ UNCHANGED <<tables, request, news>>

\* deriveTransactionStatus: a transaction by itself tells a revocation and
\* when it expires, not that a payment is tried again.
Derived(status) == IF status = "BILLING_RETRY" THEN {"ACTIVE", "EXPIRED"} ELSE {status}

\* A user's device is given a receipt.
Receipt(d, t) ==
    /\ signed[d] = Unsigned
    /\ apple[t] # "NONE"
    /\ date' = date + 1
    /\ \E status \in Derived(apple[t]) :
         signed' = [signed EXCEPT ![d] = [transaction |-> t, status |-> status, date |-> date']]
    /\ UNCHANGED <<apple, tables, request, news>>

-----------------------------------------------------------------------------

Doing(r, label) == request[r].at = label

Turn(r, label) == request' = [request EXCEPT ![r].at = label]

Quiet == \A r \in Request : request[r].at \in {"idle", "over"}

Begin(r, label, u, todo) ==
    /\ Doing(r, "idle")
    /\ request' = [request EXCEPT ![r] = [at |-> label, user |-> u, todo |-> todo]]
    /\ alone' = (r \notin Device /\ Quiet)

Leave(r) == request' = [request EXCEPT ![r] = [Unbegun EXCEPT !.at = "over"]]

\* processNotification.  A notification that is there already is a duplicate
\* and is answered without a look at what became of it.
Receive(n) ==
    /\ signed[n] # Unsigned
    /\ received[n] = "NONE"
    /\ received' = [received EXCEPT ![n] = "RECEIVED"]
    /\ Begin(n, "resolve", Nobody, <<signed[n]>>)
    /\ UNCHANGED <<outside, row, before, entitled, newest>>

\* findUserIdForOriginalTransaction: the row with a user that was touched last.
LastLinked(t) ==
    row[t].user # Nobody /\ \A x \in Transaction : <<t, x>> \in before => row[x].user = Nobody

UsersOfEvent ==
    LET linked == {t \in Transaction : LastLinked(t)} IN
    IF linked = {} THEN {Token} ELSE {row[t].user : t \in linked}

\* resolveUserIdForAppleEvent
Resolve(n) ==
    /\ Doing(n, "resolve")
    /\ \E u \in UsersOfEvent :
         request' = [request EXCEPT ![n].at = "persist", ![n].user = u]
    /\ UNCHANGED <<outside, tables, news>>

\* verifyTransaction, with what the device kept.
Verify(d, u) ==
    /\ signed[d] # Unsigned
    /\ Begin(d, "persist", u, <<signed[d]>>)
    /\ UNCHANGED <<outside, tables, newest>>

StartRestore(r, u) ==
    /\ Begin(r, "history", u, <<>>)
    /\ UNCHANGED <<outside, tables, newest>>

\* restorePurchases, syncTransactionHistory: Apple signs every transaction of
\* the subscription anew, in order.
Known == {t \in Transaction : apple[t] # "NONE"}

History(r) ==
    /\ Doing(r, "history")
    /\ date' = date + 1
    /\ IF Known = {} THEN Leave(r)
       ELSE \E periods \in [1 .. Cardinality(Known) -> Known], status \in [Known -> Status] :
              /\ \A i, j \in DOMAIN periods : i < j => periods[i] < periods[j]
              /\ \A t \in Known : status[t] \in Derived(apple[t])
              /\ request' = [request EXCEPT ![r].at = "persist",
                   ![r].todo = [i \in DOMAIN periods |->
                     [transaction |-> periods[i], status |-> status[periods[i]], date |-> date']]]
    /\ UNCHANGED <<apple, signed, tables, news>>

\* Mutant: the status is always written.
PersistedUnguarded(t, p, u) ==
    [there |-> TRUE,
     status |-> p.status,
     date |-> IF p.date < row[t].date THEN row[t].date ELSE p.date,
     user |-> IF u # Nobody THEN u ELSE row[t].user]

\* persistTransaction: what was signed before the row's last word does not
\* change its status.
Persisted(t, p, u) ==
    [there |-> TRUE,
     status |-> IF row[t].there /\ p.date < row[t].date THEN row[t].status ELSE p.status,
     date |-> IF p.date < row[t].date THEN row[t].date ELSE p.date,
     user |-> IF u # Nobody THEN u ELSE row[t].user]

Persist(r) ==
    LET p == Head(request[r].todo)
        t == p.transaction
    IN  /\ Doing(r, "persist")
        /\ row' = [row EXCEPT ![t] = Persisted(t, p, request[r].user)]
        /\ before' = {b \in before : t \notin {b[1], b[2]}}
                       \cup {x \in Transaction \ {t} : row[x].there} \X {t}
        /\ newest' = [newest EXCEPT ![t] = IF p.date > @.date THEN p ELSE @]
        /\ Turn(r, "entitle")
        /\ UNCHANGED <<outside, received, entitled, alone>>

\* Mutant: what a notification said is not refreshed from the rows.
EntitleOnly(r) ==
    LET p == Head(request[r].todo)
        u == request[r].user
    IN  /\ Doing(r, "entitle")
        /\ entitled' = IF u = Nobody THEN entitled ELSE [entitled EXCEPT ![u] = p.status]
        /\ IF Len(request[r].todo) > 1
           THEN request' = [request EXCEPT ![r].at = "persist", ![r].todo = Tail(@)]
           ELSE IF r \in Device THEN Leave(r)
           ELSE Turn(r, IF r \in Restore THEN "link" ELSE "mark")
        /\ UNCHANGED <<outside, received, row, before, news>>

\* upsertEntitlement with the request's own payload, whatever the row says.
Entitle(r) ==
    LET p == Head(request[r].todo)
        u == request[r].user
    IN  /\ Doing(r, "entitle")
        /\ entitled' = IF u = Nobody THEN entitled ELSE [entitled EXCEPT ![u] = p.status]
        /\ IF Len(request[r].todo) > 1
           THEN request' = [request EXCEPT ![r].at = "persist", ![r].todo = Tail(@)]
           ELSE IF r \in Device THEN Leave(r)
           ELSE IF r \in Restore THEN Turn(r, "link")
           ELSE Turn(r, IF u = Nobody THEN "mark" ELSE "read")
        /\ UNCHANGED <<outside, received, row, before, news>>

\* restorePurchases: the rows are the user's from now on, all updated at once.
Link(r) ==
    /\ Doing(r, "link")
    /\ row' = [t \in Transaction |->
                 IF row[t].there THEN [row[t] EXCEPT !.user = request[r].user] ELSE row[t]]
    /\ before' = {}
    /\ Turn(r, "read")
    /\ UNCHANGED <<outside, received, entitled, news>>

\* refreshEntitlementFromLatestTransaction reads the row that ends last ...
Latest(t) == row[t].there /\ \A x \in Transaction : row[x].there => x <= t

Read(r) ==
    /\ Doing(r, "read")
    /\ \E t \in Transaction :
         /\ Latest(t)
         /\ request' = [request EXCEPT ![r].at = "write",
              ![r].todo = <<[transaction |-> t, status |-> row[t].status, date |-> row[t].date]>>]
    /\ UNCHANGED <<outside, tables, news>>

\* ... and writes it to the entitlement.
Write(r) ==
    /\ Doing(r, "write")
    /\ entitled' = [entitled EXCEPT ![request[r].user] = Head(request[r].todo).status]
    /\ IF r \in Restore THEN Leave(r) ELSE Turn(r, "mark")
    /\ UNCHANGED <<outside, received, row, before, news>>

Mark(n) ==
    /\ Doing(n, "mark")
    /\ received' = [received EXCEPT ![n] = "PROCESSED"]
    /\ Leave(n)
    /\ UNCHANGED <<outside, row, before, entitled, news>>

\* A statement or a call of Apple fails, and a notification is marked FAILED;
\* or the process dies, and it stays RECEIVED, which nobody looks at either.
Fault(r) ==
    /\ request[r].at \notin {"idle", "over"}
    /\ received' = [n \in Notice |-> IF n = r THEN "FAILED" ELSE received[n]]
    /\ Leave(r)
    /\ alone' = FALSE
    /\ UNCHANGED <<outside, row, before, entitled, newest>>

Work(r) ==
    \/ Resolve(r) \/ History(r) \/ Persist(r) \/ Entitle(r)
    \/ Link(r) \/ Read(r) \/ Write(r) \/ Mark(r)

AppleNext ==
    \/ \E n \in Notice : Receive(n) \/ \E t \in Transaction, status \in Status : Happens(n, t, status)
    \/ \E d \in Device : (\E t \in Transaction : Receipt(d, t)) \/ (\E u \in Customer : Verify(d, u))
    \/ \E r \in Restore, u \in Customer : StartRestore(r, u)
    \/ \E r \in Request : Work(r) \/ Fault(r)

AppleSpec == AppleInit /\ [][AppleNext]_appleVars

-----------------------------------------------------------------------------
(* Properties                                                              *)

\* In whatever order the news of a transaction comes, from notifications,
\* receipts and restores that overlap: its row says what Apple said last.
StatusIsNewest ==
    \A t \in Transaction : row[t].status = newest[t].status

\* No row was updated after that of t.
LastUpdated(t) == row[t].there /\ \A x \in Transaction : <<t, x>> \notin before

\* Whatever went wrong before -- requests that overlapped or failed, an old
\* receipt that was shown after a refund --, one notification or restore that
\* runs by itself leaves the user's entitlement as the latest period's row is.
EntitlementFollows ==
    (alone /\ Quiet) =>
      \A t, l \in Transaction :
        LastUpdated(t) /\ row[t].user # Nobody /\ Latest(l) => entitled[row[t].user] = row[l].status
=============================================================================
