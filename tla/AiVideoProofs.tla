--------------------------- MODULE AiVideoProofs ---------------------------
(***************************************************************************)
(* Proofs about AiVideo for any videos, users, limits, costs, concurrent   *)
(* queries and faults: type correctness, that the slots are never          *)
(* exceeded, that only delivered videos are charged, and that frozen       *)
(* points have somebody who will bring them to an end.                     *)
(*                                                                         *)
(* The argument is about where a request is (Good): the video a pump is    *)
(* submitting is its own and has no task at the provider yet, and what a   *)
(* query carries was true of the provider's task when it was read.  The    *)
(* rows and the provider are arguments, so that a step's effect on the     *)
(* other requests can be told from its effect on its own.                  *)
(***************************************************************************)
EXTENDS AiVideo, FiniteSetTheorems, SequenceTheorems, TLAPS

Unsubmitted == {"absent", "QUEUED"}
Asking == {"fetch", "reservation", "usage", "settle", "price", "finish", "refresh"}
Settling == {"settle", "price", "finish"}
Outcome == {"none", "RUNNING"} \cup EndStatus

\* The video that the request with record r is submitting.
SubmitsOK(r, rows, prov) ==
    r.mine # NoVideo =>
      /\ r.starts < Limit
      /\ rows[r.mine].status \notin Unsubmitted
      /\ r.at \in {"submit", "mark"} =>
           rows[r.mine].status = "SUBMITTING" /\ ~rows[r.mine].ext
      /\ r.at = "submit" => prov[r.mine] = "none"
      /\ r.at = "mark" => prov[r.mine] # "none"

\* What a query with record r knows of video v.
AsksOK(v, r, rows, prov) ==
    /\ r.at \in Asking => rows[v].ext
    /\ r.at \in Asking \ {"fetch"} => r.data # "none"
    /\ r.at \in Settling => r.data \in EndStatus
    /\ r.data = "SUCCEEDED" => prov[v] = "SUCCEEDED"

Good(p, r, rows, prov) ==
    /\ r \in Request
    /\ r.at \in Pumping <=> r.mine # NoVideo
    /\ SubmitsOK(r, rows, prov)
    /\ AsksOK(p[1], r, rows, prov)

RowGood(r, s) ==
    /\ r \in Row /\ s \in Outcome
    /\ r.status \in Unsubmitted => ~r.ext /\ s = "none"
    /\ r.ext => s # "none"
    /\ r.resp = "SUCCEEDED" => s = "SUCCEEDED"

Rows ==
    /\ row \in [Video -> Row]
    /\ provider \in [Video -> Outcome]
    /\ \A v \in Video : RowGood(row[v], provider[v])

\* The queue has every video once, and its row is QUEUED.
Queued ==
    /\ queue \in Seq(Video)
    /\ \A i \in 1 .. Len(queue) : row[queue[i]].status = "QUEUED"
    /\ \A i, j \in 1 .. Len(queue) : queue[i] = queue[j] => i = j

Requests ==
    /\ proc = [p \in Proc |-> proc[p]]
    /\ \A p \in Proc : Good(p, proc[p], row, provider)

\* No two pumps submit one video.
OneEach ==
    \A p, q \in Proc : proc[p].mine # NoVideo /\ proc[p].mine = proc[q].mine => p = q

\* A request that is not that far has made neither row nor reservation.
Fresh ==
    \A v \in Video :
      /\ proc[Invoke(v)].at \in {"reserve", "create"} => row[v].status = "absent"
      /\ proc[Invoke(v)].at = "reserve" => resv[v].status = Account!Unmade

AccountOK == Account!TypeOK

Money == AccountOK /\ \A v \in Video : resv[v].status # Account!Unmade => HasKey(v)

\* Only the usage of a delivered video is charged.
Usage ==
    /\ usage \in [Video -> [Stage -> Nat]]
    /\ \A v \in Video : usage[v]["record_charge"] > 0 \/ usage[v]["charge"] > 0
                          => provider[v] = "SUCCEEDED"

Rest ==
    /\ attached \subseteq Video
    /\ logged \in [Video -> SUBSET (Nat \cup {NoCost})]
    /\ charged \in [Video -> Nat]
    /\ abandoned \subseteq Video /\ revived \subseteq Video
    /\ told \in [Video -> Answer]
    /\ faults \in 0 .. MaxFaults

IInv ==
    /\ Rows /\ Queued /\ Requests /\ OneEach /\ Fresh /\ Money /\ Usage /\ Rest
    /\ SlotsRespected /\ ChargedIsDelivered /\ PendingIsHeld

-----------------------------------------------------------------------------
(* Constants                                                               *)

LEMMA Procs ==
  /\ \A v \in Video : Invoke(v) \in Proc /\ IsInvoke(Invoke(v)) /\ Invoke(v)[1] = v
  /\ \A p \in Proc : p[1] \in Video /\ p = <<p[1], p[2]>> /\ (IsInvoke(p) => p = Invoke(p[1]))
  /\ \A v, w \in Video : Invoke(v) = Invoke(w) => v = w
  BY DEF Proc, Invoke, IsInvoke

LEMMA Statuses ==
  /\ Account!Pending = "pending" /\ Account!Captured = "captured" /\ Account!Released = "released"
  /\ Account!Unmade = "none" /\ Account!Terminal = {"captured", "released"}
  BY DEF Account!Pending, Account!Captured, Account!Released, Account!Unmade, Account!Terminal

LEMMA Points ==
  /\ \A v \in Video : Owner[v] \in User /\ Estimate[v] \in Nat /\ Cost[v] \in Nat
  /\ Limit \in Nat /\ 0 < Limit /\ NoVideo \notin Video /\ IsFiniteSet(Video)
  BY OwnerAssumption, PointsAssumption, LimitAssumption, NamesAssumption, VideoAssumption

-----------------------------------------------------------------------------
(* The account                                                             *)

\* Only the reservation of video v is written; its status is then s.
StatusIs(v, s) ==
    /\ resv'[v].status = s
    /\ \A x \in Video \ {v} : resv'[x] = resv[x]

LEMMA ReserveOK ==
  ASSUME AccountOK, NEW v \in Video, NEW n \in Nat, Account!Reserve(v, n)
  PROVE  AccountOK' /\ StatusIs(v, Account!Pending)
  <1>1. Owner[v] \in User /\ wallet[Owner[v]] \in Account!Wallet
    BY Points DEF AccountOK, Account!TypeOK
  <1>2. wallet[Owner[v]].balance - n \in Int
    BY <1>1 DEF Account!Wallet
  <1>3. Account!Frozen(wallet[Owner[v]], n) \in Account!Wallet
    BY <1>1, <1>2 DEF Account!Frozen, Account!Wallet
  <1>4. wallet' = [wallet EXCEPT ![Owner[v]] = Account!Frozen(wallet[Owner[v]], n)]
    BY <1>1 DEF Account!Reserve, AccountOK, Account!TypeOK
  <1>5. wallet' \in [User -> Account!Wallet]
    BY <1>1, <1>3, <1>4 DEF AccountOK, Account!TypeOK
  <1> DEFINE new == [status |-> Account!Pending, reserved |-> n, settled |-> 0]
  <1>6. new \in Account!Reservation /\ new.status = Account!Pending
    BY DEF Account!Reservation
  <1>7. resv' = [resv EXCEPT ![v] = new]
    BY DEF Account!Reserve
  <1> HIDE DEF new
  <1> QED
    BY <1>5, <1>6, <1>7 DEF AccountOK, Account!TypeOK, StatusIs

LEMMA SettleOK ==
  ASSUME AccountOK, NEW v \in Video, NEW o \in Account!Terminal, NEW n \in Nat,
         Account!Settle(v, o, n)
  PROVE  AccountOK' /\ StatusIs(v, o) /\ resv[v].status = Account!Pending
  <1>1. /\ Owner[v] \in User /\ wallet[Owner[v]] \in Account!Wallet
        /\ resv[v] \in Account!Reservation
    BY Points DEF AccountOK, Account!TypeOK
  <1>2. /\ wallet[Owner[v]].balance + (resv[v].reserved - n) \in Int
        /\ wallet[Owner[v]].spent + n \in Nat
    BY <1>1 DEF Account!Wallet, Account!Reservation
  <1>3. Account!Settled(wallet[Owner[v]], resv[v].reserved, n) \in Account!Wallet
    BY <1>1, <1>2 DEF Account!Settled, Account!Wallet
  <1>4. wallet' = [wallet EXCEPT ![Owner[v]] =
                     Account!Settled(wallet[Owner[v]], resv[v].reserved, n)]
    BY <1>1 DEF Account!Settle, AccountOK, Account!TypeOK
  <1>5. wallet' \in [User -> Account!Wallet]
    BY <1>1, <1>3, <1>4 DEF AccountOK, Account!TypeOK
  <1>6. resv' = [resv EXCEPT ![v] = [resv[v] EXCEPT !.status = o, !.settled = n]]
    BY <1>1 DEF Account!Settle, AccountOK, Account!TypeOK, Account!Reservation
  <1>7. /\ [resv[v] EXCEPT !.status = o, !.settled = n] \in Account!Reservation
        /\ [resv[v] EXCEPT !.status = o, !.settled = n].status = o
    BY <1>1 DEF Account!Reservation
  <1> QED
    BY <1>5, <1>6, <1>7 DEF AccountOK, Account!TypeOK, StatusIs, Account!Settle

LEMMA ConsumeOK ==
  ASSUME AccountOK, NEW u \in User, NEW n \in Nat, Account!Consume(u, n)
  PROVE  AccountOK' /\ resv' = resv
  <1>1. wallet[u] \in Account!Wallet
    BY DEF AccountOK, Account!TypeOK
  <1>2. wallet[u].balance - n \in Int /\ wallet[u].spent + n \in Nat
    BY <1>1 DEF Account!Wallet
  <1>3. Account!Consumed(wallet[u], n) \in Account!Wallet
    BY <1>1, <1>2 DEF Account!Consumed, Account!Wallet
  <1>4. wallet' = [wallet EXCEPT ![u] = Account!Consumed(wallet[u], n)] /\ resv' = resv
    BY DEF Account!Consume, AccountOK, Account!TypeOK
  <1> QED
    BY <1>3, <1>4 DEF AccountOK, Account!TypeOK

LEMMA AccountSame == AccountOK /\ UNCHANGED account => AccountOK'
  BY DEF AccountOK, Account!TypeOK, account

\* What a step may do to the reservations without freezing or charging any.
Calmer ==
    \A v \in Video :
      /\ resv'[v].status # Account!Unmade => resv[v].status # Account!Unmade
      /\ resv'[v].status = Account!Captured => resv[v].status = Account!Captured
      /\ resv'[v].status = Account!Pending => resv[v].status = Account!Pending

\* releaseReservationByKey: the reservation is not pending afterwards.
LEMMA ReleaseOK ==
  ASSUME Money, NEW v \in Video, ReleaseByKey(v)
  PROVE  Money' /\ resv'[v].status # Account!Pending /\ Calmer
  <1>1. CASE resv[v].status = Account!Pending
    <2>1. Account!Settle(v, Account!Released, 0)
      BY <1>1 DEF ReleaseByKey
    <2>2. Account!Released \in Account!Terminal
      BY Statuses
    <2>3. AccountOK' /\ StatusIs(v, Account!Released)
      BY <2>1, <2>2, SettleOK DEF Money
    <2> QED
      BY <1>1, <2>3, Statuses DEF StatusIs, Money, Calmer, HasKey
  <1>2. CASE resv[v].status # Account!Pending
    BY <1>2, AccountSame DEF ReleaseByKey, account, Money, Calmer, HasKey
  <1> QED
    BY <1>1, <1>2

LEMMA MoneySame == Money /\ UNCHANGED account => Money' /\ Calmer
  BY AccountSame DEF Money, account, Calmer, HasKey

-----------------------------------------------------------------------------
(* A step of one request                                                   *)

\* Request p's record becomes new.
Becomes(p, new) == proc' = [proc EXCEPT ![p] = new]

LEMMA BecomesIs ==
  ASSUME Requests, NEW p \in Proc, NEW new, Becomes(p, new)
  PROVE  /\ proc'[p] = new /\ \A q \in Proc \ {p} : proc'[q] = proc[q]
         /\ proc' = [q \in Proc |-> proc'[q]]
  BY DEF Requests, Becomes

LEMMA GotoIs ==
  ASSUME Requests, NEW p \in Proc, NEW l, Goto(p, l)
  PROVE  Becomes(p, [proc[p] EXCEPT !.at = l])
  BY DEF Requests, Becomes, Goto

LEMMA MovedIs ==
  ASSUME NEW r \in Request, NEW l \in Label
  PROVE  /\ [r EXCEPT !.at = l] \in Request
         /\ [r EXCEPT !.at = l].at = l /\ [r EXCEPT !.at = l].mine = r.mine
         /\ [r EXCEPT !.at = l].starts = r.starts /\ [r EXCEPT !.at = l].data = r.data
  BY DEF Request

LEMMA QuietIs ==
  ASSUME NEW l \in Label \ Pumping
  PROVE  /\ Quiet(l) \in Request /\ Quiet(l).at = l /\ Quiet(l).mine = NoVideo
         /\ Quiet(l).starts = 0 /\ Quiet(l).data = "none"
  BY Points, Statuses DEF Quiet, Request

LEMMA QuietSame ==
  ASSUME NEW l
  PROVE  [Quiet(l) EXCEPT !.mine = NoVideo, !.starts = 0] = Quiet(l)
  <1>1. [Quiet(l) EXCEPT !.mine = NoVideo] = Quiet(l)
    BY DEF Quiet
  <1>2. [Quiet(l) EXCEPT !.starts = 0] = Quiet(l)
    BY DEF Quiet
  <1>3. [Quiet(l) EXCEPT !.mine = NoVideo, !.starts = 0]
          = [[Quiet(l) EXCEPT !.mine = NoVideo] EXCEPT !.starts = 0]
    BY DEF Quiet
  <1> QED
    BY <1>1, <1>2, <1>3

\* External ids and successes stay.
Grows ==
    \A v \in Video : /\ row[v].ext => row'[v].ext
                     /\ provider[v] = "SUCCEEDED" => provider'[v] = "SUCCEEDED"

\* Whoever is submitting a video finds the rows as before.
LEMMA SubmitsKept ==
  ASSUME IInv, NEW q \in Proc,
         proc[q].mine # NoVideo =>
           /\ row'[proc[q].mine] = row[proc[q].mine]
           /\ provider'[proc[q].mine] = provider[proc[q].mine]
  PROVE  SubmitsOK(proc[q], row', provider')
  BY DEF IInv, Requests, Good, SubmitsOK

LEMMA OtherGood ==
  ASSUME IInv, Grows, NEW q \in Proc, SubmitsOK(proc[q], row', provider')
  PROVE  Good(q, proc[q], row', provider')
  <1>1. Good(q, proc[q], row, provider) /\ q[1] \in Video
    BY Procs DEF IInv, Requests
  <1> QED
    BY <1>1 DEF Good, AsksOK, Grows

LEMMA RequestStep ==
  ASSUME IInv, NEW p \in Proc, NEW new, Becomes(p, new), Grows,
         Good(p, new, row', provider'),
         \A q \in Proc \ {p} : SubmitsOK(proc[q], row', provider'),
         \A q \in Proc \ {p} : new.mine # NoVideo => proc[q].mine # new.mine,
         new.at # "reserve", new.at = "create" => proc[p].at = "reserve",
         \A v \in Video : row[v].status = "absent" /\ (p = Invoke(v) => new.at = "create")
                            => row'[v].status = "absent",
         \A v \in Video : p # Invoke(v) /\ resv[v].status = Account!Unmade
                            => resv'[v].status = Account!Unmade
  PROVE  Requests' /\ OneEach' /\ Fresh'
  <1>1. /\ proc'[p] = new /\ \A q \in Proc \ {p} : proc'[q] = proc[q]
        /\ proc' = [q \in Proc |-> proc'[q]]
    BY BecomesIs DEF IInv
  <1>2. Requests'
    BY <1>1, OtherGood DEF Requests
  <1>3. OneEach'
    BY <1>1 DEF IInv, OneEach
  <1>4. Fresh'
    <2> SUFFICES ASSUME NEW v \in Video
                 PROVE  /\ proc'[Invoke(v)].at \in {"reserve", "create"} => row'[v].status = "absent"
                        /\ proc'[Invoke(v)].at = "reserve" => resv'[v].status = Account!Unmade
      BY DEF Fresh, Account!Unmade
    <2>1. Invoke(v) \in Proc
      BY Procs
    <2>2. CASE p = Invoke(v)
      BY <1>1, <2>2 DEF IInv, Fresh
    <2>3. CASE p # Invoke(v)
      BY <1>1, <2>1, <2>3 DEF IInv, Fresh
    <2> QED
      BY <2>2, <2>3
  <1> QED
    BY <1>2, <1>3, <1>4

\* Who holds the points frozen for video v.
Held(v) ==
    \/ proc[Invoke(v)].at \in {"create", "release_own"}
    \/ row[v].status = "QUEUED"
    \/ \E p \in Proc : proc[p].mine = v
    \/ v \in attached

LEMMA HeldStep ==
  ASSUME IInv, NEW p \in Proc, NEW new, Becomes(p, new), NEW v \in Video,
         resv[v].status = Account!Pending, v \notin abandoned, attached \subseteq attached',
         p = Invoke(v) /\ proc[p].at \in {"create", "release_own"} => Held(v)',
         row[v].status = "QUEUED" => Held(v)',
         proc[p].mine = v => Held(v)'
  PROVE  Held(v)'
  <1>1. /\ proc'[p] = new /\ \A q \in Proc \ {p} : proc'[q] = proc[q]
    BY BecomesIs DEF IInv
  <1>2. Held(v)
    BY DEF IInv, PendingIsHeld, Held
  <1>3. CASE proc[Invoke(v)].at \in {"create", "release_own"}
    BY <1>1, <1>3, Procs DEF Held
  <1>4. CASE \E q \in Proc : proc[q].mine = v
    <2>1. PICK q \in Proc : proc[q].mine = v
      BY <1>4
    <2> QED
      BY <1>1, <2>1 DEF Held
  <1>5. CASE v \in attached
    BY <1>5 DEF Held
  <1> QED
    BY <1>2, <1>3, <1>4, <1>5 DEF Held

LEMMA PendingHeld ==
  ASSUME \A v \in Video \ abandoned' : resv'[v].status = Account!Pending => Held(v)'
  PROVE  PendingIsHeld'
  BY DEF PendingIsHeld, Held

\* Slots: nobody becomes active but who is in revived.
LEMMA SlotsKept ==
  ASSUME IInv, row' \in [Video -> Row], revived \subseteq revived',
         \A v \in Video : row'[v].status \in ActiveStatus
                            => row[v].status \in ActiveStatus \/ v \in revived'
  PROVE  SlotsRespected'
  <1>1. Active' \ revived' \subseteq Active \ revived
    BY DEF Active
  <1>2. IsFiniteSet(Active \ revived)
    BY Points, FS_Subset DEF Active
  <1>3. /\ Cardinality(Active' \ revived') <= Cardinality(Active \ revived)
        /\ Cardinality(Active' \ revived') \in Nat /\ Cardinality(Active \ revived) \in Nat
    BY <1>1, <1>2, FS_Subset, FS_CardinalityType
  <1>4. Cardinality(Active \ revived) <= Limit
    BY DEF IInv, SlotsRespected
  <1> QED
    BY <1>3, <1>4, Points DEF SlotsRespected

\* Charges: nothing is captured or charged, and successes stay.
LEMMA ChargesKept ==
  ASSUME IInv, Grows, charged' = charged,
         \A v \in Video : resv'[v].status = Account!Captured => resv[v].status = Account!Captured
  PROVE  ChargedIsDelivered'
  BY DEF IInv, ChargedIsDelivered, Grows, Account!Captured

LEMMA QueueKept ==
  ASSUME IInv, queue' = queue,
         \A v \in Video : row[v].status = "QUEUED" => row'[v].status = "QUEUED"
  PROVE  Queued'
  <1>1. \A i \in 1 .. Len(queue) : queue[i] \in Video
    BY ElementOfSeq DEF IInv, Queued
  <1> QED
    BY <1>1 DEF IInv, Queued

LEMMA UsageKept ==
  ASSUME IInv, Grows, usage' = usage
  PROVE  Usage'
  BY DEF IInv, Usage, Grows

LEMMA RestKept ==
  ASSUME IInv, UNCHANGED <<attached, logged, charged, history>>
  PROVE  Rest'
  BY DEF IInv, Rest, history

\* The state at a request.
LEMMA RequestIs ==
  ASSUME IInv, NEW p \in Proc
  PROVE  /\ Good(p, proc[p], row, provider) /\ proc[p] \in Request
         /\ p[1] \in Video /\ proc[p].at \in Label /\ proc[p].mine \in Video \cup {NoVideo}
         /\ proc[p].starts \in 0 .. Limit /\ proc[p].data \in Outcome
  BY Procs DEF IInv, Requests, Good, Request, Outcome

-----------------------------------------------------------------------------
(* Steps that leave rows, queue and provider alone                         *)

LEMMA StillRows ==
  ASSUME IInv, UNCHANGED <<row, queue, provider>>
  PROVE  /\ Rows' /\ Queued' /\ Grows
         /\ \A q \in Proc : SubmitsOK(proc[q], row', provider')
         /\ revived' = revived => SlotsRespected'
  <1>1. Rows' /\ Grows
    BY DEF IInv, Rows, Grows
  <1>2. Queued'
    BY QueueKept
  <1>3. \A q \in Proc : SubmitsOK(proc[q], row', provider')
    BY SubmitsKept
  <1>4. revived' = revived => SlotsRespected'
    BY DEF IInv, SlotsRespected, Active
  <1> QED
    BY <1>1, <1>2, <1>3, <1>4

\* A request moves on, with no video of its own before or after.
LEMMA MoveKeeps ==
  ASSUME IInv, NEW p \in Proc, NEW new, Becomes(p, new),
         Good(p, new, row, provider), new.mine = NoVideo, proc[p].mine = NoVideo,
         new.at \notin {"reserve", "create"},
         \A v \in Video : p = Invoke(v) /\ proc[p].at \in {"create", "release_own"} =>
           \/ new.at = "release_own" \/ v \in abandoned'
           \/ resv[v].status # Account!Pending,
         UNCHANGED <<row, queue, provider, account, attached, charged, revived>>,
         abandoned \subseteq abandoned', Usage', Rest'
  PROVE  IInv'
  <1>1. /\ Rows' /\ Queued' /\ Grows /\ SlotsRespected'
        /\ \A q \in Proc : SubmitsOK(proc[q], row', provider')
    BY StillRows
  <1>2. Money' /\ Calmer /\ resv' = resv
    BY MoneySame DEF IInv, account
  <1>3. Requests' /\ OneEach' /\ Fresh'
    <2>1. Good(p, new, row', provider')
      OBVIOUS
    <2> QED
      BY <1>1, <1>2, <2>1, RequestStep
  <1>4. ChargedIsDelivered'
    BY <1>1, <1>2, ChargesKept DEF Calmer
  <1>5. PendingIsHeld'
    <2> SUFFICES ASSUME NEW v \in Video \ abandoned', resv'[v].status = Account!Pending
                 PROVE  Held(v)'
      BY PendingHeld
    <2>1. /\ v \notin abandoned /\ resv[v].status = Account!Pending
          /\ row[v].status = "QUEUED" => Held(v)'
          /\ proc[p].mine = v => Held(v)'
      BY <1>2, Points DEF Held
    <2>2. proc'[p] = new
      BY BecomesIs DEF IInv
    <2>3. p = Invoke(v) /\ proc[p].at \in {"create", "release_own"} => Held(v)'
      BY <2>1, <2>2 DEF Held
    <2> QED
      BY <2>1, <2>3, HeldStep
  <1> QED
    BY <1>1, <1>2, <1>3, <1>4, <1>5 DEF IInv

LEMMA TellTyped ==
  ASSUME IInv, NEW v \in Video, NEW s, NEW end \in {"end", "unmatched"}, Tell(v, s, end)
  PROVE  told' \in [Video -> Answer]
  BY DEF IInv, Rest, Tell, Answer

\* The same without a fault.
LEMMA TellKeeps ==
  ASSUME IInv, NEW p \in Proc, NEW new, Becomes(p, new),
         Good(p, new, row, provider), new.mine = NoVideo, proc[p].mine = NoVideo,
         new.at \notin {"reserve", "create"}, proc[p].at \notin {"create", "release_own"},
         UNCHANGED <<row, queue, provider, account, attached, charged, abandoned, revived, faults>>,
         told' \in [Video -> Answer],
         logged' \in [Video -> SUBSET (Nat \cup {NoCost})],
         Usage'
  PROVE  IInv'
  <1>1. Rest'
    BY DEF IInv, Rest
  <1> QED
    BY <1>1, MoveKeeps

\* The same without an answer.
LEMMA GoKeeps ==
  ASSUME IInv, NEW p \in Proc, NEW new, Becomes(p, new),
         Good(p, new, row, provider), new.mine = NoVideo, proc[p].mine = NoVideo,
         new.at \notin {"reserve", "create"}, proc[p].at \notin {"create", "release_own"},
         UNCHANGED <<row, queue, provider, account, attached, charged, history>>,
         logged' \in [Video -> SUBSET (Nat \cup {NoCost})],
         Usage'
  PROVE  IInv'
  <1>1. told' \in [Video -> Answer]
    BY DEF IInv, Rest, history
  <1> QED
    BY <1>1, TellKeeps DEF history

LEMMA Respond_Keeps ==
  ASSUME IInv, NEW v \in Video, Respond(v)
  PROVE  IInv'
  <1> DEFINE p == Invoke(v)
             new == [proc[p] EXCEPT !.at = "done"]
  <1>1. p \in Proc
    BY Procs
  <1>2. proc[p].at = "respond" /\ Becomes(p, new)
    BY <1>1, GotoIs DEF Respond, At, IInv
  <1>3. Good(p, proc[p], row, provider) /\ proc[p] \in Request
    BY <1>1, RequestIs
  <1>4. /\ new \in Request /\ new.at = "done" /\ new.mine = proc[p].mine
        /\ new.data = proc[p].data
    BY <1>3, MovedIs DEF Label
  <1> HIDE DEF new
  <1>5. proc[p].mine = NoVideo /\ Good(p, new, row, provider)
    BY <1>2, <1>3, <1>4 DEF Good, Pumping, SubmitsOK, AsksOK, Asking, Settling
  <1>6. Usage' /\ logged' \in [Video -> SUBSET (Nat \cup {NoCost})]
    BY StillRows, UsageKept DEF Respond, billing, IInv, Rest
  <1>7. told' \in [Video -> Answer]
    BY TellTyped DEF Respond
  <1> HIDE DEF p
  <1> QED
    BY <1>1, <1>2, <1>4, <1>5, <1>6, <1>7, TellKeeps DEF Respond, billing

LEMMA Query_Keeps ==
  ASSUME IInv, NEW p \in Proc, Query(p)
  PROVE  IInv'
  <1> DEFINE new == [proc[p] EXCEPT !.at = "pump"]
  <1>2. proc[p].at = "idle" /\ Becomes(p, new)
    BY GotoIs DEF Query, At, IInv
  <1>3. Good(p, proc[p], row, provider) /\ proc[p] \in Request
    BY RequestIs
  <1>4. /\ new \in Request /\ new.at = "pump" /\ new.mine = proc[p].mine
        /\ new.data = proc[p].data
    BY <1>3, MovedIs DEF Label
  <1> HIDE DEF new
  <1>5. proc[p].mine = NoVideo /\ Good(p, new, row, provider)
    BY <1>2, <1>3, <1>4 DEF Good, Pumping, SubmitsOK, AsksOK, Asking, Settling
  <1>6. Usage' /\ logged' \in [Video -> SUBSET (Nat \cup {NoCost})]
    BY StillRows, UsageKept DEF Query, billing, IInv, Rest
  <1> QED
    BY <1>2, <1>4, <1>5, <1>6, GoKeeps DEF Query, billing

LEMMA Find_Keeps ==
  ASSUME IInv, NEW p \in Proc, Find(p)
  PROVE  IInv'
  <1> DEFINE v == p[1]
             ended == row[v].status \in EndStatus /\ row[v].resp # "none"
             l == IF ~row[v].ext THEN "idle" ELSE IF ended THEN "reservation" ELSE "fetch"
             d == IF row[v].ext /\ ended THEN row[v].resp ELSE proc[p].data
             new == [proc[p] EXCEPT !.at = l, !.data = d]
  <1>1. /\ Good(p, proc[p], row, provider) /\ proc[p] \in Request /\ v \in Video
    BY RequestIs
  <1>2. RowGood(row[v], provider[v])
    BY <1>1 DEF IInv, Rows
  <1>3. proc[p].at = "find" /\ Becomes(p, new)
    BY <1>1 DEF Find, At, Becomes, Goto, IInv, Requests, Request
  <1>4. l \in Label /\ d \in Outcome /\ l \in {"idle", "reservation", "fetch"}
    BY <1>1, <1>2 DEF Label, Request, RowGood, Row, Outcome
  <1>5. /\ new \in Request /\ new.at = l /\ new.mine = proc[p].mine /\ new.data = d
    BY <1>1, <1>4 DEF Request, Outcome
  <1>6. l # "idle" => row[v].ext
    OBVIOUS
  <1>7. l = "reservation" => d # "none"
    BY <1>1, <1>3 DEF Good, AsksOK, Asking
  <1>8. d = "SUCCEEDED" => provider[v] = "SUCCEEDED"
    BY <1>1, <1>2 DEF Good, AsksOK, RowGood
  <1> HIDE DEF new, l, d
  <1>9. proc[p].mine = NoVideo
    BY <1>1, <1>3 DEF Good, Pumping
  <1>10. Good(p, new, row, provider)
    BY <1>1, <1>4, <1>5, <1>6, <1>7, <1>8, <1>9
       DEF Good, Pumping, SubmitsOK, AsksOK, Asking, Settling
  <1>11. Usage' /\ logged' \in [Video -> SUBSET (Nat \cup {NoCost})]
    BY StillRows, UsageKept DEF Find, billing, IInv, Rest
  <1>12. told' \in [Video -> Answer]
    BY <1>1, TellTyped DEF Find, IInv, Rest
  <1> QED
    BY <1>3, <1>4, <1>5, <1>9, <1>10, <1>11, <1>12, TellKeeps DEF Find, billing

LEMMA Fetch_Keeps ==
  ASSUME IInv, NEW p \in Proc, Fetch(p)
  PROVE  IInv'
  <1> DEFINE v == p[1]
             new == [proc[p] EXCEPT !.at = "reservation", !.data = provider[v]]
  <1>1. /\ Good(p, proc[p], row, provider) /\ proc[p] \in Request /\ v \in Video
    BY RequestIs
  <1>2. RowGood(row[v], provider[v])
    BY <1>1 DEF IInv, Rows
  <1>3. proc[p].at = "fetch" /\ Becomes(p, new)
    BY <1>1 DEF Fetch, At, Becomes, IInv, Requests, Request
  <1>5. /\ new \in Request /\ new.at = "reservation" /\ new.mine = proc[p].mine
        /\ new.data = provider[v]
    BY <1>1, <1>2 DEF Request, RowGood, Outcome, Label
  <1> HIDE DEF new
  <1>9. proc[p].mine = NoVideo /\ row[v].ext
    BY <1>1, <1>3 DEF Good, Pumping, AsksOK, Asking
  <1>10. Good(p, new, row, provider)
    BY <1>1, <1>2, <1>5, <1>9
       DEF Good, Pumping, SubmitsOK, AsksOK, Asking, Settling, RowGood
  <1>11. Usage' /\ logged' \in [Video -> SUBSET (Nat \cup {NoCost})]
    BY StillRows, UsageKept DEF Fetch, billing, IInv, Rest
  <1> QED
    BY <1>3, <1>5, <1>9, <1>10, <1>11, GoKeeps DEF Fetch, billing

LEMMA ReadReservation_Keeps ==
  ASSUME IInv, NEW p \in Proc, ReadReservation(p)
  PROVE  IInv'
  <1> DEFINE v == p[1]
             s == IF v \in attached THEN resv[v].status ELSE Account!Unmade
             new == [proc[p] EXCEPT !.at = "usage", !.seen = s]
  <1>1. /\ Good(p, proc[p], row, provider) /\ proc[p] \in Request /\ v \in Video
    BY RequestIs
  <1>2. s \in Account!Terminal \cup {Account!Pending, Account!Unmade}
    BY <1>1 DEF IInv, Money, AccountOK, Account!TypeOK, Account!Reservation
  <1>3. proc[p].at = "reservation" /\ Becomes(p, new)
    BY <1>1 DEF ReadReservation, At, Becomes, IInv, Requests, Request
  <1>5. /\ new \in Request /\ new.at = "usage" /\ new.mine = proc[p].mine
        /\ new.data = proc[p].data
    BY <1>1, <1>2 DEF Request, Label
  <1> HIDE DEF new
  <1>9. proc[p].mine = NoVideo /\ row[v].ext
    BY <1>1, <1>3 DEF Good, Pumping, AsksOK, Asking
  <1>10. Good(p, new, row, provider)
    BY <1>1, <1>3, <1>5, <1>9
       DEF Good, Pumping, SubmitsOK, AsksOK, Asking, Settling
  <1>11. Usage' /\ logged' \in [Video -> SUBSET (Nat \cup {NoCost})]
    BY StillRows, UsageKept DEF ReadReservation, billing, IInv, Rest
  <1> QED
    BY <1>3, <1>5, <1>9, <1>10, <1>11, GoKeeps DEF ReadReservation, billing

\* The usage tasks of one video change.
LEMMA SetUsage ==
  ASSUME IInv, Grows, NEW v \in Video, NEW f \in [Stage -> Nat],
         usage' = [usage EXCEPT ![v] = f],
         f["record_charge"] > 0 \/ f["charge"] > 0 => provider[v] = "SUCCEEDED"
  PROVE  Usage'
  BY DEF IInv, Usage, Grows

LEMMA EnqueueKeeps ==
  ASSUME IInv, Grows, NEW v \in Video, NEW s \in Stage, Enqueue(v, s),
         s \in {"record_charge", "charge"} => provider[v] = "SUCCEEDED"
  PROVE  Usage'
  <1>1. usage \in [Video -> [Stage -> Nat]] /\ usage[v] \in [Stage -> Nat]
    BY DEF IInv, Usage
  <1> DEFINE f == [usage[v] EXCEPT ![s] = usage[v][s] + 1]
  <1>2. f \in [Stage -> Nat] /\ f[s] = usage[v][s] + 1 /\ \A x \in Stage \ {s} : f[x] = usage[v][x]
    BY <1>1
  <1>3. usage' = [usage EXCEPT ![v] = f] \/ usage' = usage
    BY <1>1 DEF Enqueue
  <1> HIDE DEF f
  <1>4. f["record_charge"] > 0 \/ f["charge"] > 0 => provider[v] = "SUCCEEDED"
    BY <1>2 DEF IInv, Usage, Stage
  <1> QED
    BY <1>2, <1>3, <1>4, SetUsage, UsageKept

LEMMA ReadUsage_Keeps ==
  ASSUME IInv, NEW p \in Proc, ReadUsage(p)
  PROVE  IInv'
  <1> DEFINE v == p[1]
             recorded == logged[v] # {}
             seen == proc[p].seen
             data == proc[p].data
             stage == IF seen = Account!Unmade THEN "record_charge" ELSE "record_free"
             l == IF data = "SUCCEEDED"
                  THEN IF seen = Account!Pending THEN "settle"
                       ELSE IF recorded /\ seen = Account!Captured THEN "price" ELSE "finish"
                  ELSE IF data = "FAILED" /\ seen = Account!Pending THEN "settle" ELSE "refresh"
             new == [proc[p] EXCEPT !.at = l]
  <1>1. /\ Good(p, proc[p], row, provider) /\ proc[p] \in Request /\ v \in Video
    BY RequestIs
  <1>2. proc[p].at = "usage"
    BY DEF ReadUsage, At
  <1>3. Becomes(p, new)
    <2>1. Goto(p, l)
      BY DEF ReadUsage
    <2> QED
      BY <2>1, GotoIs DEF IInv
  <1>4. /\ l \in Label /\ l \in {"settle", "price", "finish", "refresh"}
        /\ l \in Settling => data \in EndStatus
    BY DEF Label, Settling, EndStatus
  <1>5. /\ new \in Request /\ new.at = l /\ new.mine = proc[p].mine /\ new.data = data
    BY <1>1, <1>4, MovedIs
  <1>6. /\ UNCHANGED <<row, queue, provider, account, attached, logged, charged, history>>
        /\ (data = "SUCCEEDED" /\ Enqueue(v, stage)) \/ usage' = usage
    BY DEF ReadUsage
  <1>7. Grows
    BY <1>6, StillRows
  <1>8. Usage'
    <2>1. data = "SUCCEEDED" => provider[v] = "SUCCEEDED"
      BY <1>1 DEF Good, AsksOK
    <2>2. stage \in Stage
      BY DEF Stage
    <2> QED
      BY <1>1, <1>6, <1>7, <2>1, <2>2, EnqueueKeeps, UsageKept
  <1> HIDE DEF new, l, stage
  <1>9. proc[p].mine = NoVideo
    BY <1>1, <1>2 DEF Good, Pumping
  <1>10. Good(p, new, row, provider)
    BY <1>1, <1>2, <1>4, <1>5, <1>9
       DEF Good, Pumping, SubmitsOK, AsksOK, Asking, Settling
  <1>11. logged' \in [Video -> SUBSET (Nat \cup {NoCost})]
    BY <1>6 DEF IInv, Rest
  <1> QED
    BY <1>2, <1>3, <1>4, <1>5, <1>6, <1>8, <1>9, <1>10, <1>11, GoKeeps

\* The points of a video in its usage rows.
LEMMA PriceOK ==
  ASSUME IInv, NEW v \in Video, PriceLogged(v)
  PROVE  logged' \in [Video -> SUBSET (Nat \cup {NoCost})]
  <1>1. {Cost[v] : cost \in logged[v]} \in SUBSET (Nat \cup {NoCost})
    BY Points
  <1> QED
    BY <1>1 DEF PriceLogged, IInv, Rest

LEMMA Price_Keeps ==
  ASSUME IInv, NEW p \in Proc, Price(p)
  PROVE  IInv'
  <1> DEFINE new == [proc[p] EXCEPT !.at = "finish"]
  <1>1. /\ Good(p, proc[p], row, provider) /\ proc[p] \in Request /\ p[1] \in Video
    BY RequestIs
  <1>2. proc[p].at = "price" /\ Becomes(p, new)
    BY GotoIs DEF Price, At, IInv
  <1>4. /\ new \in Request /\ new.at = "finish" /\ new.mine = proc[p].mine
        /\ new.data = proc[p].data
    BY <1>1, MovedIs DEF Label
  <1> HIDE DEF new
  <1>5. proc[p].mine = NoVideo /\ Good(p, new, row, provider)
    BY <1>1, <1>2, <1>4 DEF Good, Pumping, SubmitsOK, AsksOK, Asking, Settling
  <1>6. Usage'
    BY StillRows, UsageKept DEF Price
  <1>7. logged' \in [Video -> SUBSET (Nat \cup {NoCost})]
    BY <1>1, PriceOK DEF Price
  <1> QED
    BY <1>2, <1>4, <1>5, <1>6, <1>7, GoKeeps DEF Price

-----------------------------------------------------------------------------
(* The invocation and the settlement                                       *)

LEMMA Reserve_Keeps ==
  ASSUME IInv, NEW v \in Video, Reserve(v)
  PROVE  IInv'
  <1> DEFINE p == Invoke(v)
             made == HasKey(v) /\ wallet[Owner[v]].balance >= Estimate[v]
             l == IF HasKey(v) /\ ~made THEN "failed" ELSE "create"
             new == [proc[p] EXCEPT !.at = l]
  <1>1. p \in Proc /\ p[1] = v
    BY Procs
  <1>2. /\ Good(p, proc[p], row, provider) /\ proc[p] \in Request
    BY <1>1, RequestIs
  <1>3. proc[p].at = "reserve" /\ row[v].status = "absent" /\ resv[v].status = Account!Unmade
    BY DEF Reserve, At, IInv, Fresh
  <1>4. Becomes(p, new)
    <2>1. Goto(p, l)
      BY DEF Reserve
    <2> QED
      BY <1>1, <2>1, GotoIs DEF IInv
  <1>5. l \in Label /\ l \in {"failed", "create"}
    BY DEF Label
  <1>6. new \in Request /\ new.at = l /\ new.mine = proc[p].mine /\ new.data = proc[p].data
    BY <1>2, <1>5, MovedIs
  <1>7. /\ UNCHANGED <<row, queue, provider, attached, billing, history>>
        /\ \/ made /\ l = "create" /\ Account!Reserve(v, Estimate[v])
           \/ ~made /\ UNCHANGED account
    BY DEF Reserve
  <1>8. /\ Rows' /\ Queued' /\ Grows /\ SlotsRespected'
        /\ \A q \in Proc : SubmitsOK(proc[q], row', provider')
    BY <1>7, StillRows DEF history
  <1>9. /\ Money' /\ \A x \in Video \ {v} : resv'[x] = resv[x]
        /\ (resv'[v].status = Account!Pending /\ l = "create") \/ resv'[v] = resv[v]
    <2>1. CASE made
      <3>1. AccountOK' /\ StatusIs(v, Account!Pending)
        BY <1>7, <2>1, Points, ReserveOK DEF IInv, Money
      <3> QED
        BY <1>7, <2>1, <3>1, Statuses DEF IInv, Money, StatusIs, HasKey
    <2>2. CASE ~made
      BY <1>7, <2>2, MoneySame DEF IInv, account
    <2> QED
      BY <2>1, <2>2
  <1> HIDE DEF new, l, made
  <1>10. proc[p].mine = NoVideo /\ Good(p, new, row', provider')
    BY <1>1, <1>2, <1>3, <1>5, <1>6, <1>7 DEF Good, Pumping, SubmitsOK, AsksOK, Asking, Settling
  <1>11. Requests' /\ OneEach' /\ Fresh'
    <2>1. \A w \in Video : p # Invoke(w) => w # v
      OBVIOUS
    <2> QED
      BY <1>1, <1>3, <1>4, <1>5, <1>6, <1>7, <1>8, <1>9, <1>10, <2>1, RequestStep
  <1>12. Usage' /\ Rest'
    BY <1>7, <1>8, UsageKept, RestKept DEF billing
  <1>13. ChargedIsDelivered'
    BY <1>3, <1>7, <1>8, <1>9, ChargesKept, Statuses DEF billing
  <1>14. PendingIsHeld'
    <2> SUFFICES ASSUME NEW w \in Video \ abandoned', resv'[w].status = Account!Pending
                 PROVE  Held(w)'
      BY PendingHeld
    <2>1. proc'[p] = new
      BY <1>1, <1>4, BecomesIs DEF IInv
    <2>2. CASE w = v
      BY <1>3, <1>6, <1>9, <2>1, <2>2, Statuses DEF Held
    <2>3. CASE w # v
      <3>1. /\ w \notin abandoned /\ resv[w].status = Account!Pending
            /\ row[w].status = "QUEUED" => Held(w)'
            /\ p # Invoke(w) /\ proc[p].mine # w
        BY <1>7, <1>9, <1>10, <2>3, Points, Procs DEF Held, history
      <3> QED
        BY <1>1, <1>4, <1>7, <3>1, HeldStep
    <2> QED
      BY <2>2, <2>3
  <1> QED
    BY <1>8, <1>9, <1>11, <1>12, <1>13, <1>14 DEF IInv

LEMMA ReleaseOwn_Keeps ==
  ASSUME IInv, NEW v \in Video, ReleaseOwn(v)
  PROVE  IInv'
  <1> DEFINE p == Invoke(v)
             new == [proc[p] EXCEPT !.at = "failed"]
  <1>1. p \in Proc /\ p[1] = v
    BY Procs
  <1>2. /\ Good(p, proc[p], row, provider) /\ proc[p] \in Request
    BY <1>1, RequestIs
  <1>3. proc[p].at = "release_own" /\ Becomes(p, new)
    BY <1>1, GotoIs DEF ReleaseOwn, At, IInv
  <1>4. new \in Request /\ new.at = "failed" /\ new.mine = proc[p].mine /\ new.data = proc[p].data
    BY <1>2, MovedIs DEF Label
  <1>5. UNCHANGED <<row, queue, provider, attached, billing, history>>
    BY DEF ReleaseOwn
  <1>6. /\ Rows' /\ Queued' /\ Grows /\ SlotsRespected'
        /\ \A q \in Proc : SubmitsOK(proc[q], row', provider')
    BY <1>5, StillRows DEF history
  <1>7. Money' /\ Calmer /\ resv'[v].status # Account!Pending
    BY ReleaseOK DEF ReleaseOwn, IInv
  <1> HIDE DEF new
  <1>8. proc[p].mine = NoVideo /\ Good(p, new, row', provider')
    BY <1>1, <1>2, <1>3, <1>4, <1>5 DEF Good, Pumping, SubmitsOK, AsksOK, Asking, Settling
  <1>9. Requests' /\ OneEach' /\ Fresh'
    BY <1>1, <1>3, <1>4, <1>5, <1>6, <1>7, <1>8, RequestStep DEF Calmer
  <1>10. Usage' /\ Rest' /\ ChargedIsDelivered'
    BY <1>5, <1>6, <1>7, UsageKept, RestKept, ChargesKept DEF billing, Calmer
  <1>11. PendingIsHeld'
    <2> SUFFICES ASSUME NEW w \in Video \ abandoned', resv'[w].status = Account!Pending
                 PROVE  Held(w)'
      BY PendingHeld
    <2>1. /\ w \notin abandoned /\ resv[w].status = Account!Pending /\ w # v
          /\ row[w].status = "QUEUED" => Held(w)'
          /\ p # Invoke(w) /\ proc[p].mine # w
      BY <1>5, <1>7, <1>8, Points, Procs DEF Held, history, Calmer
    <2> QED
      BY <1>1, <1>3, <1>5, <2>1, HeldStep
  <1> QED
    BY <1>6, <1>7, <1>9, <1>10, <1>11 DEF IInv

LEMMA Settle_Keeps ==
  ASSUME IInv, NEW p \in Proc, Settle(p)
  PROVE  IInv'
  <1> DEFINE v == p[1]
             success == proc[p].data = "SUCCEEDED"
             o == IF success THEN Account!Captured ELSE Account!Released
             n == IF success THEN Cost[v] ELSE 0
             l == IF success THEN "price" ELSE "finish"
             new == [proc[p] EXCEPT !.at = l]
  <1>1. /\ Good(p, proc[p], row, provider) /\ proc[p] \in Request /\ v \in Video
    BY RequestIs
  <1>2. proc[p].at = "settle" /\ Becomes(p, new)
    BY GotoIs DEF Settle, At, IInv
  <1>3. l \in Label /\ l \in {"price", "finish"}
    BY DEF Label
  <1>4. new \in Request /\ new.at = l /\ new.mine = proc[p].mine /\ new.data = proc[p].data
    BY <1>1, <1>3, MovedIs
  <1>5. UNCHANGED <<row, queue, provider, attached, billing, history>>
    BY DEF Settle
  <1>6. /\ Rows' /\ Queued' /\ Grows /\ SlotsRespected'
        /\ \A q \in Proc : SubmitsOK(proc[q], row', provider')
    BY <1>5, StillRows DEF history
  <1>7. success => provider[v] = "SUCCEEDED"
    BY <1>1 DEF Good, AsksOK
  <1>8. /\ Money' /\ \A x \in Video \ {v} : resv'[x] = resv[x]
        /\ resv'[v].status = Account!Captured =>
             resv[v].status = Account!Captured \/ provider[v] = "SUCCEEDED"
        /\ resv'[v].status # Account!Pending
        /\ resv'[v].status # Account!Unmade => resv[v].status # Account!Unmade
    <2>1. CASE resv[v].status = Account!Pending
      <3>1. Account!Settle(v, o, n)
        BY <2>1 DEF Settle
      <3>2. o \in Account!Terminal /\ n \in Nat
        BY <1>1, Points, Statuses
      <3>3. AccountOK' /\ StatusIs(v, o)
        BY <1>1, <3>1, <3>2, SettleOK DEF IInv, Money
      <3> HIDE DEF n
      <3> QED
        BY <1>1, <1>7, <2>1, <3>3, Statuses DEF StatusIs, Money, HasKey, IInv
    <2>2. CASE resv[v].status # Account!Pending
      <3>1. UNCHANGED account
        BY <2>2 DEF Settle
      <3> QED
        BY <3>1, <2>2, MoneySame DEF IInv, account
    <2> QED
      BY <2>1, <2>2
  <1> HIDE DEF new, l
  <1>9. proc[p].mine = NoVideo /\ Good(p, new, row', provider')
    BY <1>1, <1>2, <1>3, <1>4, <1>5 DEF Good, Pumping, SubmitsOK, AsksOK, Asking, Settling
  <1>10. Requests' /\ OneEach' /\ Fresh'
    <2>1. /\ new.at # "reserve" /\ new.at # "create" /\ proc[p].at # "create"
          /\ \A w \in Video : row'[w] = row[w]
          /\ \A w \in Video : resv[w].status = Account!Unmade => resv'[w].status = Account!Unmade
      BY <1>2, <1>3, <1>4, <1>5, <1>8
    <2> QED
      BY <1>2, <1>4, <1>6, <1>9, <2>1, RequestStep
  <1>11. Usage' /\ Rest'
    BY <1>5, <1>6, UsageKept, RestKept DEF billing
  <1>12. ChargedIsDelivered'
    BY <1>5, <1>8, Statuses DEF IInv, ChargedIsDelivered, billing
  <1>13. PendingIsHeld'
    <2> SUFFICES ASSUME NEW w \in Video \ abandoned', resv'[w].status = Account!Pending
                 PROVE  Held(w)'
      BY PendingHeld
    <2>1. /\ w \notin abandoned /\ resv[w].status = Account!Pending
          /\ row[w].status = "QUEUED" => Held(w)'
          /\ proc[p].mine # w
          /\ proc[p].at \notin {"create", "release_own"}
      BY <1>2, <1>5, <1>8, <1>9, Points DEF Held, history
    <2> QED
      BY <1>2, <1>5, <2>1, HeldStep
  <1> QED
    BY <1>6, <1>8, <1>10, <1>11, <1>12, <1>13 DEF IInv

LEMMA QueuedIs ==
  ASSUME IInv, NEW v \in Video, row[v].status \in Unsubmitted
  PROVE  /\ ~row[v].ext /\ provider[v] = "none" /\ \A q \in Proc : proc[q].mine # v
         /\ row[v].status = "absent" => \A i \in 1 .. Len(queue) : queue[i] # v
  <1>1. ~row[v].ext /\ provider[v] = "none"
    BY DEF IInv, Rows, RowGood
  <1>2. \A q \in Proc : proc[q].mine # v
    BY Points DEF IInv, Requests, Good, SubmitsOK
  <1>3. row[v].status = "absent" => \A i \in 1 .. Len(queue) : queue[i] # v
    BY DEF IInv, Queued
  <1> QED
    BY <1>1, <1>2, <1>3

\* One row's status is written, to one that an ended or running row may have.
LEMMA SetStatus ==
  ASSUME IInv, NEW v \in Video, NEW s \in {"QUEUED", "SUBMITTING", "FAILED"},
         row' = [row EXCEPT ![v].status = s], provider' = provider,
         s = "QUEUED" => row[v].status = "absent"
  PROVE  /\ Rows' /\ Grows /\ row'[v].status = s /\ row'[v].ext = row[v].ext
         /\ \A w \in Video \ {v} : row'[w] = row[w]
  <1>1. RowGood(row[v], provider[v]) /\ row[v] \in Row
    BY DEF IInv, Rows, RowGood
  <1> DEFINE r == [row[v] EXCEPT !.status = s]
  <1>2. /\ r \in Row /\ r.status = s /\ r.ext = row[v].ext /\ r.resp = row[v].resp
    BY <1>1 DEF Row, ActiveStatus, EndStatus
  <1>3. row' = [row EXCEPT ![v] = r]
    BY DEF IInv, Rows
  <1> HIDE DEF r
  <1>4. /\ row' \in [Video -> Row] /\ row'[v] = r
        /\ \A w \in Video \ {v} : row'[w] = row[w]
    BY <1>2, <1>3 DEF IInv, Rows
  <1>5. RowGood(r, provider[v])
    BY <1>1, <1>2 DEF RowGood, Unsubmitted
  <1>6. Rows'
    BY <1>4, <1>5 DEF IInv, Rows
  <1> QED
    BY <1>2, <1>4, <1>6 DEF Grows

LEMMA CreateRow_Keeps ==
  ASSUME IInv, NEW v \in Video, CreateRow(v)
  PROVE  IInv'
  <1> DEFINE p == Invoke(v)
             new == [proc[p] EXCEPT !.at = "pump"]
  <1>1. p \in Proc /\ p[1] = v
    BY Procs
  <1>2. /\ Good(p, proc[p], row, provider) /\ proc[p] \in Request
    BY <1>1, RequestIs
  <1>3. proc[p].at = "create" /\ Becomes(p, new) /\ row[v].status = "absent"
    BY <1>1, GotoIs DEF CreateRow, At, IInv, Fresh
  <1>4. new \in Request /\ new.at = "pump" /\ new.mine = proc[p].mine /\ new.data = proc[p].data
    BY <1>2, MovedIs DEF Label
  <1>5. /\ UNCHANGED <<provider, account, attached, billing, history>>
        /\ row' = [row EXCEPT ![v].status = "QUEUED"] /\ queue' = Append(queue, v)
    BY DEF CreateRow
  <1>6. /\ Rows' /\ Grows /\ row'[v].status = "QUEUED"
        /\ \A w \in Video \ {v} : row'[w] = row[w]
    BY <1>3, <1>5, SetStatus
  <1>7. /\ \A q \in Proc : proc[q].mine # v
        /\ \A i \in 1 .. Len(queue) : queue[i] # v
    BY <1>3, QueuedIs DEF Unsubmitted
  <1>8. \A q \in Proc : SubmitsOK(proc[q], row', provider')
    <2> SUFFICES ASSUME NEW q \in Proc
                 PROVE  SubmitsOK(proc[q], row', provider')
      OBVIOUS
    <2>1. proc[q].mine \in Video \cup {NoVideo} /\ proc[q].mine # v
      BY <1>7, RequestIs
    <2> QED
      BY <1>5, <1>6, <2>1, SubmitsKept
  <1> HIDE DEF new
  <1>9. proc[p].mine = NoVideo /\ Good(p, new, row', provider')
    BY <1>1, <1>2, <1>3, <1>4, <1>5, <1>6
       DEF Good, Pumping, SubmitsOK, AsksOK, Asking, Settling
  <1>10. Money' /\ Calmer /\ resv' = resv
    BY <1>5, MoneySame DEF IInv, account
  <1>11. Requests' /\ OneEach' /\ Fresh'
    <2>1. \A w \in Video : row[w].status = "absent" /\ (p = Invoke(w) => new.at = "create")
                             => row'[w].status = "absent"
      BY <1>4, <1>6
    <2> QED
      BY <1>1, <1>3, <1>4, <1>6, <1>8, <1>9, <1>10, <2>1, RequestStep
  <1>12. Queued'
    <2>1. queue \in Seq(Video) /\ Len(queue) \in Nat
      BY DEF IInv, Queued
    <2>2. queue' \in Seq(Video) /\ Len(queue') = Len(queue) + 1
      BY <1>5, <2>1, AppendProperties
    <2>3. /\ \A i \in 1 .. Len(queue) : queue'[i] = queue[i] /\ queue[i] \in Video
          /\ queue'[Len(queue) + 1] = v
      BY <1>5, <2>1, AppendProperties, ElementOfSeq
    <2>4. \A i \in 1 .. Len(queue') : row'[queue'[i]].status = "QUEUED"
      BY <1>6, <1>7, <2>1, <2>2, <2>3 DEF IInv, Queued
    <2>5. \A i, j \in 1 .. Len(queue') : queue'[i] = queue'[j] => i = j
      BY <1>7, <2>1, <2>2, <2>3 DEF IInv, Queued
    <2> QED
      BY <2>2, <2>4, <2>5 DEF Queued
  <1>13. SlotsRespected'
    BY <1>5, <1>6, SlotsKept DEF Rows, history, ActiveStatus
  <1>14. Usage' /\ Rest' /\ ChargedIsDelivered'
    BY <1>5, <1>6, <1>10, UsageKept, RestKept, ChargesKept DEF billing, Calmer
  <1>15. PendingIsHeld'
    <2> SUFFICES ASSUME NEW w \in Video \ abandoned', resv'[w].status = Account!Pending
                 PROVE  Held(w)'
      BY PendingHeld
    <2>1. CASE w = v
      BY <1>6, <2>1 DEF Held
    <2>2. CASE w # v
      <3>1. /\ w \notin abandoned /\ resv[w].status = Account!Pending
            /\ row[w].status = "QUEUED" => Held(w)'
            /\ p # Invoke(w) /\ proc[p].mine # w
        BY <1>5, <1>6, <1>9, <1>10, <2>2, Points, Procs DEF Held, history
      <3> QED
        BY <1>1, <1>3, <1>5, <3>1, HeldStep
    <2> QED
      BY <2>1, <2>2
  <1> QED
    BY <1>6, <1>10, <1>11, <1>12, <1>13, <1>14, <1>15 DEF IInv

-----------------------------------------------------------------------------
(* The pump                                                                *)

LEMMA PumpClaim_Keeps ==
  ASSUME IInv, NEW p \in Proc, PumpClaim(p)
  PROVE  IInv'
  <1>1. /\ Good(p, proc[p], row, provider) /\ proc[p] \in Request /\ p[1] \in Video
        /\ proc[p].starts \in 0 .. Limit
    BY RequestIs
  <1>2. /\ proc[p].at = "pump" /\ proc[p].mine = NoVideo
        /\ UNCHANGED <<provider, account, attached, billing, history>>
    BY <1>1 DEF PumpClaim, At, Good, Pumping
  <1>3. CASE proc[p].starts = Limit \/ Cardinality(Active) >= Limit \/ queue = <<>>
    <2> DEFINE l == IF IsInvoke(p) THEN "respond" ELSE "find"
               new == [proc[p] EXCEPT !.at = l, !.starts = 0]
    <2>1. Becomes(p, new) /\ UNCHANGED <<row, queue>>
      BY <1>1, <1>3 DEF PumpClaim, Becomes, IInv, Requests, Request
    <2>2. l \in Label /\ l \in {"respond", "find"}
      BY DEF Label
    <2> HIDE DEF l
    <2>3. /\ new \in Request /\ new.at = l /\ new.mine = proc[p].mine
          /\ new.data = proc[p].data
      <3>1. 0 \in 0 .. Limit
        BY Points
      <3> QED
        BY <1>1, <2>2, <3>1 DEF Request
    <2> HIDE DEF new
    <2>4. Good(p, new, row, provider)
      BY <1>1, <1>2, <2>2, <2>3 DEF Good, Pumping, SubmitsOK, AsksOK, Asking, Settling
    <2>5. Usage' /\ logged' \in [Video -> SUBSET (Nat \cup {NoCost})]
      BY <1>2, <2>1, StillRows, UsageKept DEF billing, IInv, Rest
    <2> QED
      BY <1>2, <2>1, <2>2, <2>3, <2>4, <2>5, GoKeeps DEF billing
  <1>4. CASE ~(proc[p].starts = Limit \/ Cardinality(Active) >= Limit \/ queue = <<>>)
    <2> DEFINE v == Head(queue)
               new == [proc[p] EXCEPT !.at = "submit", !.mine = v]
    <2>1. /\ queue \in Seq(Video) /\ queue # <<>> /\ Len(queue) \in Nat /\ Len(queue) >= 1
          /\ v = queue[1] /\ v \in Video
      BY <1>4, HeadTailProperties, EmptySeq DEF IInv, Queued
    <2>2. row[v].status = "QUEUED"
      BY <2>1 DEF IInv, Queued
    <2>3. /\ Becomes(p, new) /\ row' = [row EXCEPT ![v].status = "SUBMITTING"]
          /\ queue' = Tail(queue)
      BY <1>1, <1>4 DEF PumpClaim, Becomes, IInv, Requests, Request
    <2>4. /\ new \in Request /\ new.at = "submit" /\ new.mine = v
          /\ new.data = proc[p].data /\ new.starts = proc[p].starts
      BY <1>1, <2>1 DEF Request, Label, Pumping
    <2> HIDE DEF new, v
    <2>5. /\ Rows' /\ Grows /\ row'[v].status = "SUBMITTING" /\ row'[v].ext = row[v].ext
          /\ \A w \in Video \ {v} : row'[w] = row[w]
      BY <1>2, <2>1, <2>3, SetStatus
    <2>6. /\ ~row[v].ext /\ provider[v] = "none" /\ \A q \in Proc : proc[q].mine # v
      BY <2>1, <2>2, QueuedIs DEF Unsubmitted
    <2>7. \A q \in Proc : SubmitsOK(proc[q], row', provider')
      <3> SUFFICES ASSUME NEW q \in Proc
                   PROVE  SubmitsOK(proc[q], row', provider')
        OBVIOUS
      <3>1. proc[q].mine \in Video \cup {NoVideo} /\ proc[q].mine # v
        BY <2>6, RequestIs
      <3> QED
        BY <1>2, <2>5, <3>1, SubmitsKept
    <2>8. Good(p, new, row', provider')
      <3>1. proc[p].starts < Limit
        BY <1>1, <1>4, Points
      <3>2. SubmitsOK(new, row', provider')
        BY <1>2, <2>4, <2>5, <2>6, <3>1 DEF SubmitsOK, Unsubmitted
      <3>3. AsksOK(p[1], new, row', provider')
        BY <1>1, <1>2, <2>4 DEF Good, AsksOK, Asking, Settling
      <3> QED
        BY <2>1, <2>4, <3>2, <3>3, Points DEF Good, Pumping
    <2>9. Money' /\ Calmer /\ resv' = resv
      BY <1>2, MoneySame DEF IInv, account
    <2>10. Requests' /\ OneEach' /\ Fresh'
      <3>1. \A w \in Video : row[w].status = "absent" => row'[w].status = "absent"
        BY <2>2, <2>5
      <3> QED
        BY <2>3, <2>4, <2>5, <2>6, <2>7, <2>8, <2>9, <3>1, RequestStep
    <2>11. Queued'
      <3>1. /\ queue' \in Seq(Video) /\ Len(queue') = Len(queue) - 1
            /\ \A i \in 1 .. Len(queue') : queue'[i] = queue[i + 1]
        BY <2>1, <2>3, HeadTailProperties
      <3>2. \A i \in 1 .. Len(queue') : queue'[i] \in Video /\ queue'[i] # v
        BY <2>1, <3>1, ElementOfSeq DEF IInv, Queued
      <3>3. \A i \in 1 .. Len(queue') : row'[queue'[i]].status = "QUEUED"
        BY <2>1, <2>5, <3>1, <3>2 DEF IInv, Queued
      <3>4. \A i, j \in 1 .. Len(queue') : queue'[i] = queue'[j] => i = j
        BY <2>1, <3>1 DEF IInv, Queued
      <3> QED
        BY <3>1, <3>3, <3>4 DEF Queued
    <2>12. SlotsRespected'
      <3>1. Active' \subseteq Active \cup {v} /\ v \notin Active
        BY <2>2, <2>5 DEF Active, ActiveStatus
      <3>2. IsFiniteSet(Active) /\ Cardinality(Active) \in Nat
        BY Points, FS_Subset, FS_CardinalityType DEF Active
      <3>3. /\ Cardinality(Active \cup {v}) = Cardinality(Active) + 1
            /\ IsFiniteSet(Active \cup {v})
        BY <3>1, <3>2, FS_AddElement
      <3>4. /\ Cardinality(Active' \ revived') <= Cardinality(Active \cup {v})
            /\ Cardinality(Active' \ revived') \in Nat
        BY <3>1, <3>3, FS_Subset, FS_CardinalityType
      <3> QED
        BY <1>4, <3>2, <3>3, <3>4, Points DEF SlotsRespected
    <2>13. Usage' /\ Rest' /\ ChargedIsDelivered'
      BY <1>2, <2>5, <2>9, UsageKept, RestKept, ChargesKept DEF billing, Calmer
    <2>14. PendingIsHeld'
      <3> SUFFICES ASSUME NEW w \in Video \ abandoned', resv'[w].status = Account!Pending
                   PROVE  Held(w)'
        BY PendingHeld
      <3>1. proc'[p] = new
        BY <2>3, BecomesIs DEF IInv
      <3>2. CASE w = v
        BY <2>4, <3>1, <3>2 DEF Held
      <3>3. CASE w # v
        <4>1. /\ w \notin abandoned /\ resv[w].status = Account!Pending
              /\ row[w].status = "QUEUED" => Held(w)'
              /\ proc[p].at \notin {"create", "release_own"} /\ proc[p].mine # w
          BY <1>2, <2>5, <2>9, <3>3, Points DEF Held, history
        <4> QED
          BY <1>2, <2>3, <4>1, HeldStep
      <3> QED
        BY <3>2, <3>3
    <2> QED
      BY <2>5, <2>9, <2>10, <2>11, <2>12, <2>13, <2>14 DEF IInv
  <1> QED
    BY <1>3, <1>4

\* A request that is submitting video v goes on with it or leaves it.
LEMMA SubmissionKeeps ==
  ASSUME IInv, NEW p \in Proc, NEW v \in Video, proc[p].mine = v, NEW new, Becomes(p, new),
         Good(p, new, row', provider'), new.mine \in {v, NoVideo},
         new.at \notin {"reserve", "create"},
         Rows', Grows, Money', Calmer,
         \A w \in Video \ {v} : row'[w] = row[w] /\ provider'[w] = provider[w],
         row'[v].status \in ActiveStatus => row[v].status \in ActiveStatus,
         new.mine = NoVideo => \/ v \in attached' \cup abandoned'
                               \/ resv'[v].status # Account!Pending,
         attached \subseteq attached', abandoned \subseteq abandoned', Rest',
         UNCHANGED <<queue, billing, revived>>
  PROVE  IInv'
  <1>1. /\ Good(p, proc[p], row, provider) /\ proc[p] \in Request
        /\ row[v].status \notin Unsubmitted /\ proc[p].at \in Pumping
    BY RequestIs, Points DEF Good, SubmitsOK
  <1>2. \A q \in Proc \ {p} : proc[q].mine # v
    BY Points DEF IInv, OneEach
  <1>3. \A q \in Proc \ {p} : SubmitsOK(proc[q], row', provider')
    <2> SUFFICES ASSUME NEW q \in Proc \ {p}
                 PROVE  SubmitsOK(proc[q], row', provider')
      OBVIOUS
    <2>1. proc[q].mine \in Video \cup {NoVideo} /\ proc[q].mine # v
      BY <1>2, RequestIs
    <2> QED
      BY <2>1, SubmitsKept
  <1>4. Requests' /\ OneEach' /\ Fresh'
    <2>1. \A w \in Video : row[w].status = "absent" => row'[w].status = "absent"
      BY <1>1 DEF Unsubmitted
    <2> QED
      BY <1>2, <1>3, <2>1, RequestStep DEF Calmer
  <1>5. Queued'
    <2>1. \A w \in Video : row[w].status = "QUEUED" => row'[w].status = "QUEUED"
      BY <1>1 DEF Unsubmitted
    <2> QED
      BY <2>1, QueueKept
  <1>6. SlotsRespected'
    BY SlotsKept DEF Rows
  <1>7. Usage' /\ ChargedIsDelivered'
    BY UsageKept, ChargesKept DEF billing, Calmer
  <1>8. PendingIsHeld'
    <2> SUFFICES ASSUME NEW w \in Video \ abandoned', resv'[w].status = Account!Pending
                 PROVE  Held(w)'
      BY PendingHeld
    <2>1. proc'[p] = new
      BY BecomesIs DEF IInv
    <2>2. CASE w = v
      BY <2>1, <2>2 DEF Held
    <2>3. CASE w # v
      <3>1. /\ w \notin abandoned /\ resv[w].status = Account!Pending
            /\ row[w].status = "QUEUED" => Held(w)'
            /\ proc[p].at \notin {"create", "release_own"} /\ proc[p].mine # w
        BY <1>1, <2>3 DEF Held, Calmer, Pumping
      <3> QED
        BY <3>1, HeldStep
    <2> QED
      BY <2>2, <2>3
  <1> QED
    BY <1>4, <1>5, <1>6, <1>7, <1>8 DEF IInv

LEMMA Submitting ==
  ASSUME IInv, NEW p \in Proc, proc[p].at \in Pumping
  PROVE  /\ Good(p, proc[p], row, provider) /\ proc[p] \in Request /\ p[1] \in Video
         /\ proc[p].mine \in Video /\ proc[p].starts \in 0 .. Limit /\ proc[p].starts < Limit
         /\ row[proc[p].mine].status \notin Unsubmitted
         /\ RowGood(row[proc[p].mine], provider[proc[p].mine])
  <1>1. /\ Good(p, proc[p], row, provider) /\ proc[p] \in Request /\ p[1] \in Video
        /\ proc[p].starts \in 0 .. Limit /\ proc[p].mine \in Video
    BY RequestIs DEF Good
  <1>2. RowGood(row[proc[p].mine], provider[proc[p].mine])
    BY <1>1 DEF IInv, Rows
  <1> QED
    BY <1>1, <1>2, Points DEF Good, SubmitsOK

\* The next round of the loop.
LEMMA NextStartIs ==
  ASSUME IInv, NEW p \in Proc, proc[p].at \in Pumping, NextStart(p), Grows
  PROVE  \E new : /\ Becomes(p, new) /\ new.mine = NoVideo /\ new.at = "pump"
                  /\ Good(p, new, row', provider')
  <1> DEFINE new == [proc[p] EXCEPT !.at = "pump", !.mine = NoVideo, !.starts = proc[p].starts + 1]
  <1>1. /\ Good(p, proc[p], row, provider) /\ proc[p] \in Request /\ p[1] \in Video
        /\ proc[p].starts + 1 \in 0 .. Limit
    BY Submitting, Points
  <1>2. Becomes(p, new)
    BY <1>1 DEF NextStart, Becomes, IInv, Requests, Request
  <1>3. /\ new \in Request /\ new.at = "pump" /\ new.mine = NoVideo /\ new.data = proc[p].data
    BY <1>1 DEF Request, Label
  <1> HIDE DEF new
  <1>4. Good(p, new, row', provider')
    BY <1>1, <1>3 DEF Good, Pumping, SubmitsOK, AsksOK, Asking, Settling, Grows
  <1> QED
    BY <1>2, <1>3, <1>4

LEMMA PumpAttach_Keeps ==
  ASSUME IInv, NEW p \in Proc, PumpAttach(p)
  PROVE  IInv'
  <1> DEFINE v == proc[p].mine
  <1>1. /\ proc[p].at \in Pumping /\ NextStart(p) /\ attached' = attached \cup {v}
        /\ UNCHANGED <<row, queue, provider, account, billing, history>>
    BY DEF PumpAttach, At, Pumping
  <1>2. Rows' /\ Grows
    BY <1>1, StillRows
  <1>3. PICK new : /\ Becomes(p, new) /\ new.mine = NoVideo /\ new.at = "pump"
                   /\ Good(p, new, row', provider')
    BY <1>1, <1>2, NextStartIs
  <1>4. Money' /\ Calmer
    BY <1>1, MoneySame DEF IInv
  <1>5. v \in Video /\ Rest'
    BY <1>1, Submitting DEF IInv, Rest, billing, history
  <1> QED
    BY <1>1, <1>2, <1>3, <1>4, <1>5, SubmissionKeeps DEF history

LEMMA PumpRelease_Keeps ==
  ASSUME IInv, NEW p \in Proc, PumpRelease(p)
  PROVE  IInv'
  <1> DEFINE v == proc[p].mine
  <1>1. /\ proc[p].at \in Pumping /\ NextStart(p) /\ ReleaseByKey(v)
        /\ UNCHANGED <<row, queue, provider, attached, billing, history>>
    BY DEF PumpRelease, At, Pumping
  <1>2. Rows' /\ Grows
    BY <1>1, StillRows
  <1>3. PICK new : /\ Becomes(p, new) /\ new.mine = NoVideo /\ new.at = "pump"
                   /\ Good(p, new, row', provider')
    BY <1>1, <1>2, NextStartIs
  <1>4. v \in Video /\ Rest'
    BY <1>1, Submitting DEF IInv, Rest, billing, history
  <1>5. Money' /\ Calmer /\ resv'[v].status # Account!Pending
    BY <1>1, <1>4, ReleaseOK DEF IInv
  <1> QED
    BY <1>1, <1>2, <1>3, <1>4, <1>5, SubmissionKeeps DEF history

\* A video without a reservation key has no reservation.
LEMMA NoKeyNoPoints ==
  ASSUME IInv, NEW v \in Video, ~HasKey(v)
  PROVE  resv[v].status # Account!Pending
  BY Statuses DEF IInv, Money

LEMMA PumpFail_Keeps ==
  ASSUME IInv, NEW p \in Proc, PumpFail(p)
  PROVE  IInv'
  <1> DEFINE v == proc[p].mine
             moved == [proc[p] EXCEPT !.at = "pump_release"]
  <1>1. /\ proc[p].at \in Pumping /\ row' = [row EXCEPT ![v].status = "FAILED"]
        /\ IF HasKey(v) THEN Goto(p, "pump_release") ELSE NextStart(p)
        /\ UNCHANGED <<queue, provider, account, attached, billing, history>>
    BY DEF PumpFail, At, Pumping
  <1>2. /\ v \in Video /\ Rest'
        /\ Good(p, proc[p], row, provider) /\ proc[p] \in Request /\ p[1] \in Video
    BY <1>1, Submitting DEF IInv, Rest, billing, history
  <1>3. /\ Rows' /\ Grows /\ row'[v].status = "FAILED"
        /\ \A w \in Video \ {v} : row'[w] = row[w]
    BY <1>1, <1>2, SetStatus
  <1>4. Money' /\ Calmer /\ resv' = resv
    BY <1>1, MoneySame DEF IInv, account
  <1>5. PICK new : /\ Becomes(p, new) /\ new.at \in {"pump", "pump_release"}
                   /\ Good(p, new, row', provider')
                   /\ new.mine = v \/ (new.mine = NoVideo /\ ~HasKey(v))
    <2>1. CASE HasKey(v)
      <3>1. Becomes(p, moved)
        BY <1>1, <2>1, GotoIs DEF IInv
      <3>2. /\ moved \in Request /\ moved.at = "pump_release" /\ moved.mine = v
            /\ moved.starts = proc[p].starts /\ moved.data = proc[p].data
        BY <1>2, MovedIs DEF Label, Pumping
      <3> HIDE DEF moved
      <3>3. SubmitsOK(moved, row', provider')
        BY <1>2, <1>3, <3>2 DEF Good, SubmitsOK, Unsubmitted
      <3>4. Good(p, moved, row', provider')
        BY <1>2, <1>3, <3>2, <3>3, Points
           DEF Good, Pumping, AsksOK, Asking, Settling, Grows
      <3> QED
        BY <3>1, <3>2, <3>4
    <2>2. CASE ~HasKey(v)
      BY <1>1, <1>3, <2>2, NextStartIs
    <2> QED
      BY <2>1, <2>2
  <1>6. new.mine = NoVideo => resv'[v].status # Account!Pending
    BY <1>2, <1>4, <1>5, NoKeyNoPoints, Points
  <1> QED
    BY <1>1, <1>2, <1>3, <1>4, <1>5, <1>6, SubmissionKeeps DEF ActiveStatus, history

LEMMA PumpMark_Keeps ==
  ASSUME IInv, NEW p \in Proc, PumpMark(p)
  PROVE  IInv'
  <1> DEFINE v == proc[p].mine
             r == [status |-> "RUNNING", ext |-> TRUE, resp |-> "RUNNING"]
             moved == [proc[p] EXCEPT !.at = "attach"]
  <1>1. /\ proc[p].at = "mark" /\ proc[p].at \in Pumping /\ row' = [row EXCEPT ![v] = r]
        /\ IF HasKey(v) THEN Goto(p, "attach") ELSE NextStart(p)
        /\ UNCHANGED <<queue, provider, account, attached, billing, history>>
    BY DEF PumpMark, At, Pumping
  <1>2. /\ v \in Video /\ Rest'
        /\ Good(p, proc[p], row, provider) /\ proc[p] \in Request /\ p[1] \in Video
        /\ RowGood(row[v], provider[v])
    BY <1>1, Submitting DEF IInv, Rest, billing, history
  <1>3. row[v].status = "SUBMITTING" /\ provider[v] # "none"
    BY <1>1, <1>2, Points DEF Good, SubmitsOK
  <1>4. r \in Row /\ RowGood(r, provider[v])
    BY <1>2, <1>3 DEF Row, RowGood, ActiveStatus, EndStatus, Unsubmitted
  <1>5. r.status = "RUNNING" /\ r.ext
    OBVIOUS
  <1> HIDE DEF r
  <1>6. /\ Rows' /\ Grows /\ row'[v] = r
        /\ \A w \in Video \ {v} : row'[w] = row[w]
    BY <1>1, <1>2, <1>4, <1>5 DEF IInv, Rows, Grows
  <1>7. Money' /\ Calmer /\ resv' = resv
    BY <1>1, MoneySame DEF IInv, account
  <1>8. PICK new : /\ Becomes(p, new) /\ new.at \in {"pump", "attach"}
                   /\ Good(p, new, row', provider')
                   /\ new.mine = v \/ (new.mine = NoVideo /\ ~HasKey(v))
    <2>1. CASE HasKey(v)
      <3>1. Becomes(p, moved)
        BY <1>1, <2>1, GotoIs DEF IInv
      <3>2. /\ moved \in Request /\ moved.at = "attach" /\ moved.mine = v
            /\ moved.starts = proc[p].starts /\ moved.data = proc[p].data
        BY <1>2, MovedIs DEF Label, Pumping
      <3> HIDE DEF moved
      <3>3. SubmitsOK(moved, row', provider')
        BY <1>2, <1>5, <1>6, <3>2 DEF Good, SubmitsOK, Unsubmitted
      <3>4. Good(p, moved, row', provider')
        BY <1>2, <1>6, <3>2, <3>3, Points
           DEF Good, Pumping, AsksOK, Asking, Settling, Grows
      <3> QED
        BY <3>1, <3>2, <3>4
    <2>2. CASE ~HasKey(v)
      BY <1>1, <1>6, <2>2, NextStartIs
    <2> QED
      BY <2>1, <2>2
  <1>9. new.mine = NoVideo => resv'[v].status # Account!Pending
    BY <1>2, <1>7, <1>8, NoKeyNoPoints, Points
  <1> QED
    BY <1>1, <1>2, <1>3, <1>6, <1>7, <1>8, <1>9, SubmissionKeeps DEF ActiveStatus, history

\* The provider may have been given a task.
LEMMA MaybeRunning ==
  ASSUME IInv, NEW p \in Proc, proc[p].at = "submit", NEW s \in {"none", "RUNNING"},
         provider' = [provider EXCEPT ![proc[p].mine] = s], row' = row
  PROVE  /\ Rows' /\ Grows /\ provider'[proc[p].mine] = s
         /\ \A w \in Video \ {proc[p].mine} : provider'[w] = provider[w]
  <1> DEFINE v == proc[p].mine
  <1>1. /\ v \in Video /\ Good(p, proc[p], row, provider)
        /\ RowGood(row[v], provider[v])
    BY Submitting DEF Pumping
  <1>2. row[v].status = "SUBMITTING" /\ ~row[v].ext /\ provider[v] = "none"
    BY <1>1, Points DEF Good, SubmitsOK
  <1>3. RowGood(row[v], s)
    BY <1>1, <1>2 DEF RowGood, Outcome, Unsubmitted
  <1> QED
    BY <1>1, <1>2, <1>3 DEF IInv, Rows, Grows, RowGood

LEMMA PumpSubmit_Keeps ==
  ASSUME IInv, NEW p \in Proc, PumpSubmit(p)
  PROVE  IInv'
  <1> DEFINE v == proc[p].mine
  <1>1. /\ proc[p].at = "submit" /\ proc[p].at \in Pumping
        /\ UNCHANGED <<row, queue, account, attached, billing, history>>
    BY DEF PumpSubmit, At, Pumping
  <1>2. /\ v \in Video /\ Rest'
        /\ Good(p, proc[p], row, provider) /\ proc[p] \in Request /\ p[1] \in Video
    BY <1>1, Submitting DEF IInv, Rest, billing, history
  <1>3. PICK s \in {"none", "RUNNING"} :
          /\ provider' = [provider EXCEPT ![v] = s]
          /\ Goto(p, IF s = "none" THEN "pump_fail" ELSE "mark")
    <2>1. provider[v] = "none" /\ provider \in [Video -> Outcome]
      BY <1>1, <1>2, Points DEF Good, SubmitsOK, IInv, Rows
    <2> QED
      BY <2>1 DEF PumpSubmit
  <1>4. /\ Rows' /\ Grows /\ provider'[v] = s
        /\ \A w \in Video \ {v} : provider'[w] = provider[w]
    BY <1>1, <1>3, MaybeRunning
  <1> DEFINE l == IF s = "none" THEN "pump_fail" ELSE "mark"
             new == [proc[p] EXCEPT !.at = l]
  <1>5. l \in Label /\ l \in Pumping /\ l # "submit" /\ (l = "mark" => s = "RUNNING")
    BY DEF Label, Pumping
  <1>6. Becomes(p, new)
    BY <1>3, GotoIs DEF IInv
  <1> HIDE DEF l
  <1>7. /\ new \in Request /\ new.at = l /\ new.mine = v
        /\ new.starts = proc[p].starts /\ new.data = proc[p].data
    BY <1>2, <1>5, MovedIs
  <1> HIDE DEF new
  <1>8. SubmitsOK(new, row', provider')
    BY <1>1, <1>2, <1>4, <1>5, <1>7 DEF Good, SubmitsOK
  <1>9. AsksOK(p[1], new, row', provider')
    BY <1>2, <1>4, <1>5, <1>7 DEF Good, Pumping, AsksOK, Asking, Settling, Grows
  <1>10. Good(p, new, row', provider')
    BY <1>2, <1>5, <1>7, <1>8, <1>9, Points DEF Good
  <1>11. Money' /\ Calmer /\ resv' = resv
    BY <1>1, MoneySame DEF IInv, account
  <1>12. new.at \notin {"reserve", "create"} /\ new.mine # NoVideo
    BY <1>2, <1>5, <1>7, Points DEF Pumping
  <1> QED
    BY <1>1, <1>2, <1>4, <1>6, <1>7, <1>10, <1>11, <1>12, SubmissionKeeps DEF history

-----------------------------------------------------------------------------
(* What a query writes                                                     *)

LEMMA WriteKeeps ==
  ASSUME IInv, NEW p \in Proc, proc[p].at \in {"finish", "refresh"}, Write(p),
         UNCHANGED <<queue, provider, account, attached, billing>>,
         abandoned' = abandoned, revived \subseteq revived', Rest',
         proc[p].data \in ActiveStatus => row[p[1]].status \in ActiveStatus \/ p[1] \in revived'
  PROVE  IInv'
  <1> DEFINE v == p[1]
             data == proc[p].data
             r == [row[v] EXCEPT !.status = data, !.resp = data]
             new == Quiet("idle")
  <1>1. /\ Good(p, proc[p], row, provider) /\ proc[p] \in Request /\ v \in Video
        /\ data \in Outcome
    BY RequestIs
  <1>2. RowGood(row[v], provider[v])
    BY <1>1 DEF IInv, Rows
  <1>3. /\ row[v].ext /\ row[v].status \notin Unsubmitted /\ data # "none"
        /\ data = "SUCCEEDED" => provider[v] = "SUCCEEDED"
        /\ proc[p].mine = NoVideo
    BY <1>1, <1>2 DEF Good, AsksOK, Asking, RowGood, Pumping
  <1>4. /\ r \in Row /\ r.status = data /\ r.resp = data /\ r.ext = row[v].ext
    BY <1>1, <1>2, <1>3 DEF RowGood, Row, Outcome, ActiveStatus, EndStatus
  <1>5. data \notin Unsubmitted
    BY <1>1, <1>3 DEF Outcome, Unsubmitted, EndStatus
  <1>6. RowGood(r, provider[v])
    BY <1>2, <1>3, <1>4, <1>5 DEF RowGood
  <1>7. row' = [row EXCEPT ![v] = r] /\ Becomes(p, new)
    BY <1>1 DEF Write, IInv, Rows, Becomes
  <1>8. /\ new \in Request /\ new.at = "idle" /\ new.mine = NoVideo /\ new.data = "none"
    BY QuietIs DEF Label, Pumping
  <1> HIDE DEF r, new
  <1>9. /\ row' \in [Video -> Row] /\ row'[v] = r
        /\ \A w \in Video \ {v} : row'[w] = row[w]
    BY <1>1, <1>4, <1>7 DEF IInv, Rows
  <1>10. Rows' /\ Grows
    BY <1>4, <1>6, <1>9 DEF IInv, Rows, Grows
  <1>11. \A q \in Proc : SubmitsOK(proc[q], row', provider')
    <2> SUFFICES ASSUME NEW q \in Proc
                 PROVE  SubmitsOK(proc[q], row', provider')
      OBVIOUS
    <2>1. Good(q, proc[q], row, provider) /\ proc[q].mine \in Video \cup {NoVideo}
      BY RequestIs
    <2>2. CASE proc[q].mine = v
      BY <1>3, <1>4, <1>5, <1>9, <2>1, <2>2 DEF Good, SubmitsOK
    <2>3. CASE proc[q].mine # v
      BY <1>9, <2>1, <2>3, SubmitsKept
    <2> QED
      BY <2>2, <2>3
  <1>12. Good(p, new, row', provider')
    BY <1>8 DEF Good, Pumping, SubmitsOK, AsksOK, Asking, Settling
  <1>13. Money' /\ Calmer /\ resv' = resv
    BY MoneySame DEF IInv, account
  <1>14. Requests' /\ OneEach' /\ Fresh'
    <2>1. \A w \in Video : row[w].status = "absent" => row'[w].status = "absent"
      BY <1>3, <1>9 DEF Unsubmitted
    <2> QED
      BY <1>7, <1>8, <1>10, <1>11, <1>12, <1>13, <2>1, RequestStep
  <1>15. \A w \in Video : row[w].status = "QUEUED" => row'[w].status = "QUEUED"
    BY <1>3, <1>9 DEF Unsubmitted
  <1>16. Queued' /\ Usage' /\ ChargedIsDelivered'
    BY <1>10, <1>13, <1>15, QueueKept, UsageKept, ChargesKept DEF billing
  <1>17. SlotsRespected'
    BY <1>4, <1>9, SlotsKept
  <1>18. PendingIsHeld'
    <2> SUFFICES ASSUME NEW w \in Video \ abandoned', resv'[w].status = Account!Pending
                 PROVE  Held(w)'
      BY PendingHeld
    <2>1. /\ w \notin abandoned /\ resv[w].status = Account!Pending
          /\ row[w].status = "QUEUED" => Held(w)'
          /\ proc[p].at \notin {"create", "release_own"} /\ proc[p].mine # w
      BY <1>3, <1>13, <1>15, Points DEF Held
    <2> QED
      BY <1>7, <2>1, HeldStep
  <1> QED
    BY <1>10, <1>13, <1>14, <1>16, <1>17, <1>18 DEF IInv

LEMMA WriteTells ==
  ASSUME IInv, NEW p \in Proc, Write(p)
  PROVE  told' \in [Video -> Answer]
  <1> DEFINE end == IF proc[p].seen = Account!Unmade THEN "unmatched" ELSE "end"
  <1>1. Tell(p[1], proc[p].data, end) /\ end \in {"end", "unmatched"} /\ p[1] \in Video
    BY RequestIs DEF Write
  <1> HIDE DEF end
  <1> QED
    BY <1>1, TellTyped

LEMMA Finish_Keeps ==
  ASSUME IInv, NEW p \in Proc, Finish(p)
  PROVE  IInv'
  <1>1. proc[p].at = "finish" /\ proc[p].data \in EndStatus
    BY RequestIs DEF Finish, At, Good, AsksOK, Settling
  <1>2. told' \in [Video -> Answer]
    BY WriteTells DEF Finish
  <1>3. Rest'
    BY <1>2 DEF Finish, billing, IInv, Rest
  <1> QED
    BY <1>1, <1>3, WriteKeeps DEF Finish, ActiveStatus, EndStatus

LEMMA Refresh_Keeps ==
  ASSUME IInv, NEW p \in Proc, Refresh(p)
  PROVE  IInv'
  <1>1. /\ proc[p].at = "refresh" /\ p[1] \in Video
        /\ Good(p, proc[p], row, provider)
    BY RequestIs DEF Refresh, At
  <1>2. row[p[1]].status \in ActiveStatus \cup EndStatus
    BY <1>1 DEF Good, AsksOK, Asking, IInv, Rows, RowGood, Row, Unsubmitted
  <1>3. told' \in [Video -> Answer]
    BY WriteTells DEF Refresh
  <1>4. Rest' /\ revived \subseteq revived'
    BY <1>1, <1>3 DEF Refresh, IInv, Rest, billing
  <1> QED
    BY <1>1, <1>2, <1>4, WriteKeeps DEF Refresh

-----------------------------------------------------------------------------
(* Failures and deaths of requests                                         *)

\* A request is cut off: it goes to l without a video, and what it held is
\* abandoned, given back by its own catch block or was never reserved.
LEMMA CutOff ==
  ASSUME IInv, NEW p \in Proc, NEW l \in {"idle", "failed", "release_own"},
         Becomes(p, Quiet(l)),
         UNCHANGED <<row, queue, provider, account, attached, billing, revived>>,
         abandoned \subseteq abandoned', Rest',
         proc[p].mine # NoVideo => proc[p].mine \in abandoned',
         \A v \in Video : p = Invoke(v) /\ proc[p].at \in {"create", "release_own"} =>
           \/ l = "release_own" \/ v \in abandoned'
           \/ resv[v].status # Account!Pending
  PROVE  IInv'
  <1> DEFINE new == Quiet(l)
  <1>1. /\ Good(p, proc[p], row, provider) /\ proc[p] \in Request
        /\ proc[p].mine \in Video \cup {NoVideo}
    BY RequestIs
  <1>2. /\ new \in Request /\ new.at = l /\ new.mine = NoVideo /\ new.data = "none"
    BY QuietIs DEF Label, Pumping
  <1> HIDE DEF new
  <1>3. Good(p, new, row, provider)
    BY <1>2 DEF Good, Pumping, SubmitsOK, AsksOK, Asking, Settling
  <1>4. Becomes(p, new)
    BY DEF new
  <1>5. Rows' /\ Grows
    BY StillRows
  <1>6. CASE proc[p].mine = NoVideo
    BY <1>2, <1>3, <1>4, <1>5, <1>6, UsageKept, MoveKeeps DEF billing
  <1>7. CASE proc[p].mine # NoVideo
    <2>1. Money' /\ Calmer
      BY MoneySame DEF IInv
    <2>2. Good(p, new, row', provider')
      BY <1>3
    <2> QED
      BY <1>1, <1>2, <1>4, <1>5, <1>7, <2>1, <2>2, SubmissionKeeps
  <1> QED
    BY <1>6, <1>7

LEMMA RestGrows ==
  ASSUME IInv, faults < MaxFaults, faults' = faults + 1,
         UNCHANGED <<attached, logged, charged, revived, told>>, abandoned' \subseteq Video
  PROVE  Rest'
  BY LimitAssumption DEF IInv, Rest

LEMMA Die_Keeps ==
  ASSUME IInv, NEW p \in Proc, Die(p)
  PROVE  IInv'
  <1> DEFINE l == IF IsInvoke(p) THEN "failed" ELSE "idle"
  <1>1. p[1] \in Video /\ proc[p].mine \in Video \cup {NoVideo}
    BY RequestIs
  <1>2. /\ Becomes(p, Quiet(l)) /\ l \in {"idle", "failed", "release_own"}
        /\ abandoned \subseteq abandoned' /\ abandoned' \subseteq Video
        /\ proc[p].mine # NoVideo => proc[p].mine \in abandoned'
        /\ IsInvoke(p) => p[1] \in abandoned'
    BY <1>1 DEF Die, Becomes, IInv, Rest
  <1>3. Rest'
    BY <1>2, RestGrows DEF Die, billing
  <1>4. \A v \in Video : p = Invoke(v) => v \in abandoned'
    BY <1>2, Procs
  <1> HIDE DEF l
  <1> QED
    BY <1>2, <1>3, <1>4, CutOff DEF Die

LEMMA Throw_Keeps ==
  ASSUME IInv, NEW p \in Proc, Throw(p)
  PROVE  IInv'
  <1> DEFINE c == Catch(p)
             v == proc[p].mine
  <1>1. /\ Good(p, proc[p], row, provider) /\ proc[p] \in Request /\ p[1] \in Video
        /\ v \in Video \cup {NoVideo}
    BY RequestIs
  <1>2. /\ abandoned \subseteq abandoned' /\ abandoned' \subseteq Video
        /\ UNCHANGED <<row, queue, account, attached, billing, revived>>
        /\ proc[p].at = "release_own" => p[1] \in abandoned'
        /\ proc[p].at \in {"pump_fail", "pump_release"} => v \in abandoned'
    <2>1. proc[p].at \in {"pump_fail", "pump_release"} => v \in Video
      BY <1>1 DEF Good, Pumping
    <2> QED
      BY <1>1, <2>1 DEF Throw, At, IInv, Rest
  <1>3. Rest'
    BY <1>2, RestGrows DEF Throw, billing
  <1>4. CASE proc[p].at \in {"submit", "mark", "attach"}
    <2> DEFINE new == [Quiet("pump_fail") EXCEPT !.mine = v, !.starts = proc[p].starts]
    <2>1. /\ c = "pump_fail" /\ proc[p].at \in Pumping /\ v \in Video
          /\ proc[p].starts \in 0 .. Limit /\ proc[p].starts < Limit
          /\ row[v].status \notin Unsubmitted
      BY <1>4, Submitting DEF Catch, Pumping
    <2>2. Becomes(p, new)
      BY <2>1 DEF Throw, Becomes
    <2>3. /\ new \in Request /\ new.at = "pump_fail" /\ new.mine = v
          /\ new.starts = proc[p].starts /\ new.data = "none"
      BY <2>1, Statuses DEF Quiet, Request, Label, Pumping
    <2> HIDE DEF new
    <2>4. /\ Rows' /\ Grows
          /\ \A w \in Video \ {v} : row'[w] = row[w] /\ provider'[w] = provider[w]
      <3>1. CASE proc[p].at = "submit" /\ provider' # provider
        <4>1. provider' = [provider EXCEPT ![v] = "RUNNING"] /\ row' = row
          BY <1>2, <3>1 DEF Throw, At
        <4> QED
          BY <3>1, <4>1, MaybeRunning
      <3>2. CASE proc[p].at # "submit" \/ provider' = provider
        <4>1. UNCHANGED <<row, queue, provider>>
          BY <1>2, <3>2 DEF Throw, At
        <4> QED
          BY <4>1, StillRows
      <3> QED
        BY <3>1, <3>2
    <2>5. Good(p, new, row', provider')
      BY <1>2, <2>1, <2>3, Points
         DEF Good, Pumping, SubmitsOK, AsksOK, Asking, Settling
    <2>6. Money' /\ Calmer
      BY <1>2, MoneySame DEF IInv
    <2>7. new.at \notin {"reserve", "create"} /\ new.mine # NoVideo
      BY <2>1, <2>3, Points
    <2> QED
      BY <1>2, <1>3, <2>1, <2>2, <2>3, <2>4, <2>5, <2>6, <2>7, SubmissionKeeps
  <1>5. CASE proc[p].at \notin {"submit", "mark", "attach"}
    <2>1. c \in {"idle", "failed", "release_own"}
      BY <1>5 DEF Catch
    <2>2. Becomes(p, Quiet(c))
      <3>1. [Quiet(c) EXCEPT !.mine = NoVideo, !.starts = 0] = Quiet(c)
        BY QuietSame
      <3>2. c # "pump_fail"
        BY <2>1
      <3> QED
        BY <3>1, <3>2 DEF Throw, Becomes
    <2>3. UNCHANGED provider
      BY <1>5 DEF Throw, At
    <2>4. v # NoVideo => v \in abandoned'
      BY <1>1, <1>2, <1>5 DEF Good, Pumping
    <2>5. ASSUME NEW w \in Video, p = Invoke(w), proc[p].at \in {"create", "release_own"}
          PROVE  c = "release_own" \/ w \in abandoned' \/ resv[w].status # Account!Pending
      <3>1. IsInvoke(p) /\ p[1] = w
        BY <2>5, Procs
      <3>2. CASE proc[p].at = "release_own"
        BY <1>2, <3>1, <3>2
      <3>3. CASE proc[p].at = "create" /\ ~HasKey(w)
        BY <3>3, NoKeyNoPoints
      <3>4. CASE proc[p].at = "create" /\ HasKey(w)
        BY <3>1, <3>4 DEF Catch
      <3> QED
        BY <2>5, <3>2, <3>3, <3>4
    <2> HIDE DEF c
    <2> QED
      BY <1>2, <1>3, <2>1, <2>2, <2>3, <2>4, <2>5, CutOff
  <1> QED
    BY <1>4, <1>5

-----------------------------------------------------------------------------
(* The usage queue and the provider                                        *)

LEMMA NoRequestKeeps ==
  ASSUME IInv, UNCHANGED <<row, queue, provider, attached, proc, abandoned, revived>>,
         resv' = resv, Money', Usage', Rest',
         \A v \in Video : charged'[v] > 0 => charged[v] > 0 \/ provider[v] = "SUCCEEDED"
  PROVE  IInv'
  <1>1. Rows' /\ Queued' /\ SlotsRespected'
    BY StillRows
  <1>2. Requests' /\ OneEach' /\ Fresh' /\ ChargedIsDelivered' /\ PendingIsHeld'
    BY DEF IInv, Requests, OneEach, Fresh, ChargedIsDelivered, PendingIsHeld
  <1> QED
    BY <1>1, <1>2 DEF IInv

\* Tasks of the queue: one is done, or goes on to its next stage.
LEMMA DoneKeeps ==
  ASSUME IInv, Grows, NEW v \in Video, NEW s \in Stage, usage[v][s] > 0, Done(v, s)
  PROVE  Usage'
  <1> DEFINE f == [usage[v] EXCEPT ![s] = usage[v][s] - 1]
  <1>1. usage \in [Video -> [Stage -> Nat]] /\ usage[v] \in [Stage -> Nat] /\ usage[v][s] \in Nat
    BY DEF IInv, Usage
  <1>2. usage[v][s] - 1 \in Nat
    BY <1>1
  <1>3. /\ f \in [Stage -> Nat] /\ f[s] = usage[v][s] - 1
        /\ \A x \in Stage \ {s} : f[x] = usage[v][x]
    BY <1>1, <1>2
  <1>4. usage' = [usage EXCEPT ![v] = f]
    BY <1>1 DEF Done
  <1> HIDE DEF f
  <1>5. f["record_charge"] > 0 \/ f["charge"] > 0 => provider[v] = "SUCCEEDED"
    BY <1>1, <1>3 DEF IInv, Usage, Stage
  <1> QED
    BY <1>3, <1>4, <1>5, SetUsage

LEMMA GoesOnKeeps ==
  ASSUME IInv, Grows, NEW v \in Video, NEW s \in {"record_charge", "charge"}, NEW t \in Stage \ {s},
         usage[v][s] > 0, Move(v, s, t)
  PROVE  Usage'
  <1> DEFINE f == [usage[v] EXCEPT ![s] = usage[v][s] - 1, ![t] = usage[v][t] + 1]
  <1>1. /\ usage \in [Video -> [Stage -> Nat]] /\ usage[v] \in [Stage -> Nat]
        /\ s \in Stage /\ usage[v][s] \in Nat /\ usage[v][t] \in Nat
    BY DEF IInv, Usage, Stage
  <1>2. usage[v][s] - 1 \in Nat /\ usage[v][t] + 1 \in Nat
    BY <1>1
  <1>3. f \in [Stage -> Nat]
    BY <1>1, <1>2
  <1>4. usage' = [usage EXCEPT ![v] = f]
    BY <1>1 DEF Move
  <1> HIDE DEF f
  <1>5. provider[v] = "SUCCEEDED"
    BY DEF IInv, Usage
  <1> QED
    BY <1>3, <1>4, <1>5, SetUsage

LEMMA RecordUsage_Keeps ==
  ASSUME IInv, NEW v \in Video, RecordUsage(v)
  PROVE  IInv'
  <1>1. UNCHANGED <<row, queue, provider, account, attached, proc, charged, history>>
    BY DEF RecordUsage
  <1>2. Grows
    BY <1>1, StillRows
  <1>3. Usage'
    BY <1>2, DoneKeeps, GoesOnKeeps DEF RecordUsage, Stage
  <1>4. Rest'
    BY <1>1 DEF RecordUsage, IInv, Rest, history
  <1>5. Money' /\ resv' = resv
    BY <1>1, MoneySame DEF IInv, account
  <1> QED
    BY <1>1, <1>3, <1>4, <1>5, NoRequestKeeps DEF history

LEMMA PriceUsage_Keeps ==
  ASSUME IInv, NEW v \in Video, PriceUsage(v)
  PROVE  IInv'
  <1>1. UNCHANGED <<row, queue, provider, account, attached, proc, charged, history>>
    BY DEF PriceUsage
  <1>2. Grows
    BY <1>1, StillRows
  <1>3. Usage'
    BY <1>2, DoneKeeps DEF PriceUsage, Stage
  <1>4. Rest'
    BY <1>1, PriceOK DEF PriceUsage, IInv, Rest, history
  <1>5. Money' /\ resv' = resv
    BY <1>1, MoneySame DEF IInv, account
  <1> QED
    BY <1>1, <1>3, <1>4, <1>5, NoRequestKeeps DEF history

LEMMA ChargeUsage_Keeps ==
  ASSUME IInv, NEW v \in Video, ChargeUsage(v)
  PROVE  IInv'
  <1>1. /\ UNCHANGED <<row, queue, provider, attached, proc, logged, history>>
        /\ usage[v]["charge"] > 0
    BY DEF ChargeUsage
  <1>2. Grows
    BY <1>1, StillRows
  <1>3. provider[v] = "SUCCEEDED"
    BY <1>1 DEF IInv, Usage
  <1>4. CASE wallet[Owner[v]].balance >= Cost[v]
    <2>1. /\ Account!Consume(Owner[v], Cost[v]) /\ Move(v, "charge", "price")
          /\ charged' = [charged EXCEPT ![v] = @ + Cost[v]]
      BY <1>4 DEF ChargeUsage
    <2>2. Money' /\ resv' = resv
      BY <2>1, Points, ConsumeOK DEF IInv, Money, HasKey
    <2>3. Usage'
      BY <1>1, <1>2, <2>1, GoesOnKeeps DEF Stage
    <2>4. charged[v] + Cost[v] \in Nat
      BY Points DEF IInv, Rest
    <2>5. /\ charged' \in [Video -> Nat]
          /\ \A w \in Video \ {v} : charged'[w] = charged[w]
      BY <2>1, <2>4 DEF IInv, Rest
    <2>6. Rest'
      BY <1>1, <2>5 DEF IInv, Rest, history
    <2> QED
      BY <1>1, <1>3, <2>2, <2>3, <2>5, <2>6, NoRequestKeeps DEF history
  <1>5. CASE ~(wallet[Owner[v]].balance >= Cost[v])
    <2>1. Done(v, "charge") /\ UNCHANGED <<account, charged>>
      BY <1>5 DEF ChargeUsage
    <2>2. Money' /\ resv' = resv
      BY <2>1, MoneySame DEF IInv, account
    <2>3. Usage'
      BY <1>1, <1>2, <2>1, DoneKeeps DEF Stage
    <2>4. Rest'
      BY <1>1, <2>1 DEF IInv, Rest, history
    <2> QED
      BY <1>1, <2>1, <2>2, <2>3, <2>4, NoRequestKeeps DEF history
  <1> QED
    BY <1>4, <1>5

LEMMA UsageFault_Keeps ==
  ASSUME IInv, NEW v \in Video, UsageFault(v)
  PROVE  IInv'
  <1>1. UNCHANGED <<row, queue, provider, account, attached, proc, logged, charged,
                    abandoned, revived>>
    BY DEF UsageFault
  <1>2. Grows
    BY <1>1, StillRows
  <1>3. Usage'
    BY <1>2, DoneKeeps, GoesOnKeeps DEF UsageFault, Stage
  <1>4. Rest'
    BY <1>1, RestGrows DEF UsageFault, IInv, Rest
  <1>5. Money' /\ resv' = resv
    BY <1>1, MoneySame DEF IInv, account
  <1> QED
    BY <1>1, <1>3, <1>4, <1>5, NoRequestKeeps

LEMMA ProviderEnds_Keeps ==
  ASSUME IInv, NEW v \in Video, ProviderEnds(v)
  PROVE  IInv'
  <1>1. /\ provider[v] = "RUNNING"
        /\ UNCHANGED <<row, queue, account, attached, proc, billing, history>>
    BY DEF ProviderEnds
  <1>2. PICK s \in EndStatus : provider' = [provider EXCEPT ![v] = s]
    BY DEF ProviderEnds
  <1>3. /\ provider' \in [Video -> Outcome] /\ provider'[v] = s /\ s # "none"
        /\ \A w \in Video \ {v} : provider'[w] = provider[w]
    BY <1>2 DEF IInv, Rows, Outcome, EndStatus
  <1>4. RowGood(row[v], provider[v])
    BY DEF IInv, Rows
  <1>5. RowGood(row[v], s)
    BY <1>1, <1>2, <1>3, <1>4 DEF RowGood, Outcome
  <1>6. Rows' /\ Grows
    BY <1>1, <1>3, <1>5 DEF IInv, Rows, Grows
  <1>7. \A q \in Proc : SubmitsOK(proc[q], row', provider')
    <2> SUFFICES ASSUME NEW q \in Proc
                 PROVE  SubmitsOK(proc[q], row', provider')
      OBVIOUS
    <2>1. Good(q, proc[q], row, provider) /\ proc[q].mine \in Video \cup {NoVideo}
      BY RequestIs
    <2> QED
      BY <1>1, <1>3, <2>1 DEF Good, SubmitsOK
  <1>8. Requests'
    BY <1>1, <1>6, <1>7, OtherGood DEF IInv, Requests
  <1>9. Queued' /\ SlotsRespected'
    BY <1>1 DEF IInv, Queued, SlotsRespected, Active, history
  <1>10. OneEach' /\ Fresh' /\ PendingIsHeld'
    BY <1>1 DEF IInv, OneEach, Fresh, PendingIsHeld, account, history
  <1>11. Money' /\ resv' = resv
    BY <1>1, MoneySame DEF IInv, account
  <1>12. Usage' /\ Rest' /\ ChargedIsDelivered'
    BY <1>1, <1>6, <1>11, UsageKept, RestKept, ChargesKept DEF billing
  <1> QED
    BY <1>6, <1>8, <1>9, <1>10, <1>11, <1>12 DEF IInv

-----------------------------------------------------------------------------
(* The invariant                                                           *)

LEMMA InitIInv == Init => IInv
  <1> SUFFICES ASSUME Init PROVE IInv
    OBVIOUS
  <1>1. Rows
    BY DEF Init, Rows, RowGood, Row, Outcome, Unsubmitted
  <1>2. Queued
    BY EmptySeq DEF Init, Queued
  <1>3. \A p \in Proc : /\ proc[p] \in Request /\ proc[p].at \in {"reserve", "idle"}
                        /\ proc[p].mine = NoVideo /\ proc[p].data = "none"
    <2> SUFFICES ASSUME NEW p \in Proc
                 PROVE  /\ proc[p] \in Request /\ proc[p].at \in {"reserve", "idle"}
                        /\ proc[p].mine = NoVideo /\ proc[p].data = "none"
      OBVIOUS
    <2> DEFINE l == IF IsInvoke(p) THEN "reserve" ELSE "idle"
    <2>1. proc[p] = Quiet(l) /\ l \in Label \ Pumping /\ l \in {"reserve", "idle"}
      BY DEF Init, Label, Pumping
    <2> HIDE DEF l
    <2> QED
      BY <2>1, QuietIs
  <1>4. Requests
    BY <1>3 DEF Init, Requests, Good, Pumping, SubmitsOK, AsksOK, Asking, Settling
  <1>5. OneEach
    BY <1>3 DEF OneEach
  <1>6. Fresh /\ Money
    <2>1. AccountOK
      <3>1. Account!Opened \in Account!Wallet /\ Account!NoReservation \in Account!Reservation
        BY PointsAssumption
           DEF Account!Opened, Account!Wallet, Account!NoReservation, Account!Reservation
      <3> QED
        BY <3>1 DEF Init, AccountOK, Account!TypeOK
    <2>2. \A v \in Video : resv[v].status = Account!Unmade
      BY DEF Init, Account!NoReservation
    <2> QED
      BY <2>1, <2>2 DEF Fresh, Money, Init
  <1>7. Usage
    BY DEF Init, Usage, Stage
  <1>8. Rest
    BY LimitAssumption DEF Init, Rest, Answer
  <1>9. SlotsRespected
    <2>1. Active \ revived = {}
      BY DEF Init, Active, ActiveStatus
    <2> QED
      BY <2>1, FS_EmptySet, Points DEF SlotsRespected
  <1>10. ChargedIsDelivered /\ PendingIsHeld
    BY Statuses DEF Init, Account!NoReservation, ChargedIsDelivered, PendingIsHeld
  <1> QED
    BY <1>1, <1>2, <1>4, <1>5, <1>6, <1>7, <1>8, <1>9, <1>10 DEF IInv

LEMMA StepIInv == IInv /\ [Next]_vars => IInv'
  <1> SUFFICES ASSUME IInv, [Next]_vars PROVE IInv'
    OBVIOUS
  <1>1. ASSUME NEW p \in Proc, Pump(p)
        PROVE  IInv'
    BY <1>1, PumpClaim_Keeps, PumpSubmit_Keeps, PumpMark_Keeps, PumpAttach_Keeps,
       PumpFail_Keeps, PumpRelease_Keeps DEF Pump
  <1>2. ASSUME NEW p \in Proc, QueryStep(p)
        PROVE  IInv'
    BY <1>2, Find_Keeps, Fetch_Keeps, ReadReservation_Keeps, ReadUsage_Keeps, Settle_Keeps,
       Price_Keeps, Finish_Keeps, Refresh_Keeps DEF QueryStep
  <1>3. ASSUME NEW p \in Proc, Query(p) \/ Throw(p) \/ Die(p)
        PROVE  IInv'
    BY <1>3, Query_Keeps, Throw_Keeps, Die_Keeps
  <1>4. ASSUME NEW v \in Video, InvokeStep(v)
        PROVE  IInv'
    BY <1>4, Reserve_Keeps, CreateRow_Keeps, Respond_Keeps, ReleaseOwn_Keeps DEF InvokeStep
  <1>5. ASSUME NEW v \in Video, UsageStep(v) \/ ProviderEnds(v) \/ UsageFault(v)
        PROVE  IInv'
    BY <1>5, RecordUsage_Keeps, ChargeUsage_Keeps, PriceUsage_Keeps, ProviderEnds_Keeps,
       UsageFault_Keeps DEF UsageStep
  <1>6. CASE UNCHANGED vars
    <2>1. /\ UNCHANGED <<row, queue, provider, account, attached, proc, billing, history>>
      BY <1>6 DEF vars
    <2>2. Grows
      BY <2>1, StillRows
    <2>3. Money' /\ resv' = resv
      BY <2>1, MoneySame DEF IInv, account
    <2>4. Usage' /\ Rest'
      BY <2>1, <2>2, UsageKept, RestKept DEF billing
    <2> QED
      BY <2>1, <2>3, <2>4, NoRequestKeeps DEF billing, history
  <1> QED
    BY <1>1, <1>2, <1>3, <1>4, <1>5, <1>6 DEF Next

\* The inductive invariant holds of every reachable state.
THEOREM InvariantHolds == Spec => []IInv
  BY InitIInv, StepIInv, PTL DEF Spec

\* Every reachable state of the video gateway is well typed, and a request
\* has a video of its own exactly while it is submitting one.
THEOREM VideoTyped == Spec => []TypeOK
  <1>1. IInv => TypeOK
    BY DEF IInv, TypeOK, Rows, Queued, Requests, Good, Money, AccountOK, Usage, Rest, Outcome
  <1> QED
    BY <1>1, InvariantHolds, PTL

\* However many requests pump the queue at once, no more than Limit videos
\* are with the provider or on the way there, but for ended rows which a
\* query with an older answer made active again.
THEOREM SlotsAreRespected == Spec => []SlotsRespected
  <1>1. IInv => SlotsRespected
    BY DEF IInv
  <1> QED
    BY <1>1, InvariantHolds, PTL

\* Neither a settlement nor the usage queue takes points for a video that
\* the provider did not deliver, whatever queries overlap or fail.
THEOREM ChargesAreDelivered == Spec => []ChargedIsDelivered
  <1>1. IInv => ChargedIsDelivered
    BY DEF IInv
  <1> QED
    BY <1>1, InvariantHolds, PTL

\* Frozen points have somebody who will bring them to an end, unless a
\* cleanup failed or a process died.
THEOREM VideoPointsAreHeld == Spec => []PendingIsHeld
  <1>1. IInv => PendingIsHeld
    BY DEF IInv
  <1> QED
    BY <1>1, InvariantHolds, PTL

-----------------------------------------------------------------------------
(* What the gateway asks of the points service                             *)

\* One operation of the service, with the video's own estimate or cost.
AccountStep ==
    \E v \in Video :
        \/ Account!Reserve(v, Estimate[v])
        \/ Account!Settle(v, Account!Captured, Cost[v])
        \/ Account!Settle(v, Account!Released, 0)
        \/ Account!Consume(Owner[v], Cost[v])

LEMMA StepsAccount == IInv /\ [Next]_vars => [AccountStep]_account
  <1> SUFFICES ASSUME IInv, Next, ~UNCHANGED account
               PROVE  AccountStep
    BY DEF vars, account
  <1>1. ASSUME NEW v \in Video, ReleaseByKey(v)
        PROVE  AccountStep
    BY <1>1 DEF ReleaseByKey, AccountStep, account
  <1>2. ASSUME NEW p \in Proc, Pump(p) \/ Query(p) \/ QueryStep(p) \/ Throw(p) \/ Die(p)
        PROVE  AccountStep
    <2>1. p[1] \in Video /\ (proc[p].mine # NoVideo => proc[p].mine \in Video)
      BY Procs DEF IInv, Requests, Good, Request
    <2>2. CASE PumpRelease(p)
      <3>1. proc[p].mine \in Video
        BY <2>1, <2>2, Statuses DEF PumpRelease, At, IInv, Requests, Good, Pumping
      <3> QED BY <1>1, <2>2, <3>1 DEF PumpRelease, account
    <2>3. CASE Settle(p)
      BY <2>1, <2>3 DEF Settle, AccountStep, account
    <2> QED BY <1>2, <2>2, <2>3
        DEF Pump, PumpClaim, PumpSubmit, PumpMark, PumpAttach, PumpFail, Query, QueryStep, Find,
            Fetch, ReadReservation, ReadUsage, Price, Finish, Refresh, Throw, Die, account
  <1>3. ASSUME NEW v \in Video, InvokeStep(v) \/ UsageStep(v) \/ ProviderEnds(v) \/ UsageFault(v)
        PROVE  AccountStep
    BY <1>1, <1>3
    DEF InvokeStep, Reserve, CreateRow, Respond, ReleaseOwn, UsageStep, RecordUsage, ChargeUsage,
        PriceUsage, ProviderEnds, UsageFault, AccountStep, account
  <1> QED BY <1>2, <1>3 DEF Next

\* Wallets and reservations change by the service's operations only, one of
\* them at a time, for the video's own estimate or cost and under its key.
THEOREM VideoKeepsToPromise == Spec => [][AccountStep]_account
  BY InvariantHolds, StepsAccount, PTL DEF Spec

WalletsOpen == \A u \in User : wallet[u].open

LEMMA StepOpen == IInv /\ WalletsOpen /\ [AccountStep]_account => WalletsOpen'
  <1> SUFFICES ASSUME IInv, WalletsOpen, AccountStep
               PROVE  WalletsOpen'
    BY DEF WalletsOpen, account
  <1>1. wallet \in [User -> Account!Wallet] /\ \A v \in Video : Owner[v] \in User
    BY Points DEF IInv, Money, AccountOK, Account!TypeOK
  <1>2. ASSUME NEW w, NEW u \in User, w.open, wallet' = [wallet EXCEPT ![u] = w]
        PROVE  WalletsOpen'
    BY <1>1, <1>2 DEF WalletsOpen
  <1>3. PICK v \in Video : \/ Account!Reserve(v, Estimate[v])
                           \/ Account!Settle(v, Account!Captured, Cost[v])
                           \/ Account!Settle(v, Account!Released, 0)
                           \/ Account!Consume(Owner[v], Cost[v])
    BY DEF AccountStep
  <1>4. PICK old \in Account!Wallet : old = wallet[Owner[v]] /\ old.open
    BY <1>1 DEF WalletsOpen
  <1>5. \A n : Account!Frozen(old, n).open /\ Account!Consumed(old, n).open
    BY <1>4 DEF Account!Frozen, Account!Consumed, Account!Wallet
  <1>6. \A r, n : Account!Settled(old, r, n).open
    BY <1>4 DEF Account!Settled, Account!Wallet
  <1>7. CASE Account!Reserve(v, Estimate[v])
    <2>1. wallet' = [wallet EXCEPT ![Owner[v]] = Account!Frozen(old, Estimate[v])]
      BY <1>1, <1>4, <1>7 DEF Account!Reserve
    <2> QED BY <1>1, <1>2, <1>5, <2>1
  <1>8. ASSUME NEW o, NEW n, Account!Settle(v, o, n)
        PROVE  WalletsOpen'
    <2>1. wallet' = [wallet EXCEPT ![Owner[v]] = Account!Settled(old, resv[v].reserved, n)]
      BY <1>1, <1>4, <1>8 DEF Account!Settle
    <2> QED BY <1>1, <1>2, <1>6, <2>1
  <1>9. CASE Account!Consume(Owner[v], Cost[v])
    <2>1. wallet' = [wallet EXCEPT ![Owner[v]] = Account!Consumed(old, Cost[v])]
      BY <1>1, <1>4, <1>9 DEF Account!Consume
    <2> QED BY <1>1, <1>2, <1>5, <2>1
  <1> QED BY <1>3, <1>7, <1>8, <1>9

\* A video that is to be reserved has no reservation yet.
Answerable ==
    \A v \in Video :
        /\ wallet[Owner[v]].open
        /\ At(Invoke(v), "reserve") => resv[v].status = Account!Unmade

\* What the service's promise (PointsAccount) lacks is never asked for: only
\* a video without a reservation is reserved, in a wallet that is there; a
\* settlement looks at the reservation itself.
THEOREM VideoPromiseSuffices == Spec => []Answerable
  <1>1. Init => WalletsOpen
    BY DEF Init, WalletsOpen, Account!Opened
  <1>2. IInv /\ WalletsOpen => Answerable
    BY Points DEF IInv, Fresh, WalletsOpen, Answerable, At
  <1> QED BY <1>1, <1>2, InvariantHolds, StepsAccount, StepOpen, PTL DEF Spec
=============================================================================
