------------------------- MODULE AiInvocationProofs -------------------------
(***************************************************************************)
(* Proofs about AiInvocation for any calls, users, routes, limits, costs   *)
(* and faults: type correctness, that the throttle's counters are what     *)
(* runs and what was lost, that frozen points have somebody who will       *)
(* settle them, and that each answer is paid for once.                     *)
(*                                                                         *)
(* The argument is about where a call is (Good): a call has a slot at      *)
(* exactly four of its labels, an image's own reservation belongs to the   *)
(* route it is on, and an image has no reservation in its context; and     *)
(* that only a task that charges has no reservation (OfTask).  Payments    *)
(* are counted with what will still be paid: BillInv.  Last, the pipeline  *)
(* never asks the points service for what its promise lacks (AskInv).      *)
(***************************************************************************)
EXTENDS AiInvocation, Sums, SequenceTheorems

CallType == [at : Label, attempt : Attempt, slot : BOOLEAN,
             context : Attempt \cup {NoKey}, hub : Attempt \cup {NoKey}]

Slotted == {"upstream", "unwind", "body", "stream"}
HubLabels == {"hub_reserve", "hub_attach", "hub_poll", "hub_settle", "hub_fail"}
Reserved == {"acquire", "upstream", "unwind", "hub_attach", "hub_poll", "hub_settle", "hub_fail"}

OnHub(c, i) == c \in image /\ Route[i] \in HubSource

\* What is so of a call's record r, wherever the call is.
Good(c, r) ==
    /\ r \in CallType
    /\ r.slot <=> r.at \in Slotted
    /\ r.hub # NoKey => OnHub(c, r.attempt) /\ r.hub = r.attempt /\ r.at \in Reserved
    /\ r.at \in HubLabels => OnHub(c, r.attempt)
    /\ r.at = "hub_settle" => r.hub # NoKey
    /\ r.at = "body" => ~OnHub(c, r.attempt)
    /\ r.at \in {"stream", "cancelled"} => c \notin image
    /\ c \in image => r.context = NoKey

Calls ==
    /\ call = [c \in Call |-> call[c]]
    /\ \A c \in Call : Good(c, call[c])

OfTask == usage \subseteq Task /\ \A t \in usage : t.stage = "charge" <=> t.held = NoKey

AccountOK == Account!TypeOK

Rest ==
    /\ image \subseteq Call
    /\ clientId \in [Call -> Id \cup {NoId}]
    /\ taskOf \in [Key -> Ref]
    /\ charged \in [Call -> Nat]
    /\ answers \in [Call -> SUBSET Attempt]
    /\ lost \in [Source -> Nat]
    /\ forgotten \subseteq Key
    /\ faults \in 0 .. MaxFaults

Types == ThrottleTypeOK /\ Calls /\ OfTask /\ AccountOK /\ Rest

IInv == Types /\ SlotsAreCounted /\ PendingIsHeld

-----------------------------------------------------------------------------
(* Constants                                                               *)

LEMMA AttemptsAreNat ==
  /\ Attempt \subseteq Nat \ {0} /\ 1 \in Attempt /\ NoKey \notin Attempt
  /\ \A i \in Attempt : Route[i] \in Source /\ (i < Len(Route) => i + 1 \in Attempt)
  /\ Len(Route) \in Nat
  BY RouteAssumption, LenProperties DEF Attempt, NoKey

LEMMA Keys ==
  /\ \A c \in Call, i \in Attempt :
       <<c, i>> \in Key /\ <<c, i>>[1] = c /\ <<c, i>>[2] = i /\ KeyOwner[<<c, i>>] = Owner[c]
  /\ \A k \in Key : k = <<k[1], k[2]>> /\ k[1] \in Call /\ k[2] \in Attempt /\ KeyOwner[k] \in User
  BY OwnerAssumption DEF Key, KeyOwner

LEMMA Statuses ==
  /\ Account!Pending = "pending" /\ Account!Captured = "captured" /\ Account!Released = "released"
  /\ Account!Unmade = "none"
  BY DEF Account!Pending, Account!Captured, Account!Released, Account!Unmade

-----------------------------------------------------------------------------
(* The account                                                             *)

\* Only the reservation of key k is written; its status is then s.
StatusIs(k, s) ==
    /\ resv'[k].status = s
    /\ \A x \in Key \ {k} : resv'[x] = resv[x]

LEMMA ReserveOK ==
  ASSUME AccountOK, NEW k \in Key, NEW n \in Nat, Account!Reserve(k, n)
  PROVE  AccountOK' /\ StatusIs(k, Account!Pending)
  <1>1. KeyOwner[k] \in User /\ wallet[KeyOwner[k]] \in Account!Wallet
    BY Keys DEF AccountOK, Account!TypeOK
  <1>2. wallet[KeyOwner[k]].balance - n \in Int
    BY <1>1 DEF Account!Wallet
  <1>3. Account!Frozen(wallet[KeyOwner[k]], n) \in Account!Wallet
    BY <1>1, <1>2 DEF Account!Frozen, Account!Wallet
  <1>4. wallet' = [wallet EXCEPT ![KeyOwner[k]] = Account!Frozen(wallet[KeyOwner[k]], n)]
    BY <1>1 DEF Account!Reserve, AccountOK, Account!TypeOK
  <1>5. wallet' \in [User -> Account!Wallet]
    BY <1>1, <1>3, <1>4 DEF AccountOK, Account!TypeOK
  <1> DEFINE new == [status |-> Account!Pending, reserved |-> n, settled |-> 0]
  <1>6. new \in Account!Reservation /\ new.status = Account!Pending
    BY DEF Account!Reservation
  <1>7. resv' = [resv EXCEPT ![k] = new]
    BY DEF Account!Reserve
  <1> HIDE DEF new
  <1> QED
    BY <1>5, <1>6, <1>7 DEF AccountOK, Account!TypeOK, StatusIs

LEMMA SettleOK ==
  ASSUME AccountOK, NEW k \in Key, NEW o \in Account!Terminal, NEW n \in Nat,
         Account!Settle(k, o, n)
  PROVE  AccountOK' /\ StatusIs(k, o) /\ resv[k].status = Account!Pending
  <1>1. /\ KeyOwner[k] \in User /\ wallet[KeyOwner[k]] \in Account!Wallet
        /\ resv[k] \in Account!Reservation
    BY Keys DEF AccountOK, Account!TypeOK
  <1>2. /\ wallet[KeyOwner[k]].balance + (resv[k].reserved - n) \in Int
        /\ wallet[KeyOwner[k]].spent + n \in Nat
    BY <1>1 DEF Account!Wallet, Account!Reservation
  <1>3. Account!Settled(wallet[KeyOwner[k]], resv[k].reserved, n) \in Account!Wallet
    BY <1>1, <1>2 DEF Account!Settled, Account!Wallet
  <1>4. wallet' = [wallet EXCEPT ![KeyOwner[k]] =
                     Account!Settled(wallet[KeyOwner[k]], resv[k].reserved, n)]
    BY <1>1 DEF Account!Settle, AccountOK, Account!TypeOK
  <1>5. wallet' \in [User -> Account!Wallet]
    BY <1>1, <1>3, <1>4 DEF AccountOK, Account!TypeOK
  <1>6. resv' = [resv EXCEPT ![k] = [resv[k] EXCEPT !.status = o, !.settled = n]]
    BY <1>1 DEF Account!Settle, AccountOK, Account!TypeOK, Account!Reservation
  <1>7. /\ [resv[k] EXCEPT !.status = o, !.settled = n] \in Account!Reservation
        /\ [resv[k] EXCEPT !.status = o, !.settled = n].status = o
    BY <1>1 DEF Account!Reservation
  <1> QED
    BY <1>5, <1>6, <1>7 DEF AccountOK, Account!TypeOK, StatusIs, Account!Settle

LEMMA ConsumeOK ==
  ASSUME AccountOK, NEW u \in User, NEW n \in Nat, Account!Consume(u, n)
  PROVE  AccountOK' /\ resv' = resv
  <1>1. wallet[u] \in Account!Wallet
    BY DEF AccountOK, Account!TypeOK
  <1>2. wallet[u].balance - n \in Int /\ wallet[u].spent + n \in Nat
    BY <1>1 DEF Account!Wallet
  <1>3. Account!Consumed(wallet[u], n) \in Account!Wallet
    BY <1>1, <1>2 DEF Account!Consumed, Account!Wallet
  <1>4. wallet' = [wallet EXCEPT ![u] = Account!Consumed(wallet[u], n)] /\ resv' = resv
    BY DEF Account!Consume, AccountOK, Account!TypeOK
  <1> QED
    BY <1>3, <1>4 DEF AccountOK, Account!TypeOK

LEMMA AccountSame == AccountOK /\ UNCHANGED account => AccountOK'
  BY DEF AccountOK, Account!TypeOK, account

\* releaseReservationByKey: the reservation is not pending afterwards.
LEMMA ReleaseOK ==
  ASSUME AccountOK, NEW k \in Key, ReleaseReservation(k)
  PROVE  /\ AccountOK' /\ resv'[k].status # Account!Pending
         /\ \A x \in Key \ {k} : resv'[x] = resv[x]
  <1>1. CASE resv[k].status = Account!Pending
    <2>1. Account!Settle(k, Account!Released, 0)
      BY <1>1 DEF ReleaseReservation
    <2>2. Account!Released \in Account!Terminal
      BY DEF Account!Terminal
    <2> QED
      BY <2>1, <2>2, SettleOK, Statuses DEF StatusIs
  <1>2. CASE resv[k].status # Account!Pending
    BY <1>2, AccountSame DEF ReleaseReservation, account
  <1> QED
    BY <1>1, <1>2

-----------------------------------------------------------------------------
(* The throttle                                                            *)

Counters == [source : [Source -> Nat], user : [Source -> [User -> Nat]]]

\* Only the counter of source s moves, to n.
SourceIs(s, n) ==
    /\ active' \in Counters
    /\ active'.source[s] = n
    /\ \A x \in Source \ {s} : active'.source[x] = active.source[x]

LEMMA SetCounters ==
  ASSUME active \in Counters, NEW s \in Source, NEW u \in User, NEW m \in Nat, NEW n \in Nat,
         active' = [active EXCEPT !.source[s] = m, !.user[s][u] = n]
  PROVE  SourceIs(s, m)
  <1> DEFINE source == [active.source EXCEPT ![s] = m]
             user == [active.user EXCEPT ![s] = [active.user[s] EXCEPT ![u] = n]]
  <1>1. source \in [Source -> Nat] /\ user \in [Source -> [User -> Nat]]
    BY DEF Counters
  <1>2. active' = [source |-> source, user |-> user]
    BY DEF Counters
  <1>3. source[s] = m /\ \A x \in Source \ {s} : source[x] = active.source[x]
    BY DEF Counters
  <1> HIDE DEF source, user
  <1> QED
    BY <1>1, <1>2, <1>3 DEF SourceIs, Counters

LEMMA SetSourceCounter ==
  ASSUME active \in Counters, NEW s \in Source, NEW m \in Nat,
         active' = [active EXCEPT !.source[s] = m]
  PROVE  SourceIs(s, m)
  <1> DEFINE source == [active.source EXCEPT ![s] = m]
             user == active.user
  <1>1. source \in [Source -> Nat] /\ user \in [Source -> [User -> Nat]]
    BY DEF Counters
  <1>2. active' = [source |-> source, user |-> user]
    BY DEF Counters
  <1>3. source[s] = m /\ \A x \in Source \ {s} : source[x] = active.source[x]
    BY DEF Counters
  <1> HIDE DEF source, user
  <1> QED
    BY <1>1, <1>2, <1>3 DEF SourceIs, Counters

LEMMA CounterTypes ==
  ASSUME ThrottleTypeOK, NEW s \in Source, NEW u \in User
  PROVE  active \in Counters /\ active.source[s] \in Nat /\ active.user[s][u] \in Nat
  BY DEF ThrottleTypeOK, Counters

LEMMA CountNat ==
  ASSUME NEW n \in Nat, NEW limit \in Nat
  PROVE  Count(n, limit) \in Nat /\ Drop(n) \in Nat /\ (limit > 0 => Count(n, limit) = n + 1)
  BY DEF Count, Drop

LEMMA TakeOK ==
  ASSUME ThrottleTypeOK, NEW s \in Source, NEW u \in User, Take(s, u)
  PROVE  SourceIs(s, Count(active.source[s], SourceLimit))
  <1> DEFINE m == Count(active.source[s], SourceLimit)
             n == Count(active.user[s][u], UserLimit)
  <1>1. m \in Nat /\ n \in Nat
    BY CounterTypes, CountNat, LimitsAssumption
  <1>2. active' = [active EXCEPT !.source[s] = m, !.user[s][u] = n]
    BY CounterTypes DEF Take, Counters
  <1> HIDE DEF m, n
  <1>3. SourceIs(s, m)
    BY <1>1, <1>2, CounterTypes, SetCounters
  <1> QED
    BY <1>3 DEF m

LEMMA GiveOK ==
  ASSUME ThrottleTypeOK, NEW s \in Source, NEW u \in User, Release(s, u)
  PROVE  SourceIs(s, Drop(active.source[s]))
  <1> DEFINE m == Drop(active.source[s])
             n == Drop(active.user[s][u])
  <1>1. m \in Nat /\ n \in Nat
    BY CounterTypes, CountNat, LimitsAssumption
  <1>2. active' = [active EXCEPT !.source[s] = m, !.user[s][u] = n]
    BY CounterTypes DEF Release, Counters
  <1> HIDE DEF m, n
  <1>3. SourceIs(s, m)
    BY <1>1, <1>2, CounterTypes, SetCounters
  <1> QED
    BY <1>3 DEF m

LEMMA RefuseOK ==
  ASSUME ThrottleTypeOK, NEW s \in Source, NEW u \in User, Refuse(s, u)
  PROVE  \/ SourceIs(s, active.source[s])
         \/ ~redis /\ SourceIs(s, Count(active.source[s], SourceLimit))
  <1>1. CASE UserFull(s, u) /\ ~redis
    <2> DEFINE m == Count(active.source[s], SourceLimit)
    <2>1. m \in Nat
      BY CounterTypes, CountNat, LimitsAssumption
    <2>2. active' = [active EXCEPT !.source[s] = m]
      BY <1>1, CounterTypes DEF Refuse, Counters
    <2> HIDE DEF m
    <2>3. SourceIs(s, m)
      BY <2>1, <2>2, CounterTypes, SetSourceCounter
    <2> QED
      BY <1>1, <2>3 DEF m
  <1>2. CASE ~(UserFull(s, u) /\ ~redis)
    BY <1>2, CounterTypes DEF Refuse, SourceIs
  <1> QED
    BY <1>1, <1>2

LEMMA HealthOK ==
  ASSUME ThrottleTypeOK, NEW s \in Source,
         RecordSuccess(s) \/ RecordFailure(s) \/ health' = [health EXCEPT ![s].cooling = FALSE]
  PROVE  health' \in [Source -> [failures : 0 .. FailureThreshold, cooling : BOOLEAN]]
  <1> DEFINE H == [failures : 0 .. FailureThreshold, cooling : BOOLEAN]
  <1>1. health[s] \in H /\ Healthy \in H /\ FailureThreshold \in Nat
    BY LimitsAssumption DEF ThrottleTypeOK, Healthy
  <1>2. CASE RecordSuccess(s)
    BY <1>1, <1>2 DEF RecordSuccess, ThrottleTypeOK
  <1>3. CASE RecordFailure(s)
    <2> DEFINE n == health[s].failures + 1
               new == [failures |-> IF n > FailureThreshold THEN FailureThreshold ELSE n,
                       cooling |-> health[s].cooling \/ n >= FailureThreshold]
    <2>1. (IF n > FailureThreshold THEN FailureThreshold ELSE n) \in 0 .. FailureThreshold
      BY <1>1
    <2>2. (health[s].cooling \/ n >= FailureThreshold) \in BOOLEAN
      OBVIOUS
    <2>3. new \in H
      BY <2>1, <2>2
    <2>4. health' = [health EXCEPT ![s] = new]
      BY <1>1, <1>3 DEF RecordFailure, ThrottleTypeOK
    <2> HIDE DEF new
    <2> QED
      BY <2>3, <2>4 DEF ThrottleTypeOK
  <1>4. CASE health' = [health EXCEPT ![s].cooling = FALSE]
    BY <1>1, <1>4 DEF ThrottleTypeOK
  <1> QED
    BY <1>2, <1>3, <1>4

-----------------------------------------------------------------------------
(* Where calls are                                                         *)

LEMMA CallOK ==
  ASSUME Types, NEW c \in Call
  PROVE  /\ call[c] \in CallType /\ Good(c, call[c])
         /\ SourceOf(c) \in Source /\ Owner[c] \in User
         /\ UsesHub(c) <=> OnHub(c, call[c].attempt)
  <1>1. Good(c, call[c]) /\ call[c] \in CallType
    BY DEF Types, Calls, Good
  <1>2. call[c].attempt \in Attempt
    BY <1>1 DEF CallType
  <1> QED
    BY <1>1, <1>2, AttemptsAreNat, OwnerAssumption DEF SourceOf, UsesHub, OnHub

LEMMA NextRouteGood ==
  ASSUME NEW c \in Call, NEW r \in CallType, c \in image => r.context = NoKey, NEW retry \in BOOLEAN
  PROVE  /\ Good(c, NextRoute(r, retry))
         /\ ~NextRoute(r, retry).slot
         /\ NextRoute(r, retry).context = r.context /\ NextRoute(r, retry).hub = NoKey
  <1>1. r.attempt \in Attempt /\ r.attempt \in Nat /\ Len(Route) \in Nat
    BY AttemptsAreNat DEF CallType
  <1>2. CASE retry /\ r.attempt < Len(Route)
    <2> DEFINE new == [r EXCEPT !.at = "preflight", !.attempt = r.attempt + 1, !.slot = FALSE,
                                !.hub = NoKey]
    <2>1. r.attempt + 1 \in Attempt
      BY <1>1, <1>2, AttemptsAreNat
    <2>2. NextRoute(r, retry) = new
      BY <1>2 DEF NextRoute, CallType
    <2>3. /\ new \in CallType /\ new.at = "preflight" /\ new.slot = FALSE /\ new.hub = NoKey
          /\ new.context = r.context
      BY <2>1 DEF CallType, Label
    <2> HIDE DEF new
    <2> QED
      BY <2>2, <2>3 DEF Good, Slotted, HubLabels
  <1>3. CASE ~(retry /\ r.attempt < Len(Route))
    <2> DEFINE new == [r EXCEPT !.at = "failed", !.slot = FALSE, !.hub = NoKey]
    <2>1. NextRoute(r, retry) = new
      BY <1>3 DEF NextRoute
    <2>2. /\ new \in CallType /\ new.at = "failed" /\ new.slot = FALSE /\ new.hub = NoKey
          /\ new.context = r.context
      BY DEF CallType, Label
    <2> HIDE DEF new
    <2> QED
      BY <2>1, <2>2 DEF Good, Slotted, HubLabels
  <1> QED
    BY <1>2, <1>3

\* A call that fails, and one that is done.
LEMMA FailIs ==
  ASSUME Types, NEW c \in Call, NEW retry \in BOOLEAN, Fail(c, retry)
  PROVE  \E new : /\ call' = [call EXCEPT ![c] = new] /\ Good(c, new) /\ ~new.slot
                  /\ new.context = call[c].context /\ new.hub = NoKey
  <1>1. call[c] \in CallType /\ (c \in image => call[c].context = NoKey)
    BY CallOK DEF Good
  <1>2. call' = [call EXCEPT ![c] = NextRoute(call[c], retry)]
    BY DEF Fail, Types, Calls
  <1> QED
    BY <1>1, <1>2, NextRouteGood

LEMMA FinishIs ==
  ASSUME Types, NEW c \in Call, Finish(c)
  PROVE  \E new : /\ call' = [call EXCEPT ![c] = new] /\ Good(c, new) /\ ~new.slot
                  /\ new.context = NoKey /\ new.hub = NoKey
  <1> DEFINE new == [call[c] EXCEPT !.at = "done", !.slot = FALSE, !.context = NoKey, !.hub = NoKey]
  <1>1. call[c] \in CallType
    BY CallOK
  <1>2. /\ new \in CallType /\ new.at = "done" /\ new.slot = FALSE /\ new.context = NoKey
        /\ new.hub = NoKey
    BY <1>1 DEF CallType, Label
  <1>3. call' = [call EXCEPT ![c] = new]
    BY DEF Finish, Types, Calls
  <1> HIDE DEF new
  <1>4. Good(c, new)
    BY <1>2 DEF Good, Slotted, HubLabels
  <1> QED
    BY <1>2, <1>3, <1>4

\* A call that goes on to a label without a slot, or keeps the one it has.
LEMMA GotoIs ==
  ASSUME Types, NEW c \in Call, NEW label \in Label,
         Goto(c, label),
         call[c].slot <=> label \in Slotted,
         call[c].hub # NoKey => label \in Reserved,
         label \in HubLabels => UsesHub(c),
         label = "hub_settle" => call[c].hub # NoKey,
         label = "body" => ~UsesHub(c),
         label \in {"stream", "cancelled"} => c \notin image
  PROVE  \E new : /\ call' = [call EXCEPT ![c] = new] /\ Good(c, new)
                  /\ new.slot = call[c].slot /\ new.attempt = call[c].attempt
                  /\ new.context = call[c].context /\ new.hub = call[c].hub
  <1> DEFINE new == [call[c] EXCEPT !.at = label]
  <1>1. call[c] \in CallType
    BY CallOK
  <1>2. /\ new \in CallType /\ new.at = label /\ new.slot = call[c].slot
        /\ new.attempt = call[c].attempt
        /\ new.context = call[c].context /\ new.hub = call[c].hub
    BY <1>1 DEF CallType
  <1>3. call' = [call EXCEPT ![c] = new]
    BY DEF Goto, Types, Calls
  <1> HIDE DEF new
  <1>4. Good(c, new)
    BY <1>2, CallOK DEF Good
  <1> QED
    BY <1>2, <1>3, <1>4

-----------------------------------------------------------------------------
(* What a call reports                                                     *)

LEMMA RefForOK ==
  ASSUME Types, NEW c \in Call
  PROVE  RefFor(c) \subseteq Ref
  <1>1. <<c, call[c].attempt>> \in Key
    BY CallOK, Keys DEF CallType
  <1>2. clientId[c] \in Id \cup {NoId}
    BY DEF Types, Rest
  <1> QED
    BY <1>1, <1>2 DEF RefFor, Ref

LEMMA ReportOK ==
  ASSUME Types, NEW c \in Call, NEW success \in BOOLEAN, LogUsage(c, success)
  PROVE  /\ OfTask' /\ usage \subseteq usage'
         /\ call[c].context # NoKey =>
              \E t \in usage' : t.call = c /\ t.held = call[c].context
  <1>1. PICK ref \in RefFor(c) : usage' = usage \cup Report(c, success, ref)
    BY DEF LogUsage
  <1>2. ref \in Ref /\ call[c].attempt \in Attempt /\ call[c].context \in Attempt \cup {NoKey}
    BY CallOK, RefForOK DEF CallType
  <1> DEFINE t == [call |-> c, attempt |-> call[c].attempt, success |-> success,
                   held |-> call[c].context, ref |-> ref,
                   stage |-> IF call[c].context = NoKey THEN "charge" ELSE "attach"]
  <1>3. /\ t \in Task /\ t.call = c /\ t.held = call[c].context
        /\ t.stage = "charge" <=> t.held = NoKey
    BY <1>2 DEF Task
  <1>4. Report(c, success, ref) = {} \/ Report(c, success, ref) = {t}
    BY DEF Report
  <1>5. call[c].context # NoKey => Report(c, success, ref) = {t}
    BY DEF Report
  <1> HIDE DEF t
  <1> QED
    BY <1>1, <1>3, <1>4, <1>5 DEF Types, OfTask

-----------------------------------------------------------------------------
(* Slots                                                                   *)

LEMMA HoldingFinite ==
  ASSUME NEW s \in Source
  PROVE  IsFiniteSet(Holding(s)) /\ Cardinality(Holding(s)) \in Nat
  <1>1. Holding(s) \in SUBSET Call
    BY DEF Holding
  <1> QED
    BY <1>1, CallAssumption, FS_Subset, FS_CardinalityType

LEMMA SlotsKept ==
  ASSUME IInv, NEW c \in Call, NEW new, call' = [call EXCEPT ![c] = new],
         new.slot = call[c].slot, new.slot => new.attempt = call[c].attempt,
         UNCHANGED <<redis, active, lost>>
  PROVE  SlotsAreCounted'
  <1>1. \A x \in Call : /\ call'[x].slot = call[x].slot
                        /\ call[x].slot => call'[x].attempt = call[x].attempt
    BY DEF IInv, Types, Calls
  <1>2. \A s \in Source : Holding(s)' = Holding(s)
    BY <1>1 DEF Holding, SourceOf
  <1> QED
    BY <1>2 DEF IInv, SlotsAreCounted

\* The call gives back the slot it has, if it has one.
LEMMA SlotsGiven ==
  ASSUME IInv, NEW c \in Call, NEW new, call' = [call EXCEPT ![c] = new], new.slot = FALSE,
         GiveBack(c), UNCHANGED <<redis, lost>>
  PROVE  SlotsAreCounted' /\ active' \in Counters
  <1>1. Types /\ SourceOf(c) \in Source /\ Owner[c] \in User /\ ThrottleTypeOK
    BY CallOK DEF IInv, Types
  <1>2. CASE ~call[c].slot
    <2>1. call[c].slot \in BOOLEAN
      BY <1>1, CallOK DEF CallType
    <2>2. active' = active /\ new.slot = call[c].slot
      BY <1>2, <2>1 DEF GiveBack
    <2> QED
      BY <1>1, <2>2, SlotsKept, CounterTypes
  <1>3. CASE call[c].slot
    <2>0. PICK s \in Source : s = SourceOf(c)
      BY <1>1
    <2>1. SourceIs(s, Drop(active.source[s]))
      BY <1>1, <1>3, <2>0, GiveOK DEF GiveBack
    <2>2. \A x \in Call \ {c} : call'[x] = call[x]
      BY <1>1 DEF Types, Calls
    <2>3. ~call'[c].slot
      BY <1>1 DEF Types, Calls
    <2>4. Holding(s)' = Holding(s) \ {c} /\ c \in Holding(s)
      BY <1>3, <2>0, <2>2, <2>3 DEF Holding, SourceOf
    <2>5. \A x \in Source \ {s} : Holding(x)' = Holding(x)
      BY <2>0, <2>2, <2>3 DEF Holding, SourceOf
    <2>6. Cardinality(Holding(s)') = Cardinality(Holding(s)) - 1 /\ Cardinality(Holding(s)) \in Nat
      BY <1>1, <2>4, HoldingFinite, FS_RemoveElement
    <2>7. Cardinality(Holding(s)') \in Nat
      BY <1>1, <2>4, HoldingFinite, FS_RemoveElement, FS_CardinalityType
    <2> SUFFICES ASSUME NEW x \in Source, SourceLimit > 0
                 PROVE  /\ active'.source[x] <= Cardinality(Holding(x)') + lost'[x]
                        /\ ~redis' => active'.source[x] = Cardinality(Holding(x)') + lost'[x]
      BY <2>1 DEF SlotsAreCounted, SourceIs
    <2>8. /\ active.source[x] <= Cardinality(Holding(x)) + lost[x]
          /\ ~redis => active.source[x] = Cardinality(Holding(x)) + lost[x]
      BY DEF IInv, SlotsAreCounted
    <2>9. CASE x = s
      <3>1. active.source[x] \in Nat /\ lost[x] \in Nat
        BY <1>1, CounterTypes DEF Types, Rest
      <3>2. active'.source[x] = Drop(active.source[x])
        BY <2>1, <2>9 DEF SourceIs
      <3> QED
        BY <2>6, <2>7, <2>8, <2>9, <3>1, <3>2 DEF Drop
    <2>10. CASE x # s
      BY <2>1, <2>5, <2>8, <2>10 DEF SourceIs
    <2> QED
      BY <2>9, <2>10
  <1> QED
    BY <1>2, <1>3

-----------------------------------------------------------------------------
(* A step of a call                                                        *)

Healths == [Source -> [failures : 0 .. FailureThreshold, cooling : BOOLEAN]]

\* Reservations of other calls stay as they are.
OthersKept(c) == \A k \in Key : k[1] # c => resv'[k] = resv[k]

\* After the step that leaves call c with the record r, whose frozen points
\* are settled by somebody.
HeldAfter(c, r) ==
    \A i \in Attempt : <<c, i>> \notin forgotten' /\ resv'[<<c, i>>].status = Account!Pending
                        => \/ r.context = i \/ r.hub = i
                           \/ \E t \in usage' : t.call = c /\ t.held = i

\* Everything of the invariant that such a step has to show.
LEMMA CallStep ==
  ASSUME IInv, NEW c \in Call, NEW new, Good(c, new), call' = [call EXCEPT ![c] = new],
         UNCHANGED <<requests, charged>>, taskOf' \in [Key -> Ref],
         redis' = redis, active' \in Counters,
         health' \in Healths,
         answers' \in [Call -> SUBSET Attempt], lost' \in [Source -> Nat],
         forgotten' \in SUBSET Key, faults' \in 0 .. MaxFaults,
         AccountOK', OfTask', SlotsAreCounted',
         usage \subseteq usage', forgotten \subseteq forgotten',
         OthersKept(c), HeldAfter(c, new)
  PROVE  IInv'
  <1>1. /\ call' = [x \in Call |-> call'[x]] /\ call'[c] = new
        /\ \A x \in Call \ {c} : call'[x] = call[x]
    BY DEF IInv, Types, Calls
  <1>2. Calls'
    <2>1. image' = image
      BY DEF requests
    <2>2. \A x \in Call : Good(x, call'[x])
      BY <1>1 DEF IInv, Types, Calls
    <2>3. \A x \in Call : Good(x, call[x])'
      BY <2>1, <2>2 DEF Good, OnHub
    <2> QED
      BY <1>1, <2>3 DEF Calls
  <1>3. ThrottleTypeOK'
    BY DEF IInv, Types, ThrottleTypeOK, Counters, Healths
  <1>4. Rest'
    BY DEF IInv, Types, Rest, requests
  <1>5. PendingIsHeld'
    <2> SUFFICES ASSUME NEW k \in Key \ forgotten', resv'[k].status = Account!Pending
                 PROVE  \/ call'[k[1]].context = k[2] \/ call'[k[1]].hub = k[2]
                        \/ \E t \in usage' : t.call = k[1] /\ t.held = k[2]
      BY DEF PendingIsHeld, Account!Pending
    <2>1. k = <<k[1], k[2]>> /\ k[1] \in Call /\ k[2] \in Attempt
      BY Keys
    <2>2. CASE k[1] = c
      BY <1>1, <2>1, <2>2 DEF HeldAfter
    <2>3. CASE k[1] # c
      BY <1>1, <2>1, <2>3 DEF IInv, PendingIsHeld, OthersKept
    <2> QED
      BY <2>2, <2>3
  <1> QED
    BY <1>2, <1>3, <1>4, <1>5 DEF IInv, Types

\* Frozen points of a call whose context, reservation of an image, and
\* reservations stay, have whom they had.
LEMMA HeldStays ==
  ASSUME IInv, NEW c \in Call, resv' = resv, usage \subseteq usage', forgotten \subseteq forgotten'
  PROVE  HeldAfter(c, call[c]) /\ OthersKept(c)
  <1> SUFFICES ASSUME NEW i \in Attempt, <<c, i>> \notin forgotten',
                      resv[<<c, i>>].status = Account!Pending
               PROVE  \/ call[c].context = i \/ call[c].hub = i
                      \/ \E t \in usage' : t.call = c /\ t.held = i
    BY DEF HeldAfter, OthersKept
  <1>1. <<c, i>> \in Key \ forgotten /\ <<c, i>>[1] = c /\ <<c, i>>[2] = i
    BY Keys
  <1> QED
    BY <1>1 DEF IInv, PendingIsHeld

LEMMA TypesNow ==
  ASSUME IInv
  PROVE  /\ Types /\ ThrottleTypeOK /\ AccountOK /\ OfTask /\ PendingIsHeld
         /\ active \in Counters /\ health \in Healths
         /\ answers \in [Call -> SUBSET Attempt] /\ lost \in [Source -> Nat]
         /\ forgotten \in SUBSET Key /\ faults \in 0 .. MaxFaults /\ taskOf \in [Key -> Ref]
  BY DEF IInv, Types, ThrottleTypeOK, Counters, Healths, Rest

\* A step that touches neither counters nor tasks.
LEMMA QuietStep ==
  ASSUME IInv, NEW c \in Call, NEW new, Good(c, new), call' = [call EXCEPT ![c] = new],
         new.slot = call[c].slot, new.slot => new.attempt = call[c].attempt,
         UNCHANGED <<requests, charged, usage, redis, active, lost>>,
         taskOf' \in [Key -> Ref], health' \in Healths, answers' \in [Call -> SUBSET Attempt],
         forgotten' \in SUBSET Key, forgotten \subseteq forgotten', faults' \in 0 .. MaxFaults,
         AccountOK', OthersKept(c), HeldAfter(c, new)
  PROVE  IInv'
  <1>1. SlotsAreCounted'
    BY SlotsKept
  <1>2. /\ active' \in Counters /\ OfTask' /\ redis' = redis /\ lost' \in [Source -> Nat]
        /\ usage \subseteq usage' /\ UNCHANGED <<requests, charged>>
    BY TypesNow DEF OfTask
  <1> QED
    BY <1>1, <1>2, CallStep

\* ... nor anything else but the call.
LEMMA MoveStep ==
  ASSUME IInv, NEW c \in Call, NEW new, Good(c, new), call' = [call EXCEPT ![c] = new],
         new.slot = call[c].slot, new.slot => new.attempt = call[c].attempt,
         new.context = call[c].context, new.hub = call[c].hub,
         UNCHANGED <<requests, account, billing, redis, active, lost, forgotten>>,
         health' \in Healths, answers' \in [Call -> SUBSET Attempt], faults' \in 0 .. MaxFaults
  PROVE  IInv'
  <1>1. /\ resv' = resv /\ usage \subseteq usage' /\ forgotten \subseteq forgotten'
        /\ forgotten' \in SUBSET Key /\ taskOf' \in [Key -> Ref] /\ AccountOK'
        /\ UNCHANGED <<requests, charged, usage, redis, active, lost>>
    BY TypesNow, AccountSame DEF account, billing
  <1>2. HeldAfter(c, new) /\ OthersKept(c)
    BY <1>1, HeldStays DEF HeldAfter
  <1> QED
    BY <1>1, <1>2, QuietStep

\* The same of the steps that are all they do.
LEMMA FailStep ==
  ASSUME IInv, NEW c \in Call, NEW retry \in BOOLEAN, Fail(c, retry),
         ~call[c].slot, call[c].hub = NoKey,
         UNCHANGED <<requests, account, billing, throttle, answers, lost, forgotten>>,
         faults' \in 0 .. MaxFaults
  PROVE  IInv'
  <1>1. PICK new : /\ call' = [call EXCEPT ![c] = new] /\ Good(c, new) /\ ~new.slot
                   /\ new.context = call[c].context /\ new.hub = NoKey
    BY FailIs DEF IInv
  <1>2. new.slot = call[c].slot
    BY <1>1, TypesNow, CallOK DEF Good, CallType
  <1>3. /\ health' \in Healths /\ answers' \in [Call -> SUBSET Attempt]
        /\ UNCHANGED <<requests, account, billing, redis, active, lost, forgotten>>
    BY TypesNow DEF throttle
  <1> QED
    BY <1>1, <1>2, <1>3, MoveStep

LEMMA GotoStep ==
  ASSUME IInv, NEW c \in Call, NEW label \in Label, Goto(c, label),
         call[c].slot <=> label \in Slotted,
         call[c].hub # NoKey => label \in Reserved,
         label \in HubLabels => UsesHub(c),
         label = "hub_settle" => call[c].hub # NoKey,
         label = "body" => ~UsesHub(c),
         label \in {"stream", "cancelled"} => c \notin image,
         UNCHANGED <<requests, account, billing, redis, active, lost, forgotten>>,
         health' \in Healths, answers' \in [Call -> SUBSET Attempt], faults' \in 0 .. MaxFaults
  PROVE  IInv'
  <1>1. PICK new : /\ call' = [call EXCEPT ![c] = new] /\ Good(c, new)
                   /\ new.slot = call[c].slot /\ new.attempt = call[c].attempt
                   /\ new.context = call[c].context /\ new.hub = call[c].hub
    BY TypesNow, GotoIs
  <1> QED
    BY <1>1, MoveStep

\* What is so at the label the call is at.
LEMMA AtLabel ==
  ASSUME IInv, NEW c \in Call
  PROVE  /\ call[c].slot <=> call[c].at \in Slotted
         /\ call[c].hub # NoKey =>
              UsesHub(c) /\ call[c].hub = call[c].attempt /\ call[c].at \in Reserved
         /\ call[c].at \in HubLabels => UsesHub(c)
         /\ call[c].at = "hub_settle" => call[c].hub # NoKey
         /\ call[c].at = "body" => ~UsesHub(c)
         /\ call[c].at \in {"stream", "cancelled"} => c \notin image
         /\ c \in image => call[c].context = NoKey
         /\ call[c] \in CallType
  BY TypesNow, CallOK DEF Good

-----------------------------------------------------------------------------
(* The steps of a call, one by one                                         *)

\* A reservation is made for the attempt, into the context or the image's.
LEMMA ReserveStep ==
  ASSUME IInv, NEW c \in Call, NEW new, Good(c, new), call' = [call EXCEPT ![c] = new],
         ~new.slot, ~call[c].slot,
         Account!Reserve(<<c, call[c].attempt>>, Estimate[c]),
         \/ call[c].context = NoKey /\ new.context = call[c].attempt /\ new.hub = call[c].hub
         \/ call[c].hub = NoKey /\ new.hub = call[c].attempt /\ new.context = call[c].context,
         UNCHANGED <<requests, billing, throttle, history>>
  PROVE  IInv'
  <1> DEFINE i == call[c].attempt
  <1>1. /\ i \in Attempt /\ <<c, i>> \in Key /\ Estimate[c] \in Nat
        /\ call[c].slot \in BOOLEAN /\ new.slot \in BOOLEAN
    BY AtLabel, Keys, PointsAssumption DEF CallType, Good
  <1>2. AccountOK' /\ \A k \in Key \ {<<c, i>>} : resv'[k] = resv[k]
    BY <1>1, TypesNow, ReserveOK DEF StatusIs
  <1>3. new.slot = call[c].slot
    BY <1>1
  <1>4. HeldAfter(c, new)
    <2> SUFFICES ASSUME NEW j \in Attempt, <<c, j>> \notin forgotten',
                        resv'[<<c, j>>].status = Account!Pending
                 PROVE  \/ new.context = j \/ new.hub = j
                        \/ \E t \in usage' : t.call = c /\ t.held = j
      BY DEF HeldAfter
    <2>1. CASE j = i
      BY <2>1
    <2>2. CASE j # i
      <3>1. <<c, j>> \in Key \ forgotten /\ <<c, j>> # <<c, i>> /\ <<c, j>>[1] = c /\ <<c, j>>[2] = j
        BY <1>1, <2>2, Keys DEF history
      <3>2. resv[<<c, j>>].status = Account!Pending
        BY <1>2, <3>1
      <3>3. \/ call[c].context = j \/ call[c].hub = j \/ \E t \in usage : t.call = c /\ t.held = j
        BY <3>1, <3>2, TypesNow DEF PendingIsHeld
      <3> QED
        BY <2>2, <3>3, AttemptsAreNat DEF billing
    <2> QED
      BY <2>1, <2>2
  <1>5. /\ health' \in Healths /\ answers' \in [Call -> SUBSET Attempt] /\ faults' \in 0 .. MaxFaults
        /\ forgotten' \in SUBSET Key /\ forgotten \subseteq forgotten' /\ taskOf' \in [Key -> Ref]
        /\ UNCHANGED <<requests, charged, usage, redis, active, lost>>
    BY TypesNow DEF throttle, history, billing
  <1>6. OthersKept(c)
    BY <1>2 DEF OthersKept
  <1> HIDE DEF i
  <1> QED
    BY <1>2, <1>3, <1>4, <1>5, <1>6, QuietStep

LEMMA PreflightKeeps ==
  ASSUME IInv, NEW c \in Call, Preflight(c)
  PROVE  IInv'
  <1>1. /\ ~call[c].slot /\ call[c].hub = NoKey /\ call[c] \in CallType
        /\ UNCHANGED <<requests, billing, throttle, history>>
    BY AtLabel DEF Preflight, At, Slotted, Reserved
  <1>2. faults' \in 0 .. MaxFaults /\ health' \in Healths /\ answers' \in [Call -> SUBSET Attempt]
    BY <1>1, TypesNow DEF history, throttle
  <1>3. CASE Goto(c, "prepare") /\ UNCHANGED account
    BY <1>1, <1>2, <1>3, GotoStep DEF Label, Slotted, HubLabels, throttle, history
  <1>4. CASE Fail(c, FALSE) /\ UNCHANGED account
    BY <1>1, <1>2, <1>4, FailStep DEF history
  <1>5. CASE /\ ~(Estimate[c] = 0 \/ (c \notin image /\ call[c].context # NoKey)) /\ c \notin image
             /\ Account!Reserve(<<c, call[c].attempt>>, Estimate[c])
             /\ call' = [call EXCEPT ![c].at = "prepare", ![c].context = call[c].attempt]
    <2> DEFINE new == [call[c] EXCEPT !.at = "prepare", !.context = call[c].attempt]
    <2>1. /\ new \in CallType /\ new.at = "prepare" /\ new.slot = call[c].slot
          /\ new.context = call[c].attempt /\ new.hub = call[c].hub
      BY <1>1 DEF CallType, Label
    <2>2. call' = [call EXCEPT ![c] = new]
      BY <1>1, <1>5 DEF IInv, Types, Calls, CallType
    <2> HIDE DEF new
    <2>3. Good(c, new)
      BY <1>1, <1>5, <2>1 DEF Good, Slotted, HubLabels
    <2> QED
      BY <1>1, <1>5, <2>1, <2>2, <2>3, ReserveStep
  <1> QED
    BY <1>3, <1>4, <1>5 DEF Preflight

LEMMA PrepareKeeps ==
  ASSUME IInv, NEW c \in Call, Prepare(c)
  PROVE  IInv'
  <1>1. /\ ~call[c].slot /\ call[c].hub = NoKey
        /\ UNCHANGED <<requests, account, billing, throttle, history>>
    BY AtLabel DEF Prepare, At, Slotted, Reserved
  <1>2. faults' \in 0 .. MaxFaults /\ health' \in Healths /\ answers' \in [Call -> SUBSET Attempt]
    BY <1>1, TypesNow DEF history, throttle
  <1>3. PICK label \in {"release", "hub_reserve", "acquire"} :
          Goto(c, label) /\ (label = "hub_reserve" => UsesHub(c))
    BY DEF Prepare
  <1> QED
    BY <1>1, <1>2, <1>3, GotoStep DEF Label, Slotted, HubLabels, throttle, history

\* releaseReservationByKey of a reservation of the call, which is gone with
\* the field that had it.
LEMMA ReleaseStep ==
  ASSUME IInv, NEW c \in Call, NEW new, Good(c, new), call' = [call EXCEPT ![c] = new],
         ~new.slot, ~call[c].slot, new.hub = NoKey,
         NEW i \in Attempt \cup {NoKey},
         i = NoKey => UNCHANGED account,
         i # NoKey => ReleaseReservation(<<c, i>>),
         \/ call[c].context = i /\ new.context = NoKey /\ call[c].hub = NoKey
         \/ call[c].hub = i /\ new.context = call[c].context,
         UNCHANGED <<requests, billing, throttle, history>>
  PROVE  IInv'
  <1>1. call[c].slot \in BOOLEAN /\ new.slot \in BOOLEAN
    BY AtLabel DEF CallType, Good
  <1>2. new.slot = call[c].slot
    BY <1>1
  <1>3. /\ AccountOK'
        /\ i # NoKey => resv'[<<c, i>>].status # Account!Pending
        /\ \A k \in Key : k # <<c, i>> => resv'[k] = resv[k]
    <2>1. CASE i = NoKey
      BY <2>1, TypesNow, AccountSame DEF account
    <2>2. CASE i # NoKey
      BY <2>2, TypesNow, Keys, ReleaseOK
    <2> QED
      BY <2>1, <2>2
  <1>4. HeldAfter(c, new)
    <2> SUFFICES ASSUME NEW j \in Attempt, <<c, j>> \notin forgotten',
                        resv'[<<c, j>>].status = Account!Pending
                 PROVE  \/ new.context = j \/ new.hub = j
                        \/ \E t \in usage' : t.call = c /\ t.held = j
      BY DEF HeldAfter
    <2>1. j # i /\ j # NoKey
      BY <1>3, AttemptsAreNat
    <2>2. <<c, j>> \in Key \ forgotten /\ <<c, j>> # <<c, i>> /\ <<c, j>>[1] = c /\ <<c, j>>[2] = j
      BY <2>1, Keys DEF history
    <2>3. resv[<<c, j>>].status = Account!Pending
      BY <1>3, <2>2
    <2>4. \/ call[c].context = j \/ call[c].hub = j \/ \E t \in usage : t.call = c /\ t.held = j
      BY <2>2, <2>3, TypesNow DEF PendingIsHeld
    <2> QED
      BY <2>1, <2>4 DEF billing
  <1>5. OthersKept(c)
    BY <1>3, Keys DEF OthersKept
  <1>6. /\ health' \in Healths /\ answers' \in [Call -> SUBSET Attempt] /\ faults' \in 0 .. MaxFaults
        /\ forgotten' \in SUBSET Key /\ forgotten \subseteq forgotten' /\ taskOf' \in [Key -> Ref]
        /\ UNCHANGED <<requests, charged, usage, redis, active, lost>>
    BY TypesNow DEF throttle, history, billing
  <1> QED
    BY <1>2, <1>3, <1>4, <1>5, <1>6, QuietStep

\* A call fails without a context, and goes on with the next route or ends.
LEMMA DropContextIs ==
  ASSUME IInv, NEW c \in Call, NEW retry \in BOOLEAN,
         call' = [call EXCEPT ![c] = NextRoute([@ EXCEPT !.context = NoKey], retry)]
  PROVE  \E new : /\ call' = [call EXCEPT ![c] = new] /\ Good(c, new) /\ ~new.slot
                  /\ new.context = NoKey /\ new.hub = NoKey
  <1> DEFINE r == [call[c] EXCEPT !.context = NoKey]
  <1>1. r \in CallType /\ r.context = NoKey
    BY AtLabel DEF CallType
  <1>2. call' = [call EXCEPT ![c] = NextRoute(r, retry)]
    BY DEF IInv, Types, Calls
  <1> HIDE DEF r
  <1> QED
    BY <1>1, <1>2, NextRouteGood

LEMMA ReleasePendingKeeps ==
  ASSUME IInv, NEW c \in Call, ReleasePending(c)
  PROVE  IInv'
  <1>1. /\ ~call[c].slot /\ call[c].hub = NoKey /\ call[c].context \in Attempt \cup {NoKey}
        /\ UNCHANGED <<requests, billing, throttle, history>>
    BY AtLabel DEF ReleasePending, At, Slotted, Reserved, CallType
  <1>2. PICK retry \in BOOLEAN :
          call' = [call EXCEPT ![c] = NextRoute([@ EXCEPT !.context = NoKey], retry)]
    BY DEF ReleasePending
  <1>3. PICK new : /\ call' = [call EXCEPT ![c] = new] /\ Good(c, new) /\ ~new.slot
                   /\ new.context = NoKey /\ new.hub = NoKey
    BY <1>2, DropContextIs
  <1>4. /\ call[c].context = NoKey => UNCHANGED account
        /\ call[c].context # NoKey => ReleaseReservation(<<c, call[c].context>>)
    BY DEF ReleasePending
  <1> QED
    BY <1>1, <1>3, <1>4, ReleaseStep

LEMMA HubReserveKeeps ==
  ASSUME IInv, NEW c \in Call, HubReserve(c)
  PROVE  IInv'
  <1>1. /\ ~call[c].slot /\ call[c].hub = NoKey /\ call[c] \in CallType /\ UsesHub(c)
        /\ UNCHANGED <<requests, billing, throttle, history>>
    BY AtLabel DEF HubReserve, At, Slotted, Reserved, HubLabels
  <1>2. faults' \in 0 .. MaxFaults /\ health' \in Healths /\ answers' \in [Call -> SUBSET Attempt]
    BY <1>1, TypesNow DEF history, throttle
  <1>3. CASE Goto(c, "acquire") /\ UNCHANGED account
    BY <1>1, <1>2, <1>3, GotoStep DEF Label, Slotted, HubLabels, throttle, history
  <1>4. CASE Fail(c, FALSE) /\ UNCHANGED account
    BY <1>1, <1>2, <1>4, FailStep DEF history
  <1>5. CASE /\ Account!Reserve(<<c, call[c].attempt>>, Estimate[c])
             /\ call' = [call EXCEPT ![c].at = "acquire", ![c].hub = call[c].attempt]
    <2> DEFINE new == [call[c] EXCEPT !.at = "acquire", !.hub = call[c].attempt]
    <2>1. /\ new \in CallType /\ new.at = "acquire" /\ new.slot = call[c].slot
          /\ new.attempt = call[c].attempt
          /\ new.context = call[c].context /\ new.hub = call[c].attempt
      BY <1>1 DEF CallType, Label
    <2>2. call' = [call EXCEPT ![c] = new]
      BY <1>1, <1>5 DEF IInv, Types, Calls, CallType
    <2> HIDE DEF new
    <2>3. Good(c, new)
      <3>1. OnHub(c, new.attempt) /\ (c \in image => new.context = NoKey)
        BY <1>1, <2>1, TypesNow, CallOK, AtLabel
      <3> QED
        BY <1>1, <2>1, <3>1 DEF Good, Slotted, HubLabels, Reserved
    <2> QED
      BY <1>1, <1>5, <2>1, <2>2, <2>3, ReserveStep
  <1> QED
    BY <1>3, <1>4, <1>5 DEF HubReserve

LEMMA HubAttachKeeps ==
  ASSUME IInv, NEW c \in Call, HubAttach(c)
  PROVE  IInv'
  <1>1. /\ ~call[c].slot /\ UsesHub(c) /\ call[c] \in CallType
        /\ UNCHANGED <<requests, account, usage, charged, throttle, history>>
    BY AtLabel DEF HubAttach, At, Slotted, HubLabels
  <1>2. taskOf' \in [Key -> Ref]
    <2>1. Own(<<c, call[c].attempt>>) \in Ref
      BY <1>1, Keys DEF Ref, CallType
    <2> QED
      BY <2>1, TypesNow DEF HubAttach
  <1>3. PICK new : /\ call' = [call EXCEPT ![c] = new] /\ Good(c, new)
                   /\ new.slot = call[c].slot /\ new.attempt = call[c].attempt
                   /\ new.context = call[c].context /\ new.hub = call[c].hub
    BY <1>1, TypesNow, GotoIs DEF HubAttach, Label, Slotted, Reserved
  <1>4. /\ resv' = resv /\ usage \subseteq usage' /\ forgotten \subseteq forgotten' /\ AccountOK'
        /\ forgotten' \in SUBSET Key /\ health' \in Healths /\ answers' \in [Call -> SUBSET Attempt]
        /\ faults' \in 0 .. MaxFaults /\ UNCHANGED <<requests, charged, usage, redis, active, lost>>
    BY <1>1, TypesNow, AccountSame DEF account, throttle, history
  <1>5. HeldAfter(c, new) /\ OthersKept(c)
    BY <1>3, <1>4, HeldStays DEF HeldAfter
  <1> QED
    BY <1>2, <1>3, <1>4, <1>5, QuietStep

LEMMA HubFailKeeps ==
  ASSUME IInv, NEW c \in Call, HubFail(c)
  PROVE  IInv'
  <1>1. /\ ~call[c].slot /\ call[c].hub \in Attempt \cup {NoKey}
        /\ UNCHANGED <<requests, billing, throttle, history>>
    BY AtLabel DEF HubFail, At, Slotted, CallType
  <1>2. PICK retry \in BOOLEAN : Fail(c, retry)
    BY DEF HubFail
  <1>3. PICK new : /\ call' = [call EXCEPT ![c] = new] /\ Good(c, new) /\ ~new.slot
                   /\ new.context = call[c].context /\ new.hub = NoKey
    BY <1>2, TypesNow, FailIs
  <1>4. /\ call[c].hub = NoKey => UNCHANGED account
        /\ call[c].hub # NoKey => ReleaseReservation(<<c, call[c].hub>>)
    BY DEF HubFail
  <1> QED
    BY <1>1, <1>3, <1>4, ReleaseStep

\* The image's reservation is captured, whatever becomes of the call.
LEMMA CaptureStep ==
  ASSUME IInv, NEW c \in Call, NEW new, Good(c, new), call' = [call EXCEPT ![c] = new],
         ~new.slot, ~call[c].slot, call[c].hub # NoKey,
         Account!Settle(<<c, call[c].hub>>, Account!Captured, Cost[c]),
         UNCHANGED <<requests, billing, throttle, answers, lost, forgotten>>,
         faults' \in 0 .. MaxFaults
  PROVE  IInv'
  <1> DEFINE i == call[c].hub
  <1>1. /\ call[c].slot \in BOOLEAN /\ new.slot \in BOOLEAN /\ i \in Attempt
        /\ call[c].context = NoKey /\ Cost[c] \in Nat /\ <<c, i>> \in Key
    BY AtLabel, PointsAssumption, Keys DEF CallType, Good, UsesHub
  <1>2. new.slot = call[c].slot
    BY <1>1
  <1>3. /\ AccountOK' /\ resv'[<<c, i>>].status = Account!Captured
        /\ \A k \in Key \ {<<c, i>>} : resv'[k] = resv[k]
    <2>1. Account!Captured \in Account!Terminal
      BY DEF Account!Terminal
    <2> QED
      BY <1>1, <2>1, TypesNow, SettleOK DEF StatusIs
  <1>4. HeldAfter(c, new)
    <2> SUFFICES ASSUME NEW j \in Attempt, <<c, j>> \notin forgotten',
                        resv'[<<c, j>>].status = Account!Pending
                 PROVE  \/ new.context = j \/ new.hub = j
                        \/ \E t \in usage' : t.call = c /\ t.held = j
      BY DEF HeldAfter
    <2>1. j # i /\ j # NoKey
      BY <1>3, AttemptsAreNat, Statuses
    <2>2. <<c, j>> \in Key \ forgotten /\ <<c, j>> # <<c, i>> /\ <<c, j>>[1] = c /\ <<c, j>>[2] = j
      BY <2>1, Keys
    <2>3. resv[<<c, j>>].status = Account!Pending
      BY <1>3, <2>2
    <2>4. \/ call[c].context = j \/ call[c].hub = j \/ \E t \in usage : t.call = c /\ t.held = j
      BY <2>2, <2>3, TypesNow DEF PendingIsHeld
    <2> QED
      BY <1>1, <2>1, <2>4 DEF billing
  <1>5. OthersKept(c)
    BY <1>3, Keys DEF OthersKept
  <1>6. /\ health' \in Healths /\ answers' \in [Call -> SUBSET Attempt]
        /\ forgotten' \in SUBSET Key /\ forgotten \subseteq forgotten' /\ taskOf' \in [Key -> Ref]
        /\ UNCHANGED <<requests, charged, usage, redis, active, lost>>
    BY TypesNow DEF throttle, billing
  <1> QED
    BY <1>2, <1>3, <1>4, <1>5, <1>6, QuietStep

LEMMA HubSettleKeeps ==
  ASSUME IInv, NEW c \in Call, HubSettle(c)
  PROVE  IInv'
  <1>1. /\ ~call[c].slot /\ call[c].hub # NoKey
        /\ UNCHANGED <<requests, billing, throttle, history>>
    BY AtLabel DEF HubSettle, At, Slotted
  <1>2. Account!Settle(<<c, call[c].hub>>, Account!Captured, Cost[c])
    BY DEF HubSettle
  <1>3. PICK new : /\ call' = [call EXCEPT ![c] = new] /\ Good(c, new) /\ ~new.slot
                   /\ new.context = NoKey /\ new.hub = NoKey
    BY TypesNow, FinishIs DEF HubSettle
  <1>4. faults' \in 0 .. MaxFaults /\ UNCHANGED <<requests, billing, throttle, answers, lost, forgotten>>
    BY <1>1, TypesNow DEF history
  <1> QED
    BY <1>1, <1>2, <1>3, <1>4, CaptureStep

\* A call that reports leaves its reservation to the task.
LEMMA ReportHeld ==
  ASSUME IInv, NEW c \in Call, NEW success \in BOOLEAN, LogUsage(c, success), NEW new,
         resv' = resv, forgotten' = forgotten, call[c].hub = NoKey
  PROVE  OfTask' /\ usage \subseteq usage' /\ HeldAfter(c, new) /\ OthersKept(c)
  <1>1. /\ OfTask' /\ usage \subseteq usage'
        /\ call[c].context # NoKey =>
             \E t \in usage' : t.call = c /\ t.held = call[c].context
    BY TypesNow, ReportOK
  <1>2. OthersKept(c)
    BY DEF OthersKept
  <1>3. ASSUME NEW j \in Attempt, <<c, j>> \notin forgotten', resv'[<<c, j>>].status = Account!Pending
        PROVE  \E t \in usage' : t.call = c /\ t.held = j
    <2>1. <<c, j>> \in Key \ forgotten /\ <<c, j>>[1] = c /\ <<c, j>>[2] = j /\ j # NoKey
      BY <1>3, Keys, AttemptsAreNat
    <2>2. \/ call[c].context = j \/ call[c].hub = j \/ \E t \in usage : t.call = c /\ t.held = j
      BY <1>3, <2>1, TypesNow DEF PendingIsHeld
    <2> QED
      BY <1>1, <2>1, <2>2
  <1> QED
    BY <1>1, <1>2, <1>3 DEF HeldAfter

\* A step in which the call gives back its slot.
LEMMA GiveStep ==
  ASSUME IInv, NEW c \in Call, NEW new, Good(c, new), call' = [call EXCEPT ![c] = new],
         ~new.slot, GiveBack(c),
         UNCHANGED <<requests, account, taskOf, charged, redis, lost, forgotten, faults>>,
         health' \in Healths, answers' \in [Call -> SUBSET Attempt],
         OfTask', usage \subseteq usage', HeldAfter(c, new)
  PROVE  IInv'
  <1>1. new.slot = FALSE
    BY DEF Good, CallType
  <1>2. SlotsAreCounted' /\ active' \in Counters
    BY <1>1, SlotsGiven
  <1>3. /\ taskOf' \in [Key -> Ref] /\ lost' \in [Source -> Nat] /\ forgotten' \in SUBSET Key
        /\ forgotten \subseteq forgotten' /\ faults' \in 0 .. MaxFaults /\ AccountOK'
        /\ redis' = redis /\ UNCHANGED <<requests, charged>>
    BY TypesNow, AccountSame
  <1>4. OthersKept(c)
    BY DEF OthersKept, account
  <1> QED
    BY <1>2, <1>3, <1>4, CallStep

\* One in which it does that and neither reports nor reserves.
LEMMA GiveOnlyStep ==
  ASSUME IInv, NEW c \in Call, NEW new, Good(c, new), call' = [call EXCEPT ![c] = new],
         ~new.slot, GiveBack(c), new.context = call[c].context, new.hub = call[c].hub,
         UNCHANGED <<requests, account, billing, redis, history>>, health' \in Healths
  PROVE  IInv'
  <1>1. /\ UNCHANGED <<requests, account, taskOf, charged, redis, lost, forgotten, faults>>
        /\ answers' \in [Call -> SUBSET Attempt] /\ OfTask' /\ usage \subseteq usage'
        /\ resv' = resv /\ forgotten \subseteq forgotten'
    BY TypesNow DEF billing, history, account, OfTask
  <1>2. HeldAfter(c, new)
    BY <1>1, HeldStays DEF HeldAfter
  <1> QED
    BY <1>1, <1>2, GiveStep

LEMMA AnsweredOK ==
  ASSUME IInv, NEW c \in Call, Answered(c)
  PROVE  answers' \in [Call -> SUBSET Attempt]
  <1>1. call[c].attempt \in Attempt
    BY AtLabel DEF CallType
  <1> QED
    BY <1>1, TypesNow DEF Answered

\* A call that is without a slot from now on, at a label that needs none.
LEMMA SlotlessIs ==
  ASSUME IInv, NEW c \in Call, NEW label \in {"hub_fail", "hub_attach", "cancelled"},
         call' = [call EXCEPT ![c].at = label, ![c].slot = FALSE],
         label # "cancelled" => UsesHub(c),
         label = "cancelled" => c \notin image
  PROVE  \E new : /\ call' = [call EXCEPT ![c] = new] /\ Good(c, new) /\ ~new.slot
                  /\ new.context = call[c].context /\ new.hub = call[c].hub
  <1> DEFINE new == [call[c] EXCEPT !.at = label, !.slot = FALSE]
  <1>1. call[c] \in CallType
    BY AtLabel
  <1>2. /\ new \in CallType /\ new.at = label /\ new.slot = FALSE /\ new.attempt = call[c].attempt
        /\ new.context = call[c].context /\ new.hub = call[c].hub
    BY <1>1 DEF CallType, Label
  <1>3. call' = [call EXCEPT ![c] = new]
    BY <1>1 DEF IInv, Types, Calls, CallType
  <1> HIDE DEF new
  <1>4. Good(c, new)
    <2>1. OnHub(c, new.attempt) <=> UsesHub(c)
      BY <1>2, TypesNow, CallOK
    <2>2. UsesHub(c) => c \in image
      BY DEF UsesHub
    <2> QED
      BY <1>2, <2>1, <2>2, AtLabel DEF Good, Slotted, HubLabels, Reserved
  <1> QED
    BY <1>2, <1>3, <1>4

LEMMA UpstreamFailsKeeps ==
  ASSUME IInv, NEW c \in Call, UpstreamFails(c)
  PROVE  IInv'
  <1>1. /\ call[c].slot /\ call[c].at = "upstream" /\ call[c] \in CallType
        /\ UNCHANGED <<requests, account, taskOf, charged, redis, active, history>>
    BY AtLabel DEF UpstreamFails, At, Slotted
  <1>2. health' \in Healths
    BY TypesNow, CallOK, HealthOK DEF UpstreamFails, Healths
  <1>3. CASE Goto(c, "unwind") /\ UNCHANGED usage
    <2>1. /\ answers' \in [Call -> SUBSET Attempt] /\ faults' \in 0 .. MaxFaults
          /\ UNCHANGED <<requests, account, billing, redis, active, lost, forgotten>>
      BY <1>1, <1>3, TypesNow DEF history, billing
    <2> QED
      BY <1>1, <1>2, <1>3, <2>1, GotoStep DEF Label, Slotted, HubLabels, Reserved
  <1>4. CASE /\ ~UsesHub(c)
             /\ LogUsage(c, FALSE)
             /\ call' = [call EXCEPT ![c].at = "unwind", ![c].context = NoKey]
    <2> DEFINE new == [call[c] EXCEPT !.at = "unwind", !.context = NoKey]
    <2>1. /\ new \in CallType /\ new.at = "unwind" /\ new.slot = call[c].slot
          /\ new.attempt = call[c].attempt /\ new.context = NoKey /\ new.hub = call[c].hub
      BY <1>1 DEF CallType, Label
    <2>2. call' = [call EXCEPT ![c] = new]
      BY <1>1, <1>4 DEF IInv, Types, Calls, CallType
    <2> HIDE DEF new
    <2>3. call[c].hub = NoKey
      BY <1>4, AtLabel
    <2>4. Good(c, new)
      BY <1>1, <2>1, <2>3 DEF Good, Slotted, HubLabels, Reserved
    <2>5. /\ answers' \in [Call -> SUBSET Attempt] /\ lost' \in [Source -> Nat] /\ redis' = redis
          /\ forgotten' \in SUBSET Key /\ forgotten \subseteq forgotten' /\ forgotten' = forgotten
          /\ faults' \in 0 .. MaxFaults /\ AccountOK' /\ taskOf' \in [Key -> Ref] /\ resv' = resv
          /\ active' \in Counters /\ UNCHANGED <<requests, charged>>
          /\ UNCHANGED <<redis, active, lost>>
      BY <1>1, TypesNow, AccountSame DEF history, account
    <2>6. OfTask' /\ usage \subseteq usage' /\ HeldAfter(c, new) /\ OthersKept(c)
      BY <1>4, <2>3, <2>5, ReportHeld
    <2>7. SlotsAreCounted'
      BY <2>1, <2>2, <2>5, SlotsKept
    <2> QED
      BY <1>2, <2>2, <2>4, <2>5, <2>6, <2>7, CallStep
  <1> QED
    BY <1>3, <1>4 DEF UpstreamFails

LEMMA UnwindKeeps ==
  ASSUME IInv, NEW c \in Call, Unwind(c)
  PROVE  IInv'
  <1>1. /\ UNCHANGED <<requests, account, billing, redis, history>> /\ GiveBack(c)
        /\ health' \in Healths
    BY TypesNow DEF Unwind
  <1>2. CASE UsesHub(c) /\ call' = [call EXCEPT ![c].at = "hub_fail", ![c].slot = FALSE]
    <2>1. PICK new : /\ call' = [call EXCEPT ![c] = new] /\ Good(c, new) /\ ~new.slot
                     /\ new.context = call[c].context /\ new.hub = call[c].hub
      BY <1>2, SlotlessIs
    <2> QED
      BY <1>1, <2>1, GiveOnlyStep
  <1>3. CASE ~UsesHub(c) /\ \E retry \in BOOLEAN : Fail(c, retry)
    <2>1. PICK new : /\ call' = [call EXCEPT ![c] = new] /\ Good(c, new) /\ ~new.slot
                     /\ new.context = call[c].context /\ new.hub = NoKey
      BY <1>3, TypesNow, FailIs
    <2>2. new.hub = call[c].hub
      BY <1>3, <2>1, AtLabel
    <2> QED
      BY <1>1, <2>1, <2>2, GiveOnlyStep
  <1> QED
    BY <1>2, <1>3 DEF Unwind

LEMMA UpstreamAnswersKeeps ==
  ASSUME IInv, NEW c \in Call, UpstreamAnswers(c)
  PROVE  IInv'
  <1>1. /\ call[c].slot /\ call[c] \in CallType
        /\ UNCHANGED <<requests, account, billing, redis, history>>
    BY AtLabel DEF UpstreamAnswers, At, Slotted
  <1>2. health' \in Healths
    BY TypesNow, CallOK, HealthOK DEF UpstreamAnswers, Healths
  <1>3. CASE /\ UsesHub(c) /\ GiveBack(c)
             /\ call' = [call EXCEPT ![c].at = "hub_attach", ![c].slot = FALSE]
    <2>1. PICK new : /\ call' = [call EXCEPT ![c] = new] /\ Good(c, new) /\ ~new.slot
                     /\ new.context = call[c].context /\ new.hub = call[c].hub
      BY <1>3, SlotlessIs
    <2> QED
      BY <1>1, <1>2, <1>3, <2>1, GiveOnlyStep
  <1>4. ASSUME NEW label \in {"body", "stream"}, Goto(c, label), UNCHANGED active, ~UsesHub(c),
               label = "stream" => c \notin image
        PROVE  IInv'
    <2>1. call[c].hub = NoKey
      BY <1>4, AtLabel
    <2>2. /\ answers' \in [Call -> SUBSET Attempt] /\ faults' \in 0 .. MaxFaults
          /\ UNCHANGED <<requests, account, billing, redis, active, lost, forgotten>>
      BY <1>1, <1>4, TypesNow DEF history
    <2> QED
      BY <1>1, <1>2, <1>4, <2>1, <2>2, GotoStep DEF Label, Slotted, HubLabels
  <1>5. CASE ~UsesHub(c) /\ Goto(c, "body") /\ UNCHANGED active
    BY <1>4, <1>5
  <1>6. CASE c \notin image /\ Goto(c, "stream") /\ UNCHANGED active
    BY <1>4, <1>6 DEF UsesHub
  <1> QED
    BY <1>3, <1>5, <1>6 DEF UpstreamAnswers

\* A call that has reported, and is over or goes on without a reservation.
LEMMA ReportStep ==
  ASSUME IInv, NEW c \in Call, NEW success \in BOOLEAN, LogUsage(c, success), Finish(c),
         GiveBack(c), call[c].hub = NoKey,
         UNCHANGED <<requests, account, taskOf, charged, redis, lost, forgotten, faults>>,
         health' \in Healths, answers' \in [Call -> SUBSET Attempt]
  PROVE  IInv'
  <1>1. PICK new : /\ call' = [call EXCEPT ![c] = new] /\ Good(c, new) /\ ~new.slot
                   /\ new.context = NoKey /\ new.hub = NoKey
    BY TypesNow, FinishIs
  <1>2. resv' = resv /\ forgotten' = forgotten
    BY DEF account
  <1>3. OfTask' /\ usage \subseteq usage' /\ HeldAfter(c, new)
    BY <1>2, ReportHeld
  <1> QED
    BY <1>1, <1>3, GiveStep

LEMMA BodyKeeps ==
  ASSUME IInv, NEW c \in Call, Body(c)
  PROVE  IInv'
  <1>1. /\ call[c].hub = NoKey /\ GiveBack(c) /\ health' \in Healths
        /\ UNCHANGED <<requests, account, taskOf, charged, redis, lost, forgotten, faults>>
    BY AtLabel, TypesNow DEF Body, At
  <1>2. CASE LogUsage(c, TRUE) /\ Finish(c) /\ Answered(c)
    BY <1>1, <1>2, AnsweredOK, ReportStep
  <1>3. CASE (\E retry \in BOOLEAN : Fail(c, retry)) /\ UNCHANGED <<usage, answers>>
    <2>1. PICK new : /\ call' = [call EXCEPT ![c] = new] /\ Good(c, new) /\ ~new.slot
                     /\ new.context = call[c].context /\ new.hub = NoKey
      BY <1>3, TypesNow, FailIs
    <2>2. UNCHANGED <<requests, account, billing, redis, history>>
      BY <1>1, <1>3 DEF billing, history
    <2> QED
      BY <1>1, <2>1, <2>2, GiveOnlyStep
  <1> QED
    BY <1>2, <1>3 DEF Body

LEMMA StreamKeeps ==
  ASSUME IInv, NEW c \in Call, Stream(c)
  PROVE  IInv'
  <1>1. /\ call[c].hub = NoKey /\ c \notin image /\ GiveBack(c) /\ health' \in Healths
        /\ UNCHANGED <<requests, account, taskOf, charged, redis, lost, forgotten, faults>>
    BY AtLabel, TypesNow DEF Stream, At, UsesHub
  <1>2. CASE LogUsage(c, TRUE) /\ Finish(c) /\ Answered(c)
    BY <1>1, <1>2, AnsweredOK, ReportStep
  <1>3. CASE LogUsage(c, FALSE) /\ Finish(c) /\ UNCHANGED answers
    BY <1>1, <1>3, TypesNow, ReportStep
  <1>4. CASE /\ call' = [call EXCEPT ![c].at = "cancelled", ![c].slot = FALSE]
             /\ UNCHANGED <<usage, answers>>
    <2>1. PICK new : /\ call' = [call EXCEPT ![c] = new] /\ Good(c, new) /\ ~new.slot
                     /\ new.context = call[c].context /\ new.hub = call[c].hub
      BY <1>1, <1>4, SlotlessIs
    <2>2. UNCHANGED <<requests, account, billing, redis, history>>
      BY <1>1, <1>4 DEF billing, history
    <2> QED
      BY <1>1, <2>1, <2>2, GiveOnlyStep
  <1> QED
    BY <1>2, <1>3, <1>4 DEF Stream

LEMMA CancelledKeeps ==
  ASSUME IInv, NEW c \in Call, Cancelled(c)
  PROVE  IInv'
  <1>1. /\ ~call[c].slot /\ call[c].hub = NoKey /\ Finish(c)
        /\ UNCHANGED <<requests, account, taskOf, charged, throttle, lost, forgotten, faults>>
    BY AtLabel DEF Cancelled, At, Slotted, UsesHub
  <1>2. /\ GiveBack(c) /\ health' \in Healths
        /\ UNCHANGED <<requests, account, taskOf, charged, redis, lost, forgotten, faults>>
    BY <1>1, TypesNow DEF throttle, GiveBack
  <1>3. answers' \in [Call -> SUBSET Attempt]
    BY TypesNow, AnsweredOK DEF Cancelled
  <1>4. PICK success \in BOOLEAN : LogUsage(c, success)
    BY DEF Cancelled
  <1> QED
    BY <1>1, <1>2, <1>3, <1>4, ReportStep

LEMMA HubPollKeeps ==
  ASSUME IInv, NEW c \in Call, HubPoll(c)
  PROVE  IInv'
  <1>1. /\ ~call[c].slot /\ UsesHub(c)
        /\ UNCHANGED <<requests, account, taskOf, charged, throttle, lost, forgotten, faults>>
    BY AtLabel DEF HubPoll, At, Slotted, HubLabels
  <1>2. /\ GiveBack(c) /\ health' \in Healths /\ faults' \in 0 .. MaxFaults
        /\ UNCHANGED <<requests, account, taskOf, charged, redis, active, lost, forgotten, faults>>
    BY <1>1, TypesNow DEF throttle, GiveBack
  <1>3. CASE Goto(c, "hub_fail") /\ UNCHANGED <<usage, answers>>
    <2>1. /\ UNCHANGED <<requests, account, billing, redis, active, lost, forgotten>>
          /\ answers' \in [Call -> SUBSET Attempt]
      BY <1>2, <1>3, TypesNow DEF billing
    <2> QED
      BY <1>1, <1>2, <1>3, <2>1, GotoStep DEF Label, Slotted, Reserved
  <1>4. CASE Answered(c) /\ call[c].hub = NoKey /\ LogUsage(c, TRUE) /\ Finish(c)
    BY <1>2, <1>4, AnsweredOK, ReportStep
  <1>5. CASE Answered(c) /\ call[c].hub # NoKey /\ Goto(c, "hub_settle") /\ UNCHANGED usage
    <2>1. /\ UNCHANGED <<requests, account, billing, redis, active, lost, forgotten>>
          /\ answers' \in [Call -> SUBSET Attempt]
      BY <1>2, <1>5, AnsweredOK DEF billing
    <2> QED
      BY <1>1, <1>2, <1>5, <2>1, GotoStep DEF Label, Slotted, Reserved
  <1> QED
    BY <1>3, <1>4, <1>5 DEF HubPoll

\* The call's slot is counted.
LEMMA SlotsTaken ==
  ASSUME IInv, NEW c \in Call, NEW new, call' = [call EXCEPT ![c] = new],
         ~call[c].slot, new.slot = TRUE, new.attempt = call[c].attempt,
         Take(SourceOf(c), Owner[c]), UNCHANGED <<redis, lost>>
  PROVE  SlotsAreCounted' /\ active' \in Counters
  <1>1. Types /\ SourceOf(c) \in Source /\ Owner[c] \in User /\ ThrottleTypeOK
    BY CallOK DEF IInv, Types
  <1>2. PICK s \in Source : s = SourceOf(c)
    BY <1>1
  <1>3. SourceIs(s, Count(active.source[s], SourceLimit))
    BY <1>1, <1>2, TakeOK
  <1>4. \A x \in Call \ {c} : call'[x] = call[x]
    BY <1>1 DEF Types, Calls
  <1>5. call'[c] = new
    BY <1>1 DEF Types, Calls
  <1>6. Holding(s)' = Holding(s) \cup {c} /\ c \notin Holding(s)
    BY <1>2, <1>4, <1>5 DEF Holding, SourceOf
  <1>7. \A x \in Source \ {s} : Holding(x)' = Holding(x)
    BY <1>2, <1>4, <1>5 DEF Holding, SourceOf
  <1>8. Cardinality(Holding(s)') = Cardinality(Holding(s)) + 1 /\ Cardinality(Holding(s)) \in Nat
    BY <1>6, HoldingFinite, FS_AddElement
  <1> SUFFICES ASSUME NEW x \in Source, SourceLimit > 0
               PROVE  /\ active'.source[x] <= Cardinality(Holding(x)') + lost'[x]
                      /\ ~redis' => active'.source[x] = Cardinality(Holding(x)') + lost'[x]
    BY <1>3 DEF SlotsAreCounted, SourceIs
  <1>9. /\ active.source[x] <= Cardinality(Holding(x)) + lost[x]
        /\ ~redis => active.source[x] = Cardinality(Holding(x)) + lost[x]
    BY DEF IInv, SlotsAreCounted
  <1>10. CASE x = s
    <2>1. active.source[x] \in Nat /\ lost[x] \in Nat
      BY <1>1, CounterTypes DEF Types, Rest
    <2>2. active'.source[x] = active.source[x] + 1
      BY <1>3, <1>10, <2>1, CountNat, LimitsAssumption DEF SourceIs
    <2> QED
      BY <1>8, <1>9, <1>10, <2>1, <2>2
  <1>11. CASE x # s
    BY <1>3, <1>7, <1>9, <1>11 DEF SourceIs
  <1> QED
    BY <1>10, <1>11

\* What a refused call leaves taken is lost.
LEMMA SlotsLost ==
  ASSUME IInv, NEW c \in Call, NEW new, call' = [call EXCEPT ![c] = new],
         ~call[c].slot, ~new.slot, NEW s \in Source, NEW u \in User, Refuse(s, u), redis' = redis,
         lost' = [lost EXCEPT ![s] = @ + active'.source[s] - active.source[s]]
  PROVE  SlotsAreCounted' /\ active' \in Counters /\ lost' \in [Source -> Nat]
  <1>1. Types /\ ThrottleTypeOK /\ active.source[s] \in Nat /\ lost \in [Source -> Nat]
    BY CounterTypes DEF IInv, Types, Rest
  <1>2. \A x \in Source : Holding(x)' = Holding(x)
    <2>1. ~call'[c].slot /\ \A x \in Call \ {c} : call'[x] = call[x]
      BY <1>1 DEF Types, Calls
    <2> QED
      BY <2>1 DEF Holding, SourceOf
  <1>3. CASE SourceIs(s, active.source[s])
    <2>1. lost[s] + active'.source[s] - active.source[s] = lost[s]
      BY <1>1, <1>3 DEF SourceIs
    <2>2. lost' = lost
      BY <1>1, <2>1
    <2>3. \A x \in Source : active'.source[x] = active.source[x]
      BY <1>3 DEF SourceIs
    <2> QED
      BY <1>1, <1>2, <1>3, <2>2, <2>3 DEF SourceIs, IInv, SlotsAreCounted
  <1>4. CASE ~redis /\ SourceIs(s, Count(active.source[s], SourceLimit))
    <2>1. /\ Count(active.source[s], SourceLimit) \in Nat
          /\ SourceLimit > 0 => Count(active.source[s], SourceLimit) = active.source[s] + 1
          /\ SourceLimit = 0 => Count(active.source[s], SourceLimit) = active.source[s]
      BY <1>1, CountNat, LimitsAssumption DEF Count
    <2> DEFINE n == lost[s] + active'.source[s] - active.source[s]
    <2>2. n \in Nat /\ (SourceLimit > 0 => n = lost[s] + 1)
      BY <1>1, <1>4, <2>1, LimitsAssumption DEF SourceIs
    <2>3. lost' = [lost EXCEPT ![s] = n]
      BY <1>1
    <2> HIDE DEF n
    <2>4. lost' \in [Source -> Nat] /\ lost'[s] = n /\ \A x \in Source \ {s} : lost'[x] = lost[x]
      BY <1>1, <2>2, <2>3
    <2>5. ASSUME NEW x \in Source, SourceLimit > 0
          PROVE  /\ active'.source[x] <= Cardinality(Holding(x)) + lost'[x]
                 /\ ~redis => active'.source[x] = Cardinality(Holding(x)) + lost'[x]
      <3>1. active.source[x] = Cardinality(Holding(x)) + lost[x]
        BY <1>4, <2>5 DEF IInv, SlotsAreCounted
      <3>2. Cardinality(Holding(x)) \in Nat /\ lost[x] \in Nat
        BY <1>1, HoldingFinite
      <3>3. CASE x = s
        BY <1>4, <2>1, <2>2, <2>4, <2>5, <3>1, <3>2, <3>3 DEF SourceIs
      <3>4. CASE x # s
        BY <1>4, <2>4, <3>1, <3>2, <3>4 DEF SourceIs
      <3> QED
        BY <3>3, <3>4
    <2> QED
      BY <1>2, <1>4, <2>4, <2>5 DEF SourceIs, SlotsAreCounted
  <1> QED
    BY <1>1, <1>3, <1>4, RefuseOK

LEMMA AcquireKeeps ==
  ASSUME IInv, NEW c \in Call, Acquire(c)
  PROVE  IInv'
  <1>1. /\ ~call[c].slot /\ call[c] \in CallType /\ SourceOf(c) \in Source /\ Owner[c] \in User
        /\ UNCHANGED <<requests, account, billing, redis, health, answers, forgotten, faults>>
    BY AtLabel, TypesNow, CallOK DEF Acquire, At, Slotted
  <1>2. /\ UNCHANGED <<requests, charged>> /\ taskOf' \in [Key -> Ref] /\ redis' = redis
        /\ health' \in Healths /\ answers' \in [Call -> SUBSET Attempt]
        /\ forgotten' \in SUBSET Key /\ faults' \in 0 .. MaxFaults /\ AccountOK' /\ OfTask'
        /\ usage \subseteq usage' /\ forgotten \subseteq forgotten' /\ resv' = resv
    BY <1>1, TypesNow, AccountSame DEF billing, account, OfTask
  <1>3. HeldAfter(c, call[c]) /\ OthersKept(c)
    BY <1>2, HeldStays
  <1>4. CASE /\ Take(SourceOf(c), Owner[c])
             /\ call' = [call EXCEPT ![c].at = "upstream", ![c].slot = TRUE]
             /\ UNCHANGED lost
    <2> DEFINE new == [call[c] EXCEPT !.at = "upstream", !.slot = TRUE]
    <2>1. /\ new \in CallType /\ new.at = "upstream" /\ new.slot = TRUE
          /\ new.attempt = call[c].attempt /\ new.context = call[c].context /\ new.hub = call[c].hub
      BY <1>1 DEF CallType, Label
    <2>2. call' = [call EXCEPT ![c] = new]
      BY <1>1, <1>4 DEF IInv, Types, Calls, CallType
    <2> HIDE DEF new
    <2>3. Good(c, new)
      <3>1. OnHub(c, new.attempt) <=> UsesHub(c)
        BY <2>1, TypesNow, CallOK
      <3> QED
        BY <2>1, <3>1, AtLabel DEF Good, Slotted, HubLabels, Reserved
    <2>4. SlotsAreCounted' /\ active' \in Counters
      BY <1>1, <1>2, <1>4, <2>1, <2>2, SlotsTaken
    <2>5. HeldAfter(c, new) /\ lost' \in [Source -> Nat]
      BY <1>3, <1>4, <2>1, TypesNow DEF HeldAfter
    <2> QED
      BY <1>2, <1>3, <2>2, <2>3, <2>4, <2>5, CallStep
  <1>5. CASE /\ Refuse(SourceOf(c), Owner[c])
             /\ lost' = [lost EXCEPT ![SourceOf(c)] =
                           @ + active'.source[SourceOf(c)] - active.source[SourceOf(c)]]
             /\ IF UsesHub(c) THEN Goto(c, "hub_fail") ELSE Fail(c, TRUE)
    <2>1. PICK new : /\ call' = [call EXCEPT ![c] = new] /\ Good(c, new) /\ ~new.slot
                     /\ new.context = call[c].context /\ new.hub = call[c].hub
      <3>1. CASE UsesHub(c)
        BY <1>1, <1>5, <3>1, TypesNow, GotoIs DEF Label, Slotted, Reserved
      <3>2. CASE ~UsesHub(c)
        BY <1>5, <3>2, TypesNow, FailIs, AtLabel
      <3> QED
        BY <3>1, <3>2
    <2>2. SlotsAreCounted' /\ active' \in Counters /\ lost' \in [Source -> Nat]
      BY <1>1, <1>2, <1>5, <2>1, SlotsLost
    <2>3. HeldAfter(c, new)
      BY <1>3, <2>1 DEF HeldAfter
    <2> QED
      BY <1>2, <1>3, <2>1, <2>2, <2>3, CallStep
  <1> QED
    BY <1>4, <1>5 DEF Acquire

\* A reservation that could not be released is forgotten.
LEMMA ForgetStep ==
  ASSUME IInv, NEW c \in Call, NEW new, Good(c, new), call' = [call EXCEPT ![c] = new],
         ~new.slot, ~call[c].slot, new.hub = NoKey, NEW i \in Attempt \cup {NoKey},
         forgotten' = forgotten \cup ({<<c, i>>} \cap Key),
         \/ call[c].context = i /\ new.context = NoKey /\ call[c].hub = NoKey
         \/ call[c].hub = i /\ new.context = call[c].context,
         UNCHANGED <<requests, account, billing, throttle, answers, lost>>,
         faults' \in 0 .. MaxFaults
  PROVE  IInv'
  <1>1. call[c].slot \in BOOLEAN /\ new.slot \in BOOLEAN
    BY AtLabel DEF CallType, Good
  <1>2. new.slot = call[c].slot
    BY <1>1
  <1>3. HeldAfter(c, new)
    <2> SUFFICES ASSUME NEW j \in Attempt, <<c, j>> \notin forgotten',
                        resv[<<c, j>>].status = Account!Pending
                 PROVE  new.context = j \/ \E t \in usage' : t.call = c /\ t.held = j
      BY DEF HeldAfter, account
    <2>1. <<c, j>> \in Key \ forgotten /\ <<c, j>>[1] = c /\ <<c, j>>[2] = j
      BY Keys
    <2>2. j # i /\ j # NoKey
      BY <2>1, AttemptsAreNat
    <2>3. \/ call[c].context = j \/ call[c].hub = j \/ \E t \in usage : t.call = c /\ t.held = j
      BY <2>1, TypesNow DEF PendingIsHeld
    <2> QED
      BY <2>2, <2>3 DEF billing
  <1>4. OthersKept(c) /\ AccountOK'
    BY TypesNow, AccountSame DEF OthersKept, account
  <1>5. /\ health' \in Healths /\ answers' \in [Call -> SUBSET Attempt]
        /\ forgotten' \in SUBSET Key /\ forgotten \subseteq forgotten' /\ taskOf' \in [Key -> Ref]
        /\ UNCHANGED <<requests, charged, usage, redis, active, lost>>
    BY TypesNow DEF throttle, billing
  <1> QED
    BY <1>2, <1>3, <1>4, <1>5, QuietStep

LEMMA ThrowKeeps ==
  ASSUME IInv, NEW c \in Call, Throw(c)
  PROVE  IInv'
  <1>1. /\ UNCHANGED <<requests, billing, throttle, answers, lost>>
        /\ faults' \in 0 .. MaxFaults
    BY TypesNow, BoundAssumption DEF Throw
  <1>2. /\ UNCHANGED <<requests, billing, redis, active, lost>>
        /\ health' \in Healths /\ answers' \in [Call -> SUBSET Attempt]
    BY <1>1, TypesNow DEF throttle
  <1>3. PICK retry \in BOOLEAN :
         \/ /\ At(c, "preflight") /\ Goto(c, "release")
            /\ UNCHANGED <<account, forgotten>>
         \/ /\ At(c, "release")
            /\ forgotten' = forgotten \cup ({<<c, call[c].context>>} \cap Key)
            /\ call' = [call EXCEPT ![c] = NextRoute([@ EXCEPT !.context = NoKey], retry)]
            /\ UNCHANGED account
         \/ At(c, "hub_reserve") /\ Fail(c, retry) /\ UNCHANGED <<account, forgotten>>
         \/ At(c, "hub_attach") /\ Goto(c, "hub_fail") /\ UNCHANGED <<account, forgotten>>
         \/ /\ At(c, "hub_settle")
            /\ Account!Settle(<<c, call[c].hub>>, Account!Captured, Cost[c]) \/ UNCHANGED account
            /\ Goto(c, "hub_fail")
            /\ UNCHANGED forgotten
         \/ /\ At(c, "hub_fail")
            /\ forgotten' = forgotten \cup ({<<c, call[c].hub>>} \cap Key)
            /\ Fail(c, retry)
            /\ UNCHANGED account
    BY DEF Throw
  <1>4. CASE At(c, "preflight") /\ Goto(c, "release") /\ UNCHANGED <<account, forgotten>>
    <2>1. ~call[c].slot /\ call[c].hub = NoKey
      BY <1>4, AtLabel DEF At, Slotted, Reserved
    <2> QED
      BY <1>1, <1>2, <1>4, <2>1, GotoStep DEF Label, Slotted, HubLabels
  <1>5. CASE /\ At(c, "release")
             /\ forgotten' = forgotten \cup ({<<c, call[c].context>>} \cap Key)
             /\ call' = [call EXCEPT ![c] = NextRoute([@ EXCEPT !.context = NoKey], retry)]
             /\ UNCHANGED account
    <2>1. ~call[c].slot /\ call[c].hub = NoKey /\ call[c].context \in Attempt \cup {NoKey}
      BY <1>5, AtLabel DEF At, Slotted, Reserved, CallType
    <2>2. PICK new : /\ call' = [call EXCEPT ![c] = new] /\ Good(c, new) /\ ~new.slot
                     /\ new.context = NoKey /\ new.hub = NoKey
      BY <1>5, DropContextIs
    <2>3. UNCHANGED <<requests, account, billing, throttle, answers, lost>>
      BY <1>1, <1>5
    <2> QED
      BY <1>1, <1>5, <2>1, <2>2, <2>3, ForgetStep
  <1>6. CASE At(c, "hub_reserve") /\ Fail(c, retry) /\ UNCHANGED <<account, forgotten>>
    <2>1. ~call[c].slot /\ call[c].hub = NoKey
      BY <1>6, AtLabel DEF At, Slotted, Reserved
    <2> QED
      BY <1>1, <1>6, <2>1, FailStep
  <1>7. CASE At(c, "hub_attach") /\ Goto(c, "hub_fail") /\ UNCHANGED <<account, forgotten>>
    <2>1. ~call[c].slot /\ UsesHub(c)
      BY <1>7, AtLabel DEF At, Slotted, HubLabels
    <2> QED
      BY <1>1, <1>2, <1>7, <2>1, GotoStep DEF Label, Slotted, Reserved
  <1>8. CASE /\ At(c, "hub_settle")
             /\ Account!Settle(<<c, call[c].hub>>, Account!Captured, Cost[c]) \/ UNCHANGED account
             /\ Goto(c, "hub_fail")
             /\ UNCHANGED forgotten
    <2>1. ~call[c].slot /\ UsesHub(c) /\ call[c].hub # NoKey
      BY <1>8, AtLabel DEF At, Slotted, HubLabels
    <2>2. CASE UNCHANGED account
      <3>1. UNCHANGED <<requests, account, billing, redis, active, lost, forgotten>>
        BY <1>2, <1>8, <2>2
      <3> QED
        BY <1>1, <1>2, <1>8, <2>1, <3>1, GotoStep DEF Label, Slotted, Reserved
    <2>3. CASE Account!Settle(<<c, call[c].hub>>, Account!Captured, Cost[c])
      <3>1. PICK new : /\ call' = [call EXCEPT ![c] = new] /\ Good(c, new)
                       /\ new.slot = call[c].slot
        BY <1>8, <2>1, TypesNow, GotoIs DEF Label, Slotted, Reserved
      <3>2. UNCHANGED <<requests, billing, throttle, answers, lost, forgotten>>
        BY <1>1, <1>8
      <3> QED
        BY <1>1, <2>1, <2>3, <3>1, <3>2, CaptureStep
    <2> QED
      BY <1>8, <2>2, <2>3
  <1>9. CASE /\ At(c, "hub_fail")
             /\ forgotten' = forgotten \cup ({<<c, call[c].hub>>} \cap Key)
             /\ Fail(c, retry)
             /\ UNCHANGED account
    <2>1. ~call[c].slot /\ call[c].hub \in Attempt \cup {NoKey}
      BY <1>9, AtLabel DEF At, Slotted, CallType
    <2>2. PICK new : /\ call' = [call EXCEPT ![c] = new] /\ Good(c, new) /\ ~new.slot
                     /\ new.context = call[c].context /\ new.hub = NoKey
      BY <1>9, TypesNow, FailIs
    <2>3. UNCHANGED <<requests, account, billing, throttle, answers, lost>>
      BY <1>1, <1>9
    <2> QED
      BY <1>1, <1>9, <2>1, <2>2, <2>3, ForgetStep
  <1> QED
    BY <1>3, <1>4, <1>5, <1>6, <1>7, <1>8, <1>9

-----------------------------------------------------------------------------
(* Steps of the queue, of time and of the process                          *)

\* What a step that leaves the calls alone has to show.
LEMMA OutsideStep ==
  ASSUME IInv, UNCHANGED <<requests, call>>, ThrottleTypeOK', SlotsAreCounted', PendingIsHeld',
         AccountOK', OfTask', taskOf' \in [Key -> Ref], charged' \in [Call -> Nat],
         answers' = answers, lost' \in [Source -> Nat], forgotten' \in SUBSET Key,
         faults' \in 0 .. MaxFaults
  PROVE  IInv'
  <1>1. Calls'
    <2>1. image' = image /\ call' = call
      BY DEF requests
    <2>2. \A c \in Call : Good(c, call[c])'
      BY <2>1 DEF IInv, Types, Calls, Good, OnHub
    <2> QED
      BY <2>1, <2>2 DEF IInv, Types, Calls
  <1>2. Rest'
    BY DEF IInv, Types, Rest, requests
  <1> QED
    BY <1>1, <1>2 DEF IInv, Types

LEMMA SlotsSame ==
  ASSUME IInv, UNCHANGED <<call, throttle, lost>>
  PROVE  SlotsAreCounted' /\ ThrottleTypeOK'
  <1>1. \A s \in Source : Holding(s)' = Holding(s)
    BY DEF Holding, SourceOf
  <1> QED
    BY <1>1 DEF IInv, Types, SlotsAreCounted, ThrottleTypeOK, throttle

\* A task goes: its reservation is settled or forgotten, and no reservation
\* is made.
LEMMA TaskGone ==
  ASSUME IInv, NEW t \in usage, Without(t), UNCHANGED <<requests, call, taskOf, throttle, answers, lost>>,
         charged' \in [Call -> Nat], AccountOK', forgotten' \in SUBSET Key,
         forgotten \subseteq forgotten', faults' \in 0 .. MaxFaults,
         \A k \in Key : resv'[k].status = Account!Pending => resv[k].status = Account!Pending,
         t.held # NoKey => \/ <<t.call, t.held>> \in forgotten'
                           \/ resv'[<<t.call, t.held>>].status # Account!Pending
  PROVE  IInv'
  <1>1. usage' = usage \ {t}
    BY DEF Without
  <1>2. OfTask'
    BY <1>1, TypesNow DEF OfTask
  <1>3. PendingIsHeld'
    <2> SUFFICES ASSUME NEW k \in Key \ forgotten', resv'[k].status = Account!Pending
                 PROVE  \/ call[k[1]].context = k[2] \/ call[k[1]].hub = k[2]
                        \/ \E o \in usage \ {t} : o.call = k[1] /\ o.held = k[2]
      BY <1>1 DEF PendingIsHeld, Account!Pending
    <2>1. k = <<k[1], k[2]>> /\ k[2] # NoKey /\ k \in Key \ forgotten
      BY Keys, AttemptsAreNat
    <2>2. \/ call[k[1]].context = k[2] \/ call[k[1]].hub = k[2]
          \/ \E o \in usage : o.call = k[1] /\ o.held = k[2]
      BY <2>1, TypesNow DEF PendingIsHeld
    <2>3. ~(t.call = k[1] /\ t.held = k[2])
      BY <2>1
    <2> QED
      BY <2>2, <2>3
  <1>4. SlotsAreCounted' /\ ThrottleTypeOK' /\ lost' \in [Source -> Nat] /\ taskOf' \in [Key -> Ref]
    BY SlotsSame, TypesNow
  <1> QED
    BY <1>2, <1>3, <1>4, OutsideStep

LEMMA TaskTypes ==
  ASSUME IInv, NEW t \in usage
  PROVE  /\ t \in Task /\ t.call \in Call /\ t.held \in Attempt \cup {NoKey} /\ t.ref \in Ref
         /\ t.stage = "charge" <=> t.held = NoKey
         /\ t.held # NoKey => <<t.call, t.held>> \in Key
         /\ charged \in [Call -> Nat] /\ Cost[t.call] \in Nat /\ Owner[t.call] \in User
  <1>1. t \in Task /\ (t.stage = "charge" <=> t.held = NoKey)
    BY TypesNow DEF OfTask
  <1>2. t.call \in Call /\ t.held \in Attempt \cup {NoKey} /\ t.ref \in Ref
    BY <1>1 DEF Task
  <1> QED
    BY <1>1, <1>2, Keys, PointsAssumption, OwnerAssumption DEF IInv, Types, Rest

LEMMA TaskAttachKeeps ==
  ASSUME IInv, NEW t \in usage, TaskAttach(t)
  PROVE  IInv'
  <1> DEFINE k == <<t.call, t.held>>
             new == [t EXCEPT !.stage = "settle"]
  <1>1. /\ k \in Key /\ t.held # NoKey /\ t.ref \in Ref
        /\ UNCHANGED <<requests, call, account, charged, throttle, answers, lost, faults>>
    BY TaskTypes DEF TaskAttach
  <1>2. /\ charged' \in [Call -> Nat] /\ AccountOK' /\ faults' \in 0 .. MaxFaults /\ resv' = resv
    BY <1>1, TaskTypes, TypesNow, AccountSame DEF account
  <1>3. CASE /\ Without(t) /\ forgotten' = forgotten \cup {k} /\ UNCHANGED taskOf
    <2>1. /\ forgotten' \in SUBSET Key /\ forgotten \subseteq forgotten' /\ k \in forgotten'
          /\ UNCHANGED <<requests, call, taskOf, throttle, answers, lost>>
      BY <1>1, <1>3, TypesNow
    <2> QED
      BY <1>2, <1>3, <2>1, TaskGone
  <1>4. CASE /\ taskOf' = [taskOf EXCEPT ![k] = t.ref]
             /\ usage' = (usage \ {t}) \cup {new}
             /\ UNCHANGED forgotten
    <2>1. /\ new \in Task /\ new.stage = "settle" /\ new.call = t.call /\ new.held = t.held
      BY TaskTypes DEF Task
    <2> HIDE DEF new
    <2>2. OfTask'
      BY <1>1, <1>4, <2>1, TypesNow DEF OfTask
    <2>3. taskOf' \in [Key -> Ref]
      BY <1>1, <1>4, TypesNow
    <2>4. PendingIsHeld'
      <3> SUFFICES ASSUME NEW x \in Key \ forgotten, resv[x].status = Account!Pending
                   PROVE  \/ call[x[1]].context = x[2] \/ call[x[1]].hub = x[2]
                          \/ \E o \in usage' : o.call = x[1] /\ o.held = x[2]
        BY <1>1, <1>2, <1>4 DEF PendingIsHeld, Account!Pending
      <3>1. \/ call[x[1]].context = x[2] \/ call[x[1]].hub = x[2]
            \/ \E o \in usage : o.call = x[1] /\ o.held = x[2]
        BY TypesNow DEF PendingIsHeld
      <3>2. ASSUME NEW o \in usage, o.call = x[1], o.held = x[2]
            PROVE  \E p \in usage' : p.call = x[1] /\ p.held = x[2]
        <4>1. CASE o = t
          BY <1>4, <2>1, <3>2, <4>1
        <4>2. CASE o # t
          BY <1>4, <3>2, <4>2
        <4> QED
          BY <4>1, <4>2
      <3> QED
        BY <3>1, <3>2
    <2>5. SlotsAreCounted' /\ ThrottleTypeOK'
      BY <1>1, SlotsSame
    <2>6. forgotten' \in SUBSET Key /\ lost' \in [Source -> Nat] /\ answers' = answers
      BY <1>1, <1>4, TypesNow
    <2> QED
      BY <1>1, <1>2, <2>2, <2>3, <2>4, <2>5, <2>6, OutsideStep
  <1> QED
    BY <1>3, <1>4 DEF TaskAttach

LEMMA TaskSettleKeeps ==
  ASSUME IInv, NEW t \in usage, TaskSettle(t)
  PROVE  IInv'
  <1> DEFINE k == <<t.call, t.held>>
  <1>1. /\ k \in Key /\ Cost[t.call] \in Nat
        /\ Without(t) /\ UNCHANGED <<requests, call, taskOf, charged, throttle, history>>
    BY TaskTypes DEF TaskSettle
  <1>2. /\ AccountOK' /\ resv'[k].status # Account!Pending
        /\ \A x \in Key : resv'[x].status = Account!Pending => resv[x].status = Account!Pending
    <2>1. CASE resv[k].status # Account!Pending
      BY <2>1, TypesNow, AccountSame DEF TaskSettle, account
    <2>2. ASSUME NEW o \in {Account!Captured, Account!Released}, NEW n \in Nat,
                 Account!Settle(k, o, n)
          PROVE  /\ AccountOK' /\ resv'[k].status # Account!Pending
                 /\ \A x \in Key : resv'[x].status = Account!Pending
                                    => resv[x].status = Account!Pending
      <3>1. o \in Account!Terminal /\ o # Account!Pending
        BY Statuses DEF Account!Terminal
      <3>2. AccountOK' /\ StatusIs(k, o)
        BY <1>1, <2>2, <3>1, TypesNow, SettleOK
      <3> QED
        BY <3>1, <3>2 DEF StatusIs
    <2>3. CASE resv[k].status = Account!Pending
      BY <1>1, <2>2, <2>3 DEF TaskSettle
    <2> QED
      BY <2>1, <2>3
  <1>3. /\ charged' \in [Call -> Nat] /\ forgotten' \in SUBSET Key /\ forgotten \subseteq forgotten'
        /\ faults' \in 0 .. MaxFaults
        /\ UNCHANGED <<requests, call, taskOf, throttle, answers, lost>>
    BY <1>1, TaskTypes, TypesNow DEF history
  <1> HIDE DEF k
  <1> QED
    BY <1>1, <1>2, <1>3, TaskGone DEF k

LEMMA TaskChargeKeeps ==
  ASSUME IInv, NEW t \in usage, TaskCharge(t)
  PROVE  IInv'
  <1>1. /\ t.held = NoKey /\ t.call \in Call /\ Cost[t.call] \in Nat /\ Owner[t.call] \in User
        /\ Without(t) /\ UNCHANGED <<requests, call, taskOf, throttle, history>>
    BY TaskTypes DEF TaskCharge
  <1>2. AccountOK' /\ resv' = resv /\ charged' \in [Call -> Nat]
    <2>1. CASE UNCHANGED <<account, charged>>
      BY <2>1, TaskTypes, TypesNow, AccountSame DEF account
    <2>2. CASE /\ Account!Consume(Owner[t.call], Cost[t.call])
               /\ charged' = [charged EXCEPT ![t.call] = @ + Cost[t.call]]
      <3>1. AccountOK' /\ resv' = resv
        BY <1>1, <2>2, TypesNow, ConsumeOK
      <3>2. charged \in [Call -> Nat] /\ charged[t.call] \in Nat
        BY <1>1, TaskTypes
      <3>3. charged[t.call] + Cost[t.call] \in Nat
        BY <1>1, <3>2
      <3> QED
        BY <2>2, <3>1, <3>2, <3>3
    <2> QED
      BY <2>1, <2>2 DEF TaskCharge
  <1>3. /\ forgotten' \in SUBSET Key /\ forgotten \subseteq forgotten'
        /\ faults' \in 0 .. MaxFaults
        /\ UNCHANGED <<requests, call, taskOf, throttle, answers, lost>>
    BY <1>1, TypesNow DEF history
  <1> QED
    BY <1>1, <1>2, <1>3, TaskGone

LEMMA LoseTaskKeeps ==
  ASSUME IInv, NEW t \in usage, LoseTask(t)
  PROVE  IInv'
  <1>1. /\ Without(t) /\ UNCHANGED <<requests, call, taskOf, throttle, answers, lost>>
        /\ UNCHANGED <<account, charged>>
        /\ forgotten' = forgotten \cup ({<<t.call, t.held>>} \cap Key)
    BY DEF LoseTask
  <1>2. faults' \in 0 .. MaxFaults
    BY TypesNow, BoundAssumption DEF LoseTask
  <1>3. /\ charged' \in [Call -> Nat] /\ AccountOK' /\ resv' = resv /\ forgotten' \in SUBSET Key
        /\ forgotten \subseteq forgotten'
        /\ t.held # NoKey => <<t.call, t.held>> \in forgotten'
    BY <1>1, TaskTypes, TypesNow, AccountSame DEF account
  <1> QED
    BY <1>1, <1>2, <1>3, TaskGone

\* A step that only the throttle sees.
LEMMA ThrottleStep ==
  ASSUME IInv, UNCHANGED <<requests, call, account, billing, answers, forgotten, faults>>,
         ThrottleTypeOK', SlotsAreCounted', lost' \in [Source -> Nat]
  PROVE  IInv'
  <1>1. /\ AccountOK' /\ OfTask' /\ taskOf' \in [Key -> Ref] /\ charged' \in [Call -> Nat]
        /\ forgotten' \in SUBSET Key /\ faults' \in 0 .. MaxFaults
    BY TypesNow, AccountSame DEF billing, OfTask, IInv, Types, Rest
  <1>2. PendingIsHeld'
    BY TypesNow DEF PendingIsHeld, account, billing, Account!Pending
  <1> QED
    BY <1>1, <1>2, OutsideStep

LEMMA CoolKeeps ==
  ASSUME IInv, NEW s \in Source, Cool(s)
  PROVE  IInv'
  <1>1. /\ UNCHANGED <<requests, call, account, billing, answers, forgotten, faults, lost>>
        /\ redis' = redis /\ active' = active /\ health' = [health EXCEPT ![s].cooling = FALSE]
    BY DEF Cool, CooledDown, history
  <1>2. ThrottleTypeOK' /\ lost' \in [Source -> Nat]
    BY <1>1, TypesNow, HealthOK DEF ThrottleTypeOK
  <1>3. SlotsAreCounted'
    <2>1. \A x \in Source : Holding(x)' = Holding(x)
      BY <1>1 DEF Holding, SourceOf
    <2> QED
      BY <1>1, <2>1 DEF IInv, SlotsAreCounted
  <1> QED
    BY <1>1, <1>2, <1>3, ThrottleStep

LEMMA RedisForgetsKeeps ==
  ASSUME IInv, NEW s \in Source, RedisForgets(s)
  PROVE  IInv'
  <1>1. /\ UNCHANGED <<requests, call, account, billing, answers, forgotten, faults>>
        /\ redis /\ redis' = redis /\ health' = health
        /\ active' = [active EXCEPT !.source[s] = 0, !.user[s] = [u \in User |-> 0]]
        /\ lost' = [lost EXCEPT ![s] = 0]
    BY DEF RedisForgets, Expire
  <1> DEFINE source == [active.source EXCEPT ![s] = 0]
             user == [active.user EXCEPT ![s] = [u \in User |-> 0]]
  <1>2. source \in [Source -> Nat] /\ user \in [Source -> [User -> Nat]]
    BY TypesNow DEF Counters
  <1>3. active' = [source |-> source, user |-> user]
    BY <1>1, TypesNow DEF Counters
  <1>4. source[s] = 0 /\ \A x \in Source \ {s} : source[x] = active.source[x]
    BY TypesNow DEF Counters
  <1> HIDE DEF source, user
  <1>5. /\ ThrottleTypeOK' /\ active'.source = source
        /\ lost' \in [Source -> Nat] /\ lost'[s] = 0 /\ \A x \in Source \ {s} : lost'[x] = lost[x]
    <2>1. lost \in [Source -> Nat]
      BY TypesNow
    <2>2. redis \in BOOLEAN /\ health \in Healths
      BY TypesNow DEF ThrottleTypeOK
    <2>3. active' \in Counters /\ active'.source = source
      BY <1>2, <1>3 DEF Counters
    <2>4. ThrottleTypeOK'
      BY <1>1, <2>2, <2>3 DEF ThrottleTypeOK, Counters, Healths
    <2> QED
      BY <1>1, <2>1, <2>3, <2>4
  <1>6. SlotsAreCounted'
    <2>1. \A x \in Source : Holding(x)' = Holding(x)
      BY <1>1 DEF Holding, SourceOf
    <2> SUFFICES ASSUME NEW x \in Source, SourceLimit > 0
                 PROVE  active'.source[x] <= Cardinality(Holding(x)) + lost'[x]
      BY <1>1, <2>1 DEF SlotsAreCounted
    <2>2. CASE x = s
      <3>1. Cardinality(Holding(x)) \in Nat
        BY HoldingFinite
      <3> QED
        BY <1>4, <1>5, <2>2, <3>1
    <2>3. CASE x # s
      BY <1>4, <1>5, <2>3 DEF IInv, SlotsAreCounted
    <2> QED
      BY <2>2, <2>3
  <1> QED
    BY <1>1, <1>5, <1>6, ThrottleStep

LEMMA CrashKeeps ==
  ASSUME IInv, Crash
  PROVE  IInv'
  <1>1. /\ Restart /\ UNCHANGED <<requests, account, taskOf, charged, answers>>
        /\ lost' = [s \in Source |-> IF redis THEN lost[s] + Cardinality(Holding(s)) ELSE 0]
        /\ usage' = {} /\ forgotten' = forgotten \cup {k \in Key : resv[k].status = Account!Pending}
    BY DEF Crash
  <1>2. \A c \in Call : Good(c, call'[c]) /\ ~call'[c].slot
    <2> SUFFICES ASSUME NEW c \in Call
                 PROVE  Good(c, call'[c]) /\ ~call'[c].slot
      OBVIOUS
    <2>1. Good(c, call[c]) /\ call[c] \in CallType
      BY TypesNow, CallOK
    <2>2. CASE Begun(c)
      <3> DEFINE new == [call[c] EXCEPT !.at = "failed", !.slot = FALSE, !.hub = NoKey]
      <3>1. /\ new \in CallType /\ new.at = "failed" /\ new.slot = FALSE /\ new.hub = NoKey
            /\ new.context = call[c].context
        BY <2>1 DEF CallType, Label
      <3>2. call'[c] = new
        BY <2>2 DEF Crash
      <3> HIDE DEF new
      <3> QED
        BY <2>1, <3>1, <3>2 DEF Good, Slotted, HubLabels
    <2>3. CASE ~Begun(c)
      <3>1. call'[c] = call[c] /\ call[c].at \in {"done", "failed", "preflight"}
        BY <2>3 DEF Crash, Begun, Ended, At
      <3> QED
        BY <2>1, <3>1 DEF Good, Slotted
    <2> QED
      BY <2>2, <2>3
  <1>3. Calls'
    <2>1. image' = image
      BY <1>1 DEF requests
    <2>2. call' = [c \in Call |-> call'[c]]
      BY DEF Crash
    <2>3. \A c \in Call : Good(c, call[c])'
      BY <1>2, <2>1 DEF Good, OnHub
    <2> QED
      BY <2>2, <2>3 DEF Calls
  <1>4. lost' \in [Source -> Nat]
    BY <1>1, HoldingFinite, TypesNow
  <1>5. ThrottleTypeOK'
    <2>1. NoneActive \in Counters /\ Healthy \in [failures : 0 .. FailureThreshold, cooling : BOOLEAN]
      BY LimitsAssumption DEF NoneActive, Counters, Healthy
    <2>2. active' \in Counters /\ health' \in Healths /\ redis' \in BOOLEAN
      BY <1>1, <2>1, TypesNow DEF Restart, Healths, ThrottleTypeOK
    <2> QED
      BY <2>2 DEF ThrottleTypeOK, Counters, Healths
  <1>6. SlotsAreCounted'
    <2> SUFFICES ASSUME NEW s \in Source, SourceLimit > 0
                 PROVE  /\ active'.source[s] <= Cardinality(Holding(s)') + lost'[s]
                        /\ ~redis' => active'.source[s] = Cardinality(Holding(s)') + lost'[s]
      BY DEF SlotsAreCounted
    <2>1. Holding(s)' = {} /\ Cardinality(Holding(s)') = 0
      BY <1>2, FS_EmptySet DEF Holding
    <2>2. CASE redis
      <3>1. active'.source[s] = active.source[s] /\ redis'
        BY <1>1, <2>2 DEF Restart
      <3>2. lost'[s] = lost[s] + Cardinality(Holding(s)) /\ lost'[s] \in Nat
        BY <1>1, <1>4, <2>2
      <3>3. /\ active.source[s] <= Cardinality(Holding(s)) + lost[s]
            /\ Cardinality(Holding(s)) \in Nat /\ lost[s] \in Nat /\ active.source[s] \in Nat
        BY TypesNow, HoldingFinite DEF IInv, SlotsAreCounted, Counters
      <3> QED
        BY <2>1, <3>1, <3>2, <3>3
    <2>3. CASE ~redis
      <3>1. active'.source[s] = 0 /\ lost'[s] = 0
        BY <1>1, <2>3 DEF Restart, NoneActive
      <3> QED
        BY <2>1, <3>1
    <2> QED
      BY <2>2, <2>3
  <1>7. PendingIsHeld'
    <2>1. resv' = resv
      BY <1>1 DEF account
    <2>2. \A k \in Key \ forgotten' : resv'[k].status # Account!Pending
      BY <1>1, <2>1
    <2> QED
      BY <2>2 DEF PendingIsHeld, Account!Pending
  <1>8. OfTask' /\ AccountOK'
    BY <1>1, TypesNow, AccountSame DEF OfTask
  <1>9. Rest'
    <2>0. faults \in 0 .. MaxFaults /\ faults < MaxFaults /\ faults' = faults + 1
      BY TypesNow DEF Crash
    <2>1. faults' \in 0 .. MaxFaults
      BY <2>0, BoundAssumption
    <2>2. forgotten' \in SUBSET Key
      BY <1>1, TypesNow
    <2>3. Rest
      BY DEF IInv, Types
    <2>4. UNCHANGED <<image, clientId, taskOf, charged, answers>>
      BY <1>1 DEF requests
    <2> QED
      BY <1>4, <2>1, <2>2, <2>3, <2>4 DEF Rest
  <1> QED
    BY <1>3, <1>5, <1>6, <1>7, <1>8, <1>9 DEF IInv, Types

-----------------------------------------------------------------------------
(* The invariant                                                           *)

LEMMA InitIInv == Init => IInv
  <1> SUFFICES ASSUME Init
               PROVE  IInv
    OBVIOUS
  <1>1. /\ 1 \in Attempt /\ FailureThreshold \in Nat /\ MaxFaults \in Nat /\ InitialPoints \in Nat
    BY AttemptsAreNat, LimitsAssumption, BoundAssumption, PointsAssumption
  <1>2. ThrottleTypeOK /\ active = NoneActive
    BY <1>1 DEF Init, ThrottleInit, ThrottleTypeOK, NoneActive, Healthy
  <1> DEFINE first == [at |-> "preflight", attempt |-> 1, slot |-> FALSE,
                       context |-> NoKey, hub |-> NoKey]
  <1>3. /\ first \in CallType /\ first.at = "preflight" /\ first.slot = FALSE
        /\ first.context = NoKey /\ first.hub = NoKey
    BY <1>1 DEF CallType, Label
  <1>4. call = [c \in Call |-> first]
    BY DEF Init
  <1> HIDE DEF first
  <1>5. Calls
    BY <1>3, <1>4 DEF Calls, Good, Slotted, HubLabels
  <1>6. Account!TypeOK /\ \A k \in Key : resv[k].status = Account!Unmade
    <2>1. Account!Opened \in Account!Wallet /\ Account!NoReservation \in Account!Reservation
      BY <1>1 DEF Account!Opened, Account!Wallet, Account!NoReservation, Account!Reservation
    <2> QED
      BY <2>1 DEF Init, Account!TypeOK, Account!NoReservation
  <1>7. OfTask /\ Rest
    BY <1>1 DEF Init, OfTask, Rest, Ref
  <1>8. SlotsAreCounted
    <2>1. \A s \in Source : Holding(s) = {}
      BY <1>3, <1>4 DEF Holding
    <2>2. \A s \in Source : Cardinality(Holding(s)) = 0
      BY <2>1, FS_EmptySet
    <2>3. \A s \in Source : active.source[s] = 0 /\ lost[s] = 0
      BY <1>2 DEF Init, NoneActive
    <2> QED
      BY <2>2, <2>3 DEF SlotsAreCounted
  <1>9. PendingIsHeld
    BY <1>6, Statuses DEF PendingIsHeld
  <1> QED
    BY <1>2, <1>5, <1>6, <1>7, <1>8, <1>9 DEF IInv, Types, AccountOK

LEMMA CallKeeps ==
  ASSUME IInv, NEW c \in Call, Step(c)
  PROVE  IInv'
  BY PreflightKeeps, PrepareKeeps, ReleasePendingKeeps, AcquireKeeps, UpstreamFailsKeeps,
     UnwindKeeps, UpstreamAnswersKeeps, BodyKeeps, StreamKeeps, CancelledKeeps, HubReserveKeeps,
     HubAttachKeeps, HubPollKeeps, HubSettleKeeps, HubFailKeeps DEF Step

LEMMA StepIInv == IInv /\ [Next]_vars => IInv'
  <1> SUFFICES ASSUME IInv, [Next]_vars
               PROVE  IInv'
    OBVIOUS
  <1>1. ASSUME NEW c \in Call, Step(c) \/ Throw(c)
        PROVE  IInv'
    BY <1>1, CallKeeps, ThrowKeeps
  <1>2. ASSUME NEW t \in usage, Work(t) \/ LoseTask(t)
        PROVE  IInv'
    BY <1>2, TaskAttachKeeps, TaskSettleKeeps, TaskChargeKeeps, LoseTaskKeeps DEF Work
  <1>3. ASSUME NEW s \in Source, Cool(s) \/ RedisForgets(s)
        PROVE  IInv'
    BY <1>3, CoolKeeps, RedisForgetsKeeps
  <1>4. CASE Crash
    BY <1>4, CrashKeeps
  <1>5. CASE UNCHANGED vars
    <2>1. /\ UNCHANGED <<requests, call, account, billing, answers, forgotten, faults>>
          /\ UNCHANGED <<call, throttle, lost>>
      BY <1>5 DEF vars, history
    <2>2. ThrottleTypeOK' /\ SlotsAreCounted' /\ lost' \in [Source -> Nat]
      BY <2>1, SlotsSame, TypesNow
    <2> QED
      BY <2>1, <2>2, ThrottleStep
  <1> QED
    BY <1>1, <1>2, <1>3, <1>4, <1>5 DEF Next

THEOREM InvariantHolds == Spec => []IInv
  BY InitIInv, StepIInv, PTL DEF Spec

\* Calls, counters, wallets, reservations and the queue's tasks keep their
\* types: a call is never on a route that does not exist, and no counter of
\* the throttle and no sum of spent points is negative.
THEOREM TypeCorrect == Spec => []TypeOK
  <1>1. IInv => TypeOK
    BY DEF IInv, Types, TypeOK, Calls, Good, CallType, OfTask, AccountOK, Rest
  <1> QED
    BY <1>1, InvariantHolds, PTL

\* The source's counter in the throttle's memory is what runs and what a
\* refused call left there, and Redis's counter never more than that: with
\* any limits, calls, routes and faults, acquireMemory's slots are given back
\* once each (forwardToUpstream's finally, the end of a stream or its
\* cancellation).
THEOREM SlotsCounted == Spec => []SlotsAreCounted
  <1>1. IInv => SlotsAreCounted
    BY DEF IInv
  <1> QED
    BY <1>1, InvariantHolds, PTL

\* Frozen points always have somebody who will settle them: the call's
\* context, the image's own catch block or a task of the usage queue, unless
\* a settlement failed or was lost.
THEOREM PointsAreHeld == Spec => []PendingIsHeld
  <1>1. IInv => PendingIsHeld
    BY DEF IInv, Types
  <1> QED
    BY <1>1, InvariantHolds, PTL

-----------------------------------------------------------------------------
(* What is paid.  Each answer may be paid for once: the payment is made,   *)
(* or a task of the queue will make it (Bills), or the call is about to    *)
(* capture it (DueAt).  That an attempt is answered once follows from      *)
(* where a call goes after an answer (After).                              *)

After == {"hub_settle", "hub_fail", "done", "failed"}

Bills(c) == {t \in usage : t.call = c /\ t.success}
DueAt(c) == IF call[c].at = "hub_settle" THEN 1 ELSE 0
SettledOf(c) == [i \in Attempt |-> resv[<<c, i>>].settled]
Captured(c) == SumFunctionOnSet(SettledOf(c), Attempt)

BillOK(c) ==
    charged[c] + Captured(c) + Cost[c] * (Cardinality(Bills(c)) + DueAt(c))
      <= Cost[c] * Cardinality(answers[c])

\* A reservation that is not closed has no cost, and only a call that was
\* answered is charged without a reservation.
Blank == \A k \in Key : resv[k].status \notin Account!Terminal => resv[k].settled = 0
TasksOK == IsFiniteSet(usage) /\ \A t \in usage : t.stage = "charge" => t.success

AnsweredOnce(c) == \A i \in answers[c] :
    i < call[c].attempt \/ (i = call[c].attempt /\ call[c].at \in After)

BillInv == Blank /\ TasksOK /\ \A c \in Call : AnsweredOnce(c) /\ BillOK(c)

LEMMA AttemptsFinite == IsFiniteSet(Attempt)
  BY AttemptsAreNat, FS_Interval DEF Attempt

Numbers ==
    \A c \in Call :
      /\ charged[c] \in Nat /\ Captured(c) \in Nat /\ Cost[c] \in Nat /\ DueAt(c) \in {0, 1}
      /\ IsFiniteSet(Bills(c)) /\ Cardinality(Bills(c)) \in Nat
      /\ IsFiniteSet(answers[c]) /\ Cardinality(answers[c]) \in Nat
      /\ \A i \in Attempt : SettledOf(c)[i] \in Nat

LEMMA BillNumbers == IInv /\ TasksOK => Numbers
  <1> SUFFICES ASSUME IInv, TasksOK, NEW c \in Call
               PROVE  /\ charged[c] \in Nat /\ Captured(c) \in Nat /\ Cost[c] \in Nat
                      /\ DueAt(c) \in {0, 1}
                      /\ IsFiniteSet(Bills(c)) /\ Cardinality(Bills(c)) \in Nat
                      /\ IsFiniteSet(answers[c]) /\ Cardinality(answers[c]) \in Nat
                      /\ \A i \in Attempt : SettledOf(c)[i] \in Nat
    BY DEF Numbers
  <1>1. charged[c] \in Nat /\ Cost[c] \in Nat /\ DueAt(c) \in {0, 1}
    BY PointsAssumption DEF IInv, Types, Rest, DueAt
  <1>2. \A i \in Attempt : SettledOf(c)[i] \in Nat
    BY Keys DEF SettledOf, IInv, Types, AccountOK, Account!TypeOK, Account!Reservation
  <1>3. Captured(c) \in Nat
    BY <1>2, AttemptsFinite, SumNat DEF Captured
  <1>4. Bills(c) \in SUBSET usage /\ IsFiniteSet(usage)
    BY DEF Bills, TasksOK
  <1>5. answers[c] \in SUBSET Attempt
    BY DEF IInv, Types, Rest
  <1> QED
    BY <1>1, <1>2, <1>3, <1>4, <1>5, AttemptsFinite, FS_Subset, FS_CardinalityType

LEMMA BillNumbersNext == IInv' /\ TasksOK' => Numbers'
  BY BillNumbers, PTL

\* p payments more, b bills more, a answers more.
LEMMA Budget ==
  ASSUME NEW cost \in Nat, NEW paid \in Int, NEW paid2 \in Int, NEW m \in Int, NEW m2 \in Int,
         NEW n \in Int, NEW n2 \in Int, NEW p \in Int, NEW b \in Int, NEW a \in Int,
         paid + cost * n <= cost * m, paid2 <= paid + cost * p, n2 <= n + b, m2 = m + a, p + b <= a
  PROVE  paid2 + cost * n2 <= cost * m2
  <1>1. cost * n2 <= cost * (n + b) /\ cost * (p + b) <= cost * a
    BY TimesMonotone
  <1>2. /\ cost * (n + b) = cost * n + cost * b /\ cost * (p + b) = cost * p + cost * b
        /\ cost * m2 = cost * m + cost * a
    OBVIOUS
  <1>3. /\ cost * n \in Int /\ cost * b \in Int /\ cost * p \in Int /\ cost * m \in Int
        /\ cost * a \in Int /\ cost * n2 \in Int /\ cost * m2 \in Int
    OBVIOUS
  <1> QED
    BY <1>1, <1>2, <1>3

LEMMA OneBill ==
  ASSUME Numbers, Numbers', NEW c \in Call, BillOK(c), NEW p \in Int, NEW b \in Int, NEW a \in Int,
         charged'[c] + Captured(c)' <= charged[c] + Captured(c) + Cost[c] * p,
         Cardinality(Bills(c)') + DueAt(c)' <= Cardinality(Bills(c)) + DueAt(c) + b,
         Cardinality(answers'[c]) = Cardinality(answers[c]) + a,
         p + b <= a
  PROVE  BillOK(c)'
  <1> DEFINE paid == charged[c] + Captured(c)
             paid2 == charged'[c] + Captured(c)'
             n == Cardinality(Bills(c)) + DueAt(c)
             n2 == Cardinality(Bills(c)') + DueAt(c)'
             m == Cardinality(answers[c])
             m2 == Cardinality(answers'[c])
  <1>1. /\ paid \in Int /\ paid2 \in Int /\ n \in Int /\ n2 \in Int /\ m \in Int /\ m2 \in Int
        /\ Cost[c] \in Nat
    BY DEF Numbers
  <1>2. paid + Cost[c] * n <= Cost[c] * m
    BY DEF BillOK
  <1>3. paid2 <= paid + Cost[c] * p /\ n2 <= n + b /\ m2 = m + a
    OBVIOUS
  <1> HIDE DEF paid, paid2, n, n2, m, m2
  <1>4. paid2 + Cost[c] * n2 <= Cost[c] * m2
    BY <1>1, <1>2, <1>3, Budget
  <1> QED
    BY <1>4 DEF BillOK, paid2, n2, m2

\* Nothing is answered or paid.
LEMMA BillStays ==
  ASSUME Numbers, Numbers', NEW c \in Call, BillOK(c),
         charged'[c] + Captured(c)' <= charged[c] + Captured(c),
         Cardinality(Bills(c)') + DueAt(c)' <= Cardinality(Bills(c)) + DueAt(c),
         Cardinality(answers'[c]) = Cardinality(answers[c])
  PROVE  BillOK(c)'
  <1>1. PICK p \in Int, b \in Int, a \in Int : p = 0 /\ b = 0 /\ a = 0
    OBVIOUS
  <1>2. Cost[c] * p = 0 /\ Cost[c] \in Nat
    BY <1>1 DEF Numbers
  <1>3. /\ charged'[c] + Captured(c)' <= charged[c] + Captured(c) + Cost[c] * p
        /\ Cardinality(Bills(c)') + DueAt(c)' <= Cardinality(Bills(c)) + DueAt(c) + b
        /\ Cardinality(answers'[c]) = Cardinality(answers[c]) + a
        /\ p + b <= a
    BY <1>1, <1>2 DEF Numbers
  <1> QED
    BY <1>3, OneBill

\* An answer is left to be paid.
LEMMA BillAnswered ==
  ASSUME Numbers, Numbers', NEW c \in Call, BillOK(c),
         charged'[c] + Captured(c)' <= charged[c] + Captured(c),
         Cardinality(Bills(c)') + DueAt(c)' <= Cardinality(Bills(c)) + DueAt(c) + 1,
         Cardinality(answers'[c]) = Cardinality(answers[c]) + 1
  PROVE  BillOK(c)'
  <1>1. PICK p \in Int, b \in Int, a \in Int : p = 0 /\ b = 1 /\ a = 1
    OBVIOUS
  <1>2. Cost[c] * p = 0 /\ Cost[c] \in Nat
    BY <1>1 DEF Numbers
  <1>3. /\ charged'[c] + Captured(c)' <= charged[c] + Captured(c) + Cost[c] * p
        /\ Cardinality(Bills(c)') + DueAt(c)' <= Cardinality(Bills(c)) + DueAt(c) + b
        /\ Cardinality(answers'[c]) = Cardinality(answers[c]) + a
        /\ p + b <= a
    BY <1>1, <1>2 DEF Numbers
  <1> QED
    BY <1>3, OneBill

\* An answer is paid.
LEMMA BillPaid ==
  ASSUME Numbers, Numbers', NEW c \in Call, BillOK(c),
         charged'[c] + Captured(c)' <= charged[c] + Captured(c) + Cost[c],
         Cardinality(Bills(c)') + DueAt(c)' <= Cardinality(Bills(c)) + DueAt(c) - 1,
         Cardinality(answers'[c]) = Cardinality(answers[c])
  PROVE  BillOK(c)'
  <1>1. PICK p \in Int, b \in Int, a \in Int : p = 1 /\ b = -1 /\ a = 0
    OBVIOUS
  <1>2. Cost[c] * p = Cost[c] /\ Cost[c] \in Nat
    BY <1>1 DEF Numbers
  <1>3. /\ charged'[c] + Captured(c)' <= charged[c] + Captured(c) + Cost[c] * p
        /\ Cardinality(Bills(c)') + DueAt(c)' <= Cardinality(Bills(c)) + DueAt(c) + b
        /\ Cardinality(answers'[c]) = Cardinality(answers[c]) + a
        /\ p + b <= a
    BY <1>1, <1>2 DEF Numbers
  <1> QED
    BY <1>3, OneBill

-----------------------------------------------------------------------------
(* Where a call goes without an answer                                     *)

Moved(r, new) ==
    \/ new.attempt > r.attempt /\ new.at # "hub_settle"
    \/ /\ new.attempt = r.attempt
       /\ r.at \in After => new.at \in After
       /\ new.at = "hub_settle" => r.at = "hub_settle"

AllMoved == \A d \in Call : Moved(call[d], call'[d])

LEMMA EditMoves ==
  ASSUME IInv, NEW c \in Call, NEW new, call' = [call EXCEPT ![c] = new], Moved(call[c], new)
  PROVE  AllMoved
  BY DEF AllMoved, Moved, IInv, Types, Calls

LEMMA StayMoves == call' = call => AllMoved
  BY DEF AllMoved, Moved

LEMMA LabelMoves ==
  ASSUME IInv, NEW c \in Call, NEW label \in Label, Goto(c, label), label # "hub_settle",
         call[c].at \in After => label \in After
  PROVE  AllMoved
  <1> DEFINE new == [call[c] EXCEPT !.at = label]
  <1>1. call[c] \in CallType
    BY CallOK DEF IInv
  <1>2. new.at = label /\ new.attempt = call[c].attempt
    BY <1>1 DEF CallType
  <1>3. call' = [call EXCEPT ![c] = new]
    BY DEF Goto, IInv, Types, Calls
  <1> HIDE DEF new
  <1> QED
    BY <1>2, <1>3, EditMoves DEF Moved

LEMMA NextRouteMoves ==
  ASSUME NEW r \in CallType, NEW retry \in BOOLEAN
  PROVE  Moved(r, NextRoute(r, retry))
  <1>1. r.attempt \in Nat
    BY AttemptsAreNat DEF CallType
  <1>2. CASE retry /\ r.attempt < Len(Route)
    <2>1. NextRoute(r, retry).attempt = r.attempt + 1 /\ NextRoute(r, retry).at = "preflight"
      BY <1>2 DEF NextRoute, CallType
    <2> QED
      BY <1>1, <2>1 DEF Moved
  <1>3. CASE ~(retry /\ r.attempt < Len(Route))
    <2>1. NextRoute(r, retry).attempt = r.attempt /\ NextRoute(r, retry).at = "failed"
      BY <1>3 DEF NextRoute, CallType
    <2> QED
      BY <2>1 DEF Moved, After
  <1> QED
    BY <1>2, <1>3

LEMMA FailMoves ==
  ASSUME IInv, NEW c \in Call, NEW retry \in BOOLEAN, Fail(c, retry)
  PROVE  AllMoved
  <1>1. call[c] \in CallType
    BY CallOK DEF IInv
  <1>2. call' = [call EXCEPT ![c] = NextRoute(call[c], retry)]
    BY DEF Fail, IInv, Types, Calls
  <1> QED
    BY <1>1, <1>2, NextRouteMoves, EditMoves

\* After a release, the call has no context.
LEMMA DropMoves ==
  ASSUME IInv, NEW c \in Call, NEW retry \in BOOLEAN,
         call' = [call EXCEPT ![c] = NextRoute([@ EXCEPT !.context = NoKey], retry)]
  PROVE  AllMoved
  <1> DEFINE r == [call[c] EXCEPT !.context = NoKey]
  <1>1. call[c] \in CallType
    BY CallOK DEF IInv
  <1>2. r \in CallType /\ r.at = call[c].at /\ r.attempt = call[c].attempt
    BY <1>1 DEF CallType
  <1>3. call' = [call EXCEPT ![c] = NextRoute(r, retry)]
    BY DEF IInv, Types, Calls
  <1> HIDE DEF r
  <1>4. Moved(call[c], NextRoute(r, retry))
    BY <1>2, NextRouteMoves DEF Moved
  <1> QED
    BY <1>3, <1>4, EditMoves

\* Finish, with what an answer needs of it.
LEMMA FinishMoves ==
  ASSUME IInv, NEW c \in Call, Finish(c)
  PROVE  /\ AllMoved /\ call'[c].at = "done" /\ call'[c].attempt = call[c].attempt
         /\ \A d \in Call \ {c} : call'[d] = call[d]
  <1> DEFINE new == [call[c] EXCEPT !.at = "done", !.slot = FALSE, !.context = NoKey, !.hub = NoKey]
  <1>1. call[c] \in CallType
    BY CallOK DEF IInv
  <1>2. new.at = "done" /\ new.attempt = call[c].attempt
    BY <1>1 DEF CallType
  <1>3. call' = [call EXCEPT ![c] = new]
    BY DEF Finish, IInv, Types, Calls
  <1> HIDE DEF new
  <1>4. call'[c] = new /\ \A d \in Call \ {c} : call'[d] = call[d]
    BY <1>3 DEF IInv, Types, Calls
  <1> QED
    BY <1>2, <1>3, <1>4, EditMoves DEF Moved, After

-----------------------------------------------------------------------------
(* What a step does to the costs of the reservations                       *)

SameSettled == \A k \in Key : resv'[k].settled = resv[k].settled

NothingCaptured == SameSettled /\ Blank'

LEMMA SameCosts == Blank /\ resv' = resv => NothingCaptured
  BY DEF NothingCaptured, SameSettled, Blank

LEMMA AccountCosts == Blank /\ UNCHANGED account => NothingCaptured
  BY SameCosts DEF account

LEMMA ConsumeCosts ==
  ASSUME Blank, NEW u, NEW n, Account!Consume(u, n)
  PROVE  NothingCaptured
  BY SameCosts DEF Account!Consume

LEMMA ReserveCosts ==
  ASSUME IInv, Blank, NEW k \in Key, NEW n \in Nat, Account!Reserve(k, n)
  PROVE  NothingCaptured
  <1>1. resv \in [Key -> Account!Reservation]
    BY DEF IInv, Types, AccountOK, Account!TypeOK
  <1>2. resv[k].settled = 0
    BY Statuses DEF Blank, Account!Reserve, Account!Terminal
  <1>3. resv' = [resv EXCEPT ![k] = [status |-> Account!Pending, reserved |-> n, settled |-> 0]]
    BY DEF Account!Reserve
  <1>4. resv'[k].settled = 0 /\ \A x \in Key \ {k} : resv'[x] = resv[x]
    BY <1>1, <1>3
  <1> QED
    BY <1>2, <1>4 DEF NothingCaptured, SameSettled, Blank

\* Closed with a cost: the reservation had none.
CostIs(k, n) ==
    /\ resv[k].settled = 0 /\ resv'[k].settled = n
    /\ \A x \in Key \ {k} : resv'[x] = resv[x]
    /\ Blank'

LEMMA SettleCosts ==
  ASSUME IInv, Blank, NEW k \in Key, NEW o \in Account!Terminal, NEW n \in Nat,
         Account!Settle(k, o, n)
  PROVE  CostIs(k, n)
  <1>1. resv \in [Key -> Account!Reservation]
    BY DEF IInv, Types, AccountOK, Account!TypeOK
  <1>2. resv[k].settled = 0
    BY Statuses DEF Blank, Account!Settle, Account!Terminal
  <1>3. resv' = [resv EXCEPT ![k] = [resv[k] EXCEPT !.status = o, !.settled = n]]
    BY <1>1 DEF Account!Settle, Account!Reservation
  <1>4. /\ resv'[k].status = o /\ resv'[k].settled = n
        /\ \A x \in Key \ {k} : resv'[x] = resv[x]
    BY <1>1, <1>3 DEF Account!Reservation
  <1>5. Blank'
    BY <1>4 DEF Blank
  <1> QED
    BY <1>2, <1>4, <1>5 DEF CostIs

LEMMA ReleasedCosts ==
  ASSUME IInv, Blank, NEW k \in Key, Account!Settle(k, Account!Released, 0)
  PROVE  NothingCaptured
  <1>1. CostIs(k, 0)
    BY SettleCosts DEF Account!Terminal
  <1> QED
    BY <1>1 DEF CostIs, NothingCaptured, SameSettled

LEMMA ReleaseCosts ==
  ASSUME IInv, Blank, NEW k \in Key, ReleaseReservation(k)
  PROVE  NothingCaptured
  BY ReleasedCosts, AccountCosts DEF ReleaseReservation

\* The sum follows.
LEMMA SameCaptured ==
  ASSUME Numbers, NEW c \in Call, \A i \in Attempt : resv'[<<c, i>>].settled = resv[<<c, i>>].settled
  PROVE  Captured(c)' = Captured(c)
  <1>1. \A i \in Attempt : SettledOf(c)[i] = SettledOf(c)'[i]
    BY DEF SettledOf
  <1> QED
    BY <1>1, AttemptsFinite, SumAgrees DEF Captured

LEMMA CostCaptured ==
  ASSUME Numbers, Numbers', NEW c \in Call, NEW i \in Attempt, NEW n \in Nat, CostIs(<<c, i>>, n)
  PROVE  Captured(c)' = Captured(c) + n
  <1>1. \A j \in Attempt : SettledOf(c)[j] \in Int /\ SettledOf(c)'[j] \in Int
    BY DEF Numbers
  <1>2. \A j \in Attempt \ {i} : SettledOf(c)'[j] = SettledOf(c)[j]
    BY Keys DEF SettledOf, CostIs
  <1>3. SettledOf(c)[i] = 0 /\ SettledOf(c)'[i] = n
    BY DEF SettledOf, CostIs
  <1>4. Captured(c)' = Captured(c) - SettledOf(c)[i] + SettledOf(c)'[i]
    BY <1>1, <1>2, AttemptsFinite, SumChange DEF Captured
  <1>5. Captured(c) \in Nat
    BY DEF Numbers
  <1> QED
    BY <1>3, <1>4, <1>5

-----------------------------------------------------------------------------
(* Steps that answer and pay nothing                                       *)

\* What is left to bill does not grow.
FewerBills == TasksOK' /\ \A d \in Call : Cardinality(Bills(d)') <= Cardinality(Bills(d))

LEMMA BillsWithin ==
  ASSUME TasksOK, TasksOK', Numbers, \A d \in Call : Bills(d)' \subseteq Bills(d)
  PROVE  FewerBills
  BY FS_Subset DEF FewerBills, Numbers

LEMMA FewerTasks ==
  ASSUME TasksOK, Numbers, usage' \subseteq usage
  PROVE  FewerBills
  <1>1. TasksOK'
    BY FS_Subset DEF TasksOK
  <1>2. \A d \in Call : Bills(d)' \subseteq Bills(d)
    BY DEF Bills
  <1> QED
    BY <1>1, <1>2, BillsWithin

\* The report of a failure is no bill.
LEMMA FailureReported ==
  ASSUME TasksOK, Numbers, NEW c \in Call, LogUsage(c, FALSE)
  PROVE  FewerBills
  <1>1. PICK ref : usage' = usage \cup Report(c, FALSE, ref)
    BY DEF LogUsage
  <1> DEFINE t == [call |-> c, attempt |-> call[c].attempt, success |-> FALSE,
                   held |-> call[c].context, ref |-> ref,
                   stage |-> IF call[c].context = NoKey THEN "charge" ELSE "attach"]
  <1>2. Report(c, FALSE, ref) = {} \/ (Report(c, FALSE, ref) = {t} /\ call[c].context # NoKey)
    BY DEF Report
  <1>3. t.success = FALSE /\ (call[c].context # NoKey => t.stage = "attach")
    OBVIOUS
  <1> HIDE DEF t
  <1>4. usage' = usage \/ (usage' = usage \cup {t} /\ t.stage = "attach")
    BY <1>1, <1>2, <1>3
  <1>5. TasksOK'
    BY <1>4, FS_AddElement DEF TasksOK
  <1>6. \A d \in Call : Bills(d)' \subseteq Bills(d)
    BY <1>3, <1>4 DEF Bills
  <1> QED
    BY <1>5, <1>6, BillsWithin

QuietBills ==
    AllMoved /\ NothingCaptured /\ FewerBills /\ charged' = charged /\ answers' = answers

LEMMA QuietKeeps ==
  ASSUME IInv, IInv', BillInv, QuietBills
  PROVE  BillInv'
  <1>1. Numbers /\ Numbers' /\ TasksOK' /\ Blank'
    BY BillNumbers, BillNumbersNext DEF BillInv, QuietBills, FewerBills, NothingCaptured
  <1>2. ASSUME NEW c \in Call PROVE AnsweredOnce(c)'
    <2>1. call[c].attempt \in Nat /\ call'[c].attempt \in Nat /\ answers[c] \subseteq Nat
      BY AttemptsAreNat DEF IInv, Types, Calls, Good, CallType, Rest
    <2>2. AnsweredOnce(c) /\ Moved(call[c], call'[c]) /\ answers'[c] = answers[c]
      BY DEF BillInv, QuietBills, AllMoved
    <2>3. \A i \in answers'[c] :
            i < call'[c].attempt \/ (i = call'[c].attempt /\ call'[c].at \in After)
      BY <2>1, <2>2 DEF AnsweredOnce, Moved
    <2> QED
      BY <2>3 DEF AnsweredOnce
  <1>3. ASSUME NEW c \in Call PROVE BillOK(c)'
    <2>1. BillOK(c) /\ Moved(call[c], call'[c])
      BY DEF BillInv, QuietBills, AllMoved
    <2>2. Captured(c)' = Captured(c)
      BY <1>1, Keys, SameCaptured DEF QuietBills, NothingCaptured, SameSettled
    <2>a. call'[c].at = "hub_settle" => call[c].at = "hub_settle"
      BY <2>1 DEF Moved
    <2>3. DueAt(c)' <= DueAt(c)
      BY <2>a DEF DueAt
    <2>4. /\ charged'[c] + Captured(c)' <= charged[c] + Captured(c)
          /\ Cardinality(Bills(c)') + DueAt(c)' <= Cardinality(Bills(c)) + DueAt(c)
          /\ Cardinality(answers'[c]) = Cardinality(answers[c])
      BY <1>1, <2>2, <2>3 DEF Numbers, QuietBills, FewerBills
    <2> QED
      BY <1>1, <2>1, <2>4, BillStays
  <1> QED
    BY <1>1, <1>2, <1>3 DEF BillInv

-----------------------------------------------------------------------------
(* An answer, and its payment                                              *)

\* An attempt that had no answer has one: to be charged or settled by a task,
\* or to be captured by the call.
LEMMA AnswerKeeps ==
  ASSUME IInv, IInv', BillInv, NEW c \in Call, call[c].at \notin After, Answered(c),
         charged' = charged, NothingCaptured,
         call'[c].attempt = call[c].attempt, \A d \in Call \ {c} : call'[d] = call[d],
         \/ usage' = usage /\ call'[c].at = "hub_settle"
         \/ LogUsage(c, TRUE) /\ call'[c].at = "done"
  PROVE  BillInv'
  <1>1. Numbers /\ TasksOK /\ Blank'
    BY BillNumbers DEF BillInv, NothingCaptured
  <1>2. /\ answers'[c] = answers[c] \cup {call[c].attempt}
        /\ \A d \in Call \ {c} : answers'[d] = answers[d]
    BY DEF Answered, IInv, Types, Rest
  <1>3. call[c].attempt \notin answers[c] /\ call[c].attempt \in Nat
    BY AttemptsAreNat DEF BillInv, AnsweredOnce, IInv, Types, Calls, Good, CallType
  <1>4. Cardinality(answers'[c]) = Cardinality(answers[c]) + 1
    BY <1>1, <1>2, <1>3, FS_AddElement DEF Numbers
  <1>5. /\ TasksOK'
        /\ \A d \in Call \ {c} : Bills(d)' \subseteq Bills(d)
        /\ Cardinality(Bills(c)') + DueAt(c)' <= Cardinality(Bills(c)) + DueAt(c) + 1
    <2>1. DueAt(c) = 0 /\ DueAt(c)' = IF call'[c].at = "hub_settle" THEN 1 ELSE 0
      BY DEF DueAt, After
    <2>2. CASE usage' = usage
      <3>1. TasksOK' /\ \A d \in Call : Bills(d)' = Bills(d)
        BY <1>1, <2>2 DEF TasksOK, Bills
      <3> QED
        BY <1>1, <2>1, <3>1 DEF Numbers
    <2>3. CASE LogUsage(c, TRUE) /\ call'[c].at = "done"
      <3>1. PICK ref : usage' = usage \cup Report(c, TRUE, ref)
        BY <2>3 DEF LogUsage
      <3> DEFINE t == [call |-> c, attempt |-> call[c].attempt, success |-> TRUE,
                       held |-> call[c].context, ref |-> ref,
                       stage |-> IF call[c].context = NoKey THEN "charge" ELSE "attach"]
      <3>2. usage' = usage \cup {t} /\ t.call = c /\ t.success
        BY <3>1 DEF Report
      <3> HIDE DEF t
      <3>3. TasksOK'
        BY <1>1, <3>2, FS_AddElement DEF TasksOK
      <3>4. Bills(c)' = Bills(c) \cup {t} /\ \A d \in Call \ {c} : Bills(d)' \subseteq Bills(d)
        BY <3>2 DEF Bills
      <3>a. IsFiniteSet(Bills(c)) /\ Cardinality(Bills(c)) \in Nat
        BY <1>1 DEF Numbers
      <3>b. Cardinality(Bills(c)') = IF t \in Bills(c) THEN Cardinality(Bills(c))
                                     ELSE Cardinality(Bills(c)) + 1
        BY <3>4, <3>a, FS_AddElement
      <3>5. Cardinality(Bills(c)') <= Cardinality(Bills(c)) + 1
        BY <3>a, <3>b
      <3>6. DueAt(c)' = 0 /\ Cardinality(Bills(c)') \in Nat
        BY <2>1, <2>3, <3>a, <3>b
      <3> QED
        BY <1>1, <2>1, <3>3, <3>4, <3>5, <3>6 DEF Numbers
    <2> QED
      BY <2>2, <2>3
  <1>6. Numbers'
    BY <1>5, BillNumbersNext
  <1>7. ASSUME NEW d \in Call PROVE Captured(d)' = Captured(d)
    BY <1>1, Keys, SameCaptured DEF NothingCaptured, SameSettled
  <1>8. BillOK(c)'
    <2>1. BillOK(c)
      BY DEF BillInv
    <2>2. charged'[c] + Captured(c)' <= charged[c] + Captured(c)
      BY <1>1, <1>7 DEF Numbers
    <2> QED
      BY <1>1, <1>4, <1>5, <1>6, <2>1, <2>2, BillAnswered
  <1>9. AnsweredOnce(c)'
    <2>1. call'[c].at \in After
      BY DEF After
    <2>2. AnsweredOnce(c) /\ call'[c].attempt = call[c].attempt
      BY DEF BillInv
    <2>3. \A i \in answers'[c] :
            i < call'[c].attempt \/ (i = call'[c].attempt /\ call'[c].at \in After)
      BY <1>2, <2>1, <2>2 DEF AnsweredOnce
    <2> QED
      BY <2>3 DEF AnsweredOnce
  <1>10. ASSUME NEW d \in Call, d # c PROVE AnsweredOnce(d)' /\ BillOK(d)'
    <2>1. AnsweredOnce(d) /\ BillOK(d) /\ call'[d] = call[d] /\ answers'[d] = answers[d]
      BY <1>2, <1>10 DEF BillInv
    <2>2. AnsweredOnce(d)'
      BY <2>1 DEF AnsweredOnce
    <2>3. /\ charged'[d] + Captured(d)' <= charged[d] + Captured(d)
          /\ Cardinality(answers'[d]) = Cardinality(answers[d])
      BY <1>1, <1>7, <2>1 DEF Numbers
    <2>4. Cardinality(Bills(d)') <= Cardinality(Bills(d)) /\ DueAt(d)' = DueAt(d)
      BY <1>1, <1>5, <1>10, <2>1, FS_Subset DEF Numbers, DueAt
    <2>5. Cardinality(Bills(d)') + DueAt(d)' <= Cardinality(Bills(d)) + DueAt(d)
      BY <1>1, <1>6, <2>4 DEF Numbers
    <2> QED
      BY <1>1, <1>6, <2>1, <2>2, <2>3, <2>5, BillStays
  <1> QED
    BY <1>1, <1>5, <1>8, <1>9, <1>10 DEF BillInv

\* A payment of call c: its cost at most, for one bill less.
LEMMA PaymentKeeps ==
  ASSUME IInv, IInv', BillInv, NEW c \in Call, Blank', TasksOK', AllMoved, answers' = answers,
         charged'[c] + Captured(c)' <= charged[c] + Captured(c) + Cost[c],
         Cardinality(Bills(c)') + DueAt(c)' <= Cardinality(Bills(c)) + DueAt(c) - 1,
         \A d \in Call \ {c} : /\ charged'[d] = charged[d] /\ call'[d] = call[d]
                               /\ Bills(d)' \subseteq Bills(d)
                               /\ \A i \in Attempt : resv'[<<d, i>>] = resv[<<d, i>>]
  PROVE  BillInv'
  <1>1. Numbers /\ Numbers'
    BY BillNumbers, BillNumbersNext DEF BillInv
  <1>2. ASSUME NEW d \in Call PROVE AnsweredOnce(d)'
    <2>1. call[d].attempt \in Nat /\ call'[d].attempt \in Nat /\ answers[d] \subseteq Nat
      BY AttemptsAreNat DEF IInv, Types, Calls, Good, CallType, Rest
    <2>2. AnsweredOnce(d) /\ Moved(call[d], call'[d]) /\ answers'[d] = answers[d]
      BY DEF BillInv, AllMoved
    <2>3. \A i \in answers'[d] :
            i < call'[d].attempt \/ (i = call'[d].attempt /\ call'[d].at \in After)
      BY <2>1, <2>2 DEF AnsweredOnce, Moved
    <2> QED
      BY <2>3 DEF AnsweredOnce
  <1>3. BillOK(c)'
    <2>1. BillOK(c) /\ Cardinality(answers'[c]) = Cardinality(answers[c])
      BY DEF BillInv
    <2> QED
      BY <1>1, <2>1, BillPaid
  <1>4. ASSUME NEW d \in Call, d # c PROVE BillOK(d)'
    <2>1. BillOK(d) /\ call'[d] = call[d] /\ answers'[d] = answers[d] /\ charged'[d] = charged[d]
      BY <1>4 DEF BillInv
    <2>2. Captured(d)' = Captured(d)
      BY <1>1, <1>4, SameCaptured
    <2>3. Cardinality(Bills(d)') <= Cardinality(Bills(d)) /\ DueAt(d)' = DueAt(d)
      BY <1>1, <1>4, <2>1, FS_Subset DEF Numbers, DueAt
    <2>4. /\ charged'[d] + Captured(d)' <= charged[d] + Captured(d)
          /\ Cardinality(answers'[d]) = Cardinality(answers[d])
          /\ Cardinality(Bills(d)') + DueAt(d)' <= Cardinality(Bills(d)) + DueAt(d)
      BY <1>1, <2>1, <2>2, <2>3 DEF Numbers
    <2> QED
      BY <1>1, <2>1, <2>4, BillStays
  <1> QED
    BY <1>2, <1>3, <1>4 DEF BillInv

\* The call captures its image's reservation.
LEMMA CaptureKeeps ==
  ASSUME IInv, IInv', BillInv, NEW c \in Call, At(c, "hub_settle"),
         Account!Settle(<<c, call[c].hub>>, Account!Captured, Cost[c]), AllMoved,
         call'[c].at # "hub_settle", \A d \in Call \ {c} : call'[d] = call[d],
         usage' = usage, charged' = charged, answers' = answers
  PROVE  BillInv'
  <1>1. call[c].hub \in Attempt /\ Cost[c] \in Nat
    BY PointsAssumption DEF At, IInv, Types, Calls, Good, CallType
  <1>2. CostIs(<<c, call[c].hub>>, Cost[c])
    BY <1>1, Keys, SettleCosts DEF BillInv, Account!Terminal
  <1>3. TasksOK' /\ Blank' /\ Numbers /\ Numbers'
    <2>1. TasksOK' /\ Blank'
      BY <1>2 DEF BillInv, TasksOK, CostIs
    <2> QED
      BY <2>1, BillNumbers, BillNumbersNext DEF BillInv
  <1>4. Captured(c)' = Captured(c) + Cost[c]
    BY <1>1, <1>2, <1>3, CostCaptured
  <1>5. DueAt(c) = 1 /\ DueAt(c)' = 0
    BY DEF DueAt, At
  <1>6. \A d \in Call : Bills(d)' = Bills(d)
    BY DEF Bills
  <1>7. \A d \in Call \ {c} : \A i \in Attempt : resv'[<<d, i>>] = resv[<<d, i>>]
    BY <1>2, Keys DEF CostIs
  <1>8. /\ charged'[c] + Captured(c)' <= charged[c] + Captured(c) + Cost[c]
        /\ Cardinality(Bills(c)') + DueAt(c)' <= Cardinality(Bills(c)) + DueAt(c) - 1
    BY <1>3, <1>4, <1>5, <1>6 DEF Numbers
  <1> QED
    BY <1>3, <1>6, <1>7, <1>8, PaymentKeeps

\* A task of the queue pays for the answer it reports.
LEMMA TaskPays ==
  ASSUME IInv, IInv', BillInv, NEW t \in usage, t.success, Without(t), Blank',
         UNCHANGED <<call, answers>>,
         charged'[t.call] + Captured(t.call)' <= charged[t.call] + Captured(t.call) + Cost[t.call],
         \A d \in Call \ {t.call} : /\ charged'[d] = charged[d]
                                    /\ \A i \in Attempt : resv'[<<d, i>>] = resv[<<d, i>>]
  PROVE  BillInv'
  <1>1. PICK c \in Call : c = t.call
    BY DEF IInv, Types, OfTask, Task
  <1>2. TasksOK /\ TasksOK'
    BY FS_RemoveElement DEF BillInv, TasksOK, Without
  <1>3. Numbers /\ Numbers'
    BY <1>2, BillNumbers, BillNumbersNext
  <1>4. /\ t \in Bills(c) /\ Bills(c)' = Bills(c) \ {t}
        /\ \A d \in Call : Bills(d)' \subseteq Bills(d)
    BY <1>1 DEF Bills, Without
  <1>5. Cardinality(Bills(c)') = Cardinality(Bills(c)) - 1
    BY <1>3, <1>4, FS_RemoveElement DEF Numbers
  <1>6. DueAt(c)' = DueAt(c)
    BY DEF DueAt
  <1>7. Cardinality(Bills(c)') + DueAt(c)' <= Cardinality(Bills(c)) + DueAt(c) - 1
    BY <1>3, <1>5, <1>6 DEF Numbers
  <1> QED
    BY <1>1, <1>2, <1>4, <1>7, StayMoves, PaymentKeeps

-----------------------------------------------------------------------------
(* The steps                                                               *)

\* The steps of a call that neither answer nor capture.
PlainStep(c) ==
    \/ Preflight(c) \/ Prepare(c) \/ ReleasePending(c) \/ Acquire(c)
    \/ UpstreamFails(c) \/ Unwind(c) \/ UpstreamAnswers(c)
    \/ HubReserve(c) \/ HubAttach(c) \/ HubFail(c)

LEMMA PlainMoves ==
  ASSUME IInv, NEW c \in Call, PlainStep(c)
  PROVE  AllMoved
  <1>1. call[c] \in CallType /\ call = [x \in Call |-> call[x]]
    BY CallOK DEF IInv, Types, Calls
  <1>2. ASSUME NEW label \in Label \ {"hub_settle"}, call[c].at \notin After, Goto(c, label)
        PROVE  AllMoved
    BY <1>2, LabelMoves
  <1>3. ASSUME NEW new, call' = [call EXCEPT ![c] = new], new.attempt = call[c].attempt,
               new.at \notin After, call[c].at \notin After
        PROVE  AllMoved
    BY <1>3, EditMoves DEF Moved, After
  <1>4. CASE Preflight(c) \/ HubReserve(c)
    <2>1. call[c].at \notin After
      BY <1>4 DEF Preflight, HubReserve, At, After
    <2>2. CASE \E i : call' = [call EXCEPT ![c].at = "prepare", ![c].context = i]
      <3>1. PICK i : call' = [call EXCEPT ![c].at = "prepare", ![c].context = i]
        BY <2>2
      <3> DEFINE new == [call[c] EXCEPT !.at = "prepare", !.context = i]
      <3>2. /\ call' = [call EXCEPT ![c] = new]
            /\ new.at \notin After /\ new.attempt = call[c].attempt
        BY <1>1, <3>1 DEF CallType, After
      <3> QED
        BY <2>1, <3>2, <1>3
    <2>3. CASE \E i : call' = [call EXCEPT ![c].at = "acquire", ![c].hub = i]
      <3>1. PICK i : call' = [call EXCEPT ![c].at = "acquire", ![c].hub = i]
        BY <2>3
      <3> DEFINE new == [call[c] EXCEPT !.at = "acquire", !.hub = i]
      <3>2. /\ call' = [call EXCEPT ![c] = new]
            /\ new.at \notin After /\ new.attempt = call[c].attempt
        BY <1>1, <3>1 DEF CallType, After
      <3> QED
        BY <2>1, <3>2, <1>3
    <2>4. CASE Goto(c, "prepare") \/ Goto(c, "acquire")
      BY <1>2, <2>1, <2>4 DEF Label
    <2> QED
      BY <1>4, <2>2, <2>3, <2>4, FailMoves DEF Preflight, HubReserve
  <1>5. CASE Prepare(c) \/ HubAttach(c)
    <2>1. call[c].at \notin After
      BY <1>5 DEF Prepare, HubAttach, At, After
    <2> QED
      BY <1>2, <1>5, <2>1 DEF Prepare, HubAttach, Label
  <1>6. CASE ReleasePending(c) \/ HubFail(c)
    BY <1>6, DropMoves, FailMoves DEF ReleasePending, HubFail
  <1>7. CASE Acquire(c)
    <2>1. call[c].at \notin After
      BY <1>7 DEF Acquire, At, After
    <2>2. CASE call' = [call EXCEPT ![c].at = "upstream", ![c].slot = TRUE]
      <3> DEFINE new == [call[c] EXCEPT !.at = "upstream", !.slot = TRUE]
      <3>1. /\ call' = [call EXCEPT ![c] = new]
            /\ new.at \notin After /\ new.attempt = call[c].attempt
        BY <1>1, <2>2 DEF CallType, After
      <3> QED
        BY <2>1, <3>1, <1>3
    <2> QED
      BY <1>2, <1>7, <2>1, <2>2, FailMoves DEF Acquire, Label
  <1>8. CASE UpstreamFails(c)
    <2>1. call[c].at \notin After
      BY <1>8 DEF UpstreamFails, At, After
    <2>2. CASE call' = [call EXCEPT ![c].at = "unwind", ![c].context = NoKey]
      <3> DEFINE new == [call[c] EXCEPT !.at = "unwind", !.context = NoKey]
      <3>1. /\ call' = [call EXCEPT ![c] = new]
            /\ new.at \notin After /\ new.attempt = call[c].attempt
        BY <1>1, <2>2 DEF CallType, After
      <3> QED
        BY <2>1, <3>1, <1>3
    <2> QED
      BY <1>2, <1>8, <2>1, <2>2 DEF UpstreamFails, Label
  <1>9. CASE Unwind(c)
    <2>1. CASE call' = [call EXCEPT ![c].at = "hub_fail", ![c].slot = FALSE]
      <3> DEFINE new == [call[c] EXCEPT !.at = "hub_fail", !.slot = FALSE]
      <3>1. /\ call' = [call EXCEPT ![c] = new]
            /\ new.at = "hub_fail" /\ new.attempt = call[c].attempt
        BY <1>1, <2>1 DEF CallType
      <3> QED
        BY <3>1, EditMoves DEF Moved, After
    <2> QED
      BY <1>9, <2>1, FailMoves DEF Unwind
  <1>10. CASE UpstreamAnswers(c)
    <2>1. call[c].at \notin After
      BY <1>10 DEF UpstreamAnswers, At, After
    <2>2. CASE call' = [call EXCEPT ![c].at = "hub_attach", ![c].slot = FALSE]
      <3> DEFINE new == [call[c] EXCEPT !.at = "hub_attach", !.slot = FALSE]
      <3>1. /\ call' = [call EXCEPT ![c] = new]
            /\ new.at \notin After /\ new.attempt = call[c].attempt
        BY <1>1, <2>2 DEF CallType, After
      <3> QED
        BY <2>1, <3>1, <1>3
    <2> QED
      BY <1>2, <1>10, <2>1, <2>2 DEF UpstreamAnswers, Label
  <1> QED
    BY <1>4, <1>5, <1>6, <1>7, <1>8, <1>9, <1>10 DEF PlainStep

LEMMA PlainCosts ==
  ASSUME IInv, BillInv, NEW c \in Call, PlainStep(c)
  PROVE  NothingCaptured
  <1>1. /\ <<c, call[c].attempt>> \in Key /\ Estimate[c] \in Nat
        /\ call[c].context # NoKey => <<c, call[c].context>> \in Key
        /\ call[c].hub # NoKey => <<c, call[c].hub>> \in Key
    BY CallOK, Keys, PointsAssumption DEF IInv, CallType
  <1>2. CASE UNCHANGED account
    BY <1>2, AccountCosts DEF BillInv
  <1>3. CASE Account!Reserve(<<c, call[c].attempt>>, Estimate[c])
    BY <1>1, <1>3, ReserveCosts DEF BillInv
  <1>4. CASE call[c].context # NoKey /\ ReleaseReservation(<<c, call[c].context>>)
    BY <1>1, <1>4, ReleaseCosts DEF BillInv
  <1>5. CASE call[c].hub # NoKey /\ ReleaseReservation(<<c, call[c].hub>>)
    BY <1>1, <1>5, ReleaseCosts DEF BillInv
  <1> QED
    BY <1>2, <1>3, <1>4, <1>5
    DEF PlainStep, Preflight, Prepare, ReleasePending, Acquire, UpstreamFails, Unwind,
        UpstreamAnswers, HubReserve, HubAttach, HubFail

LEMMA PlainKeeps ==
  ASSUME IInv, IInv', BillInv, NEW c \in Call, PlainStep(c)
  PROVE  BillInv'
  <1>1. TasksOK /\ Numbers
    BY BillNumbers DEF BillInv
  <1>2. FewerBills
    <2>1. CASE usage' = usage
      BY <1>1, <2>1, FewerTasks
    <2>2. CASE LogUsage(c, FALSE)
      BY <1>1, <2>2, FailureReported
    <2> QED
      BY <2>1, <2>2
      DEF PlainStep, Preflight, Prepare, ReleasePending, Acquire, UpstreamFails, Unwind,
          UpstreamAnswers, HubReserve, HubAttach, HubFail, billing
  <1>3. charged' = charged /\ answers' = answers
    BY DEF PlainStep, Preflight, Prepare, ReleasePending, Acquire, UpstreamFails, Unwind,
           UpstreamAnswers, HubReserve, HubAttach, HubFail, billing, history
  <1> QED
    BY <1>2, <1>3, PlainMoves, PlainCosts, QuietKeeps DEF QuietBills

\* The end of an answer, of a stream and of an image.
LEMMA EndKeeps ==
  ASSUME IInv, IInv', BillInv, NEW c \in Call, Body(c) \/ Stream(c) \/ Cancelled(c) \/ HubPoll(c)
  PROVE  BillInv'
  <1>1. /\ TasksOK /\ Numbers /\ NothingCaptured /\ charged' = charged /\ call[c].at \notin After
        /\ call[c] \in CallType
    BY BillNumbers, AccountCosts, CallOK
    DEF BillInv, IInv, Body, Stream, Cancelled, HubPoll, At, After, history
  <1>2. CASE Answered(c) /\ LogUsage(c, TRUE) /\ Finish(c)
    BY <1>1, <1>2, FinishMoves, AnswerKeeps
  <1>3. CASE Answered(c) /\ Goto(c, "hub_settle") /\ usage' = usage
    <2>1. /\ call'[c].at = "hub_settle" /\ call'[c].attempt = call[c].attempt
          /\ \A d \in Call \ {c} : call'[d] = call[d]
      BY <1>1, <1>3 DEF Goto, IInv, Types, Calls, CallType
    <2> QED
      BY <1>1, <1>3, <2>1, AnswerKeeps
  <1>4. CASE answers' = answers
    <2>1. FewerBills
      <3>1. CASE usage' = usage
        BY <1>1, <3>1, FewerTasks
      <3>2. CASE LogUsage(c, FALSE)
        BY <1>1, <3>2, FailureReported
      <3>3. CASE Answered(c) /\ LogUsage(c, TRUE)
        <4>1. call[c].attempt \in answers[c]
          BY <1>4, <3>3 DEF Answered, IInv, Types, Rest
        <4>2. AnsweredOnce(c) /\ call[c].attempt \in Nat
          BY AttemptsAreNat DEF BillInv, IInv, Types, Calls, Good, CallType
        <4> QED
          BY <1>1, <4>1, <4>2 DEF AnsweredOnce
      <3>4. CASE Answered(c) /\ usage' = usage
        BY <1>1, <3>4, FewerTasks
      <3> QED
        BY <3>1, <3>2, <3>3, <3>4 DEF Body, Stream, Cancelled, HubPoll
    <2>2. AllMoved
      <3>1. CASE Finish(c)
        BY <3>1, FinishMoves
      <3>2. CASE \E retry \in BOOLEAN : Fail(c, retry)
        BY <3>2, FailMoves
      <3>3. CASE call' = [call EXCEPT ![c].at = "cancelled", ![c].slot = FALSE]
        <4> DEFINE new == [call[c] EXCEPT !.at = "cancelled", !.slot = FALSE]
        <4>1. /\ call' = [call EXCEPT ![c] = new]
              /\ new.at = "cancelled" /\ new.attempt = call[c].attempt
          BY <1>1, <3>3 DEF CallType, IInv, Types, Calls
        <4> QED
          BY <1>1, <4>1, EditMoves DEF Moved, After
      <3>4. CASE Goto(c, "hub_fail")
        BY <1>1, <3>4, LabelMoves DEF Label
      <3>5. CASE Answered(c) /\ Goto(c, "hub_settle")
        <4>1. call[c].attempt \in answers[c]
          BY <1>4, <3>5 DEF Answered, IInv, Types, Rest
        <4>2. AnsweredOnce(c) /\ call[c].attempt \in Nat
          BY AttemptsAreNat DEF BillInv, IInv, Types, Calls, Good, CallType
        <4> QED
          BY <1>1, <4>1, <4>2 DEF AnsweredOnce
      <3> QED
        BY <3>1, <3>2, <3>3, <3>4, <3>5 DEF Body, Stream, Cancelled, HubPoll
    <2> QED
      BY <1>1, <1>4, <2>1, <2>2, QuietKeeps DEF QuietBills
  <1> QED
    BY <1>2, <1>3, <1>4 DEF Body, Stream, Cancelled, HubPoll

LEMMA HubSettleBills ==
  ASSUME IInv, IInv', BillInv, NEW c \in Call, HubSettle(c)
  PROVE  BillInv'
  BY FinishMoves, CaptureKeeps DEF HubSettle, billing, history

LEMMA ThrowBills ==
  ASSUME IInv, IInv', BillInv, NEW c \in Call, Throw(c)
  PROVE  BillInv'
  <1>1. /\ TasksOK /\ Numbers /\ UNCHANGED <<usage, charged, answers>> /\ call[c] \in CallType
    BY BillNumbers, CallOK DEF BillInv, IInv, Throw, billing
  <1>2. FewerBills
    BY <1>1, FewerTasks
  <1>3. AllMoved
    <2>1. CASE At(c, "preflight") /\ Goto(c, "release")
      BY <2>1, LabelMoves DEF At, After, Label
    <2>2. CASE \E label \in {"hub_attach", "hub_settle"} : At(c, label) /\ Goto(c, "hub_fail")
      BY <2>2, LabelMoves DEF At, After, Label
    <2> QED
      BY <2>1, <2>2, DropMoves, FailMoves DEF Throw
  <1>4. CASE UNCHANGED account
    BY <1>1, <1>2, <1>3, <1>4, AccountCosts, QuietKeeps DEF QuietBills, BillInv
  <1>5. CASE /\ At(c, "hub_settle") /\ Goto(c, "hub_fail")
             /\ Account!Settle(<<c, call[c].hub>>, Account!Captured, Cost[c])
    <2>1. call'[c].at = "hub_fail" /\ \A d \in Call \ {c} : call'[d] = call[d]
      BY <1>1, <1>5 DEF Goto, IInv, Types, Calls, CallType
    <2> QED
      BY <1>1, <1>3, <1>5, <2>1, CaptureKeeps
  <1> QED
    BY <1>4, <1>5 DEF Throw

\* The queue's steps.
LEMMA TaskIs ==
  ASSUME IInv, NEW t \in usage
  PROVE  /\ t \in Task /\ t.call \in Call
         /\ t.stage # "charge" => t.held \in Attempt /\ <<t.call, t.held>> \in Key
  BY Keys DEF IInv, Types, OfTask, Task

\* A step of the queue that pays nothing.
LEMMA QueueKeeps ==
  ASSUME IInv, IInv', BillInv, FewerBills, NothingCaptured,
         UNCHANGED <<call, charged, answers>>
  PROVE  BillInv'
  BY StayMoves, QuietKeeps DEF QuietBills

LEMMA TaskAttachBills ==
  ASSUME IInv, IInv', BillInv, NEW t \in usage, TaskAttach(t)
  PROVE  BillInv'
  <1> DEFINE new == [t EXCEPT !.stage = "settle"]
  <1>1. TasksOK /\ Numbers /\ t \in Task /\ NothingCaptured /\ UNCHANGED <<call, charged, answers>>
    BY BillNumbers, TaskIs, AccountCosts DEF BillInv, TaskAttach
  <1>2. new.stage = "settle" /\ new.call = t.call /\ new.success = t.success
    BY <1>1 DEF Task
  <1>3. usage' \subseteq usage \/ usage' = (usage \ {t}) \cup {new}
    BY DEF TaskAttach, Without
  <1> HIDE DEF new
  <1>4. CASE usage' \subseteq usage
    BY <1>1, <1>4, FewerTasks, QueueKeeps
  <1>5. CASE usage' = (usage \ {t}) \cup {new}
    <2>1. TasksOK'
      <3>1. IsFiniteSet(usage \ {t})
        BY <1>1, FS_Subset DEF TasksOK
      <3>2. IsFiniteSet(usage')
        BY <1>5, <3>1, FS_AddElement
      <3> QED
        BY <1>1, <1>2, <1>5, <3>2 DEF TasksOK
    <2>2. ASSUME NEW d \in Call
          PROVE  Cardinality(Bills(d)') <= Cardinality(Bills(d))
      <3>1. IsFiniteSet(Bills(d)) /\ Cardinality(Bills(d)) \in Nat
        BY <1>1 DEF Numbers
      <3>2. CASE t \in Bills(d)
        <4>1. Bills(d)' = (Bills(d) \ {t}) \cup {new}
          BY <1>2, <1>5, <3>2 DEF Bills
        <4>2. /\ IsFiniteSet(Bills(d) \ {t})
              /\ Cardinality(Bills(d) \ {t}) = Cardinality(Bills(d)) - 1
          BY <3>1, <3>2, FS_RemoveElement
        <4>3. Cardinality(Bills(d)') = IF new \in Bills(d) \ {t} THEN Cardinality(Bills(d) \ {t})
                                       ELSE Cardinality(Bills(d) \ {t}) + 1
          BY <4>1, <4>2, FS_AddElement
        <4> QED
          BY <3>1, <4>2, <4>3
      <3>3. CASE t \notin Bills(d)
        <4>1. Bills(d)' \subseteq Bills(d)
          BY <1>2, <1>5, <3>3 DEF Bills
        <4> QED
          BY <3>1, <4>1, FS_Subset
      <3> QED
        BY <3>2, <3>3
    <2> QED
      BY <1>1, <2>1, <2>2, QueueKeeps DEF FewerBills
  <1> QED
    BY <1>3, <1>4, <1>5

LEMMA TaskSettleBills ==
  ASSUME IInv, IInv', BillInv, NEW t \in usage, TaskSettle(t)
  PROVE  BillInv'
  <1> DEFINE k == <<t.call, t.held>>
  <1>1. /\ TasksOK /\ Numbers /\ Without(t) /\ UNCHANGED <<call, charged, answers>>
        /\ t.call \in Call /\ t.held \in Attempt /\ k \in Key /\ Cost[t.call] \in Nat
    BY BillNumbers, TaskIs, PointsAssumption DEF BillInv, TaskSettle, history
  <1>2. CASE UNCHANGED account \/ Account!Settle(k, Account!Released, 0)
    <2>1. NothingCaptured
      BY <1>1, <1>2, AccountCosts, ReleasedCosts DEF BillInv
    <2>2. usage' \subseteq usage
      BY <1>1 DEF Without
    <2> QED
      BY <1>1, <2>1, <2>2, FewerTasks, QueueKeeps
  <1>3. CASE t.success /\ Account!Settle(k, Account!Captured, Cost[t.call])
    <2>1. CostIs(k, Cost[t.call])
      BY <1>1, <1>3, SettleCosts DEF BillInv, Account!Terminal
    <2>2. TasksOK' /\ Blank' /\ Numbers'
      BY <1>1, <2>1, FS_RemoveElement, BillNumbersNext DEF TasksOK, Without, CostIs
    <2>3. Captured(t.call)' = Captured(t.call) + Cost[t.call]
      <3>1. PICK c \in Call, i \in Attempt, n \in Nat : c = t.call /\ i = t.held /\ n = Cost[t.call]
        BY <1>1
      <3>2. CostIs(<<c, i>>, n)
        BY <2>1, <3>1
      <3>3. Captured(c)' = Captured(c) + n
        BY <1>1, <2>2, <3>2, CostCaptured
      <3>4. c = t'.call
        BY <3>1
      <3> QED
        BY <3>1, <3>3, <3>4
    <2>4. \A d \in Call \ {t.call} : \A i \in Attempt : resv'[<<d, i>>] = resv[<<d, i>>]
      BY <1>1, <2>1, Keys DEF CostIs
    <2>5. charged'[t.call] + Captured(t.call)' <= charged[t.call] + Captured(t.call) + Cost[t.call]
      BY <1>1, <2>3 DEF Numbers
    <2> QED
      BY <1>1, <1>3, <2>2, <2>4, <2>5, TaskPays
  <1> QED
    BY <1>2, <1>3 DEF TaskSettle

LEMMA TaskChargeBills ==
  ASSUME IInv, IInv', BillInv, NEW t \in usage, TaskCharge(t)
  PROVE  BillInv'
  <1>1. /\ TasksOK /\ Numbers /\ Without(t) /\ UNCHANGED <<call, answers>>
        /\ t.call \in Call /\ t.success
    BY BillNumbers, TaskIs DEF BillInv, TaskCharge, TasksOK, history
  <1>2. CASE UNCHANGED <<account, charged>>
    <2>1. NothingCaptured
      BY <1>2, AccountCosts DEF BillInv
    <2>2. usage' \subseteq usage
      BY <1>1 DEF Without
    <2> QED
      BY <1>1, <1>2, <2>1, <2>2, FewerTasks, QueueKeeps
  <1>3. CASE /\ Account!Consume(Owner[t.call], Cost[t.call])
             /\ charged' = [charged EXCEPT ![t.call] = @ + Cost[t.call]]
    <2>1. resv' = resv /\ Blank'
      BY <1>3, ConsumeCosts DEF BillInv, NothingCaptured, Account!Consume
    <2>2. charged \in [Call -> Nat]
      BY DEF IInv, Types, Rest
    <2>3. /\ charged'[t.call] = charged[t.call] + Cost[t.call]
          /\ \A d \in Call \ {t.call} : charged'[d] = charged[d]
      BY <1>1, <1>3, <2>2
    <2>4. PICK c \in Call : c = t.call
      BY <1>1
    <2>5. Captured(c)' = Captured(c)
      BY <1>1, <2>1, SameCaptured
    <2>6. charged'[c] + Captured(c)' <= charged[c] + Captured(c) + Cost[c]
      BY <1>1, <2>3, <2>4, <2>5 DEF Numbers
    <2>7. c = t'.call
      BY <2>4
    <2> QED
      BY <1>1, <2>1, <2>3, <2>4, <2>6, <2>7, TaskPays
  <1> QED
    BY <1>2, <1>3 DEF TaskCharge

LEMMA LoseTaskBills ==
  ASSUME IInv, IInv', BillInv, NEW t \in usage, LoseTask(t)
  PROVE  BillInv'
  <1>1. TasksOK /\ Numbers /\ NothingCaptured /\ UNCHANGED <<call, charged, answers>>
    BY BillNumbers, AccountCosts DEF BillInv, LoseTask
  <1>2. usage' \subseteq usage
    BY DEF LoseTask, Without
  <1> QED
    BY <1>1, <1>2, FewerTasks, QueueKeeps

\* Steps that touch neither a call nor the accounts nor the queue.
LEMMA IdleBills ==
  ASSUME IInv, IInv', BillInv, UNCHANGED <<call, account, billing, answers>>
  PROVE  BillInv'
  <1>1. TasksOK /\ Numbers /\ NothingCaptured /\ UNCHANGED <<usage, charged>>
    BY BillNumbers, AccountCosts DEF BillInv, billing
  <1> QED
    BY <1>1, FewerTasks, QueueKeeps

LEMMA CrashBills ==
  ASSUME IInv, IInv', BillInv, Crash
  PROVE  BillInv'
  <1>1. /\ TasksOK /\ Numbers /\ NothingCaptured /\ UNCHANGED <<charged, answers>>
        /\ usage' \subseteq usage
    BY BillNumbers, AccountCosts DEF BillInv, Crash
  <1>2. ASSUME NEW c \in Call PROVE Moved(call[c], call'[c])
    <2>1. call[c] \in CallType
      BY CallOK DEF IInv
    <2> DEFINE new == [call[c] EXCEPT !.at = "failed", !.slot = FALSE, !.hub = NoKey]
    <2>2. new.at = "failed" /\ new.attempt = call[c].attempt
      BY <2>1 DEF CallType
    <2>3. call'[c] = IF Begun(c) THEN new ELSE call[c]
      BY DEF Crash
    <2> QED
      BY <2>2, <2>3 DEF Moved, After
  <1> QED
    BY <1>1, <1>2, FewerTasks, QuietKeeps DEF QuietBills, AllMoved

LEMMA InitBills == Init => BillInv
  <1> SUFFICES ASSUME Init
               PROVE  BillInv
    OBVIOUS
  <1>1. \A k \in Key : resv[k].settled = 0
    BY DEF Init, Account!NoReservation
  <1>2. TasksOK
    BY FS_EmptySet DEF Init, TasksOK
  <1>3. Numbers
    BY <1>2, InitIInv, BillNumbers
  <1>4. ASSUME NEW c \in Call PROVE AnsweredOnce(c) /\ BillOK(c)
    <2>1. answers[c] = {} /\ charged[c] = 0 /\ Bills(c) = {} /\ DueAt(c) = 0
      BY DEF Init, Bills, DueAt
    <2>2. \A i \in Attempt : SettledOf(c)[i] = 0
      BY <1>1, Keys DEF SettledOf
    <2>3. Captured(c) = 0
      BY <2>2, AttemptsFinite, SumZero DEF Captured
    <2>4. Cardinality(Bills(c)) = 0 /\ Cardinality(answers[c]) = 0
      BY <2>1, FS_EmptySet
    <2>5. BillOK(c)
      BY <1>3, <2>1, <2>3, <2>4 DEF BillOK, Numbers
    <2> QED
      BY <2>1, <2>5 DEF AnsweredOnce
  <1> QED
    BY <1>1, <1>2, <1>4 DEF BillInv, Blank

LEMMA StepBills == IInv /\ IInv' /\ BillInv /\ [Next]_vars => BillInv'
  <1> SUFFICES ASSUME IInv, IInv', BillInv, [Next]_vars
               PROVE  BillInv'
    OBVIOUS
  <1>1. ASSUME NEW c \in Call, Step(c) \/ Throw(c)
        PROVE  BillInv'
    BY <1>1, PlainKeeps, EndKeeps, HubSettleBills, ThrowBills DEF Step, PlainStep
  <1>2. ASSUME NEW t \in usage, Work(t) \/ LoseTask(t)
        PROVE  BillInv'
    BY <1>2, TaskAttachBills, TaskSettleBills, TaskChargeBills, LoseTaskBills DEF Work
  <1>3. ASSUME NEW s \in Source, Cool(s) \/ RedisForgets(s)
        PROVE  BillInv'
    BY <1>3, IdleBills DEF Cool, RedisForgets, history
  <1>4. CASE Crash
    BY <1>4, CrashBills
  <1>5. CASE UNCHANGED vars
    BY <1>5, IdleBills DEF vars, history
  <1> QED
    BY <1>1, <1>2, <1>3, <1>4, <1>5 DEF Next

\* A call pays for its provider's answers, each once: over any number of
\* routes tried, whatever is reported, captured or lost on the way, what was
\* charged and captured for it is at most its cost for every answer.
THEOREM AnswersPaidOnce == Spec => []PaidIsAnswered
  <1>1. IInv /\ BillInv => PaidIsAnswered
    <2> SUFFICES ASSUME IInv, BillInv, NEW c \in Call
                 PROVE  charged[c] + Captured(c) <= Cost[c] * Cardinality(answers[c])
      BY DEF PaidIsAnswered, Captured, SettledOf
    <2>1. Numbers /\ BillOK(c)
      BY BillNumbers DEF BillInv
    <2> DEFINE due == Cardinality(Bills(c)) + DueAt(c)
    <2>2. /\ due \in Nat /\ Cost[c] \in Nat /\ charged[c] \in Nat /\ Captured(c) \in Nat
          /\ Cardinality(answers[c]) \in Nat
      BY <2>1 DEF Numbers
    <2>3. charged[c] + Captured(c) + Cost[c] * due <= Cost[c] * Cardinality(answers[c])
      BY <2>1 DEF BillOK
    <2> HIDE DEF due
    <2>4. Cost[c] * due \in Nat /\ Cost[c] * Cardinality(answers[c]) \in Nat
      BY <2>2
    <2> QED
      BY <2>2, <2>3, <2>4
  <1> QED
    BY <1>1, InvariantHolds, InitBills, StepBills, PTL DEF Spec

-----------------------------------------------------------------------------
(* What the gateway asks of the points service.  The service is taken at   *)
(* its promise, and a step that the promise does not offer is one that the *)
(* model never takes: so it has to be seen that none is ever missing.      *)

\* The route's reservation is still to be asked for.
Before(c, label) ==
    label \in {"preflight", "hub_reserve"} \/ (c \in image /\ label = "prepare")

\* The image's own reservation is to be captured.
Settling(r) == r.hub # NoKey /\ r.at # "hub_fail"

AskedOnce(c) == \A i \in Attempt :
    i > call[c].attempt \/ (i = call[c].attempt /\ Before(c, call[c].at))
      => resv[<<c, i>>].status = Account!Unmade

HubPending(c) == Settling(call[c]) => resv[<<c, call[c].hub>>].status = Account!Pending

WalletsOpen == \A u \in User : wallet[u].open

\* Nothing of the queue has an image's reservation.
OfImages == \A t \in usage : t.held # NoKey => t.call \notin image

AskInv == WalletsOpen /\ OfImages /\ \A c \in Call : AskedOnce(c) /\ HubPending(c)

NoneMade == \A k \in Key : resv[k].status = Account!Unmade => resv'[k].status = Account!Unmade

Onward(c, r, new) ==
    /\ \/ new.attempt > r.attempt
       \/ new.attempt = r.attempt /\ (Before(c, new.at) => Before(c, r.at))
    /\ Settling(new) => Settling(r) /\ new.hub = r.hub

AllOnward == \A d \in Call : Onward(d, call[d], call'[d])

Spared(d) ==
    Settling(call'[d]) => resv'[<<d, call'[d].hub>>] = resv[<<d, call'[d].hub>>]

LEMMA AskStays ==
  ASSUME IInv, IInv', AskInv, image' = image, AllOnward, NoneMade, WalletsOpen', OfImages',
         \A d \in Call : Spared(d)
  PROVE  AskInv'
  <1>1. ASSUME NEW c \in Call PROVE AskedOnce(c)' /\ HubPending(c)'
    <2> DEFINE r == call[c]
               new == call'[c]
    <2>1. r \in CallType /\ new \in CallType
      BY DEF IInv, Types, Calls, Good
    <2>2. r.attempt \in Nat /\ new.attempt \in Nat /\ Attempt \subseteq Nat
      BY <2>1, AttemptsAreNat DEF CallType
    <2>3. AskedOnce(c) /\ HubPending(c) /\ Onward(c, r, new) /\ Spared(c)
      BY DEF AskInv, AllOnward
    <2>4. ASSUME NEW i \in Attempt, i > new.attempt \/ (i = new.attempt /\ Before(c, new.at))
          PROVE  resv'[<<c, i>>].status = Account!Unmade
      <3>1. i > r.attempt \/ (i = r.attempt /\ Before(c, r.at))
        BY <2>2, <2>3, <2>4 DEF Onward
      <3>2. resv[<<c, i>>].status = Account!Unmade /\ <<c, i>> \in Key
        BY <2>3, <3>1, Keys DEF AskedOnce
      <3> QED BY <3>2 DEF NoneMade
    <2>5. AskedOnce(c)'
      <3>1. \A label : Before(c, label)' <=> Before(c, label)
        BY DEF Before
      <3> QED BY <2>4 DEF AskedOnce, Before, Account!Unmade
    <2>6. HubPending(c)'
      BY <2>3 DEF HubPending, Onward, Spared, Settling, Account!Pending
    <2> QED BY <2>5, <2>6
  <1> QED BY <1>1 DEF AskInv

-----------------------------------------------------------------------------
(* What is done to the account                                             *)

LEMMA SameWallets == WalletsOpen /\ UNCHANGED account => NoneMade /\ WalletsOpen'
  BY DEF WalletsOpen, NoneMade, account

LEMMA OpenStays ==
  ASSUME AccountOK, WalletsOpen, NEW u \in User, NEW w, w.open,
         wallet' = [wallet EXCEPT ![u] = w]
  PROVE  WalletsOpen'
  BY DEF WalletsOpen, AccountOK, Account!TypeOK

LEMMA ReserveOpen ==
  ASSUME AccountOK, WalletsOpen, NEW k \in Key, NEW n \in Nat, Account!Reserve(k, n)
  PROVE  WalletsOpen'
  <1> DEFINE w == Account!Frozen(wallet[KeyOwner[k]], n)
  <1>1. KeyOwner[k] \in User /\ wallet[KeyOwner[k]] \in Account!Wallet
    BY Keys DEF AccountOK, Account!TypeOK
  <1>2. w.open
    BY <1>1 DEF Account!Frozen, Account!Wallet, WalletsOpen
  <1>3. wallet' = [wallet EXCEPT ![KeyOwner[k]] = w]
    BY <1>1 DEF Account!Reserve, AccountOK, Account!TypeOK
  <1> HIDE DEF w
  <1> QED BY <1>1, <1>2, <1>3, OpenStays

LEMMA ConsumeOpen ==
  ASSUME AccountOK, WalletsOpen, NEW u \in User, NEW n \in Nat, Account!Consume(u, n)
  PROVE  NoneMade /\ WalletsOpen' /\ resv' = resv
  <1> DEFINE w == Account!Consumed(wallet[u], n)
  <1>1. wallet[u] \in Account!Wallet
    BY DEF AccountOK, Account!TypeOK
  <1>2. w.open
    BY <1>1 DEF Account!Consumed, Account!Wallet, WalletsOpen
  <1>3. wallet' = [wallet EXCEPT ![u] = w] /\ resv' = resv
    BY <1>1 DEF Account!Consume, AccountOK, Account!TypeOK
  <1> HIDE DEF w
  <1> QED BY <1>2, <1>3, OpenStays DEF NoneMade

LEMMA SettleOpen ==
  ASSUME AccountOK, WalletsOpen, NEW k \in Key, NEW o \in Account!Terminal, NEW n \in Nat,
         Account!Settle(k, o, n)
  PROVE  NoneMade /\ WalletsOpen' /\ \A x \in Key \ {k} : resv'[x] = resv[x]
  <1> DEFINE w == Account!Settled(wallet[KeyOwner[k]], resv[k].reserved, n)
  <1>1. KeyOwner[k] \in User /\ wallet[KeyOwner[k]] \in Account!Wallet
    BY Keys DEF AccountOK, Account!TypeOK
  <1>2. w.open
    BY <1>1 DEF Account!Settled, Account!Wallet, WalletsOpen
  <1>3. wallet' = [wallet EXCEPT ![KeyOwner[k]] = w]
    BY <1>1 DEF Account!Settle, AccountOK, Account!TypeOK
  <1> HIDE DEF w
  <1>4. WalletsOpen'
    BY <1>1, <1>2, <1>3, OpenStays
  <1>5. resv[k].status = Account!Pending /\ StatusIs(k, o)
    BY SettleOK
  <1> QED BY <1>4, <1>5, Statuses DEF NoneMade, StatusIs

LEMMA ReleaseOpen ==
  ASSUME AccountOK, WalletsOpen, NEW k \in Key, ReleaseReservation(k)
  PROVE  NoneMade /\ WalletsOpen' /\ \A x \in Key \ {k} : resv'[x] = resv[x]
  <1>1. CASE Account!Settle(k, Account!Released, 0)
    <2>1. Account!Released \in Account!Terminal
      BY DEF Account!Terminal
    <2> QED BY <1>1, <2>1, SettleOpen
  <1>2. CASE UNCHANGED account
    BY <1>2, SameWallets DEF account
  <1> QED BY <1>1, <1>2 DEF ReleaseReservation

-----------------------------------------------------------------------------
(* Where a call goes that reserves nothing                                 *)

LEMMA EditOnward ==
  ASSUME IInv, NEW c \in Call, NEW new, call' = [call EXCEPT ![c] = new], Onward(c, call[c], new)
  PROVE  AllOnward /\ call'[c] = new /\ \A d \in Call \ {c} : call'[d] = call[d]
  <1>1. call'[c] = new /\ \A d \in Call \ {c} : call'[d] = call[d]
    BY DEF IInv, Types, Calls
  <1>2. \A d \in Call : Onward(d, call[d], call[d])
    BY DEF Onward
  <1> QED BY <1>1, <1>2 DEF AllOnward

LEMMA SameOnward == UNCHANGED call => AllOnward
  BY DEF AllOnward, Onward

\* The next label of the same attempt, with the same image's reservation.
LEMMA LabelOnward ==
  ASSUME IInv, NEW c \in Call, NEW label, Goto(c, label),
         Before(c, label) => Before(c, call[c].at), call[c].at # "hub_fail"
  PROVE  AllOnward
  <1> DEFINE new == [call[c] EXCEPT !.at = label]
  <1>1. call[c] \in CallType
    BY CallOK DEF IInv
  <1>2. new.at = label /\ new.attempt = call[c].attempt /\ new.hub = call[c].hub
    BY <1>1 DEF CallType
  <1>3. call' = [call EXCEPT ![c] = new]
    BY DEF Goto, IInv, Types, Calls
  <1> HIDE DEF new
  <1>4. Onward(c, call[c], new)
    BY <1>2 DEF Onward, Settling
  <1> QED BY <1>3, <1>4, EditOnward

LEMMA FieldOnward ==
  ASSUME IInv, NEW c \in Call, NEW new, call' = [call EXCEPT ![c] = new],
         new.attempt = call[c].attempt, ~Before(c, new.at),
         new.hub = NoKey \/ (new.hub = call[c].hub /\ call[c].at # "hub_fail")
  PROVE  AllOnward
  <1>1. Onward(c, call[c], new)
    BY DEF Onward, Settling
  <1> QED BY <1>1, EditOnward

LEMMA NextRouteOnward ==
  ASSUME IInv, NEW c \in Call, NEW r \in CallType, r.attempt = call[c].attempt,
         NEW retry \in BOOLEAN, call' = [call EXCEPT ![c] = NextRoute(r, retry)]
  PROVE  AllOnward /\ ~Settling(call'[c]) /\ \A d \in Call \ {c} : call'[d] = call[d]
  <1> DEFINE new == NextRoute(r, retry)
  <1>1. r.attempt \in Nat
    BY AttemptsAreNat DEF CallType
  <1>2. new.hub = NoKey
        /\ (new.attempt = r.attempt + 1 \/ (new.attempt = r.attempt /\ new.at = "failed"))
    BY DEF NextRoute, CallType
  <1> HIDE DEF new
  <1>3. new.attempt > r.attempt \/ (new.attempt = r.attempt /\ ~Before(c, new.at))
    BY <1>1, <1>2 DEF Before
  <1>4. Onward(c, call[c], new) /\ ~Settling(new)
    BY <1>2, <1>3 DEF Onward, Settling
  <1>5. call' = [call EXCEPT ![c] = new]
    BY DEF new
  <1> QED BY <1>4, <1>5, EditOnward

LEMMA FailOnward ==
  ASSUME IInv, NEW c \in Call, NEW retry \in BOOLEAN, Fail(c, retry)
  PROVE  AllOnward /\ ~Settling(call'[c]) /\ \A d \in Call \ {c} : call'[d] = call[d]
  <1>1. call[c] \in CallType
    BY CallOK DEF IInv
  <1>2. call' = [call EXCEPT ![c] = NextRoute(call[c], retry)]
    BY DEF Fail, IInv, Types, Calls
  <1> QED BY <1>1, <1>2, NextRouteOnward

LEMMA DropOnward ==
  ASSUME IInv, NEW c \in Call, NEW retry \in BOOLEAN,
         call' = [call EXCEPT ![c] = NextRoute([@ EXCEPT !.context = NoKey], retry)]
  PROVE  AllOnward /\ ~Settling(call'[c]) /\ \A d \in Call \ {c} : call'[d] = call[d]
  <1> DEFINE r == [call[c] EXCEPT !.context = NoKey]
  <1>1. r \in CallType /\ r.attempt = call[c].attempt
    BY CallOK DEF IInv, CallType
  <1>2. call' = [call EXCEPT ![c] = NextRoute(r, retry)]
    BY DEF IInv, Types, Calls
  <1> HIDE DEF r
  <1> QED BY <1>1, <1>2, NextRouteOnward

LEMMA FinishOnward ==
  ASSUME IInv, NEW c \in Call, Finish(c)
  PROVE  AllOnward /\ ~Settling(call'[c]) /\ \A d \in Call \ {c} : call'[d] = call[d]
  <1> DEFINE new == [call[c] EXCEPT !.at = "done", !.slot = FALSE, !.context = NoKey, !.hub = NoKey]
  <1>1. new.at = "done" /\ new.attempt = call[c].attempt /\ new.hub = NoKey
    BY CallOK DEF IInv, CallType
  <1>2. call' = [call EXCEPT ![c] = new]
    BY DEF Finish, IInv, Types, Calls
  <1> HIDE DEF new
  <1>3. Onward(c, call[c], new) /\ ~Settling(new)
    BY <1>1 DEF Onward, Before, Settling
  <1> QED BY <1>2, <1>3, EditOnward

-----------------------------------------------------------------------------
(* The steps                                                               *)

\* A step that leaves the account as it is.
LEMMA IdleAsks ==
  ASSUME IInv, IInv', AskInv, image' = image, UNCHANGED account, AllOnward, OfImages'
  PROVE  AskInv'
  <1>1. NoneMade /\ WalletsOpen' /\ resv' = resv
    BY SameWallets DEF AskInv, account
  <1> QED BY <1>1, AskStays DEF Spared

\* A step that settles a reservation of a call whose image has none to settle
\* any more.
LEMMA CloseAsks ==
  ASSUME IInv, IInv', AskInv, image' = image, AllOnward, NoneMade, WalletsOpen', OfImages',
         NEW k \in Key, \A x \in Key \ {k} : resv'[x] = resv[x], ~Settling(call'[k[1]])
  PROVE  AskInv'
  <1>1. ASSUME NEW d \in Call, Settling(call'[d]) PROVE Spared(d)
    <2>1. call'[d] \in CallType /\ call'[d].hub # NoKey
      BY <1>1 DEF IInv, Types, Calls, Good, Settling
    <2>2. <<d, call'[d].hub>> \in Key /\ <<d, call'[d].hub>>[1] = d /\ d # k[1]
      BY <1>1, <2>1, Keys DEF CallType
    <2>3. <<d, call'[d].hub>> \in Key \ {k}
      BY <2>2
    <2> QED BY <2>3 DEF Spared
  <1>2. \A d \in Call : Spared(d)
    BY <1>1 DEF Spared
  <1> QED BY <1>2, AskStays

LEMMA TasksOf ==
  ASSUME OfImages, image' = image, usage' \subseteq usage
  PROVE  OfImages'
  BY DEF OfImages

LEMMA ReportOf ==
  ASSUME IInv, OfImages, image' = image, NEW c \in Call, NEW success, LogUsage(c, success)
  PROVE  OfImages'
  <1>1. c \in image => call[c].context = NoKey
    BY CallOK DEF IInv, Good
  <1>2. PICK ref : usage' = usage \cup Report(c, success, ref)
    BY DEF LogUsage
  <1>3. \A t \in Report(c, success, ref) : t.call = c /\ t.held = call[c].context
    BY DEF Report
  <1> QED BY <1>1, <1>2, <1>3 DEF OfImages

\* The attempt's reservation is made: nobody has asked for it before.
LEMMA ReserveAsks ==
  ASSUME IInv, IInv', AskInv, image' = image, OfImages', NEW c \in Call, Before(c, call[c].at),
         Account!Reserve(<<c, call[c].attempt>>, Estimate[c]),
         NEW new, call' = [call EXCEPT ![c] = new], new.attempt = call[c].attempt,
         ~Before(c, new.at), Settling(new) => new.hub = new.attempt
  PROVE  AskInv'
  <1> DEFINE k == <<c, call[c].attempt>>
  <1>1. /\ call[c].attempt \in Attempt /\ k \in Key /\ k[1] = c /\ Estimate[c] \in Nat
        /\ AccountOK /\ WalletsOpen
    BY CallOK, Keys, PointsAssumption DEF IInv, Types, CallType, AskInv
  <1>2. WalletsOpen' /\ StatusIs(k, Account!Pending)
    BY <1>1, ReserveOpen, ReserveOK
  <1>3. call'[c] = new /\ \A d \in Call \ {c} : call'[d] = call[d]
    BY DEF IInv, Types, Calls
  <1>4. ASSUME NEW d \in Call PROVE AskedOnce(d)' /\ HubPending(d)'
    <2>1. AskedOnce(d) /\ HubPending(d)
      BY DEF AskInv
    <2>2. CASE d = c
      <3>1. \A i \in Attempt : i > call[c].attempt => <<c, i>> \in Key \ {k}
        BY <1>1, Keys, AttemptsAreNat
      <3>2. ASSUME NEW i \in Attempt, i > new.attempt \/ (i = new.attempt /\ Before(c, new.at))
            PROVE  resv'[<<c, i>>].status = Account!Unmade
        <4>1. i > call[c].attempt /\ resv[<<c, i>>].status = Account!Unmade
          BY <2>1, <2>2, <3>2 DEF AskedOnce
        <4> QED BY <1>2, <3>1, <4>1 DEF StatusIs
      <3>3. AskedOnce(c)'
        BY <1>3, <3>2 DEF AskedOnce, Before, Account!Unmade
      <3>4. HubPending(c)'
        BY <1>2, <1>3 DEF HubPending, Settling, StatusIs, Account!Pending
      <3> QED BY <2>2, <3>3, <3>4
    <2>3. CASE d # c
      <3>1. call'[d] = call[d] /\ \A i : <<d, i>> # k
        BY <1>3, <2>3
      <3>2. call[d].hub # NoKey => <<d, call[d].hub>> \in Key
        BY CallOK, Keys DEF IInv, CallType
      <3>3. \A i \in Attempt : <<d, i>> \in Key /\ resv'[<<d, i>>] = resv[<<d, i>>]
        BY <1>2, <3>1, Keys DEF StatusIs
      <3>4. AskedOnce(d)'
        BY <2>1, <3>1, <3>3 DEF AskedOnce, Before, Account!Unmade
      <3>5. HubPending(d)'
        BY <1>2, <2>1, <3>1, <3>2 DEF HubPending, Settling, StatusIs, Account!Pending
      <3> QED BY <3>4, <3>5
    <2> QED BY <2>2, <2>3
  <1> QED BY <1>2, <1>4 DEF AskInv

LEMMA PreflightAsks ==
  ASSUME IInv, IInv', AskInv, NEW c \in Call, Preflight(c)
  PROVE  AskInv'
  <1>1. image' = image /\ usage' = usage /\ At(c, "preflight") /\ call[c] \in CallType /\ Good(c, call[c])
    BY CallOK DEF Preflight, requests, billing, IInv
  <1>2. OfImages'
    BY <1>1, TasksOf DEF AskInv
  <1>3. CASE UNCHANGED account
    <2>1. AllOnward
      <3>1. CASE Goto(c, "prepare")
        BY <1>1, <3>1, LabelOnward DEF Before, At
      <3>2. CASE Fail(c, FALSE)
        BY <3>2, FailOnward
      <3>3. CASE c \notin image /\ call' = [call EXCEPT ![c].at = "prepare",
                                                        ![c].context = call[c].attempt]
        <4> DEFINE new == [call[c] EXCEPT !.at = "prepare", !.context = call[c].attempt]
        <4>1. new.at = "prepare" /\ new.attempt = call[c].attempt /\ new.hub = call[c].hub
          BY <1>1 DEF CallType
        <4>2. call' = [call EXCEPT ![c] = new]
          BY <3>3 DEF IInv, Types, Calls
        <4> HIDE DEF new
        <4> QED BY <1>1, <3>3, <4>1, <4>2, FieldOnward DEF Before, At
      <3> QED BY <3>1, <3>2, <3>3 DEF Preflight
    <2> QED BY <1>1, <1>2, <1>3, <2>1, IdleAsks
  <1>4. CASE /\ c \notin image
             /\ Account!Reserve(<<c, call[c].attempt>>, Estimate[c])
             /\ call' = [call EXCEPT ![c].at = "prepare", ![c].context = call[c].attempt]
    <2> DEFINE new == [call[c] EXCEPT !.at = "prepare", !.context = call[c].attempt]
    <2>1. new.at = "prepare" /\ new.attempt = call[c].attempt /\ new.hub = call[c].hub
      BY <1>1 DEF CallType
    <2>2. call' = [call EXCEPT ![c] = new]
      BY <1>4 DEF IInv, Types, Calls
    <2> HIDE DEF new
    <2>3. ~Settling(new) /\ ~Before(c, new.at) /\ Before(c, call[c].at)
      BY <1>1, <1>4, <2>1 DEF Good, OnHub, Settling, Before, At
    <2> QED BY <1>1, <1>2, <1>4, <2>1, <2>2, <2>3, ReserveAsks
  <1> QED BY <1>3, <1>4 DEF Preflight

LEMMA HubReserveAsks ==
  ASSUME IInv, IInv', AskInv, NEW c \in Call, HubReserve(c)
  PROVE  AskInv'
  <1>1. image' = image /\ usage' = usage /\ At(c, "hub_reserve") /\ call[c] \in CallType
    BY CallOK DEF HubReserve, requests, billing, IInv
  <1>2. OfImages'
    BY <1>1, TasksOf DEF AskInv
  <1>3. CASE UNCHANGED account /\ (Goto(c, "acquire") \/ Fail(c, FALSE))
    <2>1. AllOnward
      BY <1>1, <1>3, LabelOnward, FailOnward DEF Before, At
    <2> QED BY <1>1, <1>2, <1>3, <2>1, IdleAsks
  <1>4. CASE /\ Account!Reserve(<<c, call[c].attempt>>, Estimate[c])
             /\ call' = [call EXCEPT ![c].at = "acquire", ![c].hub = call[c].attempt]
    <2> DEFINE new == [call[c] EXCEPT !.at = "acquire", !.hub = call[c].attempt]
    <2>1. new.at = "acquire" /\ new.attempt = call[c].attempt /\ new.hub = call[c].attempt
      BY <1>1 DEF CallType
    <2>2. call' = [call EXCEPT ![c] = new]
      BY <1>4 DEF IInv, Types, Calls
    <2> HIDE DEF new
    <2>3. ~Before(c, new.at) /\ Before(c, call[c].at)
      BY <1>1, <2>1 DEF Before, At
    <2> QED BY <1>1, <1>2, <1>4, <2>1, <2>2, <2>3, ReserveAsks
  <1> QED BY <1>3, <1>4 DEF HubReserve

\* The steps of a call that leave the account as it is.
IdleStep(c) ==
    \/ Prepare(c) \/ Acquire(c) \/ UpstreamFails(c) \/ Unwind(c) \/ UpstreamAnswers(c)
    \/ Body(c) \/ Stream(c) \/ Cancelled(c) \/ HubAttach(c) \/ HubPoll(c)

LEMMA IdleOnward ==
  ASSUME IInv, NEW c \in Call, IdleStep(c)
  PROVE  AllOnward
  <1>1. call[c] \in CallType /\ call[c].at # "hub_fail" /\ call = [d \in Call |-> call[d]]
    <2>1. call[c] \in CallType /\ call = [d \in Call |-> call[d]]
      BY CallOK DEF IInv, Types, Calls
    <2> QED BY <2>1 DEF IdleStep, Prepare, Acquire, UpstreamFails, Unwind, UpstreamAnswers, Body,
               Stream, Cancelled, HubAttach, HubPoll, At
  <1>2. ASSUME NEW new, call' = [call EXCEPT ![c] = new], ~Before(c, new.at),
               new.attempt = call[c].attempt, new.hub = call[c].hub
        PROVE  AllOnward
    BY <1>1, <1>2, FieldOnward
  <1>3. ASSUME NEW label, label \in {"release", "acquire", "unwind", "hub_fail", "body", "stream",
                                     "hub_poll", "hub_settle"}, Goto(c, label)
        PROVE  AllOnward
    BY <1>1, <1>3, LabelOnward DEF Before
  <1>4. CASE \E retry \in BOOLEAN : Fail(c, retry)
    BY <1>4, FailOnward
  <1>5. CASE Finish(c)
    BY <1>5, FinishOnward
  <1>6. CASE Prepare(c)
    <2>1. CASE UsesHub(c) /\ Goto(c, "hub_reserve")
      BY <1>1, <1>6, <2>1, LabelOnward DEF Prepare, UsesHub, Before, At
    <2> QED BY <1>3, <1>6, <2>1 DEF Prepare
  <1>7. CASE call' = [call EXCEPT ![c].at = "upstream", ![c].slot = TRUE]
    <2> DEFINE new == [call[c] EXCEPT !.at = "upstream", !.slot = TRUE]
    <2>1. /\ call' = [call EXCEPT ![c] = new]
          /\ new.at = "upstream" /\ new.attempt = call[c].attempt /\ new.hub = call[c].hub
      BY <1>1, <1>7 DEF CallType
    <2> HIDE DEF new
    <2> QED BY <1>2, <2>1 DEF Before
  <1>8. CASE call' = [call EXCEPT ![c].at = "unwind", ![c].context = NoKey]
    <2> DEFINE new == [call[c] EXCEPT !.at = "unwind", !.context = NoKey]
    <2>1. /\ call' = [call EXCEPT ![c] = new]
          /\ new.at = "unwind" /\ new.attempt = call[c].attempt /\ new.hub = call[c].hub
      BY <1>1, <1>8 DEF CallType
    <2> HIDE DEF new
    <2> QED BY <1>2, <2>1 DEF Before
  <1>9. ASSUME NEW label, label \in {"hub_fail", "hub_attach", "cancelled"},
               call' = [call EXCEPT ![c].at = label, ![c].slot = FALSE]
        PROVE  AllOnward
    <2> DEFINE new == [call[c] EXCEPT !.at = label, !.slot = FALSE]
    <2>1. /\ call' = [call EXCEPT ![c] = new]
          /\ new.at = label /\ new.attempt = call[c].attempt /\ new.hub = call[c].hub
      BY <1>1, <1>9 DEF CallType
    <2> HIDE DEF new
    <2> QED BY <1>2, <1>9, <2>1 DEF Before
  <1>10. CASE Acquire(c) \/ UpstreamFails(c)
    BY <1>3, <1>4, <1>7, <1>8, <1>10 DEF Acquire, UpstreamFails
  <1>11. CASE Unwind(c) \/ UpstreamAnswers(c)
    BY <1>3, <1>4, <1>9, <1>11 DEF Unwind, UpstreamAnswers
  <1>12. CASE Body(c) \/ Stream(c) \/ Cancelled(c)
    BY <1>4, <1>5, <1>9, <1>12 DEF Body, Stream, Cancelled
  <1>13. CASE HubAttach(c) \/ HubPoll(c)
    BY <1>3, <1>5, <1>13 DEF HubAttach, HubPoll
  <1> QED BY <1>6, <1>10, <1>11, <1>12, <1>13 DEF IdleStep

LEMMA IdleStepAsks ==
  ASSUME IInv, IInv', AskInv, NEW c \in Call, IdleStep(c)
  PROVE  AskInv'
  <1>1. image' = image /\ UNCHANGED account /\ OfImages
    BY DEF IdleStep, Prepare, Acquire, UpstreamFails, Unwind, UpstreamAnswers, Body,
           Stream, Cancelled, HubAttach, HubPoll, requests, AskInv
  <1>2. OfImages'
    <2>1. CASE usage' = usage
      BY <1>1, <2>1, TasksOf
    <2>2. CASE \E success \in BOOLEAN : LogUsage(c, success)
      BY <1>1, <2>2, ReportOf
    <2> QED BY <2>1, <2>2 DEF IdleStep, Prepare, Acquire, UpstreamFails, Unwind, UpstreamAnswers,
               Body, Stream, Cancelled, HubAttach, HubPoll, billing
  <1> QED BY <1>1, <1>2, IdleOnward, IdleAsks

\* A reservation is released or captured by its call.
LEMMA ClosingAsks ==
  ASSUME IInv, IInv', AskInv, NEW c \in Call,
         ReleasePending(c) \/ HubFail(c) \/ HubSettle(c)
  PROVE  AskInv'
  <1>1. image' = image /\ usage' = usage /\ call[c] \in CallType /\ AccountOK /\ WalletsOpen /\ OfImages
    BY CallOK DEF IInv, Types, AskInv, ReleasePending, HubFail, HubSettle, requests, billing
  <1>2. OfImages'
    BY <1>1, TasksOf
  <1>3. AllOnward /\ ~Settling(call'[c])
    BY FailOnward, DropOnward, FinishOnward DEF ReleasePending, HubFail, HubSettle
  <1>4. CASE UNCHANGED account
    BY <1>1, <1>2, <1>3, <1>4, IdleAsks
  <1>5. ASSUME NEW i \in Attempt, ReleaseReservation(<<c, i>>)
        PROVE  AskInv'
    <2>1. <<c, i>> \in Key /\ <<c, i>>[1] = c
      BY Keys
    <2>2. NoneMade /\ WalletsOpen' /\ \A x \in Key \ {<<c, i>>} : resv'[x] = resv[x]
      BY <1>1, <1>5, <2>1, ReleaseOpen
    <2> QED BY <1>1, <1>2, <1>3, <2>1, <2>2, CloseAsks
  <1>6. CASE HubSettle(c)
    <2>1. call[c].hub \in Attempt /\ Cost[c] \in Nat /\ Account!Captured \in Account!Terminal
      BY <1>1, <1>6, CallOK, PointsAssumption
      DEF IInv, Good, CallType, HubSettle, At, Account!Terminal
    <2>2. PICK k \in Key : k = <<c, call[c].hub>> /\ k[1] = c
      BY <2>1, Keys
    <2>3. NoneMade /\ WalletsOpen' /\ \A x \in Key \ {k} : resv'[x] = resv[x]
      BY <1>1, <1>6, <2>1, <2>2, SettleOpen DEF HubSettle
    <2> QED BY <1>1, <1>2, <1>3, <2>2, <2>3, CloseAsks
  <1> QED BY <1>1, <1>4, <1>5, <1>6 DEF ReleasePending, HubFail, CallType

LEMMA ThrowAsks ==
  ASSUME IInv, IInv', AskInv, NEW c \in Call, Throw(c)
  PROVE  AskInv'
  <1>1. image' = image /\ usage' = usage /\ call[c] \in CallType /\ AccountOK /\ WalletsOpen /\ OfImages
    BY CallOK DEF IInv, Types, AskInv, Throw, requests, billing
  <1>2. OfImages'
    BY <1>1, TasksOf
  <1>3. AllOnward
    <2>1. CASE At(c, "preflight") /\ Goto(c, "release")
      BY <2>1, LabelOnward DEF At, Before
    <2>2. CASE \E label \in {"hub_attach", "hub_settle"} : At(c, label) /\ Goto(c, "hub_fail")
      BY <2>2, LabelOnward DEF At, Before
    <2> QED BY <2>1, <2>2, DropOnward, FailOnward DEF Throw
  <1>4. CASE UNCHANGED account
    BY <1>1, <1>2, <1>3, <1>4, IdleAsks
  <1>5. CASE /\ At(c, "hub_settle") /\ Goto(c, "hub_fail")
             /\ Account!Settle(<<c, call[c].hub>>, Account!Captured, Cost[c])
    <2>1. call[c].hub \in Attempt /\ Cost[c] \in Nat /\ Account!Captured \in Account!Terminal
      BY <1>1, <1>5, CallOK, PointsAssumption DEF IInv, Good, CallType, At, Account!Terminal
    <2>2. PICK k \in Key : k = <<c, call[c].hub>> /\ k[1] = c
      BY <2>1, Keys
    <2>3. NoneMade /\ WalletsOpen' /\ \A x \in Key \ {k} : resv'[x] = resv[x]
      BY <1>1, <1>5, <2>1, <2>2, SettleOpen
    <2>4. call'[c].at = "hub_fail"
      BY <1>1, <1>5 DEF Goto, IInv, Types, Calls, CallType
    <2> QED BY <1>1, <1>2, <1>3, <2>2, <2>3, <2>4, CloseAsks DEF Settling
  <1> QED BY <1>4, <1>5 DEF Throw

\* The queue has no image's reservation to settle.
LEMMA TaskAsks ==
  ASSUME IInv, IInv', AskInv, NEW t \in usage, Work(t) \/ LoseTask(t)
  PROVE  AskInv'
  <1>1. /\ image' = image /\ call' = call /\ AccountOK /\ WalletsOpen /\ OfImages /\ AllOnward
        /\ t \in Task /\ t.call \in Call /\ Cost[t.call] \in Nat /\ Owner[t.call] \in User
    <2>1. t \in Task /\ t.call \in Call /\ Cost[t.call] \in Nat /\ Owner[t.call] \in User
      BY TaskTypes
    <2> QED BY <2>1, SameOnward DEF IInv, Types, AskInv, Work, TaskAttach, TaskSettle, TaskCharge,
               LoseTask, requests
  <1>2. OfImages'
    <2>1. CASE usage' \subseteq usage
      BY <1>1, <2>1, TasksOf
    <2> DEFINE new == [t EXCEPT !.stage = "settle"]
    <2>2. CASE usage' = (usage \ {t}) \cup {new}
      <3>1. new.call = t.call /\ new.held = t.held
        BY <1>1 DEF Task
      <3> HIDE DEF new
      <3> QED BY <1>1, <2>2, <3>1 DEF OfImages
    <2> QED BY <2>1, <2>2 DEF Work, TaskAttach, TaskSettle, TaskCharge, LoseTask, Without
  <1>3. CASE UNCHANGED account
    BY <1>1, <1>2, <1>3, IdleAsks
  <1>4. CASE Account!Consume(Owner[t.call], Cost[t.call])
    <2>1. NoneMade /\ WalletsOpen' /\ resv' = resv
      BY <1>1, <1>4, ConsumeOpen
    <2> QED BY <1>1, <1>2, <2>1, AskStays DEF Spared
  <1>5. ASSUME TaskSettle(t), NEW o \in Account!Terminal, NEW n \in Nat,
               Account!Settle(<<t.call, t.held>>, o, n)
        PROVE  AskInv'
    <2>1. t.held # NoKey /\ t.held \in Attempt
      BY <1>5, TaskTypes DEF TaskSettle
    <2>0. PICK d \in Call, i \in Attempt : d = t.call /\ i = t.held
      BY <1>1, <2>1
    <2>2. PICK k \in Key : k = <<t.call, t.held>> /\ k[1] = t.call
      BY <2>0, Keys
    <2>3. NoneMade /\ WalletsOpen' /\ \A x \in Key \ {k} : resv'[x] = resv[x]
      BY <1>1, <1>5, <2>2, SettleOpen
    <2>4. t.call \notin image
      BY <1>1, <2>1 DEF OfImages
    <2>5. ~Settling(call'[k[1]])
      BY <1>1, <2>2, <2>4, CallOK DEF IInv, Good, OnHub, Settling
    <2> QED BY <1>1, <1>2, <2>2, <2>3, <2>5, CloseAsks
  <1>6. CASE TaskSettle(t)
    <2>1. Account!Captured \in Account!Terminal /\ Account!Released \in Account!Terminal /\ 0 \in Nat
      BY DEF Account!Terminal
    <2> QED BY <1>1, <1>3, <1>5, <1>6, <2>1 DEF TaskSettle
  <1> QED BY <1>3, <1>4, <1>6 DEF Work, TaskAttach, TaskCharge, LoseTask

LEMMA CrashAsks ==
  ASSUME IInv, IInv', AskInv, Crash
  PROVE  AskInv'
  <1>1. image' = image /\ usage' \subseteq usage /\ OfImages /\ UNCHANGED account
    BY DEF Crash, requests, AskInv
  <1>2. ASSUME NEW c \in Call PROVE Onward(c, call[c], call'[c])
    <2> DEFINE new == [call[c] EXCEPT !.at = "failed", !.slot = FALSE, !.hub = NoKey]
    <2>1. new.at = "failed" /\ new.attempt = call[c].attempt /\ new.hub = NoKey
      BY CallOK DEF IInv, CallType
    <2>2. call'[c] = IF Begun(c) THEN new ELSE call[c]
      BY DEF Crash
    <2> QED BY <2>1, <2>2 DEF Onward, Before, Settling
  <1> QED BY <1>1, <1>2, TasksOf, IdleAsks DEF AllOnward

LEMMA OutsideAsks ==
  ASSUME IInv, IInv', AskInv, UNCHANGED <<requests, call, account, usage>>
  PROVE  AskInv'
  <1>1. image' = image /\ OfImages
    BY DEF requests, AskInv
  <1> QED BY <1>1, SameOnward, TasksOf, IdleAsks

LEMMA InitAsks == Init => AskInv
  <1> SUFFICES ASSUME Init PROVE AskInv
    OBVIOUS
  <1>1. WalletsOpen /\ OfImages /\ \A k \in Key : resv[k].status = Account!Unmade
    BY DEF Init, WalletsOpen, OfImages, Account!Opened, Account!NoReservation
  <1>2. \A c \in Call : call[c].hub = NoKey
    BY DEF Init
  <1> QED BY <1>1, <1>2, Keys DEF AskInv, AskedOnce, HubPending, Settling

LEMMA StepAsks == IInv /\ IInv' /\ AskInv /\ [Next]_vars => AskInv'
  <1> SUFFICES ASSUME IInv, IInv', AskInv, [Next]_vars
               PROVE  AskInv'
    OBVIOUS
  <1>1. ASSUME NEW c \in Call, Step(c) \/ Throw(c)
        PROVE  AskInv'
    BY <1>1, PreflightAsks, HubReserveAsks, IdleStepAsks, ClosingAsks, ThrowAsks DEF Step, IdleStep
  <1>2. ASSUME NEW t \in usage, Work(t) \/ LoseTask(t)
        PROVE  AskInv'
    BY <1>2, TaskAsks
  <1>3. ASSUME NEW s \in Source, Cool(s) \/ RedisForgets(s)
        PROVE  AskInv'
    BY <1>3, OutsideAsks DEF Cool, RedisForgets, billing
  <1>4. CASE Crash
    BY <1>4, CrashAsks
  <1>5. CASE UNCHANGED vars
    BY <1>5, OutsideAsks DEF vars, billing
  <1> QED BY <1>1, <1>2, <1>3, <1>4, <1>5 DEF Next

\* Where the gateway asks the service, the service can do it.
Answerable ==
    \A c \in Call :
        /\ wallet[Owner[c]].open
        /\ At(c, "preflight") \/ At(c, "hub_reserve")
             => resv[<<c, call[c].attempt>>].status = Account!Unmade
        /\ At(c, "hub_settle") => resv[<<c, call[c].hub>>].status = Account!Pending

\* What the service's promise (PointsAccount) lacks is never asked for: when
\* a route is to reserve, its key has no reservation yet, however many routes
\* the call tried before and wherever those failed; and when an image is to
\* be captured (settleReservation in forwardRunningHubImage), its reservation
\* is pending.  So the model leaves out no answer the service could give.
THEOREM PromiseSuffices == Spec => []Answerable
  <1>1. IInv /\ AskInv => Answerable
    <2> SUFFICES ASSUME IInv, AskInv, NEW c \in Call
                 PROVE  /\ wallet[Owner[c]].open
                        /\ At(c, "preflight") \/ At(c, "hub_reserve")
                             => resv[<<c, call[c].attempt>>].status = Account!Unmade
                        /\ At(c, "hub_settle") => resv[<<c, call[c].hub>>].status = Account!Pending
      BY DEF Answerable
    <2>1. call[c].attempt \in Attempt /\ Owner[c] \in User /\ Good(c, call[c])
      BY CallOK DEF IInv, CallType
    <2> QED BY <2>1 DEF AskInv, WalletsOpen, AskedOnce, HubPending, Before, Settling, At, Good
  <1> QED BY <1>1, InvariantHolds, InitAsks, StepAsks, PTL DEF Spec

\* One operation of the service, with the call's own estimate or cost.
AccountStep ==
    \/ \E c \in Call, i \in Attempt :
         \/ Account!Reserve(<<c, i>>, Estimate[c])
         \/ Account!Settle(<<c, i>>, Account!Captured, Cost[c])
         \/ Account!Settle(<<c, i>>, Account!Released, 0)
    \/ \E c \in Call : Account!Consume(Owner[c], Cost[c])

\* The other half: wallets and reservations change by the service's
\* operations only, one of them at a time, for the call's own estimate or
\* cost and under a key of the call's own.
THEOREM PromiseIsKept == Spec => [][AccountStep]_account
  <1>1. IInv /\ [Next]_vars => [AccountStep]_account
    <2> SUFFICES ASSUME IInv, Next, ~UNCHANGED account
                 PROVE  AccountStep
      BY DEF vars, account
    <2>1. ASSUME NEW k \in Key, NEW c, k[1] = c,
                 \/ Account!Reserve(k, Estimate[c])
                 \/ Account!Settle(k, Account!Captured, Cost[c]) \/ ReleaseReservation(k)
          PROVE  AccountStep
      <3>1. k = <<c, k[2]>> /\ c \in Call /\ k[2] \in Attempt
        BY <2>1, Keys
      <3> QED BY <2>1, <3>1 DEF AccountStep, ReleaseReservation
    <2>2. ASSUME NEW c \in Call, NEW i, i \in Attempt,
                 \/ Account!Reserve(<<c, i>>, Estimate[c])
                 \/ Account!Settle(<<c, i>>, Account!Captured, Cost[c])
                 \/ ReleaseReservation(<<c, i>>)
          PROVE  AccountStep
      BY <2>1, <2>2, Keys
    <2>3. ASSUME NEW c \in Call, Step(c) \/ Throw(c)
          PROVE  AccountStep
      <3>1. /\ call[c].attempt \in Attempt
            /\ call[c].context # NoKey => call[c].context \in Attempt
            /\ call[c].hub # NoKey => call[c].hub \in Attempt
            /\ At(c, "hub_settle") => call[c].hub # NoKey
        BY CallOK DEF IInv, CallType, Good, At
      <3>2. CASE Preflight(c) \/ HubReserve(c)
        BY <2>2, <3>1, <3>2 DEF Preflight, HubReserve, account
      <3>3. CASE ReleasePending(c) \/ HubFail(c) \/ HubSettle(c)
        BY <2>2, <3>1, <3>3 DEF ReleasePending, HubFail, HubSettle, account
      <3>4. CASE Throw(c)
        BY <2>2, <3>1, <3>4 DEF Throw, account
      <3> QED BY <2>3, <3>2, <3>3, <3>4
          DEF Step, Prepare, Acquire, UpstreamFails, Unwind, UpstreamAnswers, Body, Stream, Cancelled,
              HubAttach, HubPoll, account
    <2>4. ASSUME NEW t \in usage, Work(t) \/ LoseTask(t)
          PROVE  AccountStep
      <3>1. t.call \in Call /\ (t.stage = "settle" => t.held \in Attempt)
        BY TaskTypes
      <3>2. CASE TaskSettle(t)
        BY <2>2, <3>1, <3>2 DEF TaskSettle, ReleaseReservation, AccountStep, account
      <3>3. CASE TaskCharge(t)
        BY <3>1, <3>3 DEF TaskCharge, AccountStep, account
      <3> QED BY <2>4, <3>2, <3>3 DEF Work, TaskAttach, LoseTask, account
    <2> QED BY <2>3, <2>4 DEF Next, Cool, RedisForgets, Crash, account
  <1> QED BY <1>1, InvariantHolds, PTL DEF Spec
=============================================================================
