---------------------------- MODULE RedeemCodes ----------------------------
(***************************************************************************)
(* Redeem codes (redeem.service.ts): a code gives days of membership, on   *)
(* the user's row and in one entitlement row per user and scope; an        *)
(* administrator revokes a redemption, voids a code or gives days away     *)
(* without one.  A paid order (payments.service.ts) extends the membership *)
(* on the user's row alone.                                                *)
(*                                                                         *)
(* Each request is a transaction that locks rows one after the other, with *)
(* the statement that reads them, and keeps them locked to its end; the    *)
(* step that commits makes its writes.  Time is in days, and transactions  *)
(* are short: none lasts from one day to the next.                         *)
(***************************************************************************)
EXTENDS Integers, Sequences, FiniteSets, Functions

CONSTANTS
    Code, User,
    Grants,          \* grants_json of each code: scopes with days, in order
    MaxUses,
    Gift,            \* distributions of a package
    GiftUser, GiftGrants,
    Purchase,        \* paid orders for membership
    Buyer, Bought,   \* whose, and the days
    Nothing,
    MaxDay           \* bound on the days that pass

Scope == {"app_membership", "ai_membership"}

ASSUME GrantsAssumption ==
    /\ Grants \in [Code -> Seq([scope : Scope, days : Nat \ {0}])]
    /\ GiftGrants \in [Gift -> Seq([scope : Scope, days : Nat \ {0}])]
    /\ \A c \in Code : Grants[c] # <<>>
    /\ \A g \in Gift : GiftGrants[g] # <<>>
ASSUME UsesAssumption == MaxUses \in [Code -> Nat \ {0}]
ASSUME GiftAssumption == GiftUser \in [Gift -> User]
ASSUME UserAssumption == IsFiniteSet(User)
ASSUME PurchaseAssumption == Buyer \in [Purchase -> User] /\ Bought \in [Purchase -> Nat \ {0}]

Redemption == Code \X User
Redeem == {"redeem"} \X Redemption
Revoke == {"revoke"} \X Redemption
Distribute == {"gift"} \X Gift
Tx == Redeem \cup Revoke \cup Distribute

ASSUME DayAssumption == MaxDay \in Nat
ASSUME NothingAssumption == Nothing \notin Tx \cup Redemption

UserOf(t) == IF t \in Distribute THEN GiftUser[t[2]] ELSE t[2][2]
CodeOf(t) == t[2][1]
GrantsOf(t) == IF t \in Distribute THEN GiftGrants[t[2]] ELSE Grants[CodeOf(t)]

VARIABLES
    code,            \* entitlement_codes: status and used_count
    redemption,      \* entitlement_code_redemptions
    member,          \* users.membership_expires_at, 0 for none
    ent,             \* user_entitlements, one row per user and scope
    lock,            \* who has locked a row, or is inserting it
    tx,              \* the transactions: where they are, and at which grant, and
                     \* the ends of memberships they have written, 0 for none
    paid,            \* the orders whose membership was granted
    day,             \* today
    owed,            \* history: days that codes and gifts gave, not yet over
    due,             \* history: all the days a user still has to get
    bought,          \* history: how many of them were bought and not revoked
    revocations      \* history: redemptions of a user that were revoked

rows == <<code, redemption, member, ent>>
history == <<owed, due, bought, revocations>>
vars == <<rows, lock, tx, paid, day, history>>

Row == Code \cup User \cup (User \X Scope)
NoOne == Nothing

Idle == [at |-> "idle", grant |-> 0, member |-> 0, ends |-> [s \in Scope |-> 0]]

Absent == [there |-> FALSE, expires |-> 0, active |-> FALSE, source |-> Nothing]

\* The history is left out: it counts days, sums that no row holds.
TypeOK ==
    /\ \A c \in Code : code[c] \in [status : {"active", "voided"}, used : 0 .. MaxUses[c]]
    /\ redemption \in [Redemption -> {"none", "made", "revoked"}]
    /\ member \in [User -> Nat]
    /\ ent \in [User \X Scope -> [there : BOOLEAN, expires : Nat, active : BOOLEAN,
                                  source : Redemption \cup {Nothing}]]
    /\ lock \in [Row -> Tx \cup {NoOne}]
    /\ tx \in [Tx -> [at : {"idle", "user", "entitlement", "insert", "rows", "commit", "over"},
                      grant : Nat, member : Nat, ends : [Scope -> Nat]]]
    /\ day \in 0 .. MaxDay
    /\ paid \subseteq Purchase

Init ==
    /\ code = [c \in Code |-> [status |-> "active", used |-> 0]]
    /\ redemption = [r \in Redemption |-> "none"]
    /\ member = [u \in User |-> 0]
    /\ ent = [e \in User \X Scope |-> Absent]
    /\ lock = [r \in Row |-> NoOne]
    /\ tx = [t \in Tx |-> Idle]
    /\ day = 0
    /\ paid = {}
    /\ owed = [e \in User \X Scope |-> 0]
    /\ due = [u \in User |-> 0]
    /\ bought = [u \in User |-> 0]
    /\ revocations = [u \in User |-> 0]

-----------------------------------------------------------------------------

At(t, label) == tx[t].at = label

Goto(t, label) == tx' = [tx EXCEPT ![t].at = label]

Free(row, t) == lock[row] \in {NoOne, t}

Lock(row, t) == lock' = [lock EXCEPT ![row] = t]

Unlocked(t) == [row \in Row |-> IF lock[row] = t THEN NoOne ELSE lock[row]]

\* The end of a transaction.  A distribution is made once; a code may be
\* tried again.
End(t) ==
    /\ lock' = Unlocked(t)
    /\ tx' = [tx EXCEPT ![t] = [Idle EXCEPT !.at = IF t \in Distribute THEN "over" ELSE "idle"]]

Abort(t) == End(t) /\ UNCHANGED <<rows, history>>

Later(a, b) == IF a > b THEN a ELSE b

Remaining(expires, today) == Later(expires, today) - today

\* The next grant: application membership starts with the user's row.
ToGrant(t, i, written) ==
    tx' = [tx EXCEPT ![t] = [written EXCEPT
             !.at = IF i > Len(GrantsOf(t)) THEN "commit"
                    ELSE IF GrantsOf(t)[i].scope = "app_membership" THEN "user" ELSE "entitlement",
             !.grant = i]]

GrantOf(t) == GrantsOf(t)[tx[t].grant]

EntitlementOf(t) == <<UserOf(t), GrantOf(t).scope>>

\* From the end of what is there, or from today.
Extended(expires, days) == Later(expires, day) + days

\* A transaction sees what it has written itself.
Seen(own, row) == IF own # 0 THEN own ELSE row

WriteEnd(t, expires) ==
    LET s == GrantOf(t).scope IN
    ToGrant(t, tx[t].grant + 1, [tx[t] EXCEPT !.ends[s] = Extended(expires, GrantOf(t).days)])

-----------------------------------------------------------------------------
(* redeemCodeByAppSlug and distributePackageToUserByAppId                  *)

\* The code's row is locked, and what it must be to be redeemed is checked.
RedeemCode(t) ==
    LET c == CodeOf(t) IN
    /\ t \in Redeem /\ At(t, "idle")
    /\ Free(c, t)
    /\ code[c].status = "active"
    /\ code[c].used < MaxUses[c]
    /\ redemption[t[2]] = "none"
    /\ Lock(c, t)
    /\ ToGrant(t, 1, tx[t])
    /\ UNCHANGED <<rows, paid, day, history>>

StartGift(t) ==
    /\ t \in Distribute /\ At(t, "idle")
    /\ ToGrant(t, 1, tx[t])
    /\ UNCHANGED <<rows, lock, paid, day, history>>

\* Mutant: the user's row is read without FOR UPDATE.
LockUserReadOnly(t) ==
    /\ t \notin Revoke /\ At(t, "user")
    /\ tx' = [tx EXCEPT ![t].at = "entitlement",
                        ![t].member = Extended(Seen(@, member[UserOf(t)]), GrantOf(t).days)]
    /\ UNCHANGED <<rows, lock, paid, day, history>>

LockUser(t) ==
    /\ t \notin Revoke /\ At(t, "user")
    /\ Free(UserOf(t), t)
    /\ Lock(UserOf(t), t)
    /\ tx' = [tx EXCEPT ![t].at = "entitlement",
                        ![t].member = Extended(Seen(@, member[UserOf(t)]), GrantOf(t).days)]
    /\ UNCHANGED <<rows, paid, day, history>>

\* SELECT ... FOR UPDATE finds no row that is still to be committed.
LockEntitlement(t) ==
    LET e == EntitlementOf(t)
        own == tx[t].ends[e[2]]
    IN  /\ At(t, "entitlement")
        /\ IF ent[e].there \/ own # 0
           THEN Free(e, t) /\ Lock(e, t) /\ WriteEnd(t, Seen(own, ent[e].expires))
           ELSE Goto(t, "insert") /\ UNCHANGED lock
        /\ UNCHANGED <<rows, paid, day, history>>

\* The unique key: an insert waits for another one, and fails if that was
\* committed.
InsertEntitlement(t) ==
    LET e == EntitlementOf(t) IN
    /\ At(t, "insert")
    /\ Free(e, t)
    /\ IF ent[e].there THEN Abort(t)
       ELSE Lock(e, t) /\ WriteEnd(t, 0) /\ UNCHANGED <<rows, history>>
    /\ UNCHANGED <<paid, day>>

Days(t, scope) ==
    SumFunctionOnSet([i \in DOMAIN GrantsOf(t) |-> GrantsOf(t)[i].days],
                     {i \in DOMAIN GrantsOf(t) : GrantsOf(t)[i].scope = scope})

Applied(t) ==
    [e \in User \X Scope |->
        IF e[1] # UserOf(t) \/ tx[t].ends[e[2]] = 0 THEN ent[e]
        ELSE [there |-> TRUE, active |-> TRUE, expires |-> tx[t].ends[e[2]],
              source |-> IF t \in Redeem THEN t[2] ELSE Nothing]]

CommitGrants(t) ==
    LET u == UserOf(t) IN
    /\ t \notin Revoke /\ At(t, "commit")
    /\ IF t \in Redeem
       THEN /\ redemption' = [redemption EXCEPT ![t[2]] = "made"]
            /\ code' = [code EXCEPT ![CodeOf(t)].used = @ + 1]
       ELSE UNCHANGED <<redemption, code>>
    /\ member' = [member EXCEPT ![u] = Seen(tx[t].member, @)]
    /\ ent' = Applied(t)
    /\ owed' = [e \in User \X Scope |-> IF e[1] = u THEN owed[e] + Days(t, e[2]) ELSE owed[e]]
    /\ due' = [due EXCEPT ![u] = @ + Days(t, "app_membership")]
    /\ End(t)
    /\ UNCHANGED <<paid, day, bought, revocations>>

-----------------------------------------------------------------------------
(* revokeCodeRedemptionByAppId and voidCodeByAppId                         *)

\* Mutant: what is revoked already can be revoked again.
RevokeRedemptionAgain(t) ==
    /\ t \in Revoke /\ At(t, "idle")
    /\ redemption[t[2]] # "none"
    /\ Free(CodeOf(t), t)
    /\ Lock(CodeOf(t), t)
    /\ Goto(t, "rows")
    /\ UNCHANGED <<rows, paid, day, history>>

RevokeRedemption(t) ==
    /\ t \in Revoke /\ At(t, "idle")
    /\ redemption[t[2]] = "made"
    /\ Free(CodeOf(t), t)
    /\ Lock(CodeOf(t), t)
    /\ Goto(t, "rows")
    /\ UNCHANGED <<rows, paid, day, history>>

\* The active entitlements that have this redemption for their source.
Sourced(t) == {e \in User \X Scope : ent[e].active /\ ent[e].source = t[2]}

LockSourced(t) ==
    /\ t \in Revoke /\ At(t, "rows")
    /\ IF \A e \in Sourced(t) : lock[e] = t
       THEN /\ Goto(t, IF \E e \in Sourced(t) : e[2] = "app_membership" THEN "user" ELSE "commit")
            /\ UNCHANGED lock
       ELSE \E e \in Sourced(t) : lock[e] = NoOne /\ Lock(e, t) /\ UNCHANGED tx
    /\ UNCHANGED <<rows, paid, day, history>>

RevokeUser(t) ==
    /\ t \in Revoke /\ At(t, "user")
    /\ Free(UserOf(t), t)
    /\ Lock(UserOf(t), t)
    /\ Goto(t, "commit")
    /\ UNCHANGED <<rows, paid, day, history>>

\* Mutant: the two ends are not compared.
CommitRevokeAlways(t) ==
    LET u == UserOf(t)
        app == <<u, "app_membership">>
    IN  /\ t \in Revoke /\ At(t, "commit")
        /\ ent' = [e \in User \X Scope |->
                     IF e \in Sourced(t) THEN [ent[e] EXCEPT !.active = FALSE] ELSE ent[e]]
        /\ member' = IF app \in Sourced(t)
                     THEN [member EXCEPT ![u] = 0] ELSE member
        /\ redemption' = [redemption EXCEPT ![t[2]] = "revoked"]
        /\ code' = [code EXCEPT ![CodeOf(t)].used = IF @ = 0 THEN 0 ELSE @ - 1]
        /\ End(t)
        /\ due' = [due EXCEPT ![u] = Later(bought[u], Remaining(member'[u], day))]
        /\ revocations' = [revocations EXCEPT ![u] = @ + 1]
        /\ UNCHANGED <<paid, day, owed, bought>>

\* The entitlement's days are all taken, those of earlier redemptions too;
\* the user's membership goes with them if it ends on the same day: there
\* is no other row that could keep it.
CommitRevoke(t) ==
    LET u == UserOf(t)
        app == <<u, "app_membership">>
    IN  /\ t \in Revoke /\ At(t, "commit")
        /\ ent' = [e \in User \X Scope |->
                     IF e \in Sourced(t) THEN [ent[e] EXCEPT !.active = FALSE] ELSE ent[e]]
        /\ member' = IF app \in Sourced(t) /\ member[u] = ent[app].expires
                     THEN [member EXCEPT ![u] = 0] ELSE member
        /\ redemption' = [redemption EXCEPT ![t[2]] = "revoked"]
        /\ code' = [code EXCEPT ![CodeOf(t)].used = IF @ = 0 THEN 0 ELSE @ - 1]
        /\ End(t)
        /\ due' = [due EXCEPT ![u] = Later(bought[u], Remaining(member'[u], day))]
        /\ revocations' = [revocations EXCEPT ![u] = @ + 1]
        /\ UNCHANGED <<paid, day, owed, bought>>

Void(c) ==
    /\ lock[c] = NoOne
    /\ code' = [code EXCEPT ![c].status = "voided"]
    /\ UNCHANGED <<redemption, member, ent, lock, tx, paid, day, history>>

-----------------------------------------------------------------------------

\* extendMembership, the last lock of the order's own transaction.
Pay(p) ==
    LET u == Buyer[p] IN
    /\ p \notin paid
    /\ lock[u] = NoOne
    /\ paid' = paid \cup {p}
    /\ member' = [member EXCEPT ![u] = Extended(@, Bought[p])]
    /\ due' = [due EXCEPT ![u] = @ + Bought[p]]
    /\ bought' = [bought EXCEPT ![u] = @ + Bought[p]]
    /\ UNCHANGED <<code, redemption, ent, lock, tx, day, owed, revocations>>

\* A transaction that takes too long, or is the victim of a deadlock, is
\* rolled back.
RollBack(t) ==
    /\ tx[t].at \notin {"idle", "over"}
    /\ lock' = Unlocked(t)
    /\ tx' = [tx EXCEPT ![t] = Idle]
    /\ UNCHANGED <<rows, paid, day, history>>

\* A day passes.  The days that were bought are used last.
Tick ==
    /\ day < MaxDay
    /\ \A t \in Tx : tx[t].at \in {"idle", "over"}
    /\ day' = day + 1
    /\ owed' = [e \in User \X Scope |-> Remaining(owed[e], 1)]
    /\ due' = [u \in User |-> Remaining(due[u], 1)]
    /\ bought' = [u \in User |-> IF bought[u] > due'[u] THEN due'[u] ELSE bought[u]]
    /\ UNCHANGED <<rows, lock, tx, paid, revocations>>

Next ==
    \/ \E t \in Redeem : RedeemCode(t)
    \/ \E t \in Distribute : StartGift(t)
    \/ \E t \in Tx : LockUser(t) \/ LockEntitlement(t) \/ InsertEntitlement(t) \/ CommitGrants(t)
    \/ \E t \in Revoke : RevokeRedemption(t) \/ LockSourced(t) \/ RevokeUser(t) \/ CommitRevoke(t)
    \/ \E t \in Tx : RollBack(t)
    \/ \E c \in Code : Void(c)
    \/ \E p \in Purchase : Pay(p)
    \/ Tick

Spec == Init /\ [][Next]_vars

-----------------------------------------------------------------------------
(* Properties                                                              *)

\* However many users redeem a code at once, and whatever is revoked in
\* between: the code's counter is the number of its redemptions, and never
\* above the limit.
UsesCounted ==
    \A c \in Code :
        /\ code[c].used = Cardinality({u \in User : redemption[<<c, u>>] = "made"})
        /\ code[c].used <= MaxUses[c]

\* No day is lost and none is given twice: as long as nothing of a user was
\* revoked, the user's row and the entitlement rows have the days that
\* redemptions, gifts and orders gave, one after the other.
DaysKept ==
    \A u \in User : revocations[u] = 0 =>
        /\ Remaining(member[u], day) = due[u]
        /\ \A s \in Scope : Remaining(ent[<<u, s>>].expires, day) = owed[<<u, s>>]

\* A revocation takes no day that was bought.  This is so for the first
\* revocation of a user: the days of a revoked entitlement come back with the
\* next redemption, and the two ends that CommitRevoke compares then may be
\* equal although bought days are among them.
BoughtIsKept ==
    \A u \in User : revocations[u] <= 1 => Remaining(member[u], day) >= bought[u]
=============================================================================
