-------------------------- MODULE MembershipsProofs --------------------------
(***************************************************************************)
(* Proofs about the two sources of memberships, RedeemCodes and AppleIap,  *)
(* each for itself and for any values of its constants.                    *)
(*                                                                         *)
(* Redeem codes: a code's counter is the number of its redemptions and     *)
(* stays within the limit, whoever redeems and revokes at once.  The       *)
(* argument is the code's row lock: a transaction that redeems or revokes  *)
(* has it from its first step to its last (Holding), so that what it found *)
(* at the first step is still so at the last (Ready).                      *)
(* And no day is lost, given twice or, when it was bought, revoked: the    *)
(* ends a transaction will commit are those of the rows it has locked and  *)
(* the days of the grants it is past (DaysInv).                            *)
(*                                                                         *)
(* Apple: a transaction's row says what Apple said last of all that was    *)
(* written.  A row has the status and the date of the newest payload       *)
(* written to it (InStep), and two payloads of one transaction that have   *)
(* the same date say the same (Agree), for Apple's clock never signs two   *)
(* different words at once.                                                *)
(* And after requests that ran one at a time the entitlement says what the *)
(* latest period's row does: of a request that has been by itself it is    *)
(* known at each of its steps whose rows it has written and whether what   *)
(* it read is still so (Stage), and the rows it links or updates are the   *)
(* last in the order of updates, which is a strict one (Ordered).          *)
(***************************************************************************)
EXTENDS RedeemCodes, AppleIap, Sums, SequenceTheorems

Label == {"idle", "user", "entitlement", "insert", "rows", "commit", "over"}
CodeRow == [status : {"active", "voided"}, used : Nat]
EntRow == [there : BOOLEAN, expires : Nat, active : BOOLEAN, source : Redemption \cup {Nothing}]
TxState == [at : Label, grant : Nat, member : Nat, ends : [Scope -> Nat]]

Typed ==
    /\ code \in [Code -> CodeRow]
    /\ redemption \in [Redemption -> {"none", "made", "revoked"}]
    /\ member \in [User -> Nat]
    /\ ent \in [User \X Scope -> EntRow]
    /\ lock \in [Row -> Tx \cup {NoOne}]
    /\ tx \in [Tx -> TxState]
    /\ day \in Nat

\* A transaction that extends something is at one of its grants.
Granting ==
    \A t \in Redeem \cup Distribute :
        tx[t].at \in {"user", "entitlement", "insert"} => tx[t].grant \in DOMAIN GrantsOf(t)

OfRevoke == \A t \in Revoke : tx[t].at \in {"idle", "rows", "user", "commit"}

OnCode == Redeem \cup Revoke
Under(t) == tx[t].at # "idle"

Holding == \A t \in OnCode : Under(t) => lock[CodeOf(t)] = t

Found(t) ==
    IF t \in Redeem
    THEN redemption[t[2]] = "none" /\ code[CodeOf(t)].used < MaxUses[CodeOf(t)]
    ELSE redemption[t[2]] = "made"

Ready == \A t \in OnCode : Under(t) => Found(t)

IInv == Typed /\ Granting /\ OfRevoke /\ Holding /\ Ready /\ UsesCounted

-----------------------------------------------------------------------------
(* The constants                                                           *)

LEMMA Kinds ==
  ASSUME NEW t \in Tx
  PROVE  /\ UserOf(t) \in User
         /\ t \in OnCode => t \notin Distribute /\ CodeOf(t) \in Code /\ t[2] \in Redemption
         /\ t \in Redeem => t \notin Revoke
         /\ t \notin Revoke => t \in Redeem \cup Distribute
         /\ t \in Distribute => t \notin OnCode
  <1>1. CASE t \in Redeem
    <2>1. t[1] = "redeem" /\ t[2] \in Redemption /\ t[2][1] \in Code /\ t[2][2] \in User
      BY <1>1 DEF Redeem, Redemption
    <2>2. t \notin Revoke /\ t \notin Distribute
      BY <2>1 DEF Revoke, Distribute
    <2> QED
      BY <1>1, <2>1, <2>2 DEF UserOf, CodeOf, OnCode
  <1>2. CASE t \in Revoke
    <2>1. t[1] = "revoke" /\ t[2] \in Redemption /\ t[2][1] \in Code /\ t[2][2] \in User
      BY <1>2 DEF Revoke, Redemption
    <2>2. t \notin Redeem /\ t \notin Distribute
      BY <2>1 DEF Redeem, Distribute
    <2> QED
      BY <1>2, <2>1, <2>2 DEF UserOf, CodeOf, OnCode
  <1>3. CASE t \in Distribute
    <2>1. t[1] = "gift" /\ t[2] \in Gift
      BY <1>3 DEF Distribute
    <2>2. t \notin Redeem /\ t \notin Revoke
      BY <2>1 DEF Redeem, Revoke
    <2> QED
      BY <1>3, <2>1, <2>2, GiftAssumption DEF UserOf, OnCode
  <1> QED
    BY <1>1, <1>2, <1>3 DEF Tx

LEMMA GrantList ==
  ASSUME NEW t \in Redeem \cup Distribute
  PROVE  /\ GrantsOf(t) \in Seq([scope : Scope, days : Nat \ {0}])
         /\ Len(GrantsOf(t)) \in Nat \ {0}
         /\ DOMAIN GrantsOf(t) = 1 .. Len(GrantsOf(t))
         /\ \A i \in DOMAIN GrantsOf(t) : GrantsOf(t)[i] \in [scope : Scope, days : Nat \ {0}]
  <1>1. t \in Tx
    BY DEF Tx
  <1>2. GrantsOf(t) \in Seq([scope : Scope, days : Nat \ {0}]) /\ GrantsOf(t) # <<>>
    <2>1. CASE t \in Distribute
      BY <2>1, GrantsAssumption DEF GrantsOf, Distribute
    <2>2. CASE t \notin Distribute
      BY <2>2, <1>1, Kinds, GrantsAssumption DEF GrantsOf, OnCode
    <2> QED
      BY <2>1, <2>2
  <1>3. Len(GrantsOf(t)) \in Nat \ {0} /\ DOMAIN GrantsOf(t) = 1 .. Len(GrantsOf(t))
    BY <1>2, EmptySeq, LenProperties
  <1> QED
    BY <1>2, <1>3, ElementOfSeq

LEMMA RowsApart ==
  ASSUME NEW t \in OnCode
  PROVE  t \in Tx /\ CodeOf(t) \in Row /\ CodeOf(t) \in Code
  BY Kinds DEF OnCode, Tx, Row

-----------------------------------------------------------------------------
(* Types                                                                   *)

LEMMA InitTyped == Init => Typed
  <1> SUFFICES ASSUME Init PROVE Typed
    OBVIOUS
  <1>1. Idle \in TxState
    BY DEF Idle, TxState, Label
  <1>2. Absent \in EntRow
    BY DEF Absent, EntRow
  <1> QED
    BY <1>1, <1>2 DEF Init, Typed, CodeRow, NoOne

\* Where a transaction goes for its i-th grant.
LEMMA ToGrantTyped ==
  ASSUME NEW t \in Redeem \cup Distribute, NEW i \in Nat \ {0}, NEW w \in TxState,
         Typed, ToGrant(t, i, w)
  PROVE  /\ tx' \in [Tx -> TxState]
         /\ tx'[t].at \in {"user", "entitlement", "commit"}
         /\ tx'[t].at # "commit" => tx'[t].grant \in DOMAIN GrantsOf(t)
         /\ \A x \in Tx \ {t} : tx'[x] = tx[x]
  <1> DEFINE label == IF i > Len(GrantsOf(t)) THEN "commit"
                      ELSE IF GrantsOf(t)[i].scope = "app_membership" THEN "user"
                      ELSE "entitlement"
             new == [w EXCEPT !.at = label, !.grant = i]
  <1>1. label \in {"user", "entitlement", "commit"}
    OBVIOUS
  <1>2. label # "commit" => i \in DOMAIN GrantsOf(t)
    BY GrantList
  <1> HIDE DEF label
  <1>3. new \in TxState /\ new.at = label /\ new.grant = i
    BY <1>1 DEF TxState, Label
  <1>4. tx' = [tx EXCEPT ![t] = new] /\ t \in Tx
    BY DEF ToGrant, label, Tx
  <1> QED
    BY <1>1, <1>2, <1>3, <1>4 DEF Typed

\* Days that are added to the end of what is there.
LEMMA ExtendedTyped ==
  ASSUME Typed, NEW a \in Nat, NEW b \in Nat, NEW d \in Nat
  PROVE  Extended(Seen(a, b), d) \in Nat /\ Extended(b, d) \in Nat
  BY DEF Typed, Extended, Later, Seen

\* A transaction at one of its grants, and the rows it is about.
LEMMA AtGrant ==
  ASSUME Typed, Granting, NEW t \in Redeem \cup Distribute,
         tx[t].at \in {"user", "entitlement", "insert"}
  PROVE  /\ GrantOf(t).scope \in Scope /\ GrantOf(t).days \in Nat
         /\ tx[t].grant + 1 \in Nat \ {0}
         /\ EntitlementOf(t) \in User \X Scope /\ EntitlementOf(t)[2] = GrantOf(t).scope
  <1>1. t \in Tx /\ UserOf(t) \in User
    BY Kinds DEF Tx
  <1>2. tx[t].grant \in DOMAIN GrantsOf(t)
    BY DEF Granting
  <1>3. tx[t].grant \in Nat
    BY <1>1 DEF Typed, TxState
  <1> QED
    BY <1>1, <1>2, <1>3, GrantList DEF GrantOf, EntitlementOf

LEMMA WriteEndTyped ==
  ASSUME Typed, Granting, NEW t \in Redeem \cup Distribute, NEW expires \in Nat,
         tx[t].at \in {"user", "entitlement", "insert"}, WriteEnd(t, expires)
  PROVE  /\ tx' \in [Tx -> TxState]
         /\ tx'[t].at \in {"user", "entitlement", "commit"}
         /\ tx'[t].at # "commit" => tx'[t].grant \in DOMAIN GrantsOf(t)
         /\ \A x \in Tx \ {t} : tx'[x] = tx[x]
  <1> DEFINE end == Extended(expires, GrantOf(t).days)
             w == [tx[t] EXCEPT !.ends[GrantOf(t).scope] = end]
  <1>1. end \in Nat
    BY AtGrant, ExtendedTyped
  <1> HIDE DEF end
  <1>2. tx[t] \in TxState
    BY DEF Typed, Tx
  <1>3. w \in TxState
    BY <1>1, <1>2, AtGrant DEF TxState
  <1>4. ToGrant(t, tx[t].grant + 1, w)
    BY DEF WriteEnd, end
  <1> HIDE DEF w
  <1> QED
    BY <1>3, <1>4, AtGrant, ToGrantTyped

-----------------------------------------------------------------------------
(* A step of a transaction that is not its last                            *)

\* What it does to the transactions and the locks: those of the others stay
\* as they are, and so does its own lock of the code.
Moves(t) ==
    /\ tx' \in [Tx -> TxState]
    /\ \A x \in Tx \ {t} : tx'[x] = tx[x]
    /\ lock' \in [Row -> Tx \cup {NoOne}]
    /\ \A r \in Row : lock'[r] = lock[r] \/ (lock[r] \in {NoOne, t} /\ lock'[r] = t)
    /\ UNCHANGED <<rows, day>>

LEMMA LockMoves ==
  ASSUME Typed, NEW t \in Tx, NEW r \in Row, Free(r, t), Lock(r, t)
  PROVE  /\ lock' \in [Row -> Tx \cup {NoOne}]
         /\ \A x \in Row : lock'[x] = lock[x] \/ (lock[x] \in {NoOne, t} /\ lock'[x] = t)
         /\ lock'[r] = t
  BY DEF Typed, Free, Lock

\* The invariant after such a step: the transaction itself is all there is
\* to look at.
LEMMA MovesKeep ==
  ASSUME IInv, NEW t \in Tx, Moves(t),
         t \in Redeem \cup Distribute =>
           (tx'[t].at \in {"user", "entitlement", "insert"} => tx'[t].grant \in DOMAIN GrantsOf(t)),
         t \in Revoke => tx'[t].at \in {"idle", "rows", "user", "commit"},
         t \in OnCode => /\ lock'[CodeOf(t)] = t
                        /\ Found(t)
  PROVE  IInv'
  <1>1. Typed'
    BY DEF IInv, Typed, Moves, rows
  <1>2. Granting'
    BY DEF IInv, Granting, Moves, Tx, GrantsOf, CodeOf
  <1>3. OfRevoke'
    BY DEF IInv, OfRevoke, Moves, Tx
  <1>4. Holding'
    <2> SUFFICES ASSUME NEW x \in OnCode, Under(x)' PROVE lock'[CodeOf(x)] = x
      BY DEF Holding, CodeOf
    <2>1. CASE x = t
      BY <2>1
    <2>2. CASE x # t
      <3>1. x \in Tx /\ CodeOf(x) \in Row
        BY RowsApart
      <3>2. lock[CodeOf(x)] = x
        BY <2>2, <3>1 DEF IInv, Holding, Under, Moves
      <3> QED
        BY <2>2, <3>1, <3>2, NothingAssumption DEF Moves, NoOne
    <2> QED
      BY <2>1, <2>2
  <1>5. Ready'
    <2>1. \A x \in OnCode : Found(x)' <=> Found(x)
      BY DEF Found, Moves, rows, CodeOf
    <2>2. \A x \in OnCode : Under(x)' => x = t \/ Under(x)
      BY RowsApart DEF Under, Moves
    <2> QED
      BY <2>1, <2>2 DEF IInv, Ready
  <1>6. UsesCounted'
    BY DEF IInv, UsesCounted, Moves, rows
  <1> QED
    BY <1>1, <1>2, <1>3, <1>4, <1>5, <1>6 DEF IInv

LEMMA RedeemKeeps ==
  ASSUME IInv, NEW t \in Redeem, RedeemCode(t)
  PROVE  IInv'
  <1>1. /\ Typed /\ t \in Tx /\ t \in OnCode /\ t \notin Revoke
        /\ CodeOf(t) \in Row /\ tx[t] \in TxState
    BY Kinds, RowsApart DEF IInv, Typed, OnCode, Tx
  <1>2. ToGrant(t, 1, tx[t])
    BY DEF RedeemCode
  <1>3. /\ tx' \in [Tx -> TxState]
        /\ tx'[t].at \in {"user", "entitlement", "commit"}
        /\ tx'[t].at # "commit" => tx'[t].grant \in DOMAIN GrantsOf(t)
        /\ \A x \in Tx \ {t} : tx'[x] = tx[x]
    BY <1>1, <1>2, ToGrantTyped
  <1>4. Free(CodeOf(t), t) /\ Lock(CodeOf(t), t)
    BY DEF RedeemCode
  <1>5. Moves(t) /\ lock'[CodeOf(t)] = t
    BY <1>1, <1>3, <1>4, LockMoves DEF Moves, RedeemCode
  <1>6. Found(t)
    BY DEF RedeemCode, Found
  <1> QED
    BY <1>1, <1>3, <1>5, <1>6, MovesKeep

LEMMA GiftKeeps ==
  ASSUME IInv, NEW t \in Distribute, StartGift(t)
  PROVE  IInv'
  <1>1. /\ Typed /\ t \in Tx /\ t \notin OnCode /\ t \notin Revoke /\ tx[t] \in TxState
    BY Kinds DEF IInv, Typed, OnCode, Tx
  <1>2. ToGrant(t, 1, tx[t])
    BY DEF StartGift
  <1>3. /\ tx' \in [Tx -> TxState]
        /\ tx'[t].at \in {"user", "entitlement", "commit"}
        /\ tx'[t].at # "commit" => tx'[t].grant \in DOMAIN GrantsOf(t)
        /\ \A x \in Tx \ {t} : tx'[x] = tx[x]
    BY <1>1, <1>2, ToGrantTyped
  <1>4. Moves(t)
    BY <1>1, <1>3 DEF Moves, StartGift, Typed
  <1> QED
    BY <1>1, <1>3, <1>4, MovesKeep

\* A transaction that is under way has its code and has found it good.
LEMMA UnderWay ==
  ASSUME IInv, NEW t \in OnCode, tx[t].at # "idle"
  PROVE  lock[CodeOf(t)] = t /\ Found(t)
  BY DEF IInv, Holding, Ready, Under

LEMMA LockedKeeps ==
  ASSUME IInv, NEW t \in Tx, Moves(t), tx[t].at # "idle"
  PROVE  t \in OnCode => lock'[CodeOf(t)] = t /\ Found(t)
  BY UnderWay, RowsApart, NothingAssumption DEF Moves, NoOne

LEMMA LockUserKeeps ==
  ASSUME IInv, NEW t \in Tx, LockUser(t)
  PROVE  IInv'
  <1>1. /\ Typed /\ Granting /\ t \notin Revoke /\ t \in Redeem \cup Distribute
        /\ tx[t] \in TxState /\ tx[t].at = "user" /\ UserOf(t) \in Row /\ UserOf(t) \in User
    BY Kinds DEF IInv, Typed, LockUser, At, Row
  <1> DEFINE m == Extended(Seen(tx[t].member, member[UserOf(t)]), GrantOf(t).days)
  <1>2. m \in Nat
    <2>1. tx[t].member \in Nat /\ member[UserOf(t)] \in Nat /\ GrantOf(t).days \in Nat
      BY <1>1, AtGrant DEF Typed, TxState
    <2> QED
      BY <1>1, <2>1, ExtendedTyped
  <1>3. tx' = [tx EXCEPT ![t].at = "entitlement", ![t].member = m]
    BY DEF LockUser
  <1> HIDE DEF m
  <1>4. /\ tx' \in [Tx -> TxState] /\ tx'[t].at = "entitlement" /\ tx'[t].grant = tx[t].grant
        /\ \A x \in Tx \ {t} : tx'[x] = tx[x]
    BY <1>1, <1>2, <1>3 DEF Typed, TxState, Label
  <1>5. Moves(t)
    BY <1>1, <1>4, LockMoves DEF Moves, LockUser
  <1>6. tx'[t].grant \in DOMAIN GrantsOf(t)
    BY <1>1, <1>4 DEF Granting
  <1> QED
    BY <1>1, <1>4, <1>5, <1>6, LockedKeeps, MovesKeep

LEMMA LockEntitlementKeeps ==
  ASSUME IInv, NEW t \in Tx, LockEntitlement(t)
  PROVE  IInv'
  <1>1. /\ Typed /\ Granting /\ t \notin Revoke /\ t \in Redeem \cup Distribute
        /\ tx[t] \in TxState /\ tx[t].at = "entitlement"
    BY Kinds DEF IInv, Typed, OfRevoke, LockEntitlement, At
  <1> DEFINE e == EntitlementOf(t)
             own == tx[t].ends[e[2]]
  <1>2. e \in User \X Scope /\ e \in Row /\ own \in Nat /\ ent[e].expires \in Nat
    BY <1>1, AtGrant DEF Row, TxState, Typed, EntRow
  <1>3. CASE ent[e].there \/ own # 0
    <2>1. Free(e, t) /\ Lock(e, t) /\ WriteEnd(t, Seen(own, ent[e].expires))
      BY <1>3 DEF LockEntitlement
    <2>2. Seen(own, ent[e].expires) \in Nat
      BY <1>2 DEF Seen
    <2>3. /\ tx' \in [Tx -> TxState]
          /\ tx'[t].at \in {"user", "entitlement", "commit"}
          /\ tx'[t].at # "commit" => tx'[t].grant \in DOMAIN GrantsOf(t)
          /\ \A x \in Tx \ {t} : tx'[x] = tx[x]
      BY <1>1, <2>1, <2>2, WriteEndTyped
    <2>4. Moves(t)
      BY <1>1, <1>2, <2>1, <2>3, LockMoves DEF Moves, LockEntitlement
    <2> QED
      BY <1>1, <2>3, <2>4, LockedKeeps, MovesKeep
  <1>4. CASE ~(ent[e].there \/ own # 0)
    <2>1. tx' = [tx EXCEPT ![t].at = "insert"] /\ lock' = lock
      BY <1>4 DEF LockEntitlement, Goto
    <2>2. /\ tx' \in [Tx -> TxState] /\ tx'[t].at = "insert" /\ tx'[t].grant = tx[t].grant
          /\ \A x \in Tx \ {t} : tx'[x] = tx[x]
      BY <1>1, <2>1 DEF Typed, TxState, Label
    <2>3. Moves(t)
      BY <1>1, <2>1, <2>2 DEF Moves, LockEntitlement, Typed
    <2>4. tx'[t].grant \in DOMAIN GrantsOf(t)
      BY <1>1, <2>2 DEF Granting
    <2> QED
      BY <1>1, <2>2, <2>3, <2>4, LockedKeeps, MovesKeep
  <1> QED
    BY <1>3, <1>4

LEMMA RevokeStepMoves ==
  ASSUME IInv, NEW t \in Revoke,
         RevokeRedemption(t) \/ LockSourced(t) \/ RevokeUser(t)
  PROVE  Moves(t) /\ tx'[t].at \in {"rows", "user", "commit"}
  <1>1. /\ Typed /\ t \in Tx /\ t \in OnCode /\ t \notin Redeem \cup Distribute
        /\ tx[t] \in TxState /\ CodeOf(t) \in Row /\ UserOf(t) \in Row
    BY Kinds, RowsApart DEF IInv, Typed, OnCode, Tx, Row
  <1>2. PICK label \in {"rows", "user", "commit"} : tx' = [tx EXCEPT ![t].at = label]
    <2>1. CASE RevokeRedemption(t)
      BY <2>1 DEF RevokeRedemption, Goto
    <2>2. CASE LockSourced(t)
      <3>1. tx[t].at = "rows" => tx = [tx EXCEPT ![t].at = "rows"]
        BY <1>1 DEF Typed, TxState
      <3> QED
        BY <2>2, <3>1 DEF LockSourced, Goto, At
    <2>3. CASE RevokeUser(t)
      BY <2>3 DEF RevokeUser, Goto
    <2> QED
      BY <2>1, <2>2, <2>3
  <1>3. /\ tx' \in [Tx -> TxState] /\ tx'[t].at = label
        /\ \A x \in Tx \ {t} : tx'[x] = tx[x]
    BY <1>1, <1>2 DEF Typed, TxState, Label
  <1>4. /\ lock' \in [Row -> Tx \cup {NoOne}]
        /\ \A r \in Row : lock'[r] = lock[r] \/ (lock[r] \in {NoOne, t} /\ lock'[r] = t)
    <2>1. CASE RevokeRedemption(t)
      BY <1>1, <2>1, LockMoves DEF RevokeRedemption
    <2>2. CASE LockSourced(t)
      <3>1. CASE lock' = lock
        BY <1>1, <3>1 DEF Typed
      <3>2. CASE lock' # lock
        <4>1. PICK e \in Sourced(t) : lock[e] = NoOne /\ Lock(e, t)
          BY <2>2, <3>2 DEF LockSourced
        <4>2. e \in Row /\ Free(e, t)
          BY <4>1 DEF Sourced, Row, Free
        <4> QED
          BY <1>1, <4>1, <4>2, LockMoves
      <3> QED
        BY <3>1, <3>2
    <2>3. CASE RevokeUser(t)
      BY <1>1, <2>3, LockMoves DEF RevokeUser
    <2> QED
      BY <2>1, <2>2, <2>3
  <1> QED
    BY <1>3, <1>4 DEF Moves, RevokeRedemption, LockSourced, RevokeUser

LEMMA RevokeStepKeeps ==
  ASSUME IInv, NEW t \in Revoke,
         RevokeRedemption(t) \/ LockSourced(t) \/ RevokeUser(t)
  PROVE  IInv'
  <1>1. /\ Typed /\ t \in Tx /\ t \in OnCode /\ t \notin Redeem \cup Distribute
        /\ CodeOf(t) \in Row
    BY Kinds, RowsApart DEF IInv, OnCode, Tx
  <1>2. Moves(t) /\ tx'[t].at \in {"rows", "user", "commit"}
    BY RevokeStepMoves
  <1>3. lock'[CodeOf(t)] = t /\ Found(t)
    <2>1. CASE RevokeRedemption(t)
      BY <1>1, <2>1, LockMoves DEF RevokeRedemption, Found
    <2>2. CASE tx[t].at # "idle"
      BY <1>1, <1>2, <2>2, LockedKeeps
    <2> QED
      BY <2>1, <2>2 DEF LockSourced, RevokeUser, At
  <1> QED
    BY <1>1, <1>2, <1>3, MovesKeep

-----------------------------------------------------------------------------
(* The end of a transaction                                                *)

Leaves(t) ==
    /\ \E label \in {"idle", "over"} :
         /\ tx' = [tx EXCEPT ![t] = [Idle EXCEPT !.at = label]]
         /\ t \in OnCode => label = "idle"
    /\ lock' = Unlocked(t)

LEMMA LeavesKeep ==
  ASSUME IInv, NEW t \in Tx, Leaves(t)
  PROVE  /\ tx' \in [Tx -> TxState] /\ lock' \in [Row -> Tx \cup {NoOne}]
         /\ Granting' /\ OfRevoke' /\ Holding'
         /\ \A x \in OnCode : Under(x)' => x # t /\ Under(x)
  <1>1. PICK label \in {"idle", "over"} :
          /\ tx' = [tx EXCEPT ![t] = [Idle EXCEPT !.at = label]]
          /\ t \in OnCode => label = "idle"
    BY DEF Leaves
  <1>2. Typed /\ [Idle EXCEPT !.at = label] \in TxState /\ [Idle EXCEPT !.at = label].at = label
    BY DEF IInv, Idle, TxState, Label
  <1>3. /\ tx' \in [Tx -> TxState] /\ tx'[t].at = label
        /\ \A x \in Tx \ {t} : tx'[x] = tx[x]
    BY <1>1, <1>2 DEF Typed
  <1>4. lock' \in [Row -> Tx \cup {NoOne}]
    BY <1>2 DEF Leaves, Unlocked, Typed
  <1>5. Granting'
    BY <1>3 DEF IInv, Granting, Tx, GrantsOf, CodeOf
  <1>6. OfRevoke'
    BY <1>1, <1>3 DEF IInv, OfRevoke, Tx, OnCode
  <1>7. \A x \in OnCode : Under(x)' => x # t /\ Under(x)
    BY <1>1, <1>3, RowsApart DEF Under
  <1>8. Holding'
    BY <1>7, RowsApart DEF IInv, Holding, Leaves, Unlocked, CodeOf
  <1> QED
    BY <1>3, <1>4, <1>5, <1>6, <1>7, <1>8

\* One that changes no row.
LEMMA AbortKeeps ==
  ASSUME IInv, NEW t \in Tx, Leaves(t), UNCHANGED <<rows, day>>
  PROVE  IInv'
  <1>1. Typed'
    BY LeavesKeep DEF IInv, Typed, rows
  <1>2. Ready'
    <2>1. \A x \in OnCode : Found(x)' <=> Found(x)
      BY DEF Found, rows, CodeOf
    <2> QED
      BY <2>1, LeavesKeep DEF IInv, Ready
  <1>3. UsesCounted'
    BY DEF IInv, UsesCounted, rows
  <1> QED
    BY <1>1, <1>2, <1>3, LeavesKeep DEF IInv

LEMMA EndLeaves ==
  ASSUME NEW t \in Tx, End(t)
  PROVE  Leaves(t)
  BY Kinds DEF End, Leaves

LEMMA InsertEntitlementKeeps ==
  ASSUME IInv, NEW t \in Tx, InsertEntitlement(t)
  PROVE  IInv'
  <1>1. /\ Typed /\ Granting /\ t \notin Revoke /\ t \in Redeem \cup Distribute
        /\ tx[t] \in TxState /\ tx[t].at = "insert"
    BY Kinds DEF IInv, Typed, OfRevoke, InsertEntitlement, At
  <1> DEFINE e == EntitlementOf(t)
  <1>2. CASE ent[e].there
    BY <1>1, <1>2, EndLeaves, AbortKeeps DEF InsertEntitlement, Abort
  <1>3. CASE ~ent[e].there
    <2>1. Free(e, t) /\ Lock(e, t) /\ WriteEnd(t, 0) /\ e \in Row
      BY <1>1, <1>3, AtGrant DEF InsertEntitlement, Row
    <2>2. /\ tx' \in [Tx -> TxState]
          /\ tx'[t].at \in {"user", "entitlement", "commit"}
          /\ tx'[t].at # "commit" => tx'[t].grant \in DOMAIN GrantsOf(t)
          /\ \A x \in Tx \ {t} : tx'[x] = tx[x]
      BY <1>1, <2>1, WriteEndTyped
    <2>3. Moves(t)
      BY <1>1, <1>3, <2>1, <2>2, LockMoves DEF Moves, InsertEntitlement
    <2> QED
      BY <1>1, <2>2, <2>3, LockedKeeps, MovesKeep
  <1> QED
    BY <1>2, <1>3

LEMMA RollBackKeeps ==
  ASSUME IInv, NEW t \in Tx, RollBack(t)
  PROVE  IInv'
  <1>1. Idle = [Idle EXCEPT !.at = "idle"]
    BY DEF Idle
  <1>2. Leaves(t)
    BY <1>1 DEF RollBack, Leaves
  <1> QED
    BY <1>2, AbortKeeps DEF RollBack

\* No two transactions that are under way have the same code.
LEMMA OneOnCode ==
  ASSUME IInv, NEW t \in OnCode, NEW x \in OnCode, Under(t), Under(x), x # t
  PROVE  CodeOf(x) # CodeOf(t) /\ x[2] # t[2]
  BY DEF IInv, Holding, CodeOf

Made(c) == {u \in User : redemption[<<c, u>>] = "made"}

LEMMA MadeFinite ==
  ASSUME NEW c \in Code
  PROVE  IsFiniteSet(Made(c)) /\ Cardinality(Made(c)) \in Nat
  <1>1. Made(c) \in SUBSET User
    BY DEF Made
  <1> QED
    BY <1>1, UserAssumption, FS_Subset, FS_CardinalityType

\* What a commit of a redemption or a revocation leaves to show: its own
\* code is counted.
LEMMA CommitKeeps ==
  ASSUME IInv, NEW t \in OnCode, Under(t), Leaves(t), day' = day,
         NEW status \in {"made", "revoked"}, NEW n \in Nat,
         redemption' = [redemption EXCEPT ![t[2]] = status],
         code' = [code EXCEPT ![CodeOf(t)].used = n],
         member' \in [User -> Nat], ent' \in [User \X Scope -> EntRow],
         n = Cardinality(Made(CodeOf(t))'), n <= MaxUses[CodeOf(t)]
  PROVE  IInv'
  <1>1. /\ Typed /\ t \in Tx /\ CodeOf(t) \in Code /\ t[2] \in Redemption
        /\ UserOf(t) \in User
    BY Kinds, RowsApart DEF IInv
  <1>2. Typed'
    <2>1. code' \in [Code -> CodeRow]
      BY <1>1 DEF Typed, CodeRow
    <2>2. redemption' \in [Redemption -> {"none", "made", "revoked"}]
      BY <1>1 DEF Typed
    <2> QED
      BY <1>1, <2>1, <2>2, LeavesKeep DEF Typed
  <1>3. Ready'
    <2> SUFFICES ASSUME NEW x \in OnCode, Under(x)' PROVE Found(x)'
      BY DEF Ready
    <2>1. x # t /\ Under(x)
      BY <1>1, LeavesKeep
    <2>2. Found(x) /\ CodeOf(x) # CodeOf(t) /\ x[2] # t[2]
      BY <2>1, OneOnCode DEF IInv, Ready
    <2>3. x[2] \in Redemption /\ CodeOf(x) \in Code
      BY RowsApart, Kinds
    <2>4. redemption'[x[2]] = redemption[x[2]] /\ code'[CodeOf(x)].used = code[CodeOf(x)].used
      BY <1>1, <2>2, <2>3 DEF Typed
    <2> QED
      BY <2>2, <2>4 DEF Found, CodeOf
  <1>4. UsesCounted'
    <2> SUFFICES ASSUME NEW c \in Code
                 PROVE  /\ code'[c].used = Cardinality(Made(c)')
                        /\ code'[c].used <= MaxUses[c]
      BY DEF UsesCounted, Made
    <2>1. CASE c = CodeOf(t)
      BY <1>1, <2>1 DEF Typed, CodeRow
    <2>2. CASE c # CodeOf(t)
      <3>1. code'[c] = code[c]
        BY <1>1, <2>2 DEF Typed
      <3>2. Made(c)' = Made(c)
        <4>1. \A u \in User : <<c, u>> # t[2] /\ <<c, u>> \in Redemption
          BY <2>2 DEF CodeOf, Redemption
        <4> QED
          BY <1>1, <4>1 DEF Made, Typed
      <3> QED
        BY <3>1, <3>2 DEF IInv, UsesCounted, Made
    <2> QED
      BY <2>1, <2>2
  <1> QED
    BY <1>1, <1>2, <1>3, <1>4, LeavesKeep DEF IInv

LEMMA OwnRedemption ==
  ASSUME NEW t \in OnCode
  PROVE  t[2] = <<CodeOf(t), UserOf(t)>> /\ UserOf(t) \in User
  BY Kinds, RowsApart DEF OnCode, Redeem, Revoke, Redemption, CodeOf, UserOf

LEMMA MemberTyped ==
  ASSUME IInv, NEW t \in Tx
  PROVE  /\ [member EXCEPT ![UserOf(t)] = Seen(tx[t].member, @)] \in [User -> Nat]
         /\ [member EXCEPT ![UserOf(t)] = 0] \in [User -> Nat]
  BY Kinds DEF IInv, Typed, TxState, Seen

LEMMA AppliedTyped ==
  ASSUME IInv, NEW t \in Tx
  PROVE  Applied(t) \in [User \X Scope -> EntRow]
  <1> SUFFICES ASSUME NEW e \in User \X Scope PROVE Applied(t)[e] \in EntRow
    BY DEF Applied
  <1>1. e[2] \in Scope /\ tx[t].ends[e[2]] \in Nat /\ ent[e] \in EntRow
    BY DEF IInv, Typed, TxState
  <1>2. t \in Redeem => t[2] \in Redemption
    BY Kinds DEF OnCode
  <1> QED
    BY <1>1, <1>2 DEF Applied, EntRow

LEMMA CommitGrantsKeeps ==
  ASSUME IInv, NEW t \in Tx, CommitGrants(t)
  PROVE  IInv'
  <1>1. /\ Typed /\ t \in Redeem \cup Distribute /\ Leaves(t) /\ day' = day
        /\ UserOf(t) \in User /\ tx[t].at = "commit"
    BY Kinds, EndLeaves DEF IInv, CommitGrants, At
  <1>2. member' \in [User -> Nat] /\ ent' \in [User \X Scope -> EntRow]
    BY MemberTyped, AppliedTyped DEF CommitGrants
  <1>3. CASE t \in Redeem
    <2> DEFINE c == CodeOf(t)
               u == UserOf(t)
    <2>1. t \in OnCode /\ Under(t) /\ c \in Code /\ t[2] = <<c, u>> /\ t[2] \in Redemption
      BY <1>1, <1>3, OwnRedemption, Kinds DEF OnCode, Under
    <2>2. redemption[t[2]] = "none" /\ code[c].used < MaxUses[c]
      BY <1>3, <2>1 DEF IInv, Ready, Found
    <2>3. /\ code[c].used \in Nat /\ MaxUses[c] \in Nat
          /\ code[c].used = Cardinality(Made(c))
      BY <2>1, UsesAssumption DEF IInv, Typed, CodeRow, UsesCounted, Made
    <2>4. /\ redemption' = [redemption EXCEPT ![t[2]] = "made"]
          /\ code' = [code EXCEPT ![c].used = code[c].used + 1]
      BY <1>3, <2>1, <2>3 DEF CommitGrants
    <2>5. Made(c)' = Made(c) \cup {u} /\ u \notin Made(c)
      <3>1. \A x \in User : redemption'[<<c, x>>] = IF x = u THEN "made" ELSE redemption[<<c, x>>]
        BY <1>1, <2>1, <2>4 DEF Typed, Redemption
      <3> QED
        BY <1>1, <2>1, <2>2, <3>1 DEF Made
    <2>6. code[c].used + 1 = Cardinality(Made(c)')
      BY <2>1, <2>3, <2>5, MadeFinite, FS_AddElement
    <2>7. code[c].used + 1 \in Nat /\ code[c].used + 1 <= MaxUses[c]
      BY <2>2, <2>3
    <2> QED
      BY <1>1, <1>2, <2>1, <2>4, <2>6, <2>7, CommitKeeps
  <1>4. CASE t \notin Redeem
    <2>1. redemption' = redemption /\ code' = code
      BY <1>4 DEF CommitGrants
    <2>2. Typed'
      BY <1>1, <1>2, <2>1, LeavesKeep DEF Typed
    <2>3. Ready'
      <3>1. \A x \in OnCode : Found(x)' <=> Found(x)
        BY <2>1 DEF Found, CodeOf
      <3> QED
        BY <1>1, <3>1, LeavesKeep DEF IInv, Ready
    <2>4. UsesCounted'
      BY <2>1 DEF IInv, UsesCounted
    <2> QED
      BY <1>1, <2>2, <2>3, <2>4, LeavesKeep DEF IInv
  <1> QED
    BY <1>3, <1>4

LEMMA CommitRevokeKeeps ==
  ASSUME IInv, NEW t \in Revoke, CommitRevoke(t)
  PROVE  IInv'
  <1> DEFINE c == CodeOf(t)
             u == UserOf(t)
  <1>1. /\ Typed /\ t \in Tx /\ t \in OnCode /\ t \notin Redeem /\ Leaves(t) /\ day' = day
        /\ Under(t) /\ c \in Code /\ t[2] = <<c, u>> /\ t[2] \in Redemption /\ u \in User
    BY OwnRedemption, Kinds, EndLeaves DEF IInv, CommitRevoke, At, Under, OnCode, Tx
  <1>2. member' \in [User -> Nat]
    BY <1>1, MemberTyped DEF CommitRevoke, Typed
  <1>3. ent' \in [User \X Scope -> EntRow]
    BY <1>1 DEF CommitRevoke, Typed, EntRow
  <1>4. redemption[t[2]] = "made"
    BY <1>1 DEF IInv, Ready, Found
  <1>5. /\ code[c].used \in Nat /\ MaxUses[c] \in Nat
        /\ code[c].used = Cardinality(Made(c)) /\ code[c].used <= MaxUses[c]
    BY <1>1, UsesAssumption DEF IInv, Typed, CodeRow, UsesCounted, Made
  <1>6. redemption' = [redemption EXCEPT ![t[2]] = "revoked"]
    BY DEF CommitRevoke
  <1>7. Made(c)' = Made(c) \ {u} /\ u \in Made(c)
    <2>1. \A x \in User : redemption'[<<c, x>>] = IF x = u THEN "revoked" ELSE redemption[<<c, x>>]
      BY <1>1, <1>6 DEF Typed, Redemption
    <2> QED
      BY <1>1, <1>4, <2>1 DEF Made
  <1>8. code[c].used # 0 /\ code[c].used - 1 = Cardinality(Made(c)')
    <2>1. Cardinality(Made(c)') = Cardinality(Made(c)) - 1 /\ Cardinality(Made(c)') \in Nat
      BY <1>1, <1>7, MadeFinite, FS_RemoveElement, FS_CardinalityType
    <2> QED
      BY <1>1, <1>5, <2>1, MadeFinite
  <1>9. code' = [code EXCEPT ![c].used = code[c].used - 1]
    BY <1>1, <1>8 DEF CommitRevoke, Typed
  <1>10. code[c].used - 1 \in Nat /\ code[c].used - 1 <= MaxUses[c]
    BY <1>5, <1>8
  <1> QED
    BY <1>1, <1>2, <1>3, <1>6, <1>8, <1>9, <1>10, CommitKeeps

-----------------------------------------------------------------------------
(* Steps of nobody's transaction                                           *)

LEMMA VoidKeeps ==
  ASSUME IInv, NEW c \in Code, Void(c)
  PROVE  IInv'
  <1>1. Typed /\ Typed'
    BY DEF IInv, Typed, Void, CodeRow
  <1>2. \A x \in Code : code'[x].used = code[x].used
    BY <1>1 DEF Void, Typed, CodeRow
  <1>3. Ready'
    <2>1. \A x \in OnCode : Found(x)' <=> Found(x)
      BY <1>2, RowsApart DEF Found, Void, CodeOf
    <2> QED
      BY <2>1 DEF IInv, Ready, Void, Under
  <1>4. UsesCounted'
    BY <1>2 DEF IInv, UsesCounted, Void
  <1> QED
    BY <1>1, <1>3, <1>4 DEF IInv, Granting, OfRevoke, Holding, Void, Under, GrantsOf, CodeOf

LEMMA OtherKeeps ==
  ASSUME IInv, UNCHANGED <<code, redemption, ent, lock, tx>>,
         member' \in [User -> Nat], day' \in Nat
  PROVE  IInv'
  <1>1. Typed'
    BY DEF IInv, Typed
  <1>2. Ready' /\ UsesCounted'
    BY DEF IInv, Ready, Found, Under, UsesCounted, CodeOf
  <1> QED
    BY <1>1, <1>2 DEF IInv, Granting, OfRevoke, Holding, Under, GrantsOf, CodeOf

LEMMA PayKeeps ==
  ASSUME IInv, NEW p \in Purchase, Pay(p)
  PROVE  IInv'
  <1>1. Buyer[p] \in User /\ Bought[p] \in Nat /\ Typed
    BY PurchaseAssumption DEF IInv
  <1>2. member[Buyer[p]] \in Nat
    BY <1>1 DEF Typed
  <1>3. Extended(member[Buyer[p]], Bought[p]) \in Nat
    BY <1>1, <1>2, ExtendedTyped
  <1>4. member' = [member EXCEPT ![Buyer[p]] = Extended(member[Buyer[p]], Bought[p])]
    BY <1>1 DEF Pay, Typed
  <1>5. member' \in [User -> Nat]
    BY <1>1, <1>3, <1>4 DEF Typed
  <1> QED
    BY <1>1, <1>5, OtherKeeps DEF Pay, Typed

LEMMA TickKeeps ==
  ASSUME IInv, Tick
  PROVE  IInv'
  BY OtherKeeps DEF IInv, Typed, Tick, rows

-----------------------------------------------------------------------------

LEMMA InitIInv == Init => IInv
  <1> SUFFICES ASSUME Init PROVE IInv
    OBVIOUS
  <1>1. \A t \in Tx : tx[t].at = "idle"
    BY DEF Init, Idle
  <1>2. Granting /\ OfRevoke /\ Holding /\ Ready
    BY <1>1, RowsApart DEF Granting, OfRevoke, Holding, Ready, Under, Tx
  <1>3. UsesCounted
    <2> SUFFICES ASSUME NEW c \in Code
                 PROVE code[c].used = Cardinality(Made(c)) /\ code[c].used <= MaxUses[c]
      BY DEF UsesCounted, Made
    <2>1. Made(c) = {}
      BY DEF Init, Made, Redemption
    <2>2. code[c].used = 0 /\ MaxUses[c] \in Nat
      BY UsesAssumption DEF Init
    <2> QED
      BY <2>1, <2>2, FS_EmptySet
  <1> QED
    BY <1>2, <1>3, InitTyped DEF IInv

LEMMA StepIInv == IInv /\ [Next]_vars => IInv'
  <1> SUFFICES ASSUME IInv, [Next]_vars PROVE IInv'
    OBVIOUS
  <1>1. ASSUME NEW t \in Tx,
               LockUser(t) \/ LockEntitlement(t) \/ InsertEntitlement(t) \/ CommitGrants(t)
        PROVE  IInv'
    BY <1>1, LockUserKeeps, LockEntitlementKeeps, InsertEntitlementKeeps, CommitGrantsKeeps
  <1>2. ASSUME NEW t \in Revoke,
               RevokeRedemption(t) \/ LockSourced(t) \/ RevokeUser(t) \/ CommitRevoke(t)
        PROVE  IInv'
    BY <1>2, RevokeStepKeeps, CommitRevokeKeeps
  <1>3. CASE UNCHANGED vars
    BY <1>3, OtherKeeps DEF IInv, Typed, vars, rows
  <1> QED
    BY <1>1, <1>2, <1>3, RedeemKeeps, GiftKeeps, RollBackKeeps, VoidKeeps, PayKeeps, TickKeeps
    DEF Next

\* The counter of a code is the number of its redemptions, and never above
\* the limit (redeem.service.ts, redeemCodeByAppSlug and
\* revokeCodeRedemptionByAppId).
THEOREM CodesAreCounted == Spec => []UsesCounted
  <1>1. IInv => UsesCounted
    BY DEF IInv
  <1> QED
    BY <1>1, InitIInv, StepIInv, PTL DEF Spec

\* The days that pass and the orders that are paid.
Elapsed == day \in 0 .. MaxDay /\ paid \subseteq Purchase

LEMMA InitElapsed == Init => Elapsed
  BY DayAssumption DEF Init, Elapsed

LEMMA StepElapsed == Elapsed /\ [Next]_vars => Elapsed'
  <1> SUFFICES ASSUME Elapsed, [Next]_vars PROVE Elapsed'
    OBVIOUS
  <1>1. CASE Tick
    BY <1>1, DayAssumption DEF Tick, Elapsed
  <1>2. ASSUME NEW p \in Purchase, Pay(p) PROVE Elapsed'
    BY <1>2 DEF Pay, Elapsed
  <1>3. ASSUME NEW t \in Tx,
               \/ LockUser(t) \/ LockEntitlement(t) \/ InsertEntitlement(t) \/ CommitGrants(t)
               \/ RedeemCode(t) \/ StartGift(t) \/ RollBack(t)
        PROVE  Elapsed'
    BY <1>3 DEF LockUser, LockEntitlement, InsertEntitlement, CommitGrants, RedeemCode, StartGift,
                RollBack, Elapsed
  <1>4. ASSUME NEW t \in Tx,
               RevokeRedemption(t) \/ LockSourced(t) \/ RevokeUser(t) \/ CommitRevoke(t)
        PROVE  Elapsed'
    BY <1>4 DEF RevokeRedemption, LockSourced, RevokeUser, CommitRevoke, Elapsed
  <1>5. ASSUME NEW c \in Code, Void(c) PROVE Elapsed'
    BY <1>5 DEF Void, Elapsed
  <1>6. CASE UNCHANGED vars
    BY <1>6 DEF vars, Elapsed
  <1> QED
    BY <1>1, <1>2, <1>3, <1>4, <1>5, <1>6 DEF Next, Tx

\* The tables, the locks and the transactions of RedeemCodes are well typed.
THEOREM CodesTyped == Spec => []TypeOK
  <1>1. IInv /\ Elapsed => TypeOK
    <2> SUFFICES ASSUME IInv, Elapsed PROVE TypeOK
      OBVIOUS
    <2>1. Typed /\ Elapsed
      BY DEF IInv
    <2>2. ASSUME NEW c \in Code
          PROVE  code[c] \in [status : {"active", "voided"}, used : 0 .. MaxUses[c]]
      <3>1. code[c] \in CodeRow /\ code[c].used <= MaxUses[c] /\ MaxUses[c] \in Nat
        BY UsesAssumption DEF IInv, Typed, UsesCounted
      <3> QED BY <3>1 DEF CodeRow
    <2> QED
      BY <2>1, <2>2 DEF Typed, Elapsed, TypeOK, EntRow, TxState, Label
  <1> QED
    BY <1>1, InitIInv, StepIInv, InitElapsed, StepElapsed, PTL DEF Spec

-----------------------------------------------------------------------------
(* The days.  A transaction writes the ends of the memberships it extends  *)
(* from the rows it has locked; an end it has written is the row's, and    *)
(* the days of the grants it is past.  No other transaction, order or      *)
(* revocation changes such a row before the commit.                        *)

GrantDays(t) == [i \in DOMAIN GrantsOf(t) |-> GrantsOf(t)[i].days]
Before(t, s, n) == {i \in DOMAIN GrantsOf(t) : i < n /\ GrantsOf(t)[i].scope = s}

\* The days of the grants before the n-th.
Given(t, s, n) == SumFunctionOnSet(GrantDays(t), Before(t, s, n))

EndOK(t, s) ==
    LET e == <<UserOf(t), s>>
        given == Given(t, s, tx[t].grant)
    IN  IF tx[t].ends[s] = 0 THEN given = 0
        ELSE lock[e] = t /\ tx[t].ends[s] = Extended(ent[e].expires, given)

\* The user's row is written before the entitlement of the same grant.
UserNext(t) == IF tx[t].at \in {"entitlement", "insert"} THEN tx[t].grant + 1 ELSE tx[t].grant

UserOK(t) ==
    LET given == Given(t, "app_membership", UserNext(t)) IN
    IF tx[t].member = 0 THEN given = 0
    ELSE lock[UserOf(t)] = t /\ tx[t].member = Extended(member[UserOf(t)], given)

WrittenOK(t) ==
    IF tx[t].at \in {"idle", "over"} THEN tx[t].member = 0 /\ \A s \in Scope : tx[t].ends[s] = 0
    ELSE UserOK(t) /\ \A s \in Scope : EndOK(t, s)

PlaceOK(t) ==
    /\ At(t, "user") => GrantOf(t).scope = "app_membership"
    /\ At(t, "insert") => tx[t].ends[GrantOf(t).scope] = 0
    /\ At(t, "commit") => tx[t].grant > Len(GrantsOf(t))

\* A revocation has the user's row when it takes the membership on it.
RevokeOK(t) ==
    At(t, "commit") /\ <<UserOf(t), "app_membership">> \in Sourced(t) => lock[UserOf(t)] = t

TransactionsOK ==
    /\ \A t \in Redeem \cup Distribute : WrittenOK(t) /\ PlaceOK(t)
    /\ \A t \in Revoke : RevokeOK(t)

HistoryTyped ==
    /\ owed \in [User \X Scope -> Nat]
    /\ due \in [User -> Nat] /\ bought \in [User -> Nat] /\ revocations \in [User -> Nat]

RowsOK == \A e \in User \X Scope : ~ent[e].there => ent[e].expires = 0

EndsAccounted == \A e \in User \X Scope : Remaining(ent[e].expires, day) = owed[e]

\* What is due is what is left on the user's row, up to the first revocation
\* and after it; before it, it is what was bought and what the entitlement has.
UserAccounted(u) ==
    /\ revocations[u] <= 1 => Remaining(member[u], day) = due[u] /\ bought[u] <= due[u]
    /\ revocations[u] = 0 => due[u] = owed[<<u, "app_membership">>] + bought[u]

Accounted == EndsAccounted /\ \A u \in User : UserAccounted(u)

DaysInv == HistoryTyped /\ TransactionsOK /\ RowsOK /\ Accounted

\* Sums of days.
LEMMA GrantFacts ==
  ASSUME NEW t \in Redeem \cup Distribute, NEW s, NEW n
  PROVE  /\ IsFiniteSet(Before(t, s, n))
         /\ \A i \in Before(t, s, n) : GrantDays(t)[i] \in Nat
         /\ Given(t, s, n) \in Nat
  <1>1. Before(t, s, n) \subseteq 1 .. Len(GrantsOf(t)) /\ Len(GrantsOf(t)) \in Nat
    BY GrantList DEF Before
  <1>2. IsFiniteSet(1 .. Len(GrantsOf(t)))
    BY <1>1, FS_Interval
  <1>3. IsFiniteSet(Before(t, s, n))
    BY <1>1, <1>2, FS_Subset
  <1>4. \A i \in Before(t, s, n) : GrantDays(t)[i] \in Nat
    BY GrantList DEF Before, GrantDays
  <1> QED
    BY <1>3, <1>4, SumNat DEF Given

LEMMA GivenFirst ==
  ASSUME NEW t \in Redeem \cup Distribute, NEW s
  PROVE  Given(t, s, 1) = 0
  <1>1. Before(t, s, 1) = {}
    BY GrantList DEF Before
  <1> QED
    BY <1>1, SumEmpty DEF Given

LEMMA GivenNext ==
  ASSUME NEW t \in Redeem \cup Distribute, NEW s, NEW i \in DOMAIN GrantsOf(t)
  PROVE  Given(t, s, i + 1) =
           IF GrantsOf(t)[i].scope = s THEN Given(t, s, i) + GrantsOf(t)[i].days
           ELSE Given(t, s, i)
  <1>1. i \in Nat /\ \A j \in DOMAIN GrantsOf(t) : j \in Nat
    BY GrantList
  <1>2. CASE GrantsOf(t)[i].scope = s
    <2>1. Before(t, s, i + 1) = Before(t, s, i) \cup {i} /\ i \notin Before(t, s, i)
      BY <1>1, <1>2 DEF Before
    <2>2. GrantDays(t)[i] = GrantsOf(t)[i].days /\ GrantDays(t)[i] \in Nat
      BY GrantList DEF GrantDays
    <2>3. \A j \in Before(t, s, i) \cup {i} : GrantDays(t)[j] \in Int
      BY <2>2, GrantFacts
    <2>4. Given(t, s, i + 1) = GrantDays(t)[i] + Given(t, s, i)
      BY <2>1, <2>3, GrantFacts, SumAdd DEF Given
    <2> QED
      BY <1>2, <2>2, <2>4, GrantFacts
  <1>3. CASE GrantsOf(t)[i].scope # s
    <2>1. Before(t, s, i + 1) = Before(t, s, i)
      BY <1>1, <1>3 DEF Before
    <2> QED
      BY <1>3, <2>1 DEF Given
  <1> QED
    BY <1>2, <1>3

LEMMA GivenAll ==
  ASSUME NEW t \in Redeem \cup Distribute, NEW s, NEW n \in Nat, n > Len(GrantsOf(t))
  PROVE  Given(t, s, n) = Days(t, s)
  <1>1. Before(t, s, n) = {i \in DOMAIN GrantsOf(t) : GrantsOf(t)[i].scope = s}
    BY GrantList DEF Before
  <1> QED
    BY <1>1 DEF Given, Days, GrantDays

\* Days on top of days.
LEMMA ExtendedMore ==
  ASSUME day \in Nat, NEW a \in Nat, NEW b \in Nat, NEW d \in Nat
  PROVE  /\ Extended(a, d) \in Nat /\ Extended(a, d) >= d
         /\ Extended(Extended(a, b), d) = Extended(a, b + d)
         /\ Remaining(a, day) \in Nat
         /\ Remaining(Extended(a, d), day) = Remaining(a, day) + d
  BY DEF Extended, Remaining, Later

\* What is written next, on what was written before or on the row.
LEMMA WriteMore ==
  ASSUME day \in Nat, NEW own \in Nat, NEW stored \in Nat, NEW given \in Nat, NEW d \in Nat \ {0},
         own = 0 => given = 0, own # 0 => own = Extended(stored, given)
  PROVE  /\ Extended(Seen(own, stored), d) = Extended(stored, given + d)
         /\ Extended(Seen(own, stored), d) # 0
  <1>a. d \in Nat /\ d # 0 /\ given + d \in Nat
    OBVIOUS
  <1>1. PICK n \in Nat : n = given + d
    BY <1>a
  <1>2. Extended(stored, n) >= n /\ Extended(stored, n) \in Nat /\ n # 0
    BY <1>a, <1>1 DEF Extended, Later
  <1>3. Extended(Seen(own, stored), d) = Extended(stored, n)
    <2>1. CASE own = 0
      BY <1>1, <2>1 DEF Seen
    <2>2. CASE own # 0
      <3>1. d \in Nat /\ Extended(Extended(stored, given), d) = Extended(stored, given + d)
        BY ExtendedMore
      <3> QED
        BY <1>1, <2>2, <3>1 DEF Seen
    <2> QED
      BY <2>1, <2>2
  <1> QED
    BY <1>1, <1>2, <1>3

-----------------------------------------------------------------------------
(* A step of a transaction that is not its last keeps what the others wrote *)

\* What is written, in the next state.
LEMMA EndNext ==
  ASSUME NEW t, NEW s
  PROVE  EndOK(t, s)' <=>
           IF tx'[t].ends[s] = 0 THEN Given(t, s, tx'[t].grant) = 0
           ELSE /\ lock'[<<UserOf(t), s>>] = t
                /\ tx'[t].ends[s] =
                     Later(ent'[<<UserOf(t), s>>].expires, day') + Given(t, s, tx'[t].grant)
  BY DEF EndOK, Given, GrantDays, Before, GrantsOf, CodeOf, UserOf, Extended, Later

LEMMA UserNextIs ==
  ASSUME NEW t
  PROVE  UserOK(t)' <=>
           IF tx'[t].member = 0 THEN Given(t, "app_membership", UserNext(t)') = 0
           ELSE /\ lock'[UserOf(t)] = t
                /\ tx'[t].member =
                     Later(member'[UserOf(t)], day') + Given(t, "app_membership", UserNext(t)')
  BY DEF UserOK, Given, GrantDays, Before, GrantsOf, CodeOf, UserOf, Extended, Later

LEMMA OtherWritten ==
  ASSUME IInv, NEW t \in Tx, Moves(t), NEW x \in Redeem \cup Distribute, x # t, WrittenOK(x), PlaceOK(x)
  PROVE  WrittenOK(x)' /\ PlaceOK(x)'
  <1>1. /\ x \in Tx /\ UserOf(x) \in Row /\ \A s \in Scope : <<UserOf(x), s>> \in Row
    BY Kinds DEF Tx, Row
  <1>2. tx'[x] = tx[x] /\ UNCHANGED <<ent, member, day>>
    BY <1>1 DEF Moves, rows
  <1>3. \A r \in Row : lock[r] = x => lock'[r] = x
    BY <1>1, NothingAssumption DEF Moves, NoOne
  <1>4. \A s \in Scope : EndOK(x, s) => EndOK(x, s)'
    BY <1>1, <1>2, <1>3 DEF EndOK, Extended, Given, GrantDays, Before, GrantsOf, CodeOf, UserOf
  <1>5. UserOK(x) => UserOK(x)'
    BY <1>1, <1>2, <1>3
    DEF UserOK, UserNext, Extended, Given, GrantDays, Before, GrantsOf, CodeOf, UserOf
  <1> QED
    BY <1>2, <1>4, <1>5 DEF WrittenOK, PlaceOK, At, GrantOf, GrantsOf, CodeOf

LEMMA OtherRevoke ==
  ASSUME IInv, NEW t \in Tx, Moves(t), NEW x \in Revoke, x # t, RevokeOK(x)
  PROVE  RevokeOK(x)'
  <1>1. x \in Tx /\ UserOf(x) \in Row
    BY Kinds DEF Tx, Row
  <1>2. tx'[x] = tx[x] /\ ent' = ent
    BY <1>1 DEF Moves, rows
  <1>3. lock[UserOf(x)] = x => lock'[UserOf(x)] = x
    BY <1>1, NothingAssumption DEF Moves, NoOne
  <1> QED
    BY <1>1, <1>2, <1>3 DEF RevokeOK, At, Sourced, UserOf

\* The invariant after such a step: what the transaction itself has written.
LEMMA MovesDays ==
  ASSUME IInv, DaysInv, NEW t \in Tx, Moves(t), UNCHANGED history,
         t \in Redeem \cup Distribute => WrittenOK(t)' /\ PlaceOK(t)',
         t \in Revoke => RevokeOK(t)'
  PROVE  DaysInv'
  <1>1. TransactionsOK'
    <2>1. \A x \in Redeem \cup Distribute : WrittenOK(x)' /\ PlaceOK(x)'
      BY OtherWritten DEF DaysInv, TransactionsOK
    <2>2. \A x \in Revoke : RevokeOK(x)'
      BY OtherRevoke DEF DaysInv, TransactionsOK
    <2> QED
      BY <2>1, <2>2 DEF TransactionsOK, Redeem, Distribute, Revoke
  <1>2. HistoryTyped' /\ RowsOK' /\ Accounted'
    BY DEF DaysInv, HistoryTyped, RowsOK, Accounted, EndsAccounted, UserAccounted, Remaining, Later,
           Moves, rows, history
  <1> QED
    BY <1>1, <1>2 DEF DaysInv

LEMMA ToGrantIs ==
  ASSUME NEW t \in Redeem \cup Distribute, NEW i \in Nat \ {0}, NEW w \in TxState,
         Typed, ToGrant(t, i, w)
  PROVE  /\ tx'[t].ends = w.ends /\ tx'[t].member = w.member /\ tx'[t].grant = i
         /\ \/ i > Len(GrantsOf(t)) /\ tx'[t].at = "commit"
            \/ /\ i \in DOMAIN GrantsOf(t) /\ GrantsOf(t)[i].scope = "app_membership"
               /\ tx'[t].at = "user"
            \/ /\ i \in DOMAIN GrantsOf(t) /\ GrantsOf(t)[i].scope # "app_membership"
               /\ tx'[t].at = "entitlement"
  <1> DEFINE label == IF i > Len(GrantsOf(t)) THEN "commit"
                      ELSE IF GrantsOf(t)[i].scope = "app_membership" THEN "user"
                      ELSE "entitlement"
             new == [w EXCEPT !.at = label, !.grant = i]
  <1>1. i > Len(GrantsOf(t)) \/ i \in DOMAIN GrantsOf(t)
    BY GrantList
  <1>2. \/ i > Len(GrantsOf(t)) /\ label = "commit"
        \/ /\ i \in DOMAIN GrantsOf(t) /\ GrantsOf(t)[i].scope = "app_membership"
           /\ label = "user"
        \/ /\ i \in DOMAIN GrantsOf(t) /\ GrantsOf(t)[i].scope # "app_membership"
           /\ label = "entitlement"
    BY <1>1, GrantList
  <1> HIDE DEF label
  <1>3. new.at = label /\ new.grant = i /\ new.ends = w.ends /\ new.member = w.member
    BY DEF TxState
  <1>4. tx' = [tx EXCEPT ![t] = new] /\ t \in Tx
    BY DEF ToGrant, label, Tx
  <1> HIDE DEF new
  <1>5. tx'[t] = new
    BY <1>4 DEF Typed
  <1> QED
    BY <1>2, <1>3, <1>5

LEMMA ToGrantPlace ==
  ASSUME NEW t \in Redeem \cup Distribute, NEW i \in Nat \ {0}, NEW w \in TxState,
         Typed, ToGrant(t, i, w)
  PROVE  PlaceOK(t)'
  <1>1. GrantOf(t)' = GrantsOf(t)[tx'[t].grant]
    BY DEF GrantOf, GrantsOf, CodeOf
  <1> QED
    BY <1>1, ToGrantIs DEF PlaceOK, At, GrantsOf, CodeOf

\* A transaction that begins has written nothing.
LEMMA BeginWritten ==
  ASSUME IInv, NEW t \in Redeem \cup Distribute, WrittenOK(t), tx[t].at = "idle",
         ToGrant(t, 1, tx[t])
  PROVE  WrittenOK(t)' /\ PlaceOK(t)'
  <1>1. Typed /\ tx[t] \in TxState
    BY DEF IInv, Typed, Tx
  <1>2. /\ tx'[t].ends = tx[t].ends /\ tx'[t].member = tx[t].member /\ tx'[t].grant = 1
        /\ \/ 1 > Len(GrantsOf(t)) /\ tx'[t].at = "commit"
           \/ /\ 1 \in DOMAIN GrantsOf(t) /\ GrantsOf(t)[1].scope = "app_membership"
              /\ tx'[t].at = "user"
           \/ /\ 1 \in DOMAIN GrantsOf(t) /\ GrantsOf(t)[1].scope # "app_membership"
              /\ tx'[t].at = "entitlement"
    <2>1. PICK i \in Nat \ {0} : i = 1
      OBVIOUS
    <2> QED
      BY <1>1, <2>1, ToGrantIs
  <1>3. tx'[t].member = 0 /\ \A s \in Scope : tx'[t].ends[s] = 0
    BY <1>2 DEF WrittenOK
  <1>4. \A s \in Scope : Given(t, s, 1) = 0
    BY GivenFirst
  <1>5. \A s \in Scope : EndOK(t, s)'
    BY <1>2, <1>3, <1>4 DEF EndOK, Given, GrantDays, Before, GrantsOf, CodeOf, UserOf
  <1>6. UserOK(t)'
    <2>1. CASE tx'[t].at = "entitlement"
      <3>1. Given(t, "app_membership", 1 + 1) = Given(t, "app_membership", 1)
        BY <1>2, <2>1, GivenNext, GrantList
      <3>2. UserNext(t)' = 1 + 1
        BY <1>2, <2>1 DEF UserNext
      <3> QED
        BY <1>3, <1>4, <3>1, <3>2 DEF UserOK, Given, GrantDays, Before, GrantsOf, CodeOf, Scope
    <2>2. CASE tx'[t].at # "entitlement"
      <3>1. UserNext(t)' = 1
        BY <1>2, <2>2 DEF UserNext
      <3> QED
        BY <1>3, <1>4, <3>1 DEF UserOK, Given, GrantDays, Before, GrantsOf, CodeOf, Scope
    <2> QED
      BY <2>1, <2>2
  <1>7. PlaceOK(t)'
    <2>1. PICK i \in Nat \ {0} : i = 1
      OBVIOUS
    <2> QED
      BY <1>1, <2>1, ToGrantPlace
  <1> QED
    BY <1>2, <1>5, <1>6, <1>7 DEF WrittenOK

LEMMA RedeemDays ==
  ASSUME IInv, DaysInv, NEW t \in Redeem, RedeemCode(t)
  PROVE  DaysInv'
  <1>1. /\ Typed /\ t \in Tx /\ t \in OnCode /\ t \notin Revoke /\ t \in Redeem \cup Distribute
        /\ CodeOf(t) \in Row /\ tx[t] \in TxState
    BY Kinds, RowsApart DEF IInv, Typed, OnCode, Tx
  <1>2. ToGrant(t, 1, tx[t]) /\ tx[t].at = "idle"
    BY DEF RedeemCode, At
  <1>3. tx' \in [Tx -> TxState] /\ \A x \in Tx \ {t} : tx'[x] = tx[x]
    BY <1>1, <1>2, ToGrantTyped
  <1>4. Free(CodeOf(t), t) /\ Lock(CodeOf(t), t)
    BY DEF RedeemCode
  <1>5. Moves(t) /\ UNCHANGED history
    BY <1>1, <1>3, <1>4, LockMoves DEF Moves, RedeemCode
  <1>6. WrittenOK(t)
    BY <1>1 DEF DaysInv, TransactionsOK
  <1> QED
    BY <1>1, <1>2, <1>5, <1>6, BeginWritten, MovesDays

LEMMA GiftDays ==
  ASSUME IInv, DaysInv, NEW t \in Distribute, StartGift(t)
  PROVE  DaysInv'
  <1>1. /\ Typed /\ t \in Tx /\ t \notin Revoke /\ t \in Redeem \cup Distribute /\ tx[t] \in TxState
    BY Kinds DEF IInv, Typed, OnCode, Tx
  <1>2. ToGrant(t, 1, tx[t]) /\ tx[t].at = "idle"
    BY DEF StartGift, At
  <1>3. tx' \in [Tx -> TxState] /\ \A x \in Tx \ {t} : tx'[x] = tx[x]
    BY <1>1, <1>2, ToGrantTyped
  <1>4. Moves(t) /\ UNCHANGED history
    BY <1>1, <1>3 DEF Moves, StartGift, Typed
  <1>5. WrittenOK(t)
    BY <1>1 DEF DaysInv, TransactionsOK
  <1> QED
    BY <1>1, <1>2, <1>4, <1>5, BeginWritten, MovesDays

\* What has been written stays locked by its transaction.
LEMMA OwnLocks ==
  ASSUME IInv, NEW t \in Tx, Moves(t)
  PROVE  /\ lock[UserOf(t)] = t => lock'[UserOf(t)] = t
         /\ \A s \in Scope : lock[<<UserOf(t), s>>] = t => lock'[<<UserOf(t), s>>] = t
  <1>1. UserOf(t) \in Row /\ \A s \in Scope : <<UserOf(t), s>> \in Row
    BY Kinds DEF Row
  <1> QED
    BY <1>1 DEF Moves

LEMMA LockUserDays ==
  ASSUME IInv, DaysInv, NEW t \in Tx, LockUser(t)
  PROVE  DaysInv'
  <1>1. /\ Typed /\ Granting /\ t \notin Revoke /\ t \in Redeem \cup Distribute
        /\ tx[t] \in TxState /\ tx[t].at = "user" /\ UserOf(t) \in Row /\ UserOf(t) \in User
        /\ day \in Nat /\ tx[t].grant \in DOMAIN GrantsOf(t)
    BY Kinds DEF IInv, Typed, Granting, LockUser, At, Row
  <1> DEFINE i == tx[t].grant
             d == GrantsOf(t)[i].days
             m == Extended(Seen(tx[t].member, member[UserOf(t)]), GrantOf(t).days)
  <1>2. /\ WrittenOK(t) /\ PlaceOK(t) /\ GrantsOf(t)[i].scope = "app_membership"
        /\ GrantOf(t).days = d /\ d \in Nat \ {0}
        /\ tx[t].member \in Nat /\ member[UserOf(t)] \in Nat
    BY <1>1, GrantList DEF DaysInv, TransactionsOK, PlaceOK, At, GrantOf, Typed, TxState
  <1>3. m = Extended(member[UserOf(t)], Given(t, "app_membership", i) + d) /\ m # 0 /\ m \in Nat
    <2>1. UserNext(t) = i
      BY <1>1 DEF UserNext
    <2>2. PICK given \in Nat : given = Given(t, "app_membership", i)
      BY <1>1, GrantFacts
    <2>3. /\ tx[t].member = 0 => given = 0
          /\ tx[t].member # 0 => tx[t].member = Extended(member[UserOf(t)], given)
      BY <1>1, <1>2, <2>1, <2>2 DEF WrittenOK, UserOK
    <2>4. m = Extended(member[UserOf(t)], given + d) /\ m # 0
      BY <1>1, <1>2, <2>3, WriteMore
    <2>5. m \in Nat
      BY <1>1, <1>2, ExtendedTyped
    <2> QED
      BY <2>2, <2>4, <2>5
  <1>4. Given(t, "app_membership", i + 1) = Given(t, "app_membership", i) + d
    BY <1>1, <1>2, GivenNext
  <1>5. tx' = [tx EXCEPT ![t].at = "entitlement", ![t].member = m]
    BY DEF LockUser
  <1> HIDE DEF m
  <1>6. /\ tx' \in [Tx -> TxState] /\ tx'[t].at = "entitlement" /\ tx'[t].grant = i
        /\ tx'[t].member = m /\ tx'[t].ends = tx[t].ends
        /\ \A x \in Tx \ {t} : tx'[x] = tx[x]
    BY <1>1, <1>3, <1>5 DEF Typed, TxState, Label
  <1>7. Moves(t) /\ lock'[UserOf(t)] = t /\ UNCHANGED <<rows, history, day>>
    BY <1>1, <1>6, LockMoves DEF Moves, LockUser
  <1> HIDE DEF i, d
  <1>8. UserOK(t)'
    <2>1. UserNext(t)' = i + 1
      BY <1>6 DEF UserNext
    <2> QED
      BY <1>3, <1>4, <1>6, <1>7, <2>1, UserNextIs DEF Extended, rows
  <1>9. \A s \in Scope : EndOK(t, s)'
    <2> SUFFICES ASSUME NEW s \in Scope PROVE EndOK(t, s)'
      OBVIOUS
    <2>1. EndOK(t, s)
      BY <1>1, <1>2 DEF WrittenOK
    <2>2. tx'[t].grant = tx[t].grant
      BY <1>6 DEF i
    <2>3. lock[<<UserOf(t), s>>] = t => lock'[<<UserOf(t), s>>] = t
      BY <1>7, OwnLocks
    <2> QED
      BY <1>6, <1>7, <2>1, <2>2, <2>3, EndNext DEF EndOK, Extended, rows
  <1> QED
    BY <1>1, <1>6, <1>7, <1>8, <1>9, MovesDays DEF WrittenOK, PlaceOK, At

\* The end of an entitlement is written, on what was written before or on
\* the row.
LEMMA WriteEndDays ==
  ASSUME IInv, DaysInv, NEW t \in Redeem \cup Distribute, tx[t].at \in {"entitlement", "insert"},
         WriteEnd(t, Seen(tx[t].ends[GrantOf(t).scope], ent[EntitlementOf(t)].expires)),
         Moves(t), lock'[EntitlementOf(t)] = t, UNCHANGED history
  PROVE  DaysInv'
  <1> DEFINE i == tx[t].grant
             d == GrantsOf(t)[i].days
             sc == GrantsOf(t)[i].scope
             e == <<UserOf(t), sc>>
             own == tx[t].ends[sc]
             end == Extended(Seen(own, ent[e].expires), d)
             w == [tx[t] EXCEPT !.ends[sc] = end]
  <1>1. /\ Typed /\ t \in Tx /\ t \notin Revoke /\ tx[t] \in TxState /\ UserOf(t) \in User
        /\ day \in Nat /\ i \in DOMAIN GrantsOf(t) /\ i \in Nat /\ i + 1 \in Nat \ {0}
        /\ sc \in Scope /\ d \in Nat \ {0} /\ e \in User \X Scope
    <2>1. Typed /\ t \in Tx /\ t \notin Revoke /\ UserOf(t) \in User
      BY Kinds DEF IInv, Tx, OnCode, OfRevoke
    <2>2. tx[t] \in TxState /\ day \in Nat /\ i \in DOMAIN GrantsOf(t)
      BY <2>1 DEF IInv, Typed, Granting
    <2>3. i \in Nat /\ i + 1 \in Nat \ {0} /\ GrantsOf(t)[i] \in [scope : Scope, days : Nat \ {0}]
      BY <2>2, GrantList DEF TxState
    <2> QED
      BY <2>1, <2>2, <2>3
  <1>2. GrantOf(t) = GrantsOf(t)[i] /\ EntitlementOf(t) = e
    BY DEF GrantOf, EntitlementOf
  <1>3. own \in Nat /\ ent[e].expires \in Nat
    BY <1>1 DEF Typed, TxState, EntRow
  <1>4. WrittenOK(t) /\ UserOK(t) /\ \A s \in Scope : EndOK(t, s)
    BY DEF DaysInv, TransactionsOK, WrittenOK
  <1>5. end = Extended(ent[e].expires, Given(t, sc, i) + d) /\ end # 0 /\ end \in Nat
    <2>1. PICK given \in Nat : given = Given(t, sc, i)
      BY GrantFacts
    <2>a. EndOK(t, sc)
      BY <1>1, <1>4
    <2>2. /\ own = 0 => given = 0
          /\ own # 0 => own = Extended(ent[e].expires, given)
      BY <2>a, <2>1 DEF EndOK
    <2>3. end = Extended(ent[e].expires, given + d) /\ end # 0
      <3>1. PICK r \in Nat, o \in Nat, x \in Nat \ {0} : r = ent[e].expires /\ o = own /\ x = d
        BY <1>1, <1>3
      <3>2. (o = 0 => given = 0) /\ (o # 0 => o = Extended(r, given))
        BY <2>2, <3>1
      <3>3. Extended(Seen(o, r), x) = Extended(r, given + x) /\ Extended(Seen(o, r), x) # 0
        BY <1>1, <2>1, <3>2, WriteMore
      <3> QED
        BY <3>1, <3>3
    <2>4. end \in Nat
      BY <1>1, <1>3, ExtendedTyped
    <2> QED
      BY <2>1, <2>3, <2>4
  <1>6. ToGrant(t, i + 1, w)
    BY <1>2 DEF WriteEnd
  <1> HIDE DEF end
  <1>7. w \in TxState /\ w.ends = [tx[t].ends EXCEPT ![sc] = end] /\ w.member = tx[t].member
    BY <1>1, <1>5 DEF TxState
  <1> HIDE DEF w
  <1>8. /\ tx'[t].ends = w.ends /\ tx'[t].member = w.member /\ tx'[t].grant = i + 1
        /\ \/ i + 1 > Len(GrantsOf(t)) /\ tx'[t].at = "commit"
           \/ /\ i + 1 \in DOMAIN GrantsOf(t) /\ GrantsOf(t)[i + 1].scope = "app_membership"
              /\ tx'[t].at = "user"
           \/ /\ i + 1 \in DOMAIN GrantsOf(t) /\ GrantsOf(t)[i + 1].scope # "app_membership"
              /\ tx'[t].at = "entitlement"
    BY <1>1, <1>6, <1>7, ToGrantIs
  <1>9. PlaceOK(t)'
    BY <1>1, <1>6, <1>7, ToGrantPlace
  <1>10. /\ tx'[t].ends[sc] = end
         /\ \A s \in Scope : s # sc => tx'[t].ends[s] = tx[t].ends[s]
    BY <1>1, <1>7, <1>8 DEF TxState
  <1>11. UNCHANGED <<ent, member, day>> /\ lock'[e] = t
    BY <1>2 DEF Moves, rows
  <1>12. ASSUME NEW s \in Scope PROVE EndOK(t, s)'
    <2>1. CASE s = sc
      <3>1. Given(t, sc, i + 1) = Given(t, sc, i) + d
        BY <1>1, GivenNext
      <3>2. tx'[t].ends[s] # 0 /\ lock'[<<UserOf(t), s>>] = t
            /\ tx'[t].ends[s] = Extended(ent[<<UserOf(t), s>>].expires, Given(t, s, i + 1))
        BY <1>5, <1>10, <1>11, <2>1, <3>1
      <3> HIDE DEF i, d, sc, e, own
      <3> QED
        BY <1>8, <1>11, <3>2, EndNext DEF Extended
    <2>2. CASE s # sc
      <3>1. Given(t, s, i + 1) = Given(t, s, i)
        BY <1>1, <2>2, GivenNext
      <3>2. /\ tx'[t].ends[s] = 0 => Given(t, s, i + 1) = 0
            /\ tx'[t].ends[s] # 0 =>
                 /\ lock'[<<UserOf(t), s>>] = t
                 /\ tx'[t].ends[s] = Extended(ent[<<UserOf(t), s>>].expires, Given(t, s, i + 1))
        BY <1>1, <1>4, <1>10, <2>2, <3>1, OwnLocks DEF EndOK
      <3> HIDE DEF i, d, sc, e, own
      <3> QED
        BY <1>8, <1>11, <3>2, EndNext DEF Extended
    <2> QED
      BY <2>1, <2>2
  <1>13. UserOK(t)'
    <2>1. UserNext(t) = i + 1
      BY DEF UserNext
    <2>2. Given(t, "app_membership", UserNext(t)') = Given(t, "app_membership", i + 1)
      <3>1. CASE tx'[t].at = "entitlement"
        <4>1. PICK j \in DOMAIN GrantsOf(t) : j = i + 1 /\ GrantsOf(t)[j].scope # "app_membership"
          BY <1>8, <3>1
        <4>2. Given(t, "app_membership", j + 1) = Given(t, "app_membership", j)
          BY <4>1, GivenNext
        <4>3. UserNext(t)' = j + 1
          BY <1>8, <3>1, <4>1 DEF UserNext
        <4> QED
          BY <4>1, <4>2, <4>3
      <3>2. CASE tx'[t].at # "entitlement"
        BY <1>8, <3>2 DEF UserNext
      <3> QED
        BY <3>1, <3>2
    <2>3. /\ tx'[t].member = 0 => Given(t, "app_membership", UserNext(t)') = 0
          /\ tx'[t].member # 0 =>
               /\ lock'[UserOf(t)] = t
               /\ tx'[t].member = Extended(member[UserOf(t)], Given(t, "app_membership", UserNext(t)'))
      BY <1>1, <1>4, <1>7, <1>8, <2>1, <2>2, OwnLocks DEF UserOK
    <2> HIDE DEF i, d, sc, e, own
    <2> QED
      BY <1>11, <2>3, UserNextIs DEF Extended
  <1>14. WrittenOK(t)'
    BY <1>8, <1>12, <1>13 DEF WrittenOK
  <1> QED
    BY <1>1, <1>9, <1>14, MovesDays

LEMMA LockEntitlementDays ==
  ASSUME IInv, DaysInv, NEW t \in Tx, LockEntitlement(t)
  PROVE  DaysInv'
  <1> DEFINE e == EntitlementOf(t)
             own == tx[t].ends[e[2]]
  <1>1. /\ Typed /\ Granting /\ t \notin Revoke /\ t \in Redeem \cup Distribute
        /\ tx[t] \in TxState /\ tx[t].at = "entitlement" /\ UNCHANGED history
    BY Kinds DEF IInv, Typed, OfRevoke, LockEntitlement, At
  <1>2. e \in User \X Scope /\ e \in Row /\ e[2] = GrantOf(t).scope /\ ent[e].expires \in Nat
        /\ own \in Nat
    BY <1>1, AtGrant DEF Row, TxState, Typed, EntRow
  <1>3. CASE ent[e].there \/ own # 0
    <2>1. Free(e, t) /\ Lock(e, t) /\ WriteEnd(t, Seen(own, ent[e].expires))
      BY <1>3 DEF LockEntitlement
    <2>2. Seen(own, ent[e].expires) \in Nat
      BY <1>2 DEF Seen
    <2>3. tx' \in [Tx -> TxState] /\ \A x \in Tx \ {t} : tx'[x] = tx[x]
      BY <1>1, <2>1, <2>2, WriteEndTyped
    <2>4. Moves(t) /\ lock'[e] = t
      BY <1>1, <1>2, <2>1, <2>3, LockMoves DEF Moves, LockEntitlement
    <2> QED
      BY <1>1, <1>2, <2>1, <2>4, WriteEndDays
  <1>4. CASE ~(ent[e].there \/ own # 0)
    <2>1. tx' = [tx EXCEPT ![t].at = "insert"] /\ lock' = lock
      BY <1>4 DEF LockEntitlement, Goto
    <2>2. /\ tx' \in [Tx -> TxState] /\ tx'[t].at = "insert" /\ tx'[t].grant = tx[t].grant
          /\ tx'[t].ends = tx[t].ends /\ tx'[t].member = tx[t].member
          /\ \A x \in Tx \ {t} : tx'[x] = tx[x]
      BY <1>1, <2>1 DEF Typed, TxState, Label
    <2>3. Moves(t)
      BY <1>1, <2>1, <2>2 DEF Moves, LockEntitlement, Typed
    <2>4. GrantOf(t)' = GrantOf(t) /\ tx'[t].ends[GrantOf(t).scope] = 0
      BY <1>2, <1>4, <2>2 DEF GrantOf, GrantsOf, CodeOf
    <2>5. PlaceOK(t)'
      BY <2>2, <2>4 DEF PlaceOK, At
    <2>6. UserOK(t) /\ \A s \in Scope : EndOK(t, s)
      BY <1>1 DEF DaysInv, TransactionsOK, WrittenOK
    <2>7. ent' = ent /\ member' = member /\ day' = day
      BY <2>3 DEF Moves, rows
    <2>8. \A s \in Scope : EndOK(t, s)'
      BY <2>1, <2>2, <2>6, <2>7, EndNext DEF EndOK, Extended
    <2>9. UserOK(t)'
      <3>1. UserNext(t)' = UserNext(t)
        BY <1>1, <2>2 DEF UserNext
      <3> QED
        BY <2>1, <2>2, <2>6, <2>7, <3>1, UserNextIs DEF UserOK, Extended
    <2> QED
      BY <1>1, <2>2, <2>3, <2>5, <2>8, <2>9, MovesDays DEF WrittenOK
  <1> QED
    BY <1>3, <1>4

LEMMA RevokeStepDays ==
  ASSUME IInv, DaysInv, NEW t \in Revoke,
         RevokeRedemption(t) \/ LockSourced(t) \/ RevokeUser(t)
  PROVE  DaysInv'
  <1>1. /\ t \in Tx /\ t \notin Redeem \cup Distribute /\ UserOf(t) \in Row /\ tx[t] \in TxState
        /\ Typed /\ Moves(t)
    BY Kinds, RevokeStepMoves DEF IInv, Typed, OnCode, Tx, Row
  <1>2. ent' = ent /\ Sourced(t)' = Sourced(t)
    BY <1>1 DEF Moves, rows, Sourced
  <1>3. RevokeOK(t)'
    <2>1. CASE RevokeRedemption(t)
      <3>1. tx'[t].at = "rows"
        BY <1>1, <2>1 DEF RevokeRedemption, Goto, Typed, TxState
      <3> QED
        BY <3>1 DEF RevokeOK, At
    <2>2. CASE LockSourced(t)
      <3>1. CASE <<UserOf(t), "app_membership">> \in Sourced(t)
        <4>1. \E x \in Sourced(t) : x[2] = "app_membership"
          BY <3>1
        <4>2. Goto(t, "user") \/ tx' = tx
          BY <2>2, <4>1 DEF LockSourced
        <4>3. tx'[t].at # "commit"
          BY <1>1, <2>2, <4>2 DEF LockSourced, Goto, At, Typed, TxState
        <4> QED
          BY <4>3 DEF RevokeOK, At
      <3>2. CASE <<UserOf(t), "app_membership">> \notin Sourced(t)
        BY <1>2, <3>2 DEF RevokeOK, UserOf
      <3> QED
        BY <3>1, <3>2
    <2>3. CASE RevokeUser(t)
      <3>1. lock'[UserOf(t)] = t
        BY <1>1, <2>3, LockMoves DEF RevokeUser
      <3> QED
        BY <3>1 DEF RevokeOK, UserOf
    <2> QED
      BY <2>1, <2>2, <2>3
  <1>4. UNCHANGED history
    BY DEF RevokeRedemption, LockSourced, RevokeUser
  <1> QED
    BY <1>1, <1>3, <1>4, MovesDays

-----------------------------------------------------------------------------
(* Steps that change rows, or give locks back                              *)

LEMMA StillWritten ==
  ASSUME NEW x \in Redeem \cup Distribute, WrittenOK(x), PlaceOK(x), tx'[x] = tx[x], day' = day,
         \A s \in Scope : lock[<<UserOf(x), s>>] = x =>
           lock'[<<UserOf(x), s>>] = x /\ ent'[<<UserOf(x), s>>].expires = ent[<<UserOf(x), s>>].expires,
         lock[UserOf(x)] = x => lock'[UserOf(x)] = x /\ member'[UserOf(x)] = member[UserOf(x)]
  PROVE  WrittenOK(x)' /\ PlaceOK(x)'
  <1>1. \A s \in Scope : EndOK(x, s) => EndOK(x, s)'
    BY EndNext DEF EndOK, Extended
  <1>2. UserOK(x) => UserOK(x)'
    <2>1. UserNext(x)' = UserNext(x)
      BY DEF UserNext
    <2> QED
      BY <2>1, UserNextIs DEF UserOK, Extended
  <1> QED
    BY <1>1, <1>2 DEF WrittenOK, PlaceOK, At, GrantOf, GrantsOf, CodeOf

LEMMA StillRevoking ==
  ASSUME NEW x \in Revoke, RevokeOK(x), tx'[x] = tx[x],
         At(x, "commit") => Sourced(x)' \subseteq Sourced(x),
         lock[UserOf(x)] = x => lock'[UserOf(x)] = x
  PROVE  RevokeOK(x)'
  BY DEF RevokeOK, At, UserOf

\* The transaction that ends has nothing any more.
LEMMA Left ==
  ASSUME IInv, NEW t \in Tx, Leaves(t)
  PROVE  /\ \A x \in Tx \ {t} : /\ tx'[x] = tx[x]
                                /\ \A r \in Row : lock[r] = x => lock'[r] = x
         /\ WrittenOK(t)' /\ PlaceOK(t)'
         /\ t \in Revoke => RevokeOK(t)'
  <1>1. PICK label \in {"idle", "over"} : tx' = [tx EXCEPT ![t] = [Idle EXCEPT !.at = label]]
    BY DEF Leaves
  <1> DEFINE new == [Idle EXCEPT !.at = label]
  <1>2. new.at = label /\ new.member = 0 /\ \A s \in Scope : new.ends[s] = 0
    BY DEF Idle
  <1> HIDE DEF new
  <1>3. tx'[t] = new /\ \A x \in Tx \ {t} : tx'[x] = tx[x]
    BY <1>1 DEF IInv, Typed, new
  <1>4. \A x \in Tx \ {t} : \A r \in Row : lock[r] = x => lock'[r] = x
    BY DEF Leaves, Unlocked
  <1> QED
    BY <1>2, <1>3, <1>4 DEF WrittenOK, PlaceOK, RevokeOK, At

LEMMA AbortDays ==
  ASSUME IInv, DaysInv, NEW t \in Tx, Leaves(t), UNCHANGED <<rows, day, history>>
  PROVE  DaysInv'
  <1>1. UNCHANGED <<ent, member>>
    BY DEF rows
  <1>2. ASSUME NEW x \in Redeem \cup Distribute
        PROVE  WrittenOK(x)' /\ PlaceOK(x)'
    <2>1. /\ x \in Tx /\ UserOf(x) \in Row /\ \A s \in Scope : <<UserOf(x), s>> \in Row
      BY Kinds DEF Tx, Row
    <2> QED
      BY <1>1, <2>1, Left, StillWritten DEF DaysInv, TransactionsOK
  <1>3. ASSUME NEW x \in Revoke
        PROVE  RevokeOK(x)'
    <2>1. x \in Tx /\ UserOf(x) \in Row /\ Sourced(x)' \subseteq Sourced(x)
      BY <1>1, Kinds DEF Tx, Row, Sourced
    <2> QED
      BY <2>1, Left, StillRevoking DEF DaysInv, TransactionsOK
  <1>4. TransactionsOK'
    BY <1>2, <1>3 DEF TransactionsOK
  <1>5. HistoryTyped' /\ RowsOK' /\ Accounted'
    BY <1>1 DEF DaysInv, HistoryTyped, RowsOK, Accounted, EndsAccounted, UserAccounted, Remaining,
                Later, history
  <1> QED
    BY <1>4, <1>5 DEF DaysInv

LEMMA RollBackDays ==
  ASSUME IInv, DaysInv, NEW t \in Tx, RollBack(t)
  PROVE  DaysInv'
  <1>1. Idle = [Idle EXCEPT !.at = "idle"]
    BY DEF Idle
  <1>2. Leaves(t)
    BY <1>1 DEF RollBack, Leaves
  <1> QED
    BY <1>2, AbortDays DEF RollBack

LEMMA InsertEntitlementDays ==
  ASSUME IInv, DaysInv, NEW t \in Tx, InsertEntitlement(t)
  PROVE  DaysInv'
  <1> DEFINE e == EntitlementOf(t)
  <1>1. /\ Typed /\ Granting /\ t \notin Revoke /\ t \in Redeem \cup Distribute
        /\ tx[t] \in TxState /\ tx[t].at = "insert" /\ day' = day
    BY Kinds DEF IInv, Typed, OfRevoke, InsertEntitlement, At
  <1>2. CASE ent[e].there
    BY <1>1, <1>2, EndLeaves, AbortDays DEF InsertEntitlement, Abort
  <1>3. CASE ~ent[e].there
    <2>1. Free(e, t) /\ Lock(e, t) /\ WriteEnd(t, 0) /\ UNCHANGED history
      BY <1>3 DEF InsertEntitlement
    <2>2. e \in User \X Scope /\ e \in Row
      BY <1>1, AtGrant DEF Row
    <2>3. ent[e].expires = 0 /\ tx[t].ends[GrantOf(t).scope] = 0
      BY <1>1, <1>3, <2>2 DEF DaysInv, RowsOK, TransactionsOK, PlaceOK, At
    <2>4. Seen(tx[t].ends[GrantOf(t).scope], ent[EntitlementOf(t)].expires) = 0
      BY <2>3 DEF Seen
    <2>5. tx' \in [Tx -> TxState] /\ \A x \in Tx \ {t} : tx'[x] = tx[x]
      <3>1. PICK z \in Nat : z = 0
        OBVIOUS
      <3> QED
        BY <1>1, <2>1, <3>1, WriteEndTyped
    <2>6. Moves(t) /\ lock'[e] = t
      BY <1>1, <1>3, <2>1, <2>2, <2>5, LockMoves DEF Moves, InsertEntitlement
    <2> QED
      BY <1>1, <2>1, <2>4, <2>6, WriteEndDays
  <1> QED
    BY <1>2, <1>3

\* What a transaction that commits adds to its user's rows: the days of its
\* grants.
LEMMA Committed ==
  ASSUME IInv, DaysInv, NEW t \in Tx, CommitGrants(t)
  PROVE  /\ \A e \in User \X Scope :
              /\ e[1] # UserOf(t) => ent'[e] = ent[e] /\ owed'[e] = owed[e]
              /\ e[1] = UserOf(t) =>
                   /\ Days(t, e[2]) \in Nat
                   /\ Remaining(ent'[e].expires, day) = Remaining(ent[e].expires, day) + Days(t, e[2])
                   /\ owed'[e] = owed[e] + Days(t, e[2])
              /\ ent'[e] # ent[e] => lock[e] = t
         /\ \A u \in User \ {UserOf(t)} : member'[u] = member[u]
         /\ Remaining(member'[UserOf(t)], day) =
              Remaining(member[UserOf(t)], day) + Days(t, "app_membership")
         /\ member'[UserOf(t)] # member[UserOf(t)] => lock[UserOf(t)] = t
  <1>1. /\ Typed /\ t \in Redeem \cup Distribute /\ UserOf(t) \in User /\ tx[t].at = "commit"
        /\ tx[t] \in TxState /\ day \in Nat
    BY Kinds DEF IInv, Typed, CommitGrants, At
  <1>2. /\ UserOK(t) /\ \A s \in Scope : EndOK(t, s)
        /\ tx[t].grant > Len(GrantsOf(t)) /\ tx[t].grant \in Nat
    BY <1>1 DEF DaysInv, TransactionsOK, WrittenOK, PlaceOK, At, TxState
  <1>3. \A s \in Scope : Days(t, s) \in Nat /\ Given(t, s, tx[t].grant) = Days(t, s)
    <2> SUFFICES ASSUME NEW s \in Scope
                 PROVE  Days(t, s) \in Nat /\ Given(t, s, tx[t].grant) = Days(t, s)
      OBVIOUS
    <2>1. PICK n \in Nat : n = tx[t].grant
      BY <1>2
    <2>2. Given(t, s, n) = Days(t, s)
      BY <1>1, <1>2, <2>1, GivenAll
    <2>3. Given(t, s, n) \in Nat
      BY <1>1, GrantFacts
    <2> QED
      BY <2>1, <2>2, <2>3
  <1>4. ASSUME NEW e \in User \X Scope
        PROVE  /\ e[1] # UserOf(t) => ent'[e] = ent[e] /\ owed'[e] = owed[e]
               /\ e[1] = UserOf(t) =>
                    /\ Days(t, e[2]) \in Nat
                    /\ Remaining(ent'[e].expires, day) = Remaining(ent[e].expires, day) + Days(t, e[2])
                    /\ owed'[e] = owed[e] + Days(t, e[2])
               /\ ent'[e] # ent[e] => lock[e] = t
    <2>1. /\ ent'[e] = Applied(t)[e]
          /\ owed'[e] = IF e[1] = UserOf(t) THEN owed[e] + Days(t, e[2]) ELSE owed[e]
      BY DEF CommitGrants
    <2>2. e = <<e[1], e[2]>> /\ e[2] \in Scope /\ ent[e].expires \in Nat
      BY <1>1 DEF Typed, EntRow
    <2>3. CASE e[1] # UserOf(t) \/ tx[t].ends[e[2]] = 0
      <3>1. ent'[e] = ent[e]
        BY <2>1, <2>3 DEF Applied
      <3>2. e[1] = UserOf(t) => Days(t, e[2]) = 0
        BY <1>2, <1>3, <2>2, <2>3 DEF EndOK
      <3>3. Remaining(ent[e].expires, day) \in Nat
        BY <1>1, <2>2, ExtendedMore
      <3> QED
        BY <1>3, <2>1, <2>2, <3>1, <3>2, <3>3
    <2>4. CASE e[1] = UserOf(t) /\ tx[t].ends[e[2]] # 0
      <3>1. ent'[e].expires = tx[t].ends[e[2]]
        BY <2>1, <2>4 DEF Applied
      <3>2. lock[e] = t /\ tx[t].ends[e[2]] = Extended(ent[e].expires, Days(t, e[2]))
        BY <1>2, <1>3, <2>2, <2>4 DEF EndOK
      <3>3. Remaining(ent'[e].expires, day) = Remaining(ent[e].expires, day) + Days(t, e[2])
        <4>1. PICK a \in Nat, d \in Nat : a = ent[e].expires /\ d = Days(t, e[2])
          BY <1>3, <2>2
        <4>2. Remaining(Extended(a, d), day) = Remaining(a, day) + d
          BY <1>1, ExtendedMore
        <4> QED
          BY <3>1, <3>2, <4>1, <4>2
      <3> QED
        BY <1>3, <2>1, <2>2, <2>4, <3>2, <3>3
    <2> QED
      BY <2>3, <2>4
  <1>5. /\ \A u \in User \ {UserOf(t)} : member'[u] = member[u]
        /\ member'[UserOf(t)] = Seen(tx[t].member, member[UserOf(t)])
    BY <1>1 DEF CommitGrants, Typed
  <1>6. /\ Remaining(member'[UserOf(t)], day) =
             Remaining(member[UserOf(t)], day) + Days(t, "app_membership")
        /\ member'[UserOf(t)] # member[UserOf(t)] => lock[UserOf(t)] = t
    <2>1. UserNext(t) = tx[t].grant /\ member[UserOf(t)] \in Nat
      BY <1>1 DEF UserNext, Typed
    <2>2. /\ Days(t, "app_membership") \in Nat
          /\ Given(t, "app_membership", UserNext(t)) = Days(t, "app_membership")
      BY <1>3, <2>1 DEF Scope
    <2>3. CASE tx[t].member = 0
      <3>1. Days(t, "app_membership") = 0 /\ member'[UserOf(t)] = member[UserOf(t)]
        BY <1>2, <1>5, <2>2, <2>3 DEF UserOK, Seen
      <3>2. Remaining(member[UserOf(t)], day) \in Nat
        BY <1>1, <2>1, ExtendedMore
      <3> QED
        BY <3>1, <3>2
    <2>4. CASE tx[t].member # 0
      <3>1. /\ lock[UserOf(t)] = t
            /\ member'[UserOf(t)] = Extended(member[UserOf(t)], Days(t, "app_membership"))
        BY <1>2, <1>5, <2>2, <2>4 DEF UserOK, Seen
      <3> QED
        BY <1>1, <2>1, <2>2, <3>1, ExtendedMore
    <2> QED
      BY <2>3, <2>4
  <1> QED
    BY <1>4, <1>5, <1>6

LEMMA CommitGrantsDays ==
  ASSUME IInv, DaysInv, NEW t \in Tx, CommitGrants(t)
  PROVE  DaysInv'
  <1> DEFINE u == UserOf(t)
             D == Days(t, "app_membership")
             app == <<u, "app_membership">>
  <1>1. /\ Typed /\ t \in Redeem \cup Distribute /\ t \notin Revoke /\ Leaves(t) /\ day' = day
        /\ u \in User /\ tx[t].at = "commit" /\ day \in Nat /\ app \in User \X Scope
    BY Kinds, EndLeaves DEF IInv, Typed, CommitGrants, At, Scope
  <1>2. /\ \A e \in User \X Scope : ent'[e] # ent[e] => lock[e] = t
        /\ \A v \in User : member'[v] # member[v] => lock[v] = t
    BY Committed
  <1>3. ASSUME NEW x \in Redeem \cup Distribute
        PROVE  WrittenOK(x)' /\ PlaceOK(x)'
    <2>1. /\ x \in Tx /\ UserOf(x) \in Row /\ UserOf(x) \in User
          /\ \A s \in Scope : <<UserOf(x), s>> \in Row /\ <<UserOf(x), s>> \in User \X Scope
      BY Kinds DEF Tx, Row
    <2>2. CASE x = t
      BY <1>1, <2>2, Left
    <2>3. CASE x # t
      BY <1>1, <1>2, <2>1, <2>3, Left, StillWritten DEF DaysInv, TransactionsOK
    <2> QED
      BY <2>2, <2>3
  <1>4. ASSUME NEW x \in Revoke
        PROVE  RevokeOK(x)'
    <2>1. x \in Tx /\ x \in OnCode /\ UserOf(x) \in Row /\ x # t /\ x[2] \in Redemption
      BY <1>1, Kinds DEF Tx, Row, OnCode
    <2>2. ASSUME At(x, "commit"), NEW e \in Sourced(x)'
          PROVE  e \in Sourced(x)
      <3>1. e \in User \X Scope /\ ent'[e].active /\ ent'[e].source = x[2]
        BY <2>2 DEF Sourced
      <3>2. ent'[e] = ent[e] \/ ent'[e].source = IF t \in Redeem THEN t[2] ELSE Nothing
        BY <3>1 DEF CommitGrants, Applied
      <3>3. t \in Redeem => x[2] # t[2]
        BY <1>1, <2>1, <2>2, OneOnCode DEF Under, At, OnCode
      <3> QED
        BY <2>1, <3>1, <3>2, <3>3, NothingAssumption DEF Sourced
    <2> QED
      BY <1>1, <2>1, <2>2, Left, StillRevoking DEF DaysInv, TransactionsOK
  <1>5. HistoryTyped'
    <2>1. owed' \in [User \X Scope -> Nat]
      <3>1. \A e \in User \X Scope : owed'[e] \in Nat
        BY Committed DEF DaysInv, HistoryTyped
      <3> QED
        BY <3>1 DEF CommitGrants
    <2>2. D \in Nat
      BY <1>1, Committed
    <2>3. due' = [due EXCEPT ![u] = @ + D] /\ UNCHANGED <<bought, revocations>>
      BY DEF CommitGrants
    <2> HIDE DEF D, u
    <2> QED
      BY <1>1, <2>1, <2>2, <2>3 DEF DaysInv, HistoryTyped
  <1>6. RowsOK'
    BY DEF DaysInv, RowsOK, CommitGrants, Applied
  <1>7. EndsAccounted'
    <2>1. \A e \in User \X Scope : Remaining(ent'[e].expires, day) = owed'[e]
      BY Committed DEF DaysInv, Accounted, EndsAccounted
    <2> QED
      BY <1>1, <2>1 DEF EndsAccounted, Remaining, Later
  <1>8. ASSUME NEW v \in User
        PROVE  UserAccounted(v)'
    <2>1. /\ UserAccounted(v) /\ due[v] \in Nat /\ bought[v] \in Nat
          /\ bought' = bought /\ revocations' = revocations
          /\ due' = [due EXCEPT ![u] = @ + D] /\ due \in [User -> Nat]
      BY DEF DaysInv, Accounted, HistoryTyped, CommitGrants
    <2>2. CASE v = u
      <3>1. /\ D \in Nat /\ owed'[app] = owed[app] + D
            /\ Remaining(member'[u], day) = Remaining(member[u], day) + D
        BY <1>1, Committed
      <3>2. due'[v] = due[v] + D /\ owed[app] \in Nat
        BY <1>1, <2>1, <2>2 DEF DaysInv, HistoryTyped
      <3>3. /\ revocations'[v] <= 1 => Remaining(member'[v], day) = due'[v] /\ bought'[v] <= due'[v]
            /\ revocations'[v] = 0 => due'[v] = owed'[<<v, "app_membership">>] + bought'[v]
        <4> HIDE DEF D
        <4> QED
          BY <2>1, <2>2, <3>1, <3>2 DEF UserAccounted
      <3> QED
        BY <1>1, <3>3 DEF UserAccounted, Remaining, Later
    <2>3. CASE v # u
      <3>1. due'[v] = due[v] /\ member'[v] = member[v]
        BY <2>1, <2>3, Committed
      <3>2. owed'[<<v, "app_membership">>] = owed[<<v, "app_membership">>]
        BY <2>3, Committed DEF Scope
      <3> QED
        BY <1>1, <2>1, <3>1, <3>2 DEF UserAccounted, Remaining, Later
    <2> QED
      BY <2>2, <2>3
  <1> QED
    BY <1>3, <1>4, <1>5, <1>6, <1>7, <1>8 DEF DaysInv, TransactionsOK, Accounted

LEMMA CommitRevokeDays ==
  ASSUME IInv, DaysInv, NEW t \in Revoke, CommitRevoke(t)
  PROVE  DaysInv'
  <1> DEFINE u == UserOf(t)
             app == <<u, "app_membership">>
  <1>1. /\ Typed /\ t \in Tx /\ t \notin Redeem \cup Distribute /\ Leaves(t) /\ day' = day
        /\ u \in User /\ day \in Nat /\ app \in User \X Scope /\ At(t, "commit")
    <2>1. t \in Tx /\ t \in OnCode
      BY DEF Tx, OnCode
    <2> QED
      BY <2>1, Kinds, EndLeaves DEF IInv, Typed, CommitRevoke, Scope
  <1>2. \A e \in User \X Scope : /\ ent'[e].expires = ent[e].expires
                                 /\ ent'[e].there = ent[e].there
                                 /\ ent'[e].source = ent[e].source
                                 /\ ent'[e].active => ent[e].active
    BY <1>1 DEF CommitRevoke, Typed, EntRow
  <1>3. /\ member' \in [User -> Nat]
        /\ \A v \in User \ {u} : member'[v] = member[v]
        /\ \/ member'[u] = member[u]
           \/ member'[u] = 0 /\ member[u] = ent[app].expires /\ lock[u] = t
    <2>1. app \in Sourced(t) => lock[u] = t
      BY <1>1 DEF DaysInv, TransactionsOK, RevokeOK
    <2> QED
      BY <1>1, <2>1 DEF CommitRevoke, Typed
  <1>4. /\ revocations' = [revocations EXCEPT ![u] = @ + 1]
        /\ due' = [due EXCEPT ![u] = Later(bought[u], Remaining(member'[u], day))]
        /\ UNCHANGED <<owed, bought>>
    BY DEF CommitRevoke
  <1>5. ASSUME NEW x \in Redeem \cup Distribute
        PROVE  WrittenOK(x)' /\ PlaceOK(x)'
    <2>1. /\ x \in Tx /\ x # t /\ UserOf(x) \in Row /\ UserOf(x) \in User
          /\ \A s \in Scope : <<UserOf(x), s>> \in Row /\ <<UserOf(x), s>> \in User \X Scope
      BY <1>1, Kinds DEF Tx, Row
    <2>2. lock[UserOf(x)] = x => member'[UserOf(x)] = member[UserOf(x)]
      BY <1>3, <2>1
    <2> QED
      BY <1>1, <1>2, <2>1, <2>2, Left, StillWritten DEF DaysInv, TransactionsOK
  <1>6. ASSUME NEW x \in Revoke
        PROVE  RevokeOK(x)'
    <2>1. x \in Tx /\ UserOf(x) \in Row /\ Sourced(x)' \subseteq Sourced(x)
      BY <1>2, Kinds DEF Tx, Row, Sourced
    <2> QED
      BY <1>1, <2>1, Left, StillRevoking DEF DaysInv, TransactionsOK
  <1>7. RowsOK' /\ EndsAccounted'
    BY <1>1, <1>2, <1>4 DEF DaysInv, RowsOK, Accounted, EndsAccounted, Remaining, Later
  <1>8. \A v \in User : /\ member[v] \in Nat /\ member'[v] \in Nat
                        /\ Remaining(member[v], day) \in Nat /\ Remaining(member'[v], day) \in Nat
    <2> SUFFICES ASSUME NEW v \in User
                 PROVE  /\ member[v] \in Nat /\ member'[v] \in Nat
                        /\ Remaining(member[v], day) \in Nat /\ Remaining(member'[v], day) \in Nat
      OBVIOUS
    <2>1. PICK a \in Nat, b \in Nat : a = member[v] /\ b = member'[v]
      BY <1>1, <1>3 DEF Typed
    <2> QED
      BY <1>1, <2>1, ExtendedMore
  <1>9. HistoryTyped'
    <2>1. Later(bought[u], Remaining(member'[u], day)) \in Nat
      BY <1>1, <1>8 DEF Later, DaysInv, HistoryTyped
    <2> QED
      BY <1>1, <1>4, <2>1 DEF DaysInv, HistoryTyped
  <1>10. ASSUME NEW v \in User
         PROVE  UserAccounted(v)'
    <2>1. /\ UserAccounted(v) /\ due[v] \in Nat /\ bought[v] \in Nat /\ revocations[v] \in Nat
          /\ owed[<<v, "app_membership">>] \in Nat
      BY DEF DaysInv, Accounted, HistoryTyped, Scope
    <2>2. CASE v = u
      <3>1. /\ revocations'[v] = revocations[v] + 1 /\ bought'[v] = bought[v]
            /\ due'[v] = Later(bought[v], Remaining(member'[v], day))
        BY <1>1, <1>4, <2>2 DEF DaysInv, HistoryTyped
      <3>2. ASSUME revocations'[v] <= 1
            PROVE  bought[v] <= Remaining(member'[v], day)
        <4>1. /\ revocations[v] = 0 /\ Remaining(member[v], day) = due[v] /\ bought[v] <= due[v]
              /\ due[v] = owed[app] + bought[v]
          BY <2>1, <2>2, <3>1, <3>2 DEF UserAccounted
        <4>2. CASE member'[v] = member[v]
          BY <4>1, <4>2
        <4>3. CASE member'[u] = 0 /\ member[u] = ent[app].expires
          <5>1. Remaining(ent[app].expires, day) = owed[app]
            BY <1>1 DEF DaysInv, Accounted, EndsAccounted
          <5>2. due[v] = owed[app] /\ owed[app] \in Nat
            BY <2>1, <2>2, <4>1, <4>3, <5>1
          <5>3. bought[v] = 0
            BY <2>1, <4>1, <5>2
          <5> QED
            BY <1>8, <5>3
        <4> QED
          BY <1>3, <2>2, <4>2, <4>3
      <3>3. /\ revocations'[v] <= 1 => Remaining(member'[v], day) = due'[v] /\ bought'[v] <= due'[v]
            /\ revocations'[v] # 0
        <4>1. Remaining(member'[v], day) \in Nat
          BY <1>8
        <4> QED
          BY <2>1, <3>1, <3>2, <4>1 DEF Later
      <3> QED
        BY <1>1, <3>3 DEF UserAccounted, Remaining, Later
    <2>3. CASE v # u
      <3>1. due'[v] = due[v] /\ member'[v] = member[v] /\ revocations'[v] = revocations[v]
        BY <1>3, <1>4, <2>3 DEF DaysInv, HistoryTyped
      <3> QED
        BY <1>1, <1>4, <2>1, <3>1 DEF UserAccounted, Remaining, Later
    <2> QED
      BY <2>2, <2>3
  <1> QED
    BY <1>5, <1>6, <1>7, <1>9, <1>10 DEF DaysInv, TransactionsOK, Accounted

\* A step that leaves the transactions, their locks and what they have
\* written to as they are.
LEMMA OutsideDays ==
  ASSUME IInv, TransactionsOK, UNCHANGED <<ent, lock, tx, day>>,
         \A u \in User : member'[u] # member[u] => lock[u] = NoOne
  PROVE  TransactionsOK'
  <1>1. ASSUME NEW x \in Redeem \cup Distribute
        PROVE  WrittenOK(x)' /\ PlaceOK(x)'
    <2>1. x \in Tx /\ UserOf(x) \in User
      BY Kinds DEF Tx
    <2>2. lock[UserOf(x)] = x => member'[UserOf(x)] = member[UserOf(x)]
      BY <2>1, NothingAssumption DEF NoOne
    <2> QED
      BY <2>1, <2>2, StillWritten DEF TransactionsOK
  <1>2. ASSUME NEW x \in Revoke
        PROVE  RevokeOK(x)'
    BY StillRevoking DEF TransactionsOK, Sourced
  <1> QED
    BY <1>1, <1>2 DEF TransactionsOK

LEMMA VoidDays ==
  ASSUME IInv, DaysInv, UNCHANGED <<member, ent, lock, tx, day, history>>
  PROVE  DaysInv'
  <1>1. TransactionsOK'
    BY OutsideDays DEF DaysInv
  <1> QED
    BY <1>1 DEF DaysInv, HistoryTyped, RowsOK, Accounted, EndsAccounted, UserAccounted, Remaining,
                Later, history

LEMMA PayDays ==
  ASSUME IInv, DaysInv, NEW p \in Purchase, Pay(p)
  PROVE  DaysInv'
  <1> DEFINE u == Buyer[p]
             d == Bought[p]
  <1>1. u \in User /\ d \in Nat /\ Typed /\ day \in Nat
    BY PurchaseAssumption DEF IInv, Typed
  <1>2. /\ member' = [member EXCEPT ![u] = Extended(member[u], d)]
        /\ due' = [due EXCEPT ![u] = due[u] + d]
        /\ bought' = [bought EXCEPT ![u] = bought[u] + d]
        /\ lock[u] = NoOne
        /\ UNCHANGED <<ent, lock, tx, day, owed, revocations>>
    BY <1>1 DEF Pay, DaysInv, HistoryTyped, Typed
  <1>3. member \in [User -> Nat] /\ HistoryTyped
    BY <1>1 DEF Typed, DaysInv
  <1> HIDE DEF u, d
  <1>4. TransactionsOK'
    <2>1. \A v \in User : member'[v] # member[v] => lock[v] = NoOne
      BY <1>2, <1>3
    <2> QED
      BY <1>2, <2>1, OutsideDays DEF DaysInv
  <1>5. HistoryTyped'
    <2>1. due[u] + d \in Nat /\ bought[u] + d \in Nat
      BY <1>1, <1>3 DEF HistoryTyped
    <2> QED
      BY <1>2, <1>3, <2>1 DEF HistoryTyped
  <1>6. RowsOK' /\ EndsAccounted'
    BY <1>2 DEF DaysInv, RowsOK, Accounted, EndsAccounted, Remaining, Later
  <1>7. ASSUME NEW v \in User
        PROVE  UserAccounted(v)'
    <2>1. /\ UserAccounted(v) /\ due[v] \in Nat /\ bought[v] \in Nat
          /\ owed[<<v, "app_membership">>] \in Nat
      BY <1>3 DEF DaysInv, Accounted, HistoryTyped, Scope
    <2>2. CASE v = u
      <3>1. /\ member'[v] = Extended(member[v], d) /\ due'[v] = due[v] + d
            /\ bought'[v] = bought[v] + d
        BY <1>1, <1>2, <1>3, <2>2 DEF HistoryTyped
      <3>2. PICK a \in Nat, b \in Nat : a = member[v] /\ b = d
        BY <1>1, <1>3
      <3>3. Remaining(member'[v], day) = Remaining(member[v], day) + d
        BY <1>1, <3>1, <3>2, ExtendedMore
      <3>4. Remaining(member[v], day) \in Nat
        BY <1>1, <3>2, ExtendedMore
      <3>5. /\ revocations[v] <= 1 => Remaining(member'[v], day) = due'[v] /\ bought'[v] <= due'[v]
            /\ revocations[v] = 0 => due'[v] = owed[<<v, "app_membership">>] + bought'[v]
        BY <1>1, <2>1, <3>1, <3>3, <3>4 DEF UserAccounted
      <3> QED
        BY <1>2, <3>5 DEF UserAccounted, Remaining, Later
    <2>3. CASE v # u
      <3>1. due'[v] = due[v] /\ member'[v] = member[v] /\ bought'[v] = bought[v]
        BY <1>2, <1>3, <2>3 DEF HistoryTyped
      <3> QED
        BY <1>2, <2>1, <3>1 DEF UserAccounted, Remaining, Later
    <2> QED
      BY <2>2, <2>3
  <1> QED
    BY <1>4, <1>5, <1>6, <1>7 DEF DaysInv, Accounted

\* A day passes, with no transaction under way.
LEMMA TickDays ==
  ASSUME IInv, DaysInv, Tick
  PROVE  DaysInv'
  <1>1. /\ Typed /\ day \in Nat /\ day' = day + 1 /\ UNCHANGED <<member, ent, lock, tx, revocations>>
        /\ \A t \in Tx : tx[t].at \in {"idle", "over"}
        /\ owed' = [e \in User \X Scope |-> Remaining(owed[e], 1)]
        /\ due' = [u \in User |-> Remaining(due[u], 1)]
        /\ bought' = [u \in User |-> IF bought[u] > due'[u] THEN due'[u] ELSE bought[u]]
        /\ HistoryTyped
    BY DEF IInv, Typed, Tick, rows, DaysInv
  <1>2. TransactionsOK'
    <2>1. \A x \in Redeem \cup Distribute : WrittenOK(x)' /\ PlaceOK(x)'
      BY <1>1 DEF DaysInv, TransactionsOK, WrittenOK, PlaceOK, At, Tx
    <2>2. \A x \in Revoke : RevokeOK(x)'
      BY <1>1 DEF RevokeOK, At, Tx
    <2> QED
      BY <2>1, <2>2 DEF TransactionsOK
  <1>3. \A n \in Nat : /\ Remaining(n, 1) \in Nat
                       /\ Remaining(n, day + 1) = Remaining(Remaining(n, day), 1)
    BY <1>1 DEF Remaining, Later
  <1>4. HistoryTyped'
    <2>1. due' \in [User -> Nat] /\ owed' \in [User \X Scope -> Nat]
      BY <1>1, <1>3 DEF HistoryTyped
    <2>2. bought' \in [User -> Nat]
      BY <1>1, <2>1 DEF HistoryTyped
    <2> QED
      BY <1>1, <2>1, <2>2 DEF HistoryTyped
  <1>5. RowsOK'
    BY <1>1 DEF DaysInv, RowsOK
  <1>6. EndsAccounted'
    <2>1. ASSUME NEW e \in User \X Scope
          PROVE  Remaining(ent[e].expires, day + 1) = owed'[e]
      <3>1. ent[e].expires \in Nat /\ Remaining(ent[e].expires, day) = owed[e]
        BY <1>1 DEF Typed, EntRow, DaysInv, Accounted, EndsAccounted
      <3> QED
        BY <1>1, <1>3, <3>1
    <2> QED
      BY <1>1, <2>1 DEF EndsAccounted, Remaining, Later
  <1>7. ASSUME NEW v \in User
        PROVE  UserAccounted(v)'
    <2>1. /\ UserAccounted(v) /\ due[v] \in Nat /\ bought[v] \in Nat
          /\ owed[<<v, "app_membership">>] \in Nat /\ member[v] \in Nat
      BY <1>1 DEF DaysInv, Accounted, HistoryTyped, Scope, Typed
    <2>2. /\ due'[v] = Remaining(due[v], 1)
          /\ bought'[v] = IF bought[v] > due'[v] THEN due'[v] ELSE bought[v]
          /\ owed'[<<v, "app_membership">>] = Remaining(owed[<<v, "app_membership">>], 1)
      BY <1>1 DEF Scope
    <2>3. revocations[v] <= 1 => Remaining(member[v], day + 1) = due'[v] /\ bought'[v] <= due'[v]
      <3>1. due'[v] \in Nat
        BY <1>3, <2>1, <2>2
      <3>2. bought'[v] <= due'[v]
        BY <2>1, <2>2, <3>1
      <3> QED
        BY <1>3, <2>1, <2>2, <3>2 DEF UserAccounted
    <2>4. revocations[v] = 0 => due'[v] = owed'[<<v, "app_membership">>] + bought'[v]
      BY <2>1, <2>2 DEF UserAccounted, Remaining, Later
    <2> QED
      BY <1>1, <2>3, <2>4 DEF UserAccounted, Remaining, Later
  <1> QED
    BY <1>2, <1>4, <1>5, <1>6, <1>7 DEF DaysInv, Accounted

LEMMA InitDays == Init => DaysInv
  <1> SUFFICES ASSUME Init PROVE DaysInv
    OBVIOUS
  <1>1. \A t \in Tx : tx[t].at = "idle" /\ tx[t].member = 0 /\ \A s \in Scope : tx[t].ends[s] = 0
    BY DEF Init, Idle
  <1>2. TransactionsOK
    BY <1>1 DEF TransactionsOK, WrittenOK, PlaceOK, RevokeOK, At, Tx
  <1>3. \A e \in User \X Scope : ent[e].expires = 0
    BY DEF Init, Absent
  <1> QED
    BY <1>2, <1>3
    DEF DaysInv, HistoryTyped, RowsOK, Accounted, EndsAccounted, UserAccounted, Remaining, Later,
        Init, Scope

LEMMA StepDays == IInv /\ DaysInv /\ [Next]_vars => DaysInv'
  <1> SUFFICES ASSUME IInv, DaysInv, [Next]_vars PROVE DaysInv'
    OBVIOUS
  <1>1. ASSUME NEW t \in Tx,
               \/ LockUser(t) \/ LockEntitlement(t) \/ InsertEntitlement(t) \/ CommitGrants(t)
               \/ RollBack(t)
        PROVE  DaysInv'
    BY <1>1, LockUserDays, LockEntitlementDays, InsertEntitlementDays, CommitGrantsDays, RollBackDays
  <1>2. ASSUME NEW t \in Revoke,
               RevokeRedemption(t) \/ LockSourced(t) \/ RevokeUser(t) \/ CommitRevoke(t)
        PROVE  DaysInv'
    BY <1>2, RevokeStepDays, CommitRevokeDays
  <1>3. ASSUME NEW c \in Code, Void(c)
        PROVE  DaysInv'
    BY <1>3, VoidDays DEF Void
  <1>4. CASE UNCHANGED vars
    BY <1>4, VoidDays DEF vars, rows
  <1> QED
    BY <1>1, <1>2, <1>3, <1>4, RedeemDays, GiftDays, PayDays, TickDays DEF Next

\* No day is lost and none is given twice, with any codes, gifts, orders and
\* users, whatever transactions overlap, roll back or are tried again: up to
\* a user's first revocation, the user's row and the entitlement rows have
\* the days that were given (redeem.service.ts, redeemCodeByAppSlug and
\* distributePackageToUserByAppId; payments.service.ts, extendMembership).
THEOREM EveryDayKept == Spec => []DaysKept
  <1>1. DaysInv => DaysKept
    <2> SUFFICES ASSUME DaysInv, NEW u \in User, revocations[u] = 0
                 PROVE  /\ Remaining(member[u], day) = due[u]
                        /\ \A s \in Scope : Remaining(ent[<<u, s>>].expires, day) = owed[<<u, s>>]
      BY DEF DaysKept
    <2>1. UserAccounted(u) /\ EndsAccounted
      BY DEF DaysInv, Accounted
    <2>2. Remaining(member[u], day) = due[u]
      BY <2>1 DEF UserAccounted
    <2> QED
      BY <2>1, <2>2 DEF EndsAccounted
  <1> QED
    BY <1>1, InitIInv, StepIInv, InitDays, StepDays, PTL DEF Spec

\* The first revocation of a user (revokeCodeRedemptionByAppId) takes no day
\* that was bought.
THEOREM BoughtDaysKept == Spec => []BoughtIsKept
  <1>1. DaysInv => BoughtIsKept
    BY DEF DaysInv, Accounted, UserAccounted, BoughtIsKept
  <1> QED
    BY <1>1, InitIInv, StepIInv, InitDays, StepDays, PTL DEF Spec

-----------------------------------------------------------------------------
(* Apple: the words of a subscription                                      *)

AppleLabel == {"idle", "resolve", "history", "persist", "entitle", "link", "read", "write", "mark",
          "over"}
Person == Customer \cup {Nobody}
RowType == [there : BOOLEAN, status : Status \cup {"NONE"}, date : Nat, user : Person]
RequestType == [at : AppleLabel, user : Person, todo : Seq(Payload)]

RowsTyped ==
    /\ date \in Nat
    /\ apple \in [Transaction -> Status \cup {"NONE"}]
    /\ signed \in [Notice \cup Device -> Payload \cup {Unsigned}]
    /\ row \in [Transaction -> RowType]
    /\ request \in [Request -> RequestType]
    /\ newest \in [Transaction -> Payload \cup {Unsigned}]

\* A request that has something to write, or to find the user of.
Telling(r) == request[r].at \in {"resolve", "persist", "entitle"}

Told == \A r \in Request : Telling(r) => request[r].todo # <<>>

\* A payload that is kept, on its way, or was the newest when it was written.
Heard(p) ==
    \/ \E x \in Notice \cup Device : signed[x] = p
    \/ \E r \in Request : Telling(r) /\ \E i \in DOMAIN request[r].todo : request[r].todo[i] = p
    \/ \E t \in Transaction : newest[t] = p

Agree ==
    \A p, q \in Payload :
      (Heard(p) /\ Heard(q) /\ p.transaction = q.transaction /\ p.date = q.date)
        => p.status = q.status

Dated ==
    \A p \in Payload : Heard(p) => p.date \in 1 .. date /\ apple[p.transaction] # "NONE"

InStep ==
    \A t \in Transaction :
      /\ row[t].status = newest[t].status
      /\ row[t].date = newest[t].date
      /\ row[t].there <=> newest[t] # Unsigned
      /\ newest[t] # Unsigned => newest[t].transaction = t

AppleIInv == RowsTyped /\ Told /\ Agree /\ Dated /\ InStep

-----------------------------------------------------------------------------

LEMMA Words == "NONE" \notin Status /\ Unsigned \notin Payload
  BY DEF Status, Payload, Unsigned

LEMMA AppleInitIInv == AppleInit => AppleIInv
  <1> SUFFICES ASSUME AppleInit PROVE AppleIInv
    OBVIOUS
  <1>1. Unbegun \in RequestType /\ NoRow \in RowType
    BY EmptySeq DEF Unbegun, NoRow, RequestType, RowType, AppleLabel, Person
  <1>2. RowsTyped
    BY <1>1 DEF AppleInit, RowsTyped
  <1>3. \A r \in Request : ~Telling(r)
    BY DEF AppleInit, Telling, Unbegun
  <1>4. \A p \in Payload : ~Heard(p)
    BY <1>3, Words DEF AppleInit, Heard
  <1>5. InStep
    BY DEF AppleInit, InStep, NoRow, Unsigned
  <1> QED
    BY <1>2, <1>3, <1>4, <1>5 DEF AppleIInv, Told, Agree, Dated

\* Nothing new is heard, and no row is written.
LEMMA SilentKeeps ==
  ASSUME AppleIInv, RowsTyped', Told',
         date' >= date, \A p \in Payload : Heard(p)' => Heard(p),
         newest' = newest,
         \A t \in Transaction : apple[t] # "NONE" => apple'[t] # "NONE",
         \A t \in Transaction : /\ row'[t].status = row[t].status /\ row'[t].date = row[t].date
                                /\ row'[t].there <=> row[t].there
  PROVE  AppleIInv'
  <1>1. Agree'
    BY DEF AppleIInv, Agree
  <1>2. Dated'
    <2> SUFFICES ASSUME NEW p \in Payload, Heard(p)'
                 PROVE  p.date \in 1 .. date' /\ apple'[p.transaction] # "NONE"
      BY DEF Dated
    <2>1. /\ p.date \in 1 .. date /\ apple[p.transaction] # "NONE"
          /\ date \in Nat /\ date' \in Nat /\ p.transaction \in Transaction
      BY DEF AppleIInv, Dated, RowsTyped, Payload
    <2> QED
      BY <2>1
  <1>3. InStep'
    BY DEF AppleIInv, InStep
  <1> QED
    BY <1>1, <1>2, <1>3 DEF AppleIInv

\* Apple signs something at a tick of its clock of its own, in which it says
\* one thing of each transaction.
LEMMA SignedKeeps ==
  ASSUME AppleIInv, RowsTyped', Told', date' = date + 1, UNCHANGED <<newest, row>>,
         \A p \in Payload : Heard(p)' => Heard(p) \/ p.date = date + 1,
         \A p \in Payload : Heard(p)' => apple'[p.transaction] # "NONE",
         \A p, q \in Payload : (/\ Heard(p)' /\ Heard(q)' /\ p.transaction = q.transaction
                                /\ p.date = date + 1 /\ q.date = date + 1)
                                 => p.status = q.status
  PROVE  AppleIInv'
  <1>0. date \in Nat /\ \A p \in Payload : Heard(p) => p.date \in 1 .. date
    BY DEF AppleIInv, RowsTyped, Dated
  <1>1. Agree'
    <2> SUFFICES ASSUME NEW p \in Payload, NEW q \in Payload, Heard(p)', Heard(q)',
                        p.transaction = q.transaction, p.date = q.date
                 PROVE  p.status = q.status
      BY DEF Agree
    <2>1. CASE p.date = date + 1
      BY <2>1
    <2>2. CASE p.date # date + 1
      BY <2>2 DEF AppleIInv, Agree
    <2> QED
      BY <2>1, <2>2
  <1>2. Dated'
    <2> SUFFICES ASSUME NEW p \in Payload, Heard(p)'
                 PROVE  p.date \in 1 .. date' /\ apple'[p.transaction] # "NONE"
      BY DEF Dated
    <2> QED
      BY <1>0
  <1>3. InStep'
    BY DEF AppleIInv, InStep
  <1> QED
    BY <1>1, <1>2, <1>3 DEF AppleIInv

-----------------------------------------------------------------------------
(* Apple                                                                   *)

LEMMA NewsKeeps ==
  ASSUME AppleIInv, NEW x \in Notice \cup Device, NEW p \in Payload, p.date = date + 1,
         signed' = [signed EXCEPT ![x] = p], date' = date + 1,
         apple' \in [Transaction -> Status \cup {"NONE"}], apple'[p.transaction] # "NONE",
         \A t \in Transaction : apple[t] # "NONE" => apple'[t] # "NONE",
         UNCHANGED <<row, request, newest>>
  PROVE  AppleIInv'
  <1>1. RowsTyped' /\ Told'
    BY DEF AppleIInv, RowsTyped, Told, Telling
  <1>2. \A q \in Payload : Heard(q)' => Heard(q) \/ q = p
    BY DEF Heard, Telling, AppleIInv, RowsTyped
  <1>3. \A q \in Payload : Heard(q) => q.date # date + 1
    BY DEF AppleIInv, Dated, RowsTyped
  <1>4. \A q \in Payload : Heard(q)' => apple'[q.transaction] # "NONE"
    BY <1>2 DEF AppleIInv, Dated, Payload
  <1> QED
    BY <1>1, <1>2, <1>3, <1>4, SignedKeeps

LEMMA HappensKeeps ==
  ASSUME AppleIInv, NEW n \in Notice, NEW t \in Transaction, NEW status \in Status,
         Happens(n, t, status)
  PROVE  AppleIInv'
  <1> DEFINE p == [transaction |-> t, status |-> status, date |-> date + 1]
  <1>1. RowsTyped /\ p \in Payload /\ p.date = date + 1
    BY DEF AppleIInv, RowsTyped, Payload
  <1>2. signed' = [signed EXCEPT ![n] = p] /\ date' = date + 1
    BY DEF Happens
  <1>3. /\ apple' \in [Transaction -> Status \cup {"NONE"}] /\ apple'[p.transaction] # "NONE"
        /\ \A x \in Transaction : apple[x] # "NONE" => apple'[x] # "NONE"
    BY <1>1, Words DEF Happens, RowsTyped
  <1> HIDE DEF p
  <1> QED
    BY <1>1, <1>2, <1>3, NewsKeeps DEF Happens, tables, news, RowsTyped

LEMMA DerivedStatus ==
  ASSUME NEW s \in Status \cup {"NONE"}, s # "NONE"
  PROVE  Derived(s) \subseteq Status
  BY DEF Derived, Status

LEMMA ReceiptKeeps ==
  ASSUME AppleIInv, NEW d \in Device, NEW t \in Transaction, Receipt(d, t)
  PROVE  AppleIInv'
  <1>1. PICK status \in Derived(apple[t]) :
          signed' = [signed EXCEPT ![d] = [transaction |-> t, status |-> status, date |-> date']]
    BY DEF Receipt
  <1> DEFINE p == [transaction |-> t, status |-> status, date |-> date + 1]
  <1>2. RowsTyped /\ p \in Payload /\ p.date = date + 1
    BY DerivedStatus DEF AppleIInv, RowsTyped, Payload, Receipt
  <1>3. signed' = [signed EXCEPT ![d] = p] /\ date' = date + 1
    BY <1>1 DEF Receipt
  <1>4. apple' = apple /\ apple'[p.transaction] # "NONE"
    BY DEF Receipt
  <1> HIDE DEF p
  <1> QED
    BY <1>2, <1>3, <1>4, NewsKeeps DEF Receipt, tables, news, RowsTyped

-----------------------------------------------------------------------------
(* Requests                                                                *)

\* A request takes a step: what it tells from now on it told before.
LEMMA RequestHeard ==
  ASSUME RowsTyped, NEW r \in Request, NEW new \in RequestType,
         request' = [request EXCEPT ![r] = new], UNCHANGED <<signed, newest>>
  PROVE  \A p \in Payload : Heard(p)' =>
           \/ Heard(p)
           \/ /\ new.at \in {"resolve", "persist", "entitle"}
              /\ \E i \in DOMAIN new.todo : new.todo[i] = p
  <1> SUFFICES ASSUME NEW p \in Payload, Heard(p)', ~Heard(p)
               PROVE  /\ new.at \in {"resolve", "persist", "entitle"}
                      /\ \E i \in DOMAIN new.todo : new.todo[i] = p
    OBVIOUS
  <1>1. PICK x \in Request :
          Telling(x)' /\ \E i \in DOMAIN request'[x].todo : request'[x].todo[i] = p
    BY DEF Heard
  <1>2. x = r
    BY <1>1 DEF Heard, Telling, RowsTyped
  <1> QED
    BY <1>1, <1>2 DEF Telling, RowsTyped

LEMMA RequestKeeps ==
  ASSUME AppleIInv, NEW r \in Request, NEW new \in RequestType,
         request' = [request EXCEPT ![r] = new],
         UNCHANGED <<outside, row, newest>>,
         new.at \in {"resolve", "persist", "entitle"} =>
           new.todo # <<>> /\ \A i \in DOMAIN new.todo : Heard(new.todo[i])
  PROVE  AppleIInv'
  <1>1. RowsTyped'
    BY DEF AppleIInv, RowsTyped, outside
  <1>2. Told'
    BY DEF AppleIInv, RowsTyped, Told, Telling
  <1>3. \A p \in Payload : Heard(p)' => Heard(p)
    BY RequestHeard DEF AppleIInv, outside
  <1>4. date' >= date /\ apple' = apple
    BY DEF outside, AppleIInv, RowsTyped
  <1> QED
    BY <1>1, <1>2, <1>3, <1>4, SilentKeeps DEF AppleIInv

LEMMA ReceiveKeeps ==
  ASSUME AppleIInv, NEW n \in Notice, Receive(n)
  PROVE  AppleIInv'
  <1> DEFINE new == [at |-> "resolve", user |-> Nobody, todo |-> <<signed[n]>>]
  <1>1. n \in Request /\ signed[n] \in Payload
    BY DEF Request, Receive, AppleIInv, RowsTyped
  <1>2. new \in RequestType /\ new.todo # <<>> /\ \A i \in DOMAIN new.todo : new.todo[i] = signed[n]
    BY <1>1 DEF RequestType, AppleLabel, Person
  <1>3. Heard(signed[n])
    BY DEF Heard
  <1>4. request' = [request EXCEPT ![n] = new] /\ UNCHANGED <<outside, row, newest>>
    BY DEF Receive, Begin
  <1> HIDE DEF new
  <1> QED
    BY <1>1, <1>2, <1>3, <1>4, RequestKeeps

LEMMA VerifyKeeps ==
  ASSUME AppleIInv, NEW d \in Device, NEW u \in Customer, Verify(d, u)
  PROVE  AppleIInv'
  <1> DEFINE new == [at |-> "persist", user |-> u, todo |-> <<signed[d]>>]
  <1>1. d \in Request /\ signed[d] \in Payload
    BY DEF Request, Verify, AppleIInv, RowsTyped
  <1>2. new \in RequestType /\ new.todo # <<>> /\ \A i \in DOMAIN new.todo : new.todo[i] = signed[d]
    BY <1>1 DEF RequestType, AppleLabel, Person
  <1>3. Heard(signed[d])
    BY DEF Heard
  <1>4. request' = [request EXCEPT ![d] = new] /\ UNCHANGED <<outside, row, newest>>
    BY DEF Verify, Begin, tables
  <1> HIDE DEF new
  <1> QED
    BY <1>1, <1>2, <1>3, <1>4, RequestKeeps

LEMMA StartRestoreKeeps ==
  ASSUME AppleIInv, NEW r \in Restore, NEW u \in Customer, StartRestore(r, u)
  PROVE  AppleIInv'
  <1> DEFINE new == [at |-> "history", user |-> u, todo |-> <<>>]
  <1>1. r \in Request /\ new \in RequestType /\ new.at = "history"
    BY EmptySeq DEF Request, RequestType, AppleLabel, Person
  <1>2. request' = [request EXCEPT ![r] = new] /\ UNCHANGED <<outside, row, newest>>
    BY DEF StartRestore, Begin, tables
  <1> HIDE DEF new
  <1> QED
    BY <1>1, <1>2, RequestKeeps

\* A label that tells nothing, and one that tells the same.
LEMMA TurnKeeps ==
  ASSUME AppleIInv, NEW r \in Request, NEW label \in AppleLabel, NEW u \in Person,
         request' = [request EXCEPT ![r].at = label, ![r].user = u],
         label \in {"resolve", "persist", "entitle"} => Telling(r),
         UNCHANGED <<outside, row, newest>>
  PROVE  AppleIInv'
  <1> DEFINE new == [request[r] EXCEPT !.at = label, !.user = u]
  <1>1. new \in RequestType /\ new.at = label /\ new.todo = request[r].todo
    BY DEF AppleIInv, RowsTyped, RequestType
  <1>2. request' = [request EXCEPT ![r] = new]
    BY DEF AppleIInv, RowsTyped, RequestType
  <1>3. Telling(r) => new.todo # <<>> /\ \A i \in DOMAIN new.todo : Heard(new.todo[i])
    BY <1>1 DEF AppleIInv, Told, Heard
  <1> HIDE DEF new
  <1> QED
    BY <1>1, <1>2, <1>3, RequestKeeps

LEMMA QuietTurnKeeps ==
  ASSUME AppleIInv, NEW r \in Request, NEW label \in {"link", "mark", "read"}, Turn(r, label),
         UNCHANGED <<outside, row, newest>>
  PROVE  AppleIInv'
  <1> DEFINE u == request[r].user
  <1>1. u \in Person
    BY DEF AppleIInv, RowsTyped, RequestType
  <1>2. request' = [request EXCEPT ![r].at = label, ![r].user = u]
    BY DEF AppleIInv, RowsTyped, Turn, RequestType
  <1> HIDE DEF u
  <1>3. label \in AppleLabel
    BY DEF AppleLabel
  <1> QED
    BY <1>1, <1>2, <1>3, TurnKeeps

LEMMA LeaveKeeps ==
  ASSUME AppleIInv, NEW r \in Request, Leave(r), UNCHANGED <<outside, row, newest>>
  PROVE  AppleIInv'
  <1> DEFINE new == [Unbegun EXCEPT !.at = "over"]
  <1>1. new \in RequestType /\ new.at = "over"
    BY EmptySeq DEF Unbegun, RequestType, AppleLabel, Person
  <1>2. request' = [request EXCEPT ![r] = new]
    BY DEF Leave
  <1> HIDE DEF new
  <1> QED
    BY <1>1, <1>2, RequestKeeps

LEMMA ResolveKeeps ==
  ASSUME AppleIInv, NEW r \in Request, Resolve(r)
  PROVE  AppleIInv'
  <1>1. PICK u \in UsersOfEvent : request' = [request EXCEPT ![r].at = "persist", ![r].user = u]
    BY DEF Resolve
  <1>2. u \in Person
    BY TokenAssumption DEF UsersOfEvent, Person, AppleIInv, RowsTyped, RowType
  <1>3. Telling(r) /\ UNCHANGED <<outside, row, newest>> /\ "persist" \in AppleLabel
    BY DEF Resolve, Doing, Telling, tables, news, AppleLabel
  <1> QED
    BY <1>1, <1>2, <1>3, TurnKeeps

LEMMA HistoryKeeps ==
  ASSUME AppleIInv, NEW r \in Request, History(r)
  PROVE  AppleIInv'
  <1>1. RowsTyped /\ date' = date + 1 /\ UNCHANGED <<apple, signed, row, newest>>
    BY DEF History, AppleIInv, tables, news
  <1>2. CASE Known = {}
    <2>1. request' = [request EXCEPT ![r] = [Unbegun EXCEPT !.at = "over"]]
      BY <1>2 DEF History, Leave
    <2>2. [Unbegun EXCEPT !.at = "over"] \in RequestType /\ [Unbegun EXCEPT !.at = "over"].at = "over"
      BY EmptySeq DEF Unbegun, RequestType, AppleLabel, Person
    <2>3. RowsTyped'
      BY <1>1, <2>1, <2>2 DEF RowsTyped
    <2>4. Told'
      BY <1>1, <2>1, <2>2 DEF AppleIInv, RowsTyped, Told, Telling
    <2>5. \A p \in Payload : Heard(p)' => Heard(p)
      BY <1>1, <2>1, <2>2, RequestHeard
    <2>6. date' >= date
      BY <1>1 DEF RowsTyped
    <2> QED
      BY <1>1, <2>3, <2>4, <2>5, <2>6, SilentKeeps
  <1>3. CASE Known # {}
    <2>1. PICK periods \in [1 .. Cardinality(Known) -> Known], status \in [Known -> Status] :
            /\ \A t \in Known : status[t] \in Derived(apple[t])
            /\ request' = [request EXCEPT ![r].at = "persist",
                 ![r].todo = [i \in DOMAIN periods |->
                   [transaction |-> periods[i], status |-> status[periods[i]], date |-> date']]]
      BY <1>3 DEF History
    <2> DEFINE n == Cardinality(Known)
               todo == [i \in 1 .. n |->
                         [transaction |-> periods[i], status |-> status[periods[i]], date |-> date']]
               new == [request[r] EXCEPT !.at = "persist", !.todo = todo]
    <2>2. n \in Nat \ {0}
      <3>1. Known \in SUBSET Transaction
        BY DEF Known
      <3> QED
        BY <1>3, <3>1, TransactionAssumption, FS_Subset, FS_CardinalityType, FS_EmptySet
    <2>3. \A i \in 1 .. n : /\ todo[i] \in Payload /\ todo[i].date = date + 1
                            /\ todo[i].transaction \in Known
                            /\ todo[i].status = status[todo[i].transaction]
      BY <1>1, <2>1 DEF Payload, Known, RowsTyped
    <2>4. todo \in Seq(Payload) /\ DOMAIN todo = 1 .. n /\ todo # <<>>
      <3>1. todo \in Seq(Payload) /\ DOMAIN todo = 1 .. n
        BY <2>2, <2>3
      <3>2. 1 \in DOMAIN todo
        BY <2>2, <3>1
      <3> QED
        BY <3>1, <3>2
    <2>5. request' = [request EXCEPT ![r] = new]
      BY <1>1, <2>1 DEF RowsTyped, RequestType
    <2> HIDE DEF todo
    <2>6. new \in RequestType /\ new.at = "persist" /\ new.todo = todo
      BY <1>1, <2>4 DEF RowsTyped, RequestType, AppleLabel
    <2> HIDE DEF new
    <2>7. RowsTyped'
      BY <1>1, <2>5, <2>6 DEF RowsTyped
    <2>8. Told'
      BY <1>1, <2>4, <2>5, <2>6 DEF AppleIInv, RowsTyped, Told, Telling
    <2>9. \A p \in Payload : Heard(p)' => Heard(p) \/ \E i \in 1 .. n : p = todo[i]
      BY <1>1, <2>4, <2>5, <2>6, RequestHeard
    <2>10. \A p \in Payload : Heard(p) => p.date # date + 1
      BY DEF AppleIInv, Dated, RowsTyped
    <2>11. \A p \in Payload : (Heard(p)' /\ p.date = date + 1) => p.status = status[p.transaction]
      BY <2>3, <2>9, <2>10
    <2>12. \A p \in Payload : Heard(p)' => Heard(p) \/ p.date = date + 1
      BY <2>3, <2>9
    <2>13. \A p \in Payload : Heard(p)' => apple'[p.transaction] # "NONE"
      BY <1>1, <2>3, <2>9 DEF AppleIInv, Dated, Known
    <2> QED
      BY <1>1, <2>7, <2>8, <2>11, <2>12, <2>13, SignedKeeps
  <1> QED
    BY <1>2, <1>3

\* The row's own word: the newest that was written stays the newest.
LEMMA PersistKeeps ==
  ASSUME AppleIInv, NEW r \in Request, Persist(r)
  PROVE  AppleIInv'
  <1> DEFINE p == Head(request[r].todo)
             t == p.transaction
  <1>1. /\ RowsTyped /\ Telling(r) /\ request[r].todo \in Seq(Payload) /\ request[r].todo # <<>>
    BY DEF AppleIInv, Persist, Doing, Telling, RowsTyped, RequestType, Told
  <1>2. /\ p \in Payload /\ 1 \in DOMAIN request[r].todo /\ request[r].todo[1] = p
    BY <1>1, EmptySeq, LenProperties, ElementOfSeq
  <1>3. Heard(p)
    BY <1>1, <1>2 DEF Heard
  <1> HIDE DEF p
  <1>4. /\ t \in Transaction /\ p.status \in Status /\ p.date \in 1 .. date /\ p.date \in Nat
        /\ p # Unsigned
    BY <1>2, <1>3, Words DEF Payload, AppleIInv, Dated
  <1>5. row' = [row EXCEPT ![t] = Persisted(t, p, request[r].user)]
    BY DEF Persist, p
  <1>6. newest' = [newest EXCEPT ![t] = IF p.date > newest[t].date THEN p ELSE newest[t]]
    BY <1>1, <1>4 DEF Persist, p, RowsTyped
  <1>7. request' = [request EXCEPT ![r].at = "entitle"] /\ UNCHANGED outside
    BY DEF Persist, Turn
  <1>8. RowsTyped'
    <2>1. Persisted(t, p, request[r].user) \in RowType
      <3>1. row[t] \in RowType /\ request[r].user \in Person
        BY <1>1, <1>4 DEF RowsTyped, RequestType
      <3> QED
        BY <1>4, <3>1 DEF Persisted, RowType
    <2>2. row' \in [Transaction -> RowType]
      BY <1>1, <1>5, <2>1 DEF RowsTyped
    <2>3. newest' \in [Transaction -> Payload \cup {Unsigned}]
      BY <1>1, <1>2, <1>6 DEF RowsTyped
    <2>4. request' \in [Request -> RequestType]
      BY <1>1, <1>7 DEF RowsTyped, RequestType, AppleLabel
    <2> QED
      BY <1>1, <1>7, <2>2, <2>3, <2>4 DEF RowsTyped, outside
  <1>9. /\ \A x \in Request : request'[x].todo = request[x].todo
        /\ \A x \in Request : Telling(x)' => Telling(x)
    BY <1>1, <1>7 DEF RowsTyped, RequestType, Telling
  <1>10. Told'
    BY <1>9 DEF AppleIInv, Told
  <1>11. \A q \in Payload : Heard(q)' => Heard(q)
    <2> SUFFICES ASSUME NEW q \in Payload, Heard(q)' PROVE Heard(q)
      OBVIOUS
    <2>1. CASE \E x \in Notice \cup Device : signed'[x] = q
      BY <1>7, <2>1 DEF Heard, outside
    <2>2. CASE \E x \in Request : Telling(x)' /\ \E i \in DOMAIN request'[x].todo : request'[x].todo[i] = q
      BY <1>9, <2>2 DEF Heard
    <2>3. CASE \E x \in Transaction : newest'[x] = q
      BY <1>1, <1>3, <1>4, <1>6, <2>3 DEF Heard, RowsTyped
    <2> QED
      BY <2>1, <2>2, <2>3 DEF Heard
  <1>12. Agree' /\ Dated'
    BY <1>7, <1>11 DEF AppleIInv, Agree, Dated, outside
  <1>13. InStep'
    <2> SUFFICES ASSUME NEW x \in Transaction
                 PROVE  /\ row'[x].status = newest'[x].status
                        /\ row'[x].date = newest'[x].date
                        /\ row'[x].there <=> newest'[x] # Unsigned
                        /\ newest'[x] # Unsigned => newest'[x].transaction = x
      BY DEF InStep
    <2>0. /\ row[x].status = newest[x].status /\ row[x].date = newest[x].date
          /\ row[x].there <=> newest[x] # Unsigned
          /\ newest[x] # Unsigned => newest[x].transaction = x
          /\ newest[x] # Unsigned => newest[x] \in Payload
          /\ newest[x].date \in Nat
          /\ newest[x] = Unsigned => newest[x].date = 0
      BY <1>1 DEF AppleIInv, InStep, RowsTyped, Payload, Unsigned
    <2>1. CASE x # t
      BY <1>1, <1>4, <1>5, <1>6, <2>0, <2>1 DEF RowsTyped
    <2>2. CASE x = t /\ p.date > newest[x].date
      <3>1. newest'[x] = p /\ row'[x] = Persisted(t, p, request[r].user)
        BY <1>1, <1>4, <1>5, <1>6, <2>2 DEF RowsTyped
      <3> QED
        BY <1>4, <2>0, <2>2, <3>1 DEF Persisted
    <2>3. CASE x = t /\ ~(p.date > newest[x].date)
      <3>1. newest'[x] = newest[x] /\ row'[x] = Persisted(t, p, request[r].user)
        BY <1>1, <1>4, <1>5, <1>6, <2>3 DEF RowsTyped
      <3>2. newest[x] # Unsigned /\ row[x].there
        BY <1>4, <2>0, <2>3
      <3>3. p.date = newest[x].date => p.status = newest[x].status
        <4>1. Heard(newest[x])
          BY DEF Heard
        <4> QED
          BY <1>2, <1>3, <2>0, <2>3, <3>2, <4>1 DEF AppleIInv, Agree
      <3> QED
        BY <1>4, <2>0, <2>3, <3>1, <3>2, <3>3 DEF Persisted
    <2> QED
      BY <2>1, <2>2, <2>3
  <1> QED
    BY <1>8, <1>10, <1>12, <1>13 DEF AppleIInv

LEMMA EntitleKeeps ==
  ASSUME AppleIInv, NEW r \in Request, Entitle(r)
  PROVE  AppleIInv'
  <1> DEFINE todo == request[r].todo
             next == [request[r] EXCEPT !.at = "persist", !.todo = Tail(todo)]
  <1>1. RowsTyped /\ Telling(r) /\ todo \in Seq(Payload) /\ UNCHANGED <<outside, row, newest>>
    BY DEF AppleIInv, Entitle, Doing, Telling, RowsTyped, RequestType, news
  <1>2. CASE Len(todo) > 1
    <2>1. request' = [request EXCEPT ![r] = next]
      BY <1>1, <1>2 DEF Entitle, RowsTyped, RequestType
    <2>2. /\ Tail(todo) \in Seq(Payload) /\ Len(Tail(todo)) = Len(todo) - 1
          /\ \A i \in 1 .. Len(Tail(todo)) : Tail(todo)[i] = todo[i + 1]
          /\ Len(todo) \in Nat
      BY <1>1, <1>2, HeadTailProperties, LenProperties
    <2>3. Tail(todo) # <<>> /\ \A i \in DOMAIN Tail(todo) : Heard(Tail(todo)[i])
      <3>1. Tail(todo) # <<>>
        <4> HIDE DEF todo
        <4>1. Len(Tail(todo)) # 0
          BY <1>2, <2>2
        <4>2. \A rest \in Seq(Payload) : Len(rest) # 0 => rest # <<>>
          OBVIOUS
        <4> QED
          BY <2>2, <4>1, <4>2
      <3>2. \A i \in 1 .. Len(Tail(todo)) : i + 1 \in DOMAIN todo
        BY <1>1, <2>2, LenProperties
      <3> QED
        BY <1>1, <2>2, <3>1, <3>2 DEF Heard
    <2>4. next \in RequestType /\ next.todo = Tail(todo)
      BY <1>1, <2>2 DEF RowsTyped, RequestType, AppleLabel
    <2> HIDE DEF next
    <2> QED
      BY <1>1, <2>1, <2>3, <2>4, RequestKeeps
  <1>3. CASE ~(Len(todo) > 1)
    <2>1. Leave(r) \/ \E label \in {"link", "mark", "read"} : Turn(r, label)
      BY <1>3 DEF Entitle
    <2>2. CASE Leave(r)
      BY <1>1, <2>2, LeaveKeeps
    <2>3. CASE \E label \in {"link", "mark", "read"} : Turn(r, label)
      BY <1>1, <2>3, QuietTurnKeeps
    <2> QED
      BY <2>1, <2>2, <2>3
  <1> QED
    BY <1>2, <1>3

LEMMA LinkKeeps ==
  ASSUME AppleIInv, NEW r \in Request, Link(r)
  PROVE  AppleIInv'
  <1>1. /\ RowsTyped /\ Turn(r, "read") /\ UNCHANGED <<outside, newest>>
        /\ request[r] \in RequestType
    BY DEF AppleIInv, Link, news, RowsTyped
  <1>2. \A t \in Transaction :
          /\ row'[t] \in RowType
          /\ row'[t].status = row[t].status /\ row'[t].date = row[t].date
          /\ row'[t].there <=> row[t].there
    BY <1>1 DEF Link, RowsTyped, RowType, RequestType
  <1> DEFINE new == [request[r] EXCEPT !.at = "read"]
  <1>3. request' = [request EXCEPT ![r] = new] /\ new \in RequestType /\ new.at = "read"
    BY <1>1 DEF Turn, RowsTyped, RequestType, AppleLabel
  <1> HIDE DEF new
  <1>4. RowsTyped'
    <2>1. row' \in [Transaction -> RowType]
      BY <1>2 DEF Link
    <2> QED
      BY <1>1, <1>3, <2>1 DEF RowsTyped, outside
  <1>5. Told'
    BY <1>1, <1>3 DEF AppleIInv, Told, Telling, RowsTyped
  <1>6. \A p \in Payload : Heard(p)' => Heard(p)
    BY <1>1, <1>3, RequestHeard DEF outside
  <1>7. date' >= date /\ apple' = apple
    BY <1>1 DEF outside, RowsTyped
  <1> QED
    BY <1>1, <1>2, <1>4, <1>5, <1>6, <1>7, SilentKeeps

LEMMA ReadKeeps ==
  ASSUME AppleIInv, NEW r \in Request, Read(r)
  PROVE  AppleIInv'
  <1>1. PICK t \in Transaction :
          /\ Latest(t)
          /\ request' = [request EXCEPT ![r].at = "write",
               ![r].todo = <<[transaction |-> t, status |-> row[t].status, date |-> row[t].date]>>]
    BY DEF Read
  <1> DEFINE p == [transaction |-> t, status |-> row[t].status, date |-> row[t].date]
             new == [request[r] EXCEPT !.at = "write", !.todo = <<p>>]
  <1>2. RowsTyped /\ UNCHANGED <<outside, row, newest>>
    BY DEF AppleIInv, Read, tables, news
  <1>3. p \in Payload
    <2>1. row[t].status = newest[t].status /\ row[t].date = newest[t].date /\ newest[t] \in Payload
      BY <1>1, <1>2 DEF Latest, AppleIInv, InStep, RowsTyped
    <2> QED
      BY <2>1 DEF Payload
  <1> HIDE DEF p
  <1>4. new \in RequestType /\ new.at = "write"
    <2>1. <<p>> \in Seq(Payload)
      BY <1>3
    <2> QED
      BY <1>2, <2>1 DEF RowsTyped, RequestType, AppleLabel
  <1>5. request' = [request EXCEPT ![r] = new]
    BY <1>1, <1>2 DEF p, RowsTyped, RequestType
  <1> HIDE DEF new
  <1> QED
    BY <1>2, <1>4, <1>5, RequestKeeps

LEMMA RestKeeps ==
  ASSUME AppleIInv, NEW r \in Request, Write(r) \/ Mark(r) \/ Fault(r)
  PROVE  AppleIInv'
  <1>1. RowsTyped /\ UNCHANGED <<outside, row, newest>>
    BY DEF AppleIInv, Write, Mark, Fault, news
  <1>2. Leave(r) \/ Turn(r, "mark")
    BY DEF Write, Mark, Fault
  <1>3. CASE Leave(r)
    BY <1>1, <1>3, LeaveKeeps
  <1>4. CASE Turn(r, "mark")
    BY <1>1, <1>4, QuietTurnKeeps
  <1> QED
    BY <1>2, <1>3, <1>4

-----------------------------------------------------------------------------

LEMMA AppleStepIInv == AppleIInv /\ [AppleNext]_appleVars => AppleIInv'
  <1> SUFFICES ASSUME AppleIInv, [AppleNext]_appleVars PROVE AppleIInv'
    OBVIOUS
  <1>1. ASSUME NEW r \in Request, Work(r) \/ Fault(r) PROVE AppleIInv'
    BY <1>1, ResolveKeeps, HistoryKeeps, PersistKeeps, EntitleKeeps, LinkKeeps, ReadKeeps, RestKeeps
    DEF Work
  <1>2. CASE UNCHANGED appleVars
    <2>1. /\ date' = date /\ apple' = apple /\ signed' = signed /\ row' = row
          /\ request' = request /\ newest' = newest
      BY <1>2 DEF appleVars, outside, tables, news
    <2> QED
      BY <2>1 DEF AppleIInv, RowsTyped, Told, Telling, Agree, Dated, Heard, InStep
  <1> QED
    BY <1>1, <1>2, HappensKeeps, ReceiptKeeps, ReceiveKeeps, VerifyKeeps, StartRestoreKeeps
    DEF AppleNext

\* A transaction's row says what Apple said last, in whatever order
\* notifications, receipts and restores come and overlap
\* (apple-iap.service.ts, persistTransaction).
THEOREM RowIsNewest == AppleSpec => []StatusIsNewest
  <1>1. AppleIInv => StatusIsNewest
    BY DEF AppleIInv, InStep, StatusIsNewest
  <1> QED
    BY <1>1, AppleInitIInv, AppleStepIInv, PTL DEF AppleSpec

-----------------------------------------------------------------------------
(* The other tables                                                        *)

Rest ==
    /\ received \in [Notice -> {"NONE", "RECEIVED", "PROCESSED", "FAILED"}]
    /\ entitled \in [Customer -> Status \cup {NoEntitlement}]
    /\ alone \in BOOLEAN
    /\ \A r \in Request : Doing(r, "write") => request[r].todo # <<>>

LEMMA InitRest == AppleInit => Rest
  <1> SUFFICES ASSUME AppleInit PROVE Rest
    OBVIOUS
  <1>1. \A r \in Request : request[r].at = "idle"
    BY DEF AppleInit, Unbegun
  <1> QED BY <1>1 DEF AppleInit, Rest, Doing

\* The request that moves does not go to the write but from the read.
LEMMA OneMoves ==
  ASSUME RowsTyped, Rest, NEW r \in Request, NEW new \in RequestType,
         request' = [request EXCEPT ![r] = new], new.at = "write" => new.todo # <<>>
  PROVE  \A q \in Request : Doing(q, "write")' => request'[q].todo # <<>>
  <1>1. request'[r] = new /\ \A q \in Request \ {r} : request'[q] = request[q]
    BY DEF RowsTyped
  <1> QED BY <1>1 DEF Rest, Doing

LEMMA TurnMoves ==
  ASSUME RowsTyped, Rest, NEW r \in Request,
         Leave(r) \/ \E label \in AppleLabel \ {"write"} : Turn(r, label)
  PROVE  \A q \in Request : Doing(q, "write")' => request'[q].todo # <<>>
  <1>1. CASE Leave(r)
    <2> DEFINE new == [Unbegun EXCEPT !.at = "over"]
    <2>1. new \in RequestType /\ new.at = "over"
      <3>1. <<>> \in Seq(Payload) /\ "over" \in AppleLabel /\ Nobody \in Person
        BY DEF AppleLabel, Person
      <3>2. new = [at |-> "over", user |-> Nobody, todo |-> <<>>]
        BY DEF Unbegun
      <3> QED BY <3>1, <3>2 DEF RequestType
    <2>2. request' = [request EXCEPT ![r] = new]
      BY <1>1 DEF Leave
    <2> HIDE DEF new
    <2> QED BY <2>1, <2>2, OneMoves
  <1>2. ASSUME NEW label \in AppleLabel \ {"write"}, Turn(r, label)
        PROVE  \A q \in Request : Doing(q, "write")' => request'[q].todo # <<>>
    <2> DEFINE new == [request[r] EXCEPT !.at = label]
    <2>1. new \in RequestType /\ new.at = label
      BY DEF RowsTyped, RequestType
    <2>2. request' = [request EXCEPT ![r] = new]
      BY <1>2 DEF Turn, RowsTyped
    <2> HIDE DEF new
    <2> QED BY <2>1, <2>2, OneMoves
  <1> QED BY <1>1, <1>2

\* What of the tables a step may write: a payload's status, a user's row.
LEMMA EntitledOK ==
  ASSUME RowsTyped, Rest, NEW r \in Request, request[r].todo # <<>>, NEW u \in Person,
         entitled' = entitled
           \/ entitled' = [entitled EXCEPT ![u] = Head(request[r].todo).status]
  PROVE  entitled' \in [Customer -> Status \cup {NoEntitlement}]
  <1>1. Head(request[r].todo) \in Payload
    <2>1. request[r].todo \in Seq(Payload)
      BY DEF RowsTyped, RequestType
    <2> QED BY <2>1, HeadTailProperties
  <1>2. Head(request[r].todo).status \in Status
    BY <1>1 DEF Payload
  <1> QED BY <1>2 DEF Rest

LEMMA StepRest == AppleIInv /\ AppleIInv' /\ Rest /\ [AppleNext]_appleVars => Rest'
  <1> SUFFICES ASSUME AppleIInv, AppleIInv', Rest, [AppleNext]_appleVars PROVE Rest'
    OBVIOUS
  <1>1. RowsTyped /\ RowsTyped' /\ Told
    BY DEF AppleIInv
  <1>2. CASE UNCHANGED <<tables, request, alone>>
    BY <1>2 DEF Rest, tables, Doing
  <1>3. ASSUME NEW r \in Request, NEW label \in {"resolve", "persist", "history"},
               NEW u, NEW todo, Begin(r, label, u, todo),
               received' \in [Notice -> {"NONE", "RECEIVED", "PROCESSED", "FAILED"}],
               entitled' = entitled
        PROVE  Rest'
    <2>1. request' = [request EXCEPT ![r] = [at |-> label, user |-> u, todo |-> todo]]
      BY <1>3 DEF Begin
    <2>2. \A q \in Request : Doing(q, "write")' => request'[q].todo # <<>>
      BY <1>1, <2>1 DEF RowsTyped, Rest, Doing
    <2> QED BY <1>3, <2>2 DEF Begin, Rest
  <1>4. ASSUME NEW n \in Notice, Receive(n)
        PROVE  Rest'
    <2>1. received' \in [Notice -> {"NONE", "RECEIVED", "PROCESSED", "FAILED"}]
      BY <1>4 DEF Receive, Rest
    <2> QED BY <1>3, <1>4, <2>1 DEF Receive, Request
  <1>5. ASSUME NEW d \in Device, NEW u \in Customer, Verify(d, u)
        PROVE  Rest'
    BY <1>3, <1>5 DEF Verify, Request, tables, Rest
  <1>6. ASSUME NEW r \in Restore, NEW u \in Customer, StartRestore(r, u)
        PROVE  Rest'
    BY <1>3, <1>6 DEF StartRestore, Request, tables, Rest
  <1>7. ASSUME NEW r \in Request, Work(r) \/ Fault(r)
        PROVE  Rest'
    <2>1. CASE Resolve(r)
      <3> DEFINE new(u) == [request[r] EXCEPT !.at = "persist", !.user = u]
      <3>1. PICK u : request' = [request EXCEPT ![r].at = "persist", ![r].user = u]
        BY <2>1 DEF Resolve
      <3>2. request'[r].at = "persist" /\ \A q \in Request \ {r} : request'[q] = request[q]
        BY <1>1, <3>1 DEF RowsTyped, RequestType
      <3> QED BY <2>1, <3>2 DEF Resolve, Rest, Doing, tables, news
    <2>2. CASE History(r)
      <3>1. request'[r].at # "write" /\ \A q \in Request \ {r} : request'[q] = request[q]
        BY <1>1, <2>2 DEF History, Leave, Unbegun, RowsTyped, RequestType
      <3> QED BY <2>2, <3>1 DEF History, Rest, Doing, tables, news
    <2>3. CASE Persist(r)
      <3>1. Turn(r, "entitle") /\ UNCHANGED <<received, entitled, alone>>
        BY <2>3 DEF Persist
      <3> QED BY <1>1, <3>1, TurnMoves DEF Rest, AppleLabel
    <2>4. CASE Entitle(r)
      <3>1. Doing(r, "entitle") /\ request[r].todo # <<>> /\ UNCHANGED <<received, alone>>
        BY <1>1, <2>4 DEF Entitle, Told, Telling, Doing, news
      <3>2. request[r].user \in Person
        BY <1>1 DEF RowsTyped, RequestType
      <3>3. entitled' \in [Customer -> Status \cup {NoEntitlement}]
        BY <1>1, <2>4, <3>1, <3>2, EntitledOK DEF Entitle
      <3>4. CASE request' = [request EXCEPT ![r].at = "persist", ![r].todo = Tail(@)]
        <4>1. request'[r].at # "write" /\ \A q \in Request \ {r} : request'[q] = request[q]
          BY <1>1, <3>4 DEF RowsTyped, RequestType
        <4> QED BY <3>1, <3>3, <4>1 DEF Rest, Doing
      <3>5. CASE Leave(r) \/ \E label \in AppleLabel \ {"write"} : Turn(r, label)
        BY <1>1, <3>1, <3>3, <3>5, TurnMoves DEF Rest
      <3> QED BY <2>4, <3>4, <3>5 DEF Entitle, AppleLabel
    <2>5. CASE Link(r)
      <3>1. Turn(r, "read") /\ UNCHANGED <<received, entitled, alone>>
        BY <2>5 DEF Link, news
      <3> QED BY <1>1, <3>1, TurnMoves DEF Rest, AppleLabel
    <2>6. CASE Read(r)
      <3>1. PICK p : request' = [request EXCEPT ![r].at = "write", ![r].todo = <<p>>]
        BY <2>6 DEF Read
      <3>2. request'[r].todo = <<p>> /\ \A q \in Request \ {r} : request'[q] = request[q]
        BY <1>1, <3>1 DEF RowsTyped, RequestType
      <3>3. <<p>> # <<>>
        OBVIOUS
      <3> QED BY <2>6, <3>2, <3>3 DEF Read, Rest, Doing, tables, news
    <2>7. CASE Write(r)
      <3>1. Doing(r, "write") /\ request[r].todo # <<>> /\ UNCHANGED <<received, alone>>
        BY <2>7 DEF Write, Rest, news
      <3>2. request[r].user \in Person
        BY <1>1 DEF RowsTyped, RequestType
      <3>3. entitled' \in [Customer -> Status \cup {NoEntitlement}]
        BY <1>1, <2>7, <3>1, <3>2, EntitledOK DEF Write
      <3>4. Leave(r) \/ Turn(r, "mark")
        BY <2>7 DEF Write
      <3> QED BY <1>1, <3>1, <3>3, <3>4, TurnMoves DEF Rest, AppleLabel
    <2>8. CASE Mark(r) \/ Fault(r)
      <3>1. Leave(r) /\ entitled' = entitled /\ alone' \in BOOLEAN
        BY <2>8 DEF Mark, Fault, Rest, news
      <3>2. received' \in [Notice -> {"NONE", "RECEIVED", "PROCESSED", "FAILED"}]
        BY <2>8 DEF Mark, Fault, Rest
      <3> QED BY <1>1, <3>1, <3>2, TurnMoves DEF Rest
    <2> QED BY <1>7, <2>1, <2>2, <2>3, <2>4, <2>5, <2>6, <2>7, <2>8 DEF Work
  <1>8. ASSUME NEW t \in Transaction, NEW status \in Status, NEW n \in Notice, Happens(n, t, status)
        PROVE  Rest'
    BY <1>2, <1>8 DEF Happens, news
  <1>9. ASSUME NEW d \in Device, NEW t \in Transaction, Receipt(d, t)
        PROVE  Rest'
    BY <1>2, <1>9 DEF Receipt, news
  <1>10. CASE UNCHANGED appleVars
    BY <1>2, <1>10 DEF appleVars, news
  <1> QED BY <1>4, <1>5, <1>6, <1>7, <1>8, <1>9, <1>10 DEF AppleNext

-----------------------------------------------------------------------------
(* Who has the entitlement.  A notification or a restore that has been by  *)
(* itself since it began knows the user of the row that was updated last,  *)
(* and what it reads is still so when it writes it (ByItself).             *)

Busy(r) == request[r].at \notin {"idle", "over"}

\* The rows that were updated before others are a strict order.
Ordered ==
    /\ before \subseteq Transaction \X Transaction
    /\ \A x \in Transaction : <<x, x>> \notin before
    /\ \A x, y \in Transaction : <<x, y>> \in before => row[x].there
    /\ \A x, y, z \in Transaction :
         <<x, y>> \in before /\ <<y, z>> \in before => <<x, z>> \in before
    /\ \A t \in Transaction : ~row[t].there => row[t].user = Nobody

\* The entitlement of u, if that is a user, is as the latest period's row.
Follows(u) == u # Nobody => \A l \in Transaction : Latest(l) => entitled[u] = row[l].status

Followed == \A t \in Transaction : LastUpdated(t) => Follows(row[t].user)

\* What request r read, and is about to write, is as the latest row.
Fresh(r) ==
    \A l \in Transaction : Latest(l) => Head(request[r].todo).status = row[l].status

\* Where a restore is that has been by itself: its user gets all rows.
RestoreStage(r) ==
    LET u == request[r].user IN
    /\ Doing(r, "history") \/ Doing(r, "persist") \/ Doing(r, "entitle") \/ Doing(r, "link")
         \/ Doing(r, "read") \/ Doing(r, "write")
    /\ u # Nobody
    /\ Doing(r, "read") \/ Doing(r, "write") =>
         \A t \in Transaction : row[t].there => row[t].user = u
    /\ Doing(r, "write") => Fresh(r)

\* Where a notification is that has been by itself: if there is a user of
\* any row, it is the one of the row updated last.
NoticeStage(r) ==
    LET u == request[r].user IN
    /\ Doing(r, "resolve") \/ Doing(r, "persist") \/ Doing(r, "entitle") \/ Doing(r, "read")
         \/ Doing(r, "write") \/ Doing(r, "mark")
    /\ Doing(r, "resolve") \/ Doing(r, "persist") \/ Doing(r, "entitle") => Len(request[r].todo) = 1
    /\ Doing(r, "persist") => u # Nobody \/ \A t \in Transaction : row[t].user = Nobody
    /\ Doing(r, "entitle") \/ Doing(r, "read") \/ Doing(r, "write") \/ Doing(r, "mark") =>
         \A t \in Transaction : LastUpdated(t) => row[t].user = u
    /\ Doing(r, "read") \/ Doing(r, "write") => u # Nobody
    /\ Doing(r, "write") => Fresh(r)
    /\ Doing(r, "mark") => Follows(u)

Stage(r) == (r \in Restore /\ RestoreStage(r)) \/ (r \in Notice /\ NoticeStage(r))

ByItself ==
    alone =>
      /\ Quiet => Followed
      /\ \A r \in Request : Busy(r) => Stage(r) /\ \A q \in Request : Busy(q) => q = r

FollowsInv == Ordered /\ ByItself

LEMMA InitFollows == AppleInit => FollowsInv
  <1> SUFFICES ASSUME AppleInit PROVE FollowsInv
    OBVIOUS
  <1>1. before = {} /\ alone = FALSE /\ \A t \in Transaction : row[t].user = Nobody
    BY DEF AppleInit, NoRow
  <1> QED BY <1>1 DEF FollowsInv, Ordered, ByItself

\* An order on finitely many rows ends: if any row has a user, one of those
\* rows was updated after all others that have one.
LEMMA SomeLast ==
  ASSUME Ordered, NEW x \in Transaction, row[x].user # Nobody
  PROVE  \E t \in Transaction : LastLinked(t)
  <1> DEFINE L == {t \in Transaction : row[t].user # Nobody}
             After(t) == {y \in L : <<t, y>> \in before}
             T == {After(t) : t \in L}
  <1>1. T \subseteq SUBSET Transaction /\ T # {}
    OBVIOUS
  <1>2. PICK least \in T : \A y \in T : y \subseteq least => y = least
    <2> HIDE DEF T
    <2>1. IsFiniteSet(Transaction)
      BY TransactionAssumption
    <2> QED BY <1>1, <2>1, LeastSet
  <1>3. PICK t \in L : least = After(t)
    BY <1>2
  <1>4. After(t) = {}
    <2> SUFFICES ASSUME NEW y \in After(t) PROVE FALSE
      OBVIOUS
    <2>1. After(y) \in T
      OBVIOUS
    <2>2. After(y) \subseteq After(t)
      BY DEF Ordered
    <2>3. y \notin After(y)
      BY DEF Ordered
    <2> QED BY <1>2, <1>3, <2>1, <2>2, <2>3
  <1> QED BY <1>3, <1>4 DEF LastLinked

LEMMA UserFound ==
  ASSUME Ordered, NEW u \in UsersOfEvent, u = Nobody
  PROVE  \A t \in Transaction : row[t].user = Nobody
  <1>1. \A t \in Transaction : ~LastLinked(t)
    BY DEF UsersOfEvent, LastLinked
  <1> QED BY <1>1, SomeLast

\* A step that changes no table and no request at work.
LEMMA StillFollows ==
  ASSUME FollowsInv, UNCHANGED <<row, before, entitled, request, alone>>
  PROVE  FollowsInv'
  <1>1. Ordered'
    BY DEF FollowsInv, Ordered
  <1>2. ByItself'
    BY DEF FollowsInv, ByItself, Quiet, Followed, Follows, LastUpdated, Latest, Busy, Stage,
       RestoreStage, NoticeStage, Fresh, Doing
  <1> QED BY <1>1, <1>2 DEF FollowsInv

\* A request begins; if others are at work nothing is said of it.
LEMMA BeginFollows ==
  ASSUME RowsTyped, FollowsInv, NEW r \in Request, NEW new \in RequestType,
         request' = [request EXCEPT ![r] = new], Busy(r)',
         UNCHANGED <<row, before, entitled>>,
         alone' = (r \notin Device /\ Quiet),
         r \notin Device => Stage(r)'
  PROVE  FollowsInv'
  <1>1. Ordered'
    BY DEF FollowsInv, Ordered
  <1>2. ASSUME alone'
        PROVE  /\ Quiet' => Followed'
               /\ \A x \in Request : Busy(x)' =>
                    Stage(x)' /\ \A q \in Request : Busy(q)' => q = x
    <2>1. r \notin Device /\ \A q \in Request : ~Busy(q)
      BY <1>2 DEF Quiet, Busy
    <2>2. \A q \in Request \ {r} : ~Busy(q)'
      BY <2>1 DEF RowsTyped, Busy
    <2>3. ~Quiet'
      BY DEF Quiet, Busy
    <2> QED BY <2>1, <2>2, <2>3
  <1>3. ByItself'
    BY <1>2 DEF ByItself
  <1> QED BY <1>1, <1>3 DEF FollowsInv

\* A request at work goes on, or it leaves.
LEMMA WorkFollows ==
  ASSUME RowsTyped, FollowsInv, NEW r \in Request, Busy(r), NEW new \in RequestType,
         request' = [request EXCEPT ![r] = new], alone' = alone, Ordered',
         alone => IF new.at \in {"idle", "over"} THEN Followed' ELSE Stage(r)'
  PROVE  FollowsInv'
  <1>1. ASSUME alone'
        PROVE  /\ Quiet' => Followed'
               /\ \A x \in Request : Busy(x)' =>
                    Stage(x)' /\ \A q \in Request : Busy(q)' => q = x
    <2>1. \A q \in Request : Busy(q) => q = r
      BY <1>1 DEF FollowsInv, ByItself
    <2>2. request'[r] = new /\ \A q \in Request \ {r} : ~Busy(q)'
      BY <2>1 DEF RowsTyped, Busy
    <2>3. CASE new.at \in {"idle", "over"}
      BY <1>1, <2>2, <2>3 DEF Busy
    <2>4. CASE new.at \notin {"idle", "over"}
      <3>1. ~Quiet'
        BY <2>2, <2>4 DEF Quiet
      <3> QED BY <1>1, <2>2, <2>4, <3>1
    <2> QED BY <2>3, <2>4
  <1>2. ByItself'
    BY <1>1 DEF ByItself
  <1> QED BY <1>2 DEF FollowsInv

\* What is known of a request that has been by itself.
LEMMA ItsStage ==
  ASSUME FollowsInv, NEW r \in Request, Busy(r), alone
  PROVE  (r \in Restore /\ r \notin Notice /\ RestoreStage(r))
           \/ (r \in Notice /\ r \notin Restore /\ NoticeStage(r))
  BY RequestAssumption DEF FollowsInv, ByItself, Stage

LEMMA ReceiveFollows ==
  ASSUME RowsTyped, FollowsInv, NEW n \in Notice, Receive(n)
  PROVE  FollowsInv'
  <1> DEFINE new == [at |-> "resolve", user |-> Nobody, todo |-> <<signed[n]>>]
  <1>1. n \in Request /\ n \notin Device /\ signed[n] \in Payload
    BY RequestAssumption DEF Request, Receive, RowsTyped
  <1>2. new \in RequestType /\ new.at = "resolve" /\ Len(new.todo) = 1
    BY <1>1 DEF RequestType, AppleLabel, Person
  <1>3. /\ request' = [request EXCEPT ![n] = new] /\ UNCHANGED <<row, before, entitled>>
        /\ alone' = (n \notin Device /\ Quiet)
    BY DEF Receive, Begin
  <1> HIDE DEF new
  <1>4. request'[n] = new
    BY <1>1, <1>3 DEF RowsTyped
  <1>5. NoticeStage(n)'
    BY <1>2, <1>4 DEF NoticeStage, Doing
  <1>6. Busy(n)' /\ Stage(n)'
    BY <1>2, <1>4, <1>5 DEF Busy, Stage
  <1> QED BY <1>1, <1>2, <1>3, <1>6, BeginFollows

LEMMA VerifyFollows ==
  ASSUME RowsTyped, FollowsInv, NEW d \in Device, NEW u \in Customer, Verify(d, u)
  PROVE  FollowsInv'
  <1> DEFINE new == [at |-> "persist", user |-> u, todo |-> <<signed[d]>>]
  <1>1. d \in Request /\ signed[d] \in Payload
    BY DEF Request, Verify, RowsTyped
  <1>2. new \in RequestType /\ new.at = "persist"
    BY <1>1 DEF RequestType, AppleLabel, Person
  <1>3. /\ request' = [request EXCEPT ![d] = new] /\ UNCHANGED <<row, before, entitled>>
        /\ alone' = (d \notin Device /\ Quiet)
    BY DEF Verify, Begin, tables
  <1> HIDE DEF new
  <1>4. Busy(d)'
    BY <1>1, <1>2, <1>3 DEF RowsTyped, Busy
  <1> QED BY <1>1, <1>2, <1>3, <1>4, BeginFollows

LEMMA StartRestoreFollows ==
  ASSUME RowsTyped, FollowsInv, NEW r \in Restore, NEW u \in Customer, StartRestore(r, u)
  PROVE  FollowsInv'
  <1> DEFINE new == [at |-> "history", user |-> u, todo |-> <<>>]
  <1>1. r \in Request /\ u # Nobody
    BY TokenAssumption DEF Request
  <1>2. new \in RequestType /\ new.at = "history" /\ new.user = u
    BY EmptySeq DEF RequestType, AppleLabel, Person
  <1>3. /\ request' = [request EXCEPT ![r] = new] /\ UNCHANGED <<row, before, entitled>>
        /\ alone' = (r \notin Device /\ Quiet)
    BY DEF StartRestore, Begin, tables
  <1> HIDE DEF new
  <1>4. request'[r] = new
    BY <1>1, <1>3 DEF RowsTyped
  <1>5. RestoreStage(r)'
    BY <1>1, <1>2, <1>4 DEF RestoreStage, Doing
  <1>6. Busy(r)' /\ Stage(r)'
    BY <1>2, <1>4, <1>5 DEF Busy, Stage
  <1> QED BY <1>1, <1>2, <1>3, <1>6, BeginFollows

LEMMA ResolveFollows ==
  ASSUME RowsTyped, FollowsInv, NEW r \in Request, Resolve(r)
  PROVE  FollowsInv'
  <1>1. PICK u \in UsersOfEvent : request' = [request EXCEPT ![r].at = "persist", ![r].user = u]
    BY DEF Resolve
  <1>2. u \in Person
    BY TokenAssumption DEF UsersOfEvent, Person, RowsTyped, RowType
  <1>3. UNCHANGED <<row, before, entitled, alone>> /\ Doing(r, "resolve")
    BY DEF Resolve, tables, news
  <1> DEFINE new == [request[r] EXCEPT !.at = "persist", !.user = u]
  <1>4. new \in RequestType /\ new.at = "persist" /\ new.user = u /\ new.todo = request[r].todo
    BY <1>2 DEF RowsTyped, RequestType, AppleLabel
  <1>5. request' = [request EXCEPT ![r] = new]
    BY <1>1 DEF RowsTyped, RequestType
  <1> HIDE DEF new
  <1>6. request'[r] = new
    BY <1>5 DEF RowsTyped
  <1>7. Busy(r) /\ Ordered'
    BY <1>3 DEF Busy, Doing, FollowsInv, Ordered
  <1>8. u # Nobody \/ \A t \in Transaction : row'[t].user = Nobody
    BY <1>3, UserFound DEF FollowsInv
  <1>9. ASSUME alone
        PROVE  Stage(r)'
    <2>1. r \in Notice /\ Len(request[r].todo) = 1
      BY <1>3, <1>7, <1>9, ItsStage DEF RestoreStage, NoticeStage, Doing
    <2>2. NoticeStage(r)'
      BY <1>4, <1>6, <1>8, <2>1 DEF NoticeStage, Doing
    <2> QED BY <2>1, <2>2 DEF Stage
  <1> QED BY <1>3, <1>4, <1>5, <1>7, <1>9, WorkFollows

\* A row is of a transaction that Apple knows.
LEMMA RowKnown ==
  ASSUME AppleIInv, NEW t \in Transaction, row[t].there
  PROVE  t \in Known
  <1>1. newest[t] \in Payload /\ newest[t].transaction = t
    BY DEF AppleIInv, InStep, RowsTyped
  <1>2. Heard(newest[t])
    BY DEF Heard
  <1> QED BY <1>1, <1>2 DEF AppleIInv, Dated, Known

LEMMA HistoryFollows ==
  ASSUME AppleIInv, AppleIInv', FollowsInv, NEW r \in Request, History(r)
  PROVE  FollowsInv'
  <1>1. /\ UNCHANGED <<row, before, entitled, alone>> /\ Doing(r, "history")
        /\ RowsTyped /\ RowsTyped'
    BY DEF History, tables, news, AppleIInv
  <1> DEFINE new == request'[r]
  <1>2. new \in RequestType /\ request' = [request EXCEPT ![r] = new]
    BY <1>1 DEF RowsTyped, History, Leave
  <1>3. Busy(r) /\ Ordered'
    BY <1>1 DEF Busy, Doing, FollowsInv, Ordered
  <1>4. CASE Known = {}
    <2>1. new.at = "over"
      BY <1>1, <1>4 DEF History, Leave, Unbegun, RowsTyped
    <2>2. Followed'
      BY <1>1, <1>4, RowKnown DEF Followed, LastUpdated
    <2> QED BY <1>1, <1>2, <1>3, <2>1, <2>2, WorkFollows
  <1>5. CASE Known # {}
    <2>1. new.at = "persist" /\ new.user = request[r].user
      BY <1>1, <1>5 DEF History, RowsTyped, RequestType
    <2>2. ASSUME alone
          PROVE  Stage(r)'
      <3>1. r \in Restore /\ request[r].user # Nobody
        BY <1>1, <1>3, <2>2, ItsStage DEF RestoreStage, NoticeStage, Doing
      <3>2. RestoreStage(r)'
        BY <2>1, <3>1 DEF RestoreStage, Doing
      <3> QED BY <3>1, <3>2 DEF Stage
    <2> HIDE DEF new
    <2> QED BY <1>1, <1>2, <1>3, <2>1, <2>2, WorkFollows
  <1> QED BY <1>4, <1>5

\* A request that turns to another statement, and one that leaves.
LEMMA TurnIs ==
  ASSUME RowsTyped, NEW r \in Request, NEW label \in AppleLabel, Turn(r, label)
  PROVE  /\ request'[r] \in RequestType /\ request' = [request EXCEPT ![r] = request'[r]]
         /\ request'[r].at = label /\ request'[r].user = request[r].user
         /\ request'[r].todo = request[r].todo
  BY DEF RowsTyped, Turn, RequestType

LEMMA LeaveIs ==
  ASSUME RowsTyped, NEW r \in Request, Leave(r)
  PROVE  /\ request'[r] \in RequestType /\ request' = [request EXCEPT ![r] = request'[r]]
         /\ request'[r].at = "over"
  <1> DEFINE new == [Unbegun EXCEPT !.at = "over"]
  <1>1. new \in RequestType /\ new.at = "over"
    BY EmptySeq DEF Unbegun, RequestType, AppleLabel, Person
  <1>2. request' = [request EXCEPT ![r] = new]
    BY DEF Leave
  <1> HIDE DEF new
  <1> QED BY <1>1, <1>2 DEF RowsTyped

\* What a request is about to write.
LEMMA HeadIs ==
  ASSUME AppleIInv, NEW r \in Request, Telling(r)
  PROVE  Head(request[r].todo) \in Payload
  <1>1. request[r].todo \in Seq(Payload) /\ request[r].todo # <<>>
    BY DEF AppleIInv, RowsTyped, RequestType, Told
  <1> QED BY <1>1, HeadTailProperties

\* The row that is written is the last.
LEMMA PersistOrder ==
  ASSUME AppleIInv, Ordered, NEW r \in Request, NEW t \in Transaction, Persist(r),
         t = Head(request[r].todo).transaction
  PROVE  /\ Ordered'
         /\ \A x \in Transaction : LastUpdated(x)' => x = t
         /\ row'[t].user = IF request[r].user # Nobody THEN request[r].user ELSE row[t].user
  <1>1. row \in [Transaction -> RowType]
    BY DEF AppleIInv, RowsTyped
  <1>2. /\ row' = [row EXCEPT ![t] = Persisted(t, Head(request[r].todo), request[r].user)]
        /\ before' = {b \in before : t \notin {b[1], b[2]}}
                       \cup {x \in Transaction \ {t} : row[x].there} \X {t}
    BY DEF Persist
  <1>3. /\ row'[t].there
        /\ row'[t].user = IF request[r].user # Nobody THEN request[r].user ELSE row[t].user
        /\ \A x \in Transaction \ {t} : row'[x] = row[x]
    BY <1>1, <1>2 DEF Persisted
  <1>4. \A x, y \in Transaction :
          <<x, y>> \in before' <=> \/ <<x, y>> \in before /\ x # t /\ y # t
                                   \/ y = t /\ x # t /\ row[x].there
    BY <1>2
  <1>5. before' \subseteq Transaction \X Transaction
    BY <1>2 DEF Ordered
  <1>6. \A x, y, z \in Transaction :
          <<x, y>> \in before' /\ <<y, z>> \in before' => <<x, z>> \in before'
    BY <1>4 DEF Ordered
  <1>7. Ordered'
    BY <1>3, <1>4, <1>5, <1>6 DEF Ordered
  <1>8. ASSUME NEW x \in Transaction, LastUpdated(x)'
        PROVE  x = t
    BY <1>3, <1>4, <1>8 DEF LastUpdated
  <1> QED BY <1>3, <1>7, <1>8

LEMMA PersistFollows ==
  ASSUME AppleIInv, FollowsInv, NEW r \in Request, Persist(r)
  PROVE  FollowsInv'
  <1>1. RowsTyped /\ Doing(r, "persist") /\ Turn(r, "entitle") /\ UNCHANGED alone
    BY DEF AppleIInv, Persist
  <1>2. Telling(r) /\ Busy(r)
    BY <1>1 DEF Telling, Busy, Doing
  <1>3. PICK t \in Transaction : t = Head(request[r].todo).transaction
    BY <1>2, HeadIs DEF Payload
  <1>4. /\ Ordered' /\ \A x \in Transaction : LastUpdated(x)' => x = t
        /\ row'[t].user = IF request[r].user # Nobody THEN request[r].user ELSE row[t].user
    BY <1>3, PersistOrder DEF FollowsInv
  <1> DEFINE new == request'[r]
  <1>5. /\ new \in RequestType /\ request' = [request EXCEPT ![r] = new]
        /\ new.at = "entitle" /\ new.user = request[r].user /\ new.todo = request[r].todo
    BY <1>1, TurnIs DEF AppleLabel
  <1>6. ASSUME alone
        PROVE  Stage(r)'
    <2>1. CASE r \in Restore
      <3>1. RestoreStage(r)
        BY <1>2, <1>6, <2>1, ItsStage
      <3>2. RestoreStage(r)'
        BY <1>5, <3>1 DEF RestoreStage, Doing
      <3> QED BY <2>1, <3>2 DEF Stage
    <2>2. CASE r \notin Restore
      <3>1. r \in Notice /\ NoticeStage(r)
        BY <1>2, <1>6, <2>2, ItsStage
      <3>2. /\ Len(request[r].todo) = 1
            /\ request[r].user # Nobody \/ row[t].user = Nobody
        BY <1>1, <3>1 DEF NoticeStage, Doing
      <3>3. \A x \in Transaction : LastUpdated(x)' => row'[x].user = new.user
        BY <1>4, <1>5, <3>2
      <3>4. NoticeStage(r)'
        BY <1>5, <3>2, <3>3 DEF NoticeStage, Doing
      <3> QED BY <3>1, <3>4 DEF Stage
    <2> QED BY <2>1, <2>2
  <1> HIDE DEF new
  <1> QED BY <1>1, <1>2, <1>4, <1>5, <1>6, WorkFollows

\* A step of a request that writes no row keeps their order.
LEMMA OrderStays ==
  ASSUME FollowsInv, UNCHANGED <<row, before>>
  PROVE  /\ Ordered'
         /\ \A t \in Transaction : (LastUpdated(t)' <=> LastUpdated(t)) /\ (Latest(t)' <=> Latest(t))
  BY DEF FollowsInv, Ordered, LastUpdated, Latest

LEMMA EntitleFollows ==
  ASSUME AppleIInv, AppleIInv', FollowsInv, NEW r \in Request, Entitle(r)
  PROVE  FollowsInv'
  <1>1. /\ RowsTyped /\ RowsTyped' /\ Doing(r, "entitle") /\ Busy(r)
        /\ UNCHANGED <<row, before, alone>>
    BY DEF AppleIInv, Entitle, Doing, Busy, news
  <1>2. Ordered' /\ \A t \in Transaction : LastUpdated(t)' <=> LastUpdated(t)
    BY <1>1, OrderStays
  <1> DEFINE new == request'[r]
  <1>0. PICK u \in Person : u = request[r].user
    BY <1>1 DEF RowsTyped, RequestType
  <1>3. CASE Len(request[r].todo) > 1
    <2>1. request' = [request EXCEPT ![r].at = "persist", ![r].todo = Tail(@)]
      BY <1>3 DEF Entitle
    <2>2. /\ new \in RequestType /\ request' = [request EXCEPT ![r] = new]
          /\ new.at = "persist" /\ new.user = u
      BY <1>0, <1>1, <2>1 DEF RowsTyped, RequestType
    <2>3. ASSUME alone
          PROVE  Stage(r)'
      <3>1. r \in Restore /\ RestoreStage(r)
        <4>1. NoticeStage(r) => Len(request[r].todo) = 1
          BY <1>1 DEF NoticeStage
        <4>2. PICK n : n = Len(request[r].todo)
          OBVIOUS
        <4>3. ~(n > 1 /\ n = 1)
          OBVIOUS
        <4>4. ~NoticeStage(r)
          BY <1>3, <4>1, <4>2, <4>3
        <4>5. Busy(r) /\ RequestAssumption
          BY <1>1, RequestAssumption
        <4> QED BY <2>3, <4>4, <4>5, ItsStage
      <3>2. RestoreStage(r)'
        BY <1>0, <2>2, <3>1 DEF RestoreStage, Doing
      <3> QED BY <3>1, <3>2 DEF Stage
    <2> HIDE DEF new
    <2> QED BY <1>1, <1>2, <2>2, <2>3, WorkFollows
  <1>4. CASE ~(Len(request[r].todo) > 1) /\ r \in Device
    <2>1. Leave(r) /\ ~alone
      <3>1. ~alone
        BY <1>1, <1>4, RequestAssumption, ItsStage
      <3> QED BY <1>4, <3>1 DEF Entitle
    <2>2. new \in RequestType /\ request' = [request EXCEPT ![r] = new]
      BY <1>1, <2>1, LeaveIs
    <2> HIDE DEF new
    <2> QED BY <1>1, <1>2, <2>1, <2>2, WorkFollows
  <1>5. CASE ~(Len(request[r].todo) > 1) /\ r \notin Device /\ r \in Restore
    <2>1. Turn(r, "link")
      BY <1>5 DEF Entitle
    <2>2. /\ new \in RequestType /\ request' = [request EXCEPT ![r] = new]
          /\ new.at = "link" /\ new.user = u
      BY <1>0, <1>1, <2>1, TurnIs DEF AppleLabel
    <2>3. ASSUME alone
          PROVE  Stage(r)'
      <3>1. RestoreStage(r)
        BY <1>1, <1>5, <2>3, ItsStage
      <3>2. RestoreStage(r)'
        BY <1>0, <2>2, <3>1 DEF RestoreStage, Doing
      <3> QED BY <1>5, <3>2 DEF Stage
    <2> HIDE DEF new
    <2> QED BY <1>1, <1>2, <2>2, <2>3, WorkFollows
  <1>6. CASE ~(Len(request[r].todo) > 1) /\ r \notin Device /\ r \notin Restore
    <2> DEFINE label == IF u = Nobody THEN "mark" ELSE "read"
    <2>1. Turn(r, label)
      BY <1>0, <1>6 DEF Entitle
    <2>2. /\ new \in RequestType /\ request' = [request EXCEPT ![r] = new]
          /\ new.at = label /\ new.user = u
      BY <1>0, <1>1, <2>1, TurnIs DEF AppleLabel
    <2>3. ASSUME alone
          PROVE  Stage(r)'
      <3>1. r \in Notice /\ NoticeStage(r)
        BY <1>1, <1>6, <2>3, ItsStage
      <3>2. \A t \in Transaction : LastUpdated(t)' => row'[t].user = new.user
        BY <1>0, <1>1, <1>2, <2>2, <3>1 DEF NoticeStage
      <3>3. NoticeStage(r)'
        BY <2>2, <3>2 DEF NoticeStage, Doing, Follows
      <3> QED BY <3>1, <3>3 DEF Stage
    <2> HIDE DEF new
    <2> QED BY <1>1, <1>2, <2>2, <2>3, WorkFollows
  <1> QED BY <1>3, <1>4, <1>5, <1>6

LEMMA LinkFollows ==
  ASSUME AppleIInv, FollowsInv, NEW r \in Request, Link(r)
  PROVE  FollowsInv'
  <1>1. /\ RowsTyped /\ Doing(r, "link") /\ Busy(r) /\ Turn(r, "read")
        /\ before' = {} /\ alone' = alone
    BY DEF AppleIInv, Link, Doing, Busy, news
  <1>2. \A t \in Transaction :
          /\ row'[t].there <=> row[t].there
          /\ row[t].there => row'[t].user = request[r].user
          /\ ~row[t].there => row'[t].user = row[t].user
    BY <1>1 DEF Link, RowsTyped, RowType
  <1>3. Ordered'
    BY <1>1, <1>2 DEF FollowsInv, Ordered
  <1> DEFINE new == request'[r]
  <1>4. /\ new \in RequestType /\ request' = [request EXCEPT ![r] = new]
        /\ new.at = "read" /\ new.user = request[r].user
    BY <1>1, TurnIs DEF AppleLabel
  <1>5. ASSUME alone
        PROVE  Stage(r)'
    <2>1. r \in Restore /\ RestoreStage(r)
      BY <1>1, <1>5, ItsStage DEF NoticeStage, Doing
    <2>2. RestoreStage(r)'
      BY <1>2, <1>4, <2>1 DEF RestoreStage, Doing
    <2> QED BY <2>1, <2>2 DEF Stage
  <1> HIDE DEF new
  <1> QED BY <1>1, <1>3, <1>4, <1>5, WorkFollows

LEMMA ReadFollows ==
  ASSUME AppleIInv, AppleIInv', FollowsInv, NEW r \in Request, Read(r)
  PROVE  FollowsInv'
  <1>1. /\ RowsTyped /\ RowsTyped' /\ Doing(r, "read") /\ Busy(r)
        /\ UNCHANGED <<row, before, entitled, alone>>
    BY DEF AppleIInv, Read, Doing, Busy, tables, news
  <1>2. PICK t \in Transaction :
          /\ Latest(t)
          /\ request' = [request EXCEPT ![r].at = "write",
               ![r].todo = <<[transaction |-> t, status |-> row[t].status, date |-> row[t].date]>>]
    BY DEF Read
  <1> DEFINE new == request'[r]
  <1>3. /\ new \in RequestType /\ request' = [request EXCEPT ![r] = new]
        /\ new.at = "write" /\ new.user = request[r].user
        /\ new.todo = <<[transaction |-> t, status |-> row[t].status, date |-> row[t].date]>>
    BY <1>1, <1>2 DEF RowsTyped, RequestType
  <1>4. Head(new.todo).status = row[t].status
    BY <1>3
  <1>5. \A l \in Transaction : Latest(l) => l = t
    BY <1>2, TransactionAssumption DEF Latest
  <1>6. /\ Ordered' /\ \A l \in Transaction : LastUpdated(l)' <=> LastUpdated(l)
        /\ Fresh(r)'
    BY <1>1, <1>4, <1>5, OrderStays DEF Fresh
  <1>7. ASSUME alone
        PROVE  Stage(r)'
    <2>1. CASE r \in Restore
      <3>1. RestoreStage(r)
        BY <1>1, <1>7, <2>1, ItsStage
      <3>2. RestoreStage(r)'
        BY <1>1, <1>3, <1>6, <3>1 DEF RestoreStage, Doing
      <3> QED BY <2>1, <3>2 DEF Stage
    <2>2. CASE r \notin Restore
      <3>1. r \in Notice /\ NoticeStage(r)
        BY <1>1, <1>7, <2>2, ItsStage
      <3>2. NoticeStage(r)'
        BY <1>1, <1>3, <1>6, <3>1 DEF NoticeStage, Doing
      <3> QED BY <3>1, <3>2 DEF Stage
    <2> QED BY <2>1, <2>2
  <1> HIDE DEF new
  <1> QED BY <1>1, <1>3, <1>6, <1>7, WorkFollows

LEMMA WriteFollows ==
  ASSUME AppleIInv, Rest, FollowsInv, NEW r \in Request, Write(r)
  PROVE  FollowsInv'
  <1>0. PICK u \in Person : u = request[r].user
    BY DEF AppleIInv, RowsTyped, RequestType
  <1> DEFINE new == request'[r]
             said == Head(request[r].todo).status
  <1>1. /\ RowsTyped /\ Doing(r, "write") /\ Busy(r) /\ UNCHANGED <<row, before, alone>>
        /\ entitled' = [entitled EXCEPT ![u] = said]
    BY <1>0 DEF AppleIInv, Write, Doing, Busy, news
  <1>2. /\ Ordered'
        /\ \A t \in Transaction : (LastUpdated(t)' <=> LastUpdated(t)) /\ (Latest(t)' <=> Latest(t))
    BY <1>1, OrderStays
  <1>3. ASSUME Fresh(r), u # Nobody
        PROVE  \A l \in Transaction : Latest(l)' => entitled'[u] = row'[l].status
    <2>1. u \in Customer
      BY <1>3 DEF Person
    <2>2. entitled'[u] = said
      BY <1>1, <2>1 DEF Rest
    <2> QED BY <1>1, <1>2, <1>3, <2>2 DEF Fresh
  <1>4. CASE r \in Restore
    <2>1. Leave(r)
      BY <1>4 DEF Write
    <2>2. new \in RequestType /\ request' = [request EXCEPT ![r] = new] /\ new.at = "over"
      BY <1>1, <2>1, LeaveIs
    <2>3. ASSUME alone
          PROVE  Followed'
      <3>1. RestoreStage(r)
        BY <1>1, <1>4, <2>3, ItsStage
      <3>2. \A l \in Transaction : Latest(l)' => entitled'[u] = row'[l].status
        BY <1>0, <1>1, <1>3, <3>1 DEF RestoreStage
      <3>3. \A t \in Transaction : LastUpdated(t)' => row'[t].user = u
        BY <1>0, <1>1, <1>2, <3>1 DEF RestoreStage, LastUpdated
      <3> QED BY <1>1, <3>2, <3>3 DEF Followed, Follows
    <2> HIDE DEF new
    <2> QED BY <1>1, <1>2, <2>2, <2>3, WorkFollows
  <1>5. CASE r \notin Restore
    <2>1. Turn(r, "mark")
      BY <1>5 DEF Write
    <2>2. /\ new \in RequestType /\ request' = [request EXCEPT ![r] = new]
          /\ new.at = "mark" /\ new.user = u
      BY <1>0, <1>1, <2>1, TurnIs DEF AppleLabel
    <2>3. ASSUME alone
          PROVE  Stage(r)'
      <3>1. r \in Notice /\ NoticeStage(r)
        BY <1>1, <1>5, <2>3, ItsStage
      <3>2. \A l \in Transaction : Latest(l)' => entitled'[u] = row'[l].status
        BY <1>0, <1>1, <1>3, <3>1 DEF NoticeStage
      <3>3. \A t \in Transaction : LastUpdated(t)' => row'[t].user = u
        BY <1>0, <1>1, <1>2, <3>1 DEF NoticeStage
      <3>4. NoticeStage(r)'
        BY <2>2, <3>2, <3>3 DEF NoticeStage, Doing, Follows
      <3> QED BY <3>1, <3>4 DEF Stage
    <2> HIDE DEF new
    <2> QED BY <1>1, <1>2, <2>2, <2>3, WorkFollows
  <1> QED BY <1>4, <1>5

LEMMA MarkFollows ==
  ASSUME AppleIInv, FollowsInv, NEW r \in Request, Mark(r)
  PROVE  FollowsInv'
  <1> DEFINE new == request'[r]
  <1>1. /\ RowsTyped /\ Doing(r, "mark") /\ Busy(r) /\ UNCHANGED <<row, before, entitled, alone>>
        /\ Leave(r)
    BY DEF AppleIInv, Mark, Doing, Busy, news
  <1>2. new \in RequestType /\ request' = [request EXCEPT ![r] = new] /\ new.at = "over"
    BY <1>1, LeaveIs
  <1>3. /\ Ordered'
        /\ \A t \in Transaction : (LastUpdated(t)' <=> LastUpdated(t)) /\ (Latest(t)' <=> Latest(t))
    BY <1>1, OrderStays
  <1>4. ASSUME alone
        PROVE  Followed'
    <2>1. NoticeStage(r)
      BY <1>1, <1>4, ItsStage DEF RestoreStage, Doing
    <2>2. /\ Follows(request[r].user)
          /\ \A t \in Transaction : LastUpdated(t) => row[t].user = request[r].user
      BY <1>1, <2>1 DEF NoticeStage
    <2> QED BY <1>1, <1>3, <2>2 DEF Followed, Follows
  <1> HIDE DEF new
  <1> QED BY <1>1, <1>2, <1>3, <1>4, WorkFollows

LEMMA FaultFollows ==
  ASSUME FollowsInv, NEW r \in Request, Fault(r)
  PROVE  FollowsInv'
  <1>1. UNCHANGED <<row, before>> /\ alone' = FALSE
    BY DEF Fault
  <1>2. Ordered'
    BY <1>1, OrderStays
  <1> QED BY <1>1, <1>2 DEF FollowsInv, ByItself

LEMMA StepFollows ==
  AppleIInv /\ AppleIInv' /\ Rest /\ FollowsInv /\ [AppleNext]_appleVars => FollowsInv'
  <1> SUFFICES ASSUME AppleIInv, AppleIInv', Rest, FollowsInv, [AppleNext]_appleVars
               PROVE  FollowsInv'
    OBVIOUS
  <1>1. RowsTyped
    BY DEF AppleIInv
  <1>2. ASSUME NEW r \in Request, Work(r) \/ Fault(r) PROVE FollowsInv'
    BY <1>1, <1>2, ResolveFollows, HistoryFollows, PersistFollows, EntitleFollows, LinkFollows,
       ReadFollows, WriteFollows, MarkFollows, FaultFollows DEF Work
  <1>3. ASSUME NEW n \in Notice, NEW t \in Transaction, NEW status \in Status, Happens(n, t, status)
        PROVE  FollowsInv'
    BY <1>3, StillFollows DEF Happens, tables, news
  <1>4. ASSUME NEW d \in Device, NEW t \in Transaction, Receipt(d, t)
        PROVE  FollowsInv'
    BY <1>4, StillFollows DEF Receipt, tables, news
  <1>5. CASE UNCHANGED appleVars
    BY <1>5, StillFollows DEF appleVars, tables, news
  <1> QED BY <1>1, <1>2, <1>3, <1>4, <1>5, ReceiveFollows, VerifyFollows, StartRestoreFollows
          DEF AppleNext

LEMMA AppleReachable == AppleSpec => [](AppleIInv /\ Rest /\ FollowsInv)
  BY AppleInitIInv, AppleStepIInv, InitRest, StepRest, InitFollows, StepFollows, PTL DEF AppleSpec

\* Every reachable state of the subscriptions is well typed: what is written
\* to an entitlement is the status of a payload that Apple signed.
THEOREM AppleTyped == AppleSpec => []AppleTypeOK
  <1>1. AppleIInv /\ Rest /\ FollowsInv => AppleTypeOK
    BY DEF AppleIInv, RowsTyped, Rest, FollowsInv, Ordered, AppleTypeOK, RowType, RequestType,
       AppleLabel, Person
  <1> QED BY <1>1, AppleReachable, PTL

\* Whatever went wrong before, one notification or restore that runs by
\* itself leaves the entitlement of the row's user as the row of the latest
\* period (apple-iap.service.ts, refreshEntitlementFromLatestTransaction).
THEOREM EntitledAsLatest == AppleSpec => []EntitlementFollows
  <1>1. FollowsInv => EntitlementFollows
    BY DEF FollowsInv, ByItself, Followed, Follows, EntitlementFollows
  <1> QED BY <1>1, AppleReachable, PTL
=============================================================================
