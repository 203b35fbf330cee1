--------------------------- MODULE MCMemberships ---------------------------
(* RedeemCodes and AppleIap for TLC.  Both keep rows in user_entitlements, *)
(* under keys of their own, and neither reads the other's: a step of one   *)
(* changes nothing the other sees, so that each is run by itself, which    *)
(* shows as much as every interleaving of the two.  `side' says which.     *)
(*                                                                         *)
(* Two users share two codes whose grants are in opposite orders, one with *)
(* two uses; one of them is given a package and buys a membership.  Two    *)
(* customers share one subscription of two periods.                        *)
EXTENDS RedeemCodes, AppleIap, TLC

CONSTANTS k1, k2, u1, u2, g1, p1, n1, n2, a1, a2, d1, r1

VARIABLE side

Days1(scope) == [scope |-> scope, days |-> 1]

MCGrants == (k1 :> <<Days1("app_membership"), Days1("ai_membership")>>)
         @@ (k2 :> <<Days1("ai_membership"), Days1("app_membership")>>)
MCMaxUses == (k1 :> 1) @@ (k2 :> 2)
MCGiftUser == (g1 :> u1)
MCGiftGrants == (g1 :> <<Days1("app_membership")>>)
MCBuyer == (p1 :> u1)
MCBought == (p1 :> 1)

MCInit == Init /\ AppleInit /\ side \in {"redeem", "apple"}

MCNext ==
    /\ UNCHANGED side
    /\ \/ side = "redeem" /\ Next /\ UNCHANGED appleVars
       \/ side = "apple" /\ AppleNext /\ UNCHANGED vars

MCSpec == MCInit /\ [][MCNext]_<<vars, appleVars, side>>

MCSymmetry == Permutations({n1, n2}) \cup Permutations({a1, a2})
=============================================================================
