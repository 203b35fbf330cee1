-------------------------- MODULE MCAiInvocation --------------------------
(* AiInvocation for TLC: two calls of one user who may have one call at a  *)
(* source at a time; the second route is RunningHub.                       *)
EXTENDS AiInvocation, TLC

CONSTANTS c1, c2, u1, s1, s2, req, none

MCOwner == (c1 :> u1) @@ (c2 :> u1)
MCRoute == <<s1, s2>>
MCEstimate == (c1 :> 1) @@ (c2 :> 2)
MCCost == (c1 :> 2) @@ (c2 :> 1)
=============================================================================
