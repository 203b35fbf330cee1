----------------------------- MODULE MCAiVideo -----------------------------
(* AiVideo for TLC: one user's two videos, the first with a reservation    *)
(* smaller than its cost.                                                  *)
EXTENDS AiVideo, TLC

CONSTANTS v1, v2, u1

MCOwner == (v1 :> u1) @@ (v2 :> u1)
MCEstimate == (v1 :> 1) @@ (v2 :> 2)
MCCost == (v1 :> 2) @@ (v2 :> 1)
=============================================================================
