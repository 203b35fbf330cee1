----------------------------- MODULE MCAiPoints -----------------------------
(* AiPoints for TLC: one user with two reservation keys.                   *)
EXTENDS AiPoints, TLC

CONSTANTS u1, k1, k2

MCOwner == (k1 :> u1) @@ (k2 :> u1)

Symmetry == Permutations(Call) \cup Permutations({k1, k2}) \cup Permutations(Task)
=============================================================================
