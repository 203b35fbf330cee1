---------------------------- MODULE MCDeductions ----------------------------
(***************************************************************************)
(* Three instances in one run, told apart by the variable scene.  In "one" *)
(* the second agreement is never signed, an administrator may act once or  *)
(* one fault may happen.  In "two" both agreements may be signed, and no   *)
(* administrator acts: a batch of one has to serve two in turn; INVALID is *)
(* left out, which the code treats as UNSIGNED.  In "late" there is one    *)
(* agreement and nothing fails, but the clock goes on for another period:  *)
(* a deduction may be late by a whole period.                              *)
(***************************************************************************)
EXTENDS Deductions

CONSTANTS a1, a2, h1

VARIABLE scene

MCExecuteTime == [a \in Agreement |-> IF a = a1 THEN 2 ELSE 3]

MCInit == Init /\ scene \in {"one", "two", "late"}

MCNext ==
    /\ Next
    /\ UNCHANGED scene
    /\ CASE scene = "one" -> /\ agreement'[a2].status = "NONE"
                             /\ manual' + faults' <= 1 /\ clock' <= 3
         [] scene = "two" -> /\ \A m \in Admin : runner'[m].at = "idle"
                             /\ \A a \in Agreement : agreement'[a].status # "INVALID"
                             /\ clock' <= 3
         [] scene = "late" -> /\ agreement'[a2].status = "NONE"
                              /\ manual' + faults' = 0

MCSpec == MCInit /\ [][MCNext]_<<vars, scene>> /\ Fairness
=============================================================================
