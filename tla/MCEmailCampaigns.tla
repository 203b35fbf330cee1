-------------------------- MODULE MCEmailCampaigns --------------------------
(***************************************************************************)
(* Two instances in one run, told apart by the variable scene.  In "one"   *)
(* a campaign goes to two addresses, the second of which may be new to the *)
(* list or leave it; in "two" two campaigns go to one address.             *)
(***************************************************************************)
EXTENDS EmailCampaigns

CONSTANTS c1, c2, e1, e2

VARIABLE scene

MCInit ==
    /\ MailInit
    /\ scene \in {"one", "two"}
    /\ contact[e1] = "subscribed"
    /\ scene = "two" => contact[e2] = "none"

MCNext ==
    /\ MailNext
    /\ UNCHANGED scene
    /\ \A a \in Request :
         IF scene = "one"
         THEN /\ request'[a].at \in {"schedule", "skip"} => request'[a].campaign = c1
              /\ request'[a].at \in {"suppress", "leave"} => request'[a].email = e2
         ELSE request'[a].at \in {"suppress", "leave"} => request'[a].email = e1
    /\ scene = "one" => requests' + 2 * faults' <= 3
    /\ scene = "two" => requests' + faults' <= 3 /\ contact'[e2] = "none"

MCSpec == MCInit /\ [][MCNext]_<<mailVars, scene>> /\ MailFairness
=============================================================================
