--------------------------- MODULE MCMissionRecovery ---------------------------
(* One worker with every fault for TLC: an operator's mission that is           *)
(* dispatched and adopted, or a Delivery Run's that is ensured under two ids.   *)
EXTENDS MCMissionQueue

VARIABLE setup

\* Only these missions are ever made.
Among(jobs) ==
  \A j \in Jobs \ jobs : mem'[j].status = "absent" /\ disk'[j].status = "absent"

\* bound: of an operator's mission, no signal that its pane is gone.
FewSignals == \A j \in DOMAIN obs' : obs'[j].reason # "missing"

MCInit == Init /\ setup \in {"operator", "run"}
MCNext == /\ Next
          /\ setup = "operator" => Among({j1}) /\ FewSignals
          /\ setup = "run" => Among({b1, b2})
          /\ UNCHANGED setup

\* The fairness of MissionQueue.
MCSpec ==
  /\ MCInit /\ [][MCNext]_<<vars, setup>>
  /\ WF_vars(Delivery)
  /\ WF_vars(AdoptCommit \/ Withdraw \/ Claim)
  /\ WF_vars(Restart)
===============================================================================
