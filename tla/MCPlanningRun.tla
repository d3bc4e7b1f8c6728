----------------------------- MODULE MCPlanningRun -----------------------------
(* Planning runs for TLC: a run from its creation, with one upset less than the  *)
(* bound allows, and a run that has only DEV left to work, with all of them. A   *)
(* role is like the one before it, so two upsets in the last one are enough.     *)
EXTENDS PlanningRun

MCInit == InitWith(FALSE, {}, 1) \/ InitWith(TRUE, {"po", "ba", "qa"}, 0)
MCSpec == MCInit /\ [][Next]_vars /\ Fairness

LateInit == InitWith(TRUE, {"po", "ba", "qa"}, 0)
LateSpec == LateInit /\ [][Next]_vars /\ Fairness

================================================================================
