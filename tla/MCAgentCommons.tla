----------------------------- MODULE MCAgentCommons -----------------------------
(* One message of each category is there, an independent decision answered by an *)
(* agent among them.                                                            *)
EXTENDS AgentCommons

Op(id, action, by, subject, category, independent) ==
  [id |-> id, action |-> action, by |-> by, subject |-> subject, category |-> category,
   independent |-> independent, to |-> Sessions, state |-> "none"]

Posted(category, by) ==
  Outcome(EmptyStore, Op(-100, "create", by, 0, category, category = "decision"))
Answered(by) == Outcome(Posted("decision", Operator), Op(-101, "reply", by, 1, "update", FALSE))

MCInit ==
  \E s \in {Posted(c, by) : c \in {"help_request", "lesson"}, by \in Sessions}
           \cup {Answered(CHOOSE s \in Sessions : s \notin Helpers)} : StartFrom(s)
MCSpec == MCInit /\ [][Next]_vars /\ WF_vars(Ingestion)
================================================================================
