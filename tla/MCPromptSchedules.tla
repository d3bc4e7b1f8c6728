------------------------- MODULE MCPromptSchedules -------------------------
(* Instances of PromptSchedules. A run may also start with the document of a  *)
(* build that did not count coalesced and skipped occurrences.                *)
EXTENDS PromptSchedules

OldDocument ==
  [s \in Schedules |->
     IF s = CHOOSE t \in Schedules : TRUE
       THEN [Absent EXCEPT !.st = "old", !.enabled = TRUE, !.pane = 1, !.period = 1,
                           !.runs = 1]
       ELSE Absent]

MCInit ==
  \/ Init
  \/ /\ schedules = OldDocument
     /\ next = [s \in Schedules |-> IF OldDocument[s].st = "old" THEN 2 ELSE 0]
     /\ open = [s \in Schedules |-> 0] /\ other = 0 /\ asked = {}
     /\ now = 1 /\ pane = 1 /\ up = FALSE /\ wedged = FALSE
     /\ edits = 0 /\ crashes = 0

MCSpec == MCInit /\ [][Next]_vars /\ Fairness
=============================================================================
