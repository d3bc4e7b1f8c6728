---------------------------- MODULE MCIdeaQueue ----------------------------
(* Instances of IdeaQueue. Besides the empty queue, a run may start with what *)
(* an older build left: a ticket for an agent's idea queued on the wrong      *)
(* project, and an answer whose proposals were not counted.                   *)
EXTENDS IdeaQueue

CONSTANTS p1, p2, p3, i1, i2, t1, t2

Left(items, ideas, done, settled) ==
  [items |-> [p \in Prompts |-> IF p \in DOMAIN items THEN items[p] ELSE NoItem],
   ideas |-> [i \in Ideas |-> IF i \in DOMAIN ideas THEN ideas[i] ELSE NoIdea],
   done |-> done, settled |-> settled]

Misrouted(purpose) ==
  Left([p \in {p1} |-> NewItem(Scout, i1, purpose)],
       [i \in {i1} |-> [NewIdea(t1) EXCEPT !.source = p2, !.work = Home,
          !.st = IF purpose = "approved" THEN "approved" ELSE "refining",
          !.approved = IF purpose = "approved" THEN p1 ELSE None,
          !.refinement = IF purpose = "refinement" THEN p1 ELSE None]],
       <<>>, IF purpose = "approved" THEN <<i1>> ELSE <<>>)

Uncounted ==
  Left([p \in {p1} |-> [NewItem(Home, None, None) EXCEPT !.st = "captured"]],
       [i \in {} |-> NoIdea], <<p1>>, <<>>)

MCInit ==
  \/ Init
  \/ /\ store \in {Misrouted("approved"), Misrouted("refinement"), Uncounted}
     /\ scout = TRUE /\ up = TRUE /\ refused = FALSE
     /\ asks = 0 /\ reviews = 0 /\ crashes = 0

MCSpec == MCInit /\ [][Next]_vars
=============================================================================
