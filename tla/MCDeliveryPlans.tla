---------------------------- MODULE MCDeliveryPlans ----------------------------
(* A plan that does not exist yet, one with a definition to be approved, and    *)
(* one in the middle of its run, each by a history of its own requests.         *)
EXTENDS DeliveryPlans

Whole == CHOOSE d \in Definitions : d.release /\ d.criteria = {1, 2}

Step(store, id, action, to) ==
  LET p == CHOOSE p \in Plans : TRUE
      q == [action |-> action, plan |-> p, to |-> to,
            def |-> IF action = "create" THEN Whole ELSE Unapproved, confirmed |-> TRUE,
            aborted |-> FALSE, facts |-> TRUE, storeRevision |-> Len(store.ops),
            planRevision |-> store.plans[p].revision]
  IN NextStore(store, id, q, Outcome(store, q))

\* Operation ids of a history are not those of the requests to come.
Planned == Step(Step(EmptyStore, -1, "create", "planning"), -2, "transition", "ready_for_approval")
Executing == Step(Step(Planned, -3, "transition", "approved"), -4, "transition", "executing")
Verifying == Step(Executing, -5, "transition", "verifying")

PlansInit == \E store \in {EmptyStore, Planned, Executing, Verifying} : StartFrom(store)
================================================================================
