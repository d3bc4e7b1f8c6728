--------------------------- MODULE PlanningRunProofs ---------------------------
(* Theorems about a planning run: the domain refuses no write of the server, no   *)
(* input is typed twice or without authority, no worker stays behind a closed     *)
(* lease, and the plan is written at most once, for every number of crashes,      *)
(* failing writes, retries and cleanups.                                          *)
EXTENDS PlanningRun, FiniteSetTheorems, TLAPS

--------------------------------------------------------------------------------
(* The inductive invariant: the record. It says more than the validator, which    *)
(* accepts records no sequence of mutations leads to.                             *)

\* A role without an adopted worker: pending, in its spawn, provisional or closed.
Unadopted(a) ==
  /\ a.clean = "none" /\ a.report = "none"
  /\ \/ /\ a.lease = "none" /\ a.stop = "none" /\ a.outcome = "none"
        /\ a.state = "pending" /\ a.att = "none"
     \/ /\ a.lease \in {"claimed", "bound"} /\ a.stop = "none" /\ a.outcome = "none"
        /\ a.state = "spawn_claimed" /\ a.att = "spawn_claimed"
     \/ /\ a.lease = "reconcile_required" /\ a.stop # "complete" /\ a.outcome = "none"
        /\ a.state = "reconcile_required" /\ a.att = "reconcile_required"
     \/ /\ a.lease = "closed" /\ a.stop \in {"none", "complete"}
        /\ a.state = "failed" /\ a.att = "crashed" /\ a.outcome = "crashed"

\* A role whose worker was adopted: at work, or with an outcome and a cleanup.
Adopted(a) ==
  /\ a.lease = "adopted" /\ a.stop = "none"
  /\ \/ /\ a.att \in {"dispatch_claimed", "dispatched"} /\ a.state = a.att
        /\ a.outcome = "none" /\ a.clean = "none" /\ a.report = "none"
     \/ /\ a.clean # "none"
        /\ \/ /\ a.state = "completed" /\ a.att = "finished"
              /\ a.outcome = "complete" /\ a.report = "complete"
           \/ /\ a.state = "needs_input" /\ a.att = "finished"
              /\ a.outcome = "needs_input" /\ a.report \in {"none", "needs_input"}
           \/ a.state = "failed" /\ a.att = "finished" /\ a.outcome = "failed"
           \/ a.state = "failed" /\ a.att = "crashed" /\ a.outcome = "crashed"
           \/ /\ a.state = "reconcile_required" /\ a.att = "reconcile_required"
              /\ a.outcome = "none"

\* A cleanup can be recovered once more, until the recovery that found no worker.
Recoverable(a) ==
  /\ a.found = "none" <=> a.recov = 0
  /\ a.clean \in {"none", "pending"} => a.recov = 0
  /\ a.clean \in {"claimed", "sent", "reconcile_required"} =>
       a.recov <= 2 /\ a.found # "worker_absent"

Sound(a) == (Unadopted(a) \/ Adopted(a)) /\ Recoverable(a)

Stuck == {"needs_input", "failed", "reconcile_required"}

RunInv(r) ==
  /\ \A x \in Roles : Sound(r.role[x])
  /\ \A x, y \in Roles : Live(r.role[x]) /\ Live(r.role[y]) => x = y
  /\ \A x \in Roles : r.role[x].state \in Stuck => r.condition \in Halted
  /\ \A x, y \in Roles : r.role[x].state \in InService /\ x # y => r.role[y].state \notin Stuck
  /\ Terminal(r) => \A x \in Roles : ~Live(r.role[x])
  /\ r.condition = "resource_wait" => r.phase \in {"po", "ba", "challenge"}
  /\ r.outbox = "applied" => r.phase = "applied"
  /\ r.outbox # "held" => r.candidate # "none"
  /\ ValidSynthesis(r) /\ ValidPhase(r) /\ ValidCondition(r)

--------------------------------------------------------------------------------
(* The inductive invariant: the server.                                           *)

\* What the operation knows of the record where it stands.
PlaceInv ==
  LET a == run.role[op.role]
  IN /\ ~begun => run = Created /\ op.at \in {"idle", "down"}
     /\ op.at \in {"spawn", "bind"} => a.lease = "claimed"
     /\ op.at = "attest" => a.lease = "bound"
     /\ op.at = "spawnFailed" => a.lease \in {"claimed", "bound"}
     /\ op.at \in {"deliver", "delivered", "notDelivered", "unknown"} =>
          a.att = "dispatch_claimed"
     /\ op.at = "deliver" => typed[op.role] = 0
     /\ op.at = "rejected" => a.att \in {"dispatched", "finished"}
     /\ op.at \in {"exit", "exited", "notExited"} => a.clean = "claimed"
     /\ op.at \in {"stop", "stopped"} =>
          a.lease = "reconcile_required" /\ a.stop = "claimed"
     /\ op.at = "stop" => stops[op.role] = 0
     /\ op.at = "reaped" => worker[op.role].life \in {"none", "gone"}
     /\ op.at \in {"apply", "abandon"} => Reconciling
     /\ op.at = "planned" => plan.receipt
     /\ op.at = "abandon" => run.condition = "off_course" /\ ~plan.receipt
     /\ op.at \in {"spawn", "bind", "attest", "deliver"} => auth.kind # "none"
     /\ op.at = "exit" => Allows(op.role)

\* /exit has been typed, and the record does not say so yet.
Exiting(x) == op.at \in {"exited", "notExited"} /\ op.role = x

\* What was typed, stopped and started for a role, by what the record says of it.
Ledger ==
  \A x \in Roles :
    LET a == run.role[x]
    IN /\ typed[x] <= 1 /\ (a.att \in {"none", "spawn_claimed"} => typed[x] = 0)
       /\ stops[x] <= 1 /\ (a.stop = "none" => stops[x] = 0)
       /\ exits[x] <= 1 + run.cleanups + faults
       /\ a.clean \in {"none", "pending"} => exits[x] = 0
       /\ a.clean = "claimed" /\ Allows(x) /\ ~Exiting(x) =>
            exits[x] <= run.cleanups + faults
       /\ worker[x].life \in {"live", "dead"} => Live(a)

\* The receipt in the plan is the write, and the outbox knows of it.
PlanInv ==
  /\ writes = IF plan.receipt THEN 1 ELSE 0
  /\ run.outbox = "applied" => plan.receipt
  /\ run.outbox \in {"held", "abandoned"} => ~plan.receipt

Inv == TypeOK /\ NeverRefused /\ RunInv(run) /\ PlaceInv /\ Ledger /\ PlanInv

--------------------------------------------------------------------------------
(* Roles.                                                                         *)

\* A sound role passes the validator.
LEMMA SoundValid ==
  ASSUME NEW a \in RoleRecord, Sound(a)
  PROVE  ValidLease(a) /\ ValidCleanup(a) /\ ValidAttempt(a) /\ ValidRole(a)
  <1>1. ValidCleanup(a) BY DEF Sound, Recoverable, ValidCleanup, RoleRecord
  <1>2. CASE Unadopted(a)
    BY <1>1, <1>2 DEF Unadopted, ValidLease, ValidAttempt, ValidRole, InService,
       RoleRecord, StopStates
  <1>3. CASE Adopted(a)
    BY <1>1, <1>3 DEF Adopted, ValidLease, ValidAttempt, ValidRole, InService, RoleRecord
  <1>4. QED BY <1>2, <1>3 DEF Sound

\* The record of such roles passes it, too (validateDeliveryPlanningRun).
LEMMA RunValid ==
  ASSUME NEW r \in RunRecord, RunInv(r)
  PROVE  Valid(r)
  <1>1. \A x \in Roles : r.role[x] \in RoleRecord BY DEF RunRecord
  <1>2. QED BY <1>1, SoundValid DEF RunInv, Valid

\* Which worker is live, by the lease.
LEMMA LiveFacts ==
  ASSUME NEW a \in RoleRecord, Sound(a)
  PROVE  /\ Live(a) <=> a.lease \notin {"none", "closed"}
                        /\ ~(a.lease = "adopted" /\ a.clean = "complete")
         /\ a.state = "pending" <=> a.att = "none"
         /\ a.state = "pending" <=> a.lease = "none"
         /\ a.report # "none" => a.lease = "adopted" /\ a.clean # "none"
         /\ a.state = "completed" => a.report = "complete"
         /\ a.state \in InService \cup {"pending"} => a.report = "none"
         /\ a.state \in InService => Live(a)
         /\ a.att \in InService <=> a.state \in InService
         /\ a.att \in InService => a.state = a.att
         /\ a.state # "completed" /\ a.report # "none" => a.state \in Stuck
         /\ a.clean # "none" => a.lease = "adopted"
  <1>1. CASE Unadopted(a) BY <1>1 DEF Unadopted, Live, InService, Stuck
  <1>2. CASE Adopted(a) BY <1>2 DEF Adopted, Live, InService, Stuck
  <1>3. QED BY <1>1, <1>2 DEF Sound

\* The role that is asked next is eligible (nextEligibleDeliveryPlanningRole).
LEMMA NextRoleFacts ==
  ASSUME NEW r, AnyEligible(r)
  PROVE  NextRole(r) \in Roles /\ Eligible(r, NextRole(r))
  <1>1. PICK x \in Roles : Eligible(r, x) BY DEF AnyEligible
  <1>2. "qa" \in Roles BY DEF Roles
  <1>3. \E y \in Roles : Eligible(r, y) /\ (y = "dev" => ~Eligible(r, "qa"))
    <2>1. CASE x = "dev" /\ Eligible(r, "qa") BY <1>2, <2>1
    <2>2. CASE ~(x = "dev" /\ Eligible(r, "qa")) BY <1>1, <2>2
    <2>3. QED BY <2>1, <2>2
  <1>4. QED BY <1>3 DEF NextRole

--------------------------------------------------------------------------------
(* Mutations of the record.                                                       *)

\* What a mutation does to everything but the role x.
Around(r, q, x) ==
  /\ q \in RunRecord
  /\ q.phase = r.phase /\ q.candidate = r.candidate /\ q.outbox = r.outbox
  /\ q.cleanups >= r.cleanups
  /\ \A y \in Roles \ {x} : q.role[y] = r.role[y]

\* The condition follows the state of the role, if that is one to stop for.
Reflects(r, q, x) ==
  \/ q.condition = r.condition /\ q.role[x].state = r.role[x].state
  \/ /\ q.condition = r.condition
     /\ q.role[x].state \notin Stuck /\ r.role[x].state \notin Stuck
  \/ q.role[x].state \in Stuck /\ q.condition = Stopped(r, q.role[x].state)
  \/ /\ q.role[x].state \notin Stuck /\ r.role[x].state \notin Stuck
     /\ q.synth /\ q.condition = Stopped(r, "needs_input")

\* A role with a live worker changes soundly.
LEMMA LiveChange ==
  ASSUME NEW r \in RunRecord, RunInv(r), NEW x \in Roles, Live(r.role[x]),
         NEW q, Around(r, q, x), Sound(q.role[x]), Reflects(r, q, x),
         q.role[x].state \in InService => r.role[x].state \in InService,
         \/ q.synth = r.synth /\ q.role[x].report = r.role[x].report
         \/ ~r.synth /\ ValidSynthesis(q)
  PROVE  RunInv(q)
  <1>1. /\ q \in RunRecord /\ \A y \in Roles : q.role[y] \in RoleRecord
        /\ \A y \in Roles : r.role[y] \in RoleRecord /\ Sound(r.role[y])
    BY DEF Around, RunRecord, RunInv
  <1>2. \A y \in Roles : Sound(q.role[y]) BY <1>1 DEF Around
  <1>3. \A y, z \in Roles : Live(q.role[y]) /\ Live(q.role[z]) => y = z
    BY DEF Around, RunInv
  <1>4. ~Terminal(r) /\ ~Terminal(q) BY DEF Around, RunInv, Terminal
  <1>5. /\ r.role[x].state # "pending"
        /\ ~CompletedAndCleaned(r, x)
    BY <1>1, LiveFacts DEF CompletedAndCleaned
  <1>6. \A y \in Roles : q.role[y].state \in Stuck => q.condition \in Halted
    <2> SUFFICES ASSUME NEW y \in Roles, q.role[y].state \in Stuck
                 PROVE  q.condition \in Halted
      OBVIOUS
    <2>1. CASE y # x
      <3>1. r.condition \in Halted BY <2>1 DEF Around, RunInv
      <3>2. QED BY <3>1 DEF Reflects, Stopped, Halted, Stuck
    <2>2. CASE y = x BY <2>2 DEF Reflects, Stopped, Halted, Stuck, RunInv
    <2>3. QED BY <2>1, <2>2
  <1>7. ValidPhase(q)
    <2>1. \A y \in Roles : /\ r.role[y].state = "pending" => q.role[y] = r.role[y]
                           /\ CompletedAndCleaned(r, y) => q.role[y] = r.role[y]
      BY <1>5 DEF Around
    <2>2. \A y \in Roles : CompletedAndCleaned(r, y) => CompletedAndCleaned(q, y)
      BY <2>1 DEF CompletedAndCleaned
    <2>3. ValidPhase(r) BY DEF RunInv
    <2>4. QED BY <2>1, <2>2, <2>3 DEF ValidPhase, Around, Roles
  <1>8. ValidCondition(q)
    <2>1. q.phase # "closed" /\ r.condition # "canceled"
      BY <1>4 DEF Terminal, RunInv, ValidCondition
    <2>2. CASE /\ q.condition = r.condition
               /\ \A s \in Stuck : (\E y \in Roles : r.role[y].state = s) =>
                                    \E y \in Roles : q.role[y].state = s
      <3>1. r.synth => q.synth OBVIOUS
      <3>2. q.outbox = r.outbox /\ ValidCondition(r) BY DEF Around, RunInv
      <3>3. QED BY <2>1, <2>2, <3>1, <3>2 DEF ValidCondition, Stuck
    <2>3. CASE q.role[x].state \in Stuck /\ q.condition = Stopped(r, q.role[x].state)
      BY <2>1, <2>3 DEF ValidCondition, Stuck, Stopped
    <2>4. CASE q.synth /\ q.condition = Stopped(r, "needs_input")
      BY <2>1, <2>4 DEF ValidCondition, Stopped
    <2>5. QED BY <2>2, <2>3, <2>4 DEF Reflects, Around
  <1>9. ValidSynthesis(q)
    <2> SUFFICES ASSUME q.synth = r.synth, q.role[x].report = r.role[x].report
                 PROVE  ValidSynthesis(q)
      OBVIOUS
    <2>1. q.condition = "active" => r.condition = "active"
      BY DEF Reflects, Stopped, Stuck
    <2>2. \A y \in Roles : q.role[y].report = r.role[y].report BY DEF Around
    <2>3. QED BY <2>1, <2>2 DEF RunInv, ValidSynthesis, Around
  <1>10. q.condition = "resource_wait" => q.phase \in {"po", "ba", "challenge"}
    BY DEF Reflects, Around, RunInv, Stopped, Stuck
  <1>11. \A y, z \in Roles : q.role[y].state \in InService /\ y # z => q.role[z].state \notin Stuck
    <2> SUFFICES ASSUME NEW y \in Roles, NEW z \in Roles, y # z, q.role[y].state \in InService
                 PROVE  q.role[z].state \notin Stuck
      OBVIOUS
    <2>1. r.role[y].state \in InService BY DEF Around
    <2>2. y = x BY <2>1, <1>1, LiveFacts DEF RunInv
    <2>3. QED BY <2>1, <2>2 DEF RunInv, Around
  <1>12. QED
    BY <1>2, <1>3, <1>4, <1>6, <1>7, <1>8, <1>9, <1>10, <1>11 DEF RunInv, Around

\* What a mutation leaves true of the inputs, the workers and the plan.
Follows(r, q) ==
  /\ q.cleanups >= r.cleanups
  /\ \A x \in Roles :
       LET a == r.role[x]
           b == q.role[x]
       IN /\ b.att \in {"none", "spawn_claimed"} => a.att \in {"none", "spawn_claimed"}
          /\ b.stop = "none" => a.stop = "none"
          /\ b.clean \in {"none", "pending"} => a.clean \in {"none", "pending"}
          /\ b.clean = "claimed" =>
               a.clean \in {"pending", "claimed"} \/ q.cleanups > r.cleanups
          /\ Live(a) => Live(b) \/ worker[x].life \in {"none", "gone"}
  /\ q.outbox = "applied" => r.outbox = "applied" \/ plan.receipt
  /\ q.outbox \in {"held", "abandoned"} =>
       r.outbox \in {"held", "abandoned"} \/ ~plan.receipt

Good(r, q) == q \in RunRecord /\ RunInv(q) /\ Follows(r, q)

\* Nothing follows from nothing.
LEMMA SameGood ==
  ASSUME NEW r \in RunRecord, RunInv(r)
  PROVE  Good(r, r)
  <1>1. r.cleanups \in Nat BY ReceiptsAssumption DEF RunRecord
  <1>2. QED BY <1>1 DEF Good, Follows

\* A role with a live worker is edited, and the condition stays or stops.
LEMMA RoleEdit ==
  ASSUME NEW r \in RunRecord, RunInv(r), NEW x \in Roles, Live(r.role[x]),
         NEW b \in RoleRecord, Sound(b), b.report = r.role[x].report,
         b.state \in InService => r.role[x].state \in InService,
         \/ b.state = r.role[x].state
         \/ b.state \notin Stuck /\ r.role[x].state \notin Stuck
         \/ b.state \in Stuck,
         b.att \in {"none", "spawn_claimed"} => r.role[x].att \in {"none", "spawn_claimed"},
         b.stop = "none" => r.role[x].stop = "none",
         b.clean \in {"none", "pending"} => r.role[x].clean \in {"none", "pending"},
         b.clean = "claimed" => r.role[x].clean \in {"pending", "claimed"},
         Live(b) \/ worker[x].life \in {"none", "gone"},
         NEW q, \/ q = [r EXCEPT !.role[x] = b]
                   /\ (b.state \in Stuck => b.state = r.role[x].state)
                \/ q = [r EXCEPT !.condition = Stopped(r, b.state), !.role[x] = b]
                   /\ b.state \in Stuck
  PROVE  Good(r, q)
  <1>1. r.cleanups \in Nat BY ReceiptsAssumption DEF RunRecord
  <1>2. Stopped(r, b.state) \in Conditions \/ b.state \notin Stuck
    BY DEF Stopped, Stuck, Conditions
  <1> DEFINE role == [r.role EXCEPT ![x] = b]
  <1>a. /\ role \in [Roles -> RoleRecord] /\ role[x] = b
        /\ \A y \in Roles \ {x} : role[y] = r.role[y]
    BY DEF RunRecord
  <1>b. \/ q = [r EXCEPT !.role = role] /\ (b.state \in Stuck => b.state = r.role[x].state)
        \/ q = [r EXCEPT !.condition = Stopped(r, b.state), !.role = role]
           /\ b.state \in Stuck
    BY DEF RunRecord
  <1> HIDE DEF role
  <1>3. /\ q \in RunRecord /\ q.role[x] = b /\ q.cleanups = r.cleanups
        /\ q.phase = r.phase /\ q.candidate = r.candidate /\ q.outbox = r.outbox
        /\ q.synth = r.synth
        /\ \A y \in Roles \ {x} : q.role[y] = r.role[y]
        /\ \/ q.condition = r.condition /\ (b.state \in Stuck => b.state = r.role[x].state)
           \/ q.condition = Stopped(r, b.state) /\ b.state \in Stuck
    <2>1. CASE q = [r EXCEPT !.role = role]
      BY <1>a, <1>b, <2>1 DEF RunRecord
    <2>2. CASE q = [r EXCEPT !.condition = Stopped(r, b.state), !.role = role]
      BY <1>a, <1>b, <1>2, <2>2 DEF RunRecord
    <2>3. QED BY <1>b, <2>1, <2>2
  <1>4. Around(r, q, x) BY <1>1, <1>3 DEF Around
  <1>5. Reflects(r, q, x) BY <1>3 DEF Reflects
  <1>6. RunInv(q) BY <1>3, <1>4, <1>5, LiveChange
  <1>7. Follows(r, q) BY <1>1, <1>3 DEF Follows
  <1>8. QED BY <1>3, <1>6, <1>7 DEF Good

--------------------------------------------------------------------------------
(* The mutations of a role.                                                       *)

\* A live role, as the edits of it find it.
LEMMA Stops ==
  ASSUME NEW a \in RoleRecord, Sound(a)
  PROVE  /\ a.lease \in {"claimed", "bound", "reconcile_required"} => Live(a)
         /\ a.clean \in {"pending", "claimed", "sent", "reconcile_required"} => Live(a)
         /\ a.att \in InService => Live(a)
         /\ a.lease \in {"claimed", "bound", "reconcile_required"} =>
              Unadopted(a) /\ a.state \in {"spawn_claimed", "reconcile_required"}
         /\ a.lease = "adopted" => Adopted(a)
  BY DEF Sound, Unadopted, Adopted, Live, InService

\* The lease is bound (bindDeliveryPlanningSpawnLease).
LEMMA BindGood ==
  ASSUME NEW r \in RunRecord, RunInv(r), NEW x \in Roles, CanBind(r, x, FALSE)
  PROVE  Good(r, Bind(r, x))
  <1> DEFINE b == [r.role[x] EXCEPT !.lease = "bound"]
             q == Bind(r, x)
  <1>1. r.role[x] \in RoleRecord /\ Sound(r.role[x]) BY DEF RunRecord, RunInv
  <1>2. Live(r.role[x]) BY <1>1, Stops DEF CanBind
  <1>3. b \in RoleRecord /\ Sound(b) /\ Live(b)
    BY <1>1 DEF CanBind, Sound, Unadopted, Adopted, Recoverable, RoleRecord, LeaseStates, Live
  <1>4. /\ b.report = r.role[x].report /\ b.state = r.role[x].state /\ b.att = r.role[x].att
        /\ b.stop = r.role[x].stop /\ b.clean = r.role[x].clean
    BY <1>1 DEF RoleRecord
  <1>5. b.state \notin Stuck /\ b.clean = "none"
    BY <1>1, <1>4 DEF CanBind, Stuck, Sound, Unadopted, Adopted
  <1>6. q = [r EXCEPT !.role[x] = b] BY DEF Bind, RunRecord
  <1> HIDE DEF b, q
  <1>7. Good(r, q) BY <1>1, <1>2, <1>3, <1>4, <1>5, <1>6, RoleEdit
  <1>8. QED BY <1>7 DEF q

\* The lease is overdue (markDeliveryPlanningSpawnLeaseReconcile).
LEMMA ReconcileLeaseGood ==
  ASSUME NEW r \in RunRecord, RunInv(r), NEW x \in Roles, CanReconcileLease(r, x, TRUE)
  PROVE  Good(r, ReconcileLease(r, x))
  <1> DEFINE b == [r.role[x] EXCEPT !.lease = "reconcile_required",
                        !.state = "reconcile_required", !.att = "reconcile_required"]
             q == ReconcileLease(r, x)
  <1>1. r.role[x] \in RoleRecord /\ Sound(r.role[x]) BY DEF RunRecord, RunInv
  <1>2. Live(r.role[x]) BY <1>1, Stops DEF CanReconcileLease
  <1>3. b \in RoleRecord /\ Sound(b) /\ Live(b)
    BY <1>1 DEF CanReconcileLease, Sound, Unadopted, Adopted, Recoverable, RoleRecord,
       LeaseStates, RoleStates, AttemptStates, Live
  <1>4. /\ b.report = r.role[x].report /\ b.state = "reconcile_required"
        /\ b.att = "reconcile_required"
        /\ b.stop = r.role[x].stop /\ b.clean = r.role[x].clean
    BY <1>1 DEF RoleRecord
  <1>5. b.clean = "none"
    BY <1>1, <1>4 DEF CanReconcileLease, Sound, Unadopted, Adopted
  <1>6. q = [r EXCEPT !.condition = Stopped(r, b.state), !.role[x] = b]
    BY <1>4 DEF ReconcileLease, RunRecord
  <1> HIDE DEF b, q
  <1>7. b.state \in Stuck /\ b.state \notin InService BY <1>4 DEF Stuck, InService
  <1>8. Good(r, q) BY <1>1, <1>2, <1>3, <1>4, <1>5, <1>6, <1>7, RoleEdit
  <1>9. QED BY <1>8 DEF q

\* A lease is closed only when its worker is seen to be absent.
LEMMA ClosedGood ==
  ASSUME NEW r \in RunRecord, RunInv(r), NEW x \in Roles, NEW stop \in {"none", "complete"},
         worker[x].life \in {"none", "gone"},
         r.role[x].lease \in {"claimed", "bound", "reconcile_required"},
         stop = "none" => r.role[x].stop = "none"
  PROVE  Good(r, Closed(r, x, stop))
  <1> DEFINE b == [r.role[x] EXCEPT !.lease = "closed", !.stop = stop, !.state = "failed",
                                    !.att = "crashed", !.outcome = "crashed", !.clean = "none"]
             q == Closed(r, x, stop)
  <1>1. r.role[x] \in RoleRecord /\ Sound(r.role[x]) BY DEF RunRecord, RunInv
  <1>2. Live(r.role[x]) BY <1>1, Stops
  <1>3. b \in RoleRecord /\ Sound(b)
    BY <1>1 DEF Sound, Unadopted, Adopted, Recoverable, RoleRecord,
       LeaseStates, RoleStates, AttemptStates, StopStates, Outcomes, CleanStates
  <1>4. /\ b.report = r.role[x].report /\ b.state = "failed" /\ b.att = "crashed"
        /\ b.stop = stop /\ b.clean = "none"
    BY <1>1 DEF RoleRecord
  <1>5. r.role[x].clean = "none" BY <1>1 DEF Sound, Unadopted, Adopted
  <1>6. q = [r EXCEPT !.condition = Stopped(r, b.state), !.role[x] = b]
    BY <1>4 DEF Closed, RunRecord
  <1> HIDE DEF b, q
  <1>7. b.state \in Stuck /\ b.state \notin InService BY <1>4 DEF Stuck, InService
  <1>8. Good(r, q) BY <1>1, <1>2, <1>3, <1>4, <1>5, <1>6, <1>7, RoleEdit
  <1>9. QED BY <1>8 DEF q

\* The stop of a provisional worker is claimed, and then sent.
LEMMA StopGood ==
  ASSUME NEW r \in RunRecord, RunInv(r), NEW x \in Roles
  PROVE  /\ CanClaimStop(r, x) => Good(r, ClaimStop(r, x))
         /\ CanStopSent(r, x) => Good(r, StopSent(r, x))
  <1> SUFFICES ASSUME NEW stop \in {"claimed", "sent"}, r.role[x].lease = "reconcile_required"
               PROVE  Good(r, [r EXCEPT !.role[x].stop = stop])
    BY DEF CanClaimStop, CanStopSent, ClaimStop, StopSent
  <1> DEFINE b == [r.role[x] EXCEPT !.stop = stop]
             q == [r EXCEPT !.role[x].stop = stop]
  <1>1. r.role[x] \in RoleRecord /\ Sound(r.role[x]) BY DEF RunRecord, RunInv
  <1>2. Live(r.role[x]) BY <1>1, Stops
  <1>3. b \in RoleRecord /\ Sound(b) /\ Live(b)
    BY <1>1 DEF Sound, Unadopted, Adopted, Recoverable, RoleRecord, StopStates, Live
  <1>4. /\ b.report = r.role[x].report /\ b.state = r.role[x].state /\ b.att = r.role[x].att
        /\ b.stop # "none" /\ b.clean = r.role[x].clean
    BY <1>1 DEF RoleRecord
  <1>5. q = [r EXCEPT !.role[x] = b] BY DEF RunRecord
  <1> HIDE DEF b, q
  <1>6. Good(r, q) BY <1>1, <1>2, <1>3, <1>4, <1>5, RoleEdit
  <1>7. QED BY <1>6 DEF q



\* The dispatch is claimed and the lease adopted (claimDeliveryPlanningDispatch).
LEMMA ClaimDispatchGood ==
  ASSUME NEW r \in RunRecord, RunInv(r), NEW x \in Roles, CanClaimDispatch(r, x)
  PROVE  Good(r, ClaimDispatch(r, x))
  <1> DEFINE b == [r.role[x] EXCEPT !.lease = "adopted", !.state = "dispatch_claimed",
                                    !.att = "dispatch_claimed"]
             q == ClaimDispatch(r, x)
  <1>1. r.role[x] \in RoleRecord /\ Sound(r.role[x]) BY DEF RunRecord, RunInv
  <1>2. Live(r.role[x]) BY <1>1, Stops DEF CanClaimDispatch, InService, Sound, Unadopted, Adopted
  <1>3. b \in RoleRecord /\ Sound(b) /\ Live(b)
    BY <1>1 DEF CanClaimDispatch, Sound, Unadopted, Adopted, Recoverable, RoleRecord, Live,
       LeaseStates, RoleStates, AttemptStates, Outcomes, CleanStates, Reports, InService
  <1>4. /\ b.report = r.role[x].report
        /\ r.role[x].state = "spawn_claimed" /\ r.role[x].clean = "none" /\ r.role[x].stop = "none"
        /\ b.state = "dispatch_claimed" /\ b.att = "dispatch_claimed"
        /\ b.stop = "none" /\ b.clean = "none"
    BY <1>1 DEF RoleRecord, CanClaimDispatch, Sound, Unadopted, Adopted
  <1>5. q = [r EXCEPT !.role[x] = b]
    BY <1>1, <1>4 DEF ClaimDispatch, RunRecord
  <1> HIDE DEF b, q
  <1>6. b.state \notin Stuck /\ r.role[x].state \notin Stuck /\ r.role[x].state \in InService
    BY <1>4 DEF Stuck, InService
  <1>7. Good(r, q) BY <1>1, <1>2, <1>3, <1>4, <1>5, <1>6, RoleEdit
  <1>8. QED BY <1>7 DEF q

\* The prompt has been submitted (markDeliveryPlanningDispatched).
LEMMA DispatchedGood ==
  ASSUME NEW r \in RunRecord, RunInv(r), NEW x \in Roles, CanDispatched(r, x)
  PROVE  Good(r, Dispatched(r, x))
  <1> DEFINE b == [r.role[x] EXCEPT !.state = "dispatched", !.att = "dispatched"]
             q == Dispatched(r, x)
  <1>1. r.role[x] \in RoleRecord /\ Sound(r.role[x]) BY DEF RunRecord, RunInv
  <1>2. Live(r.role[x]) BY <1>1, Stops DEF CanDispatched, InService, Sound, Unadopted, Adopted
  <1>3. b \in RoleRecord /\ Sound(b) /\ Live(b)
    BY <1>1 DEF CanDispatched, Sound, Unadopted, Adopted, Recoverable, RoleRecord, Live,
       LeaseStates, RoleStates, AttemptStates, Outcomes, CleanStates, Reports, InService
  <1>4. /\ b.report = r.role[x].report
        /\ r.role[x].state = "dispatch_claimed" /\ r.role[x].clean = "none" /\ r.role[x].stop = "none"
        /\ b.state = "dispatched" /\ b.att = "dispatched"
        /\ b.stop = "none" /\ b.clean = "none"
    BY <1>1 DEF RoleRecord, CanDispatched, Sound, Unadopted, Adopted
  <1>5. q = [r EXCEPT !.role[x] = b]
    BY <1>1, <1>4 DEF Dispatched, RunRecord
  <1> HIDE DEF b, q
  <1>6. b.state \notin Stuck /\ r.role[x].state \notin Stuck /\ r.role[x].state \in InService
    BY <1>4 DEF Stuck, InService
  <1>7. Good(r, q) BY <1>1, <1>2, <1>3, <1>4, <1>5, <1>6, RoleEdit
  <1>8. QED BY <1>7 DEF q

\* The worker is done without a report.
LEMMA NeedsInputGood ==
  ASSUME NEW r \in RunRecord, RunInv(r), NEW x \in Roles, 
         r.role[x].att \in {"dispatch_claimed", "dispatched"}
  PROVE  Good(r, NeedsInput(r, x))
  <1> DEFINE b == Finished(r.role[x], "needs_input", "finished", "needs_input")
             q == NeedsInput(r, x)
  <1>1. r.role[x] \in RoleRecord /\ Sound(r.role[x]) BY DEF RunRecord, RunInv
  <1>2. Live(r.role[x]) BY <1>1, Stops DEF Finished, InService, Sound, Unadopted, Adopted
  <1>3. b \in RoleRecord /\ Sound(b) /\ Live(b)
    BY <1>1 DEF Finished, Finished, Sound, Unadopted, Adopted, Recoverable, RoleRecord, Live,
       LeaseStates, RoleStates, AttemptStates, Outcomes, CleanStates, Reports, InService
  <1>4. /\ b.report = r.role[x].report
        /\ r.role[x].att \in {"dispatch_claimed", "dispatched"}
        /\ b.state = "needs_input" /\ b.att = "finished"
        /\ b.stop = r.role[x].stop /\ b.clean = "pending"
        /\ r.role[x].clean = "none"
    BY <1>1 DEF RoleRecord, Finished, Sound, Unadopted, Adopted
  <1>5. q = [r EXCEPT !.condition = Stopped(r, b.state), !.role[x] = b]
    BY <1>1, <1>4 DEF NeedsInput, RunRecord
  <1> HIDE DEF b, q
  <1>6. b.state \in Stuck /\ b.state \notin InService
    BY <1>4 DEF Stuck, InService
  <1>7. Good(r, q) BY <1>1, <1>2, <1>3, <1>4, <1>5, <1>6, RoleEdit
  <1>8. QED BY <1>7 DEF q

\* The worker is seen dead, or its prompt was not typed.
LEMMA CrashedGood ==
  ASSUME NEW r \in RunRecord, RunInv(r), NEW x \in Roles, 
         r.role[x].att \in {"dispatch_claimed", "dispatched"}
  PROVE  Good(r, Crashed(r, x))
  <1> DEFINE b == Finished(r.role[x], "failed", "crashed", "crashed")
             q == Crashed(r, x)
  <1>1. r.role[x] \in RoleRecord /\ Sound(r.role[x]) BY DEF RunRecord, RunInv
  <1>2. Live(r.role[x]) BY <1>1, Stops DEF Finished, InService, Sound, Unadopted, Adopted
  <1>3. b \in RoleRecord /\ Sound(b) /\ Live(b)
    BY <1>1 DEF Finished, Finished, Sound, Unadopted, Adopted, Recoverable, RoleRecord, Live,
       LeaseStates, RoleStates, AttemptStates, Outcomes, CleanStates, Reports, InService
  <1>4. /\ b.report = r.role[x].report
        /\ r.role[x].att \in {"dispatch_claimed", "dispatched"}
        /\ b.state = "failed" /\ b.att = "crashed"
        /\ b.stop = r.role[x].stop /\ b.clean = "pending"
        /\ r.role[x].clean = "none"
    BY <1>1 DEF RoleRecord, Finished, Sound, Unadopted, Adopted
  <1>5. q = [r EXCEPT !.condition = Stopped(r, b.state), !.role[x] = b]
    BY <1>1, <1>4 DEF Crashed, RunRecord
  <1> HIDE DEF b, q
  <1>6. b.state \in Stuck /\ b.state \notin InService
    BY <1>4 DEF Stuck, InService
  <1>7. Good(r, q) BY <1>1, <1>2, <1>3, <1>4, <1>5, <1>6, RoleEdit
  <1>8. QED BY <1>7 DEF q

\* The worker cannot be judged.
LEMMA UncertainGood ==
  ASSUME NEW r \in RunRecord, RunInv(r), NEW x \in Roles, 
         r.role[x].att \in {"dispatch_claimed", "dispatched"}
  PROVE  Good(r, Uncertain(r, x))
  <1> DEFINE b == [r.role[x] EXCEPT !.state = "reconcile_required", !.att = "reconcile_required",
                !.outcome = "none",
                                    !.clean = "reconcile_required"]
             q == Uncertain(r, x)
  <1>1. r.role[x] \in RoleRecord /\ Sound(r.role[x]) BY DEF RunRecord, RunInv
  <1>2. Live(r.role[x]) BY <1>1, Stops DEF InService, InService, Sound, Unadopted, Adopted
  <1>3. b \in RoleRecord /\ Sound(b) /\ Live(b)
    <2>1. /\ b \in RoleRecord /\ b.report = r.role[x].report /\ b.lease = r.role[x].lease
          /\ b.stop = r.role[x].stop
          /\ b.state = "reconcile_required" /\ b.att = "reconcile_required"
          /\ b.outcome = "none" /\ b.clean = "reconcile_required"
          /\ b.found = r.role[x].found /\ b.recov = r.role[x].recov
      BY <1>1 DEF RoleRecord, RoleStates, AttemptStates, Outcomes, CleanStates, Recovered,
         MaxRecoveries
    <2>2. Adopted(r.role[x]) /\ Recoverable(r.role[x])
      BY <1>1, Stops DEF Sound, Unadopted
    <2> HIDE DEF b
    <2>3. Adopted(b) /\ Live(b)
      BY <2>1, <2>2 DEF Adopted, Live
    <2>4. Recoverable(b)
      BY <1>1, <2>1, <2>2 DEF Recoverable, Adopted, RoleRecord, MaxRecoveries
    <2>5. QED BY <2>1, <2>3, <2>4 DEF Sound
  <1>4. /\ b.report = r.role[x].report
        /\ r.role[x].lease = "adopted"
        /\ b.state = "reconcile_required" /\ b.att = "reconcile_required"
        /\ b.stop = r.role[x].stop /\ b.clean = "reconcile_required"
    BY <1>1 DEF RoleRecord, InService, Sound, Unadopted, Adopted
  <1>5. q = [r EXCEPT !.condition = Stopped(r, b.state), !.role[x] = b]
    BY <1>1, <1>4 DEF Uncertain, RunRecord
  <1> HIDE DEF b, q
  <1>6. b.state \in Stuck /\ b.state \notin InService
    BY <1>4 DEF Stuck, InService
  <1>7. Good(r, q) BY <1>1, <1>2, <1>3, <1>4, <1>5, <1>6, RoleEdit
  <1>8. QED BY <1>7 DEF q

\* The cleanup is claimed (claimDeliveryPlanningRoleCleanup).
LEMMA ClaimCleanupGood ==
  ASSUME NEW r \in RunRecord, RunInv(r), NEW x \in Roles, CanClaimCleanup(r, x)
  PROVE  Good(r, ClaimCleanup(r, x))
  <1> DEFINE b == [r.role[x] EXCEPT !.clean = "claimed"]
             q == ClaimCleanup(r, x)
  <1>1. r.role[x] \in RoleRecord /\ Sound(r.role[x]) BY DEF RunRecord, RunInv
  <1>2. Live(r.role[x]) BY <1>1, Stops DEF CanClaimCleanup, InService, Sound, Unadopted, Adopted
  <1>3. b \in RoleRecord /\ Sound(b) /\ Live(b)
    BY <1>1 DEF CanClaimCleanup, Sound, Unadopted, Adopted, Recoverable, RoleRecord, Live,
       LeaseStates, RoleStates, AttemptStates, Outcomes, CleanStates, Reports, InService
  <1>4. /\ b.report = r.role[x].report
        /\ b.state = r.role[x].state /\ b.att = r.role[x].att /\ b.stop = r.role[x].stop
        /\ r.role[x].clean = "pending" /\ b.clean = "claimed"
    BY <1>1 DEF RoleRecord, CanClaimCleanup, Sound, Unadopted, Adopted
  <1>5. q = [r EXCEPT !.role[x] = b]
    BY <1>1, <1>4 DEF ClaimCleanup, RunRecord
  <1> HIDE DEF b, q
  <1>6. b.state = r.role[x].state
    BY <1>4 DEF Stuck, InService
  <1>7. Good(r, q) BY <1>1, <1>2, <1>3, <1>4, <1>5, <1>6, RoleEdit
  <1>8. QED BY <1>7 DEF q

\* /exit has been typed (markDeliveryPlanningRoleCleanupSent).
LEMMA CleanupSentGood ==
  ASSUME NEW r \in RunRecord, RunInv(r), NEW x \in Roles, CanCleanupSent(r, x)
  PROVE  Good(r, CleanupSent(r, x))
  <1> DEFINE b == [r.role[x] EXCEPT !.clean = "sent"]
             q == CleanupSent(r, x)
  <1>1. r.role[x] \in RoleRecord /\ Sound(r.role[x]) BY DEF RunRecord, RunInv
  <1>2. Live(r.role[x]) BY <1>1, Stops DEF CanCleanupSent, InService, Sound, Unadopted, Adopted
  <1>3. b \in RoleRecord /\ Sound(b) /\ Live(b)
    BY <1>1 DEF CanCleanupSent, Sound, Unadopted, Adopted, Recoverable, RoleRecord, Live,
       LeaseStates, RoleStates, AttemptStates, Outcomes, CleanStates, Reports, InService
  <1>4. /\ b.report = r.role[x].report
        /\ b.state = r.role[x].state /\ b.att = r.role[x].att /\ b.stop = r.role[x].stop
        /\ b.clean = "sent"
    BY <1>1 DEF RoleRecord, CanCleanupSent, Sound, Unadopted, Adopted
  <1>5. q = [r EXCEPT !.role[x] = b]
    BY <1>1, <1>4 DEF CleanupSent, RunRecord
  <1> HIDE DEF b, q
  <1>6. b.state = r.role[x].state
    BY <1>4 DEF Stuck, InService
  <1>7. Good(r, q) BY <1>1, <1>2, <1>3, <1>4, <1>5, <1>6, RoleEdit
  <1>8. QED BY <1>7 DEF q

\* The cleanup is given up (markDeliveryPlanningRoleCleanupReconcile).
LEMMA CleanupRequiredGood ==
  ASSUME NEW r \in RunRecord, RunInv(r), NEW x \in Roles, 
         r.role[x].clean \in {"claimed", "sent"}
  PROVE  Good(r, CleanupRequired(r, x))
  <1> DEFINE b == [r.role[x] EXCEPT !.clean = "reconcile_required", !.outcome = "none",
                         !.state = "reconcile_required", !.att = "reconcile_required"]
             q == CleanupRequired(r, x)
  <1>1. r.role[x] \in RoleRecord /\ Sound(r.role[x]) BY DEF RunRecord, RunInv
  <1>2. Live(r.role[x]) BY <1>1, Stops DEF CleanupRequired, InService, Sound, Unadopted, Adopted
  <1>3. b \in RoleRecord /\ Sound(b) /\ Live(b)
    <2>1. /\ b \in RoleRecord /\ b.report = r.role[x].report /\ b.lease = r.role[x].lease
          /\ b.stop = r.role[x].stop
          /\ b.state = "reconcile_required" /\ b.att = "reconcile_required"
          /\ b.outcome = "none" /\ b.clean = "reconcile_required"
          /\ b.found = r.role[x].found /\ b.recov = r.role[x].recov
      BY <1>1 DEF RoleRecord, RoleStates, AttemptStates, Outcomes, CleanStates, Recovered,
         MaxRecoveries
    <2>2. Adopted(r.role[x]) /\ Recoverable(r.role[x])
      BY <1>1, Stops DEF Sound, Unadopted
    <2> HIDE DEF b
    <2>3. Adopted(b) /\ Live(b)
      BY <2>1, <2>2 DEF Adopted, Live
    <2>4. Recoverable(b)
      BY <1>1, <2>1, <2>2 DEF Recoverable, Adopted, RoleRecord, MaxRecoveries
    <2>5. QED BY <2>1, <2>3, <2>4 DEF Sound
  <1>4. /\ b.report = r.role[x].report
        /\ b.state = "reconcile_required" /\ b.att = "reconcile_required"
        /\ b.stop = r.role[x].stop /\ b.clean = "reconcile_required"
    BY <1>1 DEF RoleRecord, CleanupRequired, Sound, Unadopted, Adopted
  <1>5. q = [r EXCEPT !.condition = Stopped(r, b.state), !.role[x] = b]
    BY <1>1, <1>4 DEF CleanupRequired, RunRecord
  <1> HIDE DEF b, q
  <1>6. b.state \in Stuck /\ b.state \notin InService
    BY <1>4 DEF Stuck, InService
  <1>7. Good(r, q) BY <1>1, <1>2, <1>3, <1>4, <1>5, <1>6, RoleEdit
  <1>8. QED BY <1>7 DEF q

\* The worker of a cleanup to reconcile is absent (recoverDeliveryPlanningRoleCleanup).
LEMMA RecoverAbsentGood ==
  ASSUME NEW r \in RunRecord, RunInv(r), NEW x \in Roles, CanRecoverAbsent(r, x),
         worker[x].life \in {"none", "gone"}
  PROVE  Good(r, RecoverAbsent(r, x))
  <1> DEFINE b == [r.role[x] EXCEPT !.clean = "complete", !.found = "worker_absent",
                                    !.recov = r.role[x].recov + 1]
             q == RecoverAbsent(r, x)
  <1>1. r.role[x] \in RoleRecord /\ Sound(r.role[x]) BY DEF RunRecord, RunInv
  <1>2. Live(r.role[x]) BY <1>1, Stops DEF CanRecoverAbsent, InService, Sound, Unadopted, Adopted
  <1>3. b \in RoleRecord /\ Sound(b)
    <2>0. r.role[x].recov + 1 \in 0..MaxRecoveries
      BY <1>1 DEF CanRecoverAbsent, RoleRecord, MaxRecoveries
    <2>1. /\ b \in RoleRecord /\ b.report = r.role[x].report /\ b.lease = r.role[x].lease
          /\ b.stop = r.role[x].stop
          /\ b.state = r.role[x].state /\ b.att = r.role[x].att
          /\ b.outcome = r.role[x].outcome /\ b.clean = "complete"
          /\ b.found = "worker_absent" /\ b.recov = r.role[x].recov + 1
      BY <1>1, <2>0 DEF RoleRecord, CleanStates, Recovered
    <2>2. Adopted(r.role[x]) /\ Recoverable(r.role[x])
      BY <1>1, Stops DEF Sound, Unadopted, CanRecoverAbsent
    <2> HIDE DEF b
    <2>3. Adopted(b)
      BY <2>1, <2>2 DEF Adopted, Live, CanRecoverAbsent
    <2>4. Recoverable(b)
      BY <1>1, <2>1, <2>2 DEF Recoverable, Adopted, RoleRecord, MaxRecoveries, CanRecoverAbsent
    <2>5. QED BY <2>1, <2>3, <2>4 DEF Sound
  <1>4. /\ b.report = r.role[x].report
        /\ b.state = r.role[x].state /\ b.att = r.role[x].att /\ b.stop = r.role[x].stop
        /\ b.clean = "complete"
    BY <1>1 DEF RoleRecord, CanRecoverAbsent, Sound, Unadopted, Adopted
  <1>5. q = [r EXCEPT !.role[x] = b] BY <1>1 DEF RecoverAbsent, RunRecord
  <1> HIDE DEF b, q
  <1>6. b.state = r.role[x].state
    BY <1>4 DEF Stuck, InService
  <1>7. Good(r, q) BY <1>1, <1>2, <1>3, <1>4, <1>5, <1>6, RoleEdit
  <1>8. QED BY <1>7 DEF q

\* A new cleanup of the operator: the record counts it
\* (authorizeDeliveryPlanningContinue).
LEMMA AuthorizeCleanupGood ==
  ASSUME NEW r \in RunRecord, RunInv(r), NEW x \in Roles, CanAuthorizeCleanup(r, x)
  PROVE  /\ Good(r, AuthorizeCleanup(r, x))
         /\ AuthorizeCleanup(r, x).cleanups = r.cleanups + 1
         /\ AuthorizeCleanup(r, x).role[x].clean = "claimed"
  <1> DEFINE a == r.role[x]
             b == [a EXCEPT !.clean = "claimed", !.receipted = TRUE,
                     !.found = IF a.clean = "reconcile_required" THEN "exact_worker" ELSE a.found,
                     !.recov = IF a.clean = "reconcile_required" THEN a.recov + 1 ELSE a.recov]
             q == AuthorizeCleanup(r, x)
  <1>1. a \in RoleRecord /\ Sound(a) BY DEF RunRecord, RunInv
  <1>2. Live(a) BY <1>1, Stops DEF CanAuthorizeCleanup
  <1>3. /\ b \in RoleRecord /\ b.report = a.report /\ b.lease = a.lease /\ b.stop = a.stop
        /\ b.state = a.state /\ b.att = a.att /\ b.outcome = a.outcome /\ b.clean = "claimed"
        /\ b.found = IF a.clean = "reconcile_required" THEN "exact_worker" ELSE a.found
        /\ b.recov = IF a.clean = "reconcile_required" THEN a.recov + 1 ELSE a.recov
    <2>1. (IF a.clean = "reconcile_required" THEN a.recov + 1 ELSE a.recov) \in 0..MaxRecoveries
      BY <1>1 DEF CanAuthorizeCleanup, RoleRecord, MaxRecoveries
    <2>2. QED BY <1>1, <2>1 DEF RoleRecord, CleanStates, Recovered
  <1>4. q = [r EXCEPT !.cleanups = r.cleanups + 1, !.role[x] = b]
    BY DEF AuthorizeCleanup
  <1>5. r.cleanups \in Nat /\ r.cleanups + 1 \in 0..MaxCleanups
    BY ReceiptsAssumption DEF RunRecord, CanAuthorizeCleanup
  <1>6. Adopted(a) /\ a.clean \in {"pending", "claimed", "reconcile_required"}
    BY <1>1 DEF CanAuthorizeCleanup, Sound, Unadopted
  <1>7. Sound(b) /\ Live(b)
    <2> HIDE DEF b, a
    <2>1. Adopted(b) /\ Live(b) BY <1>3, <1>6 DEF Adopted, Live
    <2>2. CASE a.clean = "reconcile_required"
      BY <1>1, <1>3, <2>1, <2>2 DEF Sound, Recoverable, CanAuthorizeCleanup, a, RoleRecord,
         MaxRecoveries
    <2>3. CASE a.clean # "reconcile_required"
      BY <1>1, <1>3, <1>6, <2>1, <2>3 DEF Sound, Recoverable, RoleRecord, MaxRecoveries
    <2>4. QED BY <2>2, <2>3
  <1> HIDE DEF b, q
  <1>8. /\ q \in RunRecord /\ q.role[x] = b /\ q.cleanups = r.cleanups + 1
        /\ q.phase = r.phase /\ q.candidate = r.candidate /\ q.outbox = r.outbox
        /\ q.synth = r.synth /\ q.condition = r.condition
        /\ \A y \in Roles \ {x} : q.role[y] = r.role[y]
    <2> DEFINE role == [r.role EXCEPT ![x] = b]
    <2>1. /\ role \in [Roles -> RoleRecord] /\ role[x] = b
          /\ \A y \in Roles \ {x} : role[y] = r.role[y]
      BY <1>3 DEF RunRecord
    <2>2. q = [r EXCEPT !.cleanups = r.cleanups + 1, !.role = role] BY <1>4 DEF RunRecord
    <2> HIDE DEF role
    <2>3. QED BY <1>5, <2>1, <2>2 DEF RunRecord
  <1>9. Around(r, q, x) /\ Reflects(r, q, x) BY <1>3, <1>5, <1>8 DEF Around, Reflects
  <1>10. RunInv(q) BY <1>1, <1>2, <1>3, <1>7, <1>8, <1>9, LiveChange
  <1>11. Follows(r, q) BY <1>3, <1>5, <1>6, <1>7, <1>8 DEF Follows
  <1>12. QED BY <1>3, <1>8, <1>10, <1>11 DEF Good, q

\* A run whose roles all rest and that is active goes to its next phase.
LEMMA PhaseGood ==
  ASSUME NEW r \in RunRecord, RunInv(r), \A x \in Roles : ~Live(r.role[x])
  PROVE  Good(r, [r EXCEPT !.phase = NextPhase(r)])
  <1> DEFINE q == [r EXCEPT !.phase = NextPhase(r)]
  <1>1. /\ NextPhase(r) \in Phases
        /\ \/ NextPhase(r) = r.phase
           \/ r.phase = "po" /\ NextPhase(r) = "ba" /\ CompletedAndCleaned(r, "po")
           \/ r.phase = "ba" /\ NextPhase(r) = "challenge" /\ CompletedAndCleaned(r, "ba")
           \/ /\ r.phase = "challenge" /\ NextPhase(r) = "synthesis"
              /\ CompletedAndCleaned(r, "qa") /\ CompletedAndCleaned(r, "dev")
        /\ NextPhase(r) # r.phase => r.condition = "active"
    BY DEF NextPhase, Phases, RunRecord
  <1>2. /\ q \in RunRecord /\ q.phase = NextPhase(r) /\ q.role = r.role /\ q.synth = r.synth
        /\ q.condition = r.condition /\ q.candidate = r.candidate /\ q.outbox = r.outbox
        /\ q.cleanups = r.cleanups
    BY <1>1 DEF RunRecord
  <1>3. CASE NextPhase(r) = r.phase
    <2>1. q = r BY <1>3 DEF RunRecord
    <2>2. QED BY <2>1, SameGood
  <1>4. CASE NextPhase(r) # r.phase
    <2> HIDE DEF q
    <2>1. ValidPhase(q) BY <1>1, <1>2, <1>4 DEF RunInv, ValidPhase, CompletedAndCleaned, Roles
    <2>2. ValidSynthesis(q) BY <1>1, <1>2, <1>4 DEF RunInv, ValidSynthesis
    <2>3. ValidCondition(q) BY <1>1, <1>2, <1>4 DEF RunInv, ValidCondition
    <2>4. RunInv(q) BY <1>1, <1>2, <1>4, <2>1, <2>2, <2>3 DEF RunInv, Terminal
    <2>5. r.cleanups \in Nat BY ReceiptsAssumption DEF RunRecord
    <2>6. QED BY <1>2, <2>4, <2>5 DEF Good, Follows, q
  <1>5. QED BY <1>3, <1>4

\* What follows from what follows.
LEMMA GoodTwice ==
  ASSUME NEW r \in RunRecord, NEW m, NEW q, Good(r, m), RunInv(q), q \in RunRecord,
         q.role = m.role, q.outbox = m.outbox, q.cleanups = m.cleanups
  PROVE  Good(r, q)
  BY DEF Good, Follows

\* The worker has left (markDeliveryPlanningRoleCleanupComplete, advanceAfterCleanup).
LEMMA CleanupCompleteGood ==
  ASSUME NEW r \in RunRecord, RunInv(r), NEW x \in Roles, CanCleanupComplete(r, x),
         worker[x].life \in {"none", "gone"}
  PROVE  Good(r, CleanupComplete(r, x))
  <1> DEFINE a == r.role[x]
             b == [a EXCEPT !.clean = "complete"]
             m == [r EXCEPT !.role[x].clean = "complete"]
             q == [m EXCEPT !.phase = NextPhase(m)]
  <1>1. a \in RoleRecord /\ Sound(a) BY DEF RunRecord, RunInv
  <1>2. Live(a) /\ Adopted(a) BY <1>1, Stops DEF CanCleanupComplete, Sound, Unadopted
  <1>3. /\ b \in RoleRecord /\ b.report = a.report /\ b.state = a.state /\ b.att = a.att
        /\ b.stop = a.stop /\ b.clean = "complete"
    BY <1>1 DEF RoleRecord, CleanStates
  <1>4. Sound(b) /\ ~Live(b)
    BY <1>1, <1>2 DEF Sound, Adopted, Recoverable, RoleRecord, Live, CanCleanupComplete
  <1>5. m = [r EXCEPT !.role[x] = b] BY <1>1 DEF RunRecord
  <1>6. m.role[x] = b /\ \A y \in Roles \ {x} : m.role[y] = r.role[y] BY <1>5 DEF RunRecord
  <1>7. CleanupComplete(r, x) = q BY DEF CleanupComplete
  <1> HIDE DEF b, m, q
  <1>8. Good(r, m) BY <1>1, <1>2, <1>3, <1>4, <1>5, RoleEdit
  <1>9. \A y \in Roles : ~Live(m.role[y]) BY <1>2, <1>4, <1>6 DEF RunInv
  <1>10. Good(m, q) BY <1>8, <1>9, PhaseGood DEF Good, q
  <1>11. q.role = m.role /\ q.outbox = m.outbox /\ q.cleanups = m.cleanups
    BY <1>8 DEF q, Good, RunRecord
  <1>12. QED BY <1>7, <1>8, <1>10, <1>11, GoodTwice DEF Good

\* Where a role is at work, who has worked before it.
LEMMA AtWork ==
  ASSUME NEW r \in RunRecord, RunInv(r), NEW x \in Roles, r.role[x].state \in InService
  PROVE  /\ r.candidate = "none" /\ ~r.synth /\ ~Terminal(r)
         /\ x \in {"qa", "dev"} => /\ r.phase = "challenge"
                                   /\ r.role["po"].report = "complete"
                                   /\ r.role["ba"].report = "complete"
         /\ \A y \in Roles : y # x /\ r.role[y].report # "none" =>
                               r.role[y].report = "complete"
  <1>1. \A y \in Roles : r.role[y] \in RoleRecord /\ Sound(r.role[y]) BY DEF RunRecord, RunInv
  <1>2. /\ Live(r.role[x]) /\ r.role[x].report = "none" /\ r.role[x].state # "completed"
        /\ r.role[x].state # "pending"
    BY <1>1, LiveFacts DEF InService
  <1>3. ~Terminal(r) BY <1>2 DEF RunInv
  <1>4. ~r.synth BY <1>2 DEF RunInv, ValidSynthesis
  <1>5. r.phase \in {"po", "ba", "challenge"}
    BY <1>2, <1>3 DEF RunInv, ValidPhase, CompletedAndCleaned, Terminal, RunRecord, Phases
  <1>6. r.candidate = "none" BY <1>5 DEF RunInv, ValidPhase
  <1>7. x \in {"qa", "dev"} => /\ r.phase = "challenge"
                               /\ r.role["po"].report = "complete"
                               /\ r.role["ba"].report = "complete"
    BY <1>2, <1>5 DEF RunInv, ValidPhase, CompletedAndCleaned
  <1>8. ASSUME NEW y \in Roles, y # x, r.role[y].report # "none"
        PROVE  r.role[y].report = "complete"
    <2>1. r.role[y].state \notin Stuck BY <1>8 DEF RunInv
    <2>2. QED BY <1>1, <1>8, <2>1, LiveFacts
  <1>9. QED BY <1>3, <1>4, <1>6, <1>7, <1>8

\* The report is recorded; the last one makes the candidate or blocks the run
\* (recordDeliveryPlanningRoleReport).
LEMMA ReportGood ==
  ASSUME NEW r \in RunRecord, RunInv(r), NEW x \in Roles, CanReport(r, x),
         NEW status \in Reports \ {"none"}, NEW fits \in BOOLEAN
  PROVE  Good(r, ReportRecorded(r, x, status, fits))
  <1> DEFINE a == r.role[x]
             b == [Finished(a, ReportState(status), "finished", status) EXCEPT !.report = status]
             last == /\ status = "complete" /\ x \in {"qa", "dev"}
                     /\ \A y \in {"qa", "dev"} \ {x} : r.role[y].report # "none"
             blocked == last /\ ~fits
             condition == CASE status # "complete" -> Stopped(r, status)
                            [] blocked -> Stopped(r, "needs_input")
                            [] OTHER -> r.condition
             q == ReportRecorded(r, x, status, fits)
  <1>1. /\ a \in RoleRecord /\ Sound(a) /\ a.state = "dispatched"
        /\ status \in {"complete", "needs_input", "failed"}
    BY DEF RunRecord, RunInv, CanReport, Reports
  <1>2. Live(a) /\ a.att = "dispatched" /\ a.clean = "none" /\ a.stop = "none"
        /\ a.lease = "adopted" /\ Recoverable(a) /\ a.state \in InService
    BY <1>1 DEF Sound, Unadopted, Adopted, Live, InService
  <1>3. /\ b \in RoleRecord /\ b.report = status /\ b.state = ReportState(status)
        /\ b.att = "finished" /\ b.outcome = status /\ b.clean = "pending"
        /\ b.stop = "none" /\ b.lease = "adopted" /\ b.found = a.found /\ b.recov = a.recov
    BY <1>1, <1>2 DEF RoleRecord, Finished, ReportState, RoleStates, AttemptStates, Outcomes,
       Reports, CleanStates
  <1>4. Sound(b) /\ Live(b)
    <2> HIDE DEF b
    <2>1. Adopted(b) /\ Live(b) BY <1>1, <1>3 DEF Adopted, Live, ReportState
    <2>2. Recoverable(b) BY <1>2, <1>3 DEF Recoverable
    <2>3. QED BY <2>1, <2>2 DEF Sound
  <1>5. blocked \in BOOLEAN /\ condition \in Conditions
    BY <1>1 DEF Stopped, Conditions, RunRecord
  <1>6. q = [r EXCEPT !.role[x] = b, !.synth = blocked, !.condition = condition]
    BY DEF ReportRecorded
  <1>7. /\ status # "complete" => condition = Stopped(r, status) /\ ~blocked
        /\ blocked => condition = Stopped(r, "needs_input")
        /\ status = "complete" /\ ~blocked => condition = r.condition
    OBVIOUS
  <1>8. blocked => \A y \in Roles : y # x => r.role[y].report = "complete"
    BY <1>1, <1>2, AtWork DEF Roles
  <1>9. blocked => status = "complete" /\ x \in {"qa", "dev"} OBVIOUS
  <1> HIDE DEF b, blocked, condition, q, last
  <1>10. /\ q \in RunRecord /\ q.role[x] = b /\ q.cleanups = r.cleanups
         /\ q.phase = r.phase /\ q.candidate = r.candidate /\ q.outbox = r.outbox
         /\ q.synth = blocked /\ q.condition = condition
         /\ \A y \in Roles \ {x} : q.role[y] = r.role[y]
    <2> DEFINE role == [r.role EXCEPT ![x] = b]
    <2>1. /\ role \in [Roles -> RoleRecord] /\ role[x] = b
          /\ \A y \in Roles \ {x} : role[y] = r.role[y]
      BY <1>3 DEF RunRecord
    <2>2. q = [r EXCEPT !.role = role, !.synth = blocked, !.condition = condition]
      BY <1>6 DEF RunRecord
    <2> HIDE DEF role
    <2>3. QED BY <1>5, <2>1, <2>2 DEF RunRecord
  <1>11. r.cleanups \in Nat BY ReceiptsAssumption DEF RunRecord
  <1>12. Around(r, q, x) BY <1>10, <1>11 DEF Around
  <1>13. Reflects(r, q, x)
    BY <1>1, <1>3, <1>7, <1>9, <1>10 DEF Reflects, ReportState, Stuck
  <1>14. ~r.synth /\ ValidSynthesis(q)
    <2>1. ~r.synth /\ r.candidate = "none" BY <1>2, AtWork
    <2>2. blocked => r.phase = "challenge" BY <1>2, <1>9, AtWork
    <2>3. blocked => condition # "active" BY <1>7 DEF Stopped
    <2>4. blocked => \A y \in Roles : q.role[y].report = "complete"
      BY <1>3, <1>8, <1>9, <1>10
    <2>5. QED BY <1>10, <2>1, <2>2, <2>3, <2>4 DEF ValidSynthesis
  <1>15. b.state \notin InService BY <1>1, <1>3 DEF ReportState, InService
  <1>16. RunInv(q) BY <1>2, <1>4, <1>10, <1>12, <1>13, <1>14, <1>15, LiveChange
  <1>17. Follows(r, q) BY <1>2, <1>3, <1>4, <1>10, <1>11 DEF Follows
  <1>18. Good(r, q) BY <1>10, <1>16, <1>17 DEF Good
  <1>19. QED BY <1>18 DEF q

--------------------------------------------------------------------------------
(* The mutations of the run.                                                      *)

\* What a run whose roles rest, its phase and its outbox owe the invariant.
LEMMA RestGood ==
  ASSUME NEW r \in RunRecord, RunInv(r), NEW q \in RunRecord,
         q.role = r.role, q.synth = r.synth, q.cleanups >= r.cleanups,
         \A x \in Roles : r.role[x].state \in Stuck => q.condition \in Halted,
         Terminal(q) => \A x \in Roles : ~Live(r.role[x]),
         q.condition = "resource_wait" => q.phase \in {"po", "ba", "challenge"},
         q.outbox = "applied" => q.phase = "applied",
         q.outbox # "held" => q.candidate # "none",
         ValidSynthesis(q), ValidPhase(q), ValidCondition(q),
         q.outbox = "applied" => r.outbox = "applied" \/ plan.receipt,
         q.outbox \in {"held", "abandoned"} =>
           r.outbox \in {"held", "abandoned"} \/ ~plan.receipt
  PROVE  Good(r, q)
  <1>1. RunInv(q) BY DEF RunInv
  <1>2. Follows(r, q) BY DEF Follows
  <1>3. QED BY <1>1, <1>2 DEF Good

\* An eligible role is pending in its phase, and no role stands in its way.
LEMMA EligibleFacts ==
  ASSUME NEW r \in RunRecord, RunInv(r), NEW x \in Roles, Eligible(r, x)
  PROVE  /\ r.role[x].state = "pending" /\ ~r.synth /\ ~Terminal(r)
         /\ r.phase \in {"po", "ba", "challenge"}
         /\ x \in (IF r.phase = "po" THEN {"po"} ELSE IF r.phase = "ba" THEN {"ba"}
                                                   ELSE {"qa", "dev"})
         /\ r.condition \in {"active", "resource_wait"}
         /\ \A y \in Roles : r.role[y].state \notin Stuck
  <1>1. r.role[x] \in RoleRecord /\ Sound(r.role[x]) BY DEF RunRecord, RunInv
  <1>2. r.role[x].state = "pending" /\ r.role[x].report = "none"
    BY <1>1, LiveFacts DEF Eligible
  <1>3. ~r.synth BY <1>2 DEF RunInv, ValidSynthesis
  <1>4. r.phase \in {"po", "ba", "challenge"} BY DEF Eligible, PhaseRoles, RunRecord, Phases
  <1>5. r.condition \in {"active", "resource_wait"}
    BY DEF Eligible, RunRecord, Conditions, Halted
  <1>6. \A y \in Roles : r.role[y].state \notin Stuck BY DEF Eligible, RunInv
  <1>7. x \in (IF r.phase = "po" THEN {"po"} ELSE IF r.phase = "ba" THEN {"ba"}
                                                   ELSE {"qa", "dev"})
    BY <1>4 DEF Eligible, PhaseRoles
  <1>8. QED BY <1>2, <1>3, <1>4, <1>5, <1>6, <1>7 DEF Terminal

\* A role is claimed when no worker is live (claimDeliveryPlanningRoleSpawn).
LEMMA ClaimSpawnGood ==
  ASSUME NEW r \in RunRecord, RunInv(r), NEW x \in Roles, CanClaimSpawn(r, x),
         \A y \in Roles : ~Live(r.role[y])
  PROVE  /\ Good(r, ClaimSpawn(r, x))
         /\ ClaimSpawn(r, x).role[x].lease = "claimed"
  <1> DEFINE a == r.role[x]
             b == [a EXCEPT !.state = "spawn_claimed", !.att = "spawn_claimed",
                            !.lease = "claimed"]
             q == ClaimSpawn(r, x)
  <1>1. a \in RoleRecord /\ Sound(a) /\ Eligible(r, x) BY DEF RunRecord, RunInv, CanClaimSpawn
  <1>2. a.state = "pending" BY <1>1 DEF Eligible
  <1>3. /\ b \in RoleRecord /\ b.report = a.report /\ b.lease = "claimed" /\ b.stop = a.stop
        /\ b.state = "spawn_claimed" /\ b.att = "spawn_claimed" /\ b.outcome = a.outcome
        /\ b.clean = a.clean /\ b.found = a.found /\ b.recov = a.recov
    BY <1>1 DEF RoleRecord, RoleStates, AttemptStates, LeaseStates
  <1>4. Unadopted(a) /\ Recoverable(a) /\ a.att = "none" /\ a.lease = "none"
    BY <1>1, <1>2 DEF Sound, Unadopted, Adopted
  <1>5. Sound(b) BY <1>2, <1>3, <1>4 DEF Sound, Unadopted, Recoverable
  <1>6. q = [r EXCEPT !.condition = "active", !.role[x] = b] BY DEF ClaimSpawn
  <1> HIDE DEF b, q
  <1>7. /\ q \in RunRecord /\ q.role[x] = b /\ q.cleanups = r.cleanups
        /\ q.phase = r.phase /\ q.candidate = r.candidate /\ q.outbox = r.outbox
        /\ q.synth = r.synth /\ q.condition = "active"
        /\ \A y \in Roles \ {x} : q.role[y] = r.role[y]
    <2> DEFINE role == [r.role EXCEPT ![x] = b]
    <2>1. /\ role \in [Roles -> RoleRecord] /\ role[x] = b
          /\ \A y \in Roles \ {x} : role[y] = r.role[y]
      BY <1>3 DEF RunRecord
    <2>2. q = [r EXCEPT !.condition = "active", !.role = role]
      BY <1>6 DEF RunRecord
    <2> HIDE DEF role
    <2>3. QED BY <2>1, <2>2 DEF RunRecord, Conditions
  <1>8. /\ ~q.synth /\ ~Terminal(q) /\ \A y \in Roles : r.role[y].state \notin Stuck
        /\ q.phase \in {"po", "ba", "challenge"}
        /\ x \in (IF q.phase = "po" THEN {"po"} ELSE IF q.phase = "ba" THEN {"ba"}
                                                  ELSE {"qa", "dev"})
    BY <1>1, <1>7, EligibleFacts DEF Terminal
  <1>9. ValidPhase(q)
    <2>1. ValidPhase(r) BY DEF RunInv
    <2>2. QED BY <1>7, <1>8, <2>1 DEF ValidPhase, CompletedAndCleaned, Roles
  <1>10. ValidSynthesis(q) /\ ValidCondition(q)
    BY <1>7, <1>8 DEF ValidSynthesis, ValidCondition
  <1>11. \A y \in Roles : q.role[y].state \notin Stuck
    BY <1>3, <1>7, <1>8 DEF Stuck
  <1>12. \A y \in Roles : Sound(q.role[y]) BY <1>5, <1>7 DEF RunInv
  <1>13. \A y, z \in Roles : Live(q.role[y]) /\ Live(q.role[z]) => y = z BY <1>7
  <1>14. RunInv(q)
    BY <1>7, <1>8, <1>9, <1>10, <1>11, <1>12, <1>13 DEF RunInv
  <1>15. r.cleanups \in Nat BY ReceiptsAssumption DEF RunRecord
  <1>16. Follows(r, q) BY <1>3, <1>4, <1>7, <1>15 DEF Follows
  <1>17. QED BY <1>3, <1>7, <1>14, <1>16 DEF Good, q

\* In review the roles have done their work, and the outbox is at work for the plan.
LEMMA ReviewFacts ==
  ASSUME NEW r \in RunRecord, RunInv(r)
  PROVE  /\ r.phase \in {"synthesis", "review", "applied"} =>
              \A x \in Roles : r.role[x].state = "completed" /\ ~Live(r.role[x])
         /\ r.outbox \in {"claimed", "reconcile_required"} =>
              r.phase = "review" /\ r.candidate # "none"
         /\ r.phase \in {"po", "ba", "challenge", "synthesis"} =>
              r.outbox = "held" /\ r.candidate = "none"
  <1>1. \A x \in Roles : r.role[x] \in RoleRecord /\ Sound(r.role[x]) BY DEF RunRecord, RunInv
  <1>2. \A x \in Roles : CompletedAndCleaned(r, x) =>
                           r.role[x].state = "completed" /\ ~Live(r.role[x])
    BY <1>1, LiveFacts DEF CompletedAndCleaned, Sound, Unadopted, Adopted
  <1>3. QED BY <1>2 DEF RunInv, ValidPhase

\* The run waits for resources, and the operator has it retry.
LEMMA RetryGood ==
  ASSUME NEW r \in RunRecord, RunInv(r)
  PROVE  /\ \A x : CanWait(r, x) => Good(r, ResourceWait(r))
         /\ CanAuthorizeRetry(r) => Good(r, AuthorizeRetry(r))
  <1>1. r.cleanups \in Nat /\ r.retries \in Nat BY ReceiptsAssumption DEF RunRecord
  <1>2. ASSUME NEW x, CanWait(r, x)
        PROVE  Good(r, ResourceWait(r))
    <2> DEFINE q == ResourceWait(r)
    <2>1. x \in Roles /\ Eligible(r, x) BY <1>2 DEF CanWait, Eligible, PhaseRoles, Roles
    <2>2. /\ q \in RunRecord /\ q.role = r.role /\ q.cleanups = r.cleanups
          /\ q.phase = r.phase /\ q.candidate = r.candidate /\ q.outbox = r.outbox
          /\ q.synth = r.synth /\ q.condition = "resource_wait"
      BY DEF ResourceWait, RunRecord, Conditions
    <2> HIDE DEF q
    <2>3. ValidPhase(q) BY <2>2 DEF RunInv, ValidPhase, CompletedAndCleaned
    <2>4. ValidSynthesis(q) /\ ValidCondition(q) /\ ~Terminal(q)
      BY <2>1, <2>2, EligibleFacts DEF ValidSynthesis, ValidCondition, Terminal
    <2>5. Good(r, q)
      BY <1>1, <2>1, <2>2, <2>3, <2>4, EligibleFacts, ReviewFacts, RestGood
    <2>6. QED BY <2>5 DEF q
  <1>3. ASSUME CanAuthorizeRetry(r)
        PROVE  Good(r, AuthorizeRetry(r))
    <2> DEFINE q == AuthorizeRetry(r)
               x == NextRole(r)
    <2>1. x \in Roles /\ Eligible(r, x)
      BY <1>3, NextRoleFacts DEF CanAuthorizeRetry, RetryEligible
    <2> HIDE DEF x
    <2>2. /\ q \in RunRecord /\ q.role = r.role /\ q.cleanups = r.cleanups
          /\ q.phase = r.phase /\ q.candidate = r.candidate /\ q.outbox = r.outbox
          /\ q.synth = r.synth /\ q.condition = "active"
      <3>1. r.retries + 1 \in 0..MaxRetries
        BY <1>1, <1>3, ReceiptsAssumption DEF CanAuthorizeRetry, RetryEligible
      <3>2. r.retried \cup {x} \in SUBSET Roles BY <2>1 DEF RunRecord
      <3>3. q = [r EXCEPT !.condition = "active", !.retries = r.retries + 1,
                          !.retried = r.retried \cup {x}]
        BY DEF AuthorizeRetry, x
      <3> HIDE DEF q
      <3>4. QED BY <3>1, <3>2, <3>3 DEF RunRecord, Conditions
    <2> HIDE DEF q
    <2>3. ValidPhase(q) BY <2>2 DEF RunInv, ValidPhase, CompletedAndCleaned
    <2>4. ValidSynthesis(q) /\ ValidCondition(q) /\ ~Terminal(q)
      BY <2>1, <2>2, EligibleFacts DEF ValidSynthesis, ValidCondition, Terminal
    <2>5. Good(r, q)
      BY <1>1, <2>1, <2>2, <2>3, <2>4, EligibleFacts, ReviewFacts, RestGood
    <2>6. QED BY <2>5 DEF q
  <1>4. QED BY <1>2, <1>3

\* The candidate is made, and its application claimed.
LEMMA CandidateGood ==
  ASSUME NEW r \in RunRecord, RunInv(r)
  PROVE  /\ \A ready \in {"ready", "unready"} : CanCompile(r) => Good(r, Compile(r, ready))
         /\ CanClaimApply(r) => Good(r, ClaimApply(r))
         /\ CanReconcileApply(r) => Good(r, ReconcileApply(r))
  <1>1. r.cleanups \in Nat BY ReceiptsAssumption DEF RunRecord
  <1>2. ASSUME NEW ready \in {"ready", "unready"}, CanCompile(r)
        PROVE  Good(r, Compile(r, ready))
    <2> DEFINE q == Compile(r, ready)
    <2>1. /\ q \in RunRecord /\ q.role = r.role /\ q.cleanups = r.cleanups
          /\ q.phase = "review" /\ q.candidate = ready /\ q.outbox = r.outbox
          /\ q.synth = r.synth /\ q.condition = "active" /\ r.condition = "active"
          /\ r.phase = "synthesis"
      BY <1>2 DEF CanCompile, Compile, RunRecord, Phases
    <2> HIDE DEF q
    <2>2. ~r.synth BY <2>1 DEF RunInv, ValidSynthesis
    <2>3. ValidPhase(q) BY <2>1, ReviewFacts DEF RunInv, ValidPhase, CompletedAndCleaned
    <2>4. ValidSynthesis(q) /\ ValidCondition(q) /\ ~Terminal(q)
      BY <2>1, <2>2 DEF ValidSynthesis, ValidCondition, Terminal
    <2>5. \A x \in Roles : r.role[x].state \notin Stuck BY <2>1, ReviewFacts DEF Stuck
    <2>6. Good(r, q) BY <1>1, <2>1, <2>3, <2>4, <2>5, ReviewFacts, RestGood
    <2>7. QED BY <2>6 DEF q
  <1>3. ASSUME CanClaimApply(r)
        PROVE  Good(r, ClaimApply(r))
    <2> DEFINE q == ClaimApply(r)
    <2>1. /\ q \in RunRecord /\ q.role = r.role /\ q.cleanups = r.cleanups
          /\ q.phase = "review" /\ q.candidate = "ready" /\ q.outbox = "claimed"
          /\ q.synth = r.synth /\ q.condition = "active" /\ r.condition = "active"
          /\ r.phase = "review" /\ r.candidate = "ready"
      BY <1>3 DEF CanClaimApply, ClaimApply, RunRecord, OutboxStates
    <2> HIDE DEF q
    <2>2. ~r.synth BY <2>1 DEF RunInv, ValidSynthesis
    <2>3. ValidPhase(q) BY <2>1 DEF RunInv, ValidPhase, CompletedAndCleaned
    <2>4. ValidSynthesis(q) /\ ValidCondition(q) /\ ~Terminal(q)
      BY <2>1, <2>2 DEF ValidSynthesis, ValidCondition, Terminal
    <2>5. \A x \in Roles : r.role[x].state \notin Stuck BY <2>1, ReviewFacts DEF Stuck
    <2>6. Good(r, q) BY <1>1, <2>1, <2>3, <2>4, <2>5, RestGood
    <2>7. QED BY <2>6 DEF q
  <1>4. ASSUME CanReconcileApply(r)
        PROVE  Good(r, ReconcileApply(r))
    <2> DEFINE q == ReconcileApply(r)
    <2>1. /\ q \in RunRecord /\ q.role = r.role /\ q.cleanups = r.cleanups
          /\ q.phase = r.phase /\ q.candidate = r.candidate /\ q.outbox = "reconcile_required"
          /\ q.synth = r.synth /\ q.condition = "reconcile_required" /\ r.condition = "active"
          /\ r.outbox = "claimed"
      BY <1>4 DEF CanReconcileApply, ReconcileApply, RunRecord, OutboxStates, Conditions
    <2> HIDE DEF q
    <2>2. ~r.synth /\ r.phase = "review" /\ r.candidate # "none"
      BY <2>1, ReviewFacts DEF RunInv, ValidSynthesis
    <2>3. ValidPhase(q) BY <2>1, <2>2 DEF RunInv, ValidPhase, CompletedAndCleaned
    <2>4. ValidSynthesis(q) /\ ValidCondition(q) /\ ~Terminal(q)
      BY <2>1, <2>2 DEF ValidSynthesis, ValidCondition, Terminal
    <2>5. Good(r, q) BY <1>1, <2>1, <2>2, <2>3, <2>4, RestGood DEF Halted
    <2>6. QED BY <2>5 DEF q
  <1>5. QED BY <1>2, <1>3, <1>4

\* The application ends as the plan says.
LEMMA ApplyGood ==
  ASSUME NEW r \in RunRecord, RunInv(r)
  PROVE  /\ CanMarkApplied(r) /\ plan.receipt => Good(r, MarkApplied(r))
         /\ CanAbandonApply(r) /\ ~plan.receipt => Good(r, AbandonApply(r))
  <1>1. r.cleanups \in Nat BY ReceiptsAssumption DEF RunRecord
  <1>2. ASSUME CanMarkApplied(r), plan.receipt
        PROVE  Good(r, MarkApplied(r))
    <2> DEFINE q == MarkApplied(r)
    <2>1. /\ q \in RunRecord /\ q.role = r.role /\ q.cleanups = r.cleanups
          /\ q.phase = "applied" /\ q.candidate = r.candidate /\ q.outbox = "applied"
          /\ q.synth = r.synth /\ q.condition = "active"
          /\ r.outbox \in {"claimed", "reconcile_required"}
      BY <1>2 DEF CanMarkApplied, MarkApplied, RunRecord, OutboxStates, Phases, Conditions
    <2> HIDE DEF q
    <2>2. r.phase = "review" /\ r.candidate # "none" BY <2>1, ReviewFacts
    <2>3. ~r.synth BY <2>2 DEF RunInv, ValidSynthesis
    <2>4. ValidPhase(q) BY <2>1, <2>2 DEF RunInv, ValidPhase, CompletedAndCleaned
    <2>5. ValidSynthesis(q) /\ ValidCondition(q)
      BY <2>1, <2>3 DEF ValidSynthesis, ValidCondition
    <2>6. \A x \in Roles : r.role[x].state \notin Stuck /\ ~Live(r.role[x])
      BY <2>2, ReviewFacts DEF Stuck
    <2>7. Good(r, q) BY <1>1, <1>2, <2>1, <2>2, <2>4, <2>5, <2>6, RestGood
    <2>8. QED BY <2>7 DEF q
  <1>3. ASSUME CanAbandonApply(r), ~plan.receipt
        PROVE  Good(r, AbandonApply(r))
    <2> DEFINE q == AbandonApply(r)
    <2>1. /\ q \in RunRecord /\ q.role = r.role /\ q.cleanups = r.cleanups
          /\ q.phase = "review" /\ q.candidate = r.candidate /\ q.outbox = "abandoned"
          /\ q.synth = r.synth /\ q.condition = "off_course"
          /\ r.outbox \in {"claimed", "reconcile_required"} /\ r.phase = "review"
          /\ r.condition = "off_course"
      BY <1>3 DEF CanAbandonApply, AbandonApply, RunRecord, OutboxStates
    <2> HIDE DEF q
    <2>2. r.candidate # "none" BY <2>1, ReviewFacts
    <2>3. ValidPhase(q) BY <2>1, <2>2 DEF RunInv, ValidPhase, CompletedAndCleaned
    <2>4. ValidSynthesis(q) /\ ValidCondition(q) /\ ~Terminal(q)
      BY <2>1 DEF RunInv, ValidSynthesis, ValidCondition, Terminal
    <2>5. Good(r, q) BY <1>1, <1>3, <2>1, <2>2, <2>3, <2>4, RestGood DEF Halted
    <2>6. QED BY <2>5 DEF q
  <1>4. QED BY <1>2, <1>3

\* The run is off its course, or canceled.
LEMMA EndsGood ==
  ASSUME NEW r \in RunRecord, RunInv(r)
  PROVE  /\ CanMarkOffCourse(r) =>
              Good(r, MarkOffCourse(r)) /\ MarkOffCourse(r).condition = "off_course"
         /\ CanCancel(r) => Good(r, Cancel(r))
  <1>1. r.cleanups \in Nat BY ReceiptsAssumption DEF RunRecord
  <1>2. ASSUME CanMarkOffCourse(r)
        PROVE  Good(r, MarkOffCourse(r)) /\ MarkOffCourse(r).condition = "off_course"
    <2> DEFINE q == MarkOffCourse(r)
    <2>1. /\ q \in RunRecord /\ q.role = r.role /\ q.cleanups = r.cleanups
          /\ q.phase = r.phase /\ q.candidate = r.candidate /\ q.outbox = r.outbox
          /\ q.synth = r.synth /\ q.condition = "off_course"
      BY DEF MarkOffCourse, RunRecord, Conditions
    <2> HIDE DEF q
    <2>2. ~Terminal(r) /\ ~Terminal(q) BY <1>2, <2>1 DEF CanMarkOffCourse, Terminal
    <2>3. ValidPhase(q) BY <2>1 DEF RunInv, ValidPhase, CompletedAndCleaned
    <2>4. ValidSynthesis(q) /\ ValidCondition(q)
      BY <2>1, <2>2 DEF RunInv, ValidSynthesis, ValidCondition, Terminal
    <2>5. /\ q.outbox = "applied" => q.phase = "applied"
          /\ q.outbox # "held" => q.candidate # "none"
      BY <2>1 DEF RunInv
    <2>6. Good(r, q) BY <1>1, <2>1, <2>2, <2>3, <2>4, <2>5, RestGood DEF Halted
    <2>7. QED BY <2>1, <2>6 DEF q
  <1>3. ASSUME CanCancel(r)
        PROVE  Good(r, Cancel(r))
    <2> DEFINE q == Cancel(r)
    <2>1. /\ q \in RunRecord /\ q.role = r.role /\ q.cleanups = r.cleanups
          /\ q.phase = "closed" /\ q.candidate = r.candidate /\ q.outbox = r.outbox
          /\ q.synth = r.synth /\ q.condition = "canceled"
      BY DEF Cancel, RunRecord, Conditions, Phases
    <2> HIDE DEF q
    <2>2. /\ ~Terminal(r) /\ r.outbox \in {"held", "abandoned"}
          /\ \A x \in Roles : ~Live(r.role[x])
      BY <1>3 DEF CanCancel, Unresolved, Terminal, RunInv, RunRecord, OutboxStates
    <2>3. ValidPhase(q) BY <2>1, <2>2 DEF ValidPhase, CompletedAndCleaned
    <2>4. ValidSynthesis(q) /\ ValidCondition(q)
      BY <2>1, <2>2 DEF RunInv, ValidSynthesis, ValidCondition
    <2>5. q.outbox # "held" => q.candidate # "none" BY <2>1 DEF RunInv
    <2>6. Good(r, q) BY <1>1, <2>1, <2>2, <2>3, <2>4, <2>5, RestGood DEF Halted
    <2>7. QED BY <2>6 DEF q
  <1>4. QED BY <1>2, <1>3

--------------------------------------------------------------------------------
(* Steps. What an operation leaves of the invariant but its place.                *)

Ops == [at : Places, role : Roles, then : {"advance", "end", "startup"}]
Auths == [kind : Kinds, role : Roles]

\* Places at which the operation needs to know nothing of the record.
Rests == {"down", "idle", "supervise", "advance", "applyFailed"}

\* Where an operation goes.
LEMMA PlaceFacts ==
  /\ \A place \in Places, x \in Roles, then \in {"advance", "end", "startup"} :
       /\ At(place, x, then) \in Ops
       /\ At(place, x, then).at = place /\ At(place, x, then).role = x
       /\ At(place, x, then).then = then
  /\ Idle \in Ops /\ Idle.at = "idle" /\ Down \in Ops /\ Down.at = "down"
  /\ Rests \subseteq Places /\ "po" \in Roles
  /\ NoAuth \in Auths /\ NoAuth.kind = "none"
  /\ op \in Ops =>
       /\ After \in Ops /\ After.at \in {"advance", "idle"}
       /\ Thrown \in Ops /\ Thrown.at \in {"down", "idle"}
       /\ \A place \in Places : /\ To(place) \in Ops /\ To(place).at = place
                                /\ To(place).role = op.role
  BY DEF At, Idle, Down, Rests, Places, NoAuth, Auths, Kinds, Roles, Ops, After, Thrown, To

\* All but the place.
Rest == TypeOK /\ NeverRefused /\ RunInv(run) /\ Ledger /\ PlanInv

\* The faults are counted within the upsets.
Counted ==
  /\ upsets' \in 0..MaxUpsets /\ faults' \in 0..upsets' /\ faults' >= faults

\* The inputs and the plan as the record and the authority change.
LEMMA RecordKeeps ==
  ASSUME Inv, Good(run, run'), Counted,
         UNCHANGED <<plan, typed, exits, stops, writes>>,
         \A x \in Roles : worker'[x].life \in {"live", "dead"} =>
                            worker[x].life \in {"live", "dead"} \/ Live(run'.role[x]),
         \A x \in Roles :
           run.role[x].clean = "claimed" /\ run'.role[x].clean = "claimed"
             /\ Allows(x)' /\ ~Exiting(x)' =>
             \/ Allows(x) /\ ~Exiting(x)
             \/ faults' > faults
             \/ run'.cleanups > run.cleanups
  PROVE  Ledger' /\ PlanInv'
  <1>1. /\ \A x \in Roles : typed[x] \in Nat /\ exits[x] \in Nat /\ stops[x] \in Nat
        /\ run.cleanups \in Nat /\ run'.cleanups \in Nat /\ faults \in Nat /\ faults' \in Nat
        /\ faults' >= faults /\ run'.cleanups >= run.cleanups
    BY ReceiptsAssumption, BoundsAssumption DEF Inv, TypeOK, Good, RunRecord, Counted, Follows
  <1>2. Ledger'
    <2> SUFFICES ASSUME NEW x \in Roles
                 PROVE  LET b == run'.role[x]
                        IN /\ typed[x] <= 1 /\ (b.att \in {"none", "spawn_claimed"} => typed[x] = 0)
                           /\ stops[x] <= 1 /\ (b.stop = "none" => stops[x] = 0)
                           /\ exits[x] <= 1 + run'.cleanups + faults'
                           /\ b.clean \in {"none", "pending"} => exits[x] = 0
                           /\ b.clean = "claimed" /\ Allows(x)' /\ ~Exiting(x)' =>
                                exits[x] <= run'.cleanups + faults'
                           /\ worker'[x].life \in {"live", "dead"} => Live(b)
      BY DEF Ledger
    <2> DEFINE a == run.role[x]
               b == run'.role[x]
    <2>1. typed[x] <= 1 /\ (b.att \in {"none", "spawn_claimed"} => typed[x] = 0)
      BY DEF Inv, Ledger, Good, Follows
    <2>2. stops[x] <= 1 /\ (b.stop = "none" => stops[x] = 0)
      BY DEF Inv, Ledger, Good, Follows
    <2>3. exits[x] <= 1 + run.cleanups + faults
      BY DEF Inv, Ledger
    <2>4. b.clean \in {"none", "pending"} => exits[x] = 0
      BY DEF Inv, Ledger, Good, Follows
    <2>5. ASSUME b.clean = "claimed", Allows(x)', ~Exiting(x)'
          PROVE  exits[x] <= run'.cleanups + faults'
      <3>1. CASE a.clean = "pending"
        <4>1. exits[x] = 0 BY <3>1 DEF Inv, Ledger
        <4>2. QED BY <1>1, <4>1
      <3>2. CASE a.clean = "claimed" /\ Allows(x) /\ ~Exiting(x)
        <4>1. exits[x] <= run.cleanups + faults BY <3>2 DEF Inv, Ledger
        <4>2. QED BY <1>1, <4>1
      <3>3. CASE faults' > faults \/ run'.cleanups > run.cleanups
        BY <1>1, <2>3, <3>3
      <3>4. a.clean \in {"pending", "claimed"} \/ run'.cleanups > run.cleanups
        BY <2>5 DEF Good, Follows
      <3>5. QED BY <2>5, <3>1, <3>2, <3>3, <3>4
    <2>6. worker'[x].life \in {"live", "dead"} => Live(b)
      BY DEF Inv, Ledger, Good, Follows
    <2>7. QED BY <1>1, <2>1, <2>2, <2>3, <2>4, <2>5, <2>6
  <1>3. PlanInv' BY DEF Inv, PlanInv, Good, Follows
  <1>4. QED BY <1>2, <1>3

\* Which write was made, if the domain accepts it.
Wrote(next, done, failed, authority) ==
  \/ run' = next /\ op' = done /\ auth' = authority /\ faults' = faults
  \/ run' \in {run, next} /\ op' = failed /\ auth' = auth /\ faults' = faults + 1

\* A good write of the supervisor is not refused.
LEMMA WriteStep ==
  ASSUME Inv, NEW can, NEW next, NEW done \in Ops, NEW failed \in Ops, NEW authority \in Auths,
         Mutates(can, next, done, failed, authority), can, Good(run, next),
         UNCHANGED <<begun, plan, onCourse, worker, typed, exits, stops, writes>>,
         seen' \in SUBSET Roles, late' \in BOOLEAN,
         op.at \in {"exited", "notExited"} => next.role[op.role].clean # "claimed",
         \A x \in Roles : authority.kind = "start"
                            \/ (authority.kind # "none" /\ authority.role = x) =>
            Allows(x) \/ next.role[x].clean # "claimed" \/ next.cleanups > run.cleanups
  PROVE  Rest' /\ Wrote(next, done, failed, authority)
  <1>1. next \in RunRecord /\ RunInv(next) /\ Valid(next) BY RunValid DEF Good
  <1>2. refused' = refused /\ Wrote(next, done, failed, authority)
    BY <1>1 DEF Mutates, Wrote, Fault
  <1>3. faults \in Nat /\ upsets \in Nat /\ run \in RunRecord
    BY BoundsAssumption DEF Inv, TypeOK
  <1>4. Counted
    BY <1>1, <1>3, BoundsAssumption DEF Mutates, Fault, Upset, Counted, Inv, TypeOK
  <1>5. run' \in {run, next} BY <1>2 DEF Wrote
  <1>6. Good(run, run') BY <1>3, <1>5, SameGood DEF Inv
  <1>7. TypeOK'
    <2>1. op' \in Ops /\ auth' \in Auths BY <1>2 DEF Wrote, Inv, TypeOK, Auths
    <2>2. run' \in RunRecord BY <1>6 DEF Good
    <2>3. refused' \in BOOLEAN BY <1>2 DEF Inv, TypeOK
    <2>4. QED BY <2>1, <2>2, <2>3, <1>4 DEF Inv, TypeOK, Ops, Auths, Counted
  <1>8. ASSUME NEW x \in Roles, run'.role[x].clean = "claimed", Allows(x)', ~Exiting(x)'
        PROVE  \/ Allows(x) /\ ~Exiting(x)
               \/ faults' > faults
               \/ run'.cleanups > run.cleanups
    <2>1. CASE faults' = faults + 1 BY <1>3, <2>1
    <2>2. CASE run' = next /\ auth' = authority
      <3>1. authority.kind = "start" \/ (authority.kind # "none" /\ authority.role = x)
        BY <1>8, <2>2 DEF Allows
      <3>2. ~Exiting(x) BY <1>8, <2>2 DEF Exiting
      <3>3. QED BY <1>8, <2>2, <3>1, <3>2
    <2>3. QED BY <1>2, <2>1, <2>2 DEF Wrote
  <1>9. Ledger' /\ PlanInv' BY <1>4, <1>6, <1>8, RecordKeeps
  <1>10. QED BY <1>2, <1>6, <1>7, <1>9 DEF Rest, Good, Inv, NeverRefused

\* An operation that goes on without a write, or a step of the environment.
LEMMA StillStep ==
  ASSUME Inv, Counted, run' = run, refused' = refused,
         UNCHANGED <<typed, exits, stops, writes>>, plan'.receipt = plan.receipt,
         begun' \in BOOLEAN, onCourse' \in BOOLEAN, op' \in Ops, auth' \in Auths,
         plan' \in [holds : {"source", "candidate", "edited"}, receipt : BOOLEAN],
         worker' \in [Roles -> [life : {"none", "live", "dead", "gone"},
                                turn : {"fresh", "working", "reported"}]],
         seen' \in SUBSET Roles, late' \in BOOLEAN,
         \A x \in Roles : worker'[x].life \in {"live", "dead"} =>
                            worker[x].life \in {"live", "dead"} \/ Live(run.role[x]),
         \A x \in Roles : Allows(x)' /\ ~Exiting(x)' /\ run.role[x].clean = "claimed" =>
                            (Allows(x) /\ ~Exiting(x)) \/ faults' > faults
  PROVE  Rest'
  <1>1. TypeOK' BY DEF Inv, TypeOK, Ops, Auths, Counted
  <1>2. faults \in Nat /\ faults' \in Nat /\ faults' >= faults /\ run.cleanups \in Nat
    BY BoundsAssumption, ReceiptsAssumption DEF Inv, TypeOK, Counted, RunRecord
  <1>3. Ledger'
    <2> SUFFICES ASSUME NEW x \in Roles
                 PROVE  LET a == run.role[x]
                        IN /\ typed[x] <= 1 /\ (a.att \in {"none", "spawn_claimed"} => typed[x] = 0)
                           /\ stops[x] <= 1 /\ (a.stop = "none" => stops[x] = 0)
                           /\ exits[x] <= 1 + run.cleanups + faults'
                           /\ a.clean \in {"none", "pending"} => exits[x] = 0
                           /\ a.clean = "claimed" /\ Allows(x)' /\ ~Exiting(x)' =>
                                exits[x] <= run.cleanups + faults'
                           /\ worker'[x].life \in {"live", "dead"} => Live(a)
      BY DEF Ledger
    <2>1. exits[x] \in Nat BY DEF Inv, TypeOK
    <2>2. exits[x] <= 1 + run.cleanups + faults BY DEF Inv, Ledger
    <2>3. exits[x] <= 1 + run.cleanups + faults' BY <1>2, <2>1, <2>2
    <2>4. ASSUME run.role[x].clean = "claimed", Allows(x)', ~Exiting(x)'
          PROVE  exits[x] <= run.cleanups + faults'
      <3>1. CASE Allows(x) /\ ~Exiting(x)
        <4>1. exits[x] <= run.cleanups + faults BY <2>4, <3>1 DEF Inv, Ledger
        <4>2. QED BY <1>2, <2>1, <4>1
      <3>2. CASE faults' > faults BY <1>2, <2>1, <2>2, <3>2
      <3>3. QED BY <2>4, <3>1, <3>2
    <2>5. worker'[x].life \in {"live", "dead"} => Live(run.role[x]) BY DEF Inv, Ledger
    <2>6. /\ typed[x] <= 1 /\ stops[x] <= 1
          /\ run.role[x].att \in {"none", "spawn_claimed"} => typed[x] = 0
          /\ run.role[x].stop = "none" => stops[x] = 0
          /\ run.role[x].clean \in {"none", "pending"} => exits[x] = 0
      BY DEF Inv, Ledger
    <2>7. QED BY <2>3, <2>4, <2>5, <2>6
  <1>4. PlanInv' BY DEF Inv, PlanInv
  <1>5. QED BY <1>1, <1>3, <1>4 DEF Rest, Inv, NeverRefused

\* At rest the operation owes nothing.
LEMMA RestPlace ==
  ASSUME begun', op'.at \in Rests
  PROVE  PlaceInv'
  BY DEF PlaceInv, Rests

\* The invariant is the rest of it and the place.
LEMMA WholeInv ==
  ASSUME Rest', PlaceInv'
  PROVE  Inv'
  BY DEF Rest, Inv

\* A write that ends where nothing is owed.
LEMMA RestWrite ==
  ASSUME Inv, begun, NEW can, NEW next, NEW done \in Ops, NEW failed \in Ops,
         NEW authority \in Auths,
         Mutates(can, next, done, failed, authority), can, Good(run, next),
         done.at \in Rests, failed.at \in Rests,
         UNCHANGED <<begun, plan, onCourse, worker, typed, exits, stops, writes>>,
         seen' \in SUBSET Roles, late' \in BOOLEAN,
         op.at \in {"exited", "notExited"} => next.role[op.role].clean # "claimed",
         \A x \in Roles : authority.kind = "start"
                            \/ (authority.kind # "none" /\ authority.role = x) =>
            Allows(x) \/ next.role[x].clean # "claimed" \/ next.cleanups > run.cleanups
  PROVE  Inv'
  <1>1. Rest' /\ Wrote(next, done, failed, authority) BY WriteStep
  <1>2. begun' /\ op'.at \in Rests BY <1>1 DEF Wrote
  <1>3. QED BY <1>1, <1>2, RestPlace, WholeInv

\* A write that neither changes the authority nor has a way out of its own.
LEMMA PlainWrite ==
  ASSUME Inv, begun, NEW can, NEW next, NEW done \in Ops, done.at \in Rests,
         Writes(can, next, done), can, Good(run, next),
         UNCHANGED <<still, worker>>, seen' \in SUBSET Roles, late' \in BOOLEAN,
         op.at \in {"exited", "notExited"} => next.role[op.role].clean # "claimed"
  PROVE  Inv'
  <1>1. op \in Ops /\ auth \in Auths BY DEF Inv, TypeOK, Ops, Auths
  <1>2. Thrown \in Ops /\ Thrown.at \in Rests BY <1>1, PlaceFacts DEF Rests
  <1>3. Mutates(can, next, done, Thrown, auth) BY DEF Writes
  <1>4. \A x \in Roles : auth.kind = "start" \/ (auth.kind # "none" /\ auth.role = x) => Allows(x)
    BY <1>1 DEF Allows, Auths, Kinds
  <1>5. UNCHANGED <<begun, plan, onCourse, worker, typed, exits, stops, writes>> BY DEF still
  <1>6. QED BY <1>1, <1>2, <1>3, <1>4, <1>5, RestWrite

\* A step that leaves the record and what the workers were sent, with no more authority.
LEMMA GoStep ==
  ASSUME Inv, op.at \notin {"exited", "notExited"}, NEW next \in Ops, op' = next,
         auth' \in {auth, NoAuth}, UNCHANGED <<run, faults, upsets, refused>>,
         UNCHANGED <<still, worker>>, seen' \in SUBSET Roles, late' \in BOOLEAN
  PROVE  /\ Rest' /\ begun' = begun
         /\ begun /\ next.at \in Rests => Inv'
  <1>1. \A x \in Roles : Allows(x)' => Allows(x) BY DEF Allows, NoAuth
  <1>2. auth' \in Auths BY PlaceFacts DEF Inv, TypeOK, Auths
  <1>3. Counted BY BoundsAssumption DEF Counted, Inv, TypeOK
  <1>4. \A x \in Roles : ~Exiting(x) BY DEF Exiting
  <1>5. /\ begun' = begun /\ plan' = plan /\ onCourse' = onCourse
        /\ typed' = typed /\ exits' = exits /\ stops' = stops /\ writes' = writes
    BY DEF still
  <1>6. Rest'
    <2>1. /\ begun' \in BOOLEAN /\ onCourse' \in BOOLEAN
          /\ plan' \in [holds : {"source", "candidate", "edited"}, receipt : BOOLEAN]
          /\ worker' \in [Roles -> [life : {"none", "live", "dead", "gone"},
                                    turn : {"fresh", "working", "reported"}]]
      BY <1>5 DEF Inv, TypeOK
    <2>2. QED BY <1>1, <1>2, <1>3, <1>4, <1>5, <2>1, StillStep
  <1>7. QED BY <1>5, <1>6, RestPlace, WholeInv

\* The operation that is under way was begun.
LEMMA Begun ==
  ASSUME Inv, op.at \notin {"idle", "down"}
  PROVE  begun
  BY DEF Inv, PlaceInv

\* What a sight of a worker tells.
LEMMA SightFacts ==
  ASSUME Inv, NEW x \in Roles, NEW sight \in Sights(x)
  PROVE  /\ sight = "absent" => worker[x].life \in {"none", "gone"}
         /\ sight \in {"idle", "busy"} => worker[x].life = "live"
         /\ sight = "dead" => worker[x].life = "dead"
  <1>1. worker[x].life \in {"none", "live", "dead", "gone"} BY DEF Inv, TypeOK
  <1>2. QED BY <1>1 DEF Sights, PaneSeen

\* The record of a role, as the operation finds it.
LEMMA RoleFacts ==
  ASSUME Inv, NEW x \in Roles
  PROVE  /\ run \in RunRecord /\ RunInv(run)
         /\ run.role[x] \in RoleRecord /\ Sound(run.role[x])
  BY DEF Inv, TypeOK, RunInv, RunRecord

--------------------------------------------------------------------------------
(* The supervision.                                                               *)

\* The apply that is under way is looked at first.
LEMMA SuperviseApplyKeeps == ASSUME Inv, SuperviseApply PROVE Inv'
  <1> DEFINE next == At("apply", "po", op.then)
  <1>1. op.then \in {"advance", "end", "startup"} /\ op.at = "supervise"
    BY DEF Inv, TypeOK, SuperviseApply, Supervising
  <1>2. next \in Ops /\ next.at = "apply" BY <1>1, PlaceFacts DEF Places
  <1>3. /\ op' = next /\ auth' = auth /\ UNCHANGED <<run, faults, upsets, refused>>
        /\ UNCHANGED <<still, worker>> /\ seen' \in SUBSET Roles /\ late' \in BOOLEAN
    BY DEF SuperviseApply, Goes, Inv, TypeOK
  <1> HIDE DEF next
  <1>4. Rest' /\ begun' = begun BY <1>1, <1>2, <1>3, GoStep
  <1>5. PlaceInv'
    BY <1>1, <1>2, <1>3, <1>4, Begun DEF PlaceInv, SuperviseApply, Reconciling
  <1>6. QED BY <1>4, <1>5, WholeInv

\* A lease is closed, or is to be reconciled.
LEMMA SuperviseLeaseKeeps ==
  ASSUME Inv, NEW x \in Roles, SuperviseLease(x)
  PROVE  Inv'
  <1> DEFINE a == run.role[x]
  <1>1. op.at = "supervise" /\ begun BY Begun DEF SuperviseLease, Watching, Supervising
  <1>2. /\ run \in RunRecord /\ RunInv(run) /\ a \in RoleRecord /\ Sound(a)
        /\ op \in Ops
    BY RoleFacts DEF Inv, TypeOK, Ops
  <1>3. After \in Ops /\ After.at \in Rests BY <1>2, PlaceFacts DEF Rests
  <1>4. UNCHANGED <<still, worker>> /\ seen' \in SUBSET Roles /\ late' \in BOOLEAN
    BY DEF SuperviseLease, Inv, TypeOK
  <1>5. /\ a.lease \in {"claimed", "bound", "reconcile_required"} /\ Unadopted(a)
        /\ a.lease # "reconcile_required" => a.state = "spawn_claimed" /\ a.stop = "none"
    BY <1>2, Stops DEF SuperviseLease, LeaseOpen, Unadopted
  <1>6. PICK sight \in Sights(x) :
          CASE sight = "absent" /\ a.stop \in {"claimed", "sent"} ->
                 Writes(CanStopComplete(run, x), StopComplete(run, x), After)
            [] sight = "absent" /\ a.stop = "none" ->
                 Writes(CanCloseAbsent(run, x), CloseAbsent(run, x), After)
            [] sight # "absent" /\ a.lease # "reconcile_required" /\ late ->
                 Writes(CanReconcileLease(run, x, late), ReconcileLease(run, x), After)
            [] OTHER -> Goes(After)
    BY DEF SuperviseLease
  <1>7. sight = "absent" => worker[x].life \in {"none", "gone"} BY SightFacts
  <1>8. CASE sight = "absent" /\ a.stop \in {"claimed", "sent"}
    <2>1. CanStopComplete(run, x) BY <1>5, <1>8 DEF CanStopComplete
    <2>2. Good(run, StopComplete(run, x))
      BY <1>2, <1>5, <1>7, <1>8, ClosedGood DEF StopComplete
    <2>3. Writes(CanStopComplete(run, x), StopComplete(run, x), After) BY <1>6, <1>8
    <2>4. QED BY <1>1, <1>3, <1>4, <2>1, <2>2, <2>3, PlainWrite
  <1>9. CASE sight = "absent" /\ a.stop = "none"
    <2>1. CanCloseAbsent(run, x) BY <1>5, <1>9 DEF CanCloseAbsent
    <2>2. Good(run, CloseAbsent(run, x))
      BY <1>2, <1>5, <1>7, <1>9, ClosedGood DEF CloseAbsent
    <2>3. Writes(CanCloseAbsent(run, x), CloseAbsent(run, x), After) BY <1>6, <1>9
    <2>4. QED BY <1>1, <1>3, <1>4, <2>1, <2>2, <2>3, PlainWrite
  <1>10. CASE sight # "absent" /\ a.lease # "reconcile_required" /\ late
    <2>1. CanReconcileLease(run, x, late) /\ CanReconcileLease(run, x, TRUE)
      BY <1>5, <1>10 DEF CanReconcileLease
    <2>2. Good(run, ReconcileLease(run, x)) BY <1>2, <2>1, ReconcileLeaseGood
    <2>3. Writes(CanReconcileLease(run, x, late), ReconcileLease(run, x), After) BY <1>6, <1>10
    <2>4. QED BY <1>1, <1>3, <1>4, <2>1, <2>2, <2>3, PlainWrite
  <1>11. CASE /\ ~(sight = "absent" /\ a.stop \in {"claimed", "sent"})
              /\ ~(sight = "absent" /\ a.stop = "none")
              /\ ~(sight # "absent" /\ a.lease # "reconcile_required" /\ late)
    <2>1. Goes(After) BY <1>6, <1>11
    <2>2. QED BY <1>1, <1>3, <1>4, <2>1, GoStep DEF Goes
  <1>12. QED BY <1>8, <1>9, <1>10, <1>11

\* A dispatch without a result is uncertain.
LEMMA SuperviseDispatchKeeps ==
  ASSUME Inv, NEW x \in Roles, SuperviseDispatch(x)
  PROVE  Inv'
  <1>1. op.at = "supervise" /\ begun BY Begun DEF SuperviseDispatch, Watching, Supervising
  <1>2. run \in RunRecord /\ RunInv(run) /\ op \in Ops BY RoleFacts DEF Inv, TypeOK, Ops
  <1>3. After \in Ops /\ After.at \in Rests BY <1>2, PlaceFacts DEF Rests
  <1>4. UNCHANGED <<still, worker>> /\ seen' \in SUBSET Roles /\ late' \in BOOLEAN
    BY DEF SuperviseDispatch, Inv, TypeOK
  <1>5. CanFinish(run, x) BY DEF SuperviseDispatch, CanFinish, InService
  <1>6. Good(run, Uncertain(run, x)) BY <1>2, UncertainGood DEF SuperviseDispatch
  <1>7. Writes(CanFinish(run, x), Uncertain(run, x), After) BY DEF SuperviseDispatch
  <1>8. QED BY <1>1, <1>3, <1>4, <1>5, <1>6, <1>7, PlainWrite

\* The worker that was sent its prompt: uncertain, dead, at work, or with a report.
LEMMA SuperviseWorkerKeeps ==
  ASSUME Inv, NEW x \in Roles, SuperviseWorker(x)
  PROVE  Inv'
  <1> DEFINE turned == At("rejected", x, op.then)
  <1>1. op.at = "supervise" /\ begun BY Begun DEF SuperviseWorker, Watching, Supervising
  <1>2. /\ run \in RunRecord /\ RunInv(run) /\ op \in Ops /\ auth \in Auths
        /\ seen \in SUBSET Roles /\ seen \cup {x} \in SUBSET Roles /\ seen \ {x} \in SUBSET Roles
    BY RoleFacts DEF Inv, TypeOK, Ops, Auths
  <1>3. /\ After \in Ops /\ After.at \in Rests
        /\ turned \in Ops /\ turned.at = "rejected" /\ turned.role = x
    BY <1>2, PlaceFacts DEF Rests, Places, Ops
  <1>4. UNCHANGED <<still, worker>> /\ late' \in BOOLEAN
    BY DEF SuperviseWorker, Inv, TypeOK
  <1>5. run.role[x].att = "dispatched" /\ CanFinish(run, x)
    BY DEF SuperviseWorker, CanFinish, InService
  <1>6. CanReport(run, x) BY <1>2, <1>5, RoleFacts, LiveFacts DEF CanReport, InService
  <1>7. /\ Good(run, Uncertain(run, x)) /\ Good(run, Crashed(run, x))
        /\ Good(run, NeedsInput(run, x))
    BY <1>2, <1>5, UncertainGood, CrashedGood, NeedsInputGood
  <1> HIDE DEF turned
  <1>8. \/ Writes(CanFinish(run, x), Uncertain(run, x), After) /\ seen' \in SUBSET Roles
        \/ Writes(CanFinish(run, x), Crashed(run, x), After) /\ seen' \in SUBSET Roles
        \/ Writes(CanFinish(run, x), NeedsInput(run, x), After) /\ seen' \in SUBSET Roles
        \/ Goes(After) /\ seen' \in SUBSET Roles
        \/ Goes(turned) /\ seen' \in SUBSET Roles
        \/ \E status \in Reports \ {"none"}, fits \in BOOLEAN :
             /\ Mutates(CanReport(run, x), ReportRecorded(run, x, status, fits), After,
                        turned, auth)
             /\ seen' \in SUBSET Roles
    BY <1>2 DEF SuperviseWorker, turned
  <1>9. CASE /\ seen' \in SUBSET Roles
             /\ \/ Writes(CanFinish(run, x), Uncertain(run, x), After)
                \/ Writes(CanFinish(run, x), Crashed(run, x), After)
                \/ Writes(CanFinish(run, x), NeedsInput(run, x), After)
    BY <1>1, <1>3, <1>4, <1>5, <1>7, <1>9, PlainWrite
  <1>10. CASE seen' \in SUBSET Roles /\ Goes(After)
    BY <1>1, <1>3, <1>4, <1>10, GoStep DEF Goes
  <1>11. CASE seen' \in SUBSET Roles /\ Goes(turned)
    <2>1. Rest' /\ begun' = begun BY <1>1, <1>3, <1>4, <1>11, GoStep DEF Goes
    <2>2. PlaceInv' BY <1>1, <1>3, <1>5, <1>11, <2>1 DEF Goes, PlaceInv
    <2>3. QED BY <2>1, <2>2, WholeInv
  <1>12. ASSUME NEW status \in Reports \ {"none"}, NEW fits \in BOOLEAN,
                Mutates(CanReport(run, x), ReportRecorded(run, x, status, fits), After,
                        turned, auth),
                seen' \in SUBSET Roles
         PROVE  Inv'
    <2> DEFINE next == ReportRecorded(run, x, status, fits)
    <2>1. Good(run, next) BY <1>2, <1>6, ReportGood
    <2>2. next.role[x].att = "finished"
      BY <1>2, RoleFacts DEF ReportRecorded, Finished, RunRecord, RoleRecord
    <2>3. \A y \in Roles : auth.kind = "start" \/ (auth.kind # "none" /\ auth.role = y) => Allows(y)
      BY <1>2 DEF Allows, Auths, Kinds
    <2> HIDE DEF next
    <2>4. Mutates(CanReport(run, x), next, After, turned, auth) BY <1>12 DEF next
    <2>5. UNCHANGED <<begun, plan, onCourse, worker, typed, exits, stops, writes>>
      BY <1>4 DEF still
    <2>6. Rest' /\ Wrote(next, After, turned, auth)
      BY <1>1, <1>2, <1>3, <1>4, <1>6, <1>12, <2>1, <2>3, <2>4, <2>5, WriteStep
    <2>7. CASE op' = After BY <1>1, <1>3, <2>5, <2>6, <2>7, RestPlace, WholeInv
    <2>8. CASE op' = turned /\ run' \in {run, next}
      <3>1. PlaceInv' BY <1>1, <1>3, <1>5, <2>2, <2>5, <2>8 DEF PlaceInv
      <3>2. QED BY <2>6, <3>1, WholeInv
    <2>9. QED BY <2>6, <2>7, <2>8 DEF Wrote
  <1>13. QED BY <1>8, <1>9, <1>10, <1>11, <1>12

\* A rejected report leaves a worker without one.
LEMMA ReportRejectedKeeps == ASSUME Inv, ReportRejected PROVE Inv'
  <1> DEFINE x == op.role
  <1>1. op.at = "rejected" /\ begun BY Begun DEF ReportRejected
  <1>2. run \in RunRecord /\ RunInv(run) /\ op \in Ops /\ x \in Roles
    BY RoleFacts DEF Inv, TypeOK, Ops
  <1>3. /\ After \in Ops /\ After.at \in Rests /\ Thrown \in Ops /\ Thrown.at \in Rests
    BY <1>2, PlaceFacts DEF Rests
  <1>4. UNCHANGED <<still, worker>> /\ seen' \in SUBSET Roles /\ late' \in BOOLEAN
    BY DEF ReportRejected, Inv, TypeOK
  <1>5. run.role[x].att \in {"dispatched", "finished"} BY <1>1 DEF Inv, PlaceInv
  <1>6. CASE CanFinish(run, x)
    <2>1. run.role[x].att = "dispatched" BY <1>5, <1>6 DEF CanFinish, InService
    <2>2. Good(run, NeedsInput(run, x)) BY <1>2, <2>1, NeedsInputGood
    <2>3. Writes(TRUE, NeedsInput(run, x), After) BY <1>6 DEF ReportRejected
    <2>4. QED BY <1>1, <1>3, <1>4, <2>2, <2>3, PlainWrite
  <1>7. CASE ~CanFinish(run, x)
    <2>1. Goes(Thrown) BY <1>7 DEF ReportRejected
    <2>2. QED BY <1>1, <1>3, <1>4, <2>1, GoStep DEF Goes
  <1>8. QED BY <1>6, <1>7

\* A cleanup that waits is claimed with the authority of this process.
LEMMA CleanupPendingKeeps ==
  ASSUME Inv, NEW x \in Roles, CleanupPending(x)
  PROVE  Inv'
  <1>1. op.at = "supervise" /\ begun BY Begun DEF CleanupPending, Watching, Supervising
  <1>2. run \in RunRecord /\ RunInv(run) /\ op \in Ops BY RoleFacts DEF Inv, TypeOK, Ops
  <1>3. After \in Ops /\ After.at \in Rests BY <1>2, PlaceFacts DEF Rests
  <1>4. UNCHANGED <<still, worker>> /\ seen' \in SUBSET Roles /\ late' \in BOOLEAN
    BY DEF CleanupPending, Inv, TypeOK
  <1>5. CanClaimCleanup(run, x) BY DEF CleanupPending, CanClaimCleanup
  <1>6. Good(run, ClaimCleanup(run, x)) BY <1>2, <1>5, ClaimCleanupGood
  <1>7. Writes(CanClaimCleanup(run, x), ClaimCleanup(run, x), After) BY DEF CleanupPending
  <1>8. QED BY <1>1, <1>3, <1>4, <1>5, <1>6, <1>7, PlainWrite

\* A cleanup can be given up while it is claimed or sent.
LEMMA CanGiveUp ==
  ASSUME Inv, NEW x \in Roles, run.role[x].clean \in {"claimed", "sent"}
  PROVE  CanCleanupRequired(run, x) /\ Good(run, CleanupRequired(run, x))
  <1>1. /\ run \in RunRecord /\ RunInv(run)
        /\ run.role[x] \in RoleRecord /\ Sound(run.role[x])
    BY RoleFacts
  <1>2. run.role[x].recov < MaxRecoveries
    BY <1>1 DEF Sound, Recoverable, MaxRecoveries, RoleRecord
  <1>3. QED BY <1>1, <1>2, CleanupRequiredGood DEF CanCleanupRequired

\* The claimed cleanup: the worker has left already, is to be told to, or is unclear.
LEMMA CleanupClaimedKeeps ==
  ASSUME Inv, NEW x \in Roles, CleanupClaimed(x)
  PROVE  Inv'
  <1> DEFINE exit == At("exit", x, op.then)
  <1>1. op.at = "supervise" /\ begun BY Begun DEF CleanupClaimed, Watching, Supervising
  <1>2. run \in RunRecord /\ RunInv(run) /\ op \in Ops /\ run.role[x].clean = "claimed"
    BY RoleFacts DEF Inv, TypeOK, Ops, CleanupClaimed
  <1>3. /\ After \in Ops /\ After.at \in Rests
        /\ exit \in Ops /\ exit.at = "exit" /\ exit.role = x
    BY <1>2, PlaceFacts DEF Rests, Places, Ops
  <1>4. UNCHANGED <<still, worker>> /\ seen' \in SUBSET Roles
    BY DEF CleanupClaimed, Inv, TypeOK
  <1>5. PICK sight \in Sights(x) :
          CASE Allows(x) /\ sight = "absent" ->
                 /\ Writes(CanCleanupSent(run, x), CleanupSent(run, x), After) /\ late' = FALSE
            [] Allows(x) /\ sight = "idle" -> Goes(exit) /\ UNCHANGED late
            [] OTHER -> /\ Writes(CanCleanupRequired(run, x), CleanupRequired(run, x), After)
                        /\ UNCHANGED late
    BY DEF CleanupClaimed
  <1> HIDE DEF exit
  <1>6. late \in BOOLEAN BY DEF Inv, TypeOK
  <1>7. CASE Allows(x) /\ sight = "absent"
    <2>1. Writes(CanCleanupSent(run, x), CleanupSent(run, x), After) /\ late' = FALSE
      BY <1>5, <1>7
    <2>2. CanCleanupSent(run, x) BY <1>2 DEF CanCleanupSent
    <2>3. Good(run, CleanupSent(run, x)) BY <1>2, <2>2, CleanupSentGood
    <2>4. QED BY <1>1, <1>3, <1>4, <2>1, <2>2, <2>3, PlainWrite
  <1>8. CASE Allows(x) /\ sight = "idle"
    <2>1. Goes(exit) /\ late' \in BOOLEAN BY <1>5, <1>6, <1>8
    <2>2. /\ Rest' /\ begun' = begun /\ op' = exit /\ run' = run /\ auth' = auth
          /\ typed' = typed
      BY <1>1, <1>3, <1>4, <2>1, GoStep DEF Goes, still
    <2>3. Allows(x)' BY <1>8, <2>2 DEF Allows
    <2>4. PlaceInv' BY <1>1, <1>2, <1>3, <2>2, <2>3 DEF PlaceInv, Allows
    <2>5. QED BY <2>2, <2>4, WholeInv
  <1>9. CASE ~(Allows(x) /\ sight = "absent") /\ ~(Allows(x) /\ sight = "idle")
    <2>1. Writes(CanCleanupRequired(run, x), CleanupRequired(run, x), After) /\ late' \in BOOLEAN
      BY <1>5, <1>6, <1>9
    <2>2. CanCleanupRequired(run, x) /\ Good(run, CleanupRequired(run, x))
      BY <1>2, CanGiveUp
    <2>3. QED BY <1>1, <1>3, <1>4, <2>1, <2>2, PlainWrite
  <1>10. QED BY <1>7, <1>8, <1>9

\* The worker was told to leave: it has, it is unclear, or it is late.
LEMMA CleanupWaitsKeeps ==
  ASSUME Inv, NEW x \in Roles, CleanupWaits(x)
  PROVE  Inv'
  <1>1. op.at = "supervise" /\ begun BY Begun DEF CleanupWaits, Watching, Supervising
  <1>2. /\ run \in RunRecord /\ RunInv(run) /\ op \in Ops /\ run.role[x].clean = "sent"
        /\ auth \in Auths
    BY RoleFacts DEF Inv, TypeOK, Ops, Auths, CleanupWaits
  <1>3. /\ After \in Ops /\ After.at \in Rests /\ Thrown \in Ops /\ Thrown.at \in Rests
        /\ NoAuth \in Auths /\ NoAuth.kind = "none"
    BY <1>2, PlaceFacts DEF Rests
  <1>4. UNCHANGED <<still, worker>> /\ seen' \in SUBSET Roles /\ late' \in BOOLEAN
    BY DEF CleanupWaits, Inv, TypeOK
  <1>5. PICK sight \in Sights(x) :
       CASE sight = "absent" -> Writes(CanCleanupComplete(run, x), CleanupComplete(run, x), After)
         [] sight = "unclear" -> Writes(CanCleanupRequired(run, x), CleanupRequired(run, x), After)
         [] sight \notin {"absent", "unclear"} /\ late ->
              Mutates(CanCleanupRequired(run, x), CleanupRequired(run, x), After, Thrown,
                      IF sight = "dead" THEN auth ELSE NoAuth)
         [] OTHER -> Goes(After)
    BY DEF CleanupWaits
  <1>6. CanCleanupRequired(run, x) /\ Good(run, CleanupRequired(run, x)) BY <1>2, CanGiveUp
  <1>7. CASE sight = "absent"
    <2>1. Writes(CanCleanupComplete(run, x), CleanupComplete(run, x), After) BY <1>5, <1>7
    <2>2. CanCleanupComplete(run, x) BY <1>2 DEF CanCleanupComplete
    <2>3. Good(run, CleanupComplete(run, x))
      BY <1>2, <1>7, <2>2, SightFacts, CleanupCompleteGood
    <2>4. QED BY <1>1, <1>3, <1>4, <2>1, <2>2, <2>3, PlainWrite
  <1>8. CASE sight = "unclear"
    <2>1. Writes(CanCleanupRequired(run, x), CleanupRequired(run, x), After) BY <1>5, <1>8
    <2>2. QED BY <1>1, <1>3, <1>4, <1>6, <2>1, PlainWrite
  <1>9. CASE sight \notin {"absent", "unclear"} /\ late
    <2> DEFINE authority == IF sight = "dead" THEN auth ELSE NoAuth
    <2>1. Mutates(CanCleanupRequired(run, x), CleanupRequired(run, x), After, Thrown, authority)
      BY <1>5, <1>9
    <2>2. authority \in Auths BY <1>2, <1>3
    <2>3. \A y \in Roles : authority.kind = "start"
                             \/ (authority.kind # "none" /\ authority.role = y) => Allows(y)
      BY <1>2, <1>3 DEF Allows, Auths, Kinds
    <2>4. UNCHANGED <<begun, plan, onCourse, worker, typed, exits, stops, writes>>
      BY <1>4 DEF still
    <2> HIDE DEF authority
    <2>5. QED BY <1>1, <1>3, <1>4, <1>6, <2>1, <2>2, <2>3, <2>4, RestWrite
  <1>10. CASE sight \notin {"absent", "unclear"} /\ ~late
    <2>1. Goes(After) BY <1>5, <1>10
    <2>2. QED BY <1>1, <1>3, <1>4, <2>1, GoStep DEF Goes
  <1>11. QED BY <1>7, <1>8, <1>9, <1>10

\* With the authority lost the run waits for the operator.
LEMMA SuperviseRestKeeps == ASSUME Inv, SuperviseRest PROVE Inv'
  <1>1. op.at = "supervise" /\ begun BY Begun DEF SuperviseRest, Watching, Supervising
  <1>2. run \in RunRecord /\ RunInv(run) /\ op \in Ops BY DEF Inv, TypeOK, Ops
  <1>3. After \in Ops /\ After.at \in Rests BY <1>2, PlaceFacts DEF Rests
  <1>4. UNCHANGED <<still, worker>> /\ seen' \in SUBSET Roles /\ late' \in BOOLEAN
    BY DEF SuperviseRest, Inv, TypeOK
  <1>5. CASE /\ run.condition = "active" /\ AnyEligible(run)
             /\ Writes(CanWait(run, NextRole(run)), ResourceWait(run), After)
    <2>1. CanWait(run, NextRole(run)) BY <1>5, NextRoleFacts DEF CanWait
    <2>2. Good(run, ResourceWait(run)) BY <1>2, <2>1, RetryGood
    <2>3. QED BY <1>1, <1>3, <1>4, <1>5, <2>1, <2>2, PlainWrite
  <1>6. CASE Goes(After) BY <1>1, <1>3, <1>4, <1>6, GoStep DEF Goes
  <1>7. QED BY <1>5, <1>6 DEF SuperviseRest

\* The monitor takes its turn.
LEMMA TickKeeps == ASSUME Inv, Tick PROVE Inv'
  <1> DEFINE next == At("supervise", "po", "advance")
  <1>1. next \in Ops /\ next.at \in Rests BY PlaceFacts DEF Rests, Places
  <1>2. /\ op.at = "idle" /\ begun /\ op' = next
        /\ UNCHANGED <<run, auth, faults, upsets, refused>> /\ UNCHANGED <<still, worker>>
        /\ seen' \in SUBSET Roles /\ late' \in BOOLEAN
    BY DEF Tick, Inv, TypeOK
  <1> HIDE DEF next
  <1>3. QED BY <1>1, <1>2, GoStep

--------------------------------------------------------------------------------
(* The advance.                                                                   *)

\* Nothing is left to do, or a worker is at work; an ended run has no authority.
LEMMA AdvanceEndsKeeps == ASSUME Inv, AdvanceEnds \/ AdvanceRests PROVE Inv'
  <1>1. op.at = "advance" /\ begun BY Begun DEF AdvanceEnds, AdvanceRests, Free
  <1>2. /\ op' = Idle /\ auth' \in {auth, NoAuth} /\ UNCHANGED <<run, faults, upsets, refused>>
        /\ UNCHANGED <<still, worker>> /\ seen' \in SUBSET Roles /\ late' \in BOOLEAN
    BY DEF AdvanceEnds, AdvanceRests, Inv, TypeOK
  <1>3. Idle \in Ops /\ Idle.at \in Rests BY PlaceFacts DEF Rests
  <1>4. QED BY <1>1, <1>2, <1>3, GoStep

\* The workspace is not what the run was made for.
LEMMA AdvanceOffCourseKeeps == ASSUME Inv, AdvanceOffCourse PROVE Inv'
  <1>1. op.at = "advance" /\ begun BY Begun DEF AdvanceOffCourse, Free
  <1>2. run \in RunRecord /\ RunInv(run) BY DEF Inv, TypeOK
  <1>3. /\ UNCHANGED <<begun, plan, onCourse, worker, typed, exits, stops, writes>>
        /\ seen' \in SUBSET Roles /\ late' \in BOOLEAN
    BY DEF AdvanceOffCourse, still, Inv, TypeOK
  <1>4. Idle \in Ops /\ Idle.at \in Rests /\ NoAuth \in Auths /\ NoAuth.kind = "none"
    BY PlaceFacts DEF Rests
  <1>5. CanMarkOffCourse(run) BY DEF AdvanceOffCourse, Free, CanMarkOffCourse, Halted
  <1>6. Good(run, MarkOffCourse(run)) BY <1>2, <1>5, EndsGood
  <1>7. Mutates(CanMarkOffCourse(run), MarkOffCourse(run), Idle, Idle, NoAuth)
    BY DEF AdvanceOffCourse
  <1>8. QED BY <1>1, <1>3, <1>4, <1>5, <1>6, <1>7, RestWrite

\* The candidate is made from the reports.
LEMMA AdvanceCompileKeeps == ASSUME Inv, AdvanceCompile PROVE Inv'
  <1>1. op.at = "advance" /\ begun BY Begun DEF AdvanceCompile, Free
  <1>2. run \in RunRecord /\ RunInv(run) BY DEF Inv, TypeOK
  <1>3. UNCHANGED <<still, worker>> /\ seen' \in SUBSET Roles /\ late' \in BOOLEAN
    BY DEF AdvanceCompile, Inv, TypeOK
  <1>4. Idle \in Ops /\ Idle.at \in Rests BY PlaceFacts DEF Rests
  <1>5. PICK ready \in {"ready", "unready"} : Writes(CanCompile(run), Compile(run, ready), Idle)
    BY DEF AdvanceCompile
  <1>6. run.condition = "active"
    BY <1>2 DEF AdvanceCompile, Free, RunInv, RunRecord, Conditions, Halted
  <1>7. CanCompile(run) BY <1>6 DEF AdvanceCompile, CanCompile
  <1>8. Good(run, Compile(run, ready)) BY <1>2, <1>7, CandidateGood
  <1>9. QED BY <1>1, <1>3, <1>4, <1>5, <1>7, <1>8, PlainWrite

\* No resources for the next worker, or they cannot be counted.
LEMMA AdvanceWaitsKeeps == ASSUME Inv, AdvanceWaits \/ AdvanceUncounted PROVE Inv'
  <1>1. op.at = "advance" /\ begun BY Begun DEF AdvanceWaits, AdvanceUncounted, Free
  <1>2. run \in RunRecord /\ RunInv(run) BY DEF Inv, TypeOK
  <1>3. /\ UNCHANGED <<still, worker>> /\ seen' \in SUBSET Roles /\ late' \in BOOLEAN
        /\ UNCHANGED <<begun, plan, onCourse, worker, typed, exits, stops, writes>>
    BY DEF AdvanceWaits, AdvanceUncounted, still, Inv, TypeOK
  <1>4. Idle \in Ops /\ Idle.at \in Rests /\ NoAuth \in Auths /\ NoAuth.kind = "none"
    BY PlaceFacts DEF Rests
  <1>5. CASE Goes(Idle) BY <1>1, <1>3, <1>4, <1>5, GoStep DEF Goes
  <1>6. CASE /\ CanWait(run, NextRole(run))
             /\ Mutates(TRUE, ResourceWait(run), Idle, Idle, NoAuth)
    <2>1. Good(run, ResourceWait(run)) BY <1>2, <1>6, RetryGood
    <2>2. QED BY <1>1, <1>3, <1>4, <1>6, <2>1, RestWrite
  <1>7. QED BY <1>5, <1>6 DEF AdvanceWaits, AdvanceUncounted

\* The spawn of the next worker is claimed.
LEMMA AdvanceSpawnKeeps == ASSUME Inv, AdvanceSpawn PROVE Inv'
  <1> DEFINE x == NextRole(run)
             next == ClaimSpawn(run, x)
             done == At("spawn", x, "advance")
  <1>1. op.at = "advance" /\ begun BY Begun DEF AdvanceSpawn, Free
  <1>2. run \in RunRecord /\ RunInv(run) /\ op \in Ops /\ auth \in Auths
    BY DEF Inv, TypeOK, Ops, Auths
  <1>3. x \in Roles /\ Eligible(run, x) BY NextRoleFacts DEF AdvanceSpawn, MaySpawn
  <1> HIDE DEF x
  <1>4. /\ UNCHANGED <<begun, plan, onCourse, worker, typed, exits, stops, writes>>
        /\ seen' \in SUBSET Roles /\ late' \in BOOLEAN
    BY DEF AdvanceSpawn, still, Inv, TypeOK
  <1>5. /\ done \in Ops /\ done.at = "spawn" /\ done.role = x
        /\ Thrown \in Ops /\ Thrown.at \in Rests
    BY <1>2, <1>3, PlaceFacts DEF Places, Rests
  <1>6. \A y \in Roles : ~Live(run.role[y]) BY DEF AdvanceSpawn, Free, SomeLive
  <1>7. CanClaimSpawn(run, x) BY <1>3 DEF CanClaimSpawn
  <1>8. Good(run, next) /\ next.role[x].lease = "claimed"
    BY <1>2, <1>3, <1>6, <1>7, ClaimSpawnGood
  <1>9. Mutates(CanClaimSpawn(run, x), next, done, Thrown, auth)
    BY DEF AdvanceSpawn, Writes, x
  <1>10. auth.kind # "none" BY DEF AdvanceSpawn, MaySpawn
  <1>11. \A y \in Roles : auth.kind = "start" \/ (auth.kind # "none" /\ auth.role = y) => Allows(y)
    BY <1>2 DEF Allows, Auths, Kinds
  <1> HIDE DEF next, done
  <1>12. Rest' /\ Wrote(next, done, Thrown, auth)
    BY <1>1, <1>2, <1>4, <1>5, <1>7, <1>8, <1>9, <1>11, WriteStep
  <1>13. CASE op' = Thrown BY <1>1, <1>4, <1>5, <1>12, <1>13, RestPlace, WholeInv
  <1>14. CASE op' = done /\ run' = next /\ auth' = auth
    <2>1. PlaceInv' BY <1>1, <1>4, <1>5, <1>8, <1>10, <1>14 DEF PlaceInv
    <2>2. QED BY <1>12, <2>1, WholeInv
  <1>15. QED BY <1>12, <1>13, <1>14 DEF Wrote

--------------------------------------------------------------------------------
(* The worker of a role is started, prompted, and told to leave.                  *)

\* The operation types, stops or starts: the record stays, and one role is touched.
LEMMA InputStep ==
  ASSUME Inv, op.at \notin {"exited", "notExited"},
         UNCHANGED <<run, auth, faults, upsets, refused>>,
         UNCHANGED <<begun, plan, onCourse, writes, seen, late>>, op' \in Ops,
         worker' \in [Roles -> [life : {"none", "live", "dead", "gone"},
                                turn : {"fresh", "working", "reported"}]],
         \A x \in Roles : worker'[x].life \in {"live", "dead"} =>
                            worker[x].life \in {"live", "dead"} \/ Live(run.role[x]),
         typed' \in [Roles -> Nat], exits' \in [Roles -> Nat], stops' \in [Roles -> Nat],
         \A x \in Roles : typed'[x] # typed[x] =>
            typed'[x] <= 1 /\ run.role[x].att \notin {"none", "spawn_claimed"},
         \A x \in Roles : stops'[x] # stops[x] => stops'[x] <= 1 /\ run.role[x].stop # "none",
         \A x \in Roles : exits'[x] # exits[x] =>
            /\ exits'[x] = exits[x] + 1 /\ run.role[x].clean = "claimed"
            /\ Allows(x) /\ Exiting(x)'
  PROVE  Rest'
  <1>1. TypeOK' BY DEF Inv, TypeOK, Ops
  <1>2. PlanInv' BY DEF Inv, PlanInv
  <1>3. faults \in Nat /\ run.cleanups \in Nat
    BY BoundsAssumption, ReceiptsAssumption DEF Inv, TypeOK, RunRecord
  <1>4. Ledger'
    <2> SUFFICES ASSUME NEW x \in Roles
                 PROVE  LET a == run.role[x]
                        IN /\ typed'[x] <= 1 /\ (a.att \in {"none", "spawn_claimed"} => typed'[x] = 0)
                           /\ stops'[x] <= 1 /\ (a.stop = "none" => stops'[x] = 0)
                           /\ exits'[x] <= 1 + run.cleanups + faults
                           /\ a.clean \in {"none", "pending"} => exits'[x] = 0
                           /\ a.clean = "claimed" /\ Allows(x)' /\ ~Exiting(x)' =>
                                exits'[x] <= run.cleanups + faults
                           /\ worker'[x].life \in {"live", "dead"} => Live(a)
      BY DEF Ledger
    <2> DEFINE a == run.role[x]
    <2>1. typed'[x] <= 1 /\ (a.att \in {"none", "spawn_claimed"} => typed'[x] = 0)
      BY DEF Inv, Ledger
    <2>2. stops'[x] <= 1 /\ (a.stop = "none" => stops'[x] = 0) BY DEF Inv, Ledger
    <2>3. worker'[x].life \in {"live", "dead"} => Live(a) BY DEF Inv, Ledger
    <2>4. Allows(x)' <=> Allows(x) BY DEF Allows
    <2>5. ~Exiting(x) BY DEF Exiting
    <2>6. CASE exits'[x] = exits[x] BY <2>1, <2>2, <2>3, <2>4, <2>5, <2>6 DEF Inv, Ledger
    <2>7. CASE exits'[x] # exits[x]
      <3>1. exits[x] <= run.cleanups + faults BY <2>5, <2>7 DEF Inv, Ledger
      <3>2. exits[x] \in Nat BY DEF Inv, TypeOK
      <3>3. exits'[x] <= 1 + run.cleanups + faults BY <1>3, <2>7, <3>1, <3>2
      <3>4. QED BY <2>1, <2>2, <2>3, <2>7, <3>3
    <2>8. QED BY <2>6, <2>7
  <1>5. QED BY <1>1, <1>2, <1>4 DEF Rest, Inv, NeverRefused

\* The operation, its role and the record at a place of the worker's.
LEMMA HereFacts ==
  ASSUME Inv, op.at \notin {"idle", "down"}
  PROVE  /\ begun /\ run \in RunRecord /\ RunInv(run) /\ op \in Ops /\ op.role \in Roles
         /\ auth \in Auths
         /\ run.role[op.role] \in RoleRecord /\ Sound(run.role[op.role])
         /\ After \in Ops /\ After.at \in Rests /\ Thrown \in Ops /\ Thrown.at \in Rests
         /\ Idle \in Ops /\ Idle.at \in Rests
         /\ \A place \in Places : /\ To(place) \in Ops /\ To(place).at = place
                                  /\ To(place).role = op.role
         /\ \A x \in Roles : auth.kind = "start" \/ (auth.kind # "none" /\ auth.role = x) =>
                               Allows(x)
  <1>1. /\ begun /\ run \in RunRecord /\ RunInv(run) /\ op \in Ops /\ op.role \in Roles
        /\ auth \in Auths
    BY Begun DEF Inv, TypeOK, Ops, Auths
  <1>2. run.role[op.role] \in RoleRecord /\ Sound(run.role[op.role]) BY <1>1, RoleFacts
  <1>3. /\ After \in Ops /\ After.at \in Rests /\ Thrown \in Ops /\ Thrown.at \in Rests
        /\ Idle \in Ops /\ Idle.at \in Rests
        /\ \A place \in Places : /\ To(place) \in Ops /\ To(place).at = place
                                 /\ To(place).role = op.role
    BY <1>1, PlaceFacts DEF Rests
  <1>4. \A x \in Roles : auth.kind = "start" \/ (auth.kind # "none" /\ auth.role = x) => Allows(x)
    BY <1>1 DEF Allows, Auths, Kinds
  <1>5. QED BY <1>1, <1>2, <1>3, <1>4

\* The worker is started, or may have been.
LEMMA SpawnStartsKeeps == ASSUME Inv, SpawnStarts PROVE Inv'
  <1> DEFINE x == op.role
  <1>1. op.at = "spawn" BY DEF SpawnStarts, Here
  <1>2. /\ run.role[x].lease = "claimed" /\ auth.kind # "none"
    BY <1>1 DEF Inv, PlaceInv
  <1>3. Live(run.role[x]) BY <1>1, <1>2, HereFacts, Stops
  <1>4. /\ UNCHANGED <<run, auth, faults, upsets, refused>>
        /\ UNCHANGED <<begun, plan, onCourse, typed, exits, stops, writes, seen, late>>
        /\ op' \in {To("bind"), To("spawnFailed")} /\ worker' \in {worker, Started}
    BY DEF SpawnStarts, Goes, still
  <1>5. Started \in [Roles -> [life : {"none", "live", "dead", "gone"},
                               turn : {"fresh", "working", "reported"}]]
        /\ \A y \in Roles : y # x => Started[y] = worker[y]
    BY <1>1, HereFacts DEF Started, Inv, TypeOK
  <1>6. op' \in Ops /\ op'.at \in {"bind", "spawnFailed"} /\ op'.role = x
    BY <1>1, <1>4, HereFacts DEF Places
  <1>7. Rest'
    <2>1. /\ worker' \in [Roles -> [life : {"none", "live", "dead", "gone"},
                                    turn : {"fresh", "working", "reported"}]]
          /\ \A y \in Roles : worker'[y].life \in {"live", "dead"} =>
                                worker[y].life \in {"live", "dead"} \/ Live(run.role[y])
          /\ typed' \in [Roles -> Nat] /\ exits' \in [Roles -> Nat] /\ stops' \in [Roles -> Nat]
      BY <1>3, <1>4, <1>5 DEF Inv, TypeOK
    <2>2. QED BY <1>1, <1>4, <1>6, <2>1, InputStep
  <1>8. PlaceInv' BY <1>1, <1>2, <1>4, <1>6, HereFacts DEF PlaceInv
  <1>9. QED BY <1>7, <1>8, WholeInv

\* The worker is bound to its lease.
LEMMA SpawnBindsKeeps == ASSUME Inv, SpawnBinds PROVE Inv'
  <1> DEFINE x == op.role
             next == Bind(run, x)
  <1>1. op.at = "bind" BY DEF SpawnBinds, Here
  <1>2. run.role[x].lease = "claimed" /\ auth.kind # "none" BY <1>1 DEF Inv, PlaceInv
  <1>3. /\ UNCHANGED <<still, worker>> /\ seen' \in SUBSET Roles /\ late' \in BOOLEAN
        /\ UNCHANGED <<begun, plan, onCourse, worker, typed, exits, stops, writes>>
    BY DEF SpawnBinds, still, Inv, TypeOK
  <1>4. /\ To("attest") \in Ops /\ To("attest").at = "attest" /\ To("attest").role = x
        /\ To("spawnFailed") \in Ops /\ To("spawnFailed").at = "spawnFailed"
        /\ To("spawnFailed").role = x
    BY <1>1, HereFacts DEF Places
  <1>5. CASE CanBind(run, x, late)
    <2>1. CanBind(run, x, FALSE) BY <1>5 DEF CanBind
    <2>2. Good(run, next) BY <1>1, <2>1, HereFacts, BindGood
    <2>3. next.role[x].lease = "bound"
      BY <1>1, HereFacts DEF Bind, RunRecord, RoleRecord
    <2>4. Mutates(TRUE, next, To("attest"), To("spawnFailed"), auth) BY <1>5 DEF SpawnBinds
    <2> HIDE DEF next
    <2>5. Rest' /\ Wrote(next, To("attest"), To("spawnFailed"), auth)
      BY <1>1, <1>3, <1>4, <2>2, <2>4, HereFacts, WriteStep
    <2>6. PlaceInv'
      <3>1. CASE op' = To("attest") /\ run' = next /\ auth' = auth
        BY <1>1, <1>2, <1>3, <1>4, <2>3, <3>1, HereFacts DEF PlaceInv
      <3>2. CASE op' = To("spawnFailed") /\ run' \in {run, next}
        BY <1>1, <1>2, <1>3, <1>4, <2>3, <3>2, HereFacts DEF PlaceInv
      <3>3. QED BY <2>5, <3>1, <3>2 DEF Wrote
    <2>7. QED BY <2>5, <2>6, WholeInv
  <1>6. CASE ~CanBind(run, x, late)
    <2>1. Goes(To("spawnFailed")) BY <1>6 DEF SpawnBinds
    <2>2. Rest' /\ begun' = begun BY <1>1, <1>3, <1>4, <2>1, GoStep DEF Goes
    <2>3. PlaceInv' BY <1>1, <1>2, <1>3, <1>4, <2>1, HereFacts DEF Goes, PlaceInv
    <2>4. QED BY <2>2, <2>3, WholeInv
  <1>7. QED BY <1>5, <1>6

\* The worker attests itself, and its prompt is claimed.
LEMMA SpawnAttestsKeeps == ASSUME Inv, SpawnAttests PROVE Inv'
  <1> DEFINE x == op.role
             next == ClaimDispatch(run, x)
  <1>1. op.at = "attest" BY DEF SpawnAttests, Here
  <1>2. run.role[x].lease = "bound" /\ auth.kind # "none" BY <1>1 DEF Inv, PlaceInv
  <1>3. /\ UNCHANGED <<still, worker>> /\ seen' \in SUBSET Roles /\ late' \in BOOLEAN
        /\ UNCHANGED <<begun, plan, onCourse, worker, typed, exits, stops, writes>>
    BY DEF SpawnAttests, still, Inv, TypeOK
  <1>4. /\ To("deliver") \in Ops /\ To("deliver").at = "deliver" /\ To("deliver").role = x
        /\ To("spawnFailed") \in Ops /\ To("spawnFailed").at = "spawnFailed"
        /\ To("spawnFailed").role = x
    BY <1>1, HereFacts DEF Places
  <1>5. CASE Writes(CanClaimDispatch(run, x), next, To("deliver"))
    <2>1. Unadopted(run.role[x]) BY <1>1, <1>2, HereFacts, Stops
    <2>2. CanClaimDispatch(run, x) /\ run.role[x].att = "spawn_claimed"
      BY <1>2, <2>1 DEF CanClaimDispatch, Unadopted
    <2>3. Good(run, next) BY <1>1, <2>2, HereFacts, ClaimDispatchGood
    <2>4. next.role[x].att = "dispatch_claimed"
      BY <1>1, HereFacts DEF ClaimDispatch, RunRecord, RoleRecord
    <2>5. typed[x] = 0 BY <1>1, <2>2, HereFacts DEF Inv, Ledger
    <2> HIDE DEF next
    <2>6. Mutates(CanClaimDispatch(run, x), next, To("deliver"), Thrown, auth)
      BY <1>5 DEF Writes
    <2>7. Rest' /\ Wrote(next, To("deliver"), Thrown, auth)
      BY <1>1, <1>3, <1>4, <2>2, <2>3, <2>6, HereFacts, WriteStep
    <2>8. PlaceInv'
      <3>1. CASE op' = To("deliver") /\ run' = next /\ auth' = auth
        BY <1>1, <1>2, <1>3, <1>4, <2>4, <2>5, <3>1, HereFacts DEF PlaceInv
      <3>2. CASE op' = Thrown BY <1>1, <1>3, <3>2, HereFacts, RestPlace
      <3>3. QED BY <2>7, <3>1, <3>2 DEF Wrote
    <2>9. QED BY <2>7, <2>8, WholeInv
  <1>6. CASE Goes(To("spawnFailed"))
    <2>1. Rest' /\ begun' = begun BY <1>1, <1>3, <1>4, <1>6, GoStep DEF Goes
    <2>2. PlaceInv' BY <1>1, <1>2, <1>3, <1>4, <1>6, HereFacts DEF Goes, PlaceInv
    <2>3. QED BY <2>1, <2>2, WholeInv
  <1>7. QED BY <1>5, <1>6 DEF SpawnAttests

\* A spawn that failed leaves no worker behind a closed lease.
LEMMA SpawnFailsKeeps == ASSUME Inv, SpawnFails PROVE Inv'
  <1> DEFINE x == op.role
  <1>1. op.at = "spawnFailed" BY DEF SpawnFails, Here
  <1>2. run.role[x].lease \in {"claimed", "bound"} BY <1>1 DEF Inv, PlaceInv
  <1>3. UNCHANGED <<still, worker>> /\ seen' \in SUBSET Roles /\ late' \in BOOLEAN
    BY DEF SpawnFails, Inv, TypeOK
  <1>4. PICK sight \in Sights(x) :
          IF sight = "absent"
            THEN Writes(CanCloseAbsent(run, x), CloseAbsent(run, x), Thrown)
            ELSE Goes(Thrown)
    BY DEF SpawnFails
  <1>5. CASE sight = "absent"
    <2>1. Unadopted(run.role[x]) BY <1>1, <1>2, HereFacts, Stops
    <2>2. CanCloseAbsent(run, x) /\ run.role[x].stop = "none"
      BY <1>2, <2>1 DEF CanCloseAbsent, Unadopted
    <2>3. worker[x].life \in {"none", "gone"} BY <1>1, <1>5, HereFacts, SightFacts
    <2>4. Good(run, CloseAbsent(run, x))
      BY <1>1, <1>2, <2>2, <2>3, HereFacts, ClosedGood DEF CloseAbsent
    <2>5. QED BY <1>1, <1>3, <1>4, <1>5, <2>2, <2>4, HereFacts, PlainWrite
  <1>6. CASE sight # "absent"
    BY <1>1, <1>3, <1>4, <1>6, HereFacts, GoStep DEF Goes
  <1>7. QED BY <1>5, <1>6

\* The prompt is typed, once.
LEMMA DeliverKeeps == ASSUME Inv, Deliver PROVE Inv'
  <1> DEFINE x == op.role
  <1>1. op.at = "deliver" BY DEF Deliver, Here
  <1>2. /\ run.role[x].att = "dispatch_claimed" /\ typed[x] = 0 /\ auth.kind # "none"
    BY <1>1 DEF Inv, PlaceInv
  <1>3. Live(run.role[x]) BY <1>1, <1>2, HereFacts, Stops DEF InService
  <1>4. /\ UNCHANGED <<run, auth, faults, upsets, refused>>
        /\ UNCHANGED <<begun, plan, onCourse, exits, stops, writes, seen, late>>
        /\ op' \in {To("delivered"), To("notDelivered"), To("unknown")}
        /\ worker' \in {worker, [worker EXCEPT ![x].turn = "working"]}
        /\ typed' \in {typed, [typed EXCEPT ![x] = @ + 1]}
    BY DEF Deliver, Goes
  <1>5. op' \in Ops /\ op'.at \in {"delivered", "notDelivered", "unknown"} /\ op'.role = x
    BY <1>1, <1>4, HereFacts DEF Places
  <1>6. Rest'
    <2>1. /\ worker' \in [Roles -> [life : {"none", "live", "dead", "gone"},
                                    turn : {"fresh", "working", "reported"}]]
          /\ \A y \in Roles : worker'[y].life = worker[y].life
      <3>1. x \in Roles /\ worker \in [Roles -> [life : {"none", "live", "dead", "gone"},
                                               turn : {"fresh", "working", "reported"}]]
        BY <1>1, HereFacts DEF Inv, TypeOK
      <3>2. CASE worker' = worker BY <3>1, <3>2
      <3>3. CASE worker' = [worker EXCEPT ![x].turn = "working"] BY <3>1, <3>3
      <3>4. QED BY <1>4, <3>2, <3>3
    <2>2. /\ typed' \in [Roles -> Nat] /\ exits' \in [Roles -> Nat] /\ stops' \in [Roles -> Nat]
          /\ \A y \in Roles : typed'[y] # typed[y] => y = x /\ typed'[y] = 1
      BY <1>1, <1>2, <1>4, HereFacts DEF Inv, TypeOK
    <2>3. \A y \in Roles : typed'[y] # typed[y] =>
            typed'[y] <= 1 /\ run.role[y].att \notin {"none", "spawn_claimed"}
      BY <1>2, <2>2
    <2>4. QED BY <1>1, <1>4, <1>5, <2>1, <2>2, <2>3, InputStep
  <1>7. PlaceInv' BY <1>1, <1>2, <1>4, <1>5, HereFacts DEF PlaceInv
  <1>8. QED BY <1>6, <1>7, WholeInv

\* The result of the delivery is recorded.
LEMMA DeliveredKeeps == ASSUME Inv, Delivered PROVE Inv'
  <1> DEFINE x == op.role
  <1>1. op.at \in {"delivered", "notDelivered", "unknown"} BY DEF Delivered, Here
  <1>2. run.role[x].att = "dispatch_claimed" BY <1>1 DEF Inv, PlaceInv
  <1>3. UNCHANGED <<still, worker>> /\ seen' \in SUBSET Roles /\ late' \in BOOLEAN
    BY DEF Delivered, Inv, TypeOK
  <1>4. CanFinish(run, x) /\ CanDispatched(run, x)
    BY <1>1, <1>2, HereFacts, LiveFacts DEF CanFinish, CanDispatched, InService
  <1>5. /\ Good(run, Dispatched(run, x)) /\ Good(run, Crashed(run, x))
        /\ Good(run, Uncertain(run, x))
    BY <1>1, <1>2, <1>4, HereFacts, DispatchedGood, CrashedGood, UncertainGood
  <1>6. \/ Writes(CanDispatched(run, x), Dispatched(run, x), Idle)
        \/ Writes(CanFinish(run, x), Crashed(run, x), Thrown)
        \/ Writes(CanFinish(run, x), Uncertain(run, x), Thrown)
    BY DEF Delivered
  <1>7. QED BY <1>1, <1>3, <1>4, <1>5, <1>6, HereFacts, PlainWrite

\* /exit is typed with the authority for this role.
LEMMA ExitKeeps == ASSUME Inv, Exit PROVE Inv'
  <1> DEFINE x == op.role
  <1>1. op.at = "exit" BY DEF Exit, Here
  <1>2. run.role[x].clean = "claimed" /\ Allows(x) BY <1>1 DEF Inv, PlaceInv
  <1>3. /\ UNCHANGED <<run, auth, faults, upsets, refused>>
        /\ UNCHANGED <<begun, plan, onCourse, typed, stops, writes, seen, worker, late>>
        /\ op' \in {To("exited"), To("notExited")}
        /\ exits' \in {exits, [exits EXCEPT ![x] = @ + 1]}
    BY DEF Exit, Goes
  <1>4. op' \in Ops /\ op'.at \in {"exited", "notExited"} /\ op'.role = x
    BY <1>1, <1>3, HereFacts DEF Places
  <1>5. Rest'
    <2>1. /\ worker' \in [Roles -> [life : {"none", "live", "dead", "gone"},
                                    turn : {"fresh", "working", "reported"}]]
          /\ \A y \in Roles : worker'[y] = worker[y]
      BY <1>3 DEF Inv, TypeOK
    <2>2. /\ typed' \in [Roles -> Nat] /\ exits' \in [Roles -> Nat] /\ stops' \in [Roles -> Nat]
          /\ \A y \in Roles : exits'[y] # exits[y] => y = x /\ exits'[y] = exits[y] + 1
      BY <1>1, <1>3, HereFacts DEF Inv, TypeOK
    <2>3. \A y \in Roles : exits'[y] # exits[y] =>
            /\ exits'[y] = exits[y] + 1 /\ run.role[y].clean = "claimed"
            /\ Allows(y) /\ Exiting(y)'
      BY <1>2, <1>4, <2>2 DEF Exiting
    <2>4. QED BY <1>1, <1>3, <1>4, <2>1, <2>2, <2>3, InputStep
  <1>6. PlaceInv' BY <1>1, <1>2, <1>3, <1>4, HereFacts DEF PlaceInv
  <1>7. QED BY <1>5, <1>6, WholeInv

\* The /exit is recorded, or the cleanup given up.
LEMMA ExitedKeeps == ASSUME Inv, Exited PROVE Inv'
  <1> DEFINE x == op.role
  <1>1. op.at \in {"exited", "notExited"} BY DEF Exited, Here
  <1>2. run.role[x].clean = "claimed" BY <1>1 DEF Inv, PlaceInv
  <1>3. UNCHANGED <<still, worker>> /\ seen' \in SUBSET Roles /\ late' \in BOOLEAN
    BY DEF Exited, Inv, TypeOK
  <1>4. CASE Writes(CanCleanupSent(run, x), CleanupSent(run, x), After)
    <2>1. CanCleanupSent(run, x) BY <1>2 DEF CanCleanupSent
    <2>2. Good(run, CleanupSent(run, x)) BY <1>1, <2>1, HereFacts, CleanupSentGood
    <2>3. CleanupSent(run, x).role[x].clean # "claimed"
      BY <1>1, HereFacts DEF CleanupSent, RunRecord, RoleRecord
    <2>4. QED BY <1>1, <1>3, <1>4, <2>1, <2>2, <2>3, HereFacts, PlainWrite
  <1>5. CASE Writes(CanCleanupRequired(run, x), CleanupRequired(run, x), After)
    <2>1. CanCleanupRequired(run, x) /\ Good(run, CleanupRequired(run, x))
      BY <1>1, <1>2, HereFacts, CanGiveUp
    <2>2. CleanupRequired(run, x).role[x].clean # "claimed"
      BY <1>1, HereFacts DEF CleanupRequired, RunRecord, RoleRecord
    <2>3. QED BY <1>1, <1>3, <1>5, <2>1, <2>2, HereFacts, PlainWrite
  <1>6. QED BY <1>4, <1>5 DEF Exited

--------------------------------------------------------------------------------
(* Requests.                                                                      *)

\* Requests find the operation idle and the run there.
LEMMA RequestFacts ==
  ASSUME Inv, Request
  PROVE  /\ begun /\ op.at = "idle" /\ run \in RunRecord /\ RunInv(run)
         /\ Idle \in Ops /\ Idle.at \in Rests /\ NoAuth \in Auths /\ NoAuth.kind = "none"
         /\ \A x \in Roles, place \in Places, then \in {"advance", "end"} :
              /\ At(place, x, then) \in Ops /\ At(place, x, then).at = place
              /\ At(place, x, then).role = x
         /\ "supervise" \in Rests
         /\ seen \in SUBSET Roles /\ late \in BOOLEAN
         /\ \A x \in Roles : run.role[x] \in RoleRecord /\ Sound(run.role[x])
         /\ \A x \in Roles : auth.kind = "start" \/ (auth.kind # "none" /\ auth.role = x) =>
                               Allows(x)
  <1>1. /\ begun /\ op.at = "idle" /\ run \in RunRecord /\ RunInv(run) /\ auth \in Auths
        /\ seen \in SUBSET Roles /\ late \in BOOLEAN
    BY DEF Inv, TypeOK, Request, Auths
  <1>2. \A x \in Roles : run.role[x] \in RoleRecord /\ Sound(run.role[x]) BY RoleFacts
  <1>3. /\ Idle \in Ops /\ Idle.at \in Rests /\ NoAuth \in Auths /\ NoAuth.kind = "none"
        /\ \A x \in Roles, place \in Places, then \in {"advance", "end"} :
              /\ At(place, x, then) \in Ops /\ At(place, x, then).at = place
              /\ At(place, x, then).role = x
        /\ "supervise" \in Rests
    BY PlaceFacts DEF Rests
  <1>4. \A x \in Roles : auth.kind = "start" \/ (auth.kind # "none" /\ auth.role = x) => Allows(x)
    BY <1>1 DEF Allows, Auths, Kinds
  <1>5. QED BY <1>1, <1>2, <1>3, <1>4

\* The run is created.
LEMMA StartKeeps == ASSUME Inv, Start PROVE Inv'
  <1>1. op.at = "idle" /\ ~begun /\ run = Created BY DEF Start, Inv, PlaceInv
  <1>2. /\ run' = run /\ refused' = refused
        /\ UNCHANGED <<plan, onCourse, worker, late, typed, exits, stops, writes>> /\ seen' = seen
    BY DEF Start, world
  <1>3. \A x \in Roles : run.role[x].clean = "none" BY <1>1 DEF Created, NoRole
  <1>4. begun' \in BOOLEAN /\ op' \in Ops /\ auth' \in Auths /\ Counted
    <2>1. CASE /\ begun' = TRUE /\ auth' = [NoAuth EXCEPT !.kind = "start"]
               /\ Served("supervise", "advance") /\ UNCHANGED <<faults, upsets>>
      <3>1. op' \in Ops BY <2>1, PlaceFacts DEF Served, Places
      <3>2. auth' \in Auths BY <2>1 DEF Auths, NoAuth, Kinds, Roles
      <3>3. QED BY <2>1, <3>1, <3>2, BoundsAssumption DEF Counted, Inv, TypeOK
    <2>2. CASE begun' \in BOOLEAN /\ Fault /\ UNCHANGED <<auth, op>>
      BY <2>2, BoundsAssumption DEF Fault, Upset, Counted, Inv, TypeOK, Ops, Auths
    <2>3. QED BY <2>1, <2>2 DEF Start
  <1>5. Rest'
    <2>1. /\ onCourse' \in BOOLEAN /\ seen' \in SUBSET Roles /\ late' \in BOOLEAN
          /\ plan' \in [holds : {"source", "candidate", "edited"}, receipt : BOOLEAN]
          /\ worker' \in [Roles -> [life : {"none", "live", "dead", "gone"},
                                    turn : {"fresh", "working", "reported"}]]
      BY <1>2 DEF Inv, TypeOK
    <2>2. QED BY <1>2, <1>3, <1>4, <2>1, StillStep
  <1>6. PlaceInv'
    <2>1. CASE begun' = TRUE /\ Served("supervise", "advance")
      BY <2>1, PlaceFacts, RestPlace DEF Served, Rests
    <2>2. CASE op' = op BY <1>1, <1>2, <2>2 DEF PlaceInv
    <2>3. QED BY <2>1, <2>2 DEF Start
  <1>7. QED BY <1>5, <1>6, WholeInv

\* The operator has a role that waits for resources tried again.
LEMMA ContinueRetryKeeps == ASSUME Inv, ContinueRetry PROVE Inv'
  <1> DEFINE x == NextRole(run)
             next == AuthorizeRetry(run)
             done == At("supervise", x, "advance")
             authority == [kind |-> "resource_retry", role |-> x]
  <1>1. Request /\ x \in Roles /\ Eligible(run, x)
    BY NextRoleFacts DEF ContinueRetry, RetryEligible
  <1>2. CanAuthorizeRetry(run) BY DEF ContinueRetry, CanAuthorizeRetry
  <1>3. Good(run, next) BY <1>1, <1>2, RequestFacts, RetryGood
  <1>4. next.role = run.role BY <1>1, RequestFacts DEF AuthorizeRetry, RunRecord
  <1>5. run.role[x].clean = "none"
    BY <1>1, RequestFacts DEF Eligible, Sound, Unadopted, Adopted
  <1> HIDE DEF x, next
  <1>6. /\ UNCHANGED <<still, worker>> /\ seen' \in SUBSET Roles /\ late' \in BOOLEAN
        /\ UNCHANGED <<begun, plan, onCourse, worker, typed, exits, stops, writes>>
    BY <1>1, RequestFacts DEF ContinueRetry, still
  <1>7. done \in Ops /\ done.at \in Rests BY <1>1, RequestFacts DEF Rests, Places
  <1>8. authority \in Auths BY <1>1 DEF Auths, Kinds
  <1>9. CASE Mutates(CanAuthorizeRetry(run), next, done, Idle, authority)
    <2>1. \A y \in Roles : authority.kind = "start"
                             \/ (authority.kind # "none" /\ authority.role = y) =>
                             next.role[y].clean # "claimed"
      BY <1>4, <1>5
    <2> HIDE DEF authority, done
    <2>2. op.at = "idle" /\ begun /\ Idle \in Ops /\ Idle.at \in Rests
      BY <1>1, RequestFacts
    <2>3. QED BY <1>2, <1>3, <1>6, <1>7, <1>8, <1>9, <2>1, <2>2, RestWrite
  <1>10. CASE op' = Idle /\ auth' = NoAuth /\ UNCHANGED <<run, faults, upsets, refused>>
    BY <1>1, <1>6, <1>10, RequestFacts, GoStep
  <1>11. QED BY <1>9, <1>10 DEF ContinueRetry, x, next

\* The same request again gives the authority for a role that still is pending.
LEMMA ContinueRetryReplayKeeps ==
  ASSUME Inv, NEW x \in Roles, ContinueRetryReplay(x)
  PROVE  Inv'
  <1>1. Request BY DEF ContinueRetryReplay
  <1>2. /\ op' = At("supervise", "po", "advance") /\ UNCHANGED <<still, worker>>
        /\ UNCHANGED <<run, faults, upsets, refused, seen, late>>
    BY DEF ContinueRetryReplay, Served
  <1>3. op' \in Ops /\ op'.at \in Rests BY <1>2, PlaceFacts DEF Rests, Places
  <1>4. \/ auth' = NoAuth
        \/ auth' = [kind |-> "resource_retry", role |-> x] /\ Eligible(run, x)
    BY DEF ContinueRetryReplay
  <1>5. auth' \in Auths BY <1>4, PlaceFacts DEF Auths, Kinds
  <1>6. \A y \in Roles : Allows(y)' => run.role[y].clean = "none"
    <2>1. Eligible(run, x) => run.role[x].clean = "none"
      BY <1>1, RequestFacts DEF Eligible, Sound, Unadopted, Adopted
    <2>2. QED BY <1>4, <2>1 DEF Allows, NoAuth
  <1>7. Counted /\ begun' = begun
    BY <1>2, BoundsAssumption DEF Counted, Inv, TypeOK, still
  <1>8. Rest'
    <2>1. /\ begun' \in BOOLEAN /\ onCourse' \in BOOLEAN
          /\ seen' \in SUBSET Roles /\ late' \in BOOLEAN
          /\ plan' \in [holds : {"source", "candidate", "edited"}, receipt : BOOLEAN]
          /\ worker' \in [Roles -> [life : {"none", "live", "dead", "gone"},
                                    turn : {"fresh", "working", "reported"}]]
          /\ UNCHANGED <<plan, worker, typed, exits, stops, writes>>
      BY <1>2 DEF still, Inv, TypeOK
    <2>2. QED BY <1>2, <1>3, <1>5, <1>6, <1>7, <2>1, StillStep
  <1>9. QED BY <1>1, <1>3, <1>7, <1>8, RequestFacts, RestPlace, WholeInv

\* The operator has a worker told to leave once more, and the record counts it.
LEMMA ContinueCleanupKeeps ==
  ASSUME Inv, NEW x \in Roles, ContinueCleanup(x)
  PROVE  Inv'
  <1> DEFINE next == AuthorizeCleanup(run, x)
             done == At("supervise", x, "advance")
             authority == [kind |-> "cleanup_only", role |-> x]
  <1>1. Request /\ CanAuthorizeCleanup(run, x) BY DEF ContinueCleanup
  <1>2. Good(run, next) /\ next.cleanups = run.cleanups + 1
    BY <1>1, RequestFacts, AuthorizeCleanupGood
  <1>3. next.cleanups > run.cleanups
    BY <1>1, <1>2, RequestFacts, ReceiptsAssumption DEF RunRecord
  <1>4. /\ UNCHANGED <<begun, plan, onCourse, worker, typed, exits, stops, writes>>
        /\ seen' \in SUBSET Roles /\ late' \in BOOLEAN
    BY <1>1, RequestFacts DEF ContinueCleanup, still
  <1>5. done \in Ops /\ done.at \in Rests BY <1>1, RequestFacts DEF Rests, Places
  <1>6. authority \in Auths BY DEF Auths, Kinds
  <1>7. Mutates(TRUE, next, done, Idle, authority) BY DEF ContinueCleanup
  <1> HIDE DEF next, done, authority
  <1>8. op.at = "idle" /\ begun /\ Idle \in Ops /\ Idle.at \in Rests
    BY <1>1, RequestFacts
  <1>9. QED BY <1>2, <1>3, <1>4, <1>5, <1>6, <1>7, <1>8, RestWrite

\* A request that is repeated, or that only looks, has no authority of its own.
LEMMA ReplayKeeps == ASSUME Inv, ContinueCleanupReplay \/ TerminateReplay PROVE Inv'
  <1>1. Request BY DEF ContinueCleanupReplay, TerminateReplay
  <1>2. /\ op' = At("supervise", "po", "end") /\ auth' \in {auth, NoAuth}
        /\ UNCHANGED <<run, faults, upsets, refused>> /\ UNCHANGED <<still, worker>>
        /\ seen' = seen /\ late' = late
    BY DEF ContinueCleanupReplay, TerminateReplay, Served
  <1>3. op' \in Ops /\ op'.at \in Rests BY <1>2, PlaceFacts DEF Rests, Places
  <1>4. QED BY <1>1, <1>2, <1>3, RequestFacts, GoStep

\* The dead pane of a worker that is to be recovered is removed.
LEMMA ContinueReapKeeps ==
  ASSUME Inv, NEW x \in Roles, ContinueReap(x)
  PROVE  Inv'
  <1>1. Request BY DEF ContinueReap
  <1>2. /\ op' = At("reaped", x, "end") /\ worker' = [worker EXCEPT ![x].life = "gone"]
        /\ UNCHANGED <<begun, plan, onCourse, typed, exits, stops, writes>>
        /\ UNCHANGED <<run, auth, faults, upsets, refused, seen, late>>
    BY DEF ContinueReap, still
  <1>3. op' \in Ops /\ op'.at = "reaped" /\ op'.role = x BY <1>2, PlaceFacts DEF Places
  <1>4. /\ worker' \in [Roles -> [life : {"none", "live", "dead", "gone"},
                                  turn : {"fresh", "working", "reported"}]]
        /\ worker'[x].life = "gone" /\ \A y \in Roles : y # x => worker'[y] = worker[y]
    BY <1>2 DEF Inv, TypeOK
  <1>5. Rest'
    <2>1. \A y \in Roles : worker'[y].life \in {"live", "dead"} =>
                             worker[y].life \in {"live", "dead"}
      BY <1>4
    <2>2. typed' \in [Roles -> Nat] /\ exits' \in [Roles -> Nat] /\ stops' \in [Roles -> Nat]
      BY <1>2 DEF Inv, TypeOK
    <2>3. QED BY <1>1, <1>2, <1>3, <1>4, <2>1, <2>2, RequestFacts, InputStep
  <1>6. PlaceInv' BY <1>1, <1>2, <1>3, <1>4, RequestFacts DEF PlaceInv
  <1>7. QED BY <1>5, <1>6, WholeInv

\* A cleanup without a worker is recovered.
LEMMA ContinueAbsentKeeps ==
  ASSUME Inv, NEW x \in Roles, ContinueAbsent(x)
  PROVE  Inv'
  <1>1. /\ op.at \in {"idle", "reaped"} /\ begun /\ worker[x].life \in {"none", "gone"}
        /\ run \in RunRecord /\ RunInv(run)
    BY DEF ContinueAbsent, Request, Here, Inv, PlaceInv, TypeOK
  <1>2. Idle \in Ops /\ Idle.at \in Rests /\ NoAuth \in Auths /\ NoAuth.kind = "none"
    BY PlaceFacts DEF Rests
  <1>3. Good(run, RecoverAbsent(run, x)) BY <1>1, RecoverAbsentGood DEF ContinueAbsent
  <1>4. /\ UNCHANGED <<begun, plan, onCourse, worker, typed, exits, stops, writes>>
        /\ seen' \in SUBSET Roles /\ late' \in BOOLEAN
    BY DEF ContinueAbsent, still, Inv, TypeOK
  <1>5. Mutates(TRUE, RecoverAbsent(run, x), Idle, Idle, NoAuth) BY DEF ContinueAbsent
  <1>6. QED BY <1>1, <1>2, <1>3, <1>4, <1>5, RestWrite

--------------------------------------------------------------------------------
(* The stop of a provisional worker, and the end of a run.                        *)

\* The stop is claimed before it is made.
LEMMA TerminateKeeps ==
  ASSUME Inv, NEW x \in Roles, Terminate(x)
  PROVE  Inv'
  <1> DEFINE next == ClaimStop(run, x)
  <1>1. Request /\ run.role[x].lease = "reconcile_required" /\ run.role[x].stop = "none"
    BY DEF Terminate, Provisional
  <1>2. CanClaimStop(run, x)
    BY <1>1, RequestFacts, Stops DEF CanClaimStop, Unadopted
  <1>3. Good(run, next) BY <1>1, <1>2, RequestFacts, StopGood
  <1>4. /\ next.role[x].lease = "reconcile_required" /\ next.role[x].stop = "claimed"
        /\ stops[x] = 0
    BY <1>1, RequestFacts DEF ClaimStop, RunRecord, RoleRecord, Inv, Ledger
  <1>5. /\ UNCHANGED <<still, worker>> /\ seen' \in SUBSET Roles /\ late' \in BOOLEAN
        /\ UNCHANGED <<begun, plan, onCourse, worker, typed, exits, stops, writes>>
    BY <1>1, RequestFacts DEF Terminate, still
  <1>6. PICK done \in {At("supervise", x, "end"), At("stop", x, "end")} :
          Writes(CanClaimStop(run, x), next, done)
    BY DEF Terminate
  <1>7. /\ done \in Ops /\ done.at \in {"supervise", "stop"} /\ done.role = x
    BY <1>1, RequestFacts DEF Places
  <1>8. op \in Ops /\ Thrown \in Ops /\ Thrown.at \in Rests
    BY PlaceFacts DEF Rests, Inv, TypeOK, Ops
  <1>9. Mutates(CanClaimStop(run, x), next, done, Thrown, auth) BY <1>6 DEF Writes
  <1> HIDE DEF next
  <1>10. Rest' /\ Wrote(next, done, Thrown, auth)
    <2>1. auth \in Auths BY DEF Inv, TypeOK, Auths
    <2>2. QED BY <1>1, <1>2, <1>3, <1>5, <1>7, <1>8, <1>9, <2>1, RequestFacts, WriteStep
  <1>11. PlaceInv'
    <2>1. CASE op'.at \in Rests BY <1>1, <1>5, <2>1, RequestFacts, RestPlace
    <2>2. CASE op' = done /\ done.at = "stop" /\ run' = next
      BY <1>1, <1>4, <1>5, <1>7, <2>2, RequestFacts DEF PlaceInv
    <2>3. QED BY <1>7, <1>8, <1>10, <2>1, <2>2 DEF Wrote, Rests
  <1>12. QED BY <1>10, <1>11, WholeInv

\* The scope is stopped, once, and may be gone.
LEMMA StopKeeps == ASSUME Inv, Stop PROVE Inv'
  <1> DEFINE x == op.role
  <1>1. op.at = "stop" BY DEF Stop, Here
  <1>2. /\ run.role[x].lease = "reconcile_required" /\ run.role[x].stop = "claimed"
        /\ stops[x] = 0
    BY <1>1 DEF Inv, PlaceInv
  <1>3. /\ UNCHANGED <<run, auth, faults, upsets, refused>>
        /\ UNCHANGED <<begun, plan, onCourse, typed, exits, writes, seen, late>>
        /\ op' \in {To("stopped"), Idle}
        /\ worker' \in {worker, [worker EXCEPT ![x].life = "gone"]}
        /\ stops' = [stops EXCEPT ![x] = @ + 1]
    BY DEF Stop, Goes
  <1>4. op' \in Ops /\ (op'.at \in Rests \/ (op'.at = "stopped" /\ op'.role = x))
    BY <1>1, <1>3, HereFacts DEF Places
  <1>5. Rest'
    <2>1. x \in Roles /\ worker \in [Roles -> [life : {"none", "live", "dead", "gone"},
                                               turn : {"fresh", "working", "reported"}]]
      BY <1>1, HereFacts DEF Inv, TypeOK
    <2>2. /\ worker' \in [Roles -> [life : {"none", "live", "dead", "gone"},
                                    turn : {"fresh", "working", "reported"}]]
          /\ \A y \in Roles : worker'[y].life \in {"live", "dead"} =>
                                worker[y].life \in {"live", "dead"}
      <3>1. CASE worker' = worker BY <2>1, <3>1
      <3>2. CASE worker' = [worker EXCEPT ![x].life = "gone"] BY <2>1, <3>2
      <3>3. QED BY <1>3, <3>1, <3>2
    <2>3. /\ typed' \in [Roles -> Nat] /\ exits' \in [Roles -> Nat] /\ stops' \in [Roles -> Nat]
          /\ \A y \in Roles : stops'[y] # stops[y] => y = x /\ stops'[y] = 1
      BY <1>2, <1>3, <2>1 DEF Inv, TypeOK
    <2>4. \A y \in Roles : stops'[y] # stops[y] => stops'[y] <= 1 /\ run.role[y].stop # "none"
      BY <1>2, <2>3
    <2>5. QED BY <1>1, <1>3, <1>4, <2>2, <2>3, <2>4, InputStep
  <1>6. PlaceInv'
    <2>1. CASE op'.at \in Rests BY <1>1, <1>3, <2>1, HereFacts, RestPlace
    <2>2. CASE op'.at = "stopped" /\ op'.role = x
      BY <1>1, <1>2, <1>3, <2>2, HereFacts DEF PlaceInv
    <2>3. QED BY <1>4, <2>1, <2>2
  <1>7. QED BY <1>5, <1>6, WholeInv

\* The stop is recorded as sent.
LEMMA StopIsSentKeeps == ASSUME Inv, StopIsSent PROVE Inv'
  <1> DEFINE x == op.role
  <1>1. op.at = "stopped" BY DEF StopIsSent, Here
  <1>2. CanStopSent(run, x) BY <1>1 DEF Inv, PlaceInv, CanStopSent
  <1>3. UNCHANGED <<still, worker>> /\ seen' \in SUBSET Roles /\ late' \in BOOLEAN
    BY DEF StopIsSent, Inv, TypeOK
  <1>4. Good(run, StopSent(run, x)) BY <1>1, <1>2, HereFacts, StopGood
  <1>5. To("supervise") \in Ops /\ To("supervise").at \in Rests
    BY <1>1, HereFacts DEF Places, Rests
  <1>6. Writes(CanStopSent(run, x), StopSent(run, x), To("supervise")) BY DEF StopIsSent
  <1>7. QED BY <1>1, <1>2, <1>3, <1>4, <1>5, <1>6, HereFacts, PlainWrite

\* A run without workers is closed.
LEMMA CancelKeeps == ASSUME Inv, CancelRequest PROVE Inv'
  <1>1. Request /\ CanCancel(run) BY DEF CancelRequest
  <1>2. Good(run, Cancel(run)) BY <1>1, RequestFacts, EndsGood
  <1>3. /\ UNCHANGED <<begun, plan, onCourse, worker, typed, exits, stops, writes>>
        /\ seen' \in SUBSET Roles /\ late' \in BOOLEAN
    BY <1>1, RequestFacts DEF CancelRequest, still
  <1>4. Mutates(TRUE, Cancel(run), Idle, Idle, NoAuth) BY DEF CancelRequest
  <1>5. QED BY <1>1, <1>2, <1>3, <1>4, RequestFacts, RestWrite

--------------------------------------------------------------------------------
(* The application of the candidate.                                              *)

\* The application is claimed, or found to be off course.
LEMMA ApplyRequestKeeps == ASSUME Inv, ApplyRequest PROVE Inv'
  <1> DEFINE next == ClaimApply(run)
             done == At("apply", "po", "end")
  <1>1. Request /\ CanClaimApply(run) BY DEF ApplyRequest
  <1>2. /\ UNCHANGED <<still, worker>> /\ seen' \in SUBSET Roles /\ late' \in BOOLEAN
        /\ UNCHANGED <<begun, plan, onCourse, worker, typed, exits, stops, writes>>
    BY <1>1, RequestFacts DEF ApplyRequest, still
  <1>3. CASE Writes(TRUE, next, done)
    <2>1. Good(run, next) BY <1>1, RequestFacts, CandidateGood
    <2>2. next.outbox = "claimed" BY <1>1, RequestFacts DEF ClaimApply, RunRecord
    <2>3. done \in Ops /\ done.at = "apply" BY <1>1, PlaceFacts DEF Places
    <2>4. op \in Ops /\ Thrown \in Ops /\ Thrown.at \in Rests /\ auth \in Auths
      BY PlaceFacts DEF Rests, Inv, TypeOK, Ops, Auths
    <2>5. Mutates(TRUE, next, done, Thrown, auth) BY <1>3 DEF Writes
    <2> HIDE DEF next, done
    <2>6. Rest' /\ Wrote(next, done, Thrown, auth)
      BY <1>1, <1>2, <2>1, <2>3, <2>4, <2>5, RequestFacts, WriteStep
    <2>7. PlaceInv'
      <3>1. CASE op' = Thrown BY <1>1, <1>2, <2>4, <3>1, RequestFacts, RestPlace
      <3>2. CASE op' = done /\ run' = next
        BY <1>1, <1>2, <2>2, <2>3, <3>2, RequestFacts DEF PlaceInv, Reconciling
      <3>3. QED BY <2>6, <3>1, <3>2 DEF Wrote
    <2>8. QED BY <2>6, <2>7, WholeInv
  <1>4. CASE Writes(CanMarkOffCourse(run), MarkOffCourse(run), Idle)
    <2>1. CanMarkOffCourse(run) BY <1>1 DEF CanClaimApply, CanMarkOffCourse, Terminal
    <2>2. Good(run, MarkOffCourse(run)) BY <1>1, <2>1, RequestFacts, EndsGood
    <2>3. QED BY <1>1, <1>2, <1>4, <2>1, <2>2, RequestFacts, PlainWrite
  <1>5. QED BY <1>3, <1>4 DEF ApplyRequest

\* The application that is under way is looked at again.
LEMMA ApplyReplayKeeps == ASSUME Inv, ApplyReplay PROVE Inv'
  <1> DEFINE next == At("apply", "po", "end")
  <1>1. Request /\ Reconciling BY DEF ApplyReplay
  <1>2. next \in Ops /\ next.at = "apply" BY <1>1, PlaceFacts DEF Places
  <1>3. /\ op' = next /\ auth' = auth /\ UNCHANGED <<run, faults, upsets, refused>>
        /\ UNCHANGED <<still, worker>> /\ seen' \in SUBSET Roles /\ late' \in BOOLEAN
    BY <1>1, RequestFacts DEF ApplyReplay, Goes
  <1> HIDE DEF next
  <1>4. Rest' /\ begun' = begun BY <1>1, <1>2, <1>3, RequestFacts, GoStep
  <1>5. PlaceInv'
    BY <1>1, <1>2, <1>3, <1>4, RequestFacts DEF PlaceInv, Reconciling
  <1>6. QED BY <1>4, <1>5, WholeInv

\* The candidate goes into the plan, which has no receipt of it yet.
LEMMA ApplyToPlanKeeps == ASSUME Inv, ApplyToPlan PROVE Inv'
  <1>1. op.at = "apply" /\ ~plan.receipt BY DEF ApplyToPlan, Here
  <1>2. run.outbox \in {"claimed", "reconcile_required"} /\ writes = 0
    BY <1>1 DEF Inv, PlaceInv, PlanInv, Reconciling
  <1>3. /\ UNCHANGED <<run, auth, refused>>
        /\ UNCHANGED <<begun, onCourse, typed, exits, stops, seen, worker, late>>
        /\ \/ plan' = [holds |-> "candidate", receipt |-> TRUE] /\ writes' = writes + 1
           \/ plan' = plan /\ writes' = writes /\ op' = To("applyFailed")
        /\ op' \in {To("planned"), To("applyFailed")}
    BY DEF ApplyToPlan, Goes
  <1>4. op' \in Ops /\ op'.at \in {"planned", "applyFailed"}
    BY <1>1, <1>3, HereFacts DEF Places
  <1>5. Counted
    BY BoundsAssumption DEF ApplyToPlan, Goes, Fault, Upset, Counted, Inv, TypeOK
  <1>6. /\ plan' \in [holds : {"source", "candidate", "edited"}, receipt : BOOLEAN]
        /\ writes' = IF plan'.receipt THEN 1 ELSE 0
        /\ plan'.receipt \/ op'.at = "applyFailed"
    <2>1. To("applyFailed").at = "applyFailed" BY <1>1, HereFacts DEF Places
    <2>2. plan \in [holds : {"source", "candidate", "edited"}, receipt : BOOLEAN]
      BY DEF Inv, TypeOK
    <2>3. CASE plan' = [holds |-> "candidate", receipt |-> TRUE] /\ writes' = writes + 1
      BY <1>2, <2>3
    <2>4. CASE plan' = plan /\ writes' = writes /\ op' = To("applyFailed")
      BY <1>1, <1>2, <2>1, <2>2, <2>4
    <2>5. QED BY <1>3, <2>3, <2>4
  <1>7. TypeOK'
    BY <1>3, <1>4, <1>5, <1>6 DEF Inv, TypeOK, Counted, Ops
  <1>8. PlanInv' BY <1>2, <1>3, <1>6 DEF PlanInv
  <1>9. Ledger'
    <2>1. \A x \in Roles : (Allows(x)' <=> Allows(x)) /\ ~Exiting(x)
      BY <1>1, <1>3 DEF Allows, Exiting
    <2>2. /\ faults \in Nat /\ faults' \in Nat /\ faults' >= faults /\ run.cleanups \in Nat
          /\ \A x \in Roles : exits[x] \in Nat
      BY <1>5, BoundsAssumption, ReceiptsAssumption DEF Counted, Inv, TypeOK, RunRecord
    <2> SUFFICES ASSUME NEW x \in Roles
                 PROVE  LET a == run.role[x]
                        IN /\ typed[x] <= 1 /\ (a.att \in {"none", "spawn_claimed"} => typed[x] = 0)
                           /\ stops[x] <= 1 /\ (a.stop = "none" => stops[x] = 0)
                           /\ exits[x] <= 1 + run.cleanups + faults'
                           /\ a.clean \in {"none", "pending"} => exits[x] = 0
                           /\ a.clean = "claimed" /\ Allows(x)' /\ ~Exiting(x)' =>
                                exits[x] <= run.cleanups + faults'
                           /\ worker[x].life \in {"live", "dead"} => Live(a)
      BY <1>3 DEF Ledger
    <2>3. exits[x] <= 1 + run.cleanups + faults BY DEF Inv, Ledger
    <2>4. exits[x] <= 1 + run.cleanups + faults' BY <2>2, <2>3
    <2>5. run.role[x].clean = "claimed" /\ Allows(x)' =>
            exits[x] <= run.cleanups + faults'
      <3>1. run.role[x].clean = "claimed" /\ Allows(x)' => exits[x] <= run.cleanups + faults
        BY <2>1 DEF Inv, Ledger
      <3>2. QED BY <2>2, <3>1
    <2>6. QED BY <2>4, <2>5 DEF Inv, Ledger
  <1>10. PlaceInv'
    <2>1. CASE op'.at = "applyFailed" BY <1>1, <1>3, <2>1, HereFacts, RestPlace DEF Rests
    <2>2. CASE op'.at = "planned" BY <1>1, <1>3, <1>6, <2>2, HereFacts DEF PlaceInv
    <2>3. QED BY <1>4, <2>1, <2>2
  <1>11. QED BY <1>3, <1>7, <1>8, <1>9, <1>10 DEF Inv, NeverRefused

\* The receipt in the plan is found.
LEMMA ApplyReceiptKeeps == ASSUME Inv, ApplyReceipt PROVE Inv'
  <1>1. op.at = "apply" /\ plan.receipt BY DEF ApplyReceipt, Here
  <1>2. PICK next \in {To("planned"), To("applyFailed")} : Goes(next) BY DEF ApplyReceipt
  <1>3. UNCHANGED <<still, worker>> /\ seen' \in SUBSET Roles /\ late' \in BOOLEAN
    BY DEF ApplyReceipt, Inv, TypeOK
  <1>4. next \in Ops /\ next.at \in {"planned", "applyFailed"}
    BY <1>1, <1>2, HereFacts DEF Places
  <1>5. Rest' /\ begun' = begun BY <1>1, <1>2, <1>3, <1>4, GoStep DEF Goes
  <1>6. PlaceInv' BY <1>1, <1>2, <1>3, <1>4, <1>5, HereFacts DEF PlaceInv, Goes, still
  <1>7. QED BY <1>5, <1>6, WholeInv

\* Without the receipt a run off its course is to be abandoned.
LEMMA ApplyOffCourseKeeps == ASSUME Inv, ApplyOffCourse PROVE Inv'
  <1> DEFINE next == MarkOffCourse(run)
  <1>1. op.at = "apply" /\ ~plan.receipt BY DEF ApplyOffCourse, Here
  <1>2. Reconciling BY <1>1 DEF Inv, PlaceInv
  <1>3. /\ UNCHANGED <<still, worker>> /\ seen' \in SUBSET Roles /\ late' \in BOOLEAN
        /\ UNCHANGED <<begun, plan, onCourse, worker, typed, exits, stops, writes>>
    BY DEF ApplyOffCourse, still, Inv, TypeOK
  <1>4. /\ To("abandon") \in Ops /\ To("abandon").at = "abandon"
        /\ To("applyFailed") \in Ops /\ To("applyFailed").at \in Rests
    BY <1>1, HereFacts DEF Places, Rests
  <1>5. CASE run.condition = "off_course" /\ Goes(To("abandon"))
    <2>1. Rest' /\ begun' = begun BY <1>1, <1>3, <1>4, <1>5, GoStep DEF Goes
    <2>2. PlaceInv'
      BY <1>1, <1>2, <1>3, <1>4, <1>5, HereFacts DEF PlaceInv, Goes, Reconciling
    <2>3. QED BY <2>1, <2>2, WholeInv
  <1>6. CASE /\ run.condition # "off_course"
             /\ Mutates(CanMarkOffCourse(run), next, To("abandon"), To("applyFailed"), auth)
    <2>1. CanMarkOffCourse(run)
      BY <1>1, <1>2, <1>6, HereFacts, ReviewFacts DEF Reconciling, CanMarkOffCourse, Terminal
    <2>2. Good(run, next) /\ next.condition = "off_course" BY <1>1, <2>1, HereFacts, EndsGood
    <2>3. next.outbox = run.outbox BY <1>1, HereFacts DEF MarkOffCourse, RunRecord
    <2> HIDE DEF next
    <2>4. Rest' /\ Wrote(next, To("abandon"), To("applyFailed"), auth)
      BY <1>1, <1>3, <1>4, <1>6, <2>1, <2>2, HereFacts, WriteStep
    <2>5. PlaceInv'
      <3>1. CASE op' = To("applyFailed") BY <1>1, <1>3, <1>4, <3>1, HereFacts, RestPlace
      <3>2. CASE op' = To("abandon") /\ run' = next
        BY <1>1, <1>2, <1>3, <1>4, <2>2, <2>3, <3>2, HereFacts DEF PlaceInv, Reconciling
      <3>3. QED BY <2>4, <3>1, <3>2 DEF Wrote
    <2>6. QED BY <2>4, <2>5, WholeInv
  <1>7. QED BY <1>5, <1>6 DEF ApplyOffCourse

\* The application is abandoned.
LEMMA AbandonKeeps == ASSUME Inv, Abandon PROVE Inv'
  <1> DEFINE next == AbandonApply(run)
             done == To("applyFailed")
  <1>1. op.at = "abandon" BY DEF Abandon, Here
  <1>2. Reconciling /\ run.condition = "off_course" /\ ~plan.receipt
    BY <1>1 DEF Inv, PlaceInv
  <1>3. /\ UNCHANGED <<begun, plan, onCourse, worker, typed, exits, stops, writes>>
        /\ seen' \in SUBSET Roles /\ late' \in BOOLEAN
    BY DEF Abandon, still, Inv, TypeOK
  <1>4. done \in Ops /\ done.at \in Rests BY <1>1, HereFacts DEF Places, Rests
  <1>5. CanAbandonApply(run)
    BY <1>1, <1>2, HereFacts, ReviewFacts DEF Reconciling, CanAbandonApply
  <1>6. Good(run, next) BY <1>1, <1>2, <1>5, HereFacts, ApplyGood
  <1>7. Mutates(CanAbandonApply(run), next, done, done, auth) BY DEF Abandon
  <1>8. begun /\ auth \in Auths BY <1>1, HereFacts
  <1>9. \A x \in Roles : auth.kind = "start" \/ (auth.kind # "none" /\ auth.role = x) => Allows(x)
    BY <1>8 DEF Allows, Auths, Kinds
  <1> HIDE DEF next, done
  <1>10. QED BY <1>1, <1>3, <1>4, <1>5, <1>6, <1>7, <1>8, <1>9, RestWrite

\* The run is applied, if the domain accepts it.
LEMMA PlannedKeeps == ASSUME Inv, Planned PROVE Inv'
  <1>1. op.at = "planned" BY DEF Planned, Here
  <1>2. plan.receipt BY <1>1 DEF Inv, PlaceInv
  <1>3. /\ UNCHANGED <<still, worker>> /\ seen' \in SUBSET Roles /\ late' \in BOOLEAN
        /\ UNCHANGED <<begun, plan, onCourse, worker, typed, exits, stops, writes>>
    BY DEF Planned, still, Inv, TypeOK
  <1>4. /\ To("applyFailed") \in Ops /\ To("applyFailed").at \in Rests
        /\ NoAuth \in Auths /\ NoAuth.kind = "none"
    BY <1>1, HereFacts, PlaceFacts DEF Places, Rests
  <1>5. CASE /\ CanMarkApplied(run)
             /\ Mutates(TRUE, MarkApplied(run), After, To("applyFailed"), NoAuth)
    <2> DEFINE next == MarkApplied(run)
               failed == To("applyFailed")
    <2>1. Good(run, next) BY <1>1, <1>2, <1>5, HereFacts, ApplyGood
    <2>2. begun /\ After \in Ops /\ After.at \in Rests BY <1>1, HereFacts
    <2>3. failed \in Ops /\ failed.at \in Rests BY <1>4
    <2>4. Mutates(TRUE, next, After, failed, NoAuth) BY <1>5
    <2> HIDE DEF next, failed
    <2>5. QED BY <1>1, <1>3, <1>4, <2>1, <2>2, <2>3, <2>4, RestWrite
  <1>6. CASE Goes(To("applyFailed")) BY <1>1, <1>3, <1>4, <1>6, HereFacts, GoStep DEF Goes
  <1>7. QED BY <1>5, <1>6 DEF Planned

\* A failed application is to be reconciled.
LEMMA ApplyFailsKeeps == ASSUME Inv, ApplyFails PROVE Inv'
  <1>1. op.at = "applyFailed" BY DEF ApplyFails, Here
  <1>2. /\ UNCHANGED <<still, worker>> /\ seen' \in SUBSET Roles /\ late' \in BOOLEAN
        /\ UNCHANGED <<begun, plan, onCourse, worker, typed, exits, stops, writes>>
    BY DEF ApplyFails, still, Inv, TypeOK
  <1>3. CASE /\ CanReconcileApply(run)
             /\ Mutates(TRUE, ReconcileApply(run), After, After, auth)
    <2>1. Good(run, ReconcileApply(run)) BY <1>1, <1>3, HereFacts, CandidateGood
    <2>2. QED BY <1>1, <1>2, <1>3, <2>1, HereFacts, RestWrite
  <1>4. CASE Goes(After) BY <1>1, <1>2, <1>4, HereFacts, GoStep DEF Goes
  <1>5. QED BY <1>3, <1>4 DEF ApplyFails

--------------------------------------------------------------------------------
(* The environment.                                                               *)

\* Workers and the world move while the operation stays where it is; no worker comes
\* back by itself.
LEMMA WorldStep ==
  ASSUME Inv, Counted, UNCHANGED <<begun, run, refused, auth, op, typed, exits, stops, writes>>,
         plan'.receipt = plan.receipt, onCourse' \in BOOLEAN, seen' \in SUBSET Roles,
         late' \in BOOLEAN,
         plan' \in [holds : {"source", "candidate", "edited"}, receipt : BOOLEAN],
         worker' \in [Roles -> [life : {"none", "live", "dead", "gone"},
                                turn : {"fresh", "working", "reported"}]],
         \A x \in Roles : worker'[x].life \in {"live", "dead"} =>
                            worker[x].life \in {"live", "dead"}
  PROVE  Inv'
  <1>1. Rest'
    <2>1. begun' \in BOOLEAN /\ op' \in Ops /\ auth' \in Auths
      BY DEF Inv, TypeOK, Ops, Auths
    <2>2. \A x \in Roles : (Allows(x)' <=> Allows(x)) /\ (Exiting(x)' <=> Exiting(x))
      BY DEF Allows, Exiting
    <2>3. QED BY <2>1, <2>2, StillStep
  <1>2. PlaceInv'
    <2>1. op.role \in Roles BY DEF Inv, TypeOK
    <2>2. worker[op.role].life \in {"none", "gone"} => worker'[op.role].life \in {"none", "gone"}
      BY <2>1
    <2>3. \A x \in Roles : Allows(x)' <=> Allows(x) BY DEF Allows
    <2>4. Reconciling' <=> Reconciling BY DEF Reconciling
    <2>5. QED BY <2>1, <2>2, <2>3, <2>4 DEF Inv, PlaceInv
  <1>3. QED BY <1>1, <1>2, WholeInv

\* A worker reports, or dies.
LEMMA WorkerKeeps == ASSUME Inv, Worker PROVE Inv'
  <1>1. PICK x \in Roles : WorkerReports(x) \/ WorkerDies(x) BY DEF Worker
  <1>2. /\ UNCHANGED <<begun, run, refused, faults, auth, seen, op, typed, exits, stops, writes>>
        /\ UNCHANGED <<plan, onCourse, late, upsets>>
    BY <1>1 DEF WorkerReports, WorkerDies, unserved, record
  <1>3. worker \in [Roles -> [life : {"none", "live", "dead", "gone"},
                              turn : {"fresh", "working", "reported"}]]
    BY DEF Inv, TypeOK
  <1>4. /\ worker' \in [Roles -> [life : {"none", "live", "dead", "gone"},
                                  turn : {"fresh", "working", "reported"}]]
        /\ \A y \in Roles : worker'[y].life \in {"live", "dead"} =>
                              worker[y].life \in {"live", "dead"}
    <2>1. CASE WorkerReports(x) BY <1>3, <2>1 DEF WorkerReports
    <2>2. CASE WorkerDies(x)
      <3>1. PICK life \in {"dead", "gone"} : worker' = [worker EXCEPT ![x].life = life]
        BY <2>2 DEF WorkerDies
      <3>2. worker[x].life = "live" BY <2>2 DEF WorkerDies
      <3>3. QED BY <1>3, <3>1, <3>2
    <2>3. QED BY <1>1, <2>1, <2>2
  <1>5. /\ Counted /\ onCourse' \in BOOLEAN /\ seen' \in SUBSET Roles /\ late' \in BOOLEAN
        /\ plan' \in [holds : {"source", "candidate", "edited"}, receipt : BOOLEAN]
        /\ plan'.receipt = plan.receipt
    BY <1>2, BoundsAssumption DEF Counted, Inv, TypeOK
  <1>6. QED BY <1>2, <1>4, <1>5, WorldStep

\* A deadline passes, the workspace leaves its baseline, or the plan is edited.
LEMMA WorldKeeps == ASSUME Inv, TimePasses \/ CourseFlips \/ PlanEdited PROVE Inv'
  <1>1. /\ UNCHANGED <<begun, run, refused, faults, auth, seen, op, typed, exits, stops, writes>>
        /\ UNCHANGED worker
    BY DEF TimePasses, CourseFlips, PlanEdited, unserved, record
  <1>2. onCourse' \in BOOLEAN /\ late' \in BOOLEAN /\ seen' \in SUBSET Roles
    BY <1>1 DEF TimePasses, CourseFlips, PlanEdited, Inv, TypeOK
  <1>3. /\ plan' \in [holds : {"source", "candidate", "edited"}, receipt : BOOLEAN]
        /\ plan'.receipt = plan.receipt
    BY DEF TimePasses, CourseFlips, PlanEdited, Inv, TypeOK
  <1>4. upsets' = upsets \/ Upset BY DEF TimePasses, CourseFlips, PlanEdited
  <1>5. Counted BY <1>1, <1>4, BoundsAssumption DEF Counted, Upset, Inv, TypeOK
  <1>6. worker' \in [Roles -> [life : {"none", "live", "dead", "gone"},
                               turn : {"fresh", "working", "reported"}]]
    BY <1>1 DEF Inv, TypeOK
  <1>7. QED BY <1>1, <1>2, <1>3, <1>5, <1>6, WorldStep

\* The process dies; the worker it was starting may come up all the same.
LEMMA CrashKeeps == ASSUME Inv, Crash PROVE Inv'
  <1>1. /\ op' = Down /\ auth' = NoAuth /\ seen' = {}
        /\ UNCHANGED <<begun, run, refused, faults, plan, onCourse, late, typed, exits, stops, writes>>
        /\ upsets' = upsets + 1 /\ upsets < MaxUpsets
        /\ worker' = worker \/ (op.at = "spawn" /\ worker' = Started)
    BY DEF Crash, record, Upset, Here
  <1>2. Counted BY <1>1, BoundsAssumption DEF Counted, Inv, TypeOK
  <1>3. /\ begun' \in BOOLEAN /\ onCourse' \in BOOLEAN /\ seen' \in SUBSET Roles
        /\ late' \in BOOLEAN /\ plan'.receipt = plan.receipt
        /\ plan' \in [holds : {"source", "candidate", "edited"}, receipt : BOOLEAN]
    BY <1>1 DEF Inv, TypeOK
  <1>4. op' \in Ops /\ auth' \in Auths /\ op'.at = "down" /\ auth'.kind = "none"
    BY <1>1, PlaceFacts
  <1>5. /\ worker' \in [Roles -> [life : {"none", "live", "dead", "gone"},
                                  turn : {"fresh", "working", "reported"}]]
        /\ \A x \in Roles : worker'[x].life \in {"live", "dead"} =>
                              worker[x].life \in {"live", "dead"} \/ Live(run.role[x])
    <2>1. CASE worker' = worker BY <2>1 DEF Inv, TypeOK
    <2>2. CASE op.at = "spawn" /\ worker' = Started
      <3>1. run.role[op.role].lease = "claimed" BY <2>2 DEF Inv, PlaceInv
      <3>2. Live(run.role[op.role])
        BY <2>2, <3>1, HereFacts, LiveFacts
      <3>3. op.role \in Roles BY DEF Inv, TypeOK
      <3>4. QED BY <2>2, <3>2, <3>3 DEF Started, Inv, TypeOK
    <2>3. QED BY <1>1, <2>1, <2>2
  <1>6. \A x \in Roles : ~Allows(x)' BY <1>4 DEF Allows
  <1>7. Rest' BY <1>1, <1>2, <1>3, <1>4, <1>5, <1>6, StillStep
  <1>8. ~begun => run = Created BY DEF Inv, PlaceInv
  <1>9. PlaceInv' BY <1>1, <1>4, <1>8 DEF PlaceInv
  <1>10. QED BY <1>7, <1>9, WholeInv

\* The server is started again.
LEMMA RestartKeeps == ASSUME Inv, Restart PROVE Inv'
  <1>1. /\ op' = IF begun THEN At("supervise", "po", "startup") ELSE Idle
        /\ auth' = NoAuth /\ seen' = {}
        /\ UNCHANGED <<begun, run, refused, faults, upsets, plan, onCourse, worker, late>>
        /\ UNCHANGED <<typed, exits, stops, writes>>
    BY DEF Restart, record, world
  <1>2. /\ op' \in Ops /\ auth' \in Auths /\ auth'.kind = "none"
        /\ op'.at = IF begun THEN "supervise" ELSE "idle"
    BY <1>1, PlaceFacts DEF Places
  <1>3. Counted BY <1>1, BoundsAssumption DEF Counted, Inv, TypeOK
  <1>4. \A x \in Roles : ~Allows(x)' BY <1>2 DEF Allows
  <1>5. Rest' BY <1>1, <1>2, <1>3, <1>4, StillStep DEF Inv, TypeOK
  <1>6. ~begun => run = Created BY DEF Inv, PlaceInv
  <1>7. PlaceInv' BY <1>1, <1>2, <1>6 DEF PlaceInv
  <1>8. QED BY <1>5, <1>7, WholeInv

--------------------------------------------------------------------------------
(* The invariant holds.                                                           *)

\* A new run is sound.
LEMMA CreatedSound == Created \in RunRecord /\ RunInv(Created)
  <1>1. NoRole \in RoleRecord /\ Sound(NoRole) /\ ~Live(NoRole) /\ NoRole.state = "pending"
    BY DEF NoRole, RoleRecord, RoleStates, AttemptStates, Outcomes, Reports, LeaseStates,
       StopStates, CleanStates, Recovered, MaxRecoveries, Sound, Unadopted, Recoverable, Live
  <1>2. /\ Created.role = [x \in Roles |-> NoRole] /\ Created.phase = "po"
        /\ Created.condition = "active" /\ Created.outbox = "held" /\ ~Created.synth
        /\ Created.candidate = "none"
    BY DEF Created
  <1>3. 0 \in 0..MaxRetries /\ 0 \in 0..MaxCleanups BY ReceiptsAssumption
  <1>4. Created \in RunRecord
    BY <1>1, <1>3 DEF Created, RunRecord, Phases, Conditions, OutboxStates
  <1>5. \A x \in Roles : Created.role[x] = NoRole BY <1>2
  <1>6. ValidSynthesis(Created) /\ ValidCondition(Created)
    BY <1>2 DEF ValidSynthesis, ValidCondition
  <1>7. ValidPhase(Created) BY <1>1, <1>2, <1>5 DEF ValidPhase, Roles
  <1>8. ~Terminal(Created) BY <1>2 DEF Terminal
  <1>9. "pending" \notin Stuck /\ "pending" \notin InService BY DEF Stuck, InService
  <1>10. QED BY <1>1, <1>2, <1>4, <1>5, <1>6, <1>7, <1>8, <1>9 DEF RunInv

\* It holds before anything is begun.
LEMMA InitSound == Init => Inv
  <1> SUFFICES ASSUME Init PROVE Inv OBVIOUS
  <1>1. run = Created BY DEF Init, InitWith, Created
  <1>2. run \in RunRecord /\ RunInv(run) BY <1>1, CreatedSound
  <1>3. worker = [x \in Roles |-> [life |-> "none", turn |-> "fresh"]] BY DEF Init, InitWith
  <1>4. /\ typed = [x \in Roles |-> 0] /\ exits = [x \in Roles |-> 0]
        /\ stops = [x \in Roles |-> 0]
    BY DEF Init, InitWith
  <1>5. /\ begun = FALSE /\ plan = [holds |-> "source", receipt |-> FALSE] /\ onCourse = TRUE
        /\ late = FALSE /\ seen = {} /\ op = Idle /\ writes = 0 /\ refused = FALSE
        /\ faults = 0 /\ upsets = 0 /\ auth \in Auths
    BY DEF Init, InitWith, NoAuth, Auths, Kinds, Roles
  <1>6. op \in Ops /\ op.at = "idle" BY <1>5, PlaceFacts
  <1>7. TypeOK
    <2>1. worker \in [Roles -> [life : {"none", "live", "dead", "gone"},
                                turn : {"fresh", "working", "reported"}]]
      BY <1>3
    <2>2. typed \in [Roles -> Nat] /\ exits \in [Roles -> Nat] /\ stops \in [Roles -> Nat]
      BY <1>4
    <2>3. upsets \in 0..MaxUpsets /\ faults \in 0..upsets BY <1>5, BoundsAssumption
    <2>4. QED BY <1>2, <1>5, <1>6, <2>1, <2>2, <2>3 DEF TypeOK, Ops, Auths
  <1>8. Ledger
    <2>1. run.cleanups \in Nat BY <1>2, ReceiptsAssumption DEF RunRecord
    <2>2. \A x \in Roles : typed[x] = 0 /\ exits[x] = 0 /\ stops[x] = 0 BY <1>4
    <2>3. \A x \in Roles : worker[x].life = "none" BY <1>3
    <2>4. QED BY <1>5, <2>1, <2>2, <2>3 DEF Ledger
  <1>9. PlanInv BY <1>1, <1>5, CreatedSound DEF PlanInv, Created
  <1>10. PlaceInv BY <1>1, <1>5, <1>6 DEF PlaceInv
  <1>11. QED BY <1>2, <1>5, <1>7, <1>8, <1>9, <1>10 DEF Inv, NeverRefused

\* The operation under way keeps it.
LEMMA SuperviseKeeps == ASSUME Inv, Supervise PROVE Inv'
  BY SuperviseApplyKeeps, SuperviseRestKeeps, ReportRejectedKeeps, SuperviseLeaseKeeps,
     SuperviseDispatchKeeps, SuperviseWorkerKeeps, CleanupPendingKeeps, CleanupClaimedKeeps,
     CleanupWaitsKeeps
     DEF Supervise
LEMMA AdvanceKeeps == ASSUME Inv, Advance PROVE Inv'
  BY AdvanceEndsKeeps, AdvanceOffCourseKeeps, AdvanceCompileKeeps, AdvanceWaitsKeeps,
     AdvanceSpawnKeeps
     DEF Advance
LEMMA WorkKeeps == ASSUME Inv, Spawn \/ Dispatch \/ Leave PROVE Inv'
  BY SpawnStartsKeeps, SpawnBindsKeeps, SpawnAttestsKeeps, SpawnFailsKeeps, DeliverKeeps,
     DeliveredKeeps, ExitKeeps, ExitedKeeps
     DEF Spawn, Dispatch, Leave
LEMMA RequestsKeep == ASSUME Inv, Requests PROVE Inv'
  BY StartKeeps, ContinueRetryKeeps, ReplayKeeps, ContinueRetryReplayKeeps, ContinueCleanupKeeps,
     ContinueReapKeeps, ContinueAbsentKeeps, TerminateKeeps, CancelKeeps, ApplyRequestKeeps,
     ApplyReplayKeeps
     DEF Requests, Continue
LEMMA ApplyingKeeps == ASSUME Inv, Stopping \/ Applying PROVE Inv'
  BY StopKeeps, StopIsSentKeeps, ApplyToPlanKeeps, ApplyReceiptKeeps, ApplyOffCourseKeeps,
     AbandonKeeps, PlannedKeeps, ApplyFailsKeeps
     DEF Stopping, Applying
LEMMA EnvironmentKeeps == ASSUME Inv, Environment PROVE Inv'
  BY WorkerKeeps, WorldKeeps, CrashKeeps, RestartKeeps DEF Environment

\* A step that changes nothing keeps it.
LEMMA StutterKeeps == ASSUME Inv, UNCHANGED vars PROVE Inv'
  <1>1. /\ UNCHANGED <<begun, run, refused, auth, op, typed, exits, stops, writes>>
        /\ UNCHANGED <<plan, onCourse, seen, late, worker, faults, upsets>>
    BY DEF vars
  <1>2. Counted BY <1>1, BoundsAssumption DEF Counted, Inv, TypeOK
  <1>3. QED BY <1>1, <1>2, WorldStep DEF Inv, TypeOK

\* Whatever the server, its workers, the operator and the machine do, in whatever
\* order, the invariant holds: it is inductive.
THEOREM InvHolds == Spec => []Inv
  <1>1. Inv /\ [Next]_vars => Inv'
    BY TickKeeps, SuperviseKeeps, AdvanceKeeps, WorkKeeps, RequestsKeep, ApplyingKeeps,
       EnvironmentKeeps, StutterKeeps
       DEF Next
  <1>2. QED BY <1>1, InitSound, PTL DEF Spec

\* A live worker has a live lease, and only one role has one.
LEMMA OneAlive ==
  ASSUME Inv, NEW x \in Roles, NEW y \in Roles, worker[x].life \in {"live", "dead"}
  PROVE  /\ Live(run.role[x]) /\ ~Terminal(run)
         /\ worker[y].life \in {"live", "dead"} => x = y
  BY DEF Inv, Ledger, RunInv

\* What is promised of a planning run, for any number of crashes, of writes that
\* throw, of retries and of cleanups: the domain refuses no write of the server
\* (server.js 11184-13430 against delivery-planning-run.js), no prompt is typed and
\* no scope stopped twice, /exit only as often as the operator asked for a cleanup or
\* a write threw, one worker at most is alive, none behind a closed lease or an ended
\* run, and the candidate is written into the plan at most once.
THEOREM PlanningIsSafe == Spec => []PlanningSafe
  <1>1. Inv => PlanningSafe
    <2> SUFFICES ASSUME Inv PROVE PlanningSafe OBVIOUS
    <2>1. InputOnce BY OneAlive DEF InputOnce, Inv, Ledger, Alive
    <2>2. ClosedMeansGone BY OneAlive DEF ClosedMeansGone
    <2>3. AppliedOnce BY DEF AppliedOnce, Inv, PlanInv
    <2>4. QED BY <2>1, <2>2, <2>3 DEF PlanningSafe, Inv
  <1>2. QED BY <1>1, InvHolds, PTL

--------------------------------------------------------------------------------
(* Authority.                                                                     *)

\* Nothing is typed, and no worker comes to life.
Unstirred ==
  /\ UNCHANGED <<typed, exits>>
  /\ \A x \in Roles : worker'[x].life = "live" => worker[x].life = "live"

\* Most actions type nothing and start nothing.
LEMMA MostUnstirred ==
  ASSUME Inv, \/ Tick \/ Supervise \/ Advance \/ SpawnBinds \/ SpawnAttests \/ SpawnFails
              \/ Delivered \/ Exited \/ Applying \/ StopIsSent \/ Restart
              \/ TimePasses \/ CourseFlips \/ PlanEdited \/ UNCHANGED vars
  PROVE  Unstirred
  <1>1. UNCHANGED <<typed, exits, worker>>
    <2>1. CASE Tick \/ Supervise
      BY <2>1 DEF Tick, Supervise, SuperviseApply, SuperviseRest, ReportRejected, SuperviseLease,
         SuperviseDispatch, SuperviseWorker, CleanupPending, CleanupClaimed, CleanupWaits, still
    <2>2. CASE Advance
      BY <2>2 DEF Advance, AdvanceEnds, AdvanceOffCourse, AdvanceCompile, AdvanceRests,
         AdvanceWaits, AdvanceUncounted, AdvanceSpawn, still
    <2>3. CASE SpawnBinds \/ SpawnAttests \/ SpawnFails \/ Delivered \/ Exited
      BY <2>3 DEF SpawnBinds, SpawnAttests, SpawnFails, Delivered, Exited, still
    <2>4. CASE Applying \/ StopIsSent
      BY <2>4 DEF Applying, ApplyToPlan, ApplyReceipt, ApplyOffCourse, Abandon, Planned,
         ApplyFails, StopIsSent, still
    <2>5. CASE Restart \/ TimePasses \/ CourseFlips \/ PlanEdited
      BY <2>5 DEF Restart, TimePasses, CourseFlips, PlanEdited, world, unserved
    <2>6. CASE UNCHANGED vars BY <2>6 DEF vars
    <2>7. QED BY <2>1, <2>2, <2>3, <2>4, <2>5, <2>6
  <1>2. QED BY <1>1 DEF Unstirred

\* A request types nothing itself; one removes a dead pane.
LEMMA RequestsUnstirred == ASSUME Inv, Requests PROVE Unstirred
  <1>1. worker \in [Roles -> [life : {"none", "live", "dead", "gone"},
                              turn : {"fresh", "working", "reported"}]]
    BY DEF Inv, TypeOK
  <1>2. CASE \E x \in Roles : ContinueReap(x)
    <2>1. PICK x \in Roles : ContinueReap(x) BY <1>2
    <2>2. worker' = [worker EXCEPT ![x].life = "gone"] /\ UNCHANGED <<typed, exits>>
      BY <2>1 DEF ContinueReap, still
    <2>3. QED BY <1>1, <2>2 DEF Unstirred
  <1>3. CASE ~\E x \in Roles : ContinueReap(x)
    <2>1. UNCHANGED <<typed, exits, worker>>
      BY <1>3 DEF Requests, Continue, Start, ContinueRetry, ContinueCleanupReplay,
         ContinueRetryReplay, ContinueCleanup, ContinueAbsent, CancelRequest, TerminateReplay,
         ApplyRequest, ApplyReplay, Terminate, still, world
    <2>2. QED BY <2>1 DEF Unstirred
  <1>4. QED BY <1>2, <1>3

\* A worker that reports, dies or is stopped does not come to life.
LEMMA WorkersUnstirred == ASSUME Inv, Worker \/ Stop PROVE Unstirred
  <1>1. /\ worker \in [Roles -> [life : {"none", "live", "dead", "gone"},
                                 turn : {"fresh", "working", "reported"}]]
        /\ op.role \in Roles
    BY DEF Inv, TypeOK
  <1>2. CASE Worker
    <2>1. PICK x \in Roles : WorkerReports(x) \/ WorkerDies(x) BY <1>2 DEF Worker
    <2>2. UNCHANGED <<typed, exits>> BY <2>1 DEF WorkerReports, WorkerDies, unserved
    <2>3. \/ worker' = [worker EXCEPT ![x].turn = "reported"]
          \/ \E life \in {"dead", "gone"} : worker' = [worker EXCEPT ![x].life = life]
      BY <2>1 DEF WorkerReports, WorkerDies
    <2>4. QED BY <1>1, <2>2, <2>3 DEF Unstirred
  <1>3. CASE Stop
    <2>1. UNCHANGED <<typed, exits>> /\ worker' \in {worker, [worker EXCEPT ![op.role].life = "gone"]}
      BY <1>3 DEF Stop
    <2>2. QED BY <1>1, <2>1 DEF Unstirred
  <1>4. QED BY <1>2, <1>3

\* What types or starts has the authority of this process.
LEMMA StirringHasAuthority ==
  ASSUME Inv, SpawnStarts \/ Deliver \/ Exit \/ (Crash /\ ~Unstirred)
  PROVE  auth # NoAuth
  <1>1. op.at \in {"spawn", "deliver"} => auth.kind # "none" BY DEF Inv, PlaceInv
  <1>2. op.at = "exit" => auth.kind # "none"
    <2>1. op.at = "exit" => Allows(op.role) BY DEF Inv, PlaceInv
    <2>2. QED BY <2>1 DEF Allows
  <1>3. Crash /\ op.at # "spawn" => Unstirred
    BY DEF Crash, Here, Unstirred
  <1>4. op.at \in {"spawn", "deliver", "exit"}
    BY <1>3 DEF SpawnStarts, Deliver, Exit, Here
  <1>5. QED BY <1>1, <1>2, <1>4, PlaceFacts

\* Fewer workers are alive when none comes to life.
LEMMA UnstirredCount ==
  ASSUME Unstirred
  PROVE  ~Stirs
  <1> DEFINE now == {x \in Roles : Alive(x)}
             then == {x \in Roles : worker'[x].life = "live"}
  <1>1. then \subseteq now BY DEF Unstirred, Alive
  <1>2. IsFiniteSet(Roles)
    <2>1. Roles = ((({} \cup {"po"}) \cup {"ba"}) \cup {"qa"}) \cup {"dev"} BY DEF Roles
    <2>2. IsFiniteSet({} \cup {"po"}) BY FS_EmptySet, FS_AddElement
    <2>3. IsFiniteSet(({} \cup {"po"}) \cup {"ba"}) BY <2>2, FS_AddElement
    <2>4. IsFiniteSet((({} \cup {"po"}) \cup {"ba"}) \cup {"qa"}) BY <2>3, FS_AddElement
    <2>5. QED BY <2>1, <2>4, FS_AddElement
  <1>3. IsFiniteSet(now) BY <1>2, FS_Subset
  <1>4. IsFiniteSet(then) /\ Cardinality(then) <= Cardinality(now) BY <1>1, <1>3, FS_Subset
  <1>5. Cardinality(then) \in Nat /\ Cardinality(now) \in Nat
    BY <1>3, <1>4, FS_CardinalityType
  <1>6. QED BY <1>4, <1>5 DEF Unstirred, Stirs

\* A prompt is typed, an /exit is typed and a worker is started only by a process with
\* the authority of the operator (deliveryPlanningRunAutoAdvance): after a restart,
\* nothing is, until the operator asks again.
THEOREM InputHasAuthority == Spec => InputNeedsAuthority
  <1>1. Inv /\ [Next]_vars => (Stirs => auth # NoAuth)
    <2> SUFFICES ASSUME Inv, [Next]_vars, auth = NoAuth PROVE ~Stirs OBVIOUS
    <2>1. Unstirred
      BY MostUnstirred, RequestsUnstirred, WorkersUnstirred, StirringHasAuthority
         DEF Next, Spawn, Dispatch, Leave, Stopping, Environment
    <2>2. QED BY <2>1, UnstirredCount
  <1>2. QED BY <1>1, InvHolds, PTL DEF Spec, InputNeedsAuthority

================================================================================
