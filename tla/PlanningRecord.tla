---------------------------- MODULE PlanningRecord ----------------------------
(* The record of a Planning Run (delivery-planning-run.js): four role workers    *)
(* write a report each, the reports become one candidate for the plan. Every     *)
(* mutation is an operator from a run to the next one; a Can... operator is the  *)
(* condition under which the code does not throw; Valid is its validator.        *)
(*                                                                               *)
(* A role has at most one attempt, so role and attempt are one record. An        *)
(* attempt is bound to a worker exactly while its spawn lease is adopted.        *)
EXTENDS Naturals, FiniteSets

CONSTANTS
  MaxRetries,   \* receipts of Continue for a role that waits (6 in the code)
  MaxCleanups   \* receipts of Continue for a cleanup (6 in the code)

ASSUME ReceiptsAssumption == MaxRetries \in Nat \ {0} /\ MaxCleanups \in Nat \ {0}

Roles == {"po", "ba", "qa", "dev"}

\* cleanupRecoveries: recoveries of one cleanup, the last of them only of an absent worker.
MaxRecoveries == 3

Phases == {"po", "ba", "challenge", "synthesis", "review", "applied", "closed"}
Conditions == {"active", "resource_wait", "needs_input", "reconcile_required",
               "off_course", "failed", "canceled"}
RoleStates == {"pending", "spawn_claimed", "dispatch_claimed", "dispatched",
               "completed", "needs_input", "failed", "reconcile_required"}
AttemptStates == {"none", "spawn_claimed", "dispatch_claimed", "dispatched",
                  "finished", "crashed", "reconcile_required"}
Outcomes == {"none", "complete", "needs_input", "failed", "crashed"}
Reports == {"none", "complete", "needs_input", "failed"}
LeaseStates == {"none", "claimed", "bound", "adopted", "reconcile_required", "closed"}
StopStates == {"none", "claimed", "sent", "complete"}
CleanStates == {"none", "pending", "claimed", "sent", "complete", "reconcile_required"}
Recovered == {"none", "worker_absent", "exact_worker"}
OutboxStates == {"held", "claimed", "reconcile_required", "abandoned", "applied"}

RoleRecord ==
  [state : RoleStates, att : AttemptStates, outcome : Outcomes, report : Reports,
   lease : LeaseStates,
   stop : StopStates,       \* spawnLease.cleanup: the stop of a scope that never was adopted
   clean : CleanStates,     \* attempt.cleanup: /exit typed into an adopted worker
   found : Recovered,       \* cleanup.recoveryOutcome
   recov : 0..MaxRecoveries,
   receipted : BOOLEAN]     \* the cleanup's claim id is that of a Continue receipt

RunRecord ==
  [phase : Phases, condition : Conditions, role : [Roles -> RoleRecord],
   synth : BOOLEAN,         \* synthesisBlocker
   candidate : {"none", "ready", "unready"},
   outbox : OutboxStates,
   retries : 0..MaxRetries, cleanups : 0..MaxCleanups,
   retried : SUBSET Roles]  \* the roles of the retries

NoRole == [state |-> "pending", att |-> "none", outcome |-> "none", report |-> "none",
           lease |-> "none", stop |-> "none", clean |-> "none", found |-> "none",
           recov |-> 0, receipted |-> FALSE]

\* A role whose report was accepted and whose worker was cleaned up.
DoneRole == [NoRole EXCEPT !.state = "completed", !.att = "finished", !.outcome = "complete",
                           !.report = "complete", !.lease = "adopted", !.clean = "complete"]

\* createDeliveryPlanningRun
Created == [phase |-> "po", condition |-> "active", role |-> [x \in Roles |-> NoRole],
            synth |-> FALSE, candidate |-> "none", outbox |-> "held",
            retries |-> 0, cleanups |-> 0, retried |-> {}]

--------------------------------------------------------------------------------
(* Questions asked of a run                                                      *)

InService == {"spawn_claimed", "dispatch_claimed", "dispatched"}
Halted == {"reconcile_required", "off_course", "failed", "canceled", "needs_input"}

CompletedAndCleaned(r, x) ==
  r.role[x].state = "completed" /\ r.role[x].report = "complete" /\ r.role[x].clean = "complete"

PhaseRoles(r) == CASE r.phase = "po" -> {"po"}
                   [] r.phase = "ba" -> {"ba"}
                   [] r.phase = "challenge" -> {"qa", "dev"}
                   [] OTHER -> {}

\* roleEligibilityUnchecked
Eligible(r, x) ==
  r.condition \notin Halted /\ x \in PhaseRoles(r) /\ r.role[x].state = "pending"

\* nextEligibleDeliveryPlanningRole: QA is asked before DEV.
NextRole(r) == CHOOSE x \in Roles : Eligible(r, x) /\ (x = "dev" => ~Eligible(r, "qa"))
AnyEligible(r) == \E x \in Roles : Eligible(r, x)

\* deliveryPlanningResourceRetryEligibility
RetryEligible(r) ==
  /\ r.retries < MaxRetries /\ AnyEligible(r)
  /\ r.condition = "resource_wait" \/ r.retries = 0

\* deliveryPlanningRoleHasLiveWorker: the attempt still owns, or may own, a worker.
Live(a) == a.att # "none" /\ a.lease # "closed" /\ ~(a.lease = "adopted" /\ a.clean = "complete")

\* unresolvedWorker
Unresolved(r) ==
  \/ r.outbox \in {"claimed", "reconcile_required"}
  \/ \E x \in Roles : Live(r.role[x]) \/ r.role[x].att \in InService

Terminal(r) == r.phase \in {"applied", "closed"}

--------------------------------------------------------------------------------
(* The validator                                                                 *)

\* validateSpawnLease
ValidLease(a) ==
  CASE a.lease = "reconcile_required" -> a.stop \in {"none", "claimed", "sent"}
    [] a.lease = "closed" -> a.stop \in {"none", "complete"}
    [] OTHER -> a.stop = "none"

\* validateCleanup
ValidCleanup(a) ==
  /\ a.clean = "pending" => a.recov = 0
  /\ a.clean \in {"claimed", "sent", "reconcile_required"} => a.found # "worker_absent"
  /\ a.found = "none" <=> a.recov = 0

\* assertAttemptLifecycle
ValidAttempt(a) ==
  /\ a.clean # "none" => a.lease = "adopted" /\ a.stop = "none"
  /\ a.att = "spawn_claimed" =>
       a.lease \in {"claimed", "bound"} /\ a.outcome = "none" /\ a.clean = "none"
  /\ a.att \in {"dispatch_claimed", "dispatched"} =>
       a.lease = "adopted" /\ a.outcome = "none" /\ a.clean = "none"
  /\ a.att = "finished" => a.lease = "adopted" /\ a.outcome # "none" /\ a.clean # "none"
  /\ a.att = "crashed" => a.outcome = "crashed" /\ a.lease \in {"adopted", "closed"}
  /\ a.att = "reconcile_required" =>
       a.outcome = "none" /\ a.lease \in {"adopted", "reconcile_required"}

\* validateRoleRecord
ValidRole(a) ==
  /\ a.state = "pending" => a.att = "none" /\ a.report = "none"
  /\ a.state \in InService => a.att = a.state /\ a.report = "none"
  /\ a.state = "completed" => a.report = "complete" /\ a.att = "finished" /\ a.outcome = "complete"
  /\ a.state = "needs_input" =>
       a.att = "finished" /\ a.outcome = "needs_input" /\ a.report \in {"none", "needs_input"}
  /\ a.state = "failed" =>
       \/ a.att = "finished" /\ a.outcome = "failed"
       \/ a.att = "crashed" /\ a.outcome = "crashed"
  /\ a.state = "reconcile_required" => a.att = "reconcile_required"

\* validateSynthesisBlocker
ValidSynthesis(r) ==
  r.synth => /\ r.candidate = "none" /\ \A x \in Roles : r.role[x].report = "complete"
             /\ r.phase \in {"challenge", "synthesis", "closed"} /\ r.condition # "active"

\* assertPhaseLifecycle
ValidPhase(r) ==
  LET done(x) == CompletedAndCleaned(r, x)
      untouched(x) == r.role[x].state = "pending"
  IN /\ r.phase = "po" => untouched("ba") /\ untouched("qa") /\ untouched("dev")
     /\ r.phase = "ba" => done("po") /\ untouched("qa") /\ untouched("dev")
     /\ r.phase = "challenge" => done("po") /\ done("ba")
     /\ r.phase \in {"synthesis", "review", "applied"} => \A x \in Roles : done(x)
     /\ r.candidate # "none" => r.phase \in {"review", "applied", "closed"}
     /\ r.phase \in {"review", "applied"} => r.candidate # "none"
     /\ r.outbox # "held" => r.phase \in {"review", "applied", "closed"}
     /\ r.phase = "closed" => r.outbox \in {"held", "abandoned"}
     /\ r.phase = "applied" => r.outbox = "applied"

\* assertConditionLifecycle
ValidCondition(r) ==
  LET some(s) == \E x \in Roles : r.role[x].state = s
  IN /\ r.condition = "needs_input" => some("needs_input") \/ r.synth
     /\ r.condition = "failed" => some("failed")
     /\ r.condition = "reconcile_required" =>
          r.outbox = "reconcile_required" \/ some("reconcile_required")
     /\ r.condition = "canceled" => r.phase = "closed"
     /\ r.phase = "closed" =>
          r.condition \in {"canceled", "off_course", "failed", "reconcile_required"}

\* validateDeliveryPlanningRun
Valid(r) ==
  /\ \A x \in Roles : /\ ValidLease(r.role[x]) /\ ValidCleanup(r.role[x])
                      /\ ValidAttempt(r.role[x]) /\ ValidRole(r.role[x])
  /\ r.outbox # "held" => r.candidate # "none"
  /\ ValidSynthesis(r) /\ ValidPhase(r) /\ ValidCondition(r)

--------------------------------------------------------------------------------
(* Spawn lease                                                                   *)

\* An off_course run keeps its condition whatever happens to its workers.
Stopped(r, condition) == IF r.condition = "off_course" THEN "off_course" ELSE condition

CanClaimSpawn(r, x) == Eligible(r, x)
ClaimSpawn(r, x) ==
  [r EXCEPT !.condition = "active",
            !.role[x] = [@ EXCEPT !.state = "spawn_claimed", !.att = "spawn_claimed",
                                  !.lease = "claimed"]]

\* The deadline is tested with the time of the write.
CanBind(r, x, late) == r.role[x].state = "spawn_claimed" /\ r.role[x].lease = "claimed" /\ ~late
Bind(r, x) == [r EXCEPT !.role[x].lease = "bound"]

CanReconcileLease(r, x, late) ==
  r.role[x].state = "spawn_claimed" /\ r.role[x].lease \in {"claimed", "bound"} /\ late
ReconcileLease(r, x) ==
  [r EXCEPT !.condition = Stopped(r, "reconcile_required"),
            !.role[x] = [@ EXCEPT !.lease = "reconcile_required",
                                  !.state = "reconcile_required", !.att = "reconcile_required"]]

\* closeProvisionalSpawnLease
Closed(r, x, stop) ==
  [r EXCEPT !.condition = Stopped(r, "failed"),
            !.role[x] = [@ EXCEPT !.lease = "closed", !.stop = stop, !.state = "failed",
                                  !.att = "crashed", !.outcome = "crashed", !.clean = "none"]]

CanCloseAbsent(r, x) ==
  r.role[x].lease \in {"claimed", "bound", "reconcile_required"} /\ r.role[x].stop = "none"
CloseAbsent(r, x) == Closed(r, x, "none")

CanClaimStop(r, x) ==
  r.role[x].lease = "reconcile_required" /\ r.role[x].att = "reconcile_required"
  /\ r.role[x].stop = "none"
ClaimStop(r, x) == [r EXCEPT !.role[x].stop = "claimed"]

CanStopSent(r, x) == r.role[x].lease = "reconcile_required" /\ r.role[x].stop = "claimed"
StopSent(r, x) == [r EXCEPT !.role[x].stop = "sent"]

CanStopComplete(r, x) ==
  r.role[x].lease = "reconcile_required" /\ r.role[x].stop \in {"claimed", "sent"}
StopComplete(r, x) == Closed(r, x, "complete")

--------------------------------------------------------------------------------
(* Dispatch and report                                                           *)

CanClaimDispatch(r, x) == r.role[x].state = "spawn_claimed" /\ r.role[x].lease = "bound"
ClaimDispatch(r, x) ==
  [r EXCEPT !.role[x] = [@ EXCEPT !.lease = "adopted", !.state = "dispatch_claimed",
                                  !.att = "dispatch_claimed"]]

CanDispatched(r, x) == r.role[x].state = "dispatch_claimed"
Dispatched(r, x) ==
  [r EXCEPT !.role[x] = [@ EXCEPT !.state = "dispatched", !.att = "dispatched"]]

\* finishAttempt: an adopted worker is to be cleaned up from here on.
Finished(a, state, att, outcome) ==
  [a EXCEPT !.state = state, !.att = att, !.outcome = outcome,
            !.clean = IF a.lease = "adopted" THEN "pending" ELSE "none"]

ReportState(status) == IF status = "complete" THEN "completed" ELSE status

\* recordDeliveryPlanningRoleReport. fits: the four reports make a candidate, which
\* is tried with the last of them; a report that does not is a blocker of the run.
CanReport(r, x) == r.role[x].state = "dispatched"
ReportRecorded(r, x, status, fits) ==
  LET a == [Finished(r.role[x], ReportState(status), "finished", status)
              EXCEPT !.report = status]
      last == /\ status = "complete" /\ x \in {"qa", "dev"}
              /\ \A y \in {"qa", "dev"} \ {x} : r.role[y].report # "none"
      blocked == last /\ ~fits
  IN [r EXCEPT !.role[x] = a, !.synth = blocked,
               !.condition = CASE status # "complete" -> Stopped(r, status)
                               [] blocked -> Stopped(r, "needs_input")
                               [] OTHER -> r.condition]

CanWait(r, x) == Eligible(r, x) /\ r.condition = "active"
ResourceWait(r) == [r EXCEPT !.condition = "resource_wait"]

\* markRoleFinishedWithoutReport, for its three outcomes
CanFinish(r, x) == r.role[x].att \in InService
NeedsInput(r, x) ==
  [r EXCEPT !.condition = Stopped(r, "needs_input"),
            !.role[x] = Finished(@, "needs_input", "finished", "needs_input")]
Crashed(r, x) ==
  [r EXCEPT !.condition = Stopped(r, "failed"),
            !.role[x] = Finished(@, "failed", "crashed", "crashed")]
Uncertain(r, x) ==
  [r EXCEPT !.condition = Stopped(r, "reconcile_required"),
            !.role[x] = [@ EXCEPT !.state = "reconcile_required", !.att = "reconcile_required",
                                  !.outcome = "none",
                                  !.clean = IF r.role[x].lease = "adopted"
                                              THEN "reconcile_required" ELSE "none"]]

--------------------------------------------------------------------------------
(* Cleanup of an adopted worker                                                  *)

CanClaimCleanup(r, x) == r.role[x].clean = "pending"
ClaimCleanup(r, x) == [r EXCEPT !.role[x].clean = "claimed"]

CanCleanupSent(r, x) == r.role[x].clean = "claimed"
CleanupSent(r, x) == [r EXCEPT !.role[x].clean = "sent"]

\* advanceAfterCleanup: only a run that still is active goes to its next phase.
NextPhase(r) ==
  LET left(phase, roles) == /\ r.condition = "active" /\ r.phase = phase
                            /\ \A x \in roles : CompletedAndCleaned(r, x)
  IN CASE left("po", {"po"}) -> "ba"
       [] left("ba", {"ba"}) -> "challenge"
       [] left("challenge", {"qa", "dev"}) -> "synthesis"
       [] OTHER -> r.phase

CanCleanupComplete(r, x) == r.role[x].clean = "sent"
CleanupComplete(r, x) ==
  LET done == [r EXCEPT !.role[x].clean = "complete"]
  IN [done EXCEPT !.phase = NextPhase(done)]

CanCleanupRequired(r, x) ==
  r.role[x].clean \in {"pending", "claimed", "sent"} /\ r.role[x].recov < MaxRecoveries
CleanupRequired(r, x) ==
  [r EXCEPT !.condition = Stopped(r, "reconcile_required"),
            !.role[x] = [@ EXCEPT !.clean = "reconcile_required", !.outcome = "none",
                                  !.state = "reconcile_required", !.att = "reconcile_required"]]

\* recoverDeliveryPlanningRoleCleanup, as the server calls it: the worker is absent.
CanRecoverAbsent(r, x) ==
  /\ r.condition \in {"reconcile_required", "off_course"}
  /\ r.role[x].clean = "reconcile_required" /\ r.role[x].recov < MaxRecoveries
RecoverAbsent(r, x) ==
  [r EXCEPT !.role[x] = [@ EXCEPT !.clean = "complete", !.found = "worker_absent",
                                  !.recov = r.role[x].recov + 1]]

\* authorizeDeliveryPlanningContinue: a receipt, and with it the new claim.
CanAuthorizeRetry(r) == RetryEligible(r)
AuthorizeRetry(r) ==
  [r EXCEPT !.condition = "active", !.retries = @ + 1, !.retried = @ \cup {NextRole(r)}]

CanAuthorizeCleanup(r, x) ==
  /\ r.cleanups < MaxCleanups
  /\ \/ r.role[x].clean = "pending"
     \/ r.role[x].clean = "claimed" /\ ~r.role[x].receipted
     \/ r.role[x].clean = "reconcile_required" /\ r.role[x].recov < 2
AuthorizeCleanup(r, x) ==
  LET a == r.role[x]
      exact == a.clean = "reconcile_required"
  IN [r EXCEPT !.cleanups = @ + 1,
               !.role[x] = [a EXCEPT !.clean = "claimed", !.receipted = TRUE,
                                     !.found = IF exact THEN "exact_worker" ELSE a.found,
                                     !.recov = IF exact THEN a.recov + 1 ELSE a.recov]]

--------------------------------------------------------------------------------
(* Candidate, its application, and the ends of a run                             *)

CanCompile(r) == r.phase = "synthesis" /\ r.condition = "active"
Compile(r, ready) == [r EXCEPT !.phase = "review", !.candidate = ready]

CanClaimApply(r) ==
  r.phase = "review" /\ r.condition = "active" /\ r.candidate = "ready" /\ r.outbox = "held"
ClaimApply(r) == [r EXCEPT !.outbox = "claimed"]

CanMarkApplied(r) ==
  \/ r.condition = "active" /\ r.outbox = "claimed"
  \/ r.condition = "reconcile_required" /\ r.outbox = "reconcile_required"
MarkApplied(r) == [r EXCEPT !.outbox = "applied", !.phase = "applied", !.condition = "active"]

CanReconcileApply(r) == r.condition = "active" /\ r.outbox = "claimed"
ReconcileApply(r) ==
  [r EXCEPT !.outbox = "reconcile_required", !.condition = "reconcile_required"]

CanAbandonApply(r) ==
  r.phase = "review" /\ r.condition = "off_course"
  /\ r.outbox \in {"claimed", "reconcile_required"}
AbandonApply(r) == [r EXCEPT !.outbox = "abandoned"]

CanMarkOffCourse(r) == ~Terminal(r) /\ r.condition # "off_course"
MarkOffCourse(r) == [r EXCEPT !.condition = "off_course"]

CanCancel(r) == ~Terminal(r) /\ ~Unresolved(r)
Cancel(r) == [r EXCEPT !.phase = "closed", !.condition = "canceled"]

================================================================================
