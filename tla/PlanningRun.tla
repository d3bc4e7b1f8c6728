------------------------------ MODULE PlanningRun ------------------------------
(* The server's side of a Planning Run (server.js 11184-13430): one run, its four *)
(* role workers, and the plan its candidate is applied to. The run and the plan  *)
(* are two files without a common transaction; a worker is a tmux pane in a      *)
(* scope of its own, seen only from outside.                                     *)
(*                                                                               *)
(* enqueueDeliveryLifecycleOperation runs requests, plan edits and the monitor   *)
(* one after another, so op is the one operation under way: a chain of writes,   *)
(* observations and inputs, a step each. Between two steps the process may die,  *)
(* the worker may move, and time may pass.                                       *)
EXTENDS PlanningRecord

CONSTANT
  MaxUpsets    \* bound: crashes, writes that throw (committed or not), edits of the plan
               \* and changes of the workspace, together

ASSUME BoundsAssumption == MaxUpsets \in Nat

VARIABLES
  begun,    \* whether the run is in delivery-planning-runs.json
  run,      \* the run: the file and the repository's copy, which differ only inside a write
  plan,     \* the delivery plan: what it holds, and whether it has the receipt of the apply
  onCourse, \* whether the workspace still matches the run's baseline
  worker,   \* per role: none, live, dead (its pane kept) or gone, and its turn
  late,     \* the deadline of the bind, or of the exit, that is waited for has passed
  auth,     \* deliveryPlanningRunAutoAdvance: the authority of this process
  seen,     \* deliveryPlanningRunObservations: roles once sampled idle
  op,       \* where the lifecycle operation stands
  typed, exits, stops,  \* history: prompts and /exits typed, scopes stopped, per role
  writes,   \* history: candidates written into the plan
  refused,  \* history: a write of the supervisor that the domain has refused
  faults,   \* history: writes that have thrown
  upsets    \* history: what MaxUpsets bounds

record == <<begun, run, refused, faults>>
world == <<plan, onCourse, worker, late, typed, exits, stops, writes>>
vars == <<begun, run, plan, onCourse, worker, late, auth, seen, op, typed, exits, stops,
          writes, refused, faults, upsets>>

NoAuth == [kind |-> "none", role |-> "po"]
Kinds == {"none", "start", "resource_retry", "cleanup_only"}

Places == {"down", "idle", "supervise", "advance", "spawn", "bind", "attest", "spawnFailed",
           "deliver", "delivered", "notDelivered", "unknown", "rejected", "exit", "exited", "notExited",
           "stop", "stopped", "reaped", "apply", "planned", "abandon", "applyFailed"}

At(place, x, then) == [at |-> place, role |-> x, then |-> then]
Idle == At("idle", "po", "advance")
Down == At("down", "po", "advance")

\* A run that is not there yet, or one the roles in done have worked for already.
InitWith(there, done, spent) ==
  /\ begun = there
  /\ run = [Created EXCEPT !.phase = IF done = {} THEN "po" ELSE "challenge",
                           !.role = [x \in Roles |-> IF x \in done THEN DoneRole ELSE NoRole]]
  /\ plan = [holds |-> "source", receipt |-> FALSE] /\ onCourse = TRUE
  /\ worker = [x \in Roles |-> IF x \in done THEN [life |-> "gone", turn |-> "reported"]
                                             ELSE [life |-> "none", turn |-> "fresh"]]
  /\ late = FALSE
  /\ auth = [NoAuth EXCEPT !.kind = IF there THEN "start" ELSE "none"] /\ seen = {} /\ op = Idle
  /\ typed = [x \in Roles |-> IF x \in done THEN 1 ELSE 0]
  /\ exits = [x \in Roles |-> IF x \in done THEN 1 ELSE 0] /\ stops = [x \in Roles |-> 0]
  /\ writes = 0 /\ refused = FALSE /\ faults = 0 /\ upsets = spent

Init == InitWith(FALSE, {}, 0)

--------------------------------------------------------------------------------
(* Writes                                                                        *)

Upset == upsets < MaxUpsets /\ upsets' = upsets + 1
Fault == Upset /\ faults' = faults + 1

\* An error ends the operation; at startup it ends the process.
Thrown == IF op.then = "startup" THEN Down ELSE Idle

\* deliveryPlanningRunRepositoryMutation: read revisions, mutate, validate, replace
\* the file. A write may throw although it is committed. What it does to the
\* authority of the process it does only when it returns.
Mutates(can, next, done, failed, authority) ==
  \/ /\ can /\ Valid(next)
     /\ run' = next /\ op' = done /\ auth' = authority
     /\ UNCHANGED <<faults, upsets, refused>>
  \/ /\ can /\ Valid(next)
     /\ Fault
     /\ run' \in {run, next} /\ op' = failed
     /\ UNCHANGED <<auth, refused>>
  \/ /\ ~(can /\ Valid(next))
     /\ refused' = TRUE /\ op' = failed
     /\ UNCHANGED <<run, auth, faults, upsets>>

\* Most writes neither change the authority nor have a way out of their own.
Writes(can, next, done) == Mutates(can, next, done, Thrown, auth)

\* The operation goes on without a write.
Goes(next) == op' = next /\ UNCHANGED <<run, auth, faults, upsets, refused>>

--------------------------------------------------------------------------------
(* What can be seen of a worker                                                  *)

\* observeDeliveryPlanningPane: a worker is gone when its pane and its scope are.
PaneSeen(x) ==
  CASE worker[x].life \in {"none", "gone"} -> "absent"
    [] worker[x].life = "dead" -> "dead"
    [] OTHER -> "present"

\* attestPlanningCodexWorker: Codex runs there as it was launched.
Attested(x) == worker[x].life = "live"

\* deliveryPlanningWorkerObservation, and whether it shows an idle worker; any of it may
\* be unavailable or ambiguous.
Sights(x) ==
  {"unclear", IF PaneSeen(x) # "present" THEN PaneSeen(x)
              ELSE IF worker[x].life = "live" /\ worker[x].turn = "working" THEN "busy"
              ELSE "idle"}

\* deliveryPlanningAuthorizationAllowsCleanup
Allows(x) ==
  \/ auth.kind = "start"
  \/ (auth.kind \in {"resource_retry", "cleanup_only"} /\ auth.role = x)

--------------------------------------------------------------------------------
(* superviseDeliveryPlanningRun: at most one write                               *)

Supervising == op.at = "supervise"

After == IF op.then = "advance" THEN At("advance", "po", "advance") ELSE Idle

\* What an action of the operation leaves alone.
still == <<begun, plan, onCourse, typed, exits, stops, writes>>

Reconciling == run.outbox \in {"claimed", "reconcile_required"}
Watching == Supervising /\ ~Reconciling

SuperviseApply ==
  /\ Supervising /\ Reconciling
  /\ Goes(At("apply", "po", op.then))
  /\ UNCHANGED <<still, seen, worker, late>>

LeaseOpen(a) == a.lease \in {"claimed", "bound", "reconcile_required"}

SuperviseLease(x) ==
  /\ Watching /\ LeaseOpen(run.role[x])
  /\ \E sight \in Sights(x) :
       CASE sight = "absent" /\ run.role[x].stop \in {"claimed", "sent"} ->
              Writes(CanStopComplete(run, x), StopComplete(run, x), After)
         [] sight = "absent" /\ run.role[x].stop = "none" ->
              Writes(CanCloseAbsent(run, x), CloseAbsent(run, x), After)
         [] sight # "absent" /\ run.role[x].lease # "reconcile_required" /\ late ->
              Writes(CanReconcileLease(run, x, late), ReconcileLease(run, x), After)
         [] OTHER -> Goes(After)
  /\ UNCHANGED <<still, seen, worker, late>>

\* A dispatch that was claimed by an operation that ended without a result.
SuperviseDispatch(x) ==
  /\ Watching /\ run.role[x].att = "dispatch_claimed"
  /\ Writes(CanFinish(run, x), Uncertain(run, x), After)
  /\ UNCHANGED <<still, seen, worker, late>>

\* The state of a worker that was sent its prompt: two idle samples in a row, then
\* the final answer in its rollout: not there yet, invalid, of another attempt, or
\* a report, which the domain may still reject.
SuperviseWorker(x) ==
  /\ Watching /\ run.role[x].att = "dispatched"
  /\ \E sight \in Sights(x) :
       \/ /\ sight \in {"unclear", "absent"}
          /\ Writes(CanFinish(run, x), Uncertain(run, x), After) /\ UNCHANGED seen
       \/ /\ sight = "dead"
          /\ Writes(CanFinish(run, x), Crashed(run, x), After) /\ UNCHANGED seen
       \/ sight = "busy" /\ Goes(After) /\ seen' = seen \ {x}
       \/ sight = "idle" /\ x \notin seen /\ Goes(After) /\ seen' = seen \cup {x}
       \/ sight = "idle" /\ x \in seen /\ Goes(After) /\ UNCHANGED seen
       \/ /\ sight = "idle" /\ x \in seen /\ worker[x].turn = "reported"
          /\ \/ \E status \in Reports \ {"none"}, fits \in BOOLEAN :
                  Mutates(CanReport(run, x), ReportRecorded(run, x, status, fits), After,
                          At("rejected", x, op.then), auth)
             \/ Goes(At("rejected", x, op.then))
             \/ Writes(CanFinish(run, x), NeedsInput(run, x), After)
             \/ Writes(CanFinish(run, x), Uncertain(run, x), After)
          /\ seen' = seen \ {x}
  /\ UNCHANGED <<still, worker, late>>

\* The report is rejected, or its write has thrown.
ReportRejected ==
  LET x == op.role
  IN /\ op.at = "rejected"
     /\ IF CanFinish(run, x) THEN Writes(TRUE, NeedsInput(run, x), After) ELSE Goes(Thrown)
     /\ UNCHANGED <<still, seen, worker, late>>

CleanupPending(x) ==
  /\ Watching /\ run.role[x].clean = "pending" /\ Allows(x)
  /\ Writes(CanClaimCleanup(run, x), ClaimCleanup(run, x), After)
  /\ UNCHANGED <<still, seen, worker, late>>

\* Mutant: a claim that was made by another process is taken over.
CleanupAnyClaim(x) ==
  /\ Watching /\ run.role[x].clean = "claimed"
  /\ \E sight \in Sights(x) :
       CASE sight = "absent" -> Writes(CanCleanupSent(run, x), CleanupSent(run, x), After)
         [] sight = "idle" -> Goes(At("exit", x, op.then))
         [] OTHER -> Writes(CanCleanupRequired(run, x), CleanupRequired(run, x), After)
  /\ UNCHANGED <<still, seen, worker, late>>

\* A claim of which this process does not know whether /exit was typed is given up.
CleanupClaimed(x) ==
  /\ Watching /\ run.role[x].clean = "claimed"
  /\ \E sight \in Sights(x) :
       CASE Allows(x) /\ sight = "absent" ->
              /\ Writes(CanCleanupSent(run, x), CleanupSent(run, x), After) /\ late' = FALSE
         [] Allows(x) /\ sight = "idle" -> Goes(At("exit", x, op.then)) /\ UNCHANGED late
         [] OTHER -> /\ Writes(CanCleanupRequired(run, x), CleanupRequired(run, x), After)
                     /\ UNCHANGED late
  /\ UNCHANGED <<still, seen, worker>>

\* Mutant: the exit is taken for done once it was waited for long enough.
CleanupSentLate(x) ==
  /\ Watching /\ run.role[x].clean = "sent"
  /\ IF "absent" \in Sights(x) \/ late
       THEN Writes(CanCleanupComplete(run, x), CleanupComplete(run, x), After)
       ELSE Goes(After)
  /\ UNCHANGED <<still, seen, worker, late>>

CleanupWaits(x) ==
  /\ Watching /\ run.role[x].clean = "sent"
  /\ \E sight \in Sights(x) :
       CASE sight = "absent" -> Writes(CanCleanupComplete(run, x), CleanupComplete(run, x), After)
         [] sight = "unclear" -> Writes(CanCleanupRequired(run, x), CleanupRequired(run, x), After)
         [] sight \notin {"absent", "unclear"} /\ late ->
              Mutates(CanCleanupRequired(run, x), CleanupRequired(run, x), After, Thrown,
                      IF sight = "dead" THEN auth ELSE NoAuth)
         [] OTHER -> Goes(After)
  /\ UNCHANGED <<still, seen, worker, late>>

\* Nothing of a worker is left to do.
Quiet ==
  \A x \in Roles :
    LET a == run.role[x]
    IN /\ ~LeaseOpen(a) /\ a.att \notin {"dispatch_claimed", "dispatched"}
       /\ a.clean \notin {"claimed", "sent"} /\ ~(a.clean = "pending" /\ Allows(x))

\* Mutant: the lost authority is not noticed.
RestForgets ==
  /\ Watching /\ Quiet /\ Goes(After)
  /\ UNCHANGED <<still, seen, worker, late>>

\* The authority to go on is lost with the process: wait for the operator.
SuperviseRest ==
  /\ Watching /\ Quiet
  /\ IF /\ run.condition = "active" /\ auth = NoAuth /\ AnyEligible(run)
        /\ \A x \in Roles : ~Live(run.role[x])
       THEN Writes(CanWait(run, NextRole(run)), ResourceWait(run), After)
       ELSE Goes(After)
  /\ UNCHANGED <<still, seen, worker, late>>

\* monitorDeliveryPlanningRuns: the tick takes its turn with the requests.
Tick ==
  /\ op.at = "idle" /\ begun /\ ~Terminal(run)
  /\ op' = At("supervise", "po", "advance")
  /\ UNCHANGED <<still, run, auth, faults, upsets, refused, seen, worker, late>>

Supervise ==
  \/ SuperviseApply \/ SuperviseRest \/ ReportRejected
  \/ \E x \in Roles : \/ SuperviseLease(x) \/ SuperviseDispatch(x) \/ SuperviseWorker(x)
                      \/ CleanupPending(x) \/ CleanupClaimed(x) \/ CleanupWaits(x)

--------------------------------------------------------------------------------
(* advanceDeliveryPlanningRun, after the supervision                             *)

\* deliveryPlanningRunCleanupContinuation
CleanupLeft == \E x \in Roles : run.role[x].clean \in {"pending", "claimed", "reconcile_required"}

SomeLive == \E x \in Roles : Live(run.role[x])

AdvanceEnds ==
  /\ op.at = "advance"
  /\ Terminal(run) \/ run.condition \in Halted \/ SomeLive
  /\ op' = Idle
  /\ auth' = IF Terminal(run) \/ (run.condition \in Halted /\ ~CleanupLeft) THEN NoAuth ELSE auth
  /\ UNCHANGED <<still, run, faults, upsets, refused, seen, worker, late>>

Free == op.at = "advance" /\ ~Terminal(run) /\ run.condition \notin Halted /\ ~SomeLive
OnCourse == plan.holds = "source" /\ onCourse

AdvanceOffCourse ==
  /\ Free /\ ~OnCourse
  /\ Mutates(CanMarkOffCourse(run), MarkOffCourse(run), Idle, Idle, NoAuth)
  /\ UNCHANGED <<still, seen, worker, late>>

AdvanceCompile ==
  /\ Free /\ OnCourse /\ run.phase = "synthesis"
  /\ \E ready \in {"ready", "unready"} : Writes(CanCompile(run), Compile(run, ready), Idle)
  /\ UNCHANGED <<still, seen, worker, late>>

MaySpawn ==
  /\ AnyEligible(run)
  /\ auth.kind = "start" \/ (auth.kind = "resource_retry" /\ auth.role = NextRole(run))

AdvanceRests ==
  /\ Free /\ OnCourse /\ run.phase # "synthesis" /\ ~MaySpawn
  /\ op' = Idle
  /\ auth' = IF auth.kind = "cleanup_only" \/ (auth.kind = "resource_retry" /\ AnyEligible(run))
               THEN NoAuth ELSE auth
  /\ UNCHANGED <<still, run, faults, upsets, refused, seen, worker, late>>

\* dispatchDeliveryPlanningRoleCore up to the spawn claim: the worker profile or the
\* resource gate says no. A run that waits already is not written again.
AdvanceWaits ==
  /\ Free /\ OnCourse /\ run.phase # "synthesis" /\ MaySpawn
  /\ IF CanWait(run, NextRole(run))
       THEN Mutates(TRUE, ResourceWait(run), Idle, Idle, NoAuth)
       ELSE Goes(Idle)
  /\ UNCHANGED <<still, seen, worker, late>>

\* The workers cannot be counted: the tick fails.
AdvanceUncounted ==
  /\ Free /\ OnCourse /\ run.phase # "synthesis" /\ MaySpawn
  /\ Goes(Idle)
  /\ UNCHANGED <<still, seen, worker, late>>

AdvanceSpawn ==
  /\ Free /\ OnCourse /\ run.phase # "synthesis" /\ MaySpawn
  /\ LET x == NextRole(run)
     IN Writes(CanClaimSpawn(run, x), ClaimSpawn(run, x), At("spawn", x, "advance"))
  /\ late' = FALSE
  /\ UNCHANGED <<still, seen, worker>>

Advance ==
  \/ AdvanceEnds \/ AdvanceOffCourse \/ AdvanceCompile \/ AdvanceRests \/ AdvanceWaits
  \/ AdvanceUncounted \/ AdvanceSpawn

--------------------------------------------------------------------------------
(* The worker of the claimed role is started, bound, attested, and sent its prompt *)

Here(place) == op.at = place
To(place) == At(place, op.role, op.then)
Started == [worker EXCEPT ![op.role] = [life |-> "live", turn |-> "fresh"]]

\* tmux new-session, whose answer may be lost, and the first look at the pane.
SpawnStarts ==
  /\ Here("spawn")
  /\ \/ worker' = Started /\ Goes(To("bind"))
     \/ worker' \in {worker, Started} /\ Goes(To("spawnFailed"))
  /\ UNCHANGED <<still, seen, late>>

SpawnBinds ==
  /\ Here("bind")
  /\ IF CanBind(run, op.role, late)
       THEN Mutates(TRUE, Bind(run, op.role), To("attest"), To("spawnFailed"), auth)
       ELSE Goes(To("spawnFailed"))
  /\ UNCHANGED <<still, seen, worker, late>>

SpawnAttests ==
  /\ Here("attest")
  /\ \/ /\ Attested(op.role)
        /\ Writes(CanClaimDispatch(run, op.role), ClaimDispatch(run, op.role), To("deliver"))
     \/ Goes(To("spawnFailed"))
  /\ UNCHANGED <<still, seen, worker, late>>

SpawnFails ==
  /\ Here("spawnFailed")
  /\ \E sight \in Sights(op.role) :
       IF sight = "absent"
         THEN Writes(CanCloseAbsent(run, op.role), CloseAbsent(run, op.role), Thrown)
         ELSE Goes(Thrown)
  /\ UNCHANGED <<still, seen, worker, late>>

\* deliverTextToAgent, as far as the stage of its result tells: nothing typed,
\* submitted, or anything between.
Deliver ==
  LET x == op.role
      turned(t) == [worker EXCEPT ![x].turn = t]
  IN /\ Here("deliver")
     /\ \/ Goes(To("notDelivered")) /\ UNCHANGED <<worker, typed>>
        \/ /\ worker[x].life = "live"
           /\ \/ worker' = turned("working") /\ Goes(To("delivered"))
              \/ worker' \in {worker, turned("working")} /\ Goes(To("unknown"))
           /\ typed' = [typed EXCEPT ![x] = @ + 1]
     /\ UNCHANGED <<begun, plan, onCourse, exits, stops, writes, seen, late>>

Delivered ==
  LET x == op.role
  IN /\ \/ Here("delivered") /\ Writes(CanDispatched(run, x), Dispatched(run, x), Idle)
        \/ Here("notDelivered") /\ Writes(CanFinish(run, x), Crashed(run, x), Thrown)
        \/ Here("unknown") /\ Writes(CanFinish(run, x), Uncertain(run, x), Thrown)
     /\ UNCHANGED <<still, seen, worker, late>>

\* requestDeliveryPlanningWorkerExit: /exit is typed, and a failure may come after it.
Exit ==
  /\ Here("exit")
  /\ \/ Goes(To("exited")) /\ exits' = [exits EXCEPT ![op.role] = @ + 1]
     \/ Goes(To("notExited")) /\ exits' \in {exits, [exits EXCEPT ![op.role] = @ + 1]}
  /\ worker[op.role].life = "live" \/ exits' = exits
  /\ UNCHANGED <<begun, plan, onCourse, typed, stops, writes, seen, worker, late>>

Exited ==
  LET x == op.role
  IN /\ \/ /\ Here("exited") /\ late' = FALSE
           /\ Writes(CanCleanupSent(run, x), CleanupSent(run, x), After)
        \/ /\ Here("notExited") /\ UNCHANGED late
           /\ Writes(CanCleanupRequired(run, x), CleanupRequired(run, x), After)
     /\ UNCHANGED <<still, seen, worker>>

Spawn == SpawnStarts \/ SpawnBinds \/ SpawnAttests \/ SpawnFails
Dispatch == Deliver \/ Delivered
Leave == Exit \/ Exited

--------------------------------------------------------------------------------
(* Requests. The revisions they name are current: an operation at a time.         *)

Request == op.at = "idle" /\ begun
Served(place, then) == op' = At(place, "po", then)

\* startDeliveryPlanningRun, for the plan of an approved baseline.
Start ==
  /\ op.at = "idle" /\ ~begun /\ OnCourse
  /\ \/ /\ begun' = TRUE /\ auth' = [NoAuth EXCEPT !.kind = "start"]
        /\ Served("supervise", "advance") /\ UNCHANGED <<faults, upsets>>
     \/ begun' \in BOOLEAN /\ Fault /\ UNCHANGED <<auth, op>>
  /\ UNCHANGED <<run, refused, world, seen>>

\* continueDeliveryPlanningRun with the kind resource_retry.
ContinueRetry ==
  /\ Request /\ ~CleanupLeft /\ RetryEligible(run)
  /\ LET x == NextRole(run)
     IN \/ Mutates(CanAuthorizeRetry(run), AuthorizeRetry(run), At("supervise", x, "advance"),
                   Idle, [kind |-> "resource_retry", role |-> x])
        \/ op' = Idle /\ auth' = NoAuth /\ UNCHANGED <<run, faults, upsets, refused>>
  /\ UNCHANGED <<still, seen, worker, late>>

\* The same request again: its receipt gives the authority back while it still applies.
ContinueRetryReplay(x) ==
  /\ Request /\ x \in run.retried
  /\ auth' = IF run.condition = "active" /\ Eligible(run, x)
               THEN [kind |-> "resource_retry", role |-> x] ELSE NoAuth
  /\ Served("supervise", "advance")
  /\ UNCHANGED <<still, run, faults, upsets, refused, seen, worker, late>>

\* ... with the kind cleanup: for a cleanup that waits, that another process has
\* claimed, or that is to be recovered because its worker is still there, exactly.
ContinueCleanup(x) ==
  /\ Request /\ CanAuthorizeCleanup(run, x)
  /\ run.role[x].clean = "reconcile_required" => worker[x].life = "live"
  /\ Mutates(TRUE, AuthorizeCleanup(run, x), At("supervise", x, "advance"), Idle,
             [kind |-> "cleanup_only", role |-> x])
  /\ UNCHANGED <<still, seen, worker, late>>

\* A receipt of a cleanup is never authority to type again.
ContinueCleanupReplay ==
  /\ Request /\ run.cleanups > 0
  /\ auth' = NoAuth /\ Served("supervise", "end")
  /\ UNCHANGED <<still, run, faults, upsets, refused, seen, worker, late>>

\* Recovery of a cleanup whose worker is not there, or of which only the dead pane is.
ContinueReap(x) ==
  /\ Request /\ CanRecoverAbsent(run, x) /\ worker[x].life = "dead"
  /\ worker' = [worker EXCEPT ![x].life = "gone"]
  /\ op' = At("reaped", x, "end")
  /\ UNCHANGED <<still, run, auth, faults, upsets, refused, seen, late>>

ContinueAbsent(x) ==
  /\ (Request /\ worker[x].life \in {"none", "gone"}) \/ (Here("reaped") /\ op.role = x)
  /\ CanRecoverAbsent(run, x)
  /\ Mutates(TRUE, RecoverAbsent(run, x), Idle, Idle, NoAuth)
  /\ UNCHANGED <<still, seen, worker, late>>

Continue ==
  \/ ContinueRetry \/ ContinueCleanupReplay
  \/ \E x \in Roles : \/ ContinueRetryReplay(x) \/ ContinueCleanup(x)
                      \/ ContinueReap(x) \/ ContinueAbsent(x)

Provisional(x) == run.role[x].lease = "reconcile_required" /\ run.role[x].stop = "none"

\* terminateDeliveryPlanningProvisionalWorker: claim, then one systemctl stop unless
\* the scope is seen to be absent.
Terminate(x) ==
  /\ Request /\ Provisional(x)
  /\ \E sight \in Sights(x) \ {"unclear"} :
       Writes(CanClaimStop(run, x), ClaimStop(run, x),
              IF sight = "absent" THEN At("supervise", x, "end") ELSE At("stop", x, "end"))
  /\ UNCHANGED <<still, seen, worker, late>>

Stop ==
  LET x == op.role
  IN /\ Here("stop")
     /\ stops' = [stops EXCEPT ![x] = @ + 1]
     /\ \/ worker' = [worker EXCEPT ![x].life = "gone"] /\ Goes(To("stopped"))
        \/ worker' \in {worker, [worker EXCEPT ![x].life = "gone"]} /\ Goes(Idle)
     /\ UNCHANGED <<begun, plan, onCourse, typed, exits, writes, seen, late>>

StopIsSent ==
  /\ Here("stopped")
  /\ Writes(CanStopSent(run, op.role), StopSent(run, op.role), To("supervise"))
  /\ UNCHANGED <<still, seen, worker, late>>

\* The same request again only looks.
TerminateReplay ==
  /\ Request /\ \E x \in Roles : run.role[x].stop # "none"
  /\ Served("supervise", "end")
  /\ UNCHANGED <<still, run, auth, faults, upsets, refused, seen, worker, late>>

CancelRequest ==
  /\ Request /\ CanCancel(run)
  /\ Mutates(TRUE, Cancel(run), Idle, Idle, NoAuth)
  /\ UNCHANGED <<still, seen, worker, late>>

--------------------------------------------------------------------------------
(* Apply: the outbox between the run and the plan                                 *)

\* applyDeliveryPlanningRun
ApplyRequest ==
  /\ Request /\ CanClaimApply(run) /\ plan.holds = "source"
  /\ IF onCourse
       THEN Writes(TRUE, ClaimApply(run), At("apply", "po", "end"))
       ELSE Writes(CanMarkOffCourse(run), MarkOffCourse(run), Idle)
  /\ UNCHANGED <<still, seen, worker, late>>

ApplyReplay ==
  /\ Request /\ Reconciling
  /\ Goes(At("apply", "po", "end"))
  /\ UNCHANGED <<still, seen, worker, late>>

\* reconcileDeliveryPlanningApply: the receipt in the plan's history tells whether the
\* candidate is in; without it the candidate goes in only while the plan and the
\* workspace are those it was made from.
ApplyToPlan ==
  /\ Here("apply") /\ ~plan.receipt /\ OnCourse
  /\ \/ /\ plan' = [holds |-> "candidate", receipt |-> TRUE] /\ writes' = writes + 1
        /\ Goes(To("planned"))
     \/ /\ Fault
        /\ \/ plan' = [holds |-> "candidate", receipt |-> TRUE] /\ writes' = writes + 1
           \/ UNCHANGED <<plan, writes>>
        /\ op' = To("applyFailed") /\ UNCHANGED <<run, auth, refused>>
  /\ UNCHANGED <<begun, onCourse, typed, exits, stops, seen, worker, late>>

ApplyReceipt ==
  /\ Here("apply") /\ plan.receipt
  /\ Goes(IF plan.holds = "candidate" THEN To("planned") ELSE To("applyFailed"))
  /\ UNCHANGED <<still, seen, worker, late>>

ApplyOffCourse ==
  /\ Here("apply") /\ ~plan.receipt /\ ~OnCourse
  /\ IF run.condition = "off_course"
       THEN Goes(To("abandon"))
       ELSE Mutates(CanMarkOffCourse(run), MarkOffCourse(run), To("abandon"),
                    To("applyFailed"), auth)
  /\ UNCHANGED <<still, seen, worker, late>>

Abandon ==
  /\ Here("abandon")
  /\ Mutates(CanAbandonApply(run), AbandonApply(run), To("applyFailed"), To("applyFailed"), auth)
  /\ UNCHANGED <<still, seen, worker, late>>

\* markApplied, which the domain refuses to a run that is off course.
Planned ==
  /\ Here("planned")
  /\ IF CanMarkApplied(run)
       THEN Mutates(TRUE, MarkApplied(run), After, To("applyFailed"), NoAuth)
       ELSE Goes(To("applyFailed"))
  /\ UNCHANGED <<still, seen, worker, late>>

\* The error of a reconciliation is caught, and so is that of this write.
ApplyFails ==
  /\ Here("applyFailed")
  /\ IF CanReconcileApply(run)
       THEN Mutates(TRUE, ReconcileApply(run), After, After, auth)
       ELSE Goes(After)
  /\ UNCHANGED <<still, seen, worker, late>>

Requests ==
  \/ Start \/ Continue \/ CancelRequest \/ TerminateReplay \/ ApplyRequest \/ ApplyReplay
  \/ \E x \in Roles : Terminate(x)
Stopping == Stop \/ StopIsSent
Applying ==
  ApplyToPlan \/ ApplyReceipt \/ ApplyOffCourse \/ Abandon \/ Planned \/ ApplyFails

--------------------------------------------------------------------------------
(* Everything else                                                                *)

unserved == <<record, auth, seen, op, typed, exits, stops, writes>>

WorkerReports(x) ==
  /\ worker[x].life = "live" /\ worker[x].turn = "working"
  /\ worker' = [worker EXCEPT ![x].turn = "reported"]
  /\ UNCHANGED <<unserved, plan, onCourse, late, upsets>>

\* The scope ends after its RuntimeMaxSec, or Codex dies; the pane is kept from the
\* delivery of the prompt to the exit.
WorkerDies(x) ==
  /\ worker[x].life = "live"
  /\ worker' = [worker EXCEPT ![x].life = IF typed[x] > 0 /\ exits[x] = 0 THEN "dead" ELSE "gone"]
  /\ UNCHANGED <<unserved, plan, onCourse, late, upsets>>

TimePasses ==
  /\ ~late /\ late' = TRUE
  /\ UNCHANGED <<unserved, plan, onCourse, worker, upsets>>

\* The workspace leaves its baseline, or is brought back to it.
CourseFlips ==
  /\ Upset
  /\ onCourse' = ~onCourse
  /\ UNCHANGED <<unserved, plan, worker, late>>

PlanEdited ==
  /\ op.at = "idle" /\ Upset
  /\ plan' = [plan EXCEPT !.holds = "edited"]
  /\ UNCHANGED <<unserved, onCourse, worker, late>>

\* A tmux new-session that was sent may still start the worker.
Crash ==
  /\ op.at # "down" /\ Upset
  /\ op' = Down /\ auth' = NoAuth /\ seen' = {}
  /\ worker' \in IF Here("spawn") THEN {worker, Started} ELSE {worker}
  /\ UNCHANGED <<record, plan, onCourse, late, typed, exits, stops, writes>>

\* The reconciliation of startup is a supervision without authority.
Restart ==
  /\ op.at = "down"
  /\ op' = IF begun THEN At("supervise", "po", "startup") ELSE Idle
  /\ auth' = NoAuth /\ seen' = {}
  /\ UNCHANGED <<record, upsets, world>>

Worker == \E x \in Roles : WorkerReports(x) \/ WorkerDies(x)
Environment == Worker \/ TimePasses \/ CourseFlips \/ PlanEdited \/ Crash \/ Restart

Next ==
  Tick \/ Supervise \/ Advance \/ Spawn \/ Dispatch \/ Leave \/ Requests \/ Stopping \/ Applying
  \/ Environment

Spec == Init /\ [][Next]_vars

\* The process goes on with what it has begun, the server is started again, a worker
\* ends at the latest with its scope, and time passes. The monitor's tick waits in the
\* queue of the requests, which is served in order, so requests do not keep it out. An
\* assumption about the machine: the workers can be counted again, sooner or later.
Fairness ==
  /\ SF_vars(Tick)
  /\ SF_vars(AdvanceSpawn \/ AdvanceWaits)
  /\ WF_vars(Supervise) /\ WF_vars(Advance) /\ WF_vars(Spawn) /\ WF_vars(Dispatch)
  /\ WF_vars(Leave) /\ WF_vars(Stopping) /\ WF_vars(Applying)
  /\ WF_vars(Restart) /\ WF_vars(TimePasses) /\ WF_vars(Worker)
FairSpec == Spec /\ Fairness

--------------------------------------------------------------------------------
(* Properties                                                                    *)

TypeOK ==
  /\ begun \in BOOLEAN /\ run \in RunRecord
  /\ plan \in [holds : {"source", "candidate", "edited"}, receipt : BOOLEAN] /\ onCourse \in BOOLEAN
  /\ worker \in [Roles -> [life : {"none", "live", "dead", "gone"},
                           turn : {"fresh", "working", "reported"}]]
  /\ late \in BOOLEAN /\ auth \in [kind : Kinds, role : Roles] /\ seen \in SUBSET Roles
  /\ op \in [at : Places, role : Roles, then : {"advance", "end", "startup"}]
  /\ typed \in [Roles -> Nat] /\ exits \in [Roles -> Nat] /\ stops \in [Roles -> Nat]
  /\ writes \in Nat /\ refused \in BOOLEAN
  /\ upsets \in 0..MaxUpsets /\ faults \in 0..upsets

Alive(x) == worker[x].life = "live"

\* What the server sees, remembers and has the authority for never leads it to a
\* write that the domain refuses.
NeverRefused == ~refused

\* A role is prompted at most once, whatever fails or is restarted; /exit is typed
\* again only for a new cleanup of the operator or after a write that has thrown; a
\* scope is stopped at most once; and at most one worker is alive.
InputOnce ==
  /\ \A x \in Roles : /\ typed[x] <= 1 /\ stops[x] <= 1
                      /\ exits[x] <= 1 + run.cleanups + faults
  /\ \A x, y \in Roles : Alive(x) /\ Alive(y) => x = y

\* What README.md says of terminal input: it is never retried automatically.
ExitNotRetried == \A x \in Roles : exits[x] <= 1 + run.cleanups

\* A worker that the record says is closed is not there: its lease closed, or its
\* cleanup complete. So none is there once the run has ended.
ClosedMeansGone ==
  \A x \in Roles :
    (~Live(run.role[x]) \/ Terminal(run)) /\ worker[x].life \in {"live", "dead"} => FALSE

\* The candidate is written into the plan at most once; the run is applied only if it
\* was, and abandoned only if it was not.
AppliedOnce ==
  /\ writes <= 1
  /\ run.outbox = "applied" => plan.receipt
  /\ run.outbox \in {"held", "abandoned"} => writes = 0

\* A step that types, or after which more workers are alive.
Stirs ==
  \/ typed' # typed \/ exits' # exits
  \/ Cardinality({x \in Roles : worker'[x].life = "live"}) > Cardinality({x \in Roles : Alive(x)})

\* A prompt, an /exit and a start of a worker need the authority of this process; a
\* restart has none.
InputNeedsAuthority == [][Stirs => auth # NoAuth]_vars

\* The run comes to an end or to a wait for the operator.
AwaitsOperator ==
  \/ Terminal(run) \/ run.condition # "active" \/ run.phase = "review"
  \/ \E x \in Roles : run.role[x].clean = "pending" /\ ~Allows(x)
  \/ \E x \in Roles : run.role[x].lease = "reconcile_required"
Settles == begun ~> AwaitsOperator

\* What the apply request's comment says of a claim that is left behind: reconciliation
\* can prove the plan operation and complete the outbox. So no claim has both the
\* candidate in the plan and a run that can no longer be marked as applied.
ClaimCompletable ==
  plan.holds = "candidate" /\ Reconciling => CanMarkApplied(run)

\* What is promised of a planning run: no write the domain refuses, no input twice, no
\* worker behind a closed lease, and the plan written at most once.
PlanningSafe == TypeOK /\ NeverRefused /\ InputOnce /\ ClosedMeansGone /\ AppliedOnce

================================================================================
