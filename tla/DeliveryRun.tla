------------------------------ MODULE DeliveryRun ------------------------------
(* A local Delivery Run (delivery-run.js, delivery-run-store.js, server.js): the *)
(* steps of an approved plan are worked on one after another, each by one        *)
(* mission, and verified by the operator. Run, plan and missions are three files *)
(* with no common transaction; the run's outbox and the startup reconciliation   *)
(* bring them together after a crash or a write that throws.                     *)
(*                                                                               *)
(* enqueueDeliveryLifecycleOperation runs the operations on runs and plans one   *)
(* after another; each is a chain of writes, one step per write. Dispatches and  *)
(* the Supervisor only wait for the mission queue, so they come between.         *)
EXTENDS Naturals

CONSTANTS
  StepCount,    \* steps of the plan
  Contents,     \* bound: what baselines can say of the workspace
  MaxCrashes,   \* bound: restarts of the server
  MaxFaults     \* bound: writes of any store that throw

ASSUME ConstantsAssumption ==
  /\ StepCount \in Nat \ {0}
  /\ Contents \subseteq Nat \ {0} /\ Contents # {}
  /\ MaxCrashes \in Nat /\ MaxFaults \in Nat

Steps == 1..StepCount

NoContent == 0

TaskStates == {"pending", "mission_linked", "implementation_captured", "verified",
               "failed", "off_course", "reconcile_required", "aborted"}
OutboxStates == {"held", "pending", "applied", "reconcile_required", "blocked", "canceled"}
Conditions == {"absent", "preparing", "active", "awaiting_verification", "blocked",
               "off_course", "reconcile_required", "aborted", "verified"}
MissionStatuses == {"absent", "ready", "dispatching", "running", "needs_you",
                    "verifying", "reconcile_required", "done", "failed", "canceled"}
MissionTerminal == {"done", "failed", "canceled"}
PlanPhases == {"approved", "executing", "verifying", "ready_to_release", "planning"}

VARIABLES
  run,      \* the run, in delivery-runs.json and in the repository alike
  plan,     \* phase of its plan; "planning" once the approval it binds is gone
  mem,      \* missionQueueStore: the mission of each step's binding key
  disk,     \* mission-queue.json
  ws,       \* the content of the workspace
  dead,     \* repositories that a committed but unreadable write has poisoned
  up,       \* whether the server process runs
  op,       \* where the lifecycle operation stands
  held,     \* who holds the mission queue over an await
  disp,     \* the step a dispatch is working on, 0 without one
  sent,     \* history: steps whose text was handed to a worker
  crashes, faults

missions == <<mem, disk>>
stores == <<run, plan, missions, dead, faults>>
vars == <<run, plan, mem, disk, ws, dead, up, op, held, disp, sent, crashes, faults>>

Idle == [at |-> "idle", step |-> 1, base |-> NoContent, passed |-> FALSE, then |-> ""]

--------------------------------------------------------------------------------
(* The run: delivery-run.js, one operator per mutation                           *)

NoRun == [condition |-> "absent",
          state |-> [t \in Steps |-> "pending"], outbox |-> [t \in Steps |-> "held"],
          linked |-> [t \in Steps |-> FALSE], verdict |-> [t \in Steps |-> "none"],
          expected |-> [t \in Steps |-> NoContent], impl |-> [t \in Steps |-> NoContent]]

\* createDeliveryRun: the first step may have its mission, the others are held.
CreatedRun ==
  [NoRun EXCEPT !.condition = "preparing", !.outbox[1] = "pending", !.expected[1] = ws]

Pending(t) == run.outbox[t] \in {"pending", "reconcile_required"}

\* linkDeliveryRunMission
Linked(t) ==
  [run EXCEPT !.state[t] = "mission_linked", !.linked[t] = TRUE,
              !.outbox[t] = "applied", !.condition = "active"]

\* markDeliveryRunMissionReconcileRequired
Uncertain(t) ==
  [run EXCEPT !.state[t] = "reconcile_required", !.outbox[t] = "reconcile_required",
              !.condition = "reconcile_required"]

\* captureDeliveryRunImplementation
Captured(t, content) ==
  [run EXCEPT !.state[t] = "implementation_captured", !.impl[t] = content,
              !.condition = "awaiting_verification"]

Decided(passed) == IF passed THEN "verified" ELSE "failed"

\* recordDeliveryRunVerification: only a passed step releases the next one.
Verdict(t, passed) ==
  LET decided == [run EXCEPT !.state[t] = Decided(passed), !.verdict[t] = Decided(passed)]
  IN IF ~passed THEN [decided EXCEPT !.condition = "blocked"]
     ELSE IF t = StepCount THEN [decided EXCEPT !.condition = "verified"]
     ELSE [decided EXCEPT !.condition = "active",
                          !.expected[t + 1] = run.impl[t], !.outbox[t + 1] = "pending"]

\* abortDeliveryRun
Aborted ==
  [run EXCEPT !.condition = "aborted",
     !.state = [t \in Steps |-> IF run.state[t] = "verified" THEN "verified" ELSE "aborted"],
     !.outbox = [t \in Steps |-> IF run.state[t] # "verified" /\ run.outbox[t] # "applied"
                                   THEN "canceled" ELSE run.outbox[t]]]

\* markDeliveryRunOffCourse
OffCourse(t) ==
  [run EXCEPT !.condition = "off_course", !.state[t] = "off_course",
              !.outbox[t] = IF @ = "applied" THEN @ ELSE "blocked"]

Terminal == run.condition \in {"aborted", "verified"}

\* The lifecycle parts of validateTask and validateOutbox.
ValidTask(r, t) ==
  /\ r.state[t] \in {"mission_linked", "implementation_captured", "verified", "failed"}
       => r.linked[t]
  /\ r.state[t] \in {"implementation_captured", "verified", "failed"}
       => r.impl[t] # NoContent
  /\ r.state[t] \in {"verified", "failed"} => r.verdict[t] = r.state[t]

ValidOutbox(r, t) ==
  /\ r.outbox[t] = "applied" => r.linked[t] /\ r.state[t] # "pending"
  /\ r.outbox[t] = "reconcile_required" => r.state[t] = "reconcile_required"
  /\ r.outbox[t] = "blocked" => r.state[t] = "off_course"

\* The lifecycle part of validateDeliveryRun, which refuses a whole store. The
\* actions do not test it: RunValid says it never refuses what they write.
ValidRun(r) ==
  /\ \A t \in Steps :
       /\ ValidTask(r, t) /\ ValidOutbox(r, t)
       /\ IF r.condition = "aborted"
            THEN \/ r.state[t] = "verified" /\ r.outbox[t] = "applied"
                 \/ r.state[t] = "aborted" /\ r.outbox[t] \in {"applied", "canceled"}
            ELSE r.state[t] # "aborted" /\ r.outbox[t] # "canceled"
  /\ \A t \in Steps \ {1} :
       /\ r.expected[t] = IF r.state[t - 1] = "verified" THEN r.impl[t - 1] ELSE NoContent
       /\ r.condition # "aborted" =>
            /\ r.state[t - 1] # "verified" => r.outbox[t] = "held"
            /\ r.state[t - 1] = "verified" /\ r.state[t] = "pending" => r.outbox[t] # "held"
  /\ \A t, u \in Steps :
       r.outbox[t] \in {"pending", "reconcile_required"} /\
       r.outbox[u] \in {"pending", "reconcile_required"} => t = u
  /\ r.condition = "aborted" => \E t \in Steps : r.state[t] = "aborted"
  /\ r.condition = "verified" => \A t \in Steps : r.state[t] = "verified"
  /\ r.condition = "awaiting_verification" =>
       \E t \in Steps : r.state[t] = "implementation_captured"
  /\ r.condition = "reconcile_required" => \E t \in Steps : r.state[t] = "reconcile_required"
  /\ r.condition = "off_course" => \E t \in Steps : r.state[t] = "off_course"
  /\ r.condition = "blocked" => \E t \in Steps : r.state[t] = "failed"

--------------------------------------------------------------------------------
(* Writes. A write of a repository that throws may have replaced the file: then  *)
(* the repository reads it back, or refuses to work until the next start. The    *)
(* mission queue keeps its old memory instead.                                   *)

Fault == faults < MaxFaults /\ faults' = faults + 1

RunWritten(next) == "run" \notin dead /\ run' = next /\ UNCHANGED <<dead, faults>>
RunThrows(next) ==
  \/ "run" \in dead /\ UNCHANGED <<run, dead, faults>>
  \/ /\ "run" \notin dead /\ Fault
     /\ \/ run' \in {run, next} /\ UNCHANGED dead
        \/ run' = next /\ dead' = dead \cup {"run"}

PlanWritten(next) == "plan" \notin dead /\ plan' = next /\ UNCHANGED <<dead, faults>>
PlanThrows(next) ==
  \/ "plan" \in dead /\ UNCHANGED <<plan, dead, faults>>
  \/ /\ "plan" \notin dead /\ Fault
     /\ \/ plan' \in {plan, next} /\ UNCHANGED dead
        \/ plan' = next /\ dead' = dead \cup {"plan"}

MissionsWritten(next) == mem' = next /\ disk' = next /\ UNCHANGED faults
MissionsThrow(next) == Fault /\ disk' \in {disk, next} /\ UNCHANGED mem

Goes(at) == op' = [op EXCEPT !.at = at]
Ends == op' = Idle

--------------------------------------------------------------------------------
(* reconcileDeliveryRun                                                          *)

Live(q, t) == q[t] \notin MissionTerminal \cup {"absent"}

\* A bound mission the run does not know of. Only a ready one whose step still asks
\* for its mission may be adopted.
Orphan(t) == mem[t] # "absent" /\ ~run.linked[t]
Adoptable(t) == Pending(t) /\ mem[t] = "ready"

\* The mission statuses deliveryRunMissionLinkIntegrity accepts beside a task.
Accepted(state) ==
  CASE state = "mission_linked" -> MissionStatuses \ (MissionTerminal \cup {"absent"})
    [] state = "implementation_captured" -> {"verifying"}
    [] state = "verified" -> {"verifying", "done"}
    [] state = "failed" -> {"verifying", "failed"}
    [] OTHER -> MissionStatuses \ {"absent"}

\* deliveryRunMissionLinkIntegrity
LinksIntact ==
  \A t \in Steps :
    /\ Orphan(t) => Adoptable(t)
    /\ run.linked[t] => run.outbox[t] = "applied" /\ mem[t] \in Accepted(run.state[t])

Lifecycle == up /\ "run" \notin dead /\ op.at = "idle"
Free == held = "none"

\* Another reconcile, by request (a repeated start comes here too).
Reconcile ==
  /\ Lifecycle /\ run.condition # "absent"
  /\ op' = [Idle EXCEPT !.at = "integrity", !.then = "outbox"]
  /\ UNCHANGED <<stores, ws, up, held, disp, sent, crashes>>

\* The plan must still be the approved one, and the bound missions those the run
\* knows of.
CheckIntegrity ==
  /\ up /\ op.at = "integrity" /\ Free
  /\ IF plan = "planning" \/ "plan" \in dead THEN Ends
     ELSE IF LinksIntact THEN Goes("finalize")
     ELSE IF run.condition \in {"verified", "off_course", "blocked"} THEN Ends
     ELSE \E t \in Steps :
            /\ run.state[t] \notin {"verified", "failed", "off_course"}
            /\ \A u \in 1..(t - 1) : run.state[u] \in {"verified", "failed", "off_course"}
            /\ op' = [op EXCEPT !.at = "off_course", !.step = t]
  /\ UNCHANGED <<stores, ws, up, held, disp, sent, crashes>>

\* A run that has ended, is blocked or off course already is left alone. Over a
\* drift the refusal is caught like any other failure to bring the mission about.
MarkOffCourse ==
  /\ up /\ op.at \in {"off_course", "drift"}
  /\ LET markable == run.condition \notin {"verified", "aborted", "off_course", "blocked"}
         refused == IF op.at = "drift" THEN Goes("uncertain") ELSE Ends
     IN \/ markable /\ RunWritten(OffCourse(op.step)) /\ Ends
        \/ markable /\ RunThrows(OffCourse(op.step)) /\ refused
        \/ ~markable /\ refused /\ UNCHANGED <<run, dead, faults>>
  /\ UNCHANGED <<plan, missions, ws, up, held, disp, sent, crashes>>

Outcome(t) == IF run.verdict[t] = "verified" THEN "done" ELSE "failed"
Unfinished == {t \in Steps : run.state[t] \in {"verified", "failed"} /\ mem[t] # Outcome(t)}

\* finalizeDeliveryMission for every decided step; the first that fails ends the
\* operation.
Finalize ==
  /\ up /\ op.at = "finalize" /\ Free
  /\ IF Unfinished = {} THEN Goes(op.then) /\ UNCHANGED <<missions, faults>>
     ELSE \E t \in Unfinished :
            /\ \A u \in Unfinished : t <= u
            /\ LET next == [mem EXCEPT ![t] = Outcome(t)]
               IN IF mem[t] # "verifying" THEN Ends /\ UNCHANGED <<missions, faults>>
                  ELSE \/ MissionsWritten(next) /\ UNCHANGED op
                       \/ MissionsThrow(next) /\ Ends
  /\ UNCHANGED <<run, plan, dead, ws, up, held, disp, sent, crashes>>

\* The outbox asks for at most one mission; its workspace must not have moved.
ReadOutbox ==
  /\ up /\ op.at = "outbox"
  /\ IF \E t \in Steps : Pending(t)
       THEN \E t \in Steps :
              /\ Pending(t)
              /\ op' = [op EXCEPT !.step = t,
                          !.at = IF ws = run.expected[t] THEN "execute" ELSE "drift"]
       ELSE Ends
  /\ UNCHANGED <<stores, ws, up, held, disp, sent, crashes>>

\* ensureDeliveryRunPlanExecuting. Missions outside the run may hold the workspace.
EnsureExecuting ==
  /\ up /\ op.at = "execute" /\ Free
  /\ \/ plan = "executing" /\ Goes("ensure") /\ UNCHANGED <<plan, dead, faults>>
     \/ plan = "approved" /\ PlanWritten("executing") /\ Goes("ensure")
     \/ plan = "approved" /\ PlanThrows("executing") /\ Goes("uncertain")
     \/ plan # "executing" /\ Goes("uncertain") /\ UNCHANGED <<plan, dead, faults>>
  /\ UNCHANGED <<run, missions, ws, up, held, disp, sent, crashes>>

\* ensureDeliveryMission finds the mission by its binding key.
EnsureMission ==
  /\ up /\ op.at = "ensure" /\ Free
  /\ LET t == op.step
         next == [mem EXCEPT ![t] = "ready"]
     IN \/ Live(mem, t) /\ Goes("link") /\ UNCHANGED <<missions, faults>>
        \/ mem[t] = "absent" /\ MissionsWritten(next) /\ Goes("link")
        \/ mem[t] = "absent" /\ MissionsThrow(next) /\ Goes("uncertain")
        \/ ~Live(mem, t) /\ Goes("uncertain") /\ UNCHANGED <<missions, faults>>
  /\ UNCHANGED <<run, plan, dead, ws, up, held, disp, sent, crashes>>

LinkMission ==
  /\ up /\ op.at = "link"
  /\ \/ RunWritten(Linked(op.step)) /\ Ends
     \/ RunThrows(Linked(op.step)) /\ Goes("uncertain")
  /\ UNCHANGED <<plan, missions, ws, up, held, disp, sent, crashes>>

\* The catch: a step that is still pending is marked; a failing write is ignored.
MarkUncertain ==
  /\ up /\ op.at = "uncertain"
  /\ LET next == Uncertain(op.step)
     IN \/ run.state[op.step] = "pending" /\ (RunWritten(next) \/ RunThrows(next))
        \/ run.state[op.step] # "pending" /\ UNCHANGED <<run, dead, faults>>
  /\ Ends
  /\ UNCHANGED <<plan, missions, ws, up, held, disp, sent, crashes>>

Reconciliation ==
  \/ CheckIntegrity \/ MarkOffCourse \/ Finalize \/ ReadOutbox
  \/ EnsureExecuting \/ EnsureMission \/ LinkMission \/ MarkUncertain

--------------------------------------------------------------------------------
(* Requests. Each names the revisions the operator saw, so it acts on the        *)
(* current run or not at all; repeating its operation id continues where the     *)
(* first attempt stopped.                                                        *)

\* startDeliveryRun: the run is created with the baseline of this moment.
Start ==
  /\ Lifecycle /\ run.condition = "absent" /\ plan = "approved" /\ dead = {}
  /\ \/ RunWritten(CreatedRun) /\ op' = [Idle EXCEPT !.at = "integrity", !.then = "outbox"]
     \/ RunThrows(CreatedRun) /\ UNCHANGED op
  /\ UNCHANGED <<plan, missions, ws, up, held, disp, sent, crashes>>

Bound == plan # "planning" /\ "plan" \notin dead

\* captureDeliveryRunImplementationRequest: the mission waits for verification and
\* the workspace changed, within the paths of the step.
CaptureRead(t) ==
  /\ Lifecycle /\ Bound /\ Free
  /\ run.linked[t] /\ mem[t] = "verifying" /\ ws # run.expected[t]
  /\ op' = [Idle EXCEPT !.at = "capture", !.step = t, !.base = ws]
  /\ UNCHANGED <<stores, ws, up, held, disp, sent, crashes>>

CaptureWrite ==
  /\ up /\ op.at = "capture" /\ Free
  /\ LET next == Captured(op.step, op.base)
     IN IF run.state[op.step] = "mission_linked" /\ ~Terminal
          THEN RunWritten(next) \/ RunThrows(next)
          ELSE UNCHANGED <<run, dead, faults>>
  /\ Ends
  /\ UNCHANGED <<plan, missions, ws, up, held, disp, sent, crashes>>

\* verifyDeliveryRunTaskRequest: the operator decides on the captured content.
VerifyRead(t) ==
  /\ Lifecycle /\ Bound /\ Free
  /\ mem[t] = "verifying" /\ run.state[t] = "implementation_captured"
  /\ ws = run.impl[t]
  /\ \E passed \in BOOLEAN :
       op' = [Idle EXCEPT !.at = "verify", !.step = t, !.passed = passed]
  /\ UNCHANGED <<stores, ws, up, held, disp, sent, crashes>>

\* Mutant: the mission is finished before the run has the verdict.
VerifyMissionFirst ==
  /\ up /\ op.at = "verify" /\ Free
  /\ MissionsWritten([mem EXCEPT ![op.step] = IF op.passed THEN "done" ELSE "failed"])
  /\ Ends
  /\ UNCHANGED <<run, plan, dead, held, ws, up, disp, sent, crashes>>

\* The verdict is written to the run while the mission queue is held, then the
\* mission is finished.
VerifyWrite ==
  /\ up /\ op.at = "verify" /\ Free
  /\ LET next == Verdict(op.step, op.passed)
     IN \/ RunWritten(next) /\ Goes("conclude") /\ held' = "lifecycle"
        \/ RunThrows(next) /\ Ends /\ UNCHANGED held
  /\ UNCHANGED <<plan, missions, ws, up, disp, sent, crashes>>

\* Where a decided step leads: to the next mission, to the plan, or nowhere.
Continues ==
  IF run.condition = "verified" THEN Goes("advance")
  ELSE IF run.verdict[op.step] = "verified"
    THEN op' = [Idle EXCEPT !.at = "integrity", !.then = "outbox"]
  ELSE Ends

\* finalizeDeliveryMissionUnlocked
Conclude ==
  /\ up /\ op.at = "conclude" /\ held = "lifecycle"
  /\ LET next == [mem EXCEPT ![op.step] = Outcome(op.step)]
     IN \/ MissionsWritten(next) /\ Continues
        \/ MissionsThrow(next) /\ Ends
  /\ held' = "none"
  /\ UNCHANGED <<run, plan, dead, ws, up, disp, sent, crashes>>

\* The verification repeated with its operation id: the receipt answers it, after
\* the mission it left behind was finished.
VerifyAgain(t) ==
  /\ Lifecycle /\ Bound /\ Free
  /\ run.verdict[t] # "none"
  /\ mem[t] \in {"verifying"} \cup MissionTerminal
  /\ op' = [Idle EXCEPT !.at = "repeat", !.step = t]
  /\ UNCHANGED <<stores, ws, up, held, disp, sent, crashes>>

ConcludeAgain ==
  /\ up /\ op.at = "repeat" /\ Free
  /\ LET next == [mem EXCEPT ![op.step] = Outcome(op.step)]
     IN \/ mem[op.step] = "verifying" /\ MissionsWritten(next) /\ Continues
        \/ mem[op.step] = "verifying" /\ MissionsThrow(next) /\ Ends
        \/ mem[op.step] # "verifying" /\ Continues /\ UNCHANGED <<missions, faults>>
  /\ UNCHANGED <<run, plan, dead, ws, up, held, disp, sent, crashes>>

\* advanceVerifiedDeliveryPlan: one transition per step.
AdvancePlan ==
  /\ up /\ op.at = "advance"
  /\ \/ plan = "executing" /\ PlanWritten("verifying") /\ UNCHANGED op
     \/ plan = "executing" /\ PlanThrows("verifying") /\ Ends
     \/ plan = "verifying" /\ PlanWritten("ready_to_release") /\ Ends
     \/ plan = "verifying" /\ PlanThrows("ready_to_release") /\ Ends
     \/ plan \notin {"executing", "verifying"} /\ Ends /\ UNCHANGED <<plan, dead, faults>>
  /\ UNCHANGED <<run, missions, ws, up, held, disp, sent, crashes>>

Unsafe == {"dispatching", "running", "needs_you", "reconcile_required"}

LinkedSafe == \A t \in Steps : run.linked[t] => mem[t] \notin Unsafe
Orphaned == \E t \in Steps : Orphan(t)

\* abortDeliveryRunAndMissions: refused while a linked mission works, or one is
\* bound to the run and not linked. The mission queue is held to the end. A repeated
\* abort finds its receipt and goes on with the missions.
Abort ==
  /\ Lifecycle /\ Free
  /\ run.condition \notin {"absent", "verified"}
  /\ ~Orphaned /\ LinkedSafe
  /\ \/ run.condition = "aborted" /\ UNCHANGED <<run, dead, faults>>
        /\ op' = [Idle EXCEPT !.at = "cancel"] /\ held' = "lifecycle"
     \/ run.condition # "aborted" /\ RunWritten(Aborted)
        /\ op' = [Idle EXCEPT !.at = "cancel"] /\ held' = "lifecycle"
     \/ run.condition # "aborted" /\ RunThrows(Aborted) /\ UNCHANGED <<op, held>>
  /\ UNCHANGED <<plan, missions, ws, up, disp, sent, crashes>>

\* The missions the abort leaves behind are canceled, in one write.
CancelMissions ==
  /\ up /\ op.at = "cancel" /\ held = "lifecycle"
  /\ LET live == {t \in Steps : run.linked[t] /\ Live(mem, t)}
         next == [t \in Steps |-> IF t \in live THEN "canceled" ELSE mem[t]]
     IN IF \E t \in live : mem[t] \notin {"ready", "verifying"}
          THEN Ends /\ UNCHANGED <<missions, faults>>
        ELSE IF live = {} THEN Goes("replan") /\ UNCHANGED <<missions, faults>>
        ELSE \/ MissionsWritten(next) /\ Goes("replan")
             \/ MissionsThrow(next) /\ Ends
  /\ held' = "none"
  /\ UNCHANGED <<run, plan, dead, ws, up, disp, sent, crashes>>

\* advanceAbortedDeliveryPlan
ReplanAborted ==
  /\ up /\ op.at = "replan"
  /\ \/ plan # "planning" /\ (PlanWritten("planning") \/ PlanThrows("planning"))
     \/ plan = "planning" /\ UNCHANGED <<plan, dead, faults>>
  /\ Ends
  /\ UNCHANGED <<run, missions, ws, up, held, disp, sent, crashes>>

\* transitionDeliveryPlanRecord: without an active run the operator may take an
\* approved plan back.
OperatorReplans ==
  /\ Lifecycle /\ run.condition \in {"absent", "aborted"}
  /\ plan = "approved" /\ (PlanWritten("planning") \/ PlanThrows("planning"))
  /\ UNCHANGED <<run, missions, ws, up, op, held, disp, sent, crashes>>

Requests ==
  \/ Start \/ Reconcile \/ Abort \/ OperatorReplans
  \/ \E t \in Steps : CaptureRead(t) \/ VerifyRead(t) \/ VerifyAgain(t)

Continuation ==
  \/ CaptureWrite \/ VerifyWrite \/ Conclude \/ ConcludeAgain \/ AdvancePlan
  \/ CancelMissions \/ ReplanAborted

--------------------------------------------------------------------------------
(* The missions: dispatchMission and the Supervisor, under the mission queue. The *)
(* model lets them run while the start still reconciles, which the server does    *)
(* not: it only adds behaviours.                                                  *)

Queued == UNCHANGED <<run, plan, dead, ws, up, op, crashes>>

\* Mutant: the mission queue alone decides.
DispatchableMission(t) == TRUE

Dispatchable(t) ==
  /\ run.condition = "active" /\ run.state[t] = "mission_linked" /\ run.outbox[t] = "applied"
  /\ t > 1 => run.state[t - 1] = "verified"
  /\ plan = "executing" /\ ws = run.expected[t]

\* deliveryMissionDispatchPreflight, then the choice of the worker.
DispatchCheck(t) ==
  /\ up /\ Free /\ dead = {}
  /\ mem[t] = "ready" /\ Dispatchable(t)
  /\ held' = "dispatch" /\ disp' = t
  /\ UNCHANGED <<missions, sent, faults>> /\ Queued

\* The claim, written before the text is typed; or no worker would do.
DispatchClaim ==
  /\ up /\ held = "dispatch" /\ mem[disp] = "ready"
  /\ LET next == [mem EXCEPT ![disp] = "dispatching"]
     IN \/ MissionsWritten(next) /\ sent' = sent \cup {disp} /\ UNCHANGED <<held, disp>>
        \/ MissionsThrow(next) /\ held' = "none" /\ disp' = 0 /\ UNCHANGED sent
        \/ held' = "none" /\ disp' = 0 /\ UNCHANGED <<missions, sent, faults>>
  /\ Queued

\* The outcome of the delivery, with a second try to write it.
DispatchRecord ==
  /\ up /\ held = "dispatch" /\ mem[disp] = "dispatching"
  /\ \E status \in {"running", "ready", "reconcile_required"} :
       LET next == [mem EXCEPT ![disp] = status]
       IN MissionsWritten(next) \/ MissionsThrow(next)
  /\ held' = "none" /\ disp' = 0
  /\ UNCHANGED sent /\ Queued

\* superviseMissionQueue
Supervise(t) ==
  /\ up /\ Free /\ mem[t] = "running"
  /\ \E status \in {"verifying", "needs_you"} :
       LET next == [mem EXCEPT ![t] = status]
       IN MissionsWritten(next) \/ MissionsThrow(next)
  /\ UNCHANGED <<held, disp, sent>> /\ Queued

Missions ==
  \/ DispatchClaim \/ DispatchRecord
  \/ \E t \in Steps : DispatchCheck(t) \/ Supervise(t)

--------------------------------------------------------------------------------
(* The workspace, a crash and the start of the server                            *)

\* The worker, or anybody, changes files; baselines see contents, not edits.
Edit ==
  /\ ws' \in Contents \ {ws}
  /\ UNCHANGED <<stores, up, op, held, disp, sent, crashes>>

Crash ==
  /\ up /\ crashes < MaxCrashes
  /\ up' = FALSE /\ crashes' = crashes + 1
  /\ mem' = disk /\ dead' = {}
  /\ op' = Idle /\ held' = "none" /\ disp' = 0
  /\ UNCHANGED <<run, plan, disk, ws, sent, faults>>

\* Mutant: the start leaves finished runs alone.
FirstOfActive ==
  IF run.condition \in {"absent", "aborted", "verified"} THEN Idle
  ELSE [Idle EXCEPT !.at = "integrity", !.then = "outbox"]

\* reconcileDeliveryRunsOnStartup. An aborted run goes on with its missions, unless
\* they forbid it; a verified one with its missions and its plan.
First ==
  CASE run.condition = "absent" -> Idle
    [] run.condition = "aborted" ->
         IF Orphaned \/ ~LinkedSafe THEN Idle ELSE [Idle EXCEPT !.at = "cancel"]
    [] run.condition = "verified" -> [Idle EXCEPT !.at = "finalize", !.then = "advance"]
    [] OTHER -> [Idle EXCEPT !.at = "integrity", !.then = "outbox"]

\* The server starts: reconcileMissionQueueOnStartup, then the runs, all before it
\* listens.
Restart ==
  /\ ~up /\ up' = TRUE
  /\ MissionsWritten([t \in Steps |-> IF disk[t] = "dispatching" THEN "reconcile_required"
                                      ELSE disk[t]])
  /\ op' = First
  /\ held' = IF First.at = "cancel" THEN "lifecycle" ELSE "none"
  /\ UNCHANGED <<run, plan, dead, ws, disp, sent, crashes>>

Init ==
  /\ run = NoRun /\ plan = "approved"
  /\ mem = [t \in Steps |-> "absent"] /\ disk = mem
  /\ ws \in Contents
  /\ dead = {} /\ up = TRUE /\ op = Idle /\ held = "none" /\ disp = 0
  /\ sent = {} /\ crashes = 0 /\ faults = 0

Next == Requests \/ Reconciliation \/ Continuation \/ Missions \/ Edit \/ Crash \/ Restart

Spec == Init /\ [][Next]_vars

\* Awaits resolve, a dispatch comes to its end, systemd restarts the server.
Fairness ==
  /\ SF_vars(Reconciliation) /\ SF_vars(Continuation)
  /\ WF_vars(DispatchClaim \/ DispatchRecord) /\ WF_vars(Restart)

FairSpec == Spec /\ Fairness

--------------------------------------------------------------------------------
(* Properties *)

RunType ==
  [condition: Conditions, state: [Steps -> TaskStates], outbox: [Steps -> OutboxStates],
   linked: [Steps -> BOOLEAN], verdict: [Steps -> {"none", "verified", "failed"}],
   expected: [Steps -> Contents \cup {NoContent}],
   impl: [Steps -> Contents \cup {NoContent}]]

Places == {"idle", "integrity", "off_course", "drift", "finalize", "outbox", "execute", "ensure",
           "link", "uncertain", "capture", "verify", "conclude", "repeat", "advance",
           "cancel", "replan"}

OpType ==
  [at: Places, step: Steps, base: Contents \cup {NoContent}, passed: BOOLEAN,
   then: {"", "outbox", "advance"}]

TypeOK ==
  /\ run \in RunType
  /\ plan \in PlanPhases
  /\ mem \in [Steps -> MissionStatuses] /\ disk \in [Steps -> MissionStatuses]
  /\ ws \in Contents
  /\ dead \subseteq {"run", "plan"}
  /\ up \in BOOLEAN
  /\ op \in OpType
  /\ held \in {"none", "dispatch", "lifecycle"}
  /\ disp \in 0..StepCount
  /\ sent \subseteq Steps
  /\ crashes \in 0..MaxCrashes /\ faults \in 0..MaxFaults

\* Every run the server writes is one validateDeliveryRun accepts: no sequence of
\* requests, drifts and crashes makes the repository refuse its own file.
RunValid == ValidRun(run)

\* docs/architecture.md "Only the first unverified task may have a Mission; later
\* tasks remain held": in memory and in the file, over every crash and failed write.
OneStepAtATime ==
  \A t \in Steps : mem[t] # "absent" \/ disk[t] # "absent" =>
    \A u \in 1..(t - 1) : run.state[u] = "verified"

\* A mission never gets ahead of the run's record: it is done or failed only with the
\* verdict the run holds on its step, canceled only in an aborted run, so a crash
\* between the two writes never leaves a finished mission without its verdict.
MissionsFollowRun ==
  \A q \in {mem, disk} : \A t \in Steps :
    /\ q[t] = "done" => run.verdict[t] = "verified"
    /\ q[t] = "failed" => run.verdict[t] = "failed"
    /\ q[t] = "canceled" => run.condition = "aborted"

\* What was captured or decided is the work of a mission whose text went to a worker.
WorkBeforeVerdict ==
  \A t \in Steps :
    run.state[t] \in {"implementation_captured", "verified", "failed"} => t \in sent

\* docs/safety-model.md "cancels only ready or verifying Missions, and moves the Plan
\* back to planning": a plan is free for editing only when no worker can be at work on
\* its run, and the end of the run's missions is on disk.
ReplanIsQuiet ==
  plan = "planning" => \A t \in Steps :
    /\ mem[t] \notin Unsafe
    /\ run.linked[t] => ~Live(mem, t) /\ ~Live(disk, t)

\* A mission's text goes to a worker only for the current step of an active run: the
\* run cannot be aborted, or found off course, between the preflight and the claim.
SentWhileActive ==
  [][sent' # sent => /\ run.condition = "active"
                     /\ \A t \in sent' \ sent : run.state[t] = "mission_linked"]_vars

\* "startup may finish only the durable Mission/Plan transition" - and does: after
\* any crash a verified run ends with its missions done and its plan ready, an
\* aborted one with its missions canceled and its plan in planning.
Agreed ==
  /\ \A t \in Steps : ~Live(mem, t) /\ ~Live(disk, t)
  /\ plan = IF run.condition = "verified" THEN "ready_to_release" ELSE "planning"
TerminalAgrees == Terminal ~> Agreed \/ faults > 0

\* docs/sdlc-delivery-standard.md "An operator may instead choose Abort local delivery
\* run for any nonterminal, unverified Run after every linked Mission is safely ready,
\* verifying, or terminal" - looked at where no reconciliation can change the run any
\* more.
AbortAvailable ==
  Lifecycle /\ Free /\ run.condition = "off_course" /\ LinkedSafe => ~Orphaned

\* What is promised of the three stores together: the run can be read back, it holds the
\* verdict before its mission does, works on one step, and leaves nobody at work when the
\* plan is edited again.
RunSafe ==
  /\ TypeOK /\ RunValid /\ OneStepAtATime
  /\ MissionsFollowRun /\ WorkBeforeVerdict /\ ReplanIsQuiet

================================================================================
