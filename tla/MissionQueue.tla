----------------------------- MODULE MissionQueue -----------------------------
(* PaneFleet's mission queue (server.js): work items that lock a worker session *)
(* and a workspace from the moment they are claimed until an operator, the      *)
(* Mission Supervisor or a Delivery Run ends them.                              *)
(*                                                                              *)
(* enqueueMissionOperation runs mission operations one after another. Requests  *)
(* that only touch the store are one step; adoption and dispatch hold the queue *)
(* over several awaits, and workers, panes, the host and the disk act between.  *)
(* The Supervisor's samples are taken outside the queue and may be stale when   *)
(* its operation uses them. Whether a session may be reserved at all (other     *)
(* deliveries, pane input) is the subject of module DispatchLanes.              *)
EXTENDS FiniteSets, Integers, Sequences

CONSTANTS
  Jobs,         \* mission ids, fresh ones included
  Bound,        \* the missions of Delivery Runs (deliveryBinding)
  Key,          \* Bound -> binding key: one mission per key
  Run,          \* Bound -> Delivery Run
  Priority,     \* Jobs -> weight of the priority (missionPriorityWeight)
  Workspace,    \* Jobs -> path, a sequence of directory names
  Sessions,     \* tmux sessions of workers
  Home,         \* Sessions -> path the worker runs in
  Reasons,      \* bound: the supervisor signals considered
  MaxActive,    \* MISSION_MAX_ACTIVE
  MaxJobs,      \* MAX_MISSION_JOBS
  MaxAttempts,  \* bound: dispatches and adoptions over a run
  MaxGen,       \* bound: exact panes a session name has over a run
  MaxCrashes, MaxFaults

SupervisorReasons == {"verifying", "missing", "replaced", "error", "waiting",
                      "idle", "authority"}

None == "none"

ASSUME ConstantsAssumption ==
  /\ None \notin Sessions
  /\ Bound \subseteq Jobs /\ IsFiniteSet(Jobs)
  /\ Priority \in [Jobs -> 1..4]
  /\ DOMAIN Workspace = Jobs /\ DOMAIN Home = Sessions
  /\ DOMAIN Key = Bound /\ DOMAIN Run = Bound
  /\ Reasons \subseteq SupervisorReasons
  /\ MaxActive \in Nat \ {0} /\ MaxJobs \in Nat /\ MaxAttempts \in Nat
  /\ MaxGen \in Nat \ {0} /\ MaxCrashes \in Nat /\ MaxFaults \in Nat

Statuses == {"backlog", "ready", "dispatching", "running", "needs_you", "verifying",
             "reconcile_required", "done", "failed", "canceled"}
LockStatuses == {"dispatching", "running", "needs_you", "verifying",
                 "reconcile_required"}
QueueStatuses == {"backlog", "ready"}
TerminalStatuses == {"done", "failed", "canceled"}

\* MISSION_TRANSITIONS
Transitions == [
  backlog            |-> {"ready", "canceled"},
  ready              |-> {"backlog", "canceled"},
  dispatching        |-> {"reconcile_required"},
  running            |-> {"needs_you", "verifying", "failed", "canceled"},
  needs_you          |-> {"running", "verifying", "ready", "failed", "canceled"},
  verifying          |-> {"done", "running", "needs_you", "failed", "canceled"},
  reconcile_required |-> {"running", "ready", "verifying", "failed", "canceled"},
  done               |-> {"ready"},
  failed             |-> {"ready", "canceled"},
  canceled           |-> {"ready"}]

\* missionWorkspacesConflict: equal, or one inside the other.
SameOrChild(p, root) == Len(root) <= Len(p) /\ SubSeq(p, 1, Len(root)) = root
Conflict(p, q) == SameOrChild(p, q) \/ SameOrChild(q, p)

VARIABLES
  mem,      \* missionQueueStore
  disk,     \* data/mission-queue.json
  pane,     \* the terminal and the worker behind each session name
  up,       \* whether the server process runs
  phase,    \* where the operation that holds the queue stands; "idle" when none
  cur,      \* its mission
  tgt,      \* the exact worker it is about
  out,      \* the stage a delivery ended with
  sample,   \* the panes and agents a supervisor pass was given
  obs,      \* missionSupervisorObservations
  drawn,    \* attempts made so far; an attempt is its number
  typed,    \* history: how often the text of an attempt reached a terminal
  entered,  \* history: how often Enter was pressed for it
  crashes, faults

store   == <<mem, disk, faults>>
opVars  == <<phase, cur, tgt, out>>
inputs  == <<drawn, typed, entered>>
watch   == <<sample, obs>>
vars == <<mem, disk, pane, up, phase, cur, tgt, out, sample, obs, drawn, typed,
          entered, crashes, faults>>

Attempts == 1..MaxAttempts

JobType ==
  [status: Statuses \cup {"absent"}, session: Sessions \cup {None}, gen: 0..MaxGen,
   attempt: 0..MaxAttempts, adopted: BOOLEAN, pos: 0..Cardinality(Jobs),
   outcome: TerminalStatuses \cup {None}, finished: BOOLEAN, verified: BOOLEAN]

Absent == [status |-> "absent", session |-> None, gen |-> 0, attempt |-> 0,
           adopted |-> FALSE, pos |-> 0, outcome |-> None, finished |-> FALSE,
           verified |-> FALSE]

\* text is the attempt the worker was last given, report the attempt whose
\* finished STATUS report stands at its prompt.
PaneType == [gen: 1..MaxGen, state: {"live", "exited", "gone"},
             mode: {"idle", "busy", "waiting"},
             text: 0..MaxAttempts, report: 0..MaxAttempts]

ObsType == [reason: SupervisorReasons, report: 0..MaxAttempts,
            session: Sessions \cup {None}, gen: 0..MaxGen]

NoTarget == [session |-> None, gen |-> 0]
NoObs    == [j \in {} |-> 0]

--------------------------------------------------------------------------------
(* The store *)

Present(q) == {j \in Jobs : q[j].status # "absent"}
Active(q)  == {j \in Jobs : q[j].status \in LockStatuses}
Queue(q)   == {j \in Jobs : q[j].status \in QueueStatuses}

With(q, j, job) == [q EXCEPT ![j] = job]

\* How many of the missions in S stand at or before k.
Rank(q, S, k) == Cardinality({m \in S : q[m].pos <= q[k].pos})

\* normalizeMissionPositions: the queue keeps its order, numbered from 1.
Normalized(q) ==
  [k \in Jobs |-> IF k \in Queue(q) THEN [q[k] EXCEPT !.pos = Rank(q, Queue(q), k)]
                                    ELSE q[k]]

\* The queued missions that stay before j: those ahead of the first one of a lower
\* priority.
Ahead(q, j) ==
  LET others == Queue(q) \ {j} IN
  {k \in others : \A f \in others : Priority[f] < Priority[j] => q[k].pos < q[f].pos}

\* Mutant: a mission is placed behind the first one of a lower priority.
PlacedBehind(q, j) ==
  LET others == Queue(q) \ {j}
      ahead  == {k \in others : \A f \in others : Priority[f] < Priority[j]
                                                    => q[k].pos <= q[f].pos}
  IN [k \in Jobs |->
        IF k = j THEN [q[k] EXCEPT !.pos = Cardinality(ahead) + 1]
        ELSE IF k \in others
          THEN [q[k] EXCEPT !.pos = Rank(q, others, k) + (IF k \in ahead THEN 0 ELSE 1)]
        ELSE q[k]]

\* placeMissionByPriority
Placed(q, j) ==
  LET others == Queue(q) \ {j} IN
  [k \in Jobs |->
     IF k = j THEN [q[k] EXCEPT !.pos = Cardinality(Ahead(q, j)) + 1]
     ELSE IF k \in others
       THEN [q[k] EXCEPT !.pos = Rank(q, others, k) + (IF k \in Ahead(q, j) THEN 0 ELSE 1)]
     ELSE q[k]]

\* What validateMissionQueueStore asks of one mission.
JobValid(job) ==
  /\ job.status \in LockStatuses => job.session # None
  /\ IF job.status \in TerminalStatuses
       THEN job.finished /\ job.outcome = job.status
       ELSE ~job.finished
  /\ job.verified <=> job.status = "done"

Valid(q) ==
  /\ \A j \in Present(q) : JobValid(q[j])
  /\ \A j, k \in Present(q) \cap Bound : Key[j] = Key[k] => j = k
  /\ Cardinality(Present(q)) <= MaxJobs

\* persistMissionQueue: replace the file, then assign memory. A write that throws
\* may have replaced the file already.
Written(next) == mem' = next /\ disk' = next /\ UNCHANGED faults
WriteThrows(next) ==
  /\ faults < MaxFaults
  /\ faults' = faults + 1
  /\ disk' \in {disk, next}
  /\ UNCHANGED mem
Persist(next) == Written(next) \/ WriteThrows(next)

--------------------------------------------------------------------------------
(* Operator requests and requests of the Delivery Run. Each runs alone; a stale *)
(* revision is refused, so a request acts on the current mission or not at all. *)

Serving == up /\ phase = "idle"

Exact(s, g) == pane[s].gen = g /\ pane[s].state = "live"
WorkerIn(s, path) == SameOrChild(Home[s], path)

NewJob(status) == [Absent EXCEPT !.status = status]

\* createMission
Create(j) ==
  /\ Serving
  /\ mem[j].status = "absent" /\ j \notin Bound
  /\ Cardinality(Present(mem)) < MaxJobs
  /\ \E status \in QueueStatuses : Persist(Placed(With(mem, j, NewJob(status)), j))
  /\ UNCHANGED <<pane, up, opVars, watch, inputs, crashes>>

\* ensureDeliveryMission: creates the mission of a binding key once, and only ready.
EnsureDelivery(j) ==
  /\ Serving
  /\ mem[j].status = "absent" /\ j \in Bound
  /\ \A k \in Present(mem) \cap Bound : Key[k] # Key[j]
  /\ Cardinality(Present(mem)) < MaxJobs
  /\ Persist(Placed(With(mem, j, NewJob("ready")), j))
  /\ UNCHANGED <<pane, up, opVars, watch, inputs, crashes>>

\* The fields transitionMission sets: a finish, its outcome and verification, and
\* a clean mission for the next attempt when it is ready again.
Moved(job, to) ==
  LET kept == [job EXCEPT !.status = to, !.verified = (to = "done"),
                          !.finished = (to \in TerminalStatuses),
                          !.outcome = IF to \in TerminalStatuses THEN to ELSE @]
  IN IF to = "ready"
       THEN [kept EXCEPT !.session = None, !.gen = 0, !.attempt = 0, !.adopted = FALSE]
       ELSE kept

\* transitionMission. Running needs the exact worker of the mission, alive and in
\* its workspace; the confirmations the operator gives carry no state.
Transition(j, to) ==
  /\ Serving
  /\ mem[j].status # "absent" /\ to \in Transitions[mem[j].status]
  /\ j \notin Bound
  /\ to = "running" =>
       /\ mem[j].session # None /\ Exact(mem[j].session, mem[j].gen)
       /\ WorkerIn(mem[j].session, Workspace[j])
  /\ LET next == With(mem, j, Moved(mem[j], to))
     IN Persist(Normalized(IF to = "ready" THEN Placed(next, j) ELSE next))
  /\ UNCHANGED <<pane, up, opVars, sample, obs, inputs, crashes>>

\* moveMission: j changes places with its neighbour in the same lane.
Move(j, k) ==
  /\ Serving
  /\ j \in Queue(mem) \ Bound /\ k \in Queue(mem) \ {j}
  /\ mem[j].status = mem[k].status
  /\ \A m \in Queue(mem) \ {j, k} : mem[m].status = mem[j].status =>
       ~(\/ mem[j].pos < mem[m].pos /\ mem[m].pos < mem[k].pos
         \/ mem[k].pos < mem[m].pos /\ mem[m].pos < mem[j].pos)
  /\ Persist([mem EXCEPT ![j].pos = mem[k].pos, ![k].pos = mem[j].pos])
  /\ UNCHANGED <<pane, up, opVars, watch, inputs, crashes>>

\* finalizeDeliveryMission: the Run's verification ends its mission.
FinalizeDelivery(j, outcome) ==
  /\ Serving
  /\ j \in Bound /\ mem[j].status = "verifying"
  /\ outcome \in {"done", "failed"}
  /\ Persist(Normalized(With(mem, j, Moved(mem[j], outcome))))
  /\ UNCHANGED <<pane, up, opVars, sample, obs, inputs, crashes>>

\* abortDeliveryRunAndMissions: refused while a worker of the Run may be at work.
AbortDelivery(r) ==
  LET linked == {j \in Present(mem) \cap Bound : Run[j] = r}
      open   == {j \in linked : mem[j].status \notin TerminalStatuses}
  IN /\ Serving
     /\ open # {} /\ \A j \in open : mem[j].status \in {"ready", "verifying"}
     /\ Persist(Normalized([j \in Jobs |-> IF j \in open THEN Moved(mem[j], "canceled")
                                                         ELSE mem[j]]))
     /\ UNCHANGED <<pane, up, opVars, sample, obs, inputs, crashes>>

--------------------------------------------------------------------------------
(* Adoption and dispatch: the operations that take the locks                    *)

\* Mutant: the workspace is compared for equality.
FreeHere(j, s) ==
  LET active == Active(mem) \ {j} IN
  /\ \A k \in active : Workspace[k] # Workspace[j]
  /\ \A k \in active : mem[k].session # s

\* No other active mission holds the worker or an overlapping workspace.
Free(j, s) ==
  LET active == Active(mem) \ {j} IN
  /\ \A k \in active : ~Conflict(Workspace[k], Workspace[j])
  /\ \A k \in active : mem[k].session # s

\* Mutant: a mission that waits for the operator does not count.
RoomBeside(j) ==
  Cardinality({k \in Active(mem) \ {j} : mem[k].status # "needs_you"}) < MaxActive
Room(j) == Cardinality(Active(mem) \ {j}) < MaxActive

\* adoptExistingMission up to its last await: the worker is alive in the workspace,
\* the worker the mission had is not.
AdoptCheck(j, s) ==
  /\ Serving
  /\ j \notin Bound /\ mem[j].status \in {"ready", "needs_you"}
  /\ mem[j].status = "ready" => Room(j)
  /\ Free(j, s)
  /\ pane[s].state = "live" /\ WorkerIn(s, Workspace[j])
  /\ mem[j].session # None => ~Exact(mem[j].session, mem[j].gen)
  /\ phase' = "adopt" /\ cur' = j /\ tgt' = [session |-> s, gen |-> pane[s].gen]
  /\ UNCHANGED <<store, pane, up, out, watch, inputs, crashes>>

\* The exact pane is read again, then the mission runs there; nothing is typed.
AdoptCommit ==
  /\ up /\ phase = "adopt"
  /\ Exact(tgt.session, tgt.gen)
  /\ drawn < MaxAttempts
  /\ drawn' = drawn + 1
  /\ Persist(Normalized(With(mem, cur,
       [mem[cur] EXCEPT !.status = "running", !.session = tgt.session, !.gen = tgt.gen,
                        !.attempt = drawn + 1, !.adopted = TRUE, !.finished = FALSE])))
  /\ phase' = "idle" /\ cur' = None /\ tgt' = NoTarget
  /\ UNCHANGED <<pane, up, out, sample, obs, typed, entered, crashes>>

\* dispatchMission up to the live snapshot it takes.
Reserve(j, s) ==
  /\ Serving
  /\ mem[j].status = "ready"
  /\ Room(j) /\ Free(j, s)
  /\ pane[s].state = "live"
  /\ phase' = "reserve" /\ cur' = j /\ tgt' = [session |-> s, gen |-> pane[s].gen]
  /\ UNCHANGED <<store, pane, up, out, watch, inputs, crashes>>

\* Any of the checks of an adoption or a dispatch may refuse.
Withdraw ==
  /\ up /\ phase \in {"adopt", "reserve"}
  /\ phase' = "idle" /\ cur' = None /\ tgt' = NoTarget
  /\ UNCHANGED <<store, pane, up, out, watch, inputs, crashes>>

\* The snapshot shows the reserved worker idle in the workspace and no other agent
\* in an overlapping one. The claim is on disk before any input; when it cannot be
\* written the dispatch ends.
Claim ==
  LET s == tgt.session IN
  /\ up /\ phase = "reserve" /\ drawn < MaxAttempts
  /\ Exact(s, tgt.gen) /\ pane[s].mode = "idle"
  /\ IF cur \in Bound THEN Home[s] = Workspace[cur] ELSE WorkerIn(s, Workspace[cur])
  /\ \A r \in Sessions \ {s} :
       pane[r].state = "live" => ~Conflict(Home[r], Workspace[cur])
  /\ drawn' = drawn + 1
  /\ LET next == With(mem, cur, [mem[cur] EXCEPT !.status = "dispatching",
                       !.session = s, !.gen = tgt.gen,
                       !.attempt = drawn + 1, !.adopted = FALSE])
     IN \/ Written(next) /\ phase' = "preflight" /\ UNCHANGED <<cur, tgt>>
        \/ WriteThrows(next) /\ phase' = "idle" /\ cur' = None /\ tgt' = NoTarget
  /\ UNCHANGED <<pane, up, out, watch, typed, entered, crashes>>

\* deliverTextToAgent before it types: identity, lifecycle protection, and for a
\* bound mission the attested Codex process.
Preflight ==
  /\ up /\ phase = "preflight"
  /\ \/ Exact(tgt.session, tgt.gen) /\ phase' = "type" /\ UNCHANGED out
     \/ /\ phase' = "record"
        /\ out' \in {"preflight", "lifecycle_guard", "unknown"}
                      \cup (IF cur \in Bound THEN {"codex_identity"} ELSE {})
  /\ UNCHANGED <<store, pane, up, cur, tgt, watch, inputs, crashes>>

\* Mutant: the session name is enough while typing.
TypeByName ==
  /\ up /\ phase = "type"
  /\ pane[tgt.session].state = "live"
  /\ typed' = [typed EXCEPT ![mem[cur].attempt] = @ + 1]
  /\ \/ phase' = "enter" /\ UNCHANGED out
     \/ phase' = "record" /\ out' = "literal_unknown"
  /\ UNCHANGED <<store, pane, up, cur, tgt, watch, drawn, entered, crashes>>

\* typeLiteralText: a guard before every chunk. Only a bound mission whose first
\* chunk its Codex guard refuses is known to have typed nothing.
Type ==
  /\ up /\ phase = "type"
  /\ \/ /\ phase' = "record"
        /\ out' \in {"literal_unknown", "unknown"}
                      \cup (IF cur \in Bound THEN {"codex_identity"} ELSE {})
        /\ UNCHANGED typed
     \/ /\ Exact(tgt.session, tgt.gen)
        /\ typed' = [typed EXCEPT ![mem[cur].attempt] = @ + 1]
        /\ \/ phase' = "enter" /\ UNCHANGED out
           \/ phase' = "record" /\ out' \in {"literal_unknown", "unknown"}
  /\ UNCHANGED <<store, pane, up, cur, tgt, watch, drawn, entered, crashes>>

\* Enter, once the whole text is seen in the exact pane, and the wait for Codex to
\* take it up; tmux may fail with or without effect.
Enter ==
  /\ up /\ phase = "enter"
  /\ phase' = "record"
  /\ \/ out' \in {"literal_confirmation", "submit", "unknown"}
        /\ UNCHANGED <<entered, pane>>
     \/ /\ Exact(tgt.session, tgt.gen)
        /\ entered' = [entered EXCEPT ![mem[cur].attempt] = @ + 1]
        /\ pane' = [pane EXCEPT ![tgt.session].mode = "busy",
                                ![tgt.session].text = mem[cur].attempt,
                                ![tgt.session].report = 0]
        /\ out' \in {"accepted", "confirmation", "submit", "unknown"}
  /\ UNCHANGED <<store, up, cur, tgt, watch, drawn, typed, crashes>>

\* The stages that end a delivery before anything was typed.
BeforeInput == {"preflight", "lifecycle_guard", "codex_identity", "literal"}

Recorded(job, o) ==
  [job EXCEPT !.status = IF o = "accepted" THEN "running"
                         ELSE IF o \in BeforeInput THEN "ready"
                         ELSE "reconcile_required"]

\* The outcome is written, with a second try; a mission that is ready again keeps
\* its place. When both writes throw the mission stays dispatching.
Record ==
  /\ up /\ phase = "record"
  /\ LET next == With(mem, cur, Recorded(mem[cur], out))
     IN Persist(IF out \in BeforeInput THEN next ELSE Normalized(next))
  /\ phase' = "idle" /\ cur' = None /\ tgt' = NoTarget /\ out' = ""
  /\ UNCHANGED <<pane, up, sample, obs, inputs, crashes>>

--------------------------------------------------------------------------------
(* The Mission Supervisor                                                       *)

NoSample == [s \in {} |-> 0]

\* snapshot() or monitorMissionSupervisor lists panes and enriches agents.
Observe ==
  /\ up /\ sample = NoSample /\ Reasons # {}
  /\ sample' = [s \in Sessions |-> pane[s]]
  /\ UNCHANGED <<store, pane, up, opVars, obs, inputs, crashes>>

\* missionSupervisorReportOutput: what stands behind the marker of the attempt. An
\* adopted worker got no marker, so its whole screen counts.
ReportOf(job) ==
  \/ sample[job.session].report = job.attempt
  \/ job.adopted

\* missionSupervisorSignal: the reasons this sample may give for a running mission.
Signals(j) ==
  LET job == mem[j]
      p   == sample[job.session]
  IN Reasons \cap
     IF p.state = "gone" THEN {"missing"}
     ELSE IF p.gen # job.gen THEN {"replaced"}
     ELSE IF p.state = "exited" THEN {"error"}
     ELSE (IF j \in Bound THEN {"authority"} ELSE {}) \cup
          (IF p.mode = "waiting" THEN {"waiting"} ELSE {}) \cup
          (IF p.mode = "idle" THEN {"idle", "error"} ELSE {}) \cup
          (IF p.mode = "idle" /\ ReportOf(job) THEN {"verifying", "waiting"} ELSE {})

\* The fingerprint of a signal: it does not name the attempt.
Observation(j, reason) ==
  [reason |-> reason, report |-> IF reason = "verifying" THEN sample[mem[j].session].report ELSE 0,
   session |-> mem[j].session, gen |-> mem[j].gen]

\* superviseMissionQueue: a signal seen twice, long enough apart, moves a running
\* mission to verifying or to the operator; nothing is typed.
Supervise ==
  /\ Serving /\ sample # NoSample
  /\ LET running == {j \in Jobs : mem[j].status = "running"} IN
     \E seen \in [running -> Reasons \cup {None}] :
     \E stable \in SUBSET {j \in running \cap DOMAIN obs :
                             seen[j] # None /\ obs[j] = Observation(j, seen[j])} :
       LET next == [j \in Jobs |-> IF j \notin stable THEN mem[j]
                      ELSE [mem[j] EXCEPT !.status =
                              IF seen[j] = "verifying" THEN "verifying" ELSE "needs_you"]]
           kept == {j \in running \ stable : seen[j] # None}
       IN /\ \A j \in running : seen[j] = None \/ seen[j] \in Signals(j)
          /\ obs' = [j \in kept |-> Observation(j, seen[j])]
          /\ IF stable = {} THEN UNCHANGED store
             ELSE Written(next) \/ WriteThrows(next)
  /\ sample' = NoSample
  /\ UNCHANGED <<pane, up, opVars, inputs, crashes>>

--------------------------------------------------------------------------------
(* The workers, the terminals and the host *)

Rest == <<store, up, opVars, watch, inputs, crashes>>

\* The worker ends its turn, with or without a finished report.
WorkerFinishes(s) ==
  /\ pane[s].state = "live" /\ pane[s].mode = "busy"
  /\ \E report \in {0, pane[s].text} :
       pane' = [pane EXCEPT ![s].mode = "idle", ![s].report = report]
  /\ UNCHANGED Rest

\* The worker asks the operator something, who answers in the terminal.
WorkerAsks(s) ==
  /\ pane[s].state = "live" /\ pane[s].mode = "busy"
  /\ pane' = [pane EXCEPT ![s].mode = "waiting"]
  /\ UNCHANGED Rest
WorkerAnswered(s) ==
  /\ pane[s].state = "live" /\ pane[s].mode = "waiting"
  /\ pane' = [pane EXCEPT ![s].mode = "busy"]
  /\ UNCHANGED Rest

PaneStops(s) ==
  /\ pane[s].state = "live"
  /\ \E state \in {"exited", "gone"} :
       pane' = [pane EXCEPT ![s].state = state, ![s].mode = "idle",
                            ![s].text = 0, ![s].report = 0]
  /\ UNCHANGED Rest
PaneResumes(s) ==
  /\ pane[s].state = "exited"
  /\ pane' = [pane EXCEPT ![s].state = "live"]
  /\ UNCHANGED Rest
PaneReplaced(s) ==
  /\ pane[s].gen < MaxGen
  /\ pane' = [pane EXCEPT ![s] = [gen |-> @.gen + 1, state |-> "live", mode |-> "idle",
                                  text |-> 0, report |-> 0]]
  /\ UNCHANGED Rest

\* The process ends between any two awaits; memory and observations are lost.
Crash ==
  /\ up /\ crashes < MaxCrashes
  /\ up' = FALSE /\ crashes' = crashes + 1
  /\ mem' = disk
  /\ phase' = "idle" /\ cur' = None /\ tgt' = NoTarget /\ out' = ""
  /\ sample' = NoSample /\ obs' = NoObs
  /\ UNCHANGED <<disk, faults, pane, inputs>>

\* Mutant: an interrupted dispatch is ready for another.
RetryInterrupted(job) ==
  IF job.status = "dispatching" THEN [job EXCEPT !.status = "ready"] ELSE job

\* Mutant: the restart leaves the mission as it was.
LeaveInterrupted(job) == job

\* reconcileMissionQueueOnStartup: an interrupted dispatch is for the operator.
Reconciled(job) ==
  IF job.status = "dispatching" THEN [job EXCEPT !.status = "reconcile_required"] ELSE job

Restart ==
  /\ ~up
  /\ Written([j \in Jobs |-> Reconciled(disk[j])])
  /\ up' = TRUE
  /\ UNCHANGED <<pane, opVars, watch, inputs, crashes>>

--------------------------------------------------------------------------------

Requests ==
  \/ \E j \in Jobs : Create(j) \/ EnsureDelivery(j)
  \/ \E j \in Jobs, to \in Statuses : Transition(j, to)
  \/ \E j, k \in Jobs : Move(j, k)
  \/ \E j \in Jobs, outcome \in {"done", "failed"} : FinalizeDelivery(j, outcome)
  \/ \E j \in Bound : AbortDelivery(Run[j])

Delivery == Preflight \/ Type \/ Enter \/ Record

Assignments ==
  \/ \E j \in Jobs, s \in Sessions : AdoptCheck(j, s) \/ Reserve(j, s)
  \/ AdoptCommit \/ Withdraw \/ Claim \/ Delivery

Environment ==
  \/ \E s \in Sessions :
       \/ WorkerFinishes(s) \/ WorkerAsks(s) \/ WorkerAnswered(s)
       \/ PaneStops(s) \/ PaneResumes(s) \/ PaneReplaced(s)
  \/ Crash \/ Restart

Init ==
  /\ mem = [j \in Jobs |-> Absent] /\ disk = mem
  /\ pane = [s \in Sessions |-> [gen |-> 1, state |-> "live", mode |-> "idle",
                                 text |-> 0, report |-> 0]]
  /\ up = TRUE /\ phase = "idle" /\ cur = None /\ tgt = NoTarget /\ out = ""
  /\ sample = NoSample /\ obs = NoObs
  /\ drawn = 0 /\ typed = [n \in Attempts |-> 0] /\ entered = [n \in Attempts |-> 0]
  /\ crashes = 0 /\ faults = 0

Next == Requests \/ Assignments \/ Observe \/ Supervise \/ Environment

Spec == Init /\ [][Next]_vars

\* An operation is a chain of awaits that all resolve, and systemd restarts the
\* server.
Fairness == WF_vars(Delivery) /\ WF_vars(AdoptCommit \/ Withdraw \/ Claim) /\ WF_vars(Restart)

FairSpec == Spec /\ Fairness

\* Whatever an operator or a Delivery Run may ask for a mission.
Recover(j) ==
  \/ \E to \in Statuses : Transition(j, to)
  \/ \E s \in Sessions : AdoptCheck(j, s) \/ Reserve(j, s)
  \/ \E outcome \in {"done", "failed"} : FinalizeDelivery(j, outcome)
  \/ j \in Bound /\ AbortDelivery(Run[j])

\* The operator does not give up, the supervisor keeps sampling, workers answer.
RecoverySpec ==
  /\ FairSpec
  /\ \A j \in Jobs : SF_vars(Recover(j))
  /\ WF_vars(Observe) /\ SF_vars(Supervise)
  /\ \A s \in Sessions : WF_vars(WorkerFinishes(s)) /\ WF_vars(WorkerAnswered(s))

--------------------------------------------------------------------------------
(* Properties *)

TypeOK ==
  /\ mem \in [Jobs -> JobType] /\ disk \in [Jobs -> JobType]
  /\ pane \in [Sessions -> PaneType]
  /\ up \in BOOLEAN
  /\ phase \in {"idle", "adopt", "reserve", "preflight", "type", "enter", "record"}
  /\ cur \in Jobs \cup {None}
  /\ tgt \in [session: Sessions \cup {None}, gen: 0..MaxGen]
  /\ out \in BeforeInput \cup {"", "accepted", "literal_unknown", "literal_confirmation",
                               "submit", "confirmation", "unknown"}
  /\ sample = NoSample \/ sample \in [Sessions -> PaneType]
  /\ DOMAIN obs \subseteq Jobs /\ \A j \in DOMAIN obs : obs[j] \in ObsType
  /\ drawn \in 0..MaxAttempts
  /\ typed \in [Attempts -> Nat] /\ entered \in [Attempts -> Nat]
  /\ crashes \in 0..MaxCrashes /\ faults \in 0..MaxFaults

\* Never more active missions than MISSION_MAX_ACTIVE, in memory or on disk, over
\* dispatches, adoptions, releases, recoveries and restarts.
ActiveLimit ==
  Cardinality(Active(mem)) <= MaxActive /\ Cardinality(Active(disk)) <= MaxActive

Exclusive(q) ==
  \A j, k \in Active(q) : j # k =>
    q[j].session # q[k].session /\ ~Conflict(Workspace[j], Workspace[k])

\* Two active missions never share a worker session or work in overlapping
\* directories (test/mission-queue.test.js "active missions lock both their worker
\* and workspace"), whichever operations made them active.
LocksExclusive == Exclusive(mem) /\ Exclusive(disk)

\* Every store the server holds or leaves on disk is one its validator accepts.
StoreValid == Valid(mem) /\ Valid(disk)

\* A mission whose text may have reached a terminal is not dispatchable again until
\* an operator released it: while it is queued, its last attempt typed nothing.
NoSilentResend ==
  \A q \in {mem, disk} : \A j \in Queue(q) :
    q[j].attempt # 0 => typed[q[j].attempt] = 0

\* While a text is being typed and entered, the file names the mission as
\* dispatching, with this attempt.
ClaimDurable ==
  phase \in {"type", "enter", "record"} =>
    disk[cur].status = "dispatching" /\ disk[cur].attempt = mem[cur].attempt

\* Text is only typed into the live pane the mission's claim names.
TypedToClaim == typed' # typed => Exact(disk[cur].session, disk[cur].gen)
TypedInBoundPane == [][TypedToClaim]_vars

\* No two queued missions stand on one position, so "next" is never ambiguous.
QueueOrdered ==
  \A j, k \in Queue(mem) : mem[j].pos = mem[k].pos => j = k

\* What the claims and the order of the missions are for: no worker and no directory is
\* given twice, and it is never in doubt which mission is next (server.js
\* missionWorkspacesConflict, normalizeMissionPositions).
LocksSafe == LocksExclusive /\ QueueOrdered

\* A mission that enters the queue stands before every queued mission of a lower
\* priority. (A dispatch that ended before input gives the mission its place back.)
EntersInOrder ==
  \A j \in Queue(mem') \ Queue(mem) : mem[j].status # "dispatching" =>
    \A k \in Queue(mem') : Priority[k] < Priority[j] => mem'[j].pos < mem'[k].pos
EntersByPriority == [][EntersInOrder]_vars

\* A Delivery Run's mission is done only after its text was submitted to a worker
\* and that worker reported: no request of the operator replaces the evidence.
BoundDoneWasSubmitted ==
  \A j \in Bound : mem[j].status = "done" =>
    mem[j].attempt # 0 /\ entered[mem[j].attempt] = 1

\* A dispatch does not stay undecided: at the latest the restart settles it. Only a
\* disk that refused its outcome leaves it until a restart that may never come.
Undecided == faults = 0 /\ \E j \in Jobs : mem[j].status = "dispatching"
DispatchSettled == Undecided ~> ~Undecided

\* docs/operations.md "first inspect and recover that exact worker through the
\* appropriate separate recovery workflow": a mission that needs the operator can
\* be brought on, when the operator keeps trying everything the server offers.
NeedsYouIsLeft == \A j \in Jobs :
  mem[j].status = "needs_you" ~> mem[j].status # "needs_you"

\* What is promised of a mission over crashes and failing writes: the store can be
\* started from, no text is sent twice without the operator, the claim is on disk before
\* the text, and a Delivery Run's mission is done only by work that was handed out.
MissionSafe ==
  TypeOK /\ StoreValid /\ NoSilentResend /\ ClaimDurable /\ BoundDoneWasSubmitted

================================================================================
