----------------------------- MODULE DeliveryPlans -----------------------------
(* Delivery plans (delivery-plan.js) in their store (delivery-plan-store.js):   *)
(* phases, readiness, approval of an exact definition, evidence gates; one      *)
(* mutation at a time, each kept with its receipt, so that a request that is    *)
(* sent again gets the answer it had, over failing writes and restarts.         *)
EXTENDS Integers, Sequences, FiniteSets, SequencesExt

CONSTANTS
  Plans,       \* plan identities
  Definitions, \* what a plan says: see Ready and ShapeOk
  MaxPlans,    \* MAX_PLANS
  MaxOps,      \* MAX_OPERATIONS: receipts are never dropped
  MaxAsked,    \* bound: requests after the first state
  MaxFaults    \* bound: failed writes and crashes

ASSUME BoundsAssumption ==
  IsFiniteSet(Plans) /\ MaxPlans \in Nat /\ MaxOps \in Nat /\ MaxAsked \in Nat /\ MaxFaults \in Nat

VARIABLES
  disk,     \* the store file
  mem,      \* the repository's store; Unloaded before the first use and when poisoned
  poisoned, \* the outcome of a write could not be established
  writing,  \* the mutation being persisted
  asked,    \* the requests sent so far, a request's operation id being its place
  reply,    \* the last answer to each request
  faults

vars == <<disk, mem, poisoned, writing, asked, reply, faults>>

Phases == {"draft", "planning", "needs_decision", "ready_for_approval", "approved",
           "executing", "verifying", "ready_to_release", "blocked", "done", "canceled"}
ApprovalPhases == {"approved", "executing", "verifying", "ready_to_release", "done"}
TerminalPhases == {"done", "canceled"}
RunPhases == {"executing", "verifying", "ready_to_release", "done"}

Unapproved == [requirements |-> {}, steps |-> {}, criteria |-> {}, open |-> TRUE,
               baseline |-> "none", write |-> FALSE, release |-> FALSE]
NoPlan == [revision |-> 0, phase |-> "none"]
Unloaded == [plans |-> <<>>]
NotWriting == [id |-> 0, stage |-> "none", next |-> Unloaded]

-----------------------------------------------------------------------------
(* The plan                                                                   *)

\* Steps and acceptance criteria name requirements there are.
ShapeOk(d) == d.steps \cup d.criteria \subseteq d.requirements

\* lintNormalizedReadiness: every requirement is traced, nothing is open, and the
\* baseline is that of a Git workspace.
Ready(d) ==
  /\ d.requirements # {} /\ d.steps = d.requirements /\ d.criteria = d.requirements
  /\ ~d.open /\ d.baseline = "git"

\* The approval is of the definition the plan has now.
ApprovalCurrent(p) == p.approval # Unapproved /\ p.approval = p.def

\* validateShape, with the phase.
ValidPlan(p) ==
  /\ ShapeOk(p.def)
  /\ p.phase \in ApprovalPhases \cup {"ready_for_approval"} => Ready(p.def)
  /\ p.phase \in ApprovalPhases => ApprovalCurrent(p)
  /\ p.phase \in {"verifying", "ready_to_release", "done"} => "implementation" \in p.gates
  /\ p.phase \in {"ready_to_release", "done"} => "qa" \in p.gates
  /\ p.phase = "done" /\ p.def.release => "release" \in p.gates

Legal(from) ==
  CASE from = "draft" -> {"planning", "canceled"}
    [] from = "planning" -> {"needs_decision", "ready_for_approval", "blocked", "canceled"}
    [] from = "needs_decision" -> {"planning", "ready_for_approval", "canceled"}
    [] from = "ready_for_approval" -> {"planning", "approved", "canceled"}
    [] from = "approved" -> {"planning", "executing", "canceled"}
    [] from = "executing" -> {"planning", "verifying", "blocked", "canceled"}
    [] from = "verifying" -> {"planning", "executing", "ready_to_release", "blocked", "canceled"}
    [] from = "ready_to_release" -> {"planning", "done", "canceled"}
    [] from = "blocked" -> {"planning", "canceled"}
    [] OTHER -> {}

\* While a run works on the plan only its own progress or its abort moves it.
ExecutionLocked(from, to, aborted) ==
  /\ from \in {"executing", "verifying", "ready_to_release"}
  /\ to \in {"canceled", "blocked"} \/ (to = "planning" /\ ~aborted)

\* What a transition asks of its caller: a confirmation or reason, and the facts of
\* the run (baseline current, workspace free, task graph, results captured, QA passed).
Conditions(p, q) ==
  /\ q.to \in {"canceled", "needs_decision", "blocked", "approved", "done"} => q.confirmed
  /\ q.to \in {"ready_for_approval", "approved"} => Ready(p.def)
  /\ q.to = "planning" /\ p.phase \in ApprovalPhases \cup {"blocked"} => q.confirmed
  /\ q.to = "executing" => ApprovalCurrent(p) /\ p.def.write /\ q.confirmed
  /\ q.to \in RunPhases => q.facts
  /\ q.to = "done" => "qa" \in p.gates

\* mutant: a plan that is planned anew keeps the evidence of its last run.
GatesKept(p, to) ==
  CASE to = "executing" /\ p.phase = "verifying" -> {}
    [] to = "verifying" -> {"implementation"}
    [] to = "ready_to_release" -> (p.gates \ {"release"}) \cup {"qa"}
    [] to = "done" /\ p.def.release -> p.gates \cup {"release"}
    [] OTHER -> p.gates

GatesAfter(p, to) ==
  CASE to = "planning" /\ p.approval # Unapproved -> {}
    [] to = "executing" /\ p.phase = "verifying" -> {}
    [] to = "verifying" -> {"implementation"}
    [] to = "ready_to_release" -> (p.gates \ {"release"}) \cup {"qa"}
    [] to = "done" /\ p.def.release -> p.gates \cup {"release"}
    [] OTHER -> p.gates

Transitioned(p, to) ==
  [p EXCEPT !.revision = @ + 1, !.phase = to, !.gates = GatesAfter(p, to),
            !.approval = IF to = "approved" THEN p.def
                         ELSE IF to = "planning" THEN Unapproved ELSE @]

\* transitionDeliveryPlan refuses, or gives the next plan.
MayTransition(p, q) ==
  /\ q.to \in Legal(p.phase)
  /\ ~ExecutionLocked(p.phase, q.to, q.aborted)
  /\ Conditions(p, q)
  /\ ValidPlan(Transitioned(p, q.to))

\* invalidateDeliveryPlanApproval
Invalidated(p) ==
  [p EXCEPT !.revision = @ + 1, !.approval = Unapproved, !.gates = {},
            !.phase = IF Ready(p.def) THEN "ready_for_approval" ELSE "planning"]

MayUpdate(p, d) ==
  ShapeOk(d) /\ p.phase \notin TerminalPhases \cup {"executing", "verifying", "ready_to_release"}

\* updateDeliveryPlanDefinition
Updated(p, d) ==
  LET candidate == [p EXCEPT !.def = d]
  IN IF d = p.def THEN p
     ELSE IF p.approval # Unapproved \/ p.phase \in ApprovalPhases \cup {"ready_for_approval"}
       THEN Invalidated(candidate)
     ELSE [candidate EXCEPT !.revision = @ + 1]

NewPlan(d, phase) ==
  [revision |-> 1, phase |-> phase, def |-> d, approval |-> Unapproved, gates |-> {}]

-----------------------------------------------------------------------------
(* The store                                                                  *)

EmptyStore == [plans |-> [p \in Plans |-> NoPlan], ops |-> <<>>]
Exists(store, p) == store.plans[p] # NoPlan
PlanCount(store) == Cardinality({p \in Plans : Exists(store, p)})

\* What the request makes of its plan; NoPlan when the domain refuses it.
Outcome(store, q) ==
  LET p == store.plans[q.plan]
  IN IF q.action = "create"
       THEN IF ~Exists(store, q.plan) /\ ShapeOk(q.def) THEN NewPlan(q.def, q.to) ELSE NoPlan
     ELSE IF ~Exists(store, q.plan) \/ p.revision # q.planRevision THEN NoPlan
     ELSE IF q.action = "update"
       THEN IF MayUpdate(p, q.def) THEN Updated(p, q.def) ELSE NoPlan
     ELSE IF MayTransition(p, q) THEN Transitioned(p, q.to) ELSE NoPlan

NextStore(store, id, q, plan) ==
  [plans |-> [store.plans EXCEPT ![q.plan] = plan],
   ops |-> Append(store.ops, [id |-> id, request |-> q, plan |-> plan])]

\* validateOperation: the snapshots of a plan follow one another.
OperationFollows(ops, i) ==
  LET o == ops[i]
      earlier == {j \in 1..(i - 1) : ops[j].request.plan = o.request.plan}
      last == CHOOSE j \in earlier : \A k \in earlier : k <= j
  IN IF o.request.action = "create"
     THEN earlier = {} /\ o.plan.revision = 1 /\ o.plan.gates = {} /\ o.plan.phase \in {"draft", "planning"}
     ELSE /\ earlier # {}
          /\ o.plan.revision - ops[last].plan.revision \in
               IF o.request.action = "transition" THEN {1} ELSE {0, 1}

\* validateDeliveryPlanStore
ValidStore(store) ==
  /\ Len(store.ops) <= MaxOps /\ PlanCount(store) <= MaxPlans
  /\ \A i, j \in 1..Len(store.ops) : store.ops[i].id = store.ops[j].id => i = j
  /\ \A i \in 1..Len(store.ops) : ValidPlan(store.ops[i].plan) /\ OperationFollows(store.ops, i)
  /\ \A p \in Plans :
       LET mine == {i \in 1..Len(store.ops) : store.ops[i].request.plan = p}
       IN IF Exists(store, p)
          THEN mine # {} /\ store.plans[p] = store.ops[CHOOSE i \in mine : \A j \in mine : j <= i].plan
          ELSE mine = {}

\* operationReplay: the receipt of a request that was carried out.
Replay(store, id) == \E i \in 1..Len(store.ops) : store.ops[i].id = id

HasRoom(store, q) ==
  /\ Len(store.ops) < MaxOps
  /\ q.action = "create" => PlanCount(store) < MaxPlans

Accepts(store, id, q) ==
  /\ q.storeRevision = Len(store.ops) /\ HasRoom(store, q)
  /\ Outcome(store, q) # NoPlan
  /\ ValidStore(NextStore(store, id, q, Outcome(store, q)))

-----------------------------------------------------------------------------
(* Requests                                                                   *)

\* The server lets the operator's page create, edit and move a plan, never into or
\* out of a run; the Delivery Run does that with its own facts.
OperatorAllowed(q) ==
  /\ q.to \notin RunPhases /\ ~q.aborted
  /\ q.action # "create" => disk.plans[q.plan].phase \notin RunPhases

RunAllowed(q) ==
  /\ q.action = "transition"
  /\ q.to \in RunPhases \/ (q.to = "planning" /\ q.aborted)
  /\ q.confirmed

Requests ==
  LET transition == [action: {"transition"}, to: Phases \ {"draft"}, confirmed: BOOLEAN,
                     aborted: BOOLEAN, facts: BOOLEAN, def: {Unapproved}]
      create == [action: {"create"}, to: {"draft", "planning"}, confirmed: {TRUE},
                 aborted: {FALSE}, facts: {FALSE}, def: Definitions]
      update == [action: {"update"}, to: {"draft"}, confirmed: {TRUE}, aborted: {FALSE},
                 facts: {FALSE}, def: Definitions]
  IN transition \cup create \cup update

\* A request says which revisions it was made from.
Ask(p) ==
  /\ Len(asked) < MaxAsked
  /\ \E r \in Requests :
       LET q == [action |-> r.action, plan |-> p, to |-> r.to, def |-> r.def,
                 confirmed |-> r.confirmed, aborted |-> r.aborted, facts |-> r.facts,
                 storeRevision |-> Len(disk.ops), planRevision |-> disk.plans[p].revision]
       IN /\ OperatorAllowed(q) \/ RunAllowed(q)
          /\ q.facts => q.to \in RunPhases
          /\ (r.action = "create") = ~Exists(disk, p)
          /\ asked' = Append(asked, q)
  /\ reply' = Append(reply, "none")
  /\ UNCHANGED <<disk, mem, poisoned, writing, faults>>

\* load: the first use after a start reads and validates the file.
Load ==
  /\ mem = Unloaded /\ ~poisoned
  /\ ValidStore(disk)
  /\ mem' = disk
  /\ UNCHANGED <<disk, poisoned, writing, asked, reply, faults>>

Answer(id, what) == reply' = [reply EXCEPT ![id] = what]

\* mutant: a request that was carried out fails as a duplicate.
HandleDuplicateFails(id) ==
  /\ id \in DOMAIN asked /\ reply[id] \in {"none", "failed"}
  /\ writing = NotWriting /\ mem # Unloaded
  /\ LET q == asked[id]
     IN IF Replay(mem, id)
        THEN Answer(id, "failed") /\ UNCHANGED writing
        ELSE IF Accepts(mem, id, q)
        THEN /\ writing' = [id |-> id, stage |-> "begun", next |-> NextStore(mem, id, q, Outcome(mem, q))]
             /\ UNCHANGED reply
        ELSE Answer(id, "refused") /\ UNCHANGED writing
  /\ UNCHANGED <<disk, mem, poisoned, asked, faults>>

\* One mutation at a time (mutationTail): replayed, refused, or written.
Handle(id) ==
  /\ id \in DOMAIN asked /\ reply[id] \in {"none", "failed"}
  /\ writing = NotWriting /\ mem # Unloaded
  /\ LET q == asked[id]
     IN IF Replay(mem, id)
        THEN Answer(id, "ok") /\ UNCHANGED writing
        ELSE IF Accepts(mem, id, q)
        THEN /\ writing' = [id |-> id, stage |-> "begun", next |-> NextStore(mem, id, q, Outcome(mem, q))]
             /\ UNCHANGED reply
        ELSE Answer(id, "refused") /\ UNCHANGED writing
  /\ UNCHANGED <<disk, mem, poisoned, asked, faults>>

\* writeJsonAtomic renames the new file over the old one.
Replace ==
  /\ writing.stage = "begun"
  /\ disk' = writing.next
  /\ writing' = [writing EXCEPT !.stage = "replaced"]
  /\ UNCHANGED <<mem, poisoned, asked, reply, faults>>

Persisted ==
  /\ writing.stage = "replaced"
  /\ mem' = writing.next /\ Answer(writing.id, "ok") /\ writing' = NotWriting
  /\ UNCHANGED <<disk, poisoned, asked, faults>>

Fault == faults < MaxFaults /\ faults' = faults + 1

WriteFails ==
  /\ writing.stage = "begun" /\ Fault
  /\ Answer(writing.id, "failed") /\ writing' = NotWriting
  /\ UNCHANGED <<disk, mem, poisoned, asked>>

\* recoverCommittedWrite: the file was replaced and the write still failed. It is read
\* again; when that does not show what was written, nothing is served any more.
CommittedWriteFails ==
  /\ writing.stage = "replaced" /\ Fault
  /\ \/ mem' = disk /\ UNCHANGED poisoned
     \/ mem' = Unloaded /\ poisoned' = TRUE
  /\ Answer(writing.id, "failed") /\ writing' = NotWriting
  /\ UNCHANGED <<disk, asked>>

Crash ==
  /\ Fault
  /\ mem' = Unloaded /\ poisoned' = FALSE /\ writing' = NotWriting
  /\ UNCHANGED <<disk, asked, reply>>

-----------------------------------------------------------------------------
StartFrom(store) ==
  /\ disk = store /\ mem = Unloaded /\ poisoned = FALSE /\ writing = NotWriting
  /\ asked = <<>> /\ reply = <<>> /\ faults = 0
Init == StartFrom(EmptyStore)

Next ==
  \/ \E p \in Plans : Ask(p)
  \/ \E id \in 1..MaxAsked : Handle(id)
  \/ Load \/ Replace \/ Persisted \/ WriteFails \/ CommittedWriteFails \/ Crash

\* The event loop runs what is queued; a client whose request failed sends it again.
Progress == Load \/ Replace \/ Persisted \/ \E id \in 1..MaxAsked : Handle(id)
Spec == Init /\ [][Next]_vars /\ WF_vars(Progress)

-----------------------------------------------------------------------------
TypeOK ==
  /\ poisoned \in BOOLEAN /\ writing.stage \in {"none", "begun", "replaced"}
  /\ Len(reply) = Len(asked) /\ ToSet(reply) \subseteq {"none", "ok", "refused", "failed"}
  /\ poisoned => mem = Unloaded

\* What the next start reads is a store it accepts, and memory is never ahead of it.
StoreValid == ValidStore(disk) /\ (mem # Unloaded /\ writing = NotWriting => mem = disk)

\* The answer a client has is true of the file, whatever was retried, failed or lost.
AnswersAgree ==
  \A id \in DOMAIN asked :
    /\ reply[id] = "ok" => Replay(disk, id)
    /\ reply[id] = "refused" => \A i \in 1..Len(disk.ops) : disk.ops[i].id # id

\* nextStore validates what it makes and throws when it may not be kept; a request that
\* the domain carries out and that has room is never one of those.
DomainMakesValid ==
  mem # Unloaded /\ writing = NotWriting =>
    \A id \in DOMAIN asked :
      LET q == asked[id]
      IN ~Replay(mem, id) /\ HasRoom(mem, q) /\ Outcome(mem, q) # NoPlan =>
           ValidStore(NextStore(mem, id, q, Outcome(mem, q)))

\* A plan is worked on under one confirmed approval of the definition it has, from the
\* approval on, and its evidence is of the run it is in.
Since(ops, i, j, phases) ==
  \A k \in j..i : ops[k].request.plan = ops[i].request.plan => ops[k].plan.phase \in phases
ApprovedAt(ops, i, j) ==
  /\ ops[j].request.plan = ops[i].request.plan
  /\ ops[j].request.to = "approved" /\ ops[j].request.confirmed
  /\ ops[j].plan.def = ops[i].plan.def /\ Since(ops, i, j, ApprovalPhases)
VerifiedFrom(ops, i, j) ==
  /\ ops[j].request.plan = ops[i].request.plan /\ ops[j].plan.phase = "verifying"
  /\ Since(ops, i, j, {"verifying", "ready_to_release", "done"})
ApprovedWork(ops, i) ==
  /\ ops[i].plan.phase \in ApprovalPhases => \E j \in 1..i : ApprovedAt(ops, i, j)
  /\ "implementation" \in ops[i].plan.gates => \E j \in 1..i : VerifiedFrom(ops, i, j)
RunsWhatWasApproved == \A i \in 1..Len(disk.ops) : ApprovedWork(disk.ops, i)

PlansSafe == TypeOK /\ StoreValid /\ AnswersAgree /\ DomainMakesValid /\ RunsWhatWasApproved

\* Requests that their clients repeat are all answered for good in the end, unless the
\* store stopped serving.
AllAnswered == poisoned \/ \A id \in DOMAIN asked : reply[id] \in {"ok", "refused"}
EveryRequestIsAnswered == <>[]AllAnswered
================================================================================
