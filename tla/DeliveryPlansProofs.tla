-------------------------- MODULE DeliveryPlansProofs --------------------------
(* Theorems about the stores of delivery plans and, in the last part, of planning *)
(* runs: for any plans, definitions, runs and limits, over any number of requests, *)
(* repetitions, failing writes and crashes.                                     *)
EXTENDS DeliveryPlans, Integers, FiniteSetTheorems, SequenceTheorems,
        WellFoundedInduction, TLAPS

--------------------------------------------------------------------------------
(* The inductive invariant.                                                     *)

Gates == {"implementation", "qa", "release"}
PlanSet == [revision : Nat \ {0}, phase : Phases, def : Definitions,
            approval : Definitions \cup {Unapproved}, gates : SUBSET Gates]
RequestSet == [action : {"create", "update", "transition"}, plan : Plans, to : Phases,
               def : Definitions \cup {Unapproved}, confirmed : BOOLEAN, aborted : BOOLEAN,
               facts : BOOLEAN, storeRevision : Nat, planRevision : Nat]

\* What the server lets a request say.
WellFormed(q) ==
  /\ q \in RequestSet
  /\ q.action = "create" => q.to \in {"draft", "planning"}
  /\ q.action # "transition" => q.def \in Definitions

OpSet == [id : Int, request : RequestSet, plan : PlanSet]
StoreSet == [plans : [Plans -> PlanSet \cup {NoPlan}], ops : Seq(OpSet)]

\* Operation i is the last one of plan p.
IsLast(ops, p, i) ==
  /\ i \in 1..Len(ops) /\ ops[i].request.plan = p
  /\ \A j \in 1..Len(ops) : ops[j].request.plan = p => j <= i
Latest(store) ==
  \A p \in Plans : Exists(store, p) =>
    \E i \in 1..Len(store.ops) : IsLast(store.ops, p, i) /\ store.plans[p] = store.ops[i].plan

\* A store the next start accepts, whose history approves what is worked on.
Sound(store) ==
  /\ store \in StoreSet /\ ValidStore(store) /\ Latest(store)
  /\ \A i \in 1..Len(store.ops) : ApprovedWork(store.ops, i)

Known ==
  /\ asked \in Seq({q \in RequestSet : WellFormed(q)})
  /\ reply \in Seq({"none", "ok", "refused", "failed"})
  /\ Len(reply) = Len(asked)
  /\ poisoned \in BOOLEAN /\ (poisoned => mem = Unloaded)

\* Where the mutation that is being persisted stands between memory and the file.
Writing ==
  \/ writing = NotWriting /\ (mem # Unloaded => mem = disk)
  \/ /\ writing = [id |-> writing.id, stage |-> writing.stage, next |-> writing.next]
     /\ writing.id \in DOMAIN asked /\ reply[writing.id] \in {"none", "failed"}
     /\ Sound(writing.next) /\ mem # Unloaded
     /\ \/ /\ writing.stage = "begun" /\ mem = disk
           /\ \A id : Replay(writing.next, id) <=> Replay(disk, id) \/ id = writing.id
        \/ writing.stage = "replaced" /\ disk = writing.next /\ Replay(disk, writing.id)

Inv == Known /\ Sound(disk) /\ Writing /\ AnswersAgree

--------------------------------------------------------------------------------
(* Plans.                                                                       *)

\* What a transition makes of a plan is a plan, and keeps its definition.
LEMMA TransitionedFits ==
  ASSUME NEW p \in PlanSet, NEW to \in Phases
  PROVE  /\ Transitioned(p, to) \in PlanSet
         /\ Transitioned(p, to).revision = p.revision + 1
         /\ Transitioned(p, to).def = p.def /\ Transitioned(p, to).phase = to
         /\ Transitioned(p, to).gates = GatesAfter(p, to)
         /\ Transitioned(p, to).approval = IF to = "approved" THEN p.def
                                           ELSE IF to = "planning" THEN Unapproved ELSE p.approval
PROOF
  <1>1. GatesAfter(p, to) \in SUBSET Gates
    BY DEF GatesAfter, PlanSet, Gates
  <1> DEFINE a == IF to = "approved" THEN p.def
                  ELSE IF to = "planning" THEN Unapproved ELSE p.approval
  <1>2. a \in Definitions \cup {Unapproved} /\ p.revision + 1 \in Nat \ {0} /\ p.def \in Definitions
    BY DEF PlanSet
  <1>p. p = [revision |-> p.revision, phase |-> p.phase, def |-> p.def,
             approval |-> p.approval, gates |-> p.gates]
    BY DEF PlanSet
  <1>t. Transitioned(p, to) = [p EXCEPT !.revision = p.revision + 1, !.phase = to,
                                        !.gates = GatesAfter(p, to), !.approval = a]
    BY Zenon DEF Transitioned
  <1> HIDE DEF a
  <1>3. Transitioned(p, to) = [revision |-> p.revision + 1, phase |-> to, def |-> p.def,
                               approval |-> a, gates |-> GatesAfter(p, to)]
    BY <1>p, <1>t
  <1>4. Transitioned(p, to) \in PlanSet
    BY <1>1, <1>2, <1>3 DEF PlanSet
  <1> QED  BY <1>3, <1>4 DEF a

\* An edit gives a plan whose phase asks nothing of the definition, or is the same plan.
LEMMA UpdatedFits ==
  ASSUME NEW p \in PlanSet, NEW d \in Definitions, MayUpdate(p, d)
  PROVE  \/ Updated(p, d) = p
         \/ /\ Updated(p, d) \in PlanSet /\ Updated(p, d).revision = p.revision + 1
            /\ ValidPlan(Updated(p, d))
            /\ Updated(p, d).phase \notin ApprovalPhases
            /\ Updated(p, d).gates \subseteq p.gates
            /\ p.phase \in ApprovalPhases => Updated(p, d).gates = {}
PROOF
  <1> DEFINE u == Updated(p, d)
             c == [p EXCEPT !.def = d]
  <1> SUFFICES ASSUME d # p.def
               PROVE  /\ u \in PlanSet /\ u.revision = p.revision + 1 /\ ValidPlan(u)
                      /\ u.phase \notin ApprovalPhases /\ u.gates \subseteq p.gates
                      /\ p.phase \in ApprovalPhases => u.gates = {}
    BY DEF Updated
  <1>1. CASE p.approval # Unapproved \/ p.phase \in ApprovalPhases \cup {"ready_for_approval"}
    <2>1. u = Invalidated(c)
      BY <1>1 DEF Updated
    <2>2. c \in PlanSet /\ c.def = d /\ c.revision = p.revision
      BY DEF PlanSet
    <2> DEFINE ph == IF Ready(d) THEN "ready_for_approval" ELSE "planning"
    <2>a. u = [revision |-> p.revision + 1, phase |-> ph, def |-> d, approval |-> Unapproved,
               gates |-> {}]
      BY <2>1, <2>2 DEF Invalidated, PlanSet
    <2>b. ph \in {"ready_for_approval", "planning"} /\ (ph = "ready_for_approval" => Ready(d))
      OBVIOUS
    <2>c. p.revision + 1 \in Nat \ {0}
      BY DEF PlanSet
    <2> HIDE DEF ph
    <2>3. /\ u.revision = p.revision + 1 /\ u.gates = {} /\ u.def = d /\ u.approval = Unapproved
          /\ u.phase = ph /\ u \in PlanSet
      BY <2>a, <2>b, <2>c DEF PlanSet, Phases
    <2>4. ShapeOk(d)
      BY DEF MayUpdate
    <2> QED  BY <2>3, <2>4, <2>b DEF ValidPlan, ApprovalPhases
  <1>2. CASE ~(p.approval # Unapproved \/ p.phase \in ApprovalPhases \cup {"ready_for_approval"})
    <2>1. u = [c EXCEPT !.revision = @ + 1]
      BY <1>2 DEF Updated
    <2>2. /\ u \in PlanSet /\ u.revision = p.revision + 1 /\ u.def = d /\ u.gates = p.gates
          /\ u.phase = p.phase
      <3>1. u = [revision |-> p.revision + 1, phase |-> p.phase, def |-> d,
                 approval |-> p.approval, gates |-> p.gates]
        BY <2>1 DEF PlanSet
      <3>2. p.revision + 1 \in Nat \ {0}
        BY DEF PlanSet
      <3> QED  BY <3>1, <3>2 DEF PlanSet
    <2>3. ShapeOk(d)
      BY DEF MayUpdate
    <2> QED  BY <1>2, <2>2, <2>3 DEF ValidPlan, ApprovalPhases
  <1> QED  BY <1>1, <1>2

\* A plan of the store is the snapshot of its last operation, which is valid.
LEMMA StoredPlan ==
  ASSUME NEW store, Sound(store), NEW p \in Plans, Exists(store, p)
  PROVE  /\ store.plans[p] \in PlanSet /\ ValidPlan(store.plans[p])
         /\ \E i \in 1..Len(store.ops) :
              /\ IsLast(store.ops, p, i) /\ store.plans[p] = store.ops[i].plan
              /\ ApprovedWork(store.ops, i)
PROOF
  <1>1. PICK i \in 1..Len(store.ops) :
          IsLast(store.ops, p, i) /\ store.plans[p] = store.ops[i].plan
    BY DEF Sound, Latest
  <1>2. store.plans[p] \in PlanSet
    BY DEF Sound, StoreSet, Exists
  <1>3. ValidPlan(store.ops[i].plan)
    BY DEF Sound, ValidStore
  <1> QED  BY <1>1, <1>2, <1>3 DEF Sound

\* What the domain makes of a request is a valid plan; how it follows the plan there was.
LEMMA OutcomeFits ==
  ASSUME NEW store, Sound(store), NEW q, WellFormed(q), Outcome(store, q) # NoPlan
  PROVE  LET o == Outcome(store, q)
             p == store.plans[q.plan]
         IN /\ o \in PlanSet /\ ValidPlan(o)
            /\ q.action = "create" =>
                 /\ ~Exists(store, q.plan) /\ o.revision = 1 /\ o.gates = {}
                 /\ o.phase \in {"draft", "planning"}
            /\ q.action # "create" =>
                 /\ Exists(store, q.plan) /\ p \in PlanSet /\ ValidPlan(p)
                 /\ o.revision - p.revision \in IF q.action = "transition" THEN {1} ELSE {0, 1}
            /\ q.action = "transition" => MayTransition(p, q) /\ o = Transitioned(p, q.to)
            /\ q.action = "update" => MayUpdate(p, q.def) /\ o = Updated(p, q.def)
PROOF
  <1> DEFINE o == Outcome(store, q)
             p == store.plans[q.plan]
  <1>q. q \in RequestSet /\ q.plan \in Plans
    BY DEF WellFormed, RequestSet
  <1>1. CASE q.action = "create"
    <2>1. ~Exists(store, q.plan) /\ ShapeOk(q.def) /\ o = NewPlan(q.def, q.to)
      BY <1>1 DEF Outcome
    <2>2. q.def \in Definitions /\ q.to \in {"draft", "planning"}
      BY <1>1 DEF WellFormed
    <2>3. o \in PlanSet /\ o.revision = 1 /\ o.gates = {} /\ o.phase = q.to /\ o.def = q.def
      BY <2>1, <2>2 DEF NewPlan, PlanSet, Phases
    <2> QED  BY <1>1, <2>1, <2>2, <2>3 DEF ValidPlan, ApprovalPhases
  <1>2. CASE q.action = "update"
    <2>1. Exists(store, q.plan) /\ MayUpdate(p, q.def) /\ o = Updated(p, q.def)
      BY <1>2 DEF Outcome
    <2>2. q.def \in Definitions
      BY <1>2 DEF WellFormed
    <2>3. p \in PlanSet /\ ValidPlan(p)
      BY <1>q, <2>1, StoredPlan
    <2>4. p.revision \in Nat
      BY <2>3 DEF PlanSet
    <2>5. \/ o = p
          \/ o \in PlanSet /\ o.revision = p.revision + 1 /\ ValidPlan(o)
      BY <2>1, <2>2, <2>3, UpdatedFits
    <2>6. o \in PlanSet /\ ValidPlan(o) /\ o.revision - p.revision \in {0, 1}
      BY <2>3, <2>4, <2>5
    <2> QED  BY <1>2, <2>1, <2>3, <2>6
  <1>3. CASE q.action = "transition"
    <2>1. Exists(store, q.plan) /\ MayTransition(p, q) /\ o = Transitioned(p, q.to)
      BY <1>3 DEF Outcome
    <2>2. p \in PlanSet /\ ValidPlan(p)
      BY <1>q, <2>1, StoredPlan
    <2>3. p.revision \in Nat /\ q.to \in Phases
      BY <1>q, <2>2 DEF PlanSet, RequestSet
    <2>4. o \in PlanSet /\ o.revision = p.revision + 1
      BY <2>1, <2>2, <2>3, TransitionedFits
    <2>5. ValidPlan(o)
      BY <2>1 DEF MayTransition
    <2>6. o.revision - p.revision = 1
      BY <2>3, <2>4
    <2> QED  BY <1>3, <2>1, <2>2, <2>4, <2>5, <2>6
  <1> QED  BY <1>q, <1>1, <1>2, <1>3 DEF RequestSet

--------------------------------------------------------------------------------
(* Histories.                                                                   *)

Of(ops, p) == {j \in 1..Len(ops) : ops[j].request.plan = p}

\* The code looks for the last operation of a plan; there is one such.
LEMMA LastIsChosen ==
  ASSUME NEW ops, Len(ops) \in Nat, NEW p, NEW i, IsLast(ops, p, i)
  PROVE  /\ i \in Of(ops, p) /\ \A j \in Of(ops, p) : j <= i
         /\ (CHOOSE k \in Of(ops, p) : \A j \in Of(ops, p) : j <= k) = i
PROOF
  <1>1. i \in Of(ops, p) /\ \A j \in Of(ops, p) : j <= i
    BY DEF IsLast, Of
  <1>2. ASSUME NEW k \in Of(ops, p), \A j \in Of(ops, p) : j <= k
        PROVE  k = i
    <2>1. i <= k /\ k <= i
      BY <1>1, <1>2
    <2> QED  BY <1>1, <2>1 DEF Of
  <1> QED  BY <1>1, <1>2

\* Among places up to n there is a last one.
LEMMA LastOfSome ==
  ASSUME NEW n \in Nat, NEW S \in SUBSET (1..n), S # {}
  PROVE  \E i \in S : \A j \in S : j <= i
PROOF
  <1> DEFINE T == {n - i : i \in S}
  <1>1. T \subseteq Nat /\ T # {}
    OBVIOUS
  <1>2. \E x \in T : \A y \in T : ~(<<y, x>> \in OpToRel(<, Nat))
    BY <1>1, NatLessThanWellFounded, WFMin
  <1>3. PICK x \in T : \A y \in T : ~(<<y, x>> \in OpToRel(<, Nat))
    BY <1>2
  <1>4. \A y \in T : ~(y < x)
    BY <1>1, <1>3 DEF OpToRel
  <1>5. PICK i \in S : x = n - i
    OBVIOUS
  <1>6. ASSUME NEW j \in S
        PROVE  j <= i
    <2>1. n - j \in T
      OBVIOUS
    <2> QED  BY <1>4, <1>5, <2>1
  <1> QED  BY <1>6

\* One more operation leaves those before it as they were.
LEMMA OneMore ==
  ASSUME NEW ops \in Seq(OpSet), NEW o
  PROVE  /\ Len(ops) \in Nat /\ Len(Append(ops, o)) = Len(ops) + 1
         /\ 1..Len(Append(ops, o)) = 1..Len(ops) \cup {Len(ops) + 1}
         /\ \A j \in 1..Len(ops) : Append(ops, o)[j] = ops[j] /\ ops[j] \in OpSet
         /\ Append(ops, o)[Len(ops) + 1] = o
  OBVIOUS

\* How an operation follows those before it does not depend on those after it.
LEMMA FollowsAsBefore ==
  ASSUME NEW ops \in Seq(OpSet), NEW o, NEW i \in 1..Len(ops), OperationFollows(ops, i)
  PROVE  OperationFollows(Append(ops, o), i)
PROOF
  <1> DEFINE new == Append(ops, o)
  <1>1. /\ new[i] = ops[i] /\ i \in Nat
        /\ \A j \in 1..(i - 1) : j \in 1..Len(ops) /\ new[j] = ops[j]
    BY OneMore
  <1>2. {j \in 1..(i - 1) : new[j].request.plan = new[i].request.plan}
          = {j \in 1..(i - 1) : ops[j].request.plan = ops[i].request.plan}
    BY <1>1
  <1> DEFINE earlier == {j \in 1..(i - 1) : ops[j].request.plan = ops[i].request.plan}
             last == CHOOSE j \in earlier : \A k \in earlier : k <= j
  <1>3. CASE ops[i].request.action = "create"
    <2>1. /\ earlier = {} /\ ops[i].plan.revision = 1 /\ ops[i].plan.gates = {}
          /\ ops[i].plan.phase \in {"draft", "planning"}
      BY <1>3 DEF OperationFollows
    <2>2. new[i].request.action = "create"
      BY <1>1, <1>3
    <2> QED  BY <1>1, <1>2, <2>1, <2>2 DEF OperationFollows
  <1>4. CASE ops[i].request.action # "create"
    <2>1. /\ earlier # {}
          /\ ops[i].plan.revision - ops[last].plan.revision \in
               IF ops[i].request.action = "transition" THEN {1} ELSE {0, 1}
      BY <1>4 DEF OperationFollows
    <2>2. new[last].plan.revision = ops[last].plan.revision
      <3>1. last \in earlier
        <4>1. i - 1 \in Nat /\ earlier \in SUBSET (1..(i - 1)) /\ earlier # {}
          BY <1>1, <2>1
        <4>2. \E j \in earlier : \A k \in earlier : k <= j
          BY <4>1, LastOfSome
        <4> QED  BY <4>2
      <3> HIDE DEF last, new
      <3> QED  BY <1>1, <3>1
    <2>3. new[i].request.action = ops[i].request.action
      BY <1>1
    <2> DEFINE e2 == {j \in 1..(i - 1) : new[j].request.plan = new[i].request.plan}
               last2 == CHOOSE j \in e2 : \A k \in e2 : k <= j
    <2>4. e2 = earlier /\ last2 = last
      BY <1>2
    <2>5. /\ e2 # {}
          /\ new[i].plan.revision - new[last2].plan.revision \in
               IF new[i].request.action = "transition" THEN {1} ELSE {0, 1}
      <3> HIDE DEF new, earlier, last, e2, last2
      <3> QED  BY <1>1, <2>1, <2>2, <2>3, <2>4
    <2>6. OperationFollows(new, i) <=>
            IF new[i].request.action = "create"
            THEN /\ e2 = {} /\ new[i].plan.revision = 1 /\ new[i].plan.gates = {}
                 /\ new[i].plan.phase \in {"draft", "planning"}
            ELSE /\ e2 # {}
                 /\ new[i].plan.revision - new[last2].plan.revision \in
                      IF new[i].request.action = "transition" THEN {1} ELSE {0, 1}
      BY Zenon DEF OperationFollows
    <2> HIDE DEF e2, last2
    <2> QED  BY <1>4, <2>3, <2>5, <2>6
  <1> QED  BY <1>3, <1>4

\* Nor does what approves it.
LEMMA ApprovedAsBefore ==
  ASSUME NEW ops \in Seq(OpSet), NEW o, NEW i \in 1..Len(ops), ApprovedWork(ops, i)
  PROVE  ApprovedWork(Append(ops, o), i)
PROOF
  <1> DEFINE new == Append(ops, o)
  <1>1. i \in Nat /\ \A k \in 1..i : new[k] = ops[k]
    BY OneMore
  <1> HIDE DEF new
  <1>2. i \in 1..i /\ new[i] = ops[i]
    BY <1>1
  <1>3. ASSUME NEW j \in 1..i, NEW phases, Since(ops, i, j, phases)
        PROVE  Since(new, i, j, phases)
    <2>1. \A k \in j..i : k \in 1..i
      BY <1>1
    <2> QED  BY <1>1, <1>2, <1>3, <2>1 DEF Since
  <1>4. ASSUME NEW j \in 1..i, ApprovedAt(ops, i, j)
        PROVE  ApprovedAt(new, i, j)
    BY <1>1, <1>2, <1>3, <1>4 DEF ApprovedAt
  <1>5. ASSUME NEW j \in 1..i, VerifiedFrom(ops, i, j)
        PROVE  VerifiedFrom(new, i, j)
    BY <1>1, <1>2, <1>3, <1>5 DEF VerifiedFrom
  <1>6. ApprovedWork(new, i)
    BY <1>2, <1>4, <1>5 DEF ApprovedWork
  <1> QED  BY <1>6 DEF new

\* The next operation of a plan goes on from its last one.
LEMMA SinceGoesOn ==
  ASSUME NEW ops \in Seq(OpSet), NEW o, NEW i, IsLast(ops, o.request.plan, i),
         NEW j \in 1..i, NEW phases, Since(ops, i, j, phases), o.plan.phase \in phases
  PROVE  Since(Append(ops, o), Len(ops) + 1, j, phases)
PROOF
  <1> DEFINE new == Append(ops, o)
             n == Len(ops)
  <1>1. n \in Nat /\ new[n + 1] = o /\ \A k \in 1..n : new[k] = ops[k]
    BY OneMore
  <1>2. i \in 1..n /\ ops[i].request.plan = o.request.plan
        /\ \A k \in 1..n : ops[k].request.plan = o.request.plan => k <= i
    BY DEF IsLast
  <1> HIDE DEF new, n
  <1>3. ASSUME NEW k \in j..(n + 1), new[k].request.plan = new[n + 1].request.plan
        PROVE  new[k].plan.phase \in phases
    <2>1. CASE k = n + 1
      BY <1>1, <2>1
    <2>2. CASE k # n + 1
      <3>1. k \in 1..n
        BY <1>1, <1>2, <2>2
      <3>2. k \in j..i
        BY <1>1, <1>2, <1>3, <3>1
      <3> QED  BY <1>1, <1>2, <1>3, <3>1, <3>2 DEF Since
    <2> QED  BY <2>1, <2>2
  <1>4. Since(new, n + 1, j, phases)
    BY <1>3 DEF Since
  <1> QED  BY <1>4 DEF new, n

\* So does the approval it is under, and the verification its evidence is of.
LEMMA ApprovalGoesOn ==
  ASSUME NEW ops \in Seq(OpSet), NEW o, NEW i, IsLast(ops, o.request.plan, i),
         ApprovedWork(ops, i), ops[i].plan.phase \in ApprovalPhases,
         o.plan.phase \in ApprovalPhases, o.plan.def = ops[i].plan.def
  PROVE  \E j \in 1..(Len(ops) + 1) : ApprovedAt(Append(ops, o), Len(ops) + 1, j)
PROOF
  <1>1. PICK j \in 1..i : ApprovedAt(ops, i, j)
    BY DEF ApprovedWork
  <1>2. i \in 1..Len(ops) /\ Len(ops) \in Nat /\ ops[i].request.plan = o.request.plan
    BY OneMore DEF IsLast
  <1>3. Since(Append(ops, o), Len(ops) + 1, j, ApprovalPhases)
    BY <1>1, SinceGoesOn DEF ApprovedAt
  <1>4. j \in 1..Len(ops)
    BY <1>2
  <1>5. ApprovedAt(Append(ops, o), Len(ops) + 1, j)
    BY <1>1, <1>2, <1>3, <1>4, OneMore DEF ApprovedAt
  <1> QED  BY <1>2, <1>4, <1>5

LEMMA VerificationGoesOn ==
  ASSUME NEW ops \in Seq(OpSet), NEW o, NEW i, IsLast(ops, o.request.plan, i),
         ApprovedWork(ops, i), "implementation" \in ops[i].plan.gates,
         o.plan.phase \in {"verifying", "ready_to_release", "done"}
  PROVE  \E j \in 1..(Len(ops) + 1) : VerifiedFrom(Append(ops, o), Len(ops) + 1, j)
PROOF
  <1>1. PICK j \in 1..i : VerifiedFrom(ops, i, j)
    BY DEF ApprovedWork
  <1>2. i \in 1..Len(ops) /\ Len(ops) \in Nat /\ ops[i].request.plan = o.request.plan
    BY OneMore DEF IsLast
  <1>3. Since(Append(ops, o), Len(ops) + 1, j, {"verifying", "ready_to_release", "done"})
    BY <1>1, SinceGoesOn DEF VerifiedFrom
  <1>4. j \in 1..Len(ops)
    BY <1>2
  <1>5. VerifiedFrom(Append(ops, o), Len(ops) + 1, j)
    BY <1>1, <1>2, <1>3, <1>4, OneMore DEF VerifiedFrom
  <1> QED  BY <1>2, <1>4, <1>5

\* Evidence of an implementation is of a plan in its verification or past it, which only
\* its run moves: not to blocked or canceled.
LEMMA EvidencePhase ==
  ASSUME NEW ops \in Seq(OpSet), NEW p, NEW i, IsLast(ops, p, i), ApprovedWork(ops, i),
         "implementation" \in ops[i].plan.gates
  PROVE  ops[i].plan.phase \in {"verifying", "ready_to_release", "done"}
PROOF
  <1>1. PICK j \in 1..i : VerifiedFrom(ops, i, j)
    BY DEF ApprovedWork
  <1>2. i \in j..i
    BY <1>1 DEF IsLast
  <1> QED  BY <1>1, <1>2 DEF VerifiedFrom, Since

\* What a transition moves a plan under approval to is under the same approval, or anew.
LEMMA TransitionApproved ==
  ASSUME NEW p \in PlanSet, NEW q \in RequestSet, MayTransition(p, q),
         q.to \in ApprovalPhases
  PROVE  (q.to = "approved" /\ q.confirmed) \/ p.phase \in ApprovalPhases
  BY DEF MayTransition, Legal, Conditions, ApprovalPhases

\* A transition that leaves evidence of an implementation is to the verification, or on
\* from evidence there was.
LEMMA TransitionEvidence ==
  ASSUME NEW p \in PlanSet, ValidPlan(p), NEW q \in RequestSet, MayTransition(p, q),
         "implementation" \in GatesAfter(p, q.to),
         "implementation" \in p.gates => p.phase \in {"verifying", "ready_to_release", "done"}
  PROVE  \/ q.to = "verifying"
         \/ "implementation" \in p.gates /\ q.to \in {"ready_to_release", "done"}
PROOF
  <1>1. q.to \in Legal(p.phase) /\ ~ExecutionLocked(p.phase, q.to, q.aborted)
    BY DEF MayTransition
  <1>2. CASE q.to = "ready_to_release"
    <2>1. "implementation" \in p.gates
      BY <1>2 DEF GatesAfter
    <2> QED  BY <1>2, <2>1
  <1>3. CASE q.to = "done"
    <2>1. "implementation" \in p.gates
      BY <1>3 DEF GatesAfter
    <2> QED  BY <1>3, <2>1
  <1>4. CASE q.to \notin {"ready_to_release", "done", "verifying"}
    <2>1. "implementation" \in p.gates
      BY <1>4 DEF GatesAfter
    <2>2. p.phase \in {"verifying", "ready_to_release", "done"}
      BY <2>1
    <2>3. p.approval # Unapproved
      BY <2>2 DEF ValidPlan, ApprovalPhases, ApprovalCurrent
    <2>4. q.to \in {"planning", "executing", "blocked", "canceled"}
      BY <1>1, <1>4, <2>2 DEF Legal
    <2>5. q.to \notin {"blocked", "canceled"} \/ p.phase = "done"
      BY <1>1, <2>2 DEF ExecutionLocked
    <2>6. q.to \in {"planning", "executing"} /\ (q.to = "executing" => p.phase = "verifying")
      BY <1>1, <1>4, <2>2, <2>4, <2>5 DEF Legal
    <2> QED  BY <2>3, <2>6 DEF GatesAfter
  <1> QED  BY <1>2, <1>3, <1>4

\* A request the domain carries out leaves the history of its plan approved.
LEMMA NextApproved ==
  ASSUME NEW store, Sound(store), NEW q, WellFormed(q), NEW id \in Int,
         Outcome(store, q) # NoPlan
  PROVE  \A i \in 1..Len(NextStore(store, id, q, Outcome(store, q)).ops) :
           ApprovedWork(NextStore(store, id, q, Outcome(store, q)).ops, i)
PROOF
  <1> DEFINE out == Outcome(store, q)
             o == [id |-> id, request |-> q, plan |-> out]
             ops == store.ops
             new == Append(ops, o)
             n == Len(ops)
             p == store.plans[q.plan]
  <1>1. NextStore(store, id, q, out).ops = new
    BY DEF NextStore
  <1>2. /\ ops \in Seq(OpSet) /\ \A i \in 1..n : ApprovedWork(ops, i)
        /\ q \in RequestSet /\ q.plan \in Plans
    BY DEF Sound, StoreSet, WellFormed, RequestSet
  <1>3. /\ n \in Nat /\ Len(new) = n + 1 /\ 1..(n + 1) = 1..n \cup {n + 1}
        /\ new[n + 1] = o /\ n + 1 \in 1..(n + 1)
    BY <1>2, OneMore
  <1>4. /\ out \in PlanSet
        /\ q.action = "create" => out.gates = {} /\ out.phase \in {"draft", "planning"}
        /\ q.action # "create" => Exists(store, q.plan) /\ p \in PlanSet /\ ValidPlan(p)
        /\ q.action = "transition" => MayTransition(p, q) /\ out = Transitioned(p, q.to)
        /\ q.action = "update" => MayUpdate(p, q.def) /\ out = Updated(p, q.def)
    BY OutcomeFits
  <1>5. \A i \in 1..n : ApprovedWork(new, i)
    BY <1>2, ApprovedAsBefore
  <1>6. q.action \in {"create", "update", "transition"} /\ q.to \in Phases
        /\ (q.action = "update" => q.def \in Definitions)
    BY <1>2 DEF RequestSet, WellFormed
  <1>7. ASSUME q.action # "create"
        PROVE  \E i \in 1..n : /\ IsLast(ops, q.plan, i) /\ ops[i].plan = p
                               /\ ApprovedWork(ops, i)
    BY <1>2, <1>4, <1>7, StoredPlan
  <1>8. o.request = q /\ o.plan = out
    OBVIOUS
  <1> HIDE DEF out, o, new, n, p, ops
  <1>9. ASSUME out.phase \in ApprovalPhases
        PROVE  \E j \in 1..(n + 1) : ApprovedAt(new, n + 1, j)
    <2>1. q.action # "create"
      BY <1>4, <1>9 DEF ApprovalPhases
    <2>2. PICK i \in 1..n : IsLast(ops, q.plan, i) /\ ops[i].plan = p /\ ApprovedWork(ops, i)
      BY <1>7, <2>1
    <2>3. ASSUME p.phase \in ApprovalPhases, out.def = p.def
          PROVE  \E j \in 1..(n + 1) : ApprovedAt(new, n + 1, j)
      BY <1>2, <1>8, <1>9, <2>2, <2>3, ApprovalGoesOn DEF new, n
    <2>4. CASE q.action = "update"
      <3>1. out = p
        BY <1>4, <1>6, <1>9, <2>4, UpdatedFits
      <3> QED  BY <1>9, <2>3, <3>1
    <2>5. CASE q.action = "transition"
      <3>1. out.phase = q.to /\ out.def = p.def /\ MayTransition(p, q) /\ p \in PlanSet
        BY <1>4, <1>6, <2>5, TransitionedFits
      <3>2. CASE q.to = "approved" /\ q.confirmed
        <4>1. Since(new, n + 1, n + 1, ApprovalPhases)
          <5>1. \A k \in (n + 1)..(n + 1) : k = n + 1
            BY <1>3
          <5> QED  BY <1>3, <1>8, <1>9, <5>1 DEF Since
        <4>2. ApprovedAt(new, n + 1, n + 1)
          BY <1>3, <1>8, <3>2, <4>1 DEF ApprovedAt
        <4> QED  BY <1>3, <4>2
      <3>3. CASE p.phase \in ApprovalPhases
        BY <2>3, <3>1, <3>3
      <3> QED  BY <1>2, <1>9, <3>1, <3>2, <3>3, TransitionApproved
    <2> QED  BY <1>6, <2>1, <2>4, <2>5
  <1>10. ASSUME "implementation" \in out.gates
         PROVE  \E j \in 1..(n + 1) : VerifiedFrom(new, n + 1, j)
    <2>1. q.action # "create"
      BY <1>4, <1>10
    <2>2. PICK i \in 1..n : IsLast(ops, q.plan, i) /\ ops[i].plan = p /\ ApprovedWork(ops, i)
      BY <1>7, <2>1
    <2>3. "implementation" \in p.gates => p.phase \in {"verifying", "ready_to_release", "done"}
      BY <1>2, <2>2, EvidencePhase
    <2>4. ASSUME "implementation" \in p.gates,
                 out.phase \in {"verifying", "ready_to_release", "done"}
          PROVE  \E j \in 1..(n + 1) : VerifiedFrom(new, n + 1, j)
      BY <1>2, <1>8, <2>2, <2>4, VerificationGoesOn DEF new, n
    <2>5. CASE q.action = "update"
      <3>1. out = p \/ (out.gates \subseteq p.gates /\ (p.phase \in ApprovalPhases => out.gates = {}))
        BY <1>4, <1>6, <2>5, UpdatedFits
      <3>2. out = p
        BY <1>10, <2>3, <3>1 DEF ApprovalPhases
      <3> QED  BY <1>10, <2>3, <2>4, <3>2
    <2>6. CASE q.action = "transition"
      <3>1. /\ out.phase = q.to /\ out.gates = GatesAfter(p, q.to) /\ MayTransition(p, q)
            /\ p \in PlanSet /\ ValidPlan(p)
        BY <1>4, <1>6, <2>6, TransitionedFits
      <3>2. CASE q.to = "verifying"
        <4>1. Since(new, n + 1, n + 1, {"verifying", "ready_to_release", "done"})
          <5>1. \A k \in (n + 1)..(n + 1) : k = n + 1
            BY <1>3
          <5> QED  BY <1>3, <1>8, <3>1, <3>2, <5>1 DEF Since
        <4>2. VerifiedFrom(new, n + 1, n + 1)
          BY <1>3, <1>8, <3>1, <3>2, <4>1 DEF VerifiedFrom
        <4> QED  BY <1>3, <4>2
      <3>3. CASE "implementation" \in p.gates /\ q.to \in {"ready_to_release", "done"}
        BY <2>4, <3>1, <3>3
      <3> QED  BY <1>2, <1>10, <2>3, <3>1, <3>2, <3>3, TransitionEvidence
    <2> QED  BY <1>6, <2>1, <2>5, <2>6
  <1>11. ApprovedWork(new, n + 1)
    BY <1>3, <1>8, <1>9, <1>10 DEF ApprovedWork
  <1>12. \A i \in 1..(n + 1) : ApprovedWork(new, i)
    BY <1>3, <1>5, <1>11 DEF new, n, ops, out, o
  <1> QED  BY <1>1, <1>3, <1>12 DEF out

--------------------------------------------------------------------------------
(* The next store.                                                              *)

\* How the next store differs: one operation more, and its plan.
LEMMA NextFits ==
  ASSUME NEW store, Sound(store), NEW q, WellFormed(q), NEW id \in Int,
         Outcome(store, q) # NoPlan
  PROVE  LET o == [id |-> id, request |-> q, plan |-> Outcome(store, q)]
             next == NextStore(store, id, q, Outcome(store, q))
         IN /\ o \in OpSet /\ next \in StoreSet
            /\ next.ops = Append(store.ops, o) /\ store.ops \in Seq(OpSet)
            /\ q.plan \in Plans /\ next.plans[q.plan] = Outcome(store, q)
            /\ \A p \in Plans \ {q.plan} : next.plans[p] = store.plans[p]
            /\ Exists(next, q.plan)
            /\ \A p \in Plans \ {q.plan} : Exists(next, p) <=> Exists(store, p)
PROOF
  <1> DEFINE out == Outcome(store, q)
             o == [id |-> id, request |-> q, plan |-> out]
             next == NextStore(store, id, q, out)
  <1>1. out \in PlanSet /\ out # NoPlan
    BY OutcomeFits
  <1>2. q \in RequestSet /\ q.plan \in Plans
    BY DEF WellFormed, RequestSet
  <1>3. /\ store.plans \in [Plans -> PlanSet \cup {NoPlan}] /\ store.ops \in Seq(OpSet)
    BY DEF Sound, StoreSet
  <1>4. next = [plans |-> [store.plans EXCEPT ![q.plan] = out], ops |-> Append(store.ops, o)]
    BY DEF NextStore
  <1> HIDE DEF out, next
  <1>5. o \in OpSet
    BY <1>1, <1>2 DEF OpSet
  <1> HIDE DEF o
  <1>6. next.plans = [store.plans EXCEPT ![q.plan] = out] /\ next.ops = Append(store.ops, o)
    BY <1>4
  <1>7. next.plans \in [Plans -> PlanSet \cup {NoPlan}] /\ next.ops \in Seq(OpSet)
    <2>1. Append(store.ops, o) \in Seq(OpSet)
      BY <1>3, <1>5
    <2>2. [store.plans EXCEPT ![q.plan] = out] \in [Plans -> PlanSet \cup {NoPlan}]
      BY <1>1, <1>3
    <2> QED  BY <1>6, <2>1, <2>2
  <1>8. /\ next.plans[q.plan] = out
        /\ \A p \in Plans \ {q.plan} : next.plans[p] = store.plans[p]
    BY <1>2, <1>3, <1>6
  <1>9. next \in StoreSet
    BY <1>4, <1>6, <1>7 DEF StoreSet
  <1> QED  BY <1>1, <1>2, <1>3, <1>5, <1>6, <1>8, <1>9 DEF Exists, out, o, next

\* The last operation of its plan is the new one; the others have the last they had.
LEMMA NextLast ==
  ASSUME NEW ops \in Seq(OpSet), NEW o
  PROVE  /\ IsLast(Append(ops, o), o.request.plan, Len(ops) + 1)
         /\ \A p, i : p # o.request.plan /\ IsLast(ops, p, i) => IsLast(Append(ops, o), p, i)
         /\ \A p : p # o.request.plan => Of(Append(ops, o), p) = Of(ops, p)
PROOF
  <1> DEFINE new == Append(ops, o)
             n == Len(ops)
  <1>1. /\ n \in Nat /\ Len(new) = n + 1 /\ 1..(n + 1) = 1..n \cup {n + 1}
        /\ new[n + 1] = o /\ \A j \in 1..n : new[j] = ops[j]
    BY OneMore
  <1> HIDE DEF new, n
  <1>2. IsLast(new, o.request.plan, n + 1)
    BY <1>1 DEF IsLast
  <1>3. \A p, i : p # o.request.plan /\ IsLast(ops, p, i) => IsLast(new, p, i)
    BY <1>1 DEF IsLast, n
  <1>4. \A p : p # o.request.plan => Of(new, p) = Of(ops, p)
    BY <1>1 DEF Of, n
  <1> QED  BY <1>2, <1>3, <1>4 DEF new, n

\* There is no more than the limit of plans.
LEMMA NextCount ==
  ASSUME NEW store, Sound(store), NEW q, WellFormed(q), NEW id \in Int,
         Outcome(store, q) # NoPlan, HasRoom(store, q)
  PROVE  PlanCount(NextStore(store, id, q, Outcome(store, q))) <= MaxPlans
PROOF
  <1> DEFINE next == NextStore(store, id, q, Outcome(store, q))
             old == {p \in Plans : Exists(store, p)}
             new == {p \in Plans : Exists(next, p)}
  <1>1. /\ q.plan \in Plans /\ Exists(next, q.plan)
        /\ \A p \in Plans \ {q.plan} : Exists(next, p) <=> Exists(store, p)
    BY NextFits
  <1>2. IsFiniteSet(old) /\ Cardinality(old) \in Nat /\ MaxPlans \in Nat
    BY BoundsAssumption, FS_Subset, FS_CardinalityType
  <1>3. Cardinality(old) <= MaxPlans
    BY DEF Sound, ValidStore, PlanCount
  <1>4. CASE q.action = "create"
    <2>1. q.plan \notin old /\ new = old \cup {q.plan}
      BY <1>1, <1>4, OutcomeFits
    <2>2. Cardinality(new) = Cardinality(old) + 1
      BY <1>2, <2>1, FS_AddElement
    <2>3. Cardinality(old) < MaxPlans
      BY <1>4 DEF HasRoom, PlanCount
    <2> QED  BY <1>2, <2>2, <2>3 DEF PlanCount
  <1>5. CASE q.action # "create"
    <2>1. Exists(store, q.plan)
      BY <1>5, OutcomeFits
    <2>2. new = old
      BY <1>1, <2>1
    <2> QED  BY <1>3, <2>2 DEF PlanCount
  <1> QED  BY <1>4, <1>5

\* The new operation follows the last one of its plan.
LEMMA NextFollows ==
  ASSUME NEW store, Sound(store), NEW q, WellFormed(q), NEW id \in Int,
         Outcome(store, q) # NoPlan
  PROVE  OperationFollows(NextStore(store, id, q, Outcome(store, q)).ops, Len(store.ops) + 1)
PROOF
  <1> DEFINE out == Outcome(store, q)
             o == [id |-> id, request |-> q, plan |-> out]
             ops == store.ops
             new == Append(ops, o)
             n == Len(ops)
             earlier == {j \in 1..((n + 1) - 1) : new[j].request.plan = new[n + 1].request.plan}
             last == CHOOSE j \in earlier : \A k \in earlier : k <= j
  <1>1. /\ NextStore(store, id, q, out).ops = new /\ ops \in Seq(OpSet) /\ q.plan \in Plans
    BY NextFits
  <1>2. n \in Nat /\ new[n + 1] = o /\ \A j \in 1..n : new[j] = ops[j]
    BY <1>1, OneMore
  <1>3. earlier = Of(ops, q.plan)
    <2>1. (n + 1) - 1 = n
      BY <1>2
    <2> QED  BY <1>2, <2>1 DEF Of
  <1>4. /\ o.request = q /\ o.plan = out
    OBVIOUS
  <1>5. /\ q.action = "create" =>
             ~Exists(store, q.plan) /\ out.revision = 1 /\ out.gates = {}
             /\ out.phase \in {"draft", "planning"}
        /\ q.action # "create" =>
             /\ Exists(store, q.plan)
             /\ out.revision - store.plans[q.plan].revision \in
                  IF q.action = "transition" THEN {1} ELSE {0, 1}
    BY OutcomeFits
  <1>6. OperationFollows(new, n + 1) <=>
          IF new[n + 1].request.action = "create"
          THEN /\ earlier = {} /\ new[n + 1].plan.revision = 1 /\ new[n + 1].plan.gates = {}
               /\ new[n + 1].plan.phase \in {"draft", "planning"}
          ELSE /\ earlier # {}
               /\ new[n + 1].plan.revision - new[last].plan.revision \in
                    IF new[n + 1].request.action = "transition" THEN {1} ELSE {0, 1}
    BY Zenon DEF OperationFollows
  <1> HIDE DEF out, o, new, earlier
  <1>7. CASE q.action = "create"
    <2>1. Of(ops, q.plan) = {}
      BY <1>1, <1>5, <1>7 DEF Sound, ValidStore, Of
    <2> HIDE DEF last, ops, n
    <2>2. OperationFollows(new, n + 1)
      BY <1>2, <1>3, <1>4, <1>5, <1>6, <1>7, <2>1
    <2> QED  BY <1>1, <2>2 DEF out, n, ops
  <1>8. CASE q.action # "create"
    <2>1. PICK i \in 1..n : IsLast(ops, q.plan, i) /\ store.plans[q.plan] = ops[i].plan
      BY <1>1, <1>5, <1>8, StoredPlan
    <2>2. i \in earlier /\ last = i
      BY <1>2, <1>3, <2>1, LastIsChosen
    <2> HIDE DEF last, ops, n
    <2>3. OperationFollows(new, n + 1)
      BY <1>2, <1>4, <1>5, <1>6, <1>8, <2>1, <2>2
    <2> QED  BY <1>1, <2>3 DEF out, n, ops
  <1> QED  BY <1>7, <1>8

\* Each plan is the snapshot of its last operation, and a plan without one is not there.
LEMMA NextSnapshots ==
  ASSUME NEW store, Sound(store), NEW q, WellFormed(q), NEW id \in Int,
         Outcome(store, q) # NoPlan
  PROVE  LET next == NextStore(store, id, q, Outcome(store, q))
         IN /\ Latest(next)
            /\ \A p \in Plans : ~Exists(next, p) => Of(next.ops, p) = {}
PROOF
  <1> DEFINE out == Outcome(store, q)
             o == [id |-> id, request |-> q, plan |-> out]
             next == NextStore(store, id, q, out)
             n == Len(store.ops)
  <1>1. /\ next.ops = Append(store.ops, o) /\ store.ops \in Seq(OpSet) /\ o.request.plan = q.plan
        /\ q.plan \in Plans /\ next.plans[q.plan] = out /\ o.plan = out
        /\ \A p \in Plans \ {q.plan} : next.plans[p] = store.plans[p]
        /\ Exists(next, q.plan)
        /\ \A p \in Plans \ {q.plan} : Exists(next, p) <=> Exists(store, p)
    BY NextFits
  <1> HIDE DEF out, o, next
  <1>2. /\ n \in Nat /\ 1..Len(next.ops) = 1..n \cup {n + 1}
        /\ next.ops[n + 1] = o /\ \A j \in 1..n : next.ops[j] = store.ops[j]
    BY <1>1, OneMore
  <1>3. /\ IsLast(next.ops, q.plan, n + 1)
        /\ \A p, i : p # q.plan /\ IsLast(store.ops, p, i) => IsLast(next.ops, p, i)
        /\ \A p : p # q.plan => Of(next.ops, p) = Of(store.ops, p)
    BY <1>1, NextLast
  <1>4. ASSUME NEW p \in Plans, Exists(next, p)
        PROVE  \E i \in 1..Len(next.ops) :
                 IsLast(next.ops, p, i) /\ next.plans[p] = next.ops[i].plan
    <2>1. CASE p = q.plan
      BY <1>1, <1>2, <1>3, <2>1
    <2>2. CASE p # q.plan
      <3>1. PICK i \in 1..n : IsLast(store.ops, p, i) /\ store.plans[p] = store.ops[i].plan
        BY <1>1, <1>4, <2>2, StoredPlan
      <3> QED  BY <1>1, <1>2, <1>3, <2>2, <3>1
    <2> QED  BY <2>1, <2>2
  <1>5. ASSUME NEW p \in Plans, ~Exists(next, p)
        PROVE  Of(next.ops, p) = {}
    <2>1. p # q.plan /\ ~Exists(store, p)
      BY <1>1, <1>5
    <2>2. Of(store.ops, p) = {}
      BY <2>1 DEF Sound, ValidStore, Of
    <2> QED  BY <1>3, <2>1, <2>2
  <1>6. Latest(next)
    BY <1>4 DEF Latest
  <1> QED  BY <1>5, <1>6 DEF next, out

\* What nextStore makes is a store the validator accepts: it never throws away a request
\* that the domain carried out.
LEMMA NextValid ==
  ASSUME NEW store, Sound(store), NEW q, WellFormed(q), NEW id \in Int,
         Outcome(store, q) # NoPlan, HasRoom(store, q), ~Replay(store, id)
  PROVE  ValidStore(NextStore(store, id, q, Outcome(store, q)))
PROOF
  <1> DEFINE out == Outcome(store, q)
             o == [id |-> id, request |-> q, plan |-> out]
             next == NextStore(store, id, q, out)
             n == Len(store.ops)
  <1>1. /\ next.ops = Append(store.ops, o) /\ store.ops \in Seq(OpSet)
        /\ o.id = id /\ o.plan = out
    BY NextFits
  <1>2. PlanCount(next) <= MaxPlans
    BY NextCount
  <1>3. OperationFollows(next.ops, n + 1)
    BY NextFollows
  <1>4. Latest(next) /\ \A p \in Plans : ~Exists(next, p) => Of(next.ops, p) = {}
    BY NextSnapshots
  <1>5. ValidPlan(out)
    BY OutcomeFits
  <1>6. /\ \A i, j \in 1..n : store.ops[i].id = store.ops[j].id => i = j
        /\ \A i \in 1..n : ValidPlan(store.ops[i].plan) /\ OperationFollows(store.ops, i)
    BY DEF Sound, ValidStore
  <1>7. n < MaxOps /\ \A i \in 1..n : store.ops[i].id # id
    BY DEF HasRoom, Replay
  <1> HIDE DEF out, o, next
  <1>8. /\ n \in Nat /\ Len(next.ops) = n + 1 /\ 1..(n + 1) = 1..n \cup {n + 1}
        /\ next.ops[n + 1] = o /\ \A j \in 1..n : next.ops[j] = store.ops[j]
    BY <1>1, OneMore
  <1>9. Len(next.ops) <= MaxOps
    BY <1>7, <1>8, BoundsAssumption
  <1>10. \A i, j \in 1..(n + 1) : next.ops[i].id = next.ops[j].id => i = j
    BY <1>1, <1>6, <1>7, <1>8
  <1>11. ASSUME NEW i \in 1..(n + 1)
         PROVE  ValidPlan(next.ops[i].plan) /\ OperationFollows(next.ops, i)
    <2>1. CASE i \in 1..n
      <3>1. OperationFollows(next.ops, i)
        BY <1>1, <1>6, <2>1, FollowsAsBefore
      <3> QED  BY <1>6, <1>8, <2>1, <3>1
    <2>2. CASE i = n + 1
      BY <1>1, <1>3, <1>5, <1>8, <2>2
    <2> QED  BY <1>8, <2>1, <2>2
  <1>12. ASSUME NEW p \in Plans, Exists(next, p)
         PROVE  LET mine == {i \in 1..Len(next.ops) : next.ops[i].request.plan = p}
                IN /\ mine # {}
                   /\ next.plans[p] = next.ops[CHOOSE i \in mine : \A j \in mine : j <= i].plan
    <2>1. PICK i \in 1..Len(next.ops) : IsLast(next.ops, p, i) /\ next.plans[p] = next.ops[i].plan
      BY <1>4, <1>12 DEF Latest
    <2>2. /\ i \in Of(next.ops, p)
          /\ (CHOOSE k \in Of(next.ops, p) : \A j \in Of(next.ops, p) : j <= k) = i
      BY <1>8, <2>1, LastIsChosen
    <2> QED  BY <2>1, <2>2 DEF Of
  <1>13. ASSUME NEW p \in Plans, ~Exists(next, p)
         PROVE  {i \in 1..Len(next.ops) : next.ops[i].request.plan = p} = {}
    BY <1>4, <1>13 DEF Of
  <1>14. ValidStore(next)
    BY <1>2, <1>8, <1>9, <1>10, <1>11, <1>12, <1>13 DEF ValidStore
  <1> QED  BY <1>14 DEF next, out

\* So it is sound, and has the request's receipt beside those there were.
LEMMA NextSound ==
  ASSUME NEW store, Sound(store), NEW q, WellFormed(q), NEW id \in Int,
         Outcome(store, q) # NoPlan, HasRoom(store, q), ~Replay(store, id)
  PROVE  /\ Sound(NextStore(store, id, q, Outcome(store, q)))
         /\ \A r : Replay(NextStore(store, id, q, Outcome(store, q)), r)
                     <=> Replay(store, r) \/ r = id
PROOF
  <1> DEFINE out == Outcome(store, q)
             o == [id |-> id, request |-> q, plan |-> out]
             next == NextStore(store, id, q, out)
             n == Len(store.ops)
  <1>1. next.ops = Append(store.ops, o) /\ store.ops \in Seq(OpSet) /\ o.id = id /\ next \in StoreSet
    BY NextFits
  <1>2. Sound(next)
    BY <1>1, NextValid, NextSnapshots, NextApproved DEF Sound
  <1> HIDE DEF out, o, next
  <1>3. /\ n \in Nat /\ 1..Len(next.ops) = 1..n \cup {n + 1}
        /\ next.ops[n + 1] = o /\ \A j \in 1..n : next.ops[j] = store.ops[j]
    BY <1>1, OneMore
  <1>4. \A r : Replay(next, r) <=> Replay(store, r) \/ r = id
    BY <1>1, <1>3 DEF Replay
  <1> QED  BY <1>2, <1>4 DEF next, out

--------------------------------------------------------------------------------
(* The steps.                                                                   *)

Answers == {"none", "ok", "refused", "failed"}

\* A store that has nothing is sound, and so is any the server may be started from.
LEMMA EmptyIsSound == Sound(EmptyStore)
PROOF
  <1> DEFINE e == EmptyStore
  <1>1. e.plans = [p \in Plans |-> NoPlan] /\ e.ops = <<>> /\ Len(e.ops) = 0
    BY DEF EmptyStore
  <1>2. e \in StoreSet
    BY <1>1 DEF EmptyStore, StoreSet
  <1>3. \A p \in Plans : ~Exists(e, p)
    BY <1>1 DEF Exists
  <1>4. PlanCount(e) = 0
    <2>1. {p \in Plans : Exists(e, p)} = {}
      BY <1>3
    <2> QED  BY <2>1, FS_EmptySet DEF PlanCount
  <1>5. 1..Len(e.ops) = {}
    BY <1>1
  <1> HIDE DEF e
  <1>6. ValidStore(e)
    BY <1>1, <1>3, <1>4, <1>5, BoundsAssumption DEF ValidStore
  <1>7. Sound(e)
    BY <1>2, <1>3, <1>5, <1>6 DEF Sound, Latest
  <1> QED  BY <1>7 DEF e

LEMMA StartInv ==
  ASSUME NEW store, Sound(store), StartFrom(store)
  PROVE  Inv
PROOF
  <1>1. /\ disk = store /\ mem = Unloaded /\ poisoned = FALSE /\ writing = NotWriting
        /\ asked = <<>> /\ reply = <<>>
    BY DEF StartFrom
  <1>2. DOMAIN asked = {} /\ Len(reply) = 0 /\ Len(asked) = 0
    BY <1>1
  <1>3. Known
    <2>1. \A S : <<>> \in Seq(S)
      OBVIOUS
    <2> QED  BY <1>1, <1>2, <2>1 DEF Known
  <1> QED  BY <1>1, <1>2, <1>3 DEF Inv, Writing, AnswersAgree

\* The answers of others stay.
LEMMA Answered ==
  ASSUME Inv, NEW id \in DOMAIN asked, NEW what \in Answers, Answer(id, what),
         UNCHANGED asked
  PROVE  /\ reply' \in Seq(Answers) /\ Len(reply') = Len(asked')
         /\ reply'[id] = what /\ \A r \in DOMAIN asked : r # id => reply'[r] = reply[r]
PROOF
  <1>1. reply \in Seq(Answers) /\ Len(reply) = Len(asked) /\ asked \in Seq({q \in RequestSet : WellFormed(q)})
    BY DEF Inv, Known, Answers
  <1>2. id \in 1..Len(reply) /\ DOMAIN asked = DOMAIN reply
    BY <1>1
  <1>3. reply' = [reply EXCEPT ![id] = what]
    BY DEF Answer
  <1>4. reply' \in Seq(Answers) /\ Len(reply') = Len(reply)
    BY <1>1, <1>2, <1>3, ExceptSeq
  <1> QED  BY <1>1, <1>2, <1>3, <1>4

LEMMA AskKeeps ==
  ASSUME Inv, NEW p \in Plans, Ask(p)
  PROVE  Inv'
PROOF
  <1>1. PICK r \in Requests :
          LET q == [action |-> r.action, plan |-> p, to |-> r.to, def |-> r.def,
                    confirmed |-> r.confirmed, aborted |-> r.aborted, facts |-> r.facts,
                    storeRevision |-> Len(disk.ops), planRevision |-> disk.plans[p].revision]
          IN asked' = Append(asked, q)
    BY DEF Ask
  <1> DEFINE q == [action |-> r.action, plan |-> p, to |-> r.to, def |-> r.def,
                   confirmed |-> r.confirmed, aborted |-> r.aborted, facts |-> r.facts,
                   storeRevision |-> Len(disk.ops), planRevision |-> disk.plans[p].revision]
             R == {x \in RequestSet : WellFormed(x)}
  <1>2. q \in R
    <2>1. Len(disk.ops) \in Nat /\ disk.plans[p].revision \in Nat
      <3>1. disk.ops \in Seq(OpSet) /\ disk.plans[p] \in PlanSet \cup {NoPlan}
        BY DEF Inv, Sound, StoreSet
      <3> QED  BY <3>1 DEF PlanSet, NoPlan
    <2>2. /\ r.action \in {"create", "update", "transition"} /\ r.to \in Phases
          /\ r.def \in Definitions \cup {Unapproved} /\ r.confirmed \in BOOLEAN
          /\ r.aborted \in BOOLEAN /\ r.facts \in BOOLEAN
          /\ r.action = "create" => r.to \in {"draft", "planning"}
          /\ r.action # "transition" => r.def \in Definitions
      BY DEF Requests, Phases
    <2>3. q \in RequestSet
      BY <2>1, <2>2 DEF RequestSet
    <2>4. q.action = r.action /\ q.to = r.to /\ q.def = r.def
      OBVIOUS
    <2> HIDE DEF q
    <2> QED  BY <2>2, <2>3, <2>4 DEF WellFormed
  <1>3. /\ asked' = Append(asked, q) /\ reply' = Append(reply, "none")
        /\ UNCHANGED <<disk, mem, poisoned, writing>>
    BY <1>1 DEF Ask
  <1>4. /\ asked \in Seq(R) /\ reply \in Seq(Answers) /\ Len(reply) = Len(asked)
        /\ "none" \in Answers
    BY DEF Inv, Known, Answers
  <1> HIDE DEF q, R
  <1>5. asked' \in Seq(R) /\ reply' \in Seq(Answers) /\ Len(reply') = Len(asked')
    BY <1>2, <1>3, <1>4
  <1>6. /\ DOMAIN asked' = DOMAIN asked \cup {Len(asked) + 1}
        /\ reply'[Len(asked) + 1] = "none" /\ \A id \in DOMAIN asked : reply'[id] = reply[id]
    BY <1>2, <1>3, <1>4
  <1>7. Known'
    BY <1>3, <1>5 DEF Inv, Known, Answers, R
  <1>8. Writing'
    <2>1. Writing
      BY DEF Inv
    <2> QED  BY <1>3, <1>6, <2>1 DEF Writing
  <1>9. AnswersAgree'
    BY <1>3, <1>6 DEF Inv, AnswersAgree
  <1> QED  BY <1>3, <1>7, <1>8, <1>9 DEF Inv

LEMMA HandleKeeps ==
  ASSUME Inv, NEW id, Handle(id)
  PROVE  Inv'
PROOF
  <1> DEFINE q == asked[id]
             out == Outcome(mem, q)
  <1>1. /\ id \in DOMAIN asked /\ reply[id] \in {"none", "failed"}
        /\ writing = NotWriting /\ mem # Unloaded /\ UNCHANGED <<disk, mem, poisoned, asked, faults>>
    BY DEF Handle
  <1>2. mem = disk /\ Sound(disk) /\ Known /\ AnswersAgree
    <2>1. NotWriting.stage = "none"
      BY DEF NotWriting
    <2> QED  BY <1>1, <2>1 DEF Inv, Writing
  <1>3. id \in Nat /\ id # 0 /\ WellFormed(q)
    <2>1. asked \in Seq({x \in RequestSet : WellFormed(x)})
      BY <1>2 DEF Known
    <2>2. asked[id] \in {x \in RequestSet : WellFormed(x)} /\ id \in 1..Len(asked) /\ Len(asked) \in Nat
      BY <1>1, <2>1
    <2> QED  BY <2>2
  <1>4. \/ Replay(mem, id) /\ Answer(id, "ok") /\ UNCHANGED writing
        \/ ~Replay(mem, id) /\ Answer(id, "refused") /\ UNCHANGED writing
        \/ /\ ~Replay(mem, id) /\ Accepts(mem, id, q) /\ UNCHANGED reply
           /\ writing' = [id |-> id, stage |-> "begun", next |-> NextStore(mem, id, q, out)]
    BY DEF Handle
  <1> HIDE DEF q, out
  <1>5. ASSUME NEW what \in {"ok", "refused"}, Answer(id, what), UNCHANGED writing,
               what = "ok" => Replay(mem, id), what = "refused" => ~Replay(mem, id)
        PROVE  Inv'
    <2>1. /\ reply' \in Seq(Answers) /\ Len(reply') = Len(asked')
          /\ reply'[id] = what /\ \A r \in DOMAIN asked : r # id => reply'[r] = reply[r]
      <3>1. what \in Answers
        BY DEF Answers
      <3> QED  BY <1>1, <1>5, <3>1, Answered
    <2>2. Known'
      BY <1>1, <1>2, <2>1 DEF Known, Answers
    <2>3. AnswersAgree'
      BY <1>1, <1>2, <1>5, <2>1 DEF AnswersAgree, Replay
    <2>4. Writing'
      BY <1>1, <1>2, <1>5 DEF Writing
    <2> QED  BY <1>1, <1>2, <2>2, <2>3, <2>4 DEF Inv
  <1>6. CASE /\ ~Replay(mem, id) /\ Accepts(mem, id, q) /\ UNCHANGED reply
             /\ writing' = [id |-> id, stage |-> "begun", next |-> NextStore(mem, id, q, out)]
    <2>1. HasRoom(mem, q) /\ Outcome(mem, q) # NoPlan
      BY <1>6 DEF Accepts
    <2>2. /\ Sound(NextStore(mem, id, q, out))
          /\ \A r : Replay(NextStore(mem, id, q, out), r) <=> Replay(mem, r) \/ r = id
      BY <1>2, <1>3, <1>6, <2>1, NextSound DEF out
    <2>3. /\ writing'.id = id /\ writing'.stage = "begun" /\ writing'.next = NextStore(mem, id, q, out)
          /\ writing' = [id |-> writing'.id, stage |-> writing'.stage, next |-> writing'.next]
      BY <1>6
    <2>4. Writing'
      BY <1>1, <1>2, <1>6, <2>2, <2>3 DEF Writing
    <2>5. Known' /\ AnswersAgree'
      BY <1>1, <1>2, <1>6 DEF Known, AnswersAgree
    <2> QED  BY <1>1, <1>2, <2>4, <2>5 DEF Inv
  <1> QED  BY <1>4, <1>5, <1>6

\* What is known of the mutation while it is persisted.
LEMMA InWriting ==
  ASSUME Inv, writing.stage # "none"
  PROVE  /\ writing = [id |-> writing.id, stage |-> writing.stage, next |-> writing.next]
         /\ writing.id \in DOMAIN asked /\ reply[writing.id] \in {"none", "failed"}
         /\ Sound(writing.next) /\ mem # Unloaded /\ ~poisoned
         /\ writing.stage = "begun" =>
              mem = disk /\ \A id : Replay(writing.next, id) <=> Replay(disk, id) \/ id = writing.id
         /\ writing.stage = "replaced" => disk = writing.next /\ Replay(disk, writing.id)
  BY DEF Inv, Writing, NotWriting, Known

\* The end of a mutation: its answer is true of the file, and memory is the file.
LEMMA EndKeeps ==
  ASSUME Inv, writing.stage # "none", NEW what \in {"ok", "failed"}, Answer(writing.id, what),
         what = "ok" => Replay(disk, writing.id), writing' = NotWriting,
         UNCHANGED <<disk, asked>>, mem' \in {disk, Unloaded},
         poisoned' \in BOOLEAN, poisoned' => mem' = Unloaded
  PROVE  Inv'
PROOF
  <1>1. writing.id \in DOMAIN asked /\ Known /\ AnswersAgree /\ Sound(disk)
    BY InWriting DEF Inv
  <1>2. /\ reply' \in Seq(Answers) /\ Len(reply') = Len(asked') /\ reply'[writing.id] = what
        /\ \A r \in DOMAIN asked : r # writing.id => reply'[r] = reply[r]
    <2>1. what \in Answers
      BY DEF Answers
    <2> QED  BY <1>1, <2>1, Answered
  <1>3. Known'
    BY <1>1, <1>2 DEF Known, Answers
  <1>4. AnswersAgree'
    BY <1>1, <1>2 DEF AnswersAgree
  <1>5. Writing'
    BY DEF Writing
  <1> QED  BY <1>1, <1>3, <1>4, <1>5 DEF Inv

LEMMA ReplaceKeeps ==
  ASSUME Inv, Replace
  PROVE  Inv'
PROOF
  <1>1. /\ writing.stage = "begun" /\ disk' = writing.next
        /\ writing' = [writing EXCEPT !.stage = "replaced"]
        /\ UNCHANGED <<mem, poisoned, asked, reply>>
    BY DEF Replace
  <1>2. /\ writing = [id |-> writing.id, stage |-> writing.stage, next |-> writing.next]
        /\ writing.id \in DOMAIN asked /\ reply[writing.id] \in {"none", "failed"}
        /\ Sound(writing.next) /\ mem # Unloaded
        /\ \A id : Replay(writing.next, id) <=> Replay(disk, id) \/ id = writing.id
    BY <1>1, InWriting
  <1>3. writing' = [id |-> writing.id, stage |-> "replaced", next |-> writing.next]
    BY <1>1, <1>2
  <1>4. Writing'
    BY <1>1, <1>2, <1>3 DEF Writing
  <1>5. AnswersAgree'
    <2>1. \A id : Replay(disk', id) <=> Replay(disk, id) \/ id = writing.id
      BY <1>1, <1>2
    <2>2. \A id \in DOMAIN asked :
            (reply[id] = "ok" => Replay(disk, id)) /\ (reply[id] = "refused" => ~Replay(disk, id))
      BY DEF Inv, AnswersAgree, Replay
    <2>3. \A id \in DOMAIN asked :
            (reply[id] = "ok" => Replay(disk', id)) /\ (reply[id] = "refused" => ~Replay(disk', id))
      BY <1>2, <2>1, <2>2
    <2> QED  BY <1>1, <2>3 DEF AnswersAgree, Replay
  <1> QED  BY <1>1, <1>2, <1>4, <1>5 DEF Inv, Known

LEMMA NextKeeps ==
  ASSUME Inv, Next
  PROVE  Inv'
PROOF
  <1>1. ASSUME Load
        PROVE  Inv'
    <2>1. /\ mem = Unloaded /\ ~poisoned /\ mem' = disk
          /\ UNCHANGED <<disk, poisoned, writing, asked, reply>>
      BY <1>1 DEF Load
    <2>2. writing = NotWriting
      BY <2>1 DEF Inv, Writing
    <2> QED  BY <2>1, <2>2 DEF Inv, Known, Writing, AnswersAgree
  <1>2. ASSUME Persisted
        PROVE  Inv'
    <2>1. /\ writing.stage = "replaced" /\ mem' = writing.next /\ Answer(writing.id, "ok")
          /\ writing' = NotWriting /\ UNCHANGED <<disk, poisoned, asked>>
      BY <1>2 DEF Persisted
    <2>2. disk = writing.next /\ Replay(disk, writing.id) /\ ~poisoned
      BY <2>1, InWriting
    <2>3. /\ writing.stage # "none" /\ mem' \in {disk, Unloaded} /\ poisoned' \in BOOLEAN
          /\ poisoned' => mem' = Unloaded
      BY <2>1, <2>2 DEF Inv, Known
    <2> QED  BY <2>1, <2>2, <2>3, EndKeeps
  <1>3. ASSUME WriteFails
        PROVE  Inv'
    <2>1. /\ writing.stage = "begun" /\ Answer(writing.id, "failed")
          /\ writing' = NotWriting /\ UNCHANGED <<disk, mem, poisoned, asked>>
      BY <1>3 DEF WriteFails
    <2>2. mem = disk /\ ~poisoned
      BY <2>1, InWriting
    <2>3. /\ writing.stage # "none" /\ mem' \in {disk, Unloaded} /\ poisoned' \in BOOLEAN
          /\ poisoned' => mem' = Unloaded
      BY <2>1, <2>2 DEF Inv, Known
    <2> QED  BY <2>1, <2>2, <2>3, EndKeeps
  <1>4. ASSUME CommittedWriteFails
        PROVE  Inv'
    <2>1. /\ writing.stage = "replaced" /\ Answer(writing.id, "failed")
          /\ writing' = NotWriting /\ UNCHANGED <<disk, asked>>
          /\ \/ mem' = disk /\ UNCHANGED poisoned
             \/ mem' = Unloaded /\ poisoned' = TRUE
      BY <1>4 DEF CommittedWriteFails
    <2>2. poisoned = FALSE
      BY <2>1, InWriting DEF Inv, Known
    <2>3. /\ writing.stage # "none" /\ mem' \in {disk, Unloaded} /\ poisoned' \in BOOLEAN
          /\ poisoned' => mem' = Unloaded
      <3>1. \/ mem' = disk /\ poisoned' = FALSE
            \/ mem' = Unloaded /\ poisoned' = TRUE
        BY <2>1, <2>2
      <3> QED  BY <2>1, <3>1
    <2> QED  BY <2>1, <2>2, <2>3, EndKeeps
  <1>5. ASSUME Crash
        PROVE  Inv'
    <2>1. /\ mem' = Unloaded /\ poisoned' = FALSE /\ writing' = NotWriting
          /\ UNCHANGED <<disk, asked, reply>>
      BY <1>5 DEF Crash
    <2> QED  BY <2>1 DEF Inv, Known, Writing, AnswersAgree
  <1> QED  BY <1>1, <1>2, <1>3, <1>4, <1>5, AskKeeps, HandleKeeps, ReplaceKeeps DEF Next

\* What the run checks follows from the invariant.
LEMMA InvIsSafe ==
  ASSUME Inv
  PROVE  PlansSafe
PROOF
  <1>1. TypeOK
    <2>1. writing.stage \in {"none", "begun", "replaced"}
      BY DEF Inv, Writing, NotWriting
    <2>2. ToSet(reply) \subseteq {"none", "ok", "refused", "failed"}
      BY DEF Inv, Known, ToSet
    <2> QED  BY <2>1, <2>2 DEF Inv, Known, TypeOK
  <1>2. StoreValid
    BY DEF Inv, Writing, Sound, StoreValid, NotWriting
  <1>3. ASSUME mem # Unloaded, writing = NotWriting, NEW id \in DOMAIN asked,
               ~Replay(mem, id), HasRoom(mem, asked[id]), Outcome(mem, asked[id]) # NoPlan
        PROVE  ValidStore(NextStore(mem, id, asked[id], Outcome(mem, asked[id])))
    <2>1. mem = disk /\ Sound(mem)
      BY <1>3 DEF Inv, Writing, NotWriting
    <2>2. asked \in Seq({x \in RequestSet : WellFormed(x)})
      BY DEF Inv, Known
    <2>3. asked[id] \in {x \in RequestSet : WellFormed(x)} /\ id \in Int
      BY <1>3, <2>2
    <2> QED  BY <1>3, <2>1, <2>3, NextValid
  <1>4. DomainMakesValid
    BY <1>3 DEF DomainMakesValid
  <1>5. RunsWhatWasApproved
    BY DEF Inv, Sound, RunsWhatWasApproved
  <1> QED  BY <1>1, <1>2, <1>4, <1>5 DEF PlansSafe, Inv

--------------------------------------------------------------------------------
(* The theorems.                                                                *)

\* Whatever sound store the server starts from, what the run checks stays true: the runs
\* start from stores with a history.
THEOREM SafeFromAnyStore ==
  ASSUME NEW CONSTANT store, Sound(store)
  PROVE  StartFrom(store) /\ [][Next]_vars => []PlansSafe
PROOF
  <1>1. StartFrom(store) => Inv
    BY StartInv
  <1>2. Inv /\ [Next]_vars => Inv'
    <2>1. ASSUME Inv, UNCHANGED vars
          PROVE  Inv'
      BY <2>1 DEF vars, Inv, Known, Writing, AnswersAgree
    <2> QED  BY <2>1, NextKeeps
  <1>3. Inv => PlansSafe
    BY InvIsSafe
  <1> QED  BY <1>1, <1>2, <1>3, PTL

\* The store of delivery plans starts from its own file, its answers are true of the
\* file, it never throws a change away that the domain made, and a plan is worked on
\* under one approval of the definition it has (delivery-plan-store.js,
\* delivery-plan.js).
THEOREM PlansAreSafe == Spec => []PlansSafe
PROOF
  <1>1. Init => StartFrom(EmptyStore)
    BY DEF Init
  <1>2. StartFrom(EmptyStore) /\ [][Next]_vars => []PlansSafe
    BY SafeFromAnyStore, EmptyIsSound
  <1> QED  BY <1>1, <1>2, PTL DEF Spec

--------------------------------------------------------------------------------
(* The planning runs' store: the theorems of PlanningStore, an instance of which *)
(* the rest of this module is about.                                            *)

CONSTANTS
  Runs, Ops, MaxRuns, MaxOperations, Footprint, MaxBytes, RunSlot, OperationSlot, MaxRequests
VARIABLES
  file, loaded, lost, requests, written, answered, stranded, failures

RunStore == INSTANCE PlanningStore WITH
  disk <- file, mem <- loaded, poisoned <- lost, faults <- failures

\* Runs, receipts and requests of this store.
RunSet == [open : BOOLEAN, size : Nat]
Receipt == [id : Ops, kind : RunStore!Kinds, run : Runs, rev : Nat, size : Nat]
Request == [op : Ops, kind : RunStore!Kinds, run : Runs, rev : Nat]

\* A store of the right shape that its own validator takes.
Kept(s) ==
  /\ s.runs \in [DOMAIN s.runs -> RunSet] /\ DOMAIN s.runs \subseteq Runs
  /\ s.operations \in Seq(Receipt) /\ s.bytes \in Int
  /\ RunStore!Valid(s)

\* The file holds what was answered and written, and the memory, if loaded, is the file.
StoreInv ==
  /\ Kept(file) /\ (loaded = file \/ loaded = RunStore!NotLoaded)
  /\ lost \in BOOLEAN /\ (lost = TRUE => loaded = RunStore!NotLoaded)
  /\ failures \in 0 .. MaxFaults
  /\ requests \subseteq Request
  /\ written \subseteq RunStore!Operations(file)
  /\ answered \subseteq Request
  /\ \A q \in answered : \E o \in RunStore!Operations(file) :
       o.id = q.op /\ o.kind = q.kind /\ o.run = q.run
  /\ stranded = FALSE

--------------------------------------------------------------------------------
\* The instance counts as this module does.
LEMMA StoreCounts == \A S : RunStore!Cardinality(S) = Cardinality(S)
  BY DEF RunStore!Cardinality, Cardinality

\* The receipt that the operation q leaves in s, and the runs.
NewReceipt(s, q, m) ==
  [id |-> q.op, kind |-> q.kind, run |-> q.run, rev |-> Len(s.operations) + 1, size |-> m]
NewRuns(s, q, n) ==
  [r \in DOMAIN s.runs \union {q.run} |->
     IF r = q.run THEN [open |-> q.kind # "close", size |-> n] ELSE s.runs[r]]

OldSize(s, q) == IF q.run \in DOMAIN s.runs THEN s.runs[q.run].size ELSE 0

\* A receipt more.
LEMMA Receipted ==
  ASSUME NEW xs \in Seq(Receipt), NEW o \in Receipt
  PROVE  /\ Append(xs, o) \in Seq(Receipt) /\ Len(Append(xs, o)) = Len(xs) + 1
         /\ Append(xs, o)[Len(xs) + 1] = o
         /\ \A k \in 1 .. Len(xs) : Append(xs, o)[k] = xs[k]
         /\ Len(xs) \in Nat
  OBVIOUS

\* What the next store is made of.
LEMMA NextStoreIs ==
  ASSUME NEW s, Kept(s), NEW q \in Request, NEW n \in Nat, NEW m \in Nat
  PROVE  LET t == RunStore!NextStore(s, q, n, m)
             old == OldSize(s, q)
         IN /\ t.operations = Append(s.operations, NewReceipt(s, q, m))
            /\ t.runs = NewRuns(s, q, n) /\ t.bytes = s.bytes + n + m - old
            /\ t.loaded = TRUE
            /\ NewReceipt(s, q, m) \in Receipt /\ old \in Nat
            /\ DOMAIN t.runs \subseteq Runs /\ t.runs \in [DOMAIN t.runs -> RunSet]
            /\ t.operations \in Seq(Receipt) /\ t.bytes \in Int
  <1> DEFINE t == RunStore!NextStore(s, q, n, m)
             old == OldSize(s, q)
  <1>1. /\ t.operations = Append(s.operations, NewReceipt(s, q, m))
        /\ t.runs = NewRuns(s, q, n) /\ t.bytes = s.bytes + n + m - old /\ t.loaded = TRUE
    BY DEF RunStore!NextStore, RunStore!Store, RunStore!Revision, NewReceipt, NewRuns, OldSize
  <1>2. old \in Nat  BY DEF Kept, RunSet, OldSize
  <1>3. Len(s.operations) \in Nat /\ NewReceipt(s, q, m) \in Receipt
    BY DEF Kept, Request, Receipt, NewReceipt
  <1>4. t.operations \in Seq(Receipt)  BY <1>1, <1>3 DEF Kept
  <1>5. t.bytes \in Int
    <2> HIDE DEF old, t
    <2> QED  BY <1>1, <1>2 DEF Kept
  <1>6. NewRuns(s, q, n) \in [DOMAIN s.runs \union {q.run} -> RunSet]
    BY DEF NewRuns, RunSet, Kept
  <1>7. q.run \in Runs  BY DEF Request
  <1> HIDE DEF t, old
  <1>8. DOMAIN t.runs \subseteq Runs /\ t.runs \in [DOMAIN t.runs -> RunSet]
    BY <1>1, <1>6, <1>7 DEF Kept
  <1> QED  BY <1>1, <1>2, <1>3, <1>4, <1>5, <1>8 DEF t, old

\* A store that the validator takes stays one.
LEMMA NextStoreKept ==
  ASSUME NEW s, Kept(s), NEW q \in Request, NEW n \in Nat, NEW m \in Nat,
         RunStore!Valid(RunStore!NextStore(s, q, n, m))
  PROVE  Kept(RunStore!NextStore(s, q, n, m))
  BY NextStoreIs DEF Kept

\* The receipts of a run, counted.
ReceiptsOf(xs, r) == {k \in 1 .. Len(xs) : xs[k].run = r}

LEMMA ReceiptsCount ==
  ASSUME NEW xs \in Seq(Receipt), NEW o \in Receipt, NEW r
  PROVE  LET ys == Append(xs, o)
             A == ReceiptsOf(xs, r)
             B == ReceiptsOf(ys, r)
         IN /\ Cardinality(A) \in Nat /\ IsFiniteSet(A)
            /\ o.run = r => Cardinality(B) = Cardinality(A) + 1
            /\ o.run # r => Cardinality(B) = Cardinality(A)
  <1> DEFINE ys == Append(xs, o)
             A == ReceiptsOf(xs, r)
             B == ReceiptsOf(ys, r)
  <1>1. /\ Len(ys) = Len(xs) + 1 /\ ys[Len(xs) + 1] = o /\ Len(xs) \in Nat
        /\ \A k \in 1 .. Len(xs) : ys[k] = xs[k]
    BY Receipted
  <1> HIDE DEF ys
  <1>2. IsFiniteSet(A) /\ Cardinality(A) \in Nat
    <2>1. IsFiniteSet(1 .. Len(xs)) /\ A \in SUBSET (1 .. Len(xs))  BY <1>1, FS_Interval DEF ReceiptsOf
    <2> QED  BY <2>1, FS_Subset, FS_CardinalityType
  <1>3. ASSUME o.run = r  PROVE Cardinality(B) = Cardinality(A) + 1
    <2>1. B = A \union {Len(xs) + 1}  BY <1>1, <1>3 DEF ReceiptsOf
    <2>2. Len(xs) + 1 \notin A  BY <1>1 DEF ReceiptsOf
    <2> HIDE DEF A, B
    <2> QED  BY <1>2, <2>1, <2>2, FS_AddElement
  <1>4. ASSUME o.run # r  PROVE B = A
    BY <1>1, <1>4 DEF ReceiptsOf
  <1> HIDE DEF A, B
  <1>5. o.run # r => Cardinality(B) = Cardinality(A)  BY <1>4
  <1>6. /\ Cardinality(A) \in Nat /\ IsFiniteSet(A)
        /\ o.run = r => Cardinality(B) = Cardinality(A) + 1
        /\ o.run # r => Cardinality(B) = Cardinality(A)
    BY <1>2, <1>3, <1>5
  <1> QED  BY <1>6 DEF ys, A, B

\* The store's count of a run's receipts, before and after.
LEMMA OperationsCounted ==
  ASSUME NEW s, Kept(s), NEW q \in Request, NEW n \in Nat, NEW m \in Nat, NEW r
  PROVE  LET t == RunStore!NextStore(s, q, n, m)
         IN /\ RunStore!OperationsForRun(s, r) \in Nat
            /\ q.run = r => RunStore!OperationsForRun(t, r) = RunStore!OperationsForRun(s, r) + 1
            /\ q.run # r => RunStore!OperationsForRun(t, r) = RunStore!OperationsForRun(s, r)
  <1> DEFINE t == RunStore!NextStore(s, q, n, m)
             o == NewReceipt(s, q, m)
             xs == s.operations
             A == ReceiptsOf(xs, r)
             ys == Append(xs, o)
             B == ReceiptsOf(ys, r)
  <1>0. t.operations = ys /\ o \in Receipt  BY NextStoreIs
  <1>1. xs \in Seq(Receipt) /\ o \in Receipt /\ o.run = q.run
    BY <1>0 DEF Kept, NewReceipt
  <1>2. RunStore!OperationsForRun(s, r) = Cardinality(A)
    BY StoreCounts DEF RunStore!OperationsForRun, ReceiptsOf
  <1>3. RunStore!OperationsForRun(t, r) = Cardinality(B)
    <2>1. RunStore!OperationsForRun(t, r)
            = Cardinality(ReceiptsOf(t.operations, r))
      BY StoreCounts DEF RunStore!OperationsForRun, ReceiptsOf
    <2> HIDE DEF t, o
    <2> QED  BY <1>0, <2>1
  <1> HIDE DEF t, o
  <1>4. /\ Cardinality(A) \in Nat
        /\ o.run = r => Cardinality(B) = Cardinality(A) + 1
        /\ o.run # r => Cardinality(B) = Cardinality(A)
    <2> HIDE DEF xs
    <2>1. xs \in Seq(Receipt) /\ o \in Receipt  BY <1>1
    <2> QED  BY <2>1, ReceiptsCount
  <1> HIDE DEF A, B
  <1>5. /\ RunStore!OperationsForRun(s, r) \in Nat
        /\ q.run = r => RunStore!OperationsForRun(t, r) = RunStore!OperationsForRun(s, r) + 1
        /\ q.run # r => RunStore!OperationsForRun(t, r) = RunStore!OperationsForRun(s, r)
    BY <1>1, <1>2, <1>3, <1>4
  <1> QED  BY <1>5 DEF t

\* An operation of the open run that its reservation still covers.
Covered(s, q, n, m) ==
  /\ Kept(s) /\ q \in Request /\ q.kind # "create" /\ q.run \in RunStore!OpenRuns(s)
  /\ RunStore!Earlier(s, q) = {}
  /\ RunStore!OperationsForRun(s, q.run) < Footprint
  /\ n \in Nat /\ m \in Nat /\ n <= RunSlot /\ m <= OperationSlot

\* What is known of the stores s before and t after it.
Followed(s, t, q, n, m) ==
  /\ t.operations \in Seq(Receipt) /\ s.operations \in Seq(Receipt)
  /\ Len(s.operations) \in Nat
  /\ Len(t.operations) = Len(s.operations) + 1
  /\ t.operations[Len(s.operations) + 1] = NewReceipt(s, q, m)
  /\ \A k \in 1 .. Len(s.operations) : t.operations[k] = s.operations[k]
  /\ DOMAIN t.runs = DOMAIN s.runs /\ q.run \in DOMAIN s.runs
  /\ t.runs[q.run] = [open |-> q.kind # "close", size |-> n]
  /\ \A r \in DOMAIN s.runs : r # q.run => t.runs[r] = s.runs[r]
  /\ t.bytes = s.bytes + n + m - s.runs[q.run].size

\* They are those stores.
LEMMA CoveredNext ==
  ASSUME NEW s, NEW q, NEW n, NEW m, Covered(s, q, n, m)
  PROVE  Followed(s, RunStore!NextStore(s, q, n, m), q, n, m)
  <1> DEFINE t == RunStore!NextStore(s, q, n, m)
             o == NewReceipt(s, q, m)
  <1>0. Kept(s) /\ q \in Request /\ n \in Nat /\ m \in Nat  BY DEF Covered
  <1>1. q.run \in DOMAIN s.runs  BY DEF Covered, RunStore!OpenRuns
  <1>2. /\ t.operations = Append(s.operations, o) /\ t.runs = NewRuns(s, q, n)
        /\ o \in Receipt /\ t.operations \in Seq(Receipt)
        /\ t.bytes = s.bytes + n + m - s.runs[q.run].size
    <2>1. /\ t.operations = Append(s.operations, o) /\ t.runs = NewRuns(s, q, n)
          /\ o \in Receipt /\ t.operations \in Seq(Receipt)
      BY <1>0, NextStoreIs
    <2>2. t.bytes = s.bytes + n + m - OldSize(s, q)  BY <1>0, NextStoreIs
    <2>3. OldSize(s, q) = s.runs[q.run].size  BY <1>1 DEF OldSize
    <2> HIDE DEF t
    <2> QED  BY <2>1, <2>2, <2>3
  <1>3. s.operations \in Seq(Receipt)  BY <1>0 DEF Kept
  <1>4. NewRuns(s, q, n) = [r \in DOMAIN s.runs |->
          IF r = q.run THEN [open |-> q.kind # "close", size |-> n] ELSE s.runs[r]]
    BY <1>1 DEF NewRuns
  <1> HIDE DEF t, o
  <1>5. /\ Len(t.operations) = Len(s.operations) + 1 /\ Len(s.operations) \in Nat
        /\ t.operations[Len(s.operations) + 1] = o
        /\ \A k \in 1 .. Len(s.operations) : t.operations[k] = s.operations[k]
    BY <1>2, <1>3, Receipted
  <1>6. /\ DOMAIN t.runs = DOMAIN s.runs
        /\ t.runs[q.run] = [open |-> q.kind # "close", size |-> n]
        /\ \A r \in DOMAIN s.runs : r # q.run => t.runs[r] = s.runs[r]
    BY <1>1, <1>2, <1>4
  <1>7. Followed(s, t, q, n, m)  BY <1>1, <1>2, <1>3, <1>5, <1>6 DEF Followed, o
  <1> QED  BY <1>7 DEF t

\* The receipts before it of the same run: there is one, and none closed the run.
LEMMA CoveredEarlier ==
  ASSUME NEW s, NEW q, NEW n, NEW m, Covered(s, q, n, m)
  PROVE  /\ \E w \in 1 .. Len(s.operations) : s.operations[w].run = q.run
         /\ \A j \in 1 .. Len(s.operations) :
              s.operations[j].run = q.run => s.operations[j].kind # "close"
         /\ \A j \in 1 .. Len(s.operations) : s.operations[j].id # q.op
  <1>1. /\ q.run \in DOMAIN s.runs /\ s.runs[q.run].open = TRUE
        /\ RunStore!Valid(s) /\ s.operations \in Seq(Receipt) /\ Len(s.operations) \in Nat
    <2>1. q.run \in DOMAIN s.runs /\ s.runs[q.run].open  BY DEF Covered, RunStore!OpenRuns
    <2>2. s.runs[q.run] \in RunSet  BY <2>1 DEF Covered, Kept
    <2>3. s.operations \in Seq(Receipt) /\ RunStore!Valid(s)  BY DEF Covered, Kept
    <2> QED  BY <2>1, <2>2, <2>3 DEF RunSet
  <1>2. RunStore!RunValid(s, q.run)  BY <1>1 DEF RunStore!Valid
  <1>3. PICK w \in 1 .. Len(s.operations) :
          /\ s.operations[w].run = q.run
          /\ \A j \in w + 1 .. Len(s.operations) : s.operations[j].run # q.run
          /\ s.runs[q.run].open = (s.operations[w].kind # "close")
    BY <1>2 DEF RunStore!RunValid
  <1>4. s.operations[w].kind # "close"  BY <1>1, <1>3
  <1>5. RunStore!OperationValid(s, w)  BY <1>1, <1>3 DEF RunStore!Valid
  <1>6. \A j \in 1 .. w - 1 :
          s.operations[j].run = s.operations[w].run => s.operations[j].kind # "close"
    BY <1>5 DEF RunStore!OperationValid
  <1>7. ASSUME NEW j \in 1 .. Len(s.operations), s.operations[j].run = q.run
        PROVE  s.operations[j].kind # "close"
    <2>1. ~(j \in w + 1 .. Len(s.operations))  BY <1>3, <1>7
    <2>2. j = w \/ j \in 1 .. w - 1  BY <1>1, <2>1
    <2>3. CASE j = w  BY <2>3, <1>4
    <2>4. CASE j \in 1 .. w - 1  BY <2>4, <1>3, <1>6, <1>7
    <2> QED  BY <2>2, <2>3, <2>4
  <1>8. ASSUME NEW j \in 1 .. Len(s.operations)  PROVE s.operations[j].id # q.op
    <2>1. s.operations[j] \in RunStore!Operations(s)  BY DEF RunStore!Operations
    <2> QED  BY <2>1 DEF Covered, RunStore!Earlier
  <1> QED  BY <1>3, <1>7, <1>8

\* Every receipt stays valid, and so is the new one.
LEMMA CoveredOperations ==
  ASSUME NEW s, NEW q, NEW n, NEW m, Covered(s, q, n, m)
  PROVE  LET t == RunStore!NextStore(s, q, n, m)
         IN \A k \in 1 .. Len(t.operations) : RunStore!OperationValid(t, k)
  <1> DEFINE t == RunStore!NextStore(s, q, n, m)
             o == NewReceipt(s, q, m)
             L == Len(s.operations)
  <1>1. /\ Len(t.operations) = L + 1 /\ L \in Nat /\ t.operations[L + 1] = o
        /\ \A k \in 1 .. L : t.operations[k] = s.operations[k]
        /\ DOMAIN t.runs = DOMAIN s.runs /\ q.run \in DOMAIN s.runs
    <2>1. Followed(s, t, q, n, m)  BY CoveredNext
    <2> HIDE DEF t
    <2> QED  BY <2>1 DEF Followed
  <1>2. RunStore!Valid(s)  BY DEF Covered, Kept
  <1>3. o.id = q.op /\ o.kind = q.kind /\ o.run = q.run /\ o.rev = L + 1 /\ o.size = m
    BY DEF NewReceipt
  <1>4. /\ \E w \in 1 .. L : s.operations[w].run = q.run
        /\ \A j \in 1 .. L : s.operations[j].run = q.run => s.operations[j].kind # "close"
        /\ \A j \in 1 .. L : s.operations[j].id # q.op
    BY CoveredEarlier
  <1>5. m <= OperationSlot /\ q.kind # "create"  BY DEF Covered
  <1>6. \A k \in 1 .. L : RunStore!OperationValid(s, k)  BY <1>2 DEF RunStore!Valid
  <1> HIDE DEF t, o, L
  <1>7. ASSUME NEW k \in 1 .. L  PROVE RunStore!OperationValid(t, k)
    <2>1. t.operations[k] = s.operations[k] /\ RunStore!OperationValid(s, k)  BY <1>1, <1>6
    <2>2. \A j \in 1 .. k - 1 : t.operations[j] = s.operations[j]
      <3>1. \A j \in 1 .. k - 1 : j \in 1 .. L  BY <1>1
      <3> QED  BY <3>1, <1>1
    <2>3. {j \in 1 .. k - 1 : t.operations[j].run = t.operations[k].run}
            = {j \in 1 .. k - 1 : s.operations[j].run = s.operations[k].run}
      BY <2>1, <2>2
    <2> QED  BY <1>1, <2>1, <2>2, <2>3 DEF RunStore!OperationValid
  <1>8. RunStore!OperationValid(t, L + 1)
    <2>1. \A j \in 1 .. (L + 1) - 1 : j \in 1 .. L /\ t.operations[j] = s.operations[j]
      BY <1>1
    <2> DEFINE earlier == {j \in 1 .. (L + 1) - 1 : t.operations[j].run = o.run}
    <2>2. earlier # {}
      <3>1. PICK w \in 1 .. L : s.operations[w].run = q.run  BY <1>4
      <3>2. w \in 1 .. (L + 1) - 1  BY <1>1
      <3> QED  BY <2>1, <3>1, <3>2, <1>3
    <2>3. \A j \in earlier : t.operations[j].kind # "close"  BY <2>1, <1>3, <1>4
    <2>4. \A j \in 1 .. (L + 1) - 1 : t.operations[j].id # o.id  BY <2>1, <1>3, <1>4
    <2>5. o.rev = L + 1 /\ o.run \in DOMAIN t.runs /\ o.size <= OperationSlot
          /\ o.kind # "create"
      BY <1>1, <1>3, <1>5
    <2> QED  BY <1>1, <2>2, <2>3, <2>4, <2>5 DEF RunStore!OperationValid
  <1>9. \A k \in 1 .. Len(t.operations) : RunStore!OperationValid(t, k)
    <2>1. \A k \in 1 .. L + 1 : k \in 1 .. L \/ k = L + 1  BY <1>1
    <2> QED  BY <1>1, <1>7, <1>8, <2>1
  <1> QED  BY <1>9 DEF t

\* So is every run.
LEMMA CoveredRuns ==
  ASSUME NEW s, NEW q, NEW n, NEW m, Covered(s, q, n, m)
  PROVE  LET t == RunStore!NextStore(s, q, n, m)
         IN \A r \in DOMAIN t.runs : RunStore!RunValid(t, r)
  <1> DEFINE t == RunStore!NextStore(s, q, n, m)
             o == NewReceipt(s, q, m)
             L == Len(s.operations)
  <1>1. /\ Len(t.operations) = L + 1 /\ L \in Nat /\ t.operations[L + 1] = o
        /\ \A k \in 1 .. L : t.operations[k] = s.operations[k]
        /\ DOMAIN t.runs = DOMAIN s.runs /\ q.run \in DOMAIN s.runs
        /\ t.runs[q.run] = [open |-> q.kind # "close", size |-> n]
        /\ \A r \in DOMAIN s.runs : r # q.run => t.runs[r] = s.runs[r]
    <2>1. Followed(s, t, q, n, m)  BY CoveredNext
    <2> HIDE DEF t
    <2> QED  BY <2>1 DEF Followed
  <1>2. o.kind = q.kind /\ o.run = q.run  BY DEF NewReceipt
  <1>3. n <= RunSlot /\ RunStore!Valid(s)  BY DEF Covered, Kept
  <1>4. \A r \in DOMAIN s.runs : RunStore!RunValid(s, r)  BY <1>3 DEF RunStore!Valid
  <1> HIDE DEF t, o, L
  <1>5. RunStore!RunValid(t, q.run)
    <2>1. L + 1 \in 1 .. Len(t.operations)  BY <1>1
    <2>2. (L + 1) + 1 .. Len(t.operations) = {}  BY <1>1
    <2>3. t.runs[q.run].size <= RunSlot /\ t.runs[q.run].open = (o.kind # "close")
      BY <1>1, <1>2, <1>3
    <2> QED  BY <1>1, <1>2, <2>1, <2>2, <2>3 DEF RunStore!RunValid
  <1>6. ASSUME NEW r \in DOMAIN s.runs, r # q.run  PROVE RunStore!RunValid(t, r)
    <2>1. RunStore!RunValid(s, r) /\ t.runs[r] = s.runs[r]  BY <1>1, <1>4, <1>6
    <2>2. PICK w \in 1 .. L :
            /\ s.operations[w].run = r
            /\ \A j \in w + 1 .. L : s.operations[j].run # r
            /\ s.runs[r].open = (s.operations[w].kind # "close")
      BY <2>1 DEF RunStore!RunValid, L
    <2>3. w \in 1 .. Len(t.operations) /\ t.operations[w] = s.operations[w]  BY <1>1
    <2>4. ASSUME NEW j \in w + 1 .. Len(t.operations)  PROVE t.operations[j].run # r
      <3>1. j \in w + 1 .. L \/ j = L + 1  BY <1>1
      <3>2. CASE j = L + 1  BY <3>2, <1>1, <1>2, <1>6
      <3>3. CASE j \in w + 1 .. L
        <4>1. j \in 1 .. L  BY <3>3, <1>1
        <4> QED  BY <3>3, <4>1, <1>1, <2>2
      <3> QED  BY <3>1, <3>2, <3>3
    <2>5. s.runs[r].size <= RunSlot  BY <2>1 DEF RunStore!RunValid
    <2> QED  BY <2>1, <2>2, <2>3, <2>4, <2>5 DEF RunStore!RunValid
  <1>7. \A r \in DOMAIN t.runs : RunStore!RunValid(t, r)  BY <1>1, <1>5, <1>6
  <1> QED  BY <1>7 DEF t

\* The room left is the room the path still takes: one receipt less, and no
\* more bytes than a run and a receipt may have.
LEMMA CoveredRoom ==
  ASSUME NEW s, NEW q, NEW n, NEW m, Covered(s, q, n, m), RunStore!Limits
  PROVE  LET t == RunStore!NextStore(s, q, n, m)
         IN /\ Len(s.operations) < MaxOperations
            /\ t.bytes <= MaxBytes
            /\ RunStore!ActiveReservation(t, q.run)
  <1> DEFINE t == RunStore!NextStore(s, q, n, m)
             L == Len(s.operations)
             R == RunStore!Remaining(s, q.run)
             old == s.runs[q.run].size
  <1>0. Kept(s) /\ q \in Request /\ n \in Nat /\ m \in Nat /\ n <= RunSlot
        /\ m <= OperationSlot /\ RunStore!OperationsForRun(s, q.run) < Footprint
    BY DEF Covered
  <1>1. /\ Len(t.operations) = L + 1 /\ L \in Nat
        /\ q.run \in DOMAIN s.runs /\ t.runs[q.run].size = n
        /\ t.bytes = s.bytes + n + m - old
    <2>1. Followed(s, t, q, n, m)  BY CoveredNext
    <2> HIDE DEF t
    <2> QED  BY <2>1 DEF Followed
  <1>2. /\ RunStore!OperationsForRun(s, q.run) \in Nat
        /\ RunStore!OperationsForRun(t, q.run) = RunStore!OperationsForRun(s, q.run) + 1
    BY <1>0, OperationsCounted
  <1>3. s.bytes \in Int /\ old \in Nat  BY <1>0, <1>1 DEF Kept, RunSet
  <1>4. RunStore!ActiveReservation(s, q.run)
    <2>1. q.run \in RunStore!OpenRuns(s)  BY DEF Covered
    <2> QED  BY <1>0, <2>1 DEF Kept, RunStore!Valid
  <1>5. R \in Int /\ L + R <= MaxOperations
        /\ s.bytes + (RunSlot - old) + R * OperationSlot <= MaxBytes
    BY <1>2, <1>4 DEF RunStore!ActiveReservation, RunStore!Remaining, RunStore!Limits
  <1>6. R >= 1 /\ RunStore!Remaining(t, q.run) = R - 1
    <2> HIDE DEF t
    <2> QED  BY <1>0, <1>2 DEF RunStore!Remaining, RunStore!Limits
  <1>7. /\ RunSlot \in Nat /\ OperationSlot \in Nat /\ MaxOperations \in Nat
        /\ MaxBytes \in Nat
    BY DEF RunStore!Limits
  <1> HIDE DEF t, L, R, old
  <1>8. R * OperationSlot = (R - 1) * OperationSlot + OperationSlot
        /\ (R - 1) * OperationSlot \in Int /\ (R - 1) * OperationSlot >= 0
    BY <1>5, <1>6, <1>7
  <1> DEFINE P == (R - 1) * OperationSlot
  <1>9. P \in Int /\ P >= 0
        /\ s.bytes + (RunSlot - old) + P + OperationSlot <= MaxBytes
    BY <1>3, <1>5, <1>7, <1>8
  <1> HIDE DEF P
  <1>10. t.bytes <= MaxBytes /\ t.bytes + (RunSlot - n) + P <= MaxBytes
    <2>1. n \in Nat /\ m \in Nat /\ n <= RunSlot /\ m <= OperationSlot  BY <1>0
    <2>2. t.bytes = s.bytes + n + m - old  BY <1>1
    <2> QED  BY <2>1, <2>2, <1>3, <1>7, <1>9
  <1>11. L < MaxOperations /\ R - 1 >= 0 /\ (L + 1) + (R - 1) <= MaxOperations
    BY <1>1, <1>5, <1>6, <1>7
  <1>12. RunStore!ActiveReservation(t, q.run)
    BY <1>1, <1>6, <1>10, <1>11 DEF RunStore!ActiveReservation, P
  <1> QED  BY <1>10, <1>11, <1>12 DEF t, L

\* An operation of an open run that the room reserved for it covers is taken, whatever
\* else the store holds: it is refused neither receipts nor bytes, and the validator
\* takes the store it leaves (delivery-planning-run-store.js, activeReservation).
THEOREM CoveredFits ==
  ASSUME NEW s, NEW q, NEW n, NEW m, Covered(s, q, n, m), RunStore!Limits
  PROVE  RunStore!AssertCapacity(s, FALSE) /\ RunStore!Valid(RunStore!NextStore(s, q, n, m))
  <1> DEFINE t == RunStore!NextStore(s, q, n, m)
             L == Len(s.operations)
  <1>1. RunStore!Valid(s)  BY DEF Covered, Kept
  <1>2. L < MaxOperations /\ t.bytes <= MaxBytes /\ RunStore!ActiveReservation(t, q.run)
    BY CoveredRoom
  <1>3. /\ Len(t.operations) = L + 1 /\ L \in Nat /\ DOMAIN t.runs = DOMAIN s.runs
        /\ \A r \in DOMAIN s.runs : r # q.run => t.runs[r] = s.runs[r]
    <2>1. Followed(s, t, q, n, m)  BY CoveredNext
    <2> HIDE DEF t
    <2> QED  BY <2>1 DEF Followed
  <1>4. /\ \A k \in 1 .. Len(t.operations) : RunStore!OperationValid(t, k)
        /\ \A r \in DOMAIN t.runs : RunStore!RunValid(t, r)
    BY CoveredOperations, CoveredRuns
  <1>5. q.run \in RunStore!OpenRuns(s)  BY DEF Covered
  <1> HIDE DEF t
  <1>6. \A r \in RunStore!OpenRuns(t) : r = q.run
    <2> SUFFICES ASSUME NEW r \in RunStore!OpenRuns(t), r # q.run  PROVE FALSE
      OBVIOUS
    <2>1. r \in RunStore!OpenRuns(s)  BY <1>3 DEF RunStore!OpenRuns
    <2> QED  BY <1>1, <1>5, <2>1 DEF RunStore!Valid
  <1>7. Cardinality(DOMAIN t.runs) <= MaxRuns
    BY <1>1, <1>3, StoreCounts DEF RunStore!Valid
  <1>8. Len(t.operations) <= MaxOperations
    BY <1>2, <1>3 DEF RunStore!Limits
  <1>9. RunStore!Valid(t)
    BY <1>2, <1>4, <1>6, <1>7, <1>8, StoreCounts DEF RunStore!Valid
  <1>10. RunStore!AssertCapacity(s, FALSE)  BY <1>2 DEF RunStore!AssertCapacity
  <1> QED  BY <1>9, <1>10 DEF t

--------------------------------------------------------------------------------
\* The empty store is kept.
LEMMA EmptyKept ==
  ASSUME RunStore!Limits
  PROVE  Kept(RunStore!Empty) /\ RunStore!Empty # RunStore!NotLoaded
         /\ RunStore!Empty.loaded = TRUE
  <1> DEFINE e == RunStore!Empty
  <1>1. e.runs = <<>> /\ e.operations = <<>> /\ e.bytes = 0 /\ e.loaded = TRUE
    BY DEF RunStore!Empty, RunStore!Store
  <1>2. RunStore!NotLoaded.loaded = FALSE  BY DEF RunStore!NotLoaded, RunStore!Store
  <1>3. DOMAIN <<>> = {}  OBVIOUS
  <1>4. <<>> \in [{} -> RunSet]  OBVIOUS
  <1>5. Len(<<>>) = 0 /\ <<>> \in Seq(Receipt)  OBVIOUS
  <1> HIDE DEF e
  <1>6. DOMAIN e.runs = {} /\ Len(e.operations) = 0  BY <1>1, <1>3, <1>5
  <1>7. RunStore!OpenRuns(e) = {}  BY <1>6 DEF RunStore!OpenRuns
  <1>8. RunStore!Cardinality(DOMAIN e.runs) = 0  BY <1>6, StoreCounts, FS_EmptySet
  <1>9. RunStore!Valid(e)
    BY <1>1, <1>6, <1>7, <1>8 DEF RunStore!Valid, RunStore!Limits
  <1>10. Kept(e)
    BY <1>1, <1>3, <1>4, <1>5, <1>9 DEF Kept
  <1>11. e # RunStore!NotLoaded  BY <1>1, <1>2
  <1> QED  BY <1>1, <1>10, <1>11 DEF e

\* A loaded store is the file.
LEMMA LoadedIsFile ==
  ASSUME StoreInv, loaded.loaded
  PROVE  loaded = file /\ loaded # RunStore!NotLoaded /\ lost = FALSE /\ Kept(loaded)
  <1>1. RunStore!NotLoaded.loaded = FALSE  BY DEF RunStore!NotLoaded, RunStore!Store
  <1> QED  BY <1>1 DEF StoreInv

\* What a write puts into the file.
LEMMA WriteKeeps ==
  ASSUME StoreInv, NEW q \in requests, NEW n \in Nat, NEW m \in Nat,
         RunStore!Operation(q), RunStore!Fits(q, n, m)
  PROVE  LET t == RunStore!NextStore(loaded, q, n, m)
         IN /\ Kept(t) /\ lost = FALSE
            /\ RunStore!Operations(file) \subseteq RunStore!Operations(t)
            /\ \E o \in RunStore!Operations(t) :
                 o.id = q.op /\ o.kind = q.kind /\ o.run = q.run
  <1> DEFINE t == RunStore!NextStore(loaded, q, n, m)
             o == NewReceipt(loaded, q, m)
  <1>1. loaded.loaded  BY DEF RunStore!Operation
  <1>2. loaded = file /\ lost = FALSE /\ Kept(loaded)  BY <1>1, LoadedIsFile
  <1>3. q \in Request  BY DEF StoreInv
  <1>4. RunStore!Valid(t)  BY DEF RunStore!Fits
  <1>5. Kept(t)  BY <1>2, <1>3, <1>4, NextStoreKept
  <1>6. t.operations = Append(loaded.operations, o) /\ o \in Receipt
    BY <1>2, <1>3, NextStoreIs
  <1>7. loaded.operations \in Seq(Receipt)  BY <1>2 DEF Kept
  <1>8. o.id = q.op /\ o.kind = q.kind /\ o.run = q.run  BY DEF NewReceipt
  <1> HIDE DEF t, o
  <1> DEFINE L == Len(loaded.operations)
  <1>9. /\ Len(t.operations) = L + 1 /\ L \in Nat /\ t.operations[L + 1] = o
        /\ \A k \in 1 .. L : t.operations[k] = loaded.operations[k]
    BY <1>6, <1>7, Receipted
  <1>10. o \in RunStore!Operations(t)
    <2>1. L + 1 \in 1 .. Len(t.operations)  BY <1>9
    <2> QED  BY <1>9, <2>1 DEF RunStore!Operations
  <1>11. RunStore!Operations(loaded) \subseteq RunStore!Operations(t)
    <2>1. \A k \in 1 .. L : k \in 1 .. Len(t.operations)  BY <1>9
    <2> QED  BY <1>9, <2>1 DEF RunStore!Operations
  <1>12. \E x \in RunStore!Operations(t) : x.id = q.op /\ x.kind = q.kind /\ x.run = q.run
    BY <1>8, <1>10
  <1> QED  BY <1>2, <1>5, <1>11, <1>12 DEF t

\* The invariant after a write: what was in the file still is.
Rewritten ==
  /\ Kept(file') /\ RunStore!Operations(file) \subseteq RunStore!Operations(file')
  /\ requests' = requests /\ stranded' = stranded
  /\ written' = written \union RunStore!Operations(file')

\* Such a write keeps it, whatever the client and the memory learn of it.
LEMMA RewrittenKeeps ==
  ASSUME StoreInv, Rewritten, NEW q \in requests,
         \/ /\ answered' = answered \union {q}
            /\ \E o \in RunStore!Operations(file') :
                 o.id = q.op /\ o.kind = q.kind /\ o.run = q.run
         \/ answered' = answered,
         loaded' = file' \/ loaded' = RunStore!NotLoaded,
         lost' \in BOOLEAN, lost' = TRUE => loaded' = RunStore!NotLoaded,
         failures' \in 0 .. MaxFaults
  PROVE  StoreInv'
  <1>1. \A p \in answered : \E o \in RunStore!Operations(file') :
          o.id = p.op /\ o.kind = p.kind /\ o.run = p.run
    BY DEF StoreInv, Rewritten
  <1>2. answered' \subseteq Request /\ requests' \subseteq Request
    BY DEF StoreInv, Rewritten
  <1>3. \A p \in answered' : \E o \in RunStore!Operations(file') :
          o.id = p.op /\ o.kind = p.kind /\ o.run = p.run
    BY <1>1
  <1>4. written' \subseteq RunStore!Operations(file')  BY DEF StoreInv, Rewritten
  <1>5. stranded' = FALSE  BY DEF StoreInv, Rewritten
  <1>6. RunStore!Operations(file)' = RunStore!Operations(file')  BY DEF RunStore!Operations
  <1>7. Kept(file)'
    <2>1. Kept(file')  BY DEF Rewritten
    <2> QED  BY <2>1 DEF Kept, RunStore!Valid, RunStore!OpenRuns, RunStore!OperationValid,
          RunStore!RunValid, RunStore!ActiveReservation, RunStore!Remaining,
          RunStore!OperationsForRun, RunStore!Cardinality
  <1> QED  BY <1>2, <1>3, <1>4, <1>5, <1>6, <1>7 DEF StoreInv

\* Actions that change neither the file nor the answers.
LEMMA RunStoreAsks ==
  ASSUME StoreInv, NEW op \in Ops, NEW kind \in RunStore!Kinds, NEW r \in Runs,
         RunStore!Ask(op, kind, r)
  PROVE  StoreInv'
  <1> DEFINE p == [op |-> op, kind |-> kind, run |-> r, rev |-> RunStore!Revision(loaded)]
  <1>1. loaded.loaded /\ requests' = requests \union {p}
        /\ UNCHANGED <<file, loaded, lost, written, answered, stranded, failures>>
    BY DEF RunStore!Ask
  <1>2. Kept(loaded)  BY <1>1, LoadedIsFile
  <1>3. RunStore!Revision(loaded) \in Nat  BY <1>2 DEF Kept, RunStore!Revision
  <1>4. p \in Request  BY <1>3 DEF Request
  <1> HIDE DEF p
  <1>5. requests' \subseteq Request  BY <1>1, <1>4 DEF StoreInv
  <1> QED  BY <1>1, <1>5 DEF StoreInv

\* A client gives a request up.
LEMMA RunStoreForgets ==
  ASSUME StoreInv, NEW q \in requests, RunStore!Forgets(q)
  PROVE  StoreInv'
  BY DEF StoreInv, RunStore!Forgets

\* The store is loaded from the file.
LEMMA RunStoreLoads ==
  ASSUME StoreInv, RunStore!EnsureInitialized
  PROVE  StoreInv'
  BY DEF StoreInv, RunStore!EnsureInitialized

\* A replay answers what a receipt of the file already says.
LEMMA RunStoreReplays ==
  ASSUME StoreInv, NEW q \in requests, RunStore!Replay(q)
  PROVE  StoreInv'
  <1>1. loaded.loaded /\ answered' = answered \union {q}
        /\ UNCHANGED <<file, loaded, lost, requests, written, stranded, failures>>
    BY DEF RunStore!Replay
  <1>2. PICK o \in RunStore!Earlier(loaded, q) : o.kind = q.kind /\ o.run = q.run
    BY DEF RunStore!Replay
  <1>3. loaded = file  BY <1>1, LoadedIsFile
  <1>4. o \in RunStore!Operations(file) /\ o.id = q.op  BY <1>2, <1>3 DEF RunStore!Earlier
  <1>5. q \in Request  BY DEF StoreInv
  <1>6. \A p \in answered' : \E x \in RunStore!Operations(file) :
          x.id = p.op /\ x.kind = p.kind /\ x.run = p.run
    BY <1>1, <1>2, <1>4 DEF StoreInv
  <1> QED  BY <1>1, <1>5, <1>6 DEF StoreInv

\* An operation is written and answered.
LEMMA RunStoreMutates ==
  ASSUME StoreInv, NEW q \in requests, NEW n \in Nat, NEW m \in Nat, RunStore!Mutate(q, n, m)
  PROVE  StoreInv'
  <1> DEFINE t == RunStore!NextStore(loaded, q, n, m)
  <1>1. RunStore!Operation(q) /\ RunStore!Fits(q, n, m) /\ file' = t /\ loaded' = file'
        /\ written' = written \union RunStore!Operations(file')
        /\ answered' = answered \union {q}
        /\ UNCHANGED <<lost, requests, stranded, failures>>
    BY DEF RunStore!Mutate
  <1>2. /\ Kept(t) /\ lost = FALSE
        /\ RunStore!Operations(file) \subseteq RunStore!Operations(t)
        /\ \E o \in RunStore!Operations(t) : o.id = q.op /\ o.kind = q.kind /\ o.run = q.run
    BY <1>1, WriteKeeps
  <1> HIDE DEF t
  <1>3. Rewritten  BY <1>1, <1>2 DEF Rewritten
  <1>4. lost' = FALSE /\ failures' \in 0 .. MaxFaults  BY <1>1, <1>2 DEF StoreInv
  <1> QED  BY <1>1, <1>2, <1>3, <1>4, RewrittenKeeps

\* A write whose outcome the client does not learn.
LEMMA RunStoreWritesBlind ==
  ASSUME StoreInv, RunStore!Limits, NEW q \in requests, NEW n \in Nat, NEW m \in Nat,
         RunStore!UncertainWrite(q, n, m) \/ RunStore!CrashAfterWrite(q, n, m)
  PROVE  StoreInv'
  <1> DEFINE t == RunStore!NextStore(loaded, q, n, m)
  <1>1. RunStore!Operation(q) /\ RunStore!Fits(q, n, m) /\ file' = t
        /\ written' = written \union RunStore!Operations(file')
        /\ UNCHANGED <<requests, answered, stranded>>
    BY DEF RunStore!UncertainWrite, RunStore!CrashAfterWrite
  <1>2. \/ loaded' = file' /\ lost' = lost
        \/ loaded' = RunStore!NotLoaded /\ (lost' = TRUE \/ lost' = lost)
    BY DEF RunStore!UncertainWrite, RunStore!CrashAfterWrite
  <1>3. failures < MaxFaults /\ failures' = failures + 1
    BY DEF RunStore!UncertainWrite, RunStore!CrashAfterWrite, RunStore!Fault
  <1>4. Kept(t) /\ lost = FALSE
        /\ RunStore!Operations(file) \subseteq RunStore!Operations(t)
    BY <1>1, WriteKeeps
  <1> HIDE DEF t
  <1>5. Rewritten  BY <1>1, <1>4 DEF Rewritten
  <1>6. failures' \in 0 .. MaxFaults  BY <1>3 DEF StoreInv, RunStore!Limits
  <1>7. lost' \in BOOLEAN /\ (lost' = TRUE => loaded' = RunStore!NotLoaded)
        /\ (loaded' = file' \/ loaded' = RunStore!NotLoaded)
    BY <1>2, <1>4
  <1> QED  BY <1>1, <1>5, <1>6, <1>7, RewrittenKeeps

\* A crash, and a write that leaves the file.
LEMMA RunStoreFails ==
  ASSUME StoreInv, RunStore!Limits,
         RunStore!Crash \/ (\E q \in requests : \E n, m \in Nat : RunStore!WriteFails(q, n, m))
  PROVE  StoreInv'
  <1>1. failures < MaxFaults /\ failures' = failures + 1
        /\ UNCHANGED <<file, requests, written, answered, stranded>>
    BY DEF RunStore!Crash, RunStore!WriteFails, RunStore!Fault
  <1>2. \/ loaded' = RunStore!NotLoaded /\ lost' = FALSE
        \/ UNCHANGED <<loaded, lost>>
    BY DEF RunStore!Crash, RunStore!WriteFails
  <1>3. failures' \in 0 .. MaxFaults  BY <1>1 DEF StoreInv, RunStore!Limits
  <1> QED  BY <1>1, <1>2, <1>3 DEF StoreInv

\* Room is refused to no operation that the reservation covers.
LEMMA RunStoreRefuses ==
  ASSUME StoreInv, RunStore!Limits, NEW q \in requests, NEW n \in Nat, NEW m \in Nat,
         n <= RunSlot, m <= OperationSlot, RunStore!RefusedRoom(q, n, m)
  PROVE  StoreInv'
  <1>1. RunStore!Operation(q) /\ ~RunStore!Fits(q, n, m)
        /\ stranded' = (stranded \/ (q.kind # "create"
                          /\ RunStore!OperationsForRun(loaded, q.run) < Footprint))
        /\ UNCHANGED <<file, loaded, lost, requests, written, answered, failures>>
    BY DEF RunStore!RefusedRoom
  <1>2. ASSUME q.kind # "create", RunStore!OperationsForRun(loaded, q.run) < Footprint
        PROVE  FALSE
    <2>1. loaded.loaded /\ RunStore!Admitted(q)  BY <1>1 DEF RunStore!Operation
    <2>2. Kept(loaded)  BY <2>1, LoadedIsFile
    <2>3. RunStore!Earlier(loaded, q) = {} /\ q.run \in RunStore!OpenRuns(loaded)
      BY <2>1, <1>2 DEF RunStore!Admitted
    <2>4. q \in Request  BY DEF StoreInv
    <2>5. Covered(loaded, q, n, m)  BY <1>2, <2>2, <2>3, <2>4 DEF Covered
    <2>6. RunStore!AssertCapacity(loaded, FALSE)
          /\ RunStore!Valid(RunStore!NextStore(loaded, q, n, m))
      BY <2>5, CoveredFits
    <2>7. (q.kind = "create") = FALSE  BY <1>2
    <2> QED  BY <1>1, <2>6, <2>7 DEF RunStore!Fits
  <1>3. stranded' = FALSE
    <2>1. stranded = FALSE  BY DEF StoreInv
    <2> QED  BY <1>1, <1>2, <2>1
  <1> QED  BY <1>1, <1>3 DEF StoreInv

\* Every step.
LEMMA RunStoreSteps ==
  ASSUME StoreInv, RunStore!Limits, RunStore!Next
  PROVE  StoreInv'
  <1>1. CASE \E kind \in RunStore!Kinds, r \in Runs :
               RunStore!AskFresh(kind, r) \/ (\E q \in requests : RunStore!Ask(q.op, kind, r))
    <2>1. PICK kind \in RunStore!Kinds, r \in Runs :
            RunStore!AskFresh(kind, r) \/ (\E q \in requests : RunStore!Ask(q.op, kind, r))
      BY <1>1
    <2>2. CASE RunStore!AskFresh(kind, r)
      <3> DEFINE op == CHOOSE x \in RunStore!FreshIds : TRUE
      <3>1. RunStore!FreshIds # {} /\ RunStore!Ask(op, kind, r)
        BY <2>2 DEF RunStore!AskFresh
      <3>2. op \in RunStore!FreshIds  BY <3>1
      <3>3. op \in Ops  BY <3>2 DEF RunStore!FreshIds
      <3> HIDE DEF op
      <3> QED  BY <3>1, <3>3, RunStoreAsks
    <2>3. CASE \E q \in requests : RunStore!Ask(q.op, kind, r)
      <3>1. PICK q \in requests : RunStore!Ask(q.op, kind, r)  BY <2>3
      <3>2. q.op \in Ops  BY DEF StoreInv, Request
      <3> QED  BY <3>1, <3>2, RunStoreAsks
    <2> QED  BY <2>1, <2>2, <2>3
  <1>2. CASE RunStore!EnsureInitialized  BY <1>2, RunStoreLoads
  <1>3. CASE RunStore!Crash  BY <1>3, RunStoreFails
  <1>4. ASSUME NEW q \in requests, NEW n \in Nat, NEW m \in Nat, n <= RunSlot,
               m <= OperationSlot,
               \/ RunStore!Mutate(q, n, m) \/ RunStore!RefusedRoom(q, n, m)
               \/ RunStore!WriteFails(q, n, m)
               \/ RunStore!UncertainWrite(q, n, m) \/ RunStore!CrashAfterWrite(q, n, m)
        PROVE  StoreInv'
    BY <1>4, RunStoreMutates, RunStoreRefuses, RunStoreFails, RunStoreWritesBlind
  <1>5. CASE \E q \in requests :
               \/ RunStore!Forgets(q) \/ RunStore!Replay(q)
               \/ \E big \in BOOLEAN :
                    LET n == IF big THEN RunSlot ELSE 1
                        m == IF big THEN OperationSlot ELSE 1 IN
                    \/ RunStore!Mutate(q, n, m) \/ RunStore!RefusedRoom(q, n, m)
                    \/ RunStore!WriteFails(q, n, m)
                    \/ RunStore!UncertainWrite(q, n, m) \/ RunStore!CrashAfterWrite(q, n, m)
    <2>1. PICK q \in requests :
            \/ RunStore!Forgets(q) \/ RunStore!Replay(q)
            \/ \E big \in BOOLEAN :
                 LET n == IF big THEN RunSlot ELSE 1
                     m == IF big THEN OperationSlot ELSE 1 IN
                 \/ RunStore!Mutate(q, n, m) \/ RunStore!RefusedRoom(q, n, m)
                 \/ RunStore!WriteFails(q, n, m)
                 \/ RunStore!UncertainWrite(q, n, m) \/ RunStore!CrashAfterWrite(q, n, m)
      BY <1>5
    <2>2. CASE RunStore!Forgets(q)  BY <2>2, RunStoreForgets
    <2>3. CASE RunStore!Replay(q)  BY <2>3, RunStoreReplays
    <2>4. ASSUME NEW big \in BOOLEAN,
                 LET n == IF big THEN RunSlot ELSE 1
                     m == IF big THEN OperationSlot ELSE 1 IN
                 \/ RunStore!Mutate(q, n, m) \/ RunStore!RefusedRoom(q, n, m)
                 \/ RunStore!WriteFails(q, n, m)
                 \/ RunStore!UncertainWrite(q, n, m) \/ RunStore!CrashAfterWrite(q, n, m)
          PROVE  StoreInv'
      <3> DEFINE n == IF big THEN RunSlot ELSE 1
                 m == IF big THEN OperationSlot ELSE 1
      <3>1. n \in Nat /\ m \in Nat /\ n <= RunSlot /\ m <= OperationSlot
        BY DEF RunStore!Limits
      <3>2. \/ RunStore!Mutate(q, n, m) \/ RunStore!RefusedRoom(q, n, m)
            \/ RunStore!WriteFails(q, n, m)
            \/ RunStore!UncertainWrite(q, n, m) \/ RunStore!CrashAfterWrite(q, n, m)
        BY <2>4
      <3> HIDE DEF n, m
      <3> QED  BY <3>1, <3>2, <1>4
    <2> QED  BY <2>1, <2>2, <2>3, <2>4
  <1> QED  BY <1>1, <1>2, <1>3, <1>5 DEF RunStore!Next

\* Every state of the planning run store that a client, a write or a crash can
\* bring about is safe: no run is stranded within the room reserved for it, and
\* what reached the file, or was answered, is in the file once and for good.
THEOREM StoreIsSafe ==
  ASSUME RunStore!Limits
  PROVE  RunStore!Spec => []RunStore!StoreSafe
  <1>1. ASSUME RunStore!Init  PROVE StoreInv
    <2>1. file = RunStore!Empty /\ loaded = RunStore!NotLoaded /\ lost = FALSE
          /\ requests = {} /\ written = {} /\ answered = {} /\ stranded = FALSE /\ failures = 0
      BY <1>1 DEF RunStore!Init
    <2>2. Kept(RunStore!Empty)  BY EmptyKept
    <2>3. failures \in 0 .. MaxFaults  BY <2>1 DEF RunStore!Limits
    <2> QED  BY <2>1, <2>2, <2>3 DEF StoreInv
  <1>2. ASSUME StoreInv, [RunStore!Next]_(RunStore!vars)  PROVE StoreInv'
    <2>1. CASE RunStore!Next  BY <1>2, <2>1, RunStoreSteps
    <2>2. CASE UNCHANGED RunStore!vars  BY <1>2, <2>2 DEF StoreInv, RunStore!vars
    <2> QED  BY <1>2, <2>1, <2>2
  <1>3. ASSUME StoreInv  PROVE RunStore!StoreSafe
    <2>1. RunStore!TypeOK
      <3>1. loaded.loaded => loaded = file /\ loaded # RunStore!NotLoaded
        BY <1>3, LoadedIsFile
      <3> QED  BY <1>3, <3>1 DEF StoreInv, RunStore!TypeOK
    <2>2. RunStore!NeverStranded  BY <1>3 DEF StoreInv, RunStore!NeverStranded
    <2>3. ASSUME NEW j \in 1 .. Len(file.operations), NEW k \in 1 .. Len(file.operations),
                 file.operations[j].id = file.operations[k].id
          PROVE  j = k
      <3>1. \A i \in 1 .. Len(file.operations) : \A h \in 1 .. i - 1 :
              file.operations[h].id # file.operations[i].id
        BY <1>3 DEF StoreInv, Kept, RunStore!Valid, RunStore!OperationValid
      <3>2. j < k => j \in 1 .. k - 1  OBVIOUS
      <3>3. k < j => k \in 1 .. j - 1  OBVIOUS
      <3> QED  BY <2>3, <3>1, <3>2, <3>3
    <2>4. RunStore!NothingLost
      BY <1>3, <2>3 DEF StoreInv, RunStore!NothingLost
    <2> QED  BY <2>1, <2>2, <2>4 DEF RunStore!StoreSafe
  <1> QED  BY <1>1, <1>2, <1>3, PTL DEF RunStore!Spec
================================================================================
