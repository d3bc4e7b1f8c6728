--------------------------- MODULE DeliveryRunProofs ---------------------------
(* Theorems about DeliveryRun for every number of steps, every set of contents   *)
(* and every number of crashes and failing writes, and about the capture of the  *)
(* baselines it compares, for any files and any number of changes meanwhile.     *)
EXTENDS DeliveryRun, TLAPS

CONSTANTS
  Paths, Instructions, Committed, Allowed, MaxEntries, MaxWrites, MaxCaptures
VARIABLES
  world, phase, expected, built, cap, lived, torn, writes, captures

\* The capture of the baselines that a run compares.
Workspace == INSTANCE WorkspaceBaseline

--------------------------------------------------------------------------------
(* The inductive invariant.                                                      *)

Waiting == {"pending", "reconcile_required"}
Settled == {"verified", "failed", "off_course"}
Worked == {"implementation_captured", "verified", "failed"}
Past == {"verifying"} \cup MissionTerminal

\* Only one step is worked on: what comes before it is verified, what comes after it
\* untouched. One failed or off-course step stops the whole run.
RunShape(r) ==
  /\ r.condition = "absent" => r = NoRun
  /\ \A t \in Steps :
       /\ r.outbox[t] = "pending" => r.state[t] = "pending"
       /\ r.state[t] \in {"mission_linked"} \cup Worked => r.outbox[t] = "applied"
       /\ r.state[t] \in Waiting => ~r.linked[t]
       /\ r.state[t] \in Waiting \cup {"mission_linked", "implementation_captured"}
            => r.verdict[t] = "none"
       /\ r.state[t] = "failed" => r.condition = "blocked"
       /\ r.state[t] = "off_course" => r.condition = "off_course"
       /\ \A u \in 1..(t - 1) : r.state[u] # "verified" =>
            r.state[t] \in {"pending", "aborted"} /\ r.outbox[t] \notin Waiting
  /\ (\A t \in Steps : r.state[t] = "verified") => r.condition = "verified"

RunInv(r) == r \in RunType /\ ValidRun(r) /\ RunShape(r)

\* What the status of a mission, in memory or in the file, says of the run.
Fits(status, t) ==
  /\ status # "absent" => /\ run.condition # "absent"
                          /\ \A u \in 1..(t - 1) : run.state[u] = "verified"
  /\ run.linked[t] => status # "absent"
  /\ ~run.linked[t] => status \in {"absent", "ready"}
  /\ status = "done" => run.verdict[t] = "verified"
  /\ status = "failed" => run.verdict[t] = "failed"
  /\ status = "canceled" => run.condition = "aborted"
  /\ status \in {"running", "needs_you", "verifying"} => t \in sent
  /\ run.state[t] \in Worked => status \in Past /\ t \in sent

\* A write of the missions that throws leaves the file ahead of the memory.
Ahead(m, d) ==
  /\ m # "absent" => d # "absent"
  /\ m \in Past => d \in Past
  /\ m \in MissionTerminal => d = m

MissionInv ==
  /\ \A t \in Steps :
       /\ Fits(mem[t], t) /\ Fits(disk[t], t) /\ Ahead(mem[t], disk[t])
       /\ up /\ mem[t] = "dispatching" => t \in sent
  /\ ~up => mem = disk

Ripe(t) ==
  run.condition = "active" /\ run.state[t] = "mission_linked" /\ mem[t] = "ready"

\* What the lifecycle operation knows at each of its steps.
OpInv ==
  /\ op.at # "idle" => run.condition # "absent"
  /\ op.at \in {"integrity", "finalize"} => op.then # ""
  /\ op.at \in {"drift", "execute", "ensure", "link"} => Pending(op.step)
  /\ op.at = "uncertain" /\ run.state[op.step] = "pending" => Pending(op.step)
  /\ op.at = "off_course" =>
       /\ run.state[op.step] \notin Settled
       /\ \A u \in 1..(op.step - 1) : run.state[u] \in Settled
       /\ \A t \in Steps : ~Ripe(t)
  /\ op.at = "ensure" => plan = "executing"
  /\ op.at = "link" => mem[op.step] # "absent"
  /\ op.at = "capture" => op.base # NoContent
  /\ op.at \in {"capture", "verify", "conclude"} => mem[op.step] = "verifying"
  /\ op.at = "verify" => run.state[op.step] = "implementation_captured"
  /\ op.at \in {"conclude", "repeat"} => run.verdict[op.step] # "none"
  /\ op.at = "cancel" => run.condition = "aborted"

\* What a dispatch found before it took the queue still holds.
DispatchInv ==
  held = "dispatch" =>
    /\ disp \in Steps /\ up /\ op.at # "off_course"
    /\ run.condition = "active" /\ run.state[disp] = "mission_linked"

Quiet == \A t \in Steps : run.linked[t] => ~Live(mem, t) /\ ~Live(disk, t)

PlanInv ==
  /\ plan = "approved" => \A t \in Steps : mem[t] = "absent" /\ disk[t] = "absent"
  /\ plan = "planning" \/ op.at = "replan" =>
       run.condition \in {"absent", "aborted"} /\ Quiet

Inv == TypeOK /\ RunInv(run) /\ MissionInv /\ OpInv /\ DispatchInv /\ PlanInv

--------------------------------------------------------------------------------
(* The mutations of the run.                                                     *)

\* What no mutation of a run takes back, and when missions must have gone ahead.
Keeps(s) ==
  /\ RunInv(s)
  /\ run.condition # "absent" => s.condition # "absent"
  /\ run.condition = "aborted" => s.condition = "aborted"
  /\ \A t \in Steps :
       /\ run.state[t] = "verified" => s.state[t] = "verified"
       /\ run.verdict[t] # "none" => s.verdict[t] = run.verdict[t]
       /\ run.linked[t] => s.linked[t]
       /\ s.linked[t] => run.linked[t] \/ mem[t] # "absent"
       /\ s.state[t] \in Worked => run.state[t] \in Worked \/ mem[t] = "verifying"

\* The run of a record is given by its fields.
LEMMA Fields == ASSUME NEW r \in RunType
                PROVE  /\ r.condition \in Conditions
                       /\ \A t \in Steps :
                            /\ r.state[t] \in TaskStates /\ r.outbox[t] \in OutboxStates
                            /\ r.linked[t] \in BOOLEAN
                            /\ r.verdict[t] \in {"none", "verified", "failed"}
                            /\ r.expected[t] \in Contents \cup {NoContent}
                            /\ r.impl[t] \in Contents \cup {NoContent}
  BY DEF RunType

\* What comes after a step that is not verified is untouched.
LEMMA Later ==
  ASSUME NEW r, RunInv(r), r.condition # "aborted", NEW t \in Steps, r.state[t] # "verified"
  PROVE  \A u \in Steps : u > t => r.state[u] = "pending" /\ r.outbox[u] = "held"
  <1>0. StepCount \in Nat /\ Steps = 1..StepCount BY ConstantsAssumption DEF Steps
  <1> SUFFICES ASSUME NEW u \in Steps, u > t
               PROVE  r.state[u] = "pending" /\ r.outbox[u] = "held"
    OBVIOUS
  <1>1. t \in 1..(u - 1) /\ u - 1 \in Steps /\ u \in Steps \ {1} BY <1>0
  <1>2. r.state[u] = "pending" BY <1>1 DEF RunInv, RunShape, ValidRun, ValidTask, ValidOutbox
  <1>3. r.state[u - 1] # "verified"
    <2>1. CASE u - 1 = t BY <2>1
    <2>2. CASE u - 1 # t
      <3>1. t \in 1..((u - 1) - 1) BY <1>0, <1>1, <2>2
      <3>2. QED BY <1>1, <3>1 DEF RunInv, RunShape
    <2>3. QED BY <2>1, <2>2
  <1>4. QED BY <1>1, <1>2, <1>3 DEF RunInv, ValidRun, ValidTask, ValidOutbox

\* A step that is worked on, or asks for its mission, is the only one: the run goes on
\* with it, those before it are verified, those after it untouched.
LEMMA Current ==
  ASSUME NEW r, RunInv(r), NEW t \in Steps,
         \/ r.outbox[t] \in Waiting
         \/ r.state[t] \in {"reconcile_required", "mission_linked", "implementation_captured"}
  PROVE  /\ r.state[t] \in Waiting \cup {"mission_linked", "implementation_captured"}
         /\ \A u \in 1..(t - 1) : r.state[u] = "verified"
         /\ \A u \in Steps : u > t => r.state[u] = "pending" /\ r.outbox[u] = "held"
         /\ r.condition \notin {"absent", "aborted", "blocked", "off_course", "verified"}
  <1>0. StepCount \in Nat /\ Steps = 1..StepCount BY ConstantsAssumption DEF Steps
  <1>1. r.state[t] \in Waiting \cup {"mission_linked", "implementation_captured"}
    BY DEF RunInv, RunShape, ValidRun, ValidTask, ValidOutbox, Waiting
  <1>2. r.condition # "aborted"
    BY <1>1 DEF RunInv, ValidRun, ValidTask, ValidOutbox, Waiting
  <1>3. \A u \in 1..(t - 1) : r.state[u] = "verified"
    BY <1>0, <1>1, <1>2 DEF RunInv, RunShape, ValidRun, ValidTask, ValidOutbox, Waiting
  <1>4. \A u \in Steps : u > t => r.state[u] = "pending" /\ r.outbox[u] = "held"
    <2>1. r.state[t] # "verified" BY <1>1 DEF Waiting
    <2>2. QED BY <1>2, <2>1, Later
  <1>5. \A u \in Steps : r.state[u] \notin {"failed", "off_course"}
    <2> SUFFICES ASSUME NEW u \in Steps PROVE r.state[u] \notin {"failed", "off_course"}
      OBVIOUS
    <2>1. u \in 1..(t - 1) \/ u = t \/ u > t BY <1>0
    <2>2. QED BY <2>1, <1>1, <1>3, <1>4 DEF Waiting
  <1>6. r.condition \notin {"blocked", "off_course", "verified"}
    BY <1>1, <1>5 DEF RunInv, ValidRun, ValidTask, ValidOutbox, Waiting
  <1>7. r.condition # "absent"
    BY <1>1 DEF RunInv, RunShape, NoRun, Waiting
  <1>8. QED BY <1>1, <1>2, <1>3, <1>4, <1>6, <1>7

\* The rules a step of a run that has not ended must obey by itself, and those the
\* condition of the run puts on it.
StepRules(r, t) ==
  /\ r.state[t] \in {"mission_linked"} \cup Worked => r.linked[t] /\ r.outbox[t] = "applied"
  /\ r.state[t] \in Worked => r.impl[t] # NoContent
  /\ r.state[t] \in Worked \ {"implementation_captured"} => r.verdict[t] = r.state[t]
  /\ r.state[t] \in Waiting \cup {"mission_linked", "implementation_captured"}
       => r.verdict[t] = "none"
  /\ r.state[t] \in Waiting => ~r.linked[t]
  /\ r.outbox[t] = "applied" => r.linked[t] /\ r.state[t] # "pending"
  /\ r.outbox[t] = "pending" => r.state[t] = "pending"
  /\ r.outbox[t] = "reconcile_required" => r.state[t] = "reconcile_required"
  /\ r.outbox[t] = "blocked" => r.state[t] = "off_course"
  /\ r.state[t] # "aborted" /\ r.outbox[t] # "canceled"
  /\ r.state[t] = "failed" => r.condition = "blocked"
  /\ r.state[t] = "off_course" => r.condition = "off_course"

\* The rules hold in a run that has not ended.
LEMMA RulesOf ==
  ASSUME NEW r, RunInv(r), r.condition # "aborted", NEW t \in Steps
  PROVE  StepRules(r, t)
  BY DEF RunInv, RunShape, ValidRun, ValidTask, ValidOutbox, StepRules, Waiting, Worked

\* A change of the current step alone, which does not finish it, leaves a valid run
\* if the step obeys the rules and the new condition names it.
LEMMA ChangeOfStep ==
  ASSUME RunInv(run), NEW s, s \in RunType, NEW t \in Steps,
         run.state[t] # "verified", run.condition # "aborted",
         \A u \in 1..(t - 1) : run.state[u] = "verified",
         \A u \in Steps \ {t} :
           /\ s.state[u] = run.state[u] /\ s.outbox[u] = run.outbox[u]
           /\ s.linked[u] = run.linked[u] /\ s.verdict[u] = run.verdict[u]
           /\ s.impl[u] = run.impl[u],
         \A u \in Steps : s.expected[u] = run.expected[u],
         StepRules(s, t), s.state[t] \notin {"pending", "verified"},
         s.condition \notin {"absent", "aborted", "verified"},
         s.condition = "awaiting_verification" => s.state[t] = "implementation_captured",
         s.condition = "reconcile_required" => s.state[t] = "reconcile_required",
         s.condition = "off_course" => s.state[t] = "off_course",
         s.condition = "blocked" => s.state[t] = "failed"
  PROVE  RunInv(s)
  <1>0. StepCount \in Nat /\ Steps = 1..StepCount BY ConstantsAssumption DEF Steps
  <1>1. \A u \in Steps : u > t => run.state[u] = "pending" /\ run.outbox[u] = "held"
    BY Later
  <1>2. \A u \in Steps : u \in 1..(t - 1) \/ u = t \/ u > t BY <1>0
  <1>3. \A u \in Steps : StepRules(s, u)
    <2> SUFFICES ASSUME NEW u \in Steps, u # t PROVE StepRules(s, u) OBVIOUS
    <2>1. StepRules(run, u) BY RulesOf
    <2>2. run.state[u] \in {"verified", "pending"} BY <1>1, <1>2
    <2>3. QED BY <2>1, <2>2 DEF StepRules, Waiting, Worked
  <1>4. \A u \in Steps \ {t} : s.outbox[u] \notin Waiting
    <2> SUFFICES ASSUME NEW u \in Steps, u # t PROVE s.outbox[u] \notin Waiting OBVIOUS
    <2>1. CASE u > t BY <2>1, <1>1 DEF Waiting
    <2>2. CASE u \in 1..(t - 1)
      <3>1. run.state[u] = "verified" BY <2>2
      <3>2. run.outbox[u] = "applied" BY <3>1, RulesOf DEF StepRules, Worked
      <3>3. QED BY <3>2 DEF Waiting
    <2>3. QED BY <1>2, <2>1, <2>2
  <1>5. ASSUME NEW u \in Steps \ {1}
        PROVE  /\ s.expected[u] = IF s.state[u - 1] = "verified" THEN s.impl[u - 1]
                                  ELSE NoContent
               /\ s.state[u - 1] # "verified" => s.outbox[u] = "held"
               /\ s.state[u - 1] = "verified" /\ s.state[u] = "pending" => s.outbox[u] # "held"
    <2>0. u - 1 \in Steps BY <1>0
    <2>1. s.expected[u] = IF s.state[u - 1] = "verified" THEN s.impl[u - 1] ELSE NoContent
      <3>1. run.expected[u] = IF run.state[u - 1] = "verified" THEN run.impl[u - 1]
                              ELSE NoContent
        BY DEF RunInv, ValidRun, ValidTask, ValidOutbox
      <3>2. QED BY <3>1, <2>0
    <2>2. CASE u = t
      <3>1. u - 1 \in 1..(t - 1) /\ u - 1 # t BY <2>0, <2>2, <1>0
      <3>2. s.state[u - 1] = "verified" BY <2>0, <3>1
      <3>3. QED BY <2>1, <2>2, <3>2
    <2>3. CASE u # t
      <3>1. s.state[u] = run.state[u] /\ s.outbox[u] = run.outbox[u] BY <2>3
      <3>2. s.state[u - 1] = "verified" <=> run.state[u - 1] = "verified" BY <2>0
      <3>3. /\ run.state[u - 1] # "verified" => run.outbox[u] = "held"
            /\ run.state[u - 1] = "verified" /\ run.state[u] = "pending"
                 => run.outbox[u] # "held"
        BY DEF RunInv, ValidRun, ValidTask, ValidOutbox
      <3>4. QED BY <2>1, <3>1, <3>2, <3>3
    <2>4. QED BY <2>2, <2>3
  <1>6. ValidRun(s)
    BY <1>3, <1>4, <1>5 DEF ValidRun, ValidTask, ValidOutbox, StepRules, Waiting, Worked
  <1>7. ASSUME NEW v \in Steps, NEW u \in 1..(v - 1), s.state[u] # "verified"
        PROVE  s.state[v] \in {"pending", "aborted"} /\ s.outbox[v] \notin Waiting
    <2>1. u \in Steps /\ v > u BY <1>0
    <2>2. ~(u \in 1..(t - 1)) BY <2>1, <1>7, <1>0
    <2>3. v > t /\ v # t BY <2>1, <2>2, <1>0
    <2>4. QED BY <2>3, <1>1, <1>4
  <1>8. RunShape(s)
    <2>1. \E u \in Steps : s.state[u] # "verified" OBVIOUS
    <2>2. QED BY <1>3, <1>7, <2>1 DEF RunShape, StepRules, Waiting, Worked
  <1>9. QED BY <1>6, <1>8 DEF RunInv

\* createDeliveryRun makes a valid run.
LEMMA CreatedKeeps ==
  ASSUME TypeOK, RunInv(run), run.condition = "absent"
  PROVE  Keeps(CreatedRun)
  <1> DEFINE s == CreatedRun
  <1>0. StepCount \in Nat \ {0} /\ Steps = 1..StepCount /\ 1 \in Steps
    BY ConstantsAssumption DEF Steps
  <1>1. run = NoRun BY DEF RunInv, RunShape
  <1>b. /\ "preparing" \in Conditions /\ "pending" \in TaskStates
        /\ {"held", "pending"} \subseteq OutboxStates
    BY DEF Conditions, TaskStates, OutboxStates
  <1>2. s \in RunType
    <2>1. ws \in Contents \cup {NoContent} BY DEF TypeOK
    <2>2. NoRun \in RunType BY <1>1 DEF TypeOK
    <2>3. QED BY <2>1, <2>2, <1>0, <1>b DEF CreatedRun, RunType
  <1>3. /\ s.condition = "preparing"
        /\ \A t \in Steps :
             /\ s.state[t] = "pending" /\ s.linked[t] = FALSE /\ s.verdict[t] = "none"
             /\ s.outbox[t] = IF t = 1 THEN "pending" ELSE "held"
             /\ t # 1 => s.expected[t] = NoContent
    BY <1>0 DEF CreatedRun, NoRun
  <1>4. ValidRun(s)
    BY <1>0, <1>3 DEF ValidRun, ValidTask, ValidOutbox
  <1>5. RunShape(s)
    BY <1>0, <1>3 DEF RunShape, Waiting, Worked
  <1>6. QED BY <1>1, <1>2, <1>3, <1>4, <1>5 DEF Keeps, RunInv, NoRun, Worked

\* linkDeliveryRunMission on the step that asks for its mission.
LEMMA LinkedKeeps ==
  ASSUME RunInv(run), NEW t \in Steps, Pending(t), mem[t] # "absent"
  PROVE  Keeps(Linked(t))
  <1> DEFINE s == Linked(t)
  <1>a. run \in RunType BY DEF RunInv
  <1>b. run.outbox[t] \in Waiting BY DEF Pending, Waiting
  <1>1. /\ run.state[t] \in Waiting
        /\ \A u \in 1..(t - 1) : run.state[u] = "verified"
        /\ run.condition \notin {"absent", "aborted"}
    <2>1. run.state[t] \in Waiting BY <1>b DEF RunInv, RunShape, ValidRun, ValidTask, ValidOutbox, Waiting
    <2>2. QED BY <1>b, <2>1, Current
  <1>2. s \in RunType
    BY <1>a DEF Linked, RunType, Conditions, TaskStates, OutboxStates
  <1>3. /\ s.condition = "active"
        /\ \A u \in Steps :
             /\ s.state[u] = IF u = t THEN "mission_linked" ELSE run.state[u]
             /\ s.outbox[u] = IF u = t THEN "applied" ELSE run.outbox[u]
             /\ s.linked[u] = IF u = t THEN TRUE ELSE run.linked[u]
             /\ s.verdict[u] = run.verdict[u] /\ s.expected[u] = run.expected[u]
             /\ s.impl[u] = run.impl[u]
    BY <1>a DEF Linked, RunType
  <1>4. StepRules(s, t)
    <2>1. StepRules(run, t) BY <1>1, RulesOf
    <2>2. QED BY <2>1, <1>1, <1>3 DEF StepRules, Waiting, Worked
  <1>5. RunInv(s)
    BY <1>1, <1>2, <1>3, <1>4, ChangeOfStep DEF Waiting
  <1>6. QED BY <1>1, <1>3, <1>5 DEF Keeps, Waiting, Worked

\* markDeliveryRunMissionReconcileRequired on the step that asks for its mission.
LEMMA UncertainKeeps ==
  ASSUME RunInv(run), NEW t \in Steps, Pending(t)
  PROVE  Keeps(Uncertain(t))
  <1> DEFINE s == Uncertain(t)
  <1>a. run \in RunType BY DEF RunInv
  <1>b. run.outbox[t] \in Waiting BY DEF Pending, Waiting
  <1>1. /\ run.state[t] \in Waiting
        /\ \A u \in 1..(t - 1) : run.state[u] = "verified"
        /\ run.condition \notin {"absent", "aborted"}
    <2>1. run.state[t] \in Waiting BY <1>b DEF RunInv, RunShape, ValidRun, ValidTask, ValidOutbox, Waiting
    <2>2. QED BY <1>b, <2>1, Current
  <1>2. s \in RunType
    BY <1>a DEF Uncertain, RunType, Conditions, TaskStates, OutboxStates
  <1>3. /\ s.condition = "reconcile_required"
        /\ \A u \in Steps :
             /\ s.state[u] = IF u = t THEN "reconcile_required" ELSE run.state[u]
             /\ s.outbox[u] = IF u = t THEN "reconcile_required" ELSE run.outbox[u]
             /\ s.linked[u] = run.linked[u]
             /\ s.verdict[u] = run.verdict[u] /\ s.expected[u] = run.expected[u]
             /\ s.impl[u] = run.impl[u]
    BY <1>a DEF Uncertain, RunType
  <1>4. StepRules(s, t)
    <2>1. StepRules(run, t) BY <1>1, RulesOf
    <2>2. QED BY <2>1, <1>1, <1>3 DEF StepRules, Waiting, Worked
  <1>5. RunInv(s)
    BY <1>1, <1>2, <1>3, <1>4, ChangeOfStep DEF Waiting
  <1>6. QED BY <1>1, <1>3, <1>5 DEF Keeps, Waiting, Worked

\* captureDeliveryRunImplementation of a mission that waits for verification.
LEMMA CapturedKeeps ==
  ASSUME RunInv(run), NEW t \in Steps, NEW content \in Contents,
         content # NoContent, run.state[t] = "mission_linked", mem[t] = "verifying"
  PROVE  Keeps(Captured(t, content))
  <1> DEFINE s == Captured(t, content)
  <1>a. run \in RunType BY DEF RunInv
  <1>1. /\ \A u \in 1..(t - 1) : run.state[u] = "verified"
        /\ run.condition \notin {"absent", "aborted"}
    BY Current
  <1>2. s \in RunType
    BY <1>a DEF Captured, RunType, Conditions, TaskStates
  <1>3. /\ s.condition = "awaiting_verification"
        /\ \A u \in Steps :
             /\ s.state[u] = IF u = t THEN "implementation_captured" ELSE run.state[u]
             /\ s.impl[u] = IF u = t THEN content ELSE run.impl[u]
             /\ s.linked[u] = run.linked[u] /\ s.outbox[u] = run.outbox[u]
             /\ s.verdict[u] = run.verdict[u] /\ s.expected[u] = run.expected[u]
    BY <1>a DEF Captured, RunType
  <1>4. StepRules(s, t)
    <2>1. StepRules(run, t) BY <1>1, RulesOf
    <2>2. QED BY <2>1, <1>1, <1>3 DEF StepRules, Waiting, Worked
  <1>5. RunInv(s)
    BY <1>1, <1>2, <1>3, <1>4, ChangeOfStep
  <1>6. QED BY <1>1, <1>3, <1>5 DEF Keeps, Worked

\* markDeliveryRunOffCourse on the first step that is not settled.
LEMMA OffCourseKeeps ==
  ASSUME RunInv(run), NEW t \in Steps, run.state[t] \notin Settled,
         \A u \in 1..(t - 1) : run.state[u] \in Settled,
         run.condition \notin {"absent", "verified", "aborted", "off_course", "blocked"}
  PROVE  Keeps(OffCourse(t))
  <1> DEFINE s == OffCourse(t)
  <1>a. run \in RunType BY DEF RunInv
  <1>0. StepCount \in Nat /\ Steps = 1..StepCount BY ConstantsAssumption DEF Steps
  <1>1. /\ run.state[t] # "verified"
        /\ \A u \in 1..(t - 1) : run.state[u] = "verified"
    <2>1. \A u \in Steps : StepRules(run, u) BY RulesOf
    <2>2. 1..(t - 1) \subseteq Steps BY <1>0
    <2>3. QED BY <2>1, <2>2 DEF StepRules, Settled
  <1>2. s \in RunType
    BY <1>a DEF OffCourse, RunType, Conditions, TaskStates, OutboxStates
  <1>3. /\ s.condition = "off_course"
        /\ \A u \in Steps :
             /\ s.state[u] = IF u = t THEN "off_course" ELSE run.state[u]
             /\ s.outbox[u] = IF u = t /\ run.outbox[u] # "applied" THEN "blocked"
                              ELSE run.outbox[u]
             /\ s.linked[u] = run.linked[u]
             /\ s.verdict[u] = run.verdict[u] /\ s.expected[u] = run.expected[u]
             /\ s.impl[u] = run.impl[u]
    BY <1>a DEF OffCourse, RunType
  <1>4. StepRules(s, t)
    <2>1. StepRules(run, t) BY RulesOf
    <2>2. QED BY <2>1, <1>1, <1>3 DEF StepRules, Waiting, Worked
  <1>5. RunInv(s)
    BY <1>1, <1>2, <1>3, <1>4, ChangeOfStep
  <1>6. QED BY <1>1, <1>3, <1>5 DEF Keeps, Worked

\* recordDeliveryRunVerification that fails the captured step.
LEMMA FailedKeeps ==
  ASSUME RunInv(run), NEW t \in Steps, run.state[t] = "implementation_captured"
  PROVE  Keeps(Verdict(t, FALSE))
  <1> DEFINE s == Verdict(t, FALSE)
  <1>a. run \in RunType BY DEF RunInv
  <1>1. /\ \A u \in 1..(t - 1) : run.state[u] = "verified"
        /\ run.condition \notin {"absent", "aborted"}
    BY Current
  <1>2. s \in RunType
    BY <1>a DEF Verdict, Decided, RunType, Conditions, TaskStates
  <1>3. /\ s.condition = "blocked"
        /\ \A u \in Steps :
             /\ s.state[u] = IF u = t THEN "failed" ELSE run.state[u]
             /\ s.verdict[u] = IF u = t THEN "failed" ELSE run.verdict[u]
             /\ s.linked[u] = run.linked[u] /\ s.outbox[u] = run.outbox[u]
             /\ s.impl[u] = run.impl[u] /\ s.expected[u] = run.expected[u]
    BY <1>a DEF Verdict, Decided, RunType
  <1>t. StepRules(run, t) BY <1>1, RulesOf
  <1>4. StepRules(s, t)
    BY <1>t, <1>1, <1>3 DEF StepRules, Waiting, Worked
  <1>5. RunInv(s)
    BY <1>1, <1>2, <1>3, <1>4, ChangeOfStep
  <1>6. QED BY <1>t, <1>1, <1>3, <1>5 DEF Keeps, Worked, StepRules

\* recordDeliveryRunVerification that passes the captured step: it finishes the run
\* or releases the next step.
LEMMA PassedKeeps ==
  ASSUME RunInv(run), NEW t \in Steps, run.state[t] = "implementation_captured"
  PROVE  Keeps(Verdict(t, TRUE))
  <1> DEFINE s == Verdict(t, TRUE)
  <1>a. run \in RunType BY DEF RunInv
  <1>0. StepCount \in Nat \ {0} /\ Steps = 1..StepCount
    BY ConstantsAssumption DEF Steps
  <1>1. /\ \A u \in 1..(t - 1) : run.state[u] = "verified"
        /\ \A u \in Steps : u > t => run.state[u] = "pending" /\ run.outbox[u] = "held"
        /\ run.condition \notin {"absent", "aborted", "blocked", "off_course", "verified"}
    BY Current
  <1>2. s \in RunType
    <2>1. CASE t = StepCount
      BY <1>a, <2>1 DEF Verdict, Decided, RunType, Conditions, TaskStates
    <2>2. CASE t # StepCount
      BY <1>a, <2>2 DEF Verdict, Decided, RunType, Conditions, TaskStates, OutboxStates
    <2>3. QED BY <2>1, <2>2
  <1>3. /\ s.condition = IF t = StepCount THEN "verified" ELSE "active"
        /\ \A u \in Steps :
             /\ s.state[u] = IF u = t THEN "verified" ELSE run.state[u]
             /\ s.verdict[u] = IF u = t THEN "verified" ELSE run.verdict[u]
             /\ s.linked[u] = run.linked[u] /\ s.impl[u] = run.impl[u]
             /\ s.outbox[u] = IF u = t + 1 THEN "pending" ELSE run.outbox[u]
             /\ s.expected[u] = IF u = t + 1 THEN run.impl[t] ELSE run.expected[u]
    <2>1. CASE t = StepCount
      <3>1. \A u \in Steps : u # t + 1 BY <2>1, <1>0
      <3>2. QED BY <1>a, <2>1, <3>1 DEF Verdict, Decided, RunType
    <2>2. CASE t # StepCount
      BY <1>a, <2>2 DEF Verdict, Decided, RunType
    <2>3. QED BY <2>1, <2>2
  <1>4. \A u \in Steps : u \in 1..(t - 1) \/ u = t \/ u = t + 1 \/ u > t + 1 BY <1>0
  <1>r. \A u \in Steps : StepRules(run, u) BY <1>1, RulesOf
  <1>5. \A u \in Steps : StepRules(s, u)
    <2> SUFFICES ASSUME NEW u \in Steps PROVE StepRules(s, u) OBVIOUS
    <2>0. StepRules(run, u) /\ (u # t => run.state[u] \in {"verified", "pending"})
      BY <1>r, <1>1, <1>4, <1>0
    <2>1. CASE u = t
      <3>1. u # t + 1 BY <2>1, <1>0
      <3>2. QED BY <2>0, <2>1, <3>1, <1>3 DEF StepRules, Waiting, Worked
    <2>2. CASE u = t + 1
      <3>1. u > t /\ u # t BY <2>2, <1>0
      <3>2. run.state[u] = "pending" /\ run.outbox[u] = "held" BY <3>1, <1>1
      <3>3. QED BY <2>0, <2>2, <3>1, <3>2, <1>3 DEF StepRules, Waiting, Worked
    <2>3. CASE u # t /\ u # t + 1
      BY <2>0, <2>3, <1>3 DEF StepRules, Waiting, Worked
    <2>4. QED BY <2>1, <2>2, <2>3
  <1>6. \A u \in Steps : s.outbox[u] \in Waiting => u = t + 1
    <2> SUFFICES ASSUME NEW u \in Steps, u # t + 1 PROVE s.outbox[u] \notin Waiting OBVIOUS
    <2>1. CASE u > t BY <2>1, <1>1, <1>3 DEF Waiting
    <2>2. CASE ~(u > t)
      <3>1. run.state[u] \in Worked BY <2>2, <1>4, <1>0, <1>1 DEF Worked
      <3>2. run.outbox[u] = "applied" BY <3>1, <1>r DEF StepRules
      <3>3. QED BY <3>2, <1>3 DEF Waiting
    <2>3. QED BY <2>1, <2>2
  <1>7. ASSUME NEW u \in Steps \ {1}
        PROVE  /\ s.expected[u] = IF s.state[u - 1] = "verified" THEN s.impl[u - 1]
                                  ELSE NoContent
               /\ s.state[u - 1] # "verified" => s.outbox[u] = "held"
               /\ s.state[u - 1] = "verified" /\ s.state[u] = "pending" => s.outbox[u] # "held"
    <2>0. u - 1 \in Steps /\ (u = t + 1 <=> u - 1 = t) BY <1>0
    <2>1. CASE u = t + 1
      <3>1. u - 1 = t BY <2>0, <2>1
      <3>2. s.state[u - 1] = "verified" /\ s.impl[u - 1] = run.impl[t] BY <3>1, <1>3
      <3>3. s.expected[u] = run.impl[t] /\ s.outbox[u] = "pending" BY <2>1, <1>3
      <3>4. QED BY <3>2, <3>3
    <2>2. CASE u # t + 1
      <3>1. /\ s.expected[u] = run.expected[u] /\ s.outbox[u] = run.outbox[u]
            /\ s.state[u - 1] = run.state[u - 1] /\ s.impl[u - 1] = run.impl[u - 1]
        BY <2>0, <2>2, <1>3
      <3>2. /\ run.expected[u] = IF run.state[u - 1] = "verified" THEN run.impl[u - 1]
                                 ELSE NoContent
            /\ run.state[u - 1] # "verified" => run.outbox[u] = "held"
            /\ run.state[u - 1] = "verified" /\ run.state[u] = "pending"
                 => run.outbox[u] # "held"
        BY <1>1 DEF RunInv, ValidRun, ValidTask, ValidOutbox
      <3>3. s.state[u] = "pending" => run.state[u] = "pending" BY <1>3
      <3>4. QED BY <3>1, <3>2, <3>3
    <2>3. QED BY <2>1, <2>2
  <1>8. s.condition = "verified" => \A u \in Steps : s.state[u] = "verified"
    <2> SUFFICES ASSUME t = StepCount, NEW u \in Steps PROVE s.state[u] = "verified"
      BY <1>3
    <2>1. CASE u = t BY <2>1, <1>3
    <2>2. CASE u # t
      <3>1. u \in 1..(t - 1) BY <2>2, <1>0
      <3>2. run.state[u] = "verified" BY <3>1, <1>1
      <3>3. s.state[u] = run.state[u] BY <2>2, <1>3
      <3>4. QED BY <3>2, <3>3
    <2>3. QED BY <2>1, <2>2
  <1>9. ValidRun(s)
    <2>1. s.condition \in {"verified", "active"} BY <1>3
    <2>2. \A u, v \in Steps : s.outbox[u] \in Waiting /\ s.outbox[v] \in Waiting => u = v
      BY <1>6
    <2>3. QED
      BY <1>5, <1>7, <1>8, <2>1, <2>2 DEF ValidRun, ValidTask, ValidOutbox, StepRules, Waiting, Worked
  <1>10. ASSUME NEW v \in Steps, NEW u \in 1..(v - 1), s.state[u] # "verified"
         PROVE  s.state[v] \in {"pending", "aborted"} /\ s.outbox[v] \notin Waiting
    <2>1. u \in Steps /\ v > u BY <1>0
    <2>2. u > t
      <3>1. u # t BY <1>10, <2>1, <1>3
      <3>2. ~(u \in 1..(t - 1)) BY <1>10, <2>1, <3>1, <1>1, <1>3
      <3>3. QED BY <3>1, <3>2, <2>1, <1>0
    <2>3. v > t /\ v # t /\ v # t + 1 BY <2>1, <2>2, <1>0
    <2>4. QED BY <2>3, <1>1, <1>3 DEF Waiting
  <1>11. (\A u \in Steps : s.state[u] = "verified") => s.condition = "verified"
    <2> SUFFICES ASSUME t # StepCount PROVE \E u \in Steps : s.state[u] # "verified"
      BY <1>3
    <2>1. t + 1 \in Steps /\ t + 1 > t /\ t + 1 # t BY <1>0
    <2>2. s.state[t + 1] = "pending" BY <2>1, <1>1, <1>3
    <2>3. QED BY <2>1, <2>2
  <1>12. RunShape(s)
    BY <1>3, <1>5, <1>10, <1>11 DEF RunShape, StepRules, Waiting, Worked
  <1>13. QED
    <2>1. RunInv(s) BY <1>2, <1>9, <1>12 DEF RunInv
    <2>2. run.verdict[t] = "none" BY <1>r DEF StepRules
    <2>3. QED BY <2>1, <2>2, <1>1, <1>3 DEF Keeps, Worked

\* abortDeliveryRun
LEMMA AbortedKeeps ==
  ASSUME RunInv(run), run.condition \notin {"absent", "verified", "aborted"}
  PROVE  Keeps(Aborted)
  <1> DEFINE s == Aborted
  <1>a. run \in RunType BY DEF RunInv
  <1>0. StepCount \in Nat \ {0} /\ Steps = 1..StepCount
    BY ConstantsAssumption DEF Steps
  <1>2. s \in RunType
    BY <1>a DEF Aborted, RunType, Conditions, TaskStates, OutboxStates
  <1>3. /\ s.condition = "aborted"
        /\ \A u \in Steps :
             /\ s.state[u] = IF run.state[u] = "verified" THEN "verified" ELSE "aborted"
             /\ s.outbox[u] = IF run.state[u] # "verified" /\ run.outbox[u] # "applied"
                                THEN "canceled" ELSE run.outbox[u]
             /\ s.linked[u] = run.linked[u] /\ s.verdict[u] = run.verdict[u]
             /\ s.impl[u] = run.impl[u] /\ s.expected[u] = run.expected[u]
    BY <1>a DEF Aborted, RunType
  <1>4. \A u \in Steps : StepRules(run, u) BY RulesOf
  <1>5. \A u \in Steps : s.outbox[u] \in {"applied", "canceled"} /\
                         (run.state[u] = "verified" => s.outbox[u] = "applied")
    BY <1>3, <1>4 DEF StepRules, Worked
  <1>6. \E u \in Steps : s.state[u] = "aborted"
    <2>1. PICK u \in Steps : run.state[u] # "verified" BY DEF RunInv, RunShape
    <2>2. QED BY <2>1, <1>3
  <1>7. \A u \in Steps \ {1} :
          s.expected[u] = IF s.state[u - 1] = "verified" THEN s.impl[u - 1] ELSE NoContent
    <2> SUFFICES ASSUME NEW u \in Steps \ {1}
                 PROVE  s.expected[u] = IF s.state[u - 1] = "verified" THEN s.impl[u - 1]
                                        ELSE NoContent
      OBVIOUS
    <2>1. u - 1 \in Steps BY <1>0
    <2>2. run.expected[u] = IF run.state[u - 1] = "verified" THEN run.impl[u - 1]
                            ELSE NoContent
      BY DEF RunInv, ValidRun, ValidTask, ValidOutbox
    <2>3. QED BY <2>1, <2>2, <1>3
  <1>8. ValidRun(s)
    BY <1>3, <1>4, <1>5, <1>6, <1>7 DEF ValidRun, ValidTask, ValidOutbox, StepRules, Worked
  <1>9. ASSUME NEW v \in Steps, NEW u \in 1..(v - 1), s.state[u] # "verified"
        PROVE  s.state[v] \in {"pending", "aborted"} /\ s.outbox[v] \notin Waiting
    <2>1. u \in Steps BY <1>0
    <2>2. run.state[u] # "verified" BY <1>9, <2>1, <1>3
    <2>3. run.state[v] \in {"pending", "aborted"} BY <2>2 DEF RunInv, RunShape
    <2>4. QED BY <2>3, <1>3, <1>5 DEF Waiting
  <1>10. RunShape(s)
    BY <1>3, <1>5, <1>6, <1>9 DEF RunShape, Waiting, Worked
  <1>11. QED BY <1>2, <1>3, <1>4, <1>8, <1>10 DEF Keeps, RunInv, Worked, StepRules

\* A write that is lost changes nothing.
LEMMA KeepsSelf == ASSUME RunInv(run) PROVE Keeps(run)
  BY DEF Keeps

--------------------------------------------------------------------------------
(* What a kind of step needs to keep the invariant.                              *)

\* A write of the run leaves the old run or the new one, even if it throws.
LEMMA RunWrite ==
  ASSUME TypeOK, NEW next, RunWritten(next) \/ RunThrows(next)
  PROVE  run' \in {run, next} /\ dead' \subseteq {"run", "plan"} /\ faults' \in 0..MaxFaults
  <1>1. dead \subseteq {"run", "plan"} /\ faults \in 0..MaxFaults /\ MaxFaults \in Nat
    BY ConstantsAssumption DEF TypeOK
  <1>2. CASE RunWritten(next) BY <1>1, <1>2 DEF RunWritten
  <1>3. CASE RunThrows(next)
    <2>1. run' \in {run, next} /\ dead' \subseteq {"run", "plan"}
      BY <1>1, <1>3 DEF RunThrows
    <2>2. faults' = faults \/ Fault BY <1>3 DEF RunThrows
    <2>3. QED BY <1>1, <2>1, <2>2 DEF Fault
  <1>4. QED BY <1>2, <1>3

\* The same for the plan.
LEMMA PlanWrite ==
  ASSUME TypeOK, NEW next, PlanWritten(next) \/ PlanThrows(next)
  PROVE  plan' \in {plan, next} /\ dead' \subseteq {"run", "plan"} /\ faults' \in 0..MaxFaults
  <1>1. dead \subseteq {"run", "plan"} /\ faults \in 0..MaxFaults /\ MaxFaults \in Nat
    BY ConstantsAssumption DEF TypeOK
  <1>2. CASE PlanWritten(next) BY <1>1, <1>2 DEF PlanWritten
  <1>3. CASE PlanThrows(next)
    <2>1. plan' \in {plan, next} /\ dead' \subseteq {"run", "plan"}
      BY <1>1, <1>3 DEF PlanThrows
    <2>2. faults' = faults \/ Fault BY <1>3 DEF PlanThrows
    <2>3. QED BY <1>1, <2>1, <2>2 DEF Fault
  <1>4. QED BY <1>2, <1>3

\* Steps are numbers.
LEMMA StepsType == StepCount \in Nat \ {0} /\ Steps = 1..StepCount /\ 1 \in Steps
  BY ConstantsAssumption DEF Steps

\* An operation that has ended knows nothing.
LEMMA IdleOp == ASSUME op' = Idle PROVE op' \in OpType /\ OpInv'
  <1>1. op' \in OpType
    <2>1. 1 \in Steps /\ "idle" \in Places BY StepsType DEF Places
    <2>2. QED BY <2>1 DEF Idle, OpType
  <1>2. op'.at = "idle" BY DEF Idle
  <1>3. OpInv' BY <1>2 DEF OpInv
  <1>4. QED BY <1>1, <1>3

\* The missions fit the run after a mutation of it as well.
LEMMA MissionsUnderRun ==
  ASSUME MissionInv, Keeps(run'), UNCHANGED <<mem, disk, sent, up>>
  PROVE  MissionInv'
  <1> SUFFICES ASSUME NEW t \in Steps
               PROVE  /\ Fits(mem[t], t)' /\ Fits(disk[t], t)' /\ Ahead(mem[t], disk[t])'
                      /\ (up /\ mem[t] = "dispatching" => t \in sent)'
    BY DEF MissionInv
  <1>1. /\ Fits(mem[t], t) /\ Fits(disk[t], t) /\ Ahead(mem[t], disk[t])
        /\ up /\ mem[t] = "dispatching" => t \in sent
    BY DEF MissionInv
  <1>2. \A u \in 1..(t - 1) : u \in Steps BY StepsType
  <1>3. Fits(mem[t], t)'
    BY <1>1, <1>2 DEF Fits, Keeps, Past
  <1>4. Fits(disk[t], t)'
    <2>1. mem[t] # "absent" => disk[t] # "absent" BY <1>1 DEF Ahead
    <2>2. mem[t] = "verifying" => disk[t] \in Past BY <1>1 DEF Ahead, Past
    <2>3. mem[t] = "verifying" => t \in sent BY <1>1 DEF Fits
    <2>4. QED BY <1>1, <1>2, <2>1, <2>2, <2>3 DEF Fits, Keeps
  <1>5. QED BY <1>1, <1>3, <1>4 DEF Ahead

\* A step that only decides where the operation goes, or gives the queue back.
LEMMA OpStep ==
  ASSUME Inv, UNCHANGED <<stores, ws, up, sent, crashes>>,
         held' \in {held, "none"}, disp' \in {disp, 0}, held' = held => disp' = disp,
         op' \in OpType, OpInv', held' = "dispatch" => op'.at # "off_course",
         op'.at = "replan" => op.at = "replan" \/ (run.condition = "aborted" /\ Quiet)
  PROVE  Inv'
  <1>1. TypeOK' BY StepsType DEF Inv, TypeOK, stores, missions
  <1>2. RunInv(run)' BY DEF Inv, stores
  <1>3. MissionInv' BY DEF Inv, MissionInv, Fits, stores, missions
  <1>4. DispatchInv' BY DEF Inv, DispatchInv, stores
  <1>5. PlanInv' BY DEF Inv, PlanInv, Quiet, Live, stores, missions
  <1>6. QED BY <1>1, <1>2, <1>3, <1>4, <1>5 DEF Inv

\* A step that changes the run: it is written in a run that goes on, and not under a
\* dispatch.
LEMMA RunStep ==
  ASSUME Inv, Keeps(run'), UNCHANGED <<plan, mem, disk, sent, ws, up, disp, crashes>>,
         dead' \subseteq {"run", "plan"}, faults' \in 0..MaxFaults,
         op' \in OpType, OpInv', op'.at \notin {"replan", "off_course"},
         held' \in {held, "none", "lifecycle"},
         run' # run => /\ held # "dispatch"
                       /\ plan = "approved" \/ run.condition \notin {"absent", "aborted"}
  PROVE  Inv'
  <1>1. TypeOK' BY DEF Inv, TypeOK, Keeps, RunInv
  <1>2. RunInv(run)' BY DEF Keeps
  <1>3. MissionInv' BY MissionsUnderRun DEF Inv
  <1>4. DispatchInv' BY DEF Inv, DispatchInv
  <1>5. PlanInv' BY DEF Inv, PlanInv, Quiet, Live
  <1>6. QED BY <1>1, <1>2, <1>3, <1>4, <1>5 DEF Inv

\* A write of the missions keeps their types, even if it throws.
LEMMA MissionsWrite ==
  ASSUME TypeOK, NEW next \in [Steps -> MissionStatuses],
         MissionsWritten(next) \/ MissionsThrow(next)
  PROVE  /\ mem' \in {mem, next} /\ disk' \in {disk, next}
         /\ mem' \in [Steps -> MissionStatuses] /\ disk' \in [Steps -> MissionStatuses]
         /\ faults' \in 0..MaxFaults
  <1>1. /\ mem \in [Steps -> MissionStatuses] /\ disk \in [Steps -> MissionStatuses]
        /\ faults \in 0..MaxFaults /\ MaxFaults \in Nat
    BY ConstantsAssumption DEF TypeOK
  <1>2. CASE MissionsWritten(next) BY <1>1, <1>2 DEF MissionsWritten
  <1>3. CASE MissionsThrow(next)
    <2>1. Fault /\ disk' \in {disk, next} /\ mem' = mem BY <1>3 DEF MissionsThrow
    <2>2. faults' \in 0..MaxFaults BY <1>1, <2>1 DEF Fault
    <2>3. QED BY <1>1, <2>1, <2>2
  <1>4. QED BY <1>2, <1>3

\* A change of missions that does not touch finished ones, fits the run and does not
\* leave verification but for an end.
Moves(next) ==
  \A t \in Steps : next[t] # mem[t] =>
    /\ Fits(next[t], t) /\ next[t] # "absent" /\ mem[t] \notin MissionTerminal
    /\ mem[t] \in Past => next[t] \in Past
    /\ plan # "approved"

\* A write of such a change keeps the missions fit for the run.
LEMMA MissionsMove ==
  ASSUME MissionInv, up, NEW next, Moves(next), UNCHANGED <<run, up>>,
         MissionsWritten(next) \/ MissionsThrow(next), sent \subseteq sent',
         MissionsWritten(next) =>
           \A t \in Steps : next[t] = "dispatching" => mem[t] = next[t] \/ t \in sent'
  PROVE  MissionInv'
  <1>1. up' BY DEF MissionInv
  <1> SUFFICES ASSUME NEW t \in Steps
               PROVE  /\ Fits(mem[t], t)' /\ Fits(disk[t], t)' /\ Ahead(mem[t], disk[t])'
                      /\ (up /\ mem[t] = "dispatching" => t \in sent)'
    BY <1>1 DEF MissionInv
  <1>2. /\ Fits(mem[t], t) /\ Fits(disk[t], t) /\ Ahead(mem[t], disk[t])
        /\ mem[t] = "dispatching" => t \in sent
    BY DEF MissionInv
  <1>3. Fits(next[t], t) /\ Ahead(mem[t], next[t]) /\ Ahead(next[t], next[t])
    BY <1>2 DEF Moves, Ahead
  <1>4. CASE MissionsWritten(next)
    <2>1. mem' = next /\ disk' = next BY <1>4 DEF MissionsWritten
    <2>2. next[t] = "dispatching" => t \in sent' BY <1>2, <1>4
    <2>3. QED BY <1>3, <2>1, <2>2 DEF Fits, Ahead
  <1>5. CASE MissionsThrow(next)
    <2>1. mem' = mem /\ disk' \in {disk, next} BY <1>5 DEF MissionsThrow
    <2>2. Fits(mem[t], t)' BY <1>2, <2>1 DEF Fits
    <2>3. Fits(disk[t], t)'
      <3>1. CASE disk' = disk BY <1>2, <3>1 DEF Fits
      <3>2. CASE disk' = next BY <1>3, <3>2 DEF Fits
      <3>3. QED BY <2>1, <3>1, <3>2
    <2>4. Ahead(mem[t], disk[t])' BY <1>2, <1>3, <2>1 DEF Ahead
    <2>5. QED BY <1>2, <2>1, <2>2, <2>3, <2>4
  <1>6. QED BY <1>4, <1>5

\* A plan that is open again stays quiet: nothing moves the missions it left behind.
LEMMA QuietMove ==
  ASSUME MissionInv, Quiet, NEW next, Moves(next), UNCHANGED run,
         mem' \in {mem, next}, disk' \in {disk, next}
  PROVE  Quiet'
  <1> SUFFICES ASSUME NEW t \in Steps, run.linked[t]
               PROVE  (~Live(mem, t))' /\ (~Live(disk, t))'
    BY DEF Quiet
  <1>1. ~Live(mem, t) /\ ~Live(disk, t) BY DEF Quiet
  <1>2. mem[t] # "absent" BY DEF MissionInv, Fits
  <1>3. mem[t] \in MissionTerminal BY <1>1, <1>2 DEF Live
  <1>4. next[t] = mem[t] BY <1>3 DEF Moves
  <1>5. QED BY <1>1, <1>4 DEF Live

\* A step that writes such a change.
LEMMA MissionStep ==
  ASSUME Inv, up, NEW next \in [Steps -> MissionStatuses], Moves(next),
         MissionsWritten(next) \/ MissionsThrow(next),
         UNCHANGED <<run, plan, dead, ws, up, crashes>>,
         sent \subseteq sent', sent' \subseteq Steps,
         MissionsWritten(next) =>
           \A t \in Steps : next[t] = "dispatching" => mem[t] = next[t] \/ t \in sent',
         held' \in {held, "none"}, disp' \in {disp, 0}, held' = held => disp' = disp,
         op' \in OpType, OpInv', held' = "dispatch" => op'.at # "off_course",
         op'.at = "replan" => op.at = "replan" \/ (run.condition = "aborted" /\ Quiet')
  PROVE  Inv'
  <1>1. /\ mem' \in {mem, next} /\ disk' \in {disk, next}
        /\ mem' \in [Steps -> MissionStatuses] /\ disk' \in [Steps -> MissionStatuses]
        /\ faults' \in 0..MaxFaults
    BY MissionsWrite DEF Inv
  <1>2. TypeOK' BY <1>1, StepsType DEF Inv, TypeOK
  <1>3. RunInv(run)' BY DEF Inv
  <1>4. MissionInv' BY MissionsMove DEF Inv
  <1>5. DispatchInv' BY DEF Inv, DispatchInv
  <1>6. PlanInv'
    <2>1. plan = "approved" => \A t \in Steps : mem'[t] = "absent" /\ disk'[t] = "absent"
      BY <1>1 DEF Inv, PlanInv, Moves
    <2>2. Quiet => Quiet' BY <1>1, QuietMove DEF Inv
    <2>3. QED BY <2>1, <2>2 DEF Inv, PlanInv
  <1>7. QED BY <1>2, <1>3, <1>4, <1>5, <1>6 DEF Inv

--------------------------------------------------------------------------------
(* Requests and decisions of the lifecycle operation.                            *)

\* The place an operation goes to is the only thing Goes changes.
LEMMA GoesType ==
  ASSUME TypeOK, NEW at \in Places, Goes(at)
  PROVE  /\ op' \in OpType /\ op'.at = at /\ op'.step = op.step /\ op'.base = op.base
         /\ op'.passed = op.passed /\ op'.then = op.then
  BY DEF TypeOK, OpType, Goes

\* reconcileDeliveryRun
LEMMA ReconcileKeeps == ASSUME Inv, Reconcile PROVE Inv'
  <1>1. op' = [Idle EXCEPT !.at = "integrity", !.then = "outbox"] BY DEF Reconcile
  <1>2. op'.at = "integrity" /\ op'.then = "outbox" BY <1>1 DEF Idle
  <1>3. op' \in OpType
    <2>1. 1 \in Steps /\ "integrity" \in Places BY StepsType DEF Places
    <2>2. QED BY <1>1, <2>1 DEF Idle, OpType
  <1>4. OpInv' BY <1>2 DEF Reconcile, OpInv, stores
  <1>5. QED BY <1>2, <1>3, <1>4, OpStep DEF Reconcile

\* With a linked mission that waits for its dispatch the links are intact.
LEMMA RipeIntact ==
  ASSUME Inv, NEW t \in Steps, Ripe(t)
  PROVE  LinksIntact
  <1>0. StepCount \in Nat /\ Steps = 1..StepCount BY StepsType
  <1>1. /\ \A u \in 1..(t - 1) : run.state[u] = "verified"
        /\ \A u \in Steps : u > t => run.state[u] = "pending" /\ run.outbox[u] = "held"
        /\ run.condition # "aborted"
    BY Current DEF Inv, Ripe
  <1> SUFFICES ASSUME NEW u \in Steps
               PROVE  /\ Orphan(u) => Adoptable(u)
                      /\ run.linked[u] => /\ run.outbox[u] = "applied"
                                          /\ mem[u] \in Accepted(run.state[u])
    BY DEF LinksIntact
  <1>2. StepRules(run, u) BY <1>1, RulesOf DEF Inv
  <1>3. Fits(mem[u], u) /\ mem[u] \in MissionStatuses BY DEF Inv, MissionInv, TypeOK
  <1>4. CASE u \in 1..(t - 1)
    <2>1. run.state[u] = "verified" BY <1>4, <1>1
    <2>2. run.linked[u] /\ run.outbox[u] = "applied" /\ run.verdict[u] = "verified"
      BY <2>1, <1>2 DEF StepRules, Worked
    <2>3. mem[u] \in {"verifying", "done"}
      BY <2>1, <2>2, <1>1, <1>3 DEF Fits, Past, Worked, MissionTerminal
    <2>4. QED BY <2>1, <2>2, <2>3 DEF Orphan, Accepted
  <1>5. CASE u = t
    <2>1. run.linked[u] /\ run.outbox[u] = "applied"
      BY <1>5, <1>2 DEF StepRules, Ripe
    <2>2. mem[u] = "ready" /\ run.state[u] = "mission_linked" BY <1>5 DEF Ripe
    <2>3. "ready" \in MissionStatuses \ (MissionTerminal \cup {"absent"})
      BY DEF MissionStatuses, MissionTerminal
    <2>4. QED BY <2>1, <2>2, <2>3 DEF Orphan, Accepted
  <1>6. CASE u > t
    <2>1. ~run.linked[u] BY <1>6, <1>1, <1>2 DEF StepRules, Waiting
    <2>2. run.state[t] # "verified" /\ t \in 1..(u - 1) BY <1>6, <1>0 DEF Ripe
    <2>3. mem[u] = "absent" BY <2>2, <1>3 DEF Fits
    <2>4. QED BY <2>1, <2>3 DEF Orphan
  <1>7. QED BY <1>0, <1>4, <1>5, <1>6

\* deliveryRunMissionLinkIntegrity
LEMMA CheckIntegrityKeeps == ASSUME Inv, CheckIntegrity PROVE Inv'
  <1>0. TypeOK BY DEF Inv
  <1>f. UNCHANGED <<stores, ws, up, held, disp, sent, crashes>> /\ held # "dispatch"
    BY DEF CheckIntegrity, Free
  <1>1. CASE Ends
    <2>1. op' \in OpType /\ OpInv' /\ op'.at = "idle" BY <1>1, IdleOp DEF Ends, Idle
    <2>2. QED BY <1>f, <2>1, OpStep
  <1>2. CASE Goes("finalize")
    <2>1. op' \in OpType /\ op'.at = "finalize" /\ op'.then = op.then
      BY <1>0, <1>2, GoesType DEF Places
    <2>2. run.condition # "absent" /\ op.then # "" BY DEF CheckIntegrity, Inv, OpInv
    <2>3. OpInv' BY <1>f, <2>1, <2>2 DEF OpInv, stores
    <2>4. QED BY <1>f, <2>1, <2>3, OpStep
  <1>3. ASSUME ~LinksIntact, NEW t \in Steps,
               run.state[t] \notin Settled, \A u \in 1..(t - 1) : run.state[u] \in Settled,
               op' = [op EXCEPT !.at = "off_course", !.step = t]
        PROVE  Inv'
    <2>1. op' \in OpType /\ op'.at = "off_course" /\ op'.step = t
      <3>1. "off_course" \in Places BY DEF Places
      <3>2. QED BY <3>1, <1>0, <1>3 DEF TypeOK, OpType
    <2>2. run.condition # "absent" BY DEF CheckIntegrity, Inv, OpInv
    <2>3. \A u \in Steps : ~Ripe(u) BY <1>3, RipeIntact
    <2>4. OpInv' BY <1>f, <2>1, <2>2, <2>3, <1>3 DEF OpInv, Ripe, stores, missions
    <2>5. QED BY <1>f, <2>1, <2>4, OpStep
  <1>4. QED BY <1>1, <1>2, <1>3 DEF CheckIntegrity, Settled

\* The outbox of the run
LEMMA ReadOutboxKeeps == ASSUME Inv, ReadOutbox PROVE Inv'
  <1>0. TypeOK BY DEF Inv
  <1>f. UNCHANGED <<stores, ws, up, held, disp, sent, crashes>> BY DEF ReadOutbox
  <1>1. CASE Ends
    <2>1. op' \in OpType /\ OpInv' /\ op'.at = "idle" BY <1>1, IdleOp DEF Ends, Idle
    <2>2. QED BY <1>f, <2>1, OpStep
  <1>2. ASSUME NEW t \in Steps, Pending(t), NEW at \in {"execute", "drift"},
               op' = [op EXCEPT !.step = t, !.at = at]
        PROVE  Inv'
    <2>1. op' \in OpType /\ op'.at = at /\ op'.step = t
      <3>1. at \in Places BY DEF Places
      <3>2. QED BY <3>1, <1>0, <1>2 DEF TypeOK, OpType
    <2>2. run.condition # "absent" BY DEF ReadOutbox, Inv, OpInv
    <2>3. OpInv' BY <1>f, <2>1, <2>2, <1>2 DEF OpInv, Pending, stores
    <2>4. QED BY <1>f, <2>1, <2>3, OpStep
  <1>3. QED BY <1>1, <1>2 DEF ReadOutbox

\* The reading half of captureDeliveryRunImplementationRequest
LEMMA CaptureReadKeeps == ASSUME Inv, NEW t \in Steps, CaptureRead(t) PROVE Inv'
  <1>1. op' = [Idle EXCEPT !.at = "capture", !.step = t, !.base = ws] BY DEF CaptureRead
  <1>2. op'.at = "capture" /\ op'.step = t /\ op'.base = ws BY <1>1 DEF Idle
  <1>3. op' \in OpType
    <2>1. "capture" \in Places /\ ws \in Contents BY DEF Places, Inv, TypeOK
    <2>2. QED BY <1>1, <2>1 DEF Idle, OpType
  <1>4. ws # NoContent BY ConstantsAssumption DEF Inv, TypeOK, NoContent
  <1>5. run.condition # "absent" /\ mem[t] = "verifying"
    BY DEF CaptureRead, Inv, MissionInv, Fits
  <1>6. OpInv' BY <1>2, <1>4, <1>5 DEF CaptureRead, OpInv, stores, missions
  <1>7. QED BY <1>2, <1>3, <1>6, OpStep DEF CaptureRead

\* The reading half of verifyDeliveryRunTaskRequest
LEMMA VerifyReadKeeps == ASSUME Inv, NEW t \in Steps, VerifyRead(t) PROVE Inv'
  <1>1. PICK passed \in BOOLEAN :
          op' = [Idle EXCEPT !.at = "verify", !.step = t, !.passed = passed]
    BY DEF VerifyRead
  <1>2. op'.at = "verify" /\ op'.step = t BY <1>1 DEF Idle
  <1>3. op' \in OpType
    <2>1. "verify" \in Places BY DEF Places
    <2>2. QED BY <1>1, <2>1 DEF Idle, OpType
  <1>4. run.condition # "absent" /\ mem[t] = "verifying"
    BY DEF VerifyRead, Inv, MissionInv, Fits
  <1>5. OpInv' BY <1>2, <1>4 DEF VerifyRead, OpInv, stores, missions
  <1>6. QED BY <1>2, <1>3, <1>5, OpStep DEF VerifyRead

\* A repeated verification
LEMMA VerifyAgainKeeps == ASSUME Inv, NEW t \in Steps, VerifyAgain(t) PROVE Inv'
  <1>1. op' = [Idle EXCEPT !.at = "repeat", !.step = t] BY DEF VerifyAgain
  <1>2. op'.at = "repeat" /\ op'.step = t BY <1>1 DEF Idle
  <1>3. op' \in OpType
    <2>1. "repeat" \in Places BY DEF Places
    <2>2. QED BY <1>1, <2>1 DEF Idle, OpType
  <1>4. run.condition # "absent"
    BY DEF VerifyAgain, Inv, MissionInv, Fits, MissionTerminal
  <1>5. OpInv' BY <1>2, <1>4 DEF VerifyAgain, OpInv, stores, missions
  <1>6. QED BY <1>2, <1>3, <1>5, OpStep DEF VerifyAgain

--------------------------------------------------------------------------------
(* Writes of the run.                                                            *)

\* A step that waits for its mission is not dispatched, and the run goes on.
LEMMA WaitingStep ==
  ASSUME Inv, NEW t \in Steps, Pending(t)
  PROVE  held # "dispatch" /\ run.condition \notin {"absent", "aborted"}
  <1>1. run.outbox[t] \in Waiting /\ RunInv(run) BY DEF Pending, Waiting, Inv
  <1>2. run.state[t] \in Waiting BY <1>1 DEF RunInv, RunShape, ValidRun, ValidTask, ValidOutbox, Waiting
  <1>3. /\ \A u \in 1..(t - 1) : run.state[u] = "verified"
        /\ \A u \in Steps : u > t => run.state[u] = "pending"
        /\ run.condition \notin {"absent", "aborted"}
    BY <1>1, Current
  <1>4. ASSUME held = "dispatch" PROVE FALSE
    <2>1. disp \in Steps /\ run.state[disp] = "mission_linked"
      BY <1>4 DEF Inv, DispatchInv
    <2>2. disp \in 1..(t - 1) \/ disp = t \/ disp > t BY <2>1, StepsType
    <2>3. QED BY <2>1, <2>2, <1>2, <1>3 DEF Waiting
  <1>5. QED BY <1>3, <1>4

\* startDeliveryRun
LEMMA StartKeeps == ASSUME Inv, Start PROVE Inv'
  <1>1. run.condition = "absent" /\ plan = "approved" /\ held # "dispatch"
    BY DEF Start, Inv, DispatchInv
  <1>2. Keeps(CreatedRun) /\ Keeps(run) BY <1>1, CreatedKeeps, KeepsSelf DEF Inv
  <1>3. /\ run' \in {run, CreatedRun}
        /\ dead' \subseteq {"run", "plan"} /\ faults' \in 0..MaxFaults
    BY RunWrite DEF Start, Inv
  <1>4. Keeps(run') BY <1>2, <1>3
  <1>f. UNCHANGED <<plan, mem, disk, ws, up, held, disp, sent, crashes>>
    BY DEF Start, missions
  <1>5. CASE RunWritten(CreatedRun) /\
             op' = [Idle EXCEPT !.at = "integrity", !.then = "outbox"]
    <2>1. op'.at = "integrity" /\ op'.then = "outbox" BY <1>5 DEF Idle
    <2>2. op' \in OpType
      <3>1. 1 \in Steps /\ "integrity" \in Places BY StepsType DEF Places
      <3>2. QED BY <1>5, <3>1 DEF Idle, OpType
    <2>3. run'.condition # "absent" BY <1>5 DEF RunWritten, CreatedRun, NoRun
    <2>4. OpInv' BY <2>1, <2>3 DEF OpInv
    <2>5. QED BY <1>1, <1>3, <1>4, <1>f, <2>1, <2>2, <2>4, RunStep
  <1>6. CASE UNCHANGED op
    <2>1. op.at = "idle" BY DEF Start, Lifecycle
    <2>2. op' \in OpType /\ OpInv' BY <1>6, <2>1 DEF Inv, TypeOK, OpInv
    <2>3. QED BY <1>1, <1>3, <1>4, <1>6, <1>f, <2>1, <2>2, RunStep
  <1>7. QED BY <1>5, <1>6 DEF Start

\* linkDeliveryRunMission
LEMMA LinkMissionKeeps == ASSUME Inv, LinkMission PROVE Inv'
  <1> DEFINE t == op.step
  <1>1. t \in Steps /\ Pending(t) /\ mem[t] # "absent"
    BY DEF LinkMission, Inv, OpInv, TypeOK, OpType
  <1>2. Keeps(Linked(t)) /\ Keeps(run) BY <1>1, LinkedKeeps, KeepsSelf DEF Inv
  <1>3. /\ run' \in {run, Linked(t)}
        /\ dead' \subseteq {"run", "plan"} /\ faults' \in 0..MaxFaults
    BY RunWrite DEF LinkMission, Inv
  <1>4. Keeps(run') BY <1>2, <1>3
  <1>f. UNCHANGED <<plan, mem, disk, ws, up, held, disp, sent, crashes>>
    BY DEF LinkMission, missions
  <1>5. held # "dispatch" /\ run.condition \notin {"absent", "aborted"}
    BY <1>1, WaitingStep
  <1>6. CASE Ends
    <2>1. op' \in OpType /\ OpInv' /\ op'.at = "idle" BY <1>6, IdleOp DEF Ends, Idle
    <2>2. QED BY <1>3, <1>4, <1>5, <1>f, <2>1, RunStep
  <1>7. CASE Goes("uncertain")
    <2>1. op' \in OpType /\ op'.at = "uncertain" /\ op'.step = t
      BY <1>7, GoesType DEF Inv, Places
    <2>2. run'.condition # "absent" BY <1>4, <1>5 DEF Keeps
    <2>3. run'.state[t] = "pending" => run' = run
      <3>1. run.state \in [Steps -> TaskStates] BY DEF Inv, TypeOK, RunType
      <3>2. Linked(t).state[t] = "mission_linked" BY <1>1, <3>1 DEF Linked
      <3>3. QED BY <1>3, <3>2
    <2>4. OpInv' BY <1>1, <2>1, <2>2, <2>3 DEF OpInv, Pending
    <2>5. QED BY <1>3, <1>4, <1>5, <1>f, <2>1, <2>4, RunStep
  <1>8. QED BY <1>6, <1>7 DEF LinkMission

\* markDeliveryRunMissionReconcileRequired
LEMMA MarkUncertainKeeps == ASSUME Inv, MarkUncertain PROVE Inv'
  <1> DEFINE t == op.step
  <1>0. t \in Steps BY DEF Inv, TypeOK, OpType
  <1>f. UNCHANGED <<plan, mem, disk, ws, up, held, disp, sent, crashes>>
    BY DEF MarkUncertain, missions
  <1>o. op' \in OpType /\ OpInv' /\ op'.at = "idle"
    BY IdleOp DEF MarkUncertain, Ends, Idle
  <1>1. CASE run.state[t] = "pending" /\
             (RunWritten(Uncertain(t)) \/ RunThrows(Uncertain(t)))
    <2>1. Pending(t) BY <1>1 DEF MarkUncertain, Inv, OpInv
    <2>2. Keeps(Uncertain(t)) /\ Keeps(run)
      BY <1>0, <2>1, UncertainKeeps, KeepsSelf DEF Inv
    <2>3. /\ run' \in {run, Uncertain(t)}
          /\ dead' \subseteq {"run", "plan"} /\ faults' \in 0..MaxFaults
      BY <1>1, RunWrite DEF Inv
    <2>4. held # "dispatch" /\ run.condition \notin {"absent", "aborted"}
      BY <1>0, <2>1, WaitingStep
    <2>5. QED BY <1>f, <1>o, <2>2, <2>3, <2>4, RunStep
  <1>2. CASE UNCHANGED <<run, dead, faults>>
    <2>1. Keeps(run') BY <1>2, KeepsSelf DEF Inv
    <2>2. QED BY <1>2, <1>f, <1>o, <2>1, RunStep DEF Inv, TypeOK
  <1>3. QED BY <1>1, <1>2 DEF MarkUncertain

\* markDeliveryRunOffCourse
LEMMA MarkOffCourseKeeps == ASSUME Inv, MarkOffCourse PROVE Inv'
  <1> DEFINE t == op.step
             markable == run.condition \notin {"verified", "aborted", "off_course", "blocked"}
  <1>0. t \in Steps BY DEF Inv, TypeOK, OpType
  <1>f. UNCHANGED <<plan, mem, disk, ws, up, held, disp, sent, crashes>>
    BY DEF MarkOffCourse, missions
  <1>p. op.at = "drift" => Pending(t) BY DEF Inv, OpInv
  <1>a. run.condition # "absent" BY DEF MarkOffCourse, Inv, OpInv
  <1>1. CASE markable
    <2>1. /\ run.state[t] \notin Settled
          /\ \A u \in 1..(t - 1) : run.state[u] \in Settled
      <3>1. CASE op.at = "off_course" BY <3>1 DEF Inv, OpInv
      <3>2. CASE op.at = "drift"
        <4>1. run.outbox[t] \in Waiting /\ RunInv(run)
          BY <1>p, <3>2 DEF Pending, Waiting, Inv
        <4>2. QED BY <1>0, <4>1, Current DEF Settled, Waiting
      <3>3. QED BY <3>1, <3>2 DEF MarkOffCourse
    <2>2. Keeps(OffCourse(t)) /\ Keeps(run)
      BY <1>0, <1>1, <1>a, <2>1, OffCourseKeeps, KeepsSelf DEF Inv
    <2>3. /\ run' \in {run, OffCourse(t)}
          /\ dead' \subseteq {"run", "plan"} /\ faults' \in 0..MaxFaults
      BY <1>1, RunWrite DEF Inv, MarkOffCourse
    <2>4. held # "dispatch"
      BY <1>0, <1>p, WaitingStep DEF MarkOffCourse, Inv, DispatchInv
    <2>5. Keeps(run') BY <2>2, <2>3
    <2>6. CASE Ends
      <3>1. op' \in OpType /\ OpInv' /\ op'.at = "idle" BY <2>6, IdleOp DEF Ends, Idle
      <3>2. QED BY <1>f, <1>1, <1>a, <2>3, <2>4, <2>5, <3>1, RunStep
    <2>7. CASE op.at = "drift" /\ Goes("uncertain")
      <3>1. op' \in OpType /\ op'.at = "uncertain" /\ op'.step = t
        BY <2>7, GoesType DEF Inv, Places
      <3>2. run'.condition # "absent" BY <2>5, <1>a DEF Keeps
      <3>3. run'.state[t] = "pending" => run' = run
        <4>1. run.state \in [Steps -> TaskStates] BY DEF Inv, TypeOK, RunType
        <4>2. OffCourse(t).state[t] = "off_course" BY <1>0, <4>1 DEF OffCourse
        <4>3. QED BY <2>3, <4>2
      <3>4. OpInv' BY <1>p, <2>7, <3>1, <3>2, <3>3 DEF OpInv, Pending
      <3>5. QED BY <1>f, <1>1, <1>a, <2>3, <2>4, <2>5, <3>1, <3>4, RunStep
    <2>8. QED BY <1>1, <2>6, <2>7 DEF MarkOffCourse
  <1>2. CASE ~markable
    <2>1. UNCHANGED <<run, dead, faults>> BY <1>2 DEF MarkOffCourse
    <2>2. CASE Ends
      <3>1. op' \in OpType /\ OpInv' /\ op'.at = "idle" BY <2>2, IdleOp DEF Ends, Idle
      <3>2. Keeps(run') BY <2>1, KeepsSelf DEF Inv
      <3>3. QED BY <1>f, <2>1, <3>1, <3>2, RunStep DEF Inv, TypeOK
    <2>3. CASE op.at = "drift" /\ Goes("uncertain")
      <3>1. op' \in OpType /\ op'.at = "uncertain" /\ op'.step = t
        BY <2>3, GoesType DEF Inv, Places
      <3>2. OpInv' BY <1>a, <1>p, <2>1, <2>3, <3>1 DEF OpInv, Pending
      <3>3. Keeps(run') BY <2>1, KeepsSelf DEF Inv
      <3>4. QED BY <1>f, <2>1, <3>1, <3>2, <3>3, RunStep DEF Inv, TypeOK
    <2>4. QED BY <1>2, <2>2, <2>3 DEF MarkOffCourse
  <1>3. QED BY <1>1, <1>2

\* The writing half of captureDeliveryRunImplementationRequest
LEMMA CaptureWriteKeeps == ASSUME Inv, CaptureWrite PROVE Inv'
  <1> DEFINE t == op.step
  <1>0. t \in Steps /\ op.base \in Contents /\ op.base # NoContent /\ mem[t] = "verifying"
    BY DEF CaptureWrite, Inv, OpInv, TypeOK, OpType
  <1>f. UNCHANGED <<plan, mem, disk, ws, up, held, disp, sent, crashes>> /\ held # "dispatch"
    BY DEF CaptureWrite, missions, Free
  <1>o. op' \in OpType /\ OpInv' /\ op'.at = "idle"
    BY IdleOp DEF CaptureWrite, Ends, Idle
  <1>1. CASE run.state[t] = "mission_linked" /\
             (RunWritten(Captured(t, op.base)) \/ RunThrows(Captured(t, op.base)))
    <2>1. Keeps(Captured(t, op.base)) /\ Keeps(run)
      BY <1>0, <1>1, CapturedKeeps, KeepsSelf DEF Inv
    <2>2. /\ run' \in {run, Captured(t, op.base)}
          /\ dead' \subseteq {"run", "plan"} /\ faults' \in 0..MaxFaults
      BY <1>1, RunWrite DEF Inv
    <2>3. run.condition \notin {"absent", "aborted"} BY <1>0, <1>1, Current DEF Inv
    <2>4. Keeps(run') BY <2>1, <2>2
    <2>5. QED BY <1>f, <1>o, <2>2, <2>3, <2>4, RunStep
  <1>2. CASE UNCHANGED <<run, dead, faults>>
    <2>1. Keeps(run') BY <1>2, KeepsSelf DEF Inv
    <2>2. QED BY <1>2, <1>f, <1>o, <2>1, RunStep DEF Inv, TypeOK
  <1>3. QED BY <1>1, <1>2 DEF CaptureWrite

\* recordDeliveryRunVerification, under the mission queue
LEMMA VerifyWriteKeeps == ASSUME Inv, VerifyWrite PROVE Inv'
  <1> DEFINE t == op.step
             next == Verdict(t, op.passed)
  <1>0. /\ t \in Steps /\ op.passed \in BOOLEAN
        /\ mem[t] = "verifying" /\ run.state[t] = "implementation_captured"
    BY DEF VerifyWrite, Inv, OpInv, TypeOK, OpType
  <1>f. UNCHANGED <<plan, mem, disk, ws, up, disp, sent, crashes>> /\ held # "dispatch"
    BY DEF VerifyWrite, missions, Free
  <1>1. Keeps(next) /\ Keeps(run)
    BY <1>0, PassedKeeps, FailedKeeps, KeepsSelf DEF Inv
  <1>2. /\ run' \in {run, next}
        /\ dead' \subseteq {"run", "plan"} /\ faults' \in 0..MaxFaults
    BY RunWrite DEF Inv, VerifyWrite
  <1>3. run.condition \notin {"absent", "aborted"} BY <1>0, Current DEF Inv
  <1>4. Keeps(run') BY <1>1, <1>2
  <1>5. CASE RunWritten(next) /\ Goes("conclude") /\ held' = "lifecycle"
    <2>1. op' \in OpType /\ op'.at = "conclude" /\ op'.step = t
      BY <1>5, GoesType DEF Inv, Places
    <2>2. run'.condition # "absent" BY <1>3, <1>4 DEF Keeps
    <2>3. run'.verdict[t] # "none"
      <3>1. run'.state[t] \in {"verified", "failed"}
        <4>1. run.state \in [Steps -> TaskStates] BY DEF Inv, TypeOK, RunType
        <4>2. next.state[t] = Decided(op.passed) BY <1>0, <4>1 DEF Verdict
        <4>3. QED BY <1>5, <4>2 DEF RunWritten, Decided
      <3>2. QED BY <1>0, <1>4, <3>1 DEF Keeps, RunInv, ValidRun, ValidTask, ValidOutbox
    <2>4. OpInv' BY <1>0, <1>f, <2>1, <2>2, <2>3 DEF OpInv
    <2>5. QED BY <1>2, <1>3, <1>4, <1>5, <1>f, <2>1, <2>4, RunStep
  <1>6. CASE Ends /\ UNCHANGED held
    <2>1. op' \in OpType /\ OpInv' /\ op'.at = "idle" BY <1>6, IdleOp DEF Ends, Idle
    <2>2. QED BY <1>2, <1>3, <1>4, <1>6, <1>f, <2>1, RunStep
  <1>7. QED BY <1>5, <1>6 DEF VerifyWrite

\* abortDeliveryRun
LEMMA AbortKeeps == ASSUME Inv, Abort PROVE Inv'
  <1>f. UNCHANGED <<plan, mem, disk, ws, up, disp, sent, crashes>> /\ held # "dispatch"
    BY DEF Abort, missions, Free
  <1>a. run.condition \notin {"absent", "verified"} BY DEF Abort
  <1>1. ASSUME op' = [Idle EXCEPT !.at = "cancel"], held' = "lifecycle",
               run'.condition = "aborted", Keeps(run'),
               dead' \subseteq {"run", "plan"}, faults' \in 0..MaxFaults,
               run' # run => run.condition # "aborted"
        PROVE  Inv'
    <2>1. op'.at = "cancel" BY <1>1 DEF Idle
    <2>2. op' \in OpType
      <3>1. 1 \in Steps /\ "cancel" \in Places BY StepsType DEF Places
      <3>2. QED BY <1>1, <3>1 DEF Idle, OpType
    <2>3. OpInv' BY <1>1, <2>1 DEF OpInv
    <2>4. QED BY <1>1, <1>a, <1>f, <2>1, <2>2, <2>3, RunStep
  <1>2. CASE run.condition = "aborted"
    <2>1. UNCHANGED <<run, dead, faults>> BY <1>2 DEF Abort
    <2>2. Keeps(run') BY <2>1, KeepsSelf DEF Inv
    <2>3. op' = [Idle EXCEPT !.at = "cancel"] /\ held' = "lifecycle" BY <1>2 DEF Abort
    <2>4. QED BY <1>1, <1>2, <2>1, <2>2, <2>3 DEF Inv, TypeOK
  <1>3. CASE run.condition # "aborted"
    <2>1. Keeps(Aborted) /\ Keeps(run) BY <1>3, <1>a, AbortedKeeps, KeepsSelf DEF Inv
    <2>2. /\ run' \in {run, Aborted}
          /\ dead' \subseteq {"run", "plan"} /\ faults' \in 0..MaxFaults
      BY <1>3, RunWrite DEF Inv, Abort
    <2>3. Keeps(run') BY <2>1, <2>2
    <2>4. CASE RunWritten(Aborted)
               /\ op' = [Idle EXCEPT !.at = "cancel"] /\ held' = "lifecycle"
      <3>1. run \in RunType BY DEF Inv, TypeOK
      <3>2. Aborted.condition = "aborted" BY <3>1 DEF Aborted, RunType
      <3>3. run'.condition = "aborted" BY <2>4, <3>2 DEF RunWritten
      <3>4. QED BY <1>1, <1>3, <2>2, <2>3, <2>4, <3>3
    <2>5. CASE RunThrows(Aborted) /\ UNCHANGED <<op, held>>
      <3>1. op.at = "idle" BY DEF Abort, Lifecycle
      <3>2. op' \in OpType /\ OpInv' BY <2>5, <3>1 DEF Inv, TypeOK, OpInv
      <3>3. QED BY <1>3, <1>a, <1>f, <2>2, <2>3, <2>5, <3>1, <3>2, RunStep
    <2>6. QED BY <1>3, <2>4, <2>5 DEF Abort
  <1>4. QED BY <1>2, <1>3

--------------------------------------------------------------------------------
(* Writes of the plan.                                                           *)

\* What a write of the plan needs to keep the invariant.
LEMMA PlanStep ==
  ASSUME Inv, UNCHANGED <<run, mem, disk, ws, up, held, disp, sent, crashes>>,
         plan' \in PlanPhases, dead' \subseteq {"run", "plan"}, faults' \in 0..MaxFaults,
         op' \in OpType, OpInv', op'.at # "off_course",
         plan' = "approved" => plan = "approved",
         plan' = "planning" \/ op'.at = "replan" =>
           run.condition \in {"absent", "aborted"} /\ Quiet
  PROVE  Inv'
  <1>1. TypeOK' BY DEF Inv, TypeOK
  <1>2. RunInv(run)' BY DEF Inv
  <1>3. MissionInv' BY DEF Inv, MissionInv, Fits
  <1>4. DispatchInv' BY DEF Inv, DispatchInv
  <1>5. PlanInv' BY DEF Inv, PlanInv, Quiet, Live
  <1>6. QED BY <1>1, <1>2, <1>3, <1>4, <1>5 DEF Inv

\* ensureDeliveryRunPlanExecuting
LEMMA EnsureExecutingKeeps == ASSUME Inv, EnsureExecuting PROVE Inv'
  <1>f. UNCHANGED <<run, mem, disk, ws, up, held, disp, sent, crashes>>
    BY DEF EnsureExecuting, missions
  <1>a. op.at = "execute" /\ run.condition # "absent" /\ Pending(op.step)
    BY DEF EnsureExecuting, Inv, OpInv
  <1>b. run.condition \notin {"absent", "aborted"}
    BY <1>a, WaitingStep DEF Inv, TypeOK, OpType
  <1>c. plan # "planning" BY <1>b DEF Inv, PlanInv
  <1>1. /\ plan' \in {plan, "executing"} /\ dead' \subseteq {"run", "plan"}
        /\ faults' \in 0..MaxFaults
    BY PlanWrite DEF EnsureExecuting, Inv, TypeOK
  <1>2. plan' \in PlanPhases BY <1>1 DEF Inv, TypeOK, PlanPhases
  <1>3. CASE Goes("ensure") /\ plan' = "executing"
    <2>1. op' \in OpType /\ op'.at = "ensure" /\ op'.step = op.step
      BY <1>3, GoesType DEF Inv, Places
    <2>2. OpInv' BY <1>f, <1>a, <1>3, <2>1 DEF OpInv, Pending
    <2>3. QED BY <1>f, <1>1, <1>2, <1>3, <2>1, <2>2, PlanStep
  <1>4. CASE Goes("uncertain")
    <2>1. op' \in OpType /\ op'.at = "uncertain" /\ op'.step = op.step
      BY <1>4, GoesType DEF Inv, Places
    <2>2. OpInv' BY <1>f, <1>a, <2>1 DEF OpInv, Pending
    <2>3. QED BY <1>f, <1>c, <1>1, <1>2, <2>1, <2>2, PlanStep
  <1>5. QED BY <1>3, <1>4 DEF EnsureExecuting, PlanWritten

\* advanceVerifiedDeliveryPlan
LEMMA AdvancePlanKeeps == ASSUME Inv, AdvancePlan PROVE Inv'
  <1>f. UNCHANGED <<run, mem, disk, ws, up, held, disp, sent, crashes>>
    BY DEF AdvancePlan, missions
  <1>1. /\ plan' \in {plan, "verifying", "ready_to_release"}
        /\ dead' \subseteq {"run", "plan"} /\ faults' \in 0..MaxFaults
        /\ plan' = plan \/ plan' \notin {"approved", "planning"}
    <2>0. TypeOK /\ dead \subseteq {"run", "plan"} /\ faults \in 0..MaxFaults
      BY DEF Inv, TypeOK
    <2>1. CASE PlanWritten("verifying") \/ PlanThrows("verifying") BY <2>0, <2>1, PlanWrite
    <2>2. CASE PlanWritten("ready_to_release") \/ PlanThrows("ready_to_release")
      BY <2>0, <2>2, PlanWrite
    <2>3. CASE UNCHANGED <<plan, dead, faults>> BY <2>0, <2>3
    <2>4. QED BY <2>1, <2>2, <2>3 DEF AdvancePlan
  <1>2. plan' \in PlanPhases BY <1>1 DEF Inv, TypeOK, PlanPhases
  <1>3. op' \in OpType /\ OpInv' /\ op'.at \in {"idle", "advance"}
    <2>1. CASE Ends BY <2>1, IdleOp DEF Ends, Idle
    <2>2. CASE UNCHANGED op
      <3>1. op.at = "advance" BY DEF AdvancePlan
      <3>2. QED BY <1>f, <2>2, <3>1 DEF Inv, TypeOK, OpInv
    <2>3. QED BY <2>1, <2>2 DEF AdvancePlan
  <1>4. plan' = "planning" => run.condition \in {"absent", "aborted"} /\ Quiet
    BY <1>1 DEF Inv, PlanInv
  <1>5. QED BY <1>f, <1>1, <1>2, <1>3, <1>4, PlanStep

\* advanceAbortedDeliveryPlan
LEMMA ReplanAbortedKeeps == ASSUME Inv, ReplanAborted PROVE Inv'
  <1>f. UNCHANGED <<run, mem, disk, ws, up, held, disp, sent, crashes>>
    BY DEF ReplanAborted, missions
  <1>1. /\ plan' \in {plan, "planning"} /\ dead' \subseteq {"run", "plan"}
        /\ faults' \in 0..MaxFaults
    BY PlanWrite DEF ReplanAborted, Inv, TypeOK
  <1>2. plan' \in PlanPhases BY <1>1 DEF Inv, TypeOK, PlanPhases
  <1>3. op' \in OpType /\ OpInv' /\ op'.at = "idle"
    BY IdleOp DEF ReplanAborted, Ends, Idle
  <1>4. run.condition \in {"absent", "aborted"} /\ Quiet
    BY DEF ReplanAborted, Inv, PlanInv
  <1>5. QED BY <1>f, <1>1, <1>2, <1>3, <1>4, PlanStep

\* transitionDeliveryPlanRecord
LEMMA OperatorReplansKeeps == ASSUME Inv, OperatorReplans PROVE Inv'
  <1>f. UNCHANGED <<run, mem, disk, ws, up, op, held, disp, sent, crashes>>
    BY DEF OperatorReplans, missions
  <1>1. /\ plan' \in {plan, "planning"} /\ dead' \subseteq {"run", "plan"}
        /\ faults' \in 0..MaxFaults
    BY PlanWrite DEF OperatorReplans, Inv
  <1>2. plan' \in PlanPhases BY <1>1 DEF Inv, TypeOK, PlanPhases
  <1>3. op' \in OpType /\ OpInv' /\ op'.at = "idle"
    BY <1>f DEF OperatorReplans, Lifecycle, Inv, TypeOK, OpInv
  <1>4. run.condition \in {"absent", "aborted"} /\ Quiet
    BY DEF OperatorReplans, Inv, PlanInv, Quiet, Live
  <1>5. QED BY <1>f, <1>1, <1>2, <1>3, <1>4, PlanStep

--------------------------------------------------------------------------------
(* Writes of the missions by the lifecycle operation.                            *)

\* ensureDeliveryMission
LEMMA EnsureMissionKeeps == ASSUME Inv, EnsureMission PROVE Inv'
  <1> DEFINE t == op.step
             next == [mem EXCEPT ![t] = "ready"]
  <1>f. /\ UNCHANGED <<run, plan, dead, ws, up, held, disp, sent, crashes>>
        /\ up /\ held # "dispatch"
    BY DEF EnsureMission, Free
  <1>0. /\ t \in Steps /\ Pending(t) /\ plan = "executing" /\ run.condition # "absent"
        /\ mem \in [Steps -> MissionStatuses] /\ sent \subseteq Steps
    BY DEF EnsureMission, Inv, OpInv, TypeOK, OpType
  <1>1. CASE mem[t] = "absent" /\ (MissionsWritten(next) \/ MissionsThrow(next))
             /\ ((MissionsWritten(next) /\ Goes("link")) \/ Goes("uncertain"))
    <2>1. next \in [Steps -> MissionStatuses] BY <1>0 DEF MissionStatuses
    <2>2. Moves(next)
      <3>1. Fits("ready", t)
        <4>1. run.outbox[t] \in Waiting /\ RunInv(run) BY <1>0 DEF Pending, Waiting, Inv
        <4>2. run.state[t] \in Waiting BY <1>0, <4>1 DEF RunInv, RunShape, ValidRun, ValidTask, ValidOutbox, Waiting
        <4>3. \A u \in 1..(t - 1) : run.state[u] = "verified" BY <1>0, <4>1, Current
        <4>4. QED BY <1>0, <4>2, <4>3 DEF Fits, Waiting, Worked
      <3>2. QED BY <1>0, <1>1, <3>1 DEF Moves, MissionTerminal, Past
    <2>3. \A u \in Steps : next[u] = "dispatching" => mem[u] = next[u]
      <3>1. \A u \in Steps : next[u] = IF u = t THEN "ready" ELSE mem[u] BY <1>0
      <3>2. QED BY <3>1
    <2>4. CASE MissionsWritten(next) /\ Goes("link")
      <3>1. op' \in OpType /\ op'.at = "link" /\ op'.step = t
        BY <2>4, GoesType DEF Inv, Places
      <3>2. mem'[t] = "ready" BY <1>0, <2>4 DEF MissionsWritten
      <3>3. OpInv' BY <1>f, <1>0, <3>1, <3>2 DEF OpInv, Pending
      <3>4. QED BY <1>f, <1>0, <1>1, <2>1, <2>2, <2>3, <3>1, <3>3, MissionStep
    <2>5. CASE Goes("uncertain")
      <3>1. op' \in OpType /\ op'.at = "uncertain" /\ op'.step = t
        BY <2>5, GoesType DEF Inv, Places
      <3>2. OpInv' BY <1>f, <1>0, <3>1 DEF OpInv, Pending
      <3>3. QED BY <1>f, <1>0, <1>1, <2>1, <2>2, <2>3, <3>1, <3>2, MissionStep
    <2>6. QED BY <1>1, <2>4, <2>5
  <1>2. CASE UNCHANGED <<missions, faults>> /\ Live(mem, t) /\ Goes("link")
    <2>1. op' \in OpType /\ op'.at = "link" /\ op'.step = t
      BY <1>2, GoesType DEF Inv, Places
    <2>2. OpInv' BY <1>f, <1>0, <1>2, <2>1 DEF OpInv, Pending, Live, missions
    <2>3. QED BY <1>f, <1>2, <2>1, <2>2, OpStep DEF stores
  <1>3. CASE UNCHANGED <<missions, faults>> /\ Goes("uncertain")
    <2>1. op' \in OpType /\ op'.at = "uncertain" /\ op'.step = t
      BY <1>3, GoesType DEF Inv, Places
    <2>2. OpInv' BY <1>f, <1>0, <2>1 DEF OpInv, Pending
    <2>3. QED BY <1>f, <1>3, <2>1, <2>2, OpStep DEF stores
  <1>4. QED BY <1>1, <1>2, <1>3 DEF EnsureMission

\* The end the run has decided on fits a mission that waits for verification.
LEMMA EndMoves ==
  ASSUME Inv, NEW t \in Steps, mem[t] = "verifying", run.verdict[t] # "none"
  PROVE  /\ [mem EXCEPT ![t] = Outcome(t)] \in [Steps -> MissionStatuses]
         /\ Moves([mem EXCEPT ![t] = Outcome(t)])
         /\ \A u \in Steps : [mem EXCEPT ![t] = Outcome(t)][u] = "dispatching"
                               => mem[u] = [mem EXCEPT ![t] = Outcome(t)][u]
  <1> DEFINE next == [mem EXCEPT ![t] = Outcome(t)]
  <1>0. mem \in [Steps -> MissionStatuses] BY DEF Inv, TypeOK
  <1>1. Outcome(t) \in {"done", "failed"} BY DEF Outcome
  <1>2. \A u \in Steps : next[u] = IF u = t THEN Outcome(t) ELSE mem[u] BY <1>0
  <1>3. next \in [Steps -> MissionStatuses] BY <1>0, <1>1 DEF MissionStatuses
  <1>4. Fits(Outcome(t), t)
    <2>1. Fits("verifying", t) BY DEF Inv, MissionInv
    <2>2. run.verdict[t] \in {"verified", "failed"} BY DEF Inv, TypeOK, RunType
    <2>3. Outcome(t) = "done" => run.verdict[t] = "verified" BY DEF Outcome
    <2>4. Outcome(t) = "failed" => run.verdict[t] = "failed" BY <2>2 DEF Outcome
    <2>5. QED BY <1>1, <2>1, <2>3, <2>4 DEF Fits, Past, MissionTerminal
  <1>5. plan # "approved" BY DEF Inv, PlanInv
  <1>6. Moves(next)
    <2> SUFFICES ASSUME NEW u \in Steps, next[u] # mem[u]
                 PROVE  /\ Fits(next[u], u) /\ next[u] # "absent"
                        /\ mem[u] \notin MissionTerminal
                        /\ mem[u] \in Past => next[u] \in Past
      BY <1>5 DEF Moves
    <2>1. u = t /\ next[u] = Outcome(t) BY <1>2
    <2>2. QED BY <2>1, <1>1, <1>4 DEF Past, MissionTerminal
  <1>7. \A u \in Steps : next[u] = "dispatching" => mem[u] = next[u] BY <1>1, <1>2
  <1>8. QED BY <1>3, <1>6, <1>7

\* finalizeDeliveryMission
LEMMA FinalizeKeeps == ASSUME Inv, Finalize PROVE Inv'
  <1>f. /\ UNCHANGED <<run, plan, dead, ws, up, held, disp, sent, crashes>>
        /\ up /\ held # "dispatch" /\ sent \subseteq Steps
    BY DEF Finalize, Free, Inv, TypeOK
  <1>a. run.condition # "absent" /\ op.then \in {"outbox", "advance"}
    BY DEF Finalize, Inv, OpInv, TypeOK, OpType
  <1>1. CASE Goes(op.then) /\ UNCHANGED <<missions, faults>>
    <2>1. op' \in OpType /\ op'.at = op.then BY <1>1, <1>a, GoesType DEF Inv, Places
    <2>2. OpInv' BY <1>f, <1>a, <2>1 DEF OpInv
    <2>3. QED BY <1>f, <1>1, <1>a, <2>1, <2>2, OpStep DEF stores
  <1>2. ASSUME NEW t \in Unfinished, mem[t] = "verifying",
               \/ MissionsWritten([mem EXCEPT ![t] = Outcome(t)]) /\ UNCHANGED op
               \/ MissionsThrow([mem EXCEPT ![t] = Outcome(t)]) /\ Ends
        PROVE  Inv'
    <2>1. t \in Steps /\ run.verdict[t] # "none"
      BY DEF Unfinished, Inv, RunInv, ValidRun, ValidTask, ValidOutbox
    <2>2. op' \in OpType /\ OpInv' /\ op'.at \in {"finalize", "idle"}
      <3>1. CASE Ends BY <3>1, IdleOp DEF Ends, Idle
      <3>2. CASE UNCHANGED op
        <4>1. op.at = "finalize" BY DEF Finalize
        <4>2. QED BY <1>f, <1>a, <3>2, <4>1 DEF Inv, TypeOK, OpInv
      <3>3. QED BY <1>2, <3>1, <3>2
    <2>3. QED BY <1>f, <1>2, <2>1, <2>2, EndMoves, MissionStep
  <1>3. CASE Ends /\ UNCHANGED <<missions, faults>>
    <2>1. op' \in OpType /\ OpInv' /\ op'.at = "idle" BY <1>3, IdleOp DEF Ends, Idle
    <2>2. QED BY <1>f, <1>3, <2>1, OpStep DEF stores
  <1>4. CASE Unfinished = {} BY <1>1, <1>4 DEF Finalize
  <1>5. CASE Unfinished # {}
    <2>1. PICK t \in Unfinished :
            IF mem[t] # "verifying" THEN Ends /\ UNCHANGED <<missions, faults>>
            ELSE \/ MissionsWritten([mem EXCEPT ![t] = Outcome(t)]) /\ UNCHANGED op
                 \/ MissionsThrow([mem EXCEPT ![t] = Outcome(t)]) /\ Ends
      BY <1>5 DEF Finalize
    <2>2. CASE mem[t] # "verifying" BY <1>3, <2>1, <2>2
    <2>3. CASE mem[t] = "verifying" BY <1>2, <2>1, <2>3
    <2>4. QED BY <2>2, <2>3
  <1>6. QED BY <1>4, <1>5

\* Where a decided step leads, the operation knows enough.
LEMMA ContinuesOp ==
  ASSUME Inv, run.condition # "absent", UNCHANGED run, Continues
  PROVE  op' \in OpType /\ OpInv' /\ op'.at \in {"idle", "integrity", "advance"}
  <1>1. CASE Goes("advance")
    <2>1. op' \in OpType /\ op'.at = "advance" BY <1>1, GoesType DEF Inv, Places
    <2>2. QED BY <2>1 DEF OpInv
  <1>2. CASE op' = [Idle EXCEPT !.at = "integrity", !.then = "outbox"]
    <2>1. op'.at = "integrity" /\ op'.then = "outbox" BY <1>2 DEF Idle
    <2>2. op' \in OpType
      <3>1. 1 \in Steps /\ "integrity" \in Places BY StepsType DEF Places
      <3>2. QED BY <1>2, <3>1 DEF Idle, OpType
    <2>3. QED BY <2>1, <2>2 DEF OpInv
  <1>3. CASE Ends BY <1>3, IdleOp DEF Ends, Idle
  <1>4. QED BY <1>1, <1>2, <1>3 DEF Continues

\* finalizeDeliveryMissionUnlocked
LEMMA ConcludeKeeps == ASSUME Inv, Conclude PROVE Inv'
  <1> DEFINE t == op.step
  <1>f. /\ UNCHANGED <<run, plan, dead, ws, up, disp, sent, crashes>>
        /\ up /\ held = "lifecycle" /\ held' = "none" /\ sent \subseteq Steps
    BY DEF Conclude, Inv, TypeOK
  <1>0. t \in Steps /\ mem[t] = "verifying" /\ run.verdict[t] # "none"
        /\ run.condition # "absent"
    BY DEF Conclude, Inv, OpInv, TypeOK, OpType
  <1>1. op' \in OpType /\ OpInv' /\ op'.at \in {"idle", "integrity", "advance"}
    <2>1. CASE Continues BY <1>0, <1>f, <2>1, ContinuesOp
    <2>2. CASE Ends BY <2>2, IdleOp DEF Ends, Idle
    <2>3. QED BY <2>1, <2>2 DEF Conclude
  <1>2. \/ MissionsWritten([mem EXCEPT ![t] = Outcome(t)])
        \/ MissionsThrow([mem EXCEPT ![t] = Outcome(t)])
    BY DEF Conclude
  <1>3. QED BY <1>f, <1>0, <1>1, <1>2, EndMoves, MissionStep

\* A repeated verification finishes the mission it left behind.
LEMMA ConcludeAgainKeeps == ASSUME Inv, ConcludeAgain PROVE Inv'
  <1> DEFINE t == op.step
  <1>f. /\ UNCHANGED <<run, plan, dead, ws, up, held, disp, sent, crashes>>
        /\ up /\ held # "dispatch" /\ sent \subseteq Steps
    BY DEF ConcludeAgain, Free, Inv, TypeOK
  <1>0. t \in Steps /\ run.verdict[t] # "none" /\ run.condition # "absent"
    BY DEF ConcludeAgain, Inv, OpInv, TypeOK, OpType
  <1>1. op' \in OpType /\ OpInv' /\ op'.at \in {"idle", "integrity", "advance"}
    <2>1. CASE Continues BY <1>0, <1>f, <2>1, ContinuesOp
    <2>2. CASE Ends BY <2>2, IdleOp DEF Ends, Idle
    <2>3. QED BY <2>1, <2>2 DEF ConcludeAgain
  <1>2. CASE /\ mem[t] = "verifying"
             /\ \/ MissionsWritten([mem EXCEPT ![t] = Outcome(t)])
                \/ MissionsThrow([mem EXCEPT ![t] = Outcome(t)])
    BY <1>f, <1>0, <1>1, <1>2, EndMoves, MissionStep
  <1>3. CASE UNCHANGED <<missions, faults>>
    BY <1>f, <1>1, <1>3, OpStep DEF stores
  <1>4. QED BY <1>2, <1>3 DEF ConcludeAgain

\* The cancellation of the missions of an aborted run
LEMMA CancelMissionsKeeps == ASSUME Inv, CancelMissions PROVE Inv'
  <1> DEFINE live == {t \in Steps : run.linked[t] /\ Live(mem, t)}
             next == [t \in Steps |-> IF t \in live THEN "canceled" ELSE mem[t]]
  <1>f. /\ UNCHANGED <<run, plan, dead, ws, up, disp, sent, crashes>>
        /\ up /\ held = "lifecycle" /\ held' = "none" /\ sent \subseteq Steps
    BY DEF CancelMissions, Inv, TypeOK
  <1>0. run.condition = "aborted" /\ mem \in [Steps -> MissionStatuses]
    BY DEF CancelMissions, Inv, OpInv, TypeOK
  <1>g. ASSUME Goes("replan")
        PROVE  op' \in OpType /\ op'.at = "replan" /\ OpInv'
    <2>1. op' \in OpType /\ op'.at = "replan" BY <1>g, GoesType DEF Inv, Places
    <2>2. QED BY <1>f, <1>0, <2>1 DEF OpInv
  <1>e. ASSUME Ends PROVE op' \in OpType /\ op'.at = "idle" /\ OpInv'
    BY <1>e, IdleOp DEF Ends, Idle
  <1>1. CASE Ends /\ UNCHANGED <<missions, faults>>
    BY <1>f, <1>1, <1>e, OpStep DEF stores
  <1>2. CASE live = {} /\ Goes("replan") /\ UNCHANGED <<missions, faults>>
    <2>1. Quiet
      <3> SUFFICES ASSUME NEW t \in Steps, run.linked[t]
                   PROVE  ~Live(mem, t) /\ ~Live(disk, t)
        BY DEF Quiet
      <3>1. ~Live(mem, t) BY <1>2
      <3>2. mem[t] # "absent" /\ Ahead(mem[t], disk[t]) BY DEF Inv, MissionInv, Fits
      <3>3. QED BY <3>1, <3>2 DEF Live, Ahead
    <2>2. QED BY <1>f, <1>0, <1>2, <1>g, <2>1, OpStep DEF stores
  <1>3. CASE \/ MissionsWritten(next) /\ Goes("replan")
             \/ MissionsThrow(next) /\ Ends
    <2>1. next \in [Steps -> MissionStatuses] BY <1>0 DEF MissionStatuses
    <2>2. Moves(next)
      <3> SUFFICES ASSUME NEW t \in Steps, next[t] # mem[t]
                   PROVE  /\ Fits(next[t], t) /\ next[t] # "absent"
                          /\ mem[t] \notin MissionTerminal
                          /\ mem[t] \in Past => next[t] \in Past
                          /\ plan # "approved"
        BY DEF Moves
      <3>1. next[t] = "canceled" /\ run.linked[t] /\ Live(mem, t) OBVIOUS
      <3>2. mem[t] \notin MissionTerminal /\ mem[t] # "absent" BY <3>1 DEF Live
      <3>3. plan # "approved" BY <3>2 DEF Inv, PlanInv
      <3>4. Fits("canceled", t)
        <4>1. Fits(mem[t], t) BY DEF Inv, MissionInv
        <4>2. QED BY <1>0, <3>1, <3>2, <4>1 DEF Fits, Past, MissionTerminal
      <3>5. QED BY <3>1, <3>2, <3>3, <3>4 DEF Past, MissionTerminal
    <2>3. \A u \in Steps : next[u] = "dispatching" => mem[u] = next[u] OBVIOUS
    <2>4. CASE MissionsWritten(next) /\ Goes("replan")
      <3>1. Quiet'
        <4>1. mem' = next /\ disk' = next BY <2>4 DEF MissionsWritten
        <4>2. \A t \in Steps : run.linked[t] => next[t] \in MissionTerminal \cup {"absent"}
          BY DEF Live, MissionTerminal
        <4>3. QED BY <1>f, <4>1, <4>2 DEF Quiet, Live
      <3>2. QED BY <1>f, <1>0, <1>g, <2>1, <2>2, <2>3, <2>4, <3>1, MissionStep
    <2>5. CASE MissionsThrow(next) /\ Ends
      BY <1>f, <1>e, <2>1, <2>2, <2>3, <2>5, MissionStep
    <2>6. QED BY <1>3, <2>4, <2>5
  <1>4. \/ Ends /\ UNCHANGED <<missions, faults>>
        \/ live = {} /\ Goes("replan") /\ UNCHANGED <<missions, faults>>
        \/ MissionsWritten(next) /\ Goes("replan")
        \/ MissionsThrow(next) /\ Ends
    <2>1. CASE \E t \in live : mem[t] \notin {"ready", "verifying"}
      BY <2>1 DEF CancelMissions
    <2>2. CASE ~\E t \in live : mem[t] \notin {"ready", "verifying"}
      BY <2>2 DEF CancelMissions
    <2>3. QED BY <2>1, <2>2
  <1>5. QED BY <1>1, <1>2, <1>3, <1>4

--------------------------------------------------------------------------------
(* The missions between the steps of the operation.                              *)

\* What the operation knows survives a step of the mission queue that takes no mission
\* out of verification and makes none ready over a drift.
LEMMA OpUnderMissions ==
  ASSUME Inv, UNCHANGED <<run, plan, op>>, NEW next, mem' \in {mem, next},
         \A t \in Steps : next[t] # mem[t] => next[t] # "absent" /\ mem[t] # "verifying",
         op.at = "off_course" => \A t \in Steps : next[t] = "ready" => mem[t] = "ready"
  PROVE  op' \in OpType /\ OpInv'
  <1>0. op \in OpType /\ op.step \in Steps BY DEF Inv, TypeOK, OpType
  <1>1. OpInv BY DEF Inv
  <1>2. mem[op.step] # "absent" => mem'[op.step] # "absent" BY <1>0
  <1>3. mem[op.step] = "verifying" => mem'[op.step] = "verifying" BY <1>0
  <1>4. op.at = "off_course" => \A t \in Steps : mem'[t] = "ready" => mem[t] = "ready"
    OBVIOUS
  <1>5. op.at = "off_course" => \A t \in Steps : ~(Ripe(t)')
    BY <1>1, <1>4 DEF OpInv, Ripe
  <1>6. OpInv'
    <2>1. \A t \in Steps : Pending(t)' <=> Pending(t) BY DEF Pending
    <2>2. Pending(op.step)' <=> Pending(op.step) BY <2>1, <1>0
    <2>3. op' = op /\ run' = run /\ plan' = plan OBVIOUS
    <2>4. op.at = "off_course" => \A t \in Steps : Ripe(t)' = FALSE BY <1>5
    <2>5. QED BY <1>1, <1>2, <1>3, <2>2, <2>3, <2>4 DEF OpInv
  <1>7. QED BY <1>0, <1>6

\* deliveryMissionDispatchPreflight
LEMMA DispatchCheckKeeps == ASSUME Inv, NEW t \in Steps, DispatchCheck(t) PROVE Inv'
  <1>f. UNCHANGED <<run, plan, dead, ws, up, op, crashes, mem, disk, sent, faults>>
    BY DEF DispatchCheck, Queued, missions
  <1>1. TypeOK' BY <1>f, StepsType DEF DispatchCheck, Inv, TypeOK
  <1>2. RunInv(run)' BY <1>f DEF Inv
  <1>3. MissionInv' BY <1>f DEF Inv, MissionInv, Fits
  <1>4. OpInv' BY <1>f DEF Inv, OpInv, Pending, Ripe
  <1>5. DispatchInv'
    <2>1. Ripe(t) BY DEF DispatchCheck, Dispatchable, Ripe
    <2>2. op.at # "off_course" BY <2>1 DEF Inv, OpInv
    <2>3. QED BY <1>f, <2>1, <2>2 DEF DispatchCheck, DispatchInv, Ripe
  <1>6. PlanInv' BY <1>f DEF Inv, PlanInv, Quiet, Live
  <1>7. QED BY <1>1, <1>2, <1>3, <1>4, <1>5, <1>6 DEF Inv

\* The claim of a dispatch, or its end without one
LEMMA DispatchClaimKeeps == ASSUME Inv, DispatchClaim PROVE Inv'
  <1> DEFINE next == [mem EXCEPT ![disp] = "dispatching"]
  <1>f. UNCHANGED <<run, plan, dead, ws, up, op, crashes>> BY DEF DispatchClaim, Queued
  <1>0. /\ disp \in Steps /\ op.at # "off_course" /\ up /\ sent \subseteq Steps
        /\ run.state[disp] = "mission_linked" /\ mem[disp] = "ready" /\ held = "dispatch"
        /\ mem \in [Steps -> MissionStatuses]
    BY DEF DispatchClaim, Inv, DispatchInv, TypeOK
  <1>1. CASE \/ MissionsWritten(next) /\ sent' = sent \cup {disp} /\ UNCHANGED <<held, disp>>
             \/ MissionsThrow(next) /\ held' = "none" /\ disp' = 0 /\ UNCHANGED sent
    <2>1. next \in [Steps -> MissionStatuses] BY <1>0 DEF MissionStatuses
    <2>2. \A u \in Steps : next[u] = IF u = disp THEN "dispatching" ELSE mem[u] BY <1>0
    <2>3. Moves(next)
      <3>1. Fits("dispatching", disp)
        <4>1. Fits("ready", disp) BY <1>0 DEF Inv, MissionInv
        <4>2. run.linked[disp] BY <1>0 DEF Inv, RunInv, ValidRun, ValidTask, ValidOutbox
        <4>3. QED BY <1>0, <4>1, <4>2 DEF Fits, Worked
      <3>2. plan # "approved" BY <1>0 DEF Inv, PlanInv
      <3>3. QED BY <1>0, <2>2, <3>1, <3>2 DEF Moves, MissionTerminal, Past
    <2>4. mem' \in {mem, next} BY <2>1, <1>1, MissionsWrite DEF Inv
    <2>5. op' \in OpType /\ OpInv' BY <1>f, <1>0, <2>2, <2>4, OpUnderMissions
    <2>6. /\ sent \subseteq sent' /\ sent' \subseteq Steps
          /\ held' \in {held, "none"} /\ disp' \in {disp, 0} /\ (held' = held => disp' = disp)
      BY <1>0, <1>1
    <2>7. MissionsWritten(next) =>
            \A u \in Steps : next[u] = "dispatching" => mem[u] = next[u] \/ u \in sent'
      <3>1. CASE sent' = sent \cup {disp} BY <2>2, <3>1
      <3>2. CASE MissionsThrow(next)
        <4>1. mem' = mem BY <3>2 DEF MissionsThrow
        <4>2. next # mem BY <1>0, <2>2
        <4>3. ~MissionsWritten(next) BY <4>1, <4>2 DEF MissionsWritten
        <4>4. QED BY <4>3
      <3>3. QED BY <1>1, <3>1, <3>2
    <2>8. op'.at # "off_course" /\ (op'.at = "replan" => op.at = "replan")
      BY <1>f, <1>0
    <2>9. QED BY <1>f, <1>0, <1>1, <2>1, <2>3, <2>5, <2>6, <2>7, <2>8, MissionStep
  <1>2. CASE held' = "none" /\ disp' = 0 /\ UNCHANGED <<missions, sent, faults>>
    <2>1. OpInv' BY <1>f, <1>2 DEF Inv, OpInv, Pending, Ripe, missions
    <2>2. op' \in OpType BY <1>f DEF Inv, TypeOK
    <2>3. QED BY <1>f, <1>0, <1>2, <2>1, <2>2, OpStep DEF stores
  <1>3. QED BY <1>1, <1>2 DEF DispatchClaim

\* The outcome of a dispatch
LEMMA DispatchRecordKeeps == ASSUME Inv, DispatchRecord PROVE Inv'
  <1>f. /\ UNCHANGED <<run, plan, dead, ws, up, op, crashes, sent>>
        /\ held' = "none" /\ disp' = 0
    BY DEF DispatchRecord, Queued
  <1>0. /\ disp \in Steps /\ op.at # "off_course" /\ up /\ sent \subseteq Steps
        /\ mem[disp] = "dispatching" /\ mem \in [Steps -> MissionStatuses]
        /\ held = "dispatch"
    BY DEF DispatchRecord, Inv, DispatchInv, TypeOK
  <1>1. PICK status \in {"running", "ready", "reconcile_required"} :
          \/ MissionsWritten([mem EXCEPT ![disp] = status])
          \/ MissionsThrow([mem EXCEPT ![disp] = status])
    BY DEF DispatchRecord
  <1> DEFINE next == [mem EXCEPT ![disp] = status]
  <1>2. next \in [Steps -> MissionStatuses] BY <1>0 DEF MissionStatuses
  <1>3. \A u \in Steps : next[u] = IF u = disp THEN status ELSE mem[u] BY <1>0
  <1>4. Moves(next)
    <2>1. Fits(status, disp)
      <3>1. Fits("dispatching", disp) /\ disp \in sent BY <1>0 DEF Inv, MissionInv
      <3>2. QED BY <3>1 DEF Fits, Past, MissionTerminal
    <2>2. plan # "approved" BY <1>0 DEF Inv, PlanInv
    <2>3. QED BY <1>0, <1>3, <2>1, <2>2 DEF Moves, MissionTerminal, Past
  <1>5. mem' \in {mem, next} BY <1>1, <1>2, MissionsWrite DEF Inv
  <1>a. \A u \in Steps : next[u] # mem[u] => next[u] # "absent" /\ mem[u] # "verifying"
    BY <1>3, <1>0
  <1> HIDE DEF next
  <1>6. op' \in OpType /\ OpInv' BY <1>f, <1>0, <1>a, <1>5, OpUnderMissions
  <1> USE DEF next
  <1>7. \A u \in Steps : next[u] = "dispatching" => mem[u] = next[u] BY <1>3
  <1>8. QED BY <1>f, <1>0, <1>1, <1>2, <1>4, <1>6, <1>7, MissionStep

\* superviseMissionQueue
LEMMA SuperviseKeeps == ASSUME Inv, NEW t \in Steps, Supervise(t) PROVE Inv'
  <1>f. UNCHANGED <<run, plan, dead, ws, up, op, crashes, sent, held, disp>>
    BY DEF Supervise, Queued
  <1>0. /\ up /\ sent \subseteq Steps /\ held # "dispatch"
        /\ mem[t] = "running" /\ mem \in [Steps -> MissionStatuses]
    BY DEF Supervise, Inv, TypeOK, Free
  <1>1. PICK status \in {"verifying", "needs_you"} :
          \/ MissionsWritten([mem EXCEPT ![t] = status])
          \/ MissionsThrow([mem EXCEPT ![t] = status])
    BY DEF Supervise
  <1> DEFINE next == [mem EXCEPT ![t] = status]
  <1>2. next \in [Steps -> MissionStatuses] BY <1>0 DEF MissionStatuses
  <1>3. \A u \in Steps : next[u] = IF u = t THEN status ELSE mem[u] BY <1>0
  <1>4. Moves(next)
    <2>1. Fits(status, t)
      <3>1. Fits("running", t) BY <1>0 DEF Inv, MissionInv
      <3>2. QED BY <3>1 DEF Fits, Past, MissionTerminal
    <2>2. plan # "approved" BY <1>0 DEF Inv, PlanInv
    <2>3. QED BY <1>0, <1>3, <2>1, <2>2 DEF Moves, MissionTerminal, Past
  <1>5. mem' \in {mem, next} BY <1>1, <1>2, MissionsWrite DEF Inv
  <1>a. \A u \in Steps : next[u] # mem[u] => next[u] # "absent" /\ mem[u] # "verifying"
    BY <1>3, <1>0
  <1>b. \A u \in Steps : next[u] = "ready" => mem[u] = "ready" BY <1>3
  <1> HIDE DEF next
  <1>6. op' \in OpType /\ OpInv' BY <1>f, <1>a, <1>b, <1>5, OpUnderMissions
  <1> USE DEF next
  <1>7. \A u \in Steps : next[u] = "dispatching" => mem[u] = next[u] BY <1>3
  <1>8. QED BY <1>f, <1>0, <1>1, <1>2, <1>4, <1>6, <1>7, MissionStep

--------------------------------------------------------------------------------
(* The workspace, a crash and the start of the server.                           *)

\* Nothing in the invariant depends on the workspace of the moment.
LEMMA EditKeeps == ASSUME Inv, Edit PROVE Inv'
  <1>f. UNCHANGED <<run, plan, mem, disk, dead, faults, up, op, held, disp, sent, crashes>>
    BY DEF Edit, stores, missions
  <1>1. TypeOK' BY <1>f DEF Edit, Inv, TypeOK
  <1>2. RunInv(run)' BY <1>f DEF Inv
  <1>3. MissionInv' BY <1>f DEF Inv, MissionInv, Fits
  <1>4. OpInv' BY <1>f DEF Inv, OpInv, Pending, Ripe
  <1>5. DispatchInv' BY <1>f DEF Inv, DispatchInv
  <1>6. PlanInv' BY <1>f DEF Inv, PlanInv, Quiet, Live
  <1>7. QED BY <1>1, <1>2, <1>3, <1>4, <1>5, <1>6 DEF Inv

\* A crash leaves the files.
LEMMA CrashKeeps == ASSUME Inv, Crash PROVE Inv'
  <1>f. /\ UNCHANGED <<run, plan, disk, ws, sent, faults>> /\ mem' = disk
        /\ up' = FALSE /\ dead' = {} /\ op' = Idle /\ held' = "none" /\ disp' = 0
    BY DEF Crash
  <1>1. TypeOK'
    <2>1. crashes' \in 0..MaxCrashes
      BY ConstantsAssumption DEF Crash, Inv, TypeOK
    <2>2. op' \in OpType BY <1>f, IdleOp
    <2>3. disp' \in 0..StepCount BY <1>f, StepsType
    <2>4. QED BY <1>f, <2>1, <2>2, <2>3 DEF Inv, TypeOK
  <1>2. RunInv(run)' BY <1>f DEF Inv
  <1>3. MissionInv' BY <1>f DEF Inv, MissionInv, Fits, Ahead
  <1>4. OpInv' BY <1>f, IdleOp
  <1>5. DispatchInv' BY <1>f DEF DispatchInv
  <1>6. PlanInv' BY <1>f DEF Inv, PlanInv, Quiet, Live, Idle
  <1>7. QED BY <1>1, <1>2, <1>3, <1>4, <1>5, <1>6 DEF Inv

\* reconcileDeliveryRunsOnStartup begins with what it finds in the file of the run.
LEMMA FirstOp ==
  ASSUME UNCHANGED run, op' = First
  PROVE  op' \in OpType /\ OpInv' /\ op'.at \in {"idle", "cancel", "finalize", "integrity"}
  <1>0. 1 \in Steps /\ {"cancel", "finalize", "integrity"} \subseteq Places
    BY StepsType DEF Places
  <1>1. CASE First = Idle BY <1>1, IdleOp DEF Idle
  <1>2. CASE run.condition = "aborted" /\ First = [Idle EXCEPT !.at = "cancel"]
    <2>1. op' \in OpType /\ op'.at = "cancel" BY <1>0, <1>2 DEF Idle, OpType
    <2>2. QED BY <1>2, <2>1 DEF OpInv
  <1>3. CASE run.condition # "absent" /\
             First = [Idle EXCEPT !.at = "finalize", !.then = "advance"]
    <2>1. op' \in OpType /\ op'.at = "finalize" /\ op'.then = "advance"
      BY <1>0, <1>3 DEF Idle, OpType
    <2>2. QED BY <1>3, <2>1 DEF OpInv
  <1>4. CASE run.condition # "absent" /\
             First = [Idle EXCEPT !.at = "integrity", !.then = "outbox"]
    <2>1. op' \in OpType /\ op'.at = "integrity" /\ op'.then = "outbox"
      BY <1>0, <1>4 DEF Idle, OpType
    <2>2. QED BY <1>4, <2>1 DEF OpInv
  <1>5. QED BY <1>1, <1>2, <1>3, <1>4 DEF First

\* reconcileMissionQueueOnStartup: a dispatch the crash cut short is uncertain.
LEMMA RestartKeeps == ASSUME Inv, Restart PROVE Inv'
  <1> DEFINE next == [t \in Steps |-> IF disk[t] = "dispatching" THEN "reconcile_required"
                                      ELSE disk[t]]
  <1>f. /\ UNCHANGED <<run, plan, dead, ws, disp, sent, crashes, faults>>
        /\ up' = TRUE /\ mem' = next /\ disk' = next /\ held' \in {"lifecycle", "none"}
    BY DEF Restart, MissionsWritten
  <1>0. disk \in [Steps -> MissionStatuses] BY DEF Inv, TypeOK
  <1>o. op' \in OpType /\ OpInv' /\ op'.at \in {"idle", "cancel", "finalize", "integrity"}
    BY <1>f, FirstOp DEF Restart
  <1>1. TypeOK'
    <2>1. next \in [Steps -> MissionStatuses] BY <1>0 DEF MissionStatuses
    <2>2. QED BY <1>f, <1>o, <2>1 DEF Inv, TypeOK
  <1>2. RunInv(run)' BY <1>f DEF Inv
  <1>3. MissionInv'
    <2> SUFFICES ASSUME NEW t \in Steps
                 PROVE  /\ Fits(mem[t], t)' /\ Fits(disk[t], t)' /\ Ahead(mem[t], disk[t])'
                        /\ mem'[t] # "dispatching"
      BY <1>f DEF MissionInv
    <2>1. Fits(disk[t], t) BY DEF Inv, MissionInv
    <2>2. /\ mem'[t] = disk'[t] /\ mem'[t] # "dispatching"
          /\ mem'[t] = disk[t] \/ (disk[t] = "dispatching" /\ mem'[t] = "reconcile_required")
      BY <1>f
    <2>3. Fits(mem[t], t)' BY <1>f, <2>1, <2>2 DEF Fits, Past, MissionTerminal
    <2>4. Fits(disk[t], t)' BY <1>f, <2>1, <2>2 DEF Fits, Past, MissionTerminal
    <2>5. QED BY <2>2, <2>3, <2>4 DEF Ahead
  <1>4. DispatchInv' BY <1>f DEF DispatchInv
  <1>5. PlanInv'
    <2>1. plan = "approved" => \A t \in Steps : next[t] = "absent" BY DEF Inv, PlanInv
    <2>2. Quiet => Quiet'
      <3> SUFFICES ASSUME Quiet, NEW t \in Steps, run.linked[t]
                   PROVE  next[t] \in MissionTerminal \cup {"absent"}
        BY <1>f DEF Quiet, Live
      <3>1. disk[t] \in MissionTerminal \cup {"absent"} BY DEF Quiet, Live
      <3>2. QED BY <3>1 DEF MissionTerminal
    <2>3. QED BY <1>f, <1>o, <2>1, <2>2 DEF Inv, PlanInv
  <1>6. QED BY <1>1, <1>2, <1>3, <1>4, <1>5, <1>o DEF Inv

--------------------------------------------------------------------------------
(* The invariant and the theorems.                                               *)

\* The server starts without a run.
LEMMA InitInv == Init => Inv
  <1> SUFFICES ASSUME Init PROVE Inv OBVIOUS
  <1>0. StepCount \in Nat \ {0} /\ Steps = 1..StepCount BY StepsType
  <1>1. /\ run.condition = "absent"
        /\ \A t \in Steps :
             /\ run.state[t] = "pending" /\ run.outbox[t] = "held" /\ run.linked[t] = FALSE
             /\ run.verdict[t] = "none" /\ run.expected[t] = NoContent
             /\ mem[t] = "absent" /\ disk[t] = "absent"
    BY DEF Init, NoRun
  <1>2. run \in RunType
    BY DEF Init, NoRun, RunType, Conditions, TaskStates, OutboxStates
  <1>3. TypeOK
    <2>1. op \in OpType
      <3>1. 1 \in Steps /\ "idle" \in Places BY StepsType DEF Places
      <3>2. QED BY <3>1 DEF Init, Idle, OpType
    <2>2. mem \in [Steps -> MissionStatuses] /\ disk = mem BY DEF Init, MissionStatuses
    <2>3. crashes \in 0..MaxCrashes /\ faults \in 0..MaxFaults
      BY ConstantsAssumption DEF Init
    <2>4. plan \in PlanPhases /\ disp \in 0..StepCount BY <1>0 DEF Init, PlanPhases
    <2>5. QED BY <1>2, <2>1, <2>2, <2>3, <2>4 DEF Init, TypeOK
  <1>4. ValidRun(run) BY <1>0, <1>1 DEF ValidRun, ValidTask, ValidOutbox
  <1>5. RunShape(run) BY <1>0, <1>1 DEF Init, RunShape, Waiting, Worked
  <1>6. MissionInv BY <1>1 DEF Init, MissionInv, Fits, Ahead, Past, MissionTerminal, Worked
  <1>7. OpInv /\ DispatchInv BY DEF Init, Idle, OpInv, DispatchInv
  <1>8. PlanInv BY <1>1 DEF Init, PlanInv, Idle
  <1>9. QED BY <1>2, <1>3, <1>4, <1>5, <1>6, <1>7, <1>8 DEF Inv, RunInv

\* A step that changes nothing keeps the invariant.
LEMMA StutterKeeps == ASSUME Inv, UNCHANGED vars PROVE Inv'
  <1>f. UNCHANGED <<run, plan, mem, disk, ws, dead, up, op, held, disp, sent, crashes, faults>>
    BY DEF vars
  <1>1. TypeOK' BY <1>f DEF Inv, TypeOK
  <1>2. RunInv(run)' BY <1>f DEF Inv
  <1>3. MissionInv' BY <1>f DEF Inv, MissionInv, Fits
  <1>4. OpInv' BY <1>f DEF Inv, OpInv, Pending, Ripe
  <1>5. DispatchInv' BY <1>f DEF Inv, DispatchInv
  <1>6. PlanInv' BY <1>f DEF Inv, PlanInv, Quiet, Live
  <1>7. QED BY <1>1, <1>2, <1>3, <1>4, <1>5, <1>6 DEF Inv

\* Every step keeps the invariant.
LEMMA NextKeeps == Inv /\ [Next]_vars => Inv'
  <1> SUFFICES ASSUME Inv, [Next]_vars PROVE Inv' OBVIOUS
  <1>1. CASE Requests
    BY <1>1, StartKeeps, ReconcileKeeps, AbortKeeps, OperatorReplansKeeps,
       CaptureReadKeeps, VerifyReadKeeps, VerifyAgainKeeps DEF Requests
  <1>2. CASE Reconciliation
    BY <1>2, CheckIntegrityKeeps, MarkOffCourseKeeps, FinalizeKeeps, ReadOutboxKeeps,
       EnsureExecutingKeeps, EnsureMissionKeeps, LinkMissionKeeps, MarkUncertainKeeps
    DEF Reconciliation
  <1>3. CASE Continuation
    BY <1>3, CaptureWriteKeeps, VerifyWriteKeeps, ConcludeKeeps, ConcludeAgainKeeps,
       AdvancePlanKeeps, CancelMissionsKeeps, ReplanAbortedKeeps DEF Continuation
  <1>4. CASE Missions
    BY <1>4, DispatchClaimKeeps, DispatchRecordKeeps, DispatchCheckKeeps, SuperviseKeeps
    DEF Missions
  <1>5. CASE Edit BY <1>5, EditKeeps
  <1>6. CASE Crash BY <1>6, CrashKeeps
  <1>7. CASE Restart BY <1>7, RestartKeeps
  <1>8. CASE UNCHANGED vars BY <1>8, StutterKeeps
  <1>9. QED BY <1>1, <1>2, <1>3, <1>4, <1>5, <1>6, <1>7, <1>8 DEF Next

\* The invariant holds in every reachable state.
LEMMA Invariance == Spec => []Inv
  BY InitInv, NextKeeps, PTL DEF Spec

\* Every variable keeps its type.
THEOREM TypeCorrect == Spec => []TypeOK
  <1>1. Inv => TypeOK BY DEF Inv
  <1>2. QED BY <1>1, Invariance, PTL

\* The run the server works with, and writes, is always one validateDeliveryRun accepts.
THEOREM RunAlwaysValid == Spec => []RunValid
  <1>1. Inv => RunValid BY DEF Inv, RunInv, RunValid
  <1>2. QED BY <1>1, Invariance, PTL

\* No step has a mission before every earlier step is verified: enqueueing, failed
\* writes and the start of the server included.
THEOREM OneAtATime == Spec => []OneStepAtATime
  <1>1. Inv => OneStepAtATime BY DEF Inv, MissionInv, Fits, OneStepAtATime
  <1>2. QED BY <1>1, Invariance, PTL

\* A mission ends only the way the run has decided before.
THEOREM RunDecidesFirst == Spec => []MissionsFollowRun
  <1>1. ASSUME Inv, NEW t \in Steps
        PROVE  /\ mem[t] = "done" \/ disk[t] = "done" => run.verdict[t] = "verified"
               /\ mem[t] = "failed" \/ disk[t] = "failed" => run.verdict[t] = "failed"
               /\ mem[t] = "canceled" \/ disk[t] = "canceled" => run.condition = "aborted"
    BY <1>1 DEF Inv, MissionInv, Fits
  <1>2. Inv => MissionsFollowRun BY <1>1 DEF MissionsFollowRun
  <1>3. QED BY <1>2, Invariance, PTL

\* Nothing is captured, verified or failed but the work of a mission whose text went out.
THEOREM WorkComesFirst == Spec => []WorkBeforeVerdict
  <1>1. Inv => WorkBeforeVerdict
    BY DEF Inv, MissionInv, Fits, Worked, WorkBeforeVerdict
  <1>2. QED BY <1>1, Invariance, PTL

\* A plan that may be edited again has no worker left on it, in memory or in the file.
THEOREM ReplansInQuiet == Spec => []ReplanIsQuiet
  <1>1. ASSUME Inv, plan = "planning", NEW t \in Steps
        PROVE  /\ mem[t] \notin Unsafe
               /\ run.linked[t] => ~Live(mem, t) /\ ~Live(disk, t)
    <2>1. run.linked[t] => ~Live(mem, t) /\ ~Live(disk, t)
      BY <1>1 DEF Inv, PlanInv, Quiet
    <2>2. ~run.linked[t] => mem[t] \in {"absent", "ready"}
      BY <1>1 DEF Inv, MissionInv, Fits
    <2>3. QED BY <2>1, <2>2 DEF Live, Unsafe, MissionTerminal
  <1>2. Inv => ReplanIsQuiet BY <1>1 DEF ReplanIsQuiet
  <1>3. QED BY <1>2, Invariance, PTL

\* Only the claim of a dispatch hands a text out.
LEMMA SentByClaim ==
  ASSUME [Next]_vars, sent' # sent
  PROVE  DispatchClaim /\ sent' = sent \cup {disp}
  <1>1. CASE Requests
    BY <1>1 DEF Requests, Start, Reconcile, Abort, OperatorReplans, CaptureRead, VerifyRead,
                VerifyAgain
  <1>2. CASE Reconciliation
    BY <1>2 DEF Reconciliation, CheckIntegrity, MarkOffCourse, Finalize, ReadOutbox,
                EnsureExecuting, EnsureMission, LinkMission, MarkUncertain
  <1>3. CASE Continuation
    BY <1>3 DEF Continuation, CaptureWrite, VerifyWrite, Conclude, ConcludeAgain, AdvancePlan,
                CancelMissions, ReplanAborted
  <1>4. CASE Missions
    BY <1>4 DEF Missions, DispatchClaim, DispatchRecord, DispatchCheck, Supervise
  <1>5. CASE Edit \/ Crash \/ Restart BY <1>5 DEF Edit, Crash, Restart
  <1>6. CASE UNCHANGED vars BY <1>6 DEF vars
  <1>7. QED BY <1>1, <1>2, <1>3, <1>4, <1>5, <1>6 DEF Next

\* Between the preflight of a dispatch and its claim the run neither ends nor leaves its
\* course, and the step stays linked.
THEOREM SendsWhileActive == Spec => SentWhileActive
  <1>1. ASSUME Inv, [Next]_vars
        PROVE  [sent' # sent => /\ run.condition = "active"
                                /\ \A t \in sent' \ sent : run.state[t] = "mission_linked"]_vars
    <2> SUFFICES ASSUME sent' # sent
                 PROVE  /\ run.condition = "active"
                        /\ \A t \in sent' \ sent : run.state[t] = "mission_linked"
      OBVIOUS
    <2>1. held = "dispatch" /\ sent' = sent \cup {disp}
      BY <1>1, SentByClaim DEF DispatchClaim
    <2>2. run.condition = "active" /\ run.state[disp] = "mission_linked"
      BY <1>1, <2>1 DEF Inv, DispatchInv
    <2>3. QED BY <2>1, <2>2
  <1>2. QED BY <1>1, Invariance, PTL DEF Spec, SentWhileActive

\* What is promised of the three stores together, as one invariant.
THEOREM RunIsSafe == Spec => []RunSafe
  <1>1. TypeOK /\ RunValid /\ OneStepAtATime /\ MissionsFollowRun /\ WorkBeforeVerdict
          /\ ReplanIsQuiet => RunSafe
    BY DEF RunSafe
  <1>2. QED BY <1>1, TypeCorrect, RunAlwaysValid, OneAtATime, RunDecidesFirst,
               WorkComesFirst, ReplansInQuiet, PTL

--------------------------------------------------------------------------------
(* The workspace baselines: the inductive invariant.                            *)

Entries == SUBSET (Paths \X Nat)
WorldSet ==
  [tree : [Paths -> Nat], index : Entries, head : Nat, hidden : SUBSET Paths,
   linked : SUBSET Paths, odd : SUBSET Workspace!Shapes, gone : SUBSET Paths]
GitSet ==
  [head : Nat, index : Entries, untracked : SUBSET Paths, ignored : SUBSET Paths,
   odd : SUBSET (Workspace!Shapes \union {"mismatch"})]
Asked == {"start", "mission", "dispatch", "implementation", "verify"}
Early == {"head", "index", "flags", "untracked"}
CaptureSet ==
  [for : Asked \union {"none"}, round : 0..3,
   part : Early \union {"ignored", "files", "done"},
   git : GitSet, prev : GitSet, files : Entries, first : Entries]

\* An index has one entry of a file, and an entry is only replaced by a later one.
OneEntry(index) == \A e, f \in index : e[1] = f[1] => e = f
Staged(index, later) ==
  \A e \in index : \E f \in later : f[1] = e[1] /\ e[2] <= f[2]

\* What holds of every workspace: a file that is gone has no content, and one that is
\* in the index and has none is gone.
Proper(w) ==
  /\ w \in WorldSet /\ OneEntry(w.index)
  /\ \A p \in w.gone : w.tree[p] = 0
  /\ \A p \in Instructions : w.tree[p] # 0 /\ p \notin w.hidden
  /\ \A e \in w.index : e[2] # 0 /\ (e[1] \in w.gone \/ e[2] <= w.tree[e[1]])

\* The workspace only goes on: v is what w became.
Onward(w, v) ==
  /\ w.head <= v.head /\ Staged(w.index, v.index)
  /\ w.gone \subseteq v.gone
  /\ \A p \in Paths : p \in v.gone \/ w.tree[p] <= v.tree[p]

\* A fingerprint that was taken before a moment, and one taken after it. Together they
\* show the file as it was at that moment.
Before(f, m) == f[1] \in m.gone \/ (f[2] # 0 /\ f[2] <= m.tree[f[1]])
After(f, m) == f[2] = 0 \/ (f[1] \notin m.gone /\ m.tree[f[1]] <= f[2])

ToRead(git) == Workspace!Indexed(git) \union git.untracked \union Instructions

\* The moment that a baseline shows is the second reading of the untracked files: the
\* head and the index were read before it and are read after it, and so are the files.
SecondRead(c, w, m) ==
  /\ Proper(m) /\ Onward(m, w)
  /\ c.git.head <= m.head /\ Staged(c.git.index, m.index)
  /\ c.git.untracked = Workspace!Untracked(m)
  /\ \A f \in c.first : Before(f, m)
  /\ \A f \in c.files : After(f, m) /\ f[1] \in ToRead(c.git)
ThirdRead(c, w, m) ==
  /\ Proper(m) /\ Onward(m, w)
  /\ c.prev.head <= m.head /\ Staged(c.prev.index, m.index)
  /\ c.prev.untracked = Workspace!Untracked(m)
  /\ \A f \in c.files : Before(f, m) /\ After(f, m)
  /\ {f[1] : f \in c.files} = ToRead(c.prev)
  /\ c.part # "head" => m.head <= c.git.head
  /\ c.part \notin {"head", "index"} => Staged(m.index, c.git.index)
  /\ c.part = "done" => c.git = c.prev

\* What the capture c knows of the workspace w that it reads, which was each of `seen`.
Capturing(c, w, seen) ==
  /\ w \in seen /\ c.round # 0
  /\ c.part = "done" => c.round = 3
  /\ c.part = "files" => c.round # 3
  /\ OneEntry(c.git.index)
  /\ c.part # "head" => c.git.head <= w.head
  /\ c.part \notin {"head", "index"} => Staged(c.git.index, w.index)
  /\ c.round # 1 \/ c.part \in {"files", "done"} => \E v \in seen : Workspace!Ignored(v) = {}
  /\ c.round = 1 => \A f \in c.files : Before(f, w)
  /\ c.round = 2 /\ c.part \in Early => c.files = {} /\ \A f \in c.first : Before(f, w)
  /\ c.round = 2 /\ c.part \notin Early => \E m \in seen : SecondRead(c, w, m)
  /\ c.round = 3 => \E m \in seen : ThirdRead(c, w, m)

BaselineInv ==
  /\ phase \in {"new", "ready", "linked", "dispatched", "captured", "off_course"}
  /\ torn = FALSE /\ writes \in 0..MaxWrites
  /\ cap \in CaptureSet
  /\ Proper(world) /\ \A p \in Paths : world.tree[p] <= writes + 1
  /\ cap.for # "none" => Capturing(cap, world, lived)

--------------------------------------------------------------------------------
(* What the workspace becomes.                                                  *)

LEMMA OnwardItself ==
  ASSUME NEW w, Proper(w)
  PROVE  Onward(w, w)
PROOF
  <1>1. w.head \in Nat /\ w.index \subseteq Paths \X Nat /\ w.tree \in [Paths -> Nat]
    BY DEF Proper, WorldSet, Entries
  <1>2. \A e \in w.index : e[2] <= e[2]
    BY <1>1
  <1>3. \A p \in Paths : w.tree[p] <= w.tree[p]
    BY <1>1
  <1> QED  BY <1>1, <1>2, <1>3 DEF Onward, Staged

LEMMA StagedOn ==
  ASSUME NEW I \in Entries, NEW J \in Entries, NEW K \in Entries, Staged(I, J), Staged(J, K)
  PROVE  Staged(I, K)
PROOF
  <1> SUFFICES ASSUME NEW e \in I
               PROVE  \E g \in K : g[1] = e[1] /\ e[2] <= g[2]
    BY DEF Staged
  <1>1. PICK f \in J : f[1] = e[1] /\ e[2] <= f[2]
    BY DEF Staged
  <1>2. PICK g \in K : g[1] = f[1] /\ f[2] <= g[2]
    BY DEF Staged
  <1>3. e[2] \in Nat /\ f[2] \in Nat /\ g[2] \in Nat
    BY DEF Entries
  <1> QED  BY <1>1, <1>2, <1>3

LEMMA OnwardOn ==
  ASSUME NEW u \in WorldSet, NEW v \in WorldSet, NEW w, Proper(w), Onward(u, v), Onward(v, w)
  PROVE  Onward(u, w)
PROOF
  <1>1. w \in WorldSet
    BY DEF Proper
  <1>2. Staged(u.index, w.index)
    BY <1>1, StagedOn DEF Onward, WorldSet
  <1>3. u.head <= w.head
    BY <1>1 DEF Onward, WorldSet
  <1>4. ASSUME NEW p \in Paths
        PROVE  p \in w.gone \/ u.tree[p] <= w.tree[p]
    <2>1. u.tree[p] \in Nat /\ v.tree[p] \in Nat /\ w.tree[p] \in Nat
      BY <1>1 DEF WorldSet
    <2> QED  BY <2>1 DEF Onward
  <1> QED  BY <1>2, <1>3, <1>4 DEF Onward

\* What was read before a moment was read before any later one.
LEMMA BeforeOn ==
  ASSUME NEW v \in WorldSet, NEW w \in WorldSet, Onward(v, w), NEW f \in Paths \X Nat, Before(f, v)
  PROVE  Before(f, w)
PROOF
  <1>1. f[1] \in Paths /\ f[2] \in Nat /\ v.tree[f[1]] \in Nat /\ w.tree[f[1]] \in Nat
    BY DEF WorldSet
  <1> QED  BY <1>1 DEF Before, Onward

\* A fingerprint taken now is taken before now, and after every moment before.
LEMMA ReadNow ==
  ASSUME NEW w, Proper(w), NEW p \in Paths,
         NEW git \in GitSet, Staged(git.index, w.index),
         w.tree[p] = 0 => p \in Workspace!Indexed(git)
  PROVE  /\ Before(<<p, w.tree[p]>>, w)
         /\ \A m : Proper(m) /\ Onward(m, w) => After(<<p, w.tree[p]>>, m)
PROOF
  <1>1. w.tree[p] \in Nat
    BY DEF Proper, WorldSet
  <1>2. ASSUME w.tree[p] = 0 PROVE p \in w.gone
    <2>1. PICK e \in git.index : e[1] = p
      BY <1>2 DEF Workspace!Indexed
    <2>2. PICK f \in w.index : f[1] = p
      BY <2>1 DEF Staged
    <2>3. f[2] \in Nat /\ f[2] # 0
      BY DEF Proper, WorldSet, Entries
    <2> QED  BY <1>2, <2>2, <2>3 DEF Proper
  <1>3. ASSUME NEW m, Proper(m), Onward(m, w) PROVE After(<<p, w.tree[p]>>, m)
    <2>1. w.tree[p] # 0 => p \notin w.gone
      BY DEF Proper
    <2> QED  BY <1>3, <2>1 DEF After, Onward
  <1> QED  BY <1>1, <1>2, <1>3 DEF Before

\* The two readings of the index around a moment that agree are the index of that moment.
LEMMA SameIndex ==
  ASSUME NEW I \in Entries, NEW J \in Entries, OneEntry(I), OneEntry(J),
         Staged(I, J), Staged(J, I)
  PROVE  I = J
PROOF
  <1>1. ASSUME NEW A \in Entries, NEW B \in Entries, OneEntry(A), Staged(A, B), Staged(B, A)
        PROVE  A \subseteq B
    <2> SUFFICES ASSUME NEW e \in A PROVE e \in B
      OBVIOUS
    <2>1. PICK f \in B : f[1] = e[1] /\ e[2] <= f[2]
      BY <1>1 DEF Staged
    <2>2. PICK g \in A : g[1] = f[1] /\ f[2] <= g[2]
      BY <1>1 DEF Staged
    <2>3. g = e
      BY <1>1, <2>1, <2>2 DEF OneEntry
    <2>4. e[2] \in Nat /\ f[2] \in Nat /\ e \in Paths \X Nat /\ f \in Paths \X Nat
      BY <1>1 DEF Entries
    <2>5. e[2] = f[2]
      BY <2>1, <2>2, <2>3, <2>4
    <2> QED  BY <2>1, <2>4, <2>5
  <1> QED  BY <1>1

\* What a change of the workspace may make of it.
Becomes(w) ==
  /\ Proper(w) /\ Onward(world, w)
  /\ \A p \in Paths : w.tree[p] <= writes + 2

LEMMA WritersGoOn ==
  ASSUME BaselineInv, Workspace!Checkout, Workspace!Writers
  PROVE  \E w : Becomes(w) /\ Workspace!World(w)
PROOF
  <1>1. /\ Proper(world) /\ world \in WorldSet /\ Onward(world, world)
        /\ writes \in Nat /\ OneEntry(world.index)
    BY OnwardItself DEF BaselineInv, Proper, Workspace!Checkout
  <1>2. \A p \in Paths : world.tree[p] \in Nat /\ world.tree[p] <= writes + 1
    BY <1>1 DEF BaselineInv, WorldSet
  <1>w. world = [tree |-> world.tree, index |-> world.index, head |-> world.head,
                 hidden |-> world.hidden, linked |-> world.linked, odd |-> world.odd,
                 gone |-> world.gone]
    BY <1>1 DEF WorldSet
  <1>t. /\ world.tree \in [Paths -> Nat] /\ world.index \in Entries /\ world.head \in Nat
        /\ world.hidden \subseteq Paths /\ world.linked \subseteq Paths
        /\ world.odd \subseteq Workspace!Shapes /\ world.gone \subseteq Paths
    BY <1>1 DEF WorldSet
  <1>3. ASSUME NEW p \in Paths, Workspace!Write(p)
        PROVE  \E w : Becomes(w) /\ Workspace!World(w)
    <2>1. PICK w : w = [world EXCEPT !.tree[p] = writes + 2]
      OBVIOUS
    <2>2. Workspace!World(w) /\ p \notin world.gone
      BY <1>3, <2>1 DEF Workspace!Write
    <2>3. w = [tree |-> [world.tree EXCEPT ![p] = writes + 2], index |-> world.index,
               head |-> world.head, hidden |-> world.hidden, linked |-> world.linked,
               odd |-> world.odd, gone |-> world.gone]
      BY <1>w, <2>1
    <2>4. \A q \in Paths : w.tree[q] = IF q = p THEN writes + 2 ELSE world.tree[q]
      BY <1>t, <2>3
    <2>5. w \in WorldSet
      BY <1>1, <1>t, <2>3 DEF WorldSet
    <2>6. \A q \in Paths : world.tree[q] <= w.tree[q] /\ w.tree[q] <= writes + 2
      BY <1>1, <1>2, <2>4
    <2>7. \A e \in w.index : e[2] # 0 /\ (e[1] \in w.gone \/ e[2] <= w.tree[e[1]])
      <3> SUFFICES ASSUME NEW e \in w.index PROVE e[2] # 0 /\ (e[1] \in w.gone \/ e[2] <= w.tree[e[1]])
        OBVIOUS
      <3>1. /\ e \in Paths \X Nat /\ e[2] # 0
            /\ e[1] \in world.gone \/ e[2] <= world.tree[e[1]]
        BY <1>1, <2>3 DEF Proper, WorldSet, Entries
      <3>2. e[1] \in Paths /\ e[2] \in Nat /\ w.tree[e[1]] \in Nat /\ world.tree[e[1]] \in Nat
        BY <1>2, <2>5, <3>1 DEF WorldSet
      <3>3. world.tree[e[1]] <= w.tree[e[1]]
        BY <2>6, <3>2
      <3> QED  BY <2>3, <3>1, <3>2, <3>3
    <2>8. Onward(world, w)
      BY <1>1, <2>3, <2>6 DEF Onward
    <2>9. Proper(w)
      <3>1. \A q \in w.gone : w.tree[q] = 0
        BY <1>1, <1>t, <2>2, <2>3, <2>4 DEF Proper
      <3>2. \A q \in Instructions : w.tree[q] # 0 /\ q \notin w.hidden
        <4>1. \A q \in Instructions : q \in Paths /\ world.tree[q] # 0 /\ q \notin world.hidden
          BY <1>1 DEF Proper, Workspace!Checkout
        <4>2. writes + 2 # 0
          BY <1>1
        <4> QED  BY <4>1, <4>2, <2>3, <2>4
      <3>3. OneEntry(w.index)
        BY <1>1, <2>3
      <3> QED  BY <2>5, <2>7, <3>1, <3>2, <3>3 DEF Proper
    <2> QED  BY <2>2, <2>6, <2>8, <2>9 DEF Becomes
  <1>4. ASSUME NEW p \in Paths, Workspace!Delete(p)
        PROVE  \E w : Becomes(w) /\ Workspace!World(w)
    <2>1. PICK w : w = [world EXCEPT !.tree[p] = 0, !.gone = @ \union {p}]
      OBVIOUS
    <2>2. Workspace!World(w) /\ p \notin Instructions
      BY <1>4, <2>1 DEF Workspace!Delete
    <2>3. w = [tree |-> [world.tree EXCEPT ![p] = 0], index |-> world.index,
               head |-> world.head, hidden |-> world.hidden, linked |-> world.linked,
               odd |-> world.odd, gone |-> world.gone \union {p}]
      BY <1>w, <2>1
    <2>4. \A q \in Paths : w.tree[q] = IF q = p THEN 0 ELSE world.tree[q]
      BY <1>t, <2>3
    <2>5. w \in WorldSet
      BY <1>t, <2>3 DEF WorldSet
    <2>6. \A q \in Paths : w.tree[q] <= writes + 2 /\ (q \in w.gone \/ world.tree[q] <= w.tree[q])
      BY <1>1, <1>2, <2>3, <2>4
    <2>7. \A e \in w.index : e[2] # 0 /\ (e[1] \in w.gone \/ e[2] <= w.tree[e[1]])
      <3>1. \A e \in w.index : e[2] # 0 /\ (e[1] \in world.gone \/ e[2] <= world.tree[e[1]])
        BY <1>1, <2>3 DEF Proper
      <3>2. \A e \in w.index : e[1] \in Paths
        BY <1>t, <2>3 DEF Entries
      <3> QED  BY <2>3, <2>4, <3>1, <3>2
    <2>8. Onward(world, w)
      BY <1>1, <2>3, <2>6 DEF Onward
    <2>9. Proper(w)
      <3>1. \A q \in w.gone : w.tree[q] = 0
        BY <1>1, <1>t, <2>3, <2>4 DEF Proper
      <3>2. \A q \in Instructions : w.tree[q] # 0 /\ q \notin w.hidden
        <4>1. \A q \in Instructions : q \in Paths /\ world.tree[q] # 0 /\ q \notin world.hidden
          BY <1>1 DEF Proper, Workspace!Checkout
        <4> QED  BY <4>1, <2>2, <2>3, <2>4
      <3>3. OneEntry(w.index)
        BY <1>1, <2>3
      <3> QED  BY <2>5, <2>7, <3>1, <3>2, <3>3 DEF Proper
    <2> QED  BY <2>2, <2>6, <2>8, <2>9 DEF Becomes
  <1>5. ASSUME NEW p \in Paths, Workspace!Stage(p)
        PROVE  \E w : Becomes(w) /\ Workspace!World(w)
    <2>1. PICK index : index = {e \in world.index : e[1] # p} \union {<<p, world.tree[p]>>}
      OBVIOUS
    <2>2. PICK w : w = [world EXCEPT !.index = index]
      OBVIOUS
    <2>3. Workspace!World(w) /\ world.tree[p] # 0
      BY <1>5, <2>1, <2>2 DEF Workspace!Stage, Workspace!Content
    <2>4. w = [tree |-> world.tree, index |-> index, head |-> world.head,
               hidden |-> world.hidden, linked |-> world.linked, odd |-> world.odd,
               gone |-> world.gone]
      BY <1>w, <2>2
    <2>5. index \in Entries
      BY <1>t, <1>2, <2>1 DEF Entries
    <2>6. w \in WorldSet
      BY <1>t, <2>4, <2>5 DEF WorldSet
    <2>7. OneEntry(index)
      BY <1>1, <2>1 DEF OneEntry
    <2>8. \A e \in index : e[2] # 0 /\ (e[1] \in w.gone \/ e[2] <= w.tree[e[1]])
      <3>1. \A e \in world.index : e[2] # 0 /\ (e[1] \in w.gone \/ e[2] <= w.tree[e[1]])
        BY <1>1, <2>4 DEF Proper
      <3>2. world.tree[p] <= w.tree[p]
        BY <1>2, <2>4
      <3> QED  BY <2>1, <2>3, <3>1, <3>2
    <2>9. Staged(world.index, index)
      <3> SUFFICES ASSUME NEW e \in world.index
                   PROVE  \E f \in index : f[1] = e[1] /\ e[2] <= f[2]
        BY DEF Staged
      <3>1. CASE e[1] # p
        <4>1. e \in index /\ e[2] \in Nat
          BY <1>t, <2>1, <3>1 DEF Entries
        <4>2. e[2] <= e[2]
          BY <4>1
        <4> QED  BY <4>1, <4>2
      <3>2. CASE e[1] = p
        <4>1. p \notin world.gone
          BY <1>1, <2>3 DEF Proper
        <4>2. e[2] <= world.tree[p]
          BY <1>1, <3>2, <4>1 DEF Proper
        <4>3. PICK f : f = <<p, world.tree[p]>>
          OBVIOUS
        <4>4. f \in index /\ f[1] = p /\ f[2] = world.tree[p]
          BY <2>1, <4>3
        <4> QED  BY <3>2, <4>2, <4>4
      <3> QED  BY <3>1, <3>2
    <2>10. Onward(world, w)
      BY <1>1, <2>4, <2>9 DEF Onward
    <2>11. Proper(w)
      BY <1>1, <2>4, <2>6, <2>7, <2>8 DEF Proper
    <2>12. \A q \in Paths : w.tree[q] <= writes + 2
      BY <1>1, <1>2, <2>4
    <2> QED  BY <2>3, <2>10, <2>11, <2>12 DEF Becomes
  <1>6. ASSUME NEW w, Workspace!World(w), w \in WorldSet, w.tree = world.tree, w.index = world.index,
               w.gone = world.gone, world.head <= w.head,
               world.hidden \subseteq w.hidden, w.hidden \intersect Instructions = {}
        PROVE  \E v : Becomes(v) /\ Workspace!World(v)
    <2>1. Onward(world, w)
      BY <1>1, <1>6 DEF Onward
    <2>2. Proper(w)
      BY <1>1, <1>6 DEF Proper
    <2>3. \A q \in Paths : w.tree[q] <= writes + 2
      BY <1>1, <1>2, <1>6
    <2> QED  BY <1>6, <2>1, <2>2, <2>3 DEF Becomes
  <1>7. world.hidden \intersect Instructions = {} /\ world.head <= world.head
    BY <1>1, <1>t DEF Proper
  <1>8. CASE Workspace!Commit
    <2>1. PICK w : w = [world EXCEPT !.head = @ + 1]
      OBVIOUS
    <2>2. w = [tree |-> world.tree, index |-> world.index, head |-> world.head + 1,
               hidden |-> world.hidden, linked |-> world.linked, odd |-> world.odd,
               gone |-> world.gone]
      BY <1>w, <2>1
    <2>3. w \in WorldSet /\ world.head <= w.head
      BY <1>t, <2>2 DEF WorldSet
    <2> QED  BY <1>6, <1>7, <1>8, <2>1, <2>2, <2>3 DEF Workspace!Commit
  <1>9. ASSUME NEW p \in Paths, Workspace!Hide(p)
        PROVE  \E w : Becomes(w) /\ Workspace!World(w)
    <2>1. PICK w : w = [world EXCEPT !.hidden = @ \union {p}]
      OBVIOUS
    <2>2. w = [tree |-> world.tree, index |-> world.index, head |-> world.head,
               hidden |-> world.hidden \union {p}, linked |-> world.linked, odd |-> world.odd,
               gone |-> world.gone]
      BY <1>w, <2>1
    <2>3. w \in WorldSet
      BY <1>t, <2>2 DEF WorldSet
    <2> QED  BY <1>6, <1>7, <1>9, <2>1, <2>2, <2>3 DEF Workspace!Hide
  <1>10. ASSUME NEW p \in Paths, Workspace!Link(p)
         PROVE  \E w : Becomes(w) /\ Workspace!World(w)
    <2>1. PICK w : w = [world EXCEPT !.linked = @ \union {p}]
      OBVIOUS
    <2>2. w = [tree |-> world.tree, index |-> world.index, head |-> world.head,
               hidden |-> world.hidden, linked |-> world.linked \union {p}, odd |-> world.odd,
               gone |-> world.gone]
      BY <1>w, <2>1
    <2>3. w \in WorldSet
      BY <1>t, <2>2 DEF WorldSet
    <2> QED  BY <1>6, <1>7, <1>10, <2>1, <2>2, <2>3 DEF Workspace!Link
  <1>11. ASSUME NEW shape \in Workspace!Shapes, Workspace!Reshape(shape)
         PROVE  \E w : Becomes(w) /\ Workspace!World(w)
    <2>1. PICK w : w = [world EXCEPT !.odd = @ \union {shape}]
      OBVIOUS
    <2>2. w = [tree |-> world.tree, index |-> world.index, head |-> world.head,
               hidden |-> world.hidden, linked |-> world.linked, odd |-> world.odd \union {shape},
               gone |-> world.gone]
      BY <1>w, <2>1
    <2>3. w \in WorldSet
      BY <1>t, <2>2 DEF WorldSet
    <2> QED  BY <1>6, <1>7, <1>11, <2>1, <2>2, <2>3 DEF Workspace!Reshape
  <1> QED  BY <1>3, <1>4, <1>5, <1>8, <1>9, <1>10, <1>11 DEF Workspace!Writers

\* What a capture knows it still knows when the workspace has gone on.
LEMMA CapturingOn ==
  ASSUME NEW c \in CaptureSet, NEW v, NEW seen, Proper(v), Capturing(c, v, seen),
         NEW w, Proper(w), Onward(v, w)
  PROVE  Capturing(c, w, seen \union {w})
PROOF
  <1>1. v \in WorldSet /\ w \in WorldSet
    BY DEF Proper
  <1>t. /\ c.git \in GitSet /\ c.prev \in GitSet /\ c.files \subseteq Paths \X Nat
        /\ c.first \subseteq Paths \X Nat
    BY DEF CaptureSet, Entries
  <1>2. \A m : Proper(m) /\ Onward(m, v) => Onward(m, w)
    BY <1>1, OnwardOn DEF Proper
  <1>3. \A f \in Paths \X Nat : Before(f, v) => Before(f, w)
    BY <1>1, BeforeOn
  <1>4. c.part # "head" => c.git.head <= w.head
    <2>1. c.git.head \in Nat /\ v.head \in Nat /\ w.head \in Nat
      BY <1>1, <1>t DEF GitSet, WorldSet
    <2> QED  BY <2>1 DEF Capturing, Onward
  <1>5. c.part \notin {"head", "index"} => Staged(c.git.index, w.index)
    BY <1>1, <1>t, StagedOn DEF Capturing, Onward, WorldSet, GitSet
  <1>6. c.round # 1 \/ c.part \in {"files", "done"} =>
          \E u \in seen \union {w} : Workspace!Ignored(u) = {}
    BY DEF Capturing
  <1>7. c.round = 1 => \A f \in c.files : Before(f, w)
    BY <1>t, <1>3 DEF Capturing
  <1>8. c.round = 2 /\ c.part \in Early => c.files = {} /\ \A f \in c.first : Before(f, w)
    BY <1>t, <1>3 DEF Capturing
  <1>9. c.round = 2 /\ c.part \notin Early => \E m \in seen \union {w} : SecondRead(c, w, m)
    BY <1>2 DEF Capturing, SecondRead
  <1>10. c.round = 3 => \E m \in seen \union {w} : ThirdRead(c, w, m)
    BY <1>2 DEF Capturing, ThirdRead
  <1>11. /\ w \in seen \union {w} /\ c.round # 0
         /\ c.part = "done" => c.round = 3
         /\ c.part = "files" => c.round # 3
         /\ OneEntry(c.git.index)
    BY DEF Capturing
  <1> QED  BY <1>4, <1>5, <1>6, <1>7, <1>8, <1>9, <1>10, <1>11 DEF Capturing

LEMMA WritersKeep ==
  ASSUME BaselineInv, Workspace!Checkout, Workspace!Writers
  PROVE  BaselineInv'
PROOF
  <1>1. PICK w : Becomes(w) /\ Workspace!World(w)
    BY WritersGoOn
  <1>2. /\ writes' = writes + 1 /\ world' = w /\ cap' = cap /\ phase' = phase /\ torn' = torn
        /\ cap.for # "none" => lived' = lived \union {w}
        /\ writes < MaxWrites
    BY <1>1 DEF Workspace!World
  <1>3. writes' \in 0..MaxWrites
    BY <1>2 DEF BaselineInv, Workspace!Checkout
  <1>4. \A p \in Paths : world'.tree[p] <= writes' + 1
    <2>1. writes + 2 = writes' + 1
      BY <1>2 DEF BaselineInv
    <2> QED  BY <1>1, <1>2, <2>1 DEF Becomes
  <1>5. cap.for # "none" => Capturing(cap, w, lived \union {w})
    BY <1>1, CapturingOn DEF BaselineInv, Becomes
  <1> QED  BY <1>1, <1>2, <1>3, <1>4, <1>5 DEF BaselineInv, Becomes

--------------------------------------------------------------------------------
(* The capture.                                                                 *)

LEMMA ReadingKeeps ==
  ASSUME BaselineInv, cap.for # "none", cap' \in CaptureSet, Workspace!Advances,
         Capturing(cap', world, lived)
  PROVE  BaselineInv'
PROOF
  BY DEF BaselineInv, Workspace!Advances

\* The parts of what a reading of Git changes.
LEMMA IdentityKeeps ==
  ASSUME BaselineInv, Workspace!ReadIdentity
  PROVE  BaselineInv'
PROOF
  <1>1. /\ cap.for # "none" /\ cap.part = "head" /\ Workspace!Advances
        /\ cap \in CaptureSet /\ Capturing(cap, world, lived)
    BY DEF BaselineInv, Workspace!ReadIdentity, Workspace!Reading
  <1>2. PICK git : git = [Workspace!NoGit EXCEPT !.head = world.head,
                                                 !.odd = world.odd \intersect {"git_dir"}]
    OBVIOUS
  <1>3. git = [head |-> world.head, index |-> {}, untracked |-> {}, ignored |-> {},
               odd |-> world.odd \intersect {"git_dir"}]
    BY <1>2 DEF Workspace!NoGit
  <1>4. cap' = [for |-> cap.for, round |-> cap.round, part |-> "index", git |-> git,
                prev |-> cap.prev, files |-> cap.files, first |-> cap.first]
    BY <1>1, <1>2 DEF Workspace!ReadIdentity, CaptureSet
  <1>5. git \in GitSet
    BY <1>3 DEF BaselineInv, Proper, WorldSet, GitSet, Entries, Workspace!Shapes
  <1>6. cap' \in CaptureSet
    BY <1>1, <1>4, <1>5 DEF CaptureSet, Early
  <1>7. world.head \in Nat
    BY DEF BaselineInv, Proper, WorldSet
  <1>8. OneEntry(git.index) /\ git.head <= world.head
    BY <1>3, <1>7 DEF OneEntry
  <1>9. cap'.round = 3 => \E m \in lived : ThirdRead(cap', world, m)
    <2>1. SUFFICES ASSUME cap.round = 3, NEW m \in lived, ThirdRead(cap, world, m)
                   PROVE  ThirdRead(cap', world, m)
      BY <1>1, <1>4 DEF Capturing
    <2>2. m.head <= git.head
      BY <1>3, <2>1 DEF ThirdRead, Onward
    <2> QED  BY <1>1, <1>4, <2>1, <2>2 DEF ThirdRead
  <1>10. Capturing(cap', world, lived)
    BY <1>1, <1>4, <1>8, <1>9 DEF Capturing, Early
  <1> QED  BY <1>1, <1>6, <1>10, ReadingKeeps

LEMMA IndexKeeps ==
  ASSUME BaselineInv, Workspace!ReadIndex
  PROVE  BaselineInv'
PROOF
  <1>1. /\ cap.for # "none" /\ cap.part = "index" /\ Workspace!Advances
        /\ cap \in CaptureSet /\ cap.git \in GitSet /\ Capturing(cap, world, lived)
    BY DEF BaselineInv, Workspace!ReadIndex, Workspace!Reading, CaptureSet
  <1>2. PICK odd : odd = cap.git.odd \union (world.odd \intersect {"gitlink"})
    OBVIOUS
  <1>3. PICK git : git = [head |-> cap.git.head, index |-> world.index,
                          untracked |-> cap.git.untracked, ignored |-> cap.git.ignored,
                          odd |-> odd]
    OBVIOUS
  <1>4. cap' = [for |-> cap.for, round |-> cap.round, part |-> "flags", git |-> git,
                prev |-> cap.prev, files |-> cap.files, first |-> cap.first]
    BY <1>1, <1>2, <1>3 DEF Workspace!ReadIndex, CaptureSet, GitSet
  <1>5. git \in GitSet /\ OneEntry(world.index) /\ Staged(world.index, world.index)
    <2>1. Proper(world)
      BY DEF BaselineInv
    <2> QED  BY <1>1, <1>2, <1>3, <2>1, OnwardItself DEF Onward, Proper, WorldSet, GitSet, Workspace!Shapes
  <1>6. cap' \in CaptureSet
    BY <1>1, <1>4, <1>5 DEF CaptureSet, Early
  <1>7. cap'.round = 3 => \E m \in lived : ThirdRead(cap', world, m)
    <2>1. SUFFICES ASSUME cap.round = 3, NEW m \in lived, ThirdRead(cap, world, m)
                   PROVE  ThirdRead(cap', world, m)
      BY <1>1, <1>4 DEF Capturing
    <2>2. Staged(m.index, git.index) /\ m.head <= git.head
      BY <1>1, <1>3, <2>1 DEF ThirdRead, Onward
    <2> QED  BY <1>1, <1>4, <2>1, <2>2 DEF ThirdRead
  <1>8. Capturing(cap', world, lived)
    BY <1>1, <1>3, <1>4, <1>5, <1>7 DEF Capturing, Early
  <1> QED  BY <1>1, <1>6, <1>8, ReadingKeeps

LEMMA FlagsKeep ==
  ASSUME BaselineInv, Workspace!ReadIndexFlags
  PROVE  BaselineInv'
PROOF
  <1>1. /\ cap.for # "none" /\ cap.part = "flags" /\ Workspace!Advances
        /\ cap \in CaptureSet /\ cap.git \in GitSet /\ Capturing(cap, world, lived)
    BY DEF BaselineInv, Workspace!ReadIndexFlags, Workspace!Reading, CaptureSet
  <1>2. PICK odd : odd = cap.git.odd \union (world.odd \intersect {"concealed"})
                           \union (IF {e[1] : e \in world.index} = Workspace!Indexed(cap.git)
                                     THEN {} ELSE {"mismatch"})
    OBVIOUS
  <1>3. PICK git : git = [head |-> cap.git.head, index |-> cap.git.index,
                          untracked |-> cap.git.untracked, ignored |-> cap.git.ignored,
                          odd |-> odd]
    OBVIOUS
  <1>4. cap' = [for |-> cap.for, round |-> cap.round, part |-> "untracked", git |-> git,
                prev |-> cap.prev, files |-> cap.files, first |-> cap.first]
    BY <1>1, <1>2, <1>3 DEF Workspace!ReadIndexFlags, CaptureSet, GitSet
  <1>5. git \in GitSet
    <2>1. odd \subseteq Workspace!Shapes \union {"mismatch"}
      BY <1>1, <1>2 DEF BaselineInv, Proper, WorldSet, GitSet
    <2> QED  BY <1>1, <1>3, <2>1 DEF GitSet
  <1>6. cap' \in CaptureSet
    BY <1>1, <1>4, <1>5 DEF CaptureSet, Early
  <1>7. cap'.round = 3 => \E m \in lived : ThirdRead(cap', world, m)
    BY <1>1, <1>3, <1>4 DEF Capturing, ThirdRead
  <1>8. Capturing(cap', world, lived)
    BY <1>1, <1>3, <1>4, <1>7 DEF Capturing, Early
  <1> QED  BY <1>1, <1>6, <1>8, ReadingKeeps

\* The second reading of the untracked files is the moment that the baseline shows.
LEMMA UntrackedKeeps ==
  ASSUME BaselineInv, Workspace!ReadUntracked
  PROVE  BaselineInv'
PROOF
  <1>1. /\ cap.for # "none" /\ cap.part = "untracked" /\ Workspace!Advances
        /\ cap \in CaptureSet /\ cap.git \in GitSet /\ Capturing(cap, world, lived)
    BY DEF BaselineInv, Workspace!ReadUntracked, Workspace!Reading, CaptureSet
  <1>2. PICK git : git = [head |-> cap.git.head, index |-> cap.git.index,
                          untracked |-> Workspace!Untracked(world),
                          ignored |-> cap.git.ignored, odd |-> cap.git.odd]
    OBVIOUS
  <1>3. cap' = [for |-> cap.for, round |-> cap.round, part |-> "ignored", git |-> git,
                prev |-> cap.prev, files |-> cap.files, first |-> cap.first]
    BY <1>1, <1>2 DEF Workspace!ReadUntracked, CaptureSet, GitSet
  <1>4. git \in GitSet
    <2>1. Workspace!Untracked(world) \subseteq Paths
      BY DEF Workspace!Untracked
    <2> QED  BY <1>1, <1>2, <2>1 DEF GitSet
  <1>5. cap' \in CaptureSet
    BY <1>1, <1>3, <1>4 DEF CaptureSet
  <1>6. cap'.round = 3 => \E m \in lived : ThirdRead(cap', world, m)
    BY <1>1, <1>2, <1>3 DEF Capturing, ThirdRead
  <1>7. cap'.round = 2 => SecondRead(cap', world, world)
    <2>1. Proper(world) /\ Onward(world, world)
      BY OnwardItself DEF BaselineInv
    <2> QED  BY <1>1, <1>2, <1>3, <2>1 DEF Capturing, SecondRead, Early
  <1>8. Capturing(cap', world, lived)
    BY <1>1, <1>2, <1>3, <1>6, <1>7 DEF Capturing, Early
  <1> QED  BY <1>1, <1>5, <1>8, ReadingKeeps

LEMMA IgnoredKeeps ==
  ASSUME BaselineInv, Workspace!ReadIgnored
  PROVE  BaselineInv'
PROOF
  <1>1. /\ cap.for # "none" /\ cap.part = "ignored" /\ Workspace!Advances
        /\ cap \in CaptureSet /\ cap.git \in GitSet /\ Capturing(cap, world, lived)
    BY DEF BaselineInv, Workspace!ReadIgnored, Workspace!Reading, CaptureSet
  <1>2. PICK git : git = [head |-> cap.git.head, index |-> cap.git.index,
                          untracked |-> cap.git.untracked,
                          ignored |-> Workspace!Ignored(world), odd |-> cap.git.odd]
    OBVIOUS
  <1>3. git = [cap.git EXCEPT !.ignored = Workspace!Ignored(world)]
    BY <1>1, <1>2 DEF GitSet
  <1>4. PICK part : part = IF cap.round = 3 THEN "done" ELSE "files"
    OBVIOUS
  <1>5. /\ cap.round > 1 => git = cap.prev
        /\ Workspace!Eligible(git)
        /\ cap' = [cap EXCEPT !.git = git, !.part = part]
    BY <1>3, <1>4 DEF Workspace!ReadIgnored
  <1>6. cap' = [for |-> cap.for, round |-> cap.round, part |-> part, git |-> git,
                prev |-> cap.prev, files |-> cap.files, first |-> cap.first]
    BY <1>1, <1>5 DEF CaptureSet
  <1>7. git \in GitSet
    <2>1. Workspace!Ignored(world) \subseteq Paths
      BY DEF Workspace!Ignored, BaselineInv, Proper, WorldSet
    <2> QED  BY <1>1, <1>2, <2>1 DEF GitSet
  <1>8. cap' \in CaptureSet
    BY <1>1, <1>4, <1>6, <1>7 DEF CaptureSet
  <1>9. Workspace!Ignored(world) = {} /\ world \in lived
    BY <1>1, <1>2, <1>5 DEF Workspace!Eligible, Capturing
  <1>10. cap.round \in 0..3
    BY <1>1 DEF CaptureSet
  <1>11. cap'.round = 3 => \E m \in lived : ThirdRead(cap', world, m)
    <2>1. cap.round = 3 => git = cap.prev
      BY <1>5, <1>10
    <2> QED  BY <1>1, <1>2, <1>4, <1>6, <2>1 DEF Capturing, ThirdRead
  <1>12. cap'.round = 2 => \E m \in lived : SecondRead(cap', world, m)
    <2>1. ToRead(git) = ToRead(cap.git)
      BY <1>2 DEF ToRead, Workspace!Indexed
    <2> QED  BY <1>1, <1>2, <1>6, <2>1 DEF Capturing, SecondRead, Early
  <1>13. Capturing(cap', world, lived)
    BY <1>1, <1>2, <1>4, <1>6, <1>9, <1>11, <1>12 DEF Capturing, Early
  <1> QED  BY <1>1, <1>8, <1>13, ReadingKeeps

LEMMA FingerprintKeeps ==
  ASSUME BaselineInv, NEW p \in Paths, Workspace!Fingerprint(p)
  PROVE  BaselineInv'
PROOF
  <1>1. /\ cap.for # "none" /\ cap.part = "files" /\ Workspace!Advances
        /\ cap \in CaptureSet /\ cap.git \in GitSet /\ Capturing(cap, world, lived)
        /\ Proper(world)
    BY DEF BaselineInv, Workspace!Fingerprint, Workspace!Reading, CaptureSet
  <1>2. p \in Workspace!Todo /\ (world.tree[p] = 0 => p \in Workspace!Indexed(cap.git))
    BY DEF Workspace!Fingerprint, Workspace!Content
  <1>3. PICK f : f = <<p, world.tree[p]>>
    OBVIOUS
  <1>4. cap' = [for |-> cap.for, round |-> cap.round, part |-> cap.part, git |-> cap.git,
                prev |-> cap.prev, files |-> cap.files \union {f}, first |-> cap.first]
    BY <1>1, <1>3 DEF Workspace!Fingerprint, Workspace!Content, CaptureSet
  <1>5. f \in Paths \X Nat /\ f[1] = p
    BY <1>1, <1>3 DEF Proper, WorldSet
  <1>6. cap' \in CaptureSet
    BY <1>1, <1>4, <1>5 DEF CaptureSet, Entries
  <1>7. Staged(cap.git.index, world.index)
    BY <1>1 DEF Capturing
  <1>8. Before(f, world) /\ \A m : Proper(m) /\ Onward(m, world) => After(f, m)
    BY <1>1, <1>2, <1>3, <1>7, ReadNow
  <1>9. f[1] \in ToRead(cap.git)
    BY <1>2, <1>5 DEF Workspace!Todo, ToRead
  <1>10. cap'.round = 2 => \E m \in lived : SecondRead(cap', world, m)
    BY <1>1, <1>4, <1>8, <1>9 DEF Capturing, SecondRead, Early
  <1>11. Capturing(cap', world, lived)
    BY <1>1, <1>4, <1>8, <1>10 DEF Capturing, Early
  <1> QED  BY <1>1, <1>6, <1>11, ReadingKeeps

LEMMA FilesReadKeeps ==
  ASSUME BaselineInv, Workspace!FilesRead
  PROVE  BaselineInv'
PROOF
  <1>1. /\ cap.for # "none" /\ cap.part = "files" /\ Workspace!Advances
        /\ cap \in CaptureSet /\ cap.git \in GitSet /\ Capturing(cap, world, lived)
        /\ Workspace!Todo = {} /\ (cap.round = 2 => cap.files = cap.first)
    BY DEF BaselineInv, Workspace!FilesRead, Workspace!Reading, CaptureSet
  <1>2. cap.round \in {1, 2}
    BY <1>1 DEF Capturing, CaptureSet
  <1>3. cap' = [for |-> cap.for, round |-> cap.round + 1, part |-> "head", git |-> cap.git,
                prev |-> cap.git, files |-> IF cap.round = 1 THEN {} ELSE cap.files,
                first |-> cap.files]
    BY <1>1 DEF Workspace!FilesRead, CaptureSet
  <1>4. cap' \in CaptureSet
    BY <1>1, <1>2, <1>3 DEF CaptureSet, Early, Entries
  <1>5. CASE cap.round = 1
    <2>1. cap'.round = 2 /\ cap'.files = {} /\ cap'.first = cap.files /\ cap'.part = "head"
          /\ cap'.git = cap.git
      BY <1>3, <1>5
    <2>2. Capturing(cap', world, lived)
      BY <1>1, <1>5, <2>1 DEF Capturing, Early
    <2> QED  BY <1>1, <1>4, <2>2, ReadingKeeps
  <1>6. CASE cap.round = 2
    <2>1. cap'.round = 3 /\ cap'.files = cap.files /\ cap'.part = "head"
          /\ cap'.git = cap.git /\ cap'.prev = cap.git
      BY <1>3, <1>6
    <2>2. ToRead(cap.git) \subseteq {f[1] : f \in cap.files}
      BY <1>1 DEF Workspace!Todo, ToRead
    <2>3. PICK m \in lived : SecondRead(cap, world, m)
      BY <1>1, <1>6 DEF Capturing, Early
    <2>4. {f[1] : f \in cap.files} = ToRead(cap.git)
      BY <2>2, <2>3 DEF SecondRead
    <2>5. ThirdRead(cap', world, m)
      BY <1>1, <1>6, <2>1, <2>3, <2>4 DEF SecondRead, ThirdRead
    <2>6. Capturing(cap', world, lived)
      BY <1>1, <1>6, <2>1, <2>5 DEF Capturing, Early
    <2> QED  BY <1>1, <1>4, <2>6, ReadingKeeps
  <1> QED  BY <1>2, <1>5, <1>6

LEMMA BeginKeeps ==
  ASSUME BaselineInv, NEW for \in Asked, Workspace!Begin(for)
  PROVE  BaselineInv'
PROOF
  <1>1. /\ world' = world /\ phase' = phase /\ torn' = torn /\ writes' = writes
        /\ lived' = {world}
    BY DEF Workspace!Begin
  <1>2. cap' = [for |-> for, round |-> 1, part |-> "head", git |-> Workspace!NoGit,
                prev |-> Workspace!NoGit, files |-> {}, first |-> {}]
    BY DEF Workspace!Begin, Workspace!NoCapture
  <1>3. Workspace!NoGit \in GitSet /\ Workspace!NoGit.index = {}
    BY DEF Workspace!NoGit, GitSet, Entries
  <1>4. cap' \in CaptureSet
    BY <1>2, <1>3 DEF CaptureSet, Early, Entries
  <1>5. OneEntry(Workspace!NoGit.index)
    BY <1>3 DEF OneEntry
  <1>6. Capturing(cap', world, {world})
    BY <1>2, <1>5 DEF Capturing
  <1> QED  BY <1>1, <1>4, <1>6 DEF BaselineInv

LEMMA NoCaptureFits == Workspace!NoCapture \in CaptureSet /\ Workspace!NoCapture.for = "none"
  BY DEF Workspace!NoCapture, Workspace!NoGit, CaptureSet, GitSet, Entries, Early

LEMMA RefuseKeeps ==
  ASSUME BaselineInv, Workspace!Refuse
  PROVE  BaselineInv'
PROOF
  <1>1. /\ world' = world /\ phase' = phase /\ torn' = torn /\ writes' = writes
        /\ cap' = Workspace!NoCapture
    BY DEF Workspace!Refuse
  <1> QED  BY <1>1, NoCaptureFits DEF BaselineInv

\* What is complete is the workspace as it was at the second reading of the untracked files.
LEMMA CompleteShown ==
  ASSUME BaselineInv, cap.for # "none", cap.part = "done"
  PROVE  /\ \E w \in lived : Workspace!Shown(w) = Workspace!Baseline
         /\ \E w \in lived : Workspace!Ignored(w) = {}
PROOF
  <1>1. Capturing(cap, world, lived) /\ cap \in CaptureSet
    BY DEF BaselineInv
  <1>2. PICK m \in lived : ThirdRead(cap, world, m)
    BY <1>1 DEF Capturing
  <1>3. /\ Proper(m) /\ m \in WorldSet /\ cap.git = cap.prev
        /\ cap.git.head <= m.head /\ m.head <= cap.git.head
        /\ Staged(cap.git.index, m.index) /\ Staged(m.index, cap.git.index)
        /\ cap.git.untracked = Workspace!Untracked(m)
        /\ {f[1] : f \in cap.files} = ToRead(cap.git)
        /\ \A f \in cap.files : Before(f, m) /\ After(f, m)
    BY <1>2 DEF ThirdRead, Proper
  <1>4. cap.git \in GitSet /\ cap.files \subseteq Paths \X Nat
    BY <1>1 DEF CaptureSet, Entries
  <1>5. cap.git.head = m.head
    <2>1. cap.git.head \in Nat /\ m.head \in Nat
      BY <1>3, <1>4 DEF GitSet, WorldSet
    <2> QED  BY <1>3, <2>1
  <1>6. cap.git.index = m.index
    BY <1>1, <1>3, <1>4, SameIndex DEF Capturing, Proper, GitSet, WorldSet
  <1>7. PICK S : S = {q \in Paths :
                        \/ q \in {e[1] : e \in m.index}
                        \/ m.tree[q] # 0 /\ q \notin Workspace!Ignored(m)}
    OBVIOUS
  <1>8. S = ToRead(cap.git)
    <2>1. ASSUME NEW q \in S PROVE q \in ToRead(cap.git)
      BY <1>3, <1>6, <1>7, <2>1
      DEF ToRead, Workspace!Indexed, Workspace!Untracked, Workspace!Ignored, Workspace!Content
    <2>2. ASSUME NEW q \in ToRead(cap.git) PROVE q \in S
      <3>1. q \in Paths
        BY <1>3, <1>4
      <3>2. CASE q \in Workspace!Indexed(cap.git)
        BY <1>6, <1>7, <3>1, <3>2 DEF Workspace!Indexed
      <3>3. CASE q \in cap.git.untracked
        BY <1>3, <1>7, <3>1, <3>3 DEF Workspace!Untracked, Workspace!Ignored, Workspace!Content
      <3>4. CASE q \in Instructions
        BY <1>3, <1>7, <3>1, <3>4 DEF Proper, Workspace!Ignored
      <3> QED  BY <3>2, <3>3, <3>4 DEF ToRead
    <2> QED  BY <2>1, <2>2
  <1>9. \A f \in cap.files : f[1] \in Paths /\ f = <<f[1], m.tree[f[1]]>>
    <2> SUFFICES ASSUME NEW f \in cap.files PROVE f[1] \in Paths /\ f = <<f[1], m.tree[f[1]]>>
      OBVIOUS
    <2>1. f \in Paths \X Nat /\ f = <<f[1], f[2]>> /\ f[1] \in Paths /\ f[2] \in Nat
          /\ m.tree[f[1]] \in Nat
      BY <1>3, <1>4 DEF WorldSet
    <2>2. Before(f, m) /\ After(f, m)
      BY <1>3
    <2>3. f[1] \in m.gone => m.tree[f[1]] = 0
      BY <1>3 DEF Proper
    <2>4. f[2] = m.tree[f[1]]
      BY <2>1, <2>2, <2>3 DEF Before, After
    <2> QED  BY <2>1, <2>4
  <1>10. cap.files = {<<p, m.tree[p]>> : p \in S}
    BY <1>3, <1>8, <1>9
  <1>11. Workspace!Shown(m) = Workspace!Baseline
    BY <1>5, <1>6, <1>7, <1>10 DEF Workspace!Shown, Workspace!Baseline, Workspace!Content
  <1>12. \E w \in lived : Workspace!Ignored(w) = {}
    BY <1>1 DEF Capturing
  <1> QED  BY <1>11, <1>12

LEMMA CompleteKeeps ==
  ASSUME BaselineInv, NEW for \in Asked, NEW verdict, NEW next, NEW b, NEW e,
         next \in {"new", "ready", "linked", "dispatched", "captured", "off_course"},
         Workspace!Complete(for, verdict, next, b, e)
  PROVE  BaselineInv'
PROOF
  <1>1. /\ cap.for # "none" /\ cap.part = "done" /\ phase' = next
        /\ world' = world /\ writes' = writes /\ cap' = Workspace!NoCapture
    BY DEF Workspace!Complete, Workspace!Reading
  <1>2. torn' = (torn \/ (\A w \in lived : Workspace!Shown(w) # Workspace!Baseline)
                      \/ (\A w \in lived : Workspace!Ignored(w) # {}))
    BY DEF Workspace!Complete
  <1>3. torn' = FALSE
    BY <1>1, <1>2, CompleteShown DEF BaselineInv
  <1> QED  BY <1>1, <1>3, NoCaptureFits DEF BaselineInv

LEMMA BaselineStep ==
  ASSUME Workspace!Checkout, BaselineInv, [Workspace!Next]_(Workspace!vars)
  PROVE  BaselineInv'
PROOF
  <1>1. CASE Workspace!Writers
    BY <1>1, WritersKeep
  <1>2. CASE Workspace!Capture
    <2>1. ASSUME NEW p \in Paths, Workspace!Unreadable(p) PROVE BaselineInv'
      BY <2>1, RefuseKeeps DEF Workspace!Unreadable
    <2>2. CASE Workspace!Unstable \/ Workspace!FilesDiffer
      BY <2>2, RefuseKeeps DEF Workspace!Unstable, Workspace!FilesDiffer
    <2> QED
      BY <1>2, <2>1, <2>2, IdentityKeeps, IndexKeeps, FlagsKeep, UntrackedKeeps, IgnoredKeeps,
         FingerprintKeeps, FilesReadKeeps DEF Workspace!Capture
  <1>3. CASE Workspace!Run
    <2>1. \A for \in Asked : Workspace!Begin(for) => BaselineInv'
      BY BeginKeeps
    <2>2. ASSUME NEW for \in Asked, NEW verdict, NEW b, NEW e,
                 NEW next \in {"new", "ready", "linked", "dispatched", "captured", "off_course"},
                 Workspace!Complete(for, verdict, next, b, e)
          PROVE  BaselineInv'
      BY <2>2, CompleteKeeps
    <2>3. phase \in {"new", "ready", "linked", "dispatched", "captured", "off_course"}
      BY DEF BaselineInv
    <2>4. ASSUME \/ Workspace!AskStart \/ Workspace!AskMission \/ Workspace!AskDispatch
                 \/ Workspace!AskImplementation \/ Workspace!AskVerification
          PROVE  BaselineInv'
      BY <2>1, <2>4 DEF Asked, Workspace!AskStart, Workspace!AskMission,
                        Workspace!AskDispatch, Workspace!AskImplementation,
                        Workspace!AskVerification
    <2>5. CASE Workspace!RunStarts
      BY <2>2, <2>5 DEF Asked, Workspace!RunStarts
    <2>6. CASE Workspace!MissionLinked \/ Workspace!OffCourse
      BY <2>2, <2>6 DEF Asked, Workspace!MissionLinked, Workspace!OffCourse
    <2>7. CASE Workspace!Dispatched \/ Workspace!DispatchRefused
      BY <2>2, <2>3, <2>7 DEF Asked, Workspace!Dispatched, Workspace!DispatchRefused
    <2>8. CASE Workspace!ImplementationCaptured \/ Workspace!CaptureRefused
      BY <2>2, <2>3, <2>8 DEF Asked, Workspace!ImplementationCaptured, Workspace!CaptureRefused
    <2>9. CASE Workspace!Verified \/ Workspace!VerificationRefused
      BY <2>2, <2>3, <2>9 DEF Asked, Workspace!Verified, Workspace!VerificationRefused
    <2> QED  BY <1>3, <2>4, <2>5, <2>6, <2>7, <2>8, <2>9 DEF Workspace!Run
  <1>4. CASE UNCHANGED Workspace!vars
    BY <1>4 DEF Workspace!vars, BaselineInv
  <1> QED  BY <1>1, <1>2, <1>3, <1>4 DEF Workspace!Next

LEMMA BaselineInit ==
  ASSUME Workspace!Checkout, Workspace!Init
  PROVE  BaselineInv
PROOF
  <1>1. /\ phase = "new" /\ cap = Workspace!NoCapture /\ torn = FALSE /\ writes = 0
        /\ world = [tree |-> world.tree, index |-> world.index, head |-> 1,
                    hidden |-> {}, linked |-> {}, odd |-> {}, gone |-> {}]
        /\ world.tree = [p \in Paths |-> IF p \in Committed \union Instructions THEN 1 ELSE 0]
        /\ world.index = {<<p, 1>> : p \in Committed}
    BY DEF Workspace!Init
  <1>2. world \in WorldSet
    BY <1>1 DEF WorldSet, Entries, Workspace!Checkout
  <1>3. \A e \in world.index : e[2] = 1 /\ e[1] \in Committed /\ e = <<e[1], 1>>
    BY <1>1
  <1>4. OneEntry(world.index)
    BY <1>3 DEF OneEntry
  <1>5. \A p \in Committed \union Instructions : p \in Paths /\ world.tree[p] = 1
    BY <1>1 DEF Workspace!Checkout
  <1>6. Proper(world)
    BY <1>1, <1>2, <1>3, <1>4, <1>5 DEF Proper
  <1>7. \A p \in Paths : world.tree[p] <= writes + 1
    BY <1>1
  <1> QED  BY <1>1, <1>6, <1>7, NoCaptureFits DEF BaselineInv, Workspace!Checkout

\* Whatever is written to a checkout while it is read, and however often, a baseline that
\* the capture returns is the workspace of one moment (workspace-baseline.js, server.js
\* deliveryWorkspaceBaseline).
THEOREM BaselinesAreSafe ==
  ASSUME Workspace!Checkout
  PROVE  Workspace!Spec => []Workspace!BaselineSafe
PROOF
  <1>1. BaselineInv => Workspace!BaselineSafe
    BY DEF BaselineInv, CaptureSet, GitSet, Asked, Workspace!BaselineSafe, Workspace!TypeOK,
           Workspace!OfOneMoment
  <1> QED  BY <1>1, BaselineInit, BaselineStep, PTL DEF Workspace!Spec
================================================================================
