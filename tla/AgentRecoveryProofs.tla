-------------------------- MODULE AgentRecoveryProofs --------------------------
(* Theorems about the recovery of lost agents, for any sessions and over any    *)
(* number of panes, crashes, requests and observations.                         *)
EXTENDS AgentRecovery, TLAPS

--------------------------------------------------------------------------------
(* The inductive invariant.                                                     *)

SlotType ==
  [known: BOOLEAN, armed: BOOLEAN, rollout: 0..MaxPanes, root: BOOLEAN,
   turn: {"unknown", "idle", "active"}, attempts: Nat, tried: BOOLEAN, epoch: 0..MaxPanes]
PaneType ==
  [state: {"gone", "starting", "codex", "shell", "dead", "other"}, gen: 0..MaxPanes,
   rollout: 0..MaxPanes, exit: {"none", "running", "exited", "crashed"}]

\* A slot in force and the pane of its session.
SlotFits(c, p) ==
  /\ c.rollout <= p.gen /\ p.rollout <= p.gen
  /\ p.state \in {"starting", "codex"} => p.rollout # 0
  /\ c.armed => c.known
  /\ c.root => c.known /\ c.rollout # 0

Fitting ==
  /\ slots \in [Sessions -> SlotType] /\ pane \in [Sessions -> PaneType]
  /\ turn \in [Sessions -> {"idle", "active"}]
  /\ \A s \in Sessions : SlotFits(slots[s], pane[s])

\* What the monitor read is of conversations the sessions have had; the slot it has
\* chosen is known.
Stages == {"find", "disarm", "disable", "absent", "claim", "type", "spawn", "verify", "recovered"}
Monitoring ==
  /\ monitor = [at |-> monitor.at, session |-> monitor.session, slots |-> monitor.slots,
                gen |-> monitor.gen]
  /\ monitor.at \in Stages \cup {"idle", "list"}
  /\ monitor.at # "idle" =>
       \A s \in Sessions :
         /\ monitor.slots[s].rollout \in 0..pane[s].gen
         /\ monitor.slots[s].armed => slots[s].known
  /\ monitor.at \in Stages =>
       monitor.session \in Sessions /\ slots[Mine].known /\ Saved.rollout # 0

\* What was read of an agent is of the conversation it has or had.
Reading ==
  reading # NoReading =>
    /\ reading.session \in Sessions /\ reading.root \in BOOLEAN
    /\ reading.rollout \in 1..pane[reading.session].gen
    /\ reading.turn \in {"idle", "active"}

\* The operator's request: what it arms or resumes is known.
Requested ==
  /\ op = [kind |-> op.kind, at |-> op.at, session |-> op.session, gen |-> op.gen,
           armed |-> op.armed]
  /\ op.at # "idle" => op.session \in Sessions
  /\ op.at \in {"type", "verify", "rearm", "failed"} => slots[op.session].known
  /\ op.at = "type" => slots[op.session].rollout # 0
  /\ op.at = "kill" /\ op.armed => slots[op.session].known

\* What is in doubt is known, and so is not armed anew by an observation.
InDoubt ==
  /\ stopped \subseteq Sessions /\ doubtful \subseteq Sessions
  /\ \A s \in doubtful : slots[s].known
  /\ NoUncertainRetry

Inv == Fitting /\ Monitoring /\ Reading /\ Requested /\ InDoubt

--------------------------------------------------------------------------------
(* What every step keeps.                                                       *)

\* A slot that is known stays so, a conversation it saved is replaced by another
\* only, and panes are numbered upwards.
Keeps ==
  \A s \in Sessions :
    /\ slots[s].known => slots'[s].known
    /\ slots[s].rollout # 0 => slots'[s].rollout # 0
    /\ pane[s].gen <= pane'[s].gen

\* The numbers of panes and conversations are numbers (the type of slots and panes).
LEMMA Numbered ==
  ASSUME MaxPanes \in Nat, Fitting, NEW s \in Sessions
  PROVE  /\ slots[s] \in SlotType /\ pane[s] \in PaneType /\ SlotFits(slots[s], pane[s])
         /\ slots[s].rollout \in Nat /\ pane[s].gen \in 0..MaxPanes /\ pane[s].gen \in Nat
         /\ pane[s].rollout \in Nat
PROOF
  <1>1. slots[s] \in SlotType /\ pane[s] \in PaneType /\ SlotFits(slots[s], pane[s])
    BY DEF Fitting
  <1>2. slots[s].rollout \in 0..MaxPanes /\ pane[s].gen \in 0..MaxPanes
        /\ pane[s].rollout \in 0..MaxPanes
    BY <1>1 DEF SlotType, PaneType
  <1> QED  BY <1>1, <1>2

\* One slot is replaced by one that fits its pane and forgets nothing.
LEMMA SlotReplaced ==
  ASSUME MaxPanes \in Nat, Fitting, UNCHANGED <<pane, turn>>,
         NEW s \in Sessions, NEW c \in SlotType, slots' = [slots EXCEPT ![s] = c],
         SlotFits(c, pane[s]), slots[s].known => c.known,
         slots[s].rollout # 0 => c.rollout # 0
  PROVE  /\ Fitting' /\ Keeps /\ slots'[s] = c
         /\ \A t \in Sessions : t # s => slots'[t] = slots[t]
PROOF
  <1>1. slots' \in [Sessions -> SlotType] /\ slots'[s] = c
        /\ \A t \in Sessions : t # s => slots'[t] = slots[t]
    BY DEF Fitting
  <1>2. \A t \in Sessions : SlotFits(slots'[t], pane'[t])
    BY <1>1 DEF Fitting
  <1>3. Fitting'
    BY <1>1, <1>2 DEF Fitting
  <1>4. \A t \in Sessions : pane[t].gen \in Nat
    BY Numbered
  <1>5. Keeps
    BY <1>1, <1>4 DEF Keeps
  <1> QED  BY <1>1, <1>3, <1>5

\* One pane is replaced by a later state of it, or a later pane of its session.
LEMMA PaneReplaced ==
  ASSUME MaxPanes \in Nat, Fitting, UNCHANGED slots, turn' \in [Sessions -> {"idle", "active"}],
         NEW s \in Sessions, NEW p \in PaneType, pane' = [pane EXCEPT ![s] = p],
         SlotFits(slots[s], p), pane[s].gen <= p.gen
  PROVE  Fitting' /\ Keeps
PROOF
  <1>1. pane' \in [Sessions -> PaneType] /\ pane'[s] = p
        /\ \A t \in Sessions : t # s => pane'[t] = pane[t]
    BY DEF Fitting
  <1>2. \A t \in Sessions : SlotFits(slots'[t], pane'[t])
    BY <1>1 DEF Fitting
  <1>3. Fitting'
    BY <1>1, <1>2 DEF Fitting
  <1>4. \A t \in Sessions : pane[t].gen \in Nat
    BY Numbered
  <1>5. Keeps
    BY <1>1, <1>4 DEF Keeps
  <1> QED  BY <1>3, <1>5

\* Neither slots nor panes change.
LEMMA NoneReplaced ==
  ASSUME MaxPanes \in Nat, Fitting, UNCHANGED <<slots, pane>>,
         turn' \in [Sessions -> {"idle", "active"}]
  PROVE  Fitting' /\ Keeps
PROOF
  <1>1. Fitting'
    BY DEF Fitting
  <1>2. \A t \in Sessions : pane[t].gen \in Nat
    BY Numbered
  <1> QED  BY <1>1, <1>2 DEF Keeps

\* What the monitor holds stays right while it waits.
LEMMA MonitoringStays ==
  ASSUME MaxPanes \in Nat, Fitting, Fitting', Monitoring, Keeps, UNCHANGED monitor
  PROVE  Monitoring'
PROOF
  <1>1. \A s \in Sessions : pane[s].gen \in Nat /\ pane'[s].gen \in Nat
    <2>1. \A s \in Sessions : pane[s].gen \in Nat
      BY Numbered
    <2>2. \A s \in Sessions : pane'[s] \in PaneType
      BY DEF Fitting
    <2> QED  BY <2>1, <2>2 DEF PaneType
  <1>2. ASSUME monitor.at # "idle", NEW s \in Sessions
        PROVE  /\ monitor.slots[s].rollout \in 0..pane'[s].gen
               /\ monitor.slots[s].armed => slots'[s].known
    <2>1. /\ monitor.slots[s].rollout \in 0..pane[s].gen
          /\ monitor.slots[s].armed => slots[s].known
      BY <1>2 DEF Monitoring
    <2>2. pane[s].gen <= pane'[s].gen /\ (slots[s].known => slots'[s].known)
      BY DEF Keeps
    <2> QED  BY <1>1, <2>1, <2>2
  <1>3. monitor.at \in Stages => monitor.session \in Sessions /\ slots'[Mine].known
    BY DEF Monitoring, Keeps, Mine
  <1> QED  BY <1>2, <1>3 DEF Monitoring, Mine, Saved

\* What was read stays right while it waits to be recorded.
LEMMA ReadingStays ==
  ASSUME MaxPanes \in Nat, Fitting, Fitting', Reading, Keeps, UNCHANGED reading
  PROVE  Reading'
PROOF
  <1>1. CASE reading = NoReading
    BY <1>1 DEF Reading, NoReading
  <1>2. CASE reading # NoReading
    <2>1. /\ reading.session \in Sessions /\ reading.root \in BOOLEAN
          /\ reading.rollout \in 1..pane[reading.session].gen
          /\ reading.turn \in {"idle", "active"}
      BY <1>2 DEF Reading
    <2>2. pane[reading.session].gen \in Nat
      BY <2>1, Numbered
    <2>3. pane'[reading.session].gen \in 0..MaxPanes
      <3>1. pane'[reading.session] \in PaneType
        BY <2>1 DEF Fitting
      <3> QED  BY <3>1 DEF PaneType
    <2>4. pane[reading.session].gen <= pane'[reading.session].gen
      BY <2>1 DEF Keeps
    <2>5. reading.rollout \in 1..pane'[reading.session].gen
      BY <2>1, <2>2, <2>3, <2>4
    <2> QED  BY <2>1, <2>5 DEF Reading
  <1> QED  BY <1>1, <1>2

\* The request in flight stays right while it waits.
LEMMA RequestedStays ==
  ASSUME Requested, Keeps, UNCHANGED op
  PROVE  Requested'
  BY DEF Requested, Keeps

\* Nothing in doubt is armed.
LEMMA InDoubtStays ==
  ASSUME InDoubt, Keeps, stopped' \subseteq Sessions, doubtful' \subseteq doubtful,
         \A s \in doubtful' : slots'[s].armed => slots[s].armed,
         monitor' = monitor \/ monitor.at # "disarm"
  PROVE  InDoubt'
PROOF
  <1>1. doubtful' \subseteq Sessions /\ \A s \in doubtful' : slots'[s].known
    BY DEF InDoubt, Keeps
  <1>2. NoUncertainRetry'
    BY DEF InDoubt, NoUncertainRetry
  <1> QED  BY <1>1, <1>2 DEF InDoubt

--------------------------------------------------------------------------------
(* The mutations of the slots.                                                  *)

\* setAgentRecoveryEnabled changes whether the slot is armed, and its attempts.
LEMMA EnabledSlot ==
  ASSUME MaxPanes \in Nat, Inv, NEW s \in Sessions, NEW on \in BOOLEAN,
         slots[s].known, UNCHANGED <<pane, turn>>, slots' = Enabled(s, on)
  PROVE  /\ Fitting' /\ Keeps /\ slots'[s].armed = on
         /\ \A t \in Sessions : t # s => slots'[t] = slots[t]
PROOF
  <1> DEFINE n == IF on THEN slots[s].attempts ELSE 0
             c == [slots[s] EXCEPT !.armed = on, !.attempts = n]
  <1>1. slots[s] \in SlotType /\ SlotFits(slots[s], pane[s])
    BY Numbered DEF Inv
  <1>2. n \in Nat
    BY <1>1 DEF SlotType
  <1>3. slots' = [slots EXCEPT ![s] = c]
    BY DEF Enabled, Inv, Fitting
  <1> HIDE DEF n
  <1>4. c \in SlotType
    BY <1>1, <1>2 DEF SlotType
  <1>5. c.known = slots[s].known /\ c.rollout = slots[s].rollout /\ c.root = slots[s].root
        /\ c.armed = on
    BY <1>1 DEF SlotType
  <1> HIDE DEF c
  <1>6. SlotFits(c, pane[s])
    BY <1>1, <1>5 DEF SlotFits
  <1>7. Fitting
    BY DEF Inv
  <1> QED  BY <1>3, <1>4, <1>5, <1>6, <1>7, SlotReplaced

\* disarmUncertainAgentRecovery leaves the slot disarmed.
LEMMA DisarmedSlot ==
  ASSUME MaxPanes \in Nat, Inv, NEW s \in Sessions, slots[s].known,
         UNCHANGED <<pane, turn>>, slots' = Disarmed(s)
  PROVE  /\ Fitting' /\ Keeps /\ slots'[s].armed = FALSE
         /\ \A t \in Sessions : t # s => slots'[t] = slots[t]
PROOF
  <1> DEFINE n == IF slots[s].armed THEN 0 ELSE slots[s].attempts
             c == [slots[s] EXCEPT !.armed = FALSE, !.attempts = n]
  <1>1. slots[s] \in SlotType /\ SlotFits(slots[s], pane[s])
    BY Numbered DEF Inv
  <1>2. n \in Nat
    BY <1>1 DEF SlotType
  <1>3. slots' = [slots EXCEPT ![s] = c]
    BY DEF Disarmed, Inv, Fitting
  <1> HIDE DEF n
  <1>4. c \in SlotType
    BY <1>1, <1>2 DEF SlotType
  <1>5. c.known = slots[s].known /\ c.rollout = slots[s].rollout /\ c.root = slots[s].root
        /\ c.armed = FALSE
    BY <1>1 DEF SlotType
  <1> HIDE DEF c
  <1>6. SlotFits(c, pane[s])
    BY <1>1, <1>5 DEF SlotFits
  <1>7. Fitting
    BY DEF Inv
  <1> QED  BY <1>3, <1>4, <1>5, <1>6, <1>7, SlotReplaced

\* markAgentRecoveryAttempt counts, and leaves whether the slot is armed.
LEMMA AttemptedSlot ==
  ASSUME MaxPanes \in Nat, Inv, NEW s \in Sessions,
         UNCHANGED <<pane, turn>>, slots' = Attempted(s)
  PROVE  /\ Fitting' /\ Keeps
         /\ \A t \in Sessions : slots'[t].armed = slots[t].armed
PROOF
  <1> DEFINE n == slots[s].attempts + 1
             c == [slots[s] EXCEPT !.attempts = n, !.tried = TRUE]
  <1>1. slots[s] \in SlotType /\ SlotFits(slots[s], pane[s])
    BY Numbered DEF Inv
  <1>2. n \in Nat
    BY <1>1 DEF SlotType
  <1>3. slots' = [slots EXCEPT ![s] = c]
    BY DEF Attempted, Inv, Fitting
  <1> HIDE DEF n
  <1>4. c \in SlotType
    BY <1>1, <1>2 DEF SlotType
  <1>5. c.known = slots[s].known /\ c.rollout = slots[s].rollout /\ c.root = slots[s].root
        /\ c.armed = slots[s].armed
    BY <1>1 DEF SlotType
  <1> HIDE DEF c
  <1>6. SlotFits(c, pane[s])
    BY <1>1, <1>5 DEF SlotFits
  <1>7. Fitting
    BY DEF Inv
  <1> QED  BY <1>3, <1>4, <1>5, <1>6, <1>7, SlotReplaced

\* markAgentRecoveryResult and the passing of the retry time change the attempts only.
LEMMA SettledSlot ==
  ASSUME MaxPanes \in Nat, Inv, NEW s \in Sessions, UNCHANGED <<pane, turn>>,
         \/ slots' = Recovered(s)
         \/ slots' = [slots EXCEPT ![s].tried = FALSE]
  PROVE  /\ Fitting' /\ Keeps
         /\ \A t \in Sessions : slots'[t].armed = slots[t].armed
PROOF
  <1>1. slots[s] \in SlotType /\ SlotFits(slots[s], pane[s]) /\ Fitting
    BY Numbered DEF Inv
  <1>2. CASE slots' = Recovered(s)
    <2> DEFINE c == [slots[s] EXCEPT !.attempts = 0]
    <2>1. slots' = [slots EXCEPT ![s] = c]
      BY <1>2 DEF Recovered, Inv, Fitting
    <2>2. c \in SlotType /\ c.known = slots[s].known /\ c.rollout = slots[s].rollout
          /\ c.root = slots[s].root /\ c.armed = slots[s].armed
      BY <1>1 DEF SlotType
    <2> HIDE DEF c
    <2>3. SlotFits(c, pane[s])
      BY <1>1, <2>2 DEF SlotFits
    <2>4. Fitting' /\ Keeps /\ slots'[s] = c
          /\ \A t \in Sessions : t # s => slots'[t] = slots[t]
      BY ONLY MaxPanes \in Nat, s \in Sessions, UNCHANGED <<pane, turn>>, <1>1, <2>1, <2>2,
         <2>3, SlotReplaced
    <2> QED  BY <2>2, <2>4
  <1>3. CASE slots' = [slots EXCEPT ![s].tried = FALSE]
    <2> DEFINE c == [slots[s] EXCEPT !.tried = FALSE]
    <2>1. slots' = [slots EXCEPT ![s] = c]
      BY <1>3 DEF Inv, Fitting
    <2>2. c \in SlotType /\ c.known = slots[s].known /\ c.rollout = slots[s].rollout
          /\ c.root = slots[s].root /\ c.armed = slots[s].armed
      BY <1>1 DEF SlotType
    <2> HIDE DEF c
    <2>3. SlotFits(c, pane[s])
      BY <1>1, <2>2 DEF SlotFits
    <2>4. Fitting' /\ Keeps /\ slots'[s] = c
          /\ \A t \in Sessions : t # s => slots'[t] = slots[t]
      BY ONLY MaxPanes \in Nat, s \in Sessions, UNCHANGED <<pane, turn>>, <1>1, <2>1, <2>2,
         <2>3, SlotReplaced
    <2> QED  BY <2>2, <2>4
  <1> QED  BY <1>2, <1>3

\* registerAgentRecoverySlot: the slot is known, with the conversation that is given or
\* else the one it had.
LEMMA RegisteredSlot ==
  ASSUME MaxPanes \in Nat, Inv, NEW s \in Sessions, UNCHANGED <<pane, turn>>,
         NEW rollout \in 0..pane[s].gen, NEW root \in BOOLEAN, root => rollout # 0,
         NEW state \in {"unknown", "idle", "active"}, NEW armed \in BOOLEAN,
         slots' = Registered(s, rollout, root, state, armed)
  PROVE  /\ Fitting' /\ Keeps /\ slots'[s].armed = armed
         /\ \A t \in Sessions : t # s => slots'[t] = slots[t]
PROOF
  <1> DEFINE kept == IF rollout = 0 THEN slots[s].rollout ELSE rollout
             c == [known |-> TRUE, armed |-> armed, rollout |-> kept, root |-> root,
                   turn |-> state, attempts |-> 0, tried |-> slots[s].tried,
                   epoch |-> pane[s].gen]
  <1>1. /\ slots[s] \in SlotType /\ SlotFits(slots[s], pane[s]) /\ Fitting
        /\ pane[s].gen \in 0..MaxPanes /\ slots[s].rollout \in Nat
    BY Numbered DEF Inv
  <1>2. slots[s].rollout <= pane[s].gen
    BY <1>1 DEF SlotFits
  <1>3. kept \in 0..MaxPanes /\ kept <= pane[s].gen
    BY <1>1, <1>2
  <1>4. (root => kept # 0) /\ (slots[s].rollout # 0 => kept # 0)
    OBVIOUS
  <1>5. slots' = [slots EXCEPT ![s] = c]
    BY DEF Registered
  <1>6. slots[s].tried \in BOOLEAN
    BY <1>1 DEF SlotType
  <1> HIDE DEF kept
  <1>7. c \in SlotType
    BY <1>1, <1>3, <1>6 DEF SlotType
  <1>8. SlotFits(c, pane[s])
    BY <1>1, <1>3, <1>4 DEF SlotFits
  <1>9. c.known = TRUE /\ c.rollout = kept /\ c.armed = armed
    OBVIOUS
  <1> HIDE DEF c
  <1>10. slots[s].rollout # 0 => c.rollout # 0
    BY <1>4, <1>9
  <1> QED  BY <1>1, <1>5, <1>7, <1>8, <1>9, <1>10, SlotReplaced

\* A pane in which an agent is started has a conversation the session has had.
LEMMA LaunchedPane ==
  ASSUME MaxPanes \in Nat, Inv, NEW s \in Sessions, UNCHANGED <<slots, turn>>,
         NEW gen \in pane[s].gen..MaxPanes, NEW rollout \in 1..gen,
         pane' = Launched(s, gen, rollout)
  PROVE  Fitting' /\ Keeps
PROOF
  <1> DEFINE p == [state |-> "starting", gen |-> gen, rollout |-> rollout, exit |-> "running"]
  <1>1. /\ slots[s] \in SlotType /\ SlotFits(slots[s], pane[s]) /\ Fitting
        /\ pane[s].gen \in Nat /\ slots[s].rollout \in Nat
    BY Numbered DEF Inv
  <1>2. p \in PaneType
    BY <1>1 DEF PaneType
  <1>3. SlotFits(slots[s], p)
    BY <1>1 DEF SlotFits
  <1>4. pane' = [pane EXCEPT ![s] = p]
    BY DEF Launched
  <1>5. turn' \in [Sessions -> {"idle", "active"}]
    BY <1>1 DEF Fitting
  <1>6. pane[s].gen <= p.gen
    BY <1>1
  <1> QED  BY <1>1, <1>2, <1>3, <1>4, <1>5, <1>6, PaneReplaced

\* A pane whose agent starts, ends or is lost keeps its conversation.
LEMMA PaneState ==
  ASSUME MaxPanes \in Nat, Inv, NEW s \in Sessions, UNCHANGED slots,
         turn' \in [Sessions -> {"idle", "active"}],
         NEW state \in {"gone", "codex", "shell", "dead", "other"},
         state = "codex" => pane[s].state = "starting",
         NEW exit \in {"none", "running", "exited", "crashed"},
         pane' = [pane EXCEPT ![s] = [pane[s] EXCEPT !.state = state, !.exit = exit]]
  PROVE  Fitting' /\ Keeps
PROOF
  <1> DEFINE p == [pane[s] EXCEPT !.state = state, !.exit = exit]
  <1>1. /\ pane[s] \in PaneType /\ SlotFits(slots[s], pane[s]) /\ Fitting
        /\ pane[s].gen \in Nat
    BY Numbered DEF Inv
  <1>2. p \in PaneType /\ p.gen = pane[s].gen /\ p.rollout = pane[s].rollout
        /\ p.state = state
    BY <1>1 DEF PaneType
  <1> HIDE DEF p
  <1>3. SlotFits(slots[s], p)
    BY <1>1, <1>2 DEF SlotFits
  <1>4. pane[s].gen <= p.gen
    BY <1>1, <1>2
  <1>5. pane' = [pane EXCEPT ![s] = p]
    BY DEF p
  <1> QED  BY <1>1, <1>2, <1>3, <1>4, <1>5, PaneReplaced

--------------------------------------------------------------------------------
(* The monitor's steps.                                                         *)

\* A step that leaves panes and turns alone may be taken by what holds the slots.
LEMMA Quiet ==
  ASSUME MaxPanes \in Nat, Inv, UNCHANGED <<slots, pane, turn>>
  PROVE  Fitting' /\ Keeps
PROOF
  <1>1. Fitting /\ turn' \in [Sessions -> {"idle", "active"}]
    BY DEF Inv, Fitting
  <1> QED  BY <1>1, NoneReplaced

\* The monitor goes on to another stage with what it holds.
LEMMA StageGone ==
  ASSUME MaxPanes \in Nat, Inv, Fitting', Keeps, NEW at \in Stages, monitor.at \in Stages,
         Goto(at)
  PROVE  Monitoring'
PROOF
  <1>1. /\ monitor'.at = at /\ monitor'.session = monitor.session
        /\ monitor'.slots = monitor.slots /\ monitor'.gen = monitor.gen
        /\ monitor' = [at |-> at, session |-> monitor.session, slots |-> monitor.slots,
                       gen |-> monitor.gen]
    BY DEF Inv, Monitoring, Goto
  <1>2. \A s \in Sessions : pane[s].gen \in Nat
    BY Numbered DEF Inv
  <1>3. \A s \in Sessions : pane'[s].gen \in Nat
    BY DEF Fitting, PaneType
  <1>4. monitor.at # "idle"
    BY DEF Stages
  <1>5. ASSUME NEW s \in Sessions
        PROVE  /\ monitor.slots[s].rollout \in 0..pane'[s].gen
               /\ monitor.slots[s].armed => slots'[s].known
    <2>1. /\ monitor.slots[s].rollout \in 0..pane[s].gen
          /\ monitor.slots[s].armed => slots[s].known
      BY <1>4 DEF Monitoring, Inv
    <2>2. pane[s].gen <= pane'[s].gen /\ (slots[s].known => slots'[s].known)
      BY DEF Keeps
    <2> QED  BY <1>2, <1>3, <2>1, <2>2
  <1>6. monitor.session \in Sessions /\ slots'[Mine].known /\ Saved.rollout # 0
    BY DEF Inv, Monitoring, Keeps, Mine
  <1>7. Saved = monitor.slots[monitor.session] /\ Mine = monitor.session
    BY DEF Saved, Mine
  <1> QED  BY <1>1, <1>5, <1>6, <1>7 DEF Monitoring, Mine, Saved

\* The monitor ends its run.
LEMMA RunDone ==
  ASSUME Done
  PROVE  Monitoring'
  BY DEF Done, NoRun, Monitoring, Stages

\* Where a step of the monitor leaves readings and requests alone.
LEMMA BesideMonitor ==
  ASSUME MaxPanes \in Nat, Inv, Fitting', Keeps, UNCHANGED <<reading, op>>,
         Monitoring', InDoubt'
  PROVE  Inv'
PROOF
  <1>1. Reading'
    BY ReadingStays DEF Inv
  <1>2. Requested'
    BY RequestedStays DEF Inv
  <1> QED  BY <1>1, <1>2 DEF Inv

\* The monitor's stages that are not "disarm" leave nothing armed that is in doubt.
LEMMA DoubtBeside ==
  ASSUME Inv, Keeps, UNCHANGED <<stopped, doubtful>>,
         \A s \in doubtful : slots'[s].armed => slots[s].armed,
         monitor' = monitor \/ monitor.at # "disarm"
  PROVE  InDoubt'
PROOF
  <1>1. InDoubt /\ stopped' \subseteq Sessions
    BY DEF Inv, InDoubt
  <1> QED  BY <1>1, InDoubtStays

\* monitorAgentRecovery reads the slots.
LEMMA MonitorStartsStep ==
  ASSUME MaxPanes \in Nat, Inv, MonitorStarts
  PROVE  Inv'
PROOF
  <1>1. /\ monitor.at = "idle"
        /\ monitor' = [at |-> "list", session |-> "none", slots |-> slots, gen |-> 0]
        /\ UNCHANGED <<slots, pane, turn>> /\ UNCHANGED <<reading, op>>
        /\ UNCHANGED <<stopped, doubtful>> /\ slots' = slots /\ pane' = pane
    BY DEF MonitorStarts
  <1>2. Fitting' /\ Keeps
    BY <1>1, Quiet
  <1>3. ASSUME NEW s \in Sessions
        PROVE  slots[s].rollout \in 0..pane[s].gen /\ (slots[s].armed => slots[s].known)
    <2>1. SlotFits(slots[s], pane[s]) /\ slots[s].rollout \in Nat /\ pane[s].gen \in Nat
      BY Numbered DEF Inv
    <2>2. slots[s].rollout <= pane[s].gen /\ (slots[s].armed => slots[s].known)
      BY <2>1 DEF SlotFits
    <2> QED  BY <2>1, <2>2
  <1>4. Monitoring'
    BY <1>1, <1>3 DEF Monitoring, Stages
  <1>5. InDoubt'
    BY <1>1, <1>2, DoubtBeside
  <1> QED  BY <1>1, <1>2, <1>4, <1>5, BesideMonitor

\* agentRecoveryCandidates: one lost agent is chosen, or none is.
LEMMA MonitorSelectsStep ==
  ASSUME MaxPanes \in Nat, Inv, MonitorSelects
  PROVE  Inv'
PROOF
  <1>1. /\ monitor.at = "list"
        /\ UNCHANGED <<slots, pane, turn>> /\ UNCHANGED <<reading, op>>
        /\ UNCHANGED <<stopped, doubtful>> /\ slots' = slots /\ pane' = pane
    BY DEF MonitorSelects
  <1>2. Fitting' /\ Keeps
    BY <1>1, Quiet
  <1>3. InDoubt'
    BY <1>1, <1>2, DoubtBeside
  <1>4. CASE Done
    BY <1>1, <1>2, <1>3, <1>4, RunDone, BesideMonitor
  <1>5. CASE ~Done
    <2>1. PICK s \in Sessions :
            /\ Candidate(monitor.slots, s)
            /\ monitor' = [monitor EXCEPT !.session = s,
                 !.at = IF monitor.slots[s].turn = "idle" THEN "find" ELSE "disarm"]
      BY <1>5 DEF MonitorSelects
    <2>2. monitor.slots[s].armed /\ monitor.slots[s].rollout # 0
      BY <2>1 DEF Candidate
    <2>3. /\ monitor = [at |-> monitor.at, session |-> monitor.session,
                        slots |-> monitor.slots, gen |-> monitor.gen]
          /\ \A t \in Sessions :
               /\ monitor.slots[t].rollout \in 0..pane[t].gen
               /\ monitor.slots[t].armed => slots[t].known
      BY <1>1 DEF Inv, Monitoring
    <2>4. /\ monitor'.at \in {"find", "disarm"} /\ monitor'.session = s
          /\ monitor'.slots = monitor.slots
          /\ monitor' = [at |-> monitor'.at, session |-> monitor'.session,
                         slots |-> monitor'.slots, gen |-> monitor'.gen]
      BY <2>1, <2>3
    <2>5. Monitoring'
      BY <1>1, <2>2, <2>3, <2>4 DEF Monitoring, Mine, Saved, Stages
    <2> QED  BY <1>1, <1>2, <1>3, <2>5, BesideMonitor
  <1> QED  BY <1>4, <1>5

\* A step that only looks: the run ends or goes on to another stage.
LEMMA MonitorLooksStep ==
  ASSUME MaxPanes \in Nat, Inv, monitor.at \in Stages \ {"disarm"},
         UNCHANGED <<slots, pane, turn, reading, op, left, stopped, doubtful>>,
         Done \/ \E at \in Stages : Goto(at)
  PROVE  Inv'
PROOF
  <1>1. /\ UNCHANGED <<slots, pane, turn>> /\ UNCHANGED <<reading, op>>
        /\ UNCHANGED <<stopped, doubtful>> /\ slots' = slots
    OBVIOUS
  <1>2. Fitting' /\ Keeps
    BY <1>1, Quiet
  <1>3. InDoubt'
    BY <1>1, <1>2, DoubtBeside
  <1>4. Monitoring'
    BY <1>2, RunDone, StageGone
  <1> QED  BY <1>1, <1>2, <1>3, <1>4, BesideMonitor

\* The lost agent's pane is looked for, and looked for again before it is made anew.
LEMMA MonitorFindsStep ==
  ASSUME MaxPanes \in Nat, Inv, MonitorFinds \/ MonitorLooksAgain
  PROVE  Inv'
PROOF
  <1>1. /\ UNCHANGED <<slots, pane, turn, reading, op, left, stopped, doubtful>>
        /\ monitor.at \in {"find", "absent"}
    BY DEF MonitorFinds, MonitorLooksAgain
  <1>2. CASE MonitorLooksAgain
    BY <1>2, <1>1, MonitorLooksStep DEF MonitorLooksAgain, Stages
  <1>3. CASE MonitorFinds
    <2> DEFINE p == pane[Mine]
    <2>1. CASE p.state = "gone"
      BY <1>1, <1>3, <2>1, MonitorLooksStep DEF MonitorFinds, Stages
    <2>2. CASE p.state # "gone" /\ (p.gen > Saved.epoch \/ p.state = "dead")
      BY <1>1, <1>3, <2>2, MonitorLooksStep DEF MonitorFinds, Stages
    <2>3. CASE p.state # "gone" /\ ~(p.gen > Saved.epoch \/ p.state = "dead")
      <3>1. CASE p.state = "codex" \/ p.exit = "running"
        BY <1>1, <1>3, <2>3, <3>1, MonitorLooksStep DEF MonitorFinds, Stages
      <3>2. CASE ~(p.state = "codex" \/ p.exit = "running") /\ p.exit = "exited"
        BY <1>1, <1>3, <2>3, <3>2, MonitorLooksStep DEF MonitorFinds, Stages
      <3>3. CASE /\ ~(p.state = "codex" \/ p.exit = "running") /\ p.exit # "exited"
                 /\ p.state # "shell"
        BY <1>1, <1>3, <2>3, <3>3, MonitorLooksStep DEF MonitorFinds, Stages
      <3>4. CASE /\ ~(p.state = "codex" \/ p.exit = "running") /\ p.exit # "exited"
                 /\ p.state = "shell"
        <4>1. /\ monitor.at = "find"
              /\ monitor' = [monitor EXCEPT !.at = "claim", !.gen = p.gen]
          BY <1>3, <2>3, <3>4 DEF MonitorFinds
        <4>2. monitor = [at |-> monitor.at, session |-> monitor.session,
                         slots |-> monitor.slots, gen |-> monitor.gen]
          BY DEF Inv, Monitoring
        <4>3. /\ monitor'.at = "claim" /\ monitor'.session = monitor.session
              /\ monitor'.slots = monitor.slots
              /\ monitor' = [at |-> "claim", session |-> monitor.session,
                             slots |-> monitor.slots, gen |-> monitor'.gen]
          BY <4>1, <4>2
        <4>4. /\ UNCHANGED <<slots, pane, turn>> /\ UNCHANGED <<reading, op>>
              /\ UNCHANGED <<stopped, doubtful>> /\ slots' = slots /\ pane' = pane
          BY <1>1
        <4>5. Fitting' /\ Keeps
          BY <4>4, Quiet
        <4>6. InDoubt'
          BY <4>1, <4>4, <4>5, DoubtBeside
        <4>7. Monitoring'
          BY <4>1, <4>3, <4>4 DEF Inv, Monitoring, Stages, Mine, Saved
        <4> QED  BY <4>4, <4>5, <4>6, <4>7, BesideMonitor
      <3> QED  BY <3>1, <3>2, <3>3, <3>4
    <2> QED  BY <2>1, <2>2, <2>3
  <1> QED  BY <1>2, <1>3

\* disarmUncertainAgentRecovery, or an agent that exited by itself: the slot of the run is
\* disarmed, and what was in doubt of it is settled by that.
LEMMA MonitorDisarmsStep ==
  ASSUME MaxPanes \in Nat, Inv, MonitorDisarms
  PROVE  Inv'
PROOF
  <1>1. /\ monitor.at \in {"disarm", "disable"}
        /\ slots' = IF monitor.at = "disarm" THEN Disarmed(Mine) ELSE Enabled(Mine, FALSE)
        /\ Done /\ UNCHANGED <<pane, turn>> /\ UNCHANGED <<reading, op>>
        /\ UNCHANGED <<stopped, doubtful>>
    BY DEF MonitorDisarms
  <1>2. Mine \in Sessions /\ slots[Mine].known
    BY <1>1 DEF Inv, Monitoring, Stages, Mine
  <1>3. /\ Fitting' /\ Keeps /\ slots'[Mine].armed = FALSE
        /\ \A t \in Sessions : t # Mine => slots'[t] = slots[t]
    <2>1. CASE monitor.at = "disarm"
      <3>1. slots' = Disarmed(Mine)
        BY <1>1, <2>1
      <3> QED  BY <1>1, <1>2, <3>1, DisarmedSlot
    <2>2. CASE monitor.at # "disarm"
      <3>1. slots' = Enabled(Mine, FALSE)
        BY <1>1, <2>2
      <3> QED  BY <1>1, <1>2, <3>1, EnabledSlot
    <2> QED  BY <2>1, <2>2
  <1>4. InDoubt'
    <2>1. \A s \in doubtful : slots'[s].armed = TRUE => FALSE
      BY <1>3 DEF Inv, InDoubt, NoUncertainRetry, Mine
    <2>2. \A s \in doubtful : slots'[s].armed \in BOOLEAN
      BY <1>3 DEF Inv, InDoubt, Fitting, SlotType
    <2>3. \A s \in doubtful : ~slots'[s].armed
      BY <2>1, <2>2
    <2> QED  BY <1>1, <1>3, <2>3 DEF Inv, InDoubt, NoUncertainRetry, Keeps
  <1> QED  BY <1>1, <1>3, <1>4, RunDone, BesideMonitor

\* markAgentRecoveryAttempt is written before anything is typed or made.
LEMMA MonitorClaimsStep ==
  ASSUME MaxPanes \in Nat, Inv, MonitorClaims
  PROVE  Inv'
PROOF
  <1>1. /\ monitor.at = "claim" /\ slots' = Attempted(Mine)
        /\ UNCHANGED <<pane, turn>> /\ UNCHANGED <<reading, op>>
        /\ UNCHANGED <<stopped, doubtful>>
    BY DEF MonitorClaims
  <1>2. Mine \in Sessions
    BY <1>1 DEF Inv, Monitoring, Stages, Mine
  <1>3. Fitting' /\ Keeps /\ \A t \in Sessions : slots'[t].armed = slots[t].armed
    BY <1>1, <1>2, AttemptedSlot
  <1>4. InDoubt'
    <2>1. \A t \in doubtful : slots'[t].armed => slots[t].armed
      BY <1>3 DEF Inv, InDoubt
    <2> QED  BY <1>1, <1>3, <2>1, DoubtBeside
  <1>5. Monitoring'
    BY <1>1, <1>3, StageGone DEF MonitorClaims, Stages
  <1> QED  BY <1>1, <1>3, <1>4, <1>5, BesideMonitor

\* The recovered agent is recorded.
LEMMA MonitorRecordsStep ==
  ASSUME MaxPanes \in Nat, Inv, MonitorRecords
  PROVE  Inv'
PROOF
  <1>1. /\ monitor.at = "recovered" /\ slots' = Recovered(Mine) /\ Done
        /\ UNCHANGED <<pane, turn>> /\ UNCHANGED <<reading, op>>
        /\ UNCHANGED <<stopped, doubtful>>
    BY DEF MonitorRecords
  <1>2. Mine \in Sessions
    BY <1>1 DEF Inv, Monitoring, Stages, Mine
  <1>3. Fitting' /\ Keeps /\ \A t \in Sessions : slots'[t].armed = slots[t].armed
    BY <1>1, <1>2, SettledSlot
  <1>4. InDoubt'
    <2>1. \A t \in doubtful : slots'[t].armed => slots[t].armed
      BY <1>3 DEF Inv, InDoubt
    <2> QED  BY <1>1, <1>3, <2>1, DoubtBeside
  <1> QED  BY <1>1, <1>3, <1>4, RunDone, BesideMonitor

\* The outcome of automatic input is in doubt from the step on in which the run turns to
\* disarming the slot.
LEMMA DoubtBegins ==
  ASSUME MaxPanes \in Nat, Inv, Fitting', Keeps, monitor.at \in Stages \ {"disarm"},
         UNCHANGED <<slots, reading, op, stopped>>, Goto("disarm"),
         doubtful' = doubtful \cup {Mine}
  PROVE  Inv'
PROOF
  <1>1. Mine \in Sessions /\ slots[Mine].known /\ Mine = monitor.session
    BY DEF Inv, Monitoring, Stages, Mine
  <1>2. monitor'.at = "disarm" /\ monitor'.session = monitor.session
    BY DEF Inv, Monitoring, Goto
  <1>3. ASSUME NEW s \in doubtful', slots'[s].armed
        PROVE  s = monitor.session
    BY <1>1, <1>3 DEF Inv, InDoubt, NoUncertainRetry
  <1>4. NoUncertainRetry'
    BY <1>2, <1>3 DEF NoUncertainRetry
  <1>5. InDoubt'
    BY <1>1, <1>4 DEF Inv, InDoubt
  <1>6. Monitoring'
    BY StageGone DEF Stages
  <1> QED  BY <1>5, <1>6, BesideMonitor

\* The resume command is typed into the pane that was claimed, if it is still a shell.
LEMMA MonitorTypesStep ==
  ASSUME MaxPanes \in Nat, Inv, MonitorTypes
  PROVE  Inv'
PROOF
  <1> DEFINE p == pane[Mine]
             started == Launched(Mine, p.gen, Saved.rollout)
  <1>1. monitor.at = "type" /\ UNCHANGED <<slots, turn, reading, op, stopped>>
        /\ UNCHANGED <<slots, turn>> /\ UNCHANGED <<reading, op>>
        /\ slots' = slots /\ stopped' = stopped
    BY DEF MonitorTypes
  <1>2. Mine \in Sessions /\ Saved.rollout \in 1..p.gen /\ p.gen \in p.gen..MaxPanes
    <2>1. Mine \in Sessions /\ Saved.rollout # 0 /\ Saved.rollout \in 0..p.gen
      BY <1>1 DEF Inv, Monitoring, Stages, Mine, Saved
    <2>2. p.gen \in 0..MaxPanes
      BY <2>1, Numbered DEF Inv
    <2> QED  BY <2>1, <2>2
  <1>3. pane' = pane \/ pane' = started
    BY DEF MonitorTypes
  <1>4. Fitting' /\ Keeps
    <2>1. CASE pane' = pane
      BY <1>1, <2>1, Quiet
    <2>2. CASE pane' = started
      BY <1>1, <1>2, <2>2, LaunchedPane
    <2> QED  BY <1>3, <2>1, <2>2
  <1>5. CASE doubtful' = doubtful
    <2>1. \E at \in {"disarm", "recovered", "verify"} : Goto(at)
      BY DEF MonitorTypes
    <2>2. Monitoring'
      BY <1>1, <1>4, <2>1, StageGone DEF Stages
    <2>3. InDoubt'
      BY <1>1, <1>4, <1>5, DoubtBeside
    <2> QED  BY <1>1, <1>4, <2>2, <2>3, BesideMonitor
  <1>6. CASE doubtful' # doubtful
    <2>1. doubtful' = doubtful \cup {Mine} /\ Goto("disarm")
      BY <1>6 DEF MonitorTypes
    <2> QED  BY <1>1, <1>4, <2>1, DoubtBegins DEF Stages
  <1> QED  BY <1>5, <1>6

\* A session that is gone is made again, with the conversation that was saved.
LEMMA MonitorSpawnsStep ==
  ASSUME MaxPanes \in Nat, Inv, MonitorSpawns
  PROVE  Inv'
PROOF
  <1>1. monitor.at = "spawn" /\ UNCHANGED <<slots, turn>> /\ UNCHANGED <<reading, op>>
        /\ UNCHANGED <<stopped, doubtful>> /\ slots' = slots
    BY DEF MonitorSpawns
  <1>2. Mine \in Sessions /\ Saved.rollout # 0 /\ Saved.rollout \in 0..pane[Mine].gen
        /\ pane[Mine].gen \in Nat
    <2>1. Mine \in Sessions /\ Saved.rollout # 0 /\ Saved.rollout \in 0..pane[Mine].gen
      BY <1>1 DEF Inv, Monitoring, Stages, Mine, Saved
    <2> QED  BY <2>1, Numbered DEF Inv
  <1>3. \/ pane' = pane
        \/ NewGen(Mine) <= MaxPanes /\ pane' = Launched(Mine, NewGen(Mine), Saved.rollout)
    BY DEF MonitorSpawns
  <1>4. Fitting' /\ Keeps
    <2>1. CASE pane' = pane
      BY <1>1, <2>1, Quiet
    <2>2. CASE NewGen(Mine) <= MaxPanes /\ pane' = Launched(Mine, NewGen(Mine), Saved.rollout)
      <3>1. NewGen(Mine) \in pane[Mine].gen..MaxPanes /\ Saved.rollout \in 1..NewGen(Mine)
        BY <1>2, <2>2 DEF NewGen
      <3> QED  BY <1>1, <1>2, <2>2, <3>1, LaunchedPane
    <2> QED  BY <1>3, <2>1, <2>2
  <1>5. Done \/ \E at \in {"disarm", "verify"} : Goto(at)
    BY DEF MonitorSpawns
  <1>6. Monitoring'
    BY <1>1, <1>4, <1>5, RunDone, StageGone DEF Stages
  <1>7. InDoubt'
    BY <1>1, <1>4, DoubtBeside
  <1> QED  BY <1>1, <1>4, <1>6, <1>7, BesideMonitor

\* waitForPromptableCodexPane: when the agent is not there in time its input is in doubt.
LEMMA MonitorVerifiesStep ==
  ASSUME MaxPanes \in Nat, Inv, MonitorVerifies
  PROVE  Inv'
PROOF
  <1>1. /\ monitor.at = "verify" /\ UNCHANGED <<slots, pane, turn>>
        /\ UNCHANGED <<slots, reading, op, stopped>> /\ stopped' = stopped /\ slots' = slots
        /\ UNCHANGED <<slots, pane, turn, reading, op, left, stopped>>
    BY DEF MonitorVerifies
  <1>2. CASE pane[Mine].state = "codex"
    <2>1. Goto("recovered") /\ doubtful' = doubtful
      BY <1>2 DEF MonitorVerifies
    <2> QED  BY <1>1, <2>1, MonitorLooksStep DEF Stages
  <1>3. CASE pane[Mine].state # "codex"
    <2>1. Goto("disarm") /\ doubtful' = doubtful \cup {Mine}
      BY <1>3 DEF MonitorVerifies
    <2>2. Fitting' /\ Keeps
      BY <1>1, Quiet
    <2> QED  BY <1>1, <2>1, <2>2, DoubtBegins DEF Stages
  <1> QED  BY <1>2, <1>3

\* Every step of the monitor keeps the inductive invariant.
LEMMA MonitorStepKeeps ==
  ASSUME MaxPanes \in Nat, Inv, MonitorStep
  PROVE  Inv'
  BY MonitorStartsStep, MonitorSelectsStep, MonitorFindsStep, MonitorDisarmsStep,
     MonitorClaimsStep, MonitorTypesStep, MonitorSpawnsStep, MonitorVerifiesStep,
     MonitorRecordsStep DEF MonitorStep

--------------------------------------------------------------------------------
(* Observations, requests, agents and the server.                               *)

\* Where a step of somebody else leaves the monitor alone and arms nothing in doubt.
LEMMA BesideOthers ==
  ASSUME MaxPanes \in Nat, Inv, Fitting', Keeps, UNCHANGED monitor, Reading', Requested',
         stopped' \subseteq Sessions, doubtful' \subseteq doubtful,
         \A s \in doubtful' : slots'[s].armed => slots[s].armed
  PROVE  Inv'
PROOF
  <1>1. Monitoring'
    BY MonitoringStays DEF Inv
  <1>2. InDoubt'
    BY InDoubtStays DEF Inv
  <1> QED  BY <1>1, <1>2 DEF Inv

\* AGENT_RECOVERY_RETRY_MS goes by.
LEMMA RetryTimePassesStep ==
  ASSUME MaxPanes \in Nat, Inv, NEW s \in Sessions, RetryTimePasses(s)
  PROVE  Inv'
PROOF
  <1>1. /\ slots' = [slots EXCEPT ![s].tried = FALSE]
        /\ UNCHANGED <<pane, turn>> /\ UNCHANGED monitor /\ UNCHANGED reading
        /\ UNCHANGED op /\ stopped' = stopped /\ doubtful' = doubtful
    BY DEF RetryTimePasses
  <1>2. Fitting' /\ Keeps /\ \A t \in Sessions : slots'[t].armed = slots[t].armed
    BY <1>1, SettledSlot
  <1>3. Reading' /\ Requested'
    BY <1>1, <1>2, ReadingStays, RequestedStays DEF Inv
  <1>4. stopped' \subseteq Sessions /\ doubtful' \subseteq doubtful
        /\ \A t \in doubtful' : slots'[t].armed => slots[t].armed
    BY <1>1, <1>2 DEF Inv, InDoubt
  <1> QED  BY <1>1, <1>2, <1>3, <1>4, BesideOthers

\* Telemetry of a live agent names the conversation it has.
LEMMA ObserveReadsStep ==
  ASSUME MaxPanes \in Nat, Inv, NEW s \in Sessions, ObserveReads(s)
  PROVE  Inv'
PROOF
  <1>1. /\ pane[s].state = "codex"
        /\ UNCHANGED <<slots, pane, turn>> /\ UNCHANGED monitor /\ UNCHANGED op
        /\ stopped' = stopped /\ doubtful' = doubtful /\ slots' = slots /\ pane' = pane
    BY DEF ObserveReads
  <1>2. PICK root \in BOOLEAN :
          reading' = [session |-> s, rollout |-> pane[s].rollout, root |-> root, turn |-> turn[s]]
    BY DEF ObserveReads
  <1>3. Fitting' /\ Keeps
    BY <1>1, Quiet
  <1>4. pane[s].rollout \in 1..pane[s].gen /\ turn[s] \in {"idle", "active"}
    <2>1. SlotFits(slots[s], pane[s]) /\ pane[s].rollout \in Nat /\ pane[s].gen \in Nat
      BY Numbered DEF Inv
    <2>2. pane[s].rollout # 0 /\ pane[s].rollout <= pane[s].gen
      BY <1>1, <2>1 DEF SlotFits
    <2>3. turn[s] \in {"idle", "active"}
      BY DEF Inv, Fitting
    <2> QED  BY <2>1, <2>2, <2>3
  <1>5. Reading'
    BY <1>1, <1>2, <1>4 DEF Reading
  <1>6. Requested'
    BY <1>1, <1>3, RequestedStays DEF Inv
  <1>7. stopped' \subseteq Sessions /\ doubtful' \subseteq doubtful
        /\ \A t \in doubtful' : slots'[t].armed => slots[t].armed
    BY <1>1 DEF Inv, InDoubt
  <1> QED  BY <1>1, <1>3, <1>5, <1>6, <1>7, BesideOthers

\* recordAgentRecoveryObservation: a slot that is known is not armed by it.
LEMMA ObserveRecordsStep ==
  ASSUME MaxPanes \in Nat, Inv, ObserveRecords
  PROVE  Inv'
PROOF
  <1> DEFINE s == reading.session
  <1>1. /\ reading # NoReading /\ slots' = Observed(reading) /\ reading' = NoReading
        /\ UNCHANGED <<pane, turn>> /\ UNCHANGED monitor /\ UNCHANGED op
        /\ stopped' = stopped /\ doubtful' = doubtful /\ pane' = pane
    BY DEF ObserveRecords
  <1>2. /\ s \in Sessions /\ reading.root \in BOOLEAN /\ reading.rollout \in 1..pane[s].gen
        /\ reading.turn \in {"unknown", "idle", "active"}
    BY <1>1 DEF Inv, Reading
  <1>3. /\ slots[s] \in SlotType /\ pane[s].gen \in Nat
        /\ slots[s].known \in BOOLEAN /\ slots[s].armed \in BOOLEAN
    BY <1>2, Numbered DEF Inv, SlotType
  <1>4. /\ Fitting' /\ Keeps
        /\ slots[s].known /\ slots'[s].armed => slots[s].armed
        /\ \A t \in Sessions : t # s => slots'[t] = slots[t]
    <2>1. CASE reading.root
      <3> DEFINE auto == IF slots[s].known THEN slots[s].armed ELSE TRUE
      <3>1. slots' = Registered(s, reading.rollout, TRUE, reading.turn, auto)
        BY <1>1, <2>1 DEF Observed
      <3>2. auto \in BOOLEAN /\ reading.rollout \in 0..pane[s].gen /\ reading.rollout # 0
        <4>1. auto \in BOOLEAN
          BY <1>3
        <4>2. reading.rollout \in 0..pane[s].gen /\ reading.rollout # 0
          BY <1>2, <1>3
        <4> QED  BY <4>1, <4>2
      <3>3. slots[s].known => auto = slots[s].armed
        OBVIOUS
      <3> HIDE DEF auto
      <3>4. /\ Fitting' /\ Keeps /\ slots'[s].armed = auto
            /\ \A t \in Sessions : t # s => slots'[t] = slots[t]
        BY <1>1, <1>2, <3>1, <3>2, RegisteredSlot
      <3> QED  BY <3>3, <3>4
    <2>2. CASE ~reading.root /\ slots[s].known
      <3>1. slots' = Registered(s, 0, FALSE, reading.turn, FALSE)
        BY <1>1, <2>2 DEF Observed
      <3>2. 0 \in 0..pane[s].gen
        BY <1>3
      <3>3. /\ Fitting' /\ Keeps /\ slots'[s].armed = FALSE
            /\ \A t \in Sessions : t # s => slots'[t] = slots[t]
        BY <1>1, <1>2, <3>1, <3>2, RegisteredSlot
      <3> QED  BY <3>3
    <2>3. CASE ~reading.root /\ ~slots[s].known
      <3>1. slots' = slots
        BY <1>1, <2>3 DEF Observed
      <3>2. Fitting' /\ Keeps
        BY <1>1, <3>1, Quiet
      <3> QED  BY <3>1, <3>2
    <2> QED  BY <1>2, <2>1, <2>2, <2>3
  <1>5. Reading' /\ Requested'
    BY <1>1, <1>4, RequestedStays DEF Inv, Reading
  <1>6. stopped' \subseteq Sessions /\ doubtful' \subseteq doubtful
    BY <1>1 DEF Inv, InDoubt
  <1>7. \A t \in doubtful' : slots'[t].armed => slots[t].armed
    <2>1. \A t \in doubtful : t \in Sessions /\ slots[t].known
      BY DEF Inv, InDoubt
    <2> QED  BY <1>1, <1>4, <2>1
  <1> QED  BY <1>1, <1>4, <1>5, <1>6, <1>7, BesideOthers

\* A request is taken: what it arms or resumes is known.
LEMMA RequestStep ==
  ASSUME MaxPanes \in Nat, Inv, NEW s \in Sessions,
         CreateAgent(s) \/ StopSession(s) \/ ArmAgentRecovery(s) \/ ResumeAgent(s)
  PROVE  Inv'
PROOF
  <1>1. /\ UNCHANGED <<slots, pane, turn>> /\ UNCHANGED monitor /\ UNCHANGED reading
        /\ stopped' = stopped /\ doubtful' = doubtful /\ slots' = slots
    BY DEF CreateAgent, StopSession, ArmAgentRecovery, ResumeAgent
  <1>2. Fitting' /\ Keeps
    BY <1>1, Quiet
  <1>3. /\ op'.at \in {"launch", "read", "rearm", "type"} /\ op'.session = s
        /\ op' = [kind |-> op'.kind, at |-> op'.at, session |-> op'.session,
                  gen |-> op'.gen, armed |-> op'.armed]
        /\ op'.at \in {"rearm", "type"} => SavedChat(s)
    <2>1. CASE CreateAgent(s)
      BY <2>1 DEF CreateAgent, Request
    <2>2. CASE StopSession(s)
      BY <2>2 DEF StopSession, Request
    <2>3. CASE ArmAgentRecovery(s)
      BY <2>3 DEF ArmAgentRecovery, Request
    <2>4. CASE ResumeAgent(s)
      BY <2>4 DEF ResumeAgent, Request
    <2> QED  BY <2>1, <2>2, <2>3, <2>4
  <1>4. SavedChat(s) => slots[s].known /\ slots[s].rollout # 0
    <2>1. SlotFits(slots[s], pane[s])
      BY Numbered DEF Inv
    <2> QED  BY <2>1 DEF SavedChat, SlotFits
  <1>5. Requested'
    <2>1. op'.at = "type" => slots'[op'.session].rollout # 0
      BY <1>1, <1>3, <1>4
    <2>2. op'.at \in {"type", "verify", "rearm", "failed"} => slots'[op'.session].known
      BY <1>1, <1>3, <1>4
    <2> QED  BY <1>3, <2>1, <2>2 DEF Requested
  <1>6. Reading'
    BY <1>1, <1>2, ReadingStays DEF Inv
  <1>7. stopped' \subseteq Sessions /\ doubtful' \subseteq doubtful
        /\ \A t \in doubtful' : slots'[t].armed => slots[t].armed
    BY <1>1 DEF Inv, InDoubt
  <1> QED  BY <1>1, <1>2, <1>5, <1>6, <1>7, BesideOthers

\* The request goes on to another stage of it.
LEMMA RequestGoes ==
  ASSUME Inv, Keeps, NEW at \in {"register", "verify", "failed", "rearm"}, op.at # "idle",
         op' = [op EXCEPT !.at = at],
         at \in {"verify", "rearm", "failed"} => slots[op.session].known
  PROVE  Requested'
PROOF
  <1>1. /\ op'.at = at /\ op'.session = op.session
        /\ op' = [kind |-> op'.kind, at |-> op'.at, session |-> op'.session,
                  gen |-> op'.gen, armed |-> op'.armed]
        /\ op.session \in Sessions
    BY DEF Inv, Requested
  <1> QED  BY <1>1 DEF Requested, Keeps

\* A request is done with.
LEMMA RequestEnds ==
  ASSUME op' = NoOp
  PROVE  Requested'
  BY DEF NoOp, Requested

\* createAgent: a session that is still not there is made with a conversation of its own.
LEMMA CreateLaunchesStep ==
  ASSUME MaxPanes \in Nat, Inv, CreateLaunches
  PROVE  Inv'
PROOF
  <1> DEFINE s == op.session
  <1>1. /\ op.at = "launch" /\ UNCHANGED <<slots, turn>> /\ UNCHANGED monitor
        /\ UNCHANGED reading /\ slots' = slots /\ doubtful' = doubtful
    BY DEF CreateLaunches
  <1>2. s \in Sessions /\ pane[s].gen \in Nat
    <2>1. s \in Sessions
      BY <1>1 DEF Inv, Requested
    <2> QED  BY <2>1, Numbered DEF Inv
  <1>3. /\ stopped' \subseteq stopped
        /\ \/ pane' = pane /\ op' = NoOp
           \/ /\ NewGen(s) <= MaxPanes /\ pane' = Launched(s, NewGen(s), NewGen(s))
              /\ op' = [op EXCEPT !.at = "register"]
    <2>1. CASE pane[s].state # "gone" \/ NewGen(s) > MaxPanes
      BY <2>1 DEF CreateLaunches
    <2>2. CASE ~(pane[s].state # "gone" \/ NewGen(s) > MaxPanes)
      <3>1. /\ pane' = Launched(s, NewGen(s), NewGen(s)) /\ stopped' = stopped \ {s}
            /\ op' = [op EXCEPT !.at = "register"]
        BY <2>2 DEF CreateLaunches
      <3>2. MaxPanes \in Nat /\ NewGen(s) \in Nat
        BY <1>2 DEF NewGen
      <3>3. NewGen(s) <= MaxPanes
        BY <2>2, <3>2
      <3> QED  BY <3>1, <3>3
    <2> QED  BY <2>1, <2>2
  <1>4. Fitting' /\ Keeps /\ Requested'
    <2>1. CASE pane' = pane /\ op' = NoOp
      BY <1>1, <2>1, Quiet, RequestEnds
    <2>2. CASE /\ NewGen(s) <= MaxPanes /\ pane' = Launched(s, NewGen(s), NewGen(s))
               /\ op' = [op EXCEPT !.at = "register"]
      <3>1. NewGen(s) \in pane[s].gen..MaxPanes /\ NewGen(s) \in 1..NewGen(s)
        BY <1>2, <2>2 DEF NewGen
      <3>2. Fitting' /\ Keeps
        BY <1>1, <1>2, <2>2, <3>1, LaunchedPane
      <3> QED  BY <1>1, <2>2, <3>2, RequestGoes
    <2> QED  BY <1>3, <2>1, <2>2
  <1>5. Reading'
    BY <1>1, <1>4, ReadingStays DEF Inv
  <1>6. stopped' \subseteq Sessions /\ doubtful' \subseteq doubtful
        /\ \A t \in doubtful' : slots'[t].armed => slots[t].armed
    BY <1>1, <1>3 DEF Inv, InDoubt
  <1> QED  BY <1>1, <1>4, <1>5, <1>6, BesideOthers

\* The created agent's slot is registered, and what was in doubt of its session is over.
LEMMA CreateRegistersStep ==
  ASSUME MaxPanes \in Nat, Inv, CreateRegisters
  PROVE  Inv'
PROOF
  <1> DEFINE s == op.session
  <1>1. /\ op.at = "register" /\ op' = NoOp /\ UNCHANGED <<pane, turn>> /\ UNCHANGED monitor
        /\ UNCHANGED reading /\ doubtful' = doubtful \ {s} /\ stopped' = stopped
    BY DEF CreateRegisters
  <1>2. PICK auto \in BOOLEAN : slots' = Registered(s, 0, FALSE, "unknown", auto)
    BY DEF CreateRegisters
  <1>3. s \in Sessions /\ 0 \in 0..pane[s].gen
    <2>1. s \in Sessions
      BY <1>1 DEF Inv, Requested
    <2>2. pane[s].gen \in Nat
      BY <2>1, Numbered DEF Inv
    <2> QED  BY <2>1, <2>2
  <1>4. /\ Fitting' /\ Keeps
        /\ \A t \in Sessions : t # s => slots'[t] = slots[t]
    BY <1>1, <1>2, <1>3, RegisteredSlot
  <1>5. Reading' /\ Requested'
    BY <1>1, <1>4, ReadingStays, RequestEnds DEF Inv
  <1>6. stopped' \subseteq Sessions /\ doubtful' \subseteq doubtful
        /\ \A t \in doubtful' : slots'[t].armed => slots[t].armed
    BY <1>1, <1>4 DEF Inv, InDoubt
  <1> QED  BY <1>1, <1>4, <1>5, <1>6, BesideOthers

\* stopSession: the slot is disarmed, and the request remembers that it was armed.
LEMMA StopDisarmsStep ==
  ASSUME MaxPanes \in Nat, Inv, StopDisarms
  PROVE  Inv'
PROOF
  <1> DEFINE s == op.session
  <1>1. /\ op.at = "read" /\ UNCHANGED <<pane, turn>> /\ UNCHANGED monitor
        /\ UNCHANGED reading /\ doubtful' = doubtful /\ stopped' = stopped
        /\ slots' = (IF slots[s].armed THEN Enabled(s, FALSE) ELSE slots)
        /\ op' = [op EXCEPT !.at = "kill", !.armed = slots[s].armed]
    BY DEF StopDisarms
  <1>2. s \in Sessions /\ SlotFits(slots[s], pane[s])
    <2>1. s \in Sessions
      BY <1>1 DEF Inv, Requested
    <2> QED  BY <2>1, Numbered DEF Inv
  <1>3. slots[s].armed => slots[s].known
    BY <1>2 DEF SlotFits
  <1>4. /\ Fitting' /\ Keeps
        /\ \A t \in Sessions : slots'[t].armed => slots[t].armed
    <2>1. CASE slots[s].armed
      <3>1. slots' = Enabled(s, FALSE)
        BY <1>1, <2>1
      <3> QED  BY <1>1, <1>2, <1>3, <2>1, <3>1, EnabledSlot
    <2>2. CASE ~slots[s].armed
      <3>1. slots' = slots
        BY <1>1, <2>2
      <3> QED  BY <1>1, <3>1, Quiet
    <2> QED  BY <2>1, <2>2
  <1>5. Requested'
    <2>1. /\ op'.at = "kill" /\ op'.session = s /\ (op'.armed => slots[s].armed)
          /\ op' = [kind |-> op'.kind, at |-> op'.at, session |-> op'.session,
                    gen |-> op'.gen, armed |-> op'.armed]
      BY <1>1 DEF Inv, Requested
    <2> QED  BY <1>2, <1>3, <1>4, <2>1 DEF Requested, Keeps
  <1>6. Reading'
    BY <1>1, <1>4, ReadingStays DEF Inv
  <1>7. stopped' \subseteq Sessions /\ doubtful' \subseteq doubtful
        /\ \A t \in doubtful' : slots'[t].armed => slots[t].armed
    BY <1>1, <1>4 DEF Inv, InDoubt
  <1> QED  BY <1>1, <1>4, <1>5, <1>6, <1>7, BesideOthers

\* The session is killed, or the kill fails and what was armed will be armed again.
LEMMA StopKillsStep ==
  ASSUME MaxPanes \in Nat, Inv, StopKills
  PROVE  Inv'
PROOF
  <1> DEFINE s == op.session
  <1>1. /\ op.at = "kill" /\ UNCHANGED slots /\ UNCHANGED turn /\ UNCHANGED monitor
        /\ UNCHANGED reading /\ doubtful' = doubtful /\ slots' = slots
        /\ UNCHANGED <<slots, turn>>
    BY DEF StopKills
  <1>2. s \in Sessions
    BY <1>1 DEF Inv, Requested
  <1>3. /\ stopped' \subseteq stopped \cup {s}
        /\ pane' = pane \/ pane' = [pane EXCEPT ![s].state = "gone"]
        /\ op' = NoOp \/ (op.armed /\ op' = [op EXCEPT !.at = "rearm"])
    BY DEF StopKills
  <1>4. Fitting' /\ Keeps
    <2>1. CASE pane' = pane
      BY <1>1, <2>1, Quiet
    <2>2. CASE pane' = [pane EXCEPT ![s].state = "gone"]
      <3>1. /\ pane[s] = [pane[s] EXCEPT !.exit = pane[s].exit]
            /\ pane[s].exit \in {"none", "running", "exited", "crashed"}
        <4>1. pane[s] \in PaneType
          BY <1>2, Numbered DEF Inv
        <4> QED  BY <4>1 DEF PaneType
      <3>2. pane' = [pane EXCEPT ![s] = [pane[s] EXCEPT !.state = "gone", !.exit = pane[s].exit]]
        <4>1. [pane[s] EXCEPT !.state = "gone"]
              = [pane[s] EXCEPT !.state = "gone", !.exit = pane[s].exit]
          BY <3>1
        <4> QED  BY <2>2, <4>1
      <3>3. turn' \in [Sessions -> {"idle", "active"}]
        BY <1>1 DEF Inv, Fitting
      <3> QED  BY <1>1, <1>2, <3>1, <3>2, <3>3, PaneState
    <2> QED  BY <1>3, <2>1, <2>2
  <1>5. Requested'
    <2>1. CASE op' = NoOp
      BY <2>1, RequestEnds
    <2>2. CASE op.armed /\ op' = [op EXCEPT !.at = "rearm"]
      <3>1. slots[op.session].known
        BY <1>1, <2>2 DEF Inv, Requested
      <3> QED  BY <1>1, <1>4, <2>2, <3>1, RequestGoes
    <2> QED  BY <1>3, <2>1, <2>2
  <1>6. Reading'
    BY <1>1, <1>4, ReadingStays DEF Inv
  <1>7. stopped' \subseteq Sessions /\ doubtful' \subseteq doubtful
        /\ \A t \in doubtful' : slots'[t].armed => slots[t].armed
    BY <1>1, <1>2, <1>3 DEF Inv, InDoubt
  <1> QED  BY <1>1, <1>4, <1>5, <1>6, <1>7, BesideOthers

\* On the operator's behalf the slot is armed, and nothing of its session is in doubt.
LEMMA OperatorArmsStep ==
  ASSUME MaxPanes \in Nat, Inv, OperatorArms
  PROVE  Inv'
PROOF
  <1> DEFINE s == op.session
  <1>1. /\ op.at = "rearm" /\ op' = NoOp /\ UNCHANGED <<pane, turn>> /\ UNCHANGED monitor
        /\ UNCHANGED reading /\ doubtful' = doubtful \ {s} /\ stopped' = stopped
        /\ slots' = Enabled(s, TRUE)
    BY DEF OperatorArms
  <1>2. s \in Sessions /\ slots[s].known
    BY <1>1 DEF Inv, Requested
  <1>3. /\ Fitting' /\ Keeps
        /\ \A t \in Sessions : t # s => slots'[t] = slots[t]
    BY <1>1, <1>2, EnabledSlot
  <1>4. Reading' /\ Requested'
    BY <1>1, <1>3, ReadingStays, RequestEnds DEF Inv
  <1>5. stopped' \subseteq Sessions /\ doubtful' \subseteq doubtful
        /\ \A t \in doubtful' : slots'[t].armed => slots[t].armed
    BY <1>1, <1>3 DEF Inv, InDoubt
  <1> QED  BY <1>1, <1>3, <1>4, <1>5, BesideOthers

\* resumeAgent: the command is typed into the pane the request looked at.
LEMMA ResumeTypesStep ==
  ASSUME MaxPanes \in Nat, Inv, ResumeTypes
  PROVE  Inv'
PROOF
  <1> DEFINE s == op.session
             started == Launched(s, op.gen, slots[s].rollout)
  <1>1. /\ op.at = "type" /\ UNCHANGED <<slots, turn>> /\ UNCHANGED monitor
        /\ UNCHANGED reading /\ slots' = slots /\ doubtful' = doubtful /\ stopped' = stopped
    BY DEF ResumeTypes
  <1>2. s \in Sessions /\ slots[s].known /\ slots[s].rollout # 0
    BY <1>1 DEF Inv, Requested
  <1>3. /\ SlotFits(slots[s], pane[s]) /\ pane[s].gen \in 0..MaxPanes
        /\ slots[s].rollout \in Nat
    BY <1>2, Numbered DEF Inv
  <1>4. /\ pane' = pane \/ (pane' = started /\ op.gen = pane[s].gen)
        /\ op' = NoOp \/ \E at \in {"verify", "failed"} : op' = [op EXCEPT !.at = at]
    <2>1. CASE pane[s].gen # op.gen \/ pane[s].state # "shell"
      BY <2>1 DEF ResumeTypes
    <2>2. CASE ~(pane[s].gen # op.gen \/ pane[s].state # "shell")
      BY <2>2 DEF ResumeTypes
    <2> QED  BY <2>1, <2>2
  <1>5. Fitting' /\ Keeps
    <2>1. CASE pane' = pane
      BY <1>1, <2>1, Quiet
    <2>2. CASE pane' = started /\ op.gen = pane[s].gen
      <3>1. slots[s].rollout <= pane[s].gen
        BY <1>3 DEF SlotFits
      <3>2. op.gen \in pane[s].gen..MaxPanes /\ slots[s].rollout \in 1..op.gen
        BY <1>2, <1>3, <2>2, <3>1
      <3> QED  BY <1>1, <1>2, <2>2, <3>2, LaunchedPane
    <2> QED  BY <1>4, <2>1, <2>2
  <1>6. Requested'
    <2>1. CASE op' = NoOp
      BY <2>1, RequestEnds
    <2>2. CASE \E at \in {"verify", "failed"} : op' = [op EXCEPT !.at = at]
      BY <1>1, <1>2, <1>5, <2>2, RequestGoes
    <2> QED  BY <1>4, <2>1, <2>2
  <1>7. Reading'
    BY <1>1, <1>5, ReadingStays DEF Inv
  <1>8. stopped' \subseteq Sessions /\ doubtful' \subseteq doubtful
        /\ \A t \in doubtful' : slots'[t].armed => slots[t].armed
    BY <1>1 DEF Inv, InDoubt
  <1> QED  BY <1>1, <1>5, <1>6, <1>7, <1>8, BesideOthers

\* The resumed agent is there, or it did not come.
LEMMA ResumeVerifiesStep ==
  ASSUME MaxPanes \in Nat, Inv, ResumeVerifies
  PROVE  Inv'
PROOF
  <1>1. /\ op.at = "verify" /\ UNCHANGED <<slots, pane, turn>> /\ UNCHANGED monitor
        /\ UNCHANGED reading /\ slots' = slots /\ doubtful' = doubtful /\ stopped' = stopped
    BY DEF ResumeVerifies
  <1>2. \E at \in {"rearm", "failed"} : op' = [op EXCEPT !.at = at]
    BY DEF ResumeVerifies
  <1>3. slots[op.session].known
    BY <1>1 DEF Inv, Requested
  <1>4. Fitting' /\ Keeps
    BY <1>1, Quiet
  <1>5. Requested'
    BY <1>1, <1>2, <1>3, <1>4, RequestGoes
  <1>6. Reading'
    BY <1>1, <1>4, ReadingStays DEF Inv
  <1>7. stopped' \subseteq Sessions /\ doubtful' \subseteq doubtful
        /\ \A t \in doubtful' : slots'[t].armed => slots[t].armed
    BY <1>1 DEF Inv, InDoubt
  <1> QED  BY <1>1, <1>4, <1>5, <1>6, <1>7, BesideOthers

\* A resumption of unknown outcome disarms the slot.
LEMMA ResumeFailsStep ==
  ASSUME MaxPanes \in Nat, Inv, ResumeFails
  PROVE  Inv'
PROOF
  <1> DEFINE s == op.session
  <1>1. /\ op.at = "failed" /\ op' = NoOp /\ UNCHANGED <<pane, turn>> /\ UNCHANGED monitor
        /\ UNCHANGED reading /\ doubtful' = doubtful /\ stopped' = stopped
        /\ slots' = Disarmed(s)
    BY DEF ResumeFails
  <1>2. s \in Sessions /\ slots[s].known
    BY <1>1 DEF Inv, Requested
  <1>3. /\ Fitting' /\ Keeps /\ slots'[s].armed = FALSE
        /\ \A t \in Sessions : t # s => slots'[t] = slots[t]
    BY <1>1, <1>2, DisarmedSlot
  <1>4. Reading' /\ Requested'
    BY <1>1, <1>3, ReadingStays, RequestEnds DEF Inv
  <1>5. stopped' \subseteq Sessions /\ doubtful' \subseteq doubtful
        /\ \A t \in doubtful' : slots'[t].armed => slots[t].armed
    BY <1>1, <1>3 DEF Inv, InDoubt
  <1> QED  BY <1>1, <1>3, <1>4, <1>5, BesideOthers

\* Every step of a request keeps the inductive invariant.
LEMMA OperatorStepKeeps ==
  ASSUME MaxPanes \in Nat, Inv, OperatorStep
  PROVE  Inv'
  BY CreateLaunchesStep, CreateRegistersStep, StopDisarmsStep, StopKillsStep,
     OperatorArmsStep, ResumeTypesStep, ResumeVerifiesStep, ResumeFailsStep DEF OperatorStep

\* The agents and their shells come and go: only the pane's state changes.
LEMMA PaneChanges ==
  ASSUME MaxPanes \in Nat, Inv, NEW s \in Sessions,
         UNCHANGED <<slots, monitor, reading, op, stopped, doubtful>>,
         turn' \in [Sessions -> {"idle", "active"}],
         NEW state \in {"gone", "codex", "shell", "dead", "other"},
         state = "codex" => pane[s].state = "starting",
         \/ pane' = [pane EXCEPT ![s].state = state]
         \/ \E exit \in {"exited", "crashed"} :
              pane' = [pane EXCEPT ![s].state = state, ![s].exit = exit]
  PROVE  Inv'
PROOF
  <1>1. pane[s] \in PaneType /\ pane[s].exit \in {"none", "running", "exited", "crashed"}
    <2>1. pane[s] \in PaneType
      BY Numbered DEF Inv
    <2> QED  BY <2>1 DEF PaneType
  <1>2. \E exit \in {"none", "running", "exited", "crashed"} :
          pane' = [pane EXCEPT ![s] = [pane[s] EXCEPT !.state = state, !.exit = exit]]
    <2>1. CASE pane' = [pane EXCEPT ![s].state = state]
      <3>1. [pane[s] EXCEPT !.state = state]
            = [pane[s] EXCEPT !.state = state, !.exit = pane[s].exit]
        BY <1>1 DEF PaneType
      <3> QED  BY <1>1, <2>1, <3>1
    <2>2. CASE \E exit \in {"exited", "crashed"} :
                 pane' = [pane EXCEPT ![s].state = state, ![s].exit = exit]
      <3>1. PICK exit \in {"exited", "crashed"} :
              pane' = [pane EXCEPT ![s].state = state, ![s].exit = exit]
        BY <2>2
      <3>2. pane' = [pane EXCEPT ![s] = [pane[s] EXCEPT !.state = state, !.exit = exit]]
        BY <3>1 DEF Inv, Fitting
      <3> QED  BY <3>2
    <2> QED  BY <2>1, <2>2
  <1>3. Fitting' /\ Keeps
    BY <1>2, PaneState
  <1>4. Reading' /\ Requested'
    BY <1>3, ReadingStays, RequestedStays DEF Inv
  <1>5. stopped' \subseteq Sessions /\ doubtful' \subseteq doubtful
        /\ \A t \in doubtful' : slots'[t].armed => slots[t].armed
    BY DEF Inv, InDoubt
  <1> QED  BY <1>3, <1>4, <1>5, BesideOthers

\* run-isolated-agent.sh starts Codex, or Codex ends, or its shell is lost.
LEMMA AgentStep ==
  ASSUME MaxPanes \in Nat, Inv, NEW s \in Sessions,
         AgentStarts(s) \/ AgentEnds(s) \/ ShellLost(s)
  PROVE  Inv'
PROOF
  <1>1. turn \in [Sessions -> {"idle", "active"}]
    BY DEF Inv, Fitting
  <1>2. CASE AgentStarts(s)
    <2>1. /\ UNCHANGED <<slots, monitor, reading, op, stopped, doubtful>>
          /\ turn' \in [Sessions -> {"idle", "active"}] /\ pane[s].state = "starting"
      BY <1>1, <1>2 DEF AgentStarts
    <2>2. \/ pane' = [pane EXCEPT ![s].state = "codex"]
          \/ pane' = [pane EXCEPT ![s].state = "shell", ![s].exit = "crashed"]
      BY <1>2 DEF AgentStarts
    <2>3. CASE pane' = [pane EXCEPT ![s].state = "codex"]
      BY <2>1, <2>3, PaneChanges
    <2>4. CASE pane' = [pane EXCEPT ![s].state = "shell", ![s].exit = "crashed"]
      BY <2>1, <2>4, PaneChanges
    <2> QED  BY <2>2, <2>3, <2>4
  <1>3. CASE AgentEnds(s)
    <2>1. PICK how \in {"exited", "crashed"}, state \in {"shell", "gone"} :
            pane' = [pane EXCEPT ![s].state = state, ![s].exit = how]
      BY <1>3 DEF AgentEnds
    <2>2. /\ UNCHANGED <<slots, monitor, reading, op, stopped, doubtful>>
          /\ turn' \in [Sessions -> {"idle", "active"}]
      BY <1>1, <1>3 DEF AgentEnds
    <2>3. state \in {"gone", "codex", "shell", "dead", "other"} /\ state # "codex"
      OBVIOUS
    <2> QED  BY <2>1, <2>2, <2>3, PaneChanges
  <1>4. CASE ShellLost(s)
    <2>1. PICK state \in {"gone", "dead", "other"} : pane' = [pane EXCEPT ![s].state = state]
      BY <1>4 DEF ShellLost
    <2>2. /\ UNCHANGED <<slots, monitor, reading, op, stopped, doubtful>>
          /\ turn' \in [Sessions -> {"idle", "active"}]
      BY <1>1, <1>4 DEF ShellLost
    <2>3. state \in {"gone", "codex", "shell", "dead", "other"} /\ state # "codex"
      OBVIOUS
    <2> QED  BY <2>1, <2>2, <2>3, PaneChanges
  <1> QED  BY <1>2, <1>3, <1>4

\* The agent begins or ends a turn.
LEMMA TurnChangesStep ==
  ASSUME MaxPanes \in Nat, Inv, NEW s \in Sessions, TurnChanges(s)
  PROVE  Inv'
PROOF
  <1>1. /\ UNCHANGED <<slots, pane>> /\ UNCHANGED monitor /\ UNCHANGED reading /\ UNCHANGED op
        /\ stopped' = stopped /\ doubtful' = doubtful /\ slots' = slots
        /\ turn' = [turn EXCEPT ![s] = IF turn[s] = "idle" THEN "active" ELSE "idle"]
    BY DEF TurnChanges
  <1>2. turn' \in [Sessions -> {"idle", "active"}]
    BY <1>1 DEF Inv, Fitting
  <1>3. Fitting' /\ Keeps
    BY <1>1, <1>2, NoneReplaced DEF Inv
  <1>4. Reading' /\ Requested'
    BY <1>1, <1>3, ReadingStays, RequestedStays DEF Inv
  <1>5. stopped' \subseteq Sessions /\ doubtful' \subseteq doubtful
        /\ \A t \in doubtful' : slots'[t].armed => slots[t].armed
    BY <1>1 DEF Inv, InDoubt
  <1> QED  BY <1>1, <1>3, <1>4, <1>5, BesideOthers

\* A restart finds the slots as they were written and forgets the rest.
LEMMA ServerCrashesStep ==
  ASSUME MaxPanes \in Nat, Inv, ServerCrashes
  PROVE  Inv'
PROOF
  <1>1. /\ monitor' = NoRun /\ reading' = NoReading /\ op' = NoOp /\ doubtful' = {}
        /\ UNCHANGED <<slots, pane, turn>> /\ stopped' = stopped
    BY DEF ServerCrashes
  <1>2. Fitting'
    BY <1>1, Quiet
  <1>3. Monitoring' /\ Requested' /\ Reading'
    BY <1>1 DEF NoRun, NoOp, Monitoring, Requested, Reading, Stages
  <1>4. InDoubt'
    BY <1>1 DEF Inv, InDoubt, NoUncertainRetry
  <1> QED  BY <1>2, <1>3, <1>4 DEF Inv

--------------------------------------------------------------------------------
(* The theorem.                                                                 *)

\* The slots are empty at first.
LEMMA InitInv ==
  ASSUME MaxPanes \in Nat, Init
  PROVE  Inv
PROOF
  <1>1. NoSlot \in SlotType /\ NoPane \in PaneType /\ SlotFits(NoSlot, NoPane)
    BY DEF NoSlot, NoPane, SlotType, PaneType, SlotFits
  <1>2. /\ slots \in [Sessions -> SlotType] /\ pane \in [Sessions -> PaneType]
        /\ \A s \in Sessions : slots[s] = NoSlot /\ pane[s] = NoPane
    BY <1>1 DEF Init
  <1>3. Fitting
    BY <1>1, <1>2 DEF Fitting, Init
  <1>4. Monitoring /\ Requested /\ Reading
    BY DEF Init, NoRun, NoOp, Monitoring, Requested, Reading, Stages
  <1>5. InDoubt
    BY DEF Init, InDoubt, NoUncertainRetry
  <1> QED  BY <1>3, <1>4, <1>5 DEF Inv

\* Every step keeps the inductive invariant.
LEMMA NextInv ==
  ASSUME MaxPanes \in Nat, Inv, [Next]_vars
  PROVE  Inv'
PROOF
  <1>1. CASE MonitorStep
    BY <1>1, MonitorStepKeeps
  <1>2. CASE OperatorStep
    BY <1>2, OperatorStepKeeps
  <1>3. CASE ObserveRecords
    BY <1>3, ObserveRecordsStep
  <1>4. CASE ServerCrashes
    BY <1>4, ServerCrashesStep
  <1>5. ASSUME NEW s \in Sessions,
               \/ RetryTimePasses(s) \/ ObserveReads(s)
               \/ CreateAgent(s) \/ StopSession(s) \/ ArmAgentRecovery(s) \/ ResumeAgent(s)
               \/ AgentStarts(s) \/ TurnChanges(s) \/ AgentEnds(s) \/ ShellLost(s)
        PROVE  Inv'
    BY <1>5, RetryTimePassesStep, ObserveReadsStep, RequestStep, AgentStep, TurnChangesStep
  <1>6. CASE UNCHANGED vars
    BY <1>6 DEF vars, Inv, Fitting, Monitoring, Reading, Requested, InDoubt, NoUncertainRetry,
       Mine, Saved
  <1> QED  BY <1>1, <1>2, <1>3, <1>4, <1>5, <1>6 DEF Next

\* The inductive invariant says what the property says.
LEMMA InvIsSafe ==
  ASSUME MaxPanes \in Nat, Inv
  PROVE  RecoverySafe
PROOF
  <1>1. ASSUME NEW s \in Sessions
        PROVE  /\ slots[s].armed => slots[s].known
               /\ slots[s].rollout <= pane[s].gen
               /\ slots[s].armed /\ slots[s].root => slots[s].rollout # 0
    <2>1. SlotFits(slots[s], pane[s])
      BY Numbered DEF Inv
    <2> QED  BY <2>1 DEF SlotFits
  <1>2. TypeOK
    BY <1>1 DEF Inv, Fitting, InDoubt, TypeOK, SlotType, PaneType
  <1>3. NoUncertainRetry /\ SavedIsOwn
    BY <1>1 DEF Inv, InDoubt, SavedIsOwn
  <1> QED  BY <1>2, <1>3 DEF RecoverySafe

\* Automatic input whose outcome is unknown is never typed again before the operator acts,
\* whatever observations, requests, crashes and lost shells come between; what a slot saves
\* is a conversation its own session had (agent-recovery.js, monitorAgentRecovery).
THEOREM RecoveryIsSafe == Spec => []RecoverySafe
PROOF
  <1>1. Init => Inv
    BY InitInv, PanesAssumption
  <1>2. Inv /\ [Next]_vars => Inv'
    BY NextInv, PanesAssumption
  <1>3. Inv => RecoverySafe
    BY InvIsSafe, PanesAssumption
  <1> QED  BY <1>1, <1>2, <1>3, PTL DEF Spec

================================================================================
