----------------------------- MODULE AgentRecovery -----------------------------
(* Recovery of lost Codex agents (agent-recovery.js and server.js): the slots   *)
(* that say which conversation of a tmux session may be resumed, the monitor    *)
(* that resumes one at a time, the observations that keep the slots, and the    *)
(* operator's create, stop, resume and arm requests that run beside it.         *)
(*                                                                              *)
(* Slots are changed one mutation at a time (agentRecoveryOperationQueue) and   *)
(* written before they are replaced in memory, so a restart finds them as they  *)
(* were. The resource gate is open, the workspace stays, no Delivery Run binds  *)
(* a session; Codex processes run through scripts/run-isolated-agent.sh.        *)
EXTENDS Integers, FiniteSets

CONSTANTS
  Sessions,    \* tmux sessions of agents
  MaxPanes,    \* bound: panes a session has over time
  MaxUpsets,   \* bound: agents that crash, exit or vanish, server crashes, commands that fail
  MaxRequests, \* bound: requests of the operator
  MaxReads     \* bound: observations
ASSUME PanesAssumption == MaxPanes \in Nat
MaxSpawns == 2 \* slot.attemptCount of the last spawn that may fail and be tried again

VARIABLES
  slots,    \* agentRecoveryStore.slots
  pane,     \* the tmux pane of each session and what runs in it
  turn,     \* whether the agent works on a turn
  monitor,  \* monitorAgentRecovery's run, with the slots it read when it began
  reading,  \* telemetry read for an observation that is not recorded yet
  op,       \* the operator's request being served
  left,     \* what the bounds still allow
  stopped,  \* sessions the operator stopped and has not started again
  doubtful  \* sessions with automatic input of unknown outcome, until the operator acts
            \* or the server is lost and with it what it knew

vars == <<slots, pane, turn, monitor, reading, op, left, stopped, doubtful>>

NoSlot ==
  [known |-> FALSE, armed |-> FALSE, rollout |-> 0, root |-> FALSE, turn |-> "unknown",
   attempts |-> 0, tried |-> FALSE, epoch |-> 0]
NoPane == [state |-> "gone", gen |-> 0, rollout |-> 0, exit |-> "none"]
NoRun == [at |-> "idle", session |-> "none", slots |-> <<>>, gen |-> 0]
NoReading == [session |-> "none", rollout |-> 0, root |-> FALSE, turn |-> "unknown"]
NoOp == [kind |-> "none", at |-> "idle", session |-> "none", gen |-> 0, armed |-> FALSE]

Upset == left.upsets > 0 /\ left' = [left EXCEPT !.upsets = @ - 1]
NewGen(s) == pane[s].gen + 1

-----------------------------------------------------------------------------
(* The slots                                                                  *)

\* registerAgentRecoverySlot: what is not given stays, the attempts start anew.
Registered(s, rollout, root, state, armed) ==
  [slots EXCEPT ![s] =
    [known |-> TRUE, armed |-> armed, rollout |-> IF rollout = 0 THEN slots[s].rollout ELSE rollout,
     root |-> root, turn |-> state, attempts |-> 0, tried |-> slots[s].tried,
     epoch |-> pane[s].gen]]

\* setAgentRecoveryEnabled
Enabled(s, on) ==
  [slots EXCEPT ![s].armed = on, ![s].attempts = IF on THEN @ ELSE 0]

\* markAgentRecoveryAttempt, markAgentRecoveryResult, disarmUncertainAgentRecovery
Attempted(s) == [slots EXCEPT ![s].attempts = @ + 1, ![s].tried = TRUE]
Recovered(s) == [slots EXCEPT ![s].attempts = 0]
Disarmed(s) == [slots EXCEPT ![s].armed = FALSE, ![s].attempts = IF slots[s].armed THEN 0 ELSE @]

\* agentRecoveryCandidates, over the store the monitor holds.
Candidate(store, s) ==
  /\ store[s].armed /\ store[s].rollout # 0 /\ store[s].root
  /\ pane[s].state # "codex" /\ ~store[s].tried

\* AGENT_RECOVERY_RETRY_MS goes by.
RetryTimePasses(s) ==
  /\ slots[s].tried
  /\ slots' = [slots EXCEPT ![s].tried = FALSE]
  /\ UNCHANGED <<pane, turn, monitor, reading, op, left, stopped, doubtful>>

-----------------------------------------------------------------------------
(* The monitor                                                                *)

Goto(at) == monitor' = [monitor EXCEPT !.at = at]
Done == monitor' = NoRun
Mine == monitor.session
Saved == monitor.slots[Mine]

MonitorStarts ==
  /\ monitor.at = "idle"
  /\ \E s \in Sessions : slots[s].armed /\ slots[s].rollout # 0
  /\ monitor' = [at |-> "list", session |-> "none", slots |-> slots, gen |-> 0]
  /\ UNCHANGED <<slots, pane, turn, reading, op, left, stopped, doubtful>>

MonitorSelects ==
  /\ monitor.at = "list"
  /\ LET candidates == {s \in Sessions : Candidate(monitor.slots, s)}
     IN \/ candidates = {} /\ Done
        \/ \E s \in candidates :
             monitor' = [monitor EXCEPT !.session = s,
               !.at = IF monitor.slots[s].turn = "idle" THEN "find" ELSE "disarm"]
  /\ UNCHANGED <<slots, pane, turn, reading, op, left, stopped, doubtful>>

\* mutant: a pane that cannot be used is looked at again later.
MonitorFindsPatiently ==
  /\ monitor.at = "find"
  /\ LET p == pane[Mine]
     IN IF p.state = "gone" THEN Goto("absent")
        ELSE IF p.gen > Saved.epoch \/ p.state \in {"codex", "dead"} \/ p.exit = "running" THEN Done
        ELSE IF p.exit = "exited" THEN Goto("disable")
        ELSE IF p.state # "shell" THEN Goto("disarm")
        ELSE monitor' = [monitor EXCEPT !.at = "claim", !.gen = p.gen]
  /\ UNCHANGED <<slots, pane, turn, reading, op, left, stopped, doubtful>>

\* Whether a pane is the one the slot was observed in, its shell free, its agent lost.
MonitorFinds ==
  /\ monitor.at = "find"
  /\ LET p == pane[Mine]
     IN IF p.state = "gone" THEN Goto("absent")
        ELSE IF p.gen > Saved.epoch \/ p.state = "dead" THEN Goto("disarm")
        ELSE IF p.state = "codex" \/ p.exit = "running" THEN Done
        ELSE IF p.exit = "exited" THEN Goto("disable")
        ELSE IF p.state # "shell" THEN Goto("disarm")
        ELSE monitor' = [monitor EXCEPT !.at = "claim", !.gen = p.gen]
  /\ UNCHANGED <<slots, pane, turn, reading, op, left, stopped, doubtful>>

\* tmux has-session before a session is made again.
MonitorLooksAgain ==
  /\ monitor.at = "absent"
  /\ Goto(IF pane[Mine].state = "gone" THEN "claim" ELSE "disarm")
  /\ UNCHANGED <<slots, pane, turn, reading, op, left, stopped, doubtful>>

MonitorDisarms ==
  /\ monitor.at \in {"disarm", "disable"}
  /\ slots' = IF monitor.at = "disarm" THEN Disarmed(Mine) ELSE Enabled(Mine, FALSE)
  /\ Done
  /\ UNCHANGED <<pane, turn, reading, op, left, stopped, doubtful>>

MonitorClaims ==
  /\ monitor.at = "claim"
  /\ slots' = Attempted(Mine)
  /\ Goto(IF monitor.gen = 0 THEN "spawn" ELSE "type")
  /\ UNCHANGED <<pane, turn, reading, op, left, stopped, doubtful>>

Launched(s, gen, rollout) ==
  [pane EXCEPT ![s] = [state |-> "starting", gen |-> gen, rollout |-> rollout, exit |-> "running"]]

\* In the pane's input lane the pane is looked at again, then the command is typed.
MonitorTypes ==
  /\ monitor.at = "type"
  /\ LET p == pane[Mine]
     IN IF p.gen # monitor.gen \/ p.state \notin {"shell", "codex"}
        THEN Goto("disarm") /\ UNCHANGED <<pane, left, doubtful>>
        ELSE \/ /\ p.state = "codex"
                /\ Goto("recovered") /\ UNCHANGED <<pane, left, doubtful>>
             \/ /\ p.state = "shell"
                /\ pane' = Launched(Mine, p.gen, Saved.rollout)
                /\ Goto("verify") /\ UNCHANGED <<left, doubtful>>
             \/ /\ p.state = "shell" /\ Upset
                /\ pane' \in {pane, Launched(Mine, p.gen, Saved.rollout)}
                /\ doubtful' = doubtful \cup {Mine}
                /\ Goto("disarm")
  /\ UNCHANGED <<slots, turn, reading, op, stopped>>

MonitorSpawns ==
  /\ monitor.at = "spawn"
  /\ IF pane[Mine].state # "gone"
     THEN Goto("disarm") /\ UNCHANGED <<pane, left>>
     ELSE \/ /\ NewGen(Mine) <= MaxPanes
             /\ pane' = Launched(Mine, NewGen(Mine), Saved.rollout)
             /\ Goto("verify") /\ UNCHANGED left
          \/ /\ Upset
             /\ IF Saved.attempts >= MaxSpawns THEN Goto("disarm") ELSE Done
             /\ UNCHANGED pane
  /\ UNCHANGED <<slots, turn, reading, op, stopped, doubtful>>

\* waitForPromptableCodexPane: the agent is there, or the time is over.
MonitorVerifies ==
  /\ monitor.at = "verify" /\ pane[Mine].state # "starting"
  /\ IF pane[Mine].state = "codex"
     THEN Goto("recovered") /\ UNCHANGED doubtful
     ELSE Goto("disarm") /\ doubtful' = doubtful \cup {Mine}
  /\ UNCHANGED <<slots, pane, turn, reading, op, left, stopped>>

MonitorRecords ==
  /\ monitor.at = "recovered"
  /\ slots' = Recovered(Mine)
  /\ Done
  /\ UNCHANGED <<pane, turn, reading, op, left, stopped, doubtful>>

-----------------------------------------------------------------------------
(* Observations                                                               *)

\* Telemetry of a live agent; a parented rollout is not root-interactive.
ObserveReads(s) ==
  /\ reading = NoReading /\ left.reads > 0
  /\ pane[s].state = "codex"
  /\ \E root \in BOOLEAN :
       reading' = [session |-> s, rollout |-> pane[s].rollout, root |-> root, turn |-> turn[s]]
  /\ left' = [left EXCEPT !.reads = @ - 1]
  /\ UNCHANGED <<slots, pane, turn, monitor, op, stopped, doubtful>>

\* mutant: what is observed alive is armed, as a new slot is.
ObservedArmed(r) ==
  IF r.root THEN Registered(r.session, r.rollout, TRUE, r.turn, TRUE)
  ELSE IF slots[r.session].known
       THEN Registered(r.session, 0, FALSE, r.turn, FALSE) ELSE slots

\* recordAgentRecoveryObservation
Observed(r) ==
  IF ~r.root
  THEN IF slots[r.session].known
       THEN Registered(r.session, 0, FALSE, r.turn, FALSE) ELSE slots
  ELSE Registered(r.session, r.rollout, TRUE, r.turn,
                  IF slots[r.session].known THEN slots[r.session].armed ELSE TRUE)

ObserveRecords ==
  /\ reading # NoReading
  /\ slots' = Observed(reading)
  /\ reading' = NoReading
  /\ UNCHANGED <<pane, turn, monitor, op, left, stopped, doubtful>>

-----------------------------------------------------------------------------
(* The operator's requests, one in flight                                     *)

Request(kind, at, s) ==
  /\ op = NoOp /\ left.requests > 0
  /\ op' = [kind |-> kind, at |-> at, session |-> s, gen |-> pane[s].gen, armed |-> FALSE]
  /\ left' = [left EXCEPT !.requests = @ - 1]

\* createAgent: has-session, then new-session with a conversation of its own.
CreateAgent(s) ==
  /\ pane[s].state = "gone"
  /\ Request("create", "launch", s)
  /\ UNCHANGED <<slots, pane, turn, monitor, reading, stopped, doubtful>>

CreateLaunches ==
  /\ op.at = "launch"
  /\ LET s == op.session
     IN IF pane[s].state # "gone" \/ NewGen(s) > MaxPanes
        THEN op' = NoOp /\ UNCHANGED <<pane, stopped, doubtful>>
        ELSE /\ pane' = Launched(s, NewGen(s), NewGen(s))
             /\ op' = [op EXCEPT !.at = "register"]
             /\ stopped' = stopped \ {s} /\ UNCHANGED doubtful
  /\ UNCHANGED <<slots, turn, monitor, reading, left>>

CreateRegisters ==
  /\ op.at = "register"
  /\ \E auto \in BOOLEAN : slots' = Registered(op.session, 0, FALSE, "unknown", auto)
  /\ doubtful' = doubtful \ {op.session}
  /\ op' = NoOp
  /\ UNCHANGED <<pane, turn, monitor, reading, left, stopped>>

\* stopSession: disarmed, killed, and armed again when the kill fails.
StopSession(s) ==
  /\ pane[s].state # "gone"
  /\ Request("stop", "read", s)
  /\ UNCHANGED <<slots, pane, turn, monitor, reading, stopped, doubtful>>

StopDisarms ==
  /\ op.at = "read"
  /\ slots' = IF slots[op.session].armed THEN Enabled(op.session, FALSE) ELSE slots
  /\ op' = [op EXCEPT !.at = "kill", !.armed = slots[op.session].armed]
  /\ UNCHANGED <<pane, turn, monitor, reading, left, stopped, doubtful>>

StopKills ==
  /\ op.at = "kill"
  /\ \/ /\ pane' = [pane EXCEPT ![op.session].state = "gone"]
        /\ stopped' = stopped \cup {op.session}
        /\ op' = NoOp /\ UNCHANGED left
     \/ /\ Upset
        /\ op' = IF op.armed THEN [op EXCEPT !.at = "rearm"] ELSE NoOp
        /\ UNCHANGED <<pane, stopped>>
  /\ UNCHANGED <<slots, turn, monitor, reading, doubtful>>

\* setStoredAgentRecoveryEnabled on the operator's behalf.
OperatorArms ==
  /\ op.at = "rearm"
  /\ slots' = Enabled(op.session, TRUE)
  /\ doubtful' = doubtful \ {op.session}
  /\ op' = NoOp
  /\ UNCHANGED <<pane, turn, monitor, reading, left, stopped>>

SavedChat(s) == slots[s].rollout # 0 /\ slots[s].root /\ slots[s].turn = "idle"

\* armAgentRecovery checks everything and then writes.
ArmAgentRecovery(s) ==
  /\ pane[s].state = "codex" /\ SavedChat(s)
  /\ Request("arm", "rearm", s)
  /\ UNCHANGED <<slots, pane, turn, monitor, reading, stopped, doubtful>>

\* resumeAgent: checked, and the pane looked at once more in its input lane.
ResumeAgent(s) ==
  /\ pane[s].state = "shell" /\ SavedChat(s)
  /\ Request("resume", "type", s)
  /\ UNCHANGED <<slots, pane, turn, monitor, reading, stopped, doubtful>>

ResumeTypes ==
  /\ op.at = "type"
  /\ LET s == op.session
     IN IF pane[s].gen # op.gen \/ pane[s].state # "shell"
        THEN op' = NoOp /\ UNCHANGED <<pane, left>>
        ELSE \/ /\ pane' = Launched(s, op.gen, slots[s].rollout)
                /\ op' = [op EXCEPT !.at = "verify"] /\ UNCHANGED left
             \/ /\ Upset
                /\ pane' \in {pane, Launched(s, op.gen, slots[s].rollout)}
                /\ op' = [op EXCEPT !.at = "failed"]
  /\ UNCHANGED <<slots, turn, monitor, reading, stopped, doubtful>>

ResumeVerifies ==
  /\ op.at = "verify" /\ pane[op.session].state # "starting"
  /\ op' = [op EXCEPT !.at = IF pane[op.session].state = "codex" THEN "rearm" ELSE "failed"]
  /\ UNCHANGED <<slots, pane, turn, monitor, reading, left, stopped, doubtful>>

ResumeFails ==
  /\ op.at = "failed"
  /\ slots' = Disarmed(op.session)
  /\ op' = NoOp
  /\ UNCHANGED <<pane, turn, monitor, reading, left, stopped, doubtful>>

-----------------------------------------------------------------------------
(* The agents and the server                                                  *)

\* run-isolated-agent.sh starts Codex, or it fails at once.
AgentStarts(s) ==
  /\ pane[s].state = "starting"
  /\ \/ pane' = [pane EXCEPT ![s].state = "codex"] /\ UNCHANGED left
     \/ Upset /\ pane' = [pane EXCEPT ![s].state = "shell", ![s].exit = "crashed"]
  /\ turn' = [turn EXCEPT ![s] = "idle"]
  /\ UNCHANGED <<slots, monitor, reading, op, stopped, doubtful>>

TurnChanges(s) ==
  /\ pane[s].state = "codex" /\ left.turns > 0
  /\ turn' = [turn EXCEPT ![s] = IF @ = "idle" THEN "active" ELSE "idle"]
  /\ left' = [left EXCEPT !.turns = @ - 1]
  /\ UNCHANGED <<slots, pane, monitor, reading, op, stopped, doubtful>>

\* The launcher writes how Codex ended; the shell stays, or the session vanishes.
AgentEnds(s) ==
  /\ pane[s].state = "codex" /\ Upset
  /\ \E how \in {"exited", "crashed"}, state \in {"shell", "gone"} :
       pane' = [pane EXCEPT ![s].state = state, ![s].exit = how]
  /\ UNCHANGED <<slots, turn, monitor, reading, op, stopped, doubtful>>

ShellLost(s) ==
  /\ pane[s].state = "shell" /\ Upset
  /\ \E state \in {"gone", "dead", "other"} : pane' = [pane EXCEPT ![s].state = state]
  /\ UNCHANGED <<slots, turn, monitor, reading, op, stopped, doubtful>>

ServerCrashes ==
  /\ Upset
  /\ monitor' = NoRun /\ reading' = NoReading /\ op' = NoOp /\ doubtful' = {}
  /\ UNCHANGED <<slots, pane, turn, stopped>>

-----------------------------------------------------------------------------
Init ==
  /\ slots = [s \in Sessions |-> NoSlot]
  /\ pane = [s \in Sessions |-> NoPane]
  /\ turn = [s \in Sessions |-> "idle"]
  /\ monitor = NoRun /\ reading = NoReading /\ op = NoOp
  /\ left = [upsets |-> MaxUpsets, requests |-> MaxRequests, reads |-> MaxReads, turns |-> 1]
  /\ stopped = {} /\ doubtful = {}

MonitorStep ==
  \/ MonitorStarts \/ MonitorSelects \/ MonitorFinds \/ MonitorLooksAgain
  \/ MonitorDisarms \/ MonitorClaims \/ MonitorTypes \/ MonitorSpawns
  \/ MonitorVerifies \/ MonitorRecords

OperatorStep ==
  \/ CreateLaunches \/ CreateRegisters \/ StopDisarms \/ StopKills \/ OperatorArms
  \/ ResumeTypes \/ ResumeVerifies \/ ResumeFails

Next ==
  \/ MonitorStep \/ OperatorStep \/ ObserveRecords \/ ServerCrashes
  \/ \E s \in Sessions :
       \/ RetryTimePasses(s) \/ ObserveReads(s)
       \/ CreateAgent(s) \/ StopSession(s) \/ ArmAgentRecovery(s) \/ ResumeAgent(s)
       \/ AgentStarts(s) \/ TurnChanges(s) \/ AgentEnds(s) \/ ShellLost(s)

\* The monitor runs on a timer and each of its steps ends; so do requests, the
\* start of an agent and the retry interval.
Fairness ==
  /\ WF_vars(MonitorStep) /\ WF_vars(OperatorStep) /\ WF_vars(ObserveRecords)
  /\ \A s \in Sessions : WF_vars(RetryTimePasses(s)) /\ WF_vars(AgentStarts(s))

Spec == Init /\ [][Next]_vars /\ Fairness

-----------------------------------------------------------------------------
TypeOK ==
  /\ slots \in [Sessions -> [known: BOOLEAN, armed: BOOLEAN, rollout: 0..MaxPanes,
       root: BOOLEAN, turn: {"unknown", "idle", "active"}, attempts: Nat, tried: BOOLEAN,
       epoch: 0..MaxPanes]]
  /\ pane \in [Sessions -> [state: {"gone", "starting", "codex", "shell", "dead", "other"},
       gen: 0..MaxPanes, rollout: 0..MaxPanes, exit: {"none", "running", "exited", "crashed"}]]
  /\ \A s \in Sessions : slots[s].armed => slots[s].known
  /\ stopped \subseteq Sessions /\ doubtful \subseteq Sessions

\* Automatic input whose outcome is unknown leaves the slot disarmed, whatever
\* observations and requests came between, so that it is not typed again (docs:
\* "auto_recover=false; no_retry=true").
NoUncertainRetry ==
  \A s \in doubtful : slots[s].armed => monitor.session = s /\ monitor.at = "disarm"

\* What the slot saves is a conversation its own session had, and what the monitor
\* launches is the conversation it saved.
SavedIsOwn ==
  \A s \in Sessions :
    /\ slots[s].rollout <= pane[s].gen
    /\ slots[s].armed /\ slots[s].root => slots[s].rollout # 0

RecoverySafe == TypeOK /\ NoUncertainRetry /\ SavedIsOwn

\* An armed slot of a lost root conversation does not stay so: its agent is there
\* again, or the slot is disarmed, or its lineage is in doubt.
Lost(s) ==
  /\ slots[s].armed /\ slots[s].rollout # 0 /\ slots[s].root
  /\ pane[s].state # "codex" /\ NewGen(s) <= MaxPanes
LostIsSettled == \A s \in Sessions : Lost(s) ~> ~Lost(s)

\* docs/safety-model.md: "Stop session disables recovery before the exact session is
\* killed": a session the operator stopped stays stopped until the operator acts.
StopStays == \A s \in stopped : pane[s].state = "gone"
================================================================================
