------------------------------ MODULE AccessRules ------------------------------
(* Optional EC2 access controls (server.js): the inbound rules PaneFleet adds   *)
(* to a security group for exact addresses, their cleanup after a preview, and  *)
(* the closing of a broad rescue rule that an earlier version opened. Security  *)
(* operations run one at a time (enqueueSshSecurityOperation); the group can be *)
(* edited elsewhere at any moment, and each call of the AWS CLI can fail with   *)
(* or without effect. Every rule is for one port. Requesters have a public      *)
(* address: the others are refused before anything is read.                     *)
EXTENDS Naturals, FiniteSets

CONSTANTS
  Cidrs,       \* public addresses, each an exact /32
  RescuePorts, \* sshRescuePorts: SSH and the dashboard
  Ssh,         \* port 22
  Dashboard,   \* PORT
  Found,       \* the rules of the group at first
  BaselinePeers, \* baselinePeerCidrs of the rescue that is open
  MaxMoves,    \* bound: SSH connections that come or go
  MaxAsks,     \* bound: requests of operators
  MaxEdits,    \* bound: edits of the group elsewhere
  MaxFaults    \* bound: failed commands and server crashes

VARIABLES
  group,   \* the rules of the security group: [id, owner, cidr, port]
  peers,   \* addresses with an established SSH connection
  rescue,  \* sshRescueState, in memory and on disk
  op,      \* the operation at the head of the queue
  monitor, \* monitorSshRescue's run
  preview, \* the cleanup plan an operator looks at
  left     \* what the bounds still allow

vars == <<group, peers, rescue, op, monitor, preview, left>>

\* An exact address is not everyone, and the rules that open the host to a rescue are
\* open to everyone: ownedRescueRules asks for it beside the description.
Everyone == "0.0.0.0/0"
ASSUME Addressing ==
  /\ Everyone \notin Cidrs \cup BaselinePeers
  /\ \A r \in Found : r.owner = "rescue" => r.cidr = Everyone

\* Owners of a rule: "rescue" and "managed" have PaneFleet's exact description,
\* "lookalike" resembles it, "static" is anyone's.
NoPlan == [requester |-> "none", keep |-> {}, candidates |-> {}]
Idle == [kind |-> "none", at |-> "idle", cidrs |-> {}, ports |-> {}, todo |-> {}, failed |-> FALSE,
         seen |-> {}, token |-> NoPlan, doomed |-> {},
         steady |-> {}, disturbed |-> FALSE] \* history: see the properties
NotRunning == [at |-> "idle", job |-> "none", cidrs |-> {}]

Spend(what) == left[what] > 0 /\ left' = [left EXCEPT ![what] = @ - 1]

-----------------------------------------------------------------------------
(* Rules and plans                                                            *)

OwnedRescueRules(rules) == {r \in rules : r.owner = "rescue" /\ r.port \in RescuePorts}
OwnedLockRules(rules) == {r \in rules : r.owner = "managed"}
StaleOwnedLockRules(rules, keep) == {r \in OwnedLockRules(rules) : r.cidr \notin keep}

StaticCidrs(rules, port) == {r.cidr : r \in {q \in rules : q.owner = "static" /\ q.port = port}}
HomeMirrorCidrs(rules) ==
  IF StaticCidrs(rules, Dashboard) # {} THEN StaticCidrs(rules, Dashboard)
                                        ELSE StaticCidrs(rules, Ssh)
MirroredHomePorts(rules) ==
  RescuePorts \union {r.port : r \in {q \in rules : q.cidr \in HomeMirrorCidrs(rules)}}

Missing(rules, cidrs, ports) ==
  {cp \in cidrs \X ports : ~\E r \in rules : r.cidr = cp[1] /\ r.port = cp[2]}

\* The token of a plan is a digest of all of it, with the ids of the rules.
ManagedCleanupPlan(requester, seen, rules) ==
  LET keep == {requester} \union seen
  IN  [requester |-> requester, keep |-> keep,
       candidates |-> OwnedRescueRules(rules) \union StaleOwnedLockRules(rules, keep)]

\* currentSshPeerCidrs: no peers when the command fails.
Sees(seen) ==
  \/ seen = peers /\ UNCHANGED left
  \/ seen = {} /\ peers # {} /\ Spend("faults")
Watched(seen) == IF seen = peers THEN op.steady ELSE {}

\* Ids are not used again while anyone remembers them.
FreshId ==
  LET used == {r.id : r \in group \union preview.candidates \union op.token.candidates
                                  \union op.doomed}
  IN  CHOOSE i \in 1..(Cardinality(used) + 1) : i \notin used

-----------------------------------------------------------------------------
(* Steps that operations share                                                *)

\* mutant: a monitor that is not reset when its operation throws
FinishOnly == op' = Idle /\ UNCHANGED monitor
Finish ==
  /\ op' = Idle
  /\ monitor' = IF monitor.at = "runs" THEN NotRunning ELSE monitor
Goes(next) == op' = next /\ UNCHANGED monitor

Start(kind, at, cidrs) ==
  op' = [Idle EXCEPT !.kind = kind, !.at = at, !.cidrs = cidrs, !.steady = peers]

\* The first reading of the rules says which ports an address is given.
ReadPorts ==
  /\ op.at = "ports"
  /\ LET ports == MirroredHomePorts(group)
     IN  Goes([op EXCEPT !.ports = ports, !.todo = op.cidrs \X ports, !.at = "authorize"])
  /\ UNCHANGED <<group, peers, rescue, preview, left>>

\* A rule for the same address and port is a duplicate, whoever owns it.
AuthorizePortCidr(cp, works, answered) ==
  /\ op.at = "authorize" /\ cp \in op.todo
  /\ IF works /\ answered THEN UNCHANGED left ELSE Spend("faults")
  /\ group' = IF works /\ Missing(group, {cp[1]}, {cp[2]}) # {}
              THEN group \union {[id |-> FreshId, owner |-> "managed", cidr |-> cp[1], port |-> cp[2]]}
              ELSE group
  /\ Goes([op EXCEPT !.todo = @ \ {cp}, !.failed = @ \/ ~(works /\ answered)])
  /\ UNCHANGED <<peers, rescue, preview>>

AuthorizePorts ==
  /\ op.at = "authorize" /\ op.todo = {}
  /\ Goes([op EXCEPT !.at = IF op.kind = "lock" THEN "peers" ELSE "verify"])
  /\ UNCHANGED <<group, peers, rescue, preview, left>>

Revokes(rules) ==
  [op EXCEPT !.doomed = rules, !.at = "revoke", !.disturbed = FALSE]

\* One call for all the rules: an id that is gone fails it as a whole.
RevokeRuleIds(works, answered) ==
  LET ok == op.doomed = {} \/ (works /\ answered /\ op.doomed \subseteq group)
  IN  /\ op.at = "revoke"
      /\ IF works /\ answered THEN UNCHANGED left ELSE Spend("faults")
      /\ group' = IF works /\ op.doomed \subseteq group THEN group \ op.doomed ELSE group
      /\ Goes([op EXCEPT !.at = "close", !.failed = ~ok])
      /\ UNCHANGED <<peers, rescue, preview>>

\* A reading of AWS or of the instance's metadata that throws ends the operation.
ReadFails ==
  /\ op.at \in {"ports", "verify", "plan", "rescue"} \/ (op.kind = "cleanup" /\ op.at = "close")
  /\ Spend("faults") /\ Finish
  /\ UNCHANGED <<group, peers, rescue, preview>>

-----------------------------------------------------------------------------
(* openSshRescue, authorizeExactAccessCidr                                    *)

AskExact(c) ==
  /\ op.at = "idle" /\ Spend("asks")
  /\ Start("exact", "ports", {c})
  /\ UNCHANGED <<group, peers, rescue, monitor, preview>>

\* What is missing is reported; only an answer and the recorded addresses depend on it.
ExactVerifies ==
  /\ op.kind = "exact" /\ op.at = "verify"
  /\ Finish
  /\ UNCHANGED <<group, peers, rescue, preview, left>>

-----------------------------------------------------------------------------
(* lockSshRescue, lockSshRescueToCidrs                                        *)

AskLock(requester, seen) ==
  LET targets == (seen \union {requester}) \ BaselinePeers
  IN  /\ op.at = "idle" /\ Spend("asks")
      /\ rescue.active /\ targets # {} /\ seen = peers
      /\ Start("lock", "ports", targets)
      /\ UNCHANGED <<group, peers, rescue, monitor, preview>>

LockSeesPeers(seen) ==
  /\ op.kind = "lock" /\ op.at = "peers" /\ Sees(seen)
  /\ Goes([op EXCEPT !.seen = op.cidrs \union seen, !.steady = Watched(seen), !.at = "verify"])
  /\ UNCHANGED <<group, peers, rescue, preview>>

\* mutant: the answers of AWS taken for coverage, the rules not looked at
LockTrusts ==
  /\ op.kind = "lock" /\ op.at = "verify"
  /\ IF op.failed THEN Finish
     ELSE Goes(Revokes(OwnedRescueRules(group) \union StaleOwnedLockRules(group, op.seen)))
  /\ UNCHANGED <<group, peers, rescue, preview, left>>
LockVerifies ==
  /\ op.kind = "lock" /\ op.at = "verify"
  /\ IF op.failed \/ Missing(group, op.cidrs, op.ports) # {} THEN Finish
     ELSE Goes(Revokes(OwnedRescueRules(group) \union StaleOwnedLockRules(group, op.seen)))
  /\ UNCHANGED <<group, peers, rescue, preview, left>>

\* The rescue counts as closed when its rules were revoked, and stays open for
\* another attempt when that failed; so at its expiry.
LockCloses ==
  /\ op.kind \in {"lock", "expire"} /\ op.at = "close"
  /\ rescue' = [rescue EXCEPT !.active = op.failed]
  /\ Finish
  /\ UNCHANGED <<group, peers, preview, left>>

-----------------------------------------------------------------------------
(* sshRescuePlan, cleanupSshRescueRules                                       *)

\* Beside the queue.
Preview(requester, seen) ==
  /\ Sees(seen)
  /\ preview' = ManagedCleanupPlan(requester, seen, group)
  /\ preview' # preview
  /\ UNCHANGED <<group, peers, rescue, op, monitor>>

AskCleanup(requester, seen) ==
  /\ op.at = "idle" /\ preview # NoPlan /\ Spend("asks") /\ seen = peers
  /\ op' = [Idle EXCEPT !.kind = "cleanup", !.at = "plan", !.cidrs = {requester}, !.seen = seen,
                        !.token = preview, !.steady = peers]
  /\ UNCHANGED <<group, peers, rescue, monitor, preview>>

CleanupPlan == ManagedCleanupPlan(CHOOSE c \in op.cidrs : TRUE, op.seen, group)

\* Broad rules are revoked only after the requester has rules of its own.
CleanupPlans ==
  LET broad == {r.port : r \in OwnedRescueRules(CleanupPlan.candidates)}
  IN  /\ op.kind = "cleanup" /\ op.at = "plan"
      /\ IF CleanupPlan # op.token THEN Finish
         ELSE IF broad = {} THEN Goes(Revokes(CleanupPlan.candidates))
         ELSE Goes([op EXCEPT !.ports = broad, !.todo = op.cidrs \X broad, !.at = "authorize"])
      /\ UNCHANGED <<group, peers, rescue, preview, left>>

CleanupVerifies ==
  /\ op.kind = "cleanup" /\ op.at = "verify"
  /\ IF op.failed \/ Missing(group, op.cidrs, op.ports) # {} \/ CleanupPlan # op.token
     THEN Finish ELSE Goes(Revokes(CleanupPlan.candidates))
  /\ UNCHANGED <<group, peers, rescue, preview, left>>

CleanupCloses ==
  /\ op.kind = "cleanup" /\ op.at = "close"
  /\ rescue' = IF op.failed \/ op.doomed \intersect group # {} THEN rescue
               ELSE [active |-> OwnedRescueRules(group) # {},
                     due |-> rescue.due /\ OwnedRescueRules(group) # {}]
  /\ Finish
  /\ UNCHANGED <<group, peers, preview, left>>

-----------------------------------------------------------------------------
(* monitorSshRescue, expireSshRescue                                          *)

\* The peers are read before the operation is queued.
MonitorRuns ==
  /\ monitor.at = "idle" /\ rescue.active
  /\ rescue.due \/ peers \ BaselinePeers # {}
  /\ monitor' = IF rescue.due THEN [at |-> "queued", job |-> "expire", cidrs |-> {}]
                ELSE [at |-> "queued", job |-> "lock", cidrs |-> peers \ BaselinePeers]
  /\ UNCHANGED <<group, peers, rescue, op, preview, left>>

MonitorsTurn ==
  /\ monitor.at = "queued" /\ op.at = "idle"
  /\ IF ~rescue.active THEN monitor' = NotRunning /\ UNCHANGED op
     ELSE /\ monitor' = [monitor EXCEPT !.at = "runs"]
          /\ Start(monitor.job, IF monitor.job = "expire" THEN "rescue" ELSE "ports", monitor.cidrs)
  /\ UNCHANGED <<group, peers, rescue, preview, left>>

ExpireSshRescue ==
  /\ op.kind = "expire" /\ op.at = "rescue"
  /\ Goes(Revokes(OwnedRescueRules(group)))
  /\ UNCHANGED <<group, peers, rescue, preview, left>>

-----------------------------------------------------------------------------
(* Around the server                                                          *)

TimePasses ==
  /\ rescue.active /\ ~rescue.due /\ rescue' = [rescue EXCEPT !.due = TRUE]
  /\ UNCHANGED <<group, peers, op, monitor, preview, left>>

Moves(c) ==
  /\ Spend("moves")
  /\ peers' = IF c \in peers THEN peers \ {c} ELSE peers \union {c}
  /\ op' = [op EXCEPT !.steady = @ \ {c}]
  /\ UNCHANGED <<group, rescue, monitor, preview>>

AddedElsewhere(c, p) ==
  /\ Spend("edits") /\ Missing(group, {c}, {p}) # {}
  /\ group' = group \union {[id |-> FreshId, owner |-> "static", cidr |-> c, port |-> p]}
  /\ UNCHANGED <<peers, rescue, op, monitor, preview>>

RemovedElsewhere(r) ==
  /\ Spend("edits") /\ group' = group \ {r}
  /\ op' = [op EXCEPT !.disturbed = TRUE]
  /\ UNCHANGED <<peers, rescue, monitor, preview>>

\* The state is read back as it was written.
Restart ==
  /\ Spend("faults") /\ op' = Idle /\ monitor' = NotRunning
  /\ UNCHANGED <<group, peers, rescue, preview>>

-----------------------------------------------------------------------------

Init ==
  /\ group = Found /\ peers = BaselinePeers
  /\ rescue = [active |-> TRUE, due |-> FALSE]
  /\ op = Idle /\ monitor = NotRunning /\ preview = NoPlan
  /\ left = [moves |-> MaxMoves, asks |-> MaxAsks, edits |-> MaxEdits, faults |-> MaxFaults]

Asks == \E c \in Cidrs : AskExact(c) \/ AskLock(c, peers) \/ AskCleanup(c, peers)
Looks == \E c \in Cidrs, seen \in {peers, {}} : left.asks > 0 /\ Preview(c, seen)

Authorizes ==
  \/ \E cp \in op.todo, works, answered \in BOOLEAN : AuthorizePortCidr(cp, works, answered)
  \/ AuthorizePorts
Calls ==
  \/ Authorizes
  \/ \E works, answered \in BOOLEAN : RevokeRuleIds(works, answered)
  \/ ReadFails
Operation ==
  \/ ReadPorts \/ Calls
  \/ ExactVerifies
  \/ \E seen \in {peers, {}} : LockSeesPeers(seen)
  \/ LockVerifies \/ LockCloses
  \/ CleanupPlans \/ CleanupVerifies \/ CleanupCloses
  \/ ExpireSshRescue

Monitor == MonitorRuns \/ MonitorsTurn
Around ==
  \/ \E c \in Cidrs : Moves(c)
  \/ \E c \in Cidrs, p \in RescuePorts : AddedElsewhere(c, p)
  \/ \E r \in group : RemovedElsewhere(r)
  \/ Restart

Next == Asks \/ Looks \/ Operation \/ Monitor \/ TimePasses \/ Around

\* Commands return or time out, the monitor has a timer, and time passes.
Spec ==
  /\ Init /\ [][Next]_vars
  /\ WF_vars(Operation) /\ WF_vars(Monitor) /\ WF_vars(TimePasses)

-----------------------------------------------------------------------------

Revoking == op.at = "revoke" /\ op'.at = "close"
Revoked == group \ group'

\* Nobody is locked out by PaneFleet: when a cleanup or a lock takes a broad rescue
\* rule away, the addresses it works for have exact rules on every port it covered,
\* unless someone took one away after they were verified (server.js:9197-9233,
\* 9365-9391).
CoveredBeforeRevoked ==
  Revoking /\ op.kind # "expire" /\ ~op.disturbed
    => Missing(group', op.cidrs, {r.port : r \in OwnedRescueRules(Revoked)}) = {}

\* Rules in PaneFleet's exact format only, and none of an address that was connected
\* by SSH from the first step of the operation to the revocation and that `ss` showed
\* (docs/safety-model.md:209).
OwnedAndUnused ==
  Revoking
    => /\ \A r \in Revoked : r.owner \in {"rescue", "managed"}
       /\ \A r \in Revoked : r.cidr \notin op.steady \union op.cidrs
       /\ op.kind = "expire" => \A r \in Revoked : r.owner = "rescue"

\* A cleanup revokes what the operator saw in the preview, all of it and nothing that
\* came later, or nothing at all.
AsPreviewed ==
  Revoking /\ op.kind = "cleanup" => Revoked \in {{}, op.token.candidates}

\* A rescue that is reported as locked has no broad rule left (sshRescueSummary).
LockedIsClosed == ~rescue.active => OwnedRescueRules(group) = {}

\* What a step revokes, and what is reported of it.
AccessStep == CoveredBeforeRevoked /\ OwnedAndUnused /\ AsPreviewed
AccessSafe == [][AccessStep]_vars /\ []LockedIsClosed

\* An expired rescue is closed in the end, whatever failed before.
RescueCloses == <>[](~rescue.active)
=============================================================================
