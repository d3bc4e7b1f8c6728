----------------------------- MODULE AccessProofs ------------------------------
(* Theorems about who gets in: the optional EC2 access controls, for any        *)
(* addresses, rules and ports, over any number of edits, faults, requests and   *)
(* connections; and the device sessions, for any clients and limits, over any   *)
(* number of sign-ins, revocations, failing writes and restarts.                *)
EXTENDS AccessRules, FiniteSets, FiniteSetTheorems, WellFoundedInduction, TLAPS

CONSTANTS
  Clients, MaxSessions, MaxAttempts, Lifetime, Window, Block, MaxTime, MaxTokens
VARIABLES
  store, file, failures, login, now, created, rest, given, asked, revoked, tried

\* rest is what the bounds of the device sessions still allow.
Devices == INSTANCE DeviceSessions WITH left <- rest

Addresses == Cidrs \cup BaselinePeers

--------------------------------------------------------------------------------
(* The inductive invariant.                                                     *)

\* The ports that broad rescue rules cover.
Broad(rules) == {r.port : r \in OwnedRescueRules(rules)}

\* An address has a rule of its own on a port, one that will not be revoked.
Covers(rules, c, p) == \E r \in rules : r.cidr = c /\ r.port = p
Covered(rules, cidrs, ports) == \A c \in cidrs, p \in ports : Covers(rules, c, p)

RulesFit == \A r \in group : r.owner = "rescue" => r.cidr = Everyone

\* The stages an operation of each kind goes through.
Stages(kind) ==
  CASE kind = "none" -> {"idle"}
    [] kind = "exact" -> {"ports", "authorize", "verify"}
    [] kind = "lock" -> {"ports", "authorize", "peers", "verify", "revoke", "close"}
    [] kind = "cleanup" -> {"plan", "authorize", "verify", "revoke", "close"}
    [] kind = "expire" -> {"rescue", "revoke", "close"}
OpFits ==
  /\ op = [kind |-> op.kind, at |-> op.at, cidrs |-> op.cidrs, ports |-> op.ports,
           todo |-> op.todo, failed |-> op.failed, seen |-> op.seen, token |-> op.token,
           doomed |-> op.doomed, steady |-> op.steady, disturbed |-> op.disturbed]
  /\ op.kind \in {"none", "exact", "lock", "cleanup", "expire"} /\ op.at \in Stages(op.kind)
  /\ op.failed \in BOOLEAN /\ op.disturbed \in BOOLEAN
  /\ op.cidrs \subseteq Addresses /\ op.steady \subseteq peers /\ peers \subseteq Addresses

MonitorFits ==
  /\ monitor = [at |-> monitor.at, job |-> monitor.job, cidrs |-> monitor.cidrs]
  /\ monitor.at # "idle" => monitor.job \in {"lock", "expire"}
  /\ monitor.cidrs \subseteq Addresses

\* What an operation knows before it revokes: a lock gives the ports of a rescue and
\* keeps the peers it saw, a cleanup gives the ports that its preview takes away.
Prepared ==
  /\ op.kind = "lock" =>
       /\ op.at \in {"authorize", "peers", "verify"} => RescuePorts \subseteq op.ports
       /\ op.at = "verify" => op.cidrs \cup op.steady \subseteq op.seen
  /\ op.kind = "cleanup" =>
       /\ op.cidrs = {CHOOSE c \in op.cidrs : TRUE} /\ op.steady \subseteq op.seen
       /\ op.at \in {"authorize", "verify"} => op.ports = Broad(op.token.candidates)

\* What may be revoked, once it is decided: PaneFleet's rules of nobody in use, as they
\* were previewed, and all that is broad; who loses a broad rule has one of its own.
Deserved(rules) ==
  \A r \in rules : r.owner \in {"rescue", "managed"} /\ r.cidr \notin op.steady \cup op.cidrs
Decided ==
  op.at = "revoke" =>
    /\ Deserved(op.doomed)
    /\ op.kind = "expire" => \A r \in op.doomed : r.owner = "rescue"
    /\ op.kind = "cleanup" => op.doomed = op.token.candidates
    /\ op.kind # "cleanup" => OwnedRescueRules(group) \subseteq op.doomed
    /\ op.kind # "expire" /\ op.disturbed = FALSE =>
         Covered(group \ op.doomed, op.cidrs, Broad(op.doomed))

\* No broad rule is left behind a rescue that is closed or about to be.
Closed ==
  /\ rescue \in [active : BOOLEAN, due : BOOLEAN]
  /\ op.at = "close" /\ op.kind # "cleanup" /\ op.failed = FALSE => OwnedRescueRules(group) = {}
  /\ LockedIsClosed

Inv == RulesFit /\ OpFits /\ MonitorFits /\ Prepared /\ Decided /\ Closed

--------------------------------------------------------------------------------
(* Rules.                                                                       *)

\* What the code calls missing is what is not covered.
LEMMA MissingIsUncovered ==
  ASSUME NEW rules, NEW cidrs, NEW ports
  PROVE  Missing(rules, cidrs, ports) = {} <=> Covered(rules, cidrs, ports)
PROOF
  <1>1. ASSUME Missing(rules, cidrs, ports) = {}, NEW c \in cidrs, NEW p \in ports
        PROVE  Covers(rules, c, p)
    <2>1. <<c, p>> \in cidrs \X ports /\ <<c, p>>[1] = c /\ <<c, p>>[2] = p
      OBVIOUS
    <2>2. <<c, p>> \notin Missing(rules, cidrs, ports)
      BY <1>1
    <2>3. \E r \in rules : r.cidr = c /\ r.port = p
      BY <2>1, <2>2 DEF Missing
    <2> QED  BY <2>3 DEF Covers
  <1>2. ASSUME Covered(rules, cidrs, ports), NEW cp \in Missing(rules, cidrs, ports)
        PROVE  FALSE
    <2>1. cp \in cidrs \X ports /\ ~\E r \in rules : r.cidr = cp[1] /\ r.port = cp[2]
      BY <1>2 DEF Missing
    <2>2. cp[1] \in cidrs /\ cp[2] \in ports
      BY <2>1
    <2>3. Covers(rules, cp[1], cp[2])
      BY <1>2, <2>2 DEF Covered
    <2> QED  BY <2>1, <2>3 DEF Covers
  <1> QED  BY <1>1, <1>2 DEF Covered

\* Rules that come are not broad.
LEMMA NoNewBroad ==
  ASSUME Inv, \A r \in group' : r \in group \/ r.owner # "rescue"
  PROVE  RulesFit' /\ OwnedRescueRules(group') \subseteq OwnedRescueRules(group)
  BY DEF Inv, RulesFit, OwnedRescueRules

\* The candidates of a lock and of a cleanup: PaneFleet's broad rules and its rules for
\* addresses that nobody keeps. They are nobody's who is kept, and their revocation
\* uncovers nobody who is kept.
Candidates(rules, keep) == OwnedRescueRules(rules) \cup StaleOwnedLockRules(rules, keep)

\* No candidate is the rule of an address that is kept.
LEMMA CandidatesDeserve ==
  ASSUME Inv, NEW keep, op.cidrs \cup op.steady \subseteq keep
  PROVE  Deserved(Candidates(group, keep))
PROOF
  <1>1. op.cidrs \cup op.steady \subseteq Addresses
    BY DEF Inv, OpFits
  <1>2. ASSUME NEW r \in OwnedRescueRules(group)
        PROVE  r.owner = "rescue" /\ r.cidr \notin op.steady \cup op.cidrs
    BY <1>1, Addressing DEF OwnedRescueRules, Inv, RulesFit, Addresses
  <1>3. ASSUME NEW r \in StaleOwnedLockRules(group, keep)
        PROVE  r.owner = "managed" /\ r.cidr \notin op.steady \cup op.cidrs
    BY DEF StaleOwnedLockRules, OwnedLockRules
  <1> QED  BY <1>2, <1>3 DEF Deserved, Candidates

\* Who is covered and kept stays covered.
LEMMA CandidatesUncoverNone ==
  ASSUME Inv, NEW keep, op.cidrs \subseteq keep, NEW ports,
         Covered(group, op.cidrs, ports)
  PROVE  Covered(group \ Candidates(group, keep), op.cidrs, ports)
PROOF
  <1>1. ASSUME NEW c \in op.cidrs, NEW p \in ports
        PROVE  Covers(group \ Candidates(group, keep), c, p)
    <2>1. PICK r \in group : r.cidr = c /\ r.port = p
      BY DEF Covered, Covers
    <2>2. r.cidr # Everyone
      BY <2>1, Addressing DEF Inv, OpFits, Addresses
    <2>3. r \notin OwnedRescueRules(group)
      BY <2>2 DEF Inv, RulesFit, OwnedRescueRules
    <2>4. r \notin StaleOwnedLockRules(group, keep)
      BY <2>1 DEF StaleOwnedLockRules
    <2> QED  BY <2>1, <2>3, <2>4 DEF Covers, Candidates
  <1> QED  BY <1>1 DEF Covered

\* All candidates that are broad are the broad rules of the group.
LEMMA BroadCandidates ==
  ASSUME NEW keep
  PROVE  /\ OwnedRescueRules(group) \subseteq Candidates(group, keep)
         /\ Broad(Candidates(group, keep)) \subseteq RescuePorts
  BY DEF Candidates, Broad, OwnedRescueRules

--------------------------------------------------------------------------------
(* Steps that do not revoke.                                                    *)

\* A step that is no answer of the revocation says nothing about it.
LEMMA NothingRevoked ==
  ASSUME op.at # "revoke" \/ op'.at # "close"
  PROVE  AccessStep
  BY DEF AccessStep, CoveredBeforeRevoked, OwnedAndUnused, AsPreviewed, Revoking

\* Nothing of an operation changes, nor what it is about.
LEMMA QuietStep ==
  ASSUME Inv, UNCHANGED <<op, group, peers>>,
         \/ rescue' = rescue
         \/ rescue' \in [active : {TRUE}, due : BOOLEAN],
         MonitorFits'
  PROVE  Inv' /\ AccessStep
PROOF
  <1>1. op' = op /\ group' = group /\ peers' = peers
    OBVIOUS
  <1>2. RulesFit' /\ OpFits'
    BY <1>1 DEF Inv, RulesFit, OpFits
  <1>3. Prepared'
    BY <1>1 DEF Inv, Prepared, Broad, OwnedRescueRules
  <1>4. Decided'
    BY <1>1 DEF Inv, Decided, Deserved
  <1>5. Closed'
    BY <1>1 DEF Inv, Closed, LockedIsClosed
  <1>6. AccessStep
    <2>1. CASE op.at = "revoke"
      BY <1>1, <2>1, NothingRevoked
    <2>2. CASE op.at # "revoke"
      BY <2>2, NothingRevoked
    <2> QED  BY <2>1, <2>2
  <1> QED  BY <1>2, <1>3, <1>4, <1>5, <1>6 DEF Inv

\* An operation ends, or the server restarts.
LEMMA EndStep ==
  ASSUME Inv, op' = Idle, UNCHANGED <<group, peers, rescue>>,
         monitor' = monitor \/ monitor' = NotRunning
  PROVE  Inv' /\ AccessStep
PROOF
  <1>1. op'.at = "idle" /\ op'.kind = "none" /\ op'.cidrs = {} /\ op'.steady = {}
        /\ op'.failed = FALSE /\ op'.disturbed = FALSE
    BY DEF Idle
  <1>2. RulesFit'
    BY DEF Inv, RulesFit
  <1>3. OpFits'
    BY DEF Inv, OpFits, Idle, Stages
  <1>4. MonitorFits'
    BY DEF Inv, MonitorFits, NotRunning
  <1>5. Prepared' /\ Decided'
    BY <1>1 DEF Prepared, Decided
  <1>6. Closed'
    BY <1>1 DEF Inv, Closed, LockedIsClosed
  <1>7. AccessStep
    BY <1>1, NothingRevoked
  <1> QED  BY <1>2, <1>3, <1>4, <1>5, <1>6, <1>7 DEF Inv

\* An operation other than a cleanup begins.
LEMMA StartStep ==
  ASSUME Inv, NEW kind \in {"exact", "lock", "expire"}, NEW at, NEW cidrs \in SUBSET Addresses,
         at = (IF kind = "expire" THEN "rescue" ELSE "ports"), Start(kind, at, cidrs),
         UNCHANGED <<group, peers, rescue>>, MonitorFits'
  PROVE  Inv' /\ AccessStep
PROOF
  <1>1. op' = [kind |-> kind, at |-> at, cidrs |-> cidrs, ports |-> {}, todo |-> {},
               failed |-> FALSE, seen |-> {}, token |-> NoPlan, doomed |-> {},
               steady |-> peers, disturbed |-> FALSE]
    BY DEF Start, Idle
  <1>2. op'.at = at /\ op'.kind = kind /\ at \notin {"revoke", "close", "authorize", "peers", "verify"}
        /\ kind # "cleanup"
    BY <1>1
  <1>3. RulesFit'
    BY DEF Inv, RulesFit
  <1>4. OpFits'
    BY <1>1 DEF Inv, OpFits, Stages
  <1>5. Prepared' /\ Decided'
    BY <1>2 DEF Prepared, Decided
  <1>6. Closed'
    BY <1>2 DEF Inv, Closed, LockedIsClosed
  <1>7. AccessStep
    BY <1>2, NothingRevoked
  <1> QED  BY <1>3, <1>4, <1>5, <1>6, <1>7 DEF Inv

\* An operation goes on and neither decides nor has revoked anything.
LEMMA StageStep ==
  ASSUME Inv, op.at # "revoke", op'.at \notin {"revoke", "close"},
         RulesFit', OpFits', Prepared', UNCHANGED <<monitor, rescue>>,
         OwnedRescueRules(group') \subseteq OwnedRescueRules(group)
  PROVE  Inv' /\ AccessStep
PROOF
  <1>1. MonitorFits'
    BY DEF Inv, MonitorFits
  <1>2. Decided'
    BY DEF Decided
  <1>3. Closed'
    BY DEF Inv, Closed, LockedIsClosed
  <1>4. AccessStep
    BY NothingRevoked
  <1> QED  BY <1>1, <1>2, <1>3, <1>4 DEF Inv

\* The rules to revoke are decided on.
LEMMA RevokesStep ==
  ASSUME Inv, op.at # "revoke", NEW rules, Goes(Revokes(rules)), UNCHANGED <<group, peers, rescue>>,
         op.kind \in {"lock", "cleanup", "expire"}, Deserved(rules),
         op.kind = "expire" => \A r \in rules : r.owner = "rescue",
         op.kind = "cleanup" => rules = op.token.candidates,
         op.kind # "cleanup" => OwnedRescueRules(group) \subseteq rules,
         op.kind # "expire" => Covered(group \ rules, op.cidrs, Broad(rules))
  PROVE  Inv' /\ AccessStep
PROOF
  <1>1. op' = [op EXCEPT !.doomed = rules, !.at = "revoke", !.disturbed = FALSE]
        /\ monitor' = monitor
    BY DEF Goes, Revokes
  <1>2. /\ op'.at = "revoke" /\ op'.doomed = rules /\ op'.disturbed = FALSE
        /\ op'.kind = op.kind /\ op'.cidrs = op.cidrs /\ op'.steady = op.steady
        /\ op'.seen = op.seen /\ op'.token = op.token /\ op'.failed = op.failed
        /\ op' = [kind |-> op'.kind, at |-> op'.at, cidrs |-> op'.cidrs, ports |-> op'.ports,
                  todo |-> op'.todo, failed |-> op'.failed, seen |-> op'.seen,
                  token |-> op'.token, doomed |-> op'.doomed, steady |-> op'.steady,
                  disturbed |-> op'.disturbed]
    BY <1>1 DEF Inv, OpFits
  <1>3. RulesFit' /\ MonitorFits'
    BY <1>1 DEF Inv, RulesFit, MonitorFits
  <1>4. OpFits'
    <2>1. op'.at \in Stages(op'.kind)
      BY <1>2 DEF Stages
    <2> QED  BY <1>2, <2>1 DEF Inv, OpFits
  <1>5. Prepared'
    BY <1>2 DEF Inv, Prepared
  <1>6. Decided'
    BY <1>2 DEF Decided, Deserved
  <1>7. Closed'
    BY <1>2 DEF Inv, Closed, LockedIsClosed
  <1>8. AccessStep
    BY <1>2, NothingRevoked
  <1> QED  BY <1>3, <1>4, <1>5, <1>6, <1>7, <1>8 DEF Inv

--------------------------------------------------------------------------------
(* The steps of the operations.                                                 *)

\* The fields of an operation that goes on.
Kept ==
  /\ op'.kind = op.kind /\ op'.cidrs = op.cidrs /\ op'.token = op.token
  /\ op'.disturbed = op.disturbed /\ op'.doomed = op.doomed
  /\ op' = [kind |-> op'.kind, at |-> op'.at, cidrs |-> op'.cidrs, ports |-> op'.ports,
            todo |-> op'.todo, failed |-> op'.failed, seen |-> op'.seen, token |-> op'.token,
            doomed |-> op'.doomed, steady |-> op'.steady, disturbed |-> op'.disturbed]

\* An operation that goes on keeps its shape.
LEMMA KeptFits ==
  ASSUME Inv, Kept, op'.at \in Stages(op.kind), op'.failed \in BOOLEAN,
         op'.steady \subseteq peers', peers' \subseteq Addresses
  PROVE  OpFits'
  BY DEF Inv, OpFits, Kept

\* The operator asks for an exact address, or for the lock of the rescue.
LEMMA AskStep ==
  ASSUME Inv, NEW c \in Cidrs, AskExact(c) \/ AskLock(c, peers)
  PROVE  Inv' /\ AccessStep
PROOF
  <1>1. UNCHANGED <<group, peers, rescue>> /\ monitor' = monitor
    BY DEF AskExact, AskLock
  <1>2. MonitorFits'
    BY <1>1 DEF Inv, MonitorFits
  <1>3. CASE AskExact(c)
    <2>1. {c} \in SUBSET Addresses /\ Start("exact", "ports", {c})
      BY <1>3 DEF Addresses, AskExact
    <2> QED  BY <1>1, <1>2, <2>1, StartStep
  <1>4. CASE AskLock(c, peers)
    <2> DEFINE targets == (peers \union {c}) \ BaselinePeers
    <2>1. targets \in SUBSET Addresses
      BY DEF Inv, OpFits, Addresses
    <2>2. Start("lock", "ports", targets)
      BY <1>4 DEF AskLock
    <2> HIDE DEF targets
    <2> QED  BY <1>1, <1>2, <2>1, <2>2, StartStep
  <1> QED  BY <1>3, <1>4

\* The operator asks for the cleanup that was previewed.
LEMMA AskCleanupStep ==
  ASSUME Inv, NEW c \in Cidrs, AskCleanup(c, peers)
  PROVE  Inv' /\ AccessStep
PROOF
  <1>1. /\ op.at = "idle" /\ UNCHANGED <<group, peers, rescue, monitor>>
        /\ op' = [kind |-> "cleanup", at |-> "plan", cidrs |-> {c}, ports |-> {}, todo |-> {},
                  failed |-> FALSE, seen |-> peers, token |-> preview, doomed |-> {},
                  steady |-> peers, disturbed |-> FALSE]
    BY DEF AskCleanup, Idle
  <1>2. RulesFit' /\ OwnedRescueRules(group') \subseteq OwnedRescueRules(group)
    BY <1>1 DEF Inv, RulesFit
  <1>3. OpFits'
    BY <1>1 DEF Inv, OpFits, Stages, Addresses
  <1>4. {c} = {CHOOSE d \in {c} : TRUE}
    OBVIOUS
  <1>5. Prepared'
    BY <1>1, <1>4 DEF Prepared
  <1> QED  BY <1>1, <1>2, <1>3, <1>5, StageStep

\* The ports of an address: those of a rescue among them.
LEMMA ReadPortsStep ==
  ASSUME Inv, ReadPorts
  PROVE  Inv' /\ AccessStep
PROOF
  <1> DEFINE ports == MirroredHomePorts(group)
  <1>1. /\ op.at = "ports" /\ UNCHANGED <<group, peers, rescue>> /\ monitor' = monitor
        /\ op' = [op EXCEPT !.ports = ports, !.todo = op.cidrs \X ports, !.at = "authorize"]
    BY DEF ReadPorts, Goes
  <1>2. RescuePorts \subseteq ports
    BY DEF MirroredHomePorts
  <1> HIDE DEF ports
  <1>3. /\ Kept /\ op'.at = "authorize" /\ op'.ports = ports /\ op'.failed = op.failed
        /\ op'.steady = op.steady
    BY <1>1 DEF Inv, OpFits, Kept
  <1>4. op.kind \in {"exact", "lock"} /\ op'.kind = op.kind
    BY <1>1, <1>3 DEF Inv, OpFits, Stages, Kept
  <1>5. op'.at \in Stages(op.kind)
    BY <1>3, <1>4 DEF Stages
  <1>6. OpFits'
    BY <1>1, <1>3, <1>5, KeptFits DEF Inv, OpFits
  <1>7. RulesFit' /\ OwnedRescueRules(group') \subseteq OwnedRescueRules(group)
    BY <1>1 DEF Inv, RulesFit
  <1>8. Prepared'
    BY <1>2, <1>3, <1>4 DEF Prepared
  <1> QED  BY <1>1, <1>3, <1>6, <1>7, <1>8, StageStep

\* What is known before the revocation stays so while the operation goes on.
LEMMA PreparedStays ==
  ASSUME Inv, Kept, op'.ports = op.ports, op'.seen = op.seen, op'.steady \subseteq op.steady,
         op'.at = op.at \/ op'.at = "peers" \/ (op.kind # "lock" /\ op.at = "authorize")
  PROVE  op.at \in {"authorize", "peers", "verify"} \/ op'.at = op.at => Prepared'
PROOF
  <1> SUFFICES ASSUME op.at \in {"authorize", "peers", "verify"} \/ op'.at = op.at
               PROVE  Prepared'
    OBVIOUS
  <1>1. op'.kind = op.kind /\ op'.cidrs = op.cidrs /\ op'.token = op.token
    BY DEF Kept
  <1>2. ASSUME op.kind = "lock"
        PROVE  /\ op'.at \in {"authorize", "peers", "verify"} => RescuePorts \subseteq op'.ports
               /\ op'.at = "verify" => op'.cidrs \cup op'.steady \subseteq op'.seen
    BY <1>1, <1>2 DEF Inv, Prepared
  <1>3. ASSUME op.kind = "cleanup"
        PROVE  /\ op'.cidrs = {CHOOSE c \in op'.cidrs : TRUE} /\ op'.steady \subseteq op'.seen
               /\ op'.at \in {"authorize", "verify"} => op'.ports = Broad(op'.token.candidates)
    BY <1>1, <1>3 DEF Inv, Prepared
  <1> QED  BY <1>1, <1>2, <1>3 DEF Prepared

\* authorize-security-group-ingress for one address and port: a managed rule, if any.
LEMMA AuthorizePortCidrStep ==
  ASSUME Inv, NEW cp, NEW works \in BOOLEAN, NEW answered \in BOOLEAN,
         AuthorizePortCidr(cp, works, answered)
  PROVE  Inv' /\ AccessStep
PROOF
  <1>1. /\ op.at = "authorize" /\ UNCHANGED <<peers, rescue>> /\ monitor' = monitor
        /\ op' = [op EXCEPT !.todo = @ \ {cp}, !.failed = @ \/ ~(works /\ answered)]
    BY DEF AuthorizePortCidr, Goes
  <1>2. \A r \in group' : r \in group \/ r.owner # "rescue"
    BY DEF AuthorizePortCidr
  <1>3. RulesFit' /\ OwnedRescueRules(group') \subseteq OwnedRescueRules(group)
    BY <1>2, NoNewBroad
  <1>4. Kept /\ op'.at = op.at /\ op'.ports = op.ports /\ op'.seen = op.seen
        /\ op'.steady = op.steady /\ op'.failed \in BOOLEAN
    BY <1>1 DEF Inv, OpFits, Kept
  <1>5. OpFits'
    BY <1>1, <1>4, KeptFits DEF Inv, OpFits
  <1>6. Prepared'
    BY <1>4, PreparedStays
  <1> QED  BY <1>1, <1>3, <1>4, <1>5, <1>6, StageStep

\* All addresses were tried.
LEMMA AuthorizePortsStep ==
  ASSUME Inv, AuthorizePorts
  PROVE  Inv' /\ AccessStep
PROOF
  <1>1. /\ op.at = "authorize" /\ UNCHANGED <<group, peers, rescue>> /\ monitor' = monitor
        /\ op' = [op EXCEPT !.at = IF op.kind = "lock" THEN "peers" ELSE "verify"]
    BY DEF AuthorizePorts, Goes
  <1>2. RulesFit' /\ OwnedRescueRules(group') \subseteq OwnedRescueRules(group)
    BY <1>1 DEF Inv, RulesFit
  <1>3. Kept /\ op'.at = (IF op.kind = "lock" THEN "peers" ELSE "verify")
        /\ op'.ports = op.ports /\ op'.seen = op.seen /\ op'.steady = op.steady
        /\ op'.failed = op.failed
    BY <1>1 DEF Inv, OpFits, Kept
  <1>4. op'.at \in Stages(op.kind)
    BY <1>1, <1>3 DEF Inv, OpFits, Stages
  <1>5. OpFits'
    BY <1>1, <1>3, <1>4, KeptFits DEF Inv, OpFits
  <1>6. Prepared'
    BY <1>1, <1>3, PreparedStays
  <1>7. op'.at \in {"peers", "verify"}
    BY <1>3
  <1> QED  BY <1>1, <1>2, <1>5, <1>6, <1>7, StageStep

\* currentSshPeerCidrs before the lock: the peers that `ss` shows are kept.
LEMMA LockSeesPeersStep ==
  ASSUME Inv, NEW seen \in {peers, {}}, LockSeesPeers(seen)
  PROVE  Inv' /\ AccessStep
PROOF
  <1>1. /\ op.kind = "lock" /\ op.at = "peers" /\ UNCHANGED <<group, peers, rescue>>
        /\ monitor' = monitor
        /\ op' = [op EXCEPT !.seen = op.cidrs \union seen, !.steady = Watched(seen),
                            !.at = "verify"]
    BY DEF LockSeesPeers, Goes
  <1>2. RulesFit' /\ OwnedRescueRules(group') \subseteq OwnedRescueRules(group)
    BY <1>1 DEF Inv, RulesFit
  <1>3. /\ Kept /\ op'.at = "verify" /\ op'.ports = op.ports
        /\ op'.seen = op.cidrs \cup seen /\ op'.steady = Watched(seen) /\ op'.failed = op.failed
    BY <1>1 DEF Inv, OpFits, Kept
  <1>4. Watched(seen) \subseteq seen /\ Watched(seen) \subseteq peers
    BY DEF Watched, Inv, OpFits
  <1>5. OpFits'
    <2>1. op'.at \in Stages(op.kind)
      BY <1>1, <1>3 DEF Stages
    <2> QED  BY <1>1, <1>3, <1>4, <2>1, KeptFits DEF Inv, OpFits
  <1>6. Prepared'
    <2>1. op'.kind = "lock" /\ op'.cidrs = op.cidrs
      BY <1>1, <1>3 DEF Kept
    <2>2. RescuePorts \subseteq op'.ports
      BY <1>1, <1>3 DEF Inv, Prepared
    <2>3. op'.cidrs \cup op'.steady \subseteq op'.seen
      BY <1>3, <1>4, <2>1
    <2> QED  BY <2>1, <2>2, <2>3 DEF Prepared
  <1> QED  BY <1>1, <1>2, <1>3, <1>5, <1>6, StageStep

\* The lock looks at the rules once more, and decides.
LEMMA LockVerifiesStep ==
  ASSUME Inv, LockVerifies
  PROVE  Inv' /\ AccessStep
PROOF
  <1> DEFINE rules == Candidates(group, op.seen)
  <1>1. op.kind = "lock" /\ op.at = "verify" /\ UNCHANGED <<group, peers, rescue>>
    BY DEF LockVerifies
  <1>2. CASE Finish
    BY <1>1, <1>2, EndStep DEF Finish
  <1>3. CASE ~Finish
    <2>1. Goes(Revokes(rules)) /\ Missing(group, op.cidrs, op.ports) = {}
      BY <1>3 DEF LockVerifies, Candidates
    <2>2. op.cidrs \cup op.steady \subseteq op.seen /\ RescuePorts \subseteq op.ports
      BY <1>1 DEF Inv, Prepared
    <2>3. Deserved(rules)
      BY <2>2, CandidatesDeserve
    <2>4. Covered(group \ rules, op.cidrs, op.ports)
      BY <2>1, <2>2, MissingIsUncovered, CandidatesUncoverNone
    <2>5. Broad(rules) \subseteq op.ports /\ OwnedRescueRules(group) \subseteq rules
      BY <2>2, BroadCandidates
    <2> HIDE DEF rules
    <2>6. Covered(group \ rules, op.cidrs, Broad(rules))
      BY <2>4, <2>5 DEF Covered
    <2> QED  BY <1>1, <2>1, <2>3, <2>5, <2>6, RevokesStep
  <1> QED  BY <1>2, <1>3

\* The rescue is reported closed when the revocation answered, open for another attempt
\* when it failed.
LEMMA LockClosesStep ==
  ASSUME Inv, LockCloses
  PROVE  Inv' /\ AccessStep
PROOF
  <1>1. /\ op.kind # "cleanup" /\ op.at = "close" /\ Finish /\ UNCHANGED <<group, peers>>
        /\ rescue' = [rescue EXCEPT !.active = op.failed]
    BY DEF LockCloses
  <1>2. op' = Idle /\ (monitor' = monitor \/ monitor' = NotRunning)
    BY <1>1 DEF Finish
  <1>3. RulesFit' /\ MonitorFits' /\ OpFits'
    BY <1>1, <1>2 DEF Inv, RulesFit, MonitorFits, NotRunning, OpFits, Idle, Stages
  <1>4. Prepared' /\ Decided'
    BY <1>2 DEF Prepared, Decided, Idle
  <1>5. LockedIsClosed'
    <2>1. CASE op.failed = FALSE
      BY <1>1, <2>1 DEF Inv, Closed, LockedIsClosed
    <2>2. CASE op.failed = TRUE
      <3>1. rescue' = rescue \/ rescue'.active = TRUE
        BY <1>1, <2>2
      <3>2. \/ rescue'.active = TRUE
            \/ rescue' = rescue
        BY <3>1
      <3> QED  BY <1>1, <3>2 DEF Inv, Closed, LockedIsClosed
    <2>3. op.failed \in BOOLEAN
      BY DEF Inv, OpFits
    <2> QED  BY <2>1, <2>2, <2>3
  <1>6. Closed'
    <2>1. rescue' \in [active : BOOLEAN, due : BOOLEAN]
      BY <1>1 DEF Inv, Closed, OpFits
    <2> QED  BY <1>2, <1>5, <2>1 DEF Closed, Idle
  <1>7. AccessStep
    BY <1>1, NothingRevoked
  <1> QED  BY <1>3, <1>4, <1>6, <1>7 DEF Inv

\* The plan that is made anew keeps the requester and the peers that were seen.
LEMMA PlanKeeps ==
  ASSUME Inv, op.kind = "cleanup"
  PROVE  \E keep : /\ op.cidrs \cup op.steady \subseteq keep
                   /\ CleanupPlan.candidates = Candidates(group, keep)
PROOF
  <1> DEFINE requester == CHOOSE c \in op.cidrs : TRUE
             keep == {requester} \cup op.seen
  <1>1. op.cidrs = {requester} /\ op.steady \subseteq op.seen
    BY DEF Inv, Prepared
  <1>2. CleanupPlan.candidates = Candidates(group, keep)
    BY DEF CleanupPlan, ManagedCleanupPlan, Candidates
  <1> QED  BY <1>1, <1>2

\* A cleanup whose preview still holds gives the requester the ports that will go, or
\* goes on at once when none is broad.
LEMMA CleanupPlansStep ==
  ASSUME Inv, CleanupPlans
  PROVE  Inv' /\ AccessStep
PROOF
  <1> DEFINE broad == Broad(CleanupPlan.candidates)
  <1>1. op.kind = "cleanup" /\ op.at = "plan" /\ UNCHANGED <<group, peers, rescue>>
    BY DEF CleanupPlans
  <1>2. CASE Finish
    BY <1>1, <1>2, EndStep DEF Finish
  <1>3. CASE ~Finish /\ broad = {}
    <2>1. Goes(Revokes(CleanupPlan.candidates)) /\ CleanupPlan = op.token
      BY <1>3 DEF CleanupPlans, Broad
    <2>2. Deserved(CleanupPlan.candidates)
      BY <1>1, PlanKeeps, CandidatesDeserve
    <2>3. Covered(group \ CleanupPlan.candidates, op.cidrs, Broad(CleanupPlan.candidates))
      BY <1>3 DEF Covered
    <2>4. CleanupPlan.candidates = op.token.candidates
      BY <2>1
    <2> QED  BY <1>1, <2>1, <2>2, <2>3, <2>4, RevokesStep
  <1>4. CASE ~Finish /\ broad # {}
    <2>1. /\ op' = [op EXCEPT !.ports = broad, !.todo = op.cidrs \X broad, !.at = "authorize"]
          /\ monitor' = monitor /\ CleanupPlan = op.token
      BY <1>4 DEF CleanupPlans, Broad, Goes
    <2> HIDE DEF broad
    <2>2. /\ Kept /\ op'.at = "authorize" /\ op'.ports = broad /\ op'.seen = op.seen
          /\ op'.steady = op.steady /\ op'.failed = op.failed
      BY <2>1 DEF Inv, OpFits, Kept
    <2>3. op'.at \in Stages(op.kind)
      BY <1>1, <2>2 DEF Stages
    <2>4. OpFits'
      BY <1>1, <2>2, <2>3, KeptFits DEF Inv, OpFits
    <2>5. broad = Broad(op.token.candidates)
      BY <2>1 DEF broad
    <2>6. Prepared'
      <3>1. op'.kind = "cleanup" /\ op'.cidrs = op.cidrs /\ op'.token = op.token
        BY <1>1, <2>2 DEF Kept
      <3>2. op.cidrs = {CHOOSE c \in op.cidrs : TRUE} /\ op.steady \subseteq op.seen
        BY <1>1 DEF Inv, Prepared
      <3> QED  BY <2>2, <2>5, <3>1, <3>2 DEF Prepared
    <2>7. RulesFit' /\ OwnedRescueRules(group') \subseteq OwnedRescueRules(group)
      BY <1>1 DEF Inv, RulesFit
    <2> QED  BY <1>1, <2>1, <2>2, <2>4, <2>6, <2>7, StageStep
  <1> QED  BY <1>2, <1>3, <1>4

\* The requester has rules of its own, and the preview holds still.
LEMMA CleanupVerifiesStep ==
  ASSUME Inv, CleanupVerifies
  PROVE  Inv' /\ AccessStep
PROOF
  <1> DEFINE rules == CleanupPlan.candidates
  <1>1. op.kind = "cleanup" /\ op.at = "verify" /\ UNCHANGED <<group, peers, rescue>>
    BY DEF CleanupVerifies
  <1>2. CASE Finish
    BY <1>1, <1>2, EndStep DEF Finish
  <1>3. CASE ~Finish
    <2>1. /\ Goes(Revokes(rules)) /\ Missing(group, op.cidrs, op.ports) = {}
          /\ CleanupPlan = op.token
      BY <1>3 DEF CleanupVerifies
    <2>2. PICK keep : op.cidrs \cup op.steady \subseteq keep /\ rules = Candidates(group, keep)
      BY <1>1, PlanKeeps
    <2>3. rules = op.token.candidates
      BY <2>1
    <2> HIDE DEF rules
    <2>4. Deserved(rules)
      BY <2>2, CandidatesDeserve
    <2>5. Covered(group \ rules, op.cidrs, op.ports)
      BY <2>1, <2>2, MissingIsUncovered, CandidatesUncoverNone
    <2>6. op.ports = Broad(rules)
      BY <1>1, <2>3 DEF Inv, Prepared
    <2> QED  BY <1>1, <2>1, <2>3, <2>4, <2>5, <2>6, RevokesStep
  <1> QED  BY <1>2, <1>3

\* After a cleanup the rescue is open while a broad rule is left.
LEMMA CleanupClosesStep ==
  ASSUME Inv, CleanupCloses
  PROVE  Inv' /\ AccessStep
PROOF
  <1>1. /\ op.at = "close" /\ Finish /\ UNCHANGED <<group, peers>>
        /\ \/ rescue' = rescue
           \/ rescue' = [active |-> OwnedRescueRules(group) # {},
                          due |-> rescue.due /\ OwnedRescueRules(group) # {}]
    BY DEF CleanupCloses
  <1>2. op' = Idle /\ (monitor' = monitor \/ monitor' = NotRunning)
    BY <1>1 DEF Finish
  <1>3. RulesFit' /\ MonitorFits' /\ OpFits'
    BY <1>1, <1>2 DEF Inv, RulesFit, MonitorFits, NotRunning, OpFits, Idle, Stages
  <1>4. Prepared' /\ Decided'
    BY <1>2 DEF Prepared, Decided, Idle
  <1>5. LockedIsClosed'
    BY <1>1 DEF Inv, Closed, LockedIsClosed
  <1>6. Closed'
    <2> DEFINE open == OwnedRescueRules(group) # {}
               due == rescue.due /\ open
    <2>1. open \in BOOLEAN /\ due \in BOOLEAN
      OBVIOUS
    <2>2. rescue' = rescue \/ rescue' = [active |-> open, due |-> due]
      BY <1>1
    <2> HIDE DEF open, due
    <2>3. rescue' \in [active : BOOLEAN, due : BOOLEAN]
      BY <2>1, <2>2 DEF Inv, Closed
    <2> QED  BY <1>2, <1>5, <2>3 DEF Closed, Idle
  <1>7. AccessStep
    BY <1>1, NothingRevoked
  <1> QED  BY <1>3, <1>4, <1>6, <1>7 DEF Inv

\* expireSshRescue: all broad rules, and nothing else.
LEMMA ExpireStep ==
  ASSUME Inv, ExpireSshRescue
  PROVE  Inv' /\ AccessStep
PROOF
  <1> DEFINE rules == OwnedRescueRules(group)
  <1>1. /\ op.kind = "expire" /\ op.at = "rescue" /\ UNCHANGED <<group, peers, rescue>>
        /\ Goes(Revokes(rules))
    BY DEF ExpireSshRescue
  <1>2. op.cidrs \cup op.steady \subseteq Addresses
    BY DEF Inv, OpFits
  <1>3. \A r \in rules : r.owner = "rescue" /\ r.cidr = Everyone
    BY DEF OwnedRescueRules, Inv, RulesFit
  <1>4. Deserved(rules)
    BY <1>2, <1>3, Addressing DEF Deserved, Addresses
  <1> HIDE DEF rules
  <1>5. OwnedRescueRules(group) \subseteq rules
    BY DEF rules
  <1> QED  BY <1>1, <1>3, <1>4, <1>5, RevokesStep

\* revoke-security-group-ingress: all of the rules, or none.
LEMMA RevokeRuleIdsStep ==
  ASSUME Inv, NEW works \in BOOLEAN, NEW answered \in BOOLEAN,
         RevokeRuleIds(works, answered)
  PROVE  Inv' /\ AccessStep
PROOF
  <1> DEFINE ok == op.doomed = {} \/ (works /\ answered /\ op.doomed \subseteq group)
             failed == ~ok
  <1>1. /\ op.at = "revoke" /\ UNCHANGED <<peers, rescue>> /\ monitor' = monitor
        /\ op' = [op EXCEPT !.at = "close", !.failed = failed]
    BY DEF RevokeRuleIds, Goes
  <1>2. \/ group' = group /\ (failed = FALSE => op.doomed = {})
        \/ group' = group \ op.doomed /\ op.doomed \subseteq group
    BY DEF RevokeRuleIds
  <1>3. failed \in BOOLEAN
    OBVIOUS
  <1> HIDE DEF failed
  <1>4. /\ Kept /\ op'.at = "close" /\ op'.failed = failed /\ op'.ports = op.ports
        /\ op'.seen = op.seen /\ op'.steady = op.steady
    BY <1>1 DEF Inv, OpFits, Kept
  <1>5. op'.kind = op.kind /\ op'.cidrs = op.cidrs /\ op'.token = op.token
    BY <1>4 DEF Kept
  <1>6. RulesFit' /\ OwnedRescueRules(group') \subseteq OwnedRescueRules(group)
    BY <1>2, NoNewBroad
  <1>7. OpFits'
    <2>1. op'.at \in Stages(op.kind)
      BY <1>1, <1>4 DEF Inv, OpFits, Stages
    <2> QED  BY <1>1, <1>3, <1>4, <2>1, KeptFits DEF Inv, OpFits
  <1>8. Prepared'
    BY <1>4, <1>5 DEF Inv, Prepared
  <1>9. MonitorFits' /\ Decided'
    BY <1>1, <1>4 DEF Inv, MonitorFits, Decided
  <1>10. op.kind # "cleanup" /\ failed = FALSE => OwnedRescueRules(group') = {}
    <2>1. op.kind # "cleanup" => OwnedRescueRules(group) \subseteq op.doomed
      BY <1>1 DEF Inv, Decided
    <2> QED  BY <1>2, <1>6, <2>1 DEF OwnedRescueRules
  <1>11. Closed'
    BY <1>1, <1>4, <1>5, <1>6, <1>10 DEF Inv, Closed, LockedIsClosed
  <1>12. Revoked = {} \/ (Revoked = op.doomed /\ group' = group \ op.doomed)
    BY <1>2 DEF Revoked
  <1>13. /\ Deserved(op.doomed)
         /\ op.kind = "expire" => \A r \in op.doomed : r.owner = "rescue"
         /\ op.kind = "cleanup" => op.doomed = op.token.candidates
         /\ op.kind # "expire" /\ op.disturbed = FALSE =>
              Covered(group \ op.doomed, op.cidrs, Broad(op.doomed))
    BY <1>1 DEF Inv, Decided
  <1>14. OwnedAndUnused /\ AsPreviewed
    BY <1>12, <1>13 DEF OwnedAndUnused, AsPreviewed, Deserved
  <1>15. CoveredBeforeRevoked
    <2>1. SUFFICES ASSUME op.kind # "expire", op.disturbed = FALSE
                   PROVE  Missing(group', op.cidrs, Broad(Revoked)) = {}
      BY DEF CoveredBeforeRevoked, Broad, Inv, OpFits
    <2>2. CASE Revoked = {}
      <3>1. Covered(group', op.cidrs, Broad(Revoked))
        BY <2>2 DEF Covered, Broad, OwnedRescueRules
      <3> QED  BY <3>1, MissingIsUncovered
    <2>3. CASE Revoked = op.doomed /\ group' = group \ op.doomed
      <3>1. Covered(group', op.cidrs, Broad(Revoked))
        BY <1>13, <2>1, <2>3
      <3> QED  BY <3>1, MissingIsUncovered
    <2> QED  BY <1>12, <2>2, <2>3
  <1> QED  BY <1>6, <1>7, <1>8, <1>9, <1>11, <1>14, <1>15 DEF Inv, AccessStep

--------------------------------------------------------------------------------
(* What happens beside the operation.                                           *)

\* The monitor reads the peers, or its turn in the queue comes.
LEMMA MonitorStep ==
  ASSUME Inv, MonitorRuns \/ MonitorsTurn
  PROVE  Inv' /\ AccessStep
PROOF
  <1>1. CASE MonitorRuns
    <2>1. UNCHANGED <<op, group, peers>> /\ rescue' = rescue
      BY <1>1 DEF MonitorRuns
    <2>2. \/ monitor' = [at |-> "queued", job |-> "expire", cidrs |-> {}]
          \/ monitor' = [at |-> "queued", job |-> "lock", cidrs |-> peers \ BaselinePeers]
      BY <1>1 DEF MonitorRuns
    <2>3. peers \subseteq Addresses
      BY DEF Inv, OpFits
    <2>4. MonitorFits'
      BY <2>2, <2>3 DEF MonitorFits
    <2> QED  BY <2>1, <2>4, QuietStep
  <1>2. CASE MonitorsTurn
    <2>1. monitor.at = "queued" /\ op.at = "idle" /\ UNCHANGED <<group, peers, rescue>>
          /\ rescue' = rescue
      BY <1>2 DEF MonitorsTurn
    <2>2. CASE op' = op
      <3>1. MonitorFits'
        <4>1. monitor' = NotRunning \/ monitor' = [monitor EXCEPT !.at = "runs"]
          BY <1>2 DEF MonitorsTurn
        <4> QED  BY <2>1, <4>1 DEF Inv, MonitorFits, NotRunning
      <3> QED  BY <2>1, <2>2, <3>1, QuietStep
    <2>3. CASE op' # op
      <3> DEFINE kind == monitor.job
                 at == IF monitor.job = "expire" THEN "rescue" ELSE "ports"
      <3>1. Start(kind, at, monitor.cidrs) /\ monitor' = [monitor EXCEPT !.at = "runs"]
        BY <1>2, <2>3 DEF MonitorsTurn
      <3>2. kind \in {"exact", "lock", "expire"} /\ monitor.cidrs \in SUBSET Addresses
        BY <2>1 DEF Inv, MonitorFits
      <3>3. MonitorFits'
        BY <2>1, <3>1 DEF Inv, MonitorFits
      <3>4. at = (IF kind = "expire" THEN "rescue" ELSE "ports")
        OBVIOUS
      <3> HIDE DEF kind, at
      <3> QED  BY <2>1, <3>1, <3>2, <3>3, <3>4, StartStep
    <2> QED  BY <2>2, <2>3
  <1> QED  BY <1>1, <1>2

\* An SSH connection comes or goes: the address is no longer one that stayed.
LEMMA MovesStep ==
  ASSUME Inv, NEW c \in Cidrs, Moves(c)
  PROVE  Inv' /\ AccessStep
PROOF
  <1>1. /\ op' = [op EXCEPT !.steady = op.steady \ {c}] /\ UNCHANGED <<group, rescue, monitor>>
        /\ peers' = IF c \in peers THEN peers \ {c} ELSE peers \union {c}
    BY DEF Moves
  <1>2. /\ Kept /\ op'.at = op.at /\ op'.failed = op.failed /\ op'.ports = op.ports
        /\ op'.seen = op.seen /\ op'.steady = op.steady \ {c}
    BY <1>1 DEF Inv, OpFits, Kept
  <1>3. /\ op'.kind = op.kind /\ op'.cidrs = op.cidrs /\ op'.token = op.token
        /\ op'.disturbed = op.disturbed /\ op'.doomed = op.doomed
    BY <1>2 DEF Kept
  <1>4. OpFits'
    <2>1. op'.steady \subseteq peers' /\ peers' \subseteq Addresses
      BY <1>1, <1>2 DEF Inv, OpFits, Addresses
    <2> QED  BY <1>2, <2>1, KeptFits DEF Inv, OpFits
  <1>5. Prepared'
    BY <1>2, PreparedStays
  <1>6. Decided'
    <2>1. SUFFICES ASSUME op'.at = "revoke"
                   PROVE  Decided'
      BY DEF Decided
    <2>2. /\ Deserved(op.doomed)
          /\ op.kind = "expire" => \A r \in op.doomed : r.owner = "rescue"
          /\ op.kind = "cleanup" => op.doomed = op.token.candidates
          /\ op.kind # "cleanup" => OwnedRescueRules(group) \subseteq op.doomed
          /\ op.kind # "expire" /\ op.disturbed = FALSE =>
               Covered(group \ op.doomed, op.cidrs, Broad(op.doomed))
      BY <1>2, <2>1 DEF Inv, Decided
    <2>3. \A r \in op.doomed :
            r.owner \in {"rescue", "managed"} /\ r.cidr \notin op'.steady \cup op.cidrs
      BY <1>2, <2>2 DEF Deserved
    <2>4. group' = group
      BY <1>1
    <2> QED  BY <1>3, <2>2, <2>3, <2>4 DEF Decided, Deserved
  <1>7. RulesFit' /\ MonitorFits' /\ Closed'
    BY <1>1, <1>2, <1>3 DEF Inv, RulesFit, MonitorFits, Closed, LockedIsClosed
  <1>8. AccessStep
    BY <1>2, NothingRevoked
  <1> QED  BY <1>4, <1>5, <1>6, <1>7, <1>8 DEF Inv

\* The group is edited elsewhere: a rule is added, or one goes and the operation is
\* disturbed.
LEMMA EditStep ==
  ASSUME Inv, UNCHANGED <<peers, rescue, monitor>>,
         \A r \in group' : r \in group \/ r.owner = "static",
         \/ op' = op /\ group \subseteq group'
         \/ op' = [op EXCEPT !.disturbed = TRUE]
  PROVE  Inv' /\ AccessStep
PROOF
  <1>1. RulesFit' /\ OwnedRescueRules(group') \subseteq OwnedRescueRules(group)
    BY NoNewBroad
  <1>2. /\ op'.kind = op.kind /\ op'.cidrs = op.cidrs /\ op'.token = op.token
        /\ op'.doomed = op.doomed /\ op'.at = op.at /\ op'.failed = op.failed
        /\ op'.ports = op.ports /\ op'.seen = op.seen /\ op'.steady = op.steady
        /\ op'.disturbed \in BOOLEAN
        /\ op'.disturbed = FALSE => op.disturbed = FALSE /\ group \subseteq group'
        /\ op' = [kind |-> op'.kind, at |-> op'.at, cidrs |-> op'.cidrs, ports |-> op'.ports,
                  todo |-> op'.todo, failed |-> op'.failed, seen |-> op'.seen,
                  token |-> op'.token, doomed |-> op'.doomed, steady |-> op'.steady,
                  disturbed |-> op'.disturbed]
    <2>1. CASE op' = op /\ group \subseteq group'
      BY <2>1 DEF Inv, OpFits
    <2>2. CASE op' = [op EXCEPT !.disturbed = TRUE]
      BY <2>2 DEF Inv, OpFits
    <2> QED  BY <2>1, <2>2
  <1>3. OpFits'
    BY <1>2 DEF Inv, OpFits
  <1>4. Prepared'
    BY <1>2 DEF Inv, Prepared
  <1>5. Decided'
    <2>1. SUFFICES ASSUME op'.at = "revoke"
                   PROVE  Decided'
      BY DEF Decided
    <2>2. /\ Deserved(op.doomed)
          /\ op.kind = "expire" => \A r \in op.doomed : r.owner = "rescue"
          /\ op.kind = "cleanup" => op.doomed = op.token.candidates
          /\ op.kind # "cleanup" => OwnedRescueRules(group) \subseteq op.doomed
          /\ op.kind # "expire" /\ op.disturbed = FALSE =>
               Covered(group \ op.doomed, op.cidrs, Broad(op.doomed))
      BY <1>2, <2>1 DEF Inv, Decided
    <2>3. Deserved(op.doomed)'
      BY <1>2, <2>2 DEF Deserved
    <2>4. group \subseteq group' /\ Covered(group \ op.doomed, op.cidrs, Broad(op.doomed))
          => Covered(group' \ op.doomed, op.cidrs, Broad(op.doomed))
      BY DEF Covered, Covers
    <2>5. op'.kind # "expire" /\ op'.disturbed = FALSE =>
            Covered(group' \ op'.doomed, op'.cidrs, Broad(op'.doomed))
      BY <1>2, <2>2, <2>4
    <2> QED  BY <1>1, <1>2, <2>2, <2>3, <2>5 DEF Decided, Deserved
  <1>6. MonitorFits' /\ Closed'
    BY <1>1, <1>2 DEF Inv, MonitorFits, Closed, LockedIsClosed
  <1>7. AccessStep
    BY <1>2, NothingRevoked
  <1> QED  BY <1>1, <1>3, <1>4, <1>5, <1>6, <1>7 DEF Inv

--------------------------------------------------------------------------------
(* The theorem.                                                                 *)

\* The steps of an operation.
LEMMA OperationStep ==
  ASSUME Inv, Operation
  PROVE  Inv' /\ AccessStep
PROOF
  <1>1. CASE Authorizes
    BY <1>1, AuthorizePortCidrStep, AuthorizePortsStep DEF Authorizes
  <1>2. CASE \E works, answered \in BOOLEAN : RevokeRuleIds(works, answered)
    BY <1>2, RevokeRuleIdsStep
  <1>3. CASE ReadFails \/ ExactVerifies
    <2>1. op' = Idle /\ (monitor' = monitor \/ monitor' = NotRunning)
          /\ UNCHANGED <<group, peers, rescue>>
      BY <1>3 DEF ReadFails, ExactVerifies, Finish
    <2> QED  BY <2>1, EndStep
  <1>4. CASE \E seen \in {peers, {}} : LockSeesPeers(seen)
    BY <1>4, LockSeesPeersStep
  <1> QED  BY <1>1, <1>2, <1>3, <1>4, ReadPortsStep, LockVerifiesStep, LockClosesStep,
              CleanupPlansStep, CleanupVerifiesStep, CleanupClosesStep, ExpireStep
           DEF Operation, Calls

\* What happens around the server.
LEMMA AroundStep ==
  ASSUME Inv, Around \/ TimePasses \/ Looks
  PROVE  Inv' /\ AccessStep
PROOF
  <1>1. CASE \E c \in Cidrs : Moves(c)
    BY <1>1, MovesStep
  <1>2. CASE \E c \in Cidrs, p \in RescuePorts : AddedElsewhere(c, p)
    <2>1. PICK c \in Cidrs, p \in RescuePorts : AddedElsewhere(c, p)
      BY <1>2
    <2>2. /\ UNCHANGED <<peers, rescue, monitor>> /\ op' = op
          /\ group' = group \union
               {[id |-> FreshId, owner |-> "static", cidr |-> c, port |-> p]}
      BY <2>1 DEF AddedElsewhere
    <2>3. group \subseteq group' /\ \A r \in group' : r \in group \/ r.owner = "static"
      BY <2>2
    <2> QED  BY <2>2, <2>3, EditStep
  <1>3. CASE \E r \in group : RemovedElsewhere(r)
    <2>1. PICK r \in group : RemovedElsewhere(r)
      BY <1>3
    <2>2. /\ UNCHANGED <<peers, rescue, monitor>> /\ group' = group \ {r}
          /\ op' = [op EXCEPT !.disturbed = TRUE]
      BY <2>1 DEF RemovedElsewhere
    <2> QED  BY <2>2, EditStep
  <1>4. CASE Restart
    <2>1. /\ op' = Idle /\ UNCHANGED <<group, peers, rescue>>
          /\ monitor' = monitor \/ monitor' = NotRunning
      BY <1>4 DEF Restart
    <2> QED  BY <2>1, EndStep
  <1>5. CASE TimePasses \/ Looks
    <2>1. /\ UNCHANGED <<op, group, peers>> /\ monitor' = monitor
          /\ \/ rescue' = rescue
             \/ rescue.active /\ rescue' = [rescue EXCEPT !.due = TRUE]
      BY <1>5 DEF TimePasses, Looks, Preview
    <2>2. MonitorFits'
      BY <2>1 DEF Inv, MonitorFits
    <2>3. CASE rescue' = rescue
      BY <2>1, <2>2, <2>3, QuietStep
    <2>4. CASE rescue' # rescue
      <3>1. rescue.active /\ rescue' = [rescue EXCEPT !.due = TRUE]
        BY <2>1, <2>4
      <3>2. rescue \in [active : BOOLEAN, due : BOOLEAN]
        BY DEF Inv, Closed
      <3>3. rescue' \in [active : {TRUE}, due : BOOLEAN]
        BY <3>1, <3>2
      <3> QED  BY <2>1, <2>2, <3>3, QuietStep
    <2> QED  BY <2>3, <2>4
  <1> QED  BY <1>1, <1>2, <1>3, <1>4, <1>5 DEF Around

\* Every step keeps the inductive invariant, and revokes only what it may.
LEMMA NextInv ==
  ASSUME Inv, [Next]_vars
  PROVE  Inv' /\ [AccessStep]_vars
PROOF
  <1>1. CASE Asks
    BY <1>1, AskStep, AskCleanupStep DEF Asks
  <1>2. CASE Operation
    BY <1>2, OperationStep
  <1>3. CASE Monitor
    BY <1>3, MonitorStep DEF Monitor
  <1>4. CASE Around \/ TimePasses \/ Looks
    BY <1>4, AroundStep
  <1>5. CASE UNCHANGED vars
    <2>1. UNCHANGED <<op, group, peers>> /\ rescue' = rescue /\ monitor' = monitor
      BY <1>5 DEF vars
    <2>2. MonitorFits'
      BY <2>1 DEF Inv, MonitorFits
    <2> QED  BY <2>1, <2>2, QuietStep
  <1> QED  BY <1>1, <1>2, <1>3, <1>4, <1>5 DEF Next

\* The group is as it was found.
LEMMA InitInv ==
  ASSUME Init
  PROVE  Inv
PROOF
  <1>1. RulesFit
    BY Addressing DEF Init, RulesFit
  <1>2. OpFits
    BY DEF Init, OpFits, Idle, Stages, Addresses
  <1>3. MonitorFits
    BY DEF Init, MonitorFits, NotRunning
  <1>4. Prepared /\ Decided
    BY DEF Init, Prepared, Decided, Idle
  <1>5. Closed
    BY DEF Init, Closed, LockedIsClosed, Idle
  <1> QED  BY <1>1, <1>2, <1>3, <1>4, <1>5 DEF Inv

\* Nobody whose address an operation works for loses a broad rule before there is one of
\* its own; only PaneFleet's own rules go, none of a peer that stayed connected, and a
\* cleanup revokes what was previewed or nothing; a rescue that is reported locked has no
\* broad rule left (server.js: cleanupSshRescueRules, lockSshRescueToCidrs,
\* expireSshRescue).
THEOREM AccessIsSafe == Spec => AccessSafe
PROOF
  <1>1. Init => Inv
    BY InitInv
  <1>2. Inv /\ [Next]_vars => Inv' /\ [AccessStep]_vars
    BY NextInv
  <1>3. Inv => LockedIsClosed
    BY DEF Inv, Closed
  <1> QED  BY <1>1, <1>2, <1>3, PTL DEF Spec, AccessSafe

--------------------------------------------------------------------------------
(* The device sessions: the inductive invariant.                                *)

Clock ==
  /\ now \in 0..MaxTime /\ created \in Nat /\ rest \in Nat
  /\ login.at \in 0..now /\ login.client \in Clients \union {"none"}
  /\ login # Devices!None => login.client \in Clients
  /\ login = [client |-> login.client, at |-> login.at]

\* What holds of a list of sessions, in memory or in the file: it is one the validator
\* takes, without the ones confirmed as revoked, and with each that a device was given
\* unless it has ended in one of the three ways.
Lasts(q, s, drawn, time, tries) ==
  \/ s.token \in DOMAIN q /\ q[s.token] = s.expires
  \/ s.expires <= time \/ s.token \in tries \/ drawn - s.token >= MaxSessions
Sessions(q, drawn, time, gone, owned, tries) ==
  /\ DOMAIN q \subseteq 1..drawn
  /\ Cardinality(DOMAIN q) <= MaxSessions
  /\ DOMAIN q \intersect gone = {}
  /\ \A s \in owned : Lasts(q, s, drawn, time, tries)

Tokens ==
  /\ revoked \subseteq 1..created
  /\ \A s \in given : s.token \in 1..created /\ s.expires \in Nat

Attempts == [nr : Nat, at : Nat]

\* The time by which an attempt must lie a window back to be forgotten: for the client
\* whose password is compared, the start of its sign-in.
Horizon(c) ==
  IF login # Devices!None /\ login.client = c THEN login.at
  ELSE IF failures[c].blockedUntil > now THEN failures[c].blockedUntil ELSE now

Counted(c) ==
  /\ tried[c] \subseteq Attempts /\ IsFiniteSet(tried[c])
  /\ \A a \in tried[c] : a.at <= now /\ a.nr \in 1..Cardinality(tried[c])
  /\ login # Devices!None => \A a \in tried[c] : a.at <= login.at
  /\ failures[c] = [attempts |-> failures[c].attempts,
                    blockedUntil |-> failures[c].blockedUntil]
  /\ failures[c].attempts \subseteq tried[c] /\ failures[c].blockedUntil \in Nat
  /\ Cardinality(failures[c].attempts) < MaxAttempts
  /\ \A a \in tried[c] \ failures[c].attempts : a.at + Window <= Horizon(c)
Within(T, from) == {a \in T : from <= a.at /\ a.at < from + Window}
Bounded(c) ==
  \A from \in 0..MaxTime : Cardinality(Within(tried[c], from)) <= MaxAttempts

DevicesInv ==
  /\ Clock /\ Tokens
  /\ Sessions(store, created, now, revoked, given, asked)
  /\ Sessions(file, created, now, revoked, given, asked)
  /\ DOMAIN failures = Clients /\ DOMAIN tried = Clients
  /\ \A c \in Clients : Counted(c) /\ Bounded(c)
--------------------------------------------------------------------------------
(* What the operations do to a list of sessions.                                *)

\* Sizes there are sizes here.
LEMMA SameSize == \A S : Devices!Cardinality(S) = Cardinality(S)
  BY DEF Devices!Cardinality, Cardinality

\* A set of numbers has a least one.
LEMMA LeastOfSome ==
  ASSUME NEW S \in SUBSET Nat, S # {}
  PROVE  \E i \in S : \A j \in S : i <= j
PROOF
  <1>1. \E x \in S : \A y \in S : ~(<<y, x>> \in OpToRel(<, Nat))
    BY NatLessThanWellFounded, WFMin
  <1>2. PICK x \in S : \A y \in S : ~(<<y, x>> \in OpToRel(<, Nat))
    BY <1>1
  <1>3. \A y \in S : ~(y < x)
    BY <1>2 DEF OpToRel
  <1> QED  BY <1>3

\* Of the tokens drawn so far only so many are newer than one.
LEMMA NewerFew ==
  ASSUME NEW q, NEW n \in Nat, DOMAIN q \subseteq 1..n, NEW t \in 1..n
  PROVE  /\ IsFiniteSet(Devices!Newer(q, t))
         /\ Cardinality(Devices!Newer(q, t)) <= n - t
PROOF
  <1>1. Devices!Newer(q, t) \in SUBSET ((t + 1)..n)
    BY DEF Devices!Newer
  <1>2. IsFiniteSet((t + 1)..n) /\ Cardinality((t + 1)..n) = n - t
    BY FS_Interval
  <1> QED  BY <1>1, <1>2, FS_Subset, FS_CardinalityType

\* The newest are sessions of the list and no more than MaxSessions; one that is left out
\* has as many newer ones.
LEMMA NewestFew ==
  ASSUME Devices!Limits, NEW q, NEW n \in Nat, DOMAIN q \subseteq 1..n
  PROVE  LET new == Devices!Newest(q)
         IN  /\ DOMAIN new \subseteq DOMAIN q
             /\ \A t \in DOMAIN new : new[t] = q[t]
             /\ \A t \in DOMAIN q \ DOMAIN new : n - t >= MaxSessions
             /\ Cardinality(DOMAIN new) <= MaxSessions
PROOF
  <1> DEFINE new == Devices!Newest(q)
             N == {t \in DOMAIN q : Cardinality(Devices!Newer(q, t)) < MaxSessions}
  <1>1. DOMAIN new = N /\ \A t \in DOMAIN new : new[t] = q[t]
    <2>1. new = [t \in N |-> q[t]]
      BY SameSize DEF Devices!Newest, Devices!Kept
    <2> HIDE DEF new, N
    <2> QED  BY <2>1
  <1>2. MaxSessions \in Nat \ {0}
    BY DEF Devices!Limits
  <1>3. ASSUME NEW t \in DOMAIN q \ N
        PROVE  n - t >= MaxSessions
    <2>1. /\ IsFiniteSet(Devices!Newer(q, t)) /\ Cardinality(Devices!Newer(q, t)) <= n - t
          /\ t \in 1..n
      BY NewerFew
    <2>2. Cardinality(Devices!Newer(q, t)) \in Nat
      BY <2>1, FS_CardinalityType
    <2>3. ~(Cardinality(Devices!Newer(q, t)) < MaxSessions)
      OBVIOUS
    <2> QED  BY <1>2, <2>1, <2>2, <2>3
  <1>4. Cardinality(N) <= MaxSessions
    <2>1. IsFiniteSet(1..n) /\ N \in SUBSET (1..n) /\ N \in SUBSET Nat
      BY FS_Interval
    <2>2. IsFiniteSet(N) /\ Cardinality(N) \in Nat
      BY <2>1, FS_Subset, FS_CardinalityType
    <2>3. CASE N = {}
      <3> HIDE DEF N
      <3> QED  BY <1>2, <2>3, FS_EmptySet
    <2>4. CASE N # {}
      <3>1. PICK m \in N : \A t \in N : m <= t
        <4> HIDE DEF N
        <4> QED  BY <2>1, <2>4, LeastOfSome
      <3>2. N \ {m} \in SUBSET Devices!Newer(q, m)
        <4>1. \A t \in N : t \in Nat /\ t \in DOMAIN q
          BY <2>1
        <4> HIDE DEF N
        <4> QED  BY <3>1, <4>1 DEF Devices!Newer
      <3>3. /\ IsFiniteSet(Devices!Newer(q, m)) /\ Cardinality(Devices!Newer(q, m)) \in Nat
            /\ Cardinality(Devices!Newer(q, m)) < MaxSessions
        BY NewerFew, FS_CardinalityType
      <3> HIDE DEF N
      <3>4. /\ Cardinality(N \ {m}) <= Cardinality(Devices!Newer(q, m))
            /\ Cardinality(N \ {m}) = Cardinality(N) - 1
        BY <2>2, <3>1, <3>2, <3>3, FS_Subset, FS_RemoveElement
      <3> QED  BY <1>2, <2>2, <3>3, <3>4
    <2> QED  BY <2>3, <2>4
  <1> HIDE DEF N, new
  <1>5. /\ DOMAIN new \subseteq DOMAIN q
        /\ \A t \in DOMAIN q \ DOMAIN new : n - t >= MaxSessions
        /\ Cardinality(DOMAIN new) <= MaxSessions
    BY <1>1, <1>3, <1>4 DEF N
  <1> QED  BY <1>1, <1>5 DEF new

\* Fewer sessions, of which none but the expired ones or those asked about is missed.
LEMMA FewerSessions ==
  ASSUME Devices!Limits, NEW q, NEW r, NEW drawn \in Nat, NEW time \in Nat, NEW gone, NEW owned, NEW tries,
         Sessions(q, drawn, time, gone, owned, tries),
         DOMAIN r \subseteq DOMAIN q, \A t \in DOMAIN r : r[t] = q[t],
         NEW others, \A t \in DOMAIN q \ DOMAIN r : q[t] <= time \/ t \in others,
         NEW lost, DOMAIN r \intersect lost = {}
  PROVE  Sessions(r, drawn, time, gone \union lost, owned, tries \union others)
PROOF
  <1>1. /\ DOMAIN r \subseteq 1..drawn /\ DOMAIN q \subseteq 1..drawn
        /\ DOMAIN r \intersect (gone \union lost) = {}
    BY DEF Sessions
  <1>2. Cardinality(DOMAIN r) <= MaxSessions
    <2>1. IsFiniteSet(DOMAIN q) /\ Cardinality(DOMAIN q) <= MaxSessions
      <3>1. IsFiniteSet(1..drawn) /\ DOMAIN q \in SUBSET (1..drawn)
        BY <1>1, FS_Interval
      <3> QED  BY <3>1, FS_Subset DEF Sessions
    <2>2. Cardinality(DOMAIN r) <= Cardinality(DOMAIN q)
      BY <2>1, FS_Subset
    <2>3. Cardinality(DOMAIN r) \in Nat /\ Cardinality(DOMAIN q) \in Nat
      BY <2>1, FS_Subset, FS_CardinalityType
    <2>4. MaxSessions \in Nat
      BY DEF Devices!Limits
    <2> QED  BY <2>1, <2>2, <2>3, <2>4
  <1>3. ASSUME NEW s \in owned
        PROVE  Lasts(r, s, drawn, time, tries \union others)
    BY DEF Sessions, Lasts
  <1> QED  BY <1>1, <1>2, <1>3 DEF Sessions

\* Time, tokens and attempts at revocation go on.
LEMMA SessionsLater ==
  ASSUME Devices!Limits, NEW q, NEW drawn \in Nat, NEW time \in Nat, NEW gone, NEW owned, NEW tries,
         Sessions(q, drawn, time, gone, owned, tries),
         \A s \in owned : s.token \in 1..drawn /\ s.expires \in Nat,
         NEW drawn2 \in Nat, drawn <= drawn2, NEW time2 \in Nat, time <= time2,
         NEW tries2, tries \subseteq tries2
  PROVE  Sessions(q, drawn2, time2, gone, owned, tries2)
PROOF
  <1>1. MaxSessions \in Nat
    BY DEF Devices!Limits
  <1>2. ASSUME NEW s \in owned
        PROVE  Lasts(q, s, drawn2, time2, tries2)
    <2>1. s.token \in 1..drawn /\ s.expires \in Nat /\ Lasts(q, s, drawn, time, tries)
      BY DEF Sessions
    <2> QED  BY <1>1, <2>1 DEF Lasts
  <1>3. DOMAIN q \subseteq 1..drawn2
    BY DEF Sessions
  <1> QED  BY <1>2, <1>3 DEF Sessions

\* A session that was expired when the sign-in began is so when it ends.
LEMMA SessionsActive ==
  ASSUME Devices!Limits, NEW q, NEW drawn \in Nat, NEW time \in Nat, NEW gone, NEW owned, NEW tries,
         Sessions(q, drawn, time, gone, owned, tries),
         \A s \in owned : s.token \in 1..drawn /\ s.expires \in Nat,
         NEW at \in 0..time
  PROVE  Sessions(Devices!Active(q, at), drawn, time, gone, owned, tries)
PROOF
  <1> DEFINE r == Devices!Active(q, at)
  <1>1. /\ DOMAIN r = {t \in DOMAIN q : q[t] > at}
        /\ \A t \in DOMAIN r : r[t] = q[t]
    BY DEF Devices!Active, Devices!Kept
  <1>2. /\ DOMAIN r \subseteq 1..drawn
        /\ DOMAIN r \intersect gone = {}
    BY <1>1 DEF Sessions
  <1>3. Cardinality(DOMAIN r) <= MaxSessions
    <2>1. IsFiniteSet(DOMAIN q) /\ Cardinality(DOMAIN q) <= MaxSessions
      <3>1. IsFiniteSet(1..drawn) /\ DOMAIN q \in SUBSET (1..drawn)
        BY FS_Interval DEF Sessions
      <3> QED  BY <3>1, FS_Subset DEF Sessions
    <2>2. DOMAIN r \in SUBSET DOMAIN q
      BY <1>1
    <2> HIDE DEF r
    <2>3. /\ Cardinality(DOMAIN r) <= Cardinality(DOMAIN q)
          /\ Cardinality(DOMAIN r) \in Nat /\ Cardinality(DOMAIN q) \in Nat
      BY <2>1, <2>2, FS_Subset, FS_CardinalityType
    <2>4. MaxSessions \in Nat
      BY DEF Devices!Limits
    <2> QED  BY <2>1, <2>3, <2>4
  <1>4. ASSUME NEW s \in owned
        PROVE  Lasts(r, s, drawn, time, tries)
    <2>1. s.token \in 1..drawn /\ s.expires \in Nat /\ Lasts(q, s, drawn, time, tries)
      BY DEF Sessions
    <2>2. CASE s.token \in DOMAIN q /\ q[s.token] = s.expires /\ s.expires > at
      BY <1>1, <2>2 DEF Lasts
    <2>3. CASE s.token \in DOMAIN q /\ q[s.token] = s.expires /\ ~(s.expires > at)
      BY <2>1, <2>3 DEF Lasts
    <2>4. CASE ~(s.token \in DOMAIN q /\ q[s.token] = s.expires)
      BY <2>1, <2>4 DEF Lasts
    <2> QED  BY <2>2, <2>3, <2>4
  <1> HIDE DEF r
  <1>5. Sessions(r, drawn, time, gone, owned, tries)
    BY <1>2, <1>3, <1>4 DEF Sessions
  <1> QED  BY <1>5 DEF r

\* A sign-in adds its session and makes room: who has to go has MaxSessions newer ones.
LEMMA SessionsGiven ==
  ASSUME Devices!Limits, NEW q, NEW drawn \in Nat, NEW time \in Nat, NEW gone, NEW owned, NEW tries,
         Sessions(q, drawn, time, gone, owned, tries), gone \subseteq 1..drawn,
         \A s \in owned : s.token \in 1..drawn /\ s.expires \in Nat,
         NEW s0, s0.token = drawn + 1
  PROVE  Sessions(Devices!Newest(Devices!With(q, s0)), drawn + 1, time, gone,
                  owned \union {s0}, tries)
PROOF
  <1> DEFINE w == Devices!With(q, s0)
             r == Devices!Newest(w)
  <1>0. MaxSessions \in Nat \ {0}
    BY DEF Devices!Limits
  <1>1. /\ DOMAIN q \subseteq 1..drawn /\ DOMAIN w = DOMAIN q \union {drawn + 1}
        /\ w[drawn + 1] = s0.expires /\ \A t \in DOMAIN q : w[t] = q[t]
    BY DEF Sessions, Devices!With
  <1>2. DOMAIN w \subseteq 1..(drawn + 1) /\ drawn + 1 \in Nat
    BY <1>1
  <1> HIDE DEF w
  <1>3. /\ DOMAIN r \subseteq DOMAIN w /\ \A t \in DOMAIN r : r[t] = w[t]
        /\ \A t \in DOMAIN w \ DOMAIN r : drawn + 1 - t >= MaxSessions
        /\ Cardinality(DOMAIN r) <= MaxSessions
    BY <1>2, NewestFew
  <1> HIDE DEF r
  <1>4. DOMAIN r \intersect gone = {}
    BY <1>1, <1>3 DEF Sessions
  <1>5. ASSUME NEW s \in owned
        PROVE  Lasts(r, s, drawn + 1, time, tries)
    <2>1. s.token \in 1..drawn /\ s.expires \in Nat /\ Lasts(q, s, drawn, time, tries)
      BY DEF Sessions
    <2>2. CASE s.token \in DOMAIN q /\ q[s.token] = s.expires
      BY <1>1, <1>3, <2>1, <2>2 DEF Lasts
    <2>3. CASE ~(s.token \in DOMAIN q /\ q[s.token] = s.expires)
      BY <1>0, <2>1, <2>3 DEF Lasts
    <2> QED  BY <2>2, <2>3
  <1>6. Lasts(r, s0, drawn + 1, time, tries)
    <2>1. CASE drawn + 1 \in DOMAIN r
      BY <1>1, <1>3, <2>1 DEF Lasts
    <2>2. CASE drawn + 1 \notin DOMAIN r
      BY <1>0, <1>1, <1>3, <2>2 DEF Lasts
    <2> QED  BY <2>1, <2>2
  <1>7. Sessions(r, drawn + 1, time, gone, owned \union {s0}, tries)
    BY <1>2, <1>3, <1>4, <1>5, <1>6 DEF Sessions
  <1> QED  BY <1>7 DEF r, w

--------------------------------------------------------------------------------
(* What a wrong password does to the attempts of its client.                    *)

LEMMA OneMoreAttempt ==
  ASSUME Devices!Limits, NEW T \in SUBSET Attempts, IsFiniteSet(T), NEW F \in SUBSET T,
         NEW x \in Attempts, x.nr = Cardinality(T) + 1,
         \A a \in T : a.at <= x.at /\ a.nr \in 1..Cardinality(T),
         \A a \in T \ F : a.at + Window <= x.at, Cardinality(F) < MaxAttempts,
         \A from \in 0..MaxTime : Cardinality(Within(T, from)) <= MaxAttempts
  PROVE  LET at == x.at
             G == Devices!Recent(F, at) \union {x}
         IN
         /\ T \union {x} \in SUBSET Attempts /\ IsFiniteSet(T \union {x})
         /\ \A a \in T \union {x} : a.at <= at /\ a.nr \in 1..Cardinality(T \union {x})
         /\ G \subseteq T \union {x} /\ IsFiniteSet(G)
         /\ \A a \in (T \union {x}) \ G : a.at + Window <= at
         /\ \A from \in 0..MaxTime : Cardinality(Within(T \union {x}, from)) <= MaxAttempts
PROOF
  <1> DEFINE at == x.at
             G == Devices!Recent(F, at) \union {x}
  <1>0. at \in Nat
    BY DEF Attempts
  <1>1. /\ Window \in Nat /\ MaxAttempts \in Nat \ {0} /\ MaxTime \in Nat
    BY DEF Devices!Limits
  <1>2. /\ Cardinality(T) \in Nat /\ IsFiniteSet(F) /\ Cardinality(F) \in Nat
    BY FS_CardinalityType, FS_Subset
  <1> HIDE DEF at
  <1>3. x \in Attempts /\ x.at = at /\ x.nr = Cardinality(T) + 1 /\ x \notin T
    BY <1>2 DEF at
  <1>4. /\ T \union {x} \in SUBSET Attempts /\ IsFiniteSet(T \union {x})
        /\ Cardinality(T \union {x}) = Cardinality(T) + 1
    BY <1>3, FS_AddElement
  <1> HIDE DEF G
  <1>5. \A a \in T \union {x} : a.at <= at /\ a.nr \in 1..Cardinality(T \union {x})
    BY <1>0, <1>2, <1>3, <1>4 DEF at
  <1> DEFINE R == Devices!Recent(F, at)
  <1>6. R \in SUBSET F /\ \A a \in F : a \in R <=> a.at > at - Window
    BY DEF Devices!Recent
  <1> HIDE DEF R
  <1>7. /\ G = R \union {x} /\ G \subseteq T \union {x} /\ IsFiniteSet(R) /\ IsFiniteSet(G)
        /\ Cardinality(R) <= Cardinality(F) /\ Cardinality(R) \in Nat
        /\ Cardinality(G) = Cardinality(R) + 1
    <2>1. G = R \union {x}
      BY DEF R, G
    <2>2. /\ IsFiniteSet(R) /\ Cardinality(R) <= Cardinality(F) /\ Cardinality(R) \in Nat
          /\ x \notin R
      BY <1>2, <1>3, <1>6, FS_Subset, FS_CardinalityType
    <2>3. IsFiniteSet(R \union {x}) /\ Cardinality(R \union {x}) = Cardinality(R) + 1
      BY <2>2, FS_AddElement
    <2> QED  BY <1>6, <2>1, <2>2, <2>3
  <1>8. ASSUME NEW a \in (T \union {x}) \ G
        PROVE  a.at + Window <= at
    <2>1. a \in T /\ a \notin R /\ a.at \in Nat
      BY <1>7 DEF Attempts
    <2> QED  BY <1>0, <1>1, <1>6, <2>1 DEF at
  <1>9. ASSUME NEW from \in 0..MaxTime
        PROVE  Cardinality(Within(T \union {x}, from)) <= MaxAttempts
    <2>1. CASE x \notin Within(T \union {x}, from)
      <3>1. Within(T \union {x}, from) = Within(T, from)
        BY <2>1 DEF Within
      <3> QED  BY <3>1
    <2>2. CASE x \in Within(T \union {x}, from)
      <3>1. from > at - Window
        BY <1>0, <1>1, <1>3, <2>2 DEF Within
      <3>2. Within(T \union {x}, from) \in SUBSET G
        <4>1. ASSUME NEW a \in Within(T \union {x}, from)
              PROVE  a \in G
          <5>1. a \in T \union {x} /\ from <= a.at /\ a.at \in Nat
            BY <1>4 DEF Within, Attempts
          <5>2. ~(a.at + Window <= at)
            BY <1>0, <1>1, <3>1, <5>1
          <5> QED  BY <1>8, <5>1, <5>2
        <4> QED  BY <4>1
      <3>3. Cardinality(Within(T \union {x}, from)) <= Cardinality(G)
        BY <1>7, <3>2, FS_Subset
      <3>4. Cardinality(Within(T \union {x}, from)) \in Nat
        BY <1>7, <3>2, FS_Subset, FS_CardinalityType
      <3> QED  BY <1>1, <1>2, <1>7, <3>3, <3>4
    <2> QED  BY <2>1, <2>2
  <1> QED  BY <1>4, <1>5, <1>7, <1>8, <1>9 DEF at, G

--------------------------------------------------------------------------------
(* The steps of the device sessions.                                            *)

\* What a step may leave as it is.
Attempting == \A c \in Clients : Counted(c) /\ Bounded(c)
Lists ==
  /\ Sessions(store, created, now, revoked, given, asked)
  /\ Sessions(file, created, now, revoked, given, asked)

LEMMA DevicesInit ==
  ASSUME Devices!Limits, Devices!Init
  PROVE  DevicesInv
PROOF
  <1> USE DEF Devices!Init
  <1>1. /\ MaxSessions \in Nat \ {0} /\ MaxAttempts \in Nat \ {0} /\ MaxTime \in Nat
        /\ Window \in Nat /\ MaxFaults \in Nat /\ "none" \notin Clients
    BY DEF Devices!Limits
  <1>2. Clock
    BY <1>1 DEF Clock, Devices!None
  <1>3. Tokens
    BY DEF Tokens
  <1>4. Sessions(store, created, now, revoked, given, asked) /\ store = file
    <2>1. DOMAIN store = {} /\ Cardinality({}) = 0
      BY FS_EmptySet DEF Devices!NoSessions
    <2> QED  BY <1>1, <2>1 DEF Sessions, Devices!NoSessions
  <1>5. ASSUME NEW c \in Clients
        PROVE  Counted(c) /\ Bounded(c)
    <2>1. /\ tried[c] = {} /\ failures[c] = [attempts |-> {}, blockedUntil |-> 0]
          /\ IsFiniteSet({}) /\ Cardinality({}) = 0
      BY FS_EmptySet DEF Devices!NoFailures
    <2>2. \A from : Within({}, from) = {}
      BY DEF Within
    <2> QED  BY <1>1, <2>1, <2>2 DEF Counted, Bounded
  <1> QED  BY <1>2, <1>3, <1>4, <1>5 DEF DevicesInv

\* While the lists, the tokens and what is known of them stay, so does what is said.
LEMMA ListsStay ==
  ASSUME Devices!Limits, DevicesInv, UNCHANGED <<store, file, created, revoked, given, asked>>,
         now' \in Nat, now <= now'
  PROVE  Lists' /\ Tokens'
PROOF
  <1>1. /\ created \in Nat /\ now \in Nat
        /\ \A s \in given : s.token \in 1..created /\ s.expires \in Nat
    BY DEF DevicesInv, Clock, Tokens
  <1>2. /\ Sessions(store, created, now', revoked, given, asked)
        /\ Sessions(file, created, now', revoked, given, asked)
    BY <1>1, SessionsLater DEF DevicesInv
  <1> QED  BY <1>2 DEF Lists, Tokens, DevicesInv

LEMMA LoginBeginsKeeps ==
  ASSUME Devices!Limits, DevicesInv, NEW c \in Clients, Devices!LoginBegins(c)
  PROVE  DevicesInv'
PROOF
  <1> USE DEF Devices!LoginBegins
  <1>1. /\ MaxAttempts \in Nat \ {0} /\ Window \in Nat /\ "none" \notin Clients
        /\ MaxTime \in Nat
    BY DEF Devices!Limits
  <1>2. Clock'
    BY DEF DevicesInv, Clock
  <1>3. Lists' /\ Tokens'
    <2>1. now' \in Nat /\ now <= now'
      BY DEF DevicesInv, Clock
    <2> QED  BY <2>1, ListsStay
  <1>4. /\ DOMAIN failures' = Clients /\ DOMAIN tried' = Clients /\ now \in Nat
        /\ login = Devices!None /\ login' # Devices!None
        /\ login' = [client |-> c, at |-> now]
    BY <1>1 DEF DevicesInv, Clock, Devices!None
  <1>5. ASSUME NEW d \in Clients
        PROVE  Counted(d)' /\ Bounded(d)'
    <2>1. Counted(d) /\ Bounded(d) /\ tried'[d] = tried[d]
      BY DEF DevicesInv
    <2>2. Bounded(d)'
      BY <2>1 DEF Bounded
    <2>3. \A a \in tried'[d] : a.at <= now /\ a.at \in Nat
      BY <2>1 DEF Counted, Attempts
    <2>4. CASE d # c
      <3>1. failures'[d] = failures[d] /\ Horizon(d)' = Horizon(d)
        BY <1>4, <2>4 DEF Horizon, DevicesInv
      <3> QED  BY <1>4, <2>1, <2>2, <2>3, <3>1 DEF Counted
    <2>5. CASE d = c
      <3> DEFINE F == failures[d].attempts
                 R == Devices!Recent(F, now)
      <3>1. failures'[d] = [attempts |-> R, blockedUntil |-> 0]
        BY <2>5 DEF DevicesInv
      <3>2. R \in SUBSET F /\ \A a \in F \ R : ~(a.at > now - Window)
        BY DEF Devices!Recent
      <3>3. Horizon(d)' = now /\ Horizon(d) = now
        BY <1>4, <2>5 DEF Horizon, Devices!Limited
      <3> HIDE DEF R, F
      <3>4. /\ F \subseteq tried[d] /\ Cardinality(R) < MaxAttempts
        <4>1. F \subseteq tried[d] /\ IsFiniteSet(F) /\ Cardinality(F) < MaxAttempts
          BY <2>1, FS_Subset DEF Counted, F
        <4> QED  BY <1>1, <3>2, <4>1, FS_Subset, FS_CardinalityType
      <3>5. \A a \in tried[d] \ R : a.at + Window <= now
        <4>1. \A a \in tried[d] \ F : a.at + Window <= now
          BY <2>1, <3>3 DEF Counted, F
        <4> QED  BY <1>1, <1>4, <2>1, <2>3, <3>2, <4>1
      <3> QED  BY <1>4, <2>1, <2>2, <2>3, <3>1, <3>2, <3>3, <3>4, <3>5 DEF Counted
    <2> QED  BY <2>4, <2>5
  <1> QED  BY <1>2, <1>3, <1>4, <1>5 DEF DevicesInv, Lists

LEMMA LoginFailsKeeps ==
  ASSUME Devices!Limits, DevicesInv, Devices!LoginFails
  PROVE  DevicesInv'
PROOF
  <1>0. PICK c \in Clients : c = login.client
    BY DEF Devices!LoginFails, DevicesInv, Clock
  <1> DEFINE T == tried[c]
             F == failures[c].attempts
             x == [nr |-> Cardinality(T) + 1, at |-> login.at]
             G == Devices!Recent(F, login.at) \union {x}
             U == T \union {x}
  <1>1. /\ MaxAttempts \in Nat \ {0} /\ Window \in Nat /\ Block \in Nat /\ Window <= Block
        /\ "none" \notin Clients /\ MaxTime \in Nat
    BY DEF Devices!Limits
  <1>2. /\ login.at \in Nat /\ now \in Nat /\ login.at <= now
        /\ login # Devices!None /\ login' = Devices!None /\ now' = now
    BY DEF Devices!LoginFails, DevicesInv, Clock
  <1>3. Clock'
    BY <1>2 DEF Devices!LoginFails, DevicesInv, Clock, Devices!None
  <1>4. Lists' /\ Tokens'
    BY <1>2, ListsStay DEF Devices!LoginFails
  <1>5. /\ DOMAIN failures' = Clients /\ DOMAIN tried' = Clients
        /\ \A d \in Clients \ {c} : failures'[d] = failures[d] /\ tried'[d] = tried[d]
        /\ tried'[c] = U
        /\ failures'[c] = IF Cardinality(G) >= MaxAttempts
                          THEN [attempts |-> {}, blockedUntil |-> login.at + Block]
                          ELSE [attempts |-> G, blockedUntil |-> 0]
    BY <1>0, <1>2, SameSize DEF Devices!LoginFails, DevicesInv
  <1>6. Counted(c) /\ Bounded(c) /\ Horizon(c) = login.at
    BY <1>0, <1>2 DEF DevicesInv, Horizon
  <1>7. /\ U \in SUBSET Attempts /\ IsFiniteSet(U)
        /\ \A a \in U : a.at <= login.at /\ a.nr \in 1..Cardinality(U)
        /\ G \subseteq U /\ IsFiniteSet(G)
        /\ \A a \in U \ G : a.at + Window <= login.at
        /\ \A from \in 0..MaxTime : Cardinality(Within(U, from)) <= MaxAttempts
    <2>1. /\ T \in SUBSET Attempts /\ IsFiniteSet(T) /\ F \in SUBSET T
          /\ \A a \in T : a.at <= login.at /\ a.nr \in 1..Cardinality(T)
          /\ \A a \in T \ F : a.at + Window <= login.at
          /\ Cardinality(F) < MaxAttempts
          /\ \A from \in 0..MaxTime : Cardinality(Within(T, from)) <= MaxAttempts
      BY <1>2, <1>6 DEF Counted, Bounded
    <2>2. x \in Attempts /\ x.nr = Cardinality(T) + 1 /\ x.at = login.at
      BY <1>2, <2>1, FS_CardinalityType DEF Attempts
    <2>3. G = Devices!Recent(F, x.at) \union {x}
      OBVIOUS
    <2> HIDE DEF T, F, x, G
    <2> QED  BY <1>2, <2>1, <2>2, <2>3, OneMoreAttempt DEF U
  <1>8. \A a \in U : a.at \in Nat /\ a.at + Window <= login.at + Block
    <2>1. \A a \in U : a.at \in Nat /\ a.at <= login.at
      BY <1>7 DEF Attempts
    <2> HIDE DEF U
    <2> QED  BY <1>1, <1>2, <2>1
  <1>9. Cardinality(G) \in Nat
    BY <1>7, FS_CardinalityType
  <1> HIDE DEF T, F, x, G, U
  <1>10. U \subseteq Attempts /\ IsFiniteSet(U)
    BY <1>7
  <1>11. \A a \in U : a.nr \in 1..Cardinality(U)
    BY <1>7
  <1>12. Counted(c)' /\ Bounded(c)'
    <2>1. Bounded(c)'
      BY <1>2, <1>5, <1>7 DEF Bounded
    <2>2. CASE Cardinality(G) >= MaxAttempts
      <3>1. failures'[c] = [attempts |-> {}, blockedUntil |-> login.at + Block]
        BY <1>5, <2>2
      <3>2. /\ Horizon(c)' >= login.at + Block /\ Horizon(c)' \in Nat
        BY <1>1, <1>2, <3>1 DEF Horizon
      <3>3. \A a \in U : a.at + Window <= Horizon(c)'
        BY <1>1, <1>2, <1>8, <3>2
      <3>4. Cardinality({}) = 0 /\ \A a \in U : a.at <= now
        BY <1>2, <1>7, <1>8, FS_EmptySet
      <3>5. /\ failures'[c].attempts = {} /\ failures'[c].blockedUntil = login.at + Block
            /\ login.at + Block \in Nat /\ failures'[c] = [attempts |-> failures'[c].attempts,
                                            blockedUntil |-> failures'[c].blockedUntil]
        BY <1>1, <1>2, <3>1
      <3>6. \A a \in U \ {} : a.at + Window <= Horizon(c)'
        BY <3>3
      <3>7. {} \subseteq U /\ 0 < MaxAttempts
        BY <1>1
      <3> QED  BY <1>2, <1>5, <1>10, <1>11, <2>1, <3>4, <3>5, <3>6, <3>7 DEF Counted
    <2>3. CASE ~(Cardinality(G) >= MaxAttempts)
      <3>1. failures'[c] = [attempts |-> G, blockedUntil |-> 0]
        BY <1>5, <2>3
      <3>2. Horizon(c)' = now
        BY <1>2, <3>1 DEF Horizon
      <3>3. \A a \in U \ G : a.at + Window <= Horizon(c)'
        BY <1>1, <1>2, <1>7, <1>8, <3>2
      <3>4. Cardinality(G) < MaxAttempts /\ \A a \in U : a.at <= now
        BY <1>1, <1>2, <1>7, <1>8, <1>9, <2>3
      <3>5. /\ failures'[c].attempts = G /\ failures'[c].blockedUntil = 0 /\ 0 \in Nat
            /\ failures'[c] = [attempts |-> failures'[c].attempts,
                               blockedUntil |-> failures'[c].blockedUntil]
        BY <3>1
      <3>6. G \subseteq U
        BY <1>7
      <3> QED  BY <1>2, <1>5, <1>10, <1>11, <2>1, <3>3, <3>4, <3>5, <3>6 DEF Counted
    <2> QED  BY <2>2, <2>3
  <1>13. ASSUME NEW d \in Clients \ {c}
         PROVE  Counted(d)' /\ Bounded(d)'
    <2>1. Counted(d) /\ Bounded(d) /\ failures'[d] = failures[d] /\ tried'[d] = tried[d]
      BY <1>5 DEF DevicesInv
    <2>2. Horizon(d)' = Horizon(d)
      BY <1>0, <1>2, <2>1 DEF Horizon
    <2> QED  BY <1>2, <2>1, <2>2 DEF Counted, Bounded
  <1> QED  BY <1>3, <1>4, <1>5, <1>12, <1>13 DEF DevicesInv, Lists

LEMMA LoginSucceedsKeeps ==
  ASSUME Devices!Limits, DevicesInv, NEW fails \in BOOLEAN, NEW replaced \in BOOLEAN,
         Devices!LoginSucceeds(fails, replaced)
  PROVE  DevicesInv'
PROOF
  <1>0. PICK c \in Clients : c = login.client /\ login # Devices!None
    BY DEF Devices!LoginSucceeds, DevicesInv, Clock
  <1> DEFINE s0 == [token |-> created + 1, expires |-> login.at + Lifetime]
             new == Devices!Newest(Devices!With(Devices!Active(store, login.at), s0))
  <1> USE DEF Devices!LoginSucceeds
  <1>1. /\ MaxAttempts \in Nat \ {0} /\ Window \in Nat /\ "none" \notin Clients
        /\ MaxTime \in Nat /\ Lifetime \in Nat
    BY DEF Devices!Limits
  <1>2. /\ login.at \in 0..now /\ now \in Nat /\ created \in Nat
        /\ login' = Devices!None /\ now' = now /\ created' = created + 1
        /\ revoked' = revoked /\ asked' = asked
        /\ revoked \subseteq 1..created
        /\ \A s \in given : s.token \in 1..created /\ s.expires \in Nat
    BY DEF DevicesInv, Clock, Tokens
  <1>3. Clock'
    BY <1>2 DEF DevicesInv, Clock, Devices!None, Devices!Written
  <1>4. /\ s0.token = created + 1 /\ s0.expires \in Nat
        /\ given' \in {given, given \union {s0}}
    BY <1>1, <1>2
  <1>5. Tokens'
    BY <1>2, <1>4 DEF Tokens
  <1>6. \/ given' = given /\ store' = store /\ file' \in {file, new}
        \/ given' = given \union {s0} /\ store' = new /\ file' = new
    BY DEF Devices!Written
  <1> HIDE DEF s0
  <1>7. Sessions(new, created + 1, now, revoked, given \union {s0}, asked)
    <2>1. Sessions(Devices!Active(store, login.at), created, now, revoked, given, asked)
      BY <1>2, SessionsActive DEF DevicesInv
    <2> QED  BY <1>2, <1>4, <2>1, SessionsGiven
  <1> HIDE DEF new
  <1>8. Sessions(new, created + 1, now, revoked, given, asked)
    BY <1>7 DEF Sessions
  <1>9. /\ Sessions(store, created + 1, now, revoked, given, asked)
        /\ Sessions(file, created + 1, now, revoked, given, asked)
    BY <1>2, SessionsLater DEF DevicesInv
  <1>10. Lists'
    <2>1. CASE given' = given /\ store' = store /\ file' = file
      BY <1>2, <1>9, <2>1 DEF Lists
    <2>2. CASE given' = given /\ store' = store /\ file' = new
      BY <1>2, <1>8, <1>9, <2>2 DEF Lists
    <2>3. CASE given' = given \union {s0} /\ store' = new /\ file' = new
      BY <1>2, <1>7, <2>3 DEF Lists
    <2> QED  BY <1>6, <2>1, <2>2, <2>3
  <1>11. /\ DOMAIN failures' = Clients /\ DOMAIN tried' = Clients
         /\ \A d \in Clients \ {c} : failures'[d] = failures[d] /\ tried'[d] = tried[d]
         /\ tried'[c] = {} /\ failures'[c] = [attempts |-> {}, blockedUntil |-> 0]
    BY <1>0 DEF DevicesInv, Devices!NoFailures
  <1>12. Counted(c)' /\ Bounded(c)'
    <2>1. IsFiniteSet({}) /\ Cardinality({}) = 0 /\ \A from : Within({}, from) = {}
      BY FS_EmptySet DEF Within
    <2> QED  BY <1>1, <1>11, <2>1 DEF Counted, Bounded
  <1>13. ASSUME NEW d \in Clients \ {c}
         PROVE  Counted(d)' /\ Bounded(d)'
    <2>1. Counted(d) /\ Bounded(d) /\ failures'[d] = failures[d] /\ tried'[d] = tried[d]
      BY <1>11 DEF DevicesInv
    <2>2. Horizon(d)' = Horizon(d)
      BY <1>0, <1>2, <2>1 DEF Horizon
    <2> QED  BY <1>2, <2>1, <2>2 DEF Counted, Bounded
  <1> QED  BY <1>3, <1>5, <1>10, <1>11, <1>12, <1>13 DEF DevicesInv, Lists

\* What a step does not touch of the attempts.
LEMMA AttemptsStay ==
  ASSUME DevicesInv, UNCHANGED <<failures, login, tried, now>>
  PROVE  Attempting' /\ DOMAIN failures' = Clients /\ DOMAIN tried' = Clients
PROOF
  <1>1. ASSUME NEW c \in Clients
        PROVE  Counted(c)' /\ Bounded(c)'
    <2>1. Counted(c) /\ Bounded(c) /\ Horizon(c)' = Horizon(c)
      BY DEF DevicesInv, Horizon
    <2> QED  BY <2>1 DEF Counted, Bounded
  <1> QED  BY <1>1 DEF Attempting, DevicesInv

LEMMA RevokeKeeps ==
  ASSUME Devices!Limits, DevicesInv, NEW token \in 1..created, NEW fails \in BOOLEAN,
         NEW replaced \in BOOLEAN, Devices!Revoke(token, fails, replaced)
  PROVE  DevicesInv'
PROOF
  <1> DEFINE new == Devices!Without(store, token)
  <1> USE DEF Devices!Revoke
  <1>1. Attempting' /\ DOMAIN failures' = Clients /\ DOMAIN tried' = Clients
    BY AttemptsStay
  <1>2. Clock'
    BY DEF DevicesInv, Clock, Devices!Written
  <1>3. Tokens'
    BY DEF DevicesInv, Tokens
  <1>4. /\ now \in Nat /\ created \in Nat /\ now' = now /\ created' = created /\ given' = given
        /\ asked' = asked \union {token}
        /\ \A s \in given : s.token \in 1..created /\ s.expires \in Nat
    BY DEF DevicesInv, Clock, Tokens
  <1>5. \/ revoked' = revoked /\ store' = store /\ file' \in {file, new}
        \/ revoked' = revoked \union {token} /\ store' = new /\ file' = new
    BY DEF Devices!Written
  <1>6. Sessions(new, created, now, revoked \union {token}, given, asked \union {token})
    <2>1. /\ DOMAIN new = DOMAIN store \ {token} /\ \A t \in DOMAIN new : new[t] = store[t]
      BY DEF Devices!Without, Devices!Kept
    <2> HIDE DEF new
    <2>2. /\ DOMAIN new \subseteq DOMAIN store /\ DOMAIN new \intersect {token} = {}
          /\ \A t \in DOMAIN store \ DOMAIN new : store[t] <= now \/ t \in {token}
      BY <2>1
    <2>3. Sessions(store, created, now, revoked, given, asked)
      BY DEF DevicesInv
    <2> QED  BY <1>4, <2>1, <2>2, <2>3, FewerSessions
  <1> HIDE DEF new
  <1>7. Sessions(new, created, now, revoked, given, asked \union {token})
    BY <1>6 DEF Sessions
  <1>8. /\ Sessions(store, created, now, revoked, given, asked \union {token})
        /\ Sessions(file, created, now, revoked, given, asked \union {token})
    BY <1>4, SessionsLater DEF DevicesInv
  <1>9. Lists'
    <2>1. CASE revoked' = revoked /\ store' = store /\ file' = file
      BY <1>4, <1>8, <2>1 DEF Lists
    <2>2. CASE revoked' = revoked /\ store' = store /\ file' = new
      BY <1>4, <1>7, <1>8, <2>2 DEF Lists
    <2>3. CASE revoked' = revoked \union {token} /\ store' = new /\ file' = new
      BY <1>4, <1>6, <2>3 DEF Lists
    <2> QED  BY <1>5, <2>1, <2>2, <2>3
  <1> QED  BY <1>1, <1>2, <1>3, <1>9 DEF DevicesInv, Lists, Attempting

LEMMA RestartKeeps ==
  ASSUME Devices!Limits, DevicesInv, Devices!Restart
  PROVE  DevicesInv'
PROOF
  <1> USE DEF Devices!Restart
  <1>1. /\ MaxAttempts \in Nat \ {0} /\ Window \in Nat /\ "none" \notin Clients
        /\ MaxTime \in Nat
    BY DEF Devices!Limits
  <1>2. Clock'
    BY DEF DevicesInv, Clock, Devices!None
  <1>3. Tokens'
    BY DEF DevicesInv, Tokens
  <1>4. Lists'
    <2>1. /\ now \in Nat /\ created \in Nat /\ now \in 0..now
          /\ \A s \in given : s.token \in 1..created /\ s.expires \in Nat
      BY DEF DevicesInv, Clock, Tokens
    <2>2. Sessions(Devices!Active(file, now), created, now, revoked, given, asked)
      BY <2>1, SessionsActive DEF DevicesInv
    <2> QED  BY <2>2 DEF Lists
  <1>5. DOMAIN failures' = Clients /\ DOMAIN tried' = Clients
    OBVIOUS
  <1>6. ASSUME NEW c \in Clients
        PROVE  Counted(c)' /\ Bounded(c)'
    <2>1. /\ tried'[c] = {} /\ failures'[c] = [attempts |-> {}, blockedUntil |-> 0]
          /\ IsFiniteSet({}) /\ Cardinality({}) = 0 /\ \A from : Within({}, from) = {}
      BY FS_EmptySet DEF Devices!NoFailures, Within
    <2> QED  BY <1>1, <2>1 DEF Counted, Bounded
  <1> QED  BY <1>2, <1>3, <1>4, <1>5, <1>6 DEF DevicesInv, Lists

LEMMA TimePassesKeeps ==
  ASSUME Devices!Limits, DevicesInv, Devices!TimePasses
  PROVE  DevicesInv'
PROOF
  <1> USE DEF Devices!TimePasses, Devices!auth
  <1>1. /\ MaxAttempts \in Nat \ {0} /\ Window \in Nat /\ MaxTime \in Nat
    BY DEF Devices!Limits
  <1>2. Clock' /\ now \in Nat /\ now' = now + 1 /\ login' = login
    BY <1>1 DEF DevicesInv, Clock
  <1>3. Lists' /\ Tokens'
    BY <1>2, ListsStay
  <1>4. DOMAIN failures' = Clients /\ DOMAIN tried' = Clients
    BY DEF DevicesInv
  <1>5. ASSUME NEW c \in Clients
        PROVE  Counted(c)' /\ Bounded(c)'
    <2>1. Counted(c) /\ Bounded(c) /\ failures'[c] = failures[c] /\ tried'[c] = tried[c]
      BY DEF DevicesInv
    <2>2. \A a \in tried[c] : a.at \in Nat
      BY <2>1 DEF Counted, Attempts
    <2>3. Horizon(c) \in Int /\ Horizon(c)' \in Int /\ Horizon(c) <= Horizon(c)'
      <3>1. failures[c].blockedUntil \in Nat /\ login.at \in Int
        BY <2>1 DEF Counted, DevicesInv, Clock
      <3> QED  BY <1>2, <2>1, <3>1 DEF Horizon
    <2>4. \A a \in tried[c] \ failures[c].attempts : a.at + Window <= Horizon(c)'
      BY <1>1, <2>1, <2>2, <2>3 DEF Counted
    <2>5. \A a \in tried[c] : a.at <= now'
      BY <1>2, <2>1, <2>2 DEF Counted
    <2> QED  BY <1>2, <2>1, <2>4, <2>5 DEF Counted, Bounded
  <1> QED  BY <1>2, <1>3, <1>4, <1>5 DEF DevicesInv, Lists

LEMMA DevicesNext ==
  ASSUME Devices!Limits, DevicesInv, [Devices!Next]_Devices!vars
  PROVE  DevicesInv'
PROOF
  <1>1. CASE Devices!Next
    BY <1>1, LoginBeginsKeeps, LoginFailsKeeps, LoginSucceedsKeeps, RevokeKeeps, RestartKeeps,
       TimePassesKeeps DEF Devices!Next
  <1>2. CASE UNCHANGED Devices!vars
    <2> USE DEF Devices!vars
    <2>1. Clock' /\ now' \in Nat /\ now <= now'
      BY <1>2 DEF DevicesInv, Clock
    <2>2. Lists' /\ Tokens'
      BY <1>2, <2>1, ListsStay
    <2>3. Attempting' /\ DOMAIN failures' = Clients /\ DOMAIN tried' = Clients
      BY <1>2, AttemptsStay
    <2> QED  BY <2>1, <2>2, <2>3 DEF DevicesInv, Lists, Attempting
  <1> QED  BY <1>1, <1>2

\* The inductive invariant of the device sessions.
THEOREM DevicesInvHolds ==
  ASSUME Devices!Limits
  PROVE  Devices!Spec => []DevicesInv
PROOF
  <1>1. Devices!Init => DevicesInv
    BY DevicesInit
  <1>2. DevicesInv /\ [Devices!Next]_Devices!vars => DevicesInv'
    BY DevicesNext
  <1> QED  BY <1>1, <1>2, PTL DEF Devices!Spec

\* What sign-in promises, for any clients, limits, lifetimes and number of failing
\* writes and restarts, if a lockout lasts a window at least: the file can be started
\* from, what was revoked stays out and what was given lasts, and wrong passwords are
\* bounded in every window (operator-device-auth.js).
THEOREM DevicesAreSafe ==
  ASSUME Devices!Limits
  PROVE  Devices!Spec => []Devices!SessionsSafe
PROOF
  <1>1. ASSUME DevicesInv PROVE Devices!SessionsSafe
    <2> USE <1>1
    <2>1. Devices!FileIsTaken
      BY SameSize DEF DevicesInv, Sessions, Devices!FileIsTaken
    <2>2. Devices!RevokedStaysOut
      BY DEF DevicesInv, Sessions, Devices!RevokedStaysOut, Devices!HasSession
    <2>3. ASSUME NEW s \in given
          PROVE  \/ Devices!HasSession(s.token)
                 \/ s.expires <= now \/ s.token \in asked \/ created - s.token >= MaxSessions
      <3>1. Lasts(store, s, created, now, asked) /\ s.expires \in Nat /\ now \in Nat
        BY DEF DevicesInv, Sessions, Tokens, Clock
      <3> QED  BY <3>1 DEF Lasts, Devices!HasSession
    <2>4. Devices!AttemptsBounded
      BY SameSize DEF DevicesInv, Bounded, Within, Devices!AttemptsBounded
    <2> QED  BY <2>1, <2>2, <2>3, <2>4 DEF Devices!SessionsSafe, Devices!GivenStays
  <1> QED  BY <1>1, DevicesInvHolds, PTL
================================================================================
