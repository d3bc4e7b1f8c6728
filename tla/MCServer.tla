--------------------------- MODULE MCServer ---------------------------
(* What the server reads and keeps for its clients, for TLC: the stream of      *)
(* snapshots to browser tabs, the store of planning runs, the sessions of       *)
(* devices, the baselines of workspaces, the monitor of SSH logins, and the     *)
(* inbound rules of the host. Each runs on its own; the state of AccessRules,   *)
(* which this module extends, is its initial one while another runs.            *)
EXTENDS AccessRules, Integers

CONSTANTS b1, b2, d1

\* A rescue is open on both ports; "old" has rules of its own, one not in the exact
\* format.
RulesFound ==
  {[id |-> 1, owner |-> "rescue", cidr |-> "0.0.0.0/0", port |-> 22],
   [id |-> 2, owner |-> "rescue", cidr |-> "0.0.0.0/0", port |-> 80],
   [id |-> 3, owner |-> "static", cidr |-> "home", port |-> 22],
   [id |-> 4, owner |-> "managed", cidr |-> "new", port |-> 22],
   [id |-> 5, owner |-> "lookalike", cidr |-> "old", port |-> 22],
   [id |-> 6, owner |-> "managed", cidr |-> "old", port |-> 80]}

VARIABLES
  who, \* the component that runs
  host, stream, cached, pending, observed, timer, clients, wire, sent, tab,
  faults, disk, mem, poisoned, requests, written, answered, stranded, world,
  phase, expected, built, cap, lived, torn, writes, captures, store, file,
  failures, login, now, created, given, asked, revoked, tried, journal, scan,
  trusted

Stream == INSTANCE MCSnapshotStream WITH
  Browsers <- {b1, b2}, Domains <- {d1}, MaxSafe <- 3, MaxChanges <- 1,
  MaxFaults <- 1, MaxLoads <- 1, left <- faults
ASSUME StreamLimits == Stream!Limits
Store == INSTANCE PlanningStore WITH
  Runs <- {"r1", "r2"}, Ops <- {"o1", "o2", "o3", "o4"}, MaxRuns <- 2,
  MaxOperations <- 4, Footprint <- 2, MaxBytes <- 7, RunSlot <- 2,
  OperationSlot <- 1, MaxRequests <- 2, MaxFaults <- 1
ASSUME StoreLimits == Store!Limits
Workspace == INSTANCE WorkspaceBaseline WITH
  Paths <- {"in", "out", "new", "instructions"},
  Instructions <- {"instructions"}, Committed <- {"in", "out"},
  Allowed <- {"in", "new"}, MaxEntries <- 3, MaxWrites <- 2, MaxCaptures <- 5
ASSUME WorkspaceCheckout == Workspace!Checkout
Devices == INSTANCE DeviceSessions WITH
  Clients <- {"c1"}, MaxSessions <- 2, MaxAttempts <- 2, Lifetime <- 3,
  Window <- 2, Block <- 3, MaxTime <- 4, MaxTokens <- 3, MaxFaults <- 1,
  left <- faults
ASSUME SignInLimits == Devices!Limits
Network == INSTANCE NetworkMonitor WITH
  Peers <- {"p1", "p2"}, Overlap <- 1, Delay <- 1, MaxEvents <- 2,
  MaxKnown <- 1, MaxTime <- 3, MaxLogins <- 3, MaxFaults <- 1, left <- faults

\* The variables of the others.
BesideStream ==
  <<who, vars, disk, mem, poisoned, requests, written, answered, stranded,
    world, phase, expected, built, cap, lived, torn, writes, captures, store,
    file, failures, login, now, created, given, asked, revoked, tried,
    journal, scan, trusted>>
BesideStore ==
  <<who, vars, host, stream, cached, pending, observed, timer, clients, wire,
    sent, tab, world, phase, expected, built, cap, lived, torn, writes,
    captures, store, file, failures, login, now, created, given, asked,
    revoked, tried, journal, scan, trusted>>
BesideWorkspace ==
  <<who, vars, host, stream, cached, pending, observed, timer, clients, wire,
    sent, tab, faults, disk, mem, poisoned, requests, written, answered,
    stranded, store, file, failures, login, now, created, given, asked,
    revoked, tried, journal, scan, trusted>>
BesideDevices ==
  <<who, vars, host, stream, cached, pending, observed, timer, clients, wire,
    sent, tab, disk, mem, poisoned, requests, written, answered, stranded,
    world, phase, expected, built, cap, lived, torn, writes, captures,
    journal, scan, trusted>>
BesideNetwork ==
  <<who, vars, host, stream, cached, pending, observed, timer, clients, wire,
    sent, tab, disk, mem, poisoned, requests, written, answered, stranded,
    world, phase, expected, built, cap, lived, torn, writes, captures,
    failures, login, created, given, asked, revoked, tried>>
BesideAccess ==
  <<who, host, stream, cached, pending, observed, timer, clients, wire, sent,
    tab, faults, disk, mem, poisoned, requests, written, answered, stranded,
    world, phase, expected, built, cap, lived, torn, writes, captures, store,
    file, failures, login, now, created, given, asked, revoked, tried,
    journal, scan, trusted>>

MCInit ==
  \/ /\ who = "stream" /\ Init /\ Stream!MCInit
     /\ disk = 0 /\ mem = 0 /\ poisoned = 0 /\ requests = 0 /\ written = 0
     /\ answered = 0 /\ stranded = 0 /\ world = 0 /\ phase = 0
     /\ expected = 0 /\ built = 0 /\ cap = 0 /\ lived = 0 /\ torn = 0
     /\ writes = 0 /\ captures = 0 /\ store = 0 /\ file = 0 /\ failures = 0
     /\ login = 0 /\ now = 0 /\ created = 0 /\ given = 0 /\ asked = 0
     /\ revoked = 0 /\ tried = 0 /\ journal = 0 /\ scan = 0 /\ trusted = 0
  \/ /\ who = "store" /\ Init /\ Store!Init
     /\ host = 0 /\ stream = 0 /\ cached = 0 /\ pending = 0 /\ observed = 0
     /\ timer = 0 /\ clients = 0 /\ wire = 0 /\ sent = 0 /\ tab = 0
     /\ world = 0 /\ phase = 0 /\ expected = 0 /\ built = 0 /\ cap = 0
     /\ lived = 0 /\ torn = 0 /\ writes = 0 /\ captures = 0 /\ store = 0
     /\ file = 0 /\ failures = 0 /\ login = 0 /\ now = 0 /\ created = 0
     /\ given = 0 /\ asked = 0 /\ revoked = 0 /\ tried = 0 /\ journal = 0
     /\ scan = 0 /\ trusted = 0
  \/ /\ who = "baseline" /\ Init /\ Workspace!Init
     /\ host = 0 /\ stream = 0 /\ cached = 0 /\ pending = 0 /\ observed = 0
     /\ timer = 0 /\ clients = 0 /\ wire = 0 /\ sent = 0 /\ tab = 0
     /\ faults = 0 /\ disk = 0 /\ mem = 0 /\ poisoned = 0 /\ requests = 0
     /\ written = 0 /\ answered = 0 /\ stranded = 0 /\ store = 0
     /\ file = 0 /\ failures = 0 /\ login = 0 /\ now = 0 /\ created = 0
     /\ given = 0 /\ asked = 0 /\ revoked = 0 /\ tried = 0 /\ journal = 0
     /\ scan = 0 /\ trusted = 0
  \/ /\ who = "devices" /\ Init /\ Devices!Init
     /\ host = 0 /\ stream = 0 /\ cached = 0 /\ pending = 0 /\ observed = 0
     /\ timer = 0 /\ clients = 0 /\ wire = 0 /\ sent = 0 /\ tab = 0
     /\ disk = 0 /\ mem = 0 /\ poisoned = 0 /\ requests = 0 /\ written = 0
     /\ answered = 0 /\ stranded = 0 /\ world = 0 /\ phase = 0
     /\ expected = 0 /\ built = 0 /\ cap = 0 /\ lived = 0 /\ torn = 0
     /\ writes = 0 /\ captures = 0 /\ journal = 0 /\ scan = 0 /\ trusted = 0
  \/ /\ who = "network" /\ Init /\ Network!Init
     /\ host = 0 /\ stream = 0 /\ cached = 0 /\ pending = 0 /\ observed = 0
     /\ timer = 0 /\ clients = 0 /\ wire = 0 /\ sent = 0 /\ tab = 0
     /\ disk = 0 /\ mem = 0 /\ poisoned = 0 /\ requests = 0 /\ written = 0
     /\ answered = 0 /\ stranded = 0 /\ world = 0 /\ phase = 0
     /\ expected = 0 /\ built = 0 /\ cap = 0 /\ lived = 0 /\ torn = 0
     /\ writes = 0 /\ captures = 0 /\ failures = 0 /\ login = 0
     /\ created = 0 /\ given = 0 /\ asked = 0 /\ revoked = 0 /\ tried = 0
  \/ /\ who = "access" /\ Init
     /\ host = 0 /\ stream = 0 /\ cached = 0 /\ pending = 0 /\ observed = 0
     /\ timer = 0 /\ clients = 0 /\ wire = 0 /\ sent = 0 /\ tab = 0
     /\ faults = 0 /\ disk = 0 /\ mem = 0 /\ poisoned = 0 /\ requests = 0
     /\ written = 0 /\ answered = 0 /\ stranded = 0 /\ world = 0
     /\ phase = 0 /\ expected = 0 /\ built = 0 /\ cap = 0 /\ lived = 0
     /\ torn = 0 /\ writes = 0 /\ captures = 0 /\ store = 0 /\ file = 0
     /\ failures = 0 /\ login = 0 /\ now = 0 /\ created = 0 /\ given = 0
     /\ asked = 0 /\ revoked = 0 /\ tried = 0 /\ journal = 0 /\ scan = 0
     /\ trusted = 0

MCNext ==
  \/ who = "stream" /\ Stream!Next /\ UNCHANGED BesideStream
  \/ who = "store" /\ Store!Next /\ UNCHANGED BesideStore
  \/ who = "baseline" /\ Workspace!Next /\ UNCHANGED BesideWorkspace
  \/ who = "devices" /\ Devices!Next /\ UNCHANGED BesideDevices
  \/ who = "network" /\ Network!Next /\ UNCHANGED BesideNetwork
  \/ who = "access" /\ Next /\ UNCHANGED BesideAccess

\* The fairness of the stream and of the access rules, while they are what runs.
MCSpec ==
  /\ MCInit /\ [][MCNext]_<<vars, BesideAccess>>
  /\ WF_pending(who = "stream" /\ Stream!Reads(d1))
  /\ WF_observed(who = "stream" /\ Stream!Expires(d1))
  /\ WF_pending(who = "stream" /\ Stream!Collects)
  /\ WF_timer(who = "stream" /\ timer /\ timer' = FALSE)
  /\ \A b \in {b1, b2} :
       /\ WF_tab(who = "stream" /\ Stream!Serves(b))
       /\ WF_tab(who = "stream" /\ Stream!Connects(b))
       /\ WF_wire(who = "stream" /\ Stream!Receive(b))
  /\ WF_vars(who = "access" /\ Operation)
  /\ WF_vars(who = "access" /\ Monitor)
  /\ WF_vars(who = "access" /\ TimePasses)

\* A tab of the fan-out that holds the server's sequence shows the server's fields,
\* and in the end every tab shows the host (server.js, snapshot-events.js).
StreamSafe == who = "stream" => Stream!StreamSafe
Converges == <>[](who = "stream" => Stream!AllShown)

\* What is written stays: no planning run is stranded for lack of room and no answered
\* change is lost (delivery-planning-run-store.js); no device loses its session or gets
\* one back, and no client more attempts (operator-device-auth.js).
StoreSafe ==
  /\ who = "store" => Store!StoreSafe
  /\ who = "devices" => Devices!SessionsSafe

\* What is read of the host is what was there: a baseline is the whole workspace of one
\* moment (workspace-baseline.js, server.js); each login is counted, and once
\* (network-monitor.js, server.js).
ReadingSafe ==
  /\ who = "baseline" => Workspace!BaselineSafe
  /\ who = "network" => Network!MonitorSafe

\* While the access rules run, an expired rescue is closed in the end (server.js).
AccessCloses == who = "access" => RescueCloses
======================================================================
