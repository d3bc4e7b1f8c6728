--------------------------- MODULE MCAgents ---------------------------
(* What PaneFleet keeps of the agents themselves, for TLC: recovery of lost     *)
(* agents, the coordination board, usage accounting and the readers of rollout  *)
(* files. Each runs on its own; the state of AgentRecovery, which this module   *)
(* extends, is its initial one while another runs.                              *)
EXTENDS AgentRecovery

CONSTANTS s1, s2

VARIABLES
  who, \* the component that runs
  store, spool, rejected, sent, agent, pass, writing, reply, seen, helper,
  faults, file, gone, counter, used, shown, prompt, now, mem, disk, waiting,
  job, log, clock, asked, answering, safe

Commons == INSTANCE MCAgentCommons WITH
  pane <- agent,
  Sessions <- {s1, s2}, Helpers <- {s2}, Categories <- {"lesson"},
  MaxMessages <- 3, MaxOps <- 4, MaxSpooled <- 1, MaxAsked <- 1,
  MaxFaults <- 1
Usage == INSTANCE MCCodexUsage WITH
  Rollouts <- {"r1", "r2"}, Roots <- {"r1"}, Sessions <- {"s1"},
  Prompts <- {"p1", "p2"}, Current <- "p1", MaxCursors <- 2, MaxDays <- 4,
  MaxTickets <- 4, MaxTime <- 1, MaxUsed <- 2, MaxWaiting <- 1, MaxFaults <- 1
Readers == INSTANCE RolloutReaders WITH
  turn <- answering, Markers <- {"m1"}, TailSize <- 3, Window <- 8, MaxPieces <- 8

\* The variables of the others.
BesideRecovery ==
  <<who, store, spool, rejected, sent, agent, pass, writing, reply, seen,
    helper, faults, file, gone, counter, used, shown, prompt, now, mem, disk,
    waiting, job, log, clock, asked, answering, safe>>
BesideCommons ==
  <<who, vars, file, gone, counter, used, shown, prompt, now, mem, disk,
    waiting, job, log, clock, asked, answering, safe>>
BesideUsage ==
  <<who, vars, store, spool, rejected, sent, agent, pass, reply, seen, helper,
    log, clock, asked, answering, safe>>
BesideReaders ==
  <<who, vars, store, spool, rejected, sent, agent, pass, writing, reply,
    seen, helper, faults, file, gone, counter, used, shown, prompt, now, mem,
    disk, waiting, job>>

MCInit ==
  \/ /\ who = "recovery" /\ Init
     /\ store = 0 /\ spool = 0 /\ rejected = 0 /\ sent = 0 /\ agent = 0
     /\ pass = 0 /\ writing = 0 /\ reply = 0 /\ seen = 0 /\ helper = 0
     /\ faults = 0 /\ file = 0 /\ gone = 0 /\ counter = 0 /\ used = 0
     /\ shown = 0 /\ prompt = 0 /\ now = 0 /\ mem = 0 /\ disk = 0
     /\ waiting = 0 /\ job = 0 /\ log = 0 /\ clock = 0 /\ asked = 0
     /\ answering = 0 /\ safe = 0
  \/ /\ who = "commons" /\ Init /\ Commons!MCInit
     /\ file = 0 /\ gone = 0 /\ counter = 0 /\ used = 0 /\ shown = 0
     /\ prompt = 0 /\ now = 0 /\ mem = 0 /\ disk = 0 /\ waiting = 0
     /\ job = 0 /\ log = 0 /\ clock = 0 /\ asked = 0 /\ answering = 0
     /\ safe = 0
  \/ /\ who = "usage" /\ Init /\ Usage!MCInit
     /\ store = 0 /\ spool = 0 /\ rejected = 0 /\ sent = 0 /\ agent = 0
     /\ pass = 0 /\ reply = 0 /\ seen = 0 /\ helper = 0 /\ log = 0
     /\ clock = 0 /\ asked = 0 /\ answering = 0 /\ safe = 0
  \/ /\ who = "readers" /\ Init /\ Readers!Init
     /\ store = 0 /\ spool = 0 /\ rejected = 0 /\ sent = 0 /\ agent = 0
     /\ pass = 0 /\ writing = 0 /\ reply = 0 /\ seen = 0 /\ helper = 0
     /\ faults = 0 /\ file = 0 /\ gone = 0 /\ counter = 0 /\ used = 0
     /\ shown = 0 /\ prompt = 0 /\ now = 0 /\ mem = 0 /\ disk = 0
     /\ waiting = 0 /\ job = 0

MCNext ==
  \/ who = "recovery" /\ Next /\ UNCHANGED BesideRecovery
  \/ who = "commons" /\ Commons!Next /\ UNCHANGED BesideCommons
  \/ who = "usage" /\ Usage!Next /\ UNCHANGED BesideUsage
  \/ who = "readers" /\ Readers!Next /\ UNCHANGED BesideReaders

\* The fairness of each component, while it is the one that runs.
MCSpec ==
  /\ MCInit /\ [][MCNext]_<<vars, BesideRecovery>>
  /\ WF_vars(who = "recovery" /\ MonitorStep)
  /\ WF_vars(who = "recovery" /\ OperatorStep)
  /\ WF_vars(who = "recovery" /\ ObserveRecords)
  /\ WF_vars(who = "recovery" /\ RetryTimePasses(s1))
  /\ WF_vars(who = "recovery" /\ AgentStarts(s1))
  /\ WF_<<Commons!vars>>(who = "commons" /\ Commons!Ingestion)
  /\ WF_<<Usage!vars>>(who = "usage" /\ Usage!Collects)
  /\ WF_waiting(who = "usage" /\ Usage!HasItsTurn)
  /\ WF_<<Usage!vars>>(who = "usage" /\ Usage!PassWrites)
  /\ WF_<<Usage!vars>>(who = "usage" /\ Usage!EndsLine("r1"))
  /\ WF_<<Usage!vars>>(who = "usage" /\ Usage!EndsLine("r2"))

\* Each message is applied once, independent answers stay independent, and the
\* spool is emptied (agent-commons.js).
CommonsSafe == who = "commons" => Commons!CommonsSafe
SpoolDrains == <>[](who = "commons" => spool = {})

\* What was asked of the commons is settled as it was asked: the spool is emptied, and
\* a helper gets the request the operator approved (server.js createAgent).
HelperAsApproved == [][who = "commons" => Commons!PromptedAsApproved]_<<Commons!vars>>
CommonsSettle == SpoolDrains /\ HelperAsApproved

\* No token is counted twice, all are in the end (codex-telemetry.js), and what is
\* read of a rollout belongs to the attempt it is read for (server.js).
UsageSafe ==
  /\ who = "usage" => Usage!UsageSafe
  /\ who = "readers" => Readers!ReadersSafe
UsageSettles == <>[](who = "usage" => Usage!AllCounted)

======================================================================
