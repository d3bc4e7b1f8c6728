----------------------------- MODULE DispatchLanes -----------------------------
(* Who may type into one worker terminal of PaneFleet (server.js). Deliveries   *)
(* come from the prompt queue's dispatcher, from a mission dispatch, from text  *)
(* and picker keys an operator sends. Three queues of promises order them:      *)
(* prompt queue operations, mission operations, and the input of the pane. Sets *)
(* of reserved sessions keep deliveries apart that are ordered by none of these.*)
(*                                                                              *)
(* One session; node runs one callback at a time, so a step is what happens     *)
(* between two awaits. Modules PromptQueue and MissionQueue hold the stores.    *)
EXTENDS FiniteSets, Integers, Sequences

CONSTANTS
  Passes,        \* samplings that end in processPromptQueue
  Supervising,   \* those that run the Mission Supervisor before it
  Sends,         \* sendToAgent requests
  Keys,          \* sendAgentUiKey requests
  Dispatch,      \* the dispatchMission request
  Chunks,        \* literal chunks of a text
  MaxItems,      \* bound: prompts queued over a run
  MaxDispatches  \* bound: dispatches asked for over a run

\* Requests and passes are told apart; the cut into chunks is at least one.
ASSUME ConstantsAssumption ==
  /\ Supervising \subseteq Passes
  /\ Sends \cap Keys = {} /\ (Sends \cup Keys) \cap Passes = {}
  /\ Dispatch \notin Passes \cup Sends \cup Keys
  /\ Chunks \in Nat \ {0} /\ MaxItems \in Nat /\ MaxDispatches \in Nat

Actors == Passes \cup Sends \cup Keys \cup {Dispatch}

VARIABLES
  pc,           \* the await each actor stands at
  promptLane,   \* promptQueueOperationQueue; the first one runs
  missionLane,  \* missionOperationQueue
  paneLane,     \* paneInputQueues of the pane
  reserved,     \* the reservation sets that hold the session
  item,         \* the head of the session's prompt line
  observed,     \* promptQueueReadyObservations: green samples of the head
  mission,      \* status of the mission assigned to the session
  busy,         \* whether Codex works
  sample,       \* whether Codex worked in an actor's snapshot
  later,        \* history: the actors whose snapshot is older than a submission
  chunk,        \* chunks an actor has typed
  author,       \* who made the last keystroke
  items, asked  \* prompts and dispatches so far

watched == <<sample, later>>
lanes == <<promptLane, missionLane, paneLane>>
term  == <<busy, author>>
line  == <<item, observed, items>>
vars  == <<pc, lanes, reserved, line, mission, term, watched, chunk, asked>>

Steps == {"off", "observed", "supervising", "supervised", "queued", "claiming",
          "preflight", "lane", "settle", "record", "waiting", "reserved", "snapshot",
          "leaving", "asked"}

\* activeMissionForSession: the statuses that hold the session.
Holding == {"dispatching", "running", "reconcile_required"}

At(a, step)   == pc[a] = step
Go(a, step)   == pc' = [pc EXCEPT ![a] = step]
Runs(lane, a) == lane # <<>> /\ Head(lane) = a

--------------------------------------------------------------------------------
(* snapshot and processPromptQueue                                              *)

\* tmux is listed and the agents are enriched; their state is used at the end.
Observe(p) ==
  /\ p \in Passes /\ At(p, "off")
  /\ sample' = [sample EXCEPT ![p] = busy] /\ later' = later \ {p}
  /\ Go(p, "observed")
  /\ UNCHANGED <<lanes, reserved, line, mission, term, chunk, asked>>

\* snapshot runs the Supervisor first, an operation of the mission queue.
AskSupervisor(p) ==
  /\ p \in Supervising /\ At(p, "observed")
  /\ missionLane' = Append(missionLane, p)
  /\ Go(p, "supervising")
  /\ UNCHANGED <<promptLane, paneLane, reserved, line, mission, term, watched, chunk, asked>>

Supervised(p) ==
  /\ At(p, "supervising") /\ Runs(missionLane, p)
  /\ missionLane' = Tail(missionLane)
  /\ Go(p, "supervised")
  /\ UNCHANGED <<promptLane, paneLane, reserved, line, mission, term, watched, chunk, asked>>

\* Mutant: the snapshot of a dispatch supervises missions.
AskBothQueues(a) ==
  \/ /\ a # Dispatch /\ At(a, IF a \in Supervising THEN "supervised" ELSE "observed")
     /\ promptLane' = Append(promptLane, a)
     /\ Go(a, "queued")
     /\ UNCHANGED <<missionLane, paneLane, reserved, line, mission, term, watched, chunk, asked>>
  \/ /\ a = Dispatch /\ At(a, "observed")
     /\ missionLane' = Append(missionLane, a)
     /\ Go(a, "supervising")
     /\ UNCHANGED <<promptLane, paneLane, reserved, line, mission, term, watched, chunk, asked>>

\* Then it enqueues processPromptQueue. A dispatch takes its snapshot without the
\* Supervisor, whose queue it holds.
AskPromptQueue(a) ==
  /\ At(a, IF a \in Supervising THEN "supervised" ELSE "observed")
  /\ promptLane' = Append(promptLane, a)
  /\ Go(a, "queued")
  /\ UNCHANGED <<missionLane, paneLane, reserved, line, mission, term, watched, chunk, asked>>

Blocked == reserved # {} \/ mission \in Holding

\* The head of the line is not released: blocked, not green, or green only once. The
\* pass ends; the one of a dispatch returns to it.
PassOver(a) ==
  /\ At(a, "queued") /\ Runs(promptLane, a)
  /\ \/ (item # "queued" \/ Blocked \/ sample[a]) /\ observed' = 0
     \/ item = "queued" /\ ~Blocked /\ ~sample[a] /\ observed = 0 /\ observed' = 1
  /\ promptLane' = Tail(promptLane)
  /\ Go(a, IF a = Dispatch THEN "snapshot" ELSE "off")
  /\ UNCHANGED <<missionLane, paneLane, reserved, item, items, mission, term, watched,
                 chunk, asked>>

\* Green a second time: the claim is being written.
BeginClaim(a) ==
  /\ At(a, "queued") /\ Runs(promptLane, a)
  /\ item = "queued" /\ ~Blocked /\ ~sample[a] /\ observed = 1
  /\ Go(a, "claiming")
  /\ UNCHANGED <<lanes, reserved, line, mission, term, watched, chunk, asked>>

\* The claim is on disk and the session reserved, or the write threw.
Claim(a) ==
  /\ At(a, "claiming")
  /\ \/ /\ item' = "dispatching" /\ observed' = 0
        /\ reserved' = reserved \cup {"prompt"}
        /\ Go(a, "preflight") /\ UNCHANGED <<promptLane, items>>
     \/ /\ promptLane' = Tail(promptLane)
        /\ Go(a, "off") /\ UNCHANGED <<reserved, line>>
  /\ UNCHANGED <<missionLane, paneLane, mission, term, watched, chunk, asked>>

\* The outcome is written: submitted, or for the operator.
RecordPrompt(a) ==
  /\ a \in Passes /\ At(a, "record")
  /\ item' \in {"sent", "needs_review"}
  /\ promptLane' = Tail(promptLane)
  /\ Go(a, "off")
  /\ UNCHANGED <<missionLane, paneLane, reserved, observed, items, mission, term, watched,
                 chunk, asked>>

--------------------------------------------------------------------------------
(* dispatchMission                                                              *)

AskDispatch ==
  /\ At(Dispatch, "off") /\ asked < MaxDispatches
  /\ asked' = asked + 1
  /\ missionLane' = Append(missionLane, Dispatch)
  /\ Go(Dispatch, "waiting")
  /\ UNCHANGED <<promptLane, paneLane, reserved, line, mission, term, watched, chunk>>

Refuse ==
  /\ Runs(missionLane, Dispatch)
  /\ \/ At(Dispatch, "waiting") /\ (mission # "ready" \/ reserved # {}) /\ UNCHANGED reserved
     \/ At(Dispatch, "reserved") /\ reserved' = reserved \ {"mission"}
     \/ At(Dispatch, "snapshot") /\ reserved' = reserved \ {"mission"}
  /\ missionLane' = Tail(missionLane)
  /\ Go(Dispatch, "off")
  /\ UNCHANGED <<promptLane, paneLane, line, mission, term, watched, chunk, asked>>

Reserve ==
  /\ At(Dispatch, "waiting") /\ Runs(missionLane, Dispatch)
  /\ mission = "ready" /\ reserved = {}
  /\ reserved' = reserved \cup {"mission"}
  /\ Go(Dispatch, "reserved")
  /\ UNCHANGED <<lanes, line, mission, term, watched, chunk, asked>>

\* No input may be under way in the pane; then the snapshot looks at the worker.
LookAtWorker ==
  /\ At(Dispatch, "reserved")
  /\ paneLane = <<>>
  /\ sample' = [sample EXCEPT ![Dispatch] = busy] /\ later' = later \ {Dispatch}
  /\ Go(Dispatch, "observed")
  /\ UNCHANGED <<lanes, reserved, line, mission, term, chunk, asked>>

\* The worker was idle in the snapshot: the mission is claimed on disk.
ClaimMission ==
  /\ At(Dispatch, "snapshot") /\ ~sample[Dispatch]
  /\ mission' = "dispatching"
  /\ Go(Dispatch, "preflight")
  /\ UNCHANGED <<lanes, reserved, line, term, watched, chunk, asked>>

RecordMission ==
  /\ At(Dispatch, "record")
  /\ mission' \in {"running", "ready", "reconcile_required"}
  /\ Go(Dispatch, "leaving")
  /\ UNCHANGED <<lanes, reserved, line, term, watched, chunk, asked>>

EndDispatch ==
  /\ At(Dispatch, "leaving")
  /\ reserved' = reserved \ {"mission"}
  /\ missionLane' = Tail(missionLane)
  /\ Go(Dispatch, "off")
  /\ UNCHANGED <<promptLane, paneLane, line, mission, term, watched, chunk, asked>>

--------------------------------------------------------------------------------
(* sendToAgent and sendAgentUiKey                                               *)

MayType == reserved = {} /\ mission \notin {"dispatching", "reconcile_required"}

\* The first check; then an await (the store is loaded, the pane is looked up). The
\* operator names the mission and confirms the open prompt of the line.
Ask(a) ==
  /\ a \in Sends \cup Keys /\ At(a, "off")
  /\ MayType
  /\ Go(a, "asked")
  /\ UNCHANGED <<lanes, reserved, line, mission, term, watched, chunk, asked>>

Turned(a) ==
  /\ a \in Sends \cup Keys /\ At(a, "asked")
  /\ reserved # {}
  /\ Go(a, "off")
  /\ UNCHANGED <<lanes, reserved, line, mission, term, watched, chunk, asked>>

\* Checked again and taken in one step.
ReserveSend(a) ==
  /\ a \in Sends /\ At(a, "asked")
  /\ reserved = {}
  /\ reserved' = reserved \cup {"prompt"}
  /\ Go(a, "preflight")
  /\ UNCHANGED <<lanes, line, mission, term, watched, chunk, asked>>

\* Mutant: a key goes to the pane without waiting for its input.
PressAtOnce(a) ==
  /\ a \in Keys /\ At(a, "asked")
  /\ reserved = {}
  /\ author' = a
  /\ Go(a, "off")
  /\ UNCHANGED <<lanes, reserved, line, mission, busy, watched, chunk, asked>>

QueueKey(a) ==
  /\ a \in Keys /\ At(a, "asked")
  /\ reserved = {}
  /\ paneLane' = Append(paneLane, a)
  /\ Go(a, "lane")
  /\ UNCHANGED <<promptLane, missionLane, reserved, line, mission, term, watched, chunk, asked>>

Press(a) ==
  /\ a \in Keys /\ At(a, "lane") /\ Runs(paneLane, a)
  /\ author' = a
  /\ paneLane' = Tail(paneLane)
  /\ Go(a, "off")
  /\ UNCHANGED <<promptLane, missionLane, reserved, line, mission, busy, watched,
                 chunk, asked>>

--------------------------------------------------------------------------------
(* deliverTextToAgent                                                           *)

\* Identity and lifecycle checks, then the pane's input queue.
Preflight(a) ==
  /\ At(a, "preflight")
  /\ \/ paneLane' = Append(paneLane, a) /\ Go(a, "lane")
     \/ UNCHANGED paneLane /\ Go(a, "settle")
  /\ UNCHANGED <<promptLane, missionLane, reserved, line, mission, term, watched, chunk, asked>>

\* One chunk of the text.
Type(a) ==
  /\ a \notin Keys /\ At(a, "lane") /\ Runs(paneLane, a) /\ chunk[a] < Chunks
  /\ chunk' = [chunk EXCEPT ![a] = @ + 1]
  /\ author' = a
  /\ UNCHANGED <<pc, lanes, reserved, line, mission, busy, watched, asked>>

\* Enter after the last chunk, and the end of the pane's operation.
Enter(a) ==
  /\ a \notin Keys /\ At(a, "lane") /\ Runs(paneLane, a) /\ chunk[a] = Chunks
  /\ busy' = TRUE /\ author' = a /\ chunk' = [chunk EXCEPT ![a] = 0]
  /\ later' = {b \in Passes \cup {Dispatch} : pc[b] # "off"}
  /\ paneLane' = Tail(paneLane)
  /\ Go(a, "settle")
  /\ UNCHANGED <<promptLane, missionLane, reserved, line, mission, sample, asked>>

\* A guard, tmux or the look at the rendered text ends the delivery early.
GiveUp(a) ==
  /\ a \notin Keys /\ At(a, "lane") /\ Runs(paneLane, a)
  /\ paneLane' = Tail(paneLane)
  /\ Go(a, "settle") /\ chunk' = [chunk EXCEPT ![a] = 0]
  /\ UNCHANGED <<promptLane, missionLane, reserved, line, mission, term, watched, asked>>

\* The finally block of a queued prompt or a send takes the session out of the set
\* they share; a dispatch keeps its reservation until its outcome is written.
Settle(a) ==
  /\ At(a, "settle")
  /\ reserved' = IF a = Dispatch THEN reserved ELSE reserved \ {"prompt"}
  /\ Go(a, IF a \in Sends THEN "off" ELSE "record")
  /\ UNCHANGED <<lanes, line, mission, term, watched, chunk, asked>>

--------------------------------------------------------------------------------
(* The worker, and the operations that only touch a store                       *)

WorkerStops ==
  /\ busy /\ busy' = FALSE
  /\ UNCHANGED <<pc, lanes, reserved, line, mission, author, watched, chunk, asked>>

\* createPromptQueueItem; the line moves on when the item before is final.
NewItem ==
  /\ promptLane = <<>> /\ item \in {"none", "sent", "needs_review"}
  /\ items < MaxItems /\ items' = items + 1
  /\ item' = "queued"
  /\ UNCHANGED <<pc, lanes, reserved, observed, mission, term, watched, chunk, asked>>

\* The mission is ended or released, and ready for another dispatch.
MissionFreed ==
  /\ missionLane = <<>> /\ mission \in {"running", "reconcile_required"}
  /\ mission' = "ready"
  /\ UNCHANGED <<pc, lanes, reserved, line, term, watched, chunk, asked>>

Deliver(a) == Preflight(a) \/ Type(a) \/ Enter(a) \/ GiveUp(a) \/ Settle(a)

\* What an actor that has begun does next.
Continue(a) ==
  \/ AskSupervisor(a) \/ Supervised(a) \/ AskPromptQueue(a) \/ PassOver(a)
  \/ BeginClaim(a) \/ Claim(a) \/ RecordPrompt(a)
  \/ Turned(a) \/ ReserveSend(a) \/ QueueKey(a) \/ Press(a)
  \/ Deliver(a)

DispatchStep ==
  Refuse \/ Reserve \/ LookAtWorker \/ ClaimMission \/ RecordMission \/ EndDispatch

Begin == (\E a \in Actors : Observe(a) \/ Ask(a)) \/ AskDispatch

Init ==
  /\ pc = [a \in Actors |-> "off"]
  /\ promptLane = <<>> /\ missionLane = <<>> /\ paneLane = <<>>
  /\ reserved = {} /\ item = "none" /\ observed = 0 /\ mission = "ready"
  /\ busy = FALSE /\ author = Dispatch
  /\ sample = [a \in Actors |-> FALSE] /\ later = {}
  /\ chunk = [a \in Actors |-> 0]
  /\ items = 0 /\ asked = 0

Next ==
  \/ Begin \/ (\E a \in Actors : Continue(a)) \/ DispatchStep
  \/ WorkerStops \/ NewItem \/ MissionFreed

Spec == Init /\ [][Next]_vars

\* Every await resolves: tmux, ps and the disk are called with timeouts.
FairSpec ==
  /\ Spec
  /\ \A a \in Actors : WF_vars(Continue(a))
  /\ WF_vars(DispatchStep)

--------------------------------------------------------------------------------
(* Properties *)

\* The actors whose text is on its way into the terminal.
Delivering == {a \in Actors : pc[a] \in {"preflight", "lane", "settle"}}

TypeOK ==
  /\ pc \in [Actors -> Steps]
  /\ promptLane \in Seq(Passes \cup {Dispatch})
  /\ missionLane \in Seq(Supervising \cup {Dispatch})
  /\ paneLane \in Seq(Actors)
  /\ reserved \subseteq {"mission", "prompt"}
  /\ item \in {"none", "queued", "dispatching", "sent", "needs_review"}
  /\ observed \in {0, 1} /\ items \in 0..MaxItems
  /\ mission \in Holding \cup {"ready"}
  /\ busy \in BOOLEAN /\ author \in Actors
  /\ sample \in [Actors -> BOOLEAN] /\ later \subseteq Passes \cup {Dispatch}
  /\ chunk \in [Actors -> 0..Chunks]
  /\ asked \in 0..MaxDispatches

\* docs/architecture.md "Pane input is serialized so concurrent browser windows cannot
\* merge keystrokes": between the first chunk of a text and its Enter nobody else's
\* key reaches the pane.
NoMergedKeystrokes ==
  \A a \in Actors \ Keys : pc[a] = "lane" /\ chunk[a] > 0 => author = a

\* A queued prompt and a mission are never on their way into the terminal at once: the
\* dispatch reserves the session and then passes through the prompt queue.
PromptsYieldToMission ==
  Dispatch \in Delivering \cup {a \in Actors : pc[a] = "record"} =>
    Passes \cap Delivering = {} /\ \A p \in Passes : pc[p] # "claiming"

\* Every request and every pass that begins also ends: no operation waits for itself
\* through another queue.
AllEnd == \A a \in Actors : pc[a] # "off" ~> pc[a] = "off"

\* The worker is at work on something that was submitted after a's snapshot.
Overtaken(a) == busy /\ a \in later

\* test/mission-queue.test.js "sends literal text and Enter to one idle existing
\* worker": the mission's text is not typed into a worker that this server gave other
\* work since the dispatch looked at it.
DispatchedToIdle ==
  [][chunk[Dispatch] = 0 /\ chunk'[Dispatch] = 1 => ~Overtaken(Dispatch)]_vars

\* What is promised of one pane: nobody's keys are mixed, and the queue's prompt and a
\* mission are never under way to it together.
LanesSafe == TypeOK /\ NoMergedKeystrokes /\ PromptsYieldToMission

================================================================================
