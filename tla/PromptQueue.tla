----------------------------- MODULE PromptQueue -----------------------------
(* PaneFleet's durable prompt queue (server.js): operators append prompts to a  *)
(* terminal line, a dispatcher releases each line in order, one prompt at a     *)
(* time, types it into the exact pane it was bound to, and later samples decide *)
(* how the accepted prompt ended.                                               *)
(*                                                                              *)
(* The server is one Node process. enqueuePromptQueueOperation runs operator    *)
(* requests and dispatcher passes one after another, so a request is one step   *)
(* taken while no pass is running; a pass is one step per await that matters.   *)
(* Samples of the terminals are taken outside that queue and may be stale when  *)
(* the pass uses them. Panes, the host and the disk act between any two steps.  *)
EXTENDS PromptItems, FiniteSets, Integers

CONSTANTS
  Items,         \* item ids, fresh ones included
  Sessions,      \* tmux session names; one line each
  Line,          \* the session an id is created for
  Kind,          \* what the text of an id is: see Kinds
  Boundaries,    \* which response boundaries Codex prints: "footer", "explicit"
  HistoryLimit,  \* PROMPT_QUEUE_HISTORY_LIMIT
  MaxItems,      \* MAX_PROMPT_QUEUE_ITEMS
  MaxGen,        \* bound: exact panes a session name has over a run
  MaxCrashes,    \* bound: restarts of the server
  MaxFaults      \* bound: writes of the store that throw

\* "slash" and "goal" are typed without queue markers; "long" passes the length
\* check with the placeholder attempt and fails it with a real one.
Kinds == {"prompt", "slash", "goal", "long"}

ASSUME ConstantsAssumption ==
  /\ Line \in [Items -> Sessions]
  /\ Kind \in [Items -> Kinds]
  /\ Boundaries \subseteq {"footer", "explicit"}
  /\ HistoryLimit \in Nat /\ MaxItems \in Nat
  /\ MaxGen \in Nat \ {0} /\ MaxCrashes \in Nat /\ MaxFaults \in Nat

\* No item in delivery; the server draws random ids.
None == "none"
ASSUME NoneAssumption == None \notin Items

VARIABLES
  mem,      \* promptQueueStore: id -> item
  disk,     \* data/prompt-queue.json: id -> item
  used,     \* ids that newPromptQueueItem has already drawn
  pane,     \* the terminal behind each session name
  up,       \* whether the server process runs
  phase,    \* where the dispatcher pass stands; "idle" outside a pass
  todo,     \* heads the pass has not looked at yet
  cur,      \* the head being delivered
  out,      \* the stage its delivery ended with
  sample,   \* agents: the terminals as last sampled
  ready,    \* promptQueueReadyObservations: items with one green sample
  aged,     \* items whose delivery is older than the 24 h capture window
  typed,    \* history: how often the text of an item reached a terminal
  entered,  \* history: how often the server pressed Enter for it
  manual,   \* items the operator submitted by hand in the terminal
  crashes, faults

store   == <<mem, disk, faults>>
passVars == <<phase, todo, cur, out>>
ghosts  == <<typed, entered, manual>>
vars == <<mem, disk, used, pane, up, phase, todo, cur, out, sample, ready, aged,
          typed, entered, manual, crashes, faults>>

ItemType ==
  [status: Statuses \cup {"absent"}, stage: Stages, summary: Summaries,
   claimed: BOOLEAN, sent: BOOLEAN, completed: BOOLEAN, footer: BOOLEAN,
   gen: 0..MaxGen, pos: Nat]

Absent == [status |-> "absent", stage |-> "", summary |-> "unavailable",
           claimed |-> FALSE, sent |-> FALSE, completed |-> FALSE,
           footer |-> FALSE, gen |-> 0, pos |-> 0]

PaneType == [gen: 1..MaxGen, state: {"live", "exited", "gone"}]
SampleType == [gen: 0..MaxGen, green: BOOLEAN]
Phases == {"idle", "heads", "preflight", "type", "submit", "confirm", "record"}

NoSample == [s \in Sessions |-> [gen |-> 0, green |-> FALSE]]

--------------------------------------------------------------------------------
(* The store *)

Present(q) == {i \in Items : q[i].status # "absent"}
Open(q)    == {i \in Present(q) : ItemOpen(q[i])}
Finals(q)  == {i \in Present(q) : ItemFinal(q[i])}

\* clonePromptQueue, one changed item.
With(q, i, item) == [q EXCEPT ![i] = item]

NextPosition(q, p) ==
  /\ \A i \in Present(q) : q[i].pos < p
  /\ p = 1 \/ \E i \in Present(q) : q[i].pos = p - 1

\* trimPromptQueueHistory: at most HistoryLimit final items stay. Which ones, by
\* updatedAt, is left open.
Trimmed(q) ==
  {[i \in Items |-> IF i \in Finals(q) \ kept THEN Absent ELSE q[i]] :
     kept \in {k \in SUBSET Finals(q) :
                 \/ k = Finals(q) /\ Cardinality(k) <= HistoryLimit
                 \/ Cardinality(k) = HistoryLimit}}

\* The parts of validatePromptQueueStore an operation could break. Actions do not
\* test it: StoreValid says it never refuses a write.
Valid(q) ==
  /\ \A i \in Present(q) : LifecycleValid(q[i])
  /\ \A i, j \in Present(q) : q[i].pos = q[j].pos => i = j
  /\ Cardinality(Present(q)) <= MaxItems

\* persistPromptQueue: replace the file, then assign memory. A write that throws
\* may have replaced the file already (replacementCommitted).
WrittenLater(next) == mem' = next /\ disk' \in {disk, next} /\ UNCHANGED faults
Written(next) == mem' = next /\ disk' = next /\ UNCHANGED faults
WriteThrows(next) ==
  /\ faults < MaxFaults
  /\ faults' = faults + 1
  /\ disk' \in {disk, next}
  /\ UNCHANGED mem
Persist(next) == Written(next) \/ WriteThrows(next)

\* clearPromptQueueProgressTracking, for the ready observations.
Forget(ids) == ready' = ready \ ids

\* Mutant: the session name is enough.
ExactName(i) == pane[Line[i]].state = "live"

\* exactPaneIdentityMatches(findPromptableCodexPane(...), promptQueueIdentity(item))
Exact(i) == pane[Line[i]] = [gen |-> mem[i].gen, state |-> "live"]

Marked(i) == Kind[i] \in {"prompt", "long"}

\* Codex works on the text of the item: only then can its marker be followed by
\* activity, or by a response.
Submitted(i) == typed[i] > 0 /\ (entered[i] > 0 \/ i \in manual)

--------------------------------------------------------------------------------
(* Operator requests. Each runs alone, between passes, and checks the revision  *)
(* the operator saw, so it acts on the current item or not at all.              *)

Serving == up /\ phase = "idle"

\* newPromptQueueItem
NewItem(g, p) == [Absent EXCEPT !.status = "queued", !.summary = "pending",
                                !.gen = g, !.pos = p]

\* createPromptQueueItem: the target was sampled live before the operation ran,
\* so its exact pane may have gone since. Only the validator checks the limit.
Create(i) ==
  /\ Serving
  /\ i \notin used
  /\ used' = used \cup {i}
  /\ \E p \in 1..Cardinality(Items), g \in 1..pane[Line[i]].gen :
       /\ NextPosition(mem, p)
       /\ \E next \in Trimmed(With(mem, i, NewItem(g, p))) :
            Cardinality(Present(next)) <= MaxItems /\ Persist(next)
  /\ UNCHANGED <<pane, up, passVars, sample, ready, aged, ghosts, crashes>>

BatchPosition(first, index) == first + index

\* createPromptQueueBatch: one prompt for several lines, all or nothing.
CreateBatch(i, j) ==
  /\ Serving
  /\ {i, j} \cap used = {} /\ Line[i] # Line[j] /\ Kind[i] = Kind[j]
  /\ Cardinality(Present(mem)) + 2 <= MaxItems
  /\ used' = used \cup {i, j}
  /\ \E p \in 1..Cardinality(Items) :
       /\ NextPosition(mem, p)
       /\ \E next \in Trimmed([mem EXCEPT
                                 ![i] = NewItem(pane[Line[i]].gen, p),
                                 ![j] = NewItem(pane[Line[j]].gen, BatchPosition(p, 1))]) :
            Persist(next)
  /\ UNCHANGED <<pane, up, passVars, sample, ready, aged, ghosts, crashes>>

\* The item leaves the store's open part; the operations that finish an item trim.
Finish(i, item) ==
  /\ \E next \in Trimmed(With(mem, i, item)) : Persist(next)
  /\ Forget({i})

\* cancelPromptQueueItem
Cancel(i) ==
  /\ Serving
  /\ mem[i].status = "queued"
  /\ Finish(i, [mem[i] EXCEPT !.status = "canceled", !.summary = "unavailable"])
  /\ UNCHANGED <<used, pane, up, passVars, sample, aged, ghosts, crashes>>

\* dismissPromptQueueLiteralReview
DismissLiteral(i) ==
  /\ Serving
  /\ mem[i].status = "needs_review" /\ ~mem[i].sent
  /\ mem[i].stage \in {"literal_unknown", "literal_confirmation",
                       "waiting_for_manual_submit"}
  /\ Exact(i)
  /\ Finish(i, [mem[i] EXCEPT !.status = "canceled", !.summary = "unavailable",
                              !.stage = "literal_review_dismissed"])
  /\ UNCHANGED <<used, pane, up, passVars, sample, aged, ghosts, crashes>>

\* cancelPromptQueueReview: works on every review, whatever the pane does.
CancelReview(i) ==
  /\ Serving
  /\ mem[i].status = "needs_review"
  /\ Finish(i, [mem[i] EXCEPT !.status = "canceled", !.summary = "unavailable",
                              !.stage = "review_canceled",
                              !.completed = mem[i].sent])
  /\ UNCHANGED <<used, pane, up, passVars, sample, aged, ghosts, crashes>>

\* waitForPromptQueueManualSubmit
WaitManual(i) ==
  /\ Serving
  /\ mem[i].status = "needs_review" /\ mem[i].summary = "unavailable"
  /\ mem[i].stage = "literal_confirmation" /\ ~mem[i].sent
  /\ Exact(i)
  /\ Persist(With(mem, i, [mem[i] EXCEPT !.stage = "waiting_for_manual_submit"]))
  /\ UNCHANGED <<used, pane, up, passVars, sample, ready, aged, ghosts, crashes>>

\* retargetPromptQueueItem: same line, another exact pane, before any delivery.
Retarget(i) ==
  /\ Serving
  /\ mem[i].status = "queued"
  /\ pane[Line[i]].state = "live"
  /\ Persist(With(mem, i, [mem[i] EXCEPT !.gen = pane[Line[i]].gen, !.stage = ""]))
  /\ Forget({i})
  /\ UNCHANGED <<used, pane, up, passVars, sample, aged, ghosts, crashes>>

\* requeuePromptQueueAfterReplacement: closes i unresolved and appends its text
\* as the new item j on the replacement pane.
RequeueAfterReplacement(i, j) ==
  /\ Serving
  /\ mem[i].status = "needs_review" /\ mem[i].summary = "unavailable"
  /\ mem[i].stage = "completion_target_replaced" /\ mem[i].sent
  /\ j \notin used /\ Line[j] = Line[i] /\ Kind[j] = Kind[i]
  /\ Cardinality(Present(mem)) < MaxItems
  /\ pane[Line[i]].state = "live" /\ pane[Line[i]].gen # mem[i].gen
  /\ used' = used \cup {j}
  /\ \E p \in 1..Cardinality(Items) :
       /\ NextPosition(mem, p)
       /\ \E next \in Trimmed([mem EXCEPT
               ![i] = [@ EXCEPT !.status = "sent", !.summary = "operator_released",
                                !.stage = "operator_requeued_after_replacement",
                                !.completed = TRUE, !.footer = FALSE],
               ![j] = NewItem(pane[Line[j]].gen, p)]) : Persist(next)
  /\ Forget({i})
  /\ UNCHANGED <<pane, up, passVars, sample, aged, ghosts, crashes>>

\* releasePromptQueueAfterReview: looks for a finish once more before it gives
\* the line free; "captured" needs a response to this item in this exact pane.
Release(i) ==
  /\ Serving
  /\ mem[i].status = "needs_review" /\ mem[i].stage \in CompletionReviews
  /\ Exact(i)
  /\ \/ \E b \in Boundaries :
          /\ Marked(i) /\ Submitted(i)
          /\ Finish(i, [mem[i] EXCEPT !.status = "sent", !.summary = "captured",
                                      !.stage = "completion_recovered",
                                      !.completed = TRUE, !.footer = (b = "footer")])
     \/ Finish(i, [mem[i] EXCEPT !.status = "sent", !.summary = "operator_released",
                                 !.stage = "operator_released",
                                 !.completed = TRUE, !.footer = FALSE])
  /\ UNCHANGED <<used, pane, up, passVars, sample, aged, ghosts, crashes>>

\* continuePromptQueueMonitoring
ContinueMonitoring(i) ==
  /\ Serving
  /\ mem[i].status = "needs_review" /\ mem[i].summary = "unavailable"
  /\ mem[i].stage = "completion_superseded"
  /\ Exact(i)
  /\ Persist(With(mem, i, [mem[i] EXCEPT !.status = "sent", !.summary = "pending",
                             !.completed = FALSE, !.footer = FALSE,
                             !.stage = "monitoring_after_review"]))
  /\ UNCHANGED <<used, pane, up, passVars, sample, ready, aged, ghosts, crashes>>

\* Mutant: the link does not look whether the item still awaits its completion.
LinkAnyAnswer(i) ==
  /\ Serving
  /\ mem[i].sent
  /\ Exact(i)
  /\ Persist(With(mem, i, [mem[i] EXCEPT !.status = "sent", !.summary = "pending",
                             !.completed = FALSE, !.footer = FALSE,
                             !.stage = "monitoring_after_response"]))
  /\ UNCHANGED <<used, pane, up, passVars, sample, ready, aged, ghosts, crashes>>

\* linkPromptQueueAnswerContinuation, after the answer was typed. The manual sends
\* it acknowledges are left out, as are all sends outside the queue.
LinkAnswer(i) ==
  /\ Serving
  /\ \/ AwaitingCompletion(mem[i])
     \/ /\ mem[i].status = "needs_review" /\ mem[i].summary = "unavailable"
        /\ mem[i].stage = "completion_superseded"
  /\ Exact(i)
  /\ Persist(With(mem, i, [mem[i] EXCEPT !.status = "sent", !.summary = "pending",
                             !.completed = FALSE, !.footer = FALSE,
                             !.stage = "monitoring_after_response"]))
  /\ UNCHANGED <<used, pane, up, passVars, sample, ready, aged, ghosts, crashes>>

\* clearPromptQueueHistory
ClearHistory ==
  /\ Serving
  /\ Finals(mem) # {}
  /\ Persist([i \in Items |-> IF i \in Finals(mem) THEN Absent ELSE mem[i]])
  /\ Forget(Finals(mem))
  /\ UNCHANGED <<used, pane, up, passVars, sample, aged, ghosts, crashes>>

Operator ==
  \/ \E i \in Items :
       \/ Create(i) \/ Cancel(i) \/ DismissLiteral(i) \/ CancelReview(i)
       \/ WaitManual(i) \/ Retarget(i) \/ Release(i)
       \/ ContinueMonitoring(i) \/ LinkAnswer(i)
  \/ \E i, j \in Items : CreateBatch(i, j) \/ RequeueAfterReplacement(i, j)
  \/ ClearHistory

--------------------------------------------------------------------------------
(* A dispatcher pass: processPromptQueue(agents)                                *)

\* snapshot() for the monitor or a dashboard request. It runs outside the queue's
\* serializer: requests may be handled between the sample and the pass that uses
\* it, and the panes move on.
Sample ==
  /\ Serving /\ sample = NoSample
  /\ \E green \in SUBSET {s \in Sessions : pane[s].state = "live"} :
       sample' = [s \in Sessions |->
                    [gen |-> IF pane[s].state = "gone" THEN 0 ELSE pane[s].gen,
                     green |-> s \in green]]
  /\ UNCHANGED <<store, used, pane, up, passVars, ready, aged, ghosts, crashes>>

Sampled(i)  == sample[Line[i]].gen = mem[i].gen
Replaced(i) == sample[Line[i]].gen \notin {0, mem[i].gen}
Green(i)    == Sampled(i) /\ sample[Line[i]].green

Candidates == {i \in Items : \/ AwaitingCompletion(mem[i])
                             \/ RecoverableCompletionReview(mem[i])
                             \/ AcceptanceRecoveryReview(mem[i])}

\* What capturePromptQueueCompletions may conclude about one item; the reviews
\* are named by the stage they leave. Two stable observations are not counted:
\* "none" stands for the first one.
Conclusions == {"none", "accepted", "footer", "explicit", "returned",
                "completion_target_replaced"} \cup CompletionReviews

\* Mutant: the marker in the composer counts as an accepted prompt.
ResponseAssumed(i) == Sampled(i) /\ Exact(i) /\ Marked(i)

\* The evidence functions read the exact pane, checked before and after.
ResponseReadable(i) == Sampled(i) /\ Exact(i) /\ Marked(i) /\ Submitted(i)

\* Mutant: the capture window closes only for terminals the sample shows.
ExpiredIfSampled(i) == i \in aged /\ Sampled(i)
Expired(i) == i \in aged

Concludes(i, c) ==
  LET sent == mem[i].status = "sent" IN
  IF sent /\ Replaced(i) THEN c = "completion_target_replaced"
  ELSE IF sent /\ Expired(i) THEN c = "completion_timeout"
  ELSE \/ c = "none"
       \/ /\ c = "accepted"
          /\ AcceptanceRecoveryReview(mem[i]) /\ ResponseReadable(i)
       \/ /\ c \in Boundaries \cup {"returned"}
          /\ ~AcceptanceRecoveryReview(mem[i]) /\ ResponseReadable(i)
          /\ c = "returned" => Green(i)
       \/ /\ c = "completion_superseded"
          /\ sent /\ Sampled(i)
       \/ /\ sent /\ Green(i) /\ Exact(i)
          /\ IF mem[i].stage = "goal_command_submitted"
               THEN c = "goal_completion_review"
               ELSE \/ c = "completion_marker_missing"
                    \/ c = "final_boundary_missing" /\ Marked(i)

\* A captured finish keeps its stage unless the capture says how it was made.
CapturedStage(item, b) ==
  IF RecoverableCompletionReview(item) THEN "completion_recovered"
  ELSE IF b = "explicit" THEN "return_marker_captured" ELSE item.stage

Concluded(item, c) ==
  CASE c = "none" -> item
    [] c = "accepted" ->
         [item EXCEPT !.status = "sent", !.summary = "pending", !.sent = TRUE,
            !.stage = IF item.stage = "waiting_for_manual_submit"
                        THEN "manual_submit_accepted" ELSE "accepted_late"]
    [] c \in {"footer", "explicit"} ->
         [item EXCEPT !.status = "sent", !.summary = "captured", !.completed = TRUE,
            !.footer = (c = "footer"), !.stage = CapturedStage(item, c)]
    [] c = "returned" ->
         [item EXCEPT !.status = "sent", !.summary = "returned", !.completed = TRUE,
            !.stage = "returned_to_ready"]
    [] OTHER ->
         [item EXCEPT !.status = "needs_review", !.summary = "unavailable",
            !.completed = FALSE, !.footer = FALSE, !.stage = c]

\* Mutant: the heads are the first queued items, whatever is in flight.
QueuedHeads(q) ==
  {i \in Open(q) : /\ q[i].status = "queued"
                   /\ \A j \in Open(q) : Line[j] = Line[i] /\ q[j].status = "queued"
                                            => q[i].pos <= q[j].pos}

\* The first open item of every line, by position.
Heads(q) == {i \in Open(q) :
               \A j \in Open(q) : Line[j] = Line[i] => q[i].pos <= q[j].pos}

\* The pass begins: completions of all candidates are concluded from the sample
\* and written once, then the heads of the lines are fixed for the whole pass. A
\* write that throws ends the pass. An item accepted after a manual Enter counts
\* its age from now.
StartPass ==
  /\ Serving
  /\ \E concl \in [Candidates -> Conclusions] :
       /\ \A i \in Candidates : Concludes(i, concl[i])
       /\ LET next == [i \in Items |-> IF i \in Candidates
                                         THEN Concluded(mem[i], concl[i]) ELSE mem[i]]
          IN IF next = mem
               THEN UNCHANGED store /\ phase' = "heads" /\ todo' = Heads(mem)
               ELSE \/ Written(next) /\ phase' = "heads" /\ todo' = Heads(next)
                    \/ WriteThrows(next) /\ UNCHANGED <<phase, todo>>
       /\ aged' = {i \in aged : AwaitingCompletion(mem'[i])}
  /\ UNCHANGED <<used, pane, up, cur, out, sample, ready, ghosts, crashes>>

\* for (const head of heads), in the order of their positions
Next1(i) == i \in todo /\ \A j \in todo : mem[i].pos <= mem[j].pos

\* Mutant: the pass waits for a green head until it is ready.
PassOverUnlessGreen(i) ==
  /\ up /\ phase = "heads" /\ Next1(i)
  /\ ~(mem[i].status = "queued" /\ Green(i) /\ i \notin ready)
  /\ todo' = todo \ {i}
  /\ ready' = ready \ {i}
  /\ UNCHANGED <<store, used, pane, up, phase, cur, out, sample, aged, ghosts, crashes>>

\* The head is not released this time: it is not queued, another delivery or a
\* mission holds the session, or stablePromptQueueReady needs one more sample.
PassOver(i) ==
  /\ up /\ phase = "heads" /\ Next1(i)
  /\ todo' = todo \ {i}
  /\ IF mem[i].status = "queued" /\ Green(i)
       THEN ready' \in {ready \ {i}, ready \cup {i}}
       ELSE ready' = ready \ {i}
  /\ UNCHANGED <<store, used, pane, up, phase, cur, out, sample, aged, ghosts, crashes>>

\* The text with its queue markers no longer fits the terminal-input limit.
RejectLong(i) ==
  /\ up /\ phase = "heads" /\ Next1(i)
  /\ mem[i].status = "queued" /\ Kind[i] = "long"
  /\ \E next \in Trimmed(With(mem, i, [mem[i] EXCEPT !.status = "canceled",
                                         !.summary = "unavailable",
                                         !.stage = "dispatch_envelope_too_long"])) :
       \/ Written(next) /\ todo' = todo \ {i} /\ UNCHANGED phase
       \/ WriteThrows(next) /\ todo' = {} /\ phase' = "idle"
  /\ Forget({i})
  /\ UNCHANGED <<used, pane, up, cur, out, sample, aged, ghosts, crashes>>

\* The claim is on disk before any input: dispatching, with a fresh attemptId.
Claim(i) ==
  /\ up /\ phase = "heads" /\ Next1(i)
  /\ mem[i].status = "queued" /\ Kind[i] # "long"
  /\ Green(i) /\ i \in ready
  /\ LET next == With(mem, i, [mem[i] EXCEPT !.status = "dispatching",
                                 !.claimed = TRUE, !.stage = "dispatching"])
     IN \/ /\ Written(next) /\ Forget({i})
           /\ phase' = "preflight" /\ cur' = i /\ todo' = todo \ {i}
        \/ /\ WriteThrows(next) /\ UNCHANGED <<ready, cur>>
           /\ phase' = "idle" /\ todo' = {}
  /\ UNCHANGED <<used, pane, up, out, sample, aged, ghosts, crashes>>

\* deliverTextToAgent, whose exceptions the pass records as stage "unknown". The
\* pane must be the one the item names, and tmux must protect it, before
\* anything is typed.
Preflight ==
  /\ up /\ phase = "preflight"
  /\ \/ Exact(cur) /\ phase' = "type" /\ UNCHANGED out
     \/ ~Exact(cur) /\ phase' = "record" /\ out' = "preflight"
     \/ phase' = "record" /\ out' \in {"lifecycle_guard", "unknown"}
  /\ UNCHANGED <<store, used, pane, up, todo, cur, sample, ready, aged, ghosts, crashes>>

\* typeLiteralText: a guard before every chunk. A refused first chunk has typed
\* nothing; the marked path reports it as uncertain all the same.
Type ==
  /\ up /\ phase = "type"
  /\ \/ /\ phase' = "record"
        /\ out' \in {IF Marked(cur) THEN "literal_unknown" ELSE "literal", "unknown"}
        /\ UNCHANGED typed
     \/ /\ Exact(cur)
        /\ typed' = [typed EXCEPT ![cur] = @ + 1]
        /\ \/ phase' = "submit" /\ UNCHANGED out
           \/ phase' = "record" /\ out' \in {"literal_unknown", "unknown"}
  /\ UNCHANGED <<store, used, pane, up, todo, cur, sample, ready, aged,
                 entered, manual, crashes>>

\* The whole text is in the composer. Enter follows only when it is seen there
\* twice (marked text) in the exact pane; tmux may fail with or without effect.
Submit ==
  /\ up /\ phase = "submit"
  /\ \/ /\ phase' = "record"
        /\ out' \in {IF Marked(cur) THEN "literal_confirmation" ELSE "literal_unknown",
                     "unknown"}
        /\ UNCHANGED entered
     \/ /\ Exact(cur)
        /\ phase' = "record" /\ out' = "submit"
        /\ UNCHANGED entered
     \/ /\ Exact(cur)
        /\ entered' = [entered EXCEPT ![cur] = @ + 1]
        /\ \/ phase' = "record" /\ out' = "submit"
           \/ ~Marked(cur) /\ phase' = "record" /\ out' = "submitted"
           \/ Marked(cur) /\ phase' = "confirm" /\ UNCHANGED out
  /\ UNCHANGED <<store, used, pane, up, todo, cur, sample, ready, aged,
                 typed, manual, crashes>>

\* Two samples with Codex working on the marked text, or none within the timeout.
Confirm ==
  /\ up /\ phase = "confirm"
  /\ phase' = "record"
  /\ \/ Exact(cur) /\ out' = "accepted"
     \/ out' \in {"confirmation", "unknown"}
  /\ UNCHANGED <<store, used, pane, up, todo, cur, sample, ready, aged, ghosts, crashes>>

Delivered(i, item, o) ==
  CASE o = "submitted" /\ Kind[i] = "goal" ->
         [item EXCEPT !.status = "sent", !.sent = TRUE, !.summary = "pending",
                      !.stage = "goal_command_submitted"]
    [] o = "submitted" /\ Kind[i] # "goal" ->
         [item EXCEPT !.status = "sent", !.sent = TRUE, !.summary = "command_submitted",
                      !.stage = "slash_command_submitted"]
    [] o = "accepted" ->
         [item EXCEPT !.status = "sent", !.sent = TRUE, !.summary = "pending",
                      !.stage = "accepted"]
    [] OTHER ->
         [item EXCEPT !.status = "needs_review", !.summary = "unavailable", !.stage = o]

\* The outcome is written, with a second try. When both writes throw, the pass
\* ends and the item stays dispatching in memory.
Record ==
  /\ up /\ phase = "record"
  /\ mem[cur].status = "dispatching"
  /\ \E next \in Trimmed(With(mem, cur, Delivered(cur, mem[cur], out))) :
       \/ Written(next) /\ phase' = "heads" /\ UNCHANGED todo
       \/ WriteThrows(next) /\ phase' = "idle" /\ todo' = {}
  /\ cur' = None /\ out' = ""
  /\ UNCHANGED <<used, pane, up, sample, ready, aged, ghosts, crashes>>

FinishPass ==
  /\ up /\ phase = "heads" /\ todo = {}
  /\ phase' = "idle"
  /\ sample' = NoSample
  /\ UNCHANGED <<store, used, pane, up, todo, cur, out, ready, aged, ghosts, crashes>>

--------------------------------------------------------------------------------
(* The terminals, the clock and the host *)

\* Codex exits, or the session ends.
PaneStops(s) ==
  /\ pane[s].state = "live"
  /\ \E state \in {"exited", "gone"} : pane' = [pane EXCEPT ![s].state = state]
  /\ UNCHANGED <<store, used, up, passVars, sample, ready, aged, ghosts, crashes>>

\* Codex is started again in the same pane, whose shell lived on.
PaneResumes(s) ==
  /\ pane[s].state = "exited"
  /\ pane' = [pane EXCEPT ![s].state = "live"]
  /\ UNCHANGED <<store, used, up, passVars, sample, ready, aged, ghosts, crashes>>

\* The session name now names another pane: created anew, or its pane replaced.
PaneReplaced(s) ==
  /\ pane[s].gen < MaxGen
  /\ pane' = [pane EXCEPT ![s] = [gen |-> @.gen + 1, state |-> "live"]]
  /\ UNCHANGED <<store, used, up, passVars, sample, ready, aged, ghosts, crashes>>

\* The operator presses Enter on text the server left in the composer.
OperatorEnter(i) ==
  /\ mem[i].status = "needs_review" /\ Exact(i)
  /\ typed[i] > 0 /\ entered[i] = 0 /\ i \notin manual
  /\ manual' = manual \cup {i}
  /\ UNCHANGED <<store, used, pane, up, passVars, sample, ready, aged,
                 typed, entered, crashes>>

\* PROMPT_QUEUE_COMPLETION_TIMEOUT_MS have passed since sentAt. (aged only keeps
\* items that await completion; one that awaits it again may age at once.)
Age(i) ==
  /\ AwaitingCompletion(mem[i])
  /\ i \notin aged
  /\ aged' = aged \cup {i}
  /\ UNCHANGED <<store, used, pane, up, passVars, sample, ready, ghosts, crashes>>

\* The process ends between any two awaits. Memory, the pass and the observations
\* are lost; the file, the terminals and what was typed stay.
Crash ==
  /\ up /\ crashes < MaxCrashes
  /\ up' = FALSE /\ crashes' = crashes + 1
  /\ mem' = disk
  /\ phase' = "idle" /\ todo' = {} /\ cur' = None /\ out' = ""
  /\ sample' = NoSample /\ ready' = {}
  /\ aged' = {i \in aged : AwaitingCompletion(disk[i])}
  /\ UNCHANGED <<disk, used, pane, ghosts, faults>>

\* Mutants of the reconciliation: an interrupted delivery is tried again; every capture
\* is reopened.
RetryInterrupted(item) ==
  IF item.status = "dispatching"
    THEN [item EXCEPT !.status = "queued", !.claimed = FALSE, !.stage = ""]
    ELSE item
ReopenEvery(item) ==
  IF item.status = "sent" /\ item.summary = "captured"
    THEN [item EXCEPT !.status = "needs_review", !.summary = "unavailable",
                      !.completed = FALSE, !.stage = "final_boundary_missing"]
  ELSE IF item.status = "dispatching"
    THEN [item EXCEPT !.status = "needs_review", !.summary = "unavailable",
                      !.stage = "restart_reconciliation"]
  ELSE item

\* reconcilePromptQueueOnStartup: an interrupted delivery is reviewed, never
\* repeated; a capture without a "Worked for" line in its snapshot is reopened.
\* Its branches for stores of older versions are left out.
Reconciled(item) ==
  IF item.status = "dispatching"
    THEN [item EXCEPT !.status = "needs_review", !.summary = "unavailable",
                      !.stage = "restart_reconciliation"]
  ELSE IF item.status = "sent" /\ item.summary = "captured" /\ ~item.footer
    THEN [item EXCEPT !.status = "needs_review", !.summary = "unavailable",
                      !.completed = FALSE, !.stage = "final_boundary_missing"]
  ELSE item

Restart ==
  /\ ~up
  /\ Written([i \in Items |-> Reconciled(disk[i])])
  /\ up' = TRUE
  /\ UNCHANGED <<used, pane, passVars, sample, ready, aged, ghosts, crashes>>

Environment ==
  \/ \E s \in Sessions : PaneStops(s) \/ PaneResumes(s) \/ PaneReplaced(s)
  \/ \E i \in Items : OperatorEnter(i) \/ Age(i)
  \/ Crash \/ Restart

Delivery == Preflight \/ Type \/ Submit \/ Confirm \/ Record

Dispatcher ==
  \/ Sample \/ StartPass \/ FinishPass
  \/ \E i \in Items : PassOver(i) \/ RejectLong(i) \/ Claim(i)
  \/ Delivery

Init ==
  /\ mem = [i \in Items |-> Absent] /\ disk = mem
  /\ used = {}
  /\ pane = [s \in Sessions |-> [gen |-> 1, state |-> "live"]]
  /\ up = TRUE
  /\ phase = "idle" /\ todo = {} /\ cur = None /\ out = ""
  /\ sample = NoSample /\ ready = {} /\ aged = {}
  /\ typed = [i \in Items |-> 0] /\ entered = [i \in Items |-> 0] /\ manual = {}
  /\ crashes = 0 /\ faults = 0

Next == Operator \/ Dispatcher \/ Environment

Spec == Init /\ [][Next]_vars

\* The pass is a chain of awaits that all resolve, systemd restarts the server,
\* the monitor's timer keeps starting passes, and time goes by.
Fairness ==
  /\ WF_vars(Delivery) /\ WF_vars(FinishPass) /\ WF_vars(StartPass)
  /\ WF_vars(\E i \in Items : PassOver(i) \/ RejectLong(i) \/ Claim(i))
  /\ WF_vars(Restart)
  /\ \A i \in Items : WF_vars(Age(i))

FairSpec == Spec /\ Fairness

--------------------------------------------------------------------------------
(* Properties *)

TypeOK ==
  /\ mem \in [Items -> ItemType] /\ disk \in [Items -> ItemType]
  /\ used \subseteq Items
  /\ pane \in [Sessions -> PaneType]
  /\ up \in BOOLEAN
  /\ phase \in Phases /\ todo \subseteq Items /\ cur \in Items \cup {None}
  /\ out \in Stages \cup {"submitted"}
  /\ sample \in [Sessions -> SampleType]
  /\ ready \subseteq Items /\ aged \subseteq Items
  /\ typed \in [Items -> Nat] /\ entered \in [Items -> Nat] /\ manual \subseteq Items
  /\ crashes \in 0..MaxCrashes /\ faults \in 0..MaxFaults

\* A prompt is typed at most once and Enter is pressed for it at most once, over
\* restarts, failed writes, recoveries and operator requests (processPromptQueue
\* promises no_retry in every audit line it writes).
AtMostOnce == \A i \in Items : typed[i] <= 1 /\ entered[i] <= 1

\* Once text has reached a terminal, neither the memory nor the file says the item
\* is still queued: whatever crash follows, it cannot be released again.
ClaimDurable ==
  \A i \in Items : typed[i] > 0 =>
    mem[i].status # "queued" /\ disk[i].status # "queued"

\* README "release FIFO one prompt at a time": an item that left the queue and is
\* still open has every earlier item of its line finished, so a line never holds
\* two prompts in flight.
LineOrder ==
  \A i, j \in Present(mem) :
    /\ Line[i] = Line[j] /\ mem[j].pos < mem[i].pos
    /\ InFlight(mem[i]) \/ cur = i
    => ~ItemOpen(mem[j])

\* Every state of the store, in memory and on disk, is one the validator accepts:
\* no sequence of requests makes the server refuse its own file at startup.
StoreValid == Valid(mem) /\ Valid(disk)

\* An item the store calls sent had its text typed in full and submitted, by the
\* server or by the operator.
SentWasSubmitted == \A i \in Items : mem[i].sent => Submitted(i)

\* A dispatching item is the one the pass is delivering. Only a store that could
\* not be written twice leaves one behind, and then nothing but a restart frees
\* its line.
NoOrphanClaim ==
  \A i \in Items : mem[i].status = "dispatching" /\ up => cur = i \/ faults > 0

\* An item can be green, claimed and typed only in the pane it names: text meant
\* for one exact pane never follows the session name to its replacement.
TypedInBoundPane ==
  [][\A i \in Items : typed'[i] > typed[i] =>
       pane[Line[i]] = [gen |-> disk[i].gen, state |-> "live"]]_vars

\* Nothing but a restart takes a finished item back: history stays history while
\* the server runs.
FinalStays ==
  [][\A i \in Items : (up /\ i \in Finals(mem)) =>
       ~up' \/ i \in Finals(mem') \/ mem'[i] = Absent]_vars

\* A finish captured at a response boundary stays captured until the history is
\* trimmed or cleared, restarts included.
CaptureStays ==
  [][\A i \in Items : mem[i].summary = "captured" =>
       mem'[i].summary = "captured" \/ mem'[i] = Absent]_vars

\* A goal command has no finish marker, so nothing the server reads ends it: it is
\* over only when the operator released or canceled it after a review.
GoalEndsByOperator ==
  \A i \in Present(mem) : Kind[i] = "goal" /\ ItemFinal(mem[i]) =>
    mem[i].status = "canceled" \/ mem[i].summary = "operator_released"

\* An item under review is never released for delivery again, even by a restart.
ReviewNeverRequeued ==
  [][\A i \in Items : mem[i].status = "needs_review" =>
       mem'[i].status \notin {"queued", "dispatching"}]_vars

\* Every pass comes to its end, whatever the panes and the disk do: requests wait
\* behind it in enqueuePromptQueueOperation's one chain, for every line.
PassEnds == phase # "idle" ~> phase = "idle"

\* Several lines beside each other: the store never breaks its own validator, with the
\* positions of a batch of its own, and no line holds up the requests of the others.
LinesServed == []StoreValid /\ PassEnds

\* An accepted prompt does not stay pending forever: it is finished, reviewed, or
\* released, at the latest when the capture window closes.
PendingSettled == \A i \in Items :
  AwaitingCompletion(mem[i]) ~> ~AwaitingCompletion(mem[i])

\* What is promised of the delivery of a prompt: it is typed and entered at most once,
\* and from the first key on no copy of the store releases it again.
DeliverySafe == TypeOK /\ AtMostOnce /\ ClaimDurable

\* What is promised of the store: the server can start from it, "sent" tells the truth,
\* and "dispatching" is only the item in delivery.
QueueSafe == StoreValid /\ SentWasSubmitted /\ NoOrphanClaim

\* What is promised of a line: one prompt in flight, and a goal that only the operator
\* ends.
LineSafe == LineOrder /\ GoalEndsByOperator

\* What is promised of the past: what is finished or under review is not released again.
HistoryStays == FinalStays /\ ReviewNeverRequeued

\* The refinement mapping to PromptLine: who is open in memory waits, in the order of
\* the positions, and an item that left the queue is in service.
Promise == INSTANCE PromptLine WITH
  ahead  <- [i \in Open(mem) |->
               {j \in Open(mem) : Line[j] = Line[i] /\ mem[j].pos < mem[i].pos}],
  served <- {i \in Open(mem) : InFlight(mem[i])}

\* The queue keeps its promise (README.md): FIFO lines, one prompt in service, its
\* head, typed at most once.
RefinesPromptLine == Promise!LineSpec

================================================================================
