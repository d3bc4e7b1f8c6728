------------------------------ MODULE AgentCommons ------------------------------
(* Agent Commons (agent-commons.js, server.js): messages of agents and operator *)
(* with states, replies and acknowledgements, in one file changed by one         *)
(* operation at a time. Agents spool envelopes, which a snapshot ingests; the    *)
(* operator may approve one helper for a help request.                          *)
EXTENDS Integers, Sequences, FiniteSets, SequencesExt, Functions

CONSTANTS
  Sessions,     \* sessions of agents
  Helpers,      \* those of them that are codex-commons-helper-*
  Categories,   \* of the messages that are posted anew
  MaxMessages,  \* MAX_MESSAGES
  MaxOps,       \* MAX_OPERATIONS
  MaxSpooled,   \* bound: envelopes
  MaxAsked,     \* bound: the operator's requests
  MaxFaults     \* bound: crashes, failed file operations, agents that end

VARIABLES
  store,    \* the store file
  spool,    \* envelopes in the inbox directory
  rejected, \* ids of quarantined envelopes
  sent,     \* ids of all the envelopes there were
  pane,     \* the agent of each session
  pass,     \* the pass over the inbox directory
  writing,  \* the operation at the head of the repository's chain
  reply,    \* what the operator's requests were told
  seen,     \* the answers of others that an agent was shown
  helper,   \* the helper the operator approved
  faults

vars == <<store, spool, rejected, sent, pane, pass, writing, reply, seen, helper, faults>>

Operator == "operator"
NoStore == [messages |-> <<>>, ops |-> <<0>>]
NotWriting == [id |-> 0, stage |-> "none", next |-> NoStore]
NoEnvelope == [id |-> 0]
NoPass == [at |-> "idle", names |-> {}, gen |-> <<>>, envelope |-> NoEnvelope]
NoHelper == [at |-> "none", request |-> 0, revision |-> 0, live |-> FALSE, approved |-> "none"]

Fault == faults < MaxFaults /\ faults' = faults + 1

-----------------------------------------------------------------------------
(* Messages                                                                   *)

InitialState(category) ==
  CASE category \in {"update", "question", "decision", "help_request"} -> "open"
    [] category = "claim" -> "observation"
    [] category = "wait" -> "waiting"
    [] category = "work_claim" -> "claimed"
    [] category = "lesson" -> "candidate"

\* STATE_TRANSITIONS, without the states that lead nowhere.
Asked == [open |-> {"resolved", "withdrawn"}, resolved |-> {"open"}]
Transitions ==
  [update |-> Asked, question |-> Asked, help_request |-> Asked,
   decision |-> [open |-> {"resolved", "withdrawn"}, resolved |-> {"open", "superseded"}],
   claim |-> [observation |-> {"verified", "disputed", "superseded"},
              verified |-> {"disputed", "superseded"},
              disputed |-> {"observation", "verified", "superseded"}],
   wait |-> [waiting |-> {"accepted", "declined", "satisfied", "withdrawn"},
             accepted |-> {"declined", "satisfied", "withdrawn"}, declined |-> {"waiting"}],
   work_claim |-> [claimed |-> {"completed", "released", "disputed"},
                   disputed |-> {"claimed", "completed", "released"}],
   lesson |-> [candidate |-> {"tried", "disputed", "retired"},
               tried |-> {"supported", "disputed", "retired"},
               supported |-> {"active", "disputed", "retired"},
               active |-> {"disputed", "retired"},
               disputed |-> {"tried", "supported", "active", "retired"}]]

NextStates(category, state) ==
  IF state \in DOMAIN Transitions[category] THEN Transitions[category][state] ELSE {}

\* ATTENTION_CLOSED_STATES
ClosedStates == {"resolved", "withdrawn", "verified", "superseded", "declined", "satisfied",
                 "completed", "released", "supported", "active", "retired"}

Ids(s) == DOMAIN s.messages
Message(s, i) == s.messages[i]
Roots(s) == {i \in Ids(s) : s.messages[i].parent = 0}
Addressed(message, who) == who = Operator \/ who \in message.to

\* canAgentTransition
MayTransition(message, who, to) ==
  LET owns == message.by = who
  IN \/ who = Operator
     \/ CASE message.category = "lesson" -> owns /\ to \in {"tried", "disputed", "retired"}
          [] message.category = "wait" ->
               IF to \in {"accepted", "declined", "satisfied"}
               THEN Addressed(message, who) ELSE owns /\ to = "withdrawn"
          [] OTHER -> owns

\* mutant: the answers are shown as soon as there is one to show.
InboxAtOnce(s, who, resolvedToo) ==
  {i \in Ids(s) : Addressed(Message(s, Message(s, i).thread), who)}

\* agentCommonsInbox: what an agent is shown; replies to an independent decision only
\* when it has replied itself.
Inbox(s, who, resolvedToo) ==
  LET open == {s.messages[i].thread : i \in
                {j \in Ids(s) : s.messages[j].state \notin ClosedStates
                                \/ s.messages[j].state \in {"active", "verified", "supported"}}}
      joined == {s.messages[i].thread : i \in
                  {j \in Ids(s) \ Roots(s) : s.messages[j].by = who}}
  IN {i \in Ids(s) :
        LET message == Message(s, i)
            root == Message(s, message.thread)
        IN /\ Addressed(root, who)
           /\ resolvedToo \/ message.thread \in open
           /\ ~(/\ i \notin Roots(s) /\ root.independent
                /\ message.by \notin {Operator, who} /\ message.thread \notin joined)}

-----------------------------------------------------------------------------
(* The store                                                                  *)

EmptyStore == [messages |-> <<>>, ops |-> <<>>]

\* validateAgentCommonsStore
ValidStore(s) ==
  /\ Len(s.messages) <= MaxMessages /\ Len(s.ops) <= MaxOps
  /\ IsInjective([k \in DOMAIN s.ops |-> s.ops[k]])
  /\ \A i \in Ids(s) :
       LET message == Message(s, i)
       IN /\ message.parent # 0 =>
               /\ message.parent \in Ids(s) /\ message.thread \in Roots(s)
               /\ Message(s, message.parent).thread = message.thread
          /\ message.supersedes # 0 =>
               /\ message.supersedes \in Ids(s)
               /\ Message(s, message.supersedes).category = "lesson"
               /\ Message(s, message.supersedes).state = "retired"

Touched(s, i) == [s.messages EXCEPT ![i].revision = @ + 1]
Committed(s, o, messages) == [messages |-> messages, ops |-> Append(s.ops, o.id)]

Created(s, o) ==
  LET prior == o.subject
      id == Len(s.messages) + 1
      new == [thread |-> id, parent |-> 0, revision |-> 1, by |-> o.by, to |-> o.to,
              category |-> o.category, state |-> InitialState(o.category),
              independent |-> o.independent, supersedes |-> prior, acks |-> {}]
  IN IF prior = 0 THEN Committed(s, o, Append(s.messages, new))
     ELSE IF /\ prior \in Roots(s) /\ Message(s, prior).category = "lesson"
             /\ Message(s, prior).state # "retired"
     THEN Committed(s, o, Append([Touched(s, prior) EXCEPT ![prior].state = "retired"], new))
     ELSE NoStore

Replied(s, o) ==
  LET root == Message(s, o.subject).thread
  IN IF o.subject \in Ids(s) /\ Addressed(Message(s, root), o.by)
     THEN Committed(s, o, Append(s.messages,
            [thread |-> root, parent |-> o.subject, revision |-> 1, by |-> o.by,
             to |-> Message(s, root).to, category |-> "update", state |-> "open",
             independent |-> FALSE, supersedes |-> 0, acks |-> {}]))
     ELSE NoStore

Acknowledged(s, o) ==
  IF o.subject \in Ids(s) /\ Addressed(Message(s, o.subject), o.by)
  THEN Committed(s, o, [Touched(s, o.subject) EXCEPT ![o.subject].acks = @ \cup {o.by}])
  ELSE NoStore

Transitioned(s, o) ==
  IF /\ o.subject \in Ids(s)
     /\ o.state \in NextStates(Message(s, o.subject).category, Message(s, o.subject).state)
     /\ MayTransition(Message(s, o.subject), o.by, o.state)
  THEN Committed(s, o, [Touched(s, o.subject) EXCEPT ![o.subject].state = o.state])
  ELSE NoStore

Replay(s, id) == id \in ToSet(s.ops)

\* mutate: the next store, or NoStore when the operation is refused.
Outcome(s, o) ==
  LET next == CASE o.action = "create" -> Created(s, o)
                [] o.action = "reply" -> Replied(s, o)
                [] o.action = "acknowledge" -> Acknowledged(s, o)
                [] o.action = "transition" -> Transitioned(s, o)
  IN IF Len(s.messages) >= MaxMessages \/ Len(s.ops) >= MaxOps \/ ~ValidStore(next)
     THEN NoStore ELSE next

-----------------------------------------------------------------------------
(* What agents and the operator ask for                                       *)

\* normalizedCreateInput: only a decision is independent, only a lesson supersedes.
Operations(who) ==
  LET Op(action, subject, category, independent, to, state) ==
        [action |-> action, subject |-> subject, category |-> category, by |-> who,
         independent |-> independent, to |-> to, state |-> state]
      About == Ids(store)
  IN {Op("create", 0, c, i, to, "none") :
        c \in Categories, i \in {FALSE}, to \in {Sessions}}
     \cup {Op("create", 0, c, TRUE, Sessions, "none") : c \in Categories \cap {"decision"}}
     \cup {Op("create", i, c, FALSE, Sessions, "none") :
             i \in About, c \in Categories \cap {"lesson"}}
     \cup {Op("reply", i, "update", FALSE, {}, "none") : i \in About}
     \cup {Op("acknowledge", i, "update", FALSE, {}, "none") : i \in About}
     \cup UNION {{Op("transition", i, "update", FALSE, {}, to) :
                    to \in NextStates(store.messages[i].category, store.messages[i].state)}
                 : i \in About}

\* agent-commons.mjs writes an envelope for the pane it runs in; the content may be
\* such as is not taken (secrets, a clock ahead).
Spool(s) ==
  /\ pane[s].live /\ Cardinality(sent) < MaxSpooled
  /\ \E o \in Operations(s), fit \in BOOLEAN :
       LET id == Cardinality(sent) + 1
       IN /\ fit \/ o.action = "acknowledge" \* whatever is in it, it is not looked at
          /\ spool' = spool \cup {[o |-> [id |-> id] @@ o, id |-> id, fit |-> fit, gen |-> pane[s].gen]}
          /\ sent' = sent \cup {id}
  /\ UNCHANGED <<store, rejected, pane, pass, writing, reply, seen, helper, faults>>

\* agent-commons.mjs inbox reads the store itself. (Remembered are answers of agents to
\* something independent.)
ShowInbox(s) ==
  /\ pane[s].live
  /\ \E resolvedToo \in BOOLEAN :
       seen' = [seen EXCEPT ![s] = @ \cup {i \in Inbox(store, s, resolvedToo) :
                  /\ Message(store, Message(store, i).thread).independent
                  /\ i \notin Roots(store) /\ Message(store, i).by \notin {s, Operator}}]
  /\ seen' # seen
  /\ UNCHANGED <<store, spool, rejected, sent, pane, pass, writing, reply, helper, faults>>

\* The agent of a session ends, and another may start there.
AgentEnds(s) ==
  /\ pane[s].live /\ Fault
  /\ \E live \in BOOLEAN : pane' = [pane EXCEPT ![s] = [gen |-> @.gen + 1, live |-> live]]
  /\ UNCHANGED <<store, spool, rejected, sent, pass, writing, reply, seen, helper>>

\* The operator's requests have an operation id each: one sent again is another.
Asks ==
  /\ Len(reply) < MaxAsked /\ writing = NotWriting
  /\ \E o \in Operations(Operator) :
       LET id == -(Len(reply) + 1)
           next == Outcome(store, [id |-> id] @@ o)
       IN IF next = NoStore THEN reply' = Append(reply, "refused") /\ UNCHANGED writing
          ELSE /\ writing' = [id |-> id, stage |-> "begun", next |-> next]
               /\ reply' = Append(reply, "none")
  /\ UNCHANGED <<store, spool, rejected, sent, pane, pass, seen, helper, faults>>

-----------------------------------------------------------------------------
(* The pass over the inbox                                                    *)

\* A snapshot lists panes and then files.
IngestStarts ==
  /\ pass = NoPass /\ spool # {}
  /\ pass' = [at |-> "next", names |-> {e.id : e \in spool},
              gen |-> [s \in Sessions |-> IF pane[s].live THEN pane[s].gen ELSE 0],
              envelope |-> NoEnvelope]
  /\ UNCHANGED <<store, spool, rejected, sent, pane, writing, reply, seen, helper, faults>>

\* mutant: a file that cannot be taken is left where it is.
QuarantinedNowhere(e) ==
  /\ UNCHANGED spool /\ UNCHANGED rejected
  /\ pass' = [pass EXCEPT !.at = "next", !.names = @ \ {e.id}, !.envelope = NoEnvelope]

Quarantined(e) ==
  /\ spool' = spool \ {e} /\ rejected' = rejected \cup {e.id}
  /\ pass' = [pass EXCEPT !.at = "next", !.names = @ \ {e.id}, !.envelope = NoEnvelope]

\* The claimed pane is among those listed, and the content is fit.
Trusted(e) == e.fit /\ e.gen = pass.gen[e.o.by]

Ingest ==
  /\ pass.at = "next" /\ writing = NotWriting
  /\ \E e \in spool :
       /\ e.id \in pass.names
       /\ LET next == Outcome(store, e.o)
          IN CASE ~Trusted(e) -> Quarantined(e) /\ UNCHANGED writing
               [] Trusted(e) /\ Replay(store, e.id) ->
                    /\ pass' = [pass EXCEPT !.at = "unlink", !.envelope = e]
                    /\ UNCHANGED <<spool, rejected, writing>>
               [] Trusted(e) /\ ~Replay(store, e.id) /\ next = NoStore ->
                    Quarantined(e) /\ UNCHANGED writing
               [] OTHER ->
                    /\ writing' = [id |-> e.id, stage |-> "begun", next |-> next]
                    /\ pass' = [pass EXCEPT !.at = "apply", !.envelope = e]
                    /\ UNCHANGED <<spool, rejected>>
  /\ UNCHANGED <<store, sent, pane, reply, seen, helper, faults>>

\* writeJsonAtomic renames the new file over the old one.
Replace ==
  /\ writing.stage = "begun"
  /\ store' = writing.next
  /\ writing' = [writing EXCEPT !.stage = "replaced"]
  /\ UNCHANGED <<spool, rejected, sent, pane, pass, reply, seen, helper, faults>>

\* The end of a write, told to the operator or to the pass.
Told(ok) ==
  /\ writing' = NotWriting
  /\ IF writing.id < 0
     THEN /\ reply' = [reply EXCEPT ![-writing.id] = IF ok THEN "ok" ELSE "failed"]
          /\ UNCHANGED <<spool, rejected, pass>>
     ELSE /\ IF ok THEN pass' = [pass EXCEPT !.at = "unlink"] /\ UNCHANGED <<spool, rejected>>
             ELSE Quarantined(pass.envelope)
          /\ UNCHANGED reply

\* The write ends well; or it fails after the replacement, and the file read again
\* has the operation.
Persisted ==
  /\ writing.stage = "replaced" /\ Told(TRUE)
  /\ UNCHANGED <<store, sent, pane, seen, helper, faults>>

WriteFails ==
  /\ writing.stage # "none" /\ Fault /\ Told(FALSE)
  /\ UNCHANGED <<store, sent, pane, seen, helper>>

IngestUnlinks ==
  /\ pass.at = "unlink"
  /\ spool' = spool \ {pass.envelope}
  /\ pass' = [pass EXCEPT !.at = "next", !.names = @ \ {pass.envelope.id}, !.envelope = NoEnvelope]
  /\ UNCHANGED <<store, rejected, sent, pane, writing, reply, seen, helper, faults>>

\* The file cannot be removed: it is moved away, or stays when that fails as well.
UnlinkFails ==
  /\ pass.at = "unlink" /\ Fault
  /\ \/ Quarantined(pass.envelope)
     \/ /\ pass' = [pass EXCEPT !.at = "next", !.names = @ \ {pass.envelope.id}, !.envelope = NoEnvelope]
        /\ UNCHANGED <<spool, rejected>>
  /\ UNCHANGED <<store, sent, pane, writing, reply, seen, helper>>

IngestEnds ==
  /\ pass.at = "next" /\ pass.names = {}
  /\ pass' = NoPass
  /\ UNCHANGED <<store, spool, rejected, sent, pane, writing, reply, seen, helper, faults>>

-----------------------------------------------------------------------------
(* The helper                                                                 *)

\* agentCommonsHelpRecommendation: an idle agent first, then a new helper.
Recommendation(message, idle, healthy) ==
  IF message.state # "open" THEN "closed"
  ELSE IF helper.live THEN "helper_exists"
  ELSE IF idle \ (Helpers \cup {message.by}) # {} THEN "existing"
  ELSE IF message.by \in Helpers \/ ~healthy THEN "blocked"
  ELSE "spawn"

\* The binding of an approved helper to the request as it is now.
ApprovesHelper(i) ==
  /\ helper.at = "none"
  /\ i \in Roots(store) /\ Message(store, i).category = "help_request"
  /\ \E idle \in SUBSET {s \in Sessions : pane[s].live} :
       Recommendation(Message(store, i), idle, TRUE) = "spawn"
  /\ helper' = [helper EXCEPT !.at = "create", !.request = i,
                              !.revision = Message(store, i).revision,
                              !.approved = Message(store, i)]
  /\ UNCHANGED <<store, spool, rejected, sent, pane, pass, writing, reply, seen, faults>>

\* agentCommonsHelperBindingStillOpen
StillOpen ==
  /\ Message(store, helper.request).state = "open"
  /\ Message(store, helper.request).revision = helper.revision

HelperEnds == helper' = [NoHelper EXCEPT !.live = helper.live]

HelperCreates ==
  /\ helper.at = "create"
  /\ IF StillOpen /\ ~helper.live
     THEN helper' = [helper EXCEPT !.at = "wait", !.live = TRUE] ELSE HelperEnds
  /\ UNCHANGED <<store, spool, rejected, sent, pane, pass, writing, reply, seen, faults>>

\* The pane is there: the request is looked at once more before the guards of the
\* input and the typing, which may fail.
HelperReady ==
  /\ helper.at = "wait"
  /\ IF StillOpen THEN helper' = [helper EXCEPT !.at = "prompted"] ELSE HelperEnds
  /\ UNCHANGED <<store, spool, rejected, sent, pane, pass, writing, reply, seen, faults>>

HelperPrompted ==
  /\ helper.at = "prompted" /\ HelperEnds
  /\ UNCHANGED <<store, spool, rejected, sent, pane, pass, writing, reply, seen, faults>>

Crash ==
  /\ Fault
  /\ pass' = NoPass /\ writing' = NotWriting /\ HelperEnds
  /\ reply' = [i \in DOMAIN reply |-> IF reply[i] = "none" THEN "failed" ELSE reply[i]]
  /\ UNCHANGED <<store, spool, rejected, sent, pane, seen>>

-----------------------------------------------------------------------------
StartFrom(s) ==
  /\ store = s /\ spool = {} /\ rejected = {} /\ sent = {}
  /\ pane = [p \in Sessions |-> [gen |-> 1, live |-> TRUE]]
  /\ pass = NoPass /\ writing = NotWriting /\ reply = <<>>
  /\ seen = [p \in Sessions |-> {}]
  /\ helper = NoHelper /\ faults = 0
Init == StartFrom(EmptyStore)

Ingestion ==
  IngestStarts \/ Ingest \/ Replace \/ Persisted \/ IngestUnlinks \/ IngestEnds

Next ==
  \/ \E s \in Sessions : Spool(s) \/ ShowInbox(s) \/ AgentEnds(s)
  \/ \E i \in 1..MaxMessages : ApprovesHelper(i)
  \/ Asks \/ Ingestion \/ WriteFails \/ UnlinkFails
  \/ HelperCreates \/ HelperReady \/ HelperPrompted \/ Crash

\* Snapshots are taken on a timer and each pass runs to its end.
Spec == Init /\ [][Next]_vars /\ WF_vars(Ingestion)

-----------------------------------------------------------------------------
TypeOK ==
  /\ ValidStore(store) /\ {e.id : e \in spool} \cup rejected \subseteq sent
  /\ pass.at \in {"idle", "next", "apply", "unlink"}
  /\ writing.stage \in {"none", "begun", "replaced"}

\* docs/safety-model.md: "a crash after durable commit can replay the same receipt
\* without duplicating the message": every operation is applied once, an envelope that is
\* gone was applied or set aside, and what the operator was told is so.
AppliedOnce ==
  /\ \A id \in sent : \/ \E e \in spool : e.id = id
                      \/ id \in rejected \/ Replay(store, id)
  /\ \A i \in DOMAIN reply :
       /\ reply[i] = "ok" => Replay(store, -i)
       /\ reply[i] = "refused" => ~Replay(store, -i)
  /\ \A i, j \in Ids(store) :
       Message(store, i).supersedes # 0 /\ i # j =>
         Message(store, i).supersedes # Message(store, j).supersedes

\* "independent-first": an agent is not shown what other agents answered to an
\* independent decision before its own answer is there, whatever was spooled meanwhile.
IndependentFirst ==
  \A s \in Sessions : \A i \in seen[s] :
    \E j \in Ids(store) \ Roots(store) :
      Message(store, j).thread = Message(store, i).thread /\ Message(store, j).by = s

\* A helper is prompted for the request the operator approved: nothing about it changed
\* from the approval to the last look, and no helper asked for it.
PromptedAsApproved ==
  helper'.at = "prompted" /\ helper.at # "prompted" =>
    /\ Message(store, helper.request) = helper.approved
    /\ helper.approved.state = "open" /\ helper.approved.by \notin Helpers
HelperAsApproved == [][PromptedAsApproved]_vars

CommonsSafe == TypeOK /\ AppliedOnce /\ IndependentFirst

\* Every envelope is taken or set aside in the end.
SpoolDrains == <>[](spool = {})
================================================================================
