----------------------------- MODULE IdeaQueue -----------------------------
(* The Idea queue of src/server.js: proposals that agents or the operator     *)
(* write, the planning-only tickets that refine them and the ticket that      *)
(* implements an approved one. Ideas and tickets are one durable document, so *)
(* every operation builds a whole new store and hands it to a validator that  *)
(* refuses it when a link is broken; the store then stays as it was, and the  *)
(* caller (an operator, the queue's pass or the startup) fails.               *)
(* The life of a ticket between two operations of this module is that of      *)
(* PromptQueue, of which only the outcome is kept.                            *)
EXTENDS Naturals, FiniteSets, Sequences, SequencesExt

CONSTANTS
  Prompts,          \* tickets that may exist during the run
  Ideas,            \* ideas that may exist during the run
  Titles,           \* normalized titles: what makes two proposals the same
  Home, Scout,      \* a project's agent and the read-only scout of its workspace
  ItemLimit,        \* MAX_PROMPT_QUEUE_ITEMS
  IdeaLimit,        \* MAX_IDEA_QUEUE_ITEMS
  ItemHistory,      \* PROMPT_QUEUE_HISTORY_LIMIT
  IdeaHistory,      \* IDEA_QUEUE_HISTORY_LIMIT
  BareCaptures,     \* TRUE: a response may be bounded by its return marker alone
  MaxAsks,          \* bound: ideas and tickets the operator writes
  MaxReviews,       \* bound: how often a delivery may end in a review
  MaxCrashes        \* bound: restarts of the server

VARIABLES
  store,            \* [items, ideas, done, settled]
  scout,            \* the scout's session is live
  up,               \* the server runs
  refused,          \* the validator refused a store an operation built
  asks, reviews, crashes

vars == <<store, scout, up, refused, asks, reviews, crashes>>

None == "none"
Sessions == {Home, Scout}
\* The open tickets: a delivery stopped before Enter (unsent_review), one whose
\* submission is uncertain (unsure), one that was delivered and has no trusted
\* answer (review), one whose pane was replaced.
Open == {"queued", "dispatching", "pending", "unsent_review", "unsure", "review", "replaced"}
\* The closed ones; captured_bare is an answer without a Worked footer.
Final == {"captured", "captured_bare", "returned", "released", "canceled", "dismissed",
          "imported"}
Answered == {"captured", "captured_bare", "returned"}
NoItem == [st |-> "absent", session |-> Home, owned |-> FALSE, idea |-> None,
           purpose |-> None, says |-> {}, counted |-> FALSE]
NoIdea == [st |-> "absent", title |-> None, source |-> None, work |-> None,
           refinement |-> None, approved |-> None]

Present(f) == {x \in DOMAIN f : f[x].st # "absent"}
Resolved(i) == i.st \in {"approved", "rejected"}
IsOpen(s, p) == p # None /\ s.items[p].st \in Open

\* The links the validator checks between ideas and the tickets it still finds.
IdeaValid(s, i) ==
  LET idea == s.ideas[i]
      linked == /\ IsOpen(s, idea.refinement)
                /\ s.items[idea.refinement].idea = i
                /\ s.items[idea.refinement].purpose = "refinement"
  IN /\ (idea.st = "refining") = linked
     /\ idea.source \in Present(s.items) =>
          /\ s.items[idea.source].st \in Answered
          /\ s.items[idea.source].purpose # "refinement"
     /\ \A link \in {<<idea.refinement, "refinement">>, <<idea.approved, "approved">>} :
          link[1] \in Present(s.items) =>
            s.items[link[1]].idea = i /\ s.items[link[1]].purpose = link[2]
     /\ (idea.st = "approved") = (idea.approved # None)

ItemLinked(s, p) ==
  LET item == s.items[p] IN
  IF item.purpose = "refinement"
    THEN s.ideas[item.idea].st = "refining" /\ s.ideas[item.idea].refinement = p
    ELSE s.ideas[item.idea].st = "approved" /\ s.ideas[item.idea].approved = p

Valid(s) ==
  /\ Cardinality(Present(s.items)) <= ItemLimit
  /\ Cardinality(Present(s.ideas)) <= IdeaLimit
  /\ \A i \in Present(s.ideas) : IdeaValid(s, i)
  /\ \A p \in Present(s.items) :
       (s.items[p].st \in Open /\ s.items[p].idea # None) => ItemLinked(s, p)

\* What every operation ends with.
Save(s) ==
  /\ store' = IF Valid(s) THEN s ELSE store
  /\ refused' = (refused \/ ~Valid(s))

\* ---------------------------------------------------------------- the store

SetItem(s, p, st) ==
  [s EXCEPT !.items[p].st = st,
            !.done = IF st \in Final THEN Append(Remove(s.done, p), p) ELSE Remove(s.done, p)]

SetIdea(s, i, idea) ==
  [s EXCEPT !.ideas[i] = idea,
            !.settled = IF Resolved(idea) THEN Append(Remove(s.settled, i), i)
                                          ELSE Remove(s.settled, i)]

Forget(f, gone, nothing) == [x \in DOMAIN f |-> IF x \in gone THEN nothing ELSE f[x]]

\* The oldest of xs beyond the last n.
Beyond(xs, n) == {xs[k] : k \in 1 .. (Len(xs) - n)}

TrimItems(s) ==
  LET gone == Beyond(s.done, ItemHistory)
  IN [s EXCEPT !.items = Forget(s.items, gone, NoItem),
               !.done = SelectSeq(s.done, LAMBDA p : p \notin gone)]

\* A resolved idea stays while one of its tickets is open.
TrimIdeas(s) ==
  LET active == {s.items[p].idea : p \in {q \in Prompts : s.items[q].st \in Open}}
      gone == Beyond(SelectSeq(s.settled, LAMBDA i : i \notin active), IdeaHistory)
  IN [s EXCEPT !.ideas = Forget(s.ideas, gone, NoIdea),
               !.settled = SelectSeq(s.settled, LAMBDA i : i \notin gone)]

NewIdea(title) == [NoIdea EXCEPT !.st = "proposed", !.title = title]

NewItem(session, idea, purpose) ==
  [NoItem EXCEPT !.st = "queued", !.session = session, !.idea = idea, !.purpose = purpose]

\* Fresh identifiers: a dropped ticket or idea that is still named is none.
FreeItems(s) ==
  {p \in Prompts : /\ s.items[p].st = "absent"
                   /\ \A i \in Ideas : p \notin {s.ideas[i].source, s.ideas[i].refinement,
                                                 s.ideas[i].approved}}
FreeIdeas(s) ==
  {i \in Ideas : s.ideas[i].st = "absent" /\ \A p \in Prompts : s.items[p].idea # i}
Fresh(ids) == CHOOSE id \in ids : TRUE

\* mutant: the idea is left to the ticket
ReturnNothing(s, p) == s

\* A ticket that refined an idea and closed without an answer gives it back.
ReturnLinkedIdeaRefinementToReview(s, p) ==
  LET i == s.items[p].idea IN
  IF /\ s.items[p].purpose = "refinement"
     /\ s.ideas[i].st = "refining" /\ s.ideas[i].refinement = p
    THEN SetIdea(s, i, [s.ideas[i] EXCEPT !.st = "proposed"])
    ELSE s

TransferLinkedIdeaPromptToReplacement(s, p, q) ==
  LET i == s.items[p].idea IN
  IF i = None THEN s
  ELSE IF s.items[p].purpose = "refinement"
    THEN SetIdea(s, i, [s.ideas[i] EXCEPT !.refinement = q])
  ELSE SetIdea(s, i, [s.ideas[i] EXCEPT !.approved = q])

ReturnMisroutedIdeaToReview(s, p) ==
  IF s.items[p].purpose = "refinement" THEN ReturnLinkedIdeaRefinementToReview(s, p)
  ELSE LET i == s.items[p].idea
       IN SetIdea(s, i, [s.ideas[i] EXCEPT !.st = "proposed", !.approved = None])

\* ------------------------------------------------------ completed tickets

\* The titles a completed ticket proposes, in the order they are added: each
\* one new to the queue, while there is room.
Proposed(s, p, says) ==
  LET titles == SetToSeq(says \ {s.ideas[i].title : i \in Present(s.ideas)})
      add(t, title) ==
        IF FreeIdeas(t) = {} \/ Cardinality(Present(t.ideas)) >= IdeaLimit THEN t
        ELSE SetIdea(t, Fresh(FreeIdeas(t)),
               [NewIdea(title) EXCEPT !.source = p,
                  !.work = IF s.items[p].owned THEN Home ELSE s.items[p].session])
      after[k \in 0 .. Len(titles)] == IF k = 0 THEN s ELSE add(after[k - 1], titles[k])
  IN after[Len(titles)]

\* A refinement gives its answer to the idea; any other answer may propose.
ReconcileIdeaQueueFromCompletion(s, p, says) ==
  LET i == s.items[p].idea IN
  IF /\ s.items[p].purpose = "refinement"
     /\ s.ideas[i].refinement = p /\ s.ideas[i].st = "refining"
    THEN SetIdea(s, i, [s.ideas[i] EXCEPT !.st = "proposed"])
    ELSE IF s.items[p].purpose = "refinement" \/ says = {} THEN s
    ELSE Proposed(TrimIdeas(s), p, says)

\* The ticket closes as st with an answer that says the titles.
Complete(s, p, st, says) ==
  LET closed == SetItem([s EXCEPT !.items[p].says = says, !.items[p].counted = TRUE], p, st)
  IN ReconcileIdeaQueueFromCompletion(closed, p, says)

\* ------------------------------------------------------ operations

Init ==
  /\ store = [items |-> [p \in Prompts |-> NoItem], ideas |-> [i \in Ideas |-> NoIdea],
              done |-> <<>>, settled |-> <<>>]
  /\ scout = FALSE
  /\ up = TRUE /\ refused = FALSE
  /\ asks = 0 /\ reviews = 0 /\ crashes = 0

Rest == UNCHANGED <<scout, up, asks, reviews, crashes>>
Asks == asks < MaxAsks /\ asks' = asks + 1 /\ UNCHANGED <<scout, up, reviews, crashes>>

CreateIdea(title) ==
  /\ up
  /\ LET s == TrimIdeas(store) IN
     /\ Cardinality(Present(s.ideas)) < IdeaLimit
     /\ FreeIdeas(s) # {}
     /\ Save(SetIdea(s, Fresh(FreeIdeas(s)), NewIdea(title)))
  /\ Asks

\* A ticket that asks for proposals; the scout's carries its owner.
CreateTicket(session) ==
  /\ up
  /\ session = Scout => scout
  /\ LET s == TrimItems(store) IN
     /\ Cardinality(Present(s.items)) < ItemLimit
     /\ FreeItems(s) # {}
     /\ LET p == Fresh(FreeItems(s)) IN
          Save([s EXCEPT !.items[p] =
                  [NewItem(session, None, None) EXCEPT !.owned = (session = Scout)]])
  /\ Asks

\* The resource gate passed and the read-only session started.
CreateIdeaScout == up /\ ~scout /\ scout' = TRUE /\ UNCHANGED <<store, up, refused, asks, reviews, crashes>>

\* Approving and refining ask for a live agent; an agent's idea goes back to
\* the project it came from.
MayWork(idea, session) ==
  /\ idea.st = "proposed"
  /\ session = Scout => scout
  /\ idea.source # None => session = idea.work

ApproveIdeaQueueItem(i, session) ==
  /\ up /\ MayWork(store.ideas[i], session)
  /\ LET s == TrimItems(store) IN
     /\ Cardinality(Present(s.items)) < ItemLimit
     /\ FreeItems(s) # {}
     /\ LET p == Fresh(FreeItems(s)) IN
          Save(TrimIdeas(SetIdea([s EXCEPT !.items[p] = NewItem(session, i, "approved")], i,
                 [s.ideas[i] EXCEPT !.st = "approved", !.approved = p])))
  /\ Asks

RefineIdeaQueueItem(i, session) ==
  /\ up /\ MayWork(store.ideas[i], session)
  /\ LET s == TrimItems(store) IN
     /\ Cardinality(Present(s.items)) < ItemLimit
     /\ FreeItems(s) # {}
     /\ LET p == Fresh(FreeItems(s)) IN
          Save(SetIdea([s EXCEPT !.items[p] = NewItem(session, i, "refinement")], i,
                 [s.ideas[i] EXCEPT !.st = "refining", !.refinement = p]))
  /\ Asks

RejectIdeaQueueItem(i) ==
  /\ up /\ store.ideas[i].st = "proposed"
  /\ Save(TrimIdeas(SetIdea(store, i, [store.ideas[i] EXCEPT !.st = "rejected"])))
  /\ Rest

\* The operator closes a ticket without an answer: leaves the line, dismisses
\* or cancels a review, releases one.
Close(s, p, st) == TrimItems(ReturnLinkedIdeaRefinementToReview(SetItem(s, p, st), p))

CancelPromptQueueItem(p) ==
  up /\ store.items[p].st = "queued" /\ Save(Close(store, p, "canceled")) /\ Rest

DismissPromptQueueLiteralReview(p) ==
  up /\ store.items[p].st = "unsent_review" /\ Save(Close(store, p, "dismissed")) /\ Rest

CancelPromptQueueReview(p) ==
  /\ up /\ store.items[p].st \in {"unsent_review", "unsure", "review", "replaced"}
  /\ Save(Close(store, p, "canceled"))
  /\ Rest

\* A release takes the answer that has become readable meanwhile.
ReleasePromptQueueAfterReview(p) ==
  /\ up /\ store.items[p].st = "review"
  /\ \/ \E says \in SUBSET Titles : Save(TrimItems(Complete(store, p, "captured", says)))
     \/ Save(Close(store, p, "released"))
  /\ Rest

\* The ticket's pane was replaced: its text goes once to the new one.
RequeuePromptQueueAfterReplacement(p) ==
  /\ up /\ store.items[p].st = "replaced"
  /\ Cardinality(Present(store.items)) < ItemLimit
  /\ FreeItems(store) # {}
  /\ LET q == Fresh(FreeItems(store))
           old == store.items[p]
           s == [SetItem(store, p, "released") EXCEPT !.items[q] =
                   NewItem(old.session, old.idea, old.purpose)]
       IN Save(TrimItems(TransferLinkedIdeaPromptToReplacement(s, p, q)))
  /\ Rest

\* A dismissed ticket was submitted by hand; its visible proposals are taken
\* over as the operator's own.
ImportPromptQueueVisibleIdeas(p) ==
  /\ up /\ store.items[p].st = "dismissed" /\ store.items[p].purpose # "refinement"
  /\ \E says \in SUBSET Titles \ {{}} :
       LET s == TrimIdeas(store)
           t == Proposed(s, p, says)
           new == Present(t.ideas) \ Present(s.ideas)
           own == [t EXCEPT !.ideas = [i \in Ideas |->
                     IF i \in new THEN NewIdea(t.ideas[i].title) ELSE t.ideas[i]]]
       IN Save(SetItem(own, p, "imported"))
  /\ Rest

ClearPromptQueueHistory ==
  /\ up /\ store.done # <<>>
  /\ Save([store EXCEPT !.items = Forget(store.items, ToSet(store.done), NoItem), !.done = <<>>])
  /\ Rest

\* ------------------------------------------------------ the queue's pass

\* An answered ticket of an older build, whose snapshot was cut, is read again.
ReconcileCompletedIdeaProposalsFromAgents(p) ==
  /\ up /\ store.items[p].st \in Answered
  /\ store.items[p].purpose # "refinement" /\ ~store.items[p].counted
  /\ \E says \in SUBSET Titles :
       LET s == ReconcileIdeaQueueFromCompletion(store, p, says)
       IN Save(SetItem([s EXCEPT !.items[p].counted = TRUE], p, s.items[p].st))
  /\ Rest

\* A queued ticket for an agent's idea that targets another project.
PromptQueueIdeaSourceMismatch(s, p) ==
  LET item == s.items[p] IN
  /\ item.st = "queued" /\ item.idea # None
  /\ ItemLinked(s, p)
  /\ s.ideas[item.idea].source # None
  /\ s.ideas[item.idea].work # item.session

RejectMisroutedQueuedIdeaWork(p) ==
  /\ up /\ PromptQueueIdeaSourceMismatch(store, p)
  /\ Save(TrimItems(ReturnMisroutedIdeaToReview(SetItem(store, p, "canceled"), p)))
  /\ Rest

\* The pass that claims a ticket has just rejected every misrouted one.
Claim(p) ==
  /\ up /\ store.items[p].st = "queued"
  /\ \A q \in Prompts : ~PromptQueueIdeaSourceMismatch(store, q)
  /\ Save(SetItem(store, p, "dispatching"))
  /\ Rest

Deliver(p, st) ==
  /\ up /\ store.items[p].st = "dispatching"
  /\ st # "pending" => reviews < MaxReviews
  /\ Save(TrimItems(SetItem(store, p, st)))
  /\ reviews' = IF st = "pending" THEN reviews ELSE reviews + 1
  /\ UNCHANGED <<scout, up, asks, crashes>>

\* The stable answer of a delivered ticket.
CapturePromptQueueCompletions(p, st) ==
  /\ up /\ store.items[p].st \in {"pending", "review"}
  /\ store.items[p].st = "review" => st # "returned"
  /\ \E says \in SUBSET Titles : Save(Complete(store, p, st, says))
  /\ Rest

\* Or there is none: another prompt, a replaced pane, the capture window.
NeedsReview(p, st) ==
  /\ up /\ store.items[p].st = "pending" /\ reviews < MaxReviews
  /\ Save(SetItem(store, p, st))
  /\ reviews' = reviews + 1
  /\ UNCHANGED <<scout, up, asks, crashes>>

\* An uncertain submission shows up accepted after all.
AcceptedLate(p) ==
  /\ up /\ store.items[p].st \in {"unsent_review", "unsure"}
  /\ Save(SetItem(store, p, "pending"))
  /\ Rest

\* ------------------------------------------------------ restarts

Crash ==
  /\ up /\ crashes < MaxCrashes
  /\ up' = FALSE /\ crashes' = crashes + 1
  /\ UNCHANGED <<store, scout, refused, asks, reviews>>

\* What the startup does with the document it finds: a delivery in flight is
\* uncertain, and an answer without a footer was taken too early.
Reconciled(s) ==
  LET after == [p \in Prompts |->
        CASE s.items[p].st = "dispatching" -> "unsure"
          [] s.items[p].st = "captured_bare" -> "review"
          [] OTHER -> s.items[p].st]
  IN [s EXCEPT !.items = [p \in Prompts |->
                 [s.items[p] EXCEPT !.st = after[p],
                    !.says = IF after[p] = "review" THEN {} ELSE @]],
               !.done = SelectSeq(s.done, LAMBDA p : after[p] \in Final)]

\* Then every answer still in the history proposes again what is missing.
ReconciledProposals(s) ==
  LET answered == SetToSeq({p \in Prompts : s.items[p].st \in Answered})
      after[k \in 0 .. Len(answered)] ==
        IF k = 0 THEN s
        ELSE ReconcileIdeaQueueFromCompletion(after[k - 1], answered[k], s.items[answered[k]].says)
  IN after[Len(answered)]

\* The server only listens when both were accepted.
Restart ==
  /\ ~up
  /\ LET s == Reconciled(store) IN
     /\ up' = Valid(s)
     /\ Save(IF Valid(s) THEN ReconciledProposals(s) ELSE s)
  /\ UNCHANGED <<scout, asks, reviews, crashes>>

\* ------------------------------------------------------ the specification

Captures == {"captured", "returned"} \union (IF BareCaptures THEN {"captured_bare"} ELSE {})

Operator ==
  \/ \E title \in Titles : CreateIdea(title)
  \/ \E session \in Sessions : CreateTicket(session)
  \/ CreateIdeaScout
  \/ \E i \in Ideas, session \in Sessions :
       ApproveIdeaQueueItem(i, session) \/ RefineIdeaQueueItem(i, session)
  \/ \E i \in Ideas : RejectIdeaQueueItem(i)
  \/ \E p \in Prompts :
       \/ CancelPromptQueueItem(p)
       \/ DismissPromptQueueLiteralReview(p)
       \/ RequeuePromptQueueAfterReplacement(p)
       \/ ImportPromptQueueVisibleIdeas(p)
  \/ ClearPromptQueueHistory

\* The operator attends to every review.
Attends(p) == ReleasePromptQueueAfterReview(p) \/ CancelPromptQueueReview(p)

Pass(p) ==
  \/ ReconcileCompletedIdeaProposalsFromAgents(p)
  \/ RejectMisroutedQueuedIdeaWork(p)
  \/ Claim(p)
  \/ \E st \in {"pending", "unsent_review", "unsure"} : Deliver(p, st)
  \/ AcceptedLate(p)
  \/ \E st \in Captures : CapturePromptQueueCompletions(p, st)
  \/ \E st \in {"review", "replaced"} : NeedsReview(p, st)

Next ==
  \/ Operator
  \/ \E p \in Prompts : Attends(p) \/ Pass(p)
  \/ Crash \/ Restart

Spec == Init /\ [][Next]_vars

\* ------------------------------------------------------ properties

TypeOK ==
  /\ store.items \in [Prompts -> [st : Open \union Final \union {"absent"}, session : Sessions,
       owned : BOOLEAN, idea : Ideas \union {None}, purpose : {None, "refinement", "approved"},
       says : SUBSET Titles, counted : BOOLEAN]]
  /\ store.ideas \in [Ideas -> [st : {"absent", "proposed", "refining", "approved", "rejected"},
       title : Titles \union {None}, source : Prompts \union {None},
       work : Sessions \union {None}, refinement : Prompts \union {None},
       approved : Prompts \union {None}]]

\* The validator never refuses what an operation built: a refused store fails
\* every pass of the queue, or the startup, until somebody edits the file.
NeverRefused == ~refused

\* The same of the startup alone: docs/architecture.md "Prompt Queue startup reconciliation
\* independently turns any in-flight queued prompt into Needs review before snapshots can
\* dispatch work", so no saved store keeps the server from listening.
StartupSucceeds == refused => up

\* An idea is implemented once: two tickets for it are never both alive or
\* answered, whatever was cancelled, requeued or returned to the review.
ImplementedOnce ==
  \A p, q \in Prompts :
    /\ p # q
    /\ store.items[p].purpose = "approved" /\ store.items[q].purpose = "approved"
    /\ {store.items[p].st, store.items[q].st} \subseteq (Open \union Answered)
    => store.items[p].idea # store.items[q].idea

\* Agents' proposals that await or passed the operator differ in their title,
\* however often the answers they came from are read again.
ProposedOnce ==
  \A i, j \in Ideas :
    /\ i # j /\ store.ideas[i].source # None /\ store.ideas[j].source # None
    /\ "rejected" \notin {store.ideas[i].st, store.ideas[j].st}
    => store.ideas[i].title # store.ideas[j].title

IdeasSafe == TypeOK /\ NeverRefused /\ ImplementedOnce /\ ProposedOnce
=============================================================================
