-------------------------- MODULE PromptQueueProofs --------------------------
(* Theorems about PromptQueue for every set of items and lines, every history   *)
(* limit and every number of crashes and failing writes. The first part is the  *)
(* delivery of one item; the second the store and the lines: what the validator *)
(* accepts, what "sent" means, which item may be in flight, what history is,    *)
(* and that each line is the line an operator is promised. The third part is    *)
(* about the recurring prompts, an instance of PromptSchedules.                 *)
EXTENDS PromptQueue, FiniteSetTheorems, TLAPS

Store == [Items -> ItemType]

--------------------------------------------------------------------------------
(* The store operators keep the type of the store.                              *)

\* A slot without an item has the type of an item.
LEMMA AbsentType == Absent \in ItemType
  BY ConstantsAssumption DEF Absent, ItemType, Stages, Summaries, Statuses

\* newPromptQueueItem makes an item of the store.
LEMMA NewItemType ==
  ASSUME NEW g \in 0..MaxGen, NEW p \in Nat
  PROVE  NewItem(g, p) \in ItemType
  BY DEF NewItem, Absent, ItemType, Stages, Summaries, Statuses

\* Trimming forgets items and changes none (trimPromptQueueHistory).
LEMMA TrimmedStore ==
  ASSUME NEW q \in Store, NEW next \in Trimmed(q)
  PROVE  /\ next \in Store
         /\ \A i \in Items : next[i] = q[i] \/ next[i] = Absent
  <1>1. PICK kept \in SUBSET Finals(q) :
          next = [i \in Items |-> IF i \in Finals(q) \ kept THEN Absent ELSE q[i]]
    BY DEF Trimmed
  <1>2. QED BY <1>1, AbsentType DEF Store

\* persistPromptQueue keeps both copies of the store well typed, even if it throws.
LEMMA PersistTypes ==
  ASSUME TypeOK, NEW next \in Store, Persist(next)
  PROVE  mem' \in Store /\ disk' \in Store /\ faults' \in 0..MaxFaults
  BY ConstantsAssumption DEF TypeOK, Persist, Written, WriteThrows, Store

\* The same for the two outcomes a pass tells apart.
LEMMA WriteTypes ==
  ASSUME TypeOK, NEW next \in Store, Written(next) \/ WriteThrows(next)
  PROVE  mem' \in Store /\ disk' \in Store /\ faults' \in 0..MaxFaults
  BY ConstantsAssumption DEF TypeOK, Written, WriteThrows, Store

\* Finishing an item keeps the store and the observations well typed.
LEMMA FinishTypes ==
  ASSUME TypeOK, NEW i \in Items, NEW item \in ItemType, Finish(i, item)
  PROVE  /\ mem' \in Store /\ disk' \in Store /\ faults' \in 0..MaxFaults
         /\ ready' \subseteq Items
  <1>1. With(mem, i, item) \in Store BY DEF TypeOK, With, Store
  <1>2. PICK next \in Trimmed(With(mem, i, item)) : Persist(next) BY DEF Finish
  <1>3. next \in Store BY <1>1, <1>2, TrimmedStore
  <1>4. ready' \subseteq Items BY DEF Finish, Forget, TypeOK
  <1>5. QED BY <1>2, <1>3, <1>4, PersistTypes

\* The empty sample is a sample.
LEMMA NoSampleType == NoSample \in [Sessions -> SampleType]
  BY ConstantsAssumption DEF NoSample, SampleType

\* The server starts with a well-typed state (ensurePromptQueue).
LEMMA InitType == Init => TypeOK
  <1> SUFFICES ASSUME Init PROVE TypeOK OBVIOUS
  <1>1. mem \in Store /\ disk \in Store
    BY AbsentType DEF Init, Store
  <1>2. pane \in [Sessions -> PaneType]
    <2>1. [gen |-> 1, state |-> "live"] \in PaneType
      BY ConstantsAssumption DEF PaneType
    <2>2. QED BY <2>1 DEF Init
  <1>3. crashes \in 0..MaxCrashes /\ faults \in 0..MaxFaults
    <2>1. crashes = 0 /\ faults = 0 BY DEF Init
    <2>2. MaxCrashes \in Nat /\ MaxFaults \in Nat BY ConstantsAssumption
    <2>3. QED BY <2>1, <2>2
  <1>4. phase \in Phases /\ out \in Stages
    BY DEF Init, Phases, Stages
  <1>5. typed \in [Items -> Nat] /\ entered \in [Items -> Nat]
    BY DEF Init
  <1>6. QED
    BY <1>1, <1>2, <1>3, <1>4, <1>5, NoSampleType DEF Init, TypeOK, Store

--------------------------------------------------------------------------------
(* Operator requests keep the types.                                            *)

\* What a request leaves alone, apart from the store, used and the observations.
RequestFrame == UNCHANGED <<pane, up, passVars, sample, aged, ghosts, crashes>>

\* A request that keeps the store well typed keeps the whole state well typed.
LEMMA RequestType ==
  ASSUME TypeOK, RequestFrame,
         mem' \in Store, disk' \in Store, faults' \in 0..MaxFaults,
         used' \subseteq Items, ready' \subseteq Items
  PROVE  TypeOK'
  BY DEF TypeOK, RequestFrame, passVars, ghosts, Store

\* Every item has a line.
LEMMA LineType == \A i \in Items : Line[i] \in Sessions
  BY ConstantsAssumption

\* Every slot of both copies is an item or absent.
LEMMA ItemOfStore ==
  ASSUME TypeOK, NEW i \in Items
  PROVE  mem[i] \in ItemType /\ disk[i] \in ItemType
  BY DEF TypeOK

\* The names the requests and the pass write into an item are in its vocabulary.
LEMMA Vocabulary ==
  /\ {"queued", "dispatching", "sent", "needs_review", "canceled"} \subseteq Statuses
  /\ {"pending", "captured", "operator_released", "unavailable"} \subseteq Summaries
  /\ {"", "dispatching", "completion_recovered", "operator_released",
      "operator_requeued_after_replacement", "literal_review_dismissed",
      "review_canceled", "waiting_for_manual_submit", "monitoring_after_review",
      "monitoring_after_response", "dispatch_envelope_too_long"} \subseteq Stages
  BY DEF Statuses, Summaries, Stages

\* createPromptQueueItem keeps the types.
LEMMA CreateTypes ==
  ASSUME TypeOK, NEW i \in Items, Create(i)
  PROVE  TypeOK'
  <1>a. PICK p \in 1..Cardinality(Items), g \in 1..pane[Line[i]].gen :
          \E next \in Trimmed(With(mem, i, NewItem(g, p))) : Persist(next)
    BY DEF Create
  <1>1. PICK next \in Trimmed(With(mem, i, NewItem(g, p))) : Persist(next)
    BY <1>a
  <1>2. g \in 0..MaxGen /\ p \in Nat
    <2>1. pane[Line[i]].gen \in 1..MaxGen
      BY LineType DEF TypeOK, PaneType
    <2>2. QED BY <2>1, ConstantsAssumption
  <1>3. With(mem, i, NewItem(g, p)) \in Store
    BY <1>2, NewItemType DEF TypeOK, With, Store
  <1>4. next \in Store BY <1>3, <1>1, TrimmedStore
  <1>5. mem' \in Store /\ disk' \in Store /\ faults' \in 0..MaxFaults
    BY <1>4, <1>1, PersistTypes
  <1>6. used' \subseteq Items /\ ready' \subseteq Items /\ RequestFrame
    BY DEF Create, TypeOK, RequestFrame
  <1>7. QED BY <1>5, <1>6, RequestType

\* createPromptQueueBatch keeps the types.
LEMMA CreateBatchTypes ==
  ASSUME TypeOK, NEW i \in Items, NEW j \in Items, CreateBatch(i, j)
  PROVE  TypeOK'
  <1> DEFINE batch(p) == [mem EXCEPT ![i] = NewItem(pane[Line[i]].gen, p),
                                     ![j] = NewItem(pane[Line[j]].gen, BatchPosition(p, 1))]
  <1>a. PICK p \in 1..Cardinality(Items) :
          \E next \in Trimmed(batch(p)) : Persist(next)
    BY DEF CreateBatch
  <1>1. PICK next \in Trimmed(batch(p)) : Persist(next) BY <1>a
  <1>2. pane[Line[i]].gen \in 0..MaxGen /\ pane[Line[j]].gen \in 0..MaxGen
    <2>1. \A s \in Sessions : pane[s].gen \in 0..MaxGen
      BY ConstantsAssumption DEF TypeOK, PaneType
    <2>2. QED BY <2>1, LineType
  <1>3. batch(p) \in Store
    <2>1. p \in Nat /\ BatchPosition(p, 1) \in Nat BY DEF BatchPosition
    <2>2. /\ NewItem(pane[Line[i]].gen, p) \in ItemType
          /\ NewItem(pane[Line[j]].gen, BatchPosition(p, 1)) \in ItemType
      BY <1>2, <2>1, NewItemType
    <2>3. QED BY <2>2 DEF TypeOK, Store
  <1>4. next \in Store BY <1>3, <1>1, TrimmedStore
  <1>5. mem' \in Store /\ disk' \in Store /\ faults' \in 0..MaxFaults
    BY <1>4, <1>1, PersistTypes
  <1>6. used' \subseteq Items /\ ready' \subseteq Items /\ RequestFrame
    BY DEF CreateBatch, TypeOK, RequestFrame
  <1>7. QED BY <1>5, <1>6, RequestType

\* The requests that finish one item.
LEMMA FinishRequestTypes ==
  ASSUME TypeOK, NEW i \in Items, NEW item \in ItemType, Finish(i, item),
         UNCHANGED used, RequestFrame
  PROVE  TypeOK'
  <1>1. used' \subseteq Items BY DEF TypeOK
  <1>2. QED BY <1>1, FinishTypes, RequestType

\* The requests that edit one item in place.
LEMMA EditRequestTypes ==
  ASSUME TypeOK, NEW i \in Items, NEW item \in ItemType,
         Persist(With(mem, i, item)), UNCHANGED used, ready' \subseteq Items,
         RequestFrame
  PROVE  TypeOK'
  <1>1. With(mem, i, item) \in Store BY DEF TypeOK, With, Store
  <1>2. used' \subseteq Items BY DEF TypeOK
  <1>3. QED BY <1>1, <1>2, PersistTypes, RequestType

\* requeuePromptQueueAfterReplacement keeps the types.
LEMMA RequeueTypes ==
  ASSUME TypeOK, NEW i \in Items, NEW j \in Items, RequeueAfterReplacement(i, j)
  PROVE  TypeOK'
  <1> DEFINE closed == [mem[i] EXCEPT !.status = "sent",
                          !.summary = "operator_released",
                          !.stage = "operator_requeued_after_replacement",
                          !.completed = TRUE, !.footer = FALSE]
             requeued(p) == [mem EXCEPT ![i] = [@ EXCEPT !.status = "sent",
                          !.summary = "operator_released",
                          !.stage = "operator_requeued_after_replacement",
                          !.completed = TRUE, !.footer = FALSE],
                          ![j] = NewItem(pane[Line[j]].gen, p)]
  <1>a. PICK p \in 1..Cardinality(Items) :
          \E next \in Trimmed(requeued(p)) : Persist(next)
    BY DEF RequeueAfterReplacement
  <1>1. PICK next \in Trimmed(requeued(p)) : Persist(next) BY <1>a
  <1>2. pane[Line[j]].gen \in 0..MaxGen
    BY ConstantsAssumption, LineType DEF TypeOK, PaneType
  <1>3. requeued(p) \in Store
    <2>1. NewItem(pane[Line[j]].gen, p) \in ItemType BY <1>2, NewItemType
    <2>2. closed \in ItemType
      BY ItemOfStore, Vocabulary DEF ItemType
    <2>3. QED BY <2>1, <2>2 DEF TypeOK, Store
  <1>4. next \in Store BY <1>3, <1>1, TrimmedStore
  <1>5. mem' \in Store /\ disk' \in Store /\ faults' \in 0..MaxFaults
    BY <1>4, <1>1, PersistTypes
  <1>6. used' \subseteq Items /\ ready' \subseteq Items /\ RequestFrame
    BY DEF RequeueAfterReplacement, TypeOK, RequestFrame, Forget
  <1>7. QED BY <1>5, <1>6, RequestType

\* Every operator request keeps the types.
LEMMA OperatorTypes == TypeOK /\ Operator => TypeOK'
  <1> SUFFICES ASSUME TypeOK, Operator PROVE TypeOK' OBVIOUS
  <1> USE DEF RequestFrame
  <1>1. ASSUME NEW i \in Items, Create(i) PROVE TypeOK'
    BY <1>1, CreateTypes
  <1>2. ASSUME NEW i \in Items, Cancel(i) PROVE TypeOK'
    <2>1. [mem[i] EXCEPT !.status = "canceled", !.summary = "unavailable"] \in ItemType
      BY ItemOfStore, Vocabulary DEF ItemType
    <2>2. QED BY <1>2, <2>1, FinishRequestTypes DEF Cancel
  <1>3. ASSUME NEW i \in Items, DismissLiteral(i) PROVE TypeOK'
    <2>1. [mem[i] EXCEPT !.status = "canceled", !.summary = "unavailable",
                         !.stage = "literal_review_dismissed"] \in ItemType
      BY ItemOfStore, Vocabulary DEF ItemType
    <2>2. QED BY <1>3, <2>1, FinishRequestTypes DEF DismissLiteral
  <1>4. ASSUME NEW i \in Items, CancelReview(i) PROVE TypeOK'
    <2>1. [mem[i] EXCEPT !.status = "canceled", !.summary = "unavailable",
                         !.stage = "review_canceled",
                         !.completed = mem[i].sent] \in ItemType
      BY ItemOfStore, Vocabulary DEF ItemType
    <2>2. QED BY <1>4, <2>1, FinishRequestTypes DEF CancelReview
  <1>5. ASSUME NEW i \in Items, WaitManual(i) PROVE TypeOK'
    <2>1. [mem[i] EXCEPT !.stage = "waiting_for_manual_submit"] \in ItemType
      BY ItemOfStore, Vocabulary DEF ItemType
    <2>2. ready' \subseteq Items BY <1>5 DEF WaitManual, TypeOK
    <2>3. QED BY <1>5, <2>1, <2>2, EditRequestTypes DEF WaitManual
  <1>6. ASSUME NEW i \in Items, Retarget(i) PROVE TypeOK'
    <2>1. pane[Line[i]].gen \in 0..MaxGen
      BY ConstantsAssumption, LineType DEF TypeOK, PaneType
    <2>2. [mem[i] EXCEPT !.gen = pane[Line[i]].gen, !.stage = ""] \in ItemType
      BY <2>1, ItemOfStore, Vocabulary DEF ItemType
    <2>3. ready' \subseteq Items BY <1>6 DEF Retarget, TypeOK, Forget
    <2>4. QED BY <1>6, <2>2, <2>3, EditRequestTypes DEF Retarget
  <1>7. ASSUME NEW i \in Items, Release(i) PROVE TypeOK'
    <2>1. \A footer \in BOOLEAN :
            [mem[i] EXCEPT !.status = "sent", !.summary = "captured",
                           !.stage = "completion_recovered", !.completed = TRUE,
                           !.footer = footer] \in ItemType
      BY ItemOfStore, Vocabulary DEF ItemType
    <2>2. [mem[i] EXCEPT !.status = "sent", !.summary = "operator_released",
                         !.stage = "operator_released", !.completed = TRUE,
                         !.footer = FALSE] \in ItemType
      BY ItemOfStore, Vocabulary DEF ItemType
    <2>3. \A b \in Boundaries : (b = "footer") \in BOOLEAN OBVIOUS
    <2>4. \E item \in ItemType : Finish(i, item)
      BY <1>7, <2>1, <2>2, <2>3 DEF Release
    <2>5. PICK item \in ItemType : Finish(i, item) BY <2>4
    <2>6. QED BY <1>7, <2>5, FinishRequestTypes DEF Release
  <1>8. ASSUME NEW i \in Items, ContinueMonitoring(i) PROVE TypeOK'
    <2>1. [mem[i] EXCEPT !.status = "sent", !.summary = "pending", !.completed = FALSE,
             !.footer = FALSE, !.stage = "monitoring_after_review"] \in ItemType
      BY ItemOfStore, Vocabulary DEF ItemType
    <2>2. ready' \subseteq Items BY <1>8 DEF ContinueMonitoring, TypeOK
    <2>3. QED BY <1>8, <2>1, <2>2, EditRequestTypes DEF ContinueMonitoring
  <1>9. ASSUME NEW i \in Items, LinkAnswer(i) PROVE TypeOK'
    <2>1. [mem[i] EXCEPT !.status = "sent", !.summary = "pending", !.completed = FALSE,
             !.footer = FALSE, !.stage = "monitoring_after_response"] \in ItemType
      BY ItemOfStore, Vocabulary DEF ItemType
    <2>2. ready' \subseteq Items BY <1>9 DEF LinkAnswer, TypeOK
    <2>3. QED BY <1>9, <2>1, <2>2, EditRequestTypes DEF LinkAnswer
  <1>10. CASE ClearHistory
    <2> DEFINE next == [i \in Items |-> IF i \in Finals(mem) THEN Absent ELSE mem[i]]
    <2>1. next \in Store BY AbsentType DEF TypeOK, Store
    <2>2. ready' \subseteq Items /\ used' \subseteq Items
      BY <1>10 DEF ClearHistory, TypeOK, Forget
    <2>3. Persist(next) BY <1>10 DEF ClearHistory
    <2>4. mem' \in Store /\ disk' \in Store /\ faults' \in 0..MaxFaults
      BY <2>1, <2>3, PersistTypes
    <2>5. RequestFrame BY <1>10 DEF ClearHistory
    <2>6. QED BY <2>2, <2>4, <2>5, RequestType
  <1>11. ASSUME NEW i \in Items, NEW j \in Items,
                CreateBatch(i, j) \/ RequeueAfterReplacement(i, j)
         PROVE TypeOK'
    BY <1>11, CreateBatchTypes, RequeueTypes
  <1>12. QED
    BY <1>1, <1>2, <1>3, <1>4, <1>5, <1>6, <1>7, <1>8, <1>9, <1>10, <1>11
    DEF Operator

--------------------------------------------------------------------------------
(* The steps of a pass keep the types.                                          *)

\* What capturePromptQueueCompletions makes of an item is an item.
LEMMA ConcludedType ==
  ASSUME NEW item \in ItemType, NEW c \in Conclusions
  PROVE  Concluded(item, c) \in ItemType
  <1>1. CASE c = "none" BY <1>1 DEF Concluded
  <1>2. CASE c = "accepted"
    BY <1>2 DEF Concluded, ItemType, Statuses, Summaries, Stages
  <1>3. CASE c \in {"footer", "explicit"}
    <2>1. CapturedStage(item, c) \in Stages
      BY DEF CapturedStage, ItemType, Stages
    <2>2. PICK footer \in BOOLEAN : footer = (c = "footer") OBVIOUS
    <2>3. Concluded(item, c) =
            [item EXCEPT !.status = "sent", !.summary = "captured", !.completed = TRUE,
                         !.footer = footer, !.stage = CapturedStage(item, c)]
      BY <1>3, <2>2 DEF Concluded
    <2>4. QED BY <2>1, <2>3 DEF ItemType, Statuses, Summaries
  <1>4. CASE c = "returned"
    BY <1>4 DEF Concluded, ItemType, Statuses, Summaries, Stages
  <1>5. CASE c \in CompletionReviews \cup {"completion_target_replaced"}
    <2>1. c \in Stages BY <1>5 DEF Stages
    <2>2. c \notin {"none", "accepted", "footer", "explicit", "returned"}
      BY <1>5 DEF CompletionReviews
    <2>3. Concluded(item, c) =
            [item EXCEPT !.status = "needs_review", !.summary = "unavailable",
                         !.completed = FALSE, !.footer = FALSE, !.stage = c]
      BY <2>2 DEF Concluded
    <2>4. QED BY <2>1, <2>3 DEF ItemType, Statuses, Summaries
  <1>6. QED BY <1>1, <1>2, <1>3, <1>4, <1>5 DEF Conclusions

\* What processPromptQueue records of a delivery is an item.
LEMMA DeliveredType ==
  ASSUME NEW i \in Items, NEW item \in ItemType, NEW o \in Stages \cup {"submitted"}
  PROVE  Delivered(i, item, o) \in ItemType
  <1>1. CASE o = "submitted"
    BY <1>1 DEF Delivered, ItemType, Statuses, Summaries, Stages
  <1>2. CASE o = "accepted"
    BY <1>2 DEF Delivered, ItemType, Statuses, Summaries, Stages
  <1>3. CASE o # "submitted" /\ o # "accepted"
    <2>1. o \in Stages BY <1>3
    <2>2. Delivered(i, item, o) =
            [item EXCEPT !.status = "needs_review", !.summary = "unavailable", !.stage = o]
      BY <1>3 DEF Delivered
    <2>3. QED BY <2>1, <2>2 DEF ItemType, Statuses, Summaries
  <1>4. QED BY <1>1, <1>2, <1>3

\* The delivery steps that leave the store alone.
LEMMA DeliveryTypes ==
  ASSUME TypeOK, Preflight \/ Type \/ Submit \/ Confirm
  PROVE  TypeOK'
  <1>1. CASE Preflight
    BY <1>1 DEF TypeOK, Preflight, Phases, Stages, DeliveryFailures, store, ghosts
  <1>2. CASE Type
    <2>1. typed' \in [Items -> Nat] BY <1>2 DEF Type, TypeOK
    <2>2. phase' \in Phases /\ out' \in Stages \cup {"submitted"}
      BY <1>2 DEF Type, TypeOK, Phases, Stages, DeliveryFailures
    <2>3. QED BY <1>2, <2>1, <2>2 DEF TypeOK, Type, store
  <1>3. CASE Submit
    <2>1. entered' \in [Items -> Nat] BY <1>3 DEF Submit, TypeOK
    <2>2. phase' \in Phases /\ out' \in Stages \cup {"submitted"}
      BY <1>3 DEF Submit, TypeOK, Phases, Stages, DeliveryFailures
    <2>3. QED BY <1>3, <2>1, <2>2 DEF TypeOK, Submit, store
  <1>4. CASE Confirm
    BY <1>4 DEF TypeOK, Confirm, Phases, Stages, DeliveryFailures, store, ghosts
  <1>5. QED BY <1>1, <1>2, <1>3, <1>4

\* Concluding completions keeps the types (capturePromptQueueCompletions).
LEMMA StartPassTypes == TypeOK /\ StartPass => TypeOK'
  <1> SUFFICES ASSUME TypeOK, StartPass PROVE TypeOK' OBVIOUS
  <1>1. PICK concl \in [Candidates -> Conclusions] :
          LET next == [i \in Items |-> IF i \in Candidates
                                         THEN Concluded(mem[i], concl[i]) ELSE mem[i]]
          IN IF next = mem
               THEN UNCHANGED store /\ phase' = "heads" /\ todo' = Heads(mem)
               ELSE \/ Written(next) /\ phase' = "heads" /\ todo' = Heads(next)
                    \/ WriteThrows(next) /\ UNCHANGED <<phase, todo>>
    BY DEF StartPass
  <1> DEFINE next == [i \in Items |-> IF i \in Candidates
                                        THEN Concluded(mem[i], concl[i]) ELSE mem[i]]
  <1>2. next \in Store
    BY ConcludedType, ItemOfStore DEF Store
  <1>3. mem' \in Store /\ disk' \in Store /\ faults' \in 0..MaxFaults
    <2>1. CASE UNCHANGED store BY <2>1 DEF TypeOK, store, Store
    <2>2. CASE Written(next) \/ WriteThrows(next) BY <2>2, <1>2, WriteTypes
    <2>3. QED BY <1>1, <2>1, <2>2
  <1>4. phase' \in Phases /\ todo' \subseteq Items
    BY <1>1 DEF TypeOK, Phases, Heads, Open, Present
  <1>5. aged' \subseteq Items BY DEF StartPass, TypeOK
  <1>6. QED BY <1>3, <1>4, <1>5 DEF StartPass, TypeOK, Store, ghosts

\* Rejecting a text that no longer fits keeps the types.
LEMMA RejectLongTypes ==
  ASSUME TypeOK, NEW i \in Items, RejectLong(i)
  PROVE  TypeOK'
  <1> DEFINE rejected == With(mem, i, [mem[i] EXCEPT !.status = "canceled",
                                         !.summary = "unavailable",
                                         !.stage = "dispatch_envelope_too_long"])
  <1>1. PICK next \in Trimmed(rejected) :
          \/ Written(next) /\ todo' = todo \ {i} /\ UNCHANGED phase
          \/ WriteThrows(next) /\ todo' = {} /\ phase' = "idle"
    BY DEF RejectLong
  <1>2. rejected \in Store
    <2>1. [mem[i] EXCEPT !.status = "canceled", !.summary = "unavailable",
                         !.stage = "dispatch_envelope_too_long"] \in ItemType
      BY ItemOfStore, Vocabulary DEF ItemType
    <2>2. QED BY <2>1 DEF TypeOK, With, Store
  <1>3. next \in Store BY <1>1, <1>2, TrimmedStore
  <1>4. mem' \in Store /\ disk' \in Store /\ faults' \in 0..MaxFaults
    BY <1>1, <1>3, WriteTypes
  <1>5. phase' \in Phases /\ todo' \subseteq Items /\ ready' \subseteq Items
    BY <1>1 DEF TypeOK, Phases, RejectLong, Forget
  <1>6. QED BY <1>4, <1>5 DEF RejectLong, TypeOK, Store, ghosts

\* The claim keeps the types.
LEMMA ClaimTypes ==
  ASSUME TypeOK, NEW i \in Items, Claim(i)
  PROVE  TypeOK'
  <1> DEFINE next == With(mem, i, [mem[i] EXCEPT !.status = "dispatching",
                                     !.claimed = TRUE, !.stage = "dispatching"])
  <1>1. \/ /\ Written(next) /\ Forget({i})
           /\ phase' = "preflight" /\ cur' = i /\ todo' = todo \ {i}
        \/ /\ WriteThrows(next) /\ UNCHANGED <<ready, cur>>
           /\ phase' = "idle" /\ todo' = {}
    BY DEF Claim
  <1>2. next \in Store
    <2>1. [mem[i] EXCEPT !.status = "dispatching", !.claimed = TRUE,
                         !.stage = "dispatching"] \in ItemType
      BY ItemOfStore, Vocabulary DEF ItemType
    <2>2. QED BY <2>1 DEF TypeOK, With, Store
  <1>3. mem' \in Store /\ disk' \in Store /\ faults' \in 0..MaxFaults
    BY <1>1, <1>2, WriteTypes
  <1>4. /\ phase' \in Phases /\ todo' \subseteq Items /\ ready' \subseteq Items
        /\ cur' \in Items \cup {None}
    BY <1>1 DEF TypeOK, Phases, Forget
  <1>5. QED BY <1>3, <1>4 DEF Claim, TypeOK, Store, ghosts

\* Recording an outcome keeps the types.
LEMMA RecordTypes ==
  ASSUME TypeOK, cur \in Items, Record
  PROVE  TypeOK'
  <1> DEFINE recorded == With(mem, cur, Delivered(cur, mem[cur], out))
  <1>1. PICK next \in Trimmed(recorded) :
          \/ Written(next) /\ phase' = "heads" /\ UNCHANGED todo
          \/ WriteThrows(next) /\ phase' = "idle" /\ todo' = {}
    BY DEF Record
  <1>2. recorded \in Store
    <2>1. Delivered(cur, mem[cur], out) \in ItemType
      BY DeliveredType, ItemOfStore DEF TypeOK
    <2>2. QED BY <2>1 DEF TypeOK, With, Store
  <1>3. next \in Store BY <1>1, <1>2, TrimmedStore
  <1>4. mem' \in Store /\ disk' \in Store /\ faults' \in 0..MaxFaults
    BY <1>1, <1>3, WriteTypes
  <1>5. phase' \in Phases /\ todo' \subseteq Items /\ out' \in Stages
    BY <1>1 DEF TypeOK, Phases, Record, Stages
  <1>6. QED BY <1>4, <1>5 DEF Record, TypeOK, Store, ghosts

--------------------------------------------------------------------------------
(* The environment keeps the types.                                             *)

\* reconcilePromptQueueOnStartup makes items of items.
LEMMA ReconciledType ==
  ASSUME NEW item \in ItemType
  PROVE  Reconciled(item) \in ItemType
  <1>1. [item EXCEPT !.status = "needs_review", !.summary = "unavailable",
                     !.stage = "restart_reconciliation"] \in ItemType
    BY DEF ItemType, Statuses, Summaries, Stages
  <1>2. [item EXCEPT !.status = "needs_review", !.summary = "unavailable",
                     !.completed = FALSE, !.stage = "final_boundary_missing"] \in ItemType
    BY DEF ItemType, Statuses, Summaries, Stages, CompletionReviews
  <1>3. QED BY <1>1, <1>2 DEF Reconciled

\* Terminals, clock, crash and restart keep the types.
LEMMA EnvironmentTypes == TypeOK /\ Environment => TypeOK'
  <1> SUFFICES ASSUME TypeOK, Environment PROVE TypeOK' OBVIOUS
  <1> USE DEF store, passVars, ghosts
  <1>1. ASSUME NEW s \in Sessions, PaneStops(s) \/ PaneResumes(s) \/ PaneReplaced(s)
        PROVE  TypeOK'
    <2>1. pane' \in [Sessions -> PaneType]
      <3>1. pane[s] \in PaneType /\ MaxGen \in Nat
        BY ConstantsAssumption DEF TypeOK
      <3>3. CASE PaneStops(s)
        <4>1. \A state \in {"exited", "gone"} :
                [pane[s] EXCEPT !.state = state] \in PaneType
          BY <3>1 DEF PaneType
        <4>2. PICK state \in {"exited", "gone"} :
                pane' = [pane EXCEPT ![s].state = state]
          BY <3>3 DEF PaneStops
        <4>3. QED BY <4>1, <4>2 DEF TypeOK
      <3>4. CASE PaneResumes(s)
        <4>1. [pane[s] EXCEPT !.state = "live"] \in PaneType BY <3>1 DEF PaneType
        <4>2. QED BY <3>4, <4>1 DEF PaneResumes, TypeOK
      <3>5. CASE PaneReplaced(s)
        <4>1. [gen |-> pane[s].gen + 1, state |-> "live"] \in PaneType
          BY <3>1, <3>5 DEF PaneType, PaneReplaced
        <4>2. QED BY <3>5, <4>1 DEF PaneReplaced, TypeOK
      <3>6. QED BY <1>1, <3>3, <3>4, <3>5
    <2>2. UNCHANGED <<store, used, up, passVars, sample, ready, aged, ghosts, crashes>>
      BY <1>1 DEF PaneStops, PaneResumes, PaneReplaced
    <2>3. QED BY <2>1, <2>2 DEF TypeOK
  <1>2. ASSUME NEW i \in Items, OperatorEnter(i) PROVE TypeOK'
    BY <1>2 DEF TypeOK, OperatorEnter
  <1>3. ASSUME NEW i \in Items, Age(i) PROVE TypeOK'
    BY <1>3 DEF TypeOK, Age
  <1>4. CASE Crash
    <2>1. crashes' \in 0..MaxCrashes
      <3>1. crashes \in 0..MaxCrashes /\ MaxCrashes \in Nat
        BY ConstantsAssumption DEF TypeOK
      <3>2. crashes < MaxCrashes /\ crashes' = crashes + 1 BY <1>4 DEF Crash
      <3>3. QED BY <3>1, <3>2
    <2>2. mem' \in Store /\ disk' \in Store BY <1>4 DEF Crash, TypeOK, Store
    <2>3. /\ phase' \in Phases /\ todo' \subseteq Items /\ cur' \in Items \cup {None}
          /\ out' \in Stages /\ ready' \subseteq Items /\ aged' \subseteq Items
      BY <1>4 DEF Crash, TypeOK, Phases, Stages
    <2>4. sample' \in [Sessions -> SampleType] BY <1>4, NoSampleType DEF Crash
    <2>5. up' \in BOOLEAN BY <1>4 DEF Crash
    <2>6. QED BY <1>4, <2>1, <2>2, <2>3, <2>4, <2>5 DEF Crash, TypeOK, Store
  <1>5. CASE Restart
    <2>1. [i \in Items |-> Reconciled(disk[i])] \in Store
      BY ReconciledType, ItemOfStore DEF Store
    <2>2. mem' \in Store /\ disk' \in Store /\ faults' \in 0..MaxFaults
      BY <1>5, <2>1, WriteTypes DEF Restart
    <2>3. up' \in BOOLEAN BY <1>5 DEF Restart
    <2>4. QED BY <1>5, <2>2, <2>3 DEF Restart, TypeOK, Store
  <1>6. QED BY <1>1, <1>2, <1>3, <1>4, <1>5 DEF Environment

\* The steps of a pass that write nothing keep the types.
LEMMA PassTypes ==
  ASSUME TypeOK, Sample \/ FinishPass \/ \E i \in Items : PassOver(i)
  PROVE  TypeOK'
  <1> USE DEF store, passVars, ghosts
  <1>1. CASE Sample
    <2>1. sample' \in [Sessions -> SampleType]
      <3>1. PICK green \in SUBSET {s \in Sessions : pane[s].state = "live"} :
              sample' = [s \in Sessions |->
                           [gen |-> IF pane[s].state = "gone" THEN 0 ELSE pane[s].gen,
                            green |-> s \in green]]
        BY <1>1 DEF Sample
      <3>2. \A s \in Sessions : pane[s].gen \in 0..MaxGen /\ 0 \in 0..MaxGen
        BY ConstantsAssumption DEF TypeOK, PaneType
      <3>3. \A s \in Sessions : (s \in green) \in BOOLEAN OBVIOUS
      <3>4. QED BY <3>1, <3>2, <3>3 DEF SampleType
    <2>2. QED BY <1>1, <2>1 DEF Sample, TypeOK
  <1>2. CASE FinishPass
    BY <1>2, NoSampleType DEF FinishPass, TypeOK, Phases
  <1>3. ASSUME NEW i \in Items, PassOver(i) PROVE TypeOK'
    <2>1. ready' \subseteq Items BY <1>3 DEF PassOver, TypeOK
    <2>2. QED BY <1>3, <2>1 DEF PassOver, TypeOK
  <1>4. QED BY <1>1, <1>2, <1>3

--------------------------------------------------------------------------------
(* The inductive invariant of a delivery. AtMostOnce is not inductive: that a   *)
(* claimed item was never typed before rests on the claim being on disk before  *)
(* the first key, on ids being drawn once, and on no write ever putting an item *)
(* back to "queued".                                                            *)

Delivering == {"preflight", "type", "submit", "confirm", "record"}

\* Only ids that were drawn have a state or a history.
Known ==
  \A i \in Items :
    mem[i].status # "absent" \/ disk[i].status # "absent" \/ typed[i] > 0 => i \in used

\* The head in delivery is claimed in memory and on disk, and what was typed for it
\* is what the pass itself has typed.
ClaimHeld ==
  /\ phase \in Delivering => up /\ cur \in Items
  /\ phase \in {"preflight", "type", "submit"} =>
       /\ cur \in used /\ entered[cur] = 0
       /\ mem[cur].status # "queued" /\ disk[cur].status # "queued"
  /\ phase \in {"preflight", "type"} => typed[cur] = 0 /\ disk[cur] = mem[cur]
  /\ phase = "submit" => typed[cur] = 1

\* Enter follows the text.
EnterAfterText == \A i \in Items : typed[i] <= 1 /\ entered[i] <= typed[i]

DeliveryInv == TypeOK /\ Known /\ ClaimDurable /\ ClaimHeld /\ EnterAfterText

\* A store that takes nothing back to the queue and knows only ids of "ids".
NoneReopened(q, ids) ==
  \A i \in Items :
    /\ q[i].status = "queued" =>
         mem[i].status = "queued" \/ disk[i].status = "queued" \/ i \notin used
    /\ q[i].status # "absent" => i \in ids

\* Trimming reopens nothing.
LEMMA TrimKeeps ==
  ASSUME NEW q, NEW ids, NoneReopened(q, ids), NEW next \in Trimmed(q)
  PROVE  NoneReopened(next, ids)
  <1>1. \A i \in Items : next[i] = q[i] \/ next[i] = Absent BY DEF Trimmed
  <1>2. Absent.status = "absent" BY DEF Absent
  <1>3. QED BY <1>1, <1>2 DEF NoneReopened

\* A change of one item that does not queue it reopens nothing.
LEMMA EditKeeps ==
  ASSUME DeliveryInv, NEW i \in Items, NEW item, mem[i].status # "absent",
         item.status = "queued" => mem[i].status = "queued"
  PROVE  NoneReopened(With(mem, i, item), used)
  <1>1. i \in used BY DEF DeliveryInv, Known
  <1>2. \A j \in Items : With(mem, i, item)[j] = IF j = i THEN item ELSE mem[j]
    BY DEF With, DeliveryInv, TypeOK
  <1>3. \A j \in Items : mem[j].status # "absent" => j \in used
    BY DEF DeliveryInv, Known
  <1>4. QED BY <1>1, <1>2, <1>3 DEF NoneReopened

\* A write of such a store outside a delivery keeps the invariant, whether or not
\* it throws and wherever it stops.
LEMMA StoreWrite ==
  ASSUME DeliveryInv, TypeOK', NEW next, NoneReopened(next, used'),
         used \subseteq used',
         mem' = mem \/ mem' = next \/ mem' = disk,
         disk' = disk \/ disk' = next,
         UNCHANGED <<typed, entered>>, phase' \notin Delivering
  PROVE  DeliveryInv'
  <1>1. Known'
    <2> SUFFICES ASSUME NEW i \in Items,
                        \/ mem'[i].status # "absent" \/ disk'[i].status # "absent"
                        \/ typed'[i] > 0
                 PROVE  i \in used'
      BY DEF Known
    <2>1. \/ mem[i].status # "absent" \/ disk[i].status # "absent"
          \/ next[i].status # "absent" \/ typed[i] > 0
      OBVIOUS
    <2>2. QED BY <2>1 DEF DeliveryInv, Known, NoneReopened
  <1>2. ClaimDurable'
    <2> SUFFICES ASSUME NEW i \in Items, typed'[i] > 0
                 PROVE  mem'[i].status # "queued" /\ disk'[i].status # "queued"
      BY DEF ClaimDurable
    <2>1. typed[i] > 0 OBVIOUS
    <2>2. mem[i].status # "queued" /\ disk[i].status # "queued" /\ i \in used
      BY <2>1 DEF DeliveryInv, ClaimDurable, Known
    <2>3. next[i].status # "queued" BY <2>2 DEF NoneReopened
    <2>4. QED BY <2>2, <2>3
  <1>3. ClaimHeld' BY DEF ClaimHeld, Delivering
  <1>4. EnterAfterText' BY DEF DeliveryInv, EnterAfterText
  <1>5. QED BY <1>1, <1>2, <1>3, <1>4 DEF DeliveryInv

\* A step that touches neither the store nor the delivery keeps the invariant.
LEMMA FrameKeeps ==
  ASSUME DeliveryInv, TypeOK', UNCHANGED <<mem, disk, used, typed, entered>>,
         phase' \notin Delivering \/ UNCHANGED <<phase, cur, up>>
  PROVE  DeliveryInv'
  <1>1. Known' /\ ClaimDurable' /\ EnterAfterText'
    BY DEF DeliveryInv, Known, ClaimDurable, EnterAfterText
  <1>2. ClaimHeld'
    BY DEF DeliveryInv, ClaimHeld, Delivering
  <1>3. QED BY <1>1, <1>2 DEF DeliveryInv

\* The requests that finish or edit one item.
LEMMA FinishKeeps ==
  ASSUME DeliveryInv, TypeOK', NEW i \in Items, NEW item \in ItemType,
         mem[i].status # "absent", item.status = "queued" => mem[i].status = "queued",
         Finish(i, item) \/ Persist(With(mem, i, item)),
         UNCHANGED used, RequestFrame, phase = "idle"
  PROVE  DeliveryInv'
  <1>1. NoneReopened(With(mem, i, item), used) BY EditKeeps
  <1>2. PICK next : NoneReopened(next, used) /\ Persist(next)
    BY <1>1, TrimKeeps DEF Finish
  <1>3. /\ mem' = mem \/ mem' = next
        /\ disk' = disk \/ disk' = next
    BY <1>2 DEF Persist, Written, WriteThrows
  <1>4. UNCHANGED <<typed, entered>> /\ phase' \notin Delivering
    BY DEF RequestFrame, ghosts, passVars, Delivering
  <1>5. QED BY <1>2, <1>3, <1>4, StoreWrite

\* The requests that draw fresh ids: they may queue those, and nothing else.
LEMMA DrawKeeps ==
  ASSUME DeliveryInv, TypeOK', NEW q, NoneReopened(q, used'),
         \E next \in Trimmed(q) : Persist(next),
         used \subseteq used', RequestFrame, phase = "idle"
  PROVE  DeliveryInv'
  <1>1. PICK next \in Trimmed(q) : Persist(next) OBVIOUS
  <1>2. NoneReopened(next, used') BY <1>1, TrimKeeps
  <1>3. /\ mem' = mem \/ mem' = next
        /\ disk' = disk \/ disk' = next
    BY <1>1 DEF Persist, Written, WriteThrows
  <1>4. UNCHANGED <<typed, entered>> /\ phase' \notin Delivering
    BY DEF RequestFrame, ghosts, passVars, Delivering
  <1>5. QED BY <1>2, <1>3, <1>4, StoreWrite


\* createPromptQueueItem queues a fresh id only.
LEMMA CreateKeeps ==
  ASSUME DeliveryInv, TypeOK', NEW i \in Items, Create(i)
  PROVE  DeliveryInv'
  <1>1. PICK p \in 1..Cardinality(Items), g \in 1..pane[Line[i]].gen :
          \E next \in Trimmed(With(mem, i, NewItem(g, p))) : Persist(next)
    BY DEF Create
  <1>2. NoneReopened(With(mem, i, NewItem(g, p)), used')
    <2>1. \A k \in Items :
            With(mem, i, NewItem(g, p))[k] = IF k = i THEN NewItem(g, p) ELSE mem[k]
      BY DEF With, DeliveryInv, TypeOK
    <2>2. i \notin used /\ used' = used \cup {i} BY DEF Create
    <2>3. \A k \in Items : mem[k].status # "absent" => k \in used
      BY DEF DeliveryInv, Known
    <2>4. QED BY <2>1, <2>2, <2>3 DEF NoneReopened
  <1>3. used \subseteq used' /\ RequestFrame /\ phase = "idle"
    BY DEF Create, RequestFrame, Serving
  <1>4. QED BY <1>1, <1>2, <1>3, DrawKeeps

\* createPromptQueueBatch queues two fresh ids only.
LEMMA CreateBatchKeeps ==
  ASSUME DeliveryInv, TypeOK', NEW i \in Items, NEW j \in Items, CreateBatch(i, j)
  PROVE  DeliveryInv'
  <1> DEFINE batch(p) == [mem EXCEPT ![i] = NewItem(pane[Line[i]].gen, p),
                                     ![j] = NewItem(pane[Line[j]].gen, BatchPosition(p, 1))]
  <1>1. PICK p \in 1..Cardinality(Items) : \E next \in Trimmed(batch(p)) : Persist(next)
    BY DEF CreateBatch
  <1>2. NoneReopened(batch(p), used')
    <2>1. \A k \in Items \ {i, j} : batch(p)[k] = mem[k]
      BY DEF DeliveryInv, TypeOK
    <2>2. {i, j} \cap used = {} /\ used' = used \cup {i, j} BY DEF CreateBatch
    <2>3. \A k \in Items : mem[k].status # "absent" => k \in used
      BY DEF DeliveryInv, Known
    <2>4. QED BY <2>1, <2>2, <2>3 DEF NoneReopened
  <1>3. used \subseteq used' /\ RequestFrame /\ phase = "idle"
    BY DEF CreateBatch, RequestFrame, Serving
  <1>4. QED BY <1>1, <1>2, <1>3, DrawKeeps

\* Requeueing closes the old item and queues a fresh one; the old id stays closed.
LEMMA RequeueKeeps ==
  ASSUME DeliveryInv, TypeOK', NEW i \in Items, NEW j \in Items,
         RequeueAfterReplacement(i, j)
  PROVE  DeliveryInv'
  <1> DEFINE closed == [mem[i] EXCEPT !.status = "sent",
                          !.summary = "operator_released",
                          !.stage = "operator_requeued_after_replacement",
                          !.completed = TRUE, !.footer = FALSE]
             requeued(p) == [mem EXCEPT ![i] = [@ EXCEPT !.status = "sent",
                          !.summary = "operator_released",
                          !.stage = "operator_requeued_after_replacement",
                          !.completed = TRUE, !.footer = FALSE],
                          ![j] = NewItem(pane[Line[j]].gen, p)]
  <1>1. PICK p \in 1..Cardinality(Items) :
          \E next \in Trimmed(requeued(p)) : Persist(next)
    BY DEF RequeueAfterReplacement
  <1>2. NoneReopened(requeued(p), used')
    <2>1. j \notin used /\ used' = used \cup {j} BY DEF RequeueAfterReplacement
    <2>2. mem[i].status = "needs_review" BY DEF RequeueAfterReplacement
    <2>3. \A k \in Items : mem[k].status # "absent" => k \in used
      BY DEF DeliveryInv, Known
    <2>4. i \in used /\ i # j BY <2>1, <2>2, <2>3
    <2>5. requeued(p)[i].status = "sent"
      <3>1. requeued(p)[i] = closed BY <2>4 DEF DeliveryInv, TypeOK
      <3>2. mem[i] \in ItemType BY ItemOfStore DEF DeliveryInv
      <3>3. closed.status = "sent" BY <3>2 DEF ItemType
      <3>4. QED BY <3>1, <3>3
    <2>6. \A k \in Items \ {i, j} : requeued(p)[k] = mem[k]
      BY DEF DeliveryInv, TypeOK
    <2>7. QED BY <2>1, <2>3, <2>4, <2>5, <2>6 DEF NoneReopened
  <1>3. used \subseteq used' /\ RequestFrame /\ phase = "idle"
    BY DEF RequeueAfterReplacement, RequestFrame, Serving
  <1>4. QED BY <1>1, <1>2, <1>3, DrawKeeps


\* No operator request queues an item whose text was typed.
LEMMA OperatorKeeps ==
  ASSUME DeliveryInv, TypeOK', Operator
  PROVE  DeliveryInv'
  <1> USE DEF RequestFrame, Serving
  <1>1. ASSUME NEW i \in Items, Create(i) PROVE DeliveryInv'
    BY <1>1, CreateKeeps
  <1>2. ASSUME NEW i \in Items, Cancel(i) PROVE DeliveryInv'
    <2> DEFINE item == [mem[i] EXCEPT !.status = "canceled", !.summary = "unavailable"]
    <2>1. item \in ItemType /\ item.status # "queued"
      BY ItemOfStore, Vocabulary DEF DeliveryInv, ItemType
    <2>2. mem[i].status # "absent" BY <1>2 DEF Cancel
    <2>3. QED BY <1>2, <2>1, <2>2, FinishKeeps DEF Cancel
  <1>3. ASSUME NEW i \in Items, DismissLiteral(i) PROVE DeliveryInv'
    <2> DEFINE item == [mem[i] EXCEPT !.status = "canceled", !.summary = "unavailable",
                                  !.stage = "literal_review_dismissed"]
    <2>1. item \in ItemType /\ item.status # "queued"
      BY ItemOfStore, Vocabulary DEF DeliveryInv, ItemType
    <2>2. mem[i].status # "absent" BY <1>3 DEF DismissLiteral
    <2>3. QED BY <1>3, <2>1, <2>2, FinishKeeps DEF DismissLiteral
  <1>4. ASSUME NEW i \in Items, CancelReview(i) PROVE DeliveryInv'
    <2> DEFINE item == [mem[i] EXCEPT !.status = "canceled", !.summary = "unavailable",
                                  !.stage = "review_canceled",
                                  !.completed = mem[i].sent]
    <2>1. item \in ItemType /\ item.status # "queued"
      BY ItemOfStore, Vocabulary DEF DeliveryInv, ItemType
    <2>2. mem[i].status # "absent" BY <1>4 DEF CancelReview
    <2>3. QED BY <1>4, <2>1, <2>2, FinishKeeps DEF CancelReview
  <1>5. ASSUME NEW i \in Items, WaitManual(i) PROVE DeliveryInv'
    <2> DEFINE item == [mem[i] EXCEPT !.stage = "waiting_for_manual_submit"]
    <2>1. item \in ItemType /\ item.status = mem[i].status
      BY ItemOfStore, Vocabulary DEF DeliveryInv, ItemType
    <2>2. mem[i].status # "absent" BY <1>5 DEF WaitManual
    <2>3. QED BY <1>5, <2>1, <2>2, FinishKeeps DEF WaitManual
  <1>6. ASSUME NEW i \in Items, Retarget(i) PROVE DeliveryInv'
    <2> DEFINE item == [mem[i] EXCEPT !.gen = pane[Line[i]].gen, !.stage = ""]
    <2>1. pane[Line[i]].gen \in 0..MaxGen
      BY ConstantsAssumption, LineType DEF DeliveryInv, TypeOK, PaneType
    <2>2. item \in ItemType BY <2>1, ItemOfStore, Vocabulary DEF DeliveryInv, ItemType
    <2>3. mem[i].status = "queued" BY <1>6 DEF Retarget
    <2>4. QED BY <1>6, <2>2, <2>3, FinishKeeps DEF Retarget
  <1>7. ASSUME NEW i \in Items, Release(i) PROVE DeliveryInv'
    <2> DEFINE captured(footer) == [mem[i] EXCEPT !.status = "sent",
                  !.summary = "captured", !.stage = "completion_recovered",
                  !.completed = TRUE, !.footer = footer]
               released == [mem[i] EXCEPT !.status = "sent",
                  !.summary = "operator_released", !.stage = "operator_released",
                  !.completed = TRUE, !.footer = FALSE]
    <2>1. ASSUME NEW footer \in BOOLEAN
          PROVE  captured(footer) \in ItemType /\ captured(footer).status # "queued"
      BY ItemOfStore, Vocabulary DEF DeliveryInv, ItemType
    <2>2. released \in ItemType /\ released.status # "queued"
      BY ItemOfStore, Vocabulary DEF DeliveryInv, ItemType
    <2>3. \A b \in Boundaries : (b = "footer") \in BOOLEAN OBVIOUS
    <2>4. \E item \in ItemType : item.status # "queued" /\ Finish(i, item)
      <3>1. \/ \E footer \in BOOLEAN : Finish(i, captured(footer))
            \/ Finish(i, released)
        BY <1>7, <2>3 DEF Release
      <3>2. QED BY <3>1, <2>1, <2>2
    <2>5. PICK item \in ItemType : item.status # "queued" /\ Finish(i, item) BY <2>4
    <2>6. mem[i].status # "absent" BY <1>7 DEF Release
    <2>7. QED BY <1>7, <2>5, <2>6, FinishKeeps DEF Release
  <1>8. ASSUME NEW i \in Items, ContinueMonitoring(i) PROVE DeliveryInv'
    <2> DEFINE item == [mem[i] EXCEPT !.status = "sent", !.summary = "pending",
                                  !.completed = FALSE, !.footer = FALSE,
                                  !.stage = "monitoring_after_review"]
    <2>1. item \in ItemType /\ item.status # "queued"
      BY ItemOfStore, Vocabulary DEF DeliveryInv, ItemType
    <2>2. mem[i].status # "absent" BY <1>8 DEF ContinueMonitoring
    <2>3. QED BY <1>8, <2>1, <2>2, FinishKeeps DEF ContinueMonitoring
  <1>9. ASSUME NEW i \in Items, LinkAnswer(i) PROVE DeliveryInv'
    <2> DEFINE item == [mem[i] EXCEPT !.status = "sent", !.summary = "pending",
                                  !.completed = FALSE, !.footer = FALSE,
                                  !.stage = "monitoring_after_response"]
    <2>1. item \in ItemType /\ item.status # "queued"
      BY ItemOfStore, Vocabulary DEF DeliveryInv, ItemType
    <2>2. mem[i].status # "absent" BY <1>9 DEF LinkAnswer, AwaitingCompletion
    <2>3. QED BY <1>9, <2>1, <2>2, FinishKeeps DEF LinkAnswer
  <1>10. CASE ClearHistory
    <2> DEFINE next == [i \in Items |-> IF i \in Finals(mem) THEN Absent ELSE mem[i]]
    <2>1. NoneReopened(next, used)
      BY DEF NoneReopened, DeliveryInv, Known, Absent
    <2>2. /\ mem' = mem \/ mem' = next
          /\ disk' = disk \/ disk' = next
      BY <1>10 DEF ClearHistory, Persist, Written, WriteThrows
    <2>3. UNCHANGED <<typed, entered, used>> /\ phase' \notin Delivering
      BY <1>10 DEF ClearHistory, ghosts, passVars, Delivering
    <2>4. QED BY <2>1, <2>2, <2>3, StoreWrite
  <1>11. ASSUME NEW i \in Items, NEW j \in Items,
                CreateBatch(i, j) \/ RequeueAfterReplacement(i, j)
         PROVE DeliveryInv'
    BY <1>11, CreateBatchKeeps, RequeueKeeps
  <1>12. QED
    BY <1>1, <1>2, <1>3, <1>4, <1>5, <1>6, <1>7, <1>8, <1>9, <1>10, <1>11
    DEF Operator

\* The pass concludes completions, rejects a text or records an outcome.
LEMMA StartPassKeeps ==
  ASSUME DeliveryInv, TypeOK', StartPass
  PROVE  DeliveryInv'
  <1>1. PICK concl \in [Candidates -> Conclusions] :
          LET next == [i \in Items |-> IF i \in Candidates
                                         THEN Concluded(mem[i], concl[i]) ELSE mem[i]]
          IN IF next = mem
               THEN UNCHANGED store /\ phase' = "heads" /\ todo' = Heads(mem)
               ELSE \/ Written(next) /\ phase' = "heads" /\ todo' = Heads(next)
                    \/ WriteThrows(next) /\ UNCHANGED <<phase, todo>>
    BY DEF StartPass
  <1> DEFINE next == [i \in Items |-> IF i \in Candidates
                                        THEN Concluded(mem[i], concl[i]) ELSE mem[i]]
  <1>2. ASSUME NEW item \in ItemType, NEW c \in Conclusions,
               item.status \in {"sent", "needs_review"}
        PROVE  Concluded(item, c).status \in {"sent", "needs_review"}
    <2>1. PICK footer \in BOOLEAN : footer = (c = "footer") OBVIOUS
    <2>2. CASE c = "none" BY <1>2, <2>2 DEF Concluded
    <2>3. CASE c = "accepted" BY <2>3 DEF Concluded, ItemType
    <2>4. CASE c \in {"footer", "explicit"}
      BY <2>1, <2>4 DEF Concluded, ItemType
    <2>5. CASE c = "returned" BY <2>5 DEF Concluded, ItemType
    <2>6. CASE c \notin {"none", "accepted", "footer", "explicit", "returned"}
      BY <2>6 DEF Concluded, ItemType
    <2>7. QED BY <2>2, <2>3, <2>4, <2>5, <2>6
  <1>3. NoneReopened(next, used)
    <2> SUFFICES ASSUME NEW i \in Items
                 PROVE  /\ next[i].status = "queued" => mem[i].status = "queued"
                        /\ next[i].status # "absent" => i \in used
      BY DEF NoneReopened
    <2>1. mem[i].status # "absent" => i \in used BY DEF DeliveryInv, Known
    <2>2. CASE i \notin Candidates BY <2>1, <2>2
    <2>3. CASE i \in Candidates
      <3>1. mem[i].status \in {"sent", "needs_review"}
        BY <2>3 DEF Candidates, AwaitingCompletion, RecoverableCompletionReview,
                    AcceptanceRecoveryReview
      <3>2. next[i].status \in {"sent", "needs_review"}
        BY <2>3, <3>1, <1>2, ItemOfStore DEF DeliveryInv
      <3>3. QED BY <2>1, <3>1, <3>2
    <2>4. QED BY <2>2, <2>3
  <1>4. /\ mem' = mem \/ mem' = next
        /\ disk' = disk \/ disk' = next
    BY <1>1 DEF store, Written, WriteThrows
  <1>5. UNCHANGED <<typed, entered, used>> /\ phase' \notin Delivering
    <2>1. phase' = "heads" \/ phase' = phase BY <1>1
    <2>2. phase = "idle" BY DEF StartPass, Serving
    <2>3. QED BY <2>1, <2>2 DEF StartPass, ghosts, Delivering
  <1>6. QED BY <1>3, <1>4, <1>5, StoreWrite


\* Rejecting a long text reopens nothing.
LEMMA RejectLongKeeps ==
  ASSUME DeliveryInv, TypeOK', NEW i \in Items, RejectLong(i)
  PROVE  DeliveryInv'
  <1> DEFINE item == [mem[i] EXCEPT !.status = "canceled", !.summary = "unavailable",
                                    !.stage = "dispatch_envelope_too_long"]
  <1>1. PICK next \in Trimmed(With(mem, i, item)) :
          \/ Written(next) /\ todo' = todo \ {i} /\ UNCHANGED phase
          \/ WriteThrows(next) /\ todo' = {} /\ phase' = "idle"
    BY DEF RejectLong
  <1>2. item.status # "queued" /\ mem[i].status # "absent"
    BY ItemOfStore DEF DeliveryInv, ItemType, RejectLong
  <1>3. NoneReopened(With(mem, i, item), used) BY <1>2, EditKeeps
  <1>4. NoneReopened(next, used) BY <1>1, <1>3, TrimKeeps
  <1>5. /\ mem' = mem \/ mem' = next
        /\ disk' = disk \/ disk' = next
    BY <1>1 DEF Written, WriteThrows
  <1>6. UNCHANGED <<typed, entered, used>> /\ phase' \notin Delivering
    BY <1>1 DEF RejectLong, ghosts, Delivering
  <1>7. QED BY <1>4, <1>5, <1>6, StoreWrite

\* No recorded outcome takes the item back to the queue.
LEMMA RecordKeeps ==
  ASSUME DeliveryInv, TypeOK', Record
  PROVE  DeliveryInv'
  <1> DEFINE item == Delivered(cur, mem[cur], out)
  <1>1. PICK next \in Trimmed(With(mem, cur, item)) :
          \/ Written(next) /\ phase' = "heads" /\ UNCHANGED todo
          \/ WriteThrows(next) /\ phase' = "idle" /\ todo' = {}
    BY DEF Record
  <1>2. cur \in Items BY DEF DeliveryInv, ClaimHeld, Delivering, Record
  <1>3. item.status # "queued"
    <2>1. mem[cur] \in ItemType BY <1>2, ItemOfStore DEF DeliveryInv
    <2>2. CASE out = "submitted" BY <2>1, <2>2 DEF Delivered, ItemType
    <2>3. CASE out = "accepted" BY <2>1, <2>3 DEF Delivered, ItemType
    <2>4. CASE out # "submitted" /\ out # "accepted"
      <3>1. item = [mem[cur] EXCEPT !.status = "needs_review",
                                    !.summary = "unavailable", !.stage = out]
        BY <2>4 DEF Delivered
      <3>2. QED BY <2>1, <3>1 DEF ItemType
    <2>5. QED BY <2>2, <2>3, <2>4
  <1>4. NoneReopened(With(mem, cur, item), used)
    <2>1. mem[cur].status # "absent" BY DEF Record
    <2>2. QED BY <1>2, <1>3, <2>1, EditKeeps
  <1>5. NoneReopened(next, used) BY <1>1, <1>4, TrimKeeps
  <1>6. /\ mem' = mem \/ mem' = next
        /\ disk' = disk \/ disk' = next
    BY <1>1 DEF Written, WriteThrows
  <1>7. UNCHANGED <<typed, entered, used>> /\ phase' \notin Delivering
    BY <1>1 DEF Record, ghosts, Delivering
  <1>8. QED BY <1>5, <1>6, <1>7, StoreWrite

\* The claim: the head was queued, so by ClaimDurable nothing was typed for it, and
\* from here on neither memory nor file calls it queued.
LEMMA ClaimKeeps ==
  ASSUME DeliveryInv, TypeOK', NEW i \in Items, Claim(i)
  PROVE  DeliveryInv'
  <1> DEFINE item == [mem[i] EXCEPT !.status = "dispatching", !.claimed = TRUE,
                                    !.stage = "dispatching"]
             next == With(mem, i, item)
  <1>1. \/ Written(next) /\ phase' = "preflight" /\ cur' = i
        \/ WriteThrows(next) /\ phase' = "idle"
    BY DEF Claim
  <1>2. mem[i].status = "queued" BY DEF Claim
  <1>3. item.status = "dispatching" BY ItemOfStore DEF DeliveryInv, ItemType
  <1>4. NoneReopened(next, used) BY <1>2, <1>3, EditKeeps
  <1>5. UNCHANGED <<typed, entered, used>> BY DEF Claim, ghosts
  <1>6. CASE WriteThrows(next) /\ phase' = "idle"
    <2>1. mem' = mem /\ (disk' = disk \/ disk' = next) /\ phase' \notin Delivering
      BY <1>6 DEF WriteThrows, Delivering
    <2>2. QED BY <1>4, <1>5, <2>1, StoreWrite
  <1>7. CASE Written(next) /\ phase' = "preflight" /\ cur' = i
    <2>1. mem' = next /\ disk' = next BY <1>7 DEF Written
    <2>2. typed[i] = 0 /\ entered[i] = 0 /\ i \in used
      <3>1. typed[i] \in Nat /\ entered[i] \in Nat BY DEF DeliveryInv, TypeOK
      <3>2. ~(typed[i] > 0) BY <1>2 DEF DeliveryInv, ClaimDurable
      <3>3. entered[i] <= typed[i] BY DEF DeliveryInv, EnterAfterText
      <3>4. i \in used BY <1>2 DEF DeliveryInv, Known
      <3>5. QED BY <3>1, <3>2, <3>3, <3>4
    <2>3. Known'
      <3> SUFFICES ASSUME NEW k \in Items, next[k].status # "absent" \/ typed[k] > 0
                   PROVE  k \in used
        BY <2>1, <1>5 DEF Known
      <3>1. QED BY <1>4 DEF NoneReopened, DeliveryInv, Known
    <2>4. ClaimDurable'
      <3> SUFFICES ASSUME NEW k \in Items, typed[k] > 0
                   PROVE  next[k].status # "queued"
        BY <2>1, <1>5 DEF ClaimDurable
      <3>1. QED BY <1>4 DEF NoneReopened, DeliveryInv, ClaimDurable, Known
    <2>5. ClaimHeld'
      <3>1. next[i] = item BY DEF With, DeliveryInv, TypeOK
      <3>2. up' BY DEF Claim
      <3>3. QED BY <1>3, <1>5, <1>7, <2>1, <2>2, <3>1, <3>2 DEF ClaimHeld
    <2>6. EnterAfterText' BY <1>5 DEF DeliveryInv, EnterAfterText
    <2>7. QED BY <2>3, <2>4, <2>5, <2>6 DEF DeliveryInv
  <1>8. QED BY <1>1, <1>6, <1>7

\* The steps that touch the terminal. Text is typed only for a head nothing was
\* typed for, and Enter follows once.
LEMMA TypingKeeps ==
  ASSUME DeliveryInv, TypeOK', Preflight \/ Type \/ Submit \/ Confirm
  PROVE  DeliveryInv'
  <1> USE DEF store
  <1>1. cur \in Items
    BY DEF DeliveryInv, ClaimHeld, Delivering, Preflight, Type, Submit, Confirm
  <1>2. /\ UNCHANGED <<mem, disk, used, cur, up>> /\ up
        /\ typed \in [Items -> Nat] /\ entered \in [Items -> Nat]
    BY DEF Preflight, Type, Submit, Confirm, DeliveryInv, TypeOK
  <1>3. CASE UNCHANGED <<typed, entered>>
    <2>1. Known' /\ ClaimDurable' /\ EnterAfterText'
      BY <1>2, <1>3 DEF DeliveryInv, Known, ClaimDurable, EnterAfterText
    <2>2. \/ phase' = "type" /\ phase = "preflight"
          \/ phase' = "record"
      BY <1>2, <1>3, <1>1 DEF Preflight, Type, Submit, Confirm
    <2>3. ClaimHeld' BY <1>2, <1>3, <2>2, <1>1 DEF DeliveryInv, ClaimHeld
    <2>4. QED BY <2>1, <2>3 DEF DeliveryInv
  <1>4. CASE Type /\ typed' = [typed EXCEPT ![cur] = @ + 1]
    <2>1. /\ typed[cur] = 0 /\ entered[cur] = 0 /\ cur \in used
          /\ mem[cur].status # "queued" /\ disk[cur].status # "queued"
      BY <1>4 DEF Type, DeliveryInv, ClaimHeld
    <2>2. typed'[cur] = 1 /\ \A k \in Items \ {cur} : typed'[k] = typed[k]
      BY <1>1, <1>2, <1>4, <2>1
    <2>3. UNCHANGED entered /\ phase' \in {"submit", "record"}
      BY <1>4 DEF Type
    <2>4. Known' /\ ClaimDurable'
      BY <1>2, <2>1, <2>2 DEF DeliveryInv, Known, ClaimDurable
    <2>5. EnterAfterText'
      BY <1>1, <1>2, <2>1, <2>2, <2>3 DEF DeliveryInv, EnterAfterText
    <2>6. ClaimHeld' BY <1>1, <1>2, <2>1, <2>2, <2>3 DEF ClaimHeld
    <2>7. QED BY <2>4, <2>5, <2>6 DEF DeliveryInv
  <1>5. CASE Submit /\ entered' = [entered EXCEPT ![cur] = @ + 1]
    <2>1. typed[cur] = 1 /\ entered[cur] = 0
      BY <1>5 DEF Submit, DeliveryInv, ClaimHeld
    <2>2. entered'[cur] = 1 /\ \A k \in Items \ {cur} : entered'[k] = entered[k]
      BY <1>1, <1>2, <1>5, <2>1
    <2>3. UNCHANGED typed /\ phase' \in {"record", "confirm"}
      BY <1>5 DEF Submit
    <2>4. Known' /\ ClaimDurable'
      BY <1>2, <2>3 DEF DeliveryInv, Known, ClaimDurable
    <2>5. EnterAfterText'
      BY <1>1, <1>2, <2>1, <2>2, <2>3 DEF DeliveryInv, EnterAfterText
    <2>6. ClaimHeld' BY <1>1, <1>2, <2>3 DEF ClaimHeld
    <2>7. QED BY <2>4, <2>5, <2>6 DEF DeliveryInv
  <1>6. QED
    <2>1. CASE Preflight BY <2>1, <1>3 DEF Preflight, ghosts
    <2>2. CASE Type BY <2>2, <1>3, <1>4 DEF Type
    <2>3. CASE Submit BY <2>3, <1>3, <1>5 DEF Submit
    <2>4. CASE Confirm BY <2>4, <1>3 DEF Confirm, ghosts
    <2>5. QED BY <2>1, <2>2, <2>3, <2>4

\* A crash leaves what the file says; the restart reviews what was interrupted.
LEMMA EnvironmentKeeps ==
  ASSUME DeliveryInv, TypeOK', Environment
  PROVE  DeliveryInv'
  <1> USE DEF store, passVars, ghosts
  <1>1. ASSUME NEW s \in Sessions, PaneStops(s) \/ PaneResumes(s) \/ PaneReplaced(s)
        PROVE  DeliveryInv'
    BY <1>1, FrameKeeps DEF PaneStops, PaneResumes, PaneReplaced
  <1>2. ASSUME NEW i \in Items, OperatorEnter(i) \/ Age(i) PROVE DeliveryInv'
    BY <1>2, FrameKeeps DEF OperatorEnter, Age
  <1>3. CASE Crash
    <2>1. NoneReopened(disk, used) BY DEF NoneReopened, DeliveryInv, Known
    <2>2. QED BY <1>3, <2>1, StoreWrite DEF Crash, Delivering
  <1>4. CASE Restart
    <2> DEFINE next == [i \in Items |-> Reconciled(disk[i])]
    <2>1. NoneReopened(next, used)
      <3> SUFFICES ASSUME NEW i \in Items
                   PROVE  /\ next[i].status = "queued" => disk[i].status = "queued"
                          /\ next[i].status # "absent" => i \in used
        BY DEF NoneReopened
      <3>1. disk[i] \in ItemType BY ItemOfStore DEF DeliveryInv
      <3>2. /\ next[i].status = "queued" => disk[i].status = "queued"
            /\ next[i].status # "absent" => disk[i].status # "absent"
        BY <3>1 DEF Reconciled, ItemType
      <3>3. QED BY <3>2 DEF DeliveryInv, Known
    <2>2. mem' = next /\ disk' = next BY <1>4 DEF Restart, Written
    <2>3. phase' \notin Delivering BY <1>4 DEF Restart, DeliveryInv, ClaimHeld
    <2>4. QED BY <1>4, <2>1, <2>2, <2>3, StoreWrite DEF Restart
  <1>5. QED BY <1>1, <1>2, <1>3, <1>4 DEF Environment


\* Sampling, passing over and ending a pass touch no delivery.
LEMMA PassKeeps ==
  ASSUME DeliveryInv, TypeOK', Sample \/ FinishPass \/ \E i \in Items : PassOver(i)
  PROVE  DeliveryInv'
  <1> USE DEF store, passVars, ghosts
  <1>1. CASE Sample BY <1>1, FrameKeeps DEF Sample
  <1>2. CASE FinishPass
    <2>1. phase' \notin Delivering BY <1>2 DEF FinishPass, Delivering
    <2>2. QED BY <1>2, <2>1, FrameKeeps DEF FinishPass
  <1>3. ASSUME NEW i \in Items, PassOver(i) PROVE DeliveryInv'
    BY <1>3, FrameKeeps DEF PassOver
  <1>4. QED BY <1>1, <1>2, <1>3

--------------------------------------------------------------------------------
(* The theorems.                                                                *)

\* Every step of a pass keeps the types.
LEMMA DispatcherTypes ==
  ASSUME TypeOK, ClaimHeld, Dispatcher
  PROVE  TypeOK'
  <1>1. CASE Record
    <2>1. cur \in Items BY <1>1 DEF ClaimHeld, Delivering, Record
    <2>2. QED BY <1>1, <2>1, RecordTypes
  <1>2. CASE StartPass BY <1>2, StartPassTypes
  <1>3. CASE Sample \/ FinishPass \/ \E i \in Items : PassOver(i)
    BY <1>3, PassTypes
  <1>4. CASE Preflight \/ Type \/ Submit \/ Confirm BY <1>4, DeliveryTypes
  <1>5. ASSUME NEW i \in Items, RejectLong(i) \/ Claim(i) PROVE TypeOK'
    BY <1>5, RejectLongTypes, ClaimTypes
  <1>6. QED BY <1>1, <1>2, <1>3, <1>4, <1>5 DEF Dispatcher, Delivery

\* The invariant holds when the server first starts.
LEMMA InitDelivery == Init => DeliveryInv
  <1> SUFFICES ASSUME Init PROVE DeliveryInv OBVIOUS
  <1>1. TypeOK BY InitType
  <1>2. Known /\ ClaimDurable
    <2>1. \A i \in Items : /\ mem[i].status = "absent" /\ disk[i].status = "absent"
                           /\ typed[i] = 0
      BY DEF Init, Absent
    <2>2. QED BY <2>1 DEF Known, ClaimDurable
  <1>3. ClaimHeld BY DEF Init, ClaimHeld, Delivering
  <1>4. EnterAfterText
    <2>1. \A i \in Items : typed[i] = 0 /\ entered[i] = 0 BY DEF Init
    <2>2. QED BY <2>1 DEF EnterAfterText
  <1>5. QED BY <1>1, <1>2, <1>3, <1>4 DEF DeliveryInv

\* Every step keeps the invariant.
LEMMA NextDelivery == DeliveryInv /\ [Next]_vars => DeliveryInv'
  <1> SUFFICES ASSUME DeliveryInv, [Next]_vars PROVE DeliveryInv' OBVIOUS
  <1>1. TypeOK /\ ClaimHeld BY DEF DeliveryInv
  <1>2. CASE Operator
    <2>1. TypeOK' BY <1>1, <1>2, OperatorTypes
    <2>2. QED BY <1>2, <2>1, OperatorKeeps
  <1>3. CASE Environment
    <2>1. TypeOK' BY <1>1, <1>3, EnvironmentTypes
    <2>2. QED BY <1>3, <2>1, EnvironmentKeeps
  <1>4. CASE Dispatcher
    <2>1. TypeOK' BY <1>1, <1>4, DispatcherTypes
    <2>2. CASE Record BY <2>1, <2>2, RecordKeeps
    <2>3. CASE StartPass BY <2>1, <2>3, StartPassKeeps
    <2>4. CASE Sample \/ FinishPass \/ \E i \in Items : PassOver(i)
      BY <2>1, <2>4, PassKeeps
    <2>5. CASE Preflight \/ Type \/ Submit \/ Confirm BY <2>1, <2>5, TypingKeeps
    <2>6. ASSUME NEW i \in Items, RejectLong(i) \/ Claim(i) PROVE DeliveryInv'
      BY <2>1, <2>6, RejectLongKeeps, ClaimKeeps
    <2>7. QED BY <1>4, <2>2, <2>3, <2>4, <2>5, <2>6 DEF Dispatcher, Delivery
  <1>5. CASE UNCHANGED vars
    <2>1. TypeOK' BY <1>1, <1>5 DEF TypeOK, vars
    <2>2. QED BY <1>5, <2>1, FrameKeeps DEF vars
  <1>6. QED BY <1>2, <1>3, <1>4, <1>5 DEF Next

\* No other step writes to a terminal.
LEMMA TypedOnlyByType ==
  ASSUME [Next]_vars
  PROVE  Type \/ UNCHANGED typed
  <1> USE DEF ghosts
  <1>1. CASE Operator
    BY <1>1 DEF Operator, Create, Cancel, DismissLiteral, CancelReview, WaitManual,
      Retarget, Release, ContinueMonitoring, LinkAnswer, CreateBatch,
      RequeueAfterReplacement, ClearHistory
  <1>2. CASE Dispatcher
    BY <1>2 DEF Dispatcher, Delivery, Sample, StartPass, FinishPass, PassOver,
      RejectLong, Claim, Preflight, Submit, Confirm, Record
  <1>3. CASE Environment
    BY <1>3 DEF Environment, PaneStops, PaneResumes, PaneReplaced, OperatorEnter,
      Age, Crash, Restart
  <1>4. QED BY <1>1, <1>2, <1>3 DEF Next, vars

\* The invariant of a delivery holds in every state.
THEOREM DeliveryInvariant == Spec => []DeliveryInv
  BY InitDelivery, NextDelivery, PTL DEF Spec

\* Every variable keeps its type: no request and no failing write leaves a store
\* whose items the code could not classify.
THEOREM TypeCorrect == Spec => []TypeOK
  <1>1. DeliveryInv => TypeOK BY DEF DeliveryInv
  <1>2. QED BY <1>1, DeliveryInvariant, PTL

\* A prompt is typed at most once and submitted at most once (processPromptQueue).
THEOREM DeliversAtMostOnce == Spec => []AtMostOnce
  <1>1. DeliveryInv => AtMostOnce
    <2> SUFFICES ASSUME DeliveryInv, NEW i \in Items
                 PROVE  typed[i] <= 1 /\ entered[i] <= 1
      BY DEF AtMostOnce
    <2>1. typed[i] <= 1 /\ entered[i] <= typed[i] BY DEF DeliveryInv, EnterAfterText
    <2>2. typed[i] \in Nat /\ entered[i] \in Nat BY DEF DeliveryInv, TypeOK
    <2>3. QED BY <2>1, <2>2
  <1>2. QED BY <1>1, DeliveryInvariant, PTL

\* The claim is durable before the first key (processPromptQueue, 17150-17160).
THEOREM ClaimIsDurable == Spec => []ClaimDurable
  <1>1. DeliveryInv => ClaimDurable BY DEF DeliveryInv
  <1>2. QED BY <1>1, DeliveryInvariant, PTL

\* What is promised of the delivery of a prompt, as one invariant.
THEOREM DeliveryIsSafe == Spec => []DeliverySafe
  <1>1. TypeOK /\ AtMostOnce /\ ClaimDurable => DeliverySafe BY DEF DeliverySafe
  <1>2. QED BY <1>1, TypeCorrect, DeliversAtMostOnce, ClaimIsDurable, PTL


\* Text goes to the pane the item on disk names, and to no other: the guard of
\* typeLiteralText reads the memory, which agrees with the file since the claim.
THEOREM TypesInBoundPane == Spec => TypedInBoundPane
  <1>1. DeliveryInv /\ [Next]_vars =>
          \A i \in Items : typed'[i] > typed[i] =>
            pane[Line[i]] = [gen |-> disk[i].gen, state |-> "live"]
    <2> SUFFICES ASSUME DeliveryInv, [Next]_vars, NEW i \in Items,
                        typed'[i] > typed[i]
                 PROVE  pane[Line[i]] = [gen |-> disk[i].gen, state |-> "live"]
      OBVIOUS
    <2>1. typed \in [Items -> Nat] BY DEF DeliveryInv, TypeOK
    <2>2. CASE Type
      <3>1. cur \in Items /\ disk[cur] = mem[cur]
        BY <2>2 DEF Type, DeliveryInv, ClaimHeld, Delivering
      <3>2. typed' = [typed EXCEPT ![cur] = @ + 1] /\ Exact(cur)
        BY <2>1, <2>2 DEF Type
      <3>3. i = cur BY <2>1, <3>1, <3>2
      <3>4. QED BY <3>1, <3>2, <3>3 DEF Exact
    <2>3. CASE UNCHANGED typed BY <2>1, <2>3
    <2>4. QED
      <3>1. Type \/ UNCHANGED typed BY TypedOnlyByType
      <3>2. QED BY <2>2, <2>3, <3>1
  <1>2. QED BY <1>1, DeliveryInvariant, PTL DEF Spec, TypedInBoundPane

--------------------------------------------------------------------------------
(* The store and the lines. The memory and the file are both stores the server   *)
(* can start from, and the file is at most one operation ahead of the memory.    *)

\* The stages of a review of something that was sent.
SentReviews == CompletionReviews \cup {"completion_target_replaced"}

\* An item the store may hold for the id i.
Sound(i, item) ==
  \/ item = Absent
  \/ /\ item.status # "absent" /\ LifecycleValid(item)
     /\ item.status = "needs_review" /\ item.stage \in SentReviews => item.sent
     /\ Kind[i] = "goal" /\ ItemFinal(item) =>
          item.status = "canceled" \/ item.summary = "operator_released"
     /\ item.summary = "captured" => item.footer \/ "explicit" \in Boundaries

Places(q) == \A i, j \in Present(q) : q[i].pos = q[j].pos => i = j
Limited(q) == IsFiniteSet(Present(q)) /\ Cardinality(Present(q)) <= MaxItems

\* What is in flight has every earlier item of its line finished. A capture at an
\* explicit boundary is reopened by a restart, and then the order is lost.
InOrder(q) ==
  \A i, j \in Items :
    Line[i] = Line[j] /\ q[j].pos < q[i].pos /\ InFlight(q[i]) => ~ItemOpen(q[j])

GoodStore(q) ==
  /\ \A i \in Items : Sound(i, q[i]) /\ (q[i].sent => Submitted(i))
  /\ Places(q) /\ Limited(q)
  /\ "explicit" \in Boundaries \/ InOrder(q)

\* Nothing open comes before k in its line.
IsHead(k) ==
  \A j \in Items : Line[j] = Line[k] /\ mem[j].pos < mem[k].pos => ~ItemOpen(mem[j])

\* What it makes of an item that is in the store and not history: a queued item is
\* withdrawn or, if it is a head, claimed; nothing goes back to the queue.
Edits(k, a, b) ==
  /\ a.status # "absent" /\ ~ItemFinal(a)
  /\ b.status # "absent" /\ b.pos = a.pos
  /\ \/ a.status = "queued" /\ b.status \in {"queued", "canceled"}
     \/ a.status # "queued" /\ b.status \in {"sent", "needs_review", "canceled"}
     \/ a.status = "queued" /\ b.status = "dispatching" /\ IsHead(k)

\* A prompt that was never typed enters its line at the end.
Enters(k, b) ==
  /\ mem[k] = Absent /\ typed[k] = 0
  /\ b.status = "queued" /\ \A j \in Present(mem) : mem[j].pos < b.pos

\* No line gets two items at once.
OneEach(q) == \A i, j \in Present(q) \ Present(mem) : Line[i] = Line[j] => i = j

\* The store q is what one operation makes of the memory.
Follows(q) ==
  /\ \A k \in Items :
       q[k] \in {mem[k], Absent} \/ Edits(k, mem[k], q[k]) \/ Enters(k, q[k])
  /\ OneEach(q)

\* What a write that threw may have left in the file.
FileAhead ==
  /\ \A i \in Items :
       /\ mem[i].status = "needs_review" => disk[i].status \notin {"queued", "dispatching"}
       /\ ItemFinal(mem[i]) => disk[i] \in {mem[i], Absent}
  /\ ~up => mem = disk
  /\ Follows(disk)

\* The item in delivery and the heads that still wait are heads.
PassInv ==
  /\ ~up => phase = "idle"
  /\ phase \notin Delivering => cur = None
  /\ phase = "idle" => todo = {}
  /\ \A i \in todo : IsHead(i)
  /\ cur \in Items => IsHead(cur) /\ mem[cur].status = "dispatching"
  /\ phase = "confirm" => Submitted(cur)
  /\ phase = "record" =>
       /\ out \in DeliveryFailures \cup {"submitted", "accepted"}
       /\ out \in {"submitted", "accepted"} => Submitted(cur)

StoreInv ==
  /\ DeliveryInv /\ GoodStore(mem) /\ GoodStore(disk)
  /\ FileAhead /\ PassInv /\ NoOrphanClaim

--------------------------------------------------------------------------------
(* What an operation makes of the store.                                         *)

\* A fresh id joins its line at the end.
Joins(k, b) ==
  /\ mem[k] = Absent /\ k \notin used /\ k \in used'
  /\ b.status = "queued" /\ \A j \in Present(mem) : mem[j].pos < b.pos

\* A restart reopens a capture that left no "Worked for" line.
Reopens(a, b) ==
  /\ "explicit" \in Boundaries /\ ~up
  /\ ItemFinal(a) /\ b.status = "needs_review" /\ b.pos = a.pos

Succeeds(next) ==
  \A k \in Items :
    \/ next[k] \in {mem[k], Absent} \/ Edits(k, mem[k], next[k])
    \/ Joins(k, next[k]) \/ Reopens(mem[k], next[k])

\* A store an operation may write.
Proper(next) ==
  /\ next \in Store /\ Succeeds(next) /\ OneEach(next)
  /\ Places(next) /\ IsFiniteSet(Present(next))
  /\ \A k \in Items : Sound(k, next[k]) /\ (next[k].sent => Submitted(k))

\* The write of it, which may throw before or after the file was replaced.
Change(next) ==
  /\ Proper(next) /\ Cardinality(Present(next)) <= MaxItems
  /\ \/ mem' = next /\ disk' = next /\ faults' = faults
     \/ mem' = mem /\ disk' \in {disk, next} /\ faults' > 0 /\ up /\ up'

\* Nothing is claimed by it.
NoClaim(next) ==
  \A k \in Items : next[k].status = "dispatching" => mem[k].status = "dispatching"

--------------------------------------------------------------------------------
(* The vocabulary of items.                                                      *)

\* A slot without an item is open, final and in flight in no sense.
LEMMA AbsentFacts ==
  /\ Absent \in ItemType /\ Absent.status = "absent" /\ Absent.pos = 0 /\ ~Absent.sent
  /\ ~ItemOpen(Absent) /\ ~ItemFinal(Absent) /\ ~InFlight(Absent)
  BY AbsentType DEF Absent, ItemOpen, ItemFinal, InFlight, AwaitingCompletion

\* Which statuses the predicates on items go by.
LEMMA StatusFacts ==
  ASSUME NEW item \in ItemType
  PROVE  /\ item.pos \in Nat
         /\ item.status \in {"queued", "dispatching", "needs_review"} =>
              ItemOpen(item) /\ ~ItemFinal(item)
         /\ item.status = "canceled" => ItemFinal(item) /\ ~ItemOpen(item)
         /\ item.status = "sent" =>
              (ItemOpen(item) <=> item.summary = "pending")
              /\ (ItemFinal(item) <=> item.summary # "pending")
         /\ InFlight(item) <=> ItemOpen(item) /\ item.status # "queued"
         /\ ItemOpen(item) => item.status # "absent" /\ ~ItemFinal(item)
         /\ ItemFinal(item) => item.status \in {"sent", "canceled"}
         /\ item.status # "absent" => ItemOpen(item) \/ ItemFinal(item)
  BY DEF ItemType, Statuses, ItemOpen, ItemFinal, InFlight, AwaitingCompletion

\* A present slot of a sound store holds an item the validator accepts.
LEMMA SoundPresent ==
  ASSUME NEW i, NEW item, Sound(i, item), item.status # "absent"
  PROVE  LifecycleValid(item)
  BY AbsentFacts DEF Sound

--------------------------------------------------------------------------------
(* What a proper store is after the operation.                                   *)

\* Trimming a proper store leaves a proper store, not larger than before.
LEMMA TrimProper ==
  ASSUME StoreInv, NEW q, Proper(q), NEW next \in Trimmed(q)
  PROVE  /\ Proper(next) /\ Present(next) \subseteq Present(q)
         /\ Cardinality(Present(next)) <= Cardinality(Present(q))
  <1>1. /\ next \in Store
        /\ \A i \in Items : next[i] = q[i] \/ next[i] = Absent
    BY TrimmedStore DEF Proper
  <1>2. Present(next) \subseteq Present(q)
    BY <1>1, AbsentFacts DEF Present
  <1>3. /\ IsFiniteSet(Present(next))
        /\ Cardinality(Present(next)) <= Cardinality(Present(q))
    BY <1>2, FS_Subset DEF Proper
  <1>4. Places(next)
    BY <1>1, <1>2, AbsentFacts DEF Places, Proper, Present
  <1>5. Succeeds(next) BY <1>1 DEF Proper, Succeeds
  <1>6. \A k \in Items : Sound(k, next[k]) /\ (next[k].sent => Submitted(k))
    BY <1>1, AbsentFacts DEF Proper, Sound
  <1>7. OneEach(next) BY <1>2 DEF Proper, OneEach
  <1>8. QED BY <1>1, <1>2, <1>3, <1>4, <1>5, <1>6, <1>7 DEF Proper

\* Changing one item of the store properly.
LEMMA EditProper ==
  ASSUME StoreInv, NEW i \in Items, NEW item \in ItemType, Edits(i, mem[i], item),
         Sound(i, item), item.sent => Submitted(i)
  PROVE  Proper(With(mem, i, item)) /\ Present(With(mem, i, item)) = Present(mem)
  <1> DEFINE next == With(mem, i, item)
  <1>1. mem \in Store BY DEF StoreInv, DeliveryInv, TypeOK, Store
  <1>2. next \in Store /\ next[i] = item /\ \A k \in Items \ {i} : next[k] = mem[k]
    BY <1>1 DEF With, Store
  <1>3. Present(next) = Present(mem) BY <1>2 DEF Present, Edits
  <1>4. Succeeds(next) BY <1>2 DEF Succeeds
  <1>5. Places(next) BY <1>2, <1>3 DEF Places, Present, Edits, StoreInv, GoodStore
  <1>6. IsFiniteSet(Present(next)) BY <1>3 DEF StoreInv, GoodStore, Limited
  <1>7. \A k \in Items : Sound(k, next[k]) /\ (next[k].sent => Submitted(k))
    BY <1>2 DEF StoreInv, GoodStore
  <1>8. OneEach(next) BY <1>3 DEF OneEach
  <1>9. QED BY <1>2, <1>3, <1>4, <1>5, <1>6, <1>7, <1>8 DEF Proper

\* In a proper store what is in flight has everything before it finished, as long as
\* no capture is reopened.
LEMMA ProperOrder ==
  ASSUME StoreInv, NEW next, Proper(next), "explicit" \notin Boundaries
  PROVE  InOrder(next)
  <1> SUFFICES ASSUME NEW i \in Items, NEW j \in Items, Line[i] = Line[j],
                      next[j].pos < next[i].pos, InFlight(next[i]), ItemOpen(next[j])
               PROVE  FALSE
    BY DEF InOrder
  <1>1. /\ next[i] \in ItemType /\ next[j] \in ItemType
        /\ mem[i] \in ItemType /\ mem[j] \in ItemType
    BY ItemOfStore DEF Proper, Store, StoreInv, DeliveryInv
  <1>2. InOrder(mem) BY DEF StoreInv, GoodStore
  <1>3. ~Joins(i, next[i]) BY <1>1, StatusFacts DEF Joins
  <1>4. /\ mem[i].pos = next[i].pos /\ mem[i].status # "absent"
        /\ InFlight(mem[i]) \/ IsHead(i)
    BY <1>1, <1>3, StatusFacts, AbsentFacts DEF Proper, Succeeds, Edits, Reopens
  <1>5. ~Joins(j, next[j])
    BY <1>1, <1>4 DEF Joins, Present, ItemType
  <1>6. mem[j].pos = next[j].pos /\ ItemOpen(mem[j])
    BY <1>1, <1>5, StatusFacts, AbsentFacts DEF Proper, Succeeds, Edits, Reopens
  <1>7. QED BY <1>2, <1>4, <1>6 DEF InOrder, IsHead

\* A head stays a head while no id is drawn: nothing open appears before it.
LEMMA ProperHeads ==
  ASSUME StoreInv, NEW next, Proper(next), used' = used, up, mem' = next,
         NEW i \in Items, IsHead(i)
  PROVE  IsHead(i)'
  <1> SUFFICES ASSUME NEW j \in Items, Line[j] = Line[i], next[j].pos < next[i].pos,
                      ItemOpen(next[j])
               PROVE  FALSE
    BY DEF IsHead
  <1>1. /\ next[i] \in ItemType /\ next[j] \in ItemType
        /\ mem[i] \in ItemType /\ mem[j] \in ItemType
    BY ItemOfStore DEF Proper, Store, StoreInv, DeliveryInv
  <1>2. next[i] # Absent BY <1>1, StatusFacts, AbsentFacts
  <1>3. mem[i].pos = next[i].pos BY <1>2 DEF Proper, Succeeds, Edits, Joins, Reopens
  <1>4. mem[j].pos = next[j].pos /\ ItemOpen(mem[j])
    BY <1>1, StatusFacts, AbsentFacts DEF Proper, Succeeds, Edits, Joins, Reopens
  <1>5. QED BY <1>3, <1>4 DEF IsHead

--------------------------------------------------------------------------------
(* What is kept by every write.                                                  *)

\* The persisting functions change the store as Change says.
LEMMA PersistChange ==
  ASSUME StoreInv, NEW next, Proper(next), Cardinality(Present(next)) <= MaxItems,
         Persist(next), up, UNCHANGED up
  PROVE  Change(next)
  <1>1. faults \in Nat BY ConstantsAssumption DEF StoreInv, DeliveryInv, TypeOK
  <1>2. QED BY <1>1 DEF Change, Persist, Written, WriteThrows

\* An edit of one item, with or without trimming the history.
LEMMA FinishChange ==
  ASSUME StoreInv, NEW i \in Items, NEW item \in ItemType, Edits(i, mem[i], item),
         Sound(i, item), item.sent => Submitted(i), item.status # "dispatching",
         Finish(i, item) \/ Persist(With(mem, i, item)), up, UNCHANGED up
  PROVE  \E next : Change(next) /\ NoClaim(next)
  <1> DEFINE q == With(mem, i, item)
  <1>1. Proper(q) /\ Present(q) = Present(mem) BY EditProper
  <1>2. Cardinality(Present(q)) <= MaxItems BY <1>1 DEF StoreInv, GoodStore, Limited
  <1>3. mem \in [Items -> ItemType] BY DEF StoreInv, DeliveryInv, TypeOK
  <1>4. NoClaim(q) BY <1>3 DEF With, NoClaim
  <1>5. CASE Persist(q) BY <1>1, <1>2, <1>4, <1>5, PersistChange
  <1>6. CASE Finish(i, item)
    <2>1. PICK next \in Trimmed(q) : Persist(next) BY <1>6 DEF Finish
    <2>2. /\ Proper(next) /\ IsFiniteSet(Present(q)) /\ IsFiniteSet(Present(next))
          /\ Cardinality(Present(next)) <= Cardinality(Present(q))
      BY <1>1, <2>1, TrimProper DEF Proper
    <2>3. Cardinality(Present(next)) <= MaxItems
      BY <1>2, <2>2, FS_CardinalityType, ConstantsAssumption
    <2>4. NoClaim(next) BY <1>4, <2>1, AbsentFacts DEF NoClaim, Trimmed
    <2>5. QED BY <2>1, <2>2, <2>3, <2>4, PersistChange
  <1>7. QED BY <1>5, <1>6

\* Memory and file stay stores the server can start from.
LEMMA ChangeStores ==
  ASSUME StoreInv, NEW next, Change(next), UNCHANGED ghosts
  PROVE  GoodStore(mem)' /\ GoodStore(disk)'
  <1>1. \A k \in Items : Submitted(k)' = Submitted(k) BY DEF Submitted, ghosts
  <1>2. "explicit" \in Boundaries \/ InOrder(next) BY ProperOrder DEF Change
  <1>3. \A q \in {mem, disk, next} : mem' = q => GoodStore(mem)'
    BY <1>1, <1>2 DEF StoreInv, Change, Proper, GoodStore, Limited
  <1>4. \A q \in {mem, disk, next} : disk' = q => GoodStore(disk)'
    BY <1>1, <1>2 DEF StoreInv, Change, Proper, GoodStore, Limited
  <1>5. QED BY <1>3, <1>4 DEF Change

\* A write makes of the store what one operation does, while nothing is reopened.
LEMMA ChangeFollows ==
  ASSUME StoreInv, NEW next, Change(next), up \/ "explicit" \notin Boundaries
  PROVE  Follows(next)
  <1>1. \A k \in Items : k \notin used => typed[k] = 0
    BY DEF StoreInv, DeliveryInv, Known, TypeOK
  <1>2. ASSUME NEW k \in Items
        PROVE  next[k] \in {mem[k], Absent} \/ Edits(k, mem[k], next[k]) \/ Enters(k, next[k])
    BY <1>1 DEF Change, Proper, Succeeds, Joins, Enters, Reopens
  <1>3. QED BY <1>2 DEF Follows, Change, Proper

\* The file is at most this one operation ahead.
LEMMA ChangeFile ==
  ASSUME StoreInv, NEW next, Change(next), UNCHANGED ghosts
  PROVE  FileAhead'
  <1>1. CASE mem' = disk'
    <2>1. Follows(disk)' BY <1>1 DEF Follows, OneEach
    <2>2. QED BY <1>1, <2>1 DEF FileAhead
  <1>2. CASE mem' = mem /\ disk' \in {disk, next} /\ up /\ up'
    <2>1. \A q : Follows(q) /\ disk' = q => Follows(disk)'
      BY <1>2 DEF Follows, OneEach, Edits, Enters, IsHead, ghosts
    <2>2. CASE disk' = disk BY <1>2, <2>1, <2>2 DEF StoreInv, FileAhead
    <2>3. CASE disk' = next
      <3>1. Follows(next) BY <1>2, ChangeFollows
      <3>2. \A i \in Items :
              /\ mem[i].status = "needs_review" =>
                   next[i].status \notin {"queued", "dispatching"}
              /\ ItemFinal(mem[i]) => next[i] \in {mem[i], Absent}
        BY <3>1, AbsentFacts DEF Follows, Edits, Enters
      <3>3. QED BY <1>2, <2>1, <2>3, <3>1, <3>2 DEF FileAhead
    <2>4. QED BY <1>2, <2>2, <2>3
  <1>3. QED BY <1>1, <1>2 DEF Change

--------------------------------------------------------------------------------
(* Every operation writes such a change.                                         *)

\* The requests that edit one item.
LEMMA EditRequests ==
  ASSUME StoreInv, NEW k \in Items,
         \/ Cancel(k) \/ DismissLiteral(k) \/ CancelReview(k) \/ WaitManual(k)
         \/ Retarget(k) \/ Release(k) \/ ContinueMonitoring(k) \/ LinkAnswer(k)
  PROVE  \E next : Change(next) /\ NoClaim(next)
  <1>1. ASSUME NEW i \in Items, Cancel(i) PROVE \E next : Change(next) /\ NoClaim(next)
    <2> DEFINE item == [mem[i] EXCEPT !.status = "canceled", !.summary = "unavailable"]
    <2>1. mem[i] \in ItemType /\ Sound(i, mem[i]) /\ (mem[i].sent => Submitted(i))
      BY ItemOfStore DEF StoreInv, DeliveryInv, GoodStore
    <2>2. item \in ItemType /\ item.status # "dispatching" /\ item.sent = mem[i].sent
      BY <1>1, <2>1, Vocabulary DEF Cancel, ItemType
    <2>3. Edits(i, mem[i], item)
      BY <1>1, <2>1, StatusFacts DEF Cancel, Edits, ItemType
    <2>4. Sound(i, item)
      BY <1>1, <2>1, AbsentFacts DEF Cancel, Sound, LifecycleValid, ItemFinal,
         AwaitingCompletion, ItemType, SentReviews, CompletionReviews
    <2>5. QED BY <1>1, <2>1, <2>2, <2>3, <2>4, FinishChange DEF Cancel, Serving
  <1>2. ASSUME NEW i \in Items, DismissLiteral(i) PROVE \E next : Change(next) /\ NoClaim(next)
    <2> DEFINE item == [mem[i] EXCEPT !.status = "canceled", !.summary = "unavailable",
                                      !.stage = "literal_review_dismissed"]
    <2>1. mem[i] \in ItemType /\ Sound(i, mem[i]) /\ (mem[i].sent => Submitted(i))
      BY ItemOfStore DEF StoreInv, DeliveryInv, GoodStore
    <2>2. item \in ItemType /\ item.status # "dispatching" /\ item.sent = mem[i].sent
      BY <1>2, <2>1, Vocabulary DEF DismissLiteral, ItemType
    <2>3. Edits(i, mem[i], item)
      BY <1>2, <2>1, StatusFacts DEF DismissLiteral, Edits, ItemType
    <2>4. Sound(i, item)
      BY <1>2, <2>1, AbsentFacts DEF DismissLiteral, Sound, LifecycleValid, ItemFinal,
         AwaitingCompletion, ItemType, SentReviews, CompletionReviews
    <2>5. QED BY <1>2, <2>1, <2>2, <2>3, <2>4, FinishChange DEF DismissLiteral, Serving
  <1>3. ASSUME NEW i \in Items, CancelReview(i) PROVE \E next : Change(next) /\ NoClaim(next)
    <2> DEFINE item == [mem[i] EXCEPT !.status = "canceled", !.summary = "unavailable",
                                      !.stage = "review_canceled",
                                      !.completed = mem[i].sent]
    <2>1. mem[i] \in ItemType /\ Sound(i, mem[i]) /\ (mem[i].sent => Submitted(i))
      BY ItemOfStore DEF StoreInv, DeliveryInv, GoodStore
    <2>2. item \in ItemType /\ item.status # "dispatching" /\ item.sent = mem[i].sent
      BY <1>3, <2>1, Vocabulary DEF CancelReview, ItemType
    <2>3. Edits(i, mem[i], item)
      BY <1>3, <2>1, StatusFacts DEF CancelReview, Edits, ItemType
    <2>4. Sound(i, item)
      BY <1>3, <2>1, AbsentFacts DEF CancelReview, Sound, LifecycleValid, ItemFinal,
         AwaitingCompletion, ItemType, SentReviews, CompletionReviews
    <2>5. QED BY <1>3, <2>1, <2>2, <2>3, <2>4, FinishChange DEF CancelReview, Serving
  <1>4. ASSUME NEW i \in Items, WaitManual(i) PROVE \E next : Change(next) /\ NoClaim(next)
    <2> DEFINE item == [mem[i] EXCEPT !.stage = "waiting_for_manual_submit"]
    <2>1. mem[i] \in ItemType /\ Sound(i, mem[i]) /\ (mem[i].sent => Submitted(i))
      BY ItemOfStore DEF StoreInv, DeliveryInv, GoodStore
    <2>2. item \in ItemType /\ item.status # "dispatching" /\ item.sent = mem[i].sent
      BY <1>4, <2>1, Vocabulary DEF WaitManual, ItemType
    <2>3. Edits(i, mem[i], item)
      BY <1>4, <2>1, StatusFacts DEF WaitManual, Edits, ItemType
    <2>4. Sound(i, item)
      BY <1>4, <2>1, AbsentFacts DEF WaitManual, Sound, LifecycleValid, ItemFinal,
         AwaitingCompletion, ItemType, SentReviews, CompletionReviews
    <2>5. QED BY <1>4, <2>1, <2>2, <2>3, <2>4, FinishChange DEF WaitManual, Serving
  <1>5. ASSUME NEW i \in Items, ContinueMonitoring(i) PROVE \E next : Change(next) /\ NoClaim(next)
    <2> DEFINE item == [mem[i] EXCEPT !.status = "sent", !.summary = "pending",
                                      !.completed = FALSE, !.footer = FALSE,
                                      !.stage = "monitoring_after_review"]
    <2>1. mem[i] \in ItemType /\ Sound(i, mem[i]) /\ (mem[i].sent => Submitted(i))
      BY ItemOfStore DEF StoreInv, DeliveryInv, GoodStore
    <2>2. item \in ItemType /\ item.status # "dispatching" /\ item.sent = mem[i].sent
      BY <1>5, <2>1, Vocabulary DEF ContinueMonitoring, ItemType
    <2>3. Edits(i, mem[i], item)
      BY <1>5, <2>1, StatusFacts DEF ContinueMonitoring, Edits, ItemType
    <2>4. Sound(i, item)
      BY <1>5, <2>1, AbsentFacts DEF ContinueMonitoring, Sound, LifecycleValid, ItemFinal,
         AwaitingCompletion, ItemType, SentReviews, CompletionReviews
    <2>5. QED BY <1>5, <2>1, <2>2, <2>3, <2>4, FinishChange DEF ContinueMonitoring, Serving
  <1>6. ASSUME NEW i \in Items, LinkAnswer(i) PROVE \E next : Change(next) /\ NoClaim(next)
    <2> DEFINE item == [mem[i] EXCEPT !.status = "sent", !.summary = "pending",
                                      !.completed = FALSE, !.footer = FALSE,
                                      !.stage = "monitoring_after_response"]
    <2>1. mem[i] \in ItemType /\ Sound(i, mem[i]) /\ (mem[i].sent => Submitted(i))
      BY ItemOfStore DEF StoreInv, DeliveryInv, GoodStore
    <2>2. item \in ItemType /\ item.status # "dispatching" /\ item.sent = mem[i].sent
      BY <1>6, <2>1, Vocabulary DEF LinkAnswer, ItemType, AwaitingCompletion
    <2>3. Edits(i, mem[i], item)
      BY <1>6, <2>1, StatusFacts DEF LinkAnswer, Edits, ItemType, AwaitingCompletion
    <2>4. Sound(i, item)
      BY <1>6, <2>1, AbsentFacts DEF LinkAnswer, Sound, LifecycleValid, ItemFinal,
         AwaitingCompletion, ItemType, SentReviews, CompletionReviews, AwaitingCompletion
    <2>5. QED BY <1>6, <2>1, <2>2, <2>3, <2>4, FinishChange DEF LinkAnswer, Serving
  <1>7. ASSUME NEW i \in Items, Retarget(i) PROVE \E next : Change(next) /\ NoClaim(next)
    <2> DEFINE item == [mem[i] EXCEPT !.gen = pane[Line[i]].gen, !.stage = ""]
    <2>1. mem[i] \in ItemType /\ Sound(i, mem[i]) /\ (mem[i].sent => Submitted(i))
      BY ItemOfStore DEF StoreInv, DeliveryInv, GoodStore
    <2>2. pane[Line[i]].gen \in 0..MaxGen
      BY ConstantsAssumption, LineType DEF StoreInv, DeliveryInv, TypeOK, PaneType
    <2>3. item \in ItemType /\ item.status # "dispatching" /\ item.sent = mem[i].sent
      BY <1>7, <2>1, <2>2, Vocabulary DEF Retarget, ItemType
    <2>4. Edits(i, mem[i], item)
      BY <1>7, <2>1, <2>2, StatusFacts DEF Retarget, Edits, ItemType
    <2>5. Sound(i, item)
      BY <1>7, <2>1, AbsentFacts DEF Retarget, Sound, LifecycleValid, ItemFinal,
         AwaitingCompletion, ItemType
    <2>6. QED BY <1>7, <2>1, <2>3, <2>4, <2>5, FinishChange DEF Retarget, Serving
  <1>8. ASSUME NEW i \in Items, Release(i) PROVE \E next : Change(next) /\ NoClaim(next)
    <2> DEFINE captured(footer) == [mem[i] EXCEPT !.status = "sent",
                  !.summary = "captured", !.stage = "completion_recovered",
                  !.completed = TRUE, !.footer = footer]
               released == [mem[i] EXCEPT !.status = "sent",
                  !.summary = "operator_released", !.stage = "operator_released",
                  !.completed = TRUE, !.footer = FALSE]
    <2>1. mem[i] \in ItemType /\ Sound(i, mem[i]) /\ (mem[i].sent => Submitted(i))
      BY ItemOfStore DEF StoreInv, DeliveryInv, GoodStore
    <2>2. mem[i].status = "needs_review" /\ mem[i].sent /\ mem[i].claimed
      BY <1>8, <2>1, AbsentFacts DEF Release, Sound, SentReviews, LifecycleValid
    <2>3. CASE Finish(i, released)
      <3>1. released \in ItemType /\ released.status = "sent" /\ released.sent
        BY <2>1, <2>2, Vocabulary DEF ItemType
      <3>2. Edits(i, mem[i], released)
        BY <2>1, <2>2, StatusFacts DEF Edits, ItemType
      <3>3. Sound(i, released)
        BY <2>1, <2>2 DEF Sound, LifecycleValid, ItemType
      <3>4. QED BY <1>8, <2>1, <2>2, <2>3, <3>1, <3>2, <3>3, FinishChange
                DEF Release, Serving
    <2>4. ASSUME NEW footer \in BOOLEAN, Finish(i, captured(footer)), Marked(i),
                 footer \/ "explicit" \in Boundaries
          PROVE  \E next : Change(next) /\ NoClaim(next)
      <3>1. /\ captured(footer) \in ItemType /\ captured(footer).status = "sent"
            /\ captured(footer).sent
        BY <2>1, <2>2, Vocabulary DEF ItemType
      <3>2. Edits(i, mem[i], captured(footer))
        BY <2>1, <2>2, StatusFacts DEF Edits, ItemType
      <3>3. Sound(i, captured(footer))
        BY <2>1, <2>2, <2>4 DEF Sound, LifecycleValid, ItemType, Marked
      <3>4. QED BY <1>8, <2>1, <2>2, <2>4, <3>1, <3>2, <3>3, FinishChange
                DEF Release, Serving
    <2>5. \/ Finish(i, released)
          \/ \E footer \in BOOLEAN : /\ Finish(i, captured(footer)) /\ Marked(i)
                                     /\ footer \/ "explicit" \in Boundaries
      <3>1. \A b \in Boundaries : /\ (b = "footer") \in BOOLEAN
                                  /\ (b = "footer") \/ "explicit" \in Boundaries
        BY ConstantsAssumption
      <3>2. QED BY <1>8, <3>1 DEF Release
    <2>6. QED BY <2>3, <2>4, <2>5
  <1>9. QED BY <1>1, <1>2, <1>3, <1>4, <1>5, <1>6, <1>7, <1>8

\* An id that was never drawn has no slot.
LEMMA FreshSlot == ASSUME StoreInv, NEW i \in Items, i \notin used PROVE mem[i] = Absent
  BY DEF StoreInv, DeliveryInv, Known, GoodStore, Sound

\* newPromptQueueItem makes a queued item the validator accepts.
LEMMA NewItemFacts ==
  ASSUME NEW i \in Items, NEW g \in 0..MaxGen, NEW p \in Nat
  PROVE  /\ NewItem(g, p) \in ItemType /\ NewItem(g, p).status = "queued"
         /\ NewItem(g, p).pos = p /\ ~NewItem(g, p).sent /\ Sound(i, NewItem(g, p))
  <1>1. NewItem(g, p) \in ItemType BY NewItemType
  <1>2. /\ NewItem(g, p).status = "queued" /\ NewItem(g, p).summary = "pending"
        /\ NewItem(g, p).pos = p /\ ~NewItem(g, p).sent
        /\ ~NewItem(g, p).claimed /\ ~NewItem(g, p).completed
    BY DEF NewItem, Absent
  <1>3. Sound(i, NewItem(g, p))
    BY <1>2 DEF Sound, LifecycleValid, ItemFinal
  <1>4. QED BY <1>1, <1>2, <1>3

\* A name is bound to a pane of the run.
LEMMA PaneGen == ASSUME StoreInv, NEW i \in Items PROVE pane[Line[i]].gen \in 1..MaxGen
  BY LineType DEF StoreInv, DeliveryInv, TypeOK, PaneType

\* A proper store is written after trimming.
LEMMA TrimmedChange ==
  ASSUME StoreInv, NEW q, Proper(q), NoClaim(q), NEW next \in Trimmed(q), Persist(next),
         Cardinality(Present(next)) <= MaxItems \/ Cardinality(Present(q)) <= MaxItems,
         up, UNCHANGED up
  PROVE  \E n : Change(n) /\ NoClaim(n)
  <1>1. /\ Proper(next) /\ IsFiniteSet(Present(q)) /\ IsFiniteSet(Present(next))
        /\ Cardinality(Present(next)) <= Cardinality(Present(q))
    BY TrimProper DEF Proper
  <1>2. Cardinality(Present(next)) <= MaxItems
    BY <1>1, FS_CardinalityType, ConstantsAssumption
  <1>3. NoClaim(next) BY AbsentFacts DEF NoClaim, Trimmed
  <1>4. QED BY <1>1, <1>2, <1>3, PersistChange

\* One more item makes a finite set larger by at most one.
LEMMA OneMore ==
  ASSUME NEW S, NEW x, IsFiniteSet(S)
  PROVE  /\ IsFiniteSet(S \cup {x}) /\ Cardinality(S) \in Nat
         /\ Cardinality(S \cup {x}) \in Nat
         /\ Cardinality(S \cup {x}) <= Cardinality(S) + 1
  <1>1. Cardinality(S) \in Nat BY FS_CardinalityType
  <1>2. /\ IsFiniteSet(S \cup {x})
        /\ Cardinality(S \cup {x}) = IF x \in S THEN Cardinality(S) ELSE Cardinality(S) + 1
    BY FS_AddElement
  <1>3. QED BY <1>1, <1>2

\* createPromptQueueItem appends a fresh item.
LEMMA CreateChange ==
  ASSUME StoreInv, NEW i \in Items, Create(i)
  PROVE  \E next : Change(next) /\ NoClaim(next)
  <1>1. PICK p \in 1..Cardinality(Items), g \in 1..pane[Line[i]].gen :
          /\ NextPosition(mem, p)
          /\ \E next \in Trimmed(With(mem, i, NewItem(g, p))) :
               Cardinality(Present(next)) <= MaxItems /\ Persist(next)
    BY DEF Create
  <1> DEFINE q == With(mem, i, NewItem(g, p))
  <1>2. g \in 0..MaxGen /\ p \in Nat BY PaneGen, ConstantsAssumption
  <1>3. i \notin used /\ i \in used' /\ mem[i] = Absent BY FreshSlot DEF Create
  <1>4. mem \in Store BY DEF StoreInv, DeliveryInv, TypeOK, Store
  <1>5. /\ q \in Store /\ q[i] = NewItem(g, p)
        /\ \A k \in Items \ {i} : q[k] = mem[k]
    BY <1>2, <1>4, NewItemFacts DEF With, Store
  <1>6. Joins(i, q[i]) BY <1>2, <1>3, <1>5, <1>1, NewItemFacts DEF Joins, NextPosition
  <1>7. Succeeds(q) BY <1>5, <1>6 DEF Succeeds
  <1>8. Present(q) = Present(mem) \cup {i}
    BY <1>2, <1>5, NewItemFacts DEF Present
  <1>9. IsFiniteSet(Present(q))
    BY <1>8, FS_AddElement DEF StoreInv, GoodStore, Limited
  <1>10. Places(q)
    <2> SUFFICES ASSUME NEW k \in Present(q), NEW l \in Present(q), q[k].pos = q[l].pos
                 PROVE  k = l
      BY DEF Places
    <2>1. \A j \in Present(mem) : j # i /\ q[j] = mem[j] /\ q[j].pos < q[i].pos
                                /\ mem[j].pos \in Nat
      BY <1>3, <1>5, <1>6, AbsentFacts, ItemOfStore, StatusFacts
      DEF Joins, Present, StoreInv, DeliveryInv
    <2>2. q[i].pos \in Nat BY <1>2, <1>5, NewItemFacts
    <2>3. CASE k = i \/ l = i BY <1>8, <2>1, <2>2, <2>3
    <2>4. CASE k # i /\ l # i
      BY <1>8, <2>1, <2>4 DEF StoreInv, GoodStore, Places
    <2>5. QED BY <2>3, <2>4
  <1>11. \A k \in Items : Sound(k, q[k]) /\ (q[k].sent => Submitted(k))
    BY <1>2, <1>5, NewItemFacts DEF StoreInv, GoodStore
  <1>12. Proper(q)
    <2>1. OneEach(q) BY <1>8 DEF OneEach
    <2>2. QED BY <2>1, <1>5, <1>7, <1>9, <1>10, <1>11 DEF Proper
  <1>13. NoClaim(q) BY <1>2, <1>5, NewItemFacts DEF NoClaim
  <1>14. up /\ UNCHANGED up BY DEF Create, Serving
  <1>15. QED BY <1>1, <1>12, <1>13, <1>14, TrimmedChange

\* createPromptQueueBatch appends two fresh items of different lines, in order.
LEMMA CreateBatchChange ==
  ASSUME StoreInv, NEW i \in Items, NEW j \in Items, CreateBatch(i, j)
  PROVE  \E next : Change(next) /\ NoClaim(next)
  <1> DEFINE a(p) == NewItem(pane[Line[i]].gen, p)
             b(p) == NewItem(pane[Line[j]].gen, BatchPosition(p, 1))
             batch(p) == [mem EXCEPT ![i] = a(p), ![j] = b(p)]
  <1>1. PICK p \in 1..Cardinality(Items) :
          NextPosition(mem, p) /\ \E next \in Trimmed(batch(p)) : Persist(next)
    BY DEF CreateBatch
  <1> DEFINE q == batch(p)
  <1>2. /\ pane[Line[i]].gen \in 0..MaxGen /\ pane[Line[j]].gen \in 0..MaxGen
        /\ p \in Nat /\ BatchPosition(p, 1) = p + 1
    BY PaneGen DEF BatchPosition
  <1>3. /\ i \notin used /\ i \in used' /\ mem[i] = Absent
        /\ j \notin used /\ j \in used' /\ mem[j] = Absent /\ i # j
    BY FreshSlot DEF CreateBatch
  <1>4. mem \in Store BY DEF StoreInv, DeliveryInv, TypeOK, Store
  <1>5. /\ a(p) \in ItemType /\ a(p).status = "queued" /\ a(p).pos = p /\ ~a(p).sent
        /\ Sound(i, a(p))
    BY <1>2, NewItemFacts
  <1>6. /\ b(p) \in ItemType /\ b(p).status = "queued" /\ b(p).pos = p + 1
        /\ ~b(p).sent /\ Sound(j, b(p))
    BY <1>2, NewItemFacts
  <1> HIDE DEF a, b
  <1>7. /\ q \in Store /\ q[i] = a(p) /\ q[j] = b(p)
        /\ \A k \in Items \ {i, j} : q[k] = mem[k]
    BY <1>3, <1>4, <1>5, <1>6 DEF Store
  <1> HIDE DEF batch
  <1>8. \A k \in Present(mem) : mem[k].pos < p /\ mem[k].pos \in Nat /\ k \notin {i, j}
    BY <1>1, <1>3, AbsentFacts, ItemOfStore, StatusFacts
    DEF NextPosition, Present, StoreInv, DeliveryInv
  <1>9. Joins(i, q[i]) /\ Joins(j, q[j])
    BY <1>2, <1>3, <1>5, <1>6, <1>7, <1>8 DEF Joins
  <1>10. Succeeds(q) BY <1>7, <1>9 DEF Succeeds
  <1>11. Present(q) = (Present(mem) \cup {i}) \cup {j}
    BY <1>5, <1>6, <1>7 DEF Present
  <1>12. IsFiniteSet(Present(q)) /\ Cardinality(Present(q)) <= MaxItems
    <2>1. IsFiniteSet(Present(mem)) BY DEF StoreInv, GoodStore, Limited
    <2> DEFINE first == Present(mem) \cup {i}
    <2>2. /\ IsFiniteSet(first) /\ Cardinality(Present(mem)) \in Nat
          /\ Cardinality(first) \in Nat
          /\ Cardinality(first) <= Cardinality(Present(mem)) + 1
      BY <2>1, OneMore
    <2>3. /\ IsFiniteSet(first \cup {j}) /\ Cardinality(first \cup {j}) \in Nat
          /\ Cardinality(first \cup {j}) <= Cardinality(first) + 1
      BY <2>2, OneMore
    <2>4. Cardinality(Present(mem)) + 2 <= MaxItems BY DEF CreateBatch
    <2>5. Present(q) = first \cup {j} BY <1>11
    <2> HIDE DEF first
    <2>6. QED BY <2>2, <2>3, <2>4, <2>5, ConstantsAssumption
  <1>13. Places(q)
    <2> SUFFICES ASSUME NEW k \in Present(q), NEW l \in Present(q), q[k].pos = q[l].pos
                 PROVE  k = l
      BY DEF Places
    <2>1. \A m \in Present(mem) : q[m] = mem[m] /\ mem[m].pos < p /\ mem[m].pos \in Nat
      BY <1>7, <1>8 DEF Present
    <2>2. CASE k \in {i, j} \/ l \in {i, j}
      BY <1>2, <1>5, <1>6, <1>7, <1>11, <2>1, <2>2
    <2>3. CASE k \notin {i, j} /\ l \notin {i, j}
      BY <1>11, <2>1, <2>3 DEF StoreInv, GoodStore, Places
    <2>4. QED BY <2>2, <2>3
  <1>14. \A k \in Items : Sound(k, q[k]) /\ (q[k].sent => Submitted(k))
    BY <1>5, <1>6, <1>7 DEF StoreInv, GoodStore
  <1>15. Proper(q)
    <2>1. OneEach(q) BY <1>11 DEF OneEach, CreateBatch
    <2>2. QED BY <2>1, <1>7, <1>10, <1>12, <1>13, <1>14 DEF Proper
  <1>16. NoClaim(q) BY <1>5, <1>6, <1>7 DEF NoClaim
  <1>17. up /\ UNCHANGED up BY DEF CreateBatch, Serving
  <1>18. QED BY <1>1, <1>12, <1>15, <1>16, <1>17, TrimmedChange

\* clearPromptQueueHistory forgets what is finished and changes nothing else.
LEMMA ClearChange ==
  ASSUME StoreInv, ClearHistory
  PROVE  \E next : Change(next) /\ NoClaim(next)
  <1> DEFINE next == [i \in Items |-> IF i \in Finals(mem) THEN Absent ELSE mem[i]]
  <1>1. next \in Store BY AbsentType DEF StoreInv, DeliveryInv, TypeOK, Store
  <1>2. \A k \in Items : next[k] \in {mem[k], Absent} OBVIOUS
  <1> HIDE DEF next
  <1>3. Present(next) \subseteq Present(mem) /\ \A k \in Present(next) : next[k] = mem[k]
    BY <1>2, AbsentFacts DEF Present
  <1>4. /\ IsFiniteSet(Present(mem)) /\ IsFiniteSet(Present(next))
        /\ Cardinality(Present(next)) <= Cardinality(Present(mem))
        /\ Cardinality(Present(mem)) <= MaxItems
    BY <1>3, FS_Subset DEF StoreInv, GoodStore, Limited
  <1>5. Cardinality(Present(next)) <= MaxItems
    BY <1>4, FS_CardinalityType, ConstantsAssumption
  <1>6. Places(next) BY <1>3 DEF Places, StoreInv, GoodStore
  <1>7. Succeeds(next) BY <1>2 DEF Succeeds
  <1>8. \A k \in Items : Sound(k, next[k]) /\ (next[k].sent => Submitted(k))
    BY <1>2, AbsentFacts DEF StoreInv, GoodStore, Sound
  <1>9. Proper(next)
    <2>1. OneEach(next) BY <1>3 DEF OneEach
    <2>2. QED BY <2>1, <1>1, <1>4, <1>6, <1>7, <1>8 DEF Proper
  <1>10. NoClaim(next) BY <1>2, AbsentFacts DEF NoClaim
  <1>11. Persist(next) /\ up /\ UNCHANGED up BY DEF ClearHistory, Serving, next
  <1>12. QED BY <1>5, <1>9, <1>10, <1>11, PersistChange

\* requeuePromptQueueAfterReplacement closes one item and appends a fresh one.
LEMMA RequeueChange ==
  ASSUME StoreInv, NEW i \in Items, NEW j \in Items, RequeueAfterReplacement(i, j)
  PROVE  \E next : Change(next) /\ NoClaim(next)
  <1> DEFINE closed == [mem[i] EXCEPT !.status = "sent",
                          !.summary = "operator_released",
                          !.stage = "operator_requeued_after_replacement",
                          !.completed = TRUE, !.footer = FALSE]
             fresh(p) == NewItem(pane[Line[j]].gen, p)
             requeued(p) == [mem EXCEPT ![i] = [@ EXCEPT !.status = "sent",
                          !.summary = "operator_released",
                          !.stage = "operator_requeued_after_replacement",
                          !.completed = TRUE, !.footer = FALSE],
                          ![j] = fresh(p)]
  <1>1. PICK p \in 1..Cardinality(Items) :
          NextPosition(mem, p) /\ \E next \in Trimmed(requeued(p)) : Persist(next)
    BY DEF RequeueAfterReplacement
  <1> DEFINE q == requeued(p)
  <1>2. pane[Line[j]].gen \in 0..MaxGen /\ p \in Nat BY PaneGen
  <1>3. /\ j \notin used /\ j \in used' /\ mem[j] = Absent
        /\ mem[i].status = "needs_review" /\ mem[i].sent /\ i # j
    BY FreshSlot, AbsentFacts DEF RequeueAfterReplacement
  <1>4. mem[i] \in ItemType /\ Sound(i, mem[i]) /\ Submitted(i)
    BY <1>3, ItemOfStore DEF StoreInv, DeliveryInv, GoodStore
  <1>5. mem \in Store BY DEF StoreInv, DeliveryInv, TypeOK, Store
  <1>6. /\ closed \in ItemType /\ Sound(i, closed) /\ Edits(i, mem[i], closed)
        /\ closed.status = "sent" /\ closed.pos = mem[i].pos
    <2>1. closed \in ItemType /\ closed.status = "sent" /\ closed.pos = mem[i].pos
      BY <1>4, Vocabulary DEF ItemType
    <2>2. Edits(i, mem[i], closed) BY <1>3, <1>4, <2>1, StatusFacts DEF Edits
    <2>3. mem[i].claimed BY <1>3, <1>4, AbsentFacts DEF Sound, LifecycleValid
    <2>4. Sound(i, closed) BY <1>3, <1>4, <2>1, <2>3 DEF Sound, LifecycleValid, ItemType
    <2>5. QED BY <2>1, <2>2, <2>4
  <1>7. /\ fresh(p) \in ItemType /\ fresh(p).status = "queued" /\ fresh(p).pos = p
        /\ ~fresh(p).sent /\ Sound(j, fresh(p))
    BY <1>2, NewItemFacts
  <1> HIDE DEF fresh
  <1>8. /\ q \in Store /\ q[i] = closed /\ q[j] = fresh(p)
        /\ \A k \in Items \ {i, j} : q[k] = mem[k]
    BY <1>3, <1>5, <1>6, <1>7 DEF Store
  <1> HIDE DEF closed, requeued
  <1>9. \A k \in Present(mem) : /\ mem[k].pos < p /\ mem[k].pos \in Nat /\ k # j
                                /\ q[k].pos = mem[k].pos
    BY <1>1, <1>3, <1>6, <1>8, AbsentFacts, ItemOfStore, StatusFacts
    DEF NextPosition, Present, StoreInv, DeliveryInv
  <1>10. Joins(j, q[j]) BY <1>2, <1>3, <1>7, <1>8, <1>9 DEF Joins
  <1>11. Succeeds(q) BY <1>6, <1>8, <1>10 DEF Succeeds
  <1>12. Present(q) = Present(mem) \cup {j}
    BY <1>3, <1>6, <1>7, <1>8 DEF Present
  <1>13. IsFiniteSet(Present(q)) /\ Cardinality(Present(q)) <= MaxItems
    <2>1. IsFiniteSet(Present(mem)) BY DEF StoreInv, GoodStore, Limited
    <2>2. /\ IsFiniteSet(Present(mem) \cup {j}) /\ Cardinality(Present(mem)) \in Nat
          /\ Cardinality(Present(mem) \cup {j}) \in Nat
          /\ Cardinality(Present(mem) \cup {j}) <= Cardinality(Present(mem)) + 1
      BY <2>1, OneMore
    <2>3. Cardinality(Present(mem)) < MaxItems BY DEF RequeueAfterReplacement
    <2>4. QED BY <1>12, <2>2, <2>3, ConstantsAssumption
  <1>14. Places(q)
    <2> SUFFICES ASSUME NEW k \in Present(q), NEW l \in Present(q), q[k].pos = q[l].pos
                 PROVE  k = l
      BY DEF Places
    <2>1. CASE k = j \/ l = j BY <1>2, <1>7, <1>8, <1>9, <1>12, <2>1
    <2>2. CASE k # j /\ l # j
      BY <1>9, <1>12, <2>2 DEF StoreInv, GoodStore, Places
    <2>3. QED BY <2>1, <2>2
  <1>15. \A k \in Items : Sound(k, q[k]) /\ (q[k].sent => Submitted(k))
    BY <1>4, <1>6, <1>7, <1>8 DEF StoreInv, GoodStore
  <1>16. Proper(q)
    <2>1. OneEach(q) BY <1>12 DEF OneEach
    <2>2. QED BY <2>1, <1>8, <1>11, <1>13, <1>14, <1>15 DEF Proper
  <1>17. NoClaim(q) BY <1>6, <1>7, <1>8 DEF NoClaim
  <1>18. up /\ UNCHANGED up BY DEF RequeueAfterReplacement, Serving
  <1>19. QED BY <1>1, <1>13, <1>16, <1>17, <1>18, TrimmedChange

\* A request of the operator.
LEMMA OperatorChange ==
  ASSUME StoreInv, Operator
  PROVE  (\E next : Change(next) /\ NoClaim(next)) /\ RequestFrame /\ phase = "idle" /\ up
  <1>1. \E next : Change(next) /\ NoClaim(next)
    BY EditRequests, CreateChange, CreateBatchChange, RequeueChange, ClearChange
    DEF Operator
  <1>2. RequestFrame /\ phase = "idle" /\ up
    BY DEF Operator, Create, Cancel, DismissLiteral, CancelReview, WaitManual, Retarget,
      Release, ContinueMonitoring, LinkAnswer, CreateBatch, RequeueAfterReplacement,
      ClearHistory, RequestFrame, Serving
  <1>3. QED BY <1>1, <1>2

\* What capturePromptQueueCompletions makes of a candidate.
LEMMA ConcludedItem ==
  ASSUME StoreInv, NEW i \in Candidates, NEW c \in Conclusions, Concludes(i, c)
  PROVE  LET b == Concluded(mem[i], c)
         IN  /\ b = mem[i] \/ Edits(i, mem[i], b)
             /\ Sound(i, b) /\ (b.sent => Submitted(i)) /\ b.status # "dispatching"
  <1> DEFINE a == mem[i]
             b == Concluded(mem[i], c)
  <1>0. i \in Items BY DEF Candidates
  <1>1. a \in ItemType /\ Sound(i, a) /\ (a.sent => Submitted(i))
    BY <1>0, ItemOfStore DEF StoreInv, DeliveryInv, GoodStore
  <1>2. /\ a.status \in {"sent", "needs_review"} /\ ~ItemFinal(a) /\ LifecycleValid(a)
        /\ a.claimed /\ (a.status = "sent" => a.sent)
    <2>1. a.status \in {"sent", "needs_review"} /\ ~ItemFinal(a)
      BY <1>1 DEF Candidates, AwaitingCompletion, RecoverableCompletionReview,
         AcceptanceRecoveryReview, ItemFinal
    <2>2. LifecycleValid(a) BY <1>1, <2>1, AbsentFacts DEF Sound
    <2>3. QED BY <2>1, <2>2 DEF LifecycleValid
  <1>3. CASE c = "none" BY <1>1, <1>2, <1>3 DEF Concluded
  <1>4. CASE c = "accepted"
    <2>1. a.status = "needs_review" /\ Submitted(i)
      BY <1>4, ConstantsAssumption
      DEF Concludes, AcceptanceRecoveryReview, ResponseReadable
    <2>2. PICK stage \in Stages : b = [a EXCEPT !.status = "sent", !.summary = "pending",
                                            !.sent = TRUE, !.stage = stage]
      <3>1. "manual_submit_accepted" \in Stages /\ "accepted_late" \in Stages
        BY DEF Stages
      <3>2. QED BY <1>4, <3>1 DEF Concluded
    <2>3. /\ b \in ItemType /\ b.status = "sent" /\ b.summary = "pending" /\ b.sent
          /\ b.claimed = a.claimed /\ b.completed = a.completed /\ b.pos = a.pos
      BY <1>1, <2>2, Vocabulary DEF ItemType
    <2>4. Edits(i, a, b) BY <1>2, <2>1, <2>3 DEF Edits
    <2>5. Sound(i, b)
      BY <1>2, <2>1, <2>3, StatusFacts DEF Sound, LifecycleValid
    <2>6. QED BY <2>1, <2>3, <2>4, <2>5
  <1>5. CASE c \in {"footer", "explicit", "returned"}
    <2>1. Marked(i) /\ Submitted(i) /\ ~AcceptanceRecoveryReview(a)
          /\ c \in Boundaries \cup {"returned"}
      BY <1>5 DEF Concludes, ResponseReadable
    <2>2. a.sent
      BY <1>1, <1>2, <2>1, AbsentFacts
      DEF Candidates, AwaitingCompletion, RecoverableCompletionReview, Sound,
          SentReviews, CompletionReviews
    <2>3. PICK footer \in BOOLEAN, stage \in Stages, summary \in {"captured", "returned"} :
            /\ b = [a EXCEPT !.status = "sent", !.summary = summary, !.completed = TRUE,
                             !.footer = footer, !.stage = stage]
            /\ summary = "captured" => footer \/ "explicit" \in Boundaries
      <3>1. CASE c = "returned"
        <4>1. b = [a EXCEPT !.status = "sent", !.summary = "returned", !.completed = TRUE,
                            !.footer = a.footer, !.stage = "returned_to_ready"]
          BY <1>1, <3>1 DEF Concluded, ItemType
        <4>2. "returned_to_ready" \in Stages /\ a.footer \in BOOLEAN
          BY <1>1 DEF Stages, ItemType
        <4>3. QED BY <4>1, <4>2
      <3>2. CASE c \in {"footer", "explicit"}
        <4>1. CapturedStage(a, c) \in Stages
          BY <1>1 DEF CapturedStage, ItemType, Stages
        <4>2. PICK footer \in BOOLEAN : footer = (c = "footer") OBVIOUS
        <4>3. b = [a EXCEPT !.status = "sent", !.summary = "captured", !.completed = TRUE,
                            !.footer = footer, !.stage = CapturedStage(a, c)]
          BY <3>2, <4>2 DEF Concluded
        <4>4. footer \/ "explicit" \in Boundaries BY <2>1, <3>2, <4>2
        <4>5. QED BY <4>1, <4>3, <4>4
      <3>3. QED BY <1>5, <3>1, <3>2
    <2>4. /\ b.status = "sent" /\ b.summary = summary /\ b.sent = a.sent /\ b.completed
          /\ b.claimed = a.claimed /\ b.pos = a.pos /\ b.footer = footer
      BY <1>1, <2>3, Vocabulary DEF ItemType
    <2>5. Edits(i, a, b) BY <1>2, <2>4 DEF Edits
    <2>6. Sound(i, b)
      BY <1>2, <2>1, <2>2, <2>3, <2>4 DEF Sound, LifecycleValid, Marked
    <2>7. QED BY <2>1, <2>4, <2>5, <2>6
  <1>6. CASE c \notin {"none", "accepted", "footer", "explicit", "returned"}
    <2>1. a.status = "sent" BY <1>6, ConstantsAssumption DEF Concludes
    <2>2. c \in SentReviews /\ c \in Stages
      BY <1>6 DEF Conclusions, SentReviews, Stages
    <2>3. b = [a EXCEPT !.status = "needs_review", !.summary = "unavailable",
                        !.completed = FALSE, !.footer = FALSE, !.stage = c]
      BY <1>6 DEF Concluded
    <2>4. /\ b.status = "needs_review" /\ b.summary = "unavailable" /\ b.sent = a.sent
          /\ ~b.completed /\ b.claimed = a.claimed /\ b.pos = a.pos
      BY <1>1, <2>3 DEF ItemType
    <2>5. Edits(i, a, b) BY <1>2, <2>1, <2>4 DEF Edits
    <2>6. Sound(i, b)
      BY <1>2, <2>1, <2>4 DEF Sound, LifecycleValid, ItemFinal, AwaitingCompletion
    <2>7. QED BY <1>1, <2>4, <2>5, <2>6
  <1>7. QED BY <1>3, <1>4, <1>5, <1>6

\* Changing several items properly, none of them fresh.
LEMMA EditsProper ==
  ASSUME StoreInv, NEW next \in Store,
         \A k \in Items : /\ next[k] = mem[k] \/ Edits(k, mem[k], next[k])
                           \/ Reopens(mem[k], next[k])
                         /\ Sound(k, next[k]) /\ (next[k].sent => Submitted(k))
  PROVE  Proper(next) /\ Cardinality(Present(next)) <= MaxItems
  <1>1. Present(next) = Present(mem) /\ \A k \in Present(mem) : next[k].pos = mem[k].pos
    <2>1. \A k \in Items : ItemFinal(mem[k]) => mem[k].status # "absent"
      BY DEF ItemFinal
    <2>2. QED BY <2>1 DEF Present, Edits, Reopens
  <1>2. Places(next) BY <1>1 DEF Places, StoreInv, GoodStore
  <1>3. IsFiniteSet(Present(next)) /\ Cardinality(Present(next)) <= MaxItems
    BY <1>1 DEF StoreInv, GoodStore, Limited
  <1>4. Succeeds(next) BY DEF Succeeds
  <1>5. OneEach(next) BY <1>1 DEF OneEach
  <1>6. QED BY <1>2, <1>3, <1>4, <1>5 DEF Proper

\* An operation that writes keeps the invariant, if it keeps what the pass knows and
\* leaves no claim behind but one whose outcome could not be written.
LEMMA ChangeKeeps ==
  ASSUME StoreInv, DeliveryInv', NEW next, Change(next), UNCHANGED ghosts, PassInv',
         \A k \in Items : up' /\ mem'[k].status = "dispatching" =>
           \/ cur' = k \/ faults' > 0
           \/ mem[k].status = "dispatching" /\ up /\ cur # k
  PROVE  StoreInv'
  <1>1. GoodStore(mem)' /\ GoodStore(disk)' BY ChangeStores
  <1>2. FileAhead' BY ChangeFile
  <1>3. NoOrphanClaim'
    <2>1. faults' > 0 \/ faults' = faults BY DEF Change
    <2>2. QED BY <2>1 DEF NoOrphanClaim, StoreInv
  <1>4. QED BY <1>1, <1>2, <1>3 DEF StoreInv

\* A step that writes nothing keeps it, if it keeps what the pass knows.
LEMMA QuietKeeps ==
  ASSUME StoreInv, DeliveryInv', UNCHANGED <<mem, disk, faults, up>>, PassInv',
         UNCHANGED cur \/ cur = None, \A k \in Items : Submitted(k) => Submitted(k)',
         \A k \in Items : mem[k] = Absent /\ typed[k] = 0 => typed'[k] = 0
  PROVE  StoreInv'
  <1>1. GoodStore(mem)' /\ GoodStore(disk)'
    BY DEF StoreInv, GoodStore, Limited, Places, InOrder
  <1>2. FileAhead'
    BY DEF StoreInv, FileAhead, Follows, OneEach, Edits, Enters, IsHead
  <1>3. NoOrphanClaim' BY NoneAssumption DEF StoreInv, NoOrphanClaim
  <1>4. QED BY <1>1, <1>2, <1>3 DEF StoreInv

\* A request comes between passes: there is no head to keep.
LEMMA OperatorStore ==
  ASSUME StoreInv, DeliveryInv', Operator
  PROVE  StoreInv'
  <1>1. PICK next : Change(next) /\ NoClaim(next) BY OperatorChange
  <1>2. RequestFrame /\ phase = "idle" /\ up BY OperatorChange
  <1>3. cur = None /\ todo = {} BY <1>2 DEF StoreInv, PassInv, Delivering
  <1>4. UNCHANGED <<ghosts, phase, cur, todo, up>>
    BY <1>2 DEF RequestFrame, passVars
  <1>5. PassInv' BY <1>2, <1>3, <1>4, NoneAssumption DEF PassInv, Delivering
  <1>6. mem' = next \/ mem' = mem BY <1>1 DEF Change
  <1>7. \A k \in Items : mem'[k].status = "dispatching" =>
          mem[k].status = "dispatching" /\ up /\ cur # k
    BY <1>1, <1>2, <1>3, <1>6, NoneAssumption DEF NoClaim
  <1>8. QED BY <1>1, <1>4, <1>5, <1>7, ChangeKeeps

\* The pass begins: the heads it fixes are the first open items of their lines.
LEMMA StartPassStore ==
  ASSUME StoreInv, DeliveryInv', StartPass
  PROVE  StoreInv' /\ (UNCHANGED mem \/ \E next : Change(next) /\ NoClaim(next))
  <1>1. PICK concl \in [Candidates -> Conclusions] :
          /\ \A i \in Candidates : Concludes(i, concl[i])
          /\ LET next == [i \in Items |-> IF i \in Candidates
                                         THEN Concluded(mem[i], concl[i]) ELSE mem[i]]
             IN IF next = mem
                  THEN UNCHANGED store /\ phase' = "heads" /\ todo' = Heads(mem)
                  ELSE \/ Written(next) /\ phase' = "heads" /\ todo' = Heads(next)
                       \/ WriteThrows(next) /\ UNCHANGED <<phase, todo>>
    BY DEF StartPass
  <1> DEFINE next == [i \in Items |-> IF i \in Candidates
                                        THEN Concluded(mem[i], concl[i]) ELSE mem[i]]
  <1>2. /\ phase = "idle" /\ up /\ cur = None /\ todo = {}
        /\ UNCHANGED <<cur, up, ghosts>>
    BY DEF StartPass, Serving, StoreInv, PassInv, Delivering
  <1>3. \A i \in Items :
          /\ next[i] = mem[i] \/ Edits(i, mem[i], next[i])
          /\ Sound(i, next[i]) /\ (next[i].sent => Submitted(i))
          /\ next[i].status = "dispatching" => mem[i].status = "dispatching"
    <2> SUFFICES ASSUME NEW i \in Items
                 PROVE  /\ next[i] = mem[i] \/ Edits(i, mem[i], next[i])
                        /\ Sound(i, next[i]) /\ (next[i].sent => Submitted(i))
                        /\ next[i].status = "dispatching" => mem[i].status = "dispatching"
      OBVIOUS
    <2>1. CASE i \in Candidates BY <1>1, <2>1, ConcludedItem
    <2>2. CASE i \notin Candidates BY <2>2 DEF StoreInv, GoodStore
    <2>3. QED BY <2>1, <2>2
  <1>4. next \in Store
    BY ConcludedType, ItemOfStore DEF Store, StoreInv, DeliveryInv
  <1>5. Proper(next) /\ Cardinality(Present(next)) <= MaxItems /\ NoClaim(next)
    BY <1>3, <1>4, EditsProper DEF NoClaim
  <1> HIDE DEF next
  <1>6. ASSUME NEW q \in {mem, next}, mem' = q, todo' = Heads(q), phase' = "heads"
        PROVE  PassInv'
    <2>1. \A i \in todo' : IsHead(i)'
      <3> SUFFICES ASSUME NEW i \in Heads(q), NEW j \in Items, Line[j] = Line[i],
                          q[j].pos < q[i].pos, ItemOpen(q[j])
                   PROVE  FALSE
        BY <1>6 DEF IsHead
      <3>1. q[i] \in ItemType /\ q[j] \in ItemType
        BY <1>4, ItemOfStore DEF Heads, Open, Present, Store, StoreInv, DeliveryInv
      <3>2. j \in Open(q) BY <3>1, StatusFacts DEF Open, Present
      <3>3. QED BY <3>1, <3>2, StatusFacts DEF Heads
    <2>2. QED BY <1>2, <1>6, <2>1, NoneAssumption DEF PassInv, Delivering
  <1>7. CASE next = mem /\ UNCHANGED store /\ phase' = "heads" /\ todo' = Heads(mem)
    <2>1. UNCHANGED <<mem, disk, faults>> BY <1>7 DEF store
    <2>2. PassInv' BY <1>6, <1>7, <2>1
    <2>3. \A k \in Items : Submitted(k) => Submitted(k)' BY <1>2 DEF Submitted, ghosts
    <2>4. typed' = typed BY <1>2 DEF ghosts
    <2>5. QED BY <1>2, <2>1, <2>2, <2>3, <2>4, QuietKeeps
  <1>8. CASE \/ Written(next) /\ phase' = "heads" /\ todo' = Heads(next)
             \/ WriteThrows(next) /\ UNCHANGED <<phase, todo>>
    <2>1. Change(next) BY <1>2, <1>5, <1>8, PersistChange DEF Persist
    <2>2. PassInv'
      <3>1. CASE Written(next) /\ phase' = "heads" /\ todo' = Heads(next)
        BY <1>6, <3>1 DEF Written
      <3>2. CASE UNCHANGED <<phase, todo>>
        BY <1>2, <3>2, NoneAssumption DEF PassInv, Delivering
      <3>3. QED BY <1>8, <3>1, <3>2
    <2>3. mem' = next \/ mem' = mem BY <2>1 DEF Change
    <2>4. \A k \in Items : mem'[k].status = "dispatching" =>
            mem[k].status = "dispatching" /\ up /\ cur # k
      BY <1>2, <1>5, <2>3, NoneAssumption DEF NoClaim
    <2>5. QED BY <1>2, <1>5, <2>1, <2>2, <2>4, ChangeKeeps
  <1>9. QED BY <1>1, <1>7, <1>8 DEF next

\* The heads survive a write within the pass.
LEMMA HeadsStay ==
  ASSUME StoreInv, NEW next, Change(next), UNCHANGED <<used, up>>, up
  PROVE  \A i \in Items : IsHead(i) => IsHead(i)'
  <1>1. CASE mem' = next BY <1>1, ProperHeads DEF Change
  <1>2. CASE mem' = mem BY <1>2 DEF IsHead
  <1>3. QED BY <1>1, <1>2 DEF Change

\* A text that no longer fits is canceled.
LEMMA RejectLongStore ==
  ASSUME StoreInv, DeliveryInv', NEW i \in Items, RejectLong(i)
  PROVE  StoreInv' /\ \E next : Change(next) /\ NoClaim(next)
  <1> DEFINE item == [mem[i] EXCEPT !.status = "canceled", !.summary = "unavailable",
                                    !.stage = "dispatch_envelope_too_long"]
             q == With(mem, i, item)
  <1>1. PICK next \in Trimmed(q) :
          \/ Written(next) /\ todo' = todo \ {i} /\ UNCHANGED phase
          \/ WriteThrows(next) /\ todo' = {} /\ phase' = "idle"
    BY DEF RejectLong
  <1>2. mem[i] \in ItemType /\ Sound(i, mem[i]) /\ (mem[i].sent => Submitted(i))
    BY ItemOfStore DEF StoreInv, DeliveryInv, GoodStore
  <1>3. /\ item \in ItemType /\ item.status = "canceled" /\ item.sent = mem[i].sent
        /\ item.summary = "unavailable" /\ item.claimed = mem[i].claimed
        /\ item.completed = mem[i].completed /\ item.pos = mem[i].pos
    BY <1>2, Vocabulary DEF ItemType
  <1>4. mem[i].status = "queued" BY DEF RejectLong
  <1>5. Edits(i, mem[i], item) BY <1>2, <1>3, <1>4, StatusFacts DEF Edits
  <1>6. Sound(i, item)
    BY <1>2, <1>3, <1>4, AbsentFacts DEF Sound, LifecycleValid
  <1>7. Proper(q) /\ Present(q) = Present(mem) BY <1>2, <1>3, <1>5, <1>6, EditProper
  <1>8. NoClaim(q)
    BY <1>3 DEF NoClaim, With, StoreInv, DeliveryInv, TypeOK
  <1>9. /\ phase = "heads" /\ up /\ cur = None /\ UNCHANGED <<cur, up, used, ghosts>>
    BY DEF RejectLong, StoreInv, PassInv, Delivering
  <1>10. Change(next) /\ NoClaim(next)
    <2>1. /\ Proper(next) /\ IsFiniteSet(Present(q)) /\ IsFiniteSet(Present(next))
          /\ Cardinality(Present(next)) <= Cardinality(Present(q))
          /\ Cardinality(Present(q)) <= MaxItems
      BY <1>1, <1>7, TrimProper DEF Proper, StoreInv, GoodStore, Limited
    <2>2. Cardinality(Present(next)) <= MaxItems
      BY <2>1, FS_CardinalityType, ConstantsAssumption
    <2>3. NoClaim(next) BY <1>1, <1>8, AbsentFacts DEF NoClaim, Trimmed
    <2>4. Persist(next) BY <1>1 DEF Persist
    <2>5. QED BY <1>9, <2>1, <2>2, <2>3, <2>4, PersistChange
  <1>11. PassInv'
    <2>1. \A k \in todo' : IsHead(k)'
      <3>1. todo' \subseteq todo /\ todo \subseteq Items
        BY <1>1 DEF StoreInv, DeliveryInv, TypeOK
      <3>2. QED BY <1>9, <1>10, <3>1, HeadsStay DEF StoreInv, PassInv
    <2>2. QED BY <1>1, <1>9, <2>1, NoneAssumption DEF PassInv, Delivering
  <1>12. \A k \in Items : mem'[k].status = "dispatching" =>
           mem[k].status = "dispatching" /\ up /\ cur # k
    BY <1>9, <1>10, NoneAssumption DEF NoClaim, Change
  <1>13. QED BY <1>9, <1>10, <1>11, <1>12, ChangeKeeps

\* The claim takes a head, and what is claimed is in delivery.
LEMMA ClaimStore ==
  ASSUME StoreInv, DeliveryInv', NEW i \in Items, Claim(i)
  PROVE  StoreInv' /\ \E next : Change(next)
  <1> DEFINE item == [mem[i] EXCEPT !.status = "dispatching", !.claimed = TRUE,
                                    !.stage = "dispatching"]
             next == With(mem, i, item)
  <1>1. \/ Written(next) /\ phase' = "preflight" /\ cur' = i /\ todo' = todo \ {i}
        \/ WriteThrows(next) /\ cur' = cur /\ phase' = "idle" /\ todo' = {}
    BY DEF Claim
  <1>2. mem[i] \in ItemType /\ Sound(i, mem[i]) /\ (mem[i].sent => Submitted(i))
    BY ItemOfStore DEF StoreInv, DeliveryInv, GoodStore
  <1>3. /\ item \in ItemType /\ item.status = "dispatching" /\ item.sent = mem[i].sent
        /\ item.summary = mem[i].summary /\ item.claimed
        /\ item.completed = mem[i].completed /\ item.pos = mem[i].pos
    BY <1>2, Vocabulary DEF ItemType
  <1>4. /\ phase = "heads" /\ up /\ cur = None /\ UNCHANGED <<up, used, ghosts>>
        /\ mem[i].status = "queued" /\ IsHead(i) /\ i \in todo
    BY DEF Claim, Next1, StoreInv, PassInv, Delivering
  <1>5. Edits(i, mem[i], item) BY <1>2, <1>3, <1>4, StatusFacts DEF Edits
  <1>6. Sound(i, item)
    BY <1>2, <1>3, <1>4, AbsentFacts, StatusFacts DEF Sound, LifecycleValid
  <1>7. Proper(next) /\ Present(next) = Present(mem) BY <1>2, <1>3, <1>5, <1>6, EditProper
  <1>8. next[i].status = "dispatching" /\ \A k \in Items \ {i} : next[k] = mem[k]
    BY <1>3 DEF With, StoreInv, DeliveryInv, TypeOK
  <1> HIDE DEF next
  <1>9. Change(next)
    <2>1. Cardinality(Present(next)) <= MaxItems BY <1>7 DEF StoreInv, GoodStore, Limited
    <2>2. QED BY <1>1, <1>4, <1>7, <2>1, PersistChange DEF Persist
  <1>10. PassInv'
    <2>1. \A k \in todo' \cup {i} : IsHead(k)'
      <3>1. todo' \subseteq todo /\ todo \subseteq Items
        BY <1>1 DEF StoreInv, DeliveryInv, TypeOK
      <3>2. QED BY <1>4, <1>9, <3>1, HeadsStay DEF StoreInv, PassInv
    <2>2. phase' = "preflight" => mem'[i].status = "dispatching"
      BY <1>1, <1>8 DEF Written, WriteThrows
    <2>3. QED BY <1>1, <1>4, <2>1, <2>2, NoneAssumption DEF PassInv, Delivering
  <1>11. \A k \in Items : mem'[k].status = "dispatching" =>
           \/ cur' = k \/ faults' > 0
           \/ mem[k].status = "dispatching" /\ up /\ cur # k
    <2>1. CASE WriteThrows(next)
      BY <2>1, <1>4, NoneAssumption DEF WriteThrows
    <2>2. CASE Written(next) /\ cur' = i
      BY <2>2, <1>4, <1>8, NoneAssumption DEF Written
    <2>3. QED BY <1>1, <2>1, <2>2
  <1>12. QED BY <1>4, <1>9, <1>10, <1>11, ChangeKeeps

\* The outcome of a delivery: what is recorded as sent was submitted. If the outcome
\* cannot be written, the claim stays behind.
LEMMA RecordStore ==
  ASSUME StoreInv, DeliveryInv', Record
  PROVE  StoreInv' /\ \E next : Change(next) /\ NoClaim(next)
  <1> DEFINE item == Delivered(cur, mem[cur], out)
             q == With(mem, cur, item)
  <1>1. PICK next \in Trimmed(q) :
          \/ Written(next) /\ phase' = "heads" /\ UNCHANGED todo
          \/ WriteThrows(next) /\ phase' = "idle" /\ todo' = {}
    BY DEF Record
  <1>2. /\ cur \in Items /\ phase = "record" /\ up /\ mem[cur].status = "dispatching"
        /\ cur' = None /\ UNCHANGED <<up, used, ghosts>>
    BY DEF Record, StoreInv, DeliveryInv, ClaimHeld, Delivering
  <1>3. /\ mem[cur] \in ItemType /\ Sound(cur, mem[cur])
        /\ (mem[cur].sent => Submitted(cur))
        /\ out \in DeliveryFailures \cup {"submitted", "accepted"}
        /\ out \in {"submitted", "accepted"} => Submitted(cur)
    BY <1>2, ItemOfStore DEF StoreInv, DeliveryInv, GoodStore, PassInv
  <1>4. mem[cur].claimed /\ ~mem[cur].sent /\ ~mem[cur].completed
    BY <1>2, <1>3, AbsentFacts DEF Sound, LifecycleValid
  <1>5. /\ item \in ItemType /\ Edits(cur, mem[cur], item) /\ Sound(cur, item)
        /\ item.sent => Submitted(cur)
        /\ item.status # "dispatching"
    <2>1. CASE out \in {"submitted", "accepted"}
      <3>1. PICK stage \in Stages, summary \in {"pending", "command_submitted"} :
              /\ item = [mem[cur] EXCEPT !.status = "sent", !.sent = TRUE,
                                         !.summary = summary, !.stage = stage]
              /\ Kind[cur] = "goal" => summary = "pending"
        <4>1. {"goal_command_submitted", "slash_command_submitted", "accepted"}
                \subseteq Stages
          BY DEF Stages
        <4>2. QED BY <2>1, <4>1 DEF Delivered
      <3>2. /\ item \in ItemType /\ item.status = "sent" /\ item.sent
            /\ item.summary = summary /\ item.claimed /\ ~item.completed
            /\ item.pos = mem[cur].pos
        BY <1>3, <1>4, <3>1 DEF ItemType, Statuses, Summaries
      <3>3. Edits(cur, mem[cur], item) BY <1>2, <1>3, <3>2, StatusFacts DEF Edits
      <3>4. Sound(cur, item)
        BY <3>1, <3>2, StatusFacts DEF Sound, LifecycleValid
      <3>5. QED BY <1>3, <2>1, <3>2, <3>3, <3>4
    <2>2. CASE out \notin {"submitted", "accepted"}
      <3>1. item = [mem[cur] EXCEPT !.status = "needs_review",
                                    !.summary = "unavailable", !.stage = out]
        BY <2>2 DEF Delivered
      <3>2. out \in DeliveryFailures /\ out \in Stages BY <1>3, <2>2 DEF Stages
      <3>3. /\ item \in ItemType /\ item.status = "needs_review" /\ ~item.sent
            /\ item.summary = "unavailable" /\ item.claimed /\ ~item.completed
            /\ item.pos = mem[cur].pos /\ item.stage = out
        BY <1>3, <1>4, <3>1, <3>2 DEF ItemType, Statuses, Summaries
      <3>4. Edits(cur, mem[cur], item) BY <1>2, <1>3, <3>3, StatusFacts DEF Edits
      <3>5. out \notin SentReviews
        BY <3>2 DEF DeliveryFailures, SentReviews, CompletionReviews
      <3>6. Sound(cur, item)
        BY <3>3, <3>5, StatusFacts DEF Sound, LifecycleValid
      <3>7. QED BY <3>3, <3>4, <3>6
    <2>3. QED BY <2>1, <2>2
  <1> HIDE DEF item
  <1>6. Proper(q) /\ Present(q) = Present(mem) BY <1>2, <1>5, EditProper
  <1>7. NoClaim(q) /\ q[cur].status # "dispatching"
    BY <1>2, <1>5 DEF NoClaim, With, StoreInv, DeliveryInv, TypeOK
  <1>8. Change(next) /\ NoClaim(next) /\ next[cur].status # "dispatching"
    <2>1. /\ Proper(next) /\ IsFiniteSet(Present(q)) /\ IsFiniteSet(Present(next))
          /\ Cardinality(Present(next)) <= Cardinality(Present(q))
          /\ Cardinality(Present(q)) <= MaxItems
      BY <1>1, <1>6, TrimProper DEF Proper, StoreInv, GoodStore, Limited
    <2>2. Cardinality(Present(next)) <= MaxItems
      BY <2>1, FS_CardinalityType, ConstantsAssumption
    <2>3. NoClaim(next) /\ next[cur].status # "dispatching"
      BY <1>1, <1>2, <1>7, AbsentFacts DEF NoClaim, Trimmed
    <2>4. Persist(next) BY <1>1 DEF Persist
    <2>5. QED BY <1>2, <2>1, <2>2, <2>3, <2>4, PersistChange
  <1>9. PassInv'
    <2>1. \A k \in todo' : IsHead(k)'
      <3>1. todo' \subseteq todo /\ todo \subseteq Items
        BY <1>1 DEF StoreInv, DeliveryInv, TypeOK
      <3>2. QED BY <1>2, <1>8, <3>1, HeadsStay DEF StoreInv, PassInv
    <2>2. QED BY <1>1, <1>2, <2>1, NoneAssumption DEF PassInv, Delivering
  <1>10. \A k \in Items : mem'[k].status = "dispatching" =>
           faults' > 0 \/ (mem[k].status = "dispatching" /\ up /\ cur # k)
    BY <1>2, <1>8 DEF NoClaim, Change
  <1>11. QED BY <1>2, <1>8, <1>9, <1>10, ChangeKeeps

\* The steps at the terminal: what counts as submitted was typed and entered.
LEMMA TypingStore ==
  ASSUME StoreInv, DeliveryInv', Preflight \/ Type \/ Submit \/ Confirm
  PROVE  StoreInv' /\ UNCHANGED mem
  <1> USE DEF store, ghosts
  <1>1. /\ UNCHANGED <<mem, disk, faults, up, cur, todo, manual>> /\ up /\ cur \in Items
        /\ phase \in Delivering
    BY DEF Preflight, Type, Submit, Confirm, StoreInv, DeliveryInv, ClaimHeld, Delivering
  <1>2. /\ typed \in [Items -> Nat] /\ entered \in [Items -> Nat]
        /\ phase = "submit" => typed[cur] = 1
        /\ phase = "confirm" => Submitted(cur)
        /\ \A i \in todo \cup {cur} : IsHead(i)
        /\ mem[cur].status = "dispatching"
    BY <1>1 DEF StoreInv, DeliveryInv, TypeOK, ClaimHeld, PassInv
  <1>3. \A k \in Items : typed'[k] >= typed[k] /\ entered'[k] >= entered[k]
    <2>1. CASE UNCHANGED <<typed, entered>> BY <1>2, <2>1
    <2>2. CASE typed' = [typed EXCEPT ![cur] = @ + 1] /\ UNCHANGED entered
      BY <1>1, <1>2, <2>2
    <2>3. CASE entered' = [entered EXCEPT ![cur] = @ + 1] /\ UNCHANGED typed
      BY <1>1, <1>2, <2>3
    <2>4. QED BY <2>1, <2>2, <2>3 DEF Preflight, Type, Submit, Confirm
  <1>4. \A k \in Items : Submitted(k) => Submitted(k)'
    <2>1. \A k \in Items : typed'[k] \in Nat /\ entered'[k] \in Nat
      BY DEF DeliveryInv, TypeOK
    <2>2. QED BY <1>1, <1>2, <1>3, <2>1 DEF Submitted
  <1>5. /\ phase' \in {"type", "submit", "confirm", "record"}
        /\ phase' = "confirm" => Submitted(cur)'
        /\ phase' = "record" => \/ out' \in DeliveryFailures
                                \/ out' \in {"submitted", "accepted"} /\ Submitted(cur)'
    <2>1. CASE Preflight BY <2>1 DEF Preflight, DeliveryFailures
    <2>2. CASE Type BY <2>2 DEF Type, DeliveryFailures
    <2>3. CASE Submit
      <3>1. CASE entered' = [entered EXCEPT ![cur] = @ + 1]
        <4>1. Submitted(cur)' BY <1>1, <1>2, <2>3, <3>1 DEF Submit, Submitted
        <4>2. \/ phase' = "confirm"
              \/ phase' = "record" /\ out' \in {"submit", "submitted"}
          <5>1. entered[cur] \in Nat /\ entered'[cur] = entered[cur] + 1
            BY <1>1, <1>2, <3>1
          <5>2. entered' # entered BY <5>1
          <5>3. QED BY <2>3, <5>2 DEF Submit
        <4>3. QED BY <4>1, <4>2 DEF DeliveryFailures
      <3>2. CASE UNCHANGED entered
        BY <2>3, <3>2, <1>1, <1>2 DEF Submit, DeliveryFailures
      <3>3. QED BY <2>3, <3>1, <3>2 DEF Submit
    <2>4. CASE Confirm
      BY <1>1, <1>2, <1>4, <2>4 DEF Confirm, DeliveryFailures
    <2>5. QED BY <2>1, <2>2, <2>3, <2>4
  <1>6. PassInv'
    <2>1. /\ \A i \in todo' \cup {cur'} : IsHead(i)'
          /\ mem'[cur'].status = "dispatching"
      BY <1>1, <1>2 DEF IsHead
    <2>2. out' \in {"submitted", "accepted"} => out' \notin DeliveryFailures
      BY DEF DeliveryFailures
    <2>3. QED BY <1>1, <1>5, <2>1, <2>2 DEF PassInv, Delivering
  <1>7. \A k \in Items : mem[k] = Absent => typed'[k] = typed[k]
    BY <1>1, <1>2, AbsentFacts DEF Preflight, Type, Submit, Confirm
  <1>8. QED BY <1>1, <1>4, <1>6, <1>7, QuietKeeps

\* Sampling, passing over and ending a pass write nothing.
LEMMA PassStore ==
  ASSUME StoreInv, DeliveryInv', Sample \/ FinishPass \/ \E i \in Items : PassOver(i)
  PROVE  StoreInv' /\ UNCHANGED mem
  <1> USE DEF store, passVars, ghosts
  <1>1. /\ UNCHANGED <<mem, disk, faults, up, cur, typed, entered, manual>>
        /\ up /\ todo' \subseteq todo
        /\ \/ phase' = phase /\ phase \in {"idle", "heads"}
           \/ phase' = "idle" /\ todo = {} /\ phase = "heads"
    BY DEF Sample, FinishPass, PassOver, Serving
  <1>2. \A k \in Items : Submitted(k) => Submitted(k)' BY <1>1 DEF Submitted
  <1>3. PassInv'
    BY <1>1, NoneAssumption DEF PassInv, Delivering, StoreInv, IsHead
  <1>4. QED BY <1>1, <1>2, <1>3, QuietKeeps

\* Terminals and clock change neither the store nor the pass.
LEMMA TerminalStore ==
  ASSUME StoreInv, DeliveryInv',
         \/ \E s \in Sessions : PaneStops(s) \/ PaneResumes(s) \/ PaneReplaced(s)
         \/ \E i \in Items : OperatorEnter(i) \/ Age(i)
  PROVE  StoreInv' /\ UNCHANGED mem
  <1> USE DEF store, passVars, ghosts
  <1>1. /\ UNCHANGED <<mem, disk, faults, up, cur, phase, todo, out, typed, entered>>
        /\ manual \subseteq manual'
    BY DEF PaneStops, PaneResumes, PaneReplaced, OperatorEnter, Age
  <1>2. \A k \in Items : Submitted(k) => Submitted(k)' BY <1>1 DEF Submitted
  <1>3. PassInv'
    BY <1>1, <1>2 DEF PassInv, StoreInv, IsHead, DeliveryInv, ClaimHeld, Delivering
  <1>4. QED BY <1>1, <1>2, <1>3, QuietKeeps

\* A crash leaves what the file says.
LEMMA CrashStore ==
  ASSUME StoreInv, DeliveryInv', Crash
  PROVE  StoreInv' /\ mem' = disk /\ ~up'
  <1>1. /\ mem' = disk /\ disk' = disk /\ ~up' /\ UNCHANGED ghosts
        /\ phase' = "idle" /\ todo' = {} /\ cur' = None
    BY DEF Crash
  <1>2. GoodStore(mem)' /\ GoodStore(disk)'
    BY <1>1 DEF StoreInv, GoodStore, Limited, Places, InOrder, Submitted, ghosts
  <1>3. FileAhead' BY <1>1 DEF FileAhead, Follows, OneEach
  <1>4. PassInv' /\ NoOrphanClaim'
    BY <1>1, NoneAssumption DEF PassInv, Delivering, NoOrphanClaim
  <1>5. QED BY <1>1, <1>2, <1>3, <1>4 DEF StoreInv

\* What the reconciliation makes of one item: a review, or nothing.
LEMMA ReconciledItem ==
  ASSUME StoreInv, ~up, NEW i \in Items
  PROVE  LET b == Reconciled(mem[i])
         IN  /\ b \in ItemType
             /\ b = mem[i] \/ Edits(i, mem[i], b) \/ Reopens(mem[i], b)
             /\ Sound(i, b) /\ (b.sent => Submitted(i)) /\ b.status # "dispatching"
  <1> DEFINE a == mem[i]
             b == Reconciled(a)
  <1>1. a \in ItemType /\ Sound(i, a) /\ (a.sent => Submitted(i))
    BY ItemOfStore DEF StoreInv, DeliveryInv, GoodStore
  <1>2. CASE a.status = "dispatching"
    <2>1. a.claimed /\ ~a.sent /\ ~a.completed
      BY <1>1, <1>2, AbsentFacts DEF Sound, LifecycleValid
    <2>2. b = [a EXCEPT !.status = "needs_review", !.summary = "unavailable",
                        !.stage = "restart_reconciliation"]
      BY <1>2 DEF Reconciled
    <2>3. /\ b \in ItemType /\ b.status = "needs_review" /\ ~b.sent /\ b.claimed
          /\ ~b.completed /\ b.summary = "unavailable" /\ b.pos = a.pos
          /\ b.stage = "restart_reconciliation"
      BY <1>1, <2>1, <2>2, ReconciledType DEF ItemType
    <2>4. Edits(i, a, b) BY <1>1, <1>2, <2>3, StatusFacts DEF Edits
    <2>5. Sound(i, b)
      BY <2>3, StatusFacts DEF Sound, LifecycleValid, SentReviews, CompletionReviews
    <2>6. QED BY <2>3, <2>4, <2>5
  <1>3. CASE a.status = "sent" /\ a.summary = "captured" /\ ~a.footer
    <2>1. /\ a.claimed /\ a.sent /\ "explicit" \in Boundaries /\ ItemFinal(a)
      BY <1>1, <1>3, AbsentFacts, StatusFacts DEF Sound, LifecycleValid
    <2>2. b = [a EXCEPT !.status = "needs_review", !.summary = "unavailable",
                        !.completed = FALSE, !.stage = "final_boundary_missing"]
      BY <1>3 DEF Reconciled
    <2>3. /\ b \in ItemType /\ b.status = "needs_review" /\ b.sent /\ b.claimed
          /\ ~b.completed /\ b.summary = "unavailable" /\ b.pos = a.pos
      BY <1>1, <2>1, <2>2, ReconciledType DEF ItemType
    <2>4. Reopens(a, b) BY <2>1, <2>3 DEF Reopens
    <2>5. Sound(i, b) BY <2>3, StatusFacts DEF Sound, LifecycleValid
    <2>6. QED BY <1>1, <2>1, <2>3, <2>4, <2>5
  <1>4. CASE a.status # "dispatching"
             /\ ~(a.status = "sent" /\ a.summary = "captured" /\ ~a.footer)
    <2>1. b = a BY <1>4 DEF Reconciled
    <2>2. QED BY <1>1, <1>4, <2>1
  <1>5. QED BY <1>2, <1>3, <1>4

\* The restart writes the reconciled store (reconcilePromptQueueOnStartup).
LEMMA RestartStore ==
  ASSUME StoreInv, DeliveryInv', Restart
  PROVE  StoreInv' /\ \E next : Change(next)
  <1> DEFINE next == [i \in Items |-> Reconciled(mem[i])]
  <1>1. /\ ~up /\ up' /\ mem = disk /\ UNCHANGED <<phase, todo, cur, out, ghosts>>
        /\ phase = "idle"
    BY DEF Restart, StoreInv, FileAhead, PassInv, passVars
  <1>2. mem' = next /\ disk' = next /\ UNCHANGED faults
    BY <1>1 DEF Restart, Written
  <1>3. \A k \in Items :
          /\ next[k] \in ItemType
          /\ next[k] = mem[k] \/ Edits(k, mem[k], next[k]) \/ Reopens(mem[k], next[k])
          /\ Sound(k, next[k]) /\ (next[k].sent => Submitted(k))
          /\ next[k].status # "dispatching"
    BY <1>1, ReconciledItem
  <1>4. next \in Store BY <1>3 DEF Store
  <1> HIDE DEF next
  <1>5. Change(next) BY <1>2, <1>3, <1>4, EditsProper DEF Change
  <1>6. PassInv' BY <1>1, NoneAssumption DEF PassInv, StoreInv, Delivering
  <1>7. QED BY <1>1, <1>2, <1>3, <1>5, <1>6, ChangeKeeps

--------------------------------------------------------------------------------
(* The theorems.                                                                 *)

\* The memory changes by a write of an operation, or to what the file says.
Advances == UNCHANGED mem \/ (\E next : Change(next)) \/ (mem' = disk /\ ~up')

\* The invariant holds when the server first starts.
LEMMA InitStore == Init => StoreInv
  <1> SUFFICES ASSUME Init PROVE StoreInv OBVIOUS
  <1>1. DeliveryInv BY InitDelivery
  <1>2. /\ mem = [i \in Items |-> Absent] /\ disk = mem /\ up /\ phase = "idle"
        /\ todo = {} /\ cur = None
    BY DEF Init
  <1>3. Present(mem) = {} BY <1>2, AbsentFacts DEF Present
  <1>4. GoodStore(mem)
    <2>1. Limited(mem)
      <3>1. IsFiniteSet({}) /\ Cardinality({}) = 0 BY FS_EmptySet
      <3>2. QED BY <1>3, <3>1, ConstantsAssumption DEF Limited
    <2>2. Places(mem) BY <1>3 DEF Places
    <2>3. InOrder(mem) BY <1>2, AbsentFacts DEF InOrder
    <2>4. \A i \in Items : Sound(i, mem[i]) /\ ~mem[i].sent
      BY <1>2, AbsentFacts DEF Sound
    <2>5. QED BY <2>1, <2>2, <2>3, <2>4 DEF GoodStore
  <1>5. FileAhead BY <1>2, AbsentFacts DEF FileAhead, Follows, OneEach
  <1>6. PassInv /\ NoOrphanClaim
    BY <1>2, AbsentFacts, NoneAssumption DEF PassInv, Delivering, NoOrphanClaim
  <1>7. QED BY <1>1, <1>2, <1>4, <1>5, <1>6 DEF StoreInv

\* Every step keeps the invariant, and advances the memory as it may.
LEMMA NextStore == StoreInv /\ [Next]_vars => StoreInv' /\ Advances
  <1> SUFFICES ASSUME StoreInv, [Next]_vars PROVE StoreInv' /\ Advances OBVIOUS
  <1>1. DeliveryInv' BY NextDelivery DEF StoreInv
  <1>2. CASE Operator
    BY <1>1, <1>2, OperatorStore, OperatorChange DEF Advances
  <1>3. CASE Dispatcher
    <2>1. CASE StartPass BY <1>1, <2>1, StartPassStore DEF Advances
    <2>2. CASE Sample \/ FinishPass \/ \E i \in Items : PassOver(i)
      BY <1>1, <2>2, PassStore DEF Advances
    <2>3. CASE Preflight \/ Type \/ Submit \/ Confirm
      BY <1>1, <2>3, TypingStore DEF Advances
    <2>4. CASE Record BY <1>1, <2>4, RecordStore DEF Advances
    <2>5. ASSUME NEW i \in Items, RejectLong(i) \/ Claim(i) PROVE StoreInv' /\ Advances
      BY <1>1, <2>5, RejectLongStore, ClaimStore DEF Advances
    <2>6. QED BY <1>3, <2>1, <2>2, <2>3, <2>4, <2>5 DEF Dispatcher, Delivery
  <1>4. CASE Environment
    <2>1. CASE Crash BY <1>1, <2>1, CrashStore DEF Advances
    <2>2. CASE Restart BY <1>1, <2>2, RestartStore DEF Advances
    <2>3. CASE \/ \E s \in Sessions : PaneStops(s) \/ PaneResumes(s) \/ PaneReplaced(s)
               \/ \E i \in Items : OperatorEnter(i) \/ Age(i)
      BY <1>1, <2>3, TerminalStore DEF Advances
    <2>4. QED BY <1>4, <2>1, <2>2, <2>3 DEF Environment
  <1>5. CASE UNCHANGED vars
    <2>1. /\ UNCHANGED <<mem, disk, faults, up, cur, phase, todo, out>>
          /\ UNCHANGED <<typed, entered, manual>>
      BY <1>5 DEF vars
    <2>2. \A k \in Items : Submitted(k) <=> Submitted(k)' BY <2>1 DEF Submitted
    <2>3. PassInv'
      BY <2>1, <2>2 DEF PassInv, StoreInv, IsHead, DeliveryInv, ClaimHeld, Delivering
    <2>4. QED BY <1>1, <2>1, <2>2, <2>3, QuietKeeps DEF Advances
  <1>6. QED BY <1>2, <1>3, <1>4, <1>5 DEF Next

\* Memory and file are stores the server can start from, and a head is a head, in
\* every state.
THEOREM StoreInvariant == Spec => []StoreInv
  BY InitStore, NextStore, PTL DEF Spec

\* The server can start from its own file, "sent" tells the truth, and "dispatching"
\* is only the item in delivery (validatePromptQueueStore, processPromptQueue).
THEOREM QueueIsSafe == Spec => []QueueSafe
  <1>1. StoreInv => QueueSafe
    <2> SUFFICES ASSUME StoreInv PROVE QueueSafe OBVIOUS
    <2>1. ASSUME NEW q, GoodStore(q) PROVE Valid(q)
      <3>1. \A i \in Present(q) : LifecycleValid(q[i])
        BY <2>1, SoundPresent DEF GoodStore, Present
      <3>2. QED BY <2>1, <3>1 DEF Valid, GoodStore, Places, Limited
    <2>2. StoreValid BY <2>1 DEF StoreInv, StoreValid
    <2>3. SentWasSubmitted BY DEF StoreInv, GoodStore, SentWasSubmitted
    <2>4. NoOrphanClaim BY DEF StoreInv
    <2>5. QED BY <2>2, <2>3, <2>4 DEF QueueSafe
  <1>2. QED BY <1>1, StoreInvariant, PTL

\* A goal is over only when the operator released or canceled it: nothing the server
\* reads from a terminal ends it, whatever boundaries Codex prints.
THEOREM GoalsEndByOperator == Spec => []GoalEndsByOperator
  <1>1. StoreInv => GoalEndsByOperator
    BY AbsentFacts DEF StoreInv, GoodStore, Sound, GoalEndsByOperator, Present
  <1>2. QED BY <1>1, StoreInvariant, PTL

\* A line serves its items in order, one in flight, as long as Codex closes responses
\* with its "Worked for" line: a capture at an explicit boundary is reopened by the
\* next restart, behind an item that may be in flight by then.
THEOREM LinesAreSafe ==
  ASSUME "explicit" \notin Boundaries
  PROVE  Spec => []LineSafe
  <1>1. StoreInv => LineOrder
    <2> SUFFICES ASSUME StoreInv, NEW i \in Present(mem), NEW j \in Present(mem),
                        Line[i] = Line[j], mem[j].pos < mem[i].pos,
                        InFlight(mem[i]) \/ cur = i
                 PROVE  ~ItemOpen(mem[j])
      BY DEF LineOrder
    <2>1. i \in Items /\ j \in Items BY DEF Present
    <2>2. CASE InFlight(mem[i]) BY <2>1, <2>2 DEF StoreInv, GoodStore, InOrder
    <2>3. CASE cur = i BY <2>1, <2>3 DEF StoreInv, PassInv, IsHead
    <2>4. QED BY <2>2, <2>3
  <1>2. LineOrder /\ GoalEndsByOperator => LineSafe BY DEF LineSafe
  <1>3. QED BY <1>1, <1>2, StoreInvariant, GoalsEndByOperator, PTL

\* What is finished stays finished until a crash, and what is under review is never
\* queued again, even by a restart.
THEOREM HistoryIsKept == Spec => HistoryStays
  <1>1. StoreInv /\ [Next]_vars =>
          /\ \A i \in Items : (up /\ i \in Finals(mem)) =>
               ~up' \/ i \in Finals(mem') \/ mem'[i] = Absent
          /\ \A i \in Items : mem[i].status = "needs_review" =>
               mem'[i].status \notin {"queued", "dispatching"}
    <2> SUFFICES ASSUME StoreInv, [Next]_vars, NEW i \in Items
                 PROVE  /\ (up /\ i \in Finals(mem)) =>
                             ~up' \/ i \in Finals(mem') \/ mem'[i] = Absent
                        /\ mem[i].status = "needs_review" =>
                             mem'[i].status \notin {"queued", "dispatching"}
      OBVIOUS
    <2>1. CASE mem' = mem BY <2>1
    <2>2. CASE mem' = disk /\ ~up' BY <2>2 DEF StoreInv, FileAhead
    <2>3. ASSUME NEW next, Change(next), mem' = next
          PROVE  /\ (up /\ i \in Finals(mem)) =>
                      i \in Finals(mem') \/ mem'[i] = Absent
                 /\ mem[i].status = "needs_review" =>
                      mem'[i].status \notin {"queued", "dispatching"}
      <3>1. \/ next[i] \in {mem[i], Absent} \/ Edits(i, mem[i], next[i])
            \/ Joins(i, next[i]) \/ Reopens(mem[i], next[i])
        BY <2>3 DEF Change, Proper, Succeeds
      <3>2. up /\ i \in Finals(mem) => next[i] \in {mem[i], Absent}
        BY <3>1, AbsentFacts DEF Finals, Edits, Joins, Reopens
      <3>3. i \in Finals(mem) /\ next[i] = mem[i] => i \in Finals(next)
        BY DEF Finals, Present
      <3>4. mem[i].status = "needs_review" =>
              next[i].status \notin {"queued", "dispatching"}
        BY <3>1, AbsentFacts DEF Edits, Joins, Reopens
      <3>5. QED BY <2>3, <3>2, <3>3, <3>4
    <2>4. QED BY NextStore, <2>1, <2>2, <2>3 DEF Advances, Change
  <1>2. QED
    BY <1>1, StoreInvariant, PTL DEF Spec, HistoryStays, FinalStays, ReviewNeverRequeued

\* A capture at a "Worked for" line is never taken back, over restarts and failed
\* writes.
THEOREM CapturesStay ==
  ASSUME "explicit" \notin Boundaries
  PROVE  Spec => CaptureStays
  <1>1. StoreInv /\ [Next]_vars =>
          \A i \in Items : mem[i].summary = "captured" =>
            mem'[i].summary = "captured" \/ mem'[i] = Absent
    <2> SUFFICES ASSUME StoreInv, [Next]_vars, NEW i \in Items,
                        mem[i].summary = "captured"
                 PROVE  mem'[i].summary = "captured" \/ mem'[i] = Absent
      OBVIOUS
    <2>1. mem[i] # Absent /\ ItemFinal(mem[i])
      <3>1. mem[i] # Absent
        <4>1. Absent.summary = "unavailable" BY DEF Absent
        <4>2. QED BY <4>1
      <3>2. LifecycleValid(mem[i]) BY <3>1 DEF StoreInv, GoodStore, Sound
      <3>3. QED BY <3>1, <3>2 DEF LifecycleValid, ItemFinal, AwaitingCompletion
    <2>2. CASE mem' = mem BY <2>2
    <2>3. CASE mem' = disk BY <2>1, <2>3 DEF StoreInv, FileAhead
    <2>4. ASSUME NEW next, Change(next), mem' = next PROVE next[i] \in {mem[i], Absent}
      BY <2>1, <2>4 DEF Change, Proper, Succeeds, Edits, Joins, Reopens
    <2>5. QED BY NextStore, <2>2, <2>3, <2>4 DEF Advances, Change
  <1>2. QED BY <1>1, StoreInvariant, PTL DEF Spec, CaptureStays


--------------------------------------------------------------------------------
(* The lines of the store are the lines of PromptLine.                           *)

\* The prompts ahead of i among the open items of a store.
Before(q, i) == {j \in Open(q) : Line[j] = Line[i] /\ q[j].pos < q[i].pos}

\* A store that follows the memory has the lines PromptLine moves to: who left is
\* gone, one item may have joined each line behind all who stay, and what entered
\* service was the head.
LEMMA FollowsMoves ==
  ASSUME StoreInv, NEW q \in Store, Follows(q), mem' = q, UNCHANGED typed
  PROVE  Promise!LinesMove
  <1>0. PICK gone, new : gone = Open(mem) \ Open(q) /\ new = Open(q) \ Open(mem)
    OBVIOUS
  <1> DEFINE stay == Open(mem) \ gone
             ahead == [i \in Open(mem) |-> Before(mem, i)]
             served == {i \in Open(mem) : InFlight(mem[i])}
  <1>1. \A i \in Items : mem[i] \in ItemType /\ q[i] \in ItemType
    BY ItemOfStore DEF Store, StoreInv, DeliveryInv
  <1>2. Open(mem) \subseteq Present(mem) /\ Open(q) \subseteq Present(q)
        /\ Present(mem) \subseteq Items /\ Present(q) \subseteq Items
    BY DEF Open, Present
  <1>3. \A i \in stay : i \in Open(q) /\ i \in Items /\ q[i].pos = mem[i].pos
    BY <1>0, <1>1, <1>2, AbsentFacts DEF Follows, Edits, Enters, Open, Present
  <1>4. \A i \in new : i \in Items /\ i \notin Present(mem) /\ Enters(i, q[i])
    BY <1>0, <1>1, <1>2, AbsentFacts, StatusFacts DEF Follows, Edits, Enters, Open, Present
  <1>5. \A i \in new, j \in stay : q[j].pos < q[i].pos
    BY <1>2, <1>3, <1>4 DEF Enters
  <1>6. \A i, j \in new : Line[i] = Line[j] => i = j
    BY <1>0, <1>2, <1>4 DEF Follows, OneEach
  <1>7. Open(q) = stay \cup new BY <1>0, <1>3
  <1>8. \A i \in stay : Before(q, i) = Before(mem, i) \ gone
    <2> SUFFICES ASSUME NEW i \in stay, NEW j
                 PROVE  j \in Before(q, i) <=> j \in Before(mem, i) \ gone
      OBVIOUS
    <2>1. CASE j \in stay BY <1>3, <2>1 DEF Before
    <2>2. CASE j \in new
      <3>1. q[i].pos < q[j].pos /\ q[i].pos \in Nat /\ q[j].pos \in Nat
        BY <1>1, <1>3, <1>4, <1>5, <2>2, StatusFacts
      <3>2. QED BY <1>0, <2>2, <3>1 DEF Before
    <2>3. CASE j \notin stay /\ j \notin new BY <1>7, <2>3 DEF Before
    <2>4. QED BY <2>1, <2>2, <2>3
  <1>9. \A i \in new : Before(q, i) = {j \in stay : Line[j] = Line[i]}
    <2> SUFFICES ASSUME NEW i \in new, NEW j
                 PROVE  j \in Before(q, i) <=> j \in stay /\ Line[j] = Line[i]
      OBVIOUS
    <2>1. CASE j \in stay BY <1>3, <1>5, <2>1 DEF Before
    <2>2. CASE j \in new
      <3>1. q[i].pos \in Nat BY <1>1, <1>4, StatusFacts
      <3>2. QED BY <1>0, <1>6, <2>2, <3>1 DEF Before
    <2>3. CASE j \notin stay /\ j \notin new BY <1>7, <2>3 DEF Before
    <2>4. QED BY <2>1, <2>2, <2>3
  <1>10. Promise!Moves(gone, new)
    <2>1. [i \in Open(q) |-> Before(q, i)]
          = [i \in stay \cup new |->
               IF i \in new THEN {j \in stay : Line[j] = Line[i]} ELSE ahead[i] \ gone]
      BY <1>7, <1>8, <1>9
    <2>2. QED BY <2>1 DEF Promise!Moves, Promise!Waiting, Promise!Mates, Before
  <1>11. new \in Promise!Joiners
    BY <1>2, <1>4, <1>6 DEF Promise!Joiners, Promise!Waiting, Enters
  <1>12. Promise!Serves(gone)
    <2> DEFINE then == {i \in Open(q) : InFlight(q[i])}
    <2>1. served \ gone \subseteq then
      <3> SUFFICES ASSUME NEW i \in stay, InFlight(mem[i]) PROVE InFlight(q[i])
        BY <1>3
      <3>1. i \in Items /\ ItemOpen(q[i]) BY <1>3 DEF Open
      <3>2. q[i] = mem[i] \/ Edits(i, mem[i], q[i])
        BY <1>1, <1>3, <3>1, AbsentFacts DEF Follows, Enters, Open, Present
      <3>3. QED BY <1>1, <3>1, <3>2, StatusFacts DEF Edits
    <2>2. then \ served \subseteq {i \in stay : Before(mem, i) = {}}
      <3> SUFFICES ASSUME NEW i \in Open(q), InFlight(q[i]), i \notin served
                   PROVE  i \in stay /\ Before(mem, i) = {}
        OBVIOUS
      <3>1. i \in Items /\ ItemOpen(q[i]) /\ q[i].status # "queued"
        BY <1>1, <1>2, StatusFacts DEF Open
      <3>2. i \notin new BY <1>4, <3>1 DEF Enters
      <3>3. i \in stay /\ mem[i].status = "queued"
        BY <1>1, <1>7, <3>1, <3>2, StatusFacts DEF Open
      <3>4. Edits(i, mem[i], q[i])
        BY <3>1, <3>3, AbsentFacts DEF Follows, Enters
      <3>5. IsHead(i) BY <1>1, <3>1, <3>3, <3>4, StatusFacts DEF Edits
      <3>6. QED BY <3>3, <3>5 DEF IsHead, Before, Open, Present
    <2>3. QED
      BY <2>1, <2>2 DEF Promise!Serves, Promise!Waiting, Before
  <1>13. gone \subseteq Promise!Waiting BY <1>0 DEF Promise!Waiting
  <1>14. QED BY <1>10, <1>11, <1>12, <1>13 DEF Promise!LinesMove

\* A text is typed for the head of a line that is in service, and was never typed.
LEMMA TypingServes ==
  ASSUME StoreInv, [Next]_vars, UNCHANGED mem, typed' # typed
  PROVE  \E i \in Items : Promise!TypePrompt(i)
  <1>1. Type BY TypedOnlyByType
  <1>2. /\ phase = "type" /\ cur \in Items /\ typed' = [typed EXCEPT ![cur] = @ + 1]
        /\ typed \in [Items -> Nat] /\ typed[cur] = 0
        /\ mem[cur] \in ItemType /\ mem[cur].status = "dispatching" /\ IsHead(cur)
    BY <1>1, ItemOfStore
    DEF Type, StoreInv, DeliveryInv, TypeOK, ClaimHeld, Delivering, PassInv
  <1>3. typed' = [typed EXCEPT ![cur] = 1] BY <1>2
  <1>4. cur \in Open(mem) /\ InFlight(mem[cur])
    BY <1>2, StatusFacts DEF Open, Present
  <1>5. Before(mem, cur) = {} BY <1>2 DEF Before, IsHead, Open, Present
  <1>6. QED BY <1>2, <1>3, <1>4, <1>5 DEF Promise!TypePrompt, Before

\* The queue keeps the promise of PromptLine, over stores, passes, samples and crashes:
\* its lines are FIFO, their head alone is in service, and a prompt is typed while it is,
\* at most once (README.md "release FIFO one prompt at a time"). At an explicit boundary
\* a finish may be reopened by a restart, which no line of PromptLine allows.
THEOREM QueueRefinesLine ==
  ASSUME "explicit" \notin Boundaries
  PROVE  Spec => RefinesPromptLine
  <1>1. Init => Promise!LineInit
    <2> SUFFICES ASSUME Init PROVE Promise!LineInit OBVIOUS
    <2>1. Open(mem) = {} BY AbsentFacts DEF Init, Open, Present
    <2>2. QED BY <2>1 DEF Init, Promise!LineInit
  <1>2. StoreInv /\ [Next]_vars => [Promise!LineNext]_(Promise!lineVars)
    <2> SUFFICES ASSUME StoreInv, [Next]_vars
                 PROVE  Promise!LineNext \/ UNCHANGED Promise!lineVars
      OBVIOUS
    <2>1. StoreInv' /\ Advances BY NextStore
    <2>2. CASE UNCHANGED mem
      <3>1. CASE UNCHANGED typed
        BY <2>2, <3>1 DEF Promise!lineVars, Open, Present
      <3>2. CASE typed' # typed BY <2>2, <3>2, TypingServes DEF Promise!LineNext
      <3>3. QED BY <3>1, <3>2
    <2>3. CASE ~UNCHANGED mem
      <3>1. UNCHANGED typed BY <2>3, TypedOnlyByType DEF Type, store
      <3>2. PICK q : Follows(q) /\ mem' = q
        BY <2>1, <2>3, ChangeFollows DEF Advances, Change, StoreInv, FileAhead
      <3>3. q \in Store
        BY <2>1, <3>2 DEF StoreInv, DeliveryInv, TypeOK, Store
      <3>4. QED BY <3>1, <3>2, <3>3, FollowsMoves DEF Promise!LineNext
    <2>4. QED BY <2>2, <2>3
  <1>3. QED
    BY <1>1, <1>2, StoreInvariant, PTL DEF Spec, RefinesPromptLine, Promise!LineSpec

--------------------------------------------------------------------------------
(* Recurring prompts: the theorems of PromptSchedules, an instance of which the  *)
(* rest of this module is about.                                                *)

CONSTANTS
  Schedules, Periods, ScheduleLimit, ItemLimit, LateCreates, MaxTime, MaxEdits, MaxPanes
VARIABLES
  schedules, nextRun, tickets, others, asked, clock, livePane, running, wedged, edits, stops

Cron == INSTANCE PromptSchedules WITH
  next <- nextRun, open <- tickets, other <- others, now <- clock, pane <- livePane,
  up <- running, crashes <- stops

\* The type of a schedule.
ScheduleSet ==
  [st : {"absent", "old", "present"}, enabled : BOOLEAN,
   pane : 0 .. MaxPanes, period : Periods \union {0}, last : Nat,
   created : Nat, runs : Nat, coalesced : Nat, skipped : Nat, occurrences : Nat]

\* The run times of c that are over at the time t, when n is its next.
Over(c, n, t) == {u \in c.created .. t : u % (2 * c.period) = 0 /\ u < n}

\* What is true of a schedule with the next run n at the time t.
OnTime(c, n, t) ==
  /\ c.period \in Periods /\ n > 0 /\ n % (2 * c.period) = 0
  /\ c.created <= t /\ c.last <= t
  /\ c.last > 0 => c.created <= c.last /\ c.last < n
  /\ c.st = "present" => c.occurrences = c.runs + c.coalesced + c.skipped
  /\ c.st = "old" => c.created = 0
  /\ ~LateCreates => c.created <= n
  /\ c.created > 0 => c.occurrences <= Cardinality(Over(c, n, t))

\* The schedules of a document f, and what is true of one with the next runs n.
Listed(f) == {s \in Schedules : f[s].st # "absent"}

Documented(f, n, t) ==
  /\ \A s \in Listed(f) : OnTime(f[s], n[s], t)
  /\ Cardinality(Listed(f)) <= ScheduleLimit
  /\ \A s, r \in Listed(f) : s # r => Cron!DefinitionKey(f[s]) # Cron!DefinitionKey(f[r])

\* A creation that waits, with its first run.
AskFits(a, t) ==
  /\ a = [pane |-> a.pane, period |-> a.period, next |-> a.next]
  /\ a.pane \in 1 .. MaxPanes /\ a.period \in Periods
  /\ a.next \in Nat \ {0} /\ a.next % (2 * a.period) = 0
  /\ ~LateCreates => t <= a.next

CronInv ==
  /\ schedules \in [Schedules -> ScheduleSet] /\ nextRun \in [Schedules -> Nat]
  /\ tickets \in [Schedules -> 0 .. 1] /\ others \in Nat /\ Cron!Queued(tickets) <= ItemLimit
  /\ clock \in Nat \ {0} /\ livePane \in 1 .. MaxPanes
  /\ running \in BOOLEAN /\ wedged \in BOOLEAN
  /\ Documented(schedules, nextRun, clock)
  /\ running = TRUE => \A s \in Schedules : schedules[s].st # "old"
  /\ \A a \in asked : AskFits(a, clock)
  /\ ~LateCreates => wedged = FALSE

--------------------------------------------------------------------------------
(* Schedules and their run times.                                               *)

\* The instance counts as this module does.
LEMMA SameCount == \A S : Cron!Cardinality(S) = Cardinality(S)
  BY DEF Cron!Cardinality, Cardinality
\* The same of what is finite.
LEMMA SchedulesFinite == Cron!Limits => IsFiniteSet(Schedules)
  BY DEF Cron!Limits, Cron!IsFiniteSet, IsFiniteSet

\* A matching minute lies within a period of every time (nextPromptCronAt).
LEMMA NextRunLies ==
  ASSUME Cron!Limits, NEW period \in Periods, NEW t \in Nat
  PROVE  /\ Cron!NextPromptCronAt(period, t) \in t + 1 .. t + 2 * period
         /\ Cron!NextPromptCronAt(period, t) % (2 * period) = 0
  <1> DEFINE d == 2 * period
             r == t % d
             q == t \div d
  <1>1. d \in Nat \ {0}  BY DEF Cron!Limits
  <1> HIDE DEF d
  <1>2. r \in 0 .. d - 1 /\ q \in Nat /\ t = d * q + r  BY <1>1
  <1>3. t + d - r = d * (q + 1)  BY <1>1, <1>2
  <1>4. (d * (q + 1)) % d = 0  BY <1>1, <1>2
  <1>5. \E u \in t + 1 .. t + d : u % d = 0  BY <1>1, <1>2, <1>3, <1>4
  <1>6. \E u \in t + 1 .. t + 2 * period : u % (2 * period) = 0  BY <1>5 DEF d
  <1> QED  BY <1>6 DEF Cron!NextPromptCronAt

\* Only so many run times are over.
LEMMA OverFinite ==
  ASSUME NEW c \in ScheduleSet, NEW n \in Nat, NEW t \in Nat
  PROVE  IsFiniteSet(Over(c, n, t)) /\ Cardinality(Over(c, n, t)) \in Nat
  <1>1. IsFiniteSet(c.created .. t)  BY FS_Interval DEF ScheduleSet
  <1>2. Over(c, n, t) \in SUBSET (c.created .. t)  BY DEF Over
  <1> QED  BY <1>1, <1>2, FS_Subset, FS_CardinalityType

\* Later more are over, and when the next run moves on.
LEMMA OverGrows ==
  ASSUME NEW c \in ScheduleSet, NEW n \in Nat, NEW t \in Nat,
         NEW d \in ScheduleSet, NEW m \in Nat, NEW u \in Nat,
         d.created = c.created, d.period = c.period, t <= u, m >= n \/ m > t
  PROVE  Cardinality(Over(c, n, t)) <= Cardinality(Over(d, m, u))
  <1>1. Over(c, n, t) \in SUBSET Over(d, m, u)  BY DEF Over, ScheduleSet
  <1> QED  BY <1>1, OverFinite, FS_Subset

\* The clock disturbs no schedule.
LEMMA OnTimeLater ==
  ASSUME NEW c \in ScheduleSet, NEW n \in Nat, NEW t \in Nat, NEW u \in Nat,
         t <= u, OnTime(c, n, t)
  PROVE  OnTime(c, n, u)
  <1>1. Cardinality(Over(c, n, t)) <= Cardinality(Over(c, n, u))  BY OverGrows
  <1>2. Cardinality(Over(c, n, t)) \in Nat /\ Cardinality(Over(c, n, u)) \in Nat  BY OverFinite
  <1>3. c.created > 0 => c.occurrences <= Cardinality(Over(c, n, u))
    BY <1>1, <1>2 DEF OnTime, ScheduleSet
  <1> QED  BY <1>3 DEF OnTime, ScheduleSet

\* The operator changes what a schedule is, and it runs next after now, if it runs.
LEMMA OnTimeEdited ==
  ASSUME NEW c \in ScheduleSet, NEW n \in Nat, NEW t \in Nat, OnTime(c, n, t),
         NEW d \in ScheduleSet, NEW m \in Nat,
         d.st = c.st, d.period = c.period, d.created = c.created, d.last = c.last,
         d.runs = c.runs, d.coalesced = c.coalesced, d.skipped = c.skipped,
         d.occurrences = c.occurrences,
         m = n \/ (m > t /\ m % (2 * c.period) = 0)
  PROVE  OnTime(d, m, t)
  <1>1. Cardinality(Over(c, n, t)) <= Cardinality(Over(d, m, t))  BY OverGrows
  <1>2. Cardinality(Over(c, n, t)) \in Nat /\ Cardinality(Over(d, m, t)) \in Nat  BY OverFinite
  <1>3. d.created > 0 => d.occurrences <= Cardinality(Over(d, m, t))
    BY <1>1, <1>2 DEF OnTime, ScheduleSet
  <1> QED  BY <1>3 DEF OnTime, ScheduleSet

\* An occurrence is counted in one of three ways, and nothing else changes.
LEMMA AccountedFits ==
  ASSUME NEW c \in ScheduleSet, NEW n \in Nat, NEW outcome \in {"queued", "coalesced", "skipped"}
  PROVE  LET d == Cron!Accounted(c, n, outcome) IN
         /\ d \in ScheduleSet
         /\ d.st = c.st /\ d.enabled = c.enabled /\ d.pane = c.pane /\ d.period = c.period
         /\ d.created = c.created /\ d.last = n /\ d.occurrences = c.occurrences + 1
         /\ d.runs + d.coalesced + d.skipped = c.runs + c.coalesced + c.skipped + 1
  <1> DEFINE d == [st |-> c.st, enabled |-> c.enabled, pane |-> c.pane, period |-> c.period,
                   last |-> n, created |-> c.created, runs |-> c.runs,
                   coalesced |-> c.coalesced, skipped |-> c.skipped,
                   occurrences |-> c.occurrences + 1]
  <1>1. PICK e : e = [c EXCEPT !.occurrences = @ + 1]  OBVIOUS
  <1>2. e = [st |-> c.st, enabled |-> c.enabled, pane |-> c.pane, period |-> c.period,
             last |-> c.last, created |-> c.created, runs |-> c.runs,
             coalesced |-> c.coalesced, skipped |-> c.skipped,
             occurrences |-> c.occurrences + 1]
    BY <1>1 DEF ScheduleSet
  <1>3. [e EXCEPT !.last = n] = d  BY <1>2
  <1>4. [c EXCEPT !.occurrences = @ + 1, !.last = n] = d  BY <1>1, <1>3, Zenon
  <1>5. Cron!Accounted(c, n, outcome) =
          CASE outcome = "queued" -> [d EXCEPT !.runs = @ + 1]
            [] outcome = "coalesced" -> [d EXCEPT !.coalesced = @ + 1]
            [] outcome = "skipped" -> [d EXCEPT !.skipped = @ + 1]
    BY <1>4 DEF Cron!Accounted
  <1>6. CASE outcome = "queued"  BY <1>5, <1>6 DEF ScheduleSet
  <1>7. CASE outcome = "coalesced"  BY <1>5, <1>7 DEF ScheduleSet
  <1>8. CASE outcome = "skipped"  BY <1>5, <1>8 DEF ScheduleSet
  <1> QED  BY <1>6, <1>7, <1>8

\* Its next run was due and is accounted for: it counts once, and is over now.
LEMMA OnTimeServed ==
  ASSUME NEW c \in ScheduleSet, NEW n \in Nat, NEW t \in Nat, OnTime(c, n, t), n <= t,
         c.st = "present", c.created <= n,
         NEW outcome \in {"queued", "coalesced", "skipped"},
         NEW m \in Nat, m > t, m % (2 * c.period) = 0
  PROVE  OnTime(Cron!Accounted(c, n, outcome), m, t)
  <1> DEFINE d == Cron!Accounted(c, n, outcome)
  <1>1. /\ d \in ScheduleSet
        /\ d.st = c.st /\ d.period = c.period
        /\ d.created = c.created /\ d.last = n /\ d.occurrences = c.occurrences + 1
        /\ d.runs + d.coalesced + d.skipped = c.runs + c.coalesced + c.skipped + 1
    BY AccountedFits
  <1> HIDE DEF d
  <1>2. Over(c, n, t) \cup {n} \in SUBSET Over(d, m, t)  BY <1>1 DEF Over, OnTime, ScheduleSet
  <1>3. n \notin Over(c, n, t)  BY DEF Over
  <1>4. Cardinality(Over(c, n, t) \cup {n}) = Cardinality(Over(c, n, t)) + 1
    BY <1>3, OverFinite, FS_AddElement
  <1>5. Cardinality(Over(c, n, t) \cup {n}) <= Cardinality(Over(d, m, t))
    BY <1>1, <1>2, OverFinite, FS_Subset
  <1>6. Cardinality(Over(c, n, t)) \in Nat /\ Cardinality(Over(d, m, t)) \in Nat
    BY <1>1, OverFinite
  <1>7. d.created > 0 => d.occurrences <= Cardinality(Over(d, m, t))
    BY <1>1, <1>4, <1>5, <1>6 DEF OnTime, ScheduleSet
  <1>8. OnTime(d, m, t)  BY <1>1, <1>7 DEF OnTime, ScheduleSet
  <1> QED  BY <1>8 DEF d

--------------------------------------------------------------------------------
(* Tickets.                                                                     *)

\* The schedules with an open ticket.
Ticketed(f) == {s \in Schedules : f[s] = 1}

\* With one ticket each at most, the tickets are as many as the schedules with one.
LEMMA TicketsCount ==
  ASSUME Cron!Limits, NEW f \in [Schedules -> 0 .. 1]
  PROVE  /\ Cardinality(UNION {{s} \X (1 .. f[s]) : s \in Schedules}) = Cardinality(Ticketed(f))
         /\ IsFiniteSet(Ticketed(f)) /\ Cardinality(Ticketed(f)) \in Nat
  <1> DEFINE T == UNION {{s} \X (1 .. f[s]) : s \in Schedules}
  <1>1. IsFiniteSet(Ticketed(f)) /\ Cardinality(Ticketed(f)) \in Nat
    <2>1. Ticketed(f) \in SUBSET Schedules  BY DEF Ticketed
    <2> QED  BY <2>1, SchedulesFinite, FS_Subset, FS_CardinalityType
  <1>2. ASSUME NEW x PROVE x \in T <=> x \in Ticketed(f) \X {1}
    <2>1. ASSUME x \in T PROVE x \in Ticketed(f) \X {1}
      <3>1. PICK s \in Schedules : x \in {s} \X (1 .. f[s])  BY <2>1
      <3>2. PICK k \in 1 .. f[s] : x = <<s, k>>  BY <3>1
      <3>3. f[s] = 1 /\ k = 1  BY <3>2
      <3> QED  BY <3>2, <3>3 DEF Ticketed
    <2>2. ASSUME x \in Ticketed(f) \X {1} PROVE x \in T
      <3>1. PICK s \in Ticketed(f) : x = <<s, 1>>  BY <2>2
      <3>2. s \in Schedules /\ f[s] = 1 /\ 1 \in 1 .. f[s]  BY <3>1 DEF Ticketed
      <3>3. x \in {s} \X (1 .. f[s])  BY <3>1, <3>2
      <3> QED  BY <3>2, <3>3
    <2> QED  BY <2>1, <2>2
  <1>3. T = Ticketed(f) \X {1}  BY <1>2
  <1> HIDE DEF T
  <1>4. Cardinality(Ticketed(f) \X {1}) = Cardinality(Ticketed(f)) * 1
    <2>1. IsFiniteSet({1}) /\ Cardinality({1}) = 1  BY FS_Singleton
    <2> QED  BY <1>1, <2>1, FS_Product
  <1>5. Cardinality(T) = Cardinality(Ticketed(f))  BY <1>1, <1>3, <1>4
  <1> QED  BY <1>1, <1>5 DEF T

\* What the queue holds, then.
LEMMA QueuedCounts ==
  ASSUME Cron!Limits, others \in Nat, NEW f \in [Schedules -> 0 .. 1]
  PROVE  /\ Cron!Queued(f) = others + Cardinality(Ticketed(f))
         /\ IsFiniteSet(Ticketed(f)) /\ Cardinality(Ticketed(f)) \in Nat
  BY TicketsCount, SameCount DEF Cron!Queued

\* Tickets that come and go, one or several.
LEMMA TicketsRise ==
  ASSUME Cron!Limits, others \in Nat, NEW f \in [Schedules -> 0 .. 1],
         NEW more, more \in SUBSET {s \in Schedules : f[s] = 0}
  PROVE  LET g == [s \in Schedules |-> IF s \in more THEN 1 ELSE f[s]] IN
         /\ g \in [Schedules -> 0 .. 1]
         /\ Cron!Queued(g) <= Cron!Queued(f) + Cardinality(more)
  <1> DEFINE g == [s \in Schedules |-> IF s \in more THEN 1 ELSE f[s]]
  <1>1. g \in [Schedules -> 0 .. 1]  OBVIOUS
  <1>2. Ticketed(g) = Ticketed(f) \cup more  BY DEF Ticketed
  <1>3. IsFiniteSet(more) /\ IsFiniteSet(Ticketed(f))
    <2>1. more \in SUBSET Schedules  OBVIOUS
    <2> QED  BY <2>1, QueuedCounts, SchedulesFinite, FS_Subset
  <1>4. Ticketed(f) \cap more = {}  BY DEF Ticketed
  <1>5. Cardinality(Ticketed(g)) = Cardinality(Ticketed(f)) + Cardinality(more)
    <2>1. Cardinality(Ticketed(f) \cup more) =
            Cardinality(Ticketed(f)) + Cardinality(more) - Cardinality(Ticketed(f) \cap more)
      BY <1>3, FS_Union
    <2>2. Cardinality(Ticketed(f) \cap more) = 0  BY <1>4, FS_EmptySet
    <2>3. Cardinality(Ticketed(f)) \in Nat /\ Cardinality(more) \in Nat
      BY <1>3, FS_CardinalityType
    <2> HIDE DEF g
    <2> QED  BY <1>2, <2>1, <2>2, <2>3
  <1>6. Cardinality(more) \in Nat /\ Cardinality(Ticketed(f)) \in Nat
    BY <1>3, FS_CardinalityType
  <1>7. /\ Cron!Queued(g) = others + Cardinality(Ticketed(g))
        /\ Cron!Queued(f) = others + Cardinality(Ticketed(f))
    BY <1>1, QueuedCounts
  <1> QED  BY <1>1, <1>5, <1>6, <1>7

\* A ticket leaves.
LEMMA TicketsFall ==
  ASSUME Cron!Limits, others \in Nat, NEW f \in [Schedules -> 0 .. 1],
         NEW s \in Schedules, f[s] > 0
  PROVE  LET g == [f EXCEPT ![s] = @ - 1] IN
         /\ g \in [Schedules -> 0 .. 1]
         /\ Cron!Queued(g) + 1 = Cron!Queued(f)
  <1> DEFINE g == [f EXCEPT ![s] = @ - 1]
  <1>1. f[s] = 1 /\ g \in [Schedules -> 0 .. 1] /\ g[s] = 0
    <2>1. f[s] \in 0 .. 1 /\ f[s] = 1  OBVIOUS
    <2> QED  BY <2>1
  <1>2. Ticketed(g) = Ticketed(f) \ {s} /\ s \in Ticketed(f)  BY <1>1 DEF Ticketed
  <1>3. Cardinality(Ticketed(g)) = Cardinality(Ticketed(f)) - 1
    BY <1>2, QueuedCounts, FS_RemoveElement
  <1>4. /\ Cron!Queued(g) = others + Cardinality(Ticketed(g))
        /\ Cron!Queued(f) = others + Cardinality(Ticketed(f))
        /\ Cardinality(Ticketed(f)) \in Nat
    BY <1>1, QueuedCounts
  <1> QED  BY <1>1, <1>3, <1>4
--------------------------------------------------------------------------------
(* The steps.                                                                   *)

\* An empty document is sound.
LEMMA CronInit == ASSUME Cron!Limits, Cron!Init PROVE CronInv
  <1>1. Cron!Absent \in ScheduleSet /\ Cron!Absent.st = "absent"
    BY DEF Cron!Absent, Cron!Schedule, ScheduleSet, Cron!Limits
  <1>2. /\ schedules = [s \in Schedules |-> Cron!Absent] /\ nextRun = [s \in Schedules |-> 0]
        /\ tickets = [s \in Schedules |-> 0] /\ others = 0 /\ asked = {}
        /\ clock = 1 /\ livePane = 1 /\ running = TRUE /\ wedged = FALSE
    BY DEF Cron!Init
  <1>3. schedules \in [Schedules -> ScheduleSet] /\ Listed(schedules) = {}
    BY <1>1, <1>2 DEF Listed
  <1>4. Documented(schedules, nextRun, clock)
    BY <1>3, FS_EmptySet DEF Documented, Cron!Limits
  <1>5. tickets \in [Schedules -> 0 .. 1] /\ Ticketed(tickets) = {}  BY <1>2 DEF Ticketed
  <1>6. Cron!Queued(tickets) <= ItemLimit
    <2>1. others \in Nat /\ others = 0  BY <1>2
    <2>2. Cardinality(Ticketed(tickets)) = 0  BY <1>5, FS_EmptySet
    <2>3. Cron!Queued(tickets) = others + Cardinality(Ticketed(tickets))
      BY <1>5, <2>1, QueuedCounts
    <2> QED  BY <2>1, <2>2, <2>3 DEF Cron!Limits
  <1>7. \A s \in Schedules : schedules[s].st # "old"  BY <1>1, <1>2
  <1>8. \A a \in asked : AskFits(a, clock)  BY <1>2
  <1>9. livePane \in 1 .. MaxPanes /\ clock \in Nat \ {0} /\ nextRun \in [Schedules -> Nat]
    BY <1>2 DEF Cron!Limits
  <1> QED  BY <1>2, <1>3, <1>4, <1>5, <1>6, <1>7, <1>8, <1>9 DEF CronInv

\* A store that the validator took, with schedules that are on time.
LEMMA Requested ==
  ASSUME Cron!Limits, CronInv,
         NEW f \in [Schedules -> ScheduleSet], NEW n \in [Schedules -> Nat],
         Cron!Valid(f, n),
         \A s \in Listed(f) : f[s].st # "old" /\ OnTime(f[s], n[s], clock)
  PROVE  /\ Documented(f, n, clock)
         /\ \A s \in Schedules : f[s].st # "old"
  <1>1. \A s \in Schedules : f[s].st # "old"  BY DEF Listed
  <1>2. Listed(f) = {s \in Schedules : f[s].st = "present"}
    BY <1>1 DEF Listed, ScheduleSet
  <1>3. Cardinality(Listed(f)) <= ScheduleLimit
    BY <1>2, SameCount DEF Cron!Valid
  <1>4. \A s, r \in Listed(f) : s # r => Cron!DefinitionKey(f[s]) # Cron!DefinitionKey(f[r])
    BY <1>2 DEF Cron!Valid
  <1> QED  BY <1>1, <1>3, <1>4 DEF Documented

\* An operator's edit of one schedule.
LEMMA Edited ==
  ASSUME Cron!Limits, CronInv, running = TRUE,
         NEW s \in Cron!Present, NEW d \in ScheduleSet, NEW m \in Nat,
         d.st = schedules[s].st, d.period = schedules[s].period,
         d.created = schedules[s].created, d.last = schedules[s].last,
         d.runs = schedules[s].runs, d.coalesced = schedules[s].coalesced,
         d.skipped = schedules[s].skipped, d.occurrences = schedules[s].occurrences,
         m = nextRun[s] \/ (m > clock /\ m % (2 * schedules[s].period) = 0),
         Cron!Valid([schedules EXCEPT ![s] = d], [nextRun EXCEPT ![s] = m])
  PROVE  LET f == [schedules EXCEPT ![s] = d]
             n == [nextRun EXCEPT ![s] = m]
         IN /\ f \in [Schedules -> ScheduleSet] /\ n \in [Schedules -> Nat]
            /\ Documented(f, n, clock) /\ \A r \in Schedules : f[r].st # "old"
  <1> DEFINE f == [schedules EXCEPT ![s] = d]
             n == [nextRun EXCEPT ![s] = m]
  <1>1. /\ s \in Schedules /\ schedules[s] \in ScheduleSet /\ nextRun[s] \in Nat
        /\ clock \in Nat /\ s \in Listed(schedules) /\ schedules[s].st = "present"
    BY DEF CronInv, Cron!Present, Listed
  <1>2. OnTime(schedules[s], nextRun[s], clock)  BY <1>1 DEF CronInv, Documented
  <1>3. OnTime(d, m, clock)
    BY <1>1, <1>2, OnTimeEdited
  <1>4. f \in [Schedules -> ScheduleSet] /\ n \in [Schedules -> Nat]  BY DEF CronInv
  <1>5. ASSUME NEW r \in Listed(f) PROVE f[r].st # "old" /\ OnTime(f[r], n[r], clock)
    <2>1. CASE r = s  BY <1>1, <1>3, <2>1 DEF CronInv
    <2>2. CASE r # s
      <3>1. r \in Listed(schedules) /\ f[r] = schedules[r] /\ n[r] = nextRun[r]
        BY <2>2 DEF CronInv, Listed
      <3> QED  BY <3>1 DEF CronInv, Documented, Listed
    <2> QED  BY <2>1, <2>2
  <1> HIDE DEF f, n
  <1>6. Cron!Valid(f, n)  BY DEF f, n
  <1>7. Documented(f, n, clock) /\ \A r \in Schedules : f[r].st # "old"
    BY <1>4, <1>5, <1>6, Requested
  <1> QED  BY <1>4, <1>7 DEF f, n

\* An operator's request keeps the invariant when the store it builds is sound.
LEMMA RequestKeeps ==
  ASSUME Cron!Limits, CronInv, NEW f \in [Schedules -> ScheduleSet], NEW n \in [Schedules -> Nat],
         Cron!Request(f, n), Documented(f, n, clock), \A r \in Schedules : f[r].st # "old",
         tickets' \in [Schedules -> 0 .. 1], UNCHANGED others, Cron!Queued(tickets') <= ItemLimit,
         asked' \subseteq asked
  PROVE  CronInv'
  <1>1. Cron!Queued(tickets)' = Cron!Queued(tickets')  BY DEF Cron!Queued
  <1>2. /\ schedules' = f /\ nextRun' = n
        /\ UNCHANGED <<clock, livePane, running, wedged>>
    BY DEF Cron!Request
  <1> QED  BY <1>1, <1>2 DEF CronInv

\* A schedule is paused or resumed.
LEMMA UpdateKeeps ==
  ASSUME Cron!Limits, CronInv, NEW s \in Schedules, NEW enabled \in BOOLEAN,
         Cron!UpdatePromptSchedule(s, enabled)
  PROVE  CronInv'
  <1> DEFINE d == [schedules[s] EXCEPT !.enabled = enabled]
             m == IF enabled THEN Cron!NextPromptCronAt(schedules[s].period, clock)
                  ELSE nextRun[s]
  <1>1. s \in Cron!Present /\ running = TRUE
    BY DEF Cron!UpdatePromptSchedule, Cron!Request, CronInv
  <1>2. /\ schedules[s] \in ScheduleSet /\ clock \in Nat /\ nextRun[s] \in Nat
        /\ schedules[s].period \in Periods
    BY <1>1 DEF CronInv, Cron!Present, Documented, Listed, OnTime
  <1>3. /\ d \in ScheduleSet /\ d.st = schedules[s].st /\ d.period = schedules[s].period
        /\ d.created = schedules[s].created /\ d.last = schedules[s].last
        /\ d.runs = schedules[s].runs /\ d.coalesced = schedules[s].coalesced
        /\ d.skipped = schedules[s].skipped /\ d.occurrences = schedules[s].occurrences
    BY <1>2 DEF ScheduleSet
  <1>4. m \in Nat /\ (m = nextRun[s] \/ (m > clock /\ m % (2 * schedules[s].period) = 0))
    BY <1>2, NextRunLies
  <1>5. Cron!Fresh(s, enabled) = [nextRun EXCEPT ![s] = m]
    BY <1>2 DEF Cron!Fresh, CronInv
  <1> DEFINE f == [schedules EXCEPT ![s] = d]
             n == [nextRun EXCEPT ![s] = m]
  <1>6. Cron!Request(f, n) /\ UNCHANGED <<tickets, others, asked>>
    BY <1>5 DEF Cron!UpdatePromptSchedule
  <1>7. Cron!Valid(f, n)  BY <1>6 DEF Cron!Request
  <1> HIDE DEF d, m
  <1>8. /\ f \in [Schedules -> ScheduleSet] /\ n \in [Schedules -> Nat]
        /\ Documented(f, n, clock) /\ \A r \in Schedules : f[r].st # "old"
    BY <1>1, <1>3, <1>4, <1>7, Edited
  <1> HIDE DEF f, n
  <1> QED  BY <1>6, <1>8, RequestKeeps DEF CronInv

\* It follows its session to another pane.
LEMMA RetargetKeeps ==
  ASSUME Cron!Limits, CronInv, NEW s \in Schedules, Cron!RetargetPromptSchedule(s)
  PROVE  CronInv'
  <1> DEFINE d == [schedules[s] EXCEPT !.pane = livePane]
             m == IF schedules[s].enabled
                    THEN Cron!NextPromptCronAt(schedules[s].period, clock) ELSE nextRun[s]
  <1>1. s \in Cron!Present /\ running = TRUE
    BY DEF Cron!RetargetPromptSchedule, Cron!Request, CronInv
  <1>2. /\ schedules[s] \in ScheduleSet /\ clock \in Nat /\ nextRun[s] \in Nat
        /\ schedules[s].period \in Periods /\ livePane \in 0 .. MaxPanes
    BY <1>1 DEF CronInv, Cron!Present, Documented, Listed, OnTime, Cron!Limits
  <1>3. /\ d \in ScheduleSet /\ d.st = schedules[s].st /\ d.period = schedules[s].period
        /\ d.created = schedules[s].created /\ d.last = schedules[s].last
        /\ d.runs = schedules[s].runs /\ d.coalesced = schedules[s].coalesced
        /\ d.skipped = schedules[s].skipped /\ d.occurrences = schedules[s].occurrences
    BY <1>2 DEF ScheduleSet
  <1>4. m \in Nat /\ (m = nextRun[s] \/ (m > clock /\ m % (2 * schedules[s].period) = 0))
    BY <1>2, NextRunLies
  <1>5. Cron!Fresh(s, schedules[s].enabled) = [nextRun EXCEPT ![s] = m]
    BY <1>2 DEF Cron!Fresh, CronInv
  <1> DEFINE f == [schedules EXCEPT ![s] = d]
             n == [nextRun EXCEPT ![s] = m]
  <1>6. Cron!Request(f, n) /\ UNCHANGED <<tickets, others, asked>>
    BY <1>5 DEF Cron!RetargetPromptSchedule
  <1>7. Cron!Valid(f, n)  BY <1>6 DEF Cron!Request
  <1> HIDE DEF d, m
  <1>8. /\ f \in [Schedules -> ScheduleSet] /\ n \in [Schedules -> Nat]
        /\ Documented(f, n, clock) /\ \A r \in Schedules : f[r].st # "old"
    BY <1>1, <1>3, <1>4, <1>7, Edited
  <1> HIDE DEF f, n
  <1> QED  BY <1>6, <1>8, RequestKeeps DEF CronInv

\* It is deleted.
LEMMA DeleteKeeps ==
  ASSUME Cron!Limits, CronInv, NEW s \in Schedules, Cron!DeletePromptSchedule(s)
  PROVE  CronInv'
  <1> DEFINE f == [schedules EXCEPT ![s] = Cron!Absent]
             n == [nextRun EXCEPT ![s] = 0]
  <1>1. Cron!Absent \in ScheduleSet /\ Cron!Absent.st = "absent"
    BY DEF Cron!Absent, Cron!Schedule, ScheduleSet, Cron!Limits
  <1>2. /\ Cron!Request(f, n) /\ UNCHANGED <<tickets, others, asked>>
        /\ Cron!Valid(f, n) /\ running = TRUE
    BY DEF Cron!DeletePromptSchedule, Cron!Request, CronInv
  <1>3. f \in [Schedules -> ScheduleSet] /\ n \in [Schedules -> Nat]  BY <1>1 DEF CronInv
  <1>4. ASSUME NEW r \in Listed(f) PROVE f[r].st # "old" /\ OnTime(f[r], n[r], clock)
    <2>1. r # s  BY <1>1 DEF Listed, CronInv
    <2>2. r \in Listed(schedules) /\ f[r] = schedules[r] /\ n[r] = nextRun[r]
      BY <2>1 DEF CronInv, Listed
    <2> QED  BY <1>2, <2>2 DEF CronInv, Documented, Listed
  <1> HIDE DEF f, n
  <1>5. Documented(f, n, clock) /\ \A r \in Schedules : f[r].st # "old"
    BY <1>2, <1>3, <1>4, Requested
  <1> QED  BY <1>2, <1>3, <1>5, RequestKeeps DEF CronInv

\* A new one: its first run may be past, but only with LateCreates.
LEMMA CreationKeeps ==
  ASSUME Cron!Limits, CronInv, NEW a \in asked, Cron!CreatePromptSchedule(a)
  PROVE  CronInv'
  <1> DEFINE free == {t \in Schedules : schedules[t].st = "absent" /\ tickets[t] = 0}
             s == CHOOSE t \in free : TRUE
             d == Cron!Schedule("present", TRUE, a.pane, a.period, clock)
             f == [schedules EXCEPT ![s] = d]
             n == [nextRun EXCEPT ![s] = a.next]
  <1>1. AskFits(a, clock) /\ clock \in Nat \ {0}  BY DEF CronInv
  <1>2. /\ d \in ScheduleSet /\ d.st = "present" /\ d.period = a.period /\ d.last = 0
        /\ d.created = clock /\ d.occurrences = 0
        /\ d.runs = 0 /\ d.coalesced = 0 /\ d.skipped = 0
    BY <1>1 DEF Cron!Schedule, ScheduleSet, AskFits, Cron!Limits
  <1>3. free # {} /\ Cron!Request(f, n) /\ UNCHANGED <<tickets, others>> /\ asked' = {}
    BY DEF Cron!CreatePromptSchedule
  <1>4. s \in free  BY <1>3
  <1> HIDE DEF d, s
  <1>5. s \in Schedules  BY <1>4
  <1>6. Cron!Valid(f, n) /\ running = TRUE  BY <1>3 DEF Cron!Request, CronInv
  <1>7. f \in [Schedules -> ScheduleSet] /\ n \in [Schedules -> Nat]
    BY <1>1, <1>2, <1>5 DEF CronInv, AskFits
  <1>8. OnTime(d, a.next, clock)
    <2>1. Cardinality(Over(d, a.next, clock)) \in Nat  BY <1>1, <1>2, OverFinite DEF AskFits
    <2> QED  BY <1>1, <1>2, <2>1 DEF OnTime, AskFits
  <1>9. ASSUME NEW r \in Listed(f) PROVE f[r].st # "old" /\ OnTime(f[r], n[r], clock)
    <2>1. CASE r = s  BY <1>2, <1>5, <1>8, <2>1 DEF CronInv
    <2>2. CASE r # s
      <3>1. r \in Listed(schedules) /\ f[r] = schedules[r] /\ n[r] = nextRun[r]
        BY <2>2 DEF CronInv, Listed
      <3> QED  BY <1>6, <3>1 DEF CronInv, Documented, Listed
    <2> QED  BY <2>1, <2>2
  <1> HIDE DEF f, n
  <1>10. Documented(f, n, clock) /\ \A r \in Schedules : f[r].st # "old"
    BY <1>6, <1>7, <1>9, Requested
  <1> QED  BY <1>3, <1>7, <1>10, RequestKeeps DEF CronInv

\* A ticket by hand, beside none.
LEMMA EnqueueNowKeeps ==
  ASSUME Cron!Limits, CronInv, NEW s \in Schedules, Cron!EnqueuePromptScheduleNow(s)
  PROVE  CronInv'
  <1> DEFINE g == [r \in Schedules |-> IF r \in {s} THEN 1 ELSE tickets[r]]
  <1>1. /\ tickets[s] = 0 /\ Cron!Queued(tickets) < ItemLimit
        /\ tickets' = [tickets EXCEPT ![s] = 1]
        /\ Cron!Request(schedules, nextRun) /\ UNCHANGED <<others, asked>>
        /\ Cron!Valid(schedules, nextRun) /\ running = TRUE
    BY DEF Cron!EnqueuePromptScheduleNow, Cron!Request, CronInv
  <1>2. tickets' = g  BY <1>1 DEF CronInv
  <1>3. {s} \in SUBSET {r \in Schedules : tickets[r] = 0} /\ Cardinality({s}) = 1
    BY <1>1, FS_Singleton
  <1>4. g \in [Schedules -> 0 .. 1] /\ Cron!Queued(g) <= Cron!Queued(tickets) + 1
    <2>1. others \in Nat /\ tickets \in [Schedules -> 0 .. 1]  BY DEF CronInv
    <2> QED  BY <1>3, <2>1, TicketsRise
  <1>5. Cron!Queued(g) \in Nat /\ Cron!Queued(tickets) \in Nat
    <2>1. others \in Nat /\ tickets \in [Schedules -> 0 .. 1]  BY DEF CronInv
    <2> HIDE DEF g
    <2> QED  BY <1>4, <2>1, QueuedCounts
  <1> HIDE DEF g
  <1>6. Cron!Queued(tickets') <= ItemLimit
    <2>1. Cron!Queued(g) <= ItemLimit  BY <1>1, <1>4, <1>5 DEF Cron!Limits
    <2> QED  BY <1>2, <2>1, Zenon
  <1>7. /\ Documented(schedules, nextRun, clock) /\ \A r \in Schedules : schedules[r].st # "old"
        /\ schedules \in [Schedules -> ScheduleSet] /\ nextRun \in [Schedules -> Nat]
    BY <1>1 DEF CronInv
  <1> QED  BY <1>1, <1>2, <1>4, <1>6, <1>7, RequestKeeps

\* A creation is asked for, or refused.
LEMMA AskKeeps ==
  ASSUME Cron!Limits, CronInv,
         \/ \E period \in Periods : Cron!AskPromptSchedule(period)
         \/ \E a \in asked : Cron!RefuseCreation(a)
  PROVE  CronInv'
  <1>1. CASE \E period \in Periods : Cron!AskPromptSchedule(period)
    <2>1. PICK period \in Periods : Cron!AskPromptSchedule(period)  BY <1>1
    <2> DEFINE a == [pane |-> livePane, period |-> period,
                     next |-> Cron!NextPromptCronAt(period, clock)]
    <2>2. asked' = {a} /\ UNCHANGED <<schedules, nextRun, tickets, others, clock, livePane,
                                     running, wedged>>
      BY <2>1 DEF Cron!AskPromptSchedule
    <2>3. AskFits(a, clock)
      <3>1. clock \in Nat \ {0} /\ livePane \in 1 .. MaxPanes  BY DEF CronInv
      <3>2. Cron!NextPromptCronAt(period, clock) \in clock + 1 .. clock + 2 * period
            /\ Cron!NextPromptCronAt(period, clock) % (2 * period) = 0
        BY <3>1, NextRunLies
      <3>3. period \in Nat  BY DEF Cron!Limits
      <3> QED  BY <3>1, <3>2, <3>3 DEF AskFits
    <2> HIDE DEF a
    <2>4. \A b \in asked' : AskFits(b, clock')  BY <2>2, <2>3
    <2>5. Cron!Queued(tickets)' = Cron!Queued(tickets)  BY <2>2 DEF Cron!Queued
    <2> QED  BY <2>2, <2>4, <2>5 DEF CronInv
  <1>2. CASE \E a \in asked : Cron!RefuseCreation(a)
    <2>1. asked' = {} /\ UNCHANGED <<schedules, nextRun, tickets, others, clock, livePane,
                                    running, wedged>>
      BY <1>2 DEF Cron!RefuseCreation
    <2>2. Cron!Queued(tickets)' = Cron!Queued(tickets)  BY <2>1 DEF Cron!Queued
    <2> QED  BY <2>1, <2>2 DEF CronInv
  <1> QED  BY <1>1, <1>2

\* The pass: what is due is accounted for, and the validator takes it unless a creation
\* came late.
LEMMA DueKeeps ==
  ASSUME Cron!Limits, CronInv, Cron!EnqueueDuePromptSchedules
  PROVE  CronInv'
  <1> DEFINE here == {s \in Cron!Due : livePane = schedules[s].pane}
  <1>1. PICK able \in SUBSET here, queued \in SUBSET here :
          LET f == [s \in Schedules |->
                      IF s \in Cron!Due
                        THEN Cron!Accounted(schedules[s], nextRun[s],
                                            Cron!Outcome(s, able, queued))
                        ELSE schedules[s]]
          IN /\ Cron!Served(able, queued)
             /\ IF Cron!Valid(f, Cron!NextRuns)
                  THEN /\ schedules' = f /\ nextRun' = Cron!NextRuns
                       /\ tickets' = [s \in Schedules |-> IF s \in queued THEN 1 ELSE tickets[s]]
                       /\ UNCHANGED wedged
                  ELSE wedged' = TRUE /\ UNCHANGED <<schedules, nextRun, tickets>>
    BY DEF Cron!EnqueueDuePromptSchedules
  <1> DEFINE way(s) == Cron!Outcome(s, able, queued)
             f == [s \in Schedules |->
                     IF s \in Cron!Due
                       THEN Cron!Accounted(schedules[s], nextRun[s], way(s))
                       ELSE schedules[s]]
             g == [s \in Schedules |-> IF s \in queued THEN 1 ELSE tickets[s]]
  <1>2. /\ running = TRUE /\ UNCHANGED <<others, asked, clock, livePane, running>>
    BY DEF Cron!EnqueueDuePromptSchedules, CronInv
  <1>3. /\ Cron!Due \subseteq Schedules
        /\ \A s \in Cron!Due : schedules[s].st = "present" /\ nextRun[s] <= clock
    BY DEF Cron!Due, Cron!Present
  <1>4. ASSUME NEW s \in Cron!Due PROVE way(s) \in {"queued", "coalesced", "skipped"}
    BY DEF Cron!Outcome
  <1> HIDE DEF way
  <1>5. ASSUME NEW s \in Schedules
        PROVE  /\ f[s] \in ScheduleSet /\ f[s].st = schedules[s].st
               /\ Cron!DefinitionKey(f[s]) = Cron!DefinitionKey(schedules[s])
    <2>1. schedules[s] \in ScheduleSet /\ nextRun[s] \in Nat  BY DEF CronInv
    <2>2. CASE s \in Cron!Due
      <3>1. f[s] = Cron!Accounted(schedules[s], nextRun[s], way(s))  BY <2>2
      <3> QED  BY <1>4, <2>1, <2>2, <3>1, AccountedFits DEF Cron!DefinitionKey
    <2>3. CASE s \notin Cron!Due  BY <2>1, <2>3
    <2> QED  BY <2>2, <2>3
  <1>6. f \in [Schedules -> ScheduleSet]  BY <1>5
  <1>7. ASSUME NEW s \in Cron!Due
        PROVE  /\ Cron!NextRuns[s] \in Nat /\ Cron!NextRuns[s] > clock
               /\ Cron!NextRuns[s] % (2 * schedules[s].period) = 0
    <2>1. s \in Listed(schedules)  BY <1>3 DEF Listed
    <2>2. schedules[s].period \in Periods /\ clock \in Nat
      BY <2>1 DEF CronInv, Documented, OnTime
    <2>3. Cron!NextRuns[s] = Cron!NextPromptCronAt(schedules[s].period, clock)
      BY <1>3 DEF Cron!NextRuns
    <2>4. schedules[s].period \in Nat  BY <2>2 DEF Cron!Limits
    <2>5. /\ Cron!NextRuns[s] \in clock + 1 .. clock + 2 * schedules[s].period
          /\ Cron!NextRuns[s] % (2 * schedules[s].period) = 0
      BY <2>2, <2>3, NextRunLies
    <2> QED  BY <2>2, <2>4, <2>5
  <1>8. Cron!NextRuns \in [Schedules -> Nat]
    <2>1. ASSUME NEW s \in Schedules PROVE Cron!NextRuns[s] \in Nat
      <3>1. CASE s \in Cron!Due  BY <1>7, <3>1
      <3>2. CASE s \notin Cron!Due  BY <3>2 DEF Cron!NextRuns, CronInv
      <3> QED  BY <3>1, <3>2
    <2> QED  BY <2>1 DEF Cron!NextRuns
  <1>9. ASSUME NEW s \in Listed(f), s \in Cron!Due => schedules[s].created <= nextRun[s]
        PROVE  f[s].st = "present" /\ OnTime(f[s], Cron!NextRuns[s], clock)
    <2>1. s \in Listed(schedules) /\ s \in Schedules  BY <1>5 DEF Listed
    <2>2. /\ schedules[s] \in ScheduleSet /\ nextRun[s] \in Nat /\ clock \in Nat
          /\ OnTime(schedules[s], nextRun[s], clock) /\ schedules[s].st = "present"
      BY <1>2, <2>1 DEF CronInv, Documented, Listed, ScheduleSet
    <2>3. CASE s \in Cron!Due
      <3>1. f[s] = Cron!Accounted(schedules[s], nextRun[s], way(s))  BY <2>1, <2>3
      <3>2. OnTime(f[s], Cron!NextRuns[s], clock)
        BY <1>3, <1>4, <1>7, <1>9, <2>2, <2>3, <3>1, OnTimeServed
      <3> QED  BY <1>5, <2>1, <2>2, <3>2
    <2>4. CASE s \notin Cron!Due
      <3>1. f[s] = schedules[s] /\ Cron!NextRuns[s] = nextRun[s]
        BY <2>1, <2>4 DEF Cron!NextRuns
      <3> QED  BY <2>2, <3>1
    <2> QED  BY <2>3, <2>4
  <1>10. CASE Cron!Valid(f, Cron!NextRuns)
    <2>1. /\ schedules' = f /\ nextRun' = Cron!NextRuns /\ tickets' = g /\ UNCHANGED wedged
      BY <1>1, <1>10 DEF way
    <2>2. ASSUME NEW s \in Listed(f), s \in Cron!Due PROVE schedules[s].created <= nextRun[s]
      <3>1. /\ s \in Schedules /\ schedules[s] \in ScheduleSet /\ nextRun[s] \in Nat
            /\ s \in Listed(schedules)
        BY <2>2, <1>3 DEF CronInv, Listed
      <3>2. nextRun[s] > 0  BY <3>1 DEF CronInv, Documented, OnTime
      <3>3. f[s].st = "present"  BY <1>3, <1>5, <2>2, <3>1
      <3>4. f[s].last = nextRun[s] /\ f[s].created = schedules[s].created
        <4>1. f[s] = Cron!Accounted(schedules[s], nextRun[s], way(s))  BY <2>2, <3>1
        <4> QED  BY <1>4, <2>2, <3>1, <4>1, AccountedFits
      <3>5. Cron!ScheduleValid(f[s], Cron!NextRuns[s])
        BY <1>10, <3>1, <3>3 DEF Cron!Valid
      <3> HIDE DEF f
      <3> QED  BY <3>1, <3>2, <3>4, <3>5 DEF Cron!ScheduleValid, ScheduleSet
    <2>3. \A s \in Listed(f) : f[s].st # "old" /\ OnTime(f[s], Cron!NextRuns[s], clock)
      BY <1>9, <2>2
    <2> HIDE DEF f
    <2>4. /\ Documented(f, Cron!NextRuns, clock)
          /\ \A s \in Schedules : f[s].st # "old"
      BY <1>6, <1>8, <1>10, <2>3, Requested
    <2>5. /\ queued \in SUBSET {s \in Schedules : tickets[s] = 0}
          /\ queued # {} => Cron!Queued(tickets) + Cardinality(queued) <= ItemLimit
      <3>1. Cron!Served(able, queued)  BY <1>1
      <3> QED  BY <1>3, <3>1, SameCount DEF Cron!Served
    <2>6. others \in Nat /\ tickets \in [Schedules -> 0 .. 1]  BY DEF CronInv
    <2>7. g \in [Schedules -> 0 .. 1] /\ Cron!Queued(g) <= Cron!Queued(tickets) + Cardinality(queued)
      BY <2>5, <2>6, TicketsRise
    <2>8. Cron!Queued(tickets)' = Cron!Queued(g)  BY <1>2, <2>1 DEF Cron!Queued
    <2>9. Cron!Queued(g) <= ItemLimit
      <3>1. CASE queued = {}
        <4>1. g = tickets  BY <2>6, <3>1
        <4> QED  BY <4>1 DEF CronInv
      <3>2. CASE queued # {}
        <4>1. Cron!Queued(tickets) + Cardinality(queued) <= ItemLimit  BY <2>5, <3>2
        <4>2. Cron!Queued(tickets) \in Nat /\ Cron!Queued(g) \in Nat
          <5> HIDE DEF g
          <5> QED  BY <2>6, <2>7, QueuedCounts
        <4>3. Cardinality(queued) \in Nat
          <5>1. queued \in SUBSET Schedules  BY <2>5
          <5> QED  BY <5>1, SchedulesFinite, FS_Subset, FS_CardinalityType
        <4> HIDE DEF g
        <4> QED  BY <2>7, <4>1, <4>2, <4>3 DEF Cron!Limits
      <3> QED  BY <3>1, <3>2
    <2> HIDE DEF g
    <2> QED  BY <1>2, <1>6, <1>8, <2>1, <2>4, <2>7, <2>8, <2>9 DEF CronInv
  <1>11. CASE ~Cron!Valid(f, Cron!NextRuns)
    <2>1. wedged' = TRUE /\ UNCHANGED <<schedules, nextRun, tickets>>
      BY <1>1, <1>11 DEF way
    <2>2. Cron!Queued(tickets)' = Cron!Queued(tickets)  BY <1>2, <2>1 DEF Cron!Queued
    <2>3. LateCreates
      <3> SUFFICES ASSUME ~LateCreates PROVE FALSE  OBVIOUS
      <3>1. ASSUME NEW s \in Listed(f), s \in Cron!Due PROVE schedules[s].created <= nextRun[s]
        <4>1. s \in Listed(schedules)  BY <1>3, <3>1 DEF Listed
        <4> QED  BY <4>1 DEF CronInv, Documented, OnTime
      <3>2. \A s \in Listed(f) : f[s].st = "present" /\ OnTime(f[s], Cron!NextRuns[s], clock)
        BY <1>9, <3>1
      <3>3. Listed(f) = Listed(schedules)  BY <1>5 DEF Listed
      <3>4. \A s \in Listed(f) : Cron!DefinitionKey(f[s]) = Cron!DefinitionKey(schedules[s])
        BY <1>5 DEF Listed
      <3> HIDE DEF f
      <3>5. {s \in Schedules : f[s].st = "present"} = Listed(f)  BY <3>2 DEF Listed
      <3>6. Cardinality(Listed(f)) <= ScheduleLimit  BY <3>3 DEF CronInv, Documented
      <3>7. \A s \in Listed(f) : Cron!ScheduleValid(f[s], Cron!NextRuns[s])
        BY <3>2 DEF OnTime, Cron!ScheduleValid
      <3>8. \A s, r \in Listed(f) : s # r => Cron!DefinitionKey(f[s]) # Cron!DefinitionKey(f[r])
        BY <3>3, <3>4 DEF CronInv, Documented
      <3>9. Cron!Valid(f, Cron!NextRuns)
        BY <3>5, <3>6, <3>7, <3>8, SameCount DEF Cron!Valid
      <3> QED  BY <1>11, <3>9
    <2> QED  BY <1>2, <2>1, <2>2, <2>3 DEF CronInv
  <1> QED  BY <1>10, <1>11

\* Tickets end and others come, within the room.
LEMMA TicketsKeep ==
  ASSUME Cron!Limits, CronInv,
         \/ \E s \in Schedules : Cron!TicketEnds(s) \/ Cron!RequeueAfterReplacement(s)
         \/ Cron!OtherTicket
  PROVE  CronInv'
  <1>1. /\ others \in Nat /\ tickets \in [Schedules -> 0 .. 1] /\ ItemLimit \in Nat
        /\ Cron!Queued(tickets) <= ItemLimit
    BY DEF CronInv, Cron!Limits
  <1>2. /\ Cron!Queued(tickets) = others + Cardinality(Ticketed(tickets))
        /\ Cardinality(Ticketed(tickets)) \in Nat
    BY <1>1, QueuedCounts
  <1>3. UNCHANGED <<schedules, nextRun, asked, clock, livePane, running, wedged>>
    BY DEF Cron!TicketEnds, Cron!RequeueAfterReplacement, Cron!OtherTicket
  <1>4. ASSUME NEW s \in Schedules, Cron!TicketEnds(s) \/ Cron!RequeueAfterReplacement(s)
        PROVE  /\ others' \in Nat /\ tickets' \in [Schedules -> 0 .. 1]
               /\ Cron!Queued(tickets)' <= ItemLimit
    <2> DEFINE g == [tickets EXCEPT ![s] = @ - 1]
    <2>1. tickets[s] > 0 /\ tickets' = g
      BY <1>4 DEF Cron!TicketEnds, Cron!RequeueAfterReplacement
    <2>2. g \in [Schedules -> 0 .. 1] /\ Cron!Queued(g) + 1 = Cron!Queued(tickets)
      BY <1>1, <2>1, TicketsFall
    <2> HIDE DEF g
    <2>3. Cron!Queued(g) = others + Cardinality(Ticketed(g)) /\ Cardinality(Ticketed(g)) \in Nat
      BY <1>1, <2>2, QueuedCounts
    <2>4. others' = others \/ others' = others + 1
      BY <1>4 DEF Cron!TicketEnds, Cron!RequeueAfterReplacement
    <2>5. Cron!Queued(tickets)' = others' + Cardinality(Ticketed(g))
      <3>1. Cron!Queued(tickets)' = others' + Cardinality(UNION {{r} \X (1 .. g[r]) : r \in Schedules})
        BY <2>1, SameCount DEF Cron!Queued
      <3> QED  BY <2>2, <3>1, TicketsCount
    <2> QED  BY <1>1, <1>2, <2>1, <2>2, <2>3, <2>4, <2>5
  <1>5. ASSUME Cron!OtherTicket
        PROVE  /\ others' \in Nat /\ tickets' \in [Schedules -> 0 .. 1]
               /\ Cron!Queued(tickets)' <= ItemLimit
    <2>1. /\ tickets' = tickets
          /\ \/ Cron!Queued(tickets) < ItemLimit /\ others' = others + 1
             \/ others > 0 /\ others' = others - 1
      BY <1>5 DEF Cron!OtherTicket
    <2>2. Cron!Queued(tickets)' = others' + Cardinality(Ticketed(tickets))
      <3>1. Cron!Queued(tickets)' = others' + Cardinality(UNION {{r} \X (1 .. tickets[r]) : r \in Schedules})
        BY <2>1, SameCount DEF Cron!Queued
      <3> QED  BY <1>1, <3>1, TicketsCount
    <2> QED  BY <1>1, <1>2, <2>1, <2>2
  <1> QED  BY <1>3, <1>4, <1>5 DEF CronInv

\* Time passes.
LEMMA ClockKeeps ==
  ASSUME Cron!Limits, CronInv, Cron!Tick
  PROVE  CronInv'
  <1>1. /\ clock \in Nat \ {0} /\ clock' = clock + 1
        /\ ~LateCreates => \A a \in asked : clock < a.next
        /\ UNCHANGED <<schedules, nextRun, tickets, others, asked, livePane, running, wedged>>
    BY DEF Cron!Tick, CronInv
  <1>2. ASSUME NEW s \in Listed(schedules) PROVE OnTime(schedules[s], nextRun[s], clock')
    <2>1. /\ schedules[s] \in ScheduleSet /\ nextRun[s] \in Nat
          /\ OnTime(schedules[s], nextRun[s], clock)
      BY DEF CronInv, Documented, Listed
    <2> QED  BY <1>1, <2>1, OnTimeLater
  <1>3. ASSUME NEW a \in asked PROVE AskFits(a, clock')
    <2>1. AskFits(a, clock)  BY DEF CronInv
    <2> QED  BY <1>1, <2>1 DEF AskFits
  <1>4. Cron!Queued(tickets)' = Cron!Queued(tickets)  BY <1>1 DEF Cron!Queued
  <1>5. Documented(schedules, nextRun, clock')  BY <1>2 DEF CronInv, Documented
  <1> QED  BY <1>1, <1>3, <1>4, <1>5 DEF CronInv

\* The counters that an older build's document gets make it one of this build's.
LEMMA RestartKeeps ==
  ASSUME Cron!Limits, CronInv, Cron!Restart
  PROVE  CronInv'
  <1>1. /\ running' = TRUE
        /\ UNCHANGED <<nextRun, tickets, others, asked, clock, livePane, wedged>>
    BY DEF Cron!Restart
  <1>2. Cron!Queued(tickets)' = Cron!Queued(tickets)  BY <1>1 DEF Cron!Queued
  <1>3. CASE \A s \in Schedules : schedules[s].st # "old"
    <2>1. schedules' = schedules  BY <1>3 DEF Cron!Restart
    <2> QED  BY <1>1, <1>2, <1>3, <2>1 DEF CronInv
  <1>4. CASE \E s \in Schedules : schedules[s].st = "old"
    <2>1. PICK coalesced \in 0 .. 1, skipped \in 0 .. 1 :
            schedules' = [s \in Schedules |->
              LET c == schedules[s] IN
              IF c.st = "old"
                THEN [c EXCEPT !.st = "present", !.coalesced = coalesced, !.skipped = skipped,
                               !.occurrences = c.runs + coalesced + skipped]
                ELSE c]
      BY <1>4 DEF Cron!Restart, Cron!MigratePromptScheduleCounters
    <2> DEFINE new(c) == [st |-> "present", enabled |-> c.enabled, pane |-> c.pane,
                          period |-> c.period, last |-> c.last, created |-> c.created,
                          runs |-> c.runs, coalesced |-> coalesced, skipped |-> skipped,
                          occurrences |-> c.runs + coalesced + skipped]
    <2>2. ASSUME NEW c \in ScheduleSet
          PROVE  [c EXCEPT !.st = "present", !.coalesced = coalesced, !.skipped = skipped,
                           !.occurrences = c.runs + coalesced + skipped] = new(c)
      <3> DEFINE v == c.runs + coalesced + skipped
      <3> HIDE DEF v
      <3>1. PICK x : x = [c EXCEPT !.st = "present"]  OBVIOUS
      <3>2. x = [st |-> "present", enabled |-> c.enabled, pane |-> c.pane,
                 period |-> c.period, last |-> c.last, created |-> c.created,
                 runs |-> c.runs, coalesced |-> c.coalesced, skipped |-> c.skipped,
                 occurrences |-> c.occurrences]
        BY <3>1 DEF ScheduleSet
      <3>3. PICK y : y = [x EXCEPT !.coalesced = coalesced]  OBVIOUS
      <3>4. y = [st |-> "present", enabled |-> c.enabled, pane |-> c.pane,
                 period |-> c.period, last |-> c.last, created |-> c.created,
                 runs |-> c.runs, coalesced |-> coalesced, skipped |-> c.skipped,
                 occurrences |-> c.occurrences]
        BY <3>2, <3>3
      <3>5. PICK z : z = [y EXCEPT !.skipped = skipped]  OBVIOUS
      <3>6. z = [st |-> "present", enabled |-> c.enabled, pane |-> c.pane,
                 period |-> c.period, last |-> c.last, created |-> c.created,
                 runs |-> c.runs, coalesced |-> coalesced, skipped |-> skipped,
                 occurrences |-> c.occurrences]
        BY <3>4, <3>5
      <3>7. [z EXCEPT !.occurrences = v] =
              [st |-> "present", enabled |-> c.enabled, pane |-> c.pane,
               period |-> c.period, last |-> c.last, created |-> c.created,
               runs |-> c.runs, coalesced |-> coalesced, skipped |-> skipped,
               occurrences |-> v]
        BY <3>6
      <3>8. [c EXCEPT !.st = "present", !.coalesced = coalesced, !.skipped = skipped,
                      !.occurrences = v] = [z EXCEPT !.occurrences = v]
        BY Zenon, <3>1, <3>3, <3>5
      <3> QED  BY <3>7, <3>8 DEF v
    <2>3. schedules' = [s \in Schedules |-> IF schedules[s].st = "old" THEN new(schedules[s])
                                            ELSE schedules[s]]
      BY <2>1, <2>2 DEF CronInv
    <2>4. ASSUME NEW s \in Schedules
          PROVE  /\ schedules'[s] \in ScheduleSet /\ schedules'[s].st # "old"
                 /\ (s \in Listed(schedules') <=> s \in Listed(schedules))
                 /\ Cron!DefinitionKey(schedules'[s]) = Cron!DefinitionKey(schedules[s])
      <3>1. schedules[s] \in ScheduleSet  BY DEF CronInv
      <3>2. schedules'[s] = IF schedules[s].st = "old" THEN new(schedules[s]) ELSE schedules[s]
        BY <2>3
      <3> QED  BY <3>1, <3>2 DEF ScheduleSet, Listed, Cron!DefinitionKey
    <2>5. Listed(schedules') = Listed(schedules)  BY <2>4 DEF Listed
    <2>6. ASSUME NEW s \in Listed(schedules') PROVE OnTime(schedules'[s], nextRun[s], clock)
      <3>1. /\ s \in Schedules /\ schedules[s] \in ScheduleSet /\ nextRun[s] \in Nat
            /\ OnTime(schedules[s], nextRun[s], clock) /\ clock \in Nat
        BY <2>5 DEF CronInv, Documented, Listed
      <3>2. schedules'[s] = IF schedules[s].st = "old" THEN new(schedules[s]) ELSE schedules[s]
        BY <2>3, <3>1
      <3> QED  BY <3>1, <3>2 DEF OnTime, ScheduleSet
    <2>7. Documented(schedules', nextRun, clock)
      <3>1. \A s \in Listed(schedules') :
              Cron!DefinitionKey(schedules'[s]) = Cron!DefinitionKey(schedules[s])
        BY <2>4 DEF Listed
      <3> QED  BY <2>5, <2>6, <3>1 DEF CronInv, Documented
    <2>8. schedules' \in [Schedules -> ScheduleSet]  BY <2>3, <2>4
    <2> QED  BY <1>1, <1>2, <2>4, <2>7, <2>8 DEF CronInv
  <1> QED  BY <1>3, <1>4

\* The pane changes, the server stops, or nothing happens.
LEMMA WorldKeeps ==
  ASSUME Cron!Limits, CronInv, Cron!PaneReplaced \/ Cron!Crash \/ UNCHANGED Cron!vars
  PROVE  CronInv'
  <1>1. UNCHANGED <<schedules, nextRun, tickets, others, clock, wedged>>
    BY DEF Cron!PaneReplaced, Cron!Crash, Cron!vars
  <1>2. Cron!Queued(tickets)' = Cron!Queued(tickets)  BY <1>1 DEF Cron!Queued
  <1>3. /\ livePane' \in 1 .. MaxPanes /\ asked' \subseteq asked
        /\ running' = running \/ running' = FALSE
    BY DEF Cron!PaneReplaced, Cron!Crash, Cron!vars, CronInv, Cron!Limits
  <1> QED  BY <1>1, <1>2, <1>3 DEF CronInv

\* Every step keeps the inductive invariant.
LEMMA CronStep == ASSUME Cron!Limits, CronInv, [Cron!Next]_(Cron!vars) PROVE CronInv'
  <1>1. ASSUME NEW s \in Schedules, NEW enabled \in BOOLEAN,
               Cron!UpdatePromptSchedule(s, enabled)
        PROVE  CronInv'
    BY <1>1, UpdateKeeps
  <1>2. ASSUME NEW s \in Schedules, Cron!RetargetPromptSchedule(s) PROVE CronInv'
    BY <1>2, RetargetKeeps
  <1>3. ASSUME NEW s \in Schedules, Cron!DeletePromptSchedule(s) PROVE CronInv'
    BY <1>3, DeleteKeeps
  <1>4. ASSUME NEW s \in Schedules, Cron!EnqueuePromptScheduleNow(s) PROVE CronInv'
    BY <1>4, EnqueueNowKeeps
  <1>5. ASSUME NEW a \in asked, Cron!CreatePromptSchedule(a) PROVE CronInv'
    BY <1>5, CreationKeeps
  <1> QED
    BY <1>1, <1>2, <1>3, <1>4, <1>5, AskKeeps, DueKeeps, TicketsKeep, ClockKeeps, WorldKeeps,
       RestartKeeps DEF Cron!Next

\* What is known of a store is what is promised of it.
LEMMA CronIsSafe ==
  ASSUME Cron!Limits, CronInv
  PROVE  /\ Cron!TypeOK /\ Cron!OneOpenTicket /\ Cron!OncePerRun
         /\ ~LateCreates => Cron!SchedulesSafe
  <1>1. others \in 0 .. ItemLimit
    <2>1. others \in Nat /\ tickets \in [Schedules -> 0 .. 1]  BY DEF CronInv
    <2>2. Cron!Queued(tickets) = others + Cardinality(Ticketed(tickets))
          /\ Cardinality(Ticketed(tickets)) \in Nat
      BY <2>1, QueuedCounts
    <2> QED  BY <2>1, <2>2 DEF CronInv, Cron!Limits
  <1>2. Cron!TypeOK  BY <1>1 DEF CronInv, ScheduleSet, Cron!TypeOK
  <1>3. Cron!OneOpenTicket  BY DEF CronInv, Cron!OneOpenTicket
  <1>4. Cron!OncePerRun
    <2> SUFFICES ASSUME NEW s \in Cron!Present, schedules[s].created > 0
                 PROVE  schedules[s].occurrences <=
                          Cardinality({t \in schedules[s].created .. clock :
                                         t % (2 * schedules[s].period) = 0})
      BY SameCount DEF Cron!OncePerRun
    <2> DEFINE c == schedules[s]
               times == {t \in c.created .. clock : t % (2 * c.period) = 0}
    <2>1. /\ c \in ScheduleSet /\ nextRun[s] \in Nat /\ clock \in Nat
          /\ OnTime(c, nextRun[s], clock)
      BY DEF CronInv, Documented, Listed, Cron!Present
    <2> HIDE DEF c
    <2>2. IsFiniteSet(times) /\ Over(c, nextRun[s], clock) \in SUBSET times
      <3>1. IsFiniteSet(c.created .. clock) /\ times \in SUBSET (c.created .. clock)
        BY <2>1, FS_Interval DEF ScheduleSet
      <3> QED  BY <3>1, FS_Subset DEF Over
    <2>3. Cardinality(Over(c, nextRun[s], clock)) <= Cardinality(times)  BY <2>2, FS_Subset
    <2>4. Cardinality(Over(c, nextRun[s], clock)) \in Nat /\ Cardinality(times) \in Nat
      BY <2>1, <2>2, OverFinite, FS_CardinalityType
    <2>5. c.created > 0  BY DEF c
    <2>6. c.occurrences <= Cardinality(times)
      BY <2>1, <2>3, <2>4, <2>5 DEF OnTime, ScheduleSet
    <2> QED  BY <2>6 DEF c
  <1>5. ~LateCreates => Cron!NeverWedged  BY DEF CronInv, Cron!NeverWedged
  <1> QED  BY <1>2, <1>3, <1>4, <1>5 DEF Cron!SchedulesSafe

\* The property of the run: the pass is never refused for a schedule, a schedule has one
\* open ticket and counts each run time once (enqueueDuePromptSchedules), when no creation
\* waits for the queue past its first run.
THEOREM SchedulesAreSafe ==
  ASSUME Cron!Limits, ~LateCreates
  PROVE  Cron!Spec => []Cron!SchedulesSafe
  <1>1. Cron!Init => CronInv  BY CronInit
  <1>2. CronInv /\ [Cron!Next]_(Cron!vars) => CronInv'  BY CronStep
  <1>3. CronInv => Cron!SchedulesSafe  BY CronIsSafe
  <1> QED  BY <1>1, <1>2, <1>3, PTL DEF Cron!Spec

\* The same of a server that finds any sound document, one of an older build included.
THEOREM SchedulesSafeFromAnyDocument ==
  ASSUME Cron!Limits, ~LateCreates
  PROVE  CronInv /\ [][Cron!Next]_(Cron!vars) => []Cron!SchedulesSafe
  <1>1. CronInv /\ [Cron!Next]_(Cron!vars) => CronInv'  BY CronStep
  <1>2. CronInv => Cron!SchedulesSafe  BY CronIsSafe
  <1> QED  BY <1>1, <1>2, PTL

\* Without that condition the pass may be refused; tickets and counts stay right.
THEOREM LateCreatesCountOnce ==
  ASSUME Cron!Limits
  PROVE  Cron!Spec => [](Cron!TypeOK /\ Cron!OneOpenTicket /\ Cron!OncePerRun)
  <1>1. Cron!Init => CronInv  BY CronInit
  <1>2. CronInv /\ [Cron!Next]_(Cron!vars) => CronInv'  BY CronStep
  <1>3. CronInv => Cron!TypeOK /\ Cron!OneOpenTicket /\ Cron!OncePerRun  BY CronIsSafe
  <1> QED  BY <1>1, <1>2, <1>3, PTL DEF Cron!Spec
================================================================================
