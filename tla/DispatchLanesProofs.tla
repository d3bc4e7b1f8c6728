-------------------------- MODULE DispatchLanesProofs --------------------------
(* Theorems about DispatchLanes for every number of passes and requests, every  *)
(* length of a text and every number of prompts and dispatches and, in the last *)
(* part, about the stream of snapshots for any tabs, domains and upsets.        *)
EXTENDS DispatchLanes, SequenceTheorems, TLAPS

--------------------------------------------------------------------------------
(* The inductive invariant.                                                     *)

\* The steps of processPromptQueue from the claim on, and those of dispatchMission
\* between its reservation and its end.
Serving == {"claiming", "preflight", "lane", "settle", "record"}
Dispatching == {"reserved", "observed", "queued", "snapshot", "preflight", "lane",
                "settle", "record", "leaving"}

\* Which actors a step belongs to.
Roles ==
  \A a \in Actors :
    /\ pc[a] \in {"observed", "queued"} => a \in Passes \cup {Dispatch}
    /\ pc[a] \in {"supervising", "supervised"} => a \in Supervising
    /\ pc[a] = "claiming" => a \in Passes

\* A text that is begun holds the pane's lane, and nobody typed after it.
TextHoldsPane ==
  \A a \in Actors \ Keys :
    chunk[a] > 0 => pc[a] = "lane" /\ Runs(paneLane, a) /\ author = a

\* The pass that serves a prompt runs the prompt queue's lane until it has recorded it.
PassHoldsLine ==
  \A p \in Passes : pc[p] \in Serving => Runs(promptLane, p)

\* A dispatch runs the mission lane and reserves the session; once it has been through
\* the prompt queue no pass is left that serves a prompt.
DispatchHoldsSession ==
  /\ pc[Dispatch] \in Dispatching => "mission" \in reserved /\ Runs(missionLane, Dispatch)
  /\ pc[Dispatch] \in {"snapshot"} \cup Serving => \A p \in Passes : pc[p] \notin Serving

Inv == TypeOK /\ Roles /\ TextHoldsPane /\ PassHoldsLine /\ DispatchHoldsSession

--------------------------------------------------------------------------------
(* The lanes.                                                                   *)

\* An operation is put behind those that wait; the one that runs goes on running.
LEMMA LaneAppend ==
  ASSUME NEW S, NEW l \in Seq(S), NEW x \in S
  PROVE  Append(l, x) \in Seq(S) /\ \A b : Runs(l, b) => Runs(Append(l, x), b)
  BY AppendProperties, HeadTailAppend DEF Runs

\* The operation that runs leaves its lane.
LEMMA LaneTail ==
  ASSUME NEW S, NEW l \in Seq(S), NEW x, Runs(l, x)
  PROVE  Tail(l) \in Seq(S) /\ x \in S
  BY HeadTailProperties DEF Runs

\* One operation runs at a time.
LEMMA OneRuns == ASSUME NEW l, NEW x, Runs(l, x) PROVE \A b : Runs(l, b) => b = x
  BY DEF Runs

\* Who the actors are.
LEMMA Members ==
  /\ Supervising \subseteq Passes /\ Passes \subseteq Actors /\ Sends \subseteq Actors
  /\ Keys \subseteq Actors /\ Dispatch \in Actors
  /\ Dispatch \notin Passes /\ Dispatch \notin Keys /\ Dispatch \notin Sends
  /\ Sends \cap Keys = {} /\ Sends \cap Passes = {} /\ Keys \cap Passes = {}
  /\ Actors = Passes \cup Sends \cup Keys \cup {Dispatch}
  /\ Chunks \in Nat \ {0} /\ MaxItems \in Nat /\ MaxDispatches \in Nat
  BY ConstantsAssumption DEF Actors

--------------------------------------------------------------------------------
(* Every action keeps the invariant.                                            *)

\* A pass looks at the workers.
LEMMA ObserveKeeps == ASSUME Inv, NEW a \in Actors, Observe(a) PROVE Inv'
  <1> USE DEF Observe, Go, At, lanes, line, term, watched
  <1>2. TypeOK' BY Members DEF Inv, TypeOK, Steps, Holding
  <1>3. Roles' BY Members DEF Inv, TypeOK, Roles
  <1>4. TextHoldsPane' BY Members DEF Inv, TypeOK, TextHoldsPane
  <1>5. PassHoldsLine' BY Members DEF Inv, TypeOK, Roles, PassHoldsLine, Serving
  <1>6. DispatchHoldsSession'
    BY Members DEF Inv, TypeOK, Roles, DispatchHoldsSession, PassHoldsLine, Serving,
       Dispatching
  <1>7. QED BY <1>2, <1>3, <1>4, <1>5, <1>6 DEF Inv

\* It joins the mission lane, running nothing yet.
LEMMA AskSupervisorKeeps == ASSUME Inv, NEW a \in Actors, AskSupervisor(a) PROVE Inv'
  <1> USE DEF AskSupervisor, Go, At, lanes, line, term, watched
  <1>1. /\ missionLane' \in Seq(Supervising \cup {Dispatch})
        /\ \A b : Runs(missionLane, b) => Runs(missionLane', b)
    <2>1. /\ a \in Supervising \cup {Dispatch}
          /\ missionLane \in Seq(Supervising \cup {Dispatch})
      BY Members DEF Inv, TypeOK, Roles
    <2>2. missionLane' = Append(missionLane, a) OBVIOUS
    <2>3. QED BY ONLY <2>1, <2>2, LaneAppend
  <1>2. TypeOK' BY <1>1, Members DEF Inv, TypeOK, Steps, Holding
  <1>3. Roles' BY Members DEF Inv, TypeOK, Roles
  <1>4. TextHoldsPane' BY <1>1, Members DEF Inv, TypeOK, TextHoldsPane
  <1>5. PassHoldsLine' BY <1>1, Members DEF Inv, TypeOK, Roles, PassHoldsLine, Serving
  <1>6. DispatchHoldsSession'
    BY <1>1, Members DEF Inv, TypeOK, Roles, DispatchHoldsSession, PassHoldsLine,
       Serving, Dispatching
  <1>7. QED BY <1>2, <1>3, <1>4, <1>5, <1>6 DEF Inv

\* The Supervisor's operation leaves the mission lane, which no dispatch was running.
LEMMA SupervisedKeeps == ASSUME Inv, NEW a \in Actors, Supervised(a) PROVE Inv'
  <1> USE DEF Supervised, Go, At, lanes, line, term, watched
  <1>1. /\ missionLane' \in Seq(Supervising \cup {Dispatch})
        /\ \A b : Runs(missionLane, b) => b = a
    <2>1. missionLane \in Seq(Supervising \cup {Dispatch}) /\ Runs(missionLane, a)
      BY Members DEF Inv, TypeOK, Roles, PassHoldsLine, DispatchHoldsSession,
         Serving, Dispatching
    <2>2. missionLane' = Tail(missionLane) OBVIOUS
    <2>3. QED BY ONLY <2>1, <2>2, LaneTail, OneRuns
  <1>2. TypeOK' BY <1>1, Members DEF Inv, TypeOK, Steps, Holding
  <1>3. Roles' BY Members DEF Inv, TypeOK, Roles
  <1>4. TextHoldsPane' BY <1>1, Members DEF Inv, TypeOK, TextHoldsPane
  <1>5. PassHoldsLine' BY <1>1, Members DEF Inv, TypeOK, Roles, PassHoldsLine, Serving
  <1>6. DispatchHoldsSession'
    BY <1>1, Members DEF Inv, TypeOK, Roles, DispatchHoldsSession, PassHoldsLine,
       Serving, Dispatching
  <1>7. QED BY <1>2, <1>3, <1>4, <1>5, <1>6 DEF Inv

\* It joins the prompt queue's lane.
LEMMA AskPromptQueueKeeps == ASSUME Inv, NEW a \in Actors, AskPromptQueue(a) PROVE
   Inv'
  <1> USE DEF AskPromptQueue, Go, At, lanes, line, term, watched
  <1>1. /\ promptLane' \in Seq(Passes \cup {Dispatch})
        /\ \A b : Runs(promptLane, b) => Runs(promptLane', b)
    <2>1. a \in Passes \cup {Dispatch} /\ promptLane \in Seq(Passes \cup {Dispatch})
      BY Members DEF Inv, TypeOK, Roles
    <2>2. promptLane' = Append(promptLane, a) OBVIOUS
    <2>3. QED BY ONLY <2>1, <2>2, LaneAppend
  <1>2. TypeOK' BY <1>1, Members DEF Inv, TypeOK, Steps, Holding
  <1>3. Roles' BY Members DEF Inv, TypeOK, Roles
  <1>4. TextHoldsPane' BY <1>1, Members DEF Inv, TypeOK, TextHoldsPane
  <1>5. PassHoldsLine' BY <1>1, Members DEF Inv, TypeOK, Roles, PassHoldsLine, Serving
  <1>6. DispatchHoldsSession'
    BY <1>1, Members DEF Inv, TypeOK, Roles, DispatchHoldsSession, PassHoldsLine,
       Serving, Dispatching
  <1>7. QED BY <1>2, <1>3, <1>4, <1>5, <1>6 DEF Inv

\* A pass that releases nothing leaves the lane, and so no pass is left that serves.
LEMMA PassOverKeeps == ASSUME Inv, NEW a \in Actors, PassOver(a) PROVE Inv'
  <1> USE DEF PassOver, Go, At, lanes, line, term, watched, Blocked
  <1>1. /\ promptLane' \in Seq(Passes \cup {Dispatch})
        /\ \A b : Runs(promptLane, b) => b = a
    <2>1. promptLane \in Seq(Passes \cup {Dispatch}) /\ Runs(promptLane, a)
      BY Members DEF Inv, TypeOK, Roles, PassHoldsLine, DispatchHoldsSession,
         Serving, Dispatching
    <2>2. promptLane' = Tail(promptLane) OBVIOUS
    <2>3. QED BY ONLY <2>1, <2>2, LaneTail, OneRuns
  <1>2. TypeOK' BY <1>1, Members DEF Inv, TypeOK, Steps, Holding
  <1>3. Roles' BY Members DEF Inv, TypeOK, Roles
  <1>4. TextHoldsPane' BY <1>1, Members DEF Inv, TypeOK, TextHoldsPane
  <1>5. PassHoldsLine' BY <1>1, Members DEF Inv, TypeOK, Roles, PassHoldsLine, Serving
  <1>6. DispatchHoldsSession'
    BY <1>1, Members DEF Inv, TypeOK, Roles, DispatchHoldsSession, PassHoldsLine,
       Serving, Dispatching
  <1>7. QED BY <1>2, <1>3, <1>4, <1>5, <1>6 DEF Inv

\* A claim begins with nothing reserved, so while no dispatch is at work.
LEMMA BeginClaimKeeps == ASSUME Inv, NEW a \in Actors, BeginClaim(a) PROVE Inv'
  <1> USE DEF BeginClaim, Go, At, lanes, line, term, watched, Blocked
  <1>2. TypeOK' BY Members DEF Inv, TypeOK, Steps, Holding
  <1>3. Roles' BY Members DEF Inv, TypeOK, Roles, DispatchHoldsSession, Dispatching
  <1>4. TextHoldsPane' BY Members DEF Inv, TypeOK, TextHoldsPane
  <1>5. PassHoldsLine' BY Members DEF Inv, TypeOK, Roles, PassHoldsLine, Serving
  <1>6. DispatchHoldsSession'
    BY Members DEF Inv, TypeOK, Roles, DispatchHoldsSession, PassHoldsLine, Serving,
       Dispatching
  <1>7. QED BY <1>2, <1>3, <1>4, <1>5, <1>6 DEF Inv

\* The claim holds the lane, or gives it up.
LEMMA ClaimKeeps == ASSUME Inv, NEW a \in Actors, Claim(a) PROVE Inv'
  <1> USE DEF Claim, Go, At, lanes, line, term, watched
  <1>1. /\ promptLane' \in Seq(Passes \cup {Dispatch})
        /\ \A b : Runs(promptLane, b) => b = a
    <2>1. promptLane \in Seq(Passes \cup {Dispatch}) /\ Runs(promptLane, a)
      BY Members DEF Inv, TypeOK, Roles, PassHoldsLine, DispatchHoldsSession,
         Serving, Dispatching
    <2>2. promptLane' \in {promptLane, Tail(promptLane)} OBVIOUS
    <2>3. QED BY ONLY <2>1, <2>2, LaneTail, OneRuns
  <1>2. TypeOK'
    <2>1. pc' \in [Actors -> Steps] BY DEF Inv, TypeOK, Steps
    <2>2. QED BY <1>1, <2>1, Members DEF Inv, TypeOK, Holding
  <1>3. Roles' BY Members DEF Inv, TypeOK, Roles
  <1>4. TextHoldsPane' BY <1>1, Members DEF Inv, TypeOK, TextHoldsPane
  <1>5. PassHoldsLine' BY <1>1, Members DEF Inv, TypeOK, Roles, PassHoldsLine, Serving
  <1>6. DispatchHoldsSession'
    BY <1>1, Members DEF Inv, TypeOK, Roles, DispatchHoldsSession, PassHoldsLine,
       Serving, Dispatching
  <1>7. QED BY <1>2, <1>3, <1>4, <1>5, <1>6 DEF Inv

\* The outcome is written and the lane given up.
LEMMA RecordPromptKeeps == ASSUME Inv, NEW a \in Actors, RecordPrompt(a) PROVE Inv'
  <1> USE DEF RecordPrompt, Go, At, lanes, line, term, watched
  <1>1. /\ promptLane' \in Seq(Passes \cup {Dispatch})
        /\ \A b : Runs(promptLane, b) => b = a
    <2>1. promptLane \in Seq(Passes \cup {Dispatch}) /\ Runs(promptLane, a)
      BY Members DEF Inv, TypeOK, Roles, PassHoldsLine, DispatchHoldsSession,
         Serving, Dispatching
    <2>2. promptLane' = Tail(promptLane) OBVIOUS
    <2>3. QED BY ONLY <2>1, <2>2, LaneTail, OneRuns
  <1>2. TypeOK' BY <1>1, Members DEF Inv, TypeOK, Steps, Holding
  <1>3. Roles' BY Members DEF Inv, TypeOK, Roles
  <1>4. TextHoldsPane' BY <1>1, Members DEF Inv, TypeOK, TextHoldsPane
  <1>5. PassHoldsLine' BY <1>1, Members DEF Inv, TypeOK, Roles, PassHoldsLine, Serving
  <1>6. DispatchHoldsSession'
    BY <1>1, Members DEF Inv, TypeOK, Roles, DispatchHoldsSession, PassHoldsLine,
       Serving, Dispatching
  <1>7. QED BY <1>2, <1>3, <1>4, <1>5, <1>6 DEF Inv

\* A dispatch joins the mission lane.
LEMMA AskDispatchKeeps == ASSUME Inv, AskDispatch PROVE Inv'
  <1> USE DEF AskDispatch, Go, At, lanes, line, term, watched
  <1>1. /\ missionLane' \in Seq(Supervising \cup {Dispatch})
        /\ \A b : Runs(missionLane, b) => Runs(missionLane', b)
    <2>1. Dispatch \in Supervising \cup {Dispatch} /\ missionLane \in
       Seq(Supervising \cup {Dispatch})
      BY Members DEF Inv, TypeOK, Roles
    <2>2. missionLane' = Append(missionLane, Dispatch) OBVIOUS
    <2>3. QED BY ONLY <2>1, <2>2, LaneAppend
  <1>2. TypeOK' BY <1>1, Members DEF Inv, TypeOK, Steps, Holding
  <1>3. Roles' BY Members DEF Inv, TypeOK, Roles
  <1>4. TextHoldsPane' BY <1>1, Members DEF Inv, TypeOK, TextHoldsPane
  <1>5. PassHoldsLine' BY <1>1, Members DEF Inv, TypeOK, Roles, PassHoldsLine, Serving
  <1>6. DispatchHoldsSession'
    BY <1>1, Members DEF Inv, TypeOK, Roles, DispatchHoldsSession, PassHoldsLine,
       Serving, Dispatching
  <1>7. QED BY <1>2, <1>3, <1>4, <1>5, <1>6 DEF Inv

\* A dispatch that is refused leaves the lane it runs.
LEMMA RefuseKeeps == ASSUME Inv, Refuse PROVE Inv'
  <1> USE DEF Refuse, Go, At, lanes, line, term, watched
  <1>1. /\ missionLane' \in Seq(Supervising \cup {Dispatch})
        /\ \A b : Runs(missionLane, b) => b = Dispatch
    <2>1. missionLane \in Seq(Supervising \cup {Dispatch}) /\ Runs(missionLane,
       Dispatch)
      BY Members DEF Inv, TypeOK, Roles, PassHoldsLine, DispatchHoldsSession,
         Serving, Dispatching
    <2>2. missionLane' = Tail(missionLane) OBVIOUS
    <2>3. QED BY ONLY <2>1, <2>2, LaneTail, OneRuns
  <1>2. TypeOK' BY <1>1, Members DEF Inv, TypeOK, Steps, Holding
  <1>3. Roles' BY Members DEF Inv, TypeOK, Roles
  <1>4. TextHoldsPane' BY <1>1, Members DEF Inv, TypeOK, TextHoldsPane
  <1>5. PassHoldsLine' BY <1>1, Members DEF Inv, TypeOK, Roles, PassHoldsLine, Serving
  <1>6. DispatchHoldsSession'
    BY <1>1, Members DEF Inv, TypeOK, Roles, DispatchHoldsSession, PassHoldsLine,
       Serving, Dispatching
  <1>7. QED BY <1>2, <1>3, <1>4, <1>5, <1>6 DEF Inv

\* The session is reserved by the dispatch that runs the mission lane.
LEMMA ReserveKeeps == ASSUME Inv, Reserve PROVE Inv'
  <1> USE DEF Reserve, Go, At, lanes, line, term, watched
  <1>2. TypeOK' BY Members DEF Inv, TypeOK, Steps, Holding
  <1>3. Roles' BY Members DEF Inv, TypeOK, Roles
  <1>4. TextHoldsPane' BY Members DEF Inv, TypeOK, TextHoldsPane
  <1>5. PassHoldsLine' BY Members DEF Inv, TypeOK, Roles, PassHoldsLine, Serving
  <1>6. DispatchHoldsSession'
    BY Members DEF Inv, TypeOK, Roles, DispatchHoldsSession, PassHoldsLine, Serving,
       Dispatching
  <1>7. QED BY <1>2, <1>3, <1>4, <1>5, <1>6 DEF Inv

\* The dispatch takes its snapshot.
LEMMA LookAtWorkerKeeps == ASSUME Inv, LookAtWorker PROVE Inv'
  <1> USE DEF LookAtWorker, Go, At, lanes, line, term, watched
  <1>2. TypeOK' BY Members DEF Inv, TypeOK, Steps, Holding
  <1>3. Roles' BY Members DEF Inv, TypeOK, Roles
  <1>4. TextHoldsPane' BY Members DEF Inv, TypeOK, TextHoldsPane
  <1>5. PassHoldsLine' BY Members DEF Inv, TypeOK, Roles, PassHoldsLine, Serving
  <1>6. DispatchHoldsSession'
    BY Members DEF Inv, TypeOK, Roles, DispatchHoldsSession, PassHoldsLine, Serving,
       Dispatching
  <1>7. QED BY <1>2, <1>3, <1>4, <1>5, <1>6 DEF Inv

\* The mission is claimed once no pass serves.
LEMMA ClaimMissionKeeps == ASSUME Inv, ClaimMission PROVE Inv'
  <1> USE DEF ClaimMission, Go, At, lanes, line, term, watched, Holding
  <1>2. TypeOK' BY Members DEF Inv, TypeOK, Steps, Holding
  <1>3. Roles' BY Members DEF Inv, TypeOK, Roles
  <1>4. TextHoldsPane' BY Members DEF Inv, TypeOK, TextHoldsPane
  <1>5. PassHoldsLine' BY Members DEF Inv, TypeOK, Roles, PassHoldsLine, Serving
  <1>6. DispatchHoldsSession'
    BY Members DEF Inv, TypeOK, Roles, DispatchHoldsSession, PassHoldsLine, Serving,
       Dispatching
  <1>7. QED BY <1>2, <1>3, <1>4, <1>5, <1>6 DEF Inv

\* Its outcome is written.
LEMMA RecordMissionKeeps == ASSUME Inv, RecordMission PROVE Inv'
  <1> USE DEF RecordMission, Go, At, lanes, line, term, watched, Holding
  <1>2. TypeOK' BY Members DEF Inv, TypeOK, Steps, Holding
  <1>3. Roles' BY Members DEF Inv, TypeOK, Roles
  <1>4. TextHoldsPane' BY Members DEF Inv, TypeOK, TextHoldsPane
  <1>5. PassHoldsLine' BY Members DEF Inv, TypeOK, Roles, PassHoldsLine, Serving
  <1>6. DispatchHoldsSession'
    BY Members DEF Inv, TypeOK, Roles, DispatchHoldsSession, PassHoldsLine, Serving,
       Dispatching
  <1>7. QED BY <1>2, <1>3, <1>4, <1>5, <1>6 DEF Inv

\* Its reservation ends with its operation.
LEMMA EndDispatchKeeps == ASSUME Inv, EndDispatch PROVE Inv'
  <1> USE DEF EndDispatch, Go, At, lanes, line, term, watched
  <1>1. /\ missionLane' \in Seq(Supervising \cup {Dispatch})
        /\ \A b : Runs(missionLane, b) => b = Dispatch
    <2>1. missionLane \in Seq(Supervising \cup {Dispatch}) /\ Runs(missionLane,
       Dispatch)
      BY Members DEF Inv, TypeOK, Roles, PassHoldsLine, DispatchHoldsSession,
         Serving, Dispatching
    <2>2. missionLane' = Tail(missionLane) OBVIOUS
    <2>3. QED BY ONLY <2>1, <2>2, LaneTail, OneRuns
  <1>2. TypeOK' BY <1>1, Members DEF Inv, TypeOK, Steps, Holding
  <1>3. Roles' BY Members DEF Inv, TypeOK, Roles
  <1>4. TextHoldsPane' BY <1>1, Members DEF Inv, TypeOK, TextHoldsPane
  <1>5. PassHoldsLine' BY <1>1, Members DEF Inv, TypeOK, Roles, PassHoldsLine, Serving
  <1>6. DispatchHoldsSession'
    BY <1>1, Members DEF Inv, TypeOK, Roles, DispatchHoldsSession, PassHoldsLine,
       Serving, Dispatching
  <1>7. QED BY <1>2, <1>3, <1>4, <1>5, <1>6 DEF Inv

\* A request passes its first check.
LEMMA AskKeeps == ASSUME Inv, NEW a \in Actors, Ask(a) PROVE Inv'
  <1> USE DEF Ask, Go, At, lanes, line, term, watched, MayType
  <1>2. TypeOK' BY Members DEF Inv, TypeOK, Steps, Holding
  <1>3. Roles' BY Members DEF Inv, TypeOK, Roles
  <1>4. TextHoldsPane' BY Members DEF Inv, TypeOK, TextHoldsPane
  <1>5. PassHoldsLine' BY Members DEF Inv, TypeOK, Roles, PassHoldsLine, Serving
  <1>6. DispatchHoldsSession'
    BY Members DEF Inv, TypeOK, Roles, DispatchHoldsSession, PassHoldsLine, Serving,
       Dispatching
  <1>7. QED BY <1>2, <1>3, <1>4, <1>5, <1>6 DEF Inv

\* A request is turned down.
LEMMA TurnedKeeps == ASSUME Inv, NEW a \in Actors, Turned(a) PROVE Inv'
  <1> USE DEF Turned, Go, At, lanes, line, term, watched
  <1>2. TypeOK' BY Members DEF Inv, TypeOK, Steps, Holding
  <1>3. Roles' BY Members DEF Inv, TypeOK, Roles
  <1>4. TextHoldsPane' BY Members DEF Inv, TypeOK, TextHoldsPane
  <1>5. PassHoldsLine' BY Members DEF Inv, TypeOK, Roles, PassHoldsLine, Serving
  <1>6. DispatchHoldsSession'
    BY Members DEF Inv, TypeOK, Roles, DispatchHoldsSession, PassHoldsLine, Serving,
       Dispatching
  <1>7. QED BY <1>2, <1>3, <1>4, <1>5, <1>6 DEF Inv

\* A send reserves the session.
LEMMA ReserveSendKeeps == ASSUME Inv, NEW a \in Actors, ReserveSend(a) PROVE Inv'
  <1> USE DEF ReserveSend, Go, At, lanes, line, term, watched
  <1>2. TypeOK' BY Members DEF Inv, TypeOK, Steps, Holding
  <1>3. Roles' BY Members DEF Inv, TypeOK, Roles
  <1>4. TextHoldsPane' BY Members DEF Inv, TypeOK, TextHoldsPane
  <1>5. PassHoldsLine' BY Members DEF Inv, TypeOK, Roles, PassHoldsLine, Serving
  <1>6. DispatchHoldsSession'
    BY Members DEF Inv, TypeOK, Roles, DispatchHoldsSession, PassHoldsLine, Serving,
       Dispatching
  <1>7. QED BY <1>2, <1>3, <1>4, <1>5, <1>6 DEF Inv

\* A key joins the pane's lane.
LEMMA QueueKeyKeeps == ASSUME Inv, NEW a \in Actors, QueueKey(a) PROVE Inv'
  <1> USE DEF QueueKey, Go, At, lanes, line, term, watched
  <1>1. /\ paneLane' \in Seq(Actors)
        /\ \A b : Runs(paneLane, b) => Runs(paneLane', b)
    <2>1. a \in Actors /\ paneLane \in Seq(Actors)
      BY Members DEF Inv, TypeOK, Roles
    <2>2. paneLane' = Append(paneLane, a) OBVIOUS
    <2>3. QED BY ONLY <2>1, <2>2, LaneAppend
  <1>2. TypeOK' BY <1>1, Members DEF Inv, TypeOK, Steps, Holding
  <1>3. Roles' BY Members DEF Inv, TypeOK, Roles
  <1>4. TextHoldsPane' BY <1>1, Members DEF Inv, TypeOK, TextHoldsPane
  <1>5. PassHoldsLine' BY <1>1, Members DEF Inv, TypeOK, Roles, PassHoldsLine, Serving
  <1>6. DispatchHoldsSession'
    BY <1>1, Members DEF Inv, TypeOK, Roles, DispatchHoldsSession, PassHoldsLine,
       Serving, Dispatching
  <1>7. QED BY <1>2, <1>3, <1>4, <1>5, <1>6 DEF Inv

\* The key that runs the pane's lane is pressed: no text is begun.
LEMMA PressKeeps == ASSUME Inv, NEW a \in Actors, Press(a) PROVE Inv'
  <1> USE DEF Press, Go, At, lanes, line, term, watched
  <1>1. /\ paneLane' \in Seq(Actors)
        /\ \A b : Runs(paneLane, b) => b = a
    <2>1. paneLane \in Seq(Actors) /\ Runs(paneLane, a)
      BY Members DEF Inv, TypeOK, Roles, PassHoldsLine, DispatchHoldsSession,
         Serving, Dispatching
    <2>2. paneLane' = Tail(paneLane) OBVIOUS
    <2>3. QED BY ONLY <2>1, <2>2, LaneTail, OneRuns
  <1>2. TypeOK' BY <1>1, Members DEF Inv, TypeOK, Steps, Holding
  <1>3. Roles' BY Members DEF Inv, TypeOK, Roles
  <1>4. TextHoldsPane' BY <1>1, Members DEF Inv, TypeOK, TextHoldsPane
  <1>5. PassHoldsLine' BY <1>1, Members DEF Inv, TypeOK, Roles, PassHoldsLine, Serving
  <1>6. DispatchHoldsSession'
    BY <1>1, Members DEF Inv, TypeOK, Roles, DispatchHoldsSession, PassHoldsLine,
       Serving, Dispatching
  <1>7. QED BY <1>2, <1>3, <1>4, <1>5, <1>6 DEF Inv

\* A delivery joins the pane's lane, or has failed before it.
LEMMA PreflightKeeps == ASSUME Inv, NEW a \in Actors, Preflight(a) PROVE Inv'
  <1> USE DEF Preflight, Go, At, lanes, line, term, watched
  <1>1. /\ paneLane' \in Seq(Actors)
        /\ \A b : Runs(paneLane, b) => Runs(paneLane', b)
    <2>1. a \in Actors /\ paneLane \in Seq(Actors)
      BY Members DEF Inv, TypeOK, Roles
    <2>2. paneLane' \in {paneLane, Append(paneLane, a)} OBVIOUS
    <2>3. QED BY ONLY <2>1, <2>2, LaneAppend
  <1>2. TypeOK'
    <2>1. pc' \in [Actors -> Steps] BY DEF Inv, TypeOK, Steps
    <2>2. QED BY <1>1, <2>1, Members DEF Inv, TypeOK, Holding
  <1>3. Roles' BY Members DEF Inv, TypeOK, Roles
  <1>4. TextHoldsPane' BY <1>1, Members DEF Inv, TypeOK, TextHoldsPane
  <1>5. PassHoldsLine' BY <1>1, Members DEF Inv, TypeOK, Roles, PassHoldsLine, Serving
  <1>6. DispatchHoldsSession'
    BY <1>1, Members DEF Inv, TypeOK, Roles, DispatchHoldsSession, PassHoldsLine,
       Serving, Dispatching
  <1>7. QED BY <1>2, <1>3, <1>4, <1>5, <1>6 DEF Inv

\* A chunk is typed by the one that runs the pane's lane.
LEMMA TypeKeeps == ASSUME Inv, NEW a \in Actors, Type(a) PROVE Inv'
  <1> USE DEF Type, Go, At, lanes, line, term, watched
  <1>2. TypeOK' BY Members DEF Inv, TypeOK, Steps, Holding
  <1>3. Roles' BY Members DEF Inv, TypeOK, Roles
  <1>1. \A b : Runs(paneLane, b) => b = a BY OneRuns
  <1>4. TextHoldsPane' BY <1>1, Members DEF Inv, TypeOK, TextHoldsPane
  <1>5. PassHoldsLine' BY <1>1, Members DEF Inv, TypeOK, Roles, PassHoldsLine, Serving
  <1>6. DispatchHoldsSession'
    BY <1>1, Members DEF Inv, TypeOK, Roles, DispatchHoldsSession, PassHoldsLine,
       Serving, Dispatching
  <1>7. QED BY <1>2, <1>3, <1>4, <1>5, <1>6 DEF Inv

\* The text is complete and leaves the pane.
LEMMA EnterKeeps == ASSUME Inv, NEW a \in Actors, Enter(a) PROVE Inv'
  <1> USE DEF Enter, Go, At, lanes, line, term, watched
  <1>1. /\ paneLane' \in Seq(Actors)
        /\ \A b : Runs(paneLane, b) => b = a
    <2>1. paneLane \in Seq(Actors) /\ Runs(paneLane, a)
      BY Members DEF Inv, TypeOK, Roles, PassHoldsLine, DispatchHoldsSession,
         Serving, Dispatching
    <2>2. paneLane' = Tail(paneLane) OBVIOUS
    <2>3. QED BY ONLY <2>1, <2>2, LaneTail, OneRuns
  <1>2. TypeOK' BY <1>1, Members DEF Inv, TypeOK, Steps, Holding
  <1>3. Roles' BY Members DEF Inv, TypeOK, Roles
  <1>4. TextHoldsPane' BY <1>1, Members DEF Inv, TypeOK, TextHoldsPane
  <1>5. PassHoldsLine' BY <1>1, Members DEF Inv, TypeOK, Roles, PassHoldsLine, Serving
  <1>6. DispatchHoldsSession'
    BY <1>1, Members DEF Inv, TypeOK, Roles, DispatchHoldsSession, PassHoldsLine,
       Serving, Dispatching
  <1>7. QED BY <1>2, <1>3, <1>4, <1>5, <1>6 DEF Inv

\* The text is given up and leaves the pane.
LEMMA GiveUpKeeps == ASSUME Inv, NEW a \in Actors, GiveUp(a) PROVE Inv'
  <1> USE DEF GiveUp, Go, At, lanes, line, term, watched
  <1>1. /\ paneLane' \in Seq(Actors)
        /\ \A b : Runs(paneLane, b) => b = a
    <2>1. paneLane \in Seq(Actors) /\ Runs(paneLane, a)
      BY Members DEF Inv, TypeOK, Roles, PassHoldsLine, DispatchHoldsSession,
         Serving, Dispatching
    <2>2. paneLane' = Tail(paneLane) OBVIOUS
    <2>3. QED BY ONLY <2>1, <2>2, LaneTail, OneRuns
  <1>2. TypeOK' BY <1>1, Members DEF Inv, TypeOK, Steps, Holding
  <1>3. Roles' BY Members DEF Inv, TypeOK, Roles
  <1>4. TextHoldsPane' BY <1>1, Members DEF Inv, TypeOK, TextHoldsPane
  <1>5. PassHoldsLine' BY <1>1, Members DEF Inv, TypeOK, Roles, PassHoldsLine, Serving
  <1>6. DispatchHoldsSession'
    BY <1>1, Members DEF Inv, TypeOK, Roles, DispatchHoldsSession, PassHoldsLine,
       Serving, Dispatching
  <1>7. QED BY <1>2, <1>3, <1>4, <1>5, <1>6 DEF Inv

\* The reservation of a prompt or send ends.
LEMMA SettleKeeps == ASSUME Inv, NEW a \in Actors, Settle(a) PROVE Inv'
  <1> USE DEF Settle, Go, At, lanes, line, term, watched
  <1>2. TypeOK' BY Members DEF Inv, TypeOK, Steps, Holding
  <1>3. Roles' BY Members DEF Inv, TypeOK, Roles
  <1>4. TextHoldsPane' BY Members DEF Inv, TypeOK, TextHoldsPane
  <1>5. PassHoldsLine' BY Members DEF Inv, TypeOK, Roles, PassHoldsLine, Serving
  <1>6. DispatchHoldsSession'
    BY Members DEF Inv, TypeOK, Roles, DispatchHoldsSession, PassHoldsLine, Serving,
       Dispatching
  <1>7. QED BY <1>2, <1>3, <1>4, <1>5, <1>6 DEF Inv

\* The worker stops.
LEMMA WorkerStopsKeeps == ASSUME Inv, WorkerStops PROVE Inv'
  <1> USE DEF WorkerStops, Go, At, lanes, line, term, watched
  <1>2. TypeOK' BY Members DEF Inv, TypeOK, Steps, Holding
  <1>3. Roles' BY Members DEF Inv, TypeOK, Roles
  <1>4. TextHoldsPane' BY Members DEF Inv, TypeOK, TextHoldsPane
  <1>5. PassHoldsLine' BY Members DEF Inv, TypeOK, Roles, PassHoldsLine, Serving
  <1>6. DispatchHoldsSession'
    BY Members DEF Inv, TypeOK, Roles, DispatchHoldsSession, PassHoldsLine, Serving,
       Dispatching
  <1>7. QED BY <1>2, <1>3, <1>4, <1>5, <1>6 DEF Inv

\* A prompt is queued.
LEMMA NewItemKeeps == ASSUME Inv, NewItem PROVE Inv'
  <1> USE DEF NewItem, Go, At, lanes, line, term, watched
  <1>2. TypeOK' BY Members DEF Inv, TypeOK, Steps, Holding
  <1>3. Roles' BY Members DEF Inv, TypeOK, Roles
  <1>4. TextHoldsPane' BY Members DEF Inv, TypeOK, TextHoldsPane
  <1>5. PassHoldsLine' BY Members DEF Inv, TypeOK, Roles, PassHoldsLine, Serving
  <1>6. DispatchHoldsSession'
    BY Members DEF Inv, TypeOK, Roles, DispatchHoldsSession, PassHoldsLine, Serving,
       Dispatching
  <1>7. QED BY <1>2, <1>3, <1>4, <1>5, <1>6 DEF Inv

\* A mission is ended or released.
LEMMA MissionFreedKeeps == ASSUME Inv, MissionFreed PROVE Inv'
  <1> USE DEF MissionFreed, Go, At, lanes, line, term, watched, Holding
  <1>2. TypeOK' BY Members DEF Inv, TypeOK, Steps, Holding
  <1>3. Roles' BY Members DEF Inv, TypeOK, Roles
  <1>4. TextHoldsPane' BY Members DEF Inv, TypeOK, TextHoldsPane
  <1>5. PassHoldsLine' BY Members DEF Inv, TypeOK, Roles, PassHoldsLine, Serving
  <1>6. DispatchHoldsSession'
    BY Members DEF Inv, TypeOK, Roles, DispatchHoldsSession, PassHoldsLine, Serving,
       Dispatching
  <1>7. QED BY <1>2, <1>3, <1>4, <1>5, <1>6 DEF Inv

--------------------------------------------------------------------------------
(* The theorems.                                                                *)

\* It holds at the start.
LEMMA InvInit == Init => Inv
  <1> SUFFICES ASSUME Init PROVE Inv OBVIOUS
  <1>1. /\ promptLane \in Seq(Passes \cup {Dispatch})
        /\ missionLane \in Seq(Supervising \cup {Dispatch}) /\ paneLane \in Seq(Actors)
    <2>1. \A S : <<>> \in Seq(S) OBVIOUS
    <2>2. QED BY <2>1 DEF Init
  <1>2. pc \in [Actors -> Steps] BY DEF Init, Steps
  <1>3. sample \in [Actors -> BOOLEAN] /\ chunk \in [Actors -> 0..Chunks]
    BY Members DEF Init
  <1>4. TypeOK
    <2>1. /\ reserved \subseteq {"mission", "prompt"} /\ item = "none"
          /\ observed = 0 /\ items = 0 /\ mission = "ready" /\ busy = FALSE
          /\ author = Dispatch /\ later = {} /\ asked = 0
      BY DEF Init
    <2>2. observed \in {0, 1} /\ items \in 0..MaxItems /\ asked \in 0..MaxDispatches
      BY <2>1, Members
    <2>3. later \subseteq Passes \cup {Dispatch} /\ mission \in Holding \cup {"ready"}
      BY <2>1
    <2>4. QED BY <1>1, <1>2, <1>3, <2>1, <2>2, <2>3, Members DEF TypeOK
  <1>5. \A a \in Actors : pc[a] = "off" /\ chunk[a] = 0 BY DEF Init
  <1>6. Roles /\ TextHoldsPane /\ PassHoldsLine /\ DispatchHoldsSession
    BY <1>5, Members DEF Roles, TextHoldsPane, PassHoldsLine, DispatchHoldsSession,
       Serving, Dispatching
  <1>7. QED BY <1>4, <1>6 DEF Inv

\* Every step keeps it.
LEMMA InvStep == Inv /\ [Next]_vars => Inv'
  <1> SUFFICES ASSUME Inv, [Next]_vars PROVE Inv' OBVIOUS
  <1>1. CASE Begin BY <1>1, ObserveKeeps, AskKeeps, AskDispatchKeeps DEF Begin
  <1>2. CASE \E a \in Actors : Continue(a)
    <2>1. PICK a \in Actors : Continue(a) BY <1>2
    <2>2. CASE Deliver(a)
      BY <2>2, PreflightKeeps, TypeKeeps, EnterKeeps, GiveUpKeeps, SettleKeeps
      DEF Deliver
    <2>3. CASE AskSupervisor(a) \/ Supervised(a) \/ AskPromptQueue(a) \/ PassOver(a)
      BY <2>3, AskSupervisorKeeps, SupervisedKeeps, AskPromptQueueKeeps, PassOverKeeps
    <2>4. CASE BeginClaim(a) \/ Claim(a) \/ RecordPrompt(a)
      BY <2>4, BeginClaimKeeps, ClaimKeeps, RecordPromptKeeps
    <2>5. CASE Turned(a) \/ ReserveSend(a) \/ QueueKey(a) \/ Press(a)
      BY <2>5, TurnedKeeps, ReserveSendKeeps, QueueKeyKeeps, PressKeeps
    <2>6. QED BY <2>1, <2>2, <2>3, <2>4, <2>5 DEF Continue
  <1>3. CASE DispatchStep
    BY <1>3, RefuseKeeps, ReserveKeeps, LookAtWorkerKeeps, ClaimMissionKeeps,
       RecordMissionKeeps, EndDispatchKeeps DEF DispatchStep
  <1>4. CASE WorkerStops BY <1>4, WorkerStopsKeeps
  <1>5. CASE NewItem BY <1>5, NewItemKeeps
  <1>6. CASE MissionFreed BY <1>6, MissionFreedKeeps
  <1>7. CASE UNCHANGED vars
    <2> USE <1>7 DEF vars, lanes, line, term, watched
    <2>1. TypeOK' BY DEF Inv, TypeOK
    <2>2. Roles' BY DEF Inv, Roles
    <2>3. TextHoldsPane' BY DEF Inv, TextHoldsPane
    <2>4. PassHoldsLine' BY DEF Inv, PassHoldsLine
    <2>5. DispatchHoldsSession' BY DEF Inv, DispatchHoldsSession
    <2>6. QED BY <2>1, <2>2, <2>3, <2>4, <2>5 DEF Inv
  <1>8. QED BY <1>1, <1>2, <1>3, <1>4, <1>5, <1>6, <1>7 DEF Next

\* In every reachable state the lanes and reservations are as the invariant says
\* (enqueueSessionOperation, promptQueueReservations, missionReservations).
THEOREM InvHolds == Spec => []Inv
  <1>1. QED BY InvInit, InvStep, PTL DEF Spec

\* For every number of passes and requests and every length of a text: the pane gets
\* one text at a time, and a queued prompt is never on its way to the worker while a
\* mission is (deliverTextToAgent, processPromptQueue, dispatchMission).
THEOREM LanesAreSafe == Spec => []LanesSafe
  <1>1. Inv => LanesSafe
    BY Members DEF Inv, LanesSafe, TextHoldsPane, NoMergedKeystrokes,
       DispatchHoldsSession, PromptsYieldToMission, Delivering, Serving
  <1>2. QED BY <1>1, InvHolds, PTL

--------------------------------------------------------------------------------
(* The stream of snapshots: the theorems of SnapshotStream, an instance of which *)
(* the rest of this module is about.                                            *)

CONSTANTS Browsers, Domains, MaxSafe, MaxChanges, MaxFaults, MaxLoads
VARIABLES host, stream, cached, pending, readings, timer, clients, wire, sent, tab, left

View == INSTANCE SnapshotStream WITH observed <- readings

\* What a domain shows, a snapshot of all domains, and one that is being read.
Value == 0 .. MaxChanges + 1
Whole == [Domains -> Value]
Part == View!FieldsType

\* The types of frames, connections and tabs.
UpdateSet == [sequence : 0 .. MaxSafe, fields : Part, base : 0 .. MaxSafe,
              changes : UNION {[S -> Value] : S \in SUBSET Domains},
              removed : SUBSET Domains]
FrameSet == [event : {"snapshot", "snapshot-patch", "error"}, update : UpdateSet]
LineSet == [wire : Seq(FrameSet), sent : 0 .. MaxSafe, joined : BOOLEAN]
LoadSet == [stage : {"none", "asked", "answered"}, version : BOOLEAN, fields : Part]
TabSet == [shown : Part, sequence : 0 .. MaxSafe, link : {"none", "closed", "asked", "served"},
           retry : BOOLEAN, polling : BOOLEAN, load : LoadSet]
PendingSet == [on : BOOLEAN, fields : Part, broadcasts : Nat, waiters : SUBSET Browsers]

\* A frame gives the tab t the fields of the server at s, if it says so and t takes it.
Leads(x, t, s) ==
  /\ x.event = "snapshot" /\ x.update.sequence = s.sequence => x.update.fields = s.fields
  /\ x.event = "snapshot-patch" /\ x.update.sequence = s.sequence /\ View!PatchFits(t, x.update)
       => View!Patched(t.shown, x.update) = s.fields

\* A connection: one frame, or one and the error that ended it.
SoundLine(l, t, s) ==
  /\ l \in LineSet /\ Len(l.wire) <= 2 /\ (l.joined = TRUE => Len(l.wire) <= 1)
  /\ \A i \in 1 .. Len(l.wire) : Leads(l.wire[i], t, s)
  /\ \A i \in 2 .. Len(l.wire) : l.wire[i].event = "error"

\* A tab that holds the server's sequence shows its fields.
Shows(t, s) == t.sequence # 0 /\ t.sequence = s.sequence => t.shown = s.fields

Hosted ==
  /\ host \in Whole
  /\ stream.sequence \in 0 .. MaxSafe /\ stream.fields \in Whole
  /\ readings \in [Domains -> [kept : BOOLEAN, value : Value, fresh : BOOLEAN]]
  /\ left \in [changes : 0 .. MaxChanges, faults : Int, loads : Int]
  /\ pending \in PendingSet

Tabbed ==
  /\ tab \in [Browsers -> TabSet]
  /\ \A b \in Browsers : Shows(tab[b], stream)

Wired ==
  /\ wire \in [Browsers -> Seq(FrameSet)] /\ sent \in [Browsers -> 0 .. MaxSafe]
  /\ clients \subseteq Browsers
  /\ \A b \in Browsers : SoundLine(View!Line(b), tab[b], stream)

Awaited ==
  /\ timer \in BOOLEAN
  /\ \A b \in pending.waiters : wire[b] = <<>> /\ b \notin clients /\ tab[b].link # "asked"
  /\ pending.on = FALSE => pending.broadcasts = 0
  /\ clients # {} => timer = TRUE \/ pending.broadcasts > 0

StreamInv == Hosted /\ Tabbed /\ Wired /\ Awaited

--------------------------------------------------------------------------------
\* The numbers of updates.
LEMMA SequenceNext ==
  ASSUME View!Limits, NEW n \in 0 .. MaxSafe
  PROVE  View!NextSequence(n) \in 1 .. MaxSafe
  BY DEF View!Limits, View!NextSequence

\* What is read in full is a snapshot, and a snapshot nobody has read is one in part.
LEMMA WholeIsPart == View!Limits => Whole \subseteq Part
  BY DEF Whole, Part, Value, View!FieldsType, View!Unread, View!Limits
\* A snapshot of which nothing is read.
LEMMA NothingIsPart == View!Limits => View!Nothing \in Part
  BY DEF View!Nothing, Part, View!FieldsType, View!Unread, View!Limits

\* What is written to a connection.
LEMMA WholeUpdateFits ==
  ASSUME NEW s \in 0 .. MaxSafe, NEW f \in Part, View!Limits
  PROVE  View!WholeUpdate(s, f) \in UpdateSet
         /\ View!WholeUpdate(s, f).sequence = s /\ View!WholeUpdate(s, f).fields = f
  <1>1. View!WholeUpdate(s, f) =
          [sequence |-> s, fields |-> f, base |-> 0, changes |-> <<>>, removed |-> {}]
    BY DEF View!WholeUpdate
  <1>2. <<>> \in UNION {[S -> Value] : S \in SUBSET Domains}
    <2>1. <<>> \in [{} -> Value]  OBVIOUS
    <2>2. {} \in SUBSET Domains  OBVIOUS
    <2> QED  BY <2>1, <2>2
  <1>3. 0 \in 0 .. MaxSafe  BY DEF View!Limits
  <1> DEFINE C == UNION {[S -> Value] : S \in SUBSET Domains}
             e == <<>>
  <1>4. e \in C  BY <1>2
  <1> HIDE DEF C, e
  <1>5. [sequence |-> s, fields |-> f, base |-> 0, changes |-> e, removed |-> {}]
          \in [sequence : 0 .. MaxSafe, fields : Part, base : 0 .. MaxSafe, changes : C,
               removed : SUBSET Domains]
    BY <1>3, <1>4
  <1> QED  BY <1>1, <1>5 DEF UpdateSet, C, e

\* A whole snapshot as a frame.
LEMMA SnapshotFrame ==
  ASSUME View!Limits, NEW s \in 0 .. MaxSafe, NEW f \in Whole
  PROVE  View!Snapshot(s, f) \in FrameSet /\ View!Snapshot(s, f).event = "snapshot"
         /\ View!Snapshot(s, f).update.sequence = s /\ View!Snapshot(s, f).update.fields = f
  BY WholeUpdateFits, WholeIsPart DEF View!Snapshot, FrameSet

\* The error that ends a connection as a frame.
LEMMA FailureFrame ==
  ASSUME View!Limits
  PROVE  View!Failure \in FrameSet /\ View!Failure.event = "error"
         /\ View!Failure.update.sequence = 0
  <1>1. 0 \in 0 .. MaxSafe  BY DEF View!Limits
  <1> QED  BY <1>1, WholeUpdateFits, NothingIsPart DEF View!Failure, View!NoUpdate, FrameSet

\* A patch leads from the fields it was made of to those it was made for.
LEMMA PatchLeads ==
  ASSUME View!Limits, stream.fields \in Whole, NEW f \in Whole
  PROVE  View!Patched(stream.fields, View!PatchUpdate(f)) = f
  <1> DEFINE u == View!PatchUpdate(f)
             g == View!Patched(stream.fields, u)
  <1>1. u.changes = [d \in {e \in View!Present(f) : stream.fields[e] # f[e]} |-> f[d]]
        /\ u.removed = View!Present(stream.fields) \ View!Present(f)
    BY DEF View!PatchUpdate
  <1> HIDE DEF u
  <1>2. g = [d \in Domains |-> IF d \in DOMAIN u.changes THEN u.changes[d]
                               ELSE IF d \in u.removed THEN 0 ELSE stream.fields[d]]
    BY DEF View!Patched
  <1>3. ASSUME NEW d \in Domains  PROVE g[d] = f[d]
    <2>1. f[d] \in Nat /\ stream.fields[d] \in Nat  BY DEF Whole, Value, View!Limits
    <2>2. d \in View!Present(f) <=> f[d] > 0  BY DEF View!Present
    <2>3. d \in View!Present(stream.fields) <=> stream.fields[d] > 0  BY DEF View!Present
    <2>4. d \in DOMAIN u.changes <=> f[d] > 0 /\ stream.fields[d] # f[d]
      BY <1>1, <2>2
    <2>5. d \in DOMAIN u.changes => u.changes[d] = f[d]  BY <1>1
    <2>6. d \in u.removed <=> stream.fields[d] > 0 /\ ~(f[d] > 0)  BY <1>1, <2>2, <2>3
    <2> HIDE DEF g
    <2>7. g[d] = IF d \in DOMAIN u.changes THEN u.changes[d]
                 ELSE IF d \in u.removed THEN 0 ELSE stream.fields[d]
      BY <1>2
    <2> QED  BY <2>1, <2>4, <2>5, <2>6, <2>7
  <1>4. g = f
    <2>1. f = [d \in Domains |-> f[d]]  BY DEF Whole
    <2>2. g = [d \in Domains |-> g[d]]  BY <1>2
    <2> HIDE DEF g
    <2> QED  BY <1>3, <2>1, <2>2
  <1> QED  BY <1>4 DEF u

\* Patching a part gives a part.
LEMMA PatchedPart ==
  ASSUME View!Limits, NEW f \in Part, NEW u \in UpdateSet
  PROVE  View!Patched(f, u) \in Part
  <1>1. PICK S \in SUBSET Domains : u.changes \in [S -> Value]  BY DEF UpdateSet
  <1>2. ASSUME NEW d \in Domains
        PROVE  (IF d \in DOMAIN u.changes THEN u.changes[d]
                ELSE IF d \in u.removed THEN 0 ELSE f[d]) \in -1 .. MaxChanges + 1
    BY <1>1 DEF Part, View!FieldsType, View!Unread, Value, View!Limits
  <1> QED  BY <1>2 DEF View!Patched, Part, View!FieldsType, View!Unread

\* What a collection of the fields f sends to the tabs.
Sendable(x, t, s) ==
  x \in FrameSet /\ x.update.sequence = s.sequence /\ x.event # "error" /\ Leads(x, t, s)

\* A patch is an update, with and without the fields it was made for.
LEMMA PatchFits ==
  ASSUME View!Limits, stream.sequence \in 0 .. MaxSafe, stream.fields \in Whole, NEW f \in Whole
  PROVE  View!PatchUpdate(f) \in UpdateSet
         /\ [View!PatchUpdate(f) EXCEPT !.fields = View!Nothing] \in UpdateSet
  <1> DEFINE n == View!NextSequence(stream.sequence)
             S == {e \in View!Present(f) : stream.fields[e] # f[e]}
             c == [d \in S |-> f[d]]
             r == View!Present(stream.fields) \ View!Present(f)
             C == UNION {[T -> Value] : T \in SUBSET Domains}
  <1>1. View!PatchUpdate(f) =
          [sequence |-> n, fields |-> f, base |-> stream.sequence, changes |-> c, removed |-> r]
    BY DEF View!PatchUpdate
  <1>2. S \in SUBSET Domains /\ r \in SUBSET Domains  BY DEF View!Present
  <1>3. c \in [S -> Value]  BY <1>2 DEF Whole
  <1>4. c \in C
    <2> HIDE DEF c, S
    <2> QED  BY <1>2, <1>3
  <1>5. n \in 0 .. MaxSafe /\ f \in Part /\ View!Nothing \in Part
    BY SequenceNext, WholeIsPart, NothingIsPart
  <1> HIDE DEF n, c, r, C
  <1>6. UpdateSet = [sequence : 0 .. MaxSafe, fields : Part, base : 0 .. MaxSafe,
                     changes : C, removed : SUBSET Domains]
    BY DEF UpdateSet, C
  <1>7. View!PatchUpdate(f) \in UpdateSet  BY <1>1, <1>2, <1>4, <1>5, <1>6
  <1>8. [View!PatchUpdate(f) EXCEPT !.fields = View!Nothing] \in UpdateSet
    BY <1>5, <1>6, <1>7
  <1> QED  BY <1>7, <1>8

\* What a collection sends leads every tab to what was collected, whole or as a patch.
LEMMA CollectedLeads ==
  ASSUME View!Limits, stream.sequence \in 0 .. MaxSafe, stream.fields \in Whole,
         NEW f \in Whole, NEW u \in View!Updates(f), NEW t \in TabSet, Shows(t, stream)
  PROVE  LET s == [sequence |-> u.sequence, fields |-> u.fields] IN
         /\ u.sequence = View!NextSequence(stream.sequence) /\ u.fields = f
         /\ Sendable(View!Snapshot(u.sequence, u.fields), t, s)
         /\ Sendable(View!Broadcast(u), t, s)
  <1> DEFINE n == View!NextSequence(stream.sequence)
             s == [sequence |-> u.sequence, fields |-> u.fields]
  <1>1. n \in 1 .. MaxSafe  BY SequenceNext
  <1>2. /\ u.sequence = n /\ u.fields = f
        /\ \/ u.base = 0
           \/ /\ u = View!PatchUpdate(f) /\ u.base = stream.sequence
              /\ stream.sequence > 0
    <2>1. u = View!FullUpdate(f) \/ (u = View!PatchUpdate(f) /\ stream.sequence > 0)
      BY DEF View!Updates
    <2>2. CASE u = View!FullUpdate(f)
      BY <2>2 DEF View!FullUpdate, View!WholeUpdate
    <2>3. CASE u = View!PatchUpdate(f) /\ stream.sequence > 0
      <3>1. /\ View!PatchUpdate(f).sequence = n /\ View!PatchUpdate(f).fields = f
            /\ View!PatchUpdate(f).base = stream.sequence
        BY DEF View!PatchUpdate
      <3> QED  BY <2>3, <3>1
    <2> QED  BY <2>1, <2>2, <2>3
  <1>3. Sendable(View!Snapshot(u.sequence, u.fields), t, s)
    <2>1. n \in 0 .. MaxSafe  BY <1>1
    <2> HIDE DEF n
    <2> QED  BY <1>2, <2>1, SnapshotFrame DEF Sendable, Leads
  <1>4. Sendable(View!Broadcast(u), t, s)
    <2>1. CASE u.base = 0  BY <2>1, <1>3 DEF View!Broadcast
    <2>2. CASE u.base # 0
      <3> DEFINE p == [View!PatchUpdate(f) EXCEPT !.fields = View!Nothing]
                 q == View!PatchUpdate(f)
      <3>1. /\ u = q /\ stream.sequence > 0
            /\ View!Broadcast(u) = [event |-> "snapshot-patch", update |-> p]
        BY <2>2, <1>2 DEF View!Broadcast
      <3>2. p \in UpdateSet /\ q \in UpdateSet  BY PatchFits
      <3> HIDE DEF q
      <3>3. /\ p.sequence = n /\ p.base = stream.sequence
            /\ p.changes = q.changes /\ p.removed = q.removed
        <4>1. q.sequence = n /\ q.base = stream.sequence  BY <1>2, <2>2, <3>1
        <4> HIDE DEF n
        <4> QED  BY <3>2, <4>1 DEF UpdateSet, q
      <3> HIDE DEF p
      <3>4. View!Patched(stream.fields, p) = f
        <4>1. View!Patched(stream.fields, p) = View!Patched(stream.fields, q)
          BY <3>3 DEF View!Patched
        <4> QED  BY <4>1, PatchLeads DEF q
      <3>5. View!PatchFits(t, p) => t.shown = stream.fields
        BY <3>1, <3>3 DEF View!PatchFits, Shows
      <3>6. [event |-> "snapshot-patch", update |-> p] \in FrameSet  BY <3>2 DEF FrameSet
      <3> QED  BY <1>2, <3>1, <3>3, <3>4, <3>5, <3>6 DEF Sendable, Leads
    <2> QED  BY <2>1, <2>2
  <1> QED  BY <1>2, <1>3, <1>4

\* Frames on a connection.
LEMMA LineTaken ==
  ASSUME NEW l, NEW t, NEW s, SoundLine(l, t, s)
  PROVE  /\ l.wire \in Seq(FrameSet) /\ l.sent \in 0 .. MaxSafe /\ l.joined \in BOOLEAN
         /\ Len(l.wire) \in 0 .. 2 /\ (l.wire = <<>> => Len(l.wire) = 0)
         /\ Len(l.wire) = 0 => l.wire = <<>>
         /\ l = [wire |-> l.wire, sent |-> l.sent, joined |-> l.joined]
  <1>1. l \in LineSet /\ Len(l.wire) <= 2  BY DEF SoundLine
  <1>2. l.wire \in Seq(FrameSet) /\ l.sent \in 0 .. MaxSafe /\ l.joined \in BOOLEAN
        /\ l = [wire |-> l.wire, sent |-> l.sent, joined |-> l.joined]
    BY <1>1 DEF LineSet
  <1>3. Len(l.wire) \in Nat /\ (l.wire = <<>> <=> Len(l.wire) = 0)  BY <1>2
  <1> DEFINE k == Len(l.wire)
  <1>4. k \in 0 .. 2
    <2>1. k \in Nat /\ k <= 2  BY <1>1, <1>3
    <2> HIDE DEF k
    <2> QED  BY <2>1
  <1> QED  BY <1>2, <1>3, <1>4

\* One more frame on a connection.
LEMMA OneMore ==
  ASSUME NEW w \in Seq(FrameSet), NEW x \in FrameSet
  PROVE  /\ Append(w, x) \in Seq(FrameSet) /\ Len(Append(w, x)) = Len(w) + 1 /\ Len(w) \in Nat
         /\ Append(w, x)[Len(w) + 1] = x
         /\ \A i \in 1 .. Len(w) : Append(w, x)[i] = w[i]
  OBVIOUS

\* An error ends a connection.
LEMMA DroppedSound ==
  ASSUME View!Limits, NEW l, NEW t, NEW s, SoundLine(l, t, s), Len(l.wire) <= 1
  PROVE  SoundLine(View!Dropped(l), t, s)
  <1> DEFINE w == Append(l.wire, View!Failure)
             d == View!Dropped(l)
  <1>1. l.wire \in Seq(FrameSet) /\ l.sent \in 0 .. MaxSafe /\ Len(l.wire) \in 0 .. 2
        /\ l \in LineSet
    BY LineTaken DEF SoundLine
  <1>2. View!Failure \in FrameSet /\ View!Failure.event = "error"  BY FailureFrame
  <1>3. /\ w \in Seq(FrameSet) /\ Len(w) = Len(l.wire) + 1 /\ w[Len(l.wire) + 1] = View!Failure
        /\ \A i \in 1 .. Len(l.wire) : w[i] = l.wire[i]
    BY <1>1, <1>2, OneMore
  <1> HIDE DEF w
  <1>4. d.wire = w /\ d.sent = l.sent /\ d.joined = FALSE /\ d \in LineSet
    BY <1>1, <1>3 DEF View!Dropped, LineSet, w
  <1> HIDE DEF d
  <1>5. ASSUME NEW i \in 1 .. Len(w)
        PROVE  Leads(w[i], t, s) /\ (i > 1 => w[i].event = "error")
    <2>1. i \in 1 .. Len(l.wire) \/ i = Len(l.wire) + 1  BY <1>1, <1>3
    <2>2. CASE i = Len(l.wire) + 1  BY <2>2, <1>2, <1>3 DEF Leads
    <2>3. CASE i \in 1 .. Len(l.wire)
      <3>1. Len(l.wire) <= 1  OBVIOUS
      <3>2. ~(i > 1)  BY <1>1, <2>3, <3>1
      <3>3. Leads(l.wire[i], t, s)  BY <2>3 DEF SoundLine
      <3> QED  BY <2>3, <3>2, <3>3, <1>3
    <2> QED  BY <2>1, <2>2, <2>3
  <1>6. Len(d.wire) <= 2  BY <1>1, <1>3, <1>4
  <1>7. \A i \in 2 .. Len(d.wire) : i \in 1 .. Len(w) /\ i > 1  BY <1>4
  <1> QED  BY <1>4, <1>5, <1>6, <1>7 DEF SoundLine, d

\* A connection that stands in the fan-out, or has nothing under way, is written to.
LEMMA WrittenSound ==
  ASSUME View!Limits, NEW l, NEW t, NEW s, SoundLine(l, t, s),
         l.joined = TRUE \/ l.wire = <<>>, NEW x \in FrameSet, Leads(x, t, s)
  PROVE  /\ SoundLine(View!Written(l, x), t, s)
         /\ l.wire = <<>> => Len(View!Written(l, x).wire) <= 1
  <1>1. l.wire \in Seq(FrameSet) /\ l.sent \in 0 .. MaxSafe /\ Len(l.wire) \in 0 .. 2
        /\ l \in LineSet /\ (Len(l.wire) = 0 <=> l.wire = <<>>)
    BY LineTaken DEF SoundLine
  <1>2. Len(l.wire) <= 1  BY <1>1 DEF SoundLine
  <1>3. CASE x.update.sequence > 0 /\ l.sent = x.update.sequence
    <2>1. View!Written(l, x) = l  BY <1>3 DEF View!Written
    <2> QED  BY <1>2, <2>1
  <1>4. CASE ~(x.update.sequence > 0 /\ l.sent = x.update.sequence) /\ Len(l.wire) >= 1
    <2>1. View!Written(l, x) = View!Dropped(l)  BY <1>4 DEF View!Written, View!Buffer
    <2>2. l.wire # <<>>  BY <1>1, <1>4
    <2> QED  BY <1>2, <2>1, <2>2, DroppedSound
  <1>5. CASE ~(x.update.sequence > 0 /\ l.sent = x.update.sequence) /\ ~(Len(l.wire) >= 1)
    <2> DEFINE y == View!Written(l, x)
               w == Append(l.wire, x)
               n == IF x.update.sequence > 0 THEN x.update.sequence ELSE l.sent
    <2>1. Len(l.wire) = 0  BY <1>1, <1>5
    <2>2. /\ w \in Seq(FrameSet) /\ Len(w) = 1 /\ w[1] = x
      <3>1. /\ w \in Seq(FrameSet) /\ Len(w) = Len(l.wire) + 1 /\ w[Len(l.wire) + 1] = x
        BY <1>1, OneMore
      <3> HIDE DEF w
      <3> QED  BY <2>1, <3>1
    <2>3. n \in 0 .. MaxSafe  BY <1>1 DEF FrameSet, UpdateSet
    <2> HIDE DEF w
    <2>4. y.wire = w /\ y.joined = l.joined /\ y \in LineSet
      BY <1>1, <1>5, <2>2, <2>3 DEF View!Written, View!Buffer, LineSet, w
    <2> HIDE DEF y, n
    <2>9. y.wire \in Seq(FrameSet) /\ Len(y.wire) = 1 /\ y.wire[1] = x  BY <2>2, <2>4
    <2>5. Len(y.wire) <= 1  BY <2>9
    <2>6. \A i \in 1 .. Len(y.wire) : Leads(y.wire[i], t, s)  BY <2>9
    <2>7. 2 .. Len(y.wire) = {}  BY <2>9
    <2>8. SoundLine(y, t, s)  BY <2>2, <2>4, <2>5, <2>6, <2>7 DEF SoundLine
    <2> QED  BY <2>5, <2>8 DEF y
  <1> QED  BY <1>3, <1>4, <1>5

\* A connection that has nothing under way joins with a frame (serveEvents).
LEMMA JoinedSound ==
  ASSUME View!Limits, NEW l, NEW t, NEW s, SoundLine(l, t, s),
         l.wire = <<>>, NEW x \in FrameSet, Leads(x, t, s)
  PROVE  SoundLine(View!Joined(l, x), t, s)
  <1> DEFINE w == View!Written(l, x)
             j == View!Joined(l, x)
  <1>1. SoundLine(w, t, s) /\ Len(w.wire) <= 1  BY WrittenSound
  <1>2. (Len(l.wire) < View!Buffer) \in BOOLEAN  OBVIOUS
  <1>3. w \in LineSet  BY <1>1 DEF SoundLine
  <1>4. j = [w EXCEPT !.joined = Len(l.wire) < View!Buffer]  BY DEF View!Joined
  <1> HIDE DEF w, j
  <1>5. j \in LineSet /\ j.wire = w.wire
    BY <1>2, <1>3, <1>4 DEF LineSet
  <1>6. SoundLine(j, t, s)  BY <1>1, <1>5 DEF SoundLine
  <1> QED  BY <1>6 DEF j

--------------------------------------------------------------------------------
\* A tab that holds no sequence any more, or the one it held with what it shows.
Calm(t, u) ==
  /\ u \in TabSet
  /\ u.sequence = 0 \/ (u.sequence = t.sequence /\ u.shown = t.shown)

\* What is under way leads such a tab wherever it led it before.
LEMMA CalmKeeps ==
  ASSUME NEW l, NEW t \in TabSet, NEW u, NEW s, Calm(t, u), SoundLine(l, t, s), Shows(t, s)
  PROVE  SoundLine(l, u, s) /\ Shows(u, s)
  <1>1. ASSUME NEW x, Leads(x, t, s)  PROVE Leads(x, u, s)
    <2>1. CASE u.sequence = 0  BY <1>1, <2>1 DEF Leads, View!PatchFits
    <2>2. CASE u.sequence = t.sequence /\ u.shown = t.shown
      BY <1>1, <2>2 DEF Leads, View!PatchFits
    <2> QED  BY <2>1, <2>2 DEF Calm
  <1>2. SoundLine(l, u, s)  BY <1>1 DEF SoundLine
  <1>3. Shows(u, s)  BY DEF Shows, Calm
  <1> QED  BY <1>2, <1>3

\* The connections are set.
LEMMA LinesSet ==
  ASSUME NEW lines, View!SetLines(lines),
         \A b \in Browsers : SoundLine(lines[b], tab'[b], stream')
  PROVE  /\ Wired'
         /\ \A b \in Browsers : wire'[b] = lines[b].wire
         /\ \A b \in Browsers : b \in clients' <=> lines[b].joined = TRUE
  <1>1. /\ wire' = [b \in Browsers |-> lines[b].wire]
        /\ sent' = [b \in Browsers |-> lines[b].sent]
        /\ clients' = {b \in Browsers : lines[b].joined}
    BY DEF View!SetLines
  <1>2. \A b \in Browsers :
          /\ lines[b].wire \in Seq(FrameSet) /\ lines[b].sent \in 0 .. MaxSafe
          /\ lines[b].joined \in BOOLEAN
          /\ lines[b] = [wire |-> lines[b].wire, sent |-> lines[b].sent,
                         joined |-> lines[b].joined]
    BY LineTaken
  <1>3. wire' \in [Browsers -> Seq(FrameSet)] /\ sent' \in [Browsers -> 0 .. MaxSafe]
        /\ clients' \subseteq Browsers
    BY <1>1, <1>2
  <1>4. ASSUME NEW b \in Browsers
        PROVE  /\ wire'[b] = lines[b].wire /\ sent'[b] = lines[b].sent
               /\ b \in clients' <=> lines[b].joined = TRUE
               /\ lines[b].joined = (b \in clients')
    <2>1. b \in clients' <=> lines[b].joined  BY <1>1
    <2>2. lines[b].joined \in BOOLEAN  BY <1>2
    <2>3. lines[b].joined = (b \in clients')  BY <2>1, <2>2
    <2> QED  BY <1>1, <2>2, <2>3
  <1>5. ASSUME NEW b \in Browsers
        PROVE  SoundLine([wire |-> wire'[b], sent |-> sent'[b], joined |-> b \in clients'],
                         tab'[b], stream')
    <2>1. lines[b] = [wire |-> wire'[b], sent |-> sent'[b], joined |-> b \in clients']
      BY <1>2, <1>4
    <2>2. SoundLine(lines[b], tab'[b], stream')  OBVIOUS
    <2> QED  BY <2>1, <2>2
  <1>6. Wired'  BY <1>3, <1>5 DEF Wired, View!Line
  <1> QED  BY <1>4, <1>6

\* The connection of a browser whose frames and place are as given.
LEMMA LineIs ==
  ASSUME StreamInv, NEW b \in Browsers
  PROVE  /\ View!Line(b).wire = wire[b] /\ View!Line(b).sent = sent[b]
         /\ View!Line(b).joined = (b \in clients)
         /\ View!Line(b).joined = TRUE <=> b \in clients
         /\ SoundLine(View!Line(b), tab[b], stream) /\ tab[b] \in TabSet
         /\ Shows(tab[b], stream)
  BY DEF StreamInv, Wired, Tabbed, View!Line

\* Only what tabs do that holds no patch up.
LEMMA CalmStep ==
  ASSUME StreamInv, NEW b \in Browsers, Calm(tab[b], tab'[b]),
         tab' \in [Browsers -> TabSet], \A c \in Browsers : c # b => tab'[c] = tab[c],
         UNCHANGED <<stream, wire, sent, clients>>
  PROVE  Tabbed' /\ Wired'
  <1>1. ASSUME NEW c \in Browsers
        PROVE  SoundLine(View!Line(c), tab'[c], stream) /\ Shows(tab'[c], stream)
    BY LineIs, CalmKeeps
  <1>2. \A c \in Browsers : SoundLine([wire |-> wire'[c], sent |-> sent'[c],
          joined |-> c \in clients'], tab'[c], stream')
    BY <1>1 DEF View!Line
  <1>3. wire' \in [Browsers -> Seq(FrameSet)] /\ sent' \in [Browsers -> 0 .. MaxSafe]
        /\ clients' \subseteq Browsers
    BY DEF StreamInv, Wired
  <1>4. Wired'  BY <1>2, <1>3 DEF Wired, View!Line
  <1> QED  BY <1>1, <1>4 DEF Tabbed

\* An empty connection is sound.
LEMMA NoLine ==
  ASSUME View!Limits, NEW t, NEW s
  PROVE  SoundLine([wire |-> <<>>, sent |-> 0, joined |-> FALSE], t, s)
  <1>1. <<>> \in Seq(FrameSet) /\ Len(<<>>) = 0  OBVIOUS
  <1>2. 0 \in 0 .. MaxSafe  BY DEF View!Limits
  <1> DEFINE e == <<>>
             l == [wire |-> e, sent |-> 0, joined |-> FALSE]
  <1>3. e \in Seq(FrameSet) /\ Len(e) = 0  BY <1>1
  <1> HIDE DEF e
  <1>4. l \in LineSet /\ l.wire = e /\ l.joined = FALSE  BY <1>2, <1>3 DEF LineSet
  <1> HIDE DEF l
  <1>5. SoundLine(l, t, s)  BY <1>3, <1>4 DEF SoundLine
  <1> QED  BY <1>5 DEF e, l

\* A connection ends: nothing more of it reaches the tab.
LEMMA Hung ==
  ASSUME StreamInv, View!Limits, NEW b \in Browsers, View!Hang(b), Calm(tab[b], tab'[b]),
         tab' \in [Browsers -> TabSet], \A c \in Browsers : c # b => tab'[c] = tab[c],
         UNCHANGED stream
  PROVE  /\ Tabbed' /\ Wired' /\ Awaited'
         /\ pending' \in PendingSet
  <1>1. /\ wire' = [wire EXCEPT ![b] = <<>>] /\ sent' = [sent EXCEPT ![b] = 0]
        /\ clients' = clients \ {b} /\ timer' = (timer /\ clients' # {})
        /\ pending' = [pending EXCEPT !.waiters = @ \ {b}]
    BY DEF View!Hang
  <1>2. wire \in [Browsers -> Seq(FrameSet)] /\ sent \in [Browsers -> 0 .. MaxSafe]
        /\ clients \subseteq Browsers
    BY DEF StreamInv, Wired
  <1>3. ASSUME NEW c \in Browsers
        PROVE  SoundLine([wire |-> wire'[c], sent |-> sent'[c], joined |-> c \in clients'],
                         tab'[c], stream') /\ Shows(tab'[c], stream)
    <2>1. CASE c = b
      <3>1. wire'[c] = <<>> /\ sent'[c] = 0 /\ (c \in clients') = FALSE
        BY <1>1, <1>2, <2>1
      <3>2. Shows(tab'[c], stream)  BY <2>1, LineIs, CalmKeeps
      <3> QED  BY <3>1, <3>2, NoLine
    <2>2. CASE c # b
      <3>1. wire'[c] = wire[c] /\ sent'[c] = sent[c] /\ (c \in clients') = (c \in clients)
        BY <1>1, <1>2, <2>2
      <3>2. SoundLine(View!Line(c), tab[c], stream) /\ Shows(tab[c], stream)  BY LineIs
      <3> QED  BY <2>2, <3>1, <3>2 DEF View!Line
    <2> QED  BY <2>1, <2>2
  <1>4. <<>> \in Seq(FrameSet) /\ 0 \in 0 .. MaxSafe  BY DEF View!Limits
  <1>5. wire' \in [Browsers -> Seq(FrameSet)] /\ sent' \in [Browsers -> 0 .. MaxSafe]
        /\ clients' \subseteq Browsers
    BY <1>1, <1>2, <1>4
  <1>6. Wired'  BY <1>3, <1>5 DEF Wired, View!Line
  <1>7. Tabbed'  BY <1>3 DEF Tabbed
  <1>8. /\ pending' \in PendingSet
        /\ pending'.waiters = pending.waiters \ {b} /\ pending'.on = pending.on
        /\ pending'.broadcasts = pending.broadcasts
    BY <1>1 DEF StreamInv, Hosted, PendingSet
  <1>9. Awaited'
    <2>1. timer' \in BOOLEAN  BY <1>1
    <2>2. \A c \in pending'.waiters : wire'[c] = <<>> /\ c \notin clients' /\ tab'[c].link # "asked"
      <3>1. pending.waiters \subseteq Browsers  BY DEF StreamInv, Hosted, PendingSet
      <3> QED  BY <1>1, <1>2, <1>8, <3>1 DEF StreamInv, Awaited
    <2>3. ASSUME clients' # {}  PROVE timer' = TRUE \/ pending'.broadcasts > 0
      <3>1. clients # {}  BY <1>1, <2>3
      <3>2. timer = TRUE \/ pending.broadcasts > 0  BY <3>1 DEF StreamInv, Awaited
      <3> QED  BY <1>1, <1>8, <2>3, <3>2
    <2>4. pending'.on = FALSE => pending'.broadcasts = 0  BY <1>8 DEF StreamInv, Awaited
    <2> QED  BY <2>1, <2>2, <2>3, <2>4 DEF Awaited
  <1> QED  BY <1>6, <1>7, <1>8, <1>9

--------------------------------------------------------------------------------
\* What a domain shows when it is read.
LEMMA Observed ==
  ASSUME StreamInv, NEW d \in Domains
  PROVE  /\ View!Observe(d) \in Value
         /\ View!Entry(d, View!Observe(d)) \in [kept : BOOLEAN, value : Value, fresh : BOOLEAN]
  <1>1. View!Observe(d) \in Value  BY DEF StreamInv, Hosted, Whole, View!Observe
  <1>2. readings[d].kept \in BOOLEAN  BY DEF StreamInv, Hosted
  <1> QED  BY <1>1, <1>2 DEF View!Entry

\* snapshot() reads a domain.
LEMMA ReadStep ==
  ASSUME StreamInv, View!Limits, NEW d \in Domains, View!Read(d)
  PROVE  StreamInv'
  <1>1. /\ pending' = [pending EXCEPT !.fields[d] = View!Observe(d)]
        /\ readings' = [readings EXCEPT ![d] = View!Entry(d, View!Observe(d))]
        /\ UNCHANGED <<host, stream, cached, timer, clients, wire, sent, tab, left>>
    BY DEF View!Read, View!Reads
  <1>2. readings' \in [Domains -> [kept : BOOLEAN, value : Value, fresh : BOOLEAN]]
    BY <1>1, Observed DEF StreamInv, Hosted
  <1>3. pending.fields \in Part /\ View!Observe(d) \in -1 .. MaxChanges + 1
    BY Observed DEF StreamInv, Hosted, PendingSet, Value, View!Limits
  <1>4. [pending.fields EXCEPT ![d] = View!Observe(d)] \in Part
    BY <1>3 DEF Part, View!FieldsType, View!Unread
  <1>5. /\ pending' \in PendingSet /\ pending'.waiters = pending.waiters
        /\ pending'.on = pending.on /\ pending'.broadcasts = pending.broadcasts
    BY <1>1, <1>4 DEF StreamInv, Hosted, PendingSet
  <1>6. Hosted'  BY <1>1, <1>2, <1>5 DEF StreamInv, Hosted
  <1>7. Tabbed'  BY <1>1 DEF StreamInv, Tabbed
  <1>8. Wired'  BY <1>1 DEF StreamInv, Wired, View!Line
  <1>9. Awaited'  BY <1>1, <1>5 DEF StreamInv, Awaited
  <1> QED  BY <1>6, <1>7, <1>8, <1>9 DEF StreamInv

\* A cache expires.
LEMMA ExpiryStep ==
  ASSUME StreamInv, View!CacheExpires \/ (\E d \in Domains : View!ObservationExpires(d))
  PROVE  StreamInv'
  <1>1. UNCHANGED <<host, stream, pending, timer, clients, wire, sent, tab, left>>
    BY DEF View!CacheExpires, View!ObservationExpires
  <1>2. readings' \in [Domains -> [kept : BOOLEAN, value : Value, fresh : BOOLEAN]]
    <2>1. CASE View!CacheExpires  BY <2>1 DEF View!CacheExpires, StreamInv, Hosted
    <2>2. ASSUME NEW d \in Domains, View!ObservationExpires(d)
          PROVE  readings' \in [Domains -> [kept : BOOLEAN, value : Value, fresh : BOOLEAN]]
      BY <2>2 DEF View!ObservationExpires, View!Expires, StreamInv, Hosted
    <2> QED  BY <2>1, <2>2
  <1>3. Hosted'  BY <1>1, <1>2 DEF StreamInv, Hosted
  <1>4. Tabbed' /\ Awaited'  BY <1>1 DEF StreamInv, Tabbed, Awaited
  <1>5. Wired'  BY <1>1 DEF StreamInv, Wired, View!Line
  <1> QED  BY <1>3, <1>4, <1>5 DEF StreamInv

\* The host changes.
LEMMA ChangeStep ==
  ASSUME StreamInv, View!Limits, NEW d \in Domains, View!Change(d)
  PROVE  StreamInv'
  <1>1. /\ left.changes > 0 /\ left' = [left EXCEPT !.changes = @ - 1]
        /\ UNCHANGED <<stream, cached, pending, readings, timer, clients, wire, sent, tab>>
    BY DEF View!Change
  <1>2. PICK v \in {0, MaxChanges + 1 - left.changes} : host' = [host EXCEPT ![d] = v]
    BY DEF View!Change
  <1>3. left.changes \in 1 .. MaxChanges
    BY <1>1 DEF StreamInv, Hosted, View!Limits
  <1>4. v \in Value  BY <1>2, <1>3 DEF Value, View!Limits
  <1>5. host' \in Whole  BY <1>2, <1>4 DEF StreamInv, Hosted, Whole
  <1>6. left' \in [changes : 0 .. MaxChanges, faults : Int, loads : Int]
    BY <1>1, <1>3 DEF StreamInv, Hosted, View!Limits
  <1>7. Hosted'  BY <1>1, <1>5, <1>6 DEF StreamInv, Hosted
  <1>8. Tabbed' /\ Awaited'  BY <1>1 DEF StreamInv, Tabbed, Awaited
  <1>9. Wired'  BY <1>1 DEF StreamInv, Wired, View!Line
  <1> QED  BY <1>7, <1>8, <1>9 DEF StreamInv

\* A collection begins or is joined.
LEMMA Started ==
  ASSUME StreamInv, View!Limits, NEW n \in Nat, NEW W \in SUBSET Browsers, View!Start(n, W)
  PROVE  /\ pending' \in PendingSet /\ pending'.on = TRUE
         /\ pending'.broadcasts = pending.broadcasts + n
         /\ pending'.waiters \subseteq pending.waiters \union W
  <1>1. pending \in PendingSet  BY DEF StreamInv, Hosted
  <1>2. CASE pending.on
    <2>1. pending' = [pending EXCEPT !.broadcasts = @ + n, !.waiters = @ \cup W]
      BY <1>2 DEF View!Start
    <2> DEFINE B == pending.broadcasts + n
               V == pending.waiters \cup W
    <2>2. B \in Nat /\ V \in SUBSET Browsers  BY <1>1 DEF PendingSet
    <2>3. pending' = [pending EXCEPT !.broadcasts = B, !.waiters = V]  BY <2>1
    <2> HIDE DEF B, V
    <2>4. /\ pending' \in PendingSet /\ pending'.on = pending.on
          /\ pending'.broadcasts = B /\ pending'.waiters = V
      BY <1>1, <2>2, <2>3 DEF PendingSet
    <2>5. pending.on = TRUE  BY <1>1, <1>2 DEF PendingSet
    <2> QED  BY <2>4, <2>5 DEF B, V
  <1>3. CASE ~pending.on
    <2>1. pending' = [on |-> TRUE, fields |-> View!Nothing, broadcasts |-> n, waiters |-> W]
      BY <1>3 DEF View!Start
    <2>2. pending.on = FALSE  BY <1>1, <1>3 DEF PendingSet
    <2>3. pending.broadcasts = 0  BY <2>2 DEF StreamInv, Awaited
    <2> QED  BY <2>1, <2>3, NothingIsPart DEF PendingSet
  <1> QED  BY <1>2, <1>3

\* The timer of the fan-out fires: the collection it starts is what goes on.
LEMMA BroadcastStep ==
  ASSUME StreamInv, View!Limits, View!BroadcastDue
  PROVE  StreamInv'
  <1>1. /\ timer' = FALSE /\ View!Start(1, {})
        /\ UNCHANGED <<host, stream, cached, readings, clients, wire, sent, tab, left>>
    BY DEF View!BroadcastDue
  <1>2. /\ pending' \in PendingSet /\ pending'.on = TRUE
        /\ pending'.broadcasts = pending.broadcasts + 1
        /\ pending'.waiters \subseteq pending.waiters
    <2>1. 1 \in Nat /\ {} \in SUBSET Browsers  OBVIOUS
    <2>2. pending'.waiters \subseteq pending.waiters \union {}  BY <1>1, <2>1, Started
    <2> QED  BY <1>1, <2>1, <2>2, Started
  <1>3. pending.broadcasts \in Nat  BY DEF StreamInv, Hosted, PendingSet
  <1>4. Hosted'  BY <1>1, <1>2 DEF StreamInv, Hosted
  <1>5. Tabbed'  BY <1>1 DEF StreamInv, Tabbed
  <1>6. Wired'  BY <1>1 DEF StreamInv, Wired, View!Line
  <1>7. Awaited'
    <2>1. pending'.broadcasts > 0  BY <1>2, <1>3
    <2>2. \A c \in pending.waiters : wire[c] = <<>> /\ c \notin clients /\ tab[c].link # "asked"
      BY DEF StreamInv, Awaited
    <2>3. \A c \in pending'.waiters :
            wire'[c] = <<>> /\ c \notin clients' /\ tab'[c].link # "asked"
      BY <1>1, <1>2, <2>2
    <2> QED  BY <1>1, <1>2, <2>1, <2>3 DEF Awaited
  <1> QED  BY <1>4, <1>5, <1>6, <1>7 DEF StreamInv

\* serveEvents, with a cached update or with a collection to wait for.
LEMMA ServeStep ==
  ASSUME StreamInv, View!Limits, NEW b \in Browsers, View!Serve(b)
  PROVE  StreamInv'
  <1> DEFINE opened == [wire |-> <<>>, sent |-> 0, joined |-> FALSE]
             snap == View!Snapshot(stream.sequence, stream.fields)
  <1>1. /\ tab[b].link = "asked"
        /\ tab' = [tab EXCEPT ![b].link = "served", ![b].polling = FALSE]
        /\ UNCHANGED <<host, stream, cached, readings, left>>
    BY DEF View!Serve, View!Serves
  <1>2. /\ tab' \in [Browsers -> TabSet] /\ \A c \in Browsers : c # b => tab'[c] = tab[c]
        /\ tab'[b].sequence = tab[b].sequence /\ tab'[b].shown = tab[b].shown
        /\ tab'[b].link = "served"
    BY <1>1 DEF StreamInv, Tabbed, TabSet
  <1>3. Calm(tab[b], tab'[b])  BY <1>2 DEF Calm
  <1>4. ASSUME NEW c \in Browsers
        PROVE  SoundLine(View!Line(c), tab'[c], stream) /\ Shows(tab'[c], stream)
    BY <1>2, <1>3, LineIs, CalmKeeps
  <1>5. Tabbed'  BY <1>1, <1>2, <1>4 DEF Tabbed
  <1>6. SoundLine(opened, tab'[b], stream)  BY NoLine
  <1>7. b \notin pending.waiters  BY <1>1 DEF StreamInv, Awaited
  <1>8. pending.waiters \subseteq Browsers /\ pending.broadcasts \in Nat
    BY DEF StreamInv, Hosted, PendingSet
  <1>9. CASE cached
    <2> DEFINE j == View!Joined(opened, snap)
               lines == [c \in Browsers |-> IF c = b THEN j ELSE View!Line(c)]
    <2>1. View!SetLines(lines) /\ View!Arm /\ UNCHANGED pending
      BY <1>9 DEF View!Serve
    <2>2. SoundLine(j, tab'[b], stream)
      <3>1. snap \in FrameSet /\ Leads(snap, tab'[b], stream)
        BY SnapshotFrame DEF StreamInv, Hosted, Leads
      <3>2. opened.wire = <<>>  OBVIOUS
      <3> HIDE DEF opened, snap
      <3> QED  BY <1>6, <3>1, <3>2, JoinedSound
    <2> HIDE DEF j
    <2>3. \A c \in Browsers : SoundLine(lines[c], tab'[c], stream')
      BY <1>1, <1>4, <2>2
    <2>4. \A c \in Browsers : c # b => lines[c] = View!Line(c)  OBVIOUS
    <2> HIDE DEF lines
    <2>5. /\ Wired' /\ \A c \in Browsers : wire'[c] = lines[c].wire
          /\ \A c \in Browsers : c \in clients' <=> lines[c].joined = TRUE
      BY <2>1, <2>3, LinesSet
    <2>6. Awaited'
      <3>1. timer' = (clients' # {})  BY <2>1 DEF View!Arm
      <3>2. ASSUME NEW c \in pending.waiters
            PROVE  wire'[c] = <<>> /\ c \notin clients' /\ tab'[c].link # "asked"
        <4>1. c # b /\ c \in Browsers  BY <1>7, <1>8
        <4>2. wire[c] = <<>> /\ c \notin clients /\ tab[c].link # "asked"
          BY DEF StreamInv, Awaited
        <4> QED  BY <1>2, <2>4, <2>5, <4>1, <4>2, LineIs
      <3>3. timer' \in BOOLEAN /\ (clients' # {} => timer' = TRUE)  BY <3>1
      <3> QED  BY <2>1, <3>2, <3>3 DEF StreamInv, Awaited
    <2>7. Hosted'  BY <1>1, <2>1 DEF StreamInv, Hosted
    <2> QED  BY <1>5, <2>5, <2>6, <2>7 DEF StreamInv
  <1>10. CASE ~cached
    <2> DEFINE lines == [c \in Browsers |-> IF c = b THEN opened ELSE View!Line(c)]
    <2>1. View!SetLines(lines) /\ View!Start(0, {b}) /\ UNCHANGED timer
      BY <1>10 DEF View!Serve
    <2>2. lines[b].wire = <<>> /\ lines[b].joined = FALSE  OBVIOUS
    <2> HIDE DEF opened
    <2>3. \A c \in Browsers : SoundLine(lines[c], tab'[c], stream')
      BY <1>1, <1>4, <1>6
    <2>4. \A c \in Browsers : c # b => lines[c] = View!Line(c)  OBVIOUS
    <2> HIDE DEF lines
    <2>5. /\ Wired' /\ \A c \in Browsers : wire'[c] = lines[c].wire
          /\ \A c \in Browsers : c \in clients' <=> lines[c].joined = TRUE
      BY <2>1, <2>3, LinesSet
    <2>6. /\ pending' \in PendingSet /\ pending'.on = TRUE
          /\ pending'.broadcasts = pending.broadcasts + 0
          /\ pending'.waiters \subseteq pending.waiters \union {b}
      <3>1. 0 \in Nat /\ {b} \in SUBSET Browsers  OBVIOUS
      <3> QED  BY <2>1, <3>1, Started
    <2>7. Awaited'
      <3>1. ASSUME NEW c \in pending'.waiters
            PROVE  wire'[c] = <<>> /\ c \notin clients' /\ tab'[c].link # "asked"
        <4>1. CASE c = b  BY <4>1, <1>2, <2>2, <2>5
        <4>2. CASE c # b
          <5>1. c \in pending.waiters /\ c \in Browsers  BY <4>2, <1>8, <2>6
          <5>2. wire[c] = <<>> /\ c \notin clients /\ tab[c].link # "asked"
            BY <5>1 DEF StreamInv, Awaited
          <5> QED  BY <1>2, <2>4, <2>5, <4>2, <5>1, <5>2, LineIs
        <4> QED  BY <4>1, <4>2
      <3>2. clients' \subseteq clients
        <4>1. \A c \in Browsers : c \in clients' => c \in clients
          BY <2>2, <2>4, <2>5, LineIs
        <4>2. clients' \subseteq Browsers  BY <2>5 DEF Wired
        <4> QED  BY <4>1, <4>2
      <3>3. pending'.broadcasts = pending.broadcasts  BY <1>8, <2>6
      <3> QED  BY <2>1, <2>6, <3>1, <3>2, <3>3 DEF StreamInv, Awaited
    <2>8. Hosted'  BY <1>1, <2>6 DEF StreamInv, Hosted
    <2> QED  BY <1>5, <2>5, <2>7, <2>8 DEF StreamInv
  <1> QED  BY <1>9, <1>10

\* A tab asks for a snapshot or gets one, beside its stream.
LEMMA LoadStep ==
  ASSUME StreamInv, View!Limits, NEW b \in Browsers,
         View!Poll(b) \/ View!Refresh(b) \/ View!LoadServed(b) \/ View!LoadArrives(b)
  PROVE  StreamInv'
  <1>1. UNCHANGED <<host, stream, cached, pending, timer, clients, wire, sent>>
    BY DEF View!Poll, View!Refresh, View!LoadServed, View!LoadArrives
  <1>2. tab \in [Browsers -> TabSet] /\ tab[b] \in TabSet  BY DEF StreamInv, Tabbed
  <1>3. View!Nothing \in Part  BY NothingIsPart
  <1>4. /\ tab' \in [Browsers -> TabSet] /\ \A c \in Browsers : c # b => tab'[c] = tab[c]
        /\ tab'[b].link = tab[b].link
        /\ tab'[b].sequence = 0 \/ (tab'[b].sequence = tab[b].sequence
                                      /\ tab'[b].shown = tab[b].shown)
    <2> DEFINE asking == [stage |-> "asked", version |-> TRUE, fields |-> View!Nothing]
    <2>1. CASE View!Poll(b) \/ View!Refresh(b)
      <3>1. tab' = [tab EXCEPT ![b].load = asking]  BY <2>1 DEF View!Poll, View!Refresh
      <3>2. asking \in LoadSet  BY <1>3 DEF LoadSet
      <3> HIDE DEF asking
      <3> QED  BY <1>2, <3>1, <3>2 DEF TabSet
    <2>2. CASE View!LoadServed(b)
      <3> DEFINE f == [d \in Domains |-> View!Observe(d)]
                 l == [tab[b].load EXCEPT !.stage = "answered", !.fields = f]
      <3>1. tab' = [tab EXCEPT ![b].load = l]  BY <2>2 DEF View!LoadServed
      <3>2. f \in Part
        <4>1. f \in Whole  BY Observed DEF Whole
        <4> QED  BY <4>1, WholeIsPart
      <3> HIDE DEF f
      <3>3. l \in LoadSet  BY <1>2, <3>2 DEF TabSet, LoadSet
      <3> HIDE DEF l
      <3> QED  BY <1>2, <3>1, <3>3 DEF TabSet
    <2>3. CASE View!LoadArrives(b)
      <3> DEFINE v == tab[b].load.version
                 f == IF v THEN tab[b].load.fields ELSE tab[b].shown
                 n == IF v THEN 0 ELSE tab[b].sequence
      <3>1. tab' = [tab EXCEPT ![b].load = View!NoLoad, ![b].shown = f, ![b].sequence = n]
        <4>1. tab' = [tab EXCEPT ![b].load = View!NoLoad,
                        ![b].shown = IF tab[b].load.version THEN tab[b].load.fields ELSE @,
                        ![b].sequence = IF tab[b].load.version THEN 0 ELSE @]
          BY <2>3 DEF View!LoadArrives
        <4> QED  BY <1>2, <4>1 DEF TabSet
      <3>2. View!NoLoad \in LoadSet  BY <1>3 DEF View!NoLoad, LoadSet
      <3>3. f \in Part /\ n \in 0 .. MaxSafe  BY <1>2 DEF TabSet, LoadSet, View!Limits
      <3>4. n = 0 \/ (n = tab[b].sequence /\ f = tab[b].shown)  OBVIOUS
      <3> HIDE DEF f, n
      <3> QED  BY <1>2, <3>1, <3>2, <3>3, <3>4 DEF TabSet
    <2> QED  BY <2>1, <2>2, <2>3
  <1>5. Calm(tab[b], tab'[b])  BY <1>4 DEF Calm
  <1>6. Tabbed' /\ Wired'  BY <1>1, <1>4, <1>5, CalmStep
  <1>7. left' \in [changes : 0 .. MaxChanges, faults : Int, loads : Int]
    <2>1. left \in [changes : 0 .. MaxChanges, faults : Int, loads : Int]
      BY DEF StreamInv, Hosted
    <2>2. left' = left \/ left' = [left EXCEPT !.loads = @ - 1]
      BY DEF View!Poll, View!Refresh, View!LoadServed, View!LoadArrives
    <2> QED  BY <2>1, <2>2
  <1>8. readings' \in [Domains -> [kept : BOOLEAN, value : Value, fresh : BOOLEAN]]
    <2>1. readings' = readings \/ readings' = [d \in Domains |-> View!Entry(d, View!Observe(d))]
      BY DEF View!Poll, View!Refresh, View!LoadServed, View!LoadArrives
    <2> QED  BY <2>1, Observed DEF StreamInv, Hosted
  <1>9. Hosted'  BY <1>1, <1>7, <1>8 DEF StreamInv, Hosted
  <1>10. Awaited'
    <2>1. \A c \in pending.waiters :
            wire[c] = <<>> /\ c \notin clients /\ tab[c].link # "asked" /\ c \in Browsers
      BY DEF StreamInv, Awaited, Hosted, PendingSet
    <2>2. \A c \in Browsers : tab'[c].link = tab[c].link  BY <1>4
    <2> QED  BY <1>1, <2>1, <2>2 DEF StreamInv, Awaited
  <1> QED  BY <1>6, <1>9, <1>10 DEF StreamInv

\* A stream ends, or is opened anew.
LEMMA HangStep ==
  ASSUME StreamInv, View!Limits, NEW b \in Browsers,
         View!Connect(b) \/ View!PatchRefused(b) \/ View!ReceiveError(b) \/ View!LinkBreaks(b)
  PROVE  StreamInv'
  <1>1. View!Hang(b) /\ UNCHANGED <<host, stream, cached, readings>>
    BY DEF View!Connect, View!PatchRefused, View!ReceiveError, View!LinkBreaks
  <1>2. tab \in [Browsers -> TabSet] /\ tab[b] \in TabSet  BY DEF StreamInv, Tabbed
  <1>3. 0 \in 0 .. MaxSafe  BY DEF View!Limits
  <1>4. /\ tab' \in [Browsers -> TabSet] /\ \A c \in Browsers : c # b => tab'[c] = tab[c]
        /\ tab'[b].sequence = 0 \/ (tab'[b].sequence = tab[b].sequence
                                      /\ tab'[b].shown = tab[b].shown)
    <2>1. CASE View!Connect(b)
      <3>1. tab' = [tab EXCEPT ![b].retry = FALSE, ![b].link = "asked", ![b].sequence = 0]
        BY <2>1 DEF View!Connect, View!Connects
      <3> QED  BY <1>2, <1>3, <3>1 DEF TabSet
    <2>2. CASE View!PatchRefused(b)
      <3>1. tab' = [tab EXCEPT ![b].link = "closed", ![b].sequence = 0, ![b].retry = TRUE]
        BY <2>2 DEF View!PatchRefused
      <3> QED  BY <1>2, <1>3, <3>1 DEF TabSet
    <2>3. CASE View!ReceiveError(b) \/ View!LinkBreaks(b)
      <3> DEFINE l == IF tab[b].polling THEN tab[b].load
                      ELSE [stage |-> "asked", version |-> TRUE, fields |-> View!Nothing]
      <3>1. tab' = [tab EXCEPT ![b].link = "closed", ![b].retry = TRUE, ![b].polling = TRUE,
                               ![b].load = l]
        <4>1. tab' = View!Interrupted(b)  BY <2>3 DEF View!ReceiveError, View!LinkBreaks
        <4> QED  BY <1>2, <4>1 DEF View!Interrupted, TabSet
      <3>2. l \in LoadSet  BY <1>2, NothingIsPart DEF LoadSet, TabSet
      <3> HIDE DEF l
      <3> QED  BY <1>2, <3>1, <3>2 DEF TabSet
    <2> QED  BY <2>1, <2>2, <2>3
  <1>5. Calm(tab[b], tab'[b])  BY <1>4 DEF Calm
  <1>6. Tabbed' /\ Wired' /\ Awaited' /\ pending' \in PendingSet
    BY <1>1, <1>4, <1>5, Hung
  <1>7. left' \in [changes : 0 .. MaxChanges, faults : Int, loads : Int]
    <2>1. left \in [changes : 0 .. MaxChanges, faults : Int, loads : Int]
      BY DEF StreamInv, Hosted
    <2>2. left' = left \/ left' = [left EXCEPT !.faults = @ - 1]
      BY DEF View!Connect, View!PatchRefused, View!ReceiveError, View!LinkBreaks
    <2> QED  BY <2>1, <2>2
  <1>8. Hosted'  BY <1>1, <1>6, <1>7 DEF StreamInv, Hosted
  <1> QED  BY <1>6, <1>8 DEF StreamInv

\* The first frame of a connection is taken: at most an error is behind it.
LEMMA TakenSound ==
  ASSUME NEW l, NEW t, NEW s, SoundLine(l, t, s), l.wire # <<>>, NEW u
  PROVE  SoundLine([l EXCEPT !.wire = Tail(l.wire)], u, s)
  <1> DEFINE w == Tail(l.wire)
             k == [l EXCEPT !.wire = w]
  <1>1. /\ l.wire \in Seq(FrameSet) /\ Len(l.wire) \in 0 .. 2 /\ Len(l.wire) # 0
        /\ l \in LineSet
    BY LineTaken DEF SoundLine
  <1>2. /\ w \in Seq(FrameSet) /\ Len(w) = Len(l.wire) - 1
        /\ \A i \in 1 .. Len(w) : w[i] = l.wire[i + 1]
    BY <1>1
  <1> HIDE DEF w
  <1>3. Len(w) <= 1  BY <1>1, <1>2
  <1>4. k \in LineSet /\ k.wire = w  BY <1>1, <1>2 DEF LineSet
  <1> HIDE DEF k
  <1>5. \A i \in 1 .. Len(w) : w[i].event = "error"
    <2> SUFFICES ASSUME NEW i \in 1 .. Len(w)  PROVE w[i].event = "error"
      OBVIOUS
    <2>1. i + 1 \in 2 .. Len(l.wire)  BY <1>1, <1>2
    <2>2. l.wire[i + 1].event = "error"  BY <2>1 DEF SoundLine
    <2> QED  BY <1>2, <2>2
  <1>6. \A i \in 1 .. Len(w) : Leads(w[i], u, s)  BY <1>5 DEF Leads
  <1>7. \A i \in 2 .. Len(w) : i \in 1 .. Len(w)  BY <1>3
  <1>8. SoundLine(k, u, s)  BY <1>3, <1>4, <1>5, <1>6, <1>7 DEF SoundLine
  <1> QED  BY <1>8 DEF k, w

\* The tab shows the fields f of the update n.
LEMMA ShowStep ==
  ASSUME StreamInv, View!Limits, NEW b \in Browsers, wire[b] # <<>>, View!Take(b),
         NEW f \in Part, NEW n \in 0 .. MaxSafe, View!Show(b, f, n),
         n = stream.sequence => f = stream.fields,
         UNCHANGED <<host, stream, cached, pending, readings, timer, clients, sent, left>>
  PROVE  StreamInv'
  <1> DEFINE l == [tab[b].load EXCEPT !.version = FALSE]
  <1>1. tab \in [Browsers -> TabSet] /\ tab[b] \in TabSet
        /\ wire \in [Browsers -> Seq(FrameSet)]
    BY DEF StreamInv, Tabbed, Wired
  <1>2. l \in LoadSet  BY <1>1 DEF TabSet, LoadSet
  <1>3. tab' = [tab EXCEPT ![b].shown = f, ![b].sequence = n, ![b].load = l]
    BY <1>1 DEF View!Show, TabSet
  <1> HIDE DEF l
  <1>4. /\ tab' \in [Browsers -> TabSet] /\ \A c \in Browsers : c # b => tab'[c] = tab[c]
        /\ tab'[b].link = tab[b].link /\ tab'[b].sequence = n /\ tab'[b].shown = f
    BY <1>1, <1>2, <1>3 DEF TabSet
  <1>5. wire' = [wire EXCEPT ![b] = Tail(wire[b])]  BY DEF View!Take
  <1>6. Tail(wire[b]) \in Seq(FrameSet)  BY <1>1
  <1>7. ASSUME NEW c \in Browsers
        PROVE  SoundLine([wire |-> wire'[c], sent |-> sent[c], joined |-> c \in clients],
                         tab'[c], stream) /\ Shows(tab'[c], stream)
    <2>1. SoundLine(View!Line(c), tab[c], stream) /\ Shows(tab[c], stream)  BY LineIs
    <2>2. CASE c # b
      <3>1. wire'[c] = wire[c] /\ tab'[c] = tab[c]  BY <1>1, <1>4, <1>5, <2>2
      <3> QED  BY <2>1, <3>1 DEF View!Line
    <2>3. CASE c = b
      <3>1. View!Line(c).wire = wire[c] /\ wire[c] # <<>>  BY <2>3, LineIs
      <3>2. SoundLine([View!Line(c) EXCEPT !.wire = Tail(View!Line(c).wire)], tab'[c], stream)
        BY <2>1, <3>1, TakenSound
      <3>3. wire'[c] = Tail(wire[c])  BY <1>1, <1>5, <2>3
      <3>4. [View!Line(c) EXCEPT !.wire = Tail(View!Line(c).wire)]
              = [wire |-> wire'[c], sent |-> sent[c], joined |-> c \in clients]
        <4> DEFINE y == Tail(wire[c])
                   j == c \in clients
                   r == [wire |-> wire[c], sent |-> sent[c], joined |-> j]
        <4>1. View!Line(c) = r  BY DEF View!Line
        <4>2. Tail(View!Line(c).wire) = y  BY <3>1
        <4>3. wire'[c] = y  BY <3>3
        <4> HIDE DEF y, j
        <4>4. [r EXCEPT !.wire = y] = [wire |-> y, sent |-> sent[c], joined |-> j]
          OBVIOUS
        <4>5. [View!Line(c) EXCEPT !.wire = Tail(View!Line(c).wire)] = [r EXCEPT !.wire = y]
          <5> HIDE DEF r
          <5> QED  BY <4>1, <4>2
        <4>6. j = (c \in clients)  BY DEF j
        <4> HIDE DEF r
        <4> QED  BY <4>3, <4>4, <4>5, <4>6
      <3>5. Shows(tab'[c], stream)  BY <1>4, <2>3 DEF Shows
      <3> QED  BY <3>2, <3>4, <3>5
    <2> QED  BY <2>2, <2>3
  <1>8. wire' \in [Browsers -> Seq(FrameSet)]  BY <1>1, <1>5, <1>6
  <1>9. Wired'  BY <1>7, <1>8 DEF StreamInv, Wired, View!Line
  <1>10. Tabbed'  BY <1>4, <1>7 DEF Tabbed
  <1>11. Hosted'  BY DEF StreamInv, Hosted
  <1>12. Awaited'
    <2>1. \A c \in pending.waiters :
            wire[c] = <<>> /\ c \notin clients /\ tab[c].link # "asked" /\ c \in Browsers
      BY DEF StreamInv, Awaited, Hosted, PendingSet
    <2>2. \A c \in pending.waiters : wire'[c] = <<>> /\ tab'[c].link # "asked"
      BY <1>1, <1>4, <1>5, <2>1
    <2> QED  BY <2>1, <2>2 DEF StreamInv, Awaited
  <1> QED  BY <1>9, <1>10, <1>11, <1>12 DEF StreamInv

\* A snapshot or a patch arrives.
LEMMA ReceiveStep ==
  ASSUME StreamInv, View!Limits, NEW b \in Browsers,
         View!ReceiveSnapshot(b) \/ View!ReceivePatch(b)
  PROVE  StreamInv'
  <1> DEFINE x == View!Frame(b)
  <1>1. /\ wire[b] # <<>> /\ View!Take(b)
        /\ UNCHANGED <<host, stream, cached, pending, readings, timer, clients, sent, left>>
    BY DEF View!ReceiveSnapshot, View!ReceivePatch
  <1>2. SoundLine(View!Line(b), tab[b], stream) /\ View!Line(b).wire = wire[b]
        /\ tab[b] \in TabSet
    BY LineIs
  <1>3. x \in FrameSet /\ Leads(x, tab[b], stream)
    <2>1. wire[b] \in Seq(FrameSet)  BY DEF StreamInv, Wired
    <2>2. x = wire[b][1] /\ 1 \in 1 .. Len(wire[b]) /\ x \in FrameSet
      BY <1>1, <2>1 DEF View!Frame
    <2> QED  BY <1>2, <2>2 DEF SoundLine
  <1> HIDE DEF x
  <1>4. x.update \in UpdateSet /\ x.update.sequence \in 0 .. MaxSafe /\ x.update.fields \in Part
        /\ tab[b].shown \in Part
    BY <1>2, <1>3 DEF FrameSet, UpdateSet, TabSet
  <1>5. CASE View!ReceiveSnapshot(b)
    <2>1. x.event = "snapshot" /\ View!Show(b, x.update.fields, x.update.sequence)
      BY <1>5 DEF View!ReceiveSnapshot, x
    <2>2. x.update.sequence = stream.sequence => x.update.fields = stream.fields
      BY <1>3, <2>1 DEF Leads
    <2> QED  BY <1>1, <1>4, <2>1, <2>2, ShowStep
  <1>6. CASE View!ReceivePatch(b)
    <2> DEFINE f == View!Patched(tab[b].shown, x.update)
    <2>1. x.event = "snapshot-patch" /\ View!PatchFits(tab[b], x.update)
          /\ View!Show(b, f, x.update.sequence)
      BY <1>6 DEF View!ReceivePatch, x
    <2>2. f \in Part  BY <1>4, PatchedPart
    <2>3. x.update.sequence = stream.sequence => f = stream.fields
      BY <1>3, <2>1 DEF Leads
    <2> HIDE DEF f
    <2> QED  BY <1>1, <1>4, <2>1, <2>2, <2>3, ShowStep
  <1> QED  BY <1>5, <1>6

--------------------------------------------------------------------------------
\* What a settled collection does for one connection leaves it sound.
LEMMA SettledSound ==
  ASSUME StreamInv, View!Limits, NEW b \in Browsers, NEW s,
         NEW whole \in FrameSet, NEW part \in FrameSet, NEW askedFirst \in BOOLEAN,
         SoundLine(View!Line(b), tab[b], s), Leads(whole, tab[b], s), Leads(part, tab[b], s)
  PROVE  SoundLine(View!Settled(whole, part, askedFirst)[b], tab[b], s)
  <1> DEFINE l == View!Line(b)
             answered(k) == IF b \in pending.waiters THEN View!Joined(k, whole) ELSE k
             fanned(k) == IF pending.broadcasts > 0 /\ k.joined THEN View!Written(k, part) ELSE k
             r == View!Settled(whole, part, askedFirst)[b]
  <1>1. r = IF askedFirst THEN fanned(answered(l)) ELSE answered(fanned(l))
    BY DEF View!Settled
  <1>2. l.wire = wire[b] /\ l.joined = (b \in clients)  BY LineIs
  <1>3. ASSUME NEW k, SoundLine(k, tab[b], s)
        PROVE  SoundLine(fanned(k), tab[b], s)
    <2>1. k.joined \in BOOLEAN  BY <1>3, LineTaken
    <2>2. CASE pending.broadcasts > 0 /\ k.joined
      <3>1. k.joined = TRUE  BY <2>1, <2>2
      <3>2. SoundLine(View!Written(k, part), tab[b], s)  BY <1>3, <3>1, WrittenSound
      <3> QED  BY <2>2, <3>2
    <2>3. CASE ~(pending.broadcasts > 0 /\ k.joined)  BY <1>3, <2>3
    <2> QED  BY <2>2, <2>3
  <1>4. CASE b \in pending.waiters
    <2>1. wire[b] = <<>> /\ b \notin clients  BY <1>4 DEF StreamInv, Awaited
    <2>2. l.wire = <<>>  BY <1>2, <2>1
    <2>9. ~l.joined
      <3>1. l.joined <=> b \in clients  BY DEF View!Line
      <3> QED  BY <2>1, <3>1
    <2>3. SoundLine(View!Joined(l, whole), tab[b], s)  BY <2>2, JoinedSound
    <2>4. answered(l) = View!Joined(l, whole)  BY <1>4
    <2>5. fanned(l) = l  BY <2>9
    <2> HIDE DEF l, answered, fanned
    <2>6. CASE askedFirst
      <3>1. SoundLine(fanned(View!Joined(l, whole)), tab[b], s)  BY <1>3, <2>3
      <3> QED  BY <1>1, <2>4, <2>6, <3>1
    <2>7. CASE ~askedFirst  BY <1>1, <2>3, <2>4, <2>5, <2>7
    <2> QED  BY <2>6, <2>7
  <1>5. CASE b \notin pending.waiters
    <2>1. answered(l) = l /\ answered(fanned(l)) = fanned(l)  BY <1>5
    <2>2. SoundLine(fanned(l), tab[b], s)  BY <1>3
    <2>3. r = fanned(l)
      <3> HIDE DEF l, answered, fanned
      <3> QED  BY <1>1, <2>1
    <2> QED  BY <2>2, <2>3
  <1> QED  BY <1>4, <1>5

\* Nobody waits and nothing is to be broadcast once a collection is over.
LEMMA IdleAwaited ==
  ASSUME View!Limits, pending' = View!Idle, View!Arm
  PROVE  Awaited' /\ pending' \in PendingSet
  <1>1. pending' = [on |-> FALSE, fields |-> View!Nothing, broadcasts |-> 0, waiters |-> {}]
    BY DEF View!Idle
  <1>2. timer' = (clients' # {})  BY DEF View!Arm
  <1>3. timer' \in BOOLEAN /\ (clients' # {} => timer' = TRUE)  BY <1>2
  <1>4. View!Nothing \in Part  BY NothingIsPart
  <1>5. pending'.waiters = {} /\ pending'.broadcasts = 0  BY <1>1
  <1>6. pending' \in PendingSet  BY <1>1, <1>4 DEF PendingSet
  <1> QED  BY <1>3, <1>5, <1>6 DEF Awaited

\* A collection throws: those that wait, and the fan-out, get an error.
LEMMA FailedStep ==
  ASSUME StreamInv, View!Limits, View!CollectionFails
  PROVE  StreamInv'
  <1> DEFINE lines == View!Settled(View!Failure, View!Failure, TRUE)
  <1>1. /\ left' = [left EXCEPT !.faults = @ - 1]
        /\ View!SetLines(lines) /\ pending' = View!Idle /\ View!Arm
        /\ UNCHANGED <<host, stream, cached, readings, tab>>
    BY DEF View!CollectionFails
  <1>2. ASSUME NEW b \in Browsers
        PROVE  SoundLine(lines[b], tab'[b], stream')
    <2>1. View!Failure \in FrameSet /\ Leads(View!Failure, tab[b], stream)
      BY FailureFrame DEF Leads
    <2>2. SoundLine(View!Line(b), tab[b], stream)  BY LineIs
    <2> QED  BY <1>1, <2>1, <2>2, SettledSound
  <1> HIDE DEF lines
  <1>3. Wired'  BY <1>1, <1>2, LinesSet
  <1>4. Awaited' /\ pending' \in PendingSet  BY <1>1, IdleAwaited
  <1>5. left' \in [changes : 0 .. MaxChanges, faults : Int, loads : Int]
    BY <1>1 DEF StreamInv, Hosted
  <1>6. Hosted'  BY <1>1, <1>4, <1>5 DEF StreamInv, Hosted
  <1>7. Tabbed'  BY <1>1 DEF StreamInv, Tabbed
  <1> QED  BY <1>3, <1>4, <1>6, <1>7 DEF StreamInv

\* No frame under way and no tab has a sequence that is not in use.
LEMMA Unused ==
  ASSUME StreamInv, NEW n, n \notin View!InUse, NEW b \in Browsers, NEW s, s.sequence = n
  PROVE  SoundLine(View!Line(b), tab[b], s) /\ Shows(tab[b], s)
  <1>1. tab[b].sequence # n  BY DEF View!InUse
  <1>2. SoundLine(View!Line(b), tab[b], stream) /\ View!Line(b).wire = wire[b]  BY LineIs
  <1>3. wire[b] \in Seq(FrameSet)  BY DEF StreamInv, Wired
  <1>4. ASSUME NEW i \in 1 .. Len(wire[b])  PROVE wire[b][i].update.sequence # n
    <2>1. i \in DOMAIN wire[b]  BY <1>3
    <2> QED  BY <2>1 DEF View!InUse
  <1>5. \A i \in 1 .. Len(wire[b]) : Leads(wire[b][i], tab[b], s)  BY <1>4 DEF Leads
  <1>6. SoundLine(View!Line(b), tab[b], s)  BY <1>2, <1>5 DEF SoundLine
  <1> QED  BY <1>1, <1>6 DEF Shows

\* A collection settles: a new sequence nobody uses, and frames that lead to it.
LEMMA CollectedStep ==
  ASSUME StreamInv, View!Limits, View!Collected
  PROVE  StreamInv'
  <1> DEFINE n == View!NextSequence(stream.sequence)
             f == pending.fields
  <1>1. /\ n \notin View!InUse /\ \A d \in Domains : f[d] # View!Unread
        /\ UNCHANGED <<host, readings, tab, left>>
    BY DEF View!Collected
  <1>2. PICK u \in View!Updates(f), askedFirst \in BOOLEAN :
          /\ stream' = [sequence |-> u.sequence, fields |-> u.fields]
          /\ View!SetLines(View!Settled(View!Snapshot(u.sequence, u.fields), View!Broadcast(u),
                                        askedFirst))
          /\ pending' = View!Idle
          /\ View!Arm
    BY DEF View!Collected
  <1>3. f \in Whole
    <2>1. f \in Part  BY DEF StreamInv, Hosted, PendingSet
    <2>2. \A d \in Domains : f[d] \in Value
      BY <1>1, <2>1 DEF Part, View!FieldsType, View!Unread, Value, View!Limits
    <2> QED  BY <2>1, <2>2 DEF Part, View!FieldsType, Whole
  <1>4. stream.sequence \in 0 .. MaxSafe /\ stream.fields \in Whole  BY DEF StreamInv, Hosted
  <1> DEFINE whole == View!Snapshot(u.sequence, u.fields)
             part == View!Broadcast(u)
             lines == View!Settled(whole, part, askedFirst)
  <1> HIDE DEF f
  <1>5. ASSUME NEW b \in Browsers
        PROVE  /\ u.sequence = n /\ u.fields = f
               /\ Sendable(whole, tab[b], stream') /\ Sendable(part, tab[b], stream')
    <2>1. tab[b] \in TabSet /\ Shows(tab[b], stream)  BY LineIs
    <2> QED  BY <1>2, <1>3, <1>4, <2>1, CollectedLeads
  <1>6. u.sequence = n /\ u.fields = f
    <2>1. u = View!FullUpdate(f) \/ u = View!PatchUpdate(f)  BY DEF View!Updates
    <2> QED  BY <2>1 DEF View!FullUpdate, View!WholeUpdate, View!PatchUpdate
  <1>7. stream'.sequence = n /\ stream'.fields = f  BY <1>2, <1>6
  <1> HIDE DEF n, whole, part
  <1>8. ASSUME NEW b \in Browsers
        PROVE  SoundLine(lines[b], tab'[b], stream') /\ Shows(tab'[b], stream')
    <2>1. SoundLine(View!Line(b), tab[b], stream') /\ Shows(tab[b], stream')
      BY <1>1, <1>7, Unused
    <2>2. /\ whole \in FrameSet /\ part \in FrameSet
          /\ Leads(whole, tab[b], stream') /\ Leads(part, tab[b], stream')
      BY <1>5 DEF Sendable
    <2> QED  BY <1>1, <2>1, <2>2, SettledSound
  <1>9. View!SetLines(lines)  BY <1>2 DEF whole, part
  <1> HIDE DEF lines
  <1>10. Wired'  BY <1>8, <1>9, LinesSet
  <1>11. Awaited' /\ pending' \in PendingSet  BY <1>2, IdleAwaited
  <1>12. n \in 0 .. MaxSafe  BY <1>4, SequenceNext DEF n
  <1>13. Hosted'  BY <1>1, <1>3, <1>7, <1>11, <1>12 DEF StreamInv, Hosted
  <1>14. Tabbed'  BY <1>1, <1>8 DEF StreamInv, Tabbed
  <1> QED  BY <1>10, <1>11, <1>13, <1>14 DEF StreamInv

--------------------------------------------------------------------------------
\* Every step of the server, of a tab and of the host keeps the invariant.
LEMMA StreamStep ==
  ASSUME StreamInv, View!Limits, [View!Next]_(View!vars)
  PROVE  StreamInv'
  <1>1. CASE View!Server
    <2>1. \/ \E b \in Browsers : View!Serve(b)
          \/ \E d \in Domains : View!Read(d) \/ View!ObservationExpires(d)
          \/ View!Collected \/ View!CollectionFails \/ View!BroadcastDue \/ View!CacheExpires
      BY <1>1 DEF View!Server
    <2> QED  BY <2>1, ServeStep, ReadStep, ExpiryStep, CollectedStep, FailedStep, BroadcastStep
  <1>2. ASSUME NEW b \in Browsers, View!Browser(b)  PROVE StreamInv'
    <2>1. \/ View!Connect(b) \/ View!PatchRefused(b) \/ View!ReceiveError(b) \/ View!LinkBreaks(b)
          \/ View!ReceiveSnapshot(b) \/ View!ReceivePatch(b)
          \/ View!Poll(b) \/ View!Refresh(b) \/ View!LoadServed(b) \/ View!LoadArrives(b)
      BY <1>2 DEF View!Browser
    <2>2. CASE View!Connect(b) \/ View!PatchRefused(b) \/ View!ReceiveError(b) \/ View!LinkBreaks(b)
      BY <2>2, HangStep
    <2>3. CASE View!ReceiveSnapshot(b) \/ View!ReceivePatch(b)  BY <2>3, ReceiveStep
    <2>4. CASE View!Poll(b) \/ View!Refresh(b) \/ View!LoadServed(b) \/ View!LoadArrives(b)
      BY <2>4, LoadStep
    <2> QED  BY <2>1, <2>2, <2>3, <2>4
  <1>3. ASSUME NEW d \in Domains, View!Change(d)  PROVE StreamInv'
    BY <1>3, ChangeStep
  <1>4. CASE UNCHANGED View!vars
    BY <1>4 DEF View!vars, StreamInv, Hosted, Tabbed, Wired, Awaited, View!Line
  <1> QED  BY <1>1, <1>2, <1>3, <1>4 DEF View!Next

\* The bounds of a run.
Bounds == [changes : 0 .. MaxChanges, faults : Int, loads : Int]

\* The invariant holds of every beginning.
LEMMA StreamInit ==
  ASSUME View!Limits, NEW opened, NEW kept, NEW bounds \in Bounds,
         View!InitWith(opened, kept, bounds)
  PROVE  StreamInv
  <1>1. 0 \in Value /\ 1 \in Value /\ 0 \in 0 .. MaxSafe  BY DEF Value, View!Limits
  <1>2. View!Nothing \in Part  BY NothingIsPart
  <1>3. Hosted
    <2>1. host = [d \in Domains |-> 1]
          /\ stream = [sequence |-> 0, fields |-> [d \in Domains |-> 0]]
          /\ readings = [d \in Domains |-> [kept |-> d \in kept, value |-> 0, fresh |-> FALSE]]
          /\ left = bounds /\ pending = View!Idle
      BY DEF View!InitWith
    <2>2. host \in Whole  BY <1>1, <2>1 DEF Whole
    <2>3. stream.sequence \in 0 .. MaxSafe /\ stream.fields \in Whole
      BY <1>1, <2>1 DEF Whole
    <2>4. readings \in [Domains -> [kept : BOOLEAN, value : Value, fresh : BOOLEAN]]
      <3>1. \A d \in Domains : [kept |-> d \in kept, value |-> 0, fresh |-> FALSE]
              \in [kept : BOOLEAN, value : Value, fresh : BOOLEAN]
        BY <1>1
      <3> QED  BY <2>1, <3>1
    <2>5. left \in [changes : 0 .. MaxChanges, faults : Int, loads : Int]
      BY <2>1 DEF Bounds
    <2>6. pending \in PendingSet  BY <1>2, <2>1 DEF View!Idle, PendingSet
    <2> QED  BY <2>2, <2>3, <2>4, <2>5, <2>6 DEF Hosted
  <1>4. tab = [b \in Browsers |-> View!NewTab(b \in opened)]
        /\ wire = [b \in Browsers |-> <<>>] /\ sent = [b \in Browsers |-> 0]
        /\ clients = {} /\ timer = FALSE /\ pending = View!Idle
    BY DEF View!InitWith
  <1>5. Tabbed
    <2>1. ASSUME NEW b \in Browsers
          PROVE  View!NewTab(b \in opened) \in TabSet /\ View!NewTab(b \in opened).sequence = 0
      <3>1. View!NoLoad \in LoadSet  BY <1>2 DEF View!NoLoad, LoadSet
      <3> DEFINE o == b \in opened
                 k == IF o THEN "closed" ELSE "none"
      <3>2. o \in BOOLEAN  OBVIOUS
      <3>3. k \in {"none", "closed", "asked", "served"}  OBVIOUS
      <3>4. View!NewTab(o) = [shown |-> View!Nothing, sequence |-> 0, link |-> k, retry |-> o,
                              polling |-> FALSE, load |-> View!NoLoad]
        BY DEF View!NewTab
      <3> HIDE DEF o, k
      <3>5. View!NewTab(o) \in TabSet /\ View!NewTab(o).sequence = 0
        BY <1>1, <1>2, <3>1, <3>2, <3>3, <3>4 DEF TabSet
      <3> QED  BY <3>5 DEF o
    <2> QED  BY <1>4, <2>1 DEF Tabbed, Shows
  <1>6. Wired
    <2>1. \A b \in Browsers : wire[b] = <<>> /\ sent[b] = 0 /\ (b \in clients) = FALSE
      BY <1>4
    <2>2. \A b \in Browsers : SoundLine(View!Line(b), tab[b], stream)
      BY <2>1, NoLine DEF View!Line
    <2>3. <<>> \in Seq(FrameSet)  OBVIOUS
    <2>4. wire \in [Browsers -> Seq(FrameSet)] /\ sent \in [Browsers -> 0 .. MaxSafe]
      BY <1>1, <1>4, <2>3
    <2> QED  BY <1>4, <2>2, <2>4 DEF Wired
  <1>7. Awaited
    <2>1. pending.waiters = {} /\ pending.broadcasts = 0  BY <1>4 DEF View!Idle
    <2> QED  BY <1>4, <2>1 DEF Awaited
  <1> QED  BY <1>3, <1>5, <1>6, <1>7 DEF StreamInv

\* The invariant gives what the runs check.
LEMMA StreamInvSafe ==
  ASSUME StreamInv, View!Limits
  PROVE  View!StreamSafe
  <1>1. View!TypeOK
    <2>1. stream.sequence \in 0 .. MaxSafe /\ stream.fields \in View!FieldsType
      BY WholeIsPart DEF StreamInv, Hosted, Part
    <2>2. pending.waiters \subseteq Browsers /\ clients \subseteq Browsers
          /\ timer \in BOOLEAN /\ sent \in [Browsers -> 0 .. MaxSafe]
      BY DEF StreamInv, Hosted, PendingSet, Wired, Awaited
    <2>3. ASSUME NEW b \in Browsers
          PROVE  /\ Len(wire[b]) <= View!Buffer + 1
                 /\ tab[b].link \in {"none", "closed", "asked", "served"}
                 /\ tab[b].shown \in View!FieldsType
      <3>1. Len(wire[b]) <= 2  BY LineIs DEF SoundLine
      <3>2. tab[b] \in TabSet  BY LineIs
      <3>3. View!Buffer + 1 = 2  BY DEF View!Buffer
      <3> QED  BY <3>1, <3>2, <3>3 DEF TabSet, Part
    <2> QED  BY <2>1, <2>2, <2>3 DEF View!TypeOK
  <1>2. View!InStep
    <2>1. clients \subseteq Browsers  BY DEF StreamInv, Wired
    <2> QED  BY <2>1 DEF View!InStep, StreamInv, Tabbed, Shows
  <1>3. View!FanOutGoesOn  BY DEF View!FanOutGoesOn, StreamInv, Awaited
  <1> QED  BY <1>1, <1>2, <1>3 DEF View!StreamSafe

\* From any tabs that are open, any domains the observation cache keeps, and any
\* bounds on what happens to them: a tab in the fan-out that holds the server's
\* sequence shows the server's fields, and somebody will update the fan-out.
THEOREM StreamSafeForAnyTabs ==
  ASSUME View!Limits, CONSTANT opened, CONSTANT kept, CONSTANT bounds, bounds \in Bounds
  PROVE  View!InitWith(opened, kept, bounds) /\ [][View!Next]_(View!vars) => []View!StreamSafe
  <1>1. View!InitWith(opened, kept, bounds) => StreamInv  BY StreamInit
  <1>2. StreamInv /\ [View!Next]_(View!vars) => StreamInv'  BY StreamStep
  <1>3. StreamInv => View!StreamSafe  BY StreamInvSafe
  <1> QED  BY <1>1, <1>2, <1>3, PTL

\* The same of the stream as the runs check it (snapshot-events.js, public/app.js).
THEOREM StreamIsSafe ==
  ASSUME View!Limits
  PROVE  View!Spec => []View!StreamSafe
  <1>1. View!Init => StreamInv
    <2>1. [changes |-> MaxChanges, faults |-> MaxFaults, loads |-> MaxLoads] \in Bounds
      BY DEF Bounds, View!Limits
    <2> QED  BY <2>1, StreamInit DEF View!Init
  <1>2. StreamInv /\ [View!Next]_(View!vars) => StreamInv'  BY StreamStep
  <1>3. StreamInv => View!StreamSafe  BY StreamInvSafe
  <1> QED  BY <1>1, <1>2, <1>3, PTL DEF View!Spec

================================================================================
