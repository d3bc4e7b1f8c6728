------------------------------- MODULE CodexUsage -------------------------------
(* Usage accounting (codex-telemetry.js, server.js): totals that Codex appends to *)
(* rollout files are read from an offset and added to days and to the prompts of  *)
(* the session, in one store that is replaced by one pass at a time.              *)
EXTENDS Integers, Sequences, FiniteSets, SequencesExt, FiniteSetsExt, Functions

CONSTANTS
  Rollouts,    \* rollout files; the id of a source is a hash of its path
  Roots,       \* those of an interactive root session, not of a sub-agent
  Sessions,    \* tmux sessions of agents
  Prompts,     \* items of the prompt queue
  MaxCursors,  \* MAX_USAGE_CURSORS
  MaxDays,     \* USAGE_RETENTION_DAYS
  MaxTickets,  \* MAX_USAGE_TICKETS
  MaxTime,     \* bound: days that pass
  MaxUsed,     \* bound: tokens used
  MaxWaiting,  \* bound: passes that wait
  MaxFaults    \* bound: crashes, failed writes, moved or damaged rollouts

VARIABLES
  file,     \* pieces of each rollout
  gone,     \* rollouts that were deleted
  writing,  \* rollouts whose last line has no newline yet
  counter,  \* the total Codex reports for each rollout
  used,     \* tokens used altogether
  shown,    \* the session in whose process a rollout is open
  prompt,   \* when a prompt was sent and ended, and its session
  now,      \* the UTC day
  mem,      \* codexUsageHistoryStore
  disk,     \* codex-usage-history.json
  waiting,  \* samples of the passes that wait for their turn
  job,      \* the pass that has read its batches and now writes
  faults

vars == <<file, gone, writing, counter, used, shown, prompt, now, mem, disk, waiting, job, faults>>
agents == <<file, gone, writing, counter, used, shown>>

Nowhere == "none"
Times == 0..MaxTime
Fault == faults < MaxFaults /\ faults' = faults + 1

\* op over the elements, from a first value on. (A fold of FiniteSetsExt is slow.)
Each(op(_, _), first, set) ==
  LET seq == SetToSeq(set)
      f[k \in 0..Len(seq)] == IF k = 0 THEN first ELSE op(f[k - 1], seq[k])
  IN f[Len(seq)]

Total(f, S) == LET plus(n, x) == n + f[x] IN Each(plus, 0, S)

\* A line is a record and its newline: a piece each, as an offset can fall between.
\* A record is a fragment until its newline.
Record(at, total) == [nl |-> FALSE, at |-> at, total |-> total]
Newline == [nl |-> TRUE, at |-> 0, total |-> 0]

-----------------------------------------------------------------------------
(* Reading                                                                    *)

\* A line counts once its newline is there; a file that shrank is not read again.
Lines(r, start) ==
  LET pieces == file[r]
      from == IF start > Len(pieces) THEN Len(pieces) ELSE start
      ends == {i \in from + 1..Len(pieces) : pieces[i].nl}
      begins(i) == i - 1 = from \/ pieces[i - 1].nl
      whole == {i \in ends : i - 1 > from /\ ~pieces[i - 1].nl /\ begins(i - 1)}
  IN [source |-> r, start |-> start, next |-> Max(ends \cup {from}),
      events |-> [k \in 1..Cardinality(whole) |-> pieces[SetToSortSeq(whole, <)[k] - 1]]]

\* A mutant: the offset moves past a line that is still written.
BatchToEnd(r, start) == [Lines(r, start) EXCEPT !.next = Len(file[r])]

\* The offset moves past the lines that were read.
Batch(r, start) == Lines(r, start)

\* The last total a tail shows.
Latest(r) == LET events == Batch(r, 0).events IN IF events = <<>> THEN Record(0, 0) ELSE Last(events)

\* Of the rollouts a session has open one is taken, of a root session if there is one.
Candidates(s) == {r \in Rollouts \ gone : shown[r] = s}
IsRoot(r) == r \in Roots
Preferred(s) == LET roots == {r \in Candidates(s) : IsRoot(r)}
                IN IF roots # {} THEN roots ELSE Candidates(s)
Sample(s, r) == [source |-> r, session |-> s, at |-> Latest(r).at, tokens |-> Latest(r).total]

-----------------------------------------------------------------------------
(* The store                                                                  *)

Fresh(at) ==
  [since |-> at, complete |-> FALSE, cursors |-> <<>>,
   days |-> [d \in Times |-> [s \in Sessions |-> 0]], tickets |-> <<>>]
NoFile == [Fresh(0) EXCEPT !.since = -1]
Idle == [busy |-> FALSE, next |-> NoFile]

\* A total that regressed adds nothing.
Delta(total, before) == IF total < before THEN 0 ELSE total - before

\* The n latest of f, by the times in at.
Newest(f, n, at) ==
  LET older(x) == {y \in DOMAIN f : at[y] > at[x]}
      ties == {S \in SUBSET DOMAIN f :
                 /\ Cardinality(S) = (IF Cardinality(DOMAIN f) < n THEN Cardinality(DOMAIN f) ELSE n)
                 /\ \A x \in S : older(x) \subseteq S}
  IN Restrict(f, CHOOSE S \in ties : TRUE)

Pruned(store) ==
  LET kept == {d \in Times : \E s \in Sessions : store.days[d][s] > 0}
      late(d) == Cardinality({e \in kept : e > d}) < MaxDays
      last == [p \in DOMAIN store.tickets |->
                 IF store.tickets[p].ended >= 0 THEN store.tickets[p].ended ELSE store.tickets[p].sent]
      at == [r \in DOMAIN store.cursors |-> store.cursors[r].at]
  IN [store EXCEPT
        !.days = [d \in Times |-> IF late(d) THEN @[d] ELSE [s \in Sessions |-> 0]],
        !.cursors = Newest(@, MaxCursors, at),
        !.tickets = Newest(@, MaxTickets, last)]

\* Partial coverage: the total of a sample against that of the last one.
Sampled(store, sample) ==
  LET known == sample.source \in DOMAIN store.cursors
      last == store.cursors[sample.source]
      delta == IF known /\ last.session = sample.session THEN Delta(sample.tokens, last.tokens) ELSE 0
      cursor == [session |-> sample.session, at |-> sample.at, tokens |-> sample.tokens, offset |-> -1]
  IN IF known /\ sample.at <= last.at
     THEN store
     ELSE [store EXCEPT !.cursors = (sample.source :> cursor) @@ @,
                        !.days[sample.at][sample.session] = @ + delta]

Windows == {p \in Prompts : prompt[p].sent >= 0}
Refreshed(store) ==
  [store EXCEPT !.tickets =
     [p \in Windows |-> [session |-> prompt[p].session, sent |-> prompt[p].sent, ended |-> prompt[p].ended,
                         tokens |-> IF p \in DOMAIN @ THEN @[p].tokens ELSE 0]] @@ @]

Owners(session, at) ==
  {p \in Windows : prompt[p].session = session /\ prompt[p].sent <= at
                   /\ (prompt[p].ended = -1 \/ at <= prompt[p].ended)}

\* A mutant: an event of two prompts is added to both.
AddedToAll(store, session, at, delta) ==
  [store EXCEPT !.days[at][session] = @ + delta,
                !.tickets = [p \in DOMAIN @ |-> IF p \in Owners(session, at)
                                                THEN [@[p] EXCEPT !.tokens = @ + delta] ELSE @[p]]]

\* An event is a prompt's only if it is of exactly one.
Added(store, session, at, delta) ==
  LET owners == Owners(session, at)
      owned == IF Cardinality(owners) = 1 THEN owners ELSE {}
  IN [store EXCEPT !.days[at][session] = @ + delta,
                   !.tickets = [p \in DOMAIN @ |-> IF p \in owned
                                                   THEN [@[p] EXCEPT !.tokens = @ + delta] ELSE @[p]]]

\* A batch is added where the cursor is: the totals against each other, from `since` on.
Replayed(store, batch, session) ==
  LET known == batch.source \in DOMAIN store.cursors
      last == IF known THEN store.cursors[batch.source]
              ELSE [session |-> session, at |-> store.since, tokens |-> 0, offset |-> -1]
      events == batch.events
      total(k) == IF k = 0 THEN last.tokens ELSE events[k].total
      counted[k \in 0..Len(events)] ==
        IF k = 0 THEN store
        ELSE IF events[k].at < store.since THEN counted[k - 1]
        ELSE Added(counted[k - 1], session, events[k].at, Delta(total(k), total(k - 1)))
      cursor == [session |-> session, at |-> IF events = <<>> THEN last.at ELSE Last(events).at,
                 tokens |-> total(Len(events)), offset |-> batch.next]
  IN IF known /\ (batch.start # last.offset \/ (events = <<>> /\ batch.next = last.offset))
     THEN store
     ELSE [counted[Len(events)] EXCEPT !.cursors = (batch.source :> cursor) @@ @]

\* The sources to replay from their beginning; none if one cannot be found again.
Sources(store, samples) ==
  LET seen == {x.source : x \in samples}
      session(r) == IF r \in seen THEN (CHOOSE x \in samples : x.source = r).session
                    ELSE store.cursors[r].session
  IN [r \in DOMAIN store.cursors \cup seen |-> session(r)]

\* A rollout that cannot be read keeps its cursor.
Incremental(store, samples) ==
  LET start(r) == IF r \in DOMAIN store.cursors THEN store.cursors[r].offset ELSE 0
      replay(s, x) == Replayed(s, Batch(x.source, start(x.source)), x.session)
  IN Pruned(Each(replay, Refreshed(store), {x \in samples : x.source \notin gone}))

Rebuilt(store, sources) ==
  LET rebuild(s, r) == Replayed(s, Batch(r, 0), sources[r])
  IN Pruned([Each(rebuild, Refreshed(Fresh(store.since)), DOMAIN sources) EXCEPT !.complete = TRUE])

\* What a pass makes of its samples.
Reconciled(store, samples) ==
  LET sources == Sources(store, samples)
  IN CASE store.complete -> Incremental(store, samples)
       [] ~store.complete /\ DOMAIN sources \cap gone = {} -> Rebuilt(store, sources)
       [] OTHER -> Pruned(Each(Sampled, store, samples))

ValidCursor(r, c) == r \in Rollouts /\ c.session \in Sessions /\ c.tokens >= 0 /\ c.offset >= -1
ValidTicket(p, t) == p \in Prompts /\ t.session \in Sessions /\ t.tokens >= 0
ValidStore(store) ==
  /\ Cardinality(DOMAIN store.cursors) <= MaxCursors /\ Cardinality(DOMAIN store.tickets) <= MaxTickets
  /\ Cardinality({d \in Times : \E s \in Sessions : store.days[d][s] > 0}) <= MaxDays
  /\ \A r \in DOMAIN store.cursors : ValidCursor(r, store.cursors[r])
  /\ \A p \in DOMAIN store.tickets : ValidTicket(p, store.tickets[p])
  /\ \A d \in Times, s \in Sessions : store.days[d][s] >= 0

\* What the operator is shown of a session.
CountedFor(store, s) == Total([d \in Times |-> store.days[d][s]], Times)
Counted(store) == Total([s \in Sessions |-> CountedFor(store, s)], Sessions)
OfTickets(store, s) ==
  Total([p \in DOMAIN store.tickets |-> store.tickets[p].tokens],
        {p \in DOMAIN store.tickets : store.tickets[p].session = s})

-----------------------------------------------------------------------------
(* Codex, its sessions and the prompts                                        *)

Uses(r) ==
  /\ Total(used, Rollouts) < MaxUsed /\ r \notin gone \cup writing /\ shown[r] # Nowhere
  /\ used' = [used EXCEPT ![r] = @ + 1]
  /\ counter' = [counter EXCEPT ![r] = @ + 1]
  /\ file' = [file EXCEPT ![r] = Append(@, Record(now, counter[r] + 1))]
  /\ writing' = writing \cup {r}
  /\ UNCHANGED <<gone, shown, prompt, now, mem, disk, waiting, job, faults>>

EndsLine(r) ==
  /\ r \in writing /\ writing' = writing \ {r}
  /\ file' = [file EXCEPT ![r] = Append(@, Newline)]
  /\ UNCHANGED <<gone, counter, used, shown, prompt, now, mem, disk, waiting, job, faults>>

\* The file loses its end, the rollout is opened in another session with or without
\* its count, or it is deleted.
Upset(r) ==
  /\ Fault /\ r \notin gone \cup writing
  /\ \/ \E n \in 0..Len(file[r]) - 1 :
          file' = [file EXCEPT ![r] = SubSeq(@, 1, n)] /\ UNCHANGED <<gone, counter, shown>>
     \/ \E s \in Sessions \ {shown[r]}, again \in BOOLEAN :
          /\ shown' = [shown EXCEPT ![r] = s]
          /\ counter' = [counter EXCEPT ![r] = IF again THEN 0 ELSE @]
          /\ UNCHANGED <<file, gone>>
     \/ gone' = gone \cup {r} /\ UNCHANGED <<file, counter, shown>>
  /\ UNCHANGED <<writing, used, prompt, now, mem, disk, waiting, job>>

PromptSent(p, s) ==
  /\ prompt[p].sent = -1
  /\ prompt' = [prompt EXCEPT ![p] = [session |-> s, sent |-> now, ended |-> -1]]
  /\ UNCHANGED <<agents, now, mem, disk, waiting, job, faults>>

PromptEnds(p) ==
  /\ prompt[p].sent >= 0 /\ prompt[p].ended = -1
  /\ prompt' = [prompt EXCEPT ![p].ended = now]
  /\ UNCHANGED <<agents, now, mem, disk, waiting, job, faults>>

DayEnds ==
  /\ now < MaxTime /\ now' = now + 1
  /\ UNCHANGED <<agents, prompt, mem, disk, waiting, job, faults>>

-----------------------------------------------------------------------------
(* Passes                                                                     *)

\* A monitor's or a snapshot's samples, a rollout of each session that has one.
Collects ==
  /\ Len(waiting) < MaxWaiting
  /\ \E choice \in [Sessions -> Rollouts \cup {Nowhere}] :
       /\ \A s \in Sessions : IF Preferred(s) = {} THEN choice[s] = Nowhere ELSE choice[s] \in Preferred(s)
       /\ waiting' = Append(waiting, {Sample(s, choice[s]) : s \in {s \in Sessions : choice[s] # Nowhere}})
  /\ UNCHANGED <<agents, prompt, now, mem, disk, job, faults>>

\* The pass whose turn it is; one that changes nothing or is not valid ends at once.
PassReads ==
  /\ ~job.busy /\ waiting # <<>>
  /\ waiting' = Tail(waiting)
  /\ LET next == Reconciled(mem, Head(waiting))
     IN job' = IF next = mem \/ ~ValidStore(next) THEN Idle ELSE [busy |-> TRUE, next |-> next]
  /\ UNCHANGED <<agents, prompt, now, mem, disk, faults>>

PassWrites ==
  /\ job.busy /\ job' = Idle
  /\ mem' = job.next /\ disk' = job.next
  /\ UNCHANGED <<agents, prompt, now, waiting, faults>>

\* The passes that wait fail with the one they wait for.
PassFails ==
  /\ job.busy /\ Fault
  /\ job' = Idle /\ waiting' = <<>>
  /\ UNCHANGED <<agents, prompt, now, mem, disk>>

Crash ==
  /\ Fault
  /\ disk' \in {disk} \cup (IF job.busy THEN {job.next} ELSE {})
  /\ mem' = IF disk' = NoFile THEN Fresh(now) ELSE disk'
  /\ job' = Idle /\ waiting' = <<>>
  /\ UNCHANGED <<agents, prompt, now>>

-----------------------------------------------------------------------------

NoPrompt == [session |-> Nowhere, sent |-> -1, ended |-> -1]
OldPrompt(s, ended) == [session |-> s, sent |-> 0, ended |-> ended]

\* A first start, or one with a history that was kept by samples.
StartFrom(store) ==
  /\ file = [r \in Rollouts |-> <<>>] /\ gone = {} /\ writing = {}
  /\ counter = [r \in Rollouts |-> 0] /\ used = [r \in Rollouts |-> 0]
  /\ shown \in [Rollouts -> Sessions \cup {Nowhere}]
  /\ prompt \in [Prompts -> {NoPrompt} \cup {OldPrompt(s, ended) : s \in Sessions, ended \in {-1, 0}}]
  /\ now = 0 /\ faults \in {0, MaxFaults}
  /\ disk = store /\ mem = IF store = NoFile THEN Fresh(0) ELSE store
  /\ waiting = <<>> /\ job = Idle

Init ==
  \E R \in SUBSET Rollouts, home \in Sessions :
    StartFrom(IF R = {} THEN NoFile
              ELSE [Fresh(0) EXCEPT !.cursors =
                      [r \in R |-> [session |-> home, at |-> 0, tokens |-> 0, offset |-> -1]]])

Pass == Collects \/ PassReads \/ PassWrites
Next ==
  \/ Pass \/ PassFails \/ Crash \/ DayEnds
  \/ \E r \in Rollouts : Uses(r) \/ EndsLine(r) \/ Upset(r)
  \/ \E p \in Prompts : PromptEnds(p) \/ \E s \in Sessions : PromptSent(p, s)

\* The monitor is a timer, a pass that waits has its turn, a line is ended.
HasItsTurn == ~job.busy /\ waiting # <<>> /\ waiting' = Tail(waiting)
Fairness ==
  /\ WF_vars(Collects) /\ WF_waiting(HasItsTurn) /\ WF_vars(PassWrites)
  /\ \A r \in Rollouts : WF_vars(EndsLine(r))
Spec == Init /\ [][Next]_vars /\ Fairness

-----------------------------------------------------------------------------
(* Properties                                                                 *)

TypeOK ==
  /\ \A store \in {mem, disk, job.next} : ValidStore(store)
  /\ \A r \in Rollouts : Len(file[r]) <= 2 * MaxUsed
  /\ Len(waiting) <= MaxWaiting

\* No use is counted twice: not after the end of a file was lost, a total
\* regressed, a pass failed or was repeated, or the server crashed in one.
CountedOnce == Counted(mem) <= Total(used, Rollouts)

\* What the prompts of a session are charged with is part of what the session is.
AttributedOnce == \A s \in Sessions : OfTickets(mem, s) <= CountedFor(mem, s)

\* The parts together.
UsageSafe == TypeOK /\ CountedOnce /\ AttributedOnce

\* In the end the lines of a rollout that its session shows are read, and without
\* an upset all that was used is counted.
LastLine(r) == Max({0} \cup {i \in DOMAIN file[r] : file[r][i].nl})
AllCounted ==
  /\ mem.complete => \A s \in Sessions : \A r \in Candidates(s) :
       Candidates(s) = {r} => r \in DOMAIN mem.cursors /\ mem.cursors[r].offset >= LastLine(r)
  /\ (faults = 0 /\ \A s \in Sessions : Cardinality(Candidates(s)) <= 1)
       => Counted(mem) = Total(used, Rollouts)
UsageSettles == <>[]AllCounted
================================================================================
