-------------------------- MODULE PromptSchedules --------------------------
(* Recurring prompts of src/server.js: a five-field UTC schedule turns into   *)
(* an ordinary ticket of the prompt queue when it is due. The schedules are   *)
(* part of the queue's document; each pass of the queue starts with those     *)
(* that are due, and a store the validator refuses fails the whole pass.      *)
(* Time is counted in half minutes: a schedule runs on whole minutes (even    *)
(* times), an operation happens at any time.                                  *)
EXTENDS Naturals, FiniteSets

CONSTANTS
  Schedules,        \* schedules that may exist during the run
  Periods,          \* cron expressions, as "every n-th minute"
  ScheduleLimit,    \* MAX_PROMPT_SCHEDULES
  ItemLimit,        \* room for tickets, MAX_PROMPT_QUEUE_ITEMS
  LateCreates,      \* TRUE: a creation may wait for the queue past its first run
  MaxTime, MaxEdits, MaxPanes, MaxCrashes      \* bounds

Limits ==
  /\ IsFiniteSet(Schedules) /\ Periods \subseteq Nat \ {0}
  /\ ScheduleLimit \in Nat /\ ItemLimit \in Nat /\ MaxPanes \in Nat \ {0}

VARIABLES
  schedules, next,         \* the store: the schedules and when each runs next,
  open, other,             \* its open tickets, of a schedule and of none
  asked,                   \* creations that wait for the queue: first run computed
  now, pane,               \* the clock; the generation of the live exact pane
  up, wedged,              \* the server runs; a pass built a store the validator refuses
  edits, crashes

vars == <<schedules, next, open, other, asked, now, pane, up, wedged, edits, crashes>>

\* A schedule that has not run yet.
Schedule(st, enabled, target, period, created) ==
  [st |-> st, enabled |-> enabled, pane |-> target, period |-> period, last |-> 0,
   created |-> created, runs |-> 0, coalesced |-> 0, skipped |-> 0, occurrences |-> 0]
Absent == Schedule("absent", FALSE, 0, 0, 0)

Present == {s \in Schedules : schedules[s].st = "present"}

\* nextPromptCronAt: the first whole minute after t that the expression matches.
NextPromptCronAt(period, t) ==
  CHOOSE u \in t + 1 .. t + 2 * period : u % (2 * period) = 0

DefinitionKey(schedule) == <<schedule.pane, schedule.period>>

\* Tickets in the queue; closed ones leave at the next operation that adds one.
Queued(f) == other + Cardinality(UNION {{s} \X (1 .. f[s]) : s \in Schedules})

\* What the validator asks of the schedules.
ScheduleValid(c, n) ==
  /\ c.occurrences = c.runs + c.coalesced + c.skipped
  /\ n % (2 * c.period) = 0
  /\ c.last > 0 => (c.last >= c.created /\ n > c.last)

Valid(f, n) ==
  LET there == {s \in Schedules : f[s].st = "present"} IN
  /\ Cardinality(there) <= ScheduleLimit
  /\ \A s \in there : ScheduleValid(f[s], n[s])
  /\ \A s, t \in there : s # t => DefinitionKey(f[s]) # DefinitionKey(f[t])

Init ==
  /\ schedules = [s \in Schedules |-> Absent] /\ next = [s \in Schedules |-> 0]
  /\ open = [s \in Schedules |-> 0] /\ other = 0
  /\ asked = {}
  /\ now = 1 /\ pane = 1 /\ up = TRUE /\ wedged = FALSE
  /\ edits = 0 /\ crashes = 0

\* An operator's request is one operation of the queue; a refused store
\* answers it with an error.
Request(f, n) ==
  /\ up /\ edits < MaxEdits /\ edits' = edits + 1
  /\ Valid(f, n)
  /\ schedules' = f /\ next' = n
  /\ UNCHANGED <<now, pane, up, wedged, crashes>>

\* ------------------------------------------------------ the operator

\* The first run is computed when the request arrives, and the live agents are
\* read; only then it waits for the queue.
AskPromptSchedule(period) ==
  /\ up /\ asked = {} /\ edits < MaxEdits
  /\ asked' = {[pane |-> pane, period |-> period, next |-> NextPromptCronAt(period, now)]}
  /\ UNCHANGED <<schedules, next, open, other, now, pane, up, wedged, edits, crashes>>

CreatePromptSchedule(a) ==
  /\ a \in asked /\ asked' = {}
  /\ \A s \in Present : DefinitionKey(schedules[s]) # DefinitionKey(a)
  /\ Cardinality(Present) < ScheduleLimit
  /\ LET free == {s \in Schedules : schedules[s].st = "absent" /\ open[s] = 0}
         s == CHOOSE t \in free : TRUE IN
       /\ free # {}
       /\ Request([schedules EXCEPT ![s] = Schedule("present", TRUE, a.pane, a.period, now)],
                  [next EXCEPT ![s] = a.next])
  /\ UNCHANGED <<open, other>>

\* The definition exists or there is no room.
RefuseCreation(a) ==
  /\ a \in asked
  /\ \/ Cardinality(Present) >= ScheduleLimit
     \/ \E s \in Present : DefinitionKey(schedules[s]) = DefinitionKey(a)
  /\ asked' = {}
  /\ UNCHANGED <<schedules, next, open, other, now, pane, up, wedged, edits, crashes>>

\* A running schedule gets a fresh next run.
Fresh(s, enabled) ==
  IF enabled THEN [next EXCEPT ![s] = NextPromptCronAt(schedules[s].period, now)] ELSE next

UpdatePromptSchedule(s, enabled) ==
  /\ s \in Present
  /\ Request([schedules EXCEPT ![s].enabled = enabled], Fresh(s, enabled))
  /\ UNCHANGED <<open, other, asked>>

\* The schedule follows its session to the pane that replaced the first.
RetargetPromptSchedule(s) ==
  /\ s \in Present
  /\ Request([schedules EXCEPT ![s].pane = pane], Fresh(s, schedules[s].enabled))
  /\ UNCHANGED <<open, other, asked>>

\* Tickets already queued stay.
DeletePromptSchedule(s) ==
  /\ s \in Present
  /\ Request([schedules EXCEPT ![s] = Absent], [next EXCEPT ![s] = 0])
  /\ UNCHANGED <<open, other, asked>>

\* mutant: by hand beside an open one
EnqueueAnyway(s) ==
  /\ s \in Present
  /\ pane = schedules[s].pane
  /\ Queued(open) < ItemLimit
  /\ open' = [open EXCEPT ![s] = @ + 1]
  /\ Request(schedules, next)
  /\ UNCHANGED <<other, asked>>

\* One occurrence by hand: it joins an open one and leaves the counters alone.
EnqueuePromptScheduleNow(s) ==
  /\ s \in Present /\ open[s] = 0
  /\ pane = schedules[s].pane
  /\ Queued(open) < ItemLimit
  /\ open' = [open EXCEPT ![s] = 1]
  /\ Request(schedules, next)
  /\ UNCHANGED <<other, asked>>

\* ------------------------------------------------------ the queue's pass

\* mutant: a schedule whose pane is gone waits for it
DueAtPane ==
  {s \in Present : schedules[s].enabled /\ next[s] <= now /\ pane = schedules[s].pane}

Due == {s \in Present : schedules[s].enabled /\ next[s] <= now}

\* What becomes of the due occurrence of s, when the agents of some can take it.
Outcome(s, able, queued) ==
  CASE s \in queued -> "queued"
    [] s \in able \ queued /\ open[s] > 0 -> "coalesced"
    [] OTHER -> "skipped"

Accounted(c, at, outcome) ==
  LET d == [c EXCEPT !.occurrences = @ + 1, !.last = at]
  IN CASE outcome = "queued" -> [d EXCEPT !.runs = @ + 1]
       [] outcome = "coalesced" -> [d EXCEPT !.coalesced = @ + 1]
       [] outcome = "skipped" -> [d EXCEPT !.skipped = @ + 1]

NextRuns ==
  [s \in Schedules |->
     IF s \in Due THEN NextPromptCronAt(schedules[s].period, now) ELSE next[s]]

\* Each due schedule in its turn; they share the room of the queue.
Served(able, queued) ==
  LET waiting == {s \in able : open[s] = 0} IN
  /\ queued \subseteq waiting
  /\ queued # {} => Queued(open) + Cardinality(queued) <= ItemLimit
  /\ queued # waiting => Queued(open) + Cardinality(queued) >= ItemLimit

EnqueueDuePromptSchedules ==
  /\ up /\ Due # {}
  /\ \E able, queued \in SUBSET {s \in Due : pane = schedules[s].pane} :
       LET f == [s \in Schedules |->
                   IF s \in Due
                     THEN Accounted(schedules[s], next[s], Outcome(s, able, queued))
                     ELSE schedules[s]]
       IN /\ Served(able, queued)
          /\ IF Valid(f, NextRuns)
               THEN /\ schedules' = f /\ next' = NextRuns
                    /\ open' = [s \in Schedules |-> IF s \in queued THEN 1 ELSE open[s]]
                    /\ UNCHANGED wedged
               ELSE wedged' = TRUE /\ UNCHANGED <<schedules, next, open>>
  /\ UNCHANGED <<other, asked, now, pane, up, edits, crashes>>

\* A ticket ends, or is requeued once on the pane that replaced its own: the
\* new ticket does not carry the schedule.
TicketEnds(s) ==
  /\ up /\ open[s] > 0
  /\ open' = [open EXCEPT ![s] = @ - 1]
  /\ UNCHANGED <<schedules, next, other, asked, now, pane, up, wedged, edits, crashes>>

RequeueAfterReplacement(s) ==
  /\ up /\ open[s] > 0 /\ pane # schedules[s].pane
  /\ Queued(open) < ItemLimit
  /\ open' = [open EXCEPT ![s] = @ - 1] /\ other' = other + 1
  /\ UNCHANGED <<schedules, next, asked, now, pane, up, wedged, edits, crashes>>

OtherTicket ==
  /\ up
  /\ \/ Queued(open) < ItemLimit /\ other' = other + 1
     \/ other > 0 /\ other' = other - 1
  /\ UNCHANGED <<schedules, next, open, asked, now, pane, up, wedged, edits, crashes>>

\* ------------------------------------------------------ the world

Tick ==
  /\ now < MaxTime
  /\ ~LateCreates => \A a \in asked : now < a.next
  /\ now' = now + 1
  /\ UNCHANGED <<schedules, next, open, other, asked, pane, up, wedged, edits, crashes>>

PaneReplaced ==
  /\ pane < MaxPanes
  /\ pane' = pane + 1
  /\ UNCHANGED <<schedules, next, open, other, asked, now, up, wedged, edits, crashes>>

\* The store is durable; a creation that still waits is lost.
Crash ==
  /\ up /\ crashes < MaxCrashes
  /\ up' = FALSE /\ crashes' = crashes + 1 /\ asked' = {}
  /\ UNCHANGED <<schedules, next, open, other, now, pane, wedged, edits>>

\* A document of an older build has no counters but the runs: those of the
\* audit log, as far as it goes back, make up the rest.
MigratePromptScheduleCounters ==
  \E coalesced, skipped \in 0 .. 1 :
    schedules' = [s \in Schedules |->
      LET c == schedules[s] IN
      IF c.st = "old"
        THEN [c EXCEPT !.st = "present", !.coalesced = coalesced, !.skipped = skipped,
                       !.occurrences = c.runs + coalesced + skipped]
        ELSE c]

Restart ==
  /\ ~up /\ up' = TRUE
  /\ IF \E s \in Schedules : schedules[s].st = "old"
       THEN MigratePromptScheduleCounters
       ELSE UNCHANGED schedules
  /\ UNCHANGED <<next, open, other, asked, now, pane, wedged, edits, crashes>>

\* ------------------------------------------------------ the specification

Next ==
  \/ \E period \in Periods : AskPromptSchedule(period)
  \/ \E a \in asked : CreatePromptSchedule(a) \/ RefuseCreation(a)
  \/ \E s \in Schedules :
       \/ \E enabled \in BOOLEAN : UpdatePromptSchedule(s, enabled)
       \/ RetargetPromptSchedule(s) \/ DeletePromptSchedule(s) \/ EnqueuePromptScheduleNow(s)
       \/ TicketEnds(s) \/ RequeueAfterReplacement(s)
  \/ EnqueueDuePromptSchedules
  \/ OtherTicket
  \/ Tick \/ PaneReplaced \/ Crash \/ Restart

\* The monitor runs a pass while a schedule is due (stated of what every pass
\* does to the next runs); the service is restarted.
Fairness ==
  /\ WF_next(up /\ Due # {} /\ next' = NextRuns)
  /\ WF_up(~up /\ up' = TRUE)

Spec == Init /\ [][Next]_vars /\ Fairness

\* ------------------------------------------------------ properties

TypeOK ==
  /\ schedules \in [Schedules -> [st : {"absent", "old", "present"}, enabled : BOOLEAN,
       pane : 0 .. MaxPanes, period : Periods \union {0}, last : Nat,
       created : Nat, runs : Nat, coalesced : Nat, skipped : Nat, occurrences : Nat]]
  /\ next \in [Schedules -> Nat] /\ open \in [Schedules -> Nat] /\ other \in 0 .. ItemLimit

\* The pass of the queue, which also captures answers and dispatches, is never
\* refused for the sake of a schedule.
NeverWedged == ~wedged

\* A schedule has one open ticket at most, by hand or by the clock, and the
\* queue never has more tickets than fit.
OneOpenTicket == (\A s \in Schedules : open[s] <= 1) /\ Queued(open) <= ItemLimit

\* Each run time counts once: downtime, pauses and repeated passes never make
\* more occurrences than the clock had.
OncePerRun ==
  \A s \in Present :
    LET c == schedules[s]
        times == {t \in c.created .. now : t % (2 * c.period) = 0}
    IN c.created > 0 => c.occurrences <= Cardinality(times)

SchedulesSafe == TypeOK /\ NeverWedged /\ OneOpenTicket /\ OncePerRun

\* A due schedule is always accounted for in the end: a ticket, or a counted
\* reason for none.
NoneDue == \A s \in Present : schedules[s].enabled => next[s] > now
DueEnds == <>[]NoneDue
=============================================================================
