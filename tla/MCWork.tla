--------------------------- MODULE MCWork ---------------------------
(* What an operator plans, for TLC: ideas and their refinement, recurring       *)
(* prompts, and the store of delivery plans. Each runs on its own; the state of *)
(* DeliveryPlans, which this module extends, is its initial one while another   *)
(* runs.                                                                        *)
EXTENDS MCDeliveryPlans

CONSTANTS p1, p2, p3, i1, i2, t1, t2, c1, c2

\* A plan that may be released, one that may not, one whose criteria are not met.
PlanDefinitions ==
  LET whole == [requirements |-> {1, 2}, steps |-> {1, 2}, criteria |-> {1, 2}, open |-> FALSE,
                baseline |-> "git", write |-> TRUE, release |-> TRUE]
  IN {whole, [whole EXCEPT !.release = FALSE], [whole EXCEPT !.criteria = {1}]}

VARIABLES
  who, \* the component that runs
  store, scout, up, refused, asks, reviews, crashes, schedules, next, open,
  other, now, pane, wedged, edits

Ideas == INSTANCE MCIdeaQueue WITH
  Prompts <- {p1, p2, p3}, Ideas <- {i1, i2}, Titles <- {t1}, Home <- "home",
  Scout <- "scout", ItemLimit <- 2, IdeaLimit <- 2, ItemHistory <- 1,
  IdeaHistory <- 1, BareCaptures <- FALSE, MaxAsks <- 3, MaxReviews <- 1,
  MaxCrashes <- 1
Schedules == INSTANCE MCPromptSchedules WITH
  Schedules <- {c1, c2}, Periods <- {1, 2}, ScheduleLimit <- 2,
  ItemLimit <- 2, LateCreates <- FALSE, MaxTime <- 4, MaxEdits <- 2,
  MaxPanes <- 2, MaxCrashes <- 1, asked <- asks
ASSUME ScheduleLimits == Schedules!Limits

\* The variables of the others.
BesideIdeas == <<who, vars, schedules, next, open, other, now, pane, wedged, edits>>
BesideSchedules == <<who, vars, store, scout, refused, reviews>>
BesidePlans ==
  <<who, store, scout, up, refused, asks, reviews, crashes, schedules, next,
    open, other, now, pane, wedged, edits>>

MCInit ==
  \/ /\ who = "ideas" /\ Init /\ Ideas!MCInit
     /\ schedules = 0 /\ next = 0 /\ open = 0 /\ other = 0
     /\ now = 0 /\ pane = 0 /\ wedged = 0 /\ edits = 0
  \/ /\ who = "schedules" /\ Init /\ Schedules!MCInit
     /\ store = 0 /\ scout = 0 /\ refused = 0 /\ reviews = 0
  \/ /\ who = "plans" /\ PlansInit
     /\ store = 0 /\ scout = 0 /\ up = 0 /\ refused = 0 /\ asks = 0
     /\ reviews = 0 /\ crashes = 0 /\ schedules = 0 /\ next = 0 /\ open = 0
     /\ other = 0 /\ now = 0 /\ pane = 0 /\ wedged = 0 /\ edits = 0

MCNext ==
  \/ who = "ideas" /\ Ideas!Next /\ UNCHANGED BesideIdeas
  \/ who = "schedules" /\ Schedules!Next /\ UNCHANGED BesideSchedules
  \/ who = "plans" /\ Next /\ UNCHANGED BesidePlans

\* The fairness of each component, while it is the one that runs.
MCSpec ==
  /\ MCInit /\ [][MCNext]_<<vars, BesidePlans>>
  /\ WF_next(who = "schedules" /\ up /\ Schedules!Due # {} /\ next' = Schedules!NextRuns)
  /\ WF_up(who = "schedules" /\ ~up /\ up' = TRUE)
  /\ WF_vars(who = "plans" /\ Progress)

\* Ideas are proposed and implemented once, and the server starts with what it
\* saved (server.js).
IdeasSafe == who = "ideas" => Ideas!IdeasSafe

\* The pass of the queue is never refused for a schedule, a schedule has one open
\* ticket and counts each run time once; due ones are settled (server.js).
SchedulesSafe == who = "schedules" => Schedules!SchedulesSafe
DueEnds == <>[](who = "schedules" => Schedules!NoneDue)
======================================================================
