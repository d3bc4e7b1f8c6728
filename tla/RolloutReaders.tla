----------------------------- MODULE RolloutReaders -----------------------------
(* What is read from the rollout of a Codex session (codex-telemetry.js): the    *)
(* final answer of the turn that a marked prompt began, from the offset that was *)
(* kept when the prompt was claimed, with the authority it was given under; and  *)
(* whether a turn is active. Codex appends lines while they are read.            *)
EXTENDS Integers, Sequences, FiniteSets, SequencesExt, FiniteSetsExt

CONSTANTS
  Markers,    \* confirmation markers of attempts
  TailSize,   \* DEFAULT_TAIL_BYTES
  Window,     \* maximumBytes
  MaxPieces   \* bound: pieces of lines that are written

VARIABLES
  log,    \* pieces of lines: a record, then its newline
  clock,  \* pieces that were ever written
  asked,  \* offset and time of the claim of each attempt
  turn,   \* the marker of the prompt that Codex works on
  safe    \* whether it works under the authority that attempts require

vars == <<log, clock, asked, turn, safe>>

None == "none"
Newline == [kind |-> "newline", of |-> None, at |-> 0, safe |-> FALSE]
Record(kind, of, s) == [kind |-> kind, of |-> of, at |-> clock + 1, safe |-> s]
Unclaimed == [start |-> -1, at |-> -1]
NoAnswer == [of |-> None, safe |-> FALSE, sandbox |-> "unobserved"]
Failed == [NoAnswer EXCEPT !.sandbox = "failed"]

-----------------------------------------------------------------------------
(* Readers                                                                    *)

\* Whole lines from an offset on; the rest of a line that began before is skipped.
Lines(start) ==
  LET ends == {i \in start + 1..Len(log) : log[i] = Newline}
      begins(i) == i = 1 \/ log[i - 1] = Newline
      whole == {i \in start + 1..Len(log) : log[i] # Newline /\ begins(i) /\ i + 1 \in ends}
  IN [k \in 1..Cardinality(whole) |-> log[SetToSortSeq(whole, <)[k]]]

TooFar(start) == start > Len(log)
TooMuch(start) == Len(log) - start > Window

Turning(scan) == scan.matched /\ ~scan.superseded
Begins(scan, m, line) == line.kind = "user" /\ line.of = m /\ ~scan.matched
Ends(scan, line) == line.kind = "user" /\ scan.matched
Answered(scan, line) ==
  [scan EXCEPT !.final = [of |-> line.of, safe |-> line.safe, sandbox |-> scan.sandbox], !.count = @ + 1]
Authority(scan, line) == [scan EXCEPT !.sandbox = IF line.safe THEN "safe" ELSE "unsafe"]
Matched(scan) == [scan EXCEPT !.matched = TRUE, !.sandbox = "unobserved", !.final = NoAnswer]

\* The marked message begins the turn, any later message of a user ends it.
Scanned(m, scan, line) ==
  CASE line.at >= asked[m].at /\ line.kind = "context" /\ Turning(scan) -> Authority(scan, line)
    [] line.at >= asked[m].at /\ Begins(scan, m, line) -> Matched(scan)
    [] line.at >= asked[m].at /\ Ends(scan, line) -> [scan EXCEPT !.superseded = TRUE, !.final = NoAnswer]
    [] line.at >= asked[m].at /\ line.kind = "answer" /\ Turning(scan) -> Answered(scan, line)
    [] OTHER -> scan

FinalAnswer(m, start, single) ==
  LET lines == Lines(start)
      scan[k \in 0..Len(lines)] ==
        IF k = 0 THEN [matched |-> FALSE, superseded |-> FALSE, sandbox |-> "unobserved",
                       final |-> NoAnswer, count |-> 0]
        ELSE Scanned(m, scan[k - 1], lines[k])
      end == scan[Len(lines)]
  IN CASE asked[m] = Unclaimed -> NoAnswer
       [] asked[m] # Unclaimed /\ (TooFar(start) \/ TooMuch(start)) -> Failed
       [] OTHER -> IF single /\ end.count # 1 THEN NoAnswer ELSE end.final

\* readCodexDeliveryResult and readCodexPlanningRoleReport, with what is required of them.
DeliveryReport(m) == LET a == FinalAnswer(m, asked[m].start, FALSE) IN IF a.sandbox = "safe" THEN a ELSE NoAnswer
RoleReport(m) == LET a == FinalAnswer(m, asked[m].start, TRUE) IN IF a.sandbox = "safe" THEN a ELSE NoAnswer

\* A tail begins with what is left of a line.
TurnState ==
  LET start == IF Len(log) > TailSize THEN Len(log) - TailSize ELSE 0
      marks == SelectSeq(Lines(start), LAMBDA x : x.kind \in {"started", "complete"})
  IN CASE marks = <<>> -> "unknown"
       [] marks # <<>> /\ Last(marks).kind = "started" -> "active"
       [] marks # <<>> /\ Last(marks).kind = "complete" -> "idle"

-----------------------------------------------------------------------------
(* Codex                                                                      *)

EndOfLine == log # <<>> => Last(log) = Newline
Write(record) == /\ clock < MaxPieces /\ EndOfLine
                 /\ log' = Append(log, record) /\ clock' = clock + 1

EndsLine == /\ ~EndOfLine
            /\ log' = Append(log, Newline) /\ clock' = clock + 1
            /\ UNCHANGED <<asked, turn, safe>>

\* The size of the file when the attempt is claimed, in the middle of a line perhaps.
Claims(m) == /\ asked[m] = Unclaimed
             /\ asked' = [asked EXCEPT ![m] = [start |-> Len(log), at |-> clock]]
             /\ UNCHANGED <<log, clock, turn, safe>>

Prompted(m) == /\ asked[m] # Unclaimed /\ \A i \in DOMAIN log : ~(log[i].kind = "user" /\ log[i].of = m)
               /\ Write(Record("user", m, FALSE)) /\ turn' = m
               /\ UNCHANGED <<asked, safe>>
Interrupted == Write(Record("user", None, FALSE)) /\ turn' = None /\ UNCHANGED <<asked, safe>>
TurnContext == \E s \in BOOLEAN : Write(Record("context", None, s)) /\ safe' = s /\ UNCHANGED <<asked, turn>>
Answers == Write(Record("answer", turn, safe)) /\ UNCHANGED <<asked, turn, safe>>
TurnMarks == \E kind \in {"started", "complete"} : Write(Record(kind, None, FALSE))
             /\ UNCHANGED <<asked, turn, safe>>

\* The end of the file is lost; nothing is written after.
Shrinks == /\ EndOfLine /\ clock < MaxPieces /\ clock' = MaxPieces
           /\ \E n \in 0..Len(log) - 1 : log' = SubSeq(log, 1, n)
           /\ UNCHANGED <<asked, turn, safe>>

Init == log = <<>> /\ clock = 0 /\ asked = [m \in Markers |-> Unclaimed] /\ turn = None /\ safe = FALSE

Next == EndsLine \/ Interrupted \/ TurnContext \/ Answers \/ TurnMarks \/ Shrinks
        \/ \E m \in Markers : Claims(m) \/ Prompted(m)
Spec == Init /\ [][Next]_vars

-----------------------------------------------------------------------------
(* Properties                                                                 *)

\* An answer that is read for an attempt was given to its prompt and to no later
\* message, and a report is taken only from work under the authority required.
\* With or without the offset of the claim, at any time while lines are written.
AnswersMatch ==
  \A m \in Markers : \A start \in {0, asked[m].start} :
    LET a == FinalAnswer(m, start, FALSE)
    IN a.sandbox # "failed" /\ a # NoAnswer => a.of = m
ReportsSafe ==
  \A m \in Markers : \A a \in {DeliveryReport(m), RoleReport(m)} : a # NoAnswer => a.of = m /\ a.safe

\* A tail tells the state of the turn or nothing, whatever part of a line it begins with.
TurnStateTold ==
  LET marks == {i \in 1..Len(log) - 1 : log[i].kind \in {"started", "complete"} /\ log[i + 1] = Newline}
  IN TurnState # "unknown" => log[Max(marks)].kind = (IF TurnState = "active" THEN "started" ELSE "complete")

ReadersSafe == AnswersMatch /\ ReportsSafe /\ TurnStateTold
================================================================================
