------------------------------ MODULE PromptLine ------------------------------
(* What the prompt queue promises the operator, without stores, passes, samples *)
(* or crashes: README.md "Bind to one exact tmux pane, wait for two stable green *)
(* samples, and release FIFO one prompt at a time". Every terminal line is a     *)
(* queue whose head alone may be in service. A prompt is typed while it is in    *)
(* service, once. A prompt may leave its line anywhere, and a new one joins at   *)
(* the end; one that was typed never joins again.                                *)
(*                                                                               *)
(* A line is known by who stands ahead of whom: the head is the prompt with      *)
(* nobody ahead.                                                                 *)
EXTENDS Naturals

CONSTANTS Items, Line

VARIABLES
  ahead,   \* per prompt that is not finished, those ahead of it in its line
  served,  \* the prompts in service
  typed    \* how often a prompt was typed

lineVars == <<ahead, served, typed>>

Waiting == DOMAIN ahead

Mates(i, S) == {j \in S : Line[j] = Line[i]}

LineInit ==
  /\ ahead = [i \in {} |-> {}]
  /\ served = {}
  /\ typed = [i \in Items |-> 0]

\* New prompts of distinct lines, none of them typed.
Joiners ==
  {new \in SUBSET {i \in Items \ Waiting : typed[i] = 0} :
     \A i, j \in new : Line[i] = Line[j] => i = j}

\* Some prompts leave their lines; one may join each, behind all who stay.
Moves(gone, new) ==
  LET stay == Waiting \ gone
  IN ahead' = [i \in stay \cup new |->
                 IF i \in new THEN Mates(i, stay) ELSE ahead[i] \ gone]

\* Who is in service stays in service until it leaves, and only a prompt that was the
\* head of its line enters it.
Serves(gone) ==
  /\ served \ gone \subseteq served'
  /\ served' \ served \subseteq {i \in Waiting \ gone : ahead[i] = {}}
  /\ served' \subseteq DOMAIN ahead'

LinesMove ==
  /\ \E gone \in SUBSET Waiting, new \in Joiners : Moves(gone, new) /\ Serves(gone)
  /\ UNCHANGED typed

TypePrompt(i) ==
  /\ i \in served /\ ahead[i] = {}
  /\ typed[i] = 0
  /\ typed' = [typed EXCEPT ![i] = 1]
  /\ UNCHANGED <<ahead, served>>

LineNext == LinesMove \/ \E i \in Items : TypePrompt(i)

LineSpec == LineInit /\ [][LineNext]_lineVars

================================================================================
