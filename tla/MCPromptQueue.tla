---------------------------- MODULE MCPromptQueue ----------------------------
(* Instances of PromptQueue for TLC: one line of equal prompts, one with the    *)
(* kinds of text that are delivered differently, and two lines.                 *)
EXTENDS PromptQueue, TLC

CONSTANTS i1, i2, i3, s1, s2

OneLine    == [i \in Items |-> s1]
TwoLines   == i1 :> s1 @@ i2 :> s2
AllPrompts == [i \in Items |-> "prompt"]
AllCommands == [i \in Items |-> "slash"]

\* Sound for the safety runs: items of one line and one kind are alike.
ItemSymmetry == Permutations(Items)

MixedKinds == i1 :> "goal" @@ i2 :> "prompt" @@ i3 :> "long"

================================================================================
