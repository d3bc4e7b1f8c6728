------------------------------ MODULE MCCodexUsage ------------------------------
(* The rollout of a session that has a second one or not. One prompt is open; the *)
(* others are to be sent, or ended long ago and then there are upsets.            *)
EXTENDS CodexUsage
CONSTANT Current

MCInit ==
  /\ Init
  /\ \A r \in Roots : shown[r] # Nowhere
  /\ \A p \in Prompts :
       IF p = Current THEN prompt[p].sent = 0 /\ prompt[p].ended = -1
       ELSE IF faults = 0 THEN prompt[p].ended = 0 ELSE prompt[p] = NoPrompt
MCSpec == MCInit /\ [][Next]_vars /\ Fairness
===============================================================================
