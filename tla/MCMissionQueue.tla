---------------------------- MODULE MCMissionQueue ----------------------------
(* Instances of MissionQueue for TLC: three operator missions that compete for  *)
(* two workers and nested workspaces, one mission with every fault, and a       *)
(* Delivery Run's mission under the Supervisor.                                 *)
EXTENDS MissionQueue, TLC

CONSTANTS j1, j2, j3, b1, b2, w1, w2

\* j1 works in the parent of j2's directory.
Paths == j1 :> <<"a">> @@ j2 :> <<"a", "b">> @@ j3 :> <<"c">>
           @@ b1 :> <<"a">> @@ b2 :> <<"a">>
WorkspaceOf == [j \in Jobs |-> Paths[j]]

Weights == j1 :> 2 @@ j2 :> 3 @@ j3 :> 1 @@ b1 :> 2 @@ b2 :> 2
PriorityOf == [j \in Jobs |-> Weights[j]]

\* Two ids for one binding key: the mission is ensured twice.
KeyOf == [j \in Bound |-> "step"]
RunOf == [j \in Bound |-> "run"]

HomeApart == [s \in Sessions |-> IF s = w2 THEN <<"c">> ELSE <<"a", "b">>]
HomeNested == [s \in Sessions |-> IF s = w2 THEN <<"a">> ELSE <<"a", "b">>]
HomeIn    == [s \in Sessions |-> <<"a">>]

================================================================================
