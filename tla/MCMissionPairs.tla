---------------------------- MODULE MCMissionPairs ----------------------------
(* Two pairs of missions on two workers for TLC: in directories one of which    *)
(* lies in the other and room for both, or apart and room for one.              *)
EXTENDS MCMissionQueue

VARIABLE setup

Limit == INSTANCE MissionQueue WITH Home <- HomeApart, MaxActive <- 1

\* Only these missions are ever made.
Among(jobs) ==
  \A j \in Jobs \ jobs : mem'[j].status = "absent" /\ disk'[j].status = "absent"

MCInit == Init /\ setup \in {"nested", "apart"}
MCNext == /\ \/ setup = "nested" /\ Next /\ Among({j1, j2})
             \/ setup = "apart" /\ Limit!Next /\ Among({j2, j3})
          /\ UNCHANGED setup
MCSpec == MCInit /\ [][MCNext]_<<vars, setup>>

\* No more missions are active than may be, in memory and in the file, whatever made
\* them active (server.js adoptExistingMission, dispatchMission, MISSION_MAX_ACTIVE).
PairsLimited == IF setup = "nested" THEN ActiveLimit ELSE Limit!ActiveLimit
===============================================================================
