---------------------------- MODULE MCDispatchLanes ----------------------------
(* Instances of DispatchLanes for TLC.                                          *)
EXTENDS DispatchLanes, TLC

CONSTANTS p1, s1, k1, d

================================================================================
