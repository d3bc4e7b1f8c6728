--------------------------- MODULE MCSnapshotStream ---------------------------
(* The stream for TLC: one tab with every upset, or two tabs and one change.    *)
EXTENDS SnapshotStream
CONSTANTS b1, b2

MCInit == InitWith({b1}, Domains, [changes |-> MaxChanges, faults |-> MaxFaults, loads |-> MaxLoads])
      \/ InitWith({b1, b2}, {}, [changes |-> 1, faults |-> 0, loads |-> 0])
MCSpec == MCInit /\ [][Next]_vars /\ Fairness

===============================================================================
