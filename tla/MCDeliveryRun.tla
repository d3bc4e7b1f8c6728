---------------------------- MODULE MCDeliveryRun ----------------------------
(* Instances of DeliveryRun for TLC. *)
EXTENDS DeliveryRun

================================================================================
