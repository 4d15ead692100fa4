---------------------------- MODULE MCGatePolicy ----------------------------
(* Instances of GatePolicy for TLC. *)
EXTENDS GatePolicy

CONSTANTS api1, api2, l1, l2, r1
=============================================================================
