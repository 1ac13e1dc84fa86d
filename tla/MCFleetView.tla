---------------------------- MODULE MCFleetView ----------------------------
(* Instances of FleetView for TLC.                                         *)
EXTENDS FleetView, TLC
=============================================================================
