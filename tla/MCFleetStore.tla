---------------------------- MODULE MCFleetStore ----------------------------
(* The instance of FleetStore for TLC.                                     *)
EXTENDS FleetStore, TLC

\* Requests are interchangeable.
Symmetry == Permutations(Caller)
=============================================================================
