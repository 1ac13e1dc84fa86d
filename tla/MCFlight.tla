------------------------------ MODULE MCFlight ------------------------------
(* The instance of Flight for TLC.                                         *)
EXTENDS Flight
=============================================================================
