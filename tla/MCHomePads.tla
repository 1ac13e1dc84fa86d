----------------------------- MODULE MCHomePads -----------------------------
(* Instances of HomePads for TLC.                                          *)
EXTENDS HomePads, TLC

\* Drones are interchangeable, and so are handlers.
Symmetry == Permutations(Drone) \cup Permutations(Handler)
=============================================================================
