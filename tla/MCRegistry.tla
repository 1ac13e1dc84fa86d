----------------------------- MODULE MCRegistry -----------------------------
(* Instances of Registry for TLC.                                          *)
EXTENDS Registry, TLC

\* Drones are interchangeable, and so are handlers.
Symmetry == Permutations(Drone) \cup Permutations(Handler)
=============================================================================
