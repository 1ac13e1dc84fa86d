--------------------------- MODULE MCOrderStatus ---------------------------
(* Instances of OrderStatus for TLC.                                       *)
EXTENDS OrderStatus, TLC

\* Pages, missions and drones are interchangeable.
Symmetry == Permutations(Page) \cup Permutations(Mission) \cup Permutations(Drone)
=============================================================================
