----------------------------- MODULE MCTraffic -----------------------------
(* Instances of Traffic for TLC: x crosses y away from the midpoints, y and *)
(* z share their midpoint, x and z are apart.                              *)
EXTENDS Traffic, TLC

CONSTANTS x, y, z

Both(R) == R \cup {<<r[2], r[1]>> : r \in R}
MeetsMC == {<<p, p>> : p \in Path} \cup Both({<<x, y>>, <<y, z>>})
MidNearMC == {<<p, p>> : p \in Path} \cup Both({<<y, z>>})

\* Drones are interchangeable.
Symmetry == Permutations(Drone)
=============================================================================
