---------------------------- MODULE MCScheduler ----------------------------
(* Instances of Scheduler for TLC.                                         *)
EXTENDS Scheduler, TLC

\* Distances in metres.  The first two differ in all factors, and between them
\* the first has 0.0025 points more: the rounding makes it a tie, and the battery
\* decides.  The last may not fly.
MCProfile ==
    {[dist |-> 6999, battery |-> 60, deliveries |-> 2, wind |-> Unknown, signal |-> 100],
     [dist |-> 10000, battery |-> 79, deliveries |-> 1, wind |-> 4, signal |-> 60],
     [dist |-> 10000, battery |-> 24, deliveries |-> 0, wind |-> 0, signal |-> 100]}

\* Drones are interchangeable, and so are requests.
Symmetry == Permutations(Drone) \cup Permutations(Request)
=============================================================================
