------------------------------ MODULE Traffic ------------------------------
(***************************************************************************)
(* Trajectories of Fleet AI: the collision engine (collision.py), the      *)
(* table _active_segments kept beside it (traffic.py), the registration    *)
(* in assign-drone and what the drone backend then flies (main.py).        *)
(*                                                                         *)
(* register_drone_trajectory runs without giving up the event loop until   *)
(* its tables are written (its lock is never held across an await), so an  *)
(* assignment is one step.  Ground geometry is two relations on paths;     *)
(* heights are numbers, because the offsets and buffers are the question.  *)
(***************************************************************************)
EXTENDS Integers, FiniteSets

CONSTANTS
    Drone,
    Path,           \* start and destination of a flight
    Meets,          \* pairs of paths whose boxes, grown by 8 m, overlap
    MidNear,        \* pairs of paths whose midpoints are nearer than 8 m
    OrderPriority,  \* the priorities assign-drone is called with, in 1..5
    None,
    MaxAssigns,     \* bound on calls of assign-drone
    MaxRestarts     \* bound on restarts of Fleet AI

Symmetric(R) == \A p, q \in Path : <<p, q>> \in R => <<q, p>> \in R

ASSUME GeometryAssumption ==
    /\ Meets \subseteq Path \X Path /\ Symmetric(Meets)
    /\ MidNear \subseteq Path \X Path /\ Symmetric(MidNear)
ASSUME TrafficAssumption ==
    /\ OrderPriority \subseteq 1..5
    /\ None \notin Path
    /\ None \notin [path : Path, off : Nat, priority : 1..3, at : Nat]
    /\ MaxAssigns \in Nat
    /\ MaxRestarts \in Nat

VARIABLES
    fallback,   \* CollisionEngine.fallback: the rtree package is missing
    segments,   \* CollisionEngine._segments
    boxes,      \* CollisionEngine._index: numbered boxes
    idMap,      \* CollisionEngine._id_map; 0 when a drone has no box
    nextId,     \* CollisionEngine._next_id
    active,     \* traffic._active_segments
    clock,      \* time.time(), in readings that differ
    seenIdle,   \* drones the telemetry cache of Fleet AI shows as IDLE
    plan,       \* paths a drone was assigned and has not started
    flying,     \* the path a drone is flying
    exposed,    \* history: see Exposing
    assigns, restarts

engine == <<segments, boxes, idMap, nextId, active>>
vars == <<fallback, segments, boxes, idMap, nextId, active, clock, seenIdle,
          plan, flying, exposed, assigns, restarts>>

-----------------------------------------------------------------------------
(* Geometry and priorities.                                                *)

TAKEOFF_ALT == 20                 \* end_alt of every registration
VERTICAL_BUFFER_M == 5
ALT_OFFSETS_M == {0, 10, 20, 30}  \* tried in ascending order
MEDICAL == 3
EXPRESS == 2
STANDARD == 1

Offset == ALT_OFFSETS_M
Segment == [path : Path, off : Offset, priority : STANDARD..MEDICAL, at : Nat]

\* Mutant of order_priority_to_collision: the order's priority as it is.
RawPriority(p) == p

order_priority_to_collision(p) ==
    CASE p = 5 -> MEDICAL
      [] p = 4 -> EXPRESS
      [] OTHER -> STANDARD

\* Mutant of BoxHigh: the box is not grown upwards.
NoBufferAbove(off) == off + TAKEOFF_ALT

\* The height range of the box of a trajectory registered at an offset.
BoxLow(off)  == off - VERTICAL_BUFFER_M
BoxHigh(off) == off + TAKEOFF_ALT + VERTICAL_BUFFER_M

\* R-tree intersection: boxes that touch intersect.
BoxesIntersect(p, off, q, otherOff) ==
    /\ <<p, q>> \in Meets
    /\ BoxLow(off) <= BoxHigh(otherOff)
    /\ BoxLow(otherOff) <= BoxHigh(off)

\* _segments_conflict_fallback: midpoints close on the ground and in height.
Abs(n) == IF n < 0 THEN -n ELSE n
MidpointsClose(p, off, q, otherOff) ==
    /\ <<p, q>> \in MidNear
    /\ Abs(off - otherOff) < VERTICAL_BUFFER_M

Conflict(p, off, q, otherOff) ==
    IF fallback THEN MidpointsClose(p, off, q, otherOff)
                ELSE BoxesIntersect(p, off, q, otherOff)

\* Mutant of Others: equal priorities do not yield to the earlier one.
YieldsToHigherOnly(d, priority, now) ==
    {o \in Drone \ {d} : active[o] # None /\ active[o].priority > priority}

\* The drones a candidate yields to, looked up in _active_segments.
Others(d, priority, now) ==
    {o \in Drone \ {d} :
        /\ active[o] # None
        /\ \/ active[o].priority > priority
           \/ active[o].priority = priority /\ active[o].at < now}

\* Without rtree the segments themselves are compared, else the boxes whose
\* numbers _id_map gives for the others.
HasConflict(d, p, off, others) ==
    IF fallback
    THEN \E o \in others : Conflict(p, off, active[o].path, active[o].off)
    ELSE \E b \in boxes :
            /\ \E o \in others : idMap[o] # 0 /\ idMap[o] = b.id
            /\ Conflict(p, off, b.path, b.off)

\* Offsets without a conflict; the code takes the first in ascending order.
FreeOffsets(d, p, others) ==
    {off \in Offset : ~HasConflict(d, p, off, others)}

-----------------------------------------------------------------------------
(* The engine's tables.                                                    *)

BoxOf(d) == [id |-> idMap[d], path |-> segments[d].path, off |-> segments[d].off]

\* Mutant of Unindexed: a replaced trajectory keeps its box.
BoxStays(d) == boxes

\* deregister_trajectory, as register_trajectory calls it first.
Unindexed(d) ==
    IF segments[d] # None /\ ~fallback /\ idMap[d] # 0
    THEN boxes \ {BoxOf(d)} ELSE boxes

register_trajectory(d, seg) ==
    /\ segments' = [segments EXCEPT ![d] = seg]
    /\ IF fallback
       THEN UNCHANGED <<boxes, idMap, nextId>>
       ELSE /\ boxes' = Unindexed(d) \cup
                  {[id |-> nextId, path |-> seg.path, off |-> seg.off]}
            /\ idMap' = [idMap EXCEPT ![d] = nextId]
            /\ nextId' = nextId + 1

\* A new assignment leaves the drone's flight unknown to the engine when it
\* is told to loiter, or meets another plan or flight of the same drone.
Exposing(d) == plan[d] # {} \/ flying[d] # None

Init ==
    /\ fallback \in BOOLEAN
    /\ segments = [d \in Drone |-> None]
    /\ boxes = {}
    /\ idMap = [d \in Drone |-> 0]
    /\ nextId = 1
    /\ active = [d \in Drone |-> None]
    /\ clock = 0
    /\ seenIdle = Drone
    /\ plan = [d \in Drone |-> {}]
    /\ flying = [d \in Drone |-> None]
    /\ exposed = {}
    /\ assigns = 0
    /\ restarts = 0

\* POST /assign-drone has chosen d: register_drone_trajectory, and the answer
\* names d whether or not it should loiter.
Assign(d, p, orderPriority, now) ==
    /\ assigns < MaxAssigns
    /\ d \in seenIdle
    /\ now \in {clock, clock + 1}
    /\ clock' = now
    /\ assigns' = assigns + 1
    /\ plan' = [plan EXCEPT ![d] = @ \cup {p}]
    /\ LET priority == order_priority_to_collision(orderPriority)
           others == Others(d, priority, now)
           free == FreeOffsets(d, p, others)
       IN  \/ \* registered, at the lowest offset that is free
              \E off \in free :
                 LET seg == [path |-> p, off |-> off, priority |-> priority,
                             at |-> now]
                 IN  /\ \A lower \in free : off <= lower
                     /\ register_trajectory(d, seg)
                     /\ active' = [active EXCEPT ![d] = seg]
                     /\ exposed' = IF Exposing(d) THEN exposed \cup {d}
                                                  ELSE exposed \ {d}
           \/ \* drone_loiter_command: nothing is registered
              /\ free = {}
              /\ exposed' = exposed \cup {d}
              /\ UNCHANGED engine
    /\ UNCHANGED <<fallback, seenIdle, flying, restarts>>

\* The backend starts a mission it was given, at the height of its own order;
\* no message tells it about the offset, and it has no loiter.
TakeOff(d) ==
    /\ flying[d] = None
    /\ \E p \in plan[d] :
          /\ flying' = [flying EXCEPT ![d] = p]
          /\ plan' = [plan EXCEPT ![d] = @ \ {p}]
    /\ UNCHANGED <<fallback, engine, clock, seenIdle, exposed, assigns, restarts>>

\* The launch fails after the assignment: nobody deregisters.
LaunchFails(d) ==
    /\ \E p \in plan[d] : plan' = [plan EXCEPT ![d] = @ \ {p}]
    /\ UNCHANGED <<fallback, engine, clock, seenIdle, flying, exposed, assigns,
                   restarts>>

\* The drone is home.  POST /on-home-landing is answered by the router of
\* landing.py, included first; deregister_drone_trajectory is not reached.
on_home_landing(d) ==
    /\ flying[d] # None
    /\ flying' = [flying EXCEPT ![d] = None]
    /\ UNCHANGED <<fallback, engine, clock, seenIdle, plan, exposed, assigns,
                   restarts>>

\* A status_update reaches the telemetry cache.
Telemetry(d) ==
    /\ seenIdle' = IF flying[d] = None THEN seenIdle \cup {d}
                                       ELSE seenIdle \ {d}
    /\ UNCHANGED <<fallback, engine, clock, plan, flying, exposed, assigns,
                   restarts>>

\* rebuild_from_active walks the telemetry cache, which is empty at that time:
\* the task that fills it starts one phase later.
Rebuilt == [d \in Drone |-> None]

\* Fleet AI restarts.
FleetRestart ==
    /\ restarts < MaxRestarts
    /\ restarts' = restarts + 1
    /\ segments' = Rebuilt
    /\ boxes' = {}
    /\ idMap' = [d \in Drone |-> 0]
    /\ nextId' = 1
    /\ active' = [d \in Drone |-> None]
    /\ seenIdle' = {}
    /\ exposed' = exposed \cup {d \in Drone : Exposing(d)}
    /\ UNCHANGED <<fallback, clock, plan, flying, assigns>>

Next ==
    \/ \E d \in Drone, p \in Path, op \in OrderPriority, now \in {clock, clock + 1} :
          Assign(d, p, op, now)
    \/ \E d \in Drone :
          \/ TakeOff(d)
          \/ LaunchFails(d)
          \/ on_home_landing(d)
          \/ Telemetry(d)
    \/ FleetRestart

Spec == Init /\ [][Next]_vars

-----------------------------------------------------------------------------
(* Properties.                                                             *)

Registered == {d \in Drone : segments[d] # None}

\* Every variable has its type.
TypeOK ==
    /\ fallback \in BOOLEAN
    /\ segments \in [Drone -> Segment \cup {None}]
    /\ active \in [Drone -> Segment \cup {None}]
    /\ boxes \subseteq [id : Nat \ {0}, path : Path, off : Offset]
    /\ idMap \in [Drone -> Nat]
    /\ nextId \in Nat \ {0}
    /\ clock \in Nat
    /\ seenIdle \subseteq Drone
    /\ plan \in [Drone -> SUBSET Path]
    /\ flying \in [Drone -> Path \cup {None}]
    /\ exposed \subseteq Drone
    /\ assigns \in Nat
    /\ restarts \in Nat

\* The four tables of the engine and the table beside it describe the same
\* trajectories: one box per registered drone, none left of a replaced one.
EngineAgrees ==
    /\ active = segments
    /\ IF fallback
       THEN boxes = {} /\ \A d \in Drone : idMap[d] = 0
       ELSE /\ boxes = {BoxOf(d) : d \in Registered}
            /\ \A d \in Drone : idMap[d] # 0 <=> d \in Registered
            /\ \A d, e \in Registered : idMap[d] = idMap[e] => d = e
            /\ \A d \in Registered : idMap[d] < nextId

\* Of two registered trajectories in conflict, the one registered later has
\* the higher priority (it does not look at lower ones), or the clock could
\* not tell which came first (check_and_resolve compares with <).
Separated ==
    \A a, b \in Registered :
        /\ a # b
        /\ Conflict(segments[a].path, segments[a].off,
                    segments[b].path, segments[b].off)
        /\ segments[a].at < segments[b].at
        => segments[b].priority > segments[a].priority

\* With the R-tree no offset is ever used: the boxes span 30 m with their
\* buffers, so the highest offset still touches a trajectory at offset 0,
\* and whoever meets one he yields to is told to loiter.
OffsetsNeverHelp == ~fallback => \A d \in Registered : segments[d].off = 0

\* A flight the engine does not know as flown is one of a drone that was told
\* to loiter, was assigned twice, or was under way when Fleet AI restarted.
KnownFlights ==
    \A d \in Drone \ exposed :
        flying[d] # None => d \in Registered /\ segments[d].path = flying[d]

\* With the R-tree, of two flights that meet and are not exposed, one was
\* given way on purpose, or both were registered at one reading of the clock.
\* The fallback promises less: an offset it settles on is told to nobody.
AirborneApart ==
    ~fallback =>
    \A a, b \in Drone \ exposed :
        /\ a # b
        /\ flying[a] # None
        /\ flying[b] # None
        /\ <<flying[a], flying[b]>> \in Meets
        => \/ segments[a].at = segments[b].at
           \/ segments[a].at < segments[b].at /\ segments[b].priority > segments[a].priority
           \/ segments[b].at < segments[a].at /\ segments[a].priority > segments[b].priority
=============================================================================
