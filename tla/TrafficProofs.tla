---------------------------- MODULE TrafficProofs ----------------------------
(***************************************************************************)
(* Theorems of Traffic: the tables of the collision engine agree,          *)
(* registered trajectories are separated, and the altitude offsets are     *)
(* never used with the R-tree.                                             *)
(***************************************************************************)
EXTENDS Traffic, TLAPS

\* A plan the engine does not know is a plan of an exposed drone.
PlanOK == \A d \in Drone \ exposed : \A p \in plan[d] :
             d \in Registered /\ segments[d].path = p

IInv == /\ TypeOK
        /\ EngineAgrees
        /\ Separated
        /\ OffsetsNeverHelp
        /\ KnownFlights
        /\ PlanOK
        /\ \A d \in Registered : segments[d].at <= clock

-----------------------------------------------------------------------------
(* Geometry.                                                               *)

\* Conflict does not depend on who asks.
LEMMA ConflictSymmetric ==
    ASSUME NEW p \in Path, NEW q \in Path, NEW m \in Offset, NEW n \in Offset,
           Conflict(p, m, q, n)
    PROVE  Conflict(q, n, p, m)
  <1>1. m \in Int /\ n \in Int
    BY DEF Offset, ALT_OFFSETS_M
  <1>2. Abs(m - n) = Abs(n - m)
    BY <1>1 DEF Abs
  <1> QED
    BY <1>1, <1>2, GeometryAssumption
    DEF Conflict, MidpointsClose, BoxesIntersect, Symmetric

\* The boxes of one meeting path cover every offset of the other's.
LEMMA BoxesAlwaysTouch ==
    ASSUME NEW p \in Path, NEW q \in Path, <<p, q>> \in Meets, NEW m \in Offset,
           ~fallback
    PROVE  Conflict(p, m, q, 0)
  BY DEF Conflict, BoxesIntersect, BoxLow, BoxHigh, Offset, ALT_OFFSETS_M,
         TAKEOFF_ALT, VERTICAL_BUFFER_M

LEMMA PriorityType ==
    ASSUME NEW op \in OrderPriority
    PROVE  order_priority_to_collision(op) \in STANDARD..MEDICAL
  BY TrafficAssumption
  DEF order_priority_to_collision, STANDARD, EXPRESS, MEDICAL

\* None is told apart from a registered segment.
LEMMA NoneIsNoSegment == None \notin Segment
  <1>1. Segment \subseteq [path : Path, off : Nat, priority : 1..3, at : Nat]
    BY DEF Segment, Offset, ALT_OFFSETS_M, STANDARD, MEDICAL
  <1> QED
    BY <1>1, TrafficAssumption

\* Looking boxes up by number is comparing with the segments of the others.
LEMMA LookupIsComparison ==
    ASSUME IInv, NEW d \in Drone, NEW p \in Path, NEW off \in Offset,
           NEW others \in SUBSET Registered
    PROVE  HasConflict(d, p, off, others) <=>
           \E o \in others : Conflict(p, off, segments[o].path, segments[o].off)
  <1>1. CASE fallback
    BY <1>1 DEF HasConflict, IInv, EngineAgrees
  <1>2. CASE ~fallback
    <2>1. /\ boxes = {BoxOf(e) : e \in Registered}
          /\ \A e \in Drone : idMap[e] # 0 <=> e \in Registered
          /\ \A e, f \in Registered : idMap[e] = idMap[f] => e = f
      BY <1>2 DEF IInv, EngineAgrees
    <2>2. others \subseteq Drone
      BY DEF Registered
    <2>3. ASSUME NEW b \in boxes, NEW o \in others, idMap[o] = b.id
          PROVE  b = BoxOf(o)
      <3>1. PICK e \in Registered : b = BoxOf(e)
        BY <2>1
      <3>2. idMap[e] = idMap[o]
        BY <3>1, <2>3 DEF BoxOf
      <3> QED
        BY <3>1, <3>2, <2>1
    <2>4. ASSUME HasConflict(d, p, off, others)
          PROVE  \E o \in others : Conflict(p, off, segments[o].path, segments[o].off)
      <3>1. PICK b \in boxes, o \in others :
               idMap[o] = b.id /\ Conflict(p, off, b.path, b.off)
        BY <2>4, <1>2 DEF HasConflict
      <3>2. b = BoxOf(o)
        BY <3>1, <2>3
      <3>3. Conflict(p, off, segments[o].path, segments[o].off)
        BY <3>1, <3>2 DEF BoxOf
      <3> QED
        BY <3>3
    <2>5. ASSUME NEW o \in others, Conflict(p, off, segments[o].path, segments[o].off)
          PROVE  HasConflict(d, p, off, others)
      <3>1. BoxOf(o) \in boxes /\ idMap[o] # 0
        BY <2>1, <2>2
      <3>2. BoxOf(o).id = idMap[o] /\ BoxOf(o).path = segments[o].path
            /\ BoxOf(o).off = segments[o].off
        BY DEF BoxOf
      <3> QED
        BY <3>1, <3>2, <2>5, <1>2 DEF HasConflict
    <2> QED
      BY <2>4, <2>5
  <1> QED
    BY <1>1, <1>2

-----------------------------------------------------------------------------
(* Steps that leave the engine alone.                                      *)

LEMMA EngineUntouched ==
    ASSUME IInv, TypeOK', UNCHANGED <<fallback, engine, clock>>,
           KnownFlights', PlanOK'
    PROVE  IInv'
  <1> USE DEF engine
  <1>1. Registered' = Registered
    BY DEF Registered
  <1>2. EngineAgrees'
    BY <1>1 DEF IInv, EngineAgrees, BoxOf
  <1>3. Separated'
    BY <1>1 DEF IInv, Separated, Conflict, BoxesIntersect, MidpointsClose
  <1>4. OffsetsNeverHelp' /\ \A d \in Registered' : segments'[d].at <= clock'
    BY <1>1 DEF IInv, OffsetsNeverHelp
  <1> QED
    BY <1>2, <1>3, <1>4 DEF IInv

\* Flights and plans change without the engine.
LEMMA FlightSteps ==
    ASSUME IInv, NEW d \in Drone,
           TakeOff(d) \/ LaunchFails(d) \/ on_home_landing(d) \/ Telemetry(d)
    PROVE  IInv'
  <1> USE DEF engine
  <1>1. TypeOK /\ UNCHANGED <<fallback, engine, clock, exposed, assigns, restarts>>
    BY DEF TakeOff, LaunchFails, on_home_landing, Telemetry, IInv
  <1>2. /\ flying' \in [Drone -> Path \cup {None}]
        /\ plan' \in [Drone -> SUBSET Path]
        /\ seenIdle' \subseteq Drone
    BY <1>1 DEF TypeOK, TakeOff, LaunchFails, on_home_landing, Telemetry
  <1>3. TypeOK'
    BY <1>1, <1>2 DEF TypeOK, Segment
  <1>4. Registered' = Registered
    BY <1>1 DEF Registered
  <1>5. \A e \in Drone : plan'[e] \subseteq plan[e]
    BY <1>1 DEF TypeOK, TakeOff, LaunchFails, on_home_landing, Telemetry
  <1>6. \A e \in Drone : flying'[e] = flying[e] \/ flying'[e] = None \/ flying'[e] \in plan[e]
    BY <1>1 DEF TypeOK, TakeOff, LaunchFails, on_home_landing, Telemetry
  <1>7. PlanOK'
    BY <1>1, <1>4, <1>5 DEF PlanOK, IInv
  <1>8. KnownFlights'
    BY <1>1, <1>4, <1>6 DEF PlanOK, KnownFlights, IInv
  <1> QED
    BY <1>1, <1>3, <1>7, <1>8, EngineUntouched

\* A restart empties the engine and exposes who is under way.
LEMMA RestartStep ==
    ASSUME IInv, FleetRestart
    PROVE  IInv'
  <1>1. Registered' = {}
    BY DEF Registered, FleetRestart, Rebuilt
  <1>2. TypeOK'
    BY DEF IInv, TypeOK, FleetRestart, Rebuilt
  <1>3. EngineAgrees'
    BY <1>1 DEF EngineAgrees, FleetRestart, Rebuilt
  <1>4. Separated' /\ OffsetsNeverHelp' /\ \A d \in Registered' : segments'[d].at <= clock'
    BY <1>1 DEF Separated, OffsetsNeverHelp
  <1>5. \A d \in Drone \ exposed' : plan'[d] = {} /\ flying'[d] = None
    BY DEF FleetRestart, Exposing
  <1>6. KnownFlights' /\ PlanOK'
    BY <1>5 DEF KnownFlights, PlanOK
  <1> QED
    BY <1>2, <1>3, <1>4, <1>6 DEF IInv

-----------------------------------------------------------------------------
(* Assignments.                                                            *)

\* Loitering changes no table.
LEMMA LoiterStep ==
    ASSUME IInv, NEW d \in Drone, NEW p \in Path, NEW now \in {clock, clock + 1},
           clock' = now, assigns' = assigns + 1,
           plan' = [plan EXCEPT ![d] = @ \cup {p}],
           exposed' = exposed \cup {d},
           UNCHANGED <<engine, fallback, seenIdle, flying, restarts>>
    PROVE  IInv'
  <1> USE DEF engine
  <1>0. TypeOK /\ clock \in Nat
    BY DEF IInv, TypeOK
  <1>1. TypeOK'
    BY <1>0 DEF TypeOK, Segment
  <1>2. Registered' = Registered
    BY DEF Registered
  <1>3. EngineAgrees'
    BY <1>2 DEF IInv, EngineAgrees, BoxOf
  <1>4. Separated'
    BY <1>2 DEF IInv, Separated, Conflict, BoxesIntersect, MidpointsClose
  <1>5. OffsetsNeverHelp'
    BY <1>2 DEF IInv, OffsetsNeverHelp
  <1>6. \A e \in Registered : segments[e].at \in Nat /\ segments[e].at <= clock
    BY <1>0, NoneIsNoSegment DEF IInv, TypeOK, Registered, Segment
  <1>7. \A e \in Registered' : segments'[e].at <= clock'
    BY <1>0, <1>2, <1>6
  <1>8. \A e \in Drone \ exposed' : e # d /\ plan'[e] = plan[e]
    BY <1>0 DEF TypeOK
  <1>9. KnownFlights' /\ PlanOK'
    BY <1>2, <1>8 DEF IInv, KnownFlights, PlanOK
  <1> QED
    BY <1>1, <1>3, <1>4, <1>5, <1>7, <1>9 DEF IInv

\* What a registration does, apart from the tables of the R-tree.
Registers(d, p, priority, off, now) ==
    LET seg == [path |-> p, off |-> off, priority |-> priority, at |-> now]
    IN  /\ clock' = now
        /\ register_trajectory(d, seg)
        /\ active' = [active EXCEPT ![d] = seg]
        /\ exposed' = IF Exposing(d) THEN exposed \cup {d} ELSE exposed \ {d}
        /\ plan' = [plan EXCEPT ![d] = @ \cup {p}]
        /\ assigns' = assigns + 1
        /\ UNCHANGED <<fallback, seenIdle, flying, restarts>>

\* The tables still agree after a registration.
LEMMA RegisterAgrees ==
    ASSUME IInv, NEW d \in Drone, NEW seg \in Segment,
           register_trajectory(d, seg), active' = [active EXCEPT ![d] = seg],
           fallback' = fallback
    PROVE  EngineAgrees' /\ Registered' = Registered \cup {d}
  <1>0. TypeOK /\ EngineAgrees /\ seg # None
    BY NoneIsNoSegment DEF IInv
  <1>1. segments' = [segments EXCEPT ![d] = seg] /\ active' = segments'
    BY <1>0 DEF register_trajectory, EngineAgrees
  <1>2. Registered' = Registered \cup {d}
    BY <1>0, <1>1 DEF Registered, TypeOK
  <1>3. CASE fallback
    <2>1. boxes' = {} /\ \A e \in Drone : idMap'[e] = 0
      BY <1>0, <1>3 DEF EngineAgrees, register_trajectory
    <2> QED
      BY <1>1, <1>2, <1>3, <2>1 DEF EngineAgrees
  <1>4. CASE ~fallback
    <2>1. /\ boxes' = Unindexed(d) \cup {[id |-> nextId, path |-> seg.path, off |-> seg.off]}
          /\ idMap' = [idMap EXCEPT ![d] = nextId]
          /\ nextId' = nextId + 1
      BY <1>4 DEF register_trajectory
    <2>2. /\ boxes = {BoxOf(e) : e \in Registered}
          /\ \A e \in Drone : idMap[e] # 0 <=> e \in Registered
          /\ \A e, f \in Registered : idMap[e] = idMap[f] => e = f
          /\ \A e \in Registered : idMap[e] < nextId
      BY <1>0, <1>4 DEF EngineAgrees
    <2>3. nextId \in Nat \ {0} /\ idMap \in [Drone -> Nat] /\ Registered \subseteq Drone
      BY <1>0 DEF TypeOK, Registered
    <2>4. /\ idMap'[d] = nextId /\ segments'[d] = seg
          /\ \A e \in Drone \ {d} : idMap'[e] = idMap[e] /\ segments'[e] = segments[e]
      BY <1>0, <1>1, <2>1 DEF TypeOK
    <2>5. \A e \in Drone : idMap'[e] # 0 <=> e \in Registered'
      BY <1>2, <2>2, <2>3, <2>4
    <2>6. \A e \in Registered' : idMap'[e] < nextId'
      BY <1>2, <2>1, <2>2, <2>3, <2>4
    <2>7. \A e, f \in Registered' : idMap'[e] = idMap'[f] => e = f
      BY <1>2, <2>2, <2>3, <2>4
    <2>8. \A e \in Registered \ {d} : BoxOf(e)' = BoxOf(e)
      BY <2>3, <2>4 DEF BoxOf
    <2>9. BoxOf(d)' = [id |-> nextId, path |-> seg.path, off |-> seg.off]
      BY <2>4 DEF BoxOf
    <2>10. Unindexed(d) = {BoxOf(e) : e \in Registered \ {d}}
      <3>1. CASE d \in Registered
        <4>1. Unindexed(d) = boxes \ {BoxOf(d)}
          BY <1>4, <2>2, <2>3, <3>1 DEF Unindexed, Registered
        <4>2. \A e \in Registered \ {d} : BoxOf(e) # BoxOf(d)
          <5>1. \A e \in Registered : BoxOf(e).id = idMap[e]
            BY DEF BoxOf
          <5> QED
            BY <2>2, <3>1, <5>1
        <4> QED
          BY <2>2, <4>1, <4>2
      <3>2. CASE d \notin Registered
        <4>1. Unindexed(d) = boxes
          BY <3>2 DEF Unindexed, Registered
        <4> QED
          BY <2>2, <3>2, <4>1
      <3> QED
        BY <3>1, <3>2
    <2>11. boxes' = {BoxOf(e)' : e \in Registered'}
      BY <1>2, <2>1, <2>8, <2>9, <2>10
    <2> QED
      BY <1>1, <1>2, <1>4, <2>5, <2>6, <2>7, <2>11 DEF EngineAgrees
  <1> QED
    BY <1>2, <1>3, <1>4

\* A registration at the lowest free offset keeps the invariant.
LEMMA RegisterStep ==
    ASSUME IInv, NEW d \in Drone, NEW p \in Path, NEW now \in {clock, clock + 1},
           NEW priority \in STANDARD..MEDICAL,
           NEW off \in FreeOffsets(d, p, Others(d, priority, now)),
           \A lower \in FreeOffsets(d, p, Others(d, priority, now)) : off <= lower,
           Registers(d, p, priority, off, now)
    PROVE  IInv'
  <1> DEFINE seg == [path |-> p, off |-> off, priority |-> priority, at |-> now]
             others == Others(d, priority, now)
  <1>0. TypeOK /\ clock \in Nat /\ now \in Nat /\ clock <= now
    BY DEF IInv, TypeOK
  <1>1. seg \in Segment /\ seg # None /\ off \in Offset
    BY <1>0, NoneIsNoSegment DEF Segment, FreeOffsets
  <1>2. EngineAgrees' /\ Registered' = Registered \cup {d}
    BY <1>1, RegisterAgrees DEF Registers
  <1>3. others \subseteq Registered
    BY DEF Others, Registered, IInv, EngineAgrees
  <1>4. \A o \in others : ~Conflict(p, off, segments[o].path, segments[o].off)
    BY <1>1, <1>3, LookupIsComparison DEF FreeOffsets
  <1>5. \A e \in Registered : segments[e] \in Segment
    BY <1>0, NoneIsNoSegment DEF TypeOK, Registered
  <1>6. /\ segments' = [segments EXCEPT ![d] = seg]
        /\ \A e \in Drone \ {d} : segments'[e] = segments[e]
        /\ segments'[d] = seg /\ fallback' = fallback /\ clock' = now
    BY <1>0 DEF Registers, register_trajectory, TypeOK
  <1>7. \A e \in Registered' : segments'[e].at <= clock'
    <2>1. \A e \in Registered : segments[e].at \in Nat /\ segments[e].at <= clock
      BY <1>5 DEF IInv, Segment
    <2> QED
      BY <1>0, <1>2, <1>6, <2>1 DEF Registered
  <1>8. TypeOK'
    <2>1. segments' \in [Drone -> Segment \cup {None}] /\ active' \in [Drone -> Segment \cup {None}]
      BY <1>0, <1>1, <1>6 DEF TypeOK, Registers
    <2>2. /\ boxes' \subseteq [id : Nat \ {0}, path : Path, off : Offset]
          /\ idMap' \in [Drone -> Nat] /\ nextId' \in Nat \ {0}
      BY <1>0, <1>1 DEF TypeOK, Registers, register_trajectory, Unindexed
    <2>3. /\ clock' \in Nat /\ plan' \in [Drone -> SUBSET Path]
          /\ exposed' \subseteq Drone /\ assigns' \in Nat
      BY <1>0 DEF TypeOK, Registers
    <2> QED
      BY <1>0, <2>1, <2>2, <2>3 DEF TypeOK, Registers, Segment
  <1>9. OffsetsNeverHelp'
    <2> SUFFICES ASSUME ~fallback
                 PROVE  off = 0
      BY <1>2, <1>6 DEF OffsetsNeverHelp, IInv, Registered
    <2>1. 0 \in Offset
      BY DEF Offset, ALT_OFFSETS_M
    <2>2. CASE 0 \in FreeOffsets(d, p, others)
      BY <1>1, <2>2 DEF Offset, ALT_OFFSETS_M
    <2>3. CASE 0 \notin FreeOffsets(d, p, others)
      <3>1. PICK o \in others : Conflict(p, 0, segments[o].path, segments[o].off)
        BY <1>3, <2>1, <2>3, LookupIsComparison DEF FreeOffsets
      <3>2. segments[o].off = 0 /\ segments[o].path \in Path
        BY <1>3, <1>5 DEF IInv, OffsetsNeverHelp, Segment
      <3>3. <<p, segments[o].path>> \in Meets
        BY <3>1 DEF Conflict, BoxesIntersect
      <3>4. Conflict(p, off, segments[o].path, 0)
        BY <1>1, <3>2, <3>3, BoxesAlwaysTouch
      <3> QED
        BY <1>4, <3>2, <3>4
    <2> QED
      BY <2>2, <2>3
  <1>10. Separated'
    <2> SUFFICES ASSUME NEW a \in Registered', NEW b \in Registered', a # b,
                        Conflict(segments'[a].path, segments'[a].off,
                                 segments'[b].path, segments'[b].off),
                        segments'[a].at < segments'[b].at
                 PROVE  segments'[b].priority > segments'[a].priority
      BY <1>6 DEF Separated, Conflict, BoxesIntersect, MidpointsClose
    <2>0. a \in Drone /\ b \in Drone
      BY DEF Registered
    <2>1. CASE a # d /\ b # d
      BY <1>2, <1>6, <2>0, <2>1 DEF IInv, Separated
    <2>2. CASE a = d
      <3>1. segments[b].at <= clock /\ segments[b].at \in Nat
        BY <1>2, <1>5, <2>2 DEF IInv, Segment
      <3> QED
        BY <1>0, <1>6, <2>0, <2>2, <3>1
    <2>3. CASE b = d
      <3>1. a \in Registered /\ segments'[a] = segments[a] /\ segments[a] \in Segment
        BY <1>2, <1>5, <1>6, <2>0, <2>3
      <3>2. Conflict(segments[a].path, segments[a].off, p, off)
        BY <1>6, <2>3, <3>1
      <3>3. Conflict(p, off, segments[a].path, segments[a].off)
        BY <1>1, <3>1, <3>2, ConflictSymmetric DEF Segment
      <3>4. a \notin others
        BY <1>4, <3>3
      <3>5. segments[a].at < now
        BY <1>6, <2>3, <3>1
      <3>6. ~(segments[a].priority > priority) /\ segments[a].priority # priority
        BY <2>0, <2>3, <3>1, <3>4, <3>5 DEF Others, Registered, IInv, EngineAgrees
      <3>7. segments[a].priority \in Int /\ priority \in Int
        BY <3>1 DEF Segment, STANDARD, MEDICAL
      <3> QED
        BY <1>6, <2>3, <3>1, <3>6, <3>7
    <2> QED
      BY <2>1, <2>2, <2>3
  <1>11. /\ \A e \in Drone \ {d} : plan'[e] = plan[e] /\ (e \notin exposed' => e \notin exposed)
         /\ plan'[d] = plan[d] \cup {p} /\ flying' = flying
         /\ d \notin exposed' => ~Exposing(d)
    BY <1>0 DEF Registers, TypeOK
  <1>12. KnownFlights' /\ PlanOK'
    BY <1>2, <1>6, <1>11 DEF KnownFlights, PlanOK, IInv, Exposing
  <1> QED
    BY <1>2, <1>7, <1>8, <1>9, <1>10, <1>12 DEF IInv

LEMMA AssignStep ==
    ASSUME IInv, NEW d \in Drone, NEW p \in Path, NEW op \in OrderPriority,
           NEW now \in {clock, clock + 1}, Assign(d, p, op, now)
    PROVE  IInv'
  <1> DEFINE priority == order_priority_to_collision(op)
             free == FreeOffsets(d, p, Others(d, priority, now))
  <1>1. priority \in STANDARD..MEDICAL
    BY PriorityType
  <1>2. CASE \E off \in free : /\ \A lower \in free : off <= lower
                               /\ Registers(d, p, priority, off, now)
    BY <1>1, <1>2, RegisterStep
  <1>3. CASE exposed' = exposed \cup {d} /\ UNCHANGED engine
    BY <1>3, LoiterStep DEF Assign
  <1> QED
    BY <1>2, <1>3 DEF Assign, Registers

-----------------------------------------------------------------------------
(* The theorems.                                                           *)

LEMMA InitIInv == Init => IInv
  <1> SUFFICES ASSUME Init PROVE IInv
    OBVIOUS
  <1>1. Registered = {}
    BY DEF Init, Registered
  <1> QED
    BY <1>1 DEF Init, IInv, TypeOK, EngineAgrees, Separated, OffsetsNeverHelp,
                KnownFlights, PlanOK

LEMMA Step == IInv /\ [Next]_vars => IInv'
  <1> SUFFICES ASSUME IInv, [Next]_vars PROVE IInv'
    OBVIOUS
  <1>1. CASE \E d \in Drone, p \in Path, op \in OrderPriority, now \in {clock, clock + 1} :
                Assign(d, p, op, now)
    BY <1>1, AssignStep
  <1>2. CASE \E d \in Drone : TakeOff(d) \/ LaunchFails(d) \/ on_home_landing(d) \/ Telemetry(d)
    BY <1>2, FlightSteps
  <1>3. CASE FleetRestart
    BY <1>3, RestartStep
  <1>4. CASE UNCHANGED vars
    <2>1. UNCHANGED <<fallback, engine, clock, seenIdle, plan, flying, exposed, assigns, restarts>>
      BY <1>4 DEF vars, engine
    <2>2. Registered' = Registered
      BY <2>1 DEF Registered, engine
    <2>3. TypeOK' /\ KnownFlights' /\ PlanOK'
      BY <2>1, <2>2 DEF IInv, TypeOK, Segment, KnownFlights, PlanOK, engine
    <2> QED
      BY <2>1, <2>3, EngineUntouched
  <1> QED
    BY <1>1, <1>2, <1>3, <1>4 DEF Next

THEOREM Invariance == Spec => []IInv
  BY InitIInv, Step, PTL DEF Spec

\* Every variable keeps its type.
THEOREM TypeTheorem == Spec => []TypeOK
  <1>1. IInv => TypeOK
    BY DEF IInv
  <1> QED
    BY <1>1, Invariance, PTL

\* The R-tree, its numbers, the engine's table and _active_segments describe
\* the same trajectories.
THEOREM AgreesTheorem == Spec => []EngineAgrees
  <1>1. IInv => EngineAgrees
    BY DEF IInv
  <1> QED
    BY <1>1, Invariance, PTL

\* Registered trajectories in conflict are so because the later one has the
\* higher priority, or was registered in the same reading of the clock.
THEOREM SeparatedTheorem == Spec => []Separated
  <1>1. IInv => Separated
    BY DEF IInv
  <1> QED
    BY <1>1, Invariance, PTL

\* With the R-tree every registered trajectory has offset 0, whatever the
\* paths, the priorities and the number of drones.
THEOREM OffsetsTheorem == Spec => []OffsetsNeverHelp
  <1>1. IInv => OffsetsNeverHelp
    BY DEF IInv
  <1> QED
    BY <1>1, Invariance, PTL

\* A flight unknown to the engine is one of an exposed drone.
THEOREM KnownTheorem == Spec => []KnownFlights
  <1>1. IInv => KnownFlights
    BY DEF IInv
  <1> QED
    BY <1>1, Invariance, PTL

\* What the tables guarantee reaches the air for drones that are not exposed.
THEOREM AirborneTheorem == Spec => []AirborneApart
  <1>1. IInv => AirborneApart
    <2> SUFFICES ASSUME IInv, ~fallback,
                        NEW a \in Drone \ exposed, NEW b \in Drone \ exposed, a # b,
                        flying[a] # None, flying[b] # None,
                        <<flying[a], flying[b]>> \in Meets
                 PROVE  \/ segments[a].at = segments[b].at
                        \/ segments[a].at < segments[b].at /\ segments[b].priority > segments[a].priority
                        \/ segments[b].at < segments[a].at /\ segments[a].priority > segments[b].priority
      BY DEF AirborneApart
    <2>1. /\ a \in Registered /\ segments[a].path = flying[a]
          /\ b \in Registered /\ segments[b].path = flying[b]
      BY DEF IInv, KnownFlights
    <2>2. segments[a] \in Segment /\ segments[b] \in Segment
      BY <2>1, NoneIsNoSegment DEF IInv, TypeOK, Registered
    <2>3. segments[a].off = 0 /\ segments[b].off = 0
      BY <2>1 DEF IInv, OffsetsNeverHelp
    <2>4. 0 \in Offset
      BY DEF Offset, ALT_OFFSETS_M
    <2>5. Conflict(segments[a].path, 0, segments[b].path, 0)
      BY <2>1, <2>2, <2>4, BoxesAlwaysTouch DEF Segment
    <2>6. Conflict(segments[b].path, 0, segments[a].path, 0)
      BY <2>2, <2>4, <2>5, ConflictSymmetric DEF Segment
    <2>7. segments[a].at \in Nat /\ segments[b].at \in Nat
      BY <2>2 DEF Segment
    <2>8. /\ segments[a].at < segments[b].at => segments[b].priority > segments[a].priority
          /\ segments[b].at < segments[a].at => segments[a].priority > segments[b].priority
      BY <2>1, <2>3, <2>5, <2>6 DEF IInv, Separated
    <2> QED
      BY <2>7, <2>8
  <1> QED
    BY <1>1, Invariance, PTL
=============================================================================
