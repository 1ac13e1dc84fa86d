---------------------------- MODULE FlightProofs ----------------------------
(***************************************************************************)
(* Proofs about Flight: for any number of attempts to arm.                 *)
(***************************************************************************)
EXTENDS Flight, TLAPS

\* Without a task, before its first step and after its handler's RTL, the drone
\* returns, or somebody else flies it, or it stands and does not take off.
Settled ==
    pc \in {"none", "start", "report"} =>
        refused \/ cut \/ mode \in {"rtl"} \cup Foreign \/ (~air /\ mode # "takeoff")

\* A mission that saw the climb is in the air for as long as the mode is that
\* of the takeoff, and one that saw the landing stands.
Grounded ==
    /\ pc \in {"confirm", "goto", "fly", "yaw", "land", "descend"} /\ mode = "takeoff" => air
    /\ pc \in {"disarm", "open", "close", "finish"} => ~air /\ mode # "takeoff"
    /\ air => mode # "ready"

\* On the way out, while nothing but the task commands the drone.
Course ==
    leg = "out" /\ ~cancelled /\ ~diverted =>
        /\ pc = "climb" => mode = "takeoff"
        /\ pc = "goto" => mode = "takeoff" /\ air
        /\ pc = "fly" => mode = "block" /\ air
        /\ pc = "land" => mode = "block" /\ air /\ place = "block"
        /\ pc = "descend" => place = "block" /\ (mode = "land" \/ (mode = "ready" /\ ~air))
        /\ pc \in {"disarm", "open"} => place = "block" /\ mode # "rtl"

\* The parcel is off when the servo is to be driven back, and when the order is
\* to be reported, unless a servo command failed.
Released ==
    /\ pc \in {"open", "close", "tell"} => leg = "out"
    /\ pc \in {"confirm", "yaw", "finish"} => leg = "back"
    /\ pc = "close" => parcel # "aboard"
    /\ pc = "tell" => parcel # "aboard" \/ stuck
    /\ told /\ parcel = "aboard" => stuck
    /\ parcel \in {"home", "between"} => diverted
    /\ latch = "open" => stuck \/ pc = "close"

\* The conjuncts of TypeOK, by component.
FcuType ==
    /\ mode \in {"ready", "takeoff", "block", "home", "land", "rtl"} \cup Foreign
    /\ armed \in BOOLEAN /\ air \in BOOLEAN
    /\ place \in {"home", "block", "between"}
LoadType ==
    /\ latch \in {"open", "closed"}
    /\ parcel \in {"aboard", "none", "home", "block", "between"}
AgentType ==
    /\ status \in {"IDLE", "FAILED", "OFFLINE"} \cup InFlight
    /\ mission \in BOOLEAN /\ armedSeen \in BOOLEAN
    /\ mission <=> pc \in Flying \ {"start"}
TaskType ==
    /\ pc \in {"none"} \cup Flying \cup Handling
    /\ leg \in {"out", "back"} /\ try \in 1..Attempts /\ told \in BOOLEAN
    /\ cancelled \in BOOLEAN /\ alert \in BOOLEAN
    /\ closing \in {"none", "rtl", "streams", "wait", "done"}
HistoryType ==
    /\ refused \in BOOLEAN /\ cut \in BOOLEAN /\ diverted \in BOOLEAN /\ stuck \in BOOLEAN

Inv == TypeOK /\ Settled /\ Grounded /\ Course /\ Released

LEMMA Parts ==
    ASSUME FcuType', LoadType', AgentType', TaskType', HistoryType'
    PROVE  TypeOK'
  BY DEF TypeOK, FcuType, LoadType, AgentType, TaskType, HistoryType

LEMMA Initially == Init => Inv
<1> SUFFICES ASSUME Init PROVE Inv
  OBVIOUS
<1>1. TypeOK
  <2>1. 1 \in 1..Attempts
    BY FlightAssumption
  <2> QED
    BY <2>1 DEF Init, TypeOK, Flying, Handling, InFlight
<1>2. Settled /\ Grounded /\ Course /\ Released
  BY DEF Init, Settled, Grounded, Course, Released
<1> QED
  BY <1>1, <1>2 DEF Inv

-----------------------------------------------------------------------------
(* How a step of execute ends: with an exception or in the next step.      *)

LEMMA RaisesAgent ==
    ASSUME Inv, Raises, armedSeen' = armedSeen
    PROVE  AgentType'
  BY DEF Inv, TypeOK, Raises, AgentType, Flying, InFlight

LEMMA OnAgent ==
    ASSUME Inv, NEW p, On(p), armedSeen' = armedSeen,
           mission <=> p \in Flying \ {"start"}
    PROVE  AgentType'
  BY DEF Inv, TypeOK, On, AgentType, Flying, InFlight

\* Away from the servo neither touches what Released speaks of.
LEMMA AwayFromServo ==
    ASSUME Inv, NEW p \in {"climb", "fly", "descend"}, Raises \/ On(p),
           pc \notin {"open", "close", "tell"},
           UNCHANGED <<latch, parcel, told, leg, diverted>>
    PROVE  Released'
<1>1. stuck \in BOOLEAN /\ stuck' \in BOOLEAN /\ (stuck => stuck')
  BY DEF Inv, TypeOK, Raises, On
<1>2. pc' \in {"rtl", "climb", "fly", "descend"}
  BY DEF Raises, On
<1> QED
  BY <1>1, <1>2 DEF Inv, Released

-----------------------------------------------------------------------------
(* The actions that need more than their definition.                       *)

LEMMA TouchesDownKeeps ==
    ASSUME Inv, TouchesDown
    PROVE  Inv'
<1> USE FlightAssumption
    DEF Foreign, Flying, Handling, InFlight, At, On, Raises, Returns, emergency_rtl, Target,
        Opened, fcu, load, agent, task, faults
<1>1. FcuType'
  BY DEF Inv, TypeOK, FcuType, TouchesDown
<1>2. LoadType'
  BY DEF Inv, TypeOK, LoadType, TouchesDown
<1>3. AgentType'
  BY DEF Inv, TypeOK, AgentType, TouchesDown
<1>4. TaskType'
  BY DEF Inv, TypeOK, TaskType, TouchesDown
<1>5. HistoryType'
  BY DEF Inv, TypeOK, HistoryType, TouchesDown
<1>6. (Settled /\ Grounded /\ Course /\ Released)'
  BY DEF Inv, TypeOK, Settled, Grounded, Course, Released, TouchesDown
<1> QED
  BY <1>1, <1>2, <1>3, <1>4, <1>5, <1>6, Parts DEF Inv

LEMMA SettlesDownKeeps ==
    ASSUME Inv, SettlesDown
    PROVE  Inv'
<1> USE FlightAssumption
    DEF Foreign, Flying, Handling, InFlight, At, On, Raises, Returns, emergency_rtl, Target,
        Opened, fcu, load, agent, task, faults
<1>1. FcuType'
  BY DEF Inv, TypeOK, FcuType, SettlesDown
<1>2. LoadType'
  BY DEF Inv, TypeOK, LoadType, SettlesDown
<1>3. AgentType'
  BY DEF Inv, TypeOK, AgentType, SettlesDown
<1>4. TaskType'
  BY DEF Inv, TypeOK, TaskType, SettlesDown
<1>5. HistoryType'
  BY DEF Inv, TypeOK, HistoryType, SettlesDown
<1>6. (Settled /\ Grounded /\ Course /\ Released)'
  BY DEF Inv, TypeOK, Settled, Grounded, Course, Released, SettlesDown
<1> QED
  BY <1>1, <1>2, <1>3, <1>4, <1>5, <1>6, Parts DEF Inv

LEMMA AlertReturnsKeeps ==
    ASSUME Inv, AlertReturns
    PROVE  Inv'
<1> USE FlightAssumption
    DEF Foreign, Flying, Handling, InFlight, At, On, Raises, Returns, emergency_rtl, Target,
        Opened, fcu, load, agent, task, faults
<1>1. FcuType'
  BY DEF Inv, TypeOK, FcuType, AlertReturns
<1>2. LoadType'
  BY DEF Inv, TypeOK, LoadType, AlertReturns
<1>3. AgentType'
  BY DEF Inv, TypeOK, AgentType, AlertReturns
<1>4. TaskType'
  BY DEF Inv, TypeOK, TaskType, AlertReturns
<1>5. HistoryType'
  BY DEF Inv, TypeOK, HistoryType, AlertReturns
<1>6. (Settled /\ Grounded /\ Course /\ Released)'
  BY DEF Inv, TypeOK, Settled, Grounded, Course, Released, AlertReturns
<1> QED
  BY <1>1, <1>2, <1>3, <1>4, <1>5, <1>6, Parts DEF Inv

LEMMA CloseReturnsKeeps ==
    ASSUME Inv, CloseReturns
    PROVE  Inv'
<1> USE FlightAssumption
    DEF Foreign, Flying, Handling, InFlight, At, On, Raises, Returns, emergency_rtl, Target,
        Opened, fcu, load, agent, task, faults
<1>1. FcuType'
  BY DEF Inv, TypeOK, FcuType, CloseReturns
<1>2. LoadType'
  BY DEF Inv, TypeOK, LoadType, CloseReturns
<1>3. AgentType'
  BY DEF Inv, TypeOK, AgentType, CloseReturns
<1>4. TaskType'
  BY DEF Inv, TypeOK, TaskType, CloseReturns
<1>5. HistoryType'
  BY DEF Inv, TypeOK, HistoryType, CloseReturns
<1>6. (Settled /\ Grounded /\ Course /\ Released)'
  BY DEF Inv, TypeOK, Settled, Grounded, Course, Released, CloseReturns
<1> QED
  BY <1>1, <1>2, <1>3, <1>4, <1>5, <1>6, Parts DEF Inv

LEMMA OpenKeeps ==
    ASSUME Inv, Open
    PROVE  Inv'
<1> USE FlightAssumption
    DEF Foreign, Flying, Handling, InFlight, At, On, Raises, Returns, emergency_rtl, Target,
        Opened, fcu, load, agent, task, faults
<1>1. (FcuType /\ LoadType /\ AgentType)'
  BY DEF Inv, TypeOK, FcuType, LoadType, AgentType, Open
<1>2. (TaskType /\ HistoryType)'
  BY DEF Inv, TypeOK, TaskType, HistoryType, Open
<1>3. (Settled /\ Grounded /\ Course /\ Released)'
  BY DEF Inv, TypeOK, Settled, Grounded, Course, Released, Open
<1> QED
  BY <1>1, <1>2, <1>3, Parts DEF Inv

LEMMA CloseKeeps ==
    ASSUME Inv, Close
    PROVE  Inv'
<1> USE FlightAssumption
    DEF Foreign, Flying, Handling, InFlight, At, On, Raises, Returns, emergency_rtl, Target,
        Opened, fcu, load, agent, task, faults
<1>1. (FcuType /\ LoadType /\ AgentType)'
  BY DEF Inv, TypeOK, FcuType, LoadType, AgentType, Close
<1>2. (TaskType /\ HistoryType)'
  BY DEF Inv, TypeOK, TaskType, HistoryType, Close
<1>3. (Settled /\ Grounded /\ Course /\ Released)'
  BY DEF Inv, TypeOK, Settled, Grounded, Course, Released, Close
<1> QED
  BY <1>1, <1>2, <1>3, Parts DEF Inv

LEMMA FinishKeeps ==
    ASSUME Inv, Finish
    PROVE  Inv'
<1> USE FlightAssumption
    DEF Foreign, Flying, Handling, InFlight, At, On, Raises, Returns, emergency_rtl, Target,
        Opened, fcu, load, agent, task, faults
<1>1. (FcuType /\ LoadType /\ AgentType)'
  BY DEF Inv, TypeOK, FcuType, LoadType, AgentType, Finish
<1>2. (TaskType /\ HistoryType)'
  BY DEF Inv, TypeOK, TaskType, HistoryType, Finish
<1>3. (Settled /\ Grounded /\ Course /\ Released)'
  BY DEF Inv, TypeOK, Settled, Grounded, Course, Released, Finish
<1> QED
  BY <1>1, <1>2, <1>3, Parts DEF Inv

LEMMA HandlerReturnsKeeps ==
    ASSUME Inv, HandlerReturns
    PROVE  Inv'
<1> USE FlightAssumption
    DEF Foreign, Flying, Handling, InFlight, At, On, Raises, Returns, emergency_rtl, Target,
        Opened, fcu, load, agent, task, faults
<1>1. (FcuType /\ LoadType /\ AgentType)'
  BY DEF Inv, TypeOK, FcuType, LoadType, AgentType, HandlerReturns
<1>2. (TaskType /\ HistoryType)'
  BY DEF Inv, TypeOK, TaskType, HistoryType, HandlerReturns
<1>3. (Settled /\ Grounded /\ Course /\ Released)'
  BY DEF Inv, TypeOK, Settled, Grounded, Course, Released, HandlerReturns
<1> QED
  BY <1>1, <1>2, <1>3, Parts DEF Inv

LEMMA LaunchKeeps ==
    ASSUME Inv, Launch
    PROVE  Inv'
<1> USE FlightAssumption
    DEF Foreign, Flying, Handling, InFlight, At, On, Raises, Returns, emergency_rtl, Target,
        Opened, fcu, load, agent, task, faults
<1>1. (FcuType /\ LoadType /\ AgentType)'
  BY DEF Inv, TypeOK, FcuType, LoadType, AgentType, Launch
<1>2. TaskType'
  BY DEF Inv, TypeOK, TaskType, Launch
<1>3. HistoryType'
  BY DEF Inv, TypeOK, HistoryType, Launch
<1>4. (Settled /\ Grounded /\ Course /\ Released)'
  BY DEF Inv, TypeOK, Settled, Grounded, Course, Released, Launch
<1> QED
  BY <1>1, <1>2, <1>3, <1>4, Parts DEF Inv

LEMMA ArmKeeps ==
    ASSUME Inv, Arm
    PROVE  Inv'
<1> USE FlightAssumption
    DEF Foreign, Flying, Handling, InFlight, At, On, Raises, Returns, emergency_rtl, Target,
        Opened, fcu, load, agent, task, faults
<1>1. FcuType' /\ LoadType'
  BY DEF Inv, TypeOK, FcuType, LoadType, Arm
<1>2. AgentType'
  BY DEF Inv, TypeOK, AgentType, Arm
<1>3. TaskType'
  <2>1. try + 1 \in 1..Attempts \/ ~(try < Attempts)
    BY DEF Inv, TypeOK
  <2>2. 1 \in 1..Attempts
    OBVIOUS
  <2>3. CASE try' = 1 /\ pc' \in {"takeoff", "rtl"}
    BY <2>2, <2>3 DEF Inv, TypeOK, Arm, TaskType
  <2>4. CASE try < Attempts /\ try' = try + 1 /\ pc' = "arm"
    BY <2>1, <2>4 DEF Inv, TypeOK, Arm, TaskType
  <2> QED
    BY <2>3, <2>4 DEF Arm
<1>4. HistoryType'
  BY DEF Inv, TypeOK, HistoryType, Arm
<1>5. (Settled /\ Grounded /\ Course /\ Released)'
  BY DEF Inv, TypeOK, Settled, Grounded, Course, Released, Arm
<1> QED
  BY <1>1, <1>2, <1>3, <1>4, <1>5, Parts DEF Inv

LEMMA TakeoffKeeps ==
    ASSUME Inv, Takeoff
    PROVE  Inv'
<1>1. FcuType' /\ LoadType'
  BY DEF Inv, TypeOK, FcuType, LoadType, Takeoff, load
<1>2. AgentType'
  <2>1. mission <=> "climb" \in Flying \ {"start"}
    BY DEF Inv, TypeOK, Takeoff, At, Flying
  <2> QED
    BY <2>1, RaisesAgent, OnAgent DEF Takeoff
<1>3. TaskType' /\ HistoryType'
  BY DEF Inv, TypeOK, TaskType, HistoryType, Takeoff, On, Raises, Flying, Handling
<1>4. Settled' /\ Grounded'
  BY DEF Inv, TypeOK, Settled, Grounded, Takeoff, At, On, Raises
<1>5. Course'
  BY DEF Inv, TypeOK, Grounded, Course, Takeoff, At, On, Raises
<1>6. Released'
  BY AwayFromServo DEF Takeoff, At, load, task
<1> QED
  BY <1>1, <1>2, <1>3, <1>4, <1>5, <1>6, Parts DEF Inv

LEMMA gotoKeeps ==
    ASSUME Inv, goto_location
    PROVE  Inv'
<1>1. FcuType' /\ LoadType'
  BY DEF Inv, TypeOK, FcuType, LoadType, goto_location, load, Target
<1>2. AgentType'
  <2>1. mission <=> "fly" \in Flying \ {"start"}
    BY DEF Inv, TypeOK, goto_location, At, Flying
  <2> QED
    BY <2>1, RaisesAgent, OnAgent DEF goto_location
<1>3. TaskType' /\ HistoryType'
  BY DEF Inv, TypeOK, TaskType, HistoryType, goto_location, On, Raises, Flying, Handling
<1>4. Settled' /\ Grounded'
  BY DEF Inv, TypeOK, Settled, Grounded, goto_location, At, On, Raises, Target
<1>5. Course'
  BY DEF Inv, TypeOK, Grounded, Course, goto_location, At, On, Raises, Target
<1>6. Released'
  BY AwayFromServo DEF goto_location, At, load, task
<1> QED
  BY <1>1, <1>2, <1>3, <1>4, <1>5, <1>6, Parts DEF Inv

LEMMA LandKeeps ==
    ASSUME Inv, Land
    PROVE  Inv'
<1>1. FcuType' /\ LoadType'
  BY DEF Inv, TypeOK, FcuType, LoadType, Land, load
<1>2. AgentType'
  <2>1. mission <=> "descend" \in Flying \ {"start"}
    BY DEF Inv, TypeOK, Land, At, Flying
  <2> QED
    BY <2>1, RaisesAgent, OnAgent DEF Land
<1>3. TaskType' /\ HistoryType'
  BY DEF Inv, TypeOK, TaskType, HistoryType, Land, On, Raises, Flying, Handling
<1>4. Settled' /\ Grounded'
  BY DEF Inv, TypeOK, Settled, Grounded, Land, At, On, Raises
<1>5. Course'
  BY DEF Inv, TypeOK, Grounded, Course, Land, At, On, Raises
<1>6. Released'
  BY AwayFromServo DEF Land, At, load, task
<1> QED
  BY <1>1, <1>2, <1>3, <1>4, <1>5, <1>6, Parts DEF Inv

LEMMA InterruptedKeeps ==
    ASSUME Inv, Interrupted
    PROVE  Inv'
<1>1. FcuType' /\ LoadType'
  BY DEF Inv, TypeOK, FcuType, LoadType, Interrupted, fcu, load
<1>2. AgentType'
  <2>1. armedSeen' = armedSeen
    BY DEF Interrupted
  <2>2. CASE Raises
    BY <2>1, <2>2, RaisesAgent
  <2>3. CASE On("none") /\ pc \in {"start"} \cup Handling
    <3>1. ~mission
      BY <2>3 DEF Inv, TypeOK, Flying, Handling
    <3> QED
      BY <2>1, <2>3, <3>1, OnAgent DEF Flying
  <2> QED
    BY <2>2, <2>3 DEF Interrupted
<1>3. TaskType' /\ HistoryType'
  BY DEF Inv, TypeOK, TaskType, HistoryType, Interrupted, On, Raises, Flying, Handling
<1>4. Settled' /\ Grounded'
  BY DEF Inv, TypeOK, Settled, Grounded, Interrupted, On, Raises, Flying, Handling, fcu
<1>5. Course' /\ Released'
  BY DEF Inv, TypeOK, Course, Released, Interrupted, On, Raises, Flying, Handling, fcu, load
<1> QED
  BY <1>1, <1>2, <1>3, <1>4, <1>5, Parts DEF Inv

LEMMA connectKeeps ==
    ASSUME Inv, connect
    PROVE  Inv'
<1>1. (FcuType /\ LoadType /\ AgentType)'
  BY DEF Inv, TypeOK, FcuType, LoadType, AgentType, connect, fcu, load, task
<1>2. (TaskType /\ HistoryType)'
  BY DEF Inv, TypeOK, TaskType, HistoryType, connect, task, faults
<1>3. (Settled /\ Grounded /\ Course /\ Released)'
  BY DEF Inv, Settled, Grounded, Course, Released, connect, fcu, load, task, faults
<1> QED
  BY <1>1, <1>2, <1>3, Parts DEF Inv

-----------------------------------------------------------------------------
LEMMA Inductive == Inv /\ [Next]_vars => Inv'
<1> SUFFICES ASSUME Inv, [Next]_vars PROVE Inv'
  OBVIOUS
<1> USE FlightAssumption
    DEF Foreign, Flying, Handling, InFlight, At, On, Raises, Returns, emergency_rtl, Target,
        Opened, fcu, load, agent, task, faults
<1>1. CASE Climbs
  BY <1>1 DEF Inv, TypeOK, Settled, Grounded, Course, Released, Climbs
<1>2. CASE Moves
  BY <1>2 DEF Inv, TypeOK, Settled, Grounded, Course, Released, Moves
<1>3. CASE Failsafe
  BY <1>3 DEF Inv, TypeOK, Settled, Grounded, Course, Released, Failsafe
<1>4. CASE _stream_armed
  BY <1>4 DEF Inv, TypeOK, Settled, Grounded, Course, Released, _stream_armed
<1>5. CASE _task_telemetry_flight_mode
  BY <1>5 DEF Inv, TypeOK, Settled, Grounded, Course, Released, _task_telemetry_flight_mode, StatusOf
<1>6. CASE check_stale_drones
  BY <1>6 DEF Inv, TypeOK, Settled, Grounded, Course, Released, check_stale_drones
<1>7. CASE Starts
  BY <1>7 DEF Inv, TypeOK, Settled, Grounded, Course, Released, Starts
<1>8. CASE Reserved
  BY <1>8 DEF Inv, TypeOK, Settled, Grounded, Course, Released, Reserved
<1>9. CASE Ready
  BY <1>9 DEF Inv, TypeOK, Settled, Grounded, Course, Released, Ready
<1>10. CASE Climbed
  BY <1>10 DEF Inv, TypeOK, Settled, Grounded, Course, Released, Climbed
<1>11. CASE Confirmed
  BY <1>11 DEF Inv, TypeOK, Settled, Grounded, Course, Released, Confirmed
<1>12. CASE Arrived
  BY <1>12 DEF Inv, TypeOK, Settled, Grounded, Course, Released, Arrived
<1>13. CASE yaw_north
  BY <1>13 DEF Inv, TypeOK, Settled, Grounded, Course, Released, yaw_north
<1>14. CASE Landed
  BY <1>14 DEF Inv, TypeOK, Settled, Grounded, Course, Released, Landed
<1>15. CASE disarm_and_wait
  BY <1>15 DEF Inv, TypeOK, Settled, Grounded, Course, Released, disarm_and_wait
<1>16. CASE Tell
  BY <1>16 DEF Inv, TypeOK, Settled, Grounded, Course, Released, Tell
<1>17. CASE HandlerReports
  BY <1>17 DEF Inv, TypeOK, Settled, Grounded, Course, Released, HandlerReports
<1>18. CASE AlertBegins
  BY <1>18 DEF Inv, TypeOK, Settled, Grounded, Course, Released, AlertBegins
<1>19. CASE CloseBegins
  BY <1>19 DEF Inv, TypeOK, Settled, Grounded, Course, Released, CloseBegins
<1>20. CASE CloseCancels
  BY <1>20 DEF Inv, TypeOK, Settled, Grounded, Course, Released, CloseCancels
<1>21. CASE CloseEnds
  BY <1>21 DEF Inv, TypeOK, Settled, Grounded, Course, Released, CloseEnds
<1>22. CASE UNCHANGED vars
  BY <1>22 DEF Inv, TypeOK, Settled, Grounded, Course, Released, vars
<1> QED
  BY <1>1, <1>2, <1>3, <1>4, <1>5, <1>6, <1>7, <1>8, <1>9, <1>10, <1>11,
     <1>12, <1>13, <1>14, <1>15, <1>16, <1>17, <1>18, <1>19, <1>20, <1>21,
     <1>22, TouchesDownKeeps, SettlesDownKeeps, AlertReturnsKeeps,
     CloseReturnsKeeps, OpenKeeps, CloseKeeps, FinishKeeps,
     HandlerReturnsKeeps, LaunchKeeps, ArmKeeps, TakeoffKeeps, gotoKeeps,
     LandKeeps, InterruptedKeeps, connectKeeps
  DEF Next, Controller, execute

LEMMA Invariance == Spec => []Inv
  BY Initially, Inductive, PTL DEF Spec

\* Every variable has its type, and mission_id says which tasks fly.
THEOREM TypeTheorem == Spec => []TypeOK
<1>1. Inv => TypeOK
  BY DEF Inv
<1> QED
  BY <1>1, Invariance, PTL

\* However a mission ends (a failed step, an obstacle alert, a disconnection at
\* any of its awaits), a drone it leaves in the air is on its way home, unless
\* the controller refused, the failure handler was cancelled too, or a pilot or
\* the controller itself has taken it over since.
THEOREM ComesBackTheorem == Spec => []AbandonedComesBack
<1>1. Inv => AbandonedComesBack
  BY DEF Inv, Settled, AbandonedComesBack
<1> QED
  BY <1>1, Invariance, PTL

\* What execute says of the parcel and does with it (release_payload).
THEOREM ParcelTheorem == Spec => []ParcelTrue
<1>1. Inv => ParcelTrue
  BY DEF Inv, TypeOK, Grounded, Released, ParcelTrue
<1> QED
  BY <1>1, Invariance, PTL

\* A drone in the air whose agent knows it to be armed turns IDLE by one step
\* only: _task_telemetry_flight_mode hears MANUAL or a mode that is not in its map.
THEOREM IdleTheorem == Spec => IdleIsDown
<1>1. ASSUME Inv, [Next]_vars, status # "IDLE", status' = "IDLE", air, armedSeen'
      PROVE  mode = "manual"
  <2>1. ~Finish
    BY <1>1 DEF Inv, Grounded, Finish, At
  <2>2. CASE _task_telemetry_flight_mode
    <3>1. armedSeen /\ StatusOf(mode) = "IDLE" /\ mode # "ready"
      BY <1>1, <2>2 DEF Inv, Grounded, _task_telemetry_flight_mode
    <3> QED
      BY <1>1, <3>1 DEF Inv, TypeOK, Foreign, StatusOf
  <2>3. ~connect
    BY <1>1 DEF connect
  <2> QED
    BY <1>1, <2>1, <2>2, <2>3
       DEF Next, Controller, execute, vars, agent, At, On, Raises, emergency_rtl,
           Climbs, Moves, TouchesDown, SettlesDown, Failsafe, _stream_armed,
           check_stale_drones, Launch, Starts, Reserved, Ready, Arm, Takeoff,
           Climbed, Confirmed, goto_location, Arrived, yaw_north, Land, Landed,
           disarm_and_wait, Open, Close, Tell, Interrupted, HandlerReturns,
           HandlerReports, AlertBegins, AlertReturns, CloseBegins, CloseReturns,
           CloseCancels, CloseEnds
<1>2. Inv /\ [Next]_vars
      => [status # "IDLE" /\ status' = "IDLE" /\ air /\ armedSeen'
          => mode = "manual"]_vars
  BY <1>1
<1> QED
  BY <1>2, Invariance, PTL DEF Spec, IdleIsDown
=============================================================================
