------------------------------- MODULE Flight -------------------------------
(***************************************************************************)
(* One drone: the mission task that flies it (MissionExecutor.execute), the *)
(* commands and telemetry streams of its agent, and the handlers that stop *)
(* a mission from outside: an obstacle alert, the disconnection of the     *)
(* drone, the shutdown of the backend.                                     *)
(*                                                                         *)
(* The flight controller, its latch and the parcel are external.  A MAVSDK *)
(* command is one step: it is carried out, refused, or carried out though  *)
(* its answer is lost and it raises.  A stream delivers what the           *)
(* controller reports when it is delivered.  Missions are flown one after  *)
(* another; which drone gets which order is the question of Dispatch.      *)
(***************************************************************************)
EXTENDS Integers

CONSTANTS
    Attempts      \* how often arm is tried (5)

ASSUME FlightAssumption == Attempts \in Nat \ {0}

VARIABLES
    mode,      \* flight mode of the controller; "pilot" and "manual" are not set
               \* by the program: those the agent knows as flying, and MANUAL
               \* with all it does not know
    armed,     \* its motors are armed
    air,       \* it is in the air
    place,     \* where the drone is
    latch,     \* the payload servo
    parcel,    \* "aboard", "none", or the place where the parcel came off
    status,    \* DroneState.status
    mission,   \* DroneState.mission_id is set
    armedSeen, \* DroneState.armed
    pc,        \* what the mission task does next, "none" without a task
    leg,       \* "out" to the block or "back" home
    try,       \* attempts to arm
    cancelled, \* a cancellation the task has not received
    told,      \* the order of the task was reported Delivered
    alert,     \* an obstacle alert waits for its RTL command
    closing,   \* what disconnect does next
    refused,   \* history: an RTL command failed since the last takeoff
    cut,       \* history: a failure handler was interrupted since then
    diverted,  \* history: RTL, or a mode of nobody here, was set during this mission
    stuck      \* history: a servo command of this drone failed, or a
               \* mission ended between the two

fcu    == <<mode, armed, air, place>>
load   == <<latch, parcel>>
agent  == <<status, mission, armedSeen>>
task   == <<pc, leg, try, told>>
faults == <<refused, cut, diverted, stuck>>
vars   == <<fcu, load, agent, task, cancelled, alert, closing, faults>>

\* The modes in which somebody else flies the drone.
Foreign == {"pilot", "manual"}

\* The statuses that disconnect_all and shutdown take for "in flight".
InFlight == {"IN_FLIGHT", "RETURNING_HOME", "LANDING"}

\* The steps of execute, and of _handle_mission_failure after it.
Handling == {"rtl", "report"}
Flying == {"start", "reserve", "ready", "arm", "takeoff", "climb", "confirm", "goto",
           "fly", "yaw", "land", "descend", "disarm", "open", "close", "tell", "finish"}

Init ==
    /\ mode = "ready" /\ armed = FALSE /\ air = FALSE /\ place = "home"
    /\ latch = "closed" /\ parcel = "none"
    /\ status = "IDLE" /\ mission = FALSE /\ armedSeen = FALSE
    /\ pc = "none" /\ leg = "out" /\ try = 1 /\ told = FALSE
    /\ cancelled = FALSE /\ alert = FALSE /\ closing = "none"
    /\ refused = FALSE /\ cut = FALSE /\ diverted = FALSE /\ stuck = FALSE

-----------------------------------------------------------------------------
(* The flight controller (external).                                       *)

Climbs ==
    /\ mode = "takeoff" /\ armed
    /\ air' = TRUE
    /\ UNCHANGED <<mode, armed, place, load, agent, task, cancelled, alert, closing, faults>>

\* It flies; the drone that returns comes down where it was armed or at home, and
\* one that somebody else flies anywhere.
Moves ==
    /\ air
    /\ \/ /\ mode \in {"block", "home"}
          /\ place # mode
          /\ place' = IF place = "between" THEN mode ELSE "between"
       \/ /\ mode \in {"rtl"} \cup Foreign
          /\ place' \in {"between", "home", "block"}
    /\ place' # place
    /\ UNCHANGED <<mode, armed, air, load, agent, task, cancelled, alert, closing, faults>>

\* It comes down and disarms its motors by itself, at once or later.
TouchesDown ==
    /\ air
    /\ mode \in {"land"} \cup Foreign \/ (mode = "rtl" /\ place # "between")
    /\ air' = FALSE
    /\ armed' \in BOOLEAN
    /\ UNCHANGED <<mode, place, load, agent, task, cancelled, alert, closing, faults>>

SettlesDown ==
    /\ ~air
    /\ mode # "takeoff"
    /\ armed' = FALSE
    /\ mode' = "ready"
    /\ <<mode, armed>> # <<"ready", FALSE>>
    /\ UNCHANGED <<air, place, load, agent, task, cancelled, alert, closing, faults>>

\* A failsafe of its own (low battery, fence, lost link), or a pilot who takes
\* over by remote control.
Failsafe ==
    /\ air
    /\ mode' \in ({"rtl"} \cup Foreign) \ {mode}
    /\ diverted' = (diverted \/ pc # "none")
    /\ UNCHANGED <<armed, air, place, load, agent, task, cancelled, alert, closing, refused, cut, stuck>>

-----------------------------------------------------------------------------
(* Telemetry: the streams run until disconnect stops them.                 *)

Streams == closing \in {"none", "rtl", "streams"}

_stream_armed ==
    /\ Streams
    /\ armedSeen' = armed
    /\ UNCHANGED <<fcu, load, status, mission, task, cancelled, alert, closing, faults>>

\* _FLIGHT_MODE_STATUS_MAP, which has MANUAL as "IDLE", and "IDLE" for the rest.
StatusOf(m) ==
    CASE m = "ready" -> "IDLE"
      [] m \in {"takeoff", "block", "home", "pilot"} -> "IN_FLIGHT"
      [] m = "manual" -> "IDLE"
      [] m = "rtl" -> "RETURNING_HOME"
      [] m = "land" -> "LANDING"

_task_telemetry_flight_mode ==
    /\ Streams
    /\ ~mission
    /\ status' = IF armedSeen THEN StatusOf(mode) ELSE "IDLE"
    /\ UNCHANGED <<fcu, load, mission, armedSeen, task, cancelled, alert, closing, faults>>

\* Nothing was heard for 15 s; the checker stops first in a shutdown.
check_stale_drones ==
    /\ closing = "none"
    /\ status' = "OFFLINE"
    /\ UNCHANGED <<fcu, load, mission, armedSeen, task, cancelled, alert, closing, faults>>

-----------------------------------------------------------------------------
(* The mission.                                                            *)

\* A task takes its next step, in an event loop that delivers a cancellation
\* before anything else.
At(p) == pc = p /\ ~cancelled

\* Mutant of Raises: the drone goes on as if it were on the mission.
RaisesTracked ==
    /\ pc' = "rtl"
    /\ status' = "FAILED"
    /\ stuck' = (stuck \/ pc \in {"open", "close"})
    /\ UNCHANGED mission

\* execute raises at some await: the handler begins in the same turn.
Raises ==
    /\ pc' = "rtl"
    /\ status' = "FAILED"
    /\ mission' = FALSE
    /\ stuck' = (stuck \/ pc \in {"open", "close"})

\* The task goes on to step p.
On(p) ==
    /\ pc' = p
    /\ UNCHANGED <<status, mission, stuck>>

\* launch_mission: a drone called IDLE gets a task, wherever it is.  The order's
\* parcel is put on a drone that stands at home with its latch closed.  A command
\* to the drone is answered before it gets its next order.
Launch ==
    /\ pc = "none" /\ closing = "none" /\ ~alert
    /\ status = "IDLE"
    /\ pc' = "start" /\ leg' = "out" /\ told' = FALSE
    /\ parcel' = IF ~air /\ place = "home" /\ latch = "closed" THEN "aboard" ELSE "none"
    /\ diverted' = FALSE
    /\ UNCHANGED <<fcu, latch, agent, try, cancelled, alert, closing, refused, cut, stuck>>

Starts ==
    /\ At("start")
    /\ mission' = TRUE
    /\ pc' = "reserve"
    /\ UNCHANGED <<fcu, load, status, armedSeen, leg, try, told, cancelled, alert, closing, faults>>

\* Zone and pad are reserved; both calls never raise.
Reserved ==
    /\ At("reserve")
    /\ status' = "IN_FLIGHT"
    /\ pc' = "ready"
    /\ UNCHANGED <<fcu, load, mission, armedSeen, leg, try, told, cancelled, alert, closing, faults>>

\* arm_and_takeoff: a mode to arm in is seen, or 15 s pass.
Ready ==
    /\ At("ready")
    /\ pc' = "arm" /\ try' = 1
    /\ UNCHANGED <<fcu, load, agent, leg, told, cancelled, alert, closing, faults>>

Arm ==
    /\ At("arm")
    /\ \/ /\ armed' = TRUE
          /\ On("takeoff") /\ try' = 1
       \/ /\ armed' \in {armed, TRUE}
          /\ IF try < Attempts
             THEN try' = try + 1 /\ On("arm")
             ELSE Raises /\ try' = 1
    /\ UNCHANGED <<mode, air, place, load, armedSeen, leg, told, cancelled, alert, closing, refused, cut, diverted>>

Takeoff ==
    /\ At("takeoff")
    /\ \/ /\ armed
          /\ mode' = "takeoff" /\ refused' = FALSE /\ cut' = FALSE
          /\ On("climb") \/ Raises
       \/ Raises /\ UNCHANGED <<mode, refused, cut>>
    /\ UNCHANGED <<armed, air, place, load, armedSeen, leg, try, told, cancelled, alert, closing, diverted>>

\* 95 % of the altitude: seen in any mode, and waited for without a deadline.
Climbed ==
    /\ At("climb")
    /\ air
    /\ pc' = IF leg = "out" THEN "goto" ELSE "confirm"
    /\ UNCHANGED <<fcu, load, agent, leg, try, told, cancelled, alert, closing, faults>>

Target == IF leg = "out" THEN "block" ELSE "home"

\* On the way back the zone is given up first; the call never raises.
Confirmed ==
    /\ At("confirm")
    /\ pc' = "goto"
    /\ status' = "RETURNING_HOME"
    /\ UNCHANGED <<fcu, load, mission, armedSeen, leg, try, told, cancelled, alert, closing, faults>>

goto_location ==
    /\ At("goto")
    /\ \/ mode' = (IF air THEN Target ELSE mode) /\ (On("fly") \/ Raises)
       \/ Raises /\ UNCHANGED mode
    /\ UNCHANGED <<armed, air, place, load, armedSeen, leg, try, told, cancelled, alert, closing, refused, cut, diverted>>

\* Within 5 m of the target, whatever the altitude and the mode; no deadline.
Arrived ==
    /\ At("fly")
    /\ place = Target
    /\ pc' = IF leg = "out" THEN "land" ELSE "yaw"
    /\ status' = IF leg = "out" THEN "LANDING" ELSE status
    /\ UNCHANGED <<fcu, load, mission, armedSeen, leg, try, told, cancelled, alert, closing, faults>>

\* A goto_location where the drone is; its errors are swallowed.
yaw_north ==
    /\ At("yaw")
    /\ mode' \in {mode, IF air THEN "home" ELSE mode}
    /\ pc' = "land"
    /\ status' = "LANDING"
    /\ UNCHANGED <<armed, air, place, load, mission, armedSeen, leg, try, told, cancelled, alert, closing, faults>>

Land ==
    /\ At("land")
    /\ \/ mode' = (IF air THEN "land" ELSE mode) /\ (On("descend") \/ Raises)
       \/ Raises /\ UNCHANGED mode
    /\ UNCHANGED <<armed, air, place, load, armedSeen, leg, try, told, cancelled, alert, closing, refused, cut, diverted>>

\* Mutant of Landed: the first in_air value is taken for the landing.
LandedAtOnce ==
    /\ At("descend")
    /\ pc' = "disarm"
    /\ UNCHANGED <<fcu, load, agent, leg, try, told, cancelled, alert, closing, faults>>

Landed ==
    /\ At("descend")
    /\ ~air
    /\ pc' = "disarm"
    /\ UNCHANGED <<fcu, load, agent, leg, try, told, cancelled, alert, closing, faults>>

\* disarm_and_wait swallows errors; a controller in the air refuses.
disarm_and_wait ==
    /\ At("disarm")
    /\ armed' \in {armed, air /\ armed}
    /\ pc' = IF leg = "out" THEN "open" ELSE "finish"
    /\ UNCHANGED <<mode, air, place, load, agent, leg, try, told, cancelled, alert, closing, faults>>

Opened ==
    /\ latch' = "open"
    /\ parcel' = IF parcel # "aboard" THEN parcel ELSE IF air THEN "between" ELSE place

\* release_payload: an error of either command ends it, and is swallowed.
Open ==
    /\ At("open")
    /\ \/ Opened /\ pc' = "close" /\ UNCHANGED stuck
       \/ (Opened \/ UNCHANGED load) /\ pc' = "tell" /\ stuck' = TRUE
    /\ UNCHANGED <<fcu, agent, leg, try, told, cancelled, alert, closing, refused, cut, diverted>>

\* Mutant of Close: the servo is not driven back.
CloseNot ==
    /\ At("close")
    /\ pc' = "tell"
    /\ UNCHANGED <<fcu, load, agent, leg, try, told, cancelled, alert, closing, faults>>

Close ==
    /\ At("close")
    /\ pc' = "tell"
    /\ \/ latch' = "closed" /\ UNCHANGED stuck
       \/ latch' \in {latch, "closed"} /\ stuck' = TRUE
    /\ UNCHANGED <<fcu, parcel, agent, leg, try, told, cancelled, alert, closing, refused, cut, diverted>>

\* _notify_delivered and _record_delivery never raise.
Tell ==
    /\ At("tell")
    /\ told' = TRUE
    /\ status' = "IN_FLIGHT"
    /\ leg' = "back"
    /\ pc' = "ready"
    /\ UNCHANGED <<fcu, load, mission, armedSeen, try, cancelled, alert, closing, faults>>

\* The landing and the flight time are recorded; the calls never raise.
Finish ==
    /\ At("finish")
    /\ status' = "IDLE"
    /\ mission' = FALSE
    /\ pc' = "none"
    /\ UNCHANGED <<fcu, load, armedSeen, leg, try, told, cancelled, alert, closing, faults>>

-----------------------------------------------------------------------------
(* What ends a mission early.                                              *)

\* RTL is carried out; on the ground it only changes the mode.
Returns ==
    /\ mode' = "rtl"
    /\ diverted' = (diverted \/ (pc \in Flying /\ ~cancelled))

\* emergency_rtl: the status follows a command that was answered; it never raises.
emergency_rtl ==
    /\ \/ Returns /\ status' = "RETURNING_HOME" /\ UNCHANGED refused
       \/ Returns /\ UNCHANGED <<status, refused>>
       \/ refused' = TRUE /\ UNCHANGED <<mode, status, diverted>>
    /\ UNCHANGED <<armed, air, place, load, mission, armedSeen>>

\* CancelledError reaches the task.  Before its first step the task ends
\* without the handler; a second cancellation ends the handler.
Interrupted ==
    /\ cancelled
    /\ cancelled' = FALSE
    /\ \/ /\ pc \in Flying \ {"start"}
          /\ Raises
          /\ UNCHANGED cut
       \/ /\ pc \in {"start"} \cup Handling
          /\ On("none")
          /\ cut' = (cut \/ pc = "rtl")
    /\ UNCHANGED <<fcu, load, armedSeen, leg, try, told, alert, closing, refused, diverted>>

\* Mutant of HandlerReturns: the handler leaves the drone to its failsafes.
HandlerStays ==
    /\ At("rtl")
    /\ pc' = "report"
    /\ UNCHANGED <<fcu, load, agent, leg, try, told, cancelled, alert, closing, faults>>

\* _handle_mission_failure sends the drone home ...
HandlerReturns ==
    /\ At("rtl")
    /\ emergency_rtl
    /\ pc' = "report"
    /\ UNCHANGED <<leg, try, told, cancelled, alert, closing, cut, stuck>>

\* ... and gives up the zone and reports the order Failed.
HandlerReports ==
    /\ At("report")
    /\ pc' = "none"
    /\ UNCHANGED <<fcu, load, agent, leg, try, told, cancelled, alert, closing, faults>>

\* obstacle_alert cancels the task, and in the same turn begins its own RTL.
AlertBegins ==
    /\ ~alert /\ closing # "done"
    /\ alert' = TRUE
    /\ cancelled' = (cancelled \/ pc # "none")
    /\ UNCHANGED <<fcu, load, agent, task, closing, faults>>

AlertReturns ==
    /\ alert
    /\ emergency_rtl
    /\ alert' = FALSE
    /\ UNCHANGED <<task, cancelled, closing, cut, stuck>>

\* disconnect_all and shutdown: drones in flight are sent home first, and the
\* mission goes on meanwhile; remove_drone disconnects without.
CloseBegins ==
    /\ closing = "none"
    /\ \/ closing' = "streams"
       \/ status \in InFlight /\ closing' = "rtl"
    /\ UNCHANGED <<fcu, load, agent, task, cancelled, alert, faults>>

CloseReturns ==
    /\ closing = "rtl"
    /\ emergency_rtl
    /\ closing' = "streams"
    /\ UNCHANGED <<task, cancelled, alert, cut, stuck>>

\* disconnect: the streams stop, then the mission task is cancelled, ...
CloseCancels ==
    /\ closing = "streams"
    /\ closing' = "wait"
    /\ cancelled' = (pc # "none")
    /\ UNCHANGED <<fcu, load, agent, task, alert, faults>>

\* ... and waited for.
CloseEnds ==
    /\ closing = "wait"
    /\ pc = "none"
    /\ status' = "OFFLINE"
    /\ closing' = "done"
    /\ UNCHANGED <<fcu, load, mission, armedSeen, task, cancelled, alert, faults>>

\* add_drone: a new agent, with a state and streams of its own, calls the drone
\* IDLE wherever it is.  An RTL of the old agent that is still waiting is lost.
connect ==
    /\ closing = "done"
    /\ closing' = "none"
    /\ status' = "IDLE" /\ armedSeen' = FALSE
    /\ alert' = FALSE
    /\ UNCHANGED <<fcu, load, mission, task, cancelled, faults>>

-----------------------------------------------------------------------------
Controller == Climbs \/ Moves \/ TouchesDown \/ SettlesDown \/ Failsafe

execute ==
    \/ Launch \/ Starts \/ Reserved \/ Ready \/ Arm \/ Takeoff \/ Climbed \/ Confirmed
    \/ goto_location \/ Arrived \/ yaw_north \/ Land \/ Landed \/ disarm_and_wait
    \/ Open \/ Close \/ Tell \/ Finish

Next ==
    \/ Controller
    \/ _stream_armed \/ _task_telemetry_flight_mode \/ check_stale_drones
    \/ execute
    \/ Interrupted \/ HandlerReturns \/ HandlerReports
    \/ AlertBegins \/ AlertReturns
    \/ CloseBegins \/ CloseReturns \/ CloseCancels \/ CloseEnds \/ connect

Spec == Init /\ [][Next]_vars

-----------------------------------------------------------------------------
(* Properties.                                                             *)

\* Every variable has its type, and a mission task that is past its first step
\* and not yet in its handler is what mission_id says.
TypeOK ==
    /\ mode \in {"ready", "takeoff", "block", "home", "land", "rtl"} \cup Foreign
    /\ armed \in BOOLEAN /\ air \in BOOLEAN
    /\ place \in {"home", "block", "between"}
    /\ latch \in {"open", "closed"}
    /\ parcel \in {"aboard", "none", "home", "block", "between"}
    /\ status \in {"IDLE", "FAILED", "OFFLINE"} \cup InFlight
    /\ mission \in BOOLEAN /\ armedSeen \in BOOLEAN
    /\ mission <=> pc \in Flying \ {"start"}
    /\ pc \in {"none"} \cup Flying \cup Handling
    /\ leg \in {"out", "back"} /\ try \in 1..Attempts /\ told \in BOOLEAN
    /\ cancelled \in BOOLEAN /\ alert \in BOOLEAN
    /\ closing \in {"none", "rtl", "streams", "wait", "done"}
    /\ refused \in BOOLEAN /\ cut \in BOOLEAN /\ diverted \in BOOLEAN /\ stuck \in BOOLEAN

\* However a mission ends, and whatever status the registry had when it was
\* shut down, a drone that is left in the air is on its way home, unless the
\* controller refused to return, the failure handler was itself cancelled, or
\* somebody else has taken over since.
AbandonedComesBack ==
    pc = "none" /\ air /\ ~refused /\ ~cut => mode \in {"rtl"} \cup Foreign

\* No order is reported Delivered with its parcel aboard, no parcel comes off
\* anywhere but on the ground of the block, and no drone flies with its latch
\* open: unless a servo command failed or a mission ended between the two, or
\* RTL or a mode of a pilot was set while the mission was going on.
ParcelTrue ==
    /\ told /\ parcel = "aboard" => stuck
    /\ parcel \in {"home", "between"} => diverted
    /\ air /\ latch = "open" => stuck

\* An agent that knows the motors to be armed offers a drone in the air for
\* orders in one case only, that the controller is in MANUAL or in a mode the
\* agent does not know: neither the end of a mission nor its failure, an alert or
\* a disconnection does.
IdleIsDown ==
    [][status # "IDLE" /\ status' = "IDLE" /\ air /\ armedSeen'
       => mode = "manual"]_vars
=============================================================================
