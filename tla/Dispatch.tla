------------------------------ MODULE Dispatch ------------------------------
(***************************************************************************)
(* From an accepted launch to the end of its mission, as three services    *)
(* see it: the launch wrapper and the mission coroutine of the drone       *)
(* backend (main.py, mission_executor.py), the assign-drone and            *)
(* reserve-landing handlers of Fleet AI (main.py, landing.py), and the     *)
(* Redis key delivery_lock:<zone> they share.  One step is what runs       *)
(* between two awaits.                                                     *)
(*                                                                         *)
(* The handlers of Fleet AI outlive their callers: the backend's HTTP      *)
(* client gives up after 10 s while acquire_delivery_lock polls for 120 s, *)
(* and a cancelled mission drops its request.  Such a handler is an        *)
(* "orphan": it runs on, and takes the lock for a drone nobody waits for.  *)
(***************************************************************************)
EXTENDS Integers, FiniteSets

CONSTANTS
    Order,           \* one element per accepted POST /api/launch
    Drone,
    Block,           \* block names as the backend writes them ("SR_Block")
    Key,             \* zone names as the lock keys spell them ("Sr Block")
    KeyOf,           \* landing._normalize_zone on the block names
    BlockOf,         \* the block nearest to an order's coordinates
    None,
    LeaseCanExpire,  \* FALSE: every mission is shorter than the 180 s lease
    PromptRetries,   \* TRUE: a mission asks again (10 s + 5 s) within a lease
    LinkCanDrop,     \* FALSE: no drone is marked OFFLINE
    PadsContended,   \* FALSE: assign-drone never loses the race for a home pad
    MaxOrphans,      \* bound on handlers that outlived their caller
    MaxRestarts      \* bound on restarts of Fleet AI

ASSUME NamesAssumption ==
    /\ KeyOf \in [Block -> Key]
    /\ BlockOf \in [Order -> Block]
    /\ None \notin Drone \cup Order
ASSUME BoundsAssumption ==
    /\ LeaseCanExpire \in BOOLEAN
    /\ PromptRetries \in BOOLEAN
    /\ LinkCanDrop \in BOOLEAN
    /\ PadsContended \in BOOLEAN
    /\ MaxOrphans \in Nat
    /\ MaxRestarts \in Nat

VARIABLES
    holder,     \* Redis delivery_lock:<key>: the drone named in it, or None
    pc,         \* where the wrapper or the mission of an order is
    at,         \* where the Fleet AI handler working for an order is
    drone,      \* the drone that handler or mission is about
    orphans,    \* handlers nobody waits for any more
    idle,       \* drones whose agent is online with status "IDLE"
    seen,       \* drones Fleet AI's cached telemetry shows as "IDLE"
    missionId,  \* agent.state.mission_id
    task,       \* agent.mission_task
    lost,       \* history: cleared orders whose lock was removed by another
    restarts

vars == <<holder, pc, at, drone, orphans, idle, seen, missionId, task, lost,
          restarts>>

-----------------------------------------------------------------------------
(* The stages of an order, and of a handler.                               *)

Calling  == {"assign", "reassign", "reserve"}
Granted  == {"home", "out", "zone", "leave"}
Mission  == {"start", "reserve", "back"} \cup Granted
Aborting == {"rtlZone", "rtl", "release"}
Ended    == {"done", "failed"}
Stage    == {"new", "launch"} \cup Calling \cup Mission \cup Aborting \cup Ended

Handling == {"check", "refresh", "claim", "poll", "granted", "denied"}

\* A handler without a caller; pads: it may still lose the race for a home pad.
Orphan   == [pads : BOOLEAN, drone : Drone, key : Key, at : Handling]

Zone(o) == KeyOf[BlockOf[o]]

\* A mission is cleared from the moment its reserve-landing handler has seen
\* or made the lock its own until the mission leaves the block or aborts.
Cleared == {o \in Order : \/ pc[o] \in Granted
                          \/ pc[o] = "reserve" /\ at[o] \in {"refresh", "granted"}}
ClearedFor(k) == {o \in Cleared : Zone(o) = k}

\* A mission, or its failure handler, is at one of the stages S with drone d.
Busy(d, S) == \E o \in Order : drone[o] = d /\ pc[o] \in S

Init ==
    /\ holder = [k \in Key |-> None]
    /\ pc = [o \in Order |-> "new"]
    /\ at = [o \in Order |-> "none"]
    /\ drone = [o \in Order |-> None]
    /\ orphans = {}
    /\ idle = Drone
    /\ seen = {}
    /\ missionId = [d \in Drone |-> None]
    /\ task = [d \in Drone |-> None]
    /\ lost = {}
    /\ restarts = 0

-----------------------------------------------------------------------------
(* landing.py: the lock of one delivery zone.                              *)

\* Mutant of AcquireStep: SET without NX.
AcquireOverwrites(d, k, here, next) ==
    \/ /\ here = "check"
       /\ next = IF holder[k] = d THEN "refresh" ELSE "claim"
       /\ UNCHANGED holder
    \/ /\ here = "refresh" /\ next = "granted" /\ UNCHANGED holder
    \/ /\ here = "claim" /\ next = "granted"
       /\ holder' = [holder EXCEPT ![k] = d]

\* Mutant of AcquireStep: the re-entrancy check asks whether the zone is
\* locked, not by whom.
AcquireAnyHolder(d, k, here, next) ==
    \/ /\ here = "check"
       /\ next = IF holder[k] # None THEN "refresh" ELSE "claim"
       /\ UNCHANGED holder
    \/ /\ here = "refresh" /\ next = "granted" /\ UNCHANGED holder
    \/ /\ here = "claim" /\ holder[k] = None /\ next = "granted"
       /\ holder' = [holder EXCEPT ![k] = d]
    \/ /\ here = "claim" /\ holder[k] # None /\ next = "denied"
       /\ UNCHANGED holder

\* Mutant of AcquireStep: the deadline of the polling loop answers True.
AcquireFailsOpen(d, k, here, next) ==
    \/ /\ here = "check" /\ next = "claim" /\ UNCHANGED holder
    \/ /\ here \in {"claim", "poll"} /\ holder[k] = None /\ next = "granted"
       /\ holder' = [holder EXCEPT ![k] = d]
    \/ /\ here = "claim" /\ holder[k] # None /\ next = "poll"
       /\ UNCHANGED holder
    \/ /\ here = "poll" /\ next = "granted" /\ UNCHANGED holder

\* Mutant of AcquireStep: no re-entrancy check before SET NX.
AcquireNotReentrant(d, k, here, next) ==
    \/ /\ here = "check" /\ next = "claim" /\ UNCHANGED holder
    \/ /\ here \in {"claim", "poll"} /\ holder[k] = None /\ next = "granted"
       /\ holder' = [holder EXCEPT ![k] = d]
    \/ /\ here = "claim" /\ holder[k] # None /\ next = "poll"
       /\ UNCHANGED holder
    \/ /\ here = "poll" /\ next = "denied" /\ UNCHANGED holder

\* One Redis command of acquire_delivery_lock for drone d on key k: GET, then
\* EXPIRE if the key names d (whoever it names by then), else SET NX, then
\* SET NX again every 5 s until the deadline.
AcquireStep(d, k, here, next) ==
    \/ /\ here = "check"
       /\ next = IF holder[k] = d THEN "refresh" ELSE "claim"
       /\ UNCHANGED holder
    \/ /\ here = "refresh"
       /\ next = "granted"
       /\ UNCHANGED holder
    \/ /\ here \in {"claim", "poll"}
       /\ holder[k] = None
       /\ holder' = [holder EXCEPT ![k] = d]
       /\ next = "granted"
    \/ /\ here = "claim"
       /\ holder[k] # None
       /\ next = "poll"
       /\ UNCHANGED holder
    \/ /\ here = "poll"
       /\ next = "denied"
       /\ UNCHANGED holder

\* The key of zone k is gone.  Self let go of it; whoever else was relying on
\* it has lost it.
Removed(k, Self) ==
    /\ holder' = [holder EXCEPT ![k] = None]
    /\ lost' = (lost \cup ClearedFor(k)) \ Self

\* release_delivery_lock deletes the key whoever it names.
Release(k, Self) == Removed(k, Self)

\* Mutant of LeaseExpires: the key is set without a TTL.
NeverExpires(k) == FALSE /\ UNCHANGED vars

\* Redis drops the key when its 180 s are over.  A mission that is asking for
\* the zone its drone holds renews the lease before that, if it is prompt.
LeaseExpires(k) ==
    /\ LeaseCanExpire
    /\ holder[k] # None
    /\ PromptRetries => ~\E o \in Order : /\ pc[o] = "reserve" /\ Zone(o) = k
                                         /\ drone[o] = holder[k]
    /\ Removed(k, {})
    /\ UNCHANGED <<pc, at, drone, orphans, idle, seen, missionId, task, restarts>>

-----------------------------------------------------------------------------
(* The launch wrapper of the backend and the assign-drone handler.         *)

Launch(o) ==
    /\ pc[o] = "new"
    /\ pc' = [pc EXCEPT ![o] = "launch"]
    /\ UNCHANGED <<holder, at, drone, orphans, idle, seen, missionId, task,
                   lost, restarts>>

\* GET /zone-status lists zones by key; the wrapper looks for its block name.
LooksBusy(b) == b \in Key /\ holder[b] # None

ZoneCheck(o) ==
    /\ pc[o] = "launch"
    /\ ~LooksBusy(BlockOf[o])
    /\ pc' = [pc EXCEPT ![o] = "assign"]
    /\ UNCHANGED <<holder, at, drone, orphans, idle, seen, missionId, task,
                   lost, restarts>>

\* Mutant of RequestAssign: it goes on with whatever the scheduler returned.
RequestAssignUnchecked(o) ==
    /\ pc[o] = "assign" /\ at[o] = "none"
    /\ \E d \in seen \cup {None} : drone' = [drone EXCEPT ![o] = d]
    /\ at' = [at EXCEPT ![o] = "check"]
    /\ UNCHANGED <<holder, pc, orphans, idle, seen, missionId, task, lost,
                   restarts>>

\* POST /assign-drone: the scheduler picks an eligible drone from the cache.
RequestAssign(o) ==
    /\ pc[o] = "assign" /\ at[o] = "none"
    /\ \E d \in seen : drone' = [drone EXCEPT ![o] = d]
    /\ at' = [at EXCEPT ![o] = "check"]
    /\ UNCHANGED <<holder, pc, orphans, idle, seen, missionId, task, lost,
                   restarts>>

\* No drone passes the scheduler (battery, wind, signal, cooldown and home pad
\* count besides the status): 503, and the wrapper starts over.
NoEligibleDrone(o) ==
    /\ pc[o] = "assign" /\ at[o] = "none"
    /\ pc' = [pc EXCEPT ![o] = "launch"]
    /\ UNCHANGED <<holder, at, drone, orphans, idle, seen, missionId, task,
                   lost, restarts>>

\* The handler working for o (assign-drone or reserve-landing) runs on.
Acquire(o) ==
    /\ at[o] \in Handling
    /\ \E next \in Handling :
          /\ AcquireStep(drone[o], Zone(o), at[o], next)
          /\ at' = [at EXCEPT ![o] = next]
    /\ UNCHANGED <<pc, drone, orphans, idle, seen, missionId, task, lost,
                   restarts>>

\* The free home pad assign-drone had found was taken meanwhile: it deletes
\* the zone lock, scores again over the snapshot it took on arrival, and
\* acquires the zone for the new choice; or finds nobody and answers 503.
PadRaceLost(o) ==
    /\ PadsContended
    /\ pc[o] = "assign" /\ at[o] = "granted"
    /\ Release(Zone(o), {})
    /\ \/ /\ pc' = [pc EXCEPT ![o] = "reassign"]
          /\ \E d \in Drone : drone' = [drone EXCEPT ![o] = d]
          /\ at' = [at EXCEPT ![o] = "check"]
       \/ /\ at' = [at EXCEPT ![o] = "denied"]
          /\ UNCHANGED <<pc, drone>>
    /\ UNCHANGED <<orphans, idle, seen, missionId, task, restarts>>

\* assign-drone raises after it has the zone (no location cache, Redis down):
\* the lock stays behind.
AssignRaises(o) ==
    /\ pc[o] \in {"assign", "reassign"} /\ at[o] = "granted"
    /\ at' = [at EXCEPT ![o] = "denied"]
    /\ UNCHANGED <<holder, pc, drone, orphans, idle, seen, missionId, task,
                   lost, restarts>>

\* What a caller does when a call brought nothing: the mission asks for the
\* zone again, the wrapper goes back to the top of its loop.
Retry(o) ==
    IF pc[o] = "reserve"
    THEN UNCHANGED <<pc, drone>>
    ELSE /\ pc' = [pc EXCEPT ![o] = "launch"]
         /\ drone' = [drone EXCEPT ![o] = None]

\* 200 with a drone: if its agent is online and IDLE the wrapper starts the
\* mission task on it, whatever task was there; if not it starts over.
Assigned(o) ==
    /\ pc[o] \in {"assign", "reassign"} /\ at[o] = "granted"
    /\ at' = [at EXCEPT ![o] = "none"]
    /\ \/ /\ drone[o] \in idle
          /\ pc' = [pc EXCEPT ![o] = "start"]
          /\ task' = [task EXCEPT ![drone[o]] = o]
          /\ UNCHANGED drone
       \/ /\ drone[o] \notin idle
          /\ Retry(o)
          /\ UNCHANGED task
    /\ UNCHANGED <<holder, orphans, idle, seen, missionId, lost, restarts>>

Refused(o) ==
    /\ at[o] = "denied"
    /\ at' = [at EXCEPT ![o] = "none"]
    /\ Retry(o)
    /\ UNCHANGED <<holder, orphans, idle, seen, missionId, task, lost, restarts>>

\* The handlers of S that can still do something: one that has its answer, and
\* no pad to lose, only returns it, to nobody.
Unanswered(S) ==
    {g \in S : IF g.pads THEN g.at # "denied" ELSE g.at \notin {"granted", "denied"}}

\* The handler of o goes on without o.
Abandon(o) ==
    /\ Cardinality(orphans) < MaxOrphans
    /\ orphans' = orphans \cup
          Unanswered({[pads |-> PadsContended /\ pc[o] = "assign",
                       drone |-> drone[o], key |-> Zone(o), at |-> at[o]]})
    /\ at' = [at EXCEPT ![o] = "none"]

\* The HTTP client's 10 s are over before the handler has answered.
ClientTimeout(o) ==
    /\ at[o] \in {"poll", "granted"}
    /\ Abandon(o)
    /\ Retry(o)
    /\ UNCHANGED <<holder, idle, seen, missionId, task, lost, restarts>>

-----------------------------------------------------------------------------
(* Handlers nobody waits for.  Two that come to the same point for the same *)
(* drone and zone count as one: part of the bound MaxOrphans.              *)

OrphanBecomes(g, S) == orphans' = (orphans \ {g}) \cup Unanswered(S)

OrphanAcquires(g) ==
    /\ \E next \in Handling :
          /\ AcquireStep(g.drone, g.key, g.at, next)
          /\ OrphanBecomes(g, {[g EXCEPT !.at = next]})
    /\ UNCHANGED <<pc, at, drone, idle, seen, missionId, task, lost, restarts>>

OrphanEnds(g) ==
    /\ g.at = "granted"
    /\ OrphanBecomes(g, {})
    /\ UNCHANGED <<holder, pc, at, drone, idle, seen, missionId, task, lost,
                   restarts>>

OrphanPadRaceLost(g) ==
    /\ g.pads /\ g.at = "granted"
    /\ Release(g.key, {})
    /\ \/ OrphanBecomes(g, {})
       \/ \E d \in Drone :
             OrphanBecomes(g, {[g EXCEPT !.pads = FALSE, !.drone = d,
                                         !.at = "check"]})
    /\ UNCHANGED <<pc, at, drone, idle, seen, missionId, task, restarts>>

-----------------------------------------------------------------------------
(* MissionExecutor.execute.                                                *)

Begin(o) ==
    /\ pc[o] = "start"
    /\ pc' = [pc EXCEPT ![o] = "reserve"]
    /\ missionId' = [missionId EXCEPT ![drone[o]] = o]
    /\ UNCHANGED <<holder, at, drone, orphans, idle, seen, task, lost, restarts>>

RequestLanding(o) ==
    /\ pc[o] = "reserve" /\ at[o] = "none"
    /\ at' = [at EXCEPT ![o] = "check"]
    /\ lost' = lost \ {o}
    /\ UNCHANGED <<holder, pc, drone, orphans, idle, seen, missionId, task,
                   restarts>>

ClearedToLand(o) ==
    /\ pc[o] = "reserve" /\ at[o] = "granted"
    /\ at' = [at EXCEPT ![o] = "none"]
    /\ pc' = [pc EXCEPT ![o] = "home"]
    /\ UNCHANGED <<holder, drone, orphans, idle, seen, missionId, task, lost,
                   restarts>>

\* A flight step that ends with the agent's status other than IDLE.
Fly(o, from, to) ==
    /\ pc[o] = from
    /\ pc' = [pc EXCEPT ![o] = to]
    /\ idle' = idle \ {drone[o]}

\* The home pad is reserved (or HOME_1 taken as a fallback): IN_FLIGHT.
TakeOff(o) ==
    /\ Fly(o, "home", "out")
    /\ UNCHANGED <<holder, at, drone, orphans, seen, missionId, task, lost, restarts>>

\* Landed at the block and disarmed.
TouchDown(o) ==
    /\ Fly(o, "out", "zone")
    /\ UNCHANGED <<holder, at, drone, orphans, seen, missionId, task, lost, restarts>>

\* Payload released, order reported as delivered: arm and take off again.
Depart(o) ==
    /\ Fly(o, "zone", "leave")
    /\ UNCHANGED <<holder, at, drone, orphans, seen, missionId, task, lost, restarts>>

\* POST /landing/confirm deletes the key; a call that fails is only logged.
ConfirmOrMiss(k, Self) == \/ Release(k, Self)
                          \/ UNCHANGED holder /\ lost' = lost \ Self

Confirm(o) ==
    /\ Fly(o, "leave", "back")
    /\ ConfirmOrMiss(Zone(o), {o})
    /\ UNCHANGED <<at, drone, orphans, seen, missionId, task, restarts>>

\* The coroutine of o returns.  A task that is done counts as no task
\* (everybody who cancels one asks mission_task.done() first).
Return(o, how) ==
    /\ pc' = [pc EXCEPT ![o] = how]
    /\ drone' = [drone EXCEPT ![o] = None]
    /\ task' = [d \in Drone |-> IF task[d] = o THEN None ELSE task[d]]

Complete(o) ==
    /\ pc[o] = "back"
    /\ Return(o, "done")
    /\ idle' = idle \cup {drone[o]}
    /\ missionId' = [missionId EXCEPT ![drone[o]] = None]
    /\ UNCHANGED <<holder, at, orphans, seen, lost, restarts>>

-----------------------------------------------------------------------------
(* Failure and cancellation.                                               *)

\* delivery_block is set from the first step of execute until the zone has
\* been confirmed, so the handler releases the zone whether or not the
\* mission ever got it.
Aborts(o) ==
    /\ pc' = [pc EXCEPT ![o] = IF pc[o] = "back" THEN "rtl" ELSE "rtlZone"]
    /\ idle' = idle \ {drone[o]}
    /\ missionId' = [missionId EXCEPT ![drone[o]] = None]

\* Arming, flying or landing raises.
FlightError(o) ==
    /\ pc[o] \in {"out", "leave", "back"}
    /\ Aborts(o)
    /\ UNCHANGED <<holder, at, drone, orphans, seen, task, lost, restarts>>

\* An obstacle alert closer than 5 m, or a disconnect, cancels the task the
\* agent remembers.  A request the mission has open is dropped.
Cancel(o) ==
    /\ pc[o] \in Mission \ {"start"}
    /\ task[drone[o]] = o
    /\ Aborts(o)
    /\ IF at[o] \in Handling THEN Abandon(o) ELSE UNCHANGED <<at, orphans>>
    /\ UNCHANGED <<holder, drone, seen, task, lost, restarts>>

\* Cancelled before it ran, or inside its own failure handler: nothing more
\* of the coroutine runs.
CancelOutright(o) ==
    /\ pc[o] \in {"start"} \cup Aborting
    /\ task[drone[o]] = o
    /\ Return(o, "failed")
    /\ idle' = idle \ {drone[o]}
    /\ UNCHANGED <<holder, at, orphans, seen, missionId, lost, restarts>>

\* emergency_rtl has returned; it sets RETURNING_HOME only when it worked.
AbortRtl(o) ==
    /\ \/ /\ pc[o] = "rtlZone"
          /\ pc' = [pc EXCEPT ![o] = "release"]
          /\ UNCHANGED <<drone, task>>
       \/ /\ pc[o] = "rtl"
          /\ Return(o, "failed")
    /\ idle' \in {idle, idle \ {drone[o]}}
    /\ UNCHANGED <<holder, at, orphans, seen, missionId, lost, restarts>>

AbortRelease(o) ==
    /\ pc[o] = "release"
    /\ ConfirmOrMiss(Zone(o), {o})
    /\ Return(o, "failed")
    /\ UNCHANGED <<at, orphans, idle, seen, missionId, restarts>>

-----------------------------------------------------------------------------
(* Telemetry, and restarts of Fleet AI.                                    *)

\* The flight-mode stream sets the status only when no mission is recorded:
\* IDLE for a drone that is not armed.  A mission that aborts may have done so
\* on the ground or in the air.
Telemetry(d) ==
    /\ missionId[d] = None
    /\ \/ /\ ~Busy(d, {"out", "leave", "back"})
          /\ idle' = idle \cup {d}
       \/ /\ Busy(d, {"out", "leave", "back"} \cup Aborting)
          /\ idle' = idle \ {d}
    /\ UNCHANGED <<holder, pc, at, drone, orphans, seen, missionId, task, lost,
                   restarts>>

\* The stale checker marks the drone OFFLINE, mission or not.
LinkStale(d) ==
    /\ LinkCanDrop
    /\ idle' = idle \ {d}
    /\ UNCHANGED <<holder, pc, at, drone, orphans, seen, missionId, task, lost,
                   restarts>>

\* Fleet AI refreshes its cached state of d.
Sync(d) ==
    /\ seen' = IF d \in idle THEN seen \cup {d} ELSE seen \ {d}
    /\ UNCHANGED <<holder, pc, at, drone, orphans, idle, missionId, task, lost,
                   restarts>>

\* Fleet AI restarts: its handlers die with it (the callers see an error),
\* the state cache is empty, and boot_pad_reconstruction deletes every
\* delivery lock unless no PostgreSQL is configured.
FleetRestart ==
    /\ restarts < MaxRestarts
    /\ restarts' = restarts + 1
    /\ at' = [o \in Order |-> IF at[o] = "none" THEN "none" ELSE "denied"]
    /\ orphans' = {}
    /\ seen' = {}
    /\ \/ /\ holder' = [k \in Key |-> None]
          /\ lost' = lost \cup Cleared
       \/ UNCHANGED <<holder, lost>>
    /\ UNCHANGED <<pc, drone, idle, missionId, task>>

-----------------------------------------------------------------------------
(* Properties.                                                             *)

\* Every variable keeps to its type.
TypeOK ==
    /\ holder \in [Key -> Drone \cup {None}]
    /\ pc \in [Order -> Stage]
    /\ at \in [Order -> Handling \cup {"none"}]
    /\ drone \in [Order -> Drone \cup {None}]
    /\ orphans \subseteq Orphan
    /\ idle \subseteq Drone
    /\ seen \subseteq Drone
    /\ missionId \in [Drone -> Order \cup {None}]
    /\ task \in [Drone -> Order \cup {None}]
    /\ lost \subseteq Order
    /\ restarts \in 0 .. MaxRestarts

\* A mission that was cleared for its block keeps the lock in its drone's name
\* until it leaves, unless somebody else removed the key: the check, SET NX
\* and polling of acquire_delivery_lock, its orphans and its retries never
\* take it away (landing.py, acquire_delivery_lock).
ClearanceBacked ==
    \A o \in Cleared \ lost : holder[Zone(o)] = drone[o]

\* Two drones are never cleared for one block at the same time unless one of
\* the clearances had lost its lock before: no other interleaving of launches,
\* handlers, orphans, aborts and restarts defeats the lock.
ZoneExclusive ==
    \A o, p \in Cleared \ lost : Zone(o) = Zone(p) => drone[o] = drone[p]

\* The table of the zone locks is a LeaseTable: a lock never passes from one
\* drone to another without having been deleted or expired in between, in spite
\* of retries, orphans and restarts (landing.py, "Redis distributed locks").
Leases == INSTANCE LeaseTable WITH Client <- Drone, owner <- holder
LeasesSpec == Leases!Spec

-----------------------------------------------------------------------------
WrapperStep(o) == \/ Launch(o) \/ ZoneCheck(o) \/ RequestAssign(o)
                  \/ NoEligibleDrone(o) \/ Assigned(o)
HandlerStep(o) == \/ Acquire(o) \/ PadRaceLost(o) \/ AssignRaises(o)
                  \/ Refused(o) \/ ClientTimeout(o)
OrphanStep(g)  == OrphanAcquires(g) \/ OrphanEnds(g) \/ OrphanPadRaceLost(g)
MissionStep(o) == \/ Begin(o) \/ RequestLanding(o) \/ ClearedToLand(o)
                  \/ TakeOff(o) \/ TouchDown(o) \/ Depart(o) \/ Confirm(o)
                  \/ Complete(o)
AbortStep(o)   == \/ FlightError(o) \/ Cancel(o) \/ CancelOutright(o)
                  \/ AbortRtl(o) \/ AbortRelease(o)
DroneStep(d)   == Telemetry(d) \/ LinkStale(d) \/ Sync(d)

Next == \/ \E o \in Order : \/ WrapperStep(o) \/ HandlerStep(o)
                            \/ MissionStep(o) \/ AbortStep(o)
        \/ \E g \in orphans : OrphanStep(g)
        \/ \E d \in Drone : DroneStep(d)
        \/ \E k \in Key : LeaseExpires(k)
        \/ FleetRestart

Spec == Init /\ [][Next]_vars

\* What the event loops and Redis owe: a handler somebody waits for runs on to
\* its answer, a refused mission asks again, Redis drops a key when its time is
\* over.  Timeouts and errors do not hit every answer for ever, and who polls a
\* zone that falls free again and again does not lose every time (strong
\* fairness).  Assignments do not time
\* out for ever: an endless stream of abandoned ones could hold the zone of a
\* mission for ever.  Nothing is assumed of a mission in flight: the MAVSDK
\* waits have no deadline.
AssignTimesOut == \E o \in Order : pc[o] # "reserve" /\ ClientTimeout(o)

WinsZone(o) == /\ at[o] \in {"claim", "poll"}
               /\ holder[Zone(o)] = None
               /\ Acquire(o)

Fairness ==
    /\ \A o \in Order : /\ WF_vars(Acquire(o) \/ Refused(o) \/ RequestLanding(o))
                         /\ SF_vars(ClearedToLand(o) \/ Assigned(o))
                         /\ SF_vars(WinsZone(o))
    /\ \A k \in Key : WF_vars(LeaseExpires(k))
    /\ <>[][~AssignTimesOut]_vars

FairSpec == Spec /\ Fairness

\* A mission that asks for its block gets it or is cancelled, whatever became
\* of the mission that had it: the 180 s lease stands in for a release that
\* was lost, leaked by an orphan, or owed by a drone that hangs in flight.
ReserveLoopEnds ==
    \A o \in Order : pc[o] = "reserve" ~> pc[o] # "reserve"

\* When every order has ended, no zone stays locked: what lost confirms,
\* abandoned handlers and failed assignments left behind runs out.
LeaksHeal ==
    <>[](\A o \in Order : pc[o] \in Ended) => <>[](\A k \in Key : holder[k] = None)
=============================================================================
