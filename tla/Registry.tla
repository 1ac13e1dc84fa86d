------------------------------ MODULE Registry ------------------------------
(***************************************************************************)
(* The drone registry of the backend (drone_registry.py), the connections  *)
(* of its agents (drone_agent.py) and the semaphore they share.  A Handler *)
(* is one HTTP request: connect (one entry of a batch is one handler),     *)
(* disconnect, or disconnect-all.  One step is what runs between two       *)
(* awaits.                                                                 *)
(*                                                                         *)
(* An agent is one MAVSDKDroneAgent object; a drone has several over time, *)
(* and, when operations on it overlap, several at once.                    *)
(***************************************************************************)
EXTENDS Integers, FiniteSets

CONSTANTS
    Drone,
    Handler,
    MaxPermits,    \* MAX_CONCURRENT_CONNECTIONS
    MaxFree,       \* bound: no operation starts while more permits are free
    Real,          \* MAVSDKDroneAgent objects
    Stub,          \* _StubAgent objects of POST /api/sim/inject-drone
    None

Agent == Real \cup Stub

ASSUME RegistryAssumption ==
    /\ MaxPermits \in Nat
    /\ MaxFree \in Nat
    /\ Real \subseteq Nat
    /\ Stub \subseteq Nat
    /\ Real \cap Stub = {}
    /\ None \notin Drone \cup Nat

VARIABLES
    registry,   \* DroneRegistry._drones: drone to agent, or None
    online,     \* agents with state.is_online
    streams,    \* agents whose telemetry tasks run
    held,       \* <<agent, its drone>>: it took a permit nobody gave back for it
    stopped,    \* agents whose MAVSDK server was stopped while they connected
    free,       \* the value of the semaphore; its release() has no upper bound
    pc,         \* what a handler awaits
    on,         \* the drone it is about
    work,       \* the agent it connects
    leaving,    \* the agents whose disconnect() it awaits
    overlapped  \* history: drones two operations were about at once

permits == <<held, free>>
agents == <<online, streams, stopped>>
handlers == <<pc, on, work, leaving>>
vars == <<registry, online, streams, held, stopped, free, pc,
          on, work, leaving, overlapped>>

-----------------------------------------------------------------------------
(* Helpers.                                                                *)

\* Agent objects something still refers to; the others are garbage, and their
\* numbers are used again.
InUse ==
    {p[1] : p \in held} \cup streams \cup {registry[d] : d \in Drone}
    \cup {work[h] : h \in Handler} \cup UNION {leaving[h] : h \in Handler}
New(S) == {a \in S \ InUse : \A b \in S \ InUse : a <= b}

Waiting == {h \in Handler : pc[h] = "acquire"}

\* The drones other requests are about when a handler starts on `about`.
Busy(about) ==
    {d \in about : \E h \in Handler : on[h] = d \/ pc[h] = "all"}
Start(about) ==
    /\ free <= MaxFree
    /\ overlapped' = overlapped \cup Busy(about)

Idle(h) == [pc EXCEPT ![h] = "idle"]

\* Mutant of Given: only an agent that got through gives its permit back.
GivenIfOnline(a) == IF a \in online THEN 1 ELSE 0

\* disconnect() has stopped the streams of a: the rest of it has no await.
\* asyncio's release() never raises, so the except ValueError is never
\* reached: a permit is given back whether or not one was taken.
Given(a) == IF a \in Stub THEN 0 ELSE 1
Without(a) == {p \in held : p[1] # a}

Close(a) ==
    /\ online' = online \ {a}
    /\ streams' = streams \ {a}
    /\ stopped' = IF \E h \in Handler : pc[h] = "connect" /\ work[h] = a
                  THEN stopped \cup {a} ELSE stopped

\* add_drone creates an agent, enters it and starts connect(), which takes a
\* permit at once if one is free and nobody waits; f permits are free, hd are
\* held, when it does.
NewAgent(h, d, f, hd) ==
    \E a \in New(Real) :
    LET now == f > 0 /\ Waiting = {}
    IN  /\ registry' = [registry EXCEPT ![d] = a]
        /\ free' = IF now THEN f - 1 ELSE f
        /\ held' = IF now THEN hd \cup {<<a, d>>} ELSE hd
        /\ pc' = [pc EXCEPT ![h] = IF now THEN "connect" ELSE "acquire"]
        /\ work' = [work EXCEPT ![h] = a]
        /\ on' = [on EXCEPT ![h] = d]

Init ==
    /\ registry = [d \in Drone |-> None]
    /\ online = {}
    /\ streams = {}
    /\ held = {}
    /\ stopped = {}
    /\ free = MaxPermits
    /\ pc = [h \in Handler |-> "idle"]
    /\ on = [h \in Handler |-> None]
    /\ work = [h \in Handler |-> None]
    /\ leaving = [h \in Handler |-> {}]
    /\ overlapped = {}

-----------------------------------------------------------------------------
(* add_drone (POST /api/connect, and every entry of a batch).              *)

\* No agent is entered for d, or an offline one that has no telemetry tasks
\* to wait for: its disconnect() and the new connect() run on.
AddFresh(h, d) ==
    /\ pc[h] = "idle"
    /\ Start({d})
    /\ LET old == registry[d]
       IN  \/ /\ old = None
              /\ NewAgent(h, d, free, held)
              /\ UNCHANGED <<online, streams, stopped>>
           \/ /\ old # None
              /\ old \notin online \cup streams
              /\ Close(old)
              /\ NewAgent(h, d, free + Given(old), Without(old))
    /\ UNCHANGED leaving

\* An offline agent is entered whose telemetry tasks have to end first.
AddStale(h, d) ==
    /\ pc[h] = "idle"
    /\ registry[d] # None
    /\ registry[d] \in streams \ online
    /\ Start({d})
    /\ pc' = [pc EXCEPT ![h] = "cleanup"]
    /\ on' = [on EXCEPT ![h] = d]
    /\ leaving' = [leaving EXCEPT ![h] = {registry[d]}]
    /\ UNCHANGED <<registry, agents, permits, work>>

\* A caller who finds an online agent gets that one, and nothing changes.
add_drone(h, d) == AddFresh(h, d) \/ AddStale(h, d)

\* _safe_disconnect returns; whoever is entered by now is replaced.
AddCleaned(h) ==
    /\ pc[h] = "cleanup"
    /\ \E old \in leaving[h] :
          /\ Close(old)
          /\ NewAgent(h, on[h], free + Given(old), Without(old))
    /\ leaving' = [leaving EXCEPT ![h] = {}]
    /\ UNCHANGED overlapped

\* Mutant of Acquire: a timed-out waiter's turn is taken by the next one.
AcquireAnyway(h) ==
    /\ pc[h] = "acquire"
    /\ free' = free - 1
    /\ held' = held \cup {<<work[h], on[h]>>}
    /\ pc' = [pc EXCEPT ![h] = "connect"]
    /\ UNCHANGED <<registry, online, streams, stopped, on, work,
                   leaving, overlapped>>

\* A permit became free for a waiting connect().
Acquire(h) ==
    /\ pc[h] = "acquire"
    /\ free > 0
    /\ free' = free - 1
    /\ held' = held \cup {<<work[h], on[h]>>}
    /\ pc' = [pc EXCEPT ![h] = "connect"]
    /\ UNCHANGED <<registry, online, streams, stopped, on, work,
                   leaving, overlapped>>

\* connect() raises: its caller removes whatever is entered for the drone.
Raise(h) ==
    /\ registry' = [registry EXCEPT ![on[h]] = None]
    /\ pc' = Idle(h)
    /\ on' = [on EXCEPT ![h] = None]
    /\ work' = [work EXCEPT ![h] = None]
    /\ online' = online \ {work[h]}
    /\ stopped' = stopped \ {work[h]}
    /\ UNCHANGED <<streams, leaving, overlapped>>

\* Mutant of AcquireTimeout: the release of the other failures covers it too.
TimeoutReleases(h) ==
    /\ pc[h] = "acquire"
    /\ free = 0
    /\ Raise(h)
    /\ free' = free + 1
    /\ UNCHANGED held

\* 30 s without a permit.
AcquireTimeout(h) ==
    /\ pc[h] = "acquire"
    /\ free = 0
    /\ Raise(h)
    /\ UNCHANGED permits

\* Mutant of ConnectFails: the permit is given back by disconnect() only.
ConnectFailsKeeping(h) ==
    /\ pc[h] = "connect"
    /\ Raise(h)
    /\ UNCHANGED permits

\* No heartbeat, no GPS, or the MAVSDK server is gone.
ConnectFails(h) ==
    /\ pc[h] = "connect"
    /\ free' = free + 1
    /\ held' = Without(work[h])
    /\ Raise(h)

\* Heartbeat and GPS are there.
ConnectSucceeds(h) ==
    /\ pc[h] = "connect"
    /\ work[h] \notin stopped
    /\ online' = online \cup {work[h]}
    /\ streams' = streams \cup {work[h]}
    /\ pc' = Idle(h)
    /\ on' = [on EXCEPT ![h] = None]
    /\ work' = [work EXCEPT ![h] = None]
    /\ UNCHANGED <<registry, permits, stopped, leaving, overlapped>>

-----------------------------------------------------------------------------
(* remove_drone (DELETE /api/drones/<id>) and disconnect_all.              *)

\* The entry goes first; an agent without telemetry tasks is closed at once.
Remove(h, d) ==
    /\ pc[h] = "idle"
    /\ registry[d] # None
    /\ Start({d})
    /\ registry' = [registry EXCEPT ![d] = None]
    /\ LET a == registry[d]
       IN  \/ /\ a \in streams
              /\ pc' = [pc EXCEPT ![h] = "remove"]
              /\ on' = [on EXCEPT ![h] = d]
              /\ leaving' = [leaving EXCEPT ![h] = {a}]
              /\ UNCHANGED <<online, streams, stopped, permits>>
           \/ /\ a \notin streams
              /\ Close(a)
              /\ free' = free + Given(a)
              /\ held' = Without(a)
              /\ UNCHANGED <<pc, on, leaving>>
    /\ UNCHANGED work

Removed(h) ==
    /\ pc[h] = "remove"
    /\ \E a \in leaving[h] :
          /\ Close(a)
          /\ free' = free + Given(a)
          /\ held' = Without(a)
    /\ leaving' = [leaving EXCEPT ![h] = {}]
    /\ pc' = Idle(h)
    /\ on' = [on EXCEPT ![h] = None]
    /\ UNCHANGED <<registry, work, overlapped>>

\* The disconnect() of every entered agent becomes a task of its own.
DisconnectAll(h) ==
    /\ pc[h] = "idle"
    /\ \E d \in Drone : registry[d] # None
    /\ Start(Drone)
    /\ pc' = [pc EXCEPT ![h] = "all"]
    /\ leaving' = [leaving EXCEPT ![h] = {registry[d] : d \in Drone} \ {None}]
    /\ UNCHANGED <<registry, agents, permits, on, work>>

DisconnectOne(h) ==
    /\ pc[h] = "all"
    /\ \E a \in leaving[h] :
          /\ Close(a)
          /\ free' = free + Given(a)
          /\ held' = Without(a)
          /\ leaving' = [leaving EXCEPT ![h] = @ \ {a}]
    /\ UNCHANGED <<registry, pc, on, work, overlapped>>

\* gather() returns: _drones.clear() forgets whoever was entered meanwhile.
Clear(h) ==
    /\ pc[h] = "all"
    /\ leaving[h] = {}
    /\ registry' = [d \in Drone |-> None]
    /\ pc' = Idle(h)
    /\ UNCHANGED <<agents, permits, on, work, leaving, overlapped>>

-----------------------------------------------------------------------------
(* Telemetry, the stale checker and the simulator.                         *)

\* check_stale_drones: 15 s without telemetry of an entered agent.
Stale(d) ==
    /\ registry[d] # None
    /\ registry[d] \in online
    /\ online' = online \ {registry[d]}
    /\ UNCHANGED <<registry, streams, stopped, permits,
                   handlers, overlapped>>

\* The position stream; disconnect() cancels it before it awaits.
Position(a) ==
    /\ a \in streams
    /\ \A h \in Handler : a \notin leaving[h]
    /\ online' = online \cup {a}
    /\ UNCHANGED <<registry, streams, stopped, permits,
                   handlers, overlapped>>

\* POST /api/sim/inject-drone: an entered agent is called online, else a stub
\* with a semaphore of its own is entered.
Inject(d) ==
    /\ \/ /\ registry[d] # None
          /\ online' = online \cup {registry[d]}
          /\ UNCHANGED registry
       \/ /\ registry[d] = None
          /\ \E a \in New(Stub) :
                /\ registry' = [registry EXCEPT ![d] = a]
                /\ online' = online \cup {a}
    /\ UNCHANGED <<streams, stopped, permits, handlers, overlapped>>

Next ==
    \/ \E h \in Handler :
          \/ \E d \in Drone : add_drone(h, d) \/ Remove(h, d)
          \/ AddCleaned(h)
          \/ Acquire(h)
          \/ AcquireTimeout(h)
          \/ ConnectFails(h)
          \/ ConnectSucceeds(h)
          \/ Removed(h)
          \/ DisconnectAll(h)
          \/ DisconnectOne(h)
          \/ Clear(h)
    \/ \E d \in Drone : Stale(d) \/ Inject(d)
    \/ \E a \in Agent : Position(a)

Spec == Init /\ [][Next]_vars

-----------------------------------------------------------------------------
(* Properties.                                                             *)

\* Every variable has its type.
TypeOK ==
    /\ registry \in [Drone -> Agent \cup {None}]
    /\ online \subseteq Agent
    /\ streams \subseteq Real
    /\ held \subseteq Real \X Drone
    /\ stopped \subseteq Real
    /\ free \in Nat
    /\ pc \in [Handler -> {"idle", "cleanup", "acquire", "connect", "remove", "all"}]
    /\ on \in [Handler -> Drone \cup {None}]
    /\ work \in [Handler -> Real \cup {None}]
    /\ leaving \in [Handler -> SUBSET Agent]
    /\ overlapped \subseteq Drone

\* No permit is lost, whatever overlaps and whatever fails: those that are
\* free and those that are held are never fewer than the registry started with.
NoPermitLost == free + Cardinality(held) >= MaxPermits

\* Not more permits than the registry started with, unless two operations on
\* one drone were under way at once: then disconnect() gives back a permit
\* its agent never took, or gives one back twice.
CapKept == overlapped = {} => free + Cardinality(held) <= MaxPermits

\* An agent that is connected, or on its way, is the one entered for its
\* drone, or a disconnect() of it is under way -- unless operations on the
\* drone overlapped: then it may fly on unknown to every endpoint.
NoOrphan ==
    \A p \in held :
        \/ registry[p[2]] = p[1]
        \/ \E h \in Handler : p[1] \in leaving[h]
        \/ p[2] \in overlapped

\* The registry shares its semaphore as PermitPool says, step by step: what
\* times out, fails, is replaced or disconnected gives back the permit it has,
\* once, and none that it does not have, until two operations on one drone
\* have been under way at once.
Pool == INSTANCE PermitPool WITH
            Owner <- Real \X Drone, owners <- held, doubled <- overlapped # {}
PermitsShared == Pool!Spec
=============================================================================
