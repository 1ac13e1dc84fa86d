----------------------------- MODULE FleetView -----------------------------
(***************************************************************************)
(* How Fleet AI learns what the drones do.  The backend broadcasts the     *)
(* states of all registered drones to its WebSocket clients (ws_manager.py)*)
(* and Fleet AI, one of them, enters each into its view and into a hash in *)
(* Redis (state_manager.py); its pusher marks drones it no longer hears of *)
(* and passes the view on to its own clients (main.py).                    *)
(*                                                                         *)
(* One connection is Fleet AI's at a time.  The others are those it has     *)
(* lost, which the backend may still send to: to the backend, any other    *)
(* client is like them, one that takes a message some time or breaks.      *)
(*                                                                         *)
(* The state of a drone is a number that grows whenever the state changes: *)
(* the properties tell older from newer, not IDLE from IN_FLIGHT.          *)
(***************************************************************************)
EXTENDS Integers, Sequences

CONSTANTS
    Drone,
    Conn,         \* connections to the backend's WebSocket endpoint
    Frontend,     \* clients of Fleet AI
    Stale,        \* STALE_THRESHOLD_S, in ticks
    MaxVersion,   \* bound on changes of state
    Capacity,     \* messages a connection takes before send_text() blocks
    MaxDrops,     \* bound on lost connections and restarts of Fleet AI
    None

ASSUME FleetViewAssumption ==
    /\ Stale \in Nat
    /\ MaxVersion \in Nat
    /\ Capacity \in Nat \ {0}
    /\ MaxDrops \in Nat
    /\ None \notin Conn \cup Drone

Unheard == -1   \* a drone the view or the hash says nothing of

VARIABLES
    truth,       \* the state of a drone's agent
    registered,  \* drones in the registry
    clients,     \* WebSocketManager._clients
    message,     \* what broadcast() sends: its drones and their states
    sending,     \* clients whose send_text() has not returned
    failed,      \* clients whose send_text() raised
    link,        \* Fleet AI's open connection, or None
    inbox,       \* messages that arrived on it
    current,     \* the message _ws_listen works on
    todo,        \* its drones that are still to be entered
    writing,     \* the drone whose hash is being written, or None
    view,        \* _DRONE_STATES
    silence,     \* ticks since _LAST_SEEN, up to Stale + 1
    offline,     \* drones marked OFFLINE by _mark_stale_offline
    hash,        \* telemetry:<drone>
    frontends,   \* FleetWSManager._connections
    pushing,     \* clients the pusher has still to send to
    drops        \* lost connections and restarts so far

hub == <<clients, message, sending, failed>>
listener == <<inbox, current, todo, writing>>
cache == <<view, silence, offline, hash>>
pusher == <<frontends, pushing>>
vars == <<truth, registered, hub, link, listener, cache, pusher, drops>>

Nothing == [d \in {} |-> 0]

Init ==
    /\ truth = [d \in Drone |-> 0]
    /\ registered = {}
    /\ clients = {}
    /\ message = Nothing
    /\ sending = {}
    /\ failed = {}
    /\ link = None
    /\ inbox = <<>>
    /\ current = Nothing
    /\ todo = {}
    /\ writing = None
    /\ view = [d \in Drone |-> Unheard]
    /\ silence = [d \in Drone |-> 0]
    /\ offline = {}
    /\ hash = [d \in Drone |-> Unheard]
    /\ frontends = Frontend
    /\ pushing = {}
    /\ drops = 0

-----------------------------------------------------------------------------
(* The backend.                                                            *)

\* A telemetry task or a mission changes the state of a drone.
Change(d) ==
    /\ truth[d] < MaxVersion
    /\ truth' = [truth EXCEPT ![d] = @ + 1]
    /\ UNCHANGED <<registered, hub, link, listener, cache, pusher, drops>>

Register(d) ==
    /\ d \notin registered
    /\ registered' = registered \cup {d}
    /\ UNCHANGED <<truth, hub, link, listener, cache, pusher, drops>>

Remove(d) ==
    /\ d \in registered
    /\ registered' = registered \ {d}
    /\ UNCHANGED <<truth, hub, link, listener, cache, pusher, drops>>

\* get_all_states_dict
Snapshot == [d \in registered |-> truth[d]]

\* connect and disconnect of the hub, and disconnect of Fleet AI's own.
Accepted(c) == clients \cup {c}
Discarded(gone) == clients \ gone
Without(f) == frontends \ {f}

\* Two seconds after the last one is through: the states of all registered
\* drones, to all clients.  Without clients nothing happens.
Broadcast ==
    /\ sending = {}
    /\ failed = {}
    /\ clients # {}
    /\ message' = Snapshot
    /\ sending' = clients
    /\ UNCHANGED <<truth, registered, clients, failed, link, listener, cache,
                   pusher, drops>>

\* Mutant of Send: no send ever waits for its client to read.
SendUnbounded(c) ==
    /\ c \in sending
    /\ sending' = sending \ {c}
    /\ inbox' = IF c = link THEN Append(inbox, message) ELSE inbox
    /\ message' = IF sending = {c} THEN Nothing ELSE message
    /\ UNCHANGED <<truth, registered, clients, failed, link, current, todo,
                   writing, cache, pusher, drops>>

\* send_text() returns.  Nobody may be listening on a lost connection.
Send(c) ==
    /\ c \in sending
    /\ c = link => Len(inbox) < Capacity
    /\ sending' = sending \ {c}
    /\ inbox' = IF c = link THEN Append(inbox, message) ELSE inbox
    /\ message' = IF sending = {c} THEN Nothing ELSE message
    /\ UNCHANGED <<truth, registered, clients, failed, link, current, todo,
                   writing, cache, pusher, drops>>

\* send_text() raises: the connection is dead.
SendFails(c) ==
    /\ c \in sending
    /\ c # link
    /\ sending' = sending \ {c}
    /\ failed' = failed \cup {c}
    /\ message' = IF sending = {c} THEN Nothing ELSE message
    /\ UNCHANGED <<truth, registered, clients, link, listener, cache, pusher,
                   drops>>

\* Mutant of Gathered: gather() passes the exception on, the task ends.
GatheredRaises ==
    /\ sending = {}
    /\ failed # {}
    /\ UNCHANGED vars

\* gather() has all results: the dead clients are removed.
Gathered ==
    /\ sending = {}
    /\ failed # {}
    /\ clients' = Discarded(failed)
    /\ failed' = {}
    /\ UNCHANGED <<truth, registered, message, sending, link, listener, cache,
                   pusher, drops>>

\* The endpoint of a lost connection notices it.
Disconnect(c) ==
    /\ c \in clients
    /\ c # link
    /\ clients' = Discarded({c})
    /\ UNCHANGED <<truth, registered, message, sending, failed, link, listener,
                   cache, pusher, drops>>

-----------------------------------------------------------------------------
(* Fleet AI.                                                               *)

\* _ws_reconnect_loop; the back-off is a wait, which any step may be.
Connect(c) ==
    /\ link = None
    /\ inbox = <<>>
    /\ todo = {}
    /\ writing = None
    /\ c \in Conn \ (clients \cup sending \cup failed)
    /\ link' = c
    /\ clients' = Accepted(c)
    /\ UNCHANGED <<truth, registered, message, sending, failed, listener,
                   cache, pusher, drops>>

\* The connection is lost, with the messages the listener has not read.
Drop ==
    /\ link # None
    /\ drops < MaxDrops
    /\ drops' = drops + 1
    /\ link' = None
    /\ inbox' = <<>>
    /\ UNCHANGED <<truth, registered, hub, current, todo, writing, cache, pusher>>

\* Mutant of Receive: a task per message, which may overtake each other.
ReceiveAny ==
    /\ inbox # <<>>
    /\ todo = {}
    /\ writing = None
    /\ \E i \in DOMAIN inbox :
          /\ current' = inbox[i]
          /\ todo' = DOMAIN inbox[i]
          /\ inbox' = SubSeq(inbox, 1, i - 1) \o SubSeq(inbox, i + 1, Len(inbox))
    /\ UNCHANGED <<truth, registered, hub, link, writing, cache, pusher, drops>>

\* The next message, when the one before has been entered and written.
Receive ==
    /\ inbox # <<>>
    /\ todo = {}
    /\ writing = None
    /\ current' = Head(inbox)
    /\ todo' = DOMAIN Head(inbox)
    /\ inbox' = Tail(inbox)
    /\ UNCHANGED <<truth, registered, hub, link, writing, cache, pusher, drops>>

\* update_state under its lock; the hash is written after that.
Update(d) ==
    /\ d \in todo
    /\ writing = None
    /\ view' = [view EXCEPT ![d] = current[d]]
    /\ silence' = [silence EXCEPT ![d] = 0]
    /\ offline' = offline \ {d}
    /\ todo' = todo \ {d}
    /\ writing' = d
    /\ UNCHANGED <<truth, registered, hub, link, inbox, current, hash, pusher,
                   drops>>

\* _write_telemetry_to_redis, which never raises.
Write ==
    /\ writing # None
    /\ \/ hash' = [hash EXCEPT ![writing] = current[writing]]
       \/ UNCHANGED hash
    /\ writing' = None
    /\ current' = IF todo = {} THEN Nothing ELSE current
    /\ UNCHANGED <<truth, registered, hub, link, inbox, todo, view, silence,
                   offline, pusher, drops>>

\* A minute without a write.
HashExpires(d) ==
    /\ hash[d] # Unheard
    /\ silence[d] > Stale
    /\ writing # d
    /\ hash' = [hash EXCEPT ![d] = Unheard]
    /\ UNCHANGED <<truth, registered, hub, link, listener, view, silence,
                   offline, pusher, drops>>

\* _mark_stale_offline: who was not heard of for long.
MarkedOffline == offline \cup {d \in Drone : view[d] # Unheard /\ silence[d] > Stale}

\* Mutant of Push: the pusher sends the view as it is.
PushUnmarked ==
    /\ pushing = {}
    /\ pushing' = frontends
    /\ UNCHANGED <<truth, registered, hub, link, listener, cache, frontends, drops>>

\* _fleet_status_pusher: get_all_states marks the silent drones, then the clients
\* are sent to, one after the other.
Push ==
    /\ pushing = {}
    /\ offline' = MarkedOffline
    /\ pushing' = frontends
    /\ UNCHANGED <<truth, registered, hub, link, listener, view, silence, hash,
                   frontends, drops>>

PushOne(f) ==
    /\ f \in pushing
    /\ pushing' = pushing \ {f}
    /\ \/ UNCHANGED frontends
       \/ frontends' = Without(f)
    /\ UNCHANGED <<truth, registered, hub, link, listener, cache, drops>>

Joins(f) ==
    /\ f \in Frontend \ frontends
    /\ frontends' = frontends \cup {f}
    /\ UNCHANGED <<truth, registered, hub, link, listener, cache, pushing, drops>>

\* Its endpoint sees that it closed; a broadcast that is under way still has it.
Leaves(f) ==
    /\ f \in frontends
    /\ frontends' = Without(f)
    /\ UNCHANGED <<truth, registered, hub, link, listener, cache, pushing, drops>>

Tick ==
    /\ silence' = [d \in Drone |->
                      IF silence[d] > Stale \/ {view[d], hash[d]} = {Unheard}
                      THEN silence[d] ELSE silence[d] + 1]
    /\ silence' # silence
    /\ UNCHANGED <<truth, registered, hub, link, listener, view, offline, hash,
                   pusher, drops>>

\* Fleet AI restarts: the view is gone, the hashes are not.
Restart ==
    /\ drops < MaxDrops
    /\ drops' = drops + 1
    /\ link' = None
    /\ inbox' = <<>>
    /\ current' = Nothing
    /\ todo' = {}
    /\ writing' = None
    /\ view' = [d \in Drone |-> Unheard]
    /\ silence' = [d \in Drone |-> 0]
    /\ offline' = {}
    /\ frontends' = {}
    /\ pushing' = {}
    /\ UNCHANGED <<truth, registered, hub, hash>>

\* The tasks of the backend and of Fleet AI that never end.
Broadcaster == Broadcast \/ Gathered
Listener == Receive \/ Write \/ \E d \in Drone : Update(d)
Pusher == Push \/ \E f \in Frontend : PushOne(f)

Next ==
    \/ \E d \in Drone : Change(d) \/ Register(d) \/ Remove(d) \/ HashExpires(d)
    \/ Broadcaster \/ Listener \/ Pusher
    \/ \E c \in Conn : Send(c) \/ SendFails(c) \/ Disconnect(c) \/ Connect(c)
    \/ \E f \in Frontend : Joins(f) \/ Leaves(f)
    \/ Drop \/ Tick \/ Restart

Spec == Init /\ [][Next]_vars

\* The tasks of both services go on, one step after the other, and so does time.
\* A client that does not read makes its send wait until it reads or the
\* keep-alive of its connection ends it, which is outside this code.
Fairness ==
    /\ WF_vars(Broadcaster)
    /\ \A c \in Conn : WF_vars(Send(c) \/ SendFails(c))
    /\ \A c \in Conn : WF_vars(Disconnect(c))
    /\ WF_vars(\E c \in Conn : Connect(c))
    /\ WF_vars(Listener)
    /\ WF_vars(Pusher)
    /\ WF_vars(Tick)

FairSpec == Spec /\ Fairness

-----------------------------------------------------------------------------
(* Properties.                                                             *)

State == 0..MaxVersion
Message == UNION {[S -> State] : S \in SUBSET Drone}

\* Every variable has its type.
TypeOK ==
    /\ truth \in [Drone -> State]
    /\ registered \subseteq Drone
    /\ clients \subseteq Conn
    /\ message \in Message
    /\ sending \subseteq Conn
    /\ failed \subseteq Conn
    /\ link \in Conn \cup {None}
    /\ inbox \in Seq(Message) /\ Len(inbox) <= Capacity
    /\ current \in Message
    /\ todo \subseteq DOMAIN current
    /\ writing \in DOMAIN current \cup {None}
    /\ view \in [Drone -> State \cup {Unheard}]
    /\ silence \in [Drone -> 0..(Stale + 1)]
    /\ offline \subseteq Drone
    /\ hash \in [Drone -> State \cup {Unheard}]
    /\ frontends \subseteq Frontend
    /\ pushing \subseteq Frontend
    /\ drops \in 0..MaxDrops

\* What Fleet AI believes of a drone never goes back to an older state, neither
\* in the view nor in Redis, across lost connections and restarts.
NeverOlder ==
    [][\A d \in Drone :
          /\ view'[d] # Unheard => view'[d] >= view[d]
          /\ hash'[d] # Unheard => hash'[d] >= hash[d]]_vars

\* Fleet AI learns every state a registered drone stays in, or a newer one,
\* although its connection gets lost and other clients are slow or die.
ViewCatchesUp ==
    \A d \in Drone, v \in State :
        d \in registered /\ truth[d] = v ~> d \notin registered \/ view[d] >= v

\* A drone that was removed does not stay in the view for good: it is marked
\* OFFLINE, unless it comes back or Fleet AI forgets it.
GhostsFade ==
    \A d \in Drone :
        d \notin registered ~> d \in registered \cup offline \/ view[d] = Unheard
=============================================================================
