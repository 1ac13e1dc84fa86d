----------------------------- MODULE OrderStatus -----------------------------
(***************************************************************************)
(* The status of orders: the rows of the orders table, the handlers of the *)
(* orders service (crud.py), and who calls them: the web pages of vendors  *)
(* and admins (AppContext.tsx), the launch wrapper and the missions of the *)
(* drone backend (main.py, mission_executor.py), its retry queue, and the  *)
(* claim of a drone.                                                       *)
(*                                                                         *)
(* Every handler awaits the database between its UPDATE and the read that  *)
(* it answers and broadcasts, and awaits every connection in turn; nothing *)
(* orders two handlers, so each of these is a step of its own.             *)
(***************************************************************************)
EXTENDS Integers, Sequences, FiniteSets

CONSTANTS
    Order,       \* orders that have been placed
    Page,        \* browser tabs of vendors and admins, all connected
    Mission,     \* accepted launches; an order may be launched twice
    Drone,
    None,
    NoName,      \* the droneId "" of a launch answer, before a drone is chosen
    Start,       \* the status orders start with, to skip the kitchen
    Attempts,    \* PATCHes _notify_delivered tries before it queues: 3
    CallsFail,   \* FALSE: every call arrives and is answered in time
    MayCancel,   \* FALSE: no mission task is cancelled
    MayClaim,    \* FALSE: nobody calls the assign-drone endpoint
    MaxClicks,   \* bound on PATCHes a page sends for its user
    MaxCalls,    \* bound on calls that are under way at once
    MaxStops     \* bound on stops of the drone backend

ASSUME OrderAssumption ==
    /\ None \notin Order \cup Mission \cup Drone \cup Page
    /\ NoName \notin Drone \cup {None}
    /\ Start \in {"CREATED", "READY_FOR_PICKUP"}
    /\ Attempts \in Nat \ {0}
    /\ CallsFail \in BOOLEAN
    /\ MayCancel \in BOOLEAN
    /\ MayClaim \in BOOLEAN
    /\ MaxClicks \in Nat
    /\ MaxCalls \in Nat
    /\ MaxStops \in Nat

VARIABLES
    status,      \* orders.status
    drone,       \* orders.assigned_drone_id
    was,         \* history: every status an order has had
    overwritten, \* history: orders whose drone a PATCH has replaced
    claimed,     \* history: the drones for which a claim was answered 200
    calls,       \* the requests under way and their handlers
    view,        \* the status a page shows for an order
    launching,   \* launches a page waits for
    clicks,
    order,       \* the order a mission is for, or None
    pc,          \* where the launch wrapper or the mission is
    try,         \* PATCHes _notify_delivered has sent
    parcel,      \* aboard, dropped, and then what became of the report
    queue,       \* _retry_queue
    hand,        \* the item _process_retry_queue has taken, or None
    asleep,      \* it waits before it puts the item back
    forgotten,   \* history: orders whose item was lost at a stop
    stops

rowVars     == <<status, drone, was, overwritten>>
pageVars    == <<view, launching, clicks>>
missionVars == <<order, pc, try, parcel>>
retryVars   == <<queue, hand, asleep, forgotten>>
vars == <<rowVars, claimed, calls, pageVars, missionVars, retryVars, stops>>

-----------------------------------------------------------------------------
\* _map_status: what a client is shown for a status of the table.
Label(s) ==
    CASE s = "CREATED"                       -> "Placed"
      [] s = "CONFIRMED"                     -> "Accepted"
      [] s = "PREPARING"                     -> "Cooking"
      [] s = "READY_FOR_PICKUP"              -> "Ready for Launch"
      [] s \in {"DRONE_ASSIGNED", "IN_FLIGHT"} -> "En Route"
      [] s = "DELIVERED"                     -> "Delivered"
      [] s = "FAILED"                        -> "Failed"
      [] s = "CANCELLED"                     -> "Declined"

Status == {"CREATED", "CONFIRMED", "PREPARING", "READY_FOR_PICKUP",
           "DRONE_ASSIGNED", "IN_FLIGHT", "DELIVERED", "FAILED", "CANCELLED"}
Shown  == {"Placed", "Accepted", "Cooking", "Ready for Launch", "En Route",
           "Delivered", "Failed", "Declined"}

\* Mutant of InDb: the client's label is stored as it is.
InDbUntranslated(label) == label

\* _map_status_to_db: what the table gets for a status a client sends.
InDb(label) ==
    CASE label = "Accepted"         -> "CONFIRMED"
      [] label = "Cooking"          -> "PREPARING"
      [] label = "Ready for Launch" -> "READY_FOR_PICKUP"
      [] label = "En Route"         -> "IN_FLIGHT"
      [] label = "Delivered"        -> "DELIVERED"
      [] label = "Failed"           -> "FAILED"
      [] label = "Declined"         -> "CANCELLED"
      [] OTHER                      -> "CREATED"

\* A call is made by somebody who waits for its answer, or who is gone or does
\* not care.  at: sent, written once the handler has done its UPDATE, read once
\* it has read the order back; it then sends what it has read (seen) to the
\* pages in todo.
Role == {"page", "mission", "retry", "fleet", "gone"}
Call == [role : Role, of : Page \cup Mission \cup {None}, order : Order,
         status : Status, drone : Drone \cup {NoName, None},
         at : {"sent", "written", "read"}, seen : Shown, todo : SUBSET Page]

\* A new PATCH; the field droneId is absent when d is None.
Patch(role, who, o, label, d) ==
    [role |-> role, of |-> who, order |-> o, status |-> InDb(label), drone |-> d,
     at |-> "sent", seen |-> "Placed", todo |-> {}]

Unheard(o, label, d) == Patch("gone", None, o, label, d)

Send(c)       == Cardinality(calls) < MaxCalls /\ calls' = calls \cup {c}
Step(c, next) == calls' = (calls \ {c}) \cup {next}
Gone(c)       == [c EXCEPT !.role = "gone", !.of = None]

Init ==
    /\ status = [o \in Order |-> Start]
    /\ drone = [o \in Order |-> None]
    /\ was = [o \in Order |-> {Start}]
    /\ overwritten = {}
    /\ claimed = [o \in Order |-> {}]
    /\ calls = {}
    /\ view = [p \in Page |-> [o \in Order |-> Label(Start)]]
    /\ launching = {}
    /\ clicks = 0
    /\ order = [m \in Mission |-> None]
    /\ pc = [m \in Mission |-> "none"]
    /\ try = [m \in Mission |-> 0]
    /\ parcel = [m \in Mission |-> "aboard"]
    /\ queue = <<>>
    /\ hand = None
    /\ asleep = FALSE
    /\ forgotten = {}
    /\ stops = 0

-----------------------------------------------------------------------------
(* The orders service.                                                     *)

\* update_order: the UPDATE.  The droneId NoName is a value like any other.
Update(c) ==
    /\ c.at = "sent" /\ c.role # "fleet"
    /\ status' = [status EXCEPT ![c.order] = c.status]
    /\ was' = [was EXCEPT ![c.order] = @ \cup {c.status}]
    /\ drone' = [drone EXCEPT ![c.order] = IF c.drone = None THEN @ ELSE c.drone]
    /\ overwritten' = overwritten \cup
            {o \in {c.order} : drone[o] # None /\ drone'[o] # drone[o]}
    /\ Step(c, [c EXCEPT !.at = "written"])
    /\ UNCHANGED <<claimed, pageVars, missionVars, retryVars, stops>>

\* update_order: the read that is answered and broadcast.
Read(c) ==
    /\ c.at = "written" /\ c.role # "fleet"
    /\ Step(c, [c EXCEPT !.at = "read", !.seen = Label(status[c.order]), !.todo = Page])
    /\ UNCHANGED <<rowVars, claimed, pageVars, missionVars, retryVars, stops>>

\* broadcast: one connection gets the event order_updated.
Broadcast(c, p) ==
    /\ c.at = "read" /\ p \in c.todo
    /\ view' = [view EXCEPT ![p][c.order] = c.seen]
    /\ Step(c, [c EXCEPT !.todo = @ \ {p}])
    /\ UNCHANGED <<rowVars, claimed, launching, clicks, missionVars, retryVars, stops>>

\* Mutant of Claim: without assigned_drone_id IS NULL in the WHERE.
ClaimAnyway(c) ==
    /\ c.at = "sent" /\ c.role = "fleet"
    /\ status' = [status EXCEPT ![c.order] = c.status]
    /\ was' = [was EXCEPT ![c.order] = @ \cup {c.status}]
    /\ drone' = [drone EXCEPT ![c.order] = c.drone]
    /\ Step(c, [c EXCEPT !.at = "written"])
    /\ UNCHANGED <<overwritten, claimed, pageVars, missionVars, retryVars, stops>>

\* assign_drone_to_order: UPDATE ... WHERE assigned_drone_id IS NULL.
Claim(c) ==
    /\ c.at = "sent" /\ c.role = "fleet"
    /\ \/ /\ drone[c.order] = None
          /\ status' = [status EXCEPT ![c.order] = c.status]
          /\ was' = [was EXCEPT ![c.order] = @ \cup {c.status}]
          /\ drone' = [drone EXCEPT ![c.order] = c.drone]
       \/ /\ drone[c.order] # None
          /\ UNCHANGED <<status, was, drone>>
    /\ Step(c, [c EXCEPT !.at = "written"])
    /\ UNCHANGED <<overwritten, claimed, pageVars, missionVars, retryVars, stops>>

\* assign_drone_to_order: the read that decides between 200 and 409.  No page
\* listens to the event order_assigned.
ClaimAnswered(c) ==
    /\ c.at = "written" /\ c.role = "fleet"
    /\ claimed' = [claimed EXCEPT ![c.order] =
                      @ \cup ({c.drone} \cap {drone[c.order]})]
    /\ calls' = calls \ {c}
    /\ UNCHANGED <<rowVars, pageVars, missionVars, retryVars, stops>>

\* Somebody claims an order for a drone.
RequestClaim(o, d) ==
    /\ MayClaim
    /\ Send([Patch("fleet", None, o, "En Route", d) EXCEPT !.status = "DRONE_ASSIGNED"])
    /\ UNCHANGED <<rowVars, claimed, pageVars, missionVars, retryVars, stops>>

-----------------------------------------------------------------------------
(* The callers that wait.                                                  *)

\* The mission has reported, or has left the report to the retry queue.
Told(m) ==
    /\ pc' = [pc EXCEPT ![m] = "home"]
    /\ parcel' = [parcel EXCEPT ![m] = "told"]
    /\ UNCHANGED <<order, try>>

\* The response arrives.
Answer(c) ==
    /\ c.at = "read" /\ c.todo = {}
    /\ calls' = calls \ {c}
    /\ \/ /\ c.role = "gone"
          /\ UNCHANGED <<pageVars, missionVars, retryVars>>
       \/ /\ c.role = "page"
          /\ view' = [view EXCEPT ![c.of][c.order] = c.seen]
          /\ UNCHANGED <<launching, clicks, missionVars, retryVars>>
       \/ /\ c.role = "mission"
          /\ Told(c.of)
          /\ UNCHANGED <<pageVars, retryVars>>
       \/ /\ c.role = "retry"
          /\ hand' = None
          /\ UNCHANGED <<pageVars, missionVars, queue, asleep, forgotten>>
    /\ UNCHANGED <<rowVars, claimed, stops>>

\* Mutant of Unsuccessful: the last failure is only logged.
UnsuccessfulNotQueued(c) ==
    \/ /\ c.role = "mission" /\ try[c.of] < Attempts
       /\ pc' = [pc EXCEPT ![c.of] = "notify"]
       /\ UNCHANGED <<order, try, parcel, retryVars>>
    \/ /\ c.role = "mission" /\ try[c.of] >= Attempts
       /\ Told(c.of)
       /\ UNCHANGED retryVars
    \/ /\ c.role = "retry"
       /\ asleep' = TRUE
       /\ UNCHANGED <<missionVars, queue, hand, forgotten>>
    \/ /\ c.role \notin {"mission", "retry"}
       /\ UNCHANGED <<missionVars, retryVars>>

\* What a caller does without a successful answer: the mission tries again and
\* at last queues the report, the retry loop sleeps, a page tells its user.
Unsuccessful(c) ==
    \/ /\ c.role = "mission" /\ try[c.of] < Attempts
       /\ pc' = [pc EXCEPT ![c.of] = "notify"]
       /\ UNCHANGED <<order, try, parcel, retryVars>>
    \/ /\ c.role = "mission" /\ try[c.of] >= Attempts
       /\ queue' = Append(queue, c.order)
       /\ Told(c.of)
       /\ UNCHANGED <<hand, asleep, forgotten>>
    \/ /\ c.role = "retry"
       /\ asleep' = TRUE
       /\ UNCHANGED <<missionVars, queue, hand, forgotten>>
    \/ /\ c.role \notin {"mission", "retry"}
       /\ UNCHANGED <<missionVars, retryVars>>

\* The call does not arrive, or its handler fails before it has answered.
Fails(c) ==
    /\ CallsFail
    /\ c.at \in {"sent", "written"}
    /\ calls' = calls \ {c}
    /\ Unsuccessful(c)
    /\ UNCHANGED <<rowVars, claimed, pageVars, stops>>

\* The caller's timeout, or a broken connection: the handler runs on.
TimesOut(c) ==
    /\ CallsFail
    /\ c.role \in {"page", "mission", "retry"}
    /\ Step(c, Gone(c))
    /\ Unsuccessful(c)
    /\ UNCHANGED <<rowVars, claimed, pageVars, stops>>

-----------------------------------------------------------------------------
(* The pages.                                                              *)

\* Mutant of PagePatch: the page shows the new status at once.
PagePatchOptimistic(p, o, label) ==
    /\ clicks < MaxClicks
    /\ clicks' = clicks + 1
    /\ Send(Patch("page", p, o, label, None))
    /\ view' = [view EXCEPT ![p][o] = label]

\* updateOrderStatus: the page shows what the answer says, when it comes.
PagePatch(p, o, label) ==
    /\ clicks < MaxClicks
    /\ clicks' = clicks + 1
    /\ Send(Patch("page", p, o, label, None))
    /\ UNCHANGED view

\* The buttons a page has for an order it shows as v: the vendor's, and the
\* admin's Cancel; whether the admin's page believes the drone to be on a
\* mission, and so disables Cancel, is left open.
Button(v) ==
    CASE v = "Placed"           -> {"Accepted", "Declined", "Failed"}
      [] v = "Accepted"         -> {"Cooking", "Failed"}
      [] v = "Cooking"          -> {"Ready for Launch", "Failed"}
      [] v = "Ready for Launch" -> {"Failed"}
      [] v = "En Route"         -> {"Failed"}
      [] OTHER                  -> {}

Click(p, o) ==
    /\ \E label \in Button(view[p][o]) : PagePatch(p, o, label)
    /\ UNCHANGED <<rowVars, claimed, launching, missionVars, retryVars, stops>>

\* launchDroneForOrder: the backend accepts every launch, of any order.
Launch(p, o) ==
    /\ view[p][o] = "Ready for Launch"
    /\ \E m \in Mission :
          /\ pc[m] = "none"
          /\ pc' = [pc EXCEPT ![m] = "assigning"]
          /\ order' = [order EXCEPT ![m] = o]
          /\ launching' = launching \cup {<<p, m>>}
    /\ UNCHANGED <<rowVars, claimed, calls, view, clicks, try, parcel, retryVars, stops>>

\* launchDroneForOrder: the launch does not reach the backend.
LaunchRefused(p, o) ==
    /\ CallsFail
    /\ view[p][o] = "Ready for Launch"
    /\ PagePatch(p, o, "Failed")
    /\ UNCHANGED <<rowVars, claimed, launching, missionVars, retryVars, stops>>

\* launchDroneForOrder: the answer names no drone, and the page stores that.
LaunchAnswered(p, m) ==
    /\ <<p, m>> \in launching
    /\ launching' = launching \ {<<p, m>>}
    /\ view' = [view EXCEPT ![p][order[m]] = "En Route"]
    /\ Send(Unheard(order[m], "En Route", NoName))
    /\ UNCHANGED <<rowVars, claimed, clicks, missionVars, retryVars, stops>>

\* launchDroneForOrder: the answer is lost, the launch is not.
LaunchUnanswered(p, m) ==
    /\ CallsFail
    /\ <<p, m>> \in launching
    /\ launching' = launching \ {<<p, m>>}
    /\ PagePatch(p, order[m], "Failed")
    /\ UNCHANGED <<rowVars, claimed, missionVars, retryVars, stops>>

-----------------------------------------------------------------------------
(* The launch wrapper and the mission.                                     *)

\* _order_launch_wrapper has a drone: it starts the task and tells the service.
Assigned(m, d) ==
    /\ pc[m] = "assigning"
    /\ pc' = [pc EXCEPT ![m] = "flying"]
    /\ Send(Unheard(order[m], "En Route", d))
    /\ UNCHANGED <<rowVars, claimed, pageVars, order, try, parcel, retryVars, stops>>

\* Mutant of DropParcel: the service is told before the package is released.
DropParcelLater(m) ==
    /\ pc[m] = "flying"
    /\ pc' = [pc EXCEPT ![m] = "notify"]
    /\ UNCHANGED <<rowVars, claimed, calls, pageVars, order, try, parcel, retryVars, stops>>

\* execute: landed at the block, the package is released.
DropParcel(m) ==
    /\ pc[m] = "flying"
    /\ pc' = [pc EXCEPT ![m] = "notify"]
    /\ parcel' = [parcel EXCEPT ![m] = "dropped"]
    /\ UNCHANGED <<rowVars, claimed, calls, pageVars, order, try, retryVars, stops>>

\* _notify_delivered: one attempt.
Notify(m) ==
    /\ pc[m] = "notify"
    /\ pc' = [pc EXCEPT ![m] = "await"]
    /\ try' = [try EXCEPT ![m] = @ + 1]
    /\ Send(Patch("mission", m, order[m], "Delivered", None))
    /\ UNCHANGED <<rowVars, claimed, pageVars, order, parcel, retryVars, stops>>

\* execute: home again.
Complete(m) ==
    /\ pc[m] = "home"
    /\ pc' = [pc EXCEPT ![m] = "over"]
    /\ UNCHANGED <<rowVars, claimed, calls, pageVars, order, try, parcel, retryVars, stops>>

\* execute: an exception, on the way out or on the way home.
FlightError(m) ==
    /\ pc[m] \in {"flying", "home"}
    /\ pc' = [pc EXCEPT ![m] = "aborting"]
    /\ UNCHANGED <<rowVars, claimed, calls, pageVars, order, try, parcel, retryVars, stops>>

\* An obstacle alert cancels the task, in _notify_delivered too.
Cancel(m) ==
    /\ MayCancel
    /\ pc[m] \in {"flying", "notify", "await", "home"}
    /\ pc' = [pc EXCEPT ![m] = "aborting"]
    /\ parcel' = [parcel EXCEPT ![m] = IF @ = "dropped" THEN "cut" ELSE @]
    /\ calls' = {IF c.role = "mission" /\ c.of = m THEN Gone(c) ELSE c : c \in calls}
    /\ UNCHANGED <<rowVars, claimed, pageVars, order, try, retryVars, stops>>

\* _handle_mission_failure ends with _notify_failed, unless it is cancelled too.
Abort(m) ==
    /\ pc[m] = "aborting"
    /\ pc' = [pc EXCEPT ![m] = "over"]
    /\ \/ Send(Unheard(order[m], "Failed", None))
       \/ MayCancel /\ UNCHANGED calls
    /\ UNCHANGED <<rowVars, claimed, pageVars, order, try, parcel, retryVars, stops>>

-----------------------------------------------------------------------------
(* The retry queue.                                                        *)

\* _process_retry_queue: get, and the PATCH.
RetryTakes ==
    /\ hand = None /\ queue # <<>>
    /\ hand' = Head(queue)
    /\ queue' = Tail(queue)
    /\ Send(Patch("retry", None, Head(queue), "Delivered", None))
    /\ UNCHANGED <<rowVars, claimed, pageVars, missionVars, asleep, forgotten, stops>>

\* Mutant of RetryPutsBack: the item is not put back.
RetryForgets ==
    /\ asleep
    /\ asleep' = FALSE
    /\ hand' = None
    /\ UNCHANGED <<rowVars, claimed, calls, pageVars, missionVars, queue, forgotten, stops>>

\* _process_retry_queue: 5 s after a failure.
RetryPutsBack ==
    /\ asleep
    /\ asleep' = FALSE
    /\ queue' = Append(queue, hand)
    /\ hand' = None
    /\ UNCHANGED <<rowVars, claimed, calls, pageVars, missionVars, forgotten, stops>>

\* The backend stops, in order or not, and starts again: its tasks end, the
\* queue was in memory, and what it has sent may still arrive.
BackendStops ==
    /\ stops < MaxStops
    /\ stops' = stops + 1
    /\ pc' = [m \in Mission |-> IF pc[m] = "none" THEN "none" ELSE "over"]
    /\ parcel' = [m \in Mission |-> IF parcel[m] = "dropped" THEN "cut" ELSE parcel[m]]
    /\ calls' = {IF c.role \in {"mission", "retry"} THEN Gone(c) ELSE c : c \in calls}
    /\ forgotten' = forgotten \cup {queue[i] : i \in DOMAIN queue} \cup ({hand} \ {None})
    /\ queue' = <<>>
    /\ hand' = None
    /\ asleep' = FALSE
    /\ UNCHANGED <<rowVars, claimed, pageVars, order, try>>

-----------------------------------------------------------------------------
Serve(c) == Update(c) \/ Read(c) \/ (\E p \in Page : Broadcast(c, p)) \/ Answer(c)

Next ==
    \/ \E c \in calls :
          \/ Update(c)
          \/ Read(c)
          \/ \E p \in Page : Broadcast(c, p)
          \/ Claim(c)
          \/ ClaimAnswered(c)
          \/ Answer(c)
          \/ Fails(c)
          \/ TimesOut(c)
    \/ \E o \in Order, d \in Drone : RequestClaim(o, d)
    \/ \E p \in Page, o \in Order : Click(p, o) \/ Launch(p, o) \/ LaunchRefused(p, o)
    \/ \E p \in Page, m \in Mission : LaunchAnswered(p, m) \/ LaunchUnanswered(p, m)
    \/ \E m \in Mission, d \in Drone : Assigned(m, d)
    \/ \E m \in Mission :
          \/ DropParcel(m)
          \/ Notify(m)
          \/ Complete(m)
          \/ FlightError(m)
          \/ Cancel(m)
          \/ Abort(m)
    \/ RetryTakes
    \/ RetryPutsBack
    \/ BackendStops

Spec == Init /\ [][Next]_vars

\* Handlers run on, with a caller or without (or nobody new is served); a
\* PATCH of the retry loop, which asks every 5 s, gets through once: the
\* service is not down for ever, nor each time the loop asks.
FairSpec ==
    /\ Spec
    /\ \A m \in Mission :
          /\ WF_vars(Notify(m))
          /\ WF_vars(\E c \in calls : c.role = "mission" /\ c.of = m /\ Serve(c))
    /\ WF_vars(\E c \in calls : c.role = "retry" /\ Serve(c))
    /\ WF_vars(\E c \in calls : c.role = "gone" /\ Serve(c))
    /\ SF_vars(\E c \in calls : c.role = "retry" /\ Update(c))
    /\ WF_vars(RetryTakes)
    /\ WF_vars(RetryPutsBack)

-----------------------------------------------------------------------------
TypeOK ==
    /\ status \in [Order -> Status]
    /\ drone \in [Order -> Drone \cup {NoName, None}]
    /\ was \in [Order -> SUBSET Status]
    /\ overwritten \subseteq Order
    /\ claimed \in [Order -> SUBSET Drone]
    /\ calls \subseteq Call
    /\ view \in [Page -> [Order -> Shown]]
    /\ launching \subseteq Page \X Mission
    /\ clicks \in 0 .. MaxClicks
    /\ order \in [Mission -> Order \cup {None}]
    /\ pc \in [Mission -> {"none", "assigning", "flying", "notify", "await",
                            "home", "aborting", "over"}]
    /\ try \in [Mission -> 0 .. Attempts]
    /\ parcel \in [Mission -> {"aboard", "dropped", "told", "cut"}]
    /\ queue \in Seq(Order)
    /\ hand \in Order \cup {None}
    /\ asleep \in BOOLEAN
    /\ forgotten \subseteq Order
    /\ stops \in 0 .. MaxStops

Queued(o) == o = hand \/ \E i \in DOMAIN queue : queue[i] = o

\* A report that _notify_delivered has returned from is in the table, or it is
\* in the retry queue or in the hand of its loop, unless the backend stopped
\* (main.py:80-118, mission_executor.py:288-320).
DeliveryKept ==
    \A m \in Mission : parcel[m] = "told" =>
        \/ "DELIVERED" \in was[order[m]]
        \/ Queued(order[m])
        \/ order[m] \in forgotten

Dropped(o) == \E m \in Mission : order[m] = o /\ parcel[m] # "aboard"

\* The table says DELIVERED only of an order whose package has been dropped,
\* whatever is late, repeated or left over in the queue (mission_executor.py:
\* 205-217).
DeliveredIsTrue ==
    \A o \in Order : "DELIVERED" \in was[o] => Dropped(o)

\* Two drones are told that they have claimed one order only if a PATCH has
\* replaced the drone of the order in between (crud.py:244-273).
OneClaim ==
    \A o \in Order : \A d, e \in claimed[o] : d # e => o \in overwritten

\* A drone is launched only for an order that the kitchen has marked as ready,
\* although pages show stale and reordered statuses (AppContext.tsx:110-127).
LaunchedWasReady ==
    \A m \in Mission : order[m] # None => "READY_FOR_PICKUP" \in was[order[m]]

\* A delivery is entered in the table in the end, however many attempts fail,
\* unless the mission is cancelled or the backend stops before it is
\* (main.py:80-118, mission_executor.py:288-320).
DeliveryReported ==
    \A m \in Mission, o \in Order :
        parcel[m] = "dropped" /\ order[m] = o ~>
            "DELIVERED" \in was[o] \/ parcel[m] = "cut" \/ o \in forgotten
=============================================================================
