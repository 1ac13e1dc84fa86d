-------------------------- MODULE OrderStatusProofs --------------------------
(***************************************************************************)
(* Theorems of OrderStatus: deliveries are not lost between the mission    *)
(* and the table, the table does not say DELIVERED too early, two claims   *)
(* do not both succeed, and no order is flown before it is ready.          *)
(***************************************************************************)
EXTENDS OrderStatus, TLAPS

Moved(m) == pc[m] # "none"

\* What a mission's place says of its other fields.
MissionOK ==
    \A m \in Mission :
        /\ Moved(m) => order[m] \in Order
        /\ ~Moved(m) => order[m] = None /\ parcel[m] = "aboard"
        /\ pc[m] \in {"none", "assigning", "flying"} => try[m] = 0
        /\ pc[m] = "notify" => try[m] < Attempts
        /\ pc[m] \in {"notify", "await"} => parcel[m] = "dropped"

\* What a call says of its caller.
Caller(c) ==
    /\ c.role = "page" => c.of \in Page
    /\ c.role = "mission" => /\ c.of \in Mission /\ order[c.of] = c.order
                             /\ pc[c.of] = "await" /\ c.status = "DELIVERED"
    /\ c.role = "retry" => /\ c.of = None /\ hand = c.order /\ ~asleep
                           /\ c.status = "DELIVERED"
    /\ c.role = "fleet" => c.drone \in Drone

\* What it carries, and has read, of its order.
Carries(c) ==
    /\ c.role # "fleet" /\ c.at # "sent" => c.status \in was[c.order]
    /\ c.status = "DELIVERED" => Dropped(c.order)
    /\ c.seen = "Ready for Launch" => "READY_FOR_PICKUP" \in was[c.order]

CallOK == \A c \in calls : Caller(c) /\ Carries(c)

OneCallEach ==
    \A b, c \in calls : b.role \in {"mission", "retry"} /\ b.role = c.role /\ b.of = c.of => b = c

RetryOK == /\ asleep => hand # None
           /\ \A o \in Order : Queued(o) => Dropped(o)

\* What a page shows as ready has been ready.
ViewOK ==
    /\ \A p \in Page, o \in Order :
          view[p][o] = "Ready for Launch" => "READY_FOR_PICKUP" \in was[o]
    /\ \A l \in launching : Moved(l[2])

RowOK == \A o \in Order : status[o] \in was[o]

\* Unless a PATCH came in between, who was told of a claim still has the order.
ClaimOK == \A o \in Order : o \in overwritten \/ claimed[o] \subseteq {drone[o]}

IInv == /\ TypeOK
        /\ MissionOK /\ CallOK /\ OneCallEach /\ RetryOK /\ ViewOK /\ RowOK /\ ClaimOK
        /\ DeliveryKept /\ DeliveredIsTrue /\ LaunchedWasReady

-----------------------------------------------------------------------------
(* Conversions and new calls.                                              *)

LEMMA LabelType ==
    ASSUME NEW s \in Status PROVE Label(s) \in Shown
  BY DEF Label, Status, Shown

LEMMA ReadyLabel ==
    ASSUME NEW s \in Status, Label(s) = "Ready for Launch" PROVE s = "READY_FOR_PICKUP"
  BY DEF Label, Status

LEMMA InDbType ==
    ASSUME NEW label \in Shown PROVE InDb(label) \in Status
  BY DEF InDb, Status, Shown

LEMMA PatchCall ==
    ASSUME NEW role \in Role, NEW who \in Page \cup Mission \cup {None}, NEW o \in Order,
           NEW label \in Shown, NEW d \in Drone \cup {NoName, None}
    PROVE  Patch(role, who, o, label, d) \in Call
  BY InDbType DEF Patch, Call, Shown

LEMMA GoneCall ==
    ASSUME NEW c \in Call PROVE Gone(c) \in Call
  BY DEF Gone, Call, Role

LEMMA CallFields ==
    ASSUME NEW c \in Call
    PROVE  /\ c.role \in Role /\ c.of \in Page \cup Mission \cup {None}
           /\ c.order \in Order /\ c.status \in Status /\ c.drone \in Drone \cup {NoName, None}
           /\ c.at \in {"sent", "written", "read"} /\ c.seen \in Shown /\ c.todo \subseteq Page
           /\ Gone(c) \in Call /\ [c EXCEPT !.at = "written"] \in Call
           /\ \A p : [c EXCEPT !.todo = @ \ {p}] \in Call
           /\ \A l \in Shown :
                [c EXCEPT !.at = "read", !.seen = l, !.todo = Page] \in Call
  BY DEF Call, Gone, Role

-----------------------------------------------------------------------------
(* Types.                                                                  *)

PcType     == pc \in [Mission -> {"none", "assigning", "flying", "notify", "await",
                                  "home", "aborting", "over"}]
ParcelType == parcel \in [Mission -> {"aboard", "dropped", "told", "cut"}]

LEMMA ServerType ==
    ASSUME IInv, NEW c \in calls,
           \/ Update(c) \/ Read(c) \/ (\E p \in Page : Broadcast(c, p)) \/ Claim(c)
           \/ ClaimAnswered(c) \/ Answer(c) \/ Fails(c) \/ TimesOut(c)
    PROVE  TypeOK'
  <1> USE DEF rowVars, pageVars, missionVars, retryVars
  <1>0. TypeOK /\ CallOK /\ c \in Call /\ calls \subseteq Call
    BY DEF IInv, TypeOK
  <1>a. ASSUME NEW b \in Call, Step(c, b) PROVE calls' \subseteq Call
    BY <1>0, <1>a DEF Step
  <1>1. CASE Update(c)
    <2>1. calls' \subseteq Call
      BY <1>0, <1>a, <1>1, CallFields DEF Update
    <2>2. c.order \in Order /\ c.status \in Status /\ c.drone \in Drone \cup {NoName, None}
      BY <1>0, CallFields
    <2> QED
      BY <1>0, <1>1, <2>1, <2>2 DEF Update, TypeOK
  <1>2. CASE Read(c)
    <2>1. Label(status[c.order]) \in Shown
      BY <1>0, CallFields, LabelType DEF TypeOK
    <2>2. calls' \subseteq Call
      BY <1>0, <1>a, <1>2, <2>1, CallFields DEF Read
    <2> QED
      BY <1>0, <1>2, <2>2 DEF Read, TypeOK
  <1>3. ASSUME NEW p \in Page, Broadcast(c, p) PROVE TypeOK'
    <2>1. calls' \subseteq Call
      BY <1>0, <1>a, <1>3, CallFields DEF Broadcast
    <2>2. c.order \in Order /\ c.seen \in Shown
      BY <1>0, CallFields
    <2> QED
      BY <1>0, <1>3, <2>1, <2>2 DEF Broadcast, TypeOK
  <1>4. CASE Claim(c)
    <2>1. calls' \subseteq Call
      BY <1>0, <1>a, <1>4, CallFields DEF Claim
    <2>2. c.order \in Order /\ c.status \in Status /\ c.drone \in Drone \cup {NoName, None}
      BY <1>0, CallFields
    <2>3. /\ status' \in [Order -> Status] /\ was' \in [Order -> SUBSET Status]
          /\ drone' \in [Order -> Drone \cup {NoName, None}]
      <3>1. CASE drone[c.order] = None
        <4>1. /\ status' = [status EXCEPT ![c.order] = c.status]
              /\ was' = [was EXCEPT ![c.order] = @ \cup {c.status}]
              /\ drone' = [drone EXCEPT ![c.order] = c.drone]
          BY <1>4, <3>1 DEF Claim
        <4>2. status' \in [Order -> Status]
          BY <1>0, <2>2, <4>1 DEF TypeOK
        <4>3. was' \in [Order -> SUBSET Status]
          BY <1>0, <2>2, <4>1 DEF TypeOK
        <4>4. drone' \in [Order -> Drone \cup {NoName, None}]
          BY <1>0, <2>2, <4>1 DEF TypeOK
        <4> QED
          BY <4>2, <4>3, <4>4
      <3>2. CASE drone[c.order] # None
        BY <1>0, <1>4, <3>2 DEF Claim, TypeOK
      <3> QED
        BY <3>1, <3>2
    <2> QED
      BY <1>0, <1>4, <2>1, <2>3 DEF Claim, TypeOK
  <1>5. CASE ClaimAnswered(c)
    <2>1. c.order \in Order /\ c.drone \in Drone
      BY <1>0, <1>5, CallFields DEF ClaimAnswered, CallOK, Caller
    <2> QED
      BY <1>0, <1>5, <2>1 DEF ClaimAnswered, TypeOK
  <1>6. CASE Answer(c)
    <2>1. c.order \in Order /\ c.seen \in Shown
      BY <1>0, CallFields
    <2>2. (c.role = "page" => c.of \in Page) /\ (c.role = "mission" => c.of \in Mission)
      BY <1>0 DEF CallOK, Caller
    <2>3. CASE c.role = "page"
      <3>1. view' = [view EXCEPT ![c.of][c.order] = c.seen]
        BY <1>6, <2>3 DEF Answer
      <3>2. view' \in [Page -> [Order -> Shown]]
        BY <1>0, <2>1, <2>2, <2>3, <3>1 DEF TypeOK
      <3> QED
        BY <1>0, <1>6, <2>3, <3>2 DEF Answer, TypeOK
    <2>4. CASE c.role = "mission"
      BY <1>0, <1>6, <2>2, <2>4 DEF Answer, Told, TypeOK
    <2>5. CASE c.role \notin {"page", "mission"}
      BY <1>0, <1>6, <2>5 DEF Answer, TypeOK
    <2> QED
      BY <2>3, <2>4, <2>5
  <1>7. ASSUME Unsuccessful(c)
        PROVE  /\ PcType' /\ ParcelType' /\ queue' \in Seq(Order) /\ asleep' \in BOOLEAN
               /\ UNCHANGED <<order, try, hand, forgotten>>
    <2>1. c.order \in Order /\ (c.role = "mission" => c.of \in Mission)
      BY <1>0, CallFields DEF CallOK, Caller
    <2>2. queue \in Seq(Order) /\ PcType /\ ParcelType /\ asleep \in BOOLEAN
      BY <1>0 DEF TypeOK, PcType, ParcelType
    <2>0. c.role = "mission" => try[c.of] \in Int /\ Attempts \in Int
      BY <1>0, <2>1, OrderAssumption DEF TypeOK
    <2>3. CASE c.role = "mission" /\ try[c.of] < Attempts
      BY <1>7, <2>0, <2>1, <2>2, <2>3 DEF Unsuccessful, PcType, ParcelType
    <2>4. CASE c.role = "mission" /\ try[c.of] >= Attempts
      <3>1. queue' = Append(queue, c.order) /\ Told(c.of) /\ UNCHANGED <<hand, asleep, forgotten>>
        BY <1>7, <2>0, <2>4 DEF Unsuccessful
      <3>2. PcType' /\ ParcelType' /\ UNCHANGED <<order, try>>
        BY <2>1, <2>2, <2>4, <3>1 DEF Told, PcType, ParcelType
      <3> QED
        BY <2>1, <2>2, <3>1, <3>2
    <2>5. CASE c.role = "retry"
      BY <1>7, <2>2, <2>5 DEF Unsuccessful, PcType, ParcelType
    <2>6. CASE c.role \notin {"mission", "retry"}
      BY <1>7, <2>2, <2>6 DEF Unsuccessful, PcType, ParcelType
    <2> QED
      BY <1>7, <2>3, <2>4, <2>5, <2>6 DEF Unsuccessful
  <1>8. CASE Fails(c)
    BY <1>0, <1>7, <1>8 DEF Fails, TypeOK, PcType, ParcelType
  <1>9. CASE TimesOut(c)
    <2>1. calls' \subseteq Call
      BY <1>0, <1>a, <1>9, CallFields DEF TimesOut
    <2> QED
      BY <1>0, <1>7, <1>9, <2>1 DEF TimesOut, TypeOK, PcType, ParcelType
  <1> QED
    BY <1>1, <1>2, <1>3, <1>4, <1>5, <1>6, <1>8, <1>9

LEMMA SendType ==
    ASSUME TypeOK, NEW c \in Call, Send(c) PROVE calls' \subseteq Call
  BY DEF Send, TypeOK

LEMMA PageType ==
    ASSUME IInv,
           \/ \E o \in Order, d \in Drone : RequestClaim(o, d)
           \/ \E p \in Page, o \in Order : Click(p, o) \/ Launch(p, o) \/ LaunchRefused(p, o)
           \/ \E p \in Page, m \in Mission : LaunchAnswered(p, m) \/ LaunchUnanswered(p, m)
    PROVE  TypeOK'
  <1> USE DEF rowVars, pageVars, missionVars, retryVars
  <1>0. TypeOK /\ ViewOK /\ MissionOK
    BY DEF IInv
  <1>1. ASSUME NEW p \in Page, NEW q \in Order, NEW label \in Shown, PagePatch(p, q, label)
        PROVE  calls' \subseteq Call /\ clicks' \in 0 .. MaxClicks /\ view' = view
    <2>1. Patch("page", p, q, label, None) \in Call
      BY PatchCall DEF Role
    <2>2. clicks \in 0 .. MaxClicks
      BY <1>0 DEF TypeOK
    <2>3. clicks + 1 \in 0 .. MaxClicks
      BY <1>1, <2>2, OrderAssumption DEF PagePatch
    <2> QED
      BY <1>0, <1>1, <2>1, <2>3, SendType DEF PagePatch
  <1>2. ASSUME NEW p \in Page, NEW o \in Order, Click(p, o) PROVE TypeOK'
    <2>1. PICK label \in Button(view[p][o]) : PagePatch(p, o, label)
      BY <1>2 DEF Click
    <2>2. label \in Shown
      BY <2>1 DEF Button, Shown
    <2> QED
      BY <1>0, <1>1, <1>2, <2>1, <2>2 DEF Click, TypeOK
  <1>3. ASSUME NEW p \in Page, NEW o \in Order, Launch(p, o) PROVE TypeOK'
    <2>1. PICK n \in Mission :
               /\ pc' = [pc EXCEPT ![n] = "assigning"]
               /\ order' = [order EXCEPT ![n] = o]
               /\ launching' = launching \cup {<<p, n>>}
      BY <1>3 DEF Launch
    <2>2. launching' \subseteq Page \X Mission
      BY <1>0, <2>1 DEF TypeOK
    <2>3. order' \in [Mission -> Order \cup {None}] /\ PcType'
      BY <1>0, <2>1 DEF TypeOK, PcType
    <2> QED
      BY <1>0, <1>3, <2>2, <2>3 DEF Launch, TypeOK, PcType
  <1>4. ASSUME NEW p \in Page, NEW o \in Order, LaunchRefused(p, o) PROVE TypeOK'
    <2>1. calls' \subseteq Call /\ clicks' \in 0 .. MaxClicks /\ view' = view
      BY <1>1, <1>4 DEF LaunchRefused, Shown
    <2> QED
      BY <1>0, <1>4, <2>1 DEF LaunchRefused, TypeOK
  <1>5. ASSUME NEW o \in Order, NEW d \in Drone, RequestClaim(o, d) PROVE TypeOK'
    <2>1. Patch("fleet", None, o, "En Route", d) \in Call
      BY PatchCall DEF Role, Shown
    <2>2. [Patch("fleet", None, o, "En Route", d) EXCEPT !.status = "DRONE_ASSIGNED"] \in Call
      BY <2>1 DEF Call, Status
    <2>3. calls' \subseteq Call
      BY <1>0, <1>5, <2>2, SendType DEF RequestClaim
    <2> QED
      BY <1>0, <1>5, <2>3 DEF RequestClaim, TypeOK
  <1>6. ASSUME NEW p \in Page, NEW m \in Mission, <<p, m>> \in launching
        PROVE  order[m] \in Order
    BY <1>0, <1>6 DEF ViewOK, MissionOK
  <1>7. ASSUME NEW p \in Page, NEW m \in Mission, LaunchAnswered(p, m) PROVE TypeOK'
    <2>1. order[m] \in Order
      BY <1>6, <1>7 DEF LaunchAnswered
    <2>2. calls' \subseteq Call
      BY <1>0, <1>7, <2>1, PatchCall, SendType DEF LaunchAnswered, Unheard, Role, Shown
    <2> QED
      BY <1>0, <1>7, <2>1, <2>2 DEF LaunchAnswered, TypeOK, Shown
  <1>8. ASSUME NEW p \in Page, NEW m \in Mission, LaunchUnanswered(p, m) PROVE TypeOK'
    <2>1. order[m] \in Order
      BY <1>6, <1>8 DEF LaunchUnanswered
    <2>2. calls' \subseteq Call /\ clicks' \in 0 .. MaxClicks /\ view' = view
      BY <1>1, <1>8, <2>1 DEF LaunchUnanswered, Shown
    <2> QED
      BY <1>0, <1>8, <2>2 DEF LaunchUnanswered, TypeOK
  <1> QED
    BY <1>2, <1>3, <1>4, <1>5, <1>7, <1>8

LEMMA MissionType ==
    ASSUME IInv, NEW m \in Mission,
           \/ \E d \in Drone : Assigned(m, d)
           \/ DropParcel(m) \/ Notify(m) \/ Complete(m) \/ FlightError(m) \/ Cancel(m) \/ Abort(m)
    PROVE  TypeOK'
  <1> USE DEF rowVars, pageVars, missionVars, retryVars
  <1>0. TypeOK /\ MissionOK /\ (pc[m] # "none" => order[m] \in Order)
    BY DEF IInv, MissionOK, Moved
  <1>1. ASSUME NEW d \in Drone, Assigned(m, d) PROVE TypeOK'
    <2>1. calls' \subseteq Call
      BY <1>0, <1>1, PatchCall, SendType DEF Assigned, Unheard, Role, Shown
    <2> QED
      BY <1>0, <1>1, <2>1 DEF Assigned, TypeOK
  <1>2. CASE DropParcel(m) \/ Complete(m) \/ FlightError(m)
    BY <1>0, <1>2 DEF DropParcel, Complete, FlightError, TypeOK
  <1>3. CASE Notify(m)
    <2>1. try[m] + 1 \in 0 .. Attempts
      <3>1. try[m] \in 0 .. Attempts /\ try[m] < Attempts
        BY <1>0, <1>3 DEF Notify, MissionOK, TypeOK
      <3> QED
        BY <3>1, OrderAssumption
    <2>2. calls' \subseteq Call
      BY <1>0, <1>3, PatchCall, SendType DEF Notify, Role, Shown
    <2> QED
      BY <1>0, <1>3, <2>1, <2>2 DEF Notify, TypeOK
  <1>4. CASE Cancel(m)
    <2>1. calls' \subseteq Call
      BY <1>0, <1>4, CallFields DEF Cancel, TypeOK
    <2> QED
      BY <1>0, <1>4, <2>1 DEF Cancel, TypeOK
  <1>5. CASE Abort(m)
    <2>1. calls' \subseteq Call
      <3>1. Unheard(order[m], "Failed", None) \in Call
        BY <1>0, <1>5, PatchCall DEF Abort, Unheard, Role, Shown
      <3> QED
        BY <1>0, <1>5, <3>1, SendType DEF Abort, TypeOK
    <2> QED
      BY <1>0, <1>5, <2>1 DEF Abort, TypeOK
  <1> QED
    BY <1>1, <1>2, <1>3, <1>4, <1>5

LEMMA RetryType ==
    ASSUME IInv, RetryTakes \/ RetryPutsBack \/ BackendStops
    PROVE  TypeOK'
  <1> USE DEF rowVars, pageVars, missionVars, retryVars
  <1>0. TypeOK /\ RetryOK
    BY DEF IInv
  <1>1. CASE RetryTakes
    <2>0. queue \in Seq(Order) /\ queue # <<>>
      BY <1>0, <1>1 DEF RetryTakes, TypeOK
    <2>1. Head(queue) \in Order /\ Tail(queue) \in Seq(Order)
      BY <2>0
    <2>2. calls' \subseteq Call
      BY <1>0, <1>1, <2>1, PatchCall, SendType DEF RetryTakes, Role, Shown
    <2> QED
      BY <1>0, <1>1, <2>1, <2>2 DEF RetryTakes, TypeOK
  <1>2. CASE RetryPutsBack
    <2>1. hand \in Order /\ queue \in Seq(Order)
      BY <1>0, <1>2 DEF RetryPutsBack, RetryOK, TypeOK
    <2>2. Append(queue, hand) \in Seq(Order)
      BY <2>1
    <2> QED
      BY <1>0, <1>2, <2>2 DEF RetryPutsBack, TypeOK
  <1>3. CASE BackendStops
    <2>1. calls' \subseteq Call
      BY <1>0, <1>3, CallFields DEF BackendStops, TypeOK
    <2>2. \A i \in DOMAIN queue : queue[i] \in Order
      BY <1>0 DEF TypeOK
    <2>3. forgotten' \subseteq Order
      BY <1>0, <1>3, <2>2 DEF BackendStops, TypeOK
    <2>4. stops' \in 0 .. MaxStops
      BY <1>0, <1>3, OrderAssumption DEF BackendStops, TypeOK
    <2>5. PcType' /\ ParcelType'
      BY <1>0, <1>3 DEF BackendStops, TypeOK, PcType, ParcelType
    <2>6. queue' \in Seq(Order)
      BY <1>3 DEF BackendStops
    <2> QED
      BY <1>0, <1>3, <2>1, <2>3, <2>4, <2>5, <2>6 DEF BackendStops, TypeOK, PcType, ParcelType
  <1> QED
    BY <1>1, <1>2, <1>3

LEMMA StepType ==
    ASSUME IInv, [Next]_vars PROVE TypeOK'
  <1>1. CASE Next
    BY <1>1, ServerType, PageType, MissionType, RetryType DEF Next
  <1>2. CASE UNCHANGED vars
    BY <1>2 DEF IInv, TypeOK, vars, rowVars, pageVars, missionVars, retryVars
  <1> QED
    BY <1>1, <1>2

-----------------------------------------------------------------------------
(* What a step can change.                                                 *)

\* The steps that write a row.
LEMMA RowSteps ==
    ASSUME [Next]_vars
    PROVE  \/ UNCHANGED rowVars
           \/ \E c \in calls : Update(c) \/ Claim(c)
  BY DEF Next, vars, Update, Read, Broadcast, Claim, ClaimAnswered, Answer, Fails, TimesOut,
         RequestClaim, Click, Launch, LaunchRefused, LaunchAnswered, LaunchUnanswered,
         Assigned, DropParcel, Notify, Complete, FlightError, Cancel, Abort,
         RetryTakes, RetryPutsBack, BackendStops

\* The steps of which a mission learns, in the handlers first.
LEMMA MissionSteps ==
    ASSUME [Next]_vars
    PROVE  \/ UNCHANGED missionVars
           \/ \E c \in calls : /\ c.role = "mission"
                               /\ Answer(c) \/ Fails(c) \/ TimesOut(c)
           \/ \E p \in Page, o \in Order : Launch(p, o)
           \/ \E m \in Mission, d \in Drone : Assigned(m, d)
           \/ \E m \in Mission : \/ DropParcel(m) \/ Notify(m) \/ Complete(m)
                                 \/ FlightError(m) \/ Cancel(m) \/ Abort(m)
           \/ BackendStops
  <1>1. ASSUME NEW c \in calls,
               Update(c) \/ Read(c) \/ (\E p \in Page : Broadcast(c, p)) \/ Claim(c)
               \/ ClaimAnswered(c)
        PROVE  UNCHANGED missionVars
    BY <1>1 DEF Update, Read, Broadcast, Claim, ClaimAnswered
  <1>2. ASSUME NEW c \in calls, Answer(c) \/ Fails(c) \/ TimesOut(c), c.role # "mission"
        PROVE  UNCHANGED missionVars
    BY <1>2 DEF Answer, Fails, TimesOut, Unsuccessful
  <1>3. ASSUME NEW p \in Page, \/ \E o \in Order : Click(p, o) \/ LaunchRefused(p, o)
                               \/ \E m \in Mission : LaunchAnswered(p, m) \/ LaunchUnanswered(p, m)
        PROVE  UNCHANGED missionVars
    BY <1>3 DEF Click, LaunchRefused, LaunchAnswered, LaunchUnanswered
  <1>4. ASSUME \/ \E o \in Order, d \in Drone : RequestClaim(o, d)
               \/ RetryTakes \/ RetryPutsBack \/ UNCHANGED vars
        PROVE  UNCHANGED missionVars
    BY <1>4 DEF RequestClaim, RetryTakes, RetryPutsBack, vars
  <1> QED
    BY <1>1, <1>2, <1>3, <1>4 DEF Next

\* The history of a row only grows.
LEMMA RowsGrow ==
    ASSUME IInv, [Next]_vars
    PROVE  \A o \in Order : was[o] \subseteq was'[o]
  <1>0. TypeOK
    BY DEF IInv
  <1>1. ASSUME NEW c \in calls, Update(c) \/ Claim(c)
        PROVE  was' = was \/ was' = [was EXCEPT ![c.order] = @ \cup {c.status}]
    BY <1>1 DEF Update, Claim
  <1> QED
    BY <1>0, <1>1, RowSteps DEF TypeOK, rowVars

\* A mission keeps its order, and a package that was dropped stays so.
LEMMA MissionsGrow ==
    ASSUME IInv, [Next]_vars
    PROVE  /\ \A m \in Mission : Moved(m) => Moved(m)' /\ order'[m] = order[m]
           /\ \A o \in Order : Dropped(o) => Dropped(o)'
  <1>0. TypeOK /\ MissionOK /\ CallOK /\ calls \subseteq Call
    BY DEF IInv, TypeOK
  <1> SUFFICES \A m \in Mission :
                  /\ Moved(m) => Moved(m)' /\ order'[m] = order[m]
                  /\ parcel[m] # "aboard" => parcel'[m] # "aboard"
    BY <1>0 DEF MissionOK, Dropped
  <1> USE DEF Moved
  <1>1. CASE UNCHANGED missionVars
    BY <1>1 DEF missionVars
  <1>2. ASSUME NEW c \in calls, c.role = "mission", Answer(c) \/ Fails(c) \/ TimesOut(c)
        PROVE  /\ order' = order
               /\ pc' = [pc EXCEPT ![c.of] = "home"] \/ pc' = [pc EXCEPT ![c.of] = "notify"]
               /\ parcel' = parcel \/ parcel' = [parcel EXCEPT ![c.of] = "told"]
    BY <1>2 DEF Answer, Fails, TimesOut, Unsuccessful, Told
  <1>3. ASSUME NEW p \in Page, NEW o \in Order, Launch(p, o)
        PROVE  /\ parcel' = parcel
               /\ \E n \in Mission : /\ pc[n] = "none"
                                     /\ pc' = [pc EXCEPT ![n] = "assigning"]
                                     /\ order' = [order EXCEPT ![n] = o]
    BY <1>3 DEF Launch
  <1>4. ASSUME NEW n \in Mission,
               \/ \E d \in Drone : Assigned(n, d)
               \/ DropParcel(n) \/ Notify(n) \/ Complete(n) \/ FlightError(n) \/ Cancel(n) \/ Abort(n)
        PROVE  /\ order' = order
               /\ \E x \in {"flying", "notify", "await", "over", "aborting"} :
                      pc' = [pc EXCEPT ![n] = x]
               /\ \/ parcel' = parcel \/ parcel' = [parcel EXCEPT ![n] = "dropped"]
                  \/ parcel' = [parcel EXCEPT ![n] = IF @ = "dropped" THEN "cut" ELSE @]
    BY <1>4 DEF Assigned, DropParcel, Notify, Complete, FlightError, Cancel, Abort
  <1>5. CASE BackendStops
    BY <1>0, <1>5 DEF BackendStops, TypeOK
  <1>6. \A c \in calls : c.role = "mission" => c.of \in Mission
    BY <1>0 DEF CallOK, Caller
  <1>7. ASSUME NEW c \in calls, c.role = "mission", Answer(c) \/ Fails(c) \/ TimesOut(c),
               NEW m \in Mission
        PROVE  /\ Moved(m) => Moved(m)' /\ order'[m] = order[m]
               /\ parcel[m] # "aboard" => parcel'[m] # "aboard"
    BY <1>0, <1>2, <1>6, <1>7 DEF TypeOK
  <1>8. ASSUME NEW p \in Page, NEW o \in Order, Launch(p, o), NEW m \in Mission
        PROVE  /\ Moved(m) => Moved(m)' /\ order'[m] = order[m]
               /\ parcel[m] # "aboard" => parcel'[m] # "aboard"
    BY <1>0, <1>3, <1>8 DEF TypeOK
  <1>9. ASSUME NEW n \in Mission,
               \/ \E d \in Drone : Assigned(n, d)
               \/ DropParcel(n) \/ Notify(n) \/ Complete(n) \/ FlightError(n) \/ Cancel(n) \/ Abort(n),
               NEW m \in Mission
        PROVE  /\ Moved(m) => Moved(m)' /\ order'[m] = order[m]
               /\ parcel[m] # "aboard" => parcel'[m] # "aboard"
    BY <1>0, <1>4, <1>9 DEF TypeOK
  <1> QED
    BY <1>1, <1>5, <1>7, <1>8, <1>9, MissionSteps

LEMMA InitIInv == ASSUME Init PROVE IInv
  <1> USE DEF Init
  <1>1. Start \in Status /\ Label(Start) \in Shown
    BY OrderAssumption, LabelType DEF Status
  <1>2. 0 \in 0 .. MaxClicks /\ 0 \in 0 .. Attempts /\ 0 \in 0 .. MaxStops
    BY OrderAssumption
  <1>3. TypeOK
    <2>1. /\ status \in [Order -> Status] /\ drone \in [Order -> Drone \cup {NoName, None}]
          /\ was \in [Order -> SUBSET Status] /\ overwritten \subseteq Order
      BY <1>1
    <2>2. claimed \in [Order -> SUBSET Drone] /\ calls \subseteq Call
      OBVIOUS
    <2>3. view \in [Page -> [Order -> Shown]] /\ launching \subseteq Page \X Mission
      BY <1>1
    <2>4. /\ order \in [Mission -> Order \cup {None}] /\ PcType /\ ParcelType
          /\ try \in [Mission -> 0 .. Attempts]
      BY <1>2 DEF PcType, ParcelType
    <2>5. queue \in Seq(Order)
      OBVIOUS
    <2>6. hand \in Order \cup {None} /\ forgotten \subseteq Order /\ asleep \in BOOLEAN
      <3>1. asleep = FALSE
        OBVIOUS
      <3>2. asleep \in BOOLEAN
        BY <3>1
      <3> QED
        BY <3>2
    <2> QED
      BY <1>2, <2>1, <2>2, <2>3, <2>4, <2>5, <2>6 DEF TypeOK, PcType, ParcelType
  <1>4. ViewOK
    BY <1>1, ReadyLabel DEF ViewOK
  <1>5. MissionOK /\ CallOK /\ OneCallEach /\ RowOK /\ ClaimOK
    BY OrderAssumption DEF MissionOK, Moved, CallOK, OneCallEach, RowOK, ClaimOK
  <1>6. RetryOK /\ DeliveryKept /\ DeliveredIsTrue /\ LaunchedWasReady
    BY OrderAssumption DEF RetryOK, Queued, DeliveryKept, DeliveredIsTrue, LaunchedWasReady
  <1> QED
    BY <1>3, <1>4, <1>5, <1>6 DEF IInv

-----------------------------------------------------------------------------
(* Missions and their calls.                                               *)

LEMMA MissionStep ==
    ASSUME IInv, [Next]_vars PROVE MissionOK'
  <1>0. TypeOK /\ MissionOK /\ CallOK /\ OrderAssumption
    BY OrderAssumption DEF IInv
  <1>t. Attempts \in Int /\ 0 < Attempts /\ \A m \in Mission : try[m] \in Int
    BY <1>0 DEF OrderAssumption, TypeOK
  <1>1. ASSUME NEW c \in calls, c.role = "mission", Answer(c) \/ Fails(c) \/ TimesOut(c)
        PROVE  MissionOK'
    <2>1. /\ c.of \in Mission /\ pc[c.of] = "await" /\ order[c.of] = c.order
          /\ parcel[c.of] = "dropped"
      BY <1>0, <1>1 DEF CallOK, Caller, MissionOK
    <2>2. \/ Told(c.of)
          \/ /\ try[c.of] < Attempts
             /\ pc' = [pc EXCEPT ![c.of] = "notify"]
             /\ UNCHANGED <<order, try, parcel>>
      BY <1>1 DEF Answer, Fails, TimesOut, Unsuccessful
    <2>3. CASE Told(c.of)
      BY <1>0, <2>1, <2>3 DEF Told, MissionOK, Moved, TypeOK
    <2>4. CASE /\ try[c.of] < Attempts
               /\ pc' = [pc EXCEPT ![c.of] = "notify"]
               /\ UNCHANGED <<order, try, parcel>>
      BY <1>0, <2>1, <2>4 DEF MissionOK, Moved, TypeOK
    <2> QED
      BY <2>2, <2>3, <2>4
  <1>2. ASSUME NEW p \in Page, NEW o \in Order, Launch(p, o) PROVE MissionOK'
    BY <1>0, <1>2 DEF Launch, MissionOK, Moved, TypeOK
  <1>3. ASSUME NEW m \in Mission, NEW d \in Drone, Assigned(m, d) PROVE MissionOK'
    BY <1>0, <1>3 DEF Assigned, MissionOK, Moved, TypeOK
  <1>4. ASSUME NEW m \in Mission, DropParcel(m) PROVE MissionOK'
    BY <1>0, <1>t, <1>4 DEF DropParcel, MissionOK, Moved, TypeOK
  <1>5. ASSUME NEW m \in Mission, Notify(m) PROVE MissionOK'
    BY <1>0, <1>t, <1>5 DEF Notify, MissionOK, Moved, TypeOK
  <1>6. ASSUME NEW m \in Mission, Complete(m) \/ FlightError(m) \/ Abort(m) PROVE MissionOK'
    BY <1>0, <1>6 DEF Complete, FlightError, Abort, MissionOK, Moved, TypeOK
  <1>7. ASSUME NEW m \in Mission, Cancel(m) PROVE MissionOK'
    BY <1>0, <1>7 DEF Cancel, MissionOK, Moved, TypeOK
  <1>8. CASE BackendStops
    BY <1>0, <1>8 DEF BackendStops, MissionOK, Moved, TypeOK
  <1>9. CASE UNCHANGED missionVars
    BY <1>0, <1>9 DEF missionVars, MissionOK, Moved
  <1> QED
    BY <1>1, <1>2, <1>3, <1>4, <1>5, <1>6, <1>7, <1>8, <1>9, MissionSteps

\* Who fills a new call in.
LEMMA PatchFields ==
    ASSUME NEW role, NEW who, NEW o, NEW label \in Shown, NEW d, NEW c,
           c = Patch(role, who, o, label, d)
    PROVE  /\ c.role = role /\ c.of = who /\ c.order = o /\ c.drone = d
           /\ c.at = "sent" /\ c.seen = "Placed"
           /\ c.status = "DELIVERED" <=> label = "Delivered"
  BY DEF Patch, InDb, Shown

\* A new call carries nothing unless it reports a delivery.
LEMMA SendCarries ==
    ASSUME NEW role, NEW who, NEW o, NEW label \in Shown, NEW d, NEW c,
           c = Patch(role, who, o, label, d),
           label = "Delivered" => Dropped(o)'
    PROVE  Carries(c)'
  <1>1. /\ c.order = o /\ c.at = "sent" /\ c.seen = "Placed"
        /\ c.status = "DELIVERED" <=> label = "Delivered"
    BY PatchFields
  <1> QED
    BY <1>1 DEF Carries

LEMMA CallsCarry ==
    ASSUME IInv, [Next]_vars, NEW c \in calls'
    PROVE  Carries(c)'
  <1>0. /\ TypeOK /\ MissionOK /\ CallOK /\ RetryOK /\ ViewOK /\ RowOK
        /\ calls \subseteq Call
    BY DEF IInv, TypeOK
  <1> USE DEF rowVars
  <1>1. ASSUME NEW b \in calls PROVE Carries(b)'
    <2>1. b.order \in Order /\ Carries(b)
      BY <1>0, CallFields DEF CallOK
    <2> QED
      BY <2>1, RowsGrow, MissionsGrow DEF Carries
  <1>2. ASSUME NEW b \in calls, b.role # "fleet" PROVE Carries(Gone(b))'
    <2>1. /\ Gone(b).order = b.order /\ Gone(b).at = b.at /\ Gone(b).status = b.status
          /\ Gone(b).seen = b.seen
      BY <1>0 DEF Gone, Call
    <2> QED
      BY <1>1, <1>2, <2>1 DEF Carries
  <1>3. ASSUME NEW b \in calls, Update(b) PROVE Carries(c)'
    <2>1. c \in calls \/ c = [b EXCEPT !.at = "written"]
      BY <1>3 DEF Update, Step
    <2>2. b.status \in was'[b.order]
      BY <1>0, <1>3, CallFields DEF Update, TypeOK
    <2>3. /\ [b EXCEPT !.at = "written"].order = b.order
          /\ [b EXCEPT !.at = "written"].status = b.status
          /\ [b EXCEPT !.at = "written"].seen = b.seen
      BY <1>0 DEF Call
    <2> QED
      BY <1>1, <2>1, <2>2, <2>3 DEF Carries
  <1>4. ASSUME NEW b \in calls, Read(b) PROVE Carries(c)'
    <2> DEFINE r == [b EXCEPT !.at = "read", !.seen = Label(status[b.order]), !.todo = Page]
    <2>1. c \in calls \/ c = r
      BY <1>4 DEF Read, Step
    <2>2. /\ r.order = b.order /\ r.status = b.status /\ r.seen = Label(status[b.order])
          /\ r.role = b.role
      BY <1>0 DEF Call
    <2>3. b.order \in Order /\ status[b.order] \in Status /\ status[b.order] \in was'[b.order]
      BY <1>0, <1>4, CallFields DEF Read, RowOK, TypeOK
    <2>4. r.seen = "Ready for Launch" => "READY_FOR_PICKUP" \in was'[b.order]
      BY <2>2, <2>3, ReadyLabel
    <2>5. b.status \in was'[b.order] /\ (b.status = "DELIVERED" => Dropped(b.order)')
      BY <1>1, <1>4 DEF Read, Carries
    <2> QED
      BY <1>1, <2>1, <2>2, <2>4, <2>5 DEF Carries
  <1>5. ASSUME NEW b \in calls, NEW p \in Page, Broadcast(b, p) PROVE Carries(c)'
    <2> DEFINE r == [b EXCEPT !.todo = @ \ {p}]
    <2>1. c \in calls \/ c = r
      BY <1>5 DEF Broadcast, Step
    <2>2. /\ r.order = b.order /\ r.status = b.status /\ r.seen = b.seen /\ r.role = b.role
          /\ r.at = b.at
      BY <1>0 DEF Call
    <2> QED
      BY <1>1, <2>1, <2>2 DEF Carries
  <1>6. ASSUME NEW b \in calls, Claim(b) PROVE Carries(c)'
    <2> DEFINE r == [b EXCEPT !.at = "written"]
    <2>1. c \in calls \/ c = r
      BY <1>6 DEF Claim, Step
    <2>2. r.order = b.order /\ r.status = b.status /\ r.seen = b.seen /\ r.role = "fleet"
      BY <1>0, <1>6 DEF Call, Claim
    <2> QED
      BY <1>1, <2>1, <2>2 DEF Carries
  <1>7. ASSUME NEW b \in calls, ClaimAnswered(b) \/ Answer(b) \/ Fails(b) PROVE Carries(c)'
    BY <1>1, <1>7 DEF ClaimAnswered, Answer, Fails
  <1>8. ASSUME NEW b \in calls, TimesOut(b) PROVE Carries(c)'
    BY <1>1, <1>2, <1>8 DEF TimesOut, Step
  <1>9. ASSUME NEW m \in Mission, Cancel(m) PROVE Carries(c)'
    BY <1>1, <1>2, <1>9 DEF Cancel
  <1>10. CASE BackendStops
    BY <1>1, <1>2, <1>10 DEF BackendStops
  <1>11. ASSUME NEW p \in Page, NEW o, NEW label \in Shown, label # "Delivered",
                PagePatch(p, o, label)
         PROVE  Carries(c)'
    BY <1>1, <1>11, SendCarries DEF PagePatch, Send
  <1>12. ASSUME NEW p \in Page, NEW o \in Order,
                Click(p, o) \/ Launch(p, o) \/ LaunchRefused(p, o)
         PROVE  Carries(c)'
    <2>1. \A label \in Button(view[p][o]) : label \in Shown \ {"Delivered"}
      BY DEF Button, Shown
    <2> QED
      BY <1>1, <1>11, <1>12, <2>1 DEF Click, Launch, LaunchRefused, Shown
  <1>13. ASSUME NEW p \in Page, NEW m \in Mission, LaunchAnswered(p, m) \/ LaunchUnanswered(p, m)
         PROVE  Carries(c)'
    <2>1. CASE LaunchAnswered(p, m)
      <3>1. c \in calls \/ c = Patch("gone", None, order[m], "En Route", NoName)
        BY <2>1 DEF LaunchAnswered, Unheard, Send
      <3> QED
        BY <1>1, <3>1, SendCarries DEF Shown
    <2>2. CASE LaunchUnanswered(p, m)
      BY <1>11, <2>2 DEF LaunchUnanswered, Shown
    <2> QED
      BY <1>13, <2>1, <2>2
  <1>14. ASSUME NEW o \in Order, NEW d \in Drone, RequestClaim(o, d) PROVE Carries(c)'
    <2> DEFINE f == Patch("fleet", None, o, "En Route", d)
               r == [f EXCEPT !.status = "DRONE_ASSIGNED"]
    <2>1. c \in calls \/ c = r
      BY <1>14 DEF RequestClaim, Send
    <2>2. f \in Call
      BY PatchCall DEF Role, Shown
    <2>3. r.role = f.role /\ r.at = f.at /\ r.seen = f.seen /\ r.status = "DRONE_ASSIGNED"
      BY <2>2 DEF Call
    <2>4. f.role = "fleet" /\ f.at = "sent" /\ f.seen = "Placed"
      BY DEF Patch
    <2> HIDE DEF f, r
    <2> QED
      BY <1>1, <2>1, <2>3, <2>4 DEF Carries
  <1>15. ASSUME NEW m \in Mission,
                (\E d \in Drone : Assigned(m, d)) \/ Abort(m)
         PROVE  Carries(c)'
    <2>1. \/ c \in calls
          \/ \E d \in Drone : c = Patch("gone", None, order[m], "En Route", d)
          \/ c = Patch("gone", None, order[m], "Failed", None)
      BY <1>15 DEF Assigned, Abort, Unheard, Send
    <2> QED
      BY <1>1, <2>1, SendCarries DEF Shown
  <1>16. ASSUME NEW m \in Mission, Notify(m) PROVE Carries(c)'
    <2>1. c \in calls \/ c = Patch("mission", m, order[m], "Delivered", None)
      BY <1>16 DEF Notify, Send
    <2>2. order[m] \in Order /\ Dropped(order[m])
      BY <1>0, <1>16 DEF Notify, MissionOK, Moved, Dropped
    <2>3. PICK o \in Order : o = order[m] /\ Dropped(o)'
      BY <2>2, MissionsGrow
    <2> QED
      BY <1>1, <2>1, <2>3, SendCarries DEF Shown
  <1>17. ASSUME NEW m \in Mission, DropParcel(m) \/ Complete(m) \/ FlightError(m) PROVE Carries(c)'
    BY <1>1, <1>17 DEF DropParcel, Complete, FlightError
  <1>18. CASE RetryTakes
    <2>1. queue \in Seq(Order) /\ queue # <<>>
      BY <1>0, <1>18 DEF RetryTakes, TypeOK
    <2>2. Head(queue) \in Order /\ 1 \in DOMAIN queue /\ queue[1] = Head(queue)
      BY <2>1
    <2>3. PICK o \in Order : o = Head(queue)
      BY <2>2
    <2>4. Dropped(o)'
      <3>1. Queued(o)
        BY <2>2, <2>3 DEF Queued
      <3> QED
        BY <1>0, <3>1, MissionsGrow DEF RetryOK
    <2>5. c \in calls \/ c = Patch("retry", None, o, "Delivered", None)
      BY <1>18, <2>3 DEF RetryTakes, Send
    <2> QED
      BY <1>1, <2>4, <2>5, SendCarries DEF Shown
  <1>19. CASE RetryPutsBack \/ UNCHANGED vars
    BY <1>1, <1>19 DEF RetryPutsBack, vars
  <1>20. CASE Next
    BY <1>3, <1>4, <1>5, <1>6, <1>7, <1>8, <1>9, <1>10, <1>12, <1>13, <1>14, <1>15,
       <1>16, <1>17, <1>18, <1>19, <1>20 DEF Next
  <1> QED
    BY <1>19, <1>20

\* A handler's step leaves a call its caller.
Same(b, c) == c.role = b.role /\ c.of = b.of /\ c.order = b.order /\ c.status = b.status
              /\ c.drone = b.drone

LEMMA ServerCalls ==
    ASSUME calls \subseteq Call, NEW b \in calls,
           Update(b) \/ Read(b) \/ (\E p \in Page : Broadcast(b, p)) \/ Claim(b)
    PROVE  /\ UNCHANGED <<missionVars, retryVars>>
           /\ \E r : calls' = (calls \ {b}) \cup {r} /\ Same(b, r)
  <1> USE DEF missionVars, retryVars
  <1>1. ASSUME NEW r, Step(b, r), Same(b, r)
        PROVE  \E q : calls' = (calls \ {b}) \cup {q} /\ Same(b, q)
    BY <1>1 DEF Step
  <1>2. CASE Update(b) \/ Claim(b)
    <2>1. Same(b, [b EXCEPT !.at = "written"])
      BY DEF Same, Call
    <2> QED
      BY <1>1, <1>2, <2>1 DEF Update, Claim
  <1>3. CASE Read(b)
    <2> DEFINE r == [b EXCEPT !.at = "read", !.seen = Label(status[b.order]), !.todo = Page]
    <2>1. Same(b, r)
      BY DEF Same, Call
    <2>2. Step(b, r) /\ UNCHANGED <<missionVars, retryVars>>
      BY <1>3 DEF Read
    <2> HIDE DEF r
    <2> QED
      BY <1>1, <2>1, <2>2
  <1>4. ASSUME NEW p \in Page, Broadcast(b, p)
        PROVE  /\ UNCHANGED <<missionVars, retryVars>>
               /\ \E r : calls' = (calls \ {b}) \cup {r} /\ Same(b, r)
    <2>1. Same(b, [b EXCEPT !.todo = @ \ {p}])
      BY DEF Same, Call
    <2> QED
      BY <1>1, <1>4, <2>1 DEF Broadcast
  <1> QED
    BY <1>2, <1>3, <1>4

\* The other steps end calls, make them nobody's, or send one.
LEMMA OtherCalls ==
    ASSUME [Next]_vars
    PROVE  \/ calls' = calls
           \/ \E b \in calls : \/ Update(b) \/ Read(b) \/ (\E p \in Page : Broadcast(b, p))
                               \/ Claim(b)
           \/ \E b \in calls : /\ calls' = calls \ {b}
                               /\ ClaimAnswered(b) \/ Answer(b) \/ Fails(b)
           \/ \E b \in calls : TimesOut(b)
           \/ \E m \in Mission : Notify(m) \/ Cancel(m)
           \/ RetryTakes \/ BackendStops
           \/ \E role \in {"page", "gone", "fleet"} : \E c : Send(c) /\ c.role = role
  <1>0. \A who, o, label, d : /\ Patch("page", who, o, label, d).role = "page"
                              /\ Patch("gone", who, o, label, d).role = "gone"
    BY DEF Patch
  <1>1. ASSUME NEW b \in calls, ClaimAnswered(b) \/ Answer(b) \/ Fails(b)
        PROVE  calls' = calls \ {b}
    BY <1>1 DEF ClaimAnswered, Answer, Fails
  <1>2. ASSUME NEW p, NEW o, NEW label, PagePatch(p, o, label)
        PROVE  \E c : Send(c) /\ c.role = "page"
    BY <1>0, <1>2 DEF PagePatch
  <1>3. ASSUME NEW o \in Order, NEW d \in Drone, RequestClaim(o, d)
        PROVE  \E c : Send(c) /\ c.role = "fleet"
    <2> DEFINE r == [Patch("fleet", None, o, "En Route", d) EXCEPT !.status = "DRONE_ASSIGNED"]
    <2>1. r.role = "fleet"
      BY DEF Patch
    <2>2. Send(r)
      BY <1>3 DEF RequestClaim
    <2> HIDE DEF r
    <2> QED
      BY <2>1, <2>2
  <1>4. ASSUME NEW p \in Page, NEW o \in Order, Click(p, o) \/ Launch(p, o) \/ LaunchRefused(p, o)
        PROVE  calls' = calls \/ \E c : Send(c) /\ c.role = "page"
    BY <1>2, <1>4 DEF Click, Launch, LaunchRefused
  <1>5. ASSUME NEW p \in Page, NEW m \in Mission, LaunchAnswered(p, m) \/ LaunchUnanswered(p, m)
        PROVE  \E role \in {"page", "gone"} : \E c : Send(c) /\ c.role = role
    <2>1. CASE LaunchAnswered(p, m)
      <3>1. Send(Patch("gone", None, order[m], "En Route", NoName))
        BY <2>1 DEF LaunchAnswered, Unheard
      <3> QED
        BY <1>0, <3>1
    <2>2. CASE LaunchUnanswered(p, m)
      BY <1>2, <2>2 DEF LaunchUnanswered
    <2> QED
      BY <1>5, <2>1, <2>2
  <1>6. ASSUME NEW m \in Mission, (\E d \in Drone : Assigned(m, d)) \/ Abort(m)
               \/ DropParcel(m) \/ Complete(m) \/ FlightError(m)
        PROVE  calls' = calls \/ \E c : Send(c) /\ c.role = "gone"
    <2>1. \/ calls' = calls
          \/ \E d \in Drone : Send(Patch("gone", None, order[m], "En Route", d))
          \/ Send(Patch("gone", None, order[m], "Failed", None))
      BY <1>6 DEF Assigned, Abort, DropParcel, Complete, FlightError, Unheard
    <2> QED
      BY <1>0, <2>1
  <1>7. ASSUME RetryPutsBack \/ UNCHANGED vars PROVE calls' = calls
    BY <1>7 DEF RetryPutsBack, vars
  <1> QED
    BY <1>1, <1>3, <1>4, <1>5, <1>6, <1>7 DEF Next

LEMMA OneCallStep ==
    ASSUME IInv, [Next]_vars PROVE OneCallEach'
  <1>0. /\ TypeOK /\ MissionOK /\ CallOK /\ OneCallEach /\ RetryOK
        /\ calls \subseteq Call
    BY DEF IInv, TypeOK
  <1>1. CASE calls' \subseteq calls
    BY <1>0, <1>1 DEF OneCallEach
  <1>2. ASSUME NEW b \in calls, NEW r, calls' = (calls \ {b}) \cup {r},
               Same(b, r) \/ r.role \notin {"mission", "retry"}
        PROVE  OneCallEach'
    BY <1>0, <1>2 DEF OneCallEach, Same
  <1>3. ASSUME NEW r, calls' = calls \cup {r}, r.role \notin {"mission", "retry"}
        PROVE  OneCallEach'
    BY <1>0, <1>3 DEF OneCallEach
  <1>4. ASSUME NEW b \in calls, TimesOut(b) PROVE OneCallEach'
    <2>1. Gone(b).role = "gone"
      BY <1>0 DEF Gone, Call
    <2> QED
      BY <1>2, <1>4, <2>1 DEF TimesOut, Step
  <1>5. ASSUME NEW m \in Mission, Notify(m) PROVE OneCallEach'
    <2> DEFINE r == Patch("mission", m, order[m], "Delivered", None)
    <2>1. calls' = calls \cup {r} /\ r.role = "mission" /\ r.of = m
      BY <1>5 DEF Notify, Send, Patch
    <2>2. \A c \in calls : ~(c.role = "mission" /\ c.of = m)
      BY <1>0, <1>5 DEF Notify, CallOK, Caller
    <2> HIDE DEF r
    <2> QED
      BY <1>0, <2>1, <2>2 DEF OneCallEach
  <1>6. CASE RetryTakes
    <2> DEFINE r == Patch("retry", None, Head(queue), "Delivered", None)
    <2>1. calls' = calls \cup {r} /\ r.role = "retry"
      BY <1>6 DEF RetryTakes, Send, Patch
    <2>2. \A c \in calls : c.role # "retry"
      BY <1>0, <1>6, CallFields, OrderAssumption DEF RetryTakes, CallOK, Caller
    <2> HIDE DEF r
    <2> QED
      BY <1>0, <2>1, <2>2 DEF OneCallEach
  <1>7. \A b \in calls : Gone(b).role = "gone"
    BY <1>0 DEF Gone, Call
  <1>8. ASSUME NEW m \in Mission, Cancel(m) PROVE OneCallEach'
    <2>1. \A c \in calls' : c \in calls \/ c.role = "gone"
      BY <1>7, <1>8 DEF Cancel
    <2> QED
      BY <1>0, <2>1 DEF OneCallEach
  <1>9. CASE BackendStops
    <2>1. \A c \in calls' : c \in calls \/ c.role = "gone"
      BY <1>7, <1>9 DEF BackendStops
    <2> QED
      BY <1>0, <2>1 DEF OneCallEach
  <1> QED
    BY <1>0, <1>1, <1>2, <1>3, <1>4, <1>5, <1>6, <1>8, <1>9, OtherCalls, ServerCalls DEF Send

LEMMA CallsCaller ==
    ASSUME IInv, [Next]_vars, NEW c \in calls' PROVE Caller(c)'
  <1>0. /\ TypeOK /\ MissionOK /\ CallOK /\ OneCallEach /\ RetryOK
        /\ calls \subseteq Call
    BY DEF IInv, TypeOK
  <1>a. \A b \in calls : Caller(b) /\ b.order \in Order /\ (b.role = "mission" => b.of \in Mission)
    BY <1>0, CallFields DEF CallOK, Caller
  <1>b. \A b \in calls : Gone(b).role = "gone"
    BY <1>0 DEF Gone, Call
  <1>c. ASSUME c.role = "gone" PROVE Caller(c)'
    BY <1>c DEF Caller
  <1> USE DEF missionVars, retryVars
  <1>1. ASSUME NEW b \in calls,
               Update(b) \/ Read(b) \/ (\E p \in Page : Broadcast(b, p)) \/ Claim(b)
        PROVE  Caller(c)'
    <2>1. PICK r : calls' = (calls \ {b}) \cup {r} /\ Same(b, r)
      BY <1>0, <1>1, ServerCalls
    <2>2. UNCHANGED <<missionVars, retryVars>>
      BY <1>0, <1>1, ServerCalls
    <2>3. PICK e \in calls : Same(e, c)
      BY <2>1 DEF Same
    <2>4. /\ c.role = e.role /\ c.of = e.of /\ c.order = e.order /\ c.status = e.status
          /\ c.drone = e.drone
      BY <2>3 DEF Same
    <2> QED
      BY <1>a, <2>2, <2>4 DEF Caller
  <1>2. ASSUME NEW b \in calls, c \in calls, c # b, UNCHANGED <<order, hand>>,
               /\ b.role = "mission"
               /\ \E x : pc' = [pc EXCEPT ![b.of] = x]
               /\ UNCHANGED asleep
        PROVE  Caller(c)'
    <2>1. c.role = "mission" => c.of # b.of /\ c.of \in Mission
      BY <1>0, <1>a, <1>2 DEF OneCallEach
    <2> QED
      BY <1>0, <1>a, <1>2, <2>1 DEF Caller, TypeOK
  <1>3. ASSUME NEW b \in calls, c \in calls, c # b, UNCHANGED <<order, pc>>, b.role = "retry"
        PROVE  Caller(c)'
    <2>1. c.role # "retry"
      BY <1>0, <1>a, <1>3 DEF OneCallEach, Caller
    <2> QED
      BY <1>a, <1>3, <2>1 DEF Caller
  <1>4. ASSUME c \in calls, UNCHANGED <<order, pc, hand, asleep>> PROVE Caller(c)'
    BY <1>a, <1>4 DEF Caller
  <1>5. ASSUME NEW b \in calls, c \in calls, c # b,
               ClaimAnswered(b) \/ Answer(b) \/ Fails(b) \/ TimesOut(b)
        PROVE  Caller(c)'
    <2>1. \/ UNCHANGED <<order, pc, hand, asleep>>
          \/ UNCHANGED <<order, pc>> /\ b.role = "retry"
          \/ /\ b.role = "mission" /\ UNCHANGED <<order, hand, asleep>>
             /\ \E x : pc' = [pc EXCEPT ![b.of] = x]
      BY <1>5 DEF ClaimAnswered, Answer, Fails, TimesOut, Unsuccessful, Told
    <2> QED
      BY <1>2, <1>3, <1>4, <1>5, <2>1
  <1>6. ASSUME NEW b \in calls, TimesOut(b) PROVE Caller(c)'
    BY <1>b, <1>c, <1>5, <1>6 DEF TimesOut, Step
  <1>7. ASSUME NEW m \in Mission, Cancel(m) PROVE Caller(c)'
    <2>1. CASE c.role = "gone"
      BY <1>c, <2>1
    <2>2. CASE c \in calls /\ ~(c.role = "mission" /\ c.of = m)
      BY <1>0, <1>a, <1>7, <2>2 DEF Cancel, Caller, TypeOK
    <2> QED
      BY <1>b, <1>7, <2>1, <2>2 DEF Cancel
  <1>8. CASE BackendStops
    <2>1. CASE c.role = "gone"
      BY <1>c, <2>1
    <2>2. CASE c \in calls /\ c.role \notin {"mission", "retry"}
      BY <1>a, <2>2 DEF Caller
    <2> QED
      BY <1>b, <1>8, <2>1, <2>2 DEF BackendStops
  <1>9. ASSUME NEW m \in Mission, pc[m] # "await", c \in calls, \E x : pc' = [pc EXCEPT ![m] = x],
               order' = order \/ \E o : order' = [order EXCEPT ![m] = o], UNCHANGED retryVars
        PROVE  Caller(c)'
    BY <1>0, <1>a, <1>9 DEF Caller, TypeOK
  <1>10. ASSUME NEW m \in Mission, Notify(m) PROVE Caller(c)'
    <2>1. c \in calls \/ c = Patch("mission", m, order[m], "Delivered", None)
      BY <1>10 DEF Notify, Send
    <2>2. CASE c \in calls
      BY <1>9, <1>10, <2>2 DEF Notify
    <2>3. CASE c = Patch("mission", m, order[m], "Delivered", None)
      <3>1. c.role = "mission" /\ c.of = m /\ c.order = order[m] /\ c.status = "DELIVERED"
        BY <2>3 DEF Patch, InDb
      <3> QED
        BY <1>0, <1>10, <3>1 DEF Notify, Caller, TypeOK
    <2> QED
      BY <2>1, <2>2, <2>3
  <1>11. CASE RetryTakes
    <2>1. c \in calls \/ c = Patch("retry", None, Head(queue), "Delivered", None)
      BY <1>11 DEF RetryTakes, Send
    <2>2. CASE c \in calls
      <3>1. c.role # "retry"
        BY <1>a, <1>11, <2>2, OrderAssumption DEF RetryTakes, Caller
      <3> QED
        BY <1>a, <1>11, <2>2, <3>1 DEF RetryTakes, Caller
    <2>3. CASE c = Patch("retry", None, Head(queue), "Delivered", None)
      <3>1. c.role = "retry" /\ c.of = None /\ c.order = Head(queue) /\ c.status = "DELIVERED"
        BY <2>3 DEF Patch, InDb
      <3>2. ~asleep /\ asleep' = asleep
        BY <1>0, <1>11 DEF RetryTakes, RetryOK
      <3> QED
        BY <1>11, <3>1, <3>2 DEF RetryTakes, Caller
    <2> QED
      BY <2>1, <2>2, <2>3
  <1>12. CASE RetryPutsBack
    <2>1. c \in calls /\ c.role # "retry"
      BY <1>a, <1>12 DEF RetryPutsBack, Caller
    <2> QED
      BY <1>a, <1>12, <2>1 DEF RetryPutsBack, Caller
  <1>13. ASSUME NEW p \in Page, NEW o, NEW label, PagePatch(p, o, label),
                UNCHANGED <<missionVars, retryVars>>
         PROVE  Caller(c)'
    <2>1. c \in calls \/ c = Patch("page", p, o, label, None)
      BY <1>13 DEF PagePatch, Send
    <2>2. CASE c = Patch("page", p, o, label, None)
      BY <2>2 DEF Patch, Caller
    <2> QED
      BY <1>4, <1>13, <2>1, <2>2
  <1>14. ASSUME NEW p \in Page, NEW o \in Order,
                Click(p, o) \/ Launch(p, o) \/ LaunchRefused(p, o)
         PROVE  Caller(c)'
    <2>1. CASE Click(p, o) \/ LaunchRefused(p, o)
      BY <1>13, <2>1 DEF Click, LaunchRefused
    <2>2. CASE Launch(p, o)
      BY <1>9, <2>2 DEF Launch
    <2> QED
      BY <1>14, <2>1, <2>2
  <1>15. ASSUME NEW p \in Page, NEW m \in Mission, LaunchAnswered(p, m) \/ LaunchUnanswered(p, m)
         PROVE  Caller(c)'
    <2>1. CASE LaunchAnswered(p, m)
      <3>1. c \in calls \/ c = Patch("gone", None, order[m], "En Route", NoName)
        BY <2>1 DEF LaunchAnswered, Unheard, Send
      <3>2. CASE c = Patch("gone", None, order[m], "En Route", NoName)
        BY <1>c, <3>2 DEF Patch
      <3> QED
        BY <1>4, <2>1, <3>1, <3>2 DEF LaunchAnswered
    <2>2. CASE LaunchUnanswered(p, m)
      BY <1>13, <2>2 DEF LaunchUnanswered
    <2> QED
      BY <1>15, <2>1, <2>2
  <1>16. ASSUME NEW o \in Order, NEW d \in Drone, RequestClaim(o, d) PROVE Caller(c)'
    <2> DEFINE r == [Patch("fleet", None, o, "En Route", d) EXCEPT !.status = "DRONE_ASSIGNED"]
    <2>1. r.role = "fleet" /\ r.drone = d
      BY DEF Patch
    <2>2. c \in calls \/ c = r
      BY <1>16 DEF RequestClaim, Send
    <2>3. UNCHANGED <<missionVars, retryVars>>
      BY <1>16 DEF RequestClaim
    <2> HIDE DEF r
    <2> QED
      BY <1>4, <2>1, <2>2, <2>3 DEF Caller
  <1>17. ASSUME NEW m \in Mission,
                (\E d \in Drone : Assigned(m, d)) \/ Abort(m) \/ DropParcel(m)
                \/ Complete(m) \/ FlightError(m)
         PROVE  Caller(c)'
    <2>1. \/ c \in calls
          \/ \E d \in Drone : c = Patch("gone", None, order[m], "En Route", d)
          \/ c = Patch("gone", None, order[m], "Failed", None)
      BY <1>17 DEF Assigned, Abort, DropParcel, Complete, FlightError, Unheard, Send
    <2>2. CASE c \in calls
      BY <1>9, <1>17, <2>2 DEF Assigned, Abort, DropParcel, Complete, FlightError
    <2>3. CASE c \notin calls
      <3>1. c.role = "gone"
        <4>1. \A d : Patch("gone", None, order[m], "En Route", d).role = "gone"
          BY DEF Patch
        <4>2. Patch("gone", None, order[m], "Failed", None).role = "gone"
          BY DEF Patch
        <4> QED
          BY <2>1, <2>3, <4>1, <4>2
      <3> QED
        BY <1>c, <3>1
    <2> QED
      BY <2>2, <2>3
  <1>18. ASSUME NEW b \in calls, ClaimAnswered(b) \/ Answer(b) \/ Fails(b) PROVE Caller(c)'
    <2>1. c \in calls /\ c # b
      BY <1>18 DEF ClaimAnswered, Answer, Fails
    <2> QED
      BY <1>5, <1>18, <2>1
  <1>19. CASE UNCHANGED vars
    BY <1>4, <1>19 DEF vars
  <1>20. CASE Next
    BY <1>1, <1>6, <1>7, <1>8, <1>10, <1>11, <1>12, <1>14, <1>15, <1>16, <1>17, <1>18,
       <1>20 DEF Next
  <1> QED
    BY <1>19, <1>20

-----------------------------------------------------------------------------
(* The retry queue.                                                        *)

\* The steps that touch the queue, and where its items go.
LEMMA RetrySteps ==
    ASSUME [Next]_vars
    PROVE  \/ UNCHANGED retryVars
           \/ \E c \in calls : /\ c.role = "retry" /\ Answer(c)
                               /\ hand' = None /\ UNCHANGED <<queue, asleep, forgotten>>
           \/ \E c \in calls : /\ c.role = "retry" /\ UNCHANGED <<queue, hand, forgotten>>
           \/ \E c \in calls : /\ c.role = "mission" /\ queue' = Append(queue, c.order)
                               /\ UNCHANGED <<hand, asleep, forgotten>>
           \/ RetryTakes \/ RetryPutsBack \/ BackendStops
  <1>1. ASSUME NEW c \in calls,
               \/ Update(c) \/ Read(c) \/ (\E p \in Page : Broadcast(c, p)) \/ Claim(c)
               \/ ClaimAnswered(c)
        PROVE  UNCHANGED retryVars
    BY <1>1 DEF Update, Read, Broadcast, Claim, ClaimAnswered
  <1>2. ASSUME NEW c \in calls, Answer(c)
        PROVE  \/ UNCHANGED retryVars
               \/ c.role = "retry" /\ hand' = None /\ UNCHANGED <<queue, asleep, forgotten>>
    BY <1>2 DEF Answer, retryVars
  <1>3. ASSUME NEW c \in calls, Fails(c) \/ TimesOut(c)
        PROVE  \/ UNCHANGED retryVars
               \/ c.role = "retry" /\ UNCHANGED <<queue, hand, forgotten>>
               \/ /\ c.role = "mission" /\ queue' = Append(queue, c.order)
                  /\ UNCHANGED <<hand, asleep, forgotten>>
    BY <1>3 DEF Fails, TimesOut, Unsuccessful, retryVars
  <1>4. ASSUME NEW p \in Page,
               \/ \E o \in Order : Click(p, o) \/ Launch(p, o) \/ LaunchRefused(p, o)
               \/ \E m \in Mission : LaunchAnswered(p, m) \/ LaunchUnanswered(p, m)
        PROVE  UNCHANGED retryVars
    BY <1>4 DEF Click, Launch, LaunchRefused, LaunchAnswered, LaunchUnanswered
  <1>5. ASSUME NEW m \in Mission,
               \/ \E d \in Drone : Assigned(m, d)
               \/ DropParcel(m) \/ Notify(m) \/ Complete(m) \/ FlightError(m) \/ Cancel(m) \/ Abort(m)
        PROVE  UNCHANGED retryVars
    BY <1>5 DEF Assigned, DropParcel, Notify, Complete, FlightError, Cancel, Abort
  <1>6. ASSUME (\E o \in Order, d \in Drone : RequestClaim(o, d)) \/ UNCHANGED vars
        PROVE  UNCHANGED retryVars
    BY <1>6 DEF RequestClaim, vars
  <1> QED
    BY <1>1, <1>2, <1>3, <1>4, <1>5, <1>6 DEF Next

\* The items after a step are those before it, and perhaps that of a mission's
\* call; one leaves only when it is answered, or when the backend stops.
LEMMA QueueStep ==
    ASSUME IInv, [Next]_vars, NEW o \in Order
    PROVE  /\ Queued(o)' => Queued(o) \/ \E c \in calls : c.role = "mission" /\ c.order = o
           /\ Queued(o) => \/ Queued(o)' \/ o \in forgotten'
                           \/ \E c \in calls : c.role = "retry" /\ c.order = o /\ c.at = "read"
  <1>0. TypeOK /\ CallOK /\ RetryOK /\ queue \in Seq(Order) /\ hand \in Order \cup {None}
    BY DEF IInv, TypeOK
  <1> USE DEF retryVars
  <1>1. CASE UNCHANGED retryVars
    BY <1>1 DEF Queued
  <1>2. ASSUME NEW c \in calls, c.role = "retry", Answer(c), hand' = None,
               UNCHANGED <<queue, asleep, forgotten>>
        PROVE  /\ Queued(o)' => Queued(o)
               /\ Queued(o) => Queued(o)' \/ (c.order = o /\ c.at = "read")
    <2>1. hand = c.order /\ c.at = "read"
      BY <1>0, <1>2 DEF CallOK, Caller, Answer
    <2> QED
      BY <1>2, <2>1, OrderAssumption DEF Queued
  <1>3. ASSUME UNCHANGED <<queue, hand, forgotten>> PROVE Queued(o)' <=> Queued(o)
    BY <1>3 DEF Queued
  <1>4. ASSUME NEW x \in Order, queue' = Append(queue, x)
        PROVE  (\E i \in DOMAIN queue' : queue'[i] = o) <=>
                   x = o \/ \E i \in DOMAIN queue : queue[i] = o
    <2>1. /\ DOMAIN queue' = DOMAIN queue \cup {Len(queue) + 1}
          /\ Len(queue) + 1 \notin DOMAIN queue
          /\ queue'[Len(queue) + 1] = x
          /\ \A i \in DOMAIN queue : queue'[i] = queue[i]
      BY <1>0, <1>4
    <2> QED
      BY <2>1
  <1>5. ASSUME NEW c \in calls, c.role = "mission", queue' = Append(queue, c.order),
               UNCHANGED <<hand, asleep, forgotten>>
        PROVE  /\ Queued(o)' => Queued(o) \/ c.order = o
               /\ Queued(o) => Queued(o)'
    <2>1. c.order \in Order
      BY <1>0, CallFields DEF TypeOK
    <2> QED
      BY <1>4, <1>5, <2>1 DEF Queued
  <1>6. CASE RetryTakes
    <2>1. queue # <<>> /\ hand = None /\ hand' = Head(queue) /\ queue' = Tail(queue)
      BY <1>6 DEF RetryTakes
    <2>2. /\ \A i \in DOMAIN queue' : i + 1 \in DOMAIN queue /\ queue'[i] = queue[i + 1]
          /\ \A i \in DOMAIN queue : i = 1 \/ (i - 1 \in DOMAIN queue' /\ queue'[i - 1] = queue[i])
          /\ 1 \in DOMAIN queue /\ hand' = queue[1]
      BY <1>0, <2>1
    <2>3. hand # o
      BY <2>1, OrderAssumption
    <2> QED
      BY <2>2, <2>3 DEF Queued
  <1>7. CASE RetryPutsBack
    <2>1. hand \in Order /\ queue' = Append(queue, hand) /\ hand' = None
      BY <1>0, <1>7 DEF RetryPutsBack, RetryOK
    <2> QED
      BY <1>4, <2>1, OrderAssumption DEF Queued
  <1>8. CASE BackendStops
    <2>1. forgotten' = forgotten \cup {queue[i] : i \in DOMAIN queue} \cup ({hand} \ {None})
      BY <1>8 DEF BackendStops
    <2>2. queue' = <<>> /\ hand' = None
      BY <1>8 DEF BackendStops
    <2>3. ~Queued(o)'
      BY <2>2, OrderAssumption DEF Queued
    <2>4. Queued(o) => o \in forgotten'
      BY <2>1, OrderAssumption DEF Queued
    <2> QED
      BY <2>3, <2>4
  <1> QED
    BY <1>1, <1>2, <1>3, <1>5, <1>6, <1>7, <1>8, RetrySteps

LEMMA RetryStep ==
    ASSUME IInv, [Next]_vars PROVE RetryOK'
  <1>0. TypeOK /\ CallOK /\ RetryOK /\ calls \subseteq Call
    BY DEF IInv, TypeOK
  <1>1. ASSUME NEW o \in Order, Queued(o)' PROVE Dropped(o)'
    <2>1. CASE Queued(o)
      BY <1>0, <2>1, MissionsGrow DEF RetryOK
    <2>2. ASSUME NEW c \in calls, c.role = "mission", c.order = o PROVE Dropped(o)'
      <3>1. Dropped(o)
        BY <1>0, <2>2 DEF CallOK, Caller, Carries
      <3> QED
        BY <3>1, MissionsGrow
    <2> QED
      BY <1>1, <2>1, <2>2, QueueStep
  <1>2. asleep' => hand' # None
    <2> USE DEF retryVars
    <2>1. ASSUME NEW c \in calls, c.role = "retry"
          PROVE  hand # None /\ ~asleep
      BY <1>0, <2>1, CallFields, OrderAssumption DEF CallOK, Caller
    <2>2. CASE RetryTakes
      BY <1>0, <2>2 DEF RetryTakes, RetryOK
    <2>3. CASE RetryPutsBack \/ BackendStops
      BY <2>3 DEF RetryPutsBack, BackendStops
    <2>4. CASE asleep' = asleep /\ hand' = hand
      BY <1>0, <2>4 DEF RetryOK
    <2>5. CASE \E c \in calls : c.role = "retry" /\ (asleep' = asleep \/ hand' = hand)
      BY <2>1, <2>5
    <2>6. \/ asleep' = asleep /\ hand' = hand
          \/ \E c \in calls : c.role = "retry" /\ (asleep' = asleep \/ hand' = hand)
          \/ RetryTakes \/ RetryPutsBack \/ BackendStops
      BY RetrySteps
    <2> QED
      BY <2>2, <2>3, <2>4, <2>5, <2>6
  <1> QED
    BY <1>1, <1>2 DEF RetryOK

-----------------------------------------------------------------------------
(* Rows and pages.                                                         *)

LEMMA RowStep ==
    ASSUME IInv, [Next]_vars PROVE RowOK'
  <1>0. TypeOK /\ RowOK /\ calls \subseteq Call
    BY DEF IInv, TypeOK
  <1> USE DEF rowVars
  <1>1. ASSUME NEW c \in calls, Update(c) \/ Claim(c) PROVE RowOK'
    <2>1. \/ status' = status /\ was' = was
          \/ /\ status' = [status EXCEPT ![c.order] = c.status]
             /\ was' = [was EXCEPT ![c.order] = @ \cup {c.status}]
      BY <1>1 DEF Update, Claim
    <2>2. CASE /\ status' = [status EXCEPT ![c.order] = c.status]
               /\ was' = [was EXCEPT ![c.order] = @ \cup {c.status}]
      <3>1. ASSUME NEW o \in Order PROVE status'[o] \in was'[o]
        <4>1. CASE o = c.order
          BY <1>0, <2>2, <4>1 DEF TypeOK
        <4>2. CASE o # c.order
          BY <1>0, <2>2, <4>2 DEF RowOK, TypeOK
        <4> QED
          BY <4>1, <4>2
      <3> QED
        BY <3>1 DEF RowOK
    <2> QED
      BY <1>0, <2>1, <2>2 DEF RowOK
  <1>2. CASE UNCHANGED rowVars
    BY <1>0, <1>2 DEF RowOK
  <1> QED
    BY <1>1, <1>2, RowSteps

\* A claim is answered 200 for the drone of the row; a PATCH that replaces it
\* is noted, and a later claim finds the column filled.
LEMMA ClaimStep ==
    ASSUME IInv, [Next]_vars PROVE ClaimOK'
  <1>0. TypeOK /\ ClaimOK /\ CallOK /\ calls \subseteq Call
    BY DEF IInv, TypeOK
  <1> USE DEF rowVars
  <1>1. ASSUME NEW c \in calls, Update(c) PROVE ClaimOK'
    <2>1. /\ drone' = [drone EXCEPT ![c.order] = IF c.drone = None THEN @ ELSE c.drone]
          /\ overwritten' = overwritten \cup
                {o \in {c.order} : drone[o] # None /\ drone'[o] # drone[o]}
          /\ claimed' = claimed
      BY <1>1 DEF Update
    <2>2. \A o \in Order : drone'[o] = drone[o] \/ (o = c.order /\ o \in Order)
      BY <1>0, <2>1 DEF TypeOK
    <2>3. \A o \in Order : claimed[o] \subseteq Drone
      BY <1>0 DEF TypeOK
    <2>4. ASSUME NEW o \in Order, o \notin overwritten' PROVE claimed'[o] \subseteq {drone'[o]}
      <3>1. claimed[o] \subseteq {drone[o]} /\ claimed'[o] = claimed[o]
        BY <1>0, <2>1, <2>4 DEF ClaimOK
      <3>2. drone[o] = None \/ drone'[o] = drone[o]
        BY <2>1, <2>2, <2>4
      <3> QED
        BY <2>3, <3>1, <3>2, OrderAssumption
    <2> QED
      BY <2>4 DEF ClaimOK
  <1>2. ASSUME NEW c \in calls, Claim(c) PROVE ClaimOK'
    <2>1. /\ claimed' = claimed /\ overwritten' = overwritten
          /\ \/ drone' = drone
             \/ drone[c.order] = None /\ drone' = [drone EXCEPT ![c.order] = c.drone]
      BY <1>2 DEF Claim
    <2>2. \A o \in Order : claimed[o] \subseteq Drone
      BY <1>0 DEF TypeOK
    <2>3. \A o \in Order : drone[o] = None \/ drone'[o] = drone[o]
      BY <1>0, <2>1 DEF TypeOK
    <2> QED
      BY <1>0, <2>1, <2>2, <2>3, OrderAssumption DEF ClaimOK
  <1>3. ASSUME NEW c \in calls, ClaimAnswered(c) PROVE ClaimOK'
    BY <1>0, <1>3 DEF ClaimAnswered, ClaimOK, TypeOK
  <1>4. UNCHANGED rowVars /\ UNCHANGED claimed => ClaimOK'
    BY <1>0 DEF ClaimOK
  <1>5. \/ UNCHANGED claimed
        \/ \E c \in calls : ClaimAnswered(c)
    BY DEF Next, vars, Update, Read, Broadcast, Claim, Answer, Fails, TimesOut,
           RequestClaim, Click, Launch, LaunchRefused, LaunchAnswered, LaunchUnanswered,
           Assigned, DropParcel, Notify, Complete, FlightError, Cancel, Abort,
           RetryTakes, RetryPutsBack, BackendStops
  <1> QED
    BY <1>1, <1>2, <1>3, <1>4, <1>5, RowSteps

\* A page shows an order as ready only from what a handler has read of it.
LEMMA ViewStep ==
    ASSUME IInv, [Next]_vars PROVE ViewOK'
  <1>0. /\ TypeOK /\ ViewOK /\ CallOK /\ MissionOK /\ calls \subseteq Call
        /\ view \in [Page -> [Order -> Shown]]
    BY DEF IInv, TypeOK
  <1> DEFINE Ready(v) == \A p \in Page, o \in Order :
                            v[p][o] = "Ready for Launch" => "READY_FOR_PICKUP" \in was'[o]
  <1>1. Ready(view)
    BY <1>0, RowsGrow DEF ViewOK
  <1>2. ASSUME NEW p \in Page, NEW o \in Order, NEW x,
               x = "Ready for Launch" => "READY_FOR_PICKUP" \in was'[o]
        PROVE  Ready([view EXCEPT ![p][o] = x])
    BY <1>0, <1>1, <1>2
  <1>3. ASSUME NEW c \in calls
        PROVE  /\ c.order \in Order
               /\ c.role = "page" => c.of \in Page
               /\ c.seen = "Ready for Launch" => "READY_FOR_PICKUP" \in was'[c.order]
    BY <1>0, CallFields, RowsGrow DEF CallOK, Caller, Carries
  <1>4. ASSUME NEW c \in calls, (\E p \in Page : Broadcast(c, p)) \/ Answer(c)
        PROVE  Ready(view')
    <2>1. \/ view' = view
          \/ \E p \in Page : view' = [view EXCEPT ![p][c.order] = c.seen]
      BY <1>3, <1>4 DEF Broadcast, Answer, pageVars
    <2>2. ASSUME NEW p \in Page, view' = [view EXCEPT ![p][c.order] = c.seen]
          PROVE  Ready(view')
      <3>1. Ready([view EXCEPT ![p][c.order] = c.seen])
        BY <1>2, <1>3
      <3> QED
        BY <2>2, <3>1
    <2> QED
      BY <1>1, <2>1, <2>2
  <1>5. ASSUME NEW p \in Page, NEW m \in Mission, LaunchAnswered(p, m) PROVE Ready(view')
    <2>1. view' = [view EXCEPT ![p][order[m]] = "En Route"]
      BY <1>5 DEF LaunchAnswered
    <2>2. order[m] \in Order
      BY <1>0, <1>5 DEF LaunchAnswered, ViewOK, MissionOK
    <2> QED
      BY <1>2, <2>1, <2>2
  <1>6. \/ UNCHANGED view
        \/ \E c \in calls : (\E p \in Page : Broadcast(c, p)) \/ Answer(c)
        \/ \E p \in Page, m \in Mission : LaunchAnswered(p, m)
    BY DEF Next, vars, pageVars, Update, Read, Claim, ClaimAnswered, Fails, TimesOut,
           PagePatch, RequestClaim, Click, Launch, LaunchRefused, LaunchUnanswered,
           Assigned, DropParcel, Notify, Complete, FlightError, Cancel, Abort,
           RetryTakes, RetryPutsBack, BackendStops
  <1>7. Ready(view')
    BY <1>1, <1>4, <1>5, <1>6
  <1>8. launching' \subseteq launching \/ \E p \in Page, o \in Order : Launch(p, o)
    BY DEF Next, vars, pageVars, Update, Read, Broadcast, Claim, ClaimAnswered, Answer, Fails,
           TimesOut, RequestClaim, Click, LaunchRefused, LaunchAnswered, LaunchUnanswered,
           Assigned, DropParcel, Notify, Complete, FlightError, Cancel, Abort,
           RetryTakes, RetryPutsBack, BackendStops
  <1>9. ASSUME NEW l \in launching' PROVE Moved(l[2])'
    <2>0. launching \subseteq Page \X Mission
      BY <1>0 DEF TypeOK
    <2>1. CASE l \in launching
      BY <1>0, <2>0, <2>1, MissionsGrow DEF ViewOK
    <2>2. ASSUME NEW p \in Page, NEW o \in Order, Launch(p, o), l \notin launching
          PROVE  Moved(l[2])'
      <3>1. PICK m \in Mission : /\ pc' = [pc EXCEPT ![m] = "assigning"]
                                 /\ launching' = launching \cup {<<p, m>>}
        BY <2>2 DEF Launch
      <3>2. l[2] = m /\ pc'[m] = "assigning"
        BY <1>0, <1>9, <2>2, <3>1 DEF TypeOK
      <3> QED
        BY <3>2 DEF Moved
    <2> QED
      BY <1>8, <1>9, <2>1, <2>2
  <1> QED
    BY <1>7, <1>9 DEF ViewOK

-----------------------------------------------------------------------------
(* Deliveries and launches.                                                *)

\* A report that was entered, queued or lost with the queue stays accounted for.
Kept(o) == "DELIVERED" \in was[o] \/ Queued(o) \/ o \in forgotten

LEMMA KeptStays ==
    ASSUME IInv, [Next]_vars, NEW o \in Order, Kept(o) PROVE Kept(o)'
  <1>0. CallOK
    BY DEF IInv
  <1>1. \A c \in calls : c.role = "retry" /\ c.order = o /\ c.at = "read"
                            => "DELIVERED" \in was[o]
    BY <1>0 DEF CallOK, Caller, Carries
  <1>2. forgotten \subseteq forgotten'
    <2>1. CASE BackendStops
      BY <2>1 DEF BackendStops
    <2>2. CASE RetryTakes \/ RetryPutsBack
      BY <2>2 DEF RetryTakes, RetryPutsBack
    <2> QED
      BY <2>1, <2>2, RetrySteps DEF retryVars
  <1> QED
    BY <1>1, <1>2, RowsGrow, QueueStep DEF Kept

\* A mission is told when its PATCH is answered, and then the row has been
\* DELIVERED, or when it has queued its report.
LEMMA KeptStep ==
    ASSUME IInv, [Next]_vars PROVE DeliveryKept'
  <1>0. /\ TypeOK /\ MissionOK /\ CallOK /\ DeliveryKept /\ calls \subseteq Call
        /\ queue \in Seq(Order)
    BY DEF IInv, TypeOK
  <1>1. ASSUME NEW m \in Mission, parcel[m] = "told"
        PROVE  \E o \in Order : o = order'[m] /\ Kept(o)'
    <2>1. order[m] \in Order /\ Kept(order[m])
      BY <1>0, <1>1 DEF DeliveryKept, MissionOK, Moved, Kept
    <2>2. order'[m] = order[m]
      BY <1>0, <1>1, MissionsGrow DEF MissionOK
    <2> QED
      BY <2>1, <2>2, KeptStays
  <1>2. ASSUME NEW c \in calls, c.role = "mission", Answer(c) \/ Fails(c) \/ TimesOut(c),
               parcel' # parcel
        PROVE  /\ c.of \in Mission /\ c.order \in Order /\ order'[c.of] = c.order
               /\ parcel' = [parcel EXCEPT ![c.of] = "told"]
               /\ Kept(c.order)'
    <2>1. c.of \in Mission /\ c.order \in Order /\ order[c.of] = c.order /\ c.status = "DELIVERED"
      BY <1>0, <1>2, CallFields DEF CallOK, Caller
    <2>2. Told(c.of)
      BY <1>2 DEF Answer, Fails, TimesOut, Unsuccessful
    <2>3. ASSUME Answer(c) PROVE Kept(c.order)'
      <3>1. Carries(c) /\ c.at = "read"
        BY <1>0, <2>3 DEF CallOK, Answer
      <3>2. "DELIVERED" \in was[c.order]
        BY <1>2, <2>1, <3>1 DEF Carries
      <3>3. "DELIVERED" \in was'[c.order]
        BY <2>1, <3>2, RowsGrow
      <3> QED
        BY <3>3 DEF Kept
    <2>4. ASSUME Fails(c) \/ TimesOut(c) PROVE Kept(c.order)'
      <3>1. queue' = Append(queue, c.order)
        BY <1>2, <2>4 DEF Fails, TimesOut, Unsuccessful
      <3>2. Len(queue) + 1 \in DOMAIN queue' /\ queue'[Len(queue) + 1] = c.order
        BY <1>0, <2>1, <3>1
      <3>3. \E i \in DOMAIN queue' : queue'[i] = c.order
        BY <3>2
      <3> QED
        BY <3>3 DEF Kept, Queued
    <2>5. Kept(c.order)'
      BY <1>2, <2>3, <2>4
    <2>6. order' = order /\ parcel' = [parcel EXCEPT ![c.of] = "told"]
      BY <2>2 DEF Told
    <2> QED
      BY <2>1, <2>5, <2>6
  <1>3. ASSUME NEW m \in Mission, parcel'[m] = "told", parcel[m] # "told"
        PROVE  \E c \in calls : /\ c.role = "mission" /\ parcel' # parcel
                                /\ Answer(c) \/ Fails(c) \/ TimesOut(c)
    <2>1. ASSUME NEW n \in Mission,
                 \/ \E d \in Drone : Assigned(n, d)
                 \/ DropParcel(n) \/ Notify(n) \/ Complete(n) \/ FlightError(n) \/ Cancel(n)
                 \/ Abort(n)
          PROVE  FALSE
      BY <1>0, <1>3, <2>1
         DEF Assigned, DropParcel, Notify, Complete, FlightError, Cancel, Abort, TypeOK
    <2>2. ~BackendStops /\ \A p \in Page, o \in Order : ~Launch(p, o)
      BY <1>0, <1>3 DEF BackendStops, Launch, TypeOK
    <2> QED
      BY <1>3, <2>1, <2>2, MissionSteps DEF missionVars
  <1>4. ASSUME NEW m \in Mission, parcel'[m] = "told"
        PROVE  \E o \in Order : o = order'[m] /\ Kept(o)'
    <2>1. CASE parcel[m] # "told"
      <3>1. PICK c \in calls : /\ c.role = "mission" /\ parcel' # parcel
                               /\ Answer(c) \/ Fails(c) \/ TimesOut(c)
        BY <1>3, <1>4, <2>1
      <3>2. c.of = m
        BY <1>0, <1>2, <1>4, <2>1, <3>1 DEF TypeOK
      <3> QED
        BY <1>2, <3>1, <3>2
    <2> QED
      BY <1>1, <2>1
  <1> QED
    BY <1>4 DEF DeliveryKept, Kept

\* Only a call that reports a dropped package writes DELIVERED.
LEMMA TrueStep ==
    ASSUME IInv, [Next]_vars PROVE DeliveredIsTrue'
  <1>0. TypeOK /\ CallOK /\ DeliveredIsTrue /\ calls \subseteq Call
    BY DEF IInv, TypeOK
  <1> USE DEF rowVars
  <1>1. ASSUME NEW c \in calls, Update(c) \/ Claim(c), NEW o \in Order, "DELIVERED" \in was'[o]
        PROVE  Dropped(o)
    <2>1. was' = was \/ was' = [was EXCEPT ![c.order] = @ \cup {c.status}]
      BY <1>1 DEF Update, Claim
    <2>2. "DELIVERED" \in was[o] \/ (o = c.order /\ c.status = "DELIVERED")
      BY <1>0, <1>1, <2>1 DEF TypeOK
    <2> QED
      BY <1>0, <2>2 DEF CallOK, Carries, DeliveredIsTrue
  <1>2. ASSUME NEW o \in Order, "DELIVERED" \in was'[o] PROVE Dropped(o)'
    BY <1>0, <1>1, <1>2, RowSteps, MissionsGrow DEF DeliveredIsTrue
  <1> QED
    BY <1>2 DEF DeliveredIsTrue

\* A page launches only what it shows as ready.
LEMMA ReadyStep ==
    ASSUME IInv, [Next]_vars PROVE LaunchedWasReady'
  <1>0. TypeOK /\ MissionOK /\ ViewOK /\ LaunchedWasReady
    BY DEF IInv
  <1>1. ASSUME NEW m \in Mission, order'[m] # None, order'[m] # order[m]
        PROVE  order'[m] \in Order /\ "READY_FOR_PICKUP" \in was[order'[m]]
    <2>1. PICK p \in Page, o \in Order : Launch(p, o)
      <3>1. ~Moved(m)
        BY <1>1, MissionsGrow
      <3>2. order' # order
        BY <1>1
      <3>3. \A c \in calls : Answer(c) \/ Fails(c) \/ TimesOut(c) => order' = order
        BY DEF Answer, Fails, TimesOut, Unsuccessful, Told, missionVars
      <3>4. \A n \in Mission : \/ \E d \in Drone : Assigned(n, d)
                               \/ DropParcel(n) \/ Notify(n) \/ Complete(n) \/ FlightError(n)
                               \/ Cancel(n) \/ Abort(n)
                               => order' = order
        BY DEF Assigned, DropParcel, Notify, Complete, FlightError, Cancel, Abort
      <3>5. BackendStops \/ UNCHANGED missionVars => order' = order
        BY DEF BackendStops, missionVars
      <3> QED
        BY <3>2, <3>3, <3>4, <3>5, MissionSteps
    <2>2. view[p][o] = "Ready for Launch" /\ order'[m] = o
      BY <1>0, <1>1, <2>1 DEF Launch, TypeOK
    <2> QED
      BY <1>0, <2>2 DEF ViewOK
  <1>2. ASSUME NEW m \in Mission, order'[m] # None, order'[m] = order[m]
        PROVE  order'[m] \in Order /\ "READY_FOR_PICKUP" \in was[order'[m]]
    BY <1>0, <1>2 DEF LaunchedWasReady, TypeOK
  <1> QED
    BY <1>1, <1>2, RowsGrow DEF LaunchedWasReady

-----------------------------------------------------------------------------
(* Theorems.                                                               *)

LEMMA NextIInv == ASSUME IInv, [Next]_vars PROVE IInv'
  <1>1. CallOK'
    BY CallsCarry, CallsCaller DEF CallOK
  <1> QED
    BY <1>1, StepType, MissionStep, OneCallStep, RetryStep, ViewStep, RowStep, ClaimStep,
       KeptStep, TrueStep, ReadyStep DEF IInv

\* The inductive invariant holds, whatever the numbers of pages, missions and
\* drones and the bounds.
THEOREM Invariance == Spec => []IInv
  BY InitIInv, NextIInv, PTL DEF Spec

\* Every variable keeps its type: labels become statuses of the table, and
\* Attempts bounds the PATCHes of a mission.
THEOREM TypeCorrect == Spec => []TypeOK
  <1>1. IInv => TypeOK
    BY DEF IInv
  <1> QED
    BY <1>1, Invariance, PTL

\* A report that a mission has handed over is entered, or waits in the retry
\* queue, or was lost with it at a stop.
THEOREM KeptTheorem == Spec => []DeliveryKept
  <1>1. IInv => DeliveryKept
    BY DEF IInv
  <1> QED
    BY <1>1, Invariance, PTL

\* The table does not say DELIVERED before the package is dropped.
THEOREM TrueTheorem == Spec => []DeliveredIsTrue
  <1>1. IInv => DeliveredIsTrue
    BY DEF IInv
  <1> QED
    BY <1>1, Invariance, PTL

\* Only one drone is told that it has claimed an order, as long as no PATCH
\* replaces the drone.
THEOREM ClaimTheorem == Spec => []OneClaim
  <1>1. IInv => OneClaim
    BY DEF IInv, ClaimOK, OneClaim
  <1> QED
    BY <1>1, Invariance, PTL

\* No drone is launched for an order that was never ready.
THEOREM ReadyTheorem == Spec => []LaunchedWasReady
  <1>1. IInv => LaunchedWasReady
    BY DEF IInv
  <1> QED
    BY <1>1, Invariance, PTL
=============================================================================
