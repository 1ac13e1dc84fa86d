--------------------------- MODULE DispatchProofs ---------------------------
(***************************************************************************)
(* What holds of Dispatch for every number of orders, drones, zones,        *)
(* orphans and restarts, with and without expiring leases.                  *)
(*                                                                         *)
(* ClearanceBacked is not inductive alone: a step of another handler keeps  *)
(* the lock of a cleared mission only because that mission has a drone, and *)
(* a mission starts without clearance only because no handler works for it  *)
(* any more.  IInv adds both facts.                                         *)
(***************************************************************************)
EXTENDS Dispatch, TLAPS

\* A handler works only for an order whose coroutine is waiting for a call, and
\* only for a drone.
HandlerHasCaller ==
    \A o \in Order : at[o] # "none" => pc[o] \in Calling /\ drone[o] \in Drone

\* Missions, and their failure handlers, know their drone.
MissionHasDrone ==
    \A o \in Order : pc[o] \in Mission \cup Aborting => drone[o] \in Drone

IInv == TypeOK /\ HandlerHasCaller /\ MissionHasDrone /\ ClearanceBacked

-----------------------------------------------------------------------------
(* What the operations on the lock table do to it.                         *)

\* The zone of an order is a key of the table.
LEMMA ZoneIsKey == \A o \in Order : Zone(o) \in Key
  BY NamesAssumption DEF Zone

\* One command of acquire_delivery_lock leaves the table alone or gives a free
\* key to the drone; when it says that the drone has the lock, it has.
LEMMA AcquireStepSound ==
    ASSUME TypeOK, NEW d \in Drone, NEW k \in Key, NEW here, NEW next,
           AcquireStep(d, k, here, next)
    PROVE  /\ next \in Handling
           /\ \/ holder' = holder
              \/ holder[k] = None /\ holder' = [holder EXCEPT ![k] = d]
           /\ next = "refresh" => holder'[k] = d
           /\ next = "granted" => here = "refresh" \/ holder'[k] = d
  BY DEF TypeOK, AcquireStep, Handling

\* A handler that loses its caller leaves an orphan of the right shape.
LEMMA AbandonType ==
    ASSUME TypeOK, NEW o \in Order, at[o] \in Handling, drone[o] \in Drone,
           Abandon(o)
    PROVE  orphans' \subseteq Orphan /\ at' = [at EXCEPT ![o] = "none"]
  <1> DEFINE g == [pads |-> PadsContended /\ pc[o] = "assign",
                   drone |-> drone[o], key |-> Zone(o), at |-> at[o]]
  <1>1. (PadsContended /\ pc[o] = "assign") \in BOOLEAN
    BY BoundsAssumption
  <1>2. g \in Orphan
    BY <1>1, ZoneIsKey DEF Orphan
  <1>3. Unanswered({g}) \subseteq {g}
    BY DEF Unanswered
  <1>4. orphans' = orphans \cup Unanswered({g}) /\ at' = [at EXCEPT ![o] = "none"]
    BY DEF Abandon
  <1> QED
    BY <1>2, <1>3, <1>4 DEF TypeOK

\* When a key is removed, every clearance it backed is either given up in the
\* same step or recorded as lost.
LEMMA RemovedBacked ==
    ASSUME TypeOK, ClearanceBacked, NEW k \in Key, NEW Self, Removed(k, Self),
           \A q \in Cleared' : q \in Cleared \ Self /\ drone'[q] = drone[q]
    PROVE  ClearanceBacked'
  <1> SUFFICES ASSUME NEW q \in Cleared', q \notin lost'
               PROVE  holder'[Zone(q)] = drone'[q]
    BY DEF ClearanceBacked, Zone
  <1>1. q \in Order /\ q \in Cleared /\ q \notin Self /\ drone'[q] = drone[q]
    BY DEF Cleared
  <1>2. q \notin lost /\ q \notin ClearedFor(k)
    BY <1>1 DEF Removed
  <1>3. Zone(q) # k /\ Zone(q) \in Key
    BY <1>1, <1>2, ZoneIsKey DEF ClearedFor
  <1>4. holder'[Zone(q)] = holder[Zone(q)]
    BY <1>3 DEF Removed, TypeOK
  <1> QED
    BY <1>1, <1>2, <1>4 DEF ClearanceBacked

\* Removing a key keeps the types of the table and of the history.
LEMMA RemovedType ==
    ASSUME TypeOK, NEW k \in Key, NEW Self, Removed(k, Self)
    PROVE  holder' \in [Key -> Drone \cup {None}] /\ lost' \subseteq Order
  BY DEF TypeOK, Removed, ClearedFor, Cleared

-----------------------------------------------------------------------------
(* The invariant holds at the start and is kept by every step.             *)

LEMMA InitIInv == Init => IInv
  BY NamesAssumption, BoundsAssumption
     DEF Init, IInv, TypeOK, HandlerHasCaller, MissionHasDrone, ClearanceBacked,
         Cleared, Stage, Mission, Aborting, Granted, Calling, Ended

LEMMA WrapperIInv ==
    ASSUME IInv, NEW o \in Order, WrapperStep(o) PROVE IInv'
  <1> USE DEF IInv, TypeOK, HandlerHasCaller, MissionHasDrone, ClearanceBacked,
              Cleared, Zone, Stage, Calling, Granted, Mission, Aborting, Handling
  <1>1. CASE Launch(o) BY <1>1 DEF Launch
  <1>2. CASE ZoneCheck(o) BY <1>2 DEF ZoneCheck
  <1>3. CASE RequestAssign(o) BY <1>3 DEF RequestAssign
  <1>4. CASE NoEligibleDrone(o) BY <1>4 DEF NoEligibleDrone
  <1>5. CASE Assigned(o) BY <1>5 DEF Assigned, Retry
  <1> QED
    BY <1>1, <1>2, <1>3, <1>4, <1>5 DEF WrapperStep

LEMMA HandlerIInv ==
    ASSUME IInv, NEW o \in Order, HandlerStep(o) PROVE IInv'
  <1> USE DEF IInv, HandlerHasCaller, MissionHasDrone
  <1>0. Zone(o) \in Key
    BY ZoneIsKey
  <1>1. CASE Acquire(o)
    <2>1. PICK next \in Handling : /\ AcquireStep(drone[o], Zone(o), at[o], next)
                                   /\ at' = [at EXCEPT ![o] = next]
      BY <1>1 DEF Acquire
    <2>2. at[o] # "none" /\ pc[o] \in Calling /\ drone[o] \in Drone
      BY <1>1 DEF Acquire, Handling
    <2>3. /\ \/ holder' = holder
             \/ /\ holder[Zone(o)] = None
                /\ holder' = [holder EXCEPT ![Zone(o)] = drone[o]]
          /\ next = "refresh" => holder'[Zone(o)] = drone[o]
          /\ next = "granted" => at[o] = "refresh" \/ holder'[Zone(o)] = drone[o]
      BY <1>0, <2>1, <2>2, AcquireStepSound
    <2>4. UNCHANGED <<pc, drone, orphans, idle, seen, missionId, task, lost, restarts>>
      BY <1>1 DEF Acquire
    <2>5. TypeOK'
      BY <1>0, <2>1, <2>2, <2>3, <2>4 DEF TypeOK
    <2>6. HandlerHasCaller' /\ MissionHasDrone'
      BY <2>1, <2>2, <2>4 DEF TypeOK, Calling
    <2>7. ClearanceBacked'
      <3> SUFFICES ASSUME NEW q \in Order, q \in Cleared', q \notin lost'
                   PROVE  holder'[Zone(q)] = drone'[q]
        BY DEF ClearanceBacked, Zone, Cleared
      <3>1. drone[q] \in Drone /\ drone'[q] = drone[q] /\ q \notin lost
        BY <2>4, <2>1, <2>2 DEF Cleared, Mission, TypeOK, Granted
      <3>2. CASE q = o
        <4>1. pc[o] = "reserve" /\ next \in {"refresh", "granted"}
          BY <3>2, <2>1, <2>2, <2>4 DEF Cleared, TypeOK, Calling, Granted
        <4>2. CASE at[o] = "refresh"
          <5>1. o \in Cleared
            BY <4>1, <4>2 DEF Cleared
          <5>2. holder[Zone(o)] = drone[o]
            BY <5>1, <3>1, <3>2 DEF ClearanceBacked
          <5> QED
            BY <5>2, <2>3, <2>4, <3>2, <2>2, NamesAssumption
        <4>3. CASE at[o] # "refresh"
          BY <4>1, <4>3, <2>3, <2>4, <3>2
        <4> QED
          BY <4>2, <4>3
      <3>3. CASE q # o
        <4>1. q \in Cleared
          BY <3>3, <2>1, <2>4 DEF Cleared, TypeOK
        <4>2. holder[Zone(q)] = drone[q] /\ holder[Zone(q)] # None
          BY <4>1, <3>1, NamesAssumption DEF ClearanceBacked
        <4> QED
          BY <4>2, <3>1, <2>3, ZoneIsKey DEF TypeOK
      <3> QED
        BY <3>2, <3>3
    <2> QED
      BY <2>5, <2>6, <2>7
  <1>2. CASE PadRaceLost(o)
    <2>1. Removed(Zone(o), {}) /\ pc[o] = "assign" /\ at[o] = "granted"
      BY <1>2 DEF PadRaceLost, Release
    <2>2. TypeOK'
      BY <1>0, <1>2, <2>1, RemovedType
         DEF PadRaceLost, TypeOK, Stage, Calling, Handling
    <2>3. HandlerHasCaller' /\ MissionHasDrone'
      BY <1>2 DEF PadRaceLost, TypeOK, Calling, Mission, Granted, Aborting
    <2>4. \A q \in Cleared' : q \in Cleared /\ drone'[q] = drone[q]
      BY <1>2 DEF PadRaceLost, Cleared, TypeOK, Granted
    <2>5. ClearanceBacked'
      BY <1>0, <2>1, <2>4, RemovedBacked
    <2> QED
      BY <2>2, <2>3, <2>5
  <1>3. CASE AssignRaises(o)
    BY <1>3 DEF AssignRaises, TypeOK, ClearanceBacked, Cleared, Zone, Calling,
                Granted, Handling
  <1>4. CASE Refused(o)
    BY <1>4 DEF Refused, Retry, TypeOK, ClearanceBacked, Cleared, Zone, Stage,
                Calling, Granted, Mission, Aborting
  <1>5. CASE ClientTimeout(o)
    <2>1. at[o] \in Handling /\ at[o] # "none" /\ drone[o] \in Drone /\ pc[o] \in Calling
      BY <1>5 DEF ClientTimeout, Handling
    <2>2. orphans' \subseteq Orphan /\ at' = [at EXCEPT ![o] = "none"]
      BY <1>5, <2>1, AbandonType DEF ClientTimeout
    <2>3. TypeOK'
      BY <1>5, <2>1, <2>2 DEF ClientTimeout, Retry, TypeOK, Stage
    <2>4. HandlerHasCaller' /\ MissionHasDrone'
      BY <1>5, <2>1, <2>2
         DEF ClientTimeout, Retry, TypeOK, Calling, Mission, Granted, Aborting
    <2>5. ClearanceBacked'
      BY <1>5, <2>1, <2>2
         DEF ClientTimeout, Retry, ClearanceBacked, Cleared, Zone, TypeOK, Granted
    <2> QED
      BY <2>3, <2>4, <2>5
  <1> QED
    BY <1>1, <1>2, <1>3, <1>4, <1>5 DEF HandlerStep

LEMMA OrphanIInv ==
    ASSUME IInv, NEW g \in orphans, OrphanStep(g) PROVE IInv'
  <1>0. g \in Orphan /\ g.drone \in Drone /\ g.key \in Key
    BY DEF IInv, TypeOK, Orphan
  <1>1. CASE OrphanAcquires(g)
    <2>1. PICK next \in Handling :
              /\ AcquireStep(g.drone, g.key, g.at, next)
              /\ OrphanBecomes(g, {[g EXCEPT !.at = next]})
      BY <1>1 DEF OrphanAcquires
    <2>2. \/ holder' = holder
          \/ holder[g.key] = None /\ holder' = [holder EXCEPT ![g.key] = g.drone]
      BY <1>0, <2>1, AcquireStepSound DEF IInv
    <2>3. [g EXCEPT !.at = next] \in Orphan
      BY <1>0, <2>1 DEF Orphan
    <2>4. orphans' \subseteq Orphan
      BY <2>1, <2>3 DEF OrphanBecomes, Unanswered, IInv, TypeOK
    <2>5. UNCHANGED <<pc, at, drone, idle, seen, missionId, task, lost, restarts>>
      BY <1>1 DEF OrphanAcquires
    <2>6. TypeOK'
      BY <1>0, <2>2, <2>4, <2>5 DEF IInv, TypeOK
    <2>7. HandlerHasCaller' /\ MissionHasDrone'
      BY <2>5 DEF IInv, HandlerHasCaller, MissionHasDrone
    <2>8. \A q \in Cleared : drone[q] \in Drone
      BY DEF IInv, MissionHasDrone, Cleared, Mission
    <2>9. ClearanceBacked'
      BY <1>0, <2>2, <2>5, <2>8, ZoneIsKey, NamesAssumption
         DEF IInv, TypeOK, ClearanceBacked, Cleared, Zone
    <2> QED
      BY <2>6, <2>7, <2>9 DEF IInv
  <1>2. CASE OrphanEnds(g)
    BY <1>2 DEF OrphanEnds, OrphanBecomes, Unanswered, IInv, TypeOK,
                HandlerHasCaller, MissionHasDrone, ClearanceBacked, Cleared, Zone
  <1>3. CASE OrphanPadRaceLost(g)
    <2>1. Removed(g.key, {})
      BY <1>3 DEF OrphanPadRaceLost, Release
    <2>2. UNCHANGED <<pc, at, drone, idle, seen, missionId, task, restarts>>
      BY <1>3 DEF OrphanPadRaceLost
    <2>3. ASSUME NEW d \in Drone
          PROVE  [g EXCEPT !.pads = FALSE, !.drone = d, !.at = "check"] \in Orphan
      BY <1>0 DEF Orphan, Handling
    <2>4. orphans' \subseteq Orphan
      BY <1>3, <2>3 DEF OrphanPadRaceLost, OrphanBecomes, Unanswered, IInv, TypeOK
    <2>5. TypeOK'
      BY <1>0, <2>1, <2>2, <2>4, RemovedType DEF IInv, TypeOK
    <2>6. HandlerHasCaller' /\ MissionHasDrone'
      BY <2>2 DEF IInv, HandlerHasCaller, MissionHasDrone
    <2>7. ClearanceBacked'
      BY <1>0, <2>1, <2>2, RemovedBacked DEF IInv, Cleared
    <2> QED
      BY <2>5, <2>6, <2>7 DEF IInv
  <1> QED
    BY <1>1, <1>2, <1>3 DEF OrphanStep

LEMMA MissionIInv ==
    ASSUME IInv, NEW o \in Order, MissionStep(o) PROVE IInv'
  <1> USE DEF IInv, HandlerHasCaller, MissionHasDrone, TypeOK, Stage, Calling,
              Mission, Granted, Aborting, Ended
  <1>1. CASE Begin(o)
    BY <1>1 DEF Begin, ClearanceBacked, Cleared, Zone
  <1>2. CASE RequestLanding(o)
    BY <1>2 DEF RequestLanding, ClearanceBacked, Cleared, Zone, Handling
  <1>3. CASE ClearedToLand(o)
    BY <1>3 DEF ClearedToLand, ClearanceBacked, Cleared, Zone
  <1>4. CASE TakeOff(o)
    BY <1>4 DEF TakeOff, Fly, ClearanceBacked, Cleared, Zone
  <1>5. CASE TouchDown(o)
    BY <1>5 DEF TouchDown, Fly, ClearanceBacked, Cleared, Zone
  <1>6. CASE Depart(o)
    BY <1>6 DEF Depart, Fly, ClearanceBacked, Cleared, Zone
  <1>7. CASE Confirm(o)
    <2>1. CASE Removed(Zone(o), {o})
      <3>1. TypeOK' /\ HandlerHasCaller' /\ MissionHasDrone'
        BY <1>7, <2>1, ZoneIsKey, RemovedType DEF Confirm, Fly
      <3>2. \A q \in Cleared' : q \in Cleared \ {o} /\ drone'[q] = drone[q]
        BY <1>7 DEF Confirm, Fly, Cleared
      <3>3. ClearanceBacked'
        BY <2>1, <3>2, ZoneIsKey, RemovedBacked
      <3> QED
        BY <3>1, <3>3
    <2>2. CASE UNCHANGED holder /\ lost' = lost \ {o}
      BY <1>7, <2>2 DEF Confirm, Fly, ClearanceBacked, Cleared, Zone
    <2> QED
      BY <1>7, <2>1, <2>2 DEF Confirm, ConfirmOrMiss, Release
  <1>8. CASE Complete(o)
    BY <1>8 DEF Complete, Return, ClearanceBacked, Cleared, Zone
  <1> QED
    BY <1>1, <1>2, <1>3, <1>4, <1>5, <1>6, <1>7, <1>8 DEF MissionStep

LEMMA AbortIInv ==
    ASSUME IInv, NEW o \in Order, AbortStep(o) PROVE IInv'
  <1> USE DEF IInv, HandlerHasCaller, MissionHasDrone, TypeOK, Stage, Calling,
              Mission, Granted, Aborting, Ended
  <1>1. CASE FlightError(o)
    BY <1>1 DEF FlightError, Aborts, ClearanceBacked, Cleared, Zone
  <1>2. CASE Cancel(o)
    <2>1. /\ orphans' \subseteq Orphan
          /\ at' = [at EXCEPT ![o] = "none"]
      <3>1. CASE at[o] \in Handling
        BY <1>2, <3>1, AbandonType DEF Cancel
      <3>2. CASE at[o] \notin Handling
        BY <1>2, <3>2 DEF Cancel
      <3> QED
        BY <3>1, <3>2
    <2> QED
      BY <1>2, <2>1 DEF Cancel, Aborts, ClearanceBacked, Cleared, Zone
  <1>3. CASE CancelOutright(o)
    BY <1>3 DEF CancelOutright, Return, ClearanceBacked, Cleared, Zone
  <1>4. CASE AbortRtl(o)
    BY <1>4 DEF AbortRtl, Return, ClearanceBacked, Cleared, Zone
  <1>5. CASE AbortRelease(o)
    <2>1. CASE Removed(Zone(o), {o})
      <3>1. TypeOK' /\ HandlerHasCaller' /\ MissionHasDrone'
        BY <1>5, <2>1, ZoneIsKey, RemovedType DEF AbortRelease, Return
      <3>2. \A q \in Cleared' : q \in Cleared \ {o} /\ drone'[q] = drone[q]
        BY <1>5 DEF AbortRelease, Return, Cleared
      <3>3. ClearanceBacked'
        BY <2>1, <3>2, ZoneIsKey, RemovedBacked
      <3> QED
        BY <3>1, <3>3
    <2>2. CASE UNCHANGED holder /\ lost' = lost \ {o}
      BY <1>5, <2>2 DEF AbortRelease, Return, ClearanceBacked, Cleared, Zone
    <2> QED
      BY <1>5, <2>1, <2>2 DEF AbortRelease, ConfirmOrMiss, Release
  <1> QED
    BY <1>1, <1>2, <1>3, <1>4, <1>5 DEF AbortStep

LEMMA DroneIInv ==
    ASSUME IInv, NEW d \in Drone, DroneStep(d) PROVE IInv'
  <1> USE DEF IInv, TypeOK, HandlerHasCaller, MissionHasDrone, ClearanceBacked,
              Cleared, Zone
  <1> QED
    BY DEF DroneStep, Telemetry, LinkStale, Sync

LEMMA LeaseIInv ==
    ASSUME IInv, NEW k \in Key, LeaseExpires(k) PROVE IInv'
  <1>1. Removed(k, {}) /\ UNCHANGED <<pc, at, drone, orphans, idle, seen,
                                      missionId, task, restarts>>
    BY DEF LeaseExpires
  <1>2. TypeOK' /\ HandlerHasCaller' /\ MissionHasDrone'
    BY <1>1, RemovedType DEF IInv, TypeOK, HandlerHasCaller, MissionHasDrone
  <1>3. ClearanceBacked'
    BY <1>1, RemovedBacked DEF IInv, Cleared
  <1> QED
    BY <1>2, <1>3 DEF IInv

LEMMA RestartIInv == IInv /\ FleetRestart => IInv'
  <1> SUFFICES ASSUME IInv, FleetRestart PROVE IInv'
    OBVIOUS
  <1> USE DEF IInv, FleetRestart
  <1>1. TypeOK'
    BY BoundsAssumption DEF TypeOK, Handling, Cleared
  <1>2. HandlerHasCaller' /\ MissionHasDrone'
    BY DEF TypeOK, HandlerHasCaller, MissionHasDrone
  <1>3. ClearanceBacked'
    <2>1. Cleared' \subseteq Cleared
      BY DEF TypeOK, Cleared
    <2> QED
      BY <2>1 DEF ClearanceBacked, Zone
  <1> QED
    BY <1>1, <1>2, <1>3

LEMMA StutterIInv == IInv /\ UNCHANGED vars => IInv'
  BY DEF vars, IInv, TypeOK, HandlerHasCaller, MissionHasDrone, ClearanceBacked,
         Cleared, Zone

LEMMA StepIInv == IInv /\ [Next]_vars => IInv'
  BY WrapperIInv, HandlerIInv, OrphanIInv, MissionIInv, AbortIInv, DroneIInv,
     LeaseIInv, RestartIInv, StutterIInv DEF Next

THEOREM Invariance == Spec => []IInv
  BY InitIInv, StepIInv, PTL DEF Spec

-----------------------------------------------------------------------------
(* The theorems.                                                           *)

\* Type correctness.
THEOREM TypeCorrect == Spec => []TypeOK
  <1>1. IInv => TypeOK
    BY DEF IInv
  <1> QED
    BY <1>1, Invariance, PTL

\* Whoever is cleared for a block has its lock or has been robbed of it by an
\* unconditional DEL, the end of the lease or a restart, whatever the number of
\* orders, drones, abandoned handlers and restarts.
THEOREM ClearanceTheorem == Spec => []ClearanceBacked
  <1>1. IInv => ClearanceBacked
    BY DEF IInv
  <1> QED
    BY <1>1, Invariance, PTL

\* So two drones are never cleared for one block by the locks that are still
\* standing.
THEOREM ExclusionTheorem == Spec => []ZoneExclusive
  <1>1. IInv => ZoneExclusive
    BY DEF IInv, ClearanceBacked, ZoneExclusive
  <1> QED
    BY <1>1, Invariance, PTL

-----------------------------------------------------------------------------
(* The table of the zone locks implements LeaseTable.                      *)

LEMMA GrantStep ==
    ASSUME NEW k \in Key, NEW d \in Drone, holder[k] = None,
           holder' = [holder EXCEPT ![k] = d]
    PROVE  Leases!Next
  BY DEF Leases!Next, Leases!Grant

LEMMA VacateStep ==
    ASSUME TypeOK, NEW k \in Key, holder' = [holder EXCEPT ![k] = None]
    PROVE  Leases!Next
  <1>1. holder' = [j \in Key |-> IF j \in {k} THEN None ELSE holder[j]]
    BY DEF TypeOK
  <1> QED
    BY <1>1 DEF Leases!Next, Leases!Vacate

LEMMA TableStep == IInv /\ [Next]_vars => [Leases!Next]_holder
  <1> SUFFICES ASSUME IInv, [Next]_vars, UNCHANGED holder => FALSE
               PROVE  Leases!Next
    OBVIOUS
  <1>0. TypeOK
    BY DEF IInv
  <1>1. ASSUME NEW o \in Order,
               WrapperStep(o) \/ HandlerStep(o) \/ MissionStep(o) \/ AbortStep(o)
        PROVE  Leases!Next
    <2>1. CASE Acquire(o)
      <3>1. PICK next \in Handling : AcquireStep(drone[o], Zone(o), at[o], next)
        BY <2>1 DEF Acquire
      <3>2. drone[o] \in Drone
        BY <2>1 DEF Acquire, Handling, IInv, HandlerHasCaller
      <3>3. holder[Zone(o)] = None /\ holder' = [holder EXCEPT ![Zone(o)] = drone[o]]
        BY <1>0, <3>1, <3>2, ZoneIsKey, AcquireStepSound
      <3> QED
        BY <3>2, <3>3, ZoneIsKey, GrantStep
    <2>2. CASE PadRaceLost(o) \/ Confirm(o) \/ AbortRelease(o)
      <3>1. holder' = [holder EXCEPT ![Zone(o)] = None]
        BY <2>2 DEF PadRaceLost, Confirm, AbortRelease, ConfirmOrMiss, Release,
                    Removed
      <3> QED
        BY <1>0, <3>1, ZoneIsKey, VacateStep
    <2> QED
      BY <1>1, <2>1, <2>2
         DEF WrapperStep, Launch, ZoneCheck, RequestAssign, NoEligibleDrone,
             Assigned, HandlerStep, AssignRaises, Refused, ClientTimeout,
             MissionStep, Begin, RequestLanding, ClearedToLand, TakeOff,
             TouchDown, Depart, Complete, AbortStep, FlightError, Cancel,
             CancelOutright, AbortRtl
  <1>2. ASSUME NEW g \in orphans, OrphanStep(g) PROVE Leases!Next
    <2>1. g.drone \in Drone /\ g.key \in Key
      BY <1>0 DEF TypeOK, Orphan
    <2>2. CASE OrphanAcquires(g)
      <3>1. PICK next \in Handling : AcquireStep(g.drone, g.key, g.at, next)
        BY <2>2 DEF OrphanAcquires
      <3>2. holder[g.key] = None /\ holder' = [holder EXCEPT ![g.key] = g.drone]
        BY <1>0, <2>1, <3>1, AcquireStepSound
      <3> QED
        BY <2>1, <3>2, GrantStep
    <2>3. CASE OrphanPadRaceLost(g)
      <3>1. holder' = [holder EXCEPT ![g.key] = None]
        BY <2>3 DEF OrphanPadRaceLost, Release, Removed
      <3> QED
        BY <1>0, <2>1, <3>1, VacateStep
    <2> QED
      BY <1>2, <2>2, <2>3 DEF OrphanStep, OrphanEnds
  <1>3. ASSUME NEW k \in Key, LeaseExpires(k) PROVE Leases!Next
    BY <1>0, <1>3, VacateStep DEF LeaseExpires, Removed
  <1>4. CASE FleetRestart
    <2>1. holder' = [k \in Key |-> IF k \in Key THEN None ELSE holder[k]]
      BY <1>4 DEF FleetRestart
    <2> QED
      BY <2>1 DEF Leases!Next, Leases!Vacate
  <1>5. ASSUME NEW d \in Drone, DroneStep(d) PROVE FALSE
    BY <1>5 DEF DroneStep, Telemetry, LinkStale, Sync
  <1> QED
    BY <1>1, <1>2, <1>3, <1>4, <1>5 DEF Next, vars

\* No retry, orphan, abort or restart ever hands a zone from one drone to
\* another while its key stands: Dispatch implements LeaseTable.
THEOREM Refinement == Spec => LeasesSpec
  <1>1. Init => Leases!Init
    BY DEF Init, Leases!Init
  <1> QED
    BY <1>1, TableStep, Invariance, PTL DEF Spec, LeasesSpec, Leases!Spec
=============================================================================
