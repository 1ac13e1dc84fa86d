------------------------------ MODULE HomePads ------------------------------
(***************************************************************************)
(* The home pads: the Redis keys home_pad_lock:<pad> of Fleet AI           *)
(* (landing.py, assign_drone in main.py) and the missions that fly from a  *)
(* pad, ask for one, and land on the one they were told                    *)
(* (mission_executor.py).  One step is one Redis command, or what happens  *)
(* to a drone between two of them.                                         *)
(*                                                                         *)
(* A key with a TTL is a mission's hold (600 s); a key without one says     *)
(* that its drone is parked there.  Pads are numbered in the order in      *)
(* which every scan visits them; pad 1 is HOME_1, the fallback of a        *)
(* mission that got none.                                                  *)
(***************************************************************************)
EXTENDS Integers

CONSTANTS
    Drone,
    None,
    Handler,         \* assign-drone requests served at the same time
    PadCount,        \* HOME pads in the locations table
    HoldCanExpire,   \* FALSE: whoever holds a pad with a TTL is done in 600 s
    CallsFail,       \* FALSE: no request to Fleet AI about pads fails
    MayRelease,      \* FALSE: nobody calls /release-home-location
    MaxRestarts      \* bound on restarts of Fleet AI

ASSUME PadsAssumption ==
    /\ PadCount \in Nat \ {0}
    /\ None \notin Drone
    /\ HoldCanExpire \in BOOLEAN
    /\ CallsFail \in BOOLEAN
    /\ MayRelease \in BOOLEAN
    /\ MaxRestarts \in Nat

VARIABLES
    lock,      \* the drone home_pad_lock:<pad> names, or None
    held,      \* pads whose key has a TTL
    pc,        \* where the mission of a drone is
    site,      \* the pad a drone stands on or took off from, 0 for elsewhere
    scan,      \* the reserve-home-location handler of a drone's mission
    assign,    \* the assign-drone handlers that have their delivery zone
    zone,      \* the pad the mission was granted (reserved_zone), or 0
    releasing, \* the pad a release-home-location handler is about to delete
    robbed,    \* history: drones whose pad key went to nobody or another
    restarts

vars == <<lock, held, pc, site, scan, assign, zone, releasing, robbed,
          restarts>>

-----------------------------------------------------------------------------
Pad    == 1 .. PadCount
HOME_1 == 1

\* The pad whose coordinates the mission of d flies back to.
Goal(d) == IF zone[d] = 0 THEN HOME_1 ELSE zone[d]

\* A scan looks for the drone's own pad, then for a free one, then acquires
\* what it found: GET, and EXPIRE or SET NX.  mine: found as the drone's own.
Scanning == {"own", "free", "check", "refresh", "claim"}
Answered == {"ok", "none", "taken"}
Scan == [at : Scanning \cup Answered, pad : Pad, mine : BOOLEAN]
Start == [at |-> "own", pad |-> 1, mine |-> FALSE]
NoScan == [at |-> "none", pad |-> 1, mine |-> FALSE]

\* An assign-drone handler: the drone it has chosen, and its scan.
Call == [drone : Drone \cup {None}, scan : Scan]
NoCall == [drone |-> None, scan |-> NoScan]

Stage    == {"idle", "reserve", "ready", "out", "back", "landed", "rtl"}
Airborne == {"out", "back", "rtl"}

StandsOn(d, p) == site[d] = p /\ pc[d] \notin Airborne

\* Drone d counts on pad p: its mission was granted p, or is being granted it.
CountsOn(d, p) ==
    \/ pc[d] \in {"ready", "out", "back", "landed"} /\ zone[d] = p
    \/ /\ pc[d] = "reserve" /\ scan[d].pad = p
       /\ \/ scan[d].at \in {"refresh", "ok"}
          \/ scan[d].at \in {"check", "claim"} /\ scan[d].mine

\* Fleet AI has booted over a parked fleet: whoever stands on a pad has its
\* key (boot_pad_reconstruction).
Parked(place) == [p \in Pad |-> IF \E d \in Drone : place[d] = p
                                THEN CHOOSE d \in Drone : place[d] = p
                                ELSE None]

Init ==
    /\ site \in {place \in [Drone -> Pad \cup {0}] :
                    \A d, e \in Drone : place[d] = place[e] => d = e \/ place[d] = 0}
    /\ lock = Parked(site)
    /\ held = {}
    /\ pc = [d \in Drone |-> "idle"]
    /\ scan = [d \in Drone |-> NoScan]
    /\ assign = [h \in Handler |-> NoCall]
    /\ zone = [d \in Drone |-> 0]
    /\ releasing = 0
    /\ robbed = {}
    /\ restarts = 0

-----------------------------------------------------------------------------
(* The Redis commands of a scan.                                           *)

\* Mutant of NextPad: one pad too far.
NextPadTooFar(s, last) ==
    IF s.pad <= PadCount THEN [at |-> s.at, pad |-> s.pad + 1, mine |-> s.mine] ELSE last

NextPad(s, last) ==
    IF s.pad < PadCount THEN [at |-> s.at, pad |-> s.pad + 1, mine |-> s.mine] ELSE last

\* The scan s goes on to command a for the same pad, or answers.
GoTo(s, a)   == [at |-> a, pad |-> s.pad, mine |-> s.mine]
Answer(s, a) == [at |-> a, pad |-> IF a = "ok" THEN s.pad ELSE 1, mine |-> FALSE]

\* Mutant of After: a lost race for a free pad goes unnoticed.
AfterUnchecked(d, s) ==
    CASE s.at = "own" ->
            IF lock[s.pad] = d THEN [at |-> "check", pad |-> s.pad, mine |-> TRUE]
                               ELSE NextPad(s, [at |-> "free", pad |-> 1, mine |-> FALSE])
      [] s.at = "free" ->
            IF lock[s.pad] = None THEN GoTo(s, "check")
                                  ELSE NextPad(s, Answer(s, "none"))
      [] s.at = "check" -> GoTo(s, IF lock[s.pad] = d THEN "refresh" ELSE "claim")
      [] OTHER -> Answer(s, "ok")

\* One command of the scan s of drone d: what the scan knows after it ...
After(d, s) ==
    CASE s.at = "own" ->
            IF lock[s.pad] = d THEN [at |-> "check", pad |-> s.pad, mine |-> TRUE]
                               ELSE NextPad(s, [at |-> "free", pad |-> 1, mine |-> FALSE])
      [] s.at = "free" ->
            IF lock[s.pad] = None THEN GoTo(s, "check")
                                  ELSE NextPad(s, Answer(s, "none"))
      [] s.at = "check" ->
            GoTo(s, IF lock[s.pad] = d THEN "refresh" ELSE "claim")
      [] s.at = "refresh" -> Answer(s, "ok")
      [] OTHER -> Answer(s, IF lock[s.pad] = None \/ s.mine THEN "ok" ELSE "taken")

\* Mutant of Command: SET without NX.
CommandOverwrites(d, s) ==
    \/ /\ s.at = "refresh"
       /\ held' = IF lock[s.pad] = None THEN held ELSE held \cup {s.pad}
       /\ UNCHANGED lock
    \/ /\ s.at = "claim"
       /\ lock' = [lock EXCEPT ![s.pad] = d]
       /\ held' = held \cup {s.pad}
    \/ /\ s.at \in {"own", "free", "check"}
       /\ UNCHANGED <<lock, held>>

\* ... and what it does to the keys.  EXPIRE applies to the key whoever it
\* names by then; nobody looks at what SET NX answers for a pad that was found
\* to be the drone's own.
Command(d, s) ==
    \/ /\ s.at = "refresh"
       /\ held' = IF lock[s.pad] = None THEN held ELSE held \cup {s.pad}
       /\ UNCHANGED lock
    \/ /\ s.at = "claim" /\ lock[s.pad] = None
       /\ lock' = [lock EXCEPT ![s.pad] = d]
       /\ held' = held \cup {s.pad}
    \/ /\ \/ s.at \in {"own", "free", "check"}
          \/ s.at = "claim" /\ lock[s.pad] # None
       /\ UNCHANGED <<lock, held>>

\* The keys of the pads in S now name who is in owner (None: deleted).  All
\* who counted on one of them, and are not named, have been robbed; self (or
\* None) is done with its pad.
Rewrite(S, owner, self) ==
    /\ lock' = [p \in Pad |-> IF p \in S THEN owner[p] ELSE lock[p]]
    /\ held' = held \ S
    /\ robbed' = (robbed \cup {d \in Drone : \E p \in S : CountsOn(d, p)
                                                      /\ owner[p] # d}) \ {self}

Nobody == [p \in Pad |-> None]

\* Redis drops a key with a TTL.
HoldExpires(p) ==
    /\ HoldCanExpire
    /\ p \in held
    /\ Rewrite({p}, Nobody, None)
    /\ UNCHANGED <<pc, site, scan, assign, zone, releasing, restarts>>

-----------------------------------------------------------------------------
(* assign-drone.                                                           *)

\* What the scheduler asks of a drone as to pads: it owns one, or one is free.
Eligible(d) == \E p \in Pad : lock[p] \in {None, d}

\* The scheduler chooses d, from telemetry that may be stale; the handler
\* waits for its delivery zone before it looks at the pads again.
AssignBegins(h, d) ==
    /\ assign[h].drone = None
    /\ Eligible(d)
    /\ assign' = [assign EXCEPT ![h] = [drone |-> d, scan |-> Start]]
    /\ UNCHANGED <<lock, held, pc, site, scan, zone, releasing, robbed, restarts>>

AssignScans(h) ==
    /\ assign[h].drone # None /\ assign[h].scan.at \in Scanning
    /\ Command(assign[h].drone, assign[h].scan)
    /\ LET t == After(assign[h].drone, assign[h].scan) IN
          assign' = [assign EXCEPT ![h].scan = IF t.at = "ok" THEN NoScan ELSE t]
    /\ UNCHANGED <<pc, site, scan, zone, releasing, robbed, restarts>>

\* The free pad was taken: the handler scores again, and answers with the
\* drone it finds, for which it locks no pad.
AssignRescores(h, d) ==
    /\ assign[h].drone # None /\ assign[h].scan.at = "taken"
    /\ Eligible(d)
    /\ assign' = [assign EXCEPT ![h] = [drone |-> d, scan |-> NoScan]]
    /\ UNCHANGED <<lock, held, pc, site, scan, zone, releasing, robbed, restarts>>

\* The answer, with or without a pad.  The mission starts if the agent is
\* IDLE; it asks for the landing zone, then for the home pad.
AssignAnswers(h) ==
    /\ assign[h].drone # None /\ assign[h].scan.at = "none"
    /\ pc[assign[h].drone] = "idle"
    /\ pc' = [pc EXCEPT ![assign[h].drone] = "reserve"]
    /\ scan' = [scan EXCEPT ![assign[h].drone] = Start]
    /\ assign' = [assign EXCEPT ![h] = NoCall]
    /\ UNCHANGED <<lock, held, site, zone, releasing, robbed, restarts>>

\* Nobody waits for the answer, or the drone is not IDLE, or it is an error.
AssignDropped(h) ==
    /\ assign[h].drone # None /\ assign[h].scan.at \in Answered
    /\ assign' = [assign EXCEPT ![h] = NoCall]
    /\ UNCHANGED <<lock, held, pc, site, scan, zone, releasing, robbed, restarts>>

-----------------------------------------------------------------------------
(* The mission (execute) and its reserve-home-location handler.            *)

ReserveScans(d) ==
    /\ pc[d] = "reserve" /\ scan[d].at \in Scanning
    /\ Command(d, scan[d])
    /\ scan' = [scan EXCEPT ![d] = After(d, scan[d])]
    /\ UNCHANGED <<pc, site, assign, zone, releasing, robbed, restarts>>

\* _reserve_home returns pad z, or (HOME_1, None) when z = 0.
Granted(d, z) ==
    /\ pc' = [pc EXCEPT ![d] = "ready"]
    /\ zone' = [zone EXCEPT ![d] = z]
    /\ scan' = [scan EXCEPT ![d] = NoScan]
    /\ robbed' = IF z = 0 THEN robbed \ {d} ELSE robbed
    /\ UNCHANGED <<lock, held, site, assign, releasing, restarts>>

ReserveAnswers(d) ==
    /\ pc[d] = "reserve"
    /\ \/ scan[d].at = "ok" /\ Granted(d, scan[d].pad)
       \/ scan[d].at \in {"none", "taken"} /\ Granted(d, 0)

\* The request failed, or no HOME locations are cached: the same fallback.
ReserveFails(d) ==
    /\ CallsFail
    /\ pc[d] = "reserve" /\ scan[d].at = "own"
    /\ Granted(d, 0)

Moves(d, from, to) ==
    /\ pc[d] = from
    /\ pc' = [pc EXCEPT ![d] = to]

TakeOff(d) ==
    /\ Moves(d, "ready", "out")
    /\ UNCHANGED <<lock, held, site, scan, assign, zone, releasing,
                   robbed, restarts>>

\* Landed at the block, delivered, and armed again there: RETURNING_HOME.
TurnBack(d) ==
    /\ Moves(d, "out", "back")
    /\ site' = [site EXCEPT ![d] = 0]
    /\ UNCHANGED <<lock, held, scan, assign, zone, releasing, robbed,
                   restarts>>

Land(d) ==
    /\ Moves(d, "back", "landed")
    /\ site' = [site EXCEPT ![d] = Goal(d)]
    /\ UNCHANGED <<lock, held, scan, assign, zone, releasing, robbed,
                   restarts>>

\* The mission is over, with no pad of its own any more.
Over(d) == zone' = [zone EXCEPT ![d] = 0]

\* POST /on-home-landing, if a pad was granted: a plain SET without TTL.  A
\* call that fails is only logged.
ConfirmHome(d) ==
    /\ Moves(d, "landed", "idle")
    /\ Over(d)
    /\ \/ /\ zone[d] # 0
          /\ Rewrite({zone[d]}, [p \in Pad |-> d], d)
       \/ /\ zone[d] = 0 \/ CallsFail
          /\ robbed' = robbed \ {d}
          /\ UNCHANGED <<lock, held>>
    /\ UNCHANGED <<site, scan, assign, releasing, restarts>>

\* An error or a cancellation: the pad keeps its hold ("do not release on
\* failure") and a drone in the air returns to where it took off.
Fail(d) ==
    /\ pc[d] \in {"reserve", "ready", "out", "back", "landed"}
    /\ pc' = [pc EXCEPT ![d] = IF @ \in Airborne THEN "rtl" ELSE "idle"]
    /\ scan' = [scan EXCEPT ![d] = NoScan]
    /\ Over(d)
    /\ robbed' = robbed \ {d}
    /\ UNCHANGED <<lock, held, site, assign, releasing, restarts>>

RtlLands(d) ==
    /\ Moves(d, "rtl", "idle")
    /\ UNCHANGED <<lock, held, site, scan, assign, zone, releasing,
                   robbed, restarts>>

-----------------------------------------------------------------------------
(* release-home-location, and restarts of Fleet AI.                        *)

\* get_home_pad_occupant
Occupant(p) == lock[p]

\* The caller names the drone; a free pad, or one that drone holds, is let go.
ReleaseChecks(d, p) ==
    /\ MayRelease
    /\ releasing = 0
    /\ Occupant(p) \in {None, d}
    /\ releasing' = p
    /\ UNCHANGED <<lock, held, pc, site, scan, assign, zone, robbed,
                   restarts>>

ReleaseDeletes ==
    /\ releasing # 0
    /\ Rewrite({releasing}, Nobody, None)
    /\ releasing' = 0
    /\ UNCHANGED <<pc, site, scan, assign, zone, restarts>>

\* boot_pad_reconstruction deletes every key and restores those of the drones
\* that the backend reports on a pad and neither in flight nor LANDING, if it
\* answers; without PostgreSQL it does nothing.  The handlers die: a mission
\* that was asking takes the fallback.
FleetRestart ==
    /\ restarts < MaxRestarts
    /\ restarts' = restarts + 1
    /\ \/ \E seen \in {{}, {d \in Drone : pc[d] \notin Airborne \cup {"landed"}}} :
          \E owner \in [Pad -> Drone \cup {None}] :
             /\ \A p \in Pad : LET on == {d \in seen : StandsOn(d, p)} IN
                   IF on = {} THEN owner[p] = None ELSE owner[p] \in on
             /\ Rewrite(Pad, owner, None)
       \/ UNCHANGED <<lock, held, robbed>>
    /\ assign' = [h \in Handler |-> NoCall]
    /\ scan' = [d \in Drone |-> NoScan]
    /\ releasing' = 0
    /\ UNCHANGED <<pc, site, zone>>

-----------------------------------------------------------------------------
(* Properties.                                                             *)

\* Every variable keeps to its type.
TypeOK ==
    /\ lock \in [Pad -> Drone \cup {None}]
    /\ held \subseteq Pad
    /\ pc \in [Drone -> Stage]
    /\ site \in [Drone -> Pad \cup {0}]
    /\ scan \in [Drone -> Scan]
    /\ assign \in [Handler -> Call]
    /\ zone \in [Drone -> Pad \cup {0}]
    /\ releasing \in Pad \cup {0}
    /\ robbed \subseteq Drone
    /\ restarts \in 0 .. MaxRestarts

\* A drone that was granted a pad keeps its key until it has landed, or its
\* mission is over, unless the key expired, was deleted or was overwritten by
\* a landing: no two scans, of missions or of assign-drone, are granted one
\* pad (landing.py, reserve_home_location and acquire_home_pad_lock).
PadBacked ==
    \A d \in Drone \ robbed : \A p \in Pad : CountsOn(d, p) => lock[p] = d

\* Without expiry and releases, and until Fleet AI restarts, nobody loses a
\* granted pad: what a landing overwrites is its own drone's key, whatever two
\* assign-drone handlers and the missions did meanwhile (landing.py,
\* acquire_home_pad_lock with persistent=True).
PadsKept ==
    ~HoldCanExpire /\ ~MayRelease /\ restarts = 0 => robbed = {}

-----------------------------------------------------------------------------
Next ==
    \/ \E h \in Handler : \/ \E d \in Drone : AssignBegins(h, d) \/ AssignRescores(h, d)
                          \/ AssignScans(h) \/ AssignAnswers(h) \/ AssignDropped(h)
    \/ \E d \in Drone : \/ ReserveScans(d) \/ ReserveAnswers(d) \/ ReserveFails(d)
                        \/ TakeOff(d) \/ TurnBack(d) \/ Land(d) \/ ConfirmHome(d)
                        \/ Fail(d) \/ RtlLands(d)
                        \/ \E p \in Pad : ReleaseChecks(d, p)
    \/ \E p \in Pad : HoldExpires(p)
    \/ ReleaseDeletes
    \/ FleetRestart

Spec == Init /\ [][Next]_vars
=============================================================================
