--------------------------- MODULE HomePadsProofs ---------------------------
(***************************************************************************)
(* What holds of HomePads for every number of drones, pads and restarts,    *)
(* whether or not holds expire, calls fail and pads are released.           *)
(*                                                                         *)
(* PadBacked needs one fact more to be inductive: a scan that is still      *)
(* looking has not yet found anything to be the drone's own, so that what   *)
(* it finds free is never taken for a pad the drone counts on.  PadsKept    *)
(* follows from it: see KeptStep.  HandoverTheorem holds whatever is        *)
(* switched on.                                                            *)
(***************************************************************************)
EXTENDS HomePads, TLAPS

NothingFoundYet ==
    \A d \in Drone : scan[d].at \in {"own", "free"} => ~scan[d].mine

ReleaseNeedsCaller == ~MayRelease => releasing = 0

IInv == TypeOK /\ NothingFoundYet /\ ReleaseNeedsCaller /\ PadBacked

-----------------------------------------------------------------------------
(* Scans, and rewritten keys.                                              *)

LEMMA ScanTypes == NoScan \in Scan /\ Start \in Scan /\ NoCall \in Call
  BY PadsAssumption DEF NoScan, Start, NoCall, Call, Scan, Pad, Scanning, Answered

\* A scan keeps its shape.
LEMMA AfterType ==
    ASSUME NEW d \in Drone, NEW s \in Scan, s.at \in Scanning
    PROVE  After(d, s) \in Scan
  <1> DEFINE t == After(d, s)
  <1>1. CASE s.at = "own"
    <2>1. t = IF lock[s.pad] = d THEN [at |-> "check", pad |-> s.pad, mine |-> TRUE]
              ELSE NextPad(s, [at |-> "free", pad |-> 1, mine |-> FALSE])
      BY <1>1, Zenon DEF After
    <2>2. NextPad(s, [at |-> "free", pad |-> 1, mine |-> FALSE]) \in Scan
      BY PadsAssumption DEF NextPad, Scan, Pad, Scanning
    <2>3. [at |-> "check", pad |-> s.pad, mine |-> TRUE] \in Scan
      BY DEF Scan, Scanning
    <2> QED
      BY <2>1, <2>2, <2>3
  <1>2. CASE s.at = "free"
    <2>1. t = IF lock[s.pad] = None THEN GoTo(s, "check")
              ELSE NextPad(s, Answer(s, "none"))
      BY <1>2, Zenon DEF After
    <2> QED
      BY <1>2, <2>1, PadsAssumption
         DEF NextPad, GoTo, Answer, Scan, Pad, Scanning, Answered
  <1>3. CASE s.at = "check"
    <2>1. t = GoTo(s, IF lock[s.pad] = d THEN "refresh" ELSE "claim")
      BY <1>3, Zenon DEF After
    <2> QED
      BY <2>1 DEF GoTo, Scan, Scanning
  <1>4. CASE s.at \in {"refresh", "claim"}
    <2>1. t = Answer(s, "ok") \/ t = Answer(s, "taken")
      BY <1>4, Zenon DEF After
    <2>2. Answer(s, "ok") \in Scan /\ Answer(s, "taken") \in Scan
      BY PadsAssumption DEF Answer, Scan, Pad, Answered
    <2> QED
      BY <2>1, <2>2
  <1> QED
    BY <1>1, <1>2, <1>3, <1>4 DEF Scanning

\* A command of a scan gives a free pad to the drone, or leaves the names in
\* the keys alone.
LEMMA CommandEffect ==
    ASSUME TypeOK, NEW d \in Drone, NEW s \in Scan, Command(d, s)
    PROVE  /\ held' \subseteq Pad
           /\ \/ lock' = lock
              \/ /\ s.at = "claim" /\ lock[s.pad] = None
                 /\ lock' = [lock EXCEPT ![s.pad] = d]
  BY DEF Command, TypeOK, Scan

\* Whoever counted on a pad before its key was rewritten, and is neither
\* robbed nor done, is named in it.
LEMMA RewriteBacked ==
    ASSUME TypeOK, PadBacked, NEW S \in SUBSET Pad,
           NEW owner \in [Pad -> Drone \cup {None}], NEW self,
           Rewrite(S, owner, self)
    PROVE  /\ lock' \in [Pad -> Drone \cup {None}]
           /\ held' \subseteq Pad
           /\ robbed' \subseteq Drone
           /\ \A d \in Drone, p \in Pad :
                CountsOn(d, p) /\ d # self /\ d \notin robbed' => lock'[p] = d
  <1>1. /\ lock' \in [Pad -> Drone \cup {None}]
        /\ held' \subseteq Pad
        /\ robbed' \subseteq Drone
    BY DEF Rewrite, TypeOK
  <1>2. ASSUME NEW d \in Drone, NEW p \in Pad, CountsOn(d, p), d # self, d \notin robbed'
        PROVE  lock'[p] = d
    <2>1. d \notin robbed /\ (p \in S => owner[p] = d)
      BY <1>2 DEF Rewrite
    <2>2. lock[p] = d
      BY <1>2, <2>1 DEF PadBacked
    <2> QED
      BY <2>1, <2>2 DEF Rewrite
  <1> QED
    BY <1>1, <1>2

-----------------------------------------------------------------------------
(* The invariant holds at the start and is kept by every step.             *)

LEMMA ParkedType ==
    ASSUME NEW place PROVE Parked(place) \in [Pad -> Drone \cup {None}]
  <1>1. ASSUME NEW p \in Pad PROVE Parked(place)[p] \in Drone \cup {None}
    <2>1. CASE \E d \in Drone : place[d] = p
      BY <2>1 DEF Parked
    <2>2. CASE ~\E d \in Drone : place[d] = p
      BY <2>2 DEF Parked
    <2> QED
      BY <2>1, <2>2
  <1> QED
    BY <1>1 DEF Parked

LEMMA InitIInv == Init => IInv
  BY PadsAssumption, ParkedType, ScanTypes
     DEF Init, IInv, TypeOK, NothingFoundYet, ReleaseNeedsCaller, PadBacked, CountsOn, NoScan, Stage

LEMMA AssignIInv ==
    ASSUME IInv, NEW h \in Handler,
           \/ \E d \in Drone : AssignBegins(h, d) \/ AssignRescores(h, d)
           \/ AssignScans(h) \/ AssignAnswers(h) \/ AssignDropped(h)
    PROVE  IInv'
  <1> USE DEF IInv, TypeOK
  <1>1. ASSUME NEW d \in Drone, AssignBegins(h, d) \/ AssignRescores(h, d) PROVE IInv'
    BY <1>1, ScanTypes
       DEF AssignBegins, AssignRescores, Call, NothingFoundYet, ReleaseNeedsCaller,
           PadBacked, CountsOn
  <1>2. CASE AssignScans(h)
    <2> DEFINE d == assign[h].drone
               s == assign[h].scan
    <2>1. d \in Drone /\ s \in Scan
      BY <1>2 DEF AssignScans, Call
    <2>2. /\ held' \subseteq Pad
          /\ \/ lock' = lock
             \/ /\ s.at = "claim" /\ lock[s.pad] = None
                /\ lock' = [lock EXCEPT ![s.pad] = d]
      BY <1>2, <2>1, CommandEffect DEF AssignScans
    <2>3. After(d, s) \in Scan
      BY <1>2, <2>1, AfterType DEF AssignScans
    <2>4. assign' \in [Handler -> Call]
      BY <1>2, <2>3, ScanTypes DEF AssignScans, Call
    <2>5. UNCHANGED <<pc, site, scan, zone, releasing, robbed, restarts>>
      BY <1>2 DEF AssignScans
    <2>6. TypeOK'
      BY <2>1, <2>2, <2>4, <2>5 DEF Scan
    <2>7. PadBacked'
      BY <2>1, <2>2, <2>5, PadsAssumption DEF PadBacked, CountsOn, Scan
    <2> QED
      BY <2>5, <2>6, <2>7 DEF NothingFoundYet, ReleaseNeedsCaller
  <1>3. CASE AssignAnswers(h)
    <2>1. assign[h].drone \in Drone
      BY <1>3 DEF AssignAnswers, Call
    <2> QED
      BY <1>3, <2>1, ScanTypes
         DEF AssignAnswers, NothingFoundYet, ReleaseNeedsCaller, PadBacked, CountsOn,
             Start, Stage
  <1>4. CASE AssignDropped(h)
    BY <1>4, ScanTypes
       DEF AssignDropped, NothingFoundYet, ReleaseNeedsCaller, PadBacked, CountsOn
  <1> QED
    BY <1>1, <1>2, <1>3, <1>4

LEMMA ReserveIInv ==
    ASSUME IInv, NEW d \in Drone, ReserveScans(d) PROVE IInv'
  <1> DEFINE s == scan[d]
  <1>0. TypeOK /\ NothingFoundYet /\ PadBacked /\ ReleaseNeedsCaller
    BY DEF IInv
  <1>1. s \in Scan /\ s.at \in Scanning /\ s.pad \in Pad /\ pc[d] = "reserve"
    BY <1>0 DEF ReserveScans, TypeOK, Scan
  <1>2. /\ held' \subseteq Pad
        /\ \/ lock' = lock
           \/ /\ s.at = "claim" /\ lock[s.pad] = None
              /\ lock' = [lock EXCEPT ![s.pad] = d]
    BY <1>0, <1>1, CommandEffect DEF ReserveScans
  <1>3. /\ scan' = [scan EXCEPT ![d] = After(d, s)]
        /\ After(d, s) \in Scan
        /\ UNCHANGED <<pc, site, assign, zone, releasing, robbed, restarts>>
    BY <1>1, AfterType DEF ReserveScans
  <1>4. TypeOK'
    BY <1>0, <1>1, <1>2, <1>3 DEF TypeOK
  <1>5. NothingFoundYet'
    <2>1. After(d, s).at \in {"own", "free"} => ~After(d, s).mine
      BY <1>0, <1>1 DEF NothingFoundYet, After, NextPad, GoTo, Answer, Scan, Scanning
    <2> QED
      BY <1>0, <1>3, <2>1 DEF NothingFoundYet, TypeOK
  <1>6. PadBacked'
    <2> SUFFICES ASSUME NEW e \in Drone, e \notin robbed', NEW p \in Pad,
                        CountsOn(e, p)'
                 PROVE  lock'[p] = e
      BY DEF PadBacked
    <2>1. CASE e # d
      <3>1. CountsOn(e, p)
        BY <1>0, <1>3, <2>1 DEF CountsOn, TypeOK
      <3>2. lock[p] = e /\ lock[p] # None
        BY <1>0, <1>3, <3>1, PadsAssumption DEF PadBacked
      <3> QED
        BY <1>0, <1>1, <1>2, <3>2 DEF TypeOK
    <2>2. CASE e = d
      <3> DEFINE t == After(d, s)
      <3>1. /\ t.pad = p
            /\ \/ t.at \in {"refresh", "ok"}
               \/ t.at \in {"check", "claim"} /\ t.mine
        BY <1>0, <1>1, <1>3, <2>2 DEF CountsOn, TypeOK
      <3>2. s.at \in {"own", "check", "refresh", "claim"} /\ s.pad = p
        BY <1>0, <1>1, <3>1
           DEF After, NextPad, GoTo, Answer, Scan, Scanning, NothingFoundYet
      <3>3. CASE lock[p] = d
        BY <1>2, <2>2, <3>2, <3>3, PadsAssumption
      <3>4. CASE lock[p] # d
        <4>1. ~CountsOn(d, p)
          BY <1>0, <1>3, <2>2, <3>4 DEF PadBacked
        <4>2. s.at = "claim" /\ ~s.mine
          BY <1>0, <1>1, <3>1, <3>2, <3>4, <4>1
             DEF After, NextPad, GoTo, Answer, CountsOn, Scan, NothingFoundYet
        <4>3. lock[p] = None
          BY <3>1, <3>2, <4>2 DEF After, GoTo, Answer
        <4>4. lock' = [lock EXCEPT ![p] = d]
          BY <3>2, <4>2, <4>3 DEF ReserveScans, Command
        <4> QED
          BY <1>0, <2>2, <4>4 DEF TypeOK
      <3> QED
        BY <3>3, <3>4
    <2> QED
      BY <2>1, <2>2
  <1> QED
    BY <1>0, <1>3, <1>4, <1>5, <1>6 DEF IInv, ReleaseNeedsCaller

LEMMA MissionIInv ==
    ASSUME IInv, NEW d \in Drone,
           \/ ReserveAnswers(d) \/ ReserveFails(d) \/ TakeOff(d) \/ TurnBack(d)
           \/ Land(d) \/ ConfirmHome(d) \/ Fail(d) \/ RtlLands(d)
    PROVE  IInv'
  <1> USE ScanTypes DEF IInv, TypeOK, Stage, NothingFoundYet, ReleaseNeedsCaller
  <1>1. ASSUME NEW z \in Pad \cup {0}, pc[d] = "reserve", Granted(d, z),
               z # 0 => scan[d].at = "ok" /\ scan[d].pad = z
        PROVE  IInv'
    <2>1. /\ pc' = [pc EXCEPT ![d] = "ready"]
          /\ zone' = [zone EXCEPT ![d] = z]
          /\ scan' = [scan EXCEPT ![d] = NoScan]
          /\ robbed' = IF z = 0 THEN robbed \ {d} ELSE robbed
          /\ UNCHANGED <<lock, held, site, assign, releasing, restarts>>
      BY <1>1 DEF Granted
    <2>2. TypeOK' /\ NothingFoundYet' /\ ReleaseNeedsCaller'
      BY <2>1 DEF NoScan
    <2>3. ASSUME NEW e \in Drone, e \notin robbed', NEW p \in Pad, CountsOn(e, p)'
          PROVE  lock[p] = e
      <3>1. CASE e # d
        BY <2>1, <2>3, <3>1 DEF PadBacked, CountsOn
      <3>2. CASE e = d
        <4>1. z = p
          BY <1>1, <2>1, <2>3, <3>2 DEF CountsOn
        <4>2. z # 0
          BY <4>1, PadsAssumption DEF Pad
        <4> QED
          BY <1>1, <2>1, <2>3, <3>2, <4>1, <4>2 DEF PadBacked, CountsOn
      <3> QED
        BY <3>1, <3>2
    <2> QED
      BY <2>1, <2>2, <2>3 DEF PadBacked
  <1>2. CASE ReserveAnswers(d) \/ ReserveFails(d)
    BY <1>1, <1>2 DEF ReserveAnswers, ReserveFails, Scan
  <1>3. CASE TakeOff(d)
    BY <1>3 DEF TakeOff, Moves, PadBacked, CountsOn
  <1>4. CASE TurnBack(d)
    BY <1>4 DEF TurnBack, Moves, PadBacked, CountsOn
  <1>5. CASE Land(d)
    BY <1>5, PadsAssumption DEF Land, Moves, PadBacked, CountsOn, Goal, HOME_1, Pad
  <1>6. CASE ConfirmHome(d)
    <2>1. /\ pc' = [pc EXCEPT ![d] = "idle"]
          /\ zone' = [zone EXCEPT ![d] = 0]
          /\ UNCHANGED <<site, scan, assign, releasing, restarts>>
      BY <1>6 DEF ConfirmHome, Moves, Over
    <2>2. CASE zone[d] # 0 /\ Rewrite({zone[d]}, [p \in Pad |-> d], d)
      <3>1. zone[d] \in Pad /\ [p \in Pad |-> d] \in [Pad -> Drone \cup {None}]
        BY <2>2
      <3>2. /\ lock' \in [Pad -> Drone \cup {None}]
            /\ held' \subseteq Pad
            /\ robbed' \subseteq Drone
            /\ \A e \in Drone, q \in Pad :
                 CountsOn(e, q) /\ e # d /\ e \notin robbed' => lock'[q] = e
        BY <2>2, <3>1, RewriteBacked
      <3>3. PadBacked'
        BY <2>1, <3>2 DEF PadBacked, CountsOn
      <3> QED
        BY <2>1, <3>2, <3>3
    <2>3. CASE UNCHANGED <<lock, held>> /\ robbed' = robbed \ {d}
      BY <2>1, <2>3 DEF PadBacked, CountsOn
    <2> QED
      BY <1>6, <2>2, <2>3 DEF ConfirmHome
  <1>7. CASE Fail(d)
    BY <1>7 DEF Fail, Over, PadBacked, CountsOn, NoScan
  <1>8. CASE RtlLands(d)
    BY <1>8 DEF RtlLands, Moves, PadBacked, CountsOn
  <1> QED
    BY <1>2, <1>3, <1>4, <1>5, <1>6, <1>7, <1>8

LEMMA KeysIInv ==
    ASSUME IInv,
           \/ \E p \in Pad : HoldExpires(p)
           \/ \E d \in Drone, p \in Pad : ReleaseChecks(d, p)
           \/ ReleaseDeletes
           \/ FleetRestart
    PROVE  IInv'
  <1>0. TypeOK /\ NothingFoundYet /\ ReleaseNeedsCaller /\ PadBacked
    BY DEF IInv
  <1>1. Nobody \in [Pad -> Drone \cup {None}]
    BY DEF Nobody
  <1>2. ASSUME NEW p \in Pad, HoldExpires(p) PROVE IInv'
    <2>1. Rewrite({p}, Nobody, None) /\ UNCHANGED <<pc, site, scan, assign, zone, releasing, restarts>>
      BY <1>2 DEF HoldExpires
    <2>2. /\ lock' \in [Pad -> Drone \cup {None}]
          /\ held' \subseteq Pad
          /\ robbed' \subseteq Drone
          /\ \A e \in Drone, q \in Pad :
               CountsOn(e, q) /\ e # None /\ e \notin robbed' => lock'[q] = e
      BY <1>0, <1>1, <2>1, RewriteBacked
    <2>3. PadBacked'
      BY <2>1, <2>2, PadsAssumption DEF PadBacked, CountsOn
    <2> QED
      BY <1>0, <2>1, <2>2, <2>3 DEF IInv, TypeOK, NothingFoundYet, ReleaseNeedsCaller
  <1>3. ASSUME NEW d \in Drone, NEW p \in Pad, ReleaseChecks(d, p) PROVE IInv'
    BY <1>0, <1>3 DEF IInv, TypeOK, ReleaseChecks, Occupant, NothingFoundYet, ReleaseNeedsCaller, PadBacked, CountsOn
  <1>4. CASE ReleaseDeletes
    <2>1. /\ releasing \in Pad
          /\ Rewrite({releasing}, Nobody, None)
          /\ releasing' = 0
          /\ UNCHANGED <<pc, site, scan, assign, zone, restarts>>
      BY <1>0, <1>4 DEF ReleaseDeletes, TypeOK
    <2>2. /\ lock' \in [Pad -> Drone \cup {None}]
          /\ held' \subseteq Pad
          /\ robbed' \subseteq Drone
          /\ \A e \in Drone, q \in Pad :
               CountsOn(e, q) /\ e # None /\ e \notin robbed' => lock'[q] = e
      BY <1>0, <1>1, <2>1, RewriteBacked
    <2>3. PadBacked'
      BY <2>1, <2>2, PadsAssumption DEF PadBacked, CountsOn
    <2> QED
      BY <1>0, <2>1, <2>2, <2>3 DEF IInv, TypeOK, NothingFoundYet, ReleaseNeedsCaller
  <1>5. CASE FleetRestart
    <2>1. /\ restarts < MaxRestarts /\ restarts' = restarts + 1
          /\ assign' = [h \in Handler |-> NoCall]
          /\ scan' = [d \in Drone |-> NoScan]
          /\ releasing' = 0
          /\ UNCHANGED <<pc, site, zone>>
      BY <1>5 DEF FleetRestart
    <2>2. CASE \E owner \in [Pad -> Drone \cup {None}] : Rewrite(Pad, owner, None)
      <3>1. PICK owner \in [Pad -> Drone \cup {None}] : Rewrite(Pad, owner, None)
        BY <2>2
      <3>2. /\ lock' \in [Pad -> Drone \cup {None}]
            /\ held' \subseteq Pad
            /\ robbed' \subseteq Drone
            /\ \A e \in Drone, q \in Pad :
                 CountsOn(e, q) /\ e # None /\ e \notin robbed' => lock'[q] = e
        BY <1>0, <3>1, RewriteBacked
      <3>3. PadBacked'
        BY <2>1, <3>2, PadsAssumption DEF PadBacked, CountsOn, NoScan
      <3> QED
        BY <1>0, <2>1, <3>2, <3>3, ScanTypes, PadsAssumption
           DEF IInv, TypeOK, NothingFoundYet, ReleaseNeedsCaller, NoScan
    <2>3. CASE UNCHANGED <<lock, held, robbed>>
      BY <1>0, <2>1, <2>3, ScanTypes, PadsAssumption
         DEF IInv, TypeOK, NothingFoundYet, ReleaseNeedsCaller, PadBacked, CountsOn, NoScan
    <2> QED
      BY <1>5, <2>2, <2>3 DEF FleetRestart
  <1> QED
    BY <1>2, <1>3, <1>4, <1>5

LEMMA StepIInv == IInv /\ [Next]_vars => IInv'
  <1>1. IInv /\ UNCHANGED vars => IInv'
    BY DEF vars, IInv, TypeOK, NothingFoundYet, ReleaseNeedsCaller, PadBacked, CountsOn
  <1> QED
    BY <1>1, AssignIInv, ReserveIInv, MissionIInv, KeysIInv DEF Next

THEOREM Invariance == Spec => []IInv
  BY InitIInv, StepIInv, PTL DEF Spec

-----------------------------------------------------------------------------
(* The theorems.                                                           *)

\* Type correctness.
THEOREM TypeCorrect == Spec => []TypeOK
  <1>1. IInv => TypeOK
    BY DEF IInv
  <1> QED
    BY <1>1, Invariance, PTL

\* A granted pad stays the drone's own unless its key expired, was deleted or
\* was overwritten by a landing: the scans themselves never grant one pad twice.
THEOREM PadTheorem == Spec => []PadBacked
  <1>1. IInv => PadBacked
    BY DEF IInv
  <1> QED
    BY <1>1, Invariance, PTL

\* Restarts are only counted up.
LEMMA RestartsCount ==
  ASSUME TypeOK, [Next]_vars, restarts' = 0
  PROVE  restarts = 0 /\ ~FleetRestart
  <1>1. restarts \in Nat
    BY PadsAssumption DEF TypeOK
  <1>2. ASSUME FleetRestart PROVE FALSE
    BY <1>1, <1>2 DEF FleetRestart
  <1>3. CASE \E h \in Handler :
               \/ \E d \in Drone : AssignBegins(h, d) \/ AssignRescores(h, d)
               \/ AssignScans(h) \/ AssignAnswers(h) \/ AssignDropped(h)
    BY <1>2, <1>3 DEF AssignBegins, AssignRescores, AssignScans, AssignAnswers, AssignDropped
  <1>4. CASE \E d \in Drone :
               \/ ReserveScans(d) \/ ReserveAnswers(d) \/ ReserveFails(d)
               \/ TakeOff(d) \/ TurnBack(d) \/ Land(d) \/ ConfirmHome(d)
               \/ Fail(d) \/ RtlLands(d)
    BY <1>2, <1>4
       DEF ReserveScans, ReserveAnswers, ReserveFails, Granted, TakeOff, TurnBack, Land,
           ConfirmHome, Fail, RtlLands
  <1>5. CASE \/ \E d \in Drone, p \in Pad : ReleaseChecks(d, p)
             \/ ReleaseDeletes
             \/ \E p \in Pad : HoldExpires(p)
    BY <1>2, <1>5 DEF ReleaseChecks, ReleaseDeletes, HoldExpires
  <1>6. CASE UNCHANGED vars
    BY <1>2, <1>6 DEF vars
  <1> QED
    BY <1>2, <1>3, <1>4, <1>5, <1>6 DEF Next

\* What PadBacked says of the others makes the SET of a landing harmless: the
\* key it overwrites names the drone that lands.
LEMMA KeptStep == IInv /\ PadsKept /\ [Next]_vars => PadsKept'
  <1> SUFFICES ASSUME IInv, PadsKept, [Next]_vars,
                      ~HoldCanExpire, ~MayRelease, restarts' = 0
               PROVE  robbed' = {}
    BY DEF PadsKept
  <1>a. restarts = 0 /\ ~FleetRestart
    BY RestartsCount DEF IInv
  <1>0. robbed = {} /\ releasing = 0 /\ TypeOK /\ PadBacked
    BY <1>a DEF PadsKept, IInv, ReleaseNeedsCaller
  <1>1. ASSUME NEW d \in Drone, ConfirmHome(d) PROVE robbed' = {}
    <2>1. CASE zone[d] # 0 /\ Rewrite({zone[d]}, [p \in Pad |-> d], d)
      <3>1. zone[d] \in Pad /\ pc[d] = "landed"
        BY <1>0, <1>1, <2>1 DEF TypeOK, ConfirmHome, Moves
      <3>2. lock[zone[d]] = d
        BY <1>0, <3>1 DEF PadBacked, CountsOn
      <3>3. \A e \in Drone : CountsOn(e, zone[d]) => e = d
        BY <1>0, <3>1, <3>2 DEF PadBacked
      <3> QED
        BY <1>0, <2>1, <3>1, <3>3 DEF Rewrite
    <2>2. CASE robbed' = robbed \ {d}
      BY <1>0, <2>2
    <2> QED
      BY <1>1, <2>1, <2>2 DEF ConfirmHome
  <1>2. ASSUME NEW h \in Handler,
               \/ \E d \in Drone : AssignBegins(h, d) \/ AssignRescores(h, d)
               \/ AssignScans(h) \/ AssignAnswers(h) \/ AssignDropped(h)
        PROVE  robbed' = {}
    BY <1>0, <1>2
       DEF AssignBegins, AssignRescores, AssignScans, AssignAnswers, AssignDropped
  <1>3. ASSUME NEW d \in Drone,
               \/ ReserveScans(d) \/ ReserveAnswers(d) \/ ReserveFails(d)
               \/ TakeOff(d) \/ TurnBack(d) \/ Land(d) \/ Fail(d) \/ RtlLands(d)
        PROVE  robbed' = {}
    BY <1>0, <1>3
       DEF ReserveScans, ReserveAnswers, ReserveFails, Granted, TakeOff, TurnBack, Land,
           Fail, RtlLands
  <1>4. CASE UNCHANGED vars
    BY <1>0, <1>4 DEF vars
  <1>5. ~ReleaseDeletes /\ \A p \in Pad : ~HoldExpires(p)
    BY <1>0 DEF ReleaseDeletes, HoldExpires
  <1>6. \A d \in Drone, p \in Pad : ~ReleaseChecks(d, p)
    BY <1>0 DEF ReleaseChecks
  <1> QED
    BY <1>1, <1>2, <1>3, <1>4, <1>5, <1>6, <1>a DEF Next

\* If no hold expires and nobody releases pads, then until Fleet AI restarts no
\* landing ever takes the key of a pad that another drone was granted, even
\* when calls to Fleet AI fail.
THEOREM KeptTheorem == Spec => []PadsKept
  <1>1. Init => PadsKept
    BY DEF Init, PadsKept
  <1> QED
    BY <1>1, Invariance, KeptStep, PTL DEF Spec
-----------------------------------------------------------------------------
(* Keys that go from one drone to another.                                 *)

\* Pad p's key names another drone after a step than before it.
HandedOver(p) == lock[p] # None /\ lock'[p] # None /\ lock'[p] # lock[p]

\* A drone lands on p that was granted it and had lost its key.
RobbedLands(p) ==
    \E d \in robbed : pc[d] = "landed" /\ zone[d] = p /\ lock'[p] = d

\* A key that becomes vacant is handed to nobody, and the others stay.
LEMMA VacatedNotHanded ==
    ASSUME NEW S \in SUBSET Pad, NEW e, Rewrite(S, Nobody, e), NEW p \in Pad
    PROVE  ~HandedOver(p)
  BY DEF Rewrite, Nobody, HandedOver

LEMMA CommandNotHanded ==
    ASSUME TypeOK, NEW d \in Drone, NEW s \in Scan, Command(d, s), NEW p \in Pad
    PROVE  ~HandedOver(p)
  BY CommandEffect DEF HandedOver, TypeOK, Scan

LEMMA HandedStep ==
    ASSUME IInv, [Next]_vars, NEW p \in Pad, HandedOver(p)
    PROVE  RobbedLands(p) \/ restarts' = restarts + 1
  <1>0. TypeOK /\ PadBacked
    BY DEF IInv
  <1>1. ASSUME NEW d \in Drone, ConfirmHome(d) PROVE RobbedLands(p)
    <2>1. zone[d] # 0 /\ Rewrite({zone[d]}, [q \in Pad |-> d], d)
      BY <1>1 DEF ConfirmHome, HandedOver
    <2>2. p = zone[d] /\ lock'[p] = d /\ pc[d] = "landed"
      BY <1>1, <2>1 DEF Rewrite, HandedOver, ConfirmHome, Moves
    <2>3. d \in robbed
      BY <1>0, <2>2 DEF PadBacked, CountsOn, HandedOver
    <2> QED
      BY <2>2, <2>3 DEF RobbedLands
  <1>2. ASSUME NEW h \in Handler, AssignScans(h) PROVE FALSE
    <2>1. assign[h].drone \in Drone /\ assign[h].scan \in Scan
      BY <1>0, <1>2 DEF AssignScans, TypeOK, Call
    <2> QED
      BY <1>0, <1>2, <2>1, CommandNotHanded DEF AssignScans
  <1>3. ASSUME NEW d \in Drone, ReserveScans(d) PROVE FALSE
    <2>1. scan[d] \in Scan
      BY <1>0 DEF TypeOK
    <2> QED
      BY <1>0, <1>3, <2>1, CommandNotHanded DEF ReserveScans
  <1>4. ~ReleaseDeletes
    BY <1>0, VacatedNotHanded DEF ReleaseDeletes, TypeOK
  <1>5. \A q \in Pad : ~HoldExpires(q)
    BY VacatedNotHanded DEF HoldExpires
  <1>6. ASSUME UNCHANGED lock PROVE FALSE
    BY <1>6 DEF HandedOver
  <1>7. CASE FleetRestart
    BY <1>7 DEF FleetRestart
  <1>8. ASSUME NEW h \in Handler,
               \/ \E d \in Drone : AssignBegins(h, d) \/ AssignRescores(h, d)
               \/ AssignAnswers(h) \/ AssignDropped(h)
        PROVE  FALSE
    BY <1>6, <1>8 DEF AssignBegins, AssignRescores, AssignAnswers, AssignDropped
  <1>9. ASSUME NEW d \in Drone,
               \/ ReserveAnswers(d) \/ ReserveFails(d) \/ TakeOff(d) \/ TurnBack(d)
               \/ Land(d) \/ Fail(d) \/ RtlLands(d)
               \/ \E q \in Pad : ReleaseChecks(d, q)
        PROVE  FALSE
    BY <1>6, <1>9
       DEF ReserveAnswers, ReserveFails, Granted, TakeOff, TurnBack, Land, Fail, RtlLands,
           ReleaseChecks
  <1>10. ~UNCHANGED vars
    BY <1>6 DEF vars
  <1> QED
    BY <1>1, <1>2, <1>3, <1>4, <1>5, <1>7, <1>8, <1>9, <1>10 DEF Next

\* With every way to lose a key allowed, a home pad's key goes straight from one
\* drone to another in two cases only: Fleet AI has rebuilt all of them
\* (boot_pad_reconstruction), or /on-home-landing of a drone that had lost the
\* key of its pad while it flew overwrites whoever got it since.  No scan of an
\* assignment or a mission ever does it.
THEOREM HandoverTheorem ==
    Spec => [][\A p \in Pad : HandedOver(p) => RobbedLands(p) \/ restarts' = restarts + 1]_vars
  <1>1. IInv /\ [Next]_vars =>
           [\A p \in Pad : HandedOver(p) => RobbedLands(p) \/ restarts' = restarts + 1]_vars
    BY HandedStep
  <1> QED
    BY <1>1, Invariance, PTL DEF Spec
==============================================================================
