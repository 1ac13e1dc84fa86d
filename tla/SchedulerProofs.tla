-------------------------- MODULE SchedulerProofs --------------------------
(***************************************************************************)
(* Proofs about Scheduler: the rest of a drone is kept, and it ends, and   *)
(* no candidate beats the winner on every count, for any number of drones  *)
(* and requests and any cooldown.                                          *)
(***************************************************************************)
EXTENDS Scheduler, TLAPS

\* What a request has at its stages; a drone is scored after it was read.
Stages ==
    \A q \in Request :
        /\ cand[q] \subseteq pool[q]
        /\ todo[q] \cap pool[q] = {}
        /\ pc[q] # "read" => todo[q] = {} /\ cand[q] = {}
        /\ pc[q] = "idle" => pool[q] = {} /\ idle[q] = {} /\ winner[q] = None
        /\ winner[q] # None => rest[q][winner[q]] # 0

\* A drone of the snapshot is on the ground until it is launched.
OnGround ==
    \A q \in Request : \A d \in todo[q] \cup pool[q] \cup idle[q] :
        d \in flew[q] \/ status[d] = "IDLE"

\* A candidate's landing is no older than a request believes, and as old as it
\* believes if it read it.
Believed ==
    \A q \in Request : \A d \in cand[q] :
        /\ age[d] <= seen[q][d]
        /\ d \notin blind[q] \cup flew[q] => age[d] = seen[q][d]

\* A drone that got a score has rested.
Rested ==
    \A q \in Request, d \in Drone :
        rest[q][d] # 0 =>
            /\ d \in pool[q] \ cand[q]
            /\ d \notin blind[q] \cup flew[q] => age[d] > Cooldown

Inv == TypeOK /\ Stages /\ OnGround /\ Believed /\ Rested /\ CooldownEnds

\* The points for the rest, and the cooldown that is left.
LEMMA RestPointsOf ==
    ASSUME NEW a \in Age
    PROVE  /\ RestPoints(a) \in {0, 2, 6, 10}
           /\ RestPoints(a) = 0 <=> a <= Cooldown
  BY SchedulerAssumption DEF RestPoints, Age, Long

LEMMA RemainingOf ==
    ASSUME NEW a \in Age, a <= Cooldown
    PROVE  /\ Remaining(a) \in 1..Cooldown
           /\ a + Remaining(a) <= Cooldown + 1
  BY SchedulerAssumption DEF Remaining, Larger, Age, Long

LEMMA LaterOf ==
    ASSUME NEW a \in Age
    PROVE  /\ Later(a) \in Age
           /\ a <= Later(a) /\ Later(a) <= a + 1
           /\ \A b \in Age : a <= b => Later(a) <= Later(b)
  BY SchedulerAssumption DEF Later, Age, Long

LEMMA BlankType == Blank \in Profile
  BY SchedulerAssumption DEF Blank

LEMMA Initially == Init => Inv
<1> SUFFICES ASSUME Init PROVE Inv
  OBVIOUS
<1> USE SchedulerAssumption DEF Init, Age, Long
<1>1. TypeOK
  BY BlankType DEF TypeOK
<1>2. Stages /\ OnGround /\ Believed /\ Rested /\ CooldownEnds
  BY DEF Stages, OnGround, Believed, Rested, CooldownEnds
<1> QED
  BY <1>1, <1>2 DEF Inv

-----------------------------------------------------------------------------
(* A request.                                                              *)

LEMMA SelectKeeps ==
    ASSUME Inv, NEW q \in Request, NEW drones \in SUBSET Drone, NEW kept \in SUBSET drones,
           Select(q, drones, kept),
           flew' \in [Request -> SUBSET Drone],
           \A r \in Request : r # q => flew'[r] = flew[r],
           \A d \in drones : d \in flew'[q] \/ status[d] = "IDLE"
    PROVE  Inv'
<1> USE SchedulerAssumption DEF Inv, Select, keys
<1>1. TypeOK'
  <2>1. data' \in [Request -> [Drone -> Profile]]
    BY BlankType DEF TypeOK
  <2>2. seen' \in [Request -> [Drone -> Age]] /\ rest' \in [Request -> [Drone -> {0, 2, 6, 10}]]
    BY DEF TypeOK, Age, Long
  <2>3. (todo \in [Request -> SUBSET Drone] /\ idle \in [Request -> SUBSET Drone])'
    BY DEF TypeOK
  <2>4. (pool \in [Request -> SUBSET Drone] /\ cand \in [Request -> SUBSET Drone]
         /\ blind \in [Request -> SUBSET Drone])'
    BY DEF TypeOK
  <2>5. pc' \in [Request -> {"idle", "read", "picked"}]
        /\ winner' \in [Request -> Drone \cup {None}]
    BY DEF TypeOK
  <2> QED
    BY <2>1, <2>2, <2>3, <2>4, <2>5 DEF TypeOK
<1>2. Stages'
  BY DEF TypeOK, Stages
<1>3. OnGround'
  BY DEF TypeOK, OnGround
<1>4. Believed'
  BY DEF TypeOK, Believed
<1>5. Rested'
  BY DEF TypeOK, Rested
<1>6. CooldownEnds'
  BY DEF CooldownEnds
<1> QED
  BY <1>1, <1>2, <1>3, <1>4, <1>5, <1>6

LEMMA BeginKeeps ==
    ASSUME Inv, NEW q \in Request, Begin(q)
    PROVE  Inv'
<1>1. flew' \in [Request -> SUBSET Drone] /\ \A r \in Request : r # q => flew'[r] = flew[r]
  BY DEF Inv, TypeOK, Begin
<1> DEFINE drones == {d \in Drone : status[d] = "IDLE"}
<1>2. Select(q, drones, drones)
  BY DEF Begin
<1>3. drones \in SUBSET Drone /\ \A d \in drones : status[d] = "IDLE"
  OBVIOUS
<1> HIDE DEF drones
<1> QED
  BY <1>1, <1>2, <1>3, SelectKeeps

LEMMA ReselectKeeps ==
    ASSUME Inv, NEW q \in Request, Reselect(q)
    PROVE  Inv'
<1>1. idle[q] \in SUBSET Drone /\ {} \in SUBSET idle[q]
  BY DEF Inv, TypeOK
<1>2. \A d \in idle[q] : d \in flew[q] \/ status[d] = "IDLE"
  BY DEF Inv, OnGround
<1>3. flew' = flew /\ flew \in [Request -> SUBSET Drone]
  BY DEF Reselect, Inv, TypeOK
<1>4. Select(q, idle[q], {})
  BY DEF Reselect
<1> QED
  BY <1>1, <1>2, <1>3, <1>4, SelectKeeps

\* A drone that is left out is only struck from the list.
LEMMA SkipKeeps ==
    ASSUME Inv, NEW q \in Request, NEW d \in todo[q],
           todo' = [todo EXCEPT ![q] = @ \ {d}],
           UNCHANGED <<cand, pool, data, seen, blind>>,
           UNCHANGED <<status, keys, monitor, pc, rest, winner, idle, flew>>
    PROVE  Inv'
<1> USE DEF Inv, keys
<1>1. TypeOK'
  BY DEF TypeOK
<1>2. Stages' /\ OnGround'
  BY DEF TypeOK, Stages, OnGround
<1>3. Believed' /\ Rested' /\ CooldownEnds'
  BY DEF Believed, Rested, CooldownEnds
<1> QED
  BY <1>1, <1>2, <1>3

\* A candidate is entered with the age of its landing, or with none.
LEMMA TakeKeeps ==
    ASSUME Inv, NEW q \in Request, NEW d \in todo[q], NEW p \in Profile,
           NEW a \in {Long, age[d]}, NEW b,
           pc[q] = "read",
           todo' = [todo EXCEPT ![q] = @ \ {d}],
           cand' = [cand EXCEPT ![q] = @ \cup {d}],
           pool' = [pool EXCEPT ![q] = @ \cup {d}],
           data' = [data EXCEPT ![q][d] = p],
           seen' = [seen EXCEPT ![q][d] = a],
           blind' = [blind EXCEPT ![q] = b],
           b = blind[q] \/ b = blind[q] \cup {d},
           a # age[d] => d \in b,
           UNCHANGED <<status, keys, monitor, pc, rest, winner, idle, flew>>
    PROVE  Inv'
<1> USE SchedulerAssumption DEF Inv, keys
<1>1. d \in Drone /\ d \notin pool[q] /\ d \notin cand[q] /\ rest[q][d] = 0
  BY DEF TypeOK, Stages, Rested
<1>2. a \in Age /\ age[d] \in Age /\ age[d] <= a
  BY <1>1 DEF TypeOK, Age, Long
<1>3. TypeOK'
  <2>1. todo' \in [Request -> SUBSET Drone]
    BY DEF TypeOK
  <2>2. cand' \in [Request -> SUBSET Drone]
    BY <1>1 DEF TypeOK
  <2>3. pool' \in [Request -> SUBSET Drone]
    BY <1>1 DEF TypeOK
  <2>4. blind' \in [Request -> SUBSET Drone]
    BY <1>1 DEF TypeOK
  <2>5. data' \in [Request -> [Drone -> Profile]]
    BY <1>1 DEF TypeOK
  <2>6. seen' \in [Request -> [Drone -> Age]]
    BY <1>1, <1>2 DEF TypeOK
  <2> QED
    BY <2>1, <2>2, <2>3, <2>4, <2>5, <2>6 DEF TypeOK
<1>4. Stages'
  BY <1>1 DEF TypeOK, Stages
<1>5. OnGround'
  BY <1>1 DEF TypeOK, OnGround
<1>6. Believed'
  <2>1. ASSUME NEW r \in Request, NEW e \in cand'[r]
        PROVE  /\ age[e] <= seen'[r][e]
               /\ e \notin blind'[r] \cup flew[r] => age[e] = seen'[r][e]
    <3>1. CASE r = q /\ e = d
      <4>1. seen'[r][e] = a /\ blind'[r] = b
        BY <3>1, <1>1 DEF TypeOK
      <4> QED
        BY <4>1, <3>1, <1>2
    <3>2. CASE ~(r = q /\ e = d)
      <4>1. e \in cand[r] /\ seen'[r][e] = seen[r][e] /\ blind[r] \subseteq blind'[r]
        BY <3>2, <2>1, <1>1 DEF TypeOK
      <4> QED
        BY <4>1 DEF Believed
    <3> QED
      BY <3>1, <3>2
  <2> QED
    BY <2>1 DEF Believed
<1>7. Rested'
  <2>1. ASSUME NEW r \in Request, NEW e \in Drone, rest[r][e] # 0
        PROVE  e \in pool'[r] \ cand'[r] /\ blind[r] \subseteq blind'[r]
    BY <2>1, <1>1 DEF TypeOK, Rested
  <2> QED
    BY <2>1 DEF Rested
<1>8. CooldownEnds'
  BY DEF CooldownEnds
<1> QED
  BY <1>3, <1>4, <1>5, <1>6, <1>7, <1>8

LEMMA ReadKeeps ==
    ASSUME Inv, NEW q \in Request, NEW d \in Drone, Read(q, d)
    PROVE  Inv'
<1>1. CASE UNCHANGED <<cand, pool, data, seen, blind>>
  BY <1>1, SkipKeeps DEF Read
<1>2. ASSUME NEW p \in Profile, NEW knows,
             cand' = [cand EXCEPT ![q] = @ \cup {d}],
             pool' = [pool EXCEPT ![q] = @ \cup {d}],
             data' = [data EXCEPT ![q][d] = p],
             seen' = [seen EXCEPT ![q][d] = IF knows = "nothing" THEN Long ELSE age[d]],
             blind' = IF knows = "nothing" THEN [blind EXCEPT ![q] = @ \cup {d}]
                      ELSE blind
      PROVE  Inv'
  <2>1. CASE knows = "nothing"
    <3>1. seen' = [seen EXCEPT ![q][d] = Long]
          /\ blind' = [blind EXCEPT ![q] = blind[q] \cup {d}]
      BY <1>2, <2>1
    <3> QED
      BY <1>2, <3>1, TakeKeeps DEF Read
  <2>2. CASE knows # "nothing"
    <3>1. seen' = [seen EXCEPT ![q][d] = age[d]]
      BY <1>2, <2>2
    <3>2. blind' = [blind EXCEPT ![q] = blind[q]]
      BY <1>2, <2>2 DEF Inv, TypeOK
    <3> QED
      BY <1>2, <3>1, <3>2, TakeKeeps DEF Read
  <2> QED
    BY <2>1, <2>2
<1> QED
  BY <1>1, <1>2 DEF Read

LEMMA ExcludeKeeps ==
    ASSUME Inv, NEW q \in Request, NEW d \in Drone, Exclude(q, d)
    PROVE  Inv'
<1> USE SchedulerAssumption DEF Inv, Exclude
<1>1. seen[q][d] \in Age /\ age[d] \in Age /\ age[d] <= seen[q][d]
  BY DEF TypeOK, Believed
<1>2. seen[q][d] <= Cooldown
  BY <1>1, RestPointsOf
<1>3. Remaining(seen[q][d]) \in 1..Cooldown /\ age[d] + Remaining(seen[q][d]) <= Cooldown + 1
  BY <1>1, <1>2, RemainingOf DEF Age, Long
<1>4. TypeOK'
  <2>1. cand' \in [Request -> SUBSET Drone]
    BY DEF TypeOK
  <2>2. seen' \in [Request -> [Drone -> Age]]
    BY DEF TypeOK, Age, Long
  <2>3. state' \in [Drone -> {"IDLE", "COOLDOWN"}]
    BY DEF TypeOK
  <2>4. ttl' \in [Drone -> 0..Cooldown]
    <3>1. Remaining(seen[q][d]) \in 0..Cooldown
      BY <1>3
    <3>2. ttl' = ttl \/ ttl' = [ttl EXCEPT ![d] = Remaining(seen[q][d])]
      OBVIOUS
    <3>3. ttl \in [Drone -> 0..Cooldown]
      BY DEF TypeOK
    <3> QED
      BY ONLY <3>1, <3>2, <3>3
  <2> QED
    BY <2>1, <2>2, <2>3, <2>4 DEF TypeOK
<1>5. Stages'
  BY DEF TypeOK, Stages
<1>6. OnGround'
  BY DEF TypeOK, OnGround
<1>7. Believed'
  BY DEF TypeOK, Believed
<1>8. Rested'
  BY DEF TypeOK, Rested
<1>9. CooldownEnds'
  <2>1. ASSUME NEW e \in Drone, state'[e] = "COOLDOWN"
        PROVE  ttl'[e] > 0 /\ age'[e] + ttl'[e] <= Cooldown + 1
    <3>1. CASE e = d /\ ttl' = [ttl EXCEPT ![d] = Remaining(seen[q][d])]
      BY <1>1, <1>3, <3>1 DEF TypeOK
    <3>2. CASE state'[e] = state[e] /\ ttl'[e] = ttl[e]
      BY <2>1, <3>2 DEF CooldownEnds
    <3>3. (e = d /\ ttl' = [ttl EXCEPT ![d] = Remaining(seen[q][d])])
             \/ (state'[e] = state[e] /\ ttl'[e] = ttl[e])
      BY DEF TypeOK
    <3> QED
      BY <3>1, <3>2, <3>3
  <2> QED
    BY <2>1 DEF CooldownEnds
<1> QED
  BY <1>4, <1>5, <1>6, <1>7, <1>8, <1>9

LEMMA ScoreKeeps ==
    ASSUME Inv, NEW q \in Request, NEW d \in Drone, Score(q, d)
    PROVE  Inv'
<1> USE SchedulerAssumption DEF Inv, Score, keys
<1>1. seen[q][d] \in Age /\ RestPoints(seen[q][d]) # 0
  BY DEF TypeOK
<1>2. seen[q][d] > Cooldown
  BY <1>1, RestPointsOf DEF Age, Long
<1>3. TypeOK'
  BY <1>1, RestPointsOf DEF TypeOK, Age, Long
<1>4. Stages'
  BY <1>1 DEF TypeOK, Stages
<1>5. OnGround'
  BY DEF TypeOK, OnGround
<1>6. Believed'
  BY DEF TypeOK, Believed
<1>7. Rested'
  BY <1>2 DEF TypeOK, Rested, Believed, Stages
<1>8. CooldownEnds'
  BY DEF CooldownEnds
<1> QED
  BY <1>3, <1>4, <1>5, <1>6, <1>7, <1>8

LEMMA PickKeeps ==
    ASSUME Inv, NEW q \in Request, Pick(q)
    PROVE  Inv'
<1> USE SchedulerAssumption DEF Inv, keys
<1>1. PICK w \in Scored(q) : winner' = [winner EXCEPT ![q] = w]
  BY DEF Pick, Best
<1>2. w \in pool[q] /\ rest[q][w] # 0 /\ w \in Drone
  BY <1>1 DEF Scored, TypeOK
<1>3. TypeOK'
  BY <1>1, <1>2 DEF TypeOK, Pick
<1>4. Stages'
  BY <1>1, <1>2 DEF TypeOK, Stages, Pick
<1>5. OnGround' /\ Believed' /\ Rested' /\ CooldownEnds'
  BY DEF OnGround, Believed, Rested, CooldownEnds, Pick
<1> QED
  BY <1>3, <1>4, <1>5

LEMMA AnswerKeeps ==
    ASSUME Inv, NEW q \in Request, Answer(q)
    PROVE  Inv'
<1> USE SchedulerAssumption DEF Inv, Answer, keys
<1>1. todo[q] = {} /\ cand[q] = {}
  BY DEF Stages, NoneEligible
<1>2. TypeOK'
  BY BlankType DEF TypeOK, Age, Long
<1>3. Stages'
  BY <1>1 DEF TypeOK, Stages
<1>4. OnGround'
  BY <1>1 DEF TypeOK, OnGround
<1>5. Believed'
  BY <1>1 DEF TypeOK, Believed
<1>6. Rested'
  BY DEF TypeOK, Rested
<1>7. CooldownEnds'
  BY DEF CooldownEnds
<1> QED
  BY <1>2, <1>3, <1>4, <1>5, <1>6, <1>7

-----------------------------------------------------------------------------
(* The others.                                                             *)

LEMMA LaunchKeeps ==
    ASSUME Inv, NEW d \in Drone, Launch(d)
    PROVE  Inv'
<1> USE SchedulerAssumption DEF Inv, Launch, keys, request
<1>1. TypeOK'
  BY DEF TypeOK
<1>2. Stages' /\ CooldownEnds'
  BY DEF Stages, CooldownEnds
<1>3. OnGround'
  BY DEF TypeOK, Stages, OnGround
<1>4. Believed'
  BY DEF TypeOK, Believed
<1>5. Rested'
  BY DEF TypeOK, Rested
<1> QED
  BY <1>1, <1>2, <1>3, <1>4, <1>5

\* A landing makes an age smaller, of a drone that flew since every snapshot
\* that had it.
LEMMA LandKeeps ==
    ASSUME Inv, NEW d \in Drone, Land(d)
    PROVE  Inv'
<1> USE SchedulerAssumption DEF Inv, Land, request
<1>1. \A q \in Request : d \in pool[q] => d \in flew[q]
  BY DEF OnGround
<1>2. \A e \in Drone : age'[e] \in Age /\ age'[e] <= age[e] /\ (e # d => age'[e] = age[e])
  BY DEF TypeOK, Age, Long
<1>3. TypeOK'
  BY DEF TypeOK, Age, Long
<1>4. Stages'
  BY DEF Stages
<1>5. OnGround'
  BY DEF TypeOK, OnGround
<1>6. Believed'
  <2>1. ASSUME NEW q \in Request, NEW e \in cand[q]
        PROVE  age'[e] <= seen[q][e] /\ (e \notin blind[q] \cup flew[q] => age'[e] = seen[q][e])
    <3>1. e \in Drone /\ e \in pool[q] /\ seen[q][e] \in Age /\ age[e] \in Age
      BY DEF TypeOK, Stages
    <3> QED
      BY <1>1, <1>2, <3>1 DEF Believed, Age, Long
  <2> QED
    BY <2>1 DEF Believed
<1>7. Rested'
  BY <1>1, <1>2 DEF Rested
<1>8. CooldownEnds'
  <2>1. ASSUME NEW e \in Drone, state[e] = "COOLDOWN"
        PROVE  ttl[e] > 0 /\ age'[e] + ttl[e] <= Cooldown + 1
    BY <1>2, <2>1 DEF CooldownEnds, TypeOK, Age, Long
  <2> QED
    BY <2>1 DEF CooldownEnds
<1> QED
  BY <1>3, <1>4, <1>5, <1>6, <1>7, <1>8

LEMMA TickKeeps ==
    ASSUME Inv, Tick
    PROVE  Inv'
<1> USE SchedulerAssumption DEF Inv, Tick
<1>1. \A d \in Drone : age[d] \in Age /\ age'[d] = Later(age[d])
  BY DEF TypeOK
<1>2. \A q \in Request, d \in Drone : seen[q][d] \in Age /\ seen'[q][d] = Later(seen[q][d])
  BY DEF TypeOK
<1>3. TypeOK'
  <2>1. age' \in [Drone -> Age] /\ seen' \in [Request -> [Drone -> Age]]
    BY <1>1, <1>2, LaterOf
  <2>2. ttl' \in [Drone -> 0..Cooldown]
    <3>1. \A d \in Drone : ttl[d] \in 0..Cooldown
      BY DEF TypeOK
    <3>2. \A d \in Drone : (IF ttl[d] = 0 THEN 0 ELSE ttl[d] - 1) \in 0..Cooldown
      BY <3>1
    <3> QED
      BY <3>2
  <2>3. state' \in [Drone -> {"IDLE", "COOLDOWN"}]
    BY DEF TypeOK
  <2> QED
    BY <2>1, <2>2, <2>3 DEF TypeOK
<1>4. Stages' /\ OnGround'
  BY DEF Stages, OnGround
<1>5. Believed'
  <2>1. ASSUME NEW q \in Request, NEW d \in cand[q]
        PROVE  age'[d] <= seen'[q][d] /\ (d \notin blind[q] \cup flew[q] => age'[d] = seen'[q][d])
    <3>1. d \in Drone
      BY DEF TypeOK
    <3>2. age[d] <= seen[q][d] /\ (d \notin blind[q] \cup flew[q] => age[d] = seen[q][d])
      BY DEF Believed
    <3> QED
      BY <1>1, <1>2, <3>1, <3>2, LaterOf
  <2> QED
    BY <2>1 DEF Believed
<1>6. Rested'
  <2>1. ASSUME NEW d \in Drone, age[d] > Cooldown PROVE age'[d] > Cooldown
    <3>1. age[d] <= Later(age[d]) /\ Later(age[d]) \in Age
      BY <1>1, LaterOf
    <3> QED
      BY <1>1, <2>1, <3>1 DEF Age, Long
  <2> QED
    BY <2>1 DEF Rested
<1>7. CooldownEnds'
  <2>1. ASSUME NEW d \in Drone, state'[d] = "COOLDOWN"
        PROVE  ttl'[d] > 0 /\ age'[d] + ttl'[d] <= Cooldown + 1
    <3>1. state[d] = "COOLDOWN" /\ ttl[d] # 1 /\ ttl[d] \in 0..Cooldown
      BY <2>1 DEF TypeOK
    <3>2. ttl[d] > 0 /\ age[d] + ttl[d] <= Cooldown + 1
      BY <3>1 DEF CooldownEnds
    <3>3. ttl'[d] = ttl[d] - 1
      BY <3>1, <3>2
    <3>4. age'[d] \in Age /\ age'[d] <= age[d] + 1
      BY <1>1, LaterOf
    <3> QED
      BY <1>1, <3>1, <3>2, <3>3, <3>4 DEF Age, Long
  <2> QED
    BY <2>1 DEF CooldownEnds
<1> QED
  BY <1>3, <1>4, <1>5, <1>6, <1>7

LEMMA MonitorSetKeeps ==
    ASSUME Inv, MonitorSet
    PROVE  Inv'
<1> USE SchedulerAssumption DEF Inv, MonitorSet, request
<1>1. TypeOK'
  <2>1. state' \in [Drone -> {"IDLE", "COOLDOWN"}]
    BY DEF TypeOK
  <2>2. ttl' \in [Drone -> 0..Cooldown]
    <3>1. ttl \in [Drone -> 0..Cooldown] /\ 0 \in 0..Cooldown
      BY DEF TypeOK
    <3> QED
      BY <3>1
  <2>3. monitor' \in {"sleep", "ttl", "set"} \X (Drone \cup {None})
    BY DEF TypeOK
  <2> QED
    BY <2>1, <2>2, <2>3 DEF TypeOK
<1>2. Stages' /\ OnGround' /\ Believed' /\ Rested'
  BY DEF Stages, OnGround, Believed, Rested
<1>3. CooldownEnds'
  BY DEF TypeOK, CooldownEnds
<1> QED
  BY <1>1, <1>2, <1>3

LEMMA RestartKeeps ==
    ASSUME Inv, Restart
    PROVE  Inv'
<1> USE SchedulerAssumption DEF Inv, Restart
<1>1. TypeOK'
  BY BlankType DEF TypeOK, Age, Long
<1>2. Stages' /\ OnGround' /\ Believed' /\ Rested'
  BY DEF Stages, OnGround, Believed, Rested
<1>3. CooldownEnds'
  BY DEF CooldownEnds
<1> QED
  BY <1>1, <1>2, <1>3

LEMMA Inductive == Inv /\ [Next]_vars => Inv'
<1> SUFFICES ASSUME Inv, [Next]_vars PROVE Inv'
  OBVIOUS
<1>1. ASSUME NEW q \in Request,
             \/ Begin(q) \/ Pick(q) \/ Answer(q) \/ Reselect(q)
             \/ \E d \in Drone : Read(q, d) \/ Exclude(q, d) \/ Score(q, d)
      PROVE  Inv'
  BY <1>1, BeginKeeps, PickKeeps, AnswerKeeps, ReselectKeeps, ReadKeeps, ExcludeKeeps, ScoreKeeps
<1>2. ASSUME NEW d \in Drone, BecomeIdle(d) PROVE Inv'
  BY <1>2 DEF Inv, TypeOK, Stages, OnGround, Believed, Rested, CooldownEnds, BecomeIdle,
              keys, request
<1>3. ASSUME NEW d \in Drone, MonitorGet(d) PROVE Inv'
  BY <1>3 DEF Inv, TypeOK, Stages, OnGround, Believed, Rested, CooldownEnds, MonitorGet,
              keys, request
<1>4. CASE MonitorTtl
  BY <1>4 DEF Inv, TypeOK, Stages, OnGround, Believed, Rested, CooldownEnds, MonitorTtl,
              keys, request
<1>5. CASE UNCHANGED vars
  BY <1>5 DEF Inv, TypeOK, Stages, OnGround, Believed, Rested, CooldownEnds, vars, keys, request
<1> QED
  BY <1>1, <1>2, <1>3, <1>4, <1>5, LaunchKeeps, LandKeeps, TickKeeps, MonitorSetKeeps,
     RestartKeeps DEF Next

LEMMA Invariance == Spec => []Inv
  BY Initially, Inductive, PTL DEF Spec

\* Every variable has its type.
THEOREM TypeTheorem == Spec => []TypeOK
<1>1. Inv => TypeOK
  BY DEF Inv
<1> QED
  BY <1>1, Invariance, PTL

\* A drone whose landing was read is not picked before its cooldown is over,
\* whatever other requests, the monitor and restarts do to its state key
\* (assign_async, _cooldown_monitor, boot_pad_reconstruction).
THEOREM CooldownTheorem == Spec => []CooldownKept
<1>1. Inv => CooldownKept
  BY DEF Inv, TypeOK, Stages, Rested, CooldownKept
<1> QED
  BY <1>1, Invariance, PTL

\* No drone stays excluded for longer than a tick past its cooldown, though the
\* scorer sets its key anew with what it believes is left.
THEOREM CooldownEndsTheorem == Spec => []CooldownEnds
<1>1. Inv => CooldownEnds
  BY DEF Inv
<1> QED
  BY <1>1, Invariance, PTL
-----------------------------------------------------------------------------
(* Which drone is picked.                                                  *)

LEMMA MaxOfIsMax ==
    ASSUME NEW S \in SUBSET Nat, NEW m \in S, \A n \in S : n <= m
    PROVE  MaxOf(S) \in S /\ \A n \in S : n <= MaxOf(S)
  BY DEF MaxOf

LEMMA Times ==
    ASSUME NEW a \in Nat, NEW b \in Nat, NEW c \in Nat, a <= b
    PROVE  /\ a * c \in Nat /\ b * c \in Nat
           /\ a * c <= b * c
           /\ a < b /\ c > 0 => a * c < b * c
<1>1. PICK k \in Nat : b = a + k
  <2>1. b - a \in Nat /\ b = a + (b - a)
    OBVIOUS
  <2> QED
    BY <2>1
<1>2. b * c = a * c + k * c
  BY <1>1
<1>3. a * c \in Nat /\ k * c \in Nat /\ (k > 0 /\ c > 0 => k * c > 0)
  OBVIOUS
<1> QED
  BY <1>1, <1>2, <1>3

\* Exact, of a distance, deliveries and the points for the rest.
Weighed(far, many, x, m, s) ==
    25 * (far - x) * many + 15 * (many - m) * far + s * far * many

\* What the totals are fractions of.
LEMMA Product ==
    ASSUME NEW far \in Nat, NEW many \in Nat, far > 0, many > 0
    PROVE  far * many \in Nat /\ far * many > 0
  OBVIOUS

\* The sum of x, m, s is no smaller than that of y, n, t, and where one of them
\* is better by more than a hundredth of a point it is larger by as much.
Outweighs(far, many, x, m, s, y, n, t) ==
    /\ Weighed(far, many, x, m, s) \in Nat /\ Weighed(far, many, y, n, t) \in Nat
    /\ Weighed(far, many, y, n, t) <= Weighed(far, many, x, m, s)
    /\ \/ 2500 * (y - x) > far
       \/ 1500 * (n - m) > many
       \/ t < s
       => 100 * Weighed(far, many, x, m, s)
              > 100 * Weighed(far, many, y, n, t) + far * many

\* Less of the way and of the deliveries, and no fewer points otherwise, make a
\* sum no smaller; less by more than a hundredth of a point of either, or a point
\* more, make it larger by more than a hundredth.
LEMMA ExactGrows ==
    ASSUME NEW far \in Nat, NEW many \in Nat, far > 0, many > 0,
           NEW x \in Nat, NEW y \in Nat, x <= y, y <= far,
           NEW m \in Nat, NEW n \in Nat, m <= n, n <= many,
           NEW s \in Nat, NEW t \in Nat, t <= s
    PROVE  Outweighs(far, many, x, m, s, y, n, t)
<1> DEFINE a == 25 * (y - x) * many
           b == 15 * (n - m) * far
           c == (s - t) * far * many
<1>1. /\ 25 * (far - y) * many \in Nat /\ 15 * (many - n) * far \in Nat
      /\ t * far * many \in Nat
  <2>1. 25 * (far - y) \in Nat /\ 15 * (many - n) \in Nat /\ t * far \in Nat
    OBVIOUS
  <2> QED
    BY <2>1, Times
<1>2. Weighed(far, many, y, n, t) \in Nat
  BY <1>1 DEF Weighed
<1>3. a \in Nat /\ b \in Nat /\ c \in Nat
  <2>1. 25 * (y - x) \in Nat /\ 15 * (n - m) \in Nat /\ (s - t) * far \in Nat
    OBVIOUS
  <2> QED
    BY <2>1, Times
<1>4. Weighed(far, many, x, m, s) = Weighed(far, many, y, n, t) + a + b + c
  <2>1. 25 * (far - x) * many = 25 * (far - y) * many + a
    <3>1. 25 * (far - x) = 25 * (far - y) + 25 * (y - x)
      OBVIOUS
    <3> QED
      BY <3>1
  <2>2. 15 * (many - m) * far = 15 * (many - n) * far + b
    <3>1. 15 * (many - m) = 15 * (many - n) + 15 * (n - m)
      OBVIOUS
    <3> QED
      BY <3>1
  <2>3. s * far * many = t * far * many + c
    <3>1. s = t + (s - t)
      OBVIOUS
    <3> QED
      BY <3>1
  <2>4. a \in Int /\ b \in Int /\ c \in Int
    BY <1>3
  <2> HIDE DEF a, b, c
  <2> QED
    BY <1>1, <2>1, <2>2, <2>3, <2>4 DEF Weighed
<1>5. 2500 * (y - x) > far => 100 * a > far * many
  <2>1. SUFFICES ASSUME 2500 * (y - x) > far PROVE 100 * a > far * many
    OBVIOUS
  <2>2. 2500 * (y - x) \in Nat /\ far < 2500 * (y - x)
    BY <2>1
  <2>3. far * many < 2500 * (y - x) * many
    BY <2>2, Times
  <2> QED
    BY <2>3
<1>6. 1500 * (n - m) > many => 100 * b > far * many
  <2>1. SUFFICES ASSUME 1500 * (n - m) > many PROVE 100 * b > far * many
    OBVIOUS
  <2>2. 1500 * (n - m) \in Nat /\ many < 1500 * (n - m)
    BY <2>1
  <2>3. many * far < 1500 * (n - m) * far
    BY <2>2, Times
  <2> QED
    BY <2>3
<1>7. t < s => 100 * c > far * many
  <2>1. SUFFICES ASSUME t < s PROVE 100 * c > far * many
    OBVIOUS
  <2>2. s - t \in Nat /\ 1 <= s - t
    BY <2>1
  <2>3. 1 * (far * many) <= (s - t) * (far * many)
    BY <2>2, Times, Product
  <2>4. (s - t) * (far * many) = c
    BY <2>2
  <2>5. far * many <= c
    BY <2>3, <2>4, Product
  <2> HIDE DEF c
  <2> QED
    BY <2>5, <1>3, Product
<1> HIDE DEF a, b, c
<1> QED
  BY <1>2, <1>3, <1>4, <1>5, <1>6, <1>7, Product DEF Outweighs

LEMMA Division ==
    ASSUME NEW e \in Nat, NEW f \in Nat, f > 0
    PROVE  /\ e \div f \in Int /\ e % f \in Int
           /\ e = f * (e \div f) + (e % f)
           /\ 0 <= e % f /\ e % f < f
  OBVIOUS

\* The rounded number is within half a hundredth of the exact one.
LEMMA RoundedIsNear ==
    ASSUME NEW n \in Nat, NEW m \in Nat, m > 0
    PROVE  /\ Rounded(n, m) \in Int
           /\ 2 * m * Rounded(n, m) <= 200 * n + m
           /\ 200 * n <= 2 * m * Rounded(n, m) + m
<1> DEFINE e == 200 * n + m
           f == 2 * m
           k == e \div f
<1>1. e \in Nat /\ f \in Nat /\ f > 0
  OBVIOUS
<1>2. /\ k \in Int /\ e % f \in Int
      /\ e = f * k + (e % f) /\ 0 <= e % f /\ e % f < f
  BY <1>1, Division
<1>3. CASE e % f = 0 /\ k % 2 = 1
  <2>1. Rounded(n, m) = k - 1
    BY <1>3 DEF Rounded
  <2>2. f * (k - 1) = f * k - f
    BY <1>1, <1>2
  <2>3. f * k \in Int
    BY <1>1, <1>2
  <2> HIDE DEF k
  <2> QED
    BY <1>2, <1>3, <2>1, <2>2, <2>3
<1>4. CASE ~(e % f = 0 /\ k % 2 = 1)
  <2>1. Rounded(n, m) = k
    BY <1>4 DEF Rounded
  <2>2. f * k \in Int
    BY <1>1, <1>2
  <2> HIDE DEF k
  <2> QED
    BY <1>2, <2>1, <2>2
<1> QED
  BY <1>3, <1>4

\* Rounding keeps the order, and what is more than a hundredth apart stays apart.
LEMMA RoundedGrows ==
    ASSUME NEW a \in Nat, NEW b \in Nat, NEW m \in Nat, m > 0, a <= b
    PROVE  /\ Rounded(a, m) \in Int /\ Rounded(b, m) \in Int
           /\ Rounded(a, m) <= Rounded(b, m)
           /\ 100 * b > 100 * a + m => Rounded(a, m) < Rounded(b, m)
<1> DEFINE u == Rounded(a, m)
           v == Rounded(b, m)
<1>1. /\ u \in Int /\ 2 * m * u <= 200 * a + m /\ 200 * a <= 2 * m * u + m
      /\ v \in Int /\ 2 * m * v <= 200 * b + m /\ 200 * b <= 2 * m * v + m
  BY RoundedIsNear
<1>2. a = b => u = v
  OBVIOUS
<1> HIDE DEF u, v
<1>3. u <= v
  <2>1. SUFFICES ASSUME v + 1 <= u PROVE FALSE
    BY <1>1
  <2>2. PICK k \in Nat : u = v + 1 + k
    <3>1. u - v - 1 \in Nat /\ u = v + 1 + (u - v - 1)
      BY <1>1, <2>1
    <3> QED
      BY <3>1
  <2>3. 2 * m * u = 2 * m * v + 2 * m + 2 * m * k
    BY <1>1, <2>2
  <2>4. 2 * m * k \in Nat /\ 2 * m * v \in Int
    BY <1>1
  <2>5. 200 * b <= 200 * a
    BY <1>1, <2>3, <2>4
  <2> QED
    BY <1>1, <1>2, <2>1, <2>5
<1>4. 100 * b > 100 * a + m => u # v
  BY <1>1
<1> QED
  BY <1>1, <1>3, <1>4 DEF u, v

LEMMA Points ==
    /\ \A b \in Nat : BatteryPoints(b) \in Nat
    /\ \A b, c \in Nat : b <= c => BatteryPoints(b) <= BatteryPoints(c)
    /\ \A w \in Nat \cup {Unknown} : WindPoints(w) \in Nat
    /\ \A s \in Nat \cup {Unknown} : SignalPoints(s) \in Nat
  BY SchedulerAssumption DEF BatteryPoints, WindPoints, SignalPoints

\* Something in the pool is the farthest, and something has flown the most.
Maxima ==
    \A q \in Request : pool[q] # {} =>
        /\ \E m \in pool[q] : \A d \in pool[q] : data[q][d].dist <= data[q][m].dist
        /\ \E m \in pool[q] : \A d \in pool[q] : data[q][d].deliveries <= data[q][m].deliveries

Chosen == \A q \in Request : winner[q] # None => pc[q] = "picked"

ProfileFields(p) ==
    /\ p.dist \in Nat /\ p.battery \in Nat /\ p.deliveries \in Nat
    /\ p.wind \in Nat \cup {Unknown} /\ p.signal \in Nat \cup {Unknown}

LEMMA Fields == \A p \in Profile : ProfileFields(p)
  BY SchedulerAssumption DEF ProfileFields

\* What the scores are divided by bounds what they are made of.
LEMMA MaximaOf ==
    ASSUME TypeOK, Maxima, NEW q \in Request, pool[q] # {}
    PROVE  /\ MaxDist(q) \in Nat /\ MaxDist(q) > 0
           /\ MaxDeliveries(q) \in Nat /\ MaxDeliveries(q) > 0
           /\ \A d \in pool[q] : /\ data[q][d].dist <= MaxDist(q)
                                 /\ data[q][d].deliveries <= MaxDeliveries(q)
<1>1. \A d \in pool[q] : ProfileFields(data[q][d])
  BY Fields DEF TypeOK
<1> DEFINE D == {data[q][d].dist : d \in pool[q]}
           V == {data[q][d].deliveries : d \in pool[q]}
<1>2. MaxOf(D) \in D /\ \A n \in D : n <= MaxOf(D)
  <2>1. PICK m \in pool[q] : \A d \in pool[q] : data[q][d].dist <= data[q][m].dist
    BY DEF Maxima
  <2>2. D \in SUBSET Nat
    BY <1>1 DEF ProfileFields
  <2>3. data[q][m].dist \in D /\ \A n \in D : n <= data[q][m].dist
    BY <2>1
  <2> HIDE DEF D
  <2> QED
    BY <2>2, <2>3, MaxOfIsMax
<1>3. MaxOf(V) \in V /\ \A n \in V : n <= MaxOf(V)
  <2>1. PICK m \in pool[q] : \A d \in pool[q] : data[q][d].deliveries <= data[q][m].deliveries
    BY DEF Maxima
  <2>2. V \in SUBSET Nat
    BY <1>1 DEF ProfileFields
  <2>3. data[q][m].deliveries \in V /\ \A n \in V : n <= data[q][m].deliveries
    BY <2>1
  <2> HIDE DEF V
  <2> QED
    BY <2>2, <2>3, MaxOfIsMax
<1>4. D \subseteq Nat /\ V \subseteq Nat
  BY <1>1 DEF ProfileFields
<1>5. MaxDist(q) = Larger(1, MaxOf(D)) /\ MaxDeliveries(q) = Larger(1, MaxOf(V))
  BY DEF MaxDist, MaxDeliveries
<1>6. \A d \in pool[q] : data[q][d].dist \in D /\ data[q][d].deliveries \in V
  OBVIOUS
<1> HIDE DEF D, V
<1>7. ASSUME NEW n \in Nat
      PROVE  Larger(1, n) \in Nat /\ Larger(1, n) > 0 /\ n <= Larger(1, n)
  BY DEF Larger
<1>8. MaxOf(D) \in Nat /\ MaxOf(V) \in Nat
  BY <1>2, <1>3, <1>4
<1>9. MaxDist(q) \in Nat /\ MaxDist(q) > 0 /\ MaxOf(D) <= MaxDist(q)
  BY <1>5, <1>7, <1>8
<1>10. /\ MaxDeliveries(q) \in Nat /\ MaxDeliveries(q) > 0
       /\ MaxOf(V) <= MaxDeliveries(q)
  BY <1>5, <1>7, <1>8
<1>11. ASSUME NEW d \in pool[q]
       PROVE  data[q][d].dist <= MaxDist(q) /\ data[q][d].deliveries <= MaxDeliveries(q)
  <2>1. /\ data[q][d].dist \in Nat /\ data[q][d].dist <= MaxOf(D)
        /\ data[q][d].deliveries \in Nat /\ data[q][d].deliveries <= MaxOf(V)
    BY <1>2, <1>3, <1>4, <1>6
  <2> HIDE DEF D, V
  <2> QED
    BY <2>1, <1>8, <1>9, <1>10
<1> QED
  BY <1>9, <1>10, <1>11

\* A drone p with rest r is in no factor worse than w with rest t, and in one of
\* them better; NotDominated denies it of a scored drone and the winner.
Dominates(p, r, w, t, far, many) ==
    /\ p.dist <= w.dist
    /\ p.battery >= w.battery
    /\ p.deliveries <= w.deliveries
    /\ WindPoints(p.wind) >= WindPoints(w.wind)
    /\ SignalPoints(p.signal) >= SignalPoints(w.signal)
    /\ r >= t
    /\ \/ 2500 * (w.dist - p.dist) > far
       \/ p.battery > w.battery
       \/ 1500 * (w.deliveries - p.deliveries) > many
       \/ WindPoints(p.wind) > WindPoints(w.wind)
       \/ SignalPoints(p.signal) > SignalPoints(w.signal)
       \/ r > t

Beats(q, d, w) ==
    Dominates(data[q][d], rest[q][d], data[q][w], rest[q][w], MaxDist(q), MaxDeliveries(q))

LEMMA Undominated ==
    NotDominated <=>
        \A q \in Request : winner[q] # None =>
            \A d \in Scored(q) : ~Beats(q, d, winner[q])
  BY DEF NotDominated, Dominates, Beats

\* The sorted list has no drone first that another one dominates.
LEMMA BestIsUndominated ==
    ASSUME TypeOK, Maxima, NEW q \in Request, NEW w \in Best(q), NEW d \in Scored(q)
    PROVE  ~Beats(q, d, w)
<1> DEFINE p == data[q][d]
           v == data[q][w]
           far == MaxDist(q)
           many == MaxDeliveries(q)
           s == BatteryPoints(p.battery) + WindPoints(p.wind)
                + SignalPoints(p.signal) + rest[q][d]
           t == BatteryPoints(v.battery) + WindPoints(v.wind)
                + SignalPoints(v.signal) + rest[q][w]
<1>1. d \in pool[q] /\ w \in pool[q] /\ d \in Drone /\ w \in Drone
  BY DEF TypeOK, Scored, Best
<1>2. ProfileFields(p) /\ ProfileFields(v) /\ rest[q][d] \in Nat /\ rest[q][w] \in Nat
  <2>1. p \in Profile /\ v \in Profile
    BY <1>1 DEF TypeOK
  <2>2. rest[q][d] \in {0, 2, 6, 10} /\ rest[q][w] \in {0, 2, 6, 10}
    BY <1>1 DEF TypeOK
  <2> QED
    BY <2>1, <2>2, Fields
<1>3. /\ far \in Nat /\ far > 0 /\ many \in Nat /\ many > 0
      /\ p.dist <= far /\ v.dist <= far /\ p.deliveries <= many /\ v.deliveries <= many
  BY <1>1, MaximaOf
<1>4. /\ Exact(q, d) = Weighed(far, many, p.dist, p.deliveries, s)
      /\ Exact(q, w) = Weighed(far, many, v.dist, v.deliveries, t)
      /\ Total(q, d) = Rounded(Exact(q, d), far * many)
      /\ Total(q, w) = Rounded(Exact(q, w), far * many)
  BY DEF Exact, Total, Weighed
<1>5. \/ Total(q, w) > Total(q, d)
      \/ Total(q, w) = Total(q, d) /\ v.battery >= p.battery
  BY DEF Best
<1> HIDE DEF p, v, far, many
<1> SUFFICES ASSUME Dominates(p, rest[q][d], v, rest[q][w], far, many) PROVE FALSE
  BY DEF p, v, far, many, Beats
<1>6. /\ s \in Nat /\ t \in Nat /\ t <= s
      /\ \/ WindPoints(p.wind) > WindPoints(v.wind)
         \/ SignalPoints(p.signal) > SignalPoints(v.signal)
         \/ rest[q][d] > rest[q][w]
         => t < s
  <2>1. /\ BatteryPoints(p.battery) \in Nat /\ BatteryPoints(v.battery) \in Nat
        /\ WindPoints(p.wind) \in Nat /\ WindPoints(v.wind) \in Nat
        /\ SignalPoints(p.signal) \in Nat /\ SignalPoints(v.signal) \in Nat
    BY <1>2, Points DEF ProfileFields
  <2>2. BatteryPoints(v.battery) <= BatteryPoints(p.battery)
    BY <1>2, Points DEF ProfileFields, Dominates
  <2>3. /\ WindPoints(v.wind) <= WindPoints(p.wind)
        /\ SignalPoints(v.signal) <= SignalPoints(p.signal)
        /\ rest[q][w] <= rest[q][d]
    BY <1>2, <2>1 DEF Dominates
  <2> QED
    BY <1>2, <2>1, <2>2, <2>3
<1>7. /\ p.dist \in Nat /\ v.dist \in Nat /\ p.dist <= v.dist
      /\ p.deliveries \in Nat /\ v.deliveries \in Nat /\ p.deliveries <= v.deliveries
      /\ p.battery \in Nat /\ v.battery \in Nat
  BY <1>2 DEF ProfileFields, Dominates
<1>8. \/ 2500 * (v.dist - p.dist) > far
      \/ p.battery > v.battery
      \/ 1500 * (v.deliveries - p.deliveries) > many
      \/ t < s
  BY <1>6 DEF Dominates
<1> HIDE DEF s, t
<1>9. /\ Exact(q, d) \in Nat /\ Exact(q, w) \in Nat
      /\ Exact(q, w) <= Exact(q, d)
      /\ p.battery > v.battery \/ 100 * Exact(q, d) > 100 * Exact(q, w) + far * many
  <2>1. Outweighs(far, many, p.dist, p.deliveries, s, v.dist, v.deliveries, t)
    BY ONLY <1>3, <1>6, <1>7, ExactGrows
  <2> QED
    BY ONLY <1>4, <1>8, <2>1 DEF Outweighs
<1>10. /\ Total(q, d) \in Int /\ Total(q, w) \in Int /\ Total(q, w) <= Total(q, d)
       /\ p.battery > v.battery \/ Total(q, w) < Total(q, d)
  <2>1. far * many \in Nat /\ far * many > 0
    BY <1>3, Product
  <2> QED
    BY <1>4, <1>9, <2>1, RoundedGrows
<1> QED
  BY <1>5, <1>7, <1>10

Ranked == Maxima /\ Chosen /\ NotDominated

\* A request still has what it read and scored of the drones.
StillRead(q) == pool'[q] = pool[q] /\ data'[q] = data[q]

\* It read d, which is new to its pool.
Entered(q, d, p) ==
    /\ d \notin pool[q]
    /\ pool'[q] = pool[q] \cup {d}
    /\ data'[q] = [data[q] EXCEPT ![d] = p]
    /\ winner'[q] = None

\* What a step does to the ranking of a request.
LEMMA Changes ==
    ASSUME Inv, Chosen, [Next]_vars, NEW q \in Request
    PROVE  \/ pool'[q] = {} /\ winner'[q] = None
           \/ StillRead(q) /\ winner'[q] = None
           \/ StillRead(q) /\ rest'[q] = rest[q] /\ winner'[q] = winner[q] /\ pc'[q] = pc[q]
           \/ StillRead(q) /\ rest'[q] = rest[q] /\ winner'[q] \in Best(q) /\ pc'[q] = "picked"
           \/ \E d \in Drone, p \in Profile : Entered(q, d, p)
<1> USE DEF StillRead
<1>1. TypeOK
  BY DEF Inv
<1> DEFINE Goal ==
           \/ pool'[q] = {} /\ winner'[q] = None
           \/ StillRead(q) /\ winner'[q] = None
           \/ StillRead(q) /\ rest'[q] = rest[q] /\ winner'[q] = winner[q] /\ pc'[q] = pc[q]
           \/ StillRead(q) /\ rest'[q] = rest[q] /\ winner'[q] \in Best(q) /\ pc'[q] = "picked"
           \/ \E d \in Drone, p \in Profile : Entered(q, d, p)
<1>2. ASSUME NEW r \in Request, Begin(r) \/ Reselect(r) \/ Answer(r) PROVE Goal
  BY <1>1, <1>2 DEF Begin, Reselect, Select, Answer, TypeOK
<1>3. ASSUME NEW r \in Request, Pick(r) PROVE Goal
  BY <1>1, <1>3 DEF Pick, TypeOK
<1>4. ASSUME NEW r \in Request, NEW d \in Drone, Exclude(r, d) \/ Score(r, d) PROVE Goal
  <2>1. winner[r] = None
    BY <1>4 DEF Exclude, Score, Chosen
  <2> QED
    BY <1>1, <1>4, <2>1 DEF Exclude, Score, TypeOK
<1>5. ASSUME NEW r \in Request, NEW d \in Drone, Read(r, d) PROVE Goal
  <2>1. winner[r] = None /\ d \notin pool[r]
    BY <1>5 DEF Read, Chosen, Inv, Stages
  <2>2. CASE r # q \/ UNCHANGED <<pool, data>>
    BY <1>1, <1>5, <2>1, <2>2 DEF Read, TypeOK
  <2>3. ASSUME r = q, NEW p \in Profile,
               pool' = [pool EXCEPT ![r] = @ \cup {d}], data' = [data EXCEPT ![r][d] = p]
        PROVE  Goal
    <3>1. winner'[q] = None
      BY <1>5, <2>1, <2>3 DEF Read
    <3>2. pool'[q] = pool[q] \cup {d} /\ data'[q] = [data[q] EXCEPT ![d] = p]
      BY <1>1, <2>3 DEF TypeOK
    <3> QED
      BY <2>1, <2>3, <3>1, <3>2 DEF Entered
  <2> QED
    BY <1>5, <2>2, <2>3 DEF Read
<1>6. CASE Restart
  BY <1>1, <1>6 DEF Restart
<1>7. ASSUME UNCHANGED <<pool, data, rest, winner, pc>> PROVE Goal
  BY <1>7
<1>8. CASE \/ \E d \in Drone : Launch(d) \/ Land(d) \/ BecomeIdle(d) \/ MonitorGet(d)
           \/ Tick \/ MonitorTtl \/ MonitorSet \/ UNCHANGED vars
  BY <1>7, <1>8 DEF Launch, Land, BecomeIdle, MonitorGet, Tick, MonitorTtl, MonitorSet,
     vars, request
<1> QED
  BY <1>2, <1>3, <1>4, <1>5, <1>6, <1>8 DEF Next

\* A drone that is read may be the farthest, or the most used, so far.
LEMMA MaximaKept ==
    ASSUME TypeOK, Maxima, NEW q \in Request, NEW d \in Drone, NEW p \in Profile,
           Entered(q, d, p)
    PROVE  /\ \E m \in pool'[q] : \A e \in pool'[q] : data'[q][e].dist <= data'[q][m].dist
           /\ \E m \in pool'[q] : \A e \in pool'[q] :
                 data'[q][e].deliveries <= data'[q][m].deliveries
<1>1. /\ data'[q][d] = p /\ \A e \in pool[q] : data'[q][e] = data[q][e] /\ e # d
      /\ d \in pool'[q] /\ \A e \in pool'[q] : e = d \/ e \in pool[q]
      /\ pool[q] \subseteq pool'[q]
  BY DEF Entered, TypeOK
<1>2. \A e \in pool[q] : ProfileFields(data[q][e])
  BY Fields DEF TypeOK
<1>3. ProfileFields(p)
  BY Fields
<1>4. CASE pool[q] = {}
  BY <1>1, <1>3, <1>4 DEF ProfileFields
<1>5. CASE pool[q] # {}
  <2>1. \E m \in pool'[q] : \A e \in pool'[q] : data'[q][e].dist <= data'[q][m].dist
    <3>1. PICK m \in pool[q] : \A e \in pool[q] : data[q][e].dist <= data[q][m].dist
      BY <1>5 DEF Maxima
    <3>2. CASE p.dist <= data[q][m].dist
      BY <1>1, <3>1, <3>2
    <3>3. CASE data[q][m].dist <= p.dist
      <4>1. \A e \in pool[q] : data[q][e].dist <= p.dist
        BY <1>2, <1>3, <3>1, <3>3 DEF ProfileFields
      <4>2. p.dist <= p.dist
        BY <1>3 DEF ProfileFields
      <4> QED
        BY <1>1, <4>1, <4>2
    <3> QED
      BY <1>2, <1>3, <3>2, <3>3 DEF ProfileFields
  <2>2. \E m \in pool'[q] : \A e \in pool'[q] : data'[q][e].deliveries <= data'[q][m].deliveries
    <3>1. PICK m \in pool[q] : \A e \in pool[q] : data[q][e].deliveries <= data[q][m].deliveries
      BY <1>5 DEF Maxima
    <3>2. CASE p.deliveries <= data[q][m].deliveries
      BY <1>1, <3>1, <3>2
    <3>3. CASE data[q][m].deliveries <= p.deliveries
      <4>1. \A e \in pool[q] : data[q][e].deliveries <= p.deliveries
        BY <1>2, <1>3, <3>1, <3>3 DEF ProfileFields
      <4>2. p.deliveries <= p.deliveries
        BY <1>3 DEF ProfileFields
      <4> QED
        BY <1>1, <4>1, <4>2
    <3> QED
      BY <1>2, <1>3, <3>2, <3>3 DEF ProfileFields
  <2> QED
    BY <2>1, <2>2
<1> QED
  BY <1>4, <1>5

LEMMA RankedKeeps ==
    ASSUME Inv, Ranked, [Next]_vars
    PROVE  Ranked'
<1> USE DEF Ranked
<1>1. TypeOK
  BY DEF Inv
<1>2. Maxima'
  <2>1. ASSUME NEW q \in Request, pool'[q] # {}
        PROVE  /\ \E m \in pool'[q] : \A d \in pool'[q] : data'[q][d].dist <= data'[q][m].dist
               /\ \E m \in pool'[q] : \A d \in pool'[q] :
                     data'[q][d].deliveries <= data'[q][m].deliveries
    <3>1. CASE StillRead(q)
      BY <2>1, <3>1 DEF StillRead, Maxima
    <3>2. CASE \E d \in Drone, p \in Profile : Entered(q, d, p)
      BY <1>1, <3>2, MaximaKept
    <3> QED
      BY <2>1, <3>1, <3>2, Changes
  <2> QED
    BY <2>1 DEF Maxima
<1>3. Chosen'
  <2>1. ASSUME NEW q \in Request, winner'[q] # None PROVE pc'[q] = "picked"
    BY <2>1, Changes DEF Chosen, Entered
  <2> QED
    BY <2>1 DEF Chosen
<1>4. NotDominated'
  <2>1. ASSUME NEW q \in Request, winner'[q] # None, NEW d \in Scored(q)'
        PROVE  ~Beats(q, d, winner[q])'
    <3>1. /\ data'[q] = data[q] /\ pool'[q] = pool[q] /\ rest'[q] = rest[q]
          /\ winner'[q] = winner[q] \/ winner'[q] \in Best(q)
      BY <2>1, Changes DEF StillRead, Entered
    <3>2. d \in Scored(q)
      BY <2>1, <3>1 DEF Scored
    <3>3. ~Beats(q, d, winner'[q])
      <4>1. CASE winner'[q] = winner[q]
        BY <2>1, <3>2, <4>1, Undominated
      <4>2. CASE winner'[q] \in Best(q)
        BY <1>1, <3>2, <4>2, BestIsUndominated
      <4> QED
        BY <3>1, <4>1, <4>2
    <3>4. MaxDist(q)' = MaxDist(q) /\ MaxDeliveries(q)' = MaxDeliveries(q)
      BY <3>1 DEF MaxDist, MaxDeliveries
    <3> QED
      BY <3>1, <3>3, <3>4 DEF Beats, Dominates
  <2> QED
    BY <2>1 DEF NotDominated, Dominates, Beats
<1> QED
  BY <1>2, <1>3, <1>4

LEMMA RankedInvariance == Spec => []Ranked
<1>1. Init => Ranked
  BY DEF Init, Ranked, Maxima, Chosen, NotDominated
<1>2. Inv /\ Ranked /\ [Next]_vars => Ranked'
  BY RankedKeeps
<1> QED
  BY <1>1, <1>2, Invariance, PTL DEF Spec

\* The first of the list assign_async sorts is not beaten by another candidate
\* that is in no factor worse and in one of the six better, whatever the maxima
\* the distances and deliveries are divided by: but for the hundredth of a point
\* that round(total, 2) takes from a nearer or less used drone.
THEOREM NotDominatedTheorem == Spec => []NotDominated
<1>1. Ranked => NotDominated
  BY DEF Ranked
<1> QED
  BY <1>1, RankedInvariance, PTL

=============================================================================
