----------------------------- MODULE Scheduler -----------------------------
(***************************************************************************)
(* How Fleet AI picks a drone (scheduler.py), the rest a drone gets after  *)
(* a landing, and those who write its cooldown: the landing endpoint, the  *)
(* scorer, the cooldown monitor and a restart (main.py, landing.py).       *)
(*                                                                         *)
(* Time is counted in ticks; times that are only compared with Cooldown,   *)
(* ShortRest and LongRest are kept as ages up to LongRest + 1, the age of  *)
(* a landing that is long past or never happened.  One step is one Redis   *)
(* command of a drone's read, or what runs between two awaits.             *)
(***************************************************************************)
EXTENDS Integers, FiniteSets

CONSTANTS
    Drone,
    Request,    \* POST /assign-drone calls served at the same time
    Cooldown,   \* 60 s
    ShortRest,  \* 180 s
    LongRest,   \* 300 s
    Profile,    \* what the view and Redis may say of a drone otherwise
    Unknown,    \* a wind or a signal nobody measured
    None

ASSUME SchedulerAssumption ==
    /\ Cooldown \in Nat \ {0}
    /\ ShortRest \in Nat
    /\ LongRest \in Nat
    /\ Cooldown <= ShortRest
    /\ ShortRest <= LongRest
    /\ Profile \subseteq [dist : Nat, battery : Nat, deliveries : Nat,
                          wind : Nat \cup {Unknown}, signal : Nat \cup {Unknown}]
    /\ Profile # {}
    /\ Unknown \notin Nat
    /\ None \notin Drone

Long == LongRest + 1
Age == 0..Long
Blank == CHOOSE p \in Profile : TRUE

VARIABLES
    status,   \* the status the backend gives a drone
    age,      \* ticks since last_landed_at:<drone>
    state,    \* drone_state:<drone>, COOLDOWN or what is not: IDLE or no key,
              \* which nobody tells apart
    ttl,      \* ticks that key has left, 0 for a key without TTL
    monitor,  \* where _cooldown_monitor is: <<step, drone>>
    pc,       \* where a request is
    todo,     \* drones of its snapshot it has still to read
    cand,     \* candidates it has still to score
    data,     \* what it read of a drone
    seen,     \* ticks since the landing it read of a candidate
    pool,     \* the candidates the scores are normalised over
    rest,     \* factor 6 of the drones it scored, 0 for the others
    winner,
    idle,     \* the drones its snapshot called IDLE, while it may select again
    blind,    \* history: drones whose last landing it failed to read
    flew      \* history: drones launched since its snapshot

keys == <<age, state, ttl>>
request == <<pc, todo, cand, data, seen, pool, rest, winner, idle, blind>>
vars == <<status, keys, monitor, request, flew>>

-----------------------------------------------------------------------------
(* Scores.                                                                 *)

Larger(m, n) == IF m >= n THEN m ELSE n
MaxOf(S) == CHOOSE m \in S : \A n \in S : n <= m

BatteryPoints(b) ==
    IF b >= 80 THEN 25 ELSE IF b >= 60 THEN 20 ELSE IF b >= 40 THEN 12
    ELSE IF b >= 25 THEN 4 ELSE 0

WindPoints(w) ==
    IF w = Unknown THEN 7 ELSE IF w <= 3 THEN 15 ELSE IF w <= 6 THEN 10
    ELSE IF w < 8 THEN 4 ELSE 0

SignalPoints(s) ==
    IF s = Unknown THEN 5 ELSE IF s >= 80 THEN 10 ELSE IF s >= 60 THEN 7
    ELSE IF s >= 40 THEN 3 ELSE 0

\* Mutant of RestPoints: a landing one cooldown ago is long enough ago.
RestPointsEarly(a) ==
    IF a > LongRest THEN 10 ELSE IF a > ShortRest THEN 6
    ELSE IF a >= Cooldown THEN 2 ELSE 0

\* 0 stands for the -1 of a drone in its cooldown.
RestPoints(a) ==
    IF a > LongRest THEN 10 ELSE IF a > ShortRest THEN 6
    ELSE IF a > Cooldown THEN 2 ELSE 0

\* Battery, wind and signal as the eligibility filter wants them.
Fit(p) ==
    /\ p.battery >= 25
    /\ p.wind # Unknown => p.wind < 8
    /\ p.signal # Unknown => p.signal >= 40

MaxDist(q) == Larger(1, MaxOf({data[q][d].dist : d \in pool[q]}))
MaxDeliveries(q) == Larger(1, MaxOf({data[q][d].deliveries : d \in pool[q]}))

\* The sum of the factors, times both maxima so that it is a whole number.
Exact(q, d) ==
    LET p == data[q][d]
        far == MaxDist(q)
        many == MaxDeliveries(q)
    IN  25 * (far - p.dist) * many + 15 * (many - p.deliveries) * far
        + (BatteryPoints(p.battery) + WindPoints(p.wind)
           + SignalPoints(p.signal) + rest[q][d]) * far * many

\* round(n / m, 2) in hundredths: to the nearest, and to the even one from half
\* way between two.
Rounded(n, m) ==
    LET k == (200 * n + m) \div (2 * m)
    IN  IF (200 * n + m) % (2 * m) = 0 /\ k % 2 = 1 THEN k - 1 ELSE k

\* The total of the breakdown, in hundredths of a point.
Total(q, d) == Rounded(Exact(q, d), MaxDist(q) * MaxDeliveries(q))

Scored(q) == {d \in pool[q] : rest[q][d] # 0}

\* Mutant of Best: the list is sorted in ascending order.
BestAscending(q) ==
    {w \in Scored(q) : \A d \in Scored(q) :
        \/ Total(q, w) < Total(q, d)
        \/ /\ Total(q, w) = Total(q, d)
           /\ data[q][w].battery <= data[q][d].battery}

\* The first of the sorted list: by rounded total, then by battery; drones that
\* tie in both stand in the order of the snapshot.
Best(q) ==
    {w \in Scored(q) : \A d \in Scored(q) :
        \/ Total(q, w) > Total(q, d)
        \/ /\ Total(q, w) = Total(q, d)
           /\ data[q][w].battery >= data[q][d].battery}

-----------------------------------------------------------------------------
Init ==
    /\ status = [d \in Drone |-> "IDLE"]
    /\ age = [d \in Drone |-> Long]
    /\ state = [d \in Drone |-> "IDLE"]
    /\ ttl = [d \in Drone |-> 0]
    /\ monitor = <<"sleep", None>>
    /\ pc = [q \in Request |-> "idle"]
    /\ todo = [q \in Request |-> {}]
    /\ cand = [q \in Request |-> {}]
    /\ data = [q \in Request |-> [d \in Drone |-> Blank]]
    /\ seen = [q \in Request |-> [d \in Drone |-> Long]]
    /\ pool = [q \in Request |-> {}]
    /\ rest = [q \in Request |-> [d \in Drone |-> 0]]
    /\ winner = [q \in Request |-> None]
    /\ idle = [q \in Request |-> {}]
    /\ blind = [q \in Request |-> {}]
    /\ flew = [q \in Request |-> {}]

-----------------------------------------------------------------------------
(* One request.                                                            *)

\* assign_async begins with the drones called IDLE; those without a home pad
\* to go to are left out at once.
Select(q, drones, kept) ==
    \E out \in SUBSET drones :
        /\ pc' = [pc EXCEPT ![q] = "read"]
        /\ todo' = [todo EXCEPT ![q] = drones \ out]
        /\ idle' = [idle EXCEPT ![q] = kept]
        /\ cand' = [cand EXCEPT ![q] = {}]
        /\ data' = [data EXCEPT ![q] = [d \in Drone |-> Blank]]
        /\ seen' = [seen EXCEPT ![q] = [d \in Drone |-> Long]]
        /\ pool' = [pool EXCEPT ![q] = {}]
        /\ rest' = [rest EXCEPT ![q] = [d \in Drone |-> 0]]
        /\ winner' = [winner EXCEPT ![q] = None]
        /\ blind' = [blind EXCEPT ![q] = {}]
        /\ UNCHANGED <<status, keys, monitor>>

\* get_all_states: the view is what the backend said when it last broadcast.
Begin(q) ==
    /\ pc[q] = "idle"
    /\ LET drones == {d \in Drone : status[d] = "IDLE"}
       IN  Select(q, drones, drones)
    /\ flew' = [flew EXCEPT ![q] = {}]

\* _read_redis_drone_data and the rest of the filter.  A failing Redis leaves
\* out whatever was not read yet: the state, or the landing too unless the hash
\* had it.
Read(q, d) ==
    /\ pc[q] = "read"
    /\ d \in todo[q]
    /\ todo' = [todo EXCEPT ![q] = @ \ {d}]
    /\ \/ /\ state[d] = "COOLDOWN" \/ \E p \in Profile : ~Fit(p)
          /\ UNCHANGED <<cand, pool, data, seen, blind>>
       \/ \E p \in Profile, knows \in {"all", "landing", "nothing"} :
             /\ Fit(p)
             /\ knows = "all" => state[d] # "COOLDOWN"
             /\ cand' = [cand EXCEPT ![q] = @ \cup {d}]
             /\ pool' = [pool EXCEPT ![q] = @ \cup {d}]
             /\ data' = [data EXCEPT ![q][d] = p]
             /\ seen' = [seen EXCEPT ![q][d] = IF knows = "nothing" THEN Long ELSE age[d]]
             /\ blind' = IF knows = "nothing" THEN [blind EXCEPT ![q] = @ \cup {d}]
                         ELSE blind
    /\ UNCHANGED <<status, keys, monitor, pc, rest, winner, idle, flew>>

\* Mutant of Remaining: every cooldown is set for its full length.
RemainingFull(a) == Cooldown

\* Mutant of Remaining: the tick that has begun is counted too.
RemainingRoundedUp(a) == Cooldown + 1 - a

\* What is left of the cooldown, but never no time at all.
Remaining(a) == Larger(1, Cooldown - a)

\* A candidate still in its cooldown is excluded and marked, if Redis answers.
Exclude(q, d) ==
    /\ pc[q] = "read"
    /\ todo[q] = {}
    /\ d \in cand[q]
    /\ RestPoints(seen[q][d]) = 0
    /\ cand' = [cand EXCEPT ![q] = @ \ {d}]
    /\ seen' = [seen EXCEPT ![q][d] = Long]
    /\ \/ /\ state' = [state EXCEPT ![d] = "COOLDOWN"]
          /\ ttl' = [ttl EXCEPT ![d] = Remaining(seen[q][d])]
       \/ UNCHANGED <<state, ttl>>
    /\ UNCHANGED <<status, age, monitor, pc, todo, data, pool, rest,
                   winner, idle, blind, flew>>

Score(q, d) ==
    /\ pc[q] = "read"
    /\ todo[q] = {}
    /\ d \in cand[q]
    /\ RestPoints(seen[q][d]) # 0
    /\ cand' = [cand EXCEPT ![q] = @ \ {d}]
    /\ rest' = [rest EXCEPT ![q][d] = RestPoints(seen[q][d])]
    /\ seen' = [seen EXCEPT ![q][d] = Long]
    /\ UNCHANGED <<status, keys, monitor, pc, todo, data, pool,
                   winner, idle, blind, flew>>

Pick(q) ==
    /\ pc[q] = "read"
    /\ todo[q] = {}
    /\ cand[q] = {}
    /\ \E w \in Best(q) : winner' = [winner EXCEPT ![q] = w]
    /\ pc' = [pc EXCEPT ![q] = "picked"]
    /\ UNCHANGED <<status, keys, monitor, todo, cand, data, seen, pool,
                   rest, idle, blind, flew>>

\* No candidate, or all of them in their cooldown: NoEligibleDroneError.
NoneEligible(q) ==
    /\ pc[q] = "read"
    /\ todo[q] = {}
    /\ cand[q] = {}
    /\ Scored(q) = {}

\* The answer: no drone, a drone, or a lock nobody got.
Answer(q) ==
    /\ pc[q] = "picked" \/ NoneEligible(q)
    /\ pc' = [pc EXCEPT ![q] = "idle"]
    /\ winner' = [winner EXCEPT ![q] = None]
    /\ idle' = [idle EXCEPT ![q] = {}]
    /\ data' = [data EXCEPT ![q] = [d \in Drone |-> Blank]]
    /\ seen' = [seen EXCEPT ![q] = [d \in Drone |-> Long]]
    /\ pool' = [pool EXCEPT ![q] = {}]
    /\ rest' = [rest EXCEPT ![q] = [d \in Drone |-> 0]]
    /\ blind' = [blind EXCEPT ![q] = {}]
    /\ flew' = [flew EXCEPT ![q] = {}]
    /\ UNCHANGED <<status, keys, monitor, todo, cand>>

\* The pad was lost to somebody else: the selection is repeated, up to 120 s
\* later, on the snapshot of the first.
Reselect(q) ==
    /\ pc[q] = "picked"
    /\ idle[q] # {}
    /\ Select(q, idle[q], {})
    /\ UNCHANGED flew

-----------------------------------------------------------------------------
(* Flights.                                                                *)

\* A launch, for this request or by anybody else.
Launch(d) ==
    /\ status[d] = "IDLE"
    /\ status' = [status EXCEPT ![d] = "IN_FLIGHT"]
    /\ flew' = [q \in Request |->
                   IF pc[q] = "idle" THEN flew[q] ELSE flew[q] \cup {d}]
    /\ UNCHANGED <<keys, monitor, request>>

\* The mission ends on the ground; /on-home-landing gets through, or not (it is
\* best effort, and a failed mission never calls it).
Land(d) ==
    /\ status[d] = "IN_FLIGHT"
    /\ status' = [status EXCEPT ![d] = "LANDED"]
    /\ \/ age' = [age EXCEPT ![d] = 0]
       \/ UNCHANGED age
    /\ UNCHANGED <<state, ttl, monitor, request, flew>>

BecomeIdle(d) ==
    /\ status[d] = "LANDED"
    /\ status' = [status EXCEPT ![d] = "IDLE"]
    /\ UNCHANGED <<keys, monitor, request, flew>>

-----------------------------------------------------------------------------
(* Time, the monitor and restarts.                                         *)

Later(a) == IF a = Long THEN Long ELSE a + 1

Tick ==
    /\ age' = [d \in Drone |-> Later(age[d])]
    /\ seen' = [q \in Request |-> [d \in Drone |-> Later(seen[q][d])]]
    /\ ttl' = [d \in Drone |-> IF ttl[d] = 0 THEN 0 ELSE ttl[d] - 1]
    /\ state' = [d \in Drone |-> IF ttl[d] = 1 THEN "IDLE" ELSE state[d]]
    /\ UNCHANGED <<status, monitor, pc, todo, cand, data, pool, rest,
                   winner, idle, blind, flew>>

\* _cooldown_monitor: GET of one of the keys.
MonitorGet(d) ==
    /\ monitor[1] = "sleep"
    /\ state[d] = "COOLDOWN"
    /\ monitor' = <<"ttl", d>>
    /\ UNCHANGED <<status, keys, request, flew>>

\* TTL: negative when the key is gone or has no TTL, 0 in its last half second.
MonitorTtl ==
    /\ monitor[1] = "ttl"
    /\ \/ ttl[monitor[2]] > 0 /\ monitor' = <<"sleep", None>>
       \/ ttl[monitor[2]] <= 1 /\ monitor' = <<"set", monitor[2]>>
    /\ UNCHANGED <<status, keys, request, flew>>

\* SET: whatever the key has become meanwhile.
MonitorSet ==
    /\ monitor[1] = "set"
    /\ state' = [state EXCEPT ![monitor[2]] = "IDLE"]
    /\ ttl' = [ttl EXCEPT ![monitor[2]] = 0]
    /\ monitor' = <<"sleep", None>>
    /\ UNCHANGED <<status, age, request, flew>>

\* Fleet AI restarts: boot_pad_reconstruction deletes the state keys and writes
\* IDLE for the drones on a pad; the landings stay.
Restart ==
    /\ state' = [d \in Drone |-> "IDLE"]
    /\ ttl' = [d \in Drone |-> 0]
    /\ monitor' = <<"sleep", None>>
    /\ pc' = [q \in Request |-> "idle"]
    /\ todo' = [q \in Request |-> {}]
    /\ cand' = [q \in Request |-> {}]
    /\ data' = [q \in Request |-> [d \in Drone |-> Blank]]
    /\ seen' = [q \in Request |-> [d \in Drone |-> Long]]
    /\ pool' = [q \in Request |-> {}]
    /\ rest' = [q \in Request |-> [d \in Drone |-> 0]]
    /\ winner' = [q \in Request |-> None]
    /\ idle' = [q \in Request |-> {}]
    /\ blind' = [q \in Request |-> {}]
    /\ flew' = [q \in Request |-> {}]
    /\ UNCHANGED <<status, age>>

Next ==
    \/ \E q \in Request :
          \/ Begin(q) \/ Pick(q) \/ Answer(q) \/ Reselect(q)
          \/ \E d \in Drone : Read(q, d) \/ Exclude(q, d) \/ Score(q, d)
    \/ \E d \in Drone : Launch(d) \/ Land(d) \/ BecomeIdle(d) \/ MonitorGet(d)
    \/ Tick \/ MonitorTtl \/ MonitorSet \/ Restart

Spec == Init /\ [][Next]_vars

-----------------------------------------------------------------------------
(* Properties.                                                             *)

\* Every variable has its type.
TypeOK ==
    /\ status \in [Drone -> {"IDLE", "IN_FLIGHT", "LANDED"}]
    /\ age \in [Drone -> Age]
    /\ state \in [Drone -> {"IDLE", "COOLDOWN"}]
    /\ ttl \in [Drone -> 0..Cooldown]
    /\ monitor \in {"sleep", "ttl", "set"} \X (Drone \cup {None})
    /\ pc \in [Request -> {"idle", "read", "picked"}]
    /\ todo \in [Request -> SUBSET Drone]
    /\ cand \in [Request -> SUBSET Drone]
    /\ data \in [Request -> [Drone -> Profile]]
    /\ seen \in [Request -> [Drone -> Age]]
    /\ pool \in [Request -> SUBSET Drone]
    /\ rest \in [Request -> [Drone -> {0, 2, 6, 10}]]
    /\ winner \in [Request -> Drone \cup {None}]
    /\ idle \in [Request -> SUBSET Drone]
    /\ blind \in [Request -> SUBSET Drone]
    /\ flew \in [Request -> SUBSET Drone]

\* A drone is picked only when its last recorded landing is more than a
\* cooldown ago, whatever the monitor, a restart or another request did to its
\* state key -- unless Redis failed while it was read, or the drone was
\* launched after the snapshot was taken.
CooldownKept ==
    \A q \in Request :
        LET w == winner[q]
        IN  w # None /\ w \notin blind[q] \cup flew[q] => age[w] > Cooldown

\* The state key never keeps a drone on the ground for longer than one tick
\* more than its cooldown, however often the scorer sets it anew.
CooldownEnds ==
    \A d \in Drone :
        state[d] = "COOLDOWN" =>
            /\ ttl[d] > 0
            /\ age[d] + ttl[d] <= Cooldown + 1

\* No drone that was scored is in one factor better than the winner and in none
\* worse.  In distance and deliveries, better is by more than the hundredth of a
\* point to which totals are rounded; in battery any difference counts.
NotDominated ==
    \A q \in Request :
        winner[q] # None =>
            \A d \in Scored(q) :
                LET p == data[q][d]
                    w == data[q][winner[q]]
                IN  ~ /\ p.dist <= w.dist
                      /\ p.battery >= w.battery
                      /\ p.deliveries <= w.deliveries
                      /\ WindPoints(p.wind) >= WindPoints(w.wind)
                      /\ SignalPoints(p.signal) >= SignalPoints(w.signal)
                      /\ rest[q][d] >= rest[q][winner[q]]
                      /\ \/ 2500 * (w.dist - p.dist) > MaxDist(q)
                         \/ p.battery > w.battery
                         \/ 1500 * (w.deliveries - p.deliveries) > MaxDeliveries(q)
                         \/ WindPoints(p.wind) > WindPoints(w.wind)
                         \/ SignalPoints(p.signal) > SignalPoints(w.signal)
                         \/ rest[q][d] > rest[q][winner[q]]
=============================================================================
