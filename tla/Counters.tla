------------------------------ MODULE Counters ------------------------------
(***************************************************************************)
(* The daily counters of Fleet AI in Redis and the task that empties them  *)
(* when the date changes (_midnight_reset in main.py), while missions that *)
(* end add to them.  One step is one Redis command.                        *)
(***************************************************************************)
EXTENDS Integers

CONSTANTS
    DeliveryKey,  \* deliveries_today:<drone>
    FlightKey,    \* flight_minutes_today:<drone>
    MaxDay,       \* bound on the days
    MaxCount      \* bound on what a counter holds

ASSUME CountersAssumption ==
    /\ MaxDay \in Nat
    /\ MaxCount \in Nat
    /\ DeliveryKey \cap FlightKey = {}

Key == DeliveryKey \cup FlightKey
Never == -1   \* the date of no reset

VARIABLES
    day,     \* the date in UTC
    date,    \* deliveries_today_reset_date
    count,   \* the counters; a missing key counts 0
    pc,      \* what _midnight_reset does next
    today,   \* its today_str
    listed,  \* its all_keys
    done     \* history: what was recorded today

reset == <<pc, today, listed>>
counters == <<day, date, count, reset, done>>

\* Redis keeps what it held when Fleet AI was down, for however long.
CountersInit ==
    /\ day = 0
    /\ date \in {Never, 0}
    /\ count = [k \in Key |-> 0]
    /\ pc = "sleep"
    /\ today = 0
    /\ listed = {}
    /\ done = [k \in Key |-> 0]

Midnight ==
    /\ day < MaxDay
    /\ day' = day + 1
    /\ done' = [k \in Key |-> 0]
    /\ UNCHANGED <<date, count, reset>>

\* Mutant of Record: a call that timed out is repeated, although it was counted.
RecordTwice(k) ==
    /\ count[k] < MaxCount
    /\ done[k] < MaxCount
    /\ count' = [count EXCEPT ![k] = @ + 2]
    /\ done' = [done EXCEPT ![k] = @ + 1]
    /\ UNCHANGED <<day, date, reset>>

\* INCR and INCRBYFLOAT.
Record(k) ==
    /\ count[k] < MaxCount
    /\ done[k] < MaxCount
    /\ count' = [count EXCEPT ![k] = @ + 1]
    /\ done' = [done EXCEPT ![k] = @ + 1]
    /\ UNCHANGED <<day, date, reset>>

\* The executor of a mission tells once, and goes on if that fails.
_record_delivery == \E k \in DeliveryKey : Record(k)

_record_flight_time == \E k \in FlightKey : Record(k)

Wake ==
    /\ pc = "sleep"
    /\ today' = day
    /\ pc' = "get"
    /\ UNCHANGED <<day, date, count, listed, done>>

\* Mutant of Get: the date is stored before the counters are emptied.
GetAndStore ==
    /\ pc = "get"
    /\ pc' = IF date = today THEN "sleep" ELSE "deliveries"
    /\ date' = today
    /\ UNCHANGED <<day, count, today, listed, done>>

Get ==
    /\ pc = "get"
    /\ pc' = IF date = today THEN "sleep" ELSE "deliveries"
    /\ UNCHANGED <<day, date, count, today, listed, done>>

Existing(keys) == {k \in keys : count[k] > 0}

ListDeliveries ==
    /\ pc = "deliveries"
    /\ listed' = Existing(DeliveryKey)
    /\ pc' = "flights"
    /\ UNCHANGED <<day, date, count, today, done>>

ListFlights ==
    /\ pc = "flights"
    /\ listed' = listed \cup Existing(FlightKey)
    /\ pc' = IF listed' = {} THEN "store" ELSE "delete"
    /\ UNCHANGED <<day, date, count, today, done>>

Delete ==
    /\ pc = "delete"
    /\ count' = [k \in Key |-> IF k \in listed THEN 0 ELSE count[k]]
    /\ pc' = "store"
    /\ UNCHANGED <<day, date, today, listed, done>>

\* Mutant of Store: the date is asked for again.
StoreNow ==
    /\ pc = "store"
    /\ date' = day
    /\ pc' = "sleep"
    /\ listed' = {}
    /\ UNCHANGED <<day, count, today, done>>

Store ==
    /\ pc = "store"
    /\ date' = today
    /\ pc' = "sleep"
    /\ listed' = {}
    /\ UNCHANGED <<day, count, today, done>>

\* A command fails, or Fleet AI restarts: the task begins anew.
Abort ==
    /\ pc # "sleep"
    /\ pc' = "sleep"
    /\ listed' = {}
    /\ UNCHANGED <<day, date, count, today, done>>

CountersNext ==
    \/ Midnight
    \/ _record_delivery \/ _record_flight_time
    \/ Wake \/ Get \/ ListDeliveries \/ ListFlights \/ Delete \/ Store \/ Abort

CountersSpec == CountersInit /\ [][CountersNext]_counters

-----------------------------------------------------------------------------
(* Properties.                                                             *)

\* Every variable has its type.
CountersTypeOK ==
    /\ day \in 0..MaxDay
    /\ date \in {Never} \cup 0..MaxDay
    /\ count \in [Key -> 0..MaxCount]
    /\ pc \in {"sleep", "get", "deliveries", "flights", "delete", "store"}
    /\ today \in 0..MaxDay
    /\ listed \subseteq Key
    /\ done \in [Key -> 0..MaxCount]

\* Once the reset of a day is stored, no counter holds anything of an earlier
\* day, even when midnight passes during a reset, or a reset breaks off: the
\* scheduler does not take yesterday's deliveries for today's.
OnlyToday == date = day => \A k \in Key : count[k] <= done[k]

\* Once the reset of a day is stored, nothing that is recorded on that day is
\* deleted again.
KeptToday ==
    [][date = day /\ day' = day => \A k \in Key : count'[k] >= count[k]]_counters
=============================================================================
