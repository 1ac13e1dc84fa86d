--------------------------- MODULE LocationCache ---------------------------
(***************************************************************************)
(* The locations of one type (home pads or delivery blocks) as Fleet AI    *)
(* reads them (location_cache.py): from a copy in Redis that expires, else *)
(* from the orders service, else the list this process saw last.  Several  *)
(* requests read at once and do not wait for each other.  One step is one  *)
(* Redis command, the reading of the table by the orders service, or the   *)
(* arrival of its answer; a tick of the clock is a fraction of the TTL.    *)
(***************************************************************************)
EXTENDS Integers

CONSTANTS
    Caller,     \* requests that need the locations
    TTL,        \* CACHE_TTL_SECONDS, in ticks
    Slow,       \* ticks from the reading of the table to the write to Redis
    MaxEdits,   \* bound on the edits of the table
    Empty,      \* the versions of the table without an active location
    None

VARIABLES
    table,     \* version of the locations table
    age,       \* ticks since a version was replaced, up to TooOld
    cached,    \* version in Redis, or None
    ttl,       \* ticks it has left
    known,     \* _last_known_*, or None while it is empty
    stage,     \* what a call of get_*_locations does next
    fallback,  \* the list it was given to fall back on
    data,      \* what it got
    waited     \* ticks since the table was read for it

store == <<cached, ttl>>
call  == <<stage, fallback, data, waited>>
lvars == <<table, age, store, known, call>>

Version == 0..MaxEdits
TooOld  == TTL + Slow + 1

\* Redis may hold a copy that an earlier process made of the same table.
Init ==
    /\ table = 0
    /\ age = [v \in Version |-> 0]
    /\ \/ cached = None /\ ttl = 0
       \/ cached = 0 /\ ttl = TTL
    /\ known = None
    /\ stage = [c \in Caller |-> "idle"]
    /\ fallback = [c \in Caller |-> None]
    /\ data = [c \in Caller |-> None]
    /\ waited = [c \in Caller |-> 0]

\* A row of the table is added, changed or deactivated (external).
Edit ==
    /\ table < MaxEdits
    /\ table' = table + 1
    /\ UNCHANGED <<age, store, known, call>>

Reading == {"read", "write"}

\* The clock: the orders service has answered, and Redis stored, within Slow;
\* an answer is looked at when it comes.
Tick ==
    /\ \A c \in Caller : stage[c] \notin {"answered", "old"}
    /\ \A c \in Caller : stage[c] \in Reading => waited[c] < Slow
    /\ age' = [v \in Version |-> IF v < table /\ age[v] < TooOld THEN age[v] + 1 ELSE age[v]]
    /\ ttl' = IF ttl > 0 THEN ttl - 1 ELSE 0
    /\ cached' = IF ttl' = 0 THEN None ELSE cached
    /\ waited' = [c \in Caller |-> IF stage[c] \in Reading THEN waited[c] + 1 ELSE 0]
    /\ UNCHANGED <<table, known, stage, fallback, data>>

\* The fallback is an argument: it is what was known when the call began.
Begin(c) ==
    /\ stage[c] = "idle"
    /\ stage' = [stage EXCEPT ![c] = "get"]
    /\ fallback' = [fallback EXCEPT ![c] = known]
    /\ UNCHANGED <<table, age, store, known, data, waited>>

\* get_delivery_locations and get_home_locations keep a list that is not empty.
Answer(c, v) ==
    /\ stage' = [stage EXCEPT ![c] = "answered"]
    /\ data' = [data EXCEPT ![c] = v]
    /\ known' = IF v \in Empty \cup {None} THEN known ELSE v

\* A copy of an empty list is a copy too; an error is taken for a miss.
ReadCache(c) ==
    /\ stage[c] = "get"
    /\ \/ /\ cached # None
          /\ Answer(c, cached)
       \/ /\ stage' = [stage EXCEPT ![c] = "fetch"]
          /\ UNCHANGED <<known, data>>
    /\ UNCHANGED <<table, age, store, fallback, waited>>

\* The orders service reads the table for this call.
Fetch(c) ==
    /\ stage[c] = "fetch"
    /\ data' = [data EXCEPT ![c] = table]
    /\ waited' = [waited EXCEPT ![c] = 0]
    /\ stage' = [stage EXCEPT ![c] = "read"]
    /\ UNCHANGED <<table, age, store, known, fallback>>

\* Mutant of FetchFails: the last known list is written to Redis as well.
FetchFailsCaching(c) ==
    /\ stage[c] \in {"fetch", "read"}
    /\ stage' = [stage EXCEPT ![c] = "old"]
    /\ data' = [data EXCEPT ![c] = fallback[c]]
    /\ known' = IF fallback[c] = None THEN known ELSE fallback[c]
    /\ cached' = fallback[c]
    /\ ttl' = IF fallback[c] = None THEN 0 ELSE TTL
    /\ UNCHANGED <<table, age, fallback, waited>>

\* It cannot be reached or errs: the fallback, or an exception without one.
FetchFails(c) ==
    /\ stage[c] \in {"fetch", "read"}
    /\ stage' = [stage EXCEPT ![c] = "old"]
    /\ data' = [data EXCEPT ![c] = fallback[c]]
    /\ known' = IF fallback[c] = None THEN known ELSE fallback[c]
    /\ UNCHANGED <<table, age, store, fallback, waited>>

Fetched(c) ==
    /\ stage[c] = "read"
    /\ stage' = [stage EXCEPT ![c] = "write"]
    /\ UNCHANGED <<table, age, store, known, fallback, data, waited>>

\* SET with EX, over a copy another call may have written; an error is ignored.
WriteCache(c) ==
    /\ stage[c] = "write"
    /\ Answer(c, data[c])
    /\ \/ cached' = data[c] /\ ttl' = TTL
       \/ UNCHANGED store
    /\ UNCHANGED <<table, age, fallback, waited>>

\* The caller has used what it got.
End(c) ==
    /\ stage[c] \in {"answered", "old"}
    /\ stage' = [stage EXCEPT ![c] = "idle"]
    /\ data' = [data EXCEPT ![c] = None]
    /\ fallback' = [fallback EXCEPT ![c] = None]
    /\ waited' = [waited EXCEPT ![c] = 0]
    /\ UNCHANGED <<table, age, store, known>>

Next ==
    \/ Edit \/ Tick
    \/ \E c \in Caller :
         Begin(c) \/ ReadCache(c) \/ Fetch(c) \/ FetchFails(c) \/ Fetched(c)
         \/ WriteCache(c) \/ End(c)

\* Fleet AI restarts: its calls and what it knew are gone.
Restart ==
    /\ known' = None
    /\ stage' = [c \in Caller |-> "idle"]
    /\ fallback' = [c \in Caller |-> None]
    /\ data' = [c \in Caller |-> None]
    /\ waited' = [c \in Caller |-> 0]
    /\ UNCHANGED <<table, age, store>>

Spec == Init /\ [][Next \/ Restart]_lvars

-----------------------------------------------------------------------------
(* Properties.                                                             *)

\* A list that Fleet AI did not fall back on was in the table no longer ago
\* than a copy lives and its writing takes, in whatever order concurrent calls
\* write their copies: a new location is seen, and a deactivated one is gone.
Fresh ==
    \A c \in Caller :
        stage[c] = "answered" => data[c] = table \/ age[data[c]] < TTL + Slow
=============================================================================
