----------------------------- MODULE FleetStore -----------------------------
(***************************************************************************)
(* What Fleet AI keeps for the day and for the minute in Redis: the daily  *)
(* counters with their reset task (Counters) beside the cached locations   *)
(* (LocationCache).  One process runs both, and they restart together.     *)
(***************************************************************************)
EXTENDS Counters

CONSTANTS Caller, TTL, Slow, MaxEdits, Empty, NoVersion

ASSUME LocationsAssumption ==
    /\ TTL \in Nat \ {0}
    /\ Slow \in Nat
    /\ MaxEdits \in Nat
    /\ NoVersion \notin 0..MaxEdits

VARIABLES table, age, cached, ttl, known, stage, fallback, data, waited

locations == <<table, age, cached, ttl, known, stage, fallback, data, waited>>

L == INSTANCE LocationCache WITH None <- NoVersion

ProcessRestarts ==
    /\ L!Restart
    /\ Abort \/ (pc = "sleep" /\ UNCHANGED counters)

FleetInit == CountersInit /\ L!Init

FleetSpec ==
    /\ FleetInit
    /\ [][\/ CountersNext /\ UNCHANGED locations
          \/ L!Next /\ UNCHANGED counters
          \/ ProcessRestarts]_<<counters, locations>>

\* A list that Fleet AI did not fall back on was in the table no longer ago
\* than a copy lives and its writing takes, in whatever order concurrent calls
\* write their copies: a new location is seen, and a deactivated one is gone.
LocationsFresh == L!Fresh
=============================================================================
