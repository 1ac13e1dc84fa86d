----------------------------- MODULE PermitPool -----------------------------
(***************************************************************************)
(* What the semaphore of the drone connections promises to those who share *)
(* it: a permit is taken only while one is free, by somebody who has none, *)
(* and given back by whoever has it.  From the moment `doubled` is set a   *)
(* permit may also be given back that nobody has; still none disappears.   *)
(***************************************************************************)
EXTENDS Naturals

CONSTANTS Owner,       \* who can have a permit
          MaxPermits   \* how many there are at first

VARIABLES owners, free, doubled

pool == <<owners, free, doubled>>

Init ==
    /\ owners = {}
    /\ free = MaxPermits
    /\ doubled = FALSE

\* A step gives back at most one permit, so that f are free and H have one ...
GiveBack(f, H) ==
    \/ f = free /\ H = owners
    \/ f = free + 1 /\ \E o \in owners : H = owners \ {o}
    \/ f = free + 1 /\ H = owners /\ doubled'

\* ... and then takes at most one.
Take(f, H) ==
    \/ free' = f /\ owners' = H
    \/ f > 0 /\ free' = f - 1 /\ \E o \in Owner \ H : owners' = H \cup {o}

Next ==
    /\ doubled' \in BOOLEAN
    /\ doubled => doubled'
    /\ \E f \in {free, free + 1}, H \in SUBSET owners : GiveBack(f, H) /\ Take(f, H)

Spec == Init /\ [][Next]_pool
=============================================================================
