----------------------------- MODULE LeaseTable -----------------------------
(***************************************************************************)
(* What the Fleet AI lock tables promise, whoever calls them: a table that  *)
(* gives every key at most one owner and never hands a key from one owner   *)
(* to another without the key being vacant in between.  Owners disappear    *)
(* for reasons this level does not tell apart: a release, the end of the    *)
(* lease, or a wipe of the whole table when the service boots.              *)
(***************************************************************************)
CONSTANTS Key,       \* names that can be leased
          Client,    \* who can own a lease
          None       \* the owner of a vacant key

VARIABLE owner

TypeOK == owner \in [Key -> Client \cup {None}]

Init == owner = [k \in Key |-> None]

\* A vacant key is given to a client.
Grant(k, c) ==
    /\ owner[k] = None
    /\ owner' = [owner EXCEPT ![k] = c]

\* The keys of S lose their owners together.
Vacate(S) == owner' = [k \in Key |-> IF k \in S THEN None ELSE owner[k]]

Next == \/ \E k \in Key, c \in Client : Grant(k, c)
        \/ \E S \in SUBSET Key : Vacate(S)

Spec == Init /\ [][Next]_owner
=============================================================================
