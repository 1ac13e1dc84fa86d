----------------------------- MODULE MCDispatch -----------------------------
(***************************************************************************)
(* Instances of Dispatch for TLC: the block names of mission_executor.py    *)
(* with the key names landing._normalize_zone makes of them.                *)
(***************************************************************************)
EXTENDS Dispatch, TLC

MCBlock == {"SR_Block"}
MCKey   == {"Sr Block"}
MCKeyOf == [b \in MCBlock |-> "Sr Block"]
MCBlockOf == [o \in Order |-> "SR_Block"]

\* Orders of one block are interchangeable, and so are drones.
Symmetry == Permutations(Order) \cup Permutations(Drone)

=============================================================================
