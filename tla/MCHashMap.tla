----------------------------- MODULE MCHashMap -----------------------------
(***************************************************************************)
(* Values for the constants of HashMap.                                    *)
(***************************************************************************)
EXTENDS HashMap

CONSTANTS a, b, c, k1, k2, k3

\* Distinct hashes that start at the same slot when N = 2.
FpSameSlot == [k \in Keys |-> IF k = k1 THEN 1 ELSE 3]

\* The two keys start at neighbouring slots, so their chains overlap.
FpNeighbours == [k \in Keys |-> IF k = k1 THEN 1 ELSE 2]

\* Two keys that start at the same slot and one at the next.
FpThree == [k \in Keys |-> IF k = k1 THEN 3 ELSE IF k = k2 THEN 6 ELSE 1]

OpsAll == [p \in Procs |-> OpNames]

\* One process sets, the others look up and delete.
OpsOneSetter == [p \in Procs |->
  CASE p = a -> {"set"}
    [] p = b -> {"get", "del"}
    [] OTHER -> {"get"}]

\* One process writes, the others look up.
OpsOneWriter == [p \in Procs |-> IF p = a THEN OpNames ELSE {"get"}]

=============================================================================
