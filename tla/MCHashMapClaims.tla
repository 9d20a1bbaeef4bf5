-------------------------- MODULE MCHashMapClaims --------------------------
(***************************************************************************)
(* MCHashMap with the claims.                                              *)
(***************************************************************************)
EXTENDS MCHashMap, HashMapClaims

\* Both set; a sets and b looks up.
OpsSet == [p \in Procs |-> {"set"}]
OpsSetGet == [p \in Procs |-> IF p = a THEN {"set"} ELSE {"get"}]

=============================================================================
