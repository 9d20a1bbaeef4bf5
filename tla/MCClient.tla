------------------------------ MODULE MCClient ------------------------------
(***************************************************************************)
(* Values for the constants of Client.                                     *)
(***************************************************************************)
EXTENDS Client, TLC

CONSTANTS a, b

\* Process a calls everything; b increments and deletes.
OpsBatch == [p \in Procs |-> IF p = a THEN OpNames ELSE {"incr", "del"}]

\* No definition tells one key from another.
KeySymmetry == Permutations(Keys)

=============================================================================
