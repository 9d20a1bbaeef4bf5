------------------------------ MODULE MCArena ------------------------------
(***************************************************************************)
(* Values for the constants of Arena.                                      *)
(***************************************************************************)
EXTENDS Arena

CONSTANTS a, b

\* The two keys are in the first and the last slot.
HomeEnds == [p \in Procs |-> IF p = a THEN 0 ELSE N - 1]

\* One key is set to values of two lengths.
LensTwo == [p \in Procs |-> IF p = a THEN {1, 2} ELSE {2}]

=============================================================================
