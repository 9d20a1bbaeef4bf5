-------------------------- MODULE MCHashMapHistory --------------------------
(***************************************************************************)
(* MCHashMap with the history variables.                                   *)
(***************************************************************************)
EXTENDS MCHashMap, HashMapHistory

=============================================================================
