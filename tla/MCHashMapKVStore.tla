-------------------------- MODULE MCHashMapKVStore --------------------------
(***************************************************************************)
(* MCHashMap with the refinement mapping to KVStore.                       *)
(***************************************************************************)
EXTENDS MCHashMap, HashMapKVStore

=============================================================================
