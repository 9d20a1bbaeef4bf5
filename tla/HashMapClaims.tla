--------------------------- MODULE HashMapClaims ---------------------------
(***************************************************************************)
(* What comments in the source say of the map and the code does not do.    *)
(* Each property here is refuted by a run of its own.                      *)
(***************************************************************************)
EXTENDS HashMap

\* "Concurrent SET + GET: safe via Acquire/Release ordering on state".  A SET
\* that updates in place leaves state alone, and the GET copies both values.
NoTornValue ==
  \A p \in Procs : ret[p] = "Found" => got[p][1] = got[p][2]

\* "Concurrent SET + SET on same key: last writer wins": when no call runs, a
\* key has one entry.
LastWriterWins == (\A p \in Procs : pc[p] = "idle") => UniqueKey

=============================================================================
