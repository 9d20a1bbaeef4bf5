--------------------------- MODULE HashMapKVStore ---------------------------
(***************************************************************************)
(* HashMap implements KVStore for a process that has the arena to itself.  *)
(* The mapping also holds beside processes that only call get, as long as  *)
(* those find nothing to evict.                                            *)
(***************************************************************************)
EXTENDS HashMap

CONSTANT Writer

\* The occupied slot of key k.
SlotsOf(k) == {i \in Slots : state[i] = STATE_OCCUPIED /\ key_buf[i] = Both(k)}
SlotOf(k) == CHOOSE i \in SlotsOf(k) : TRUE

\* A buffer read as a value; NoVal if it is torn.
Whole(buf) == IF buf[1] = buf[2] THEN buf[1] ELSE NoVal

\* An in-place update counts from its first write on, a flush from its first
\* slot on; an insertion when it publishes, a deletion when its CAS succeeds,
\* a GET when it has found the entry not expired.
PhaseOf ==
  CASE pc[Writer] = "idle" -> "idle"
    [] pc[Writer] = "count" -> "inserted"
    [] pc[Writer] = "update_exp" -> "updated"
    [] pc[Writer] = "update" /\ half[Writer] = 2 -> "updated"
    [] pc[Writer] = "del_count" -> "removed"
    [] pc[Writer] = "flush" /\ probe[Writer] > 0 -> "cleared"
    [] pc[Writer] \in {"key", "read"} /\ arg[Writer].op = "get" -> "found"
    [] OTHER -> "called"

EntryOf(k) ==
  IF PhaseOf = "cleared" \/ SlotsOf(k) = {} THEN [val |-> NoVal, expiry |-> 0]
  ELSE IF PhaseOf = "updated" /\ arg[Writer].key = k
       THEN [val |-> arg[Writer].val, expiry |-> arg[Writer].expiry]
       ELSE [val |-> Whole(val_buf[SlotOf(k)]), expiry |-> expires_at[SlotOf(k)]]

Store == INSTANCE KVStore WITH
  Capacity <- N,
  dict     <- [k \in Keys |-> EntryOf(k)],
  req      <- arg[Writer],
  phase    <- PhaseOf,
  answer   <- [result |-> ret[Writer],
               val |-> IF ret[Writer] = "Found" THEN Whole(got[Writer]) ELSE NoVal]

\* The writer's set, get, del and flush are those of a dictionary: every call
\* takes effect at one instant and answers accordingly, the map forgets
\* nothing, keeps nothing it was told to delete, finds no entry that expired
\* before it looked, and is full exactly when N other keys hold its slots,
\* although every operation is many steps over slots that are reused.
ImplementsKVStore == Store!Spec

=============================================================================
