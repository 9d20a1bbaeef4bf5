------------------------------ MODULE HashMap ------------------------------
(***************************************************************************)
(* The lock-free hash map of MemLane (src/hashmap.rs) over the slots of    *)
(* the shared arena (src/slot.rs), with its lazy expiry (src/ttl.rs).      *)
(*                                                                         *)
(* A process is any thread of any program attached to the arena.  One step *)
(* is one access to shared memory: an atomic load, store, compare-exchange *)
(* or fetch_add, or the copy of half of a key or value buffer.  Buffers    *)
(* are plain bytes that other processes may copy at the same time, so each *)
(* one has two halves and a copy takes two steps; a torn copy is one whose *)
(* halves come from different writers.  Steps interleave sequentially      *)
(* consistently.                                                           *)
(***************************************************************************)
EXTENDS Integers, FiniteSets

CONSTANTS
  Procs,       \* threads and processes that call the map
  Keys, Vals,  \* the key and value byte strings in use
  NoKey, NoVal,\* content of a buffer nothing was written to
  N,           \* SLOT_COUNT
  Fp,          \* Fp[k] is siphash(k)
  Wrap,        \* 2^64: used_count is an AtomicU64
  Ttls,        \* the ttl_secs arguments in use, 0 for no expiry
  Ops,         \* Ops[p]: the operations process p calls
  CanCrash,    \* processes that may die inside an operation
  MaxTime      \* bound on the clock

OpNames == {"get", "set", "del", "flush"}

ASSUME HashMapAssumption ==
  /\ N \in Nat \ {0}
  /\ Wrap \in Nat \ {0}
  /\ Fp \in [Keys -> Nat]
  /\ NoKey \notin Keys
  /\ NoVal \notin Vals
  /\ Ttls \subseteq Nat
  /\ Ops \in [Procs -> SUBSET OpNames]
  /\ MaxTime \in Nat

VARIABLES
  state, fingerprint, expires_at, key_buf, val_buf, \* the slot array
  used_count,      \* ArenaHeader.used_count
  now,             \* the wall clock of now_ms()
  pc,              \* where a process is in its operation
  arg,             \* the operation's arguments
  probe,           \* the loop index i
  first_tombstone, \* SET's reuse candidate
  half,            \* the half of a buffer being copied
  got,             \* the bytes GET has copied out
  loaded,          \* the expiry read, until it is compared with the clock
  ret,             \* the result of the last operation
  wiping           \* the last FLUSH has begun and not completed

slotVars == <<state, fingerprint, expires_at, key_buf, val_buf>>
opVars   == <<pc, arg, probe, first_tombstone, half, ret>>
vars == <<slotVars, used_count, now, opVars, got, loaded, wiping>>

STATE_EMPTY     == 0
STATE_OCCUPIED  == 1
STATE_TOMBSTONE == 2

Slots  == 0 .. N - 1
NoSlot == -1

\* (start + i) & (SLOT_COUNT - 1), SLOT_COUNT being a power of two.
At(k, i) == (Fp[k] + i) % N

\* The slot the loop of process p is at.
Idx(p) == At(arg[p].key, probe[p])

\* first_tombstone.unwrap_or(idx): the slot SET claims.
Target(p) == IF first_tombstone[p] # NoSlot THEN first_tombstone[p] ELSE Idx(p)

Both(x) == [h \in 1 .. 2 |-> x]

NoArg == [op |-> "none", key |-> NoKey, val |-> NoVal, expiry |-> 0]

TtlToExpiry(ttl) == IF ttl = 0 THEN 0 ELSE now + ttl

IsExpired(i) == expires_at[i] # 0 /\ now >= expires_at[i]

-----------------------------------------------------------------------------
(* The moves of one process through its operation.  Each sets opVars.      *)

Goto(p, label) ==
  /\ pc' = [pc EXCEPT ![p] = label]
  /\ half' = [half EXCEPT ![p] = 1]
  /\ UNCHANGED <<arg, probe, first_tombstone, ret>>

SecondHalf(p) ==
  /\ half' = [half EXCEPT ![p] = 2]
  /\ UNCHANGED <<pc, arg, probe, first_tombstone, ret>>

\* After one half of a copy: the other half, or on to label.
CopyThen(p, label) ==
  \/ half[p] = 1 /\ SecondHalf(p)
  \/ half[p] = 2 /\ Goto(p, label)

\* The operation's locals are dead after it returns.
Return(p, result) ==
  /\ pc' = [pc EXCEPT ![p] = "idle"]
  /\ ret' = [ret EXCEPT ![p] = result]
  /\ arg' = [arg EXCEPT ![p] = NoArg]
  /\ probe' = [probe EXCEPT ![p] = 0]
  /\ first_tombstone' = [first_tombstone EXCEPT ![p] = NoSlot]
  /\ half' = [half EXCEPT ![p] = 1]

\* On by one slot, to label, with tomb in first_tombstone.
MoveOn(p, label, tomb) ==
  /\ pc' = [pc EXCEPT ![p] = label]
  /\ probe' = [probe EXCEPT ![p] = @ + 1]
  /\ first_tombstone' = [first_tombstone EXCEPT ![p] = tomb]
  /\ half' = [half EXCEPT ![p] = 1]
  /\ UNCHANGED <<arg, ret>>

\* Fault: SET gives up when the table has no EMPTY slot.
EndOfScanNoReuse(p, tomb) ==
  IF arg[p].op = "set" THEN Return(p, "Full") ELSE Return(p, "NotFound")

\* What follows the loop when no iteration returned.
EndOfScan(p, tomb) ==
  \/ arg[p].op # "set" /\ Return(p, "NotFound")
  \/ arg[p].op = "set" /\ tomb = NoSlot /\ Return(p, "Full")
  \/ arg[p].op = "set" /\ tomb # NoSlot /\ MoveOn(p, "write_key", tomb)

\* Fault: the loop runs once too often.
LastSlotMissed(p) == probe[p] = N

LastSlot(p) == probe[p] + 1 = N

\* continue: the next iteration, with tomb in first_tombstone.
Advance(p, tomb) ==
  \/ LastSlot(p) /\ EndOfScan(p, tomb)
  \/ ~LastSlot(p) /\ MoveOn(p, "probe", tomb)

\* Fault: a lookup stops at a key that is not its own.
ContinueStops(p) ==
  IF arg[p].op = "set" THEN Advance(p, first_tombstone[p]) ELSE Return(p, "NotFound")

\* Fault: DEL retries its slot until its compare-exchange succeeds.
ContinueRetries(p) ==
  IF pc[p] = "del" THEN Goto(p, "probe") ELSE Advance(p, first_tombstone[p])

\* Nothing to do with the slot at idx.
Continue(p) == Advance(p, first_tombstone[p])

\* first_tombstone after seeing that slot idx can be reused.
Candidate(p) == IF first_tombstone[p] = NoSlot THEN Idx(p) ELSE first_tombstone[p]

-----------------------------------------------------------------------------
(* Calls.  FLUSH requires exclusive access to the arena: it starts only    *)
(* when no operation is running, and no operation starts while it runs.    *)

Start(p, op, k, v, expiry) ==
  /\ pc[p] = "idle"
  /\ op \in Ops[p]
  /\ pc' = [pc EXCEPT ![p] = IF op = "flush" THEN "flush" ELSE "probe"]
  /\ arg' = [arg EXCEPT ![p] = [op |-> op, key |-> k, val |-> v, expiry |-> expiry]]
  /\ ret' = [ret EXCEPT ![p] = "None"]
  /\ got' = [got EXCEPT ![p] = Both(NoVal)]
  /\ UNCHANGED <<slotVars, used_count, now, probe, first_tombstone, half, loaded>>

NoFlush == \A q \in Procs : pc[q] # "flush"

CallGet(p) ==
  /\ NoFlush
  /\ \E k \in Keys : Start(p, "get", k, NoVal, 0)
  /\ UNCHANGED wiping

CallSet(p) ==
  /\ NoFlush
  /\ \E k \in Keys, v \in Vals, ttl \in Ttls :
       Start(p, "set", k, v, TtlToExpiry(ttl))
  /\ UNCHANGED wiping

CallDel(p) ==
  /\ NoFlush
  /\ \E k \in Keys : Start(p, "del", k, NoVal, 0)
  /\ UNCHANGED wiping

CallFlush(p) ==
  /\ \A q \in Procs : pc[q] = "idle"
  /\ Start(p, "flush", NoKey, NoVal, 0)
  /\ wiping' = TRUE

-----------------------------------------------------------------------------
(* One iteration of the probe loop, the same code in get, set and del up   *)
(* to what each does with what it finds.                                   *)

Reads == UNCHANGED <<slotVars, used_count, now, got, loaded, wiping>>
Other == UNCHANGED <<used_count, now, got, loaded, wiping>>

\* state.load finds an EMPTY slot: the key is not in the map.
ProbeEmpty(p) ==
  /\ pc[p] = "probe" /\ state[Idx(p)] = STATE_EMPTY
  /\ \/ arg[p].op = "set" /\ Goto(p, "write_key")
     \/ arg[p].op # "set" /\ Return(p, "NotFound")
  /\ Reads

\* Fault: SET claims the first tombstone without looking further.
PassTombstoneClaims(p) ==
  IF arg[p].op = "set" THEN Goto(p, "write_key") ELSE Continue(p)

\* Fault: a lookup stops at a tombstone.
PassTombstoneStops(p) ==
  IF arg[p].op = "set" THEN Advance(p, Candidate(p)) ELSE Return(p, "NotFound")

PassTombstone(p) ==
  IF arg[p].op = "set" THEN Advance(p, Candidate(p)) ELSE Continue(p)

ProbeTombstone(p) ==
  /\ pc[p] = "probe" /\ state[Idx(p)] = STATE_TOMBSTONE
  /\ PassTombstone(p)
  /\ Reads

ProbeOccupied(p) ==
  /\ pc[p] = "probe" /\ state[Idx(p)] = STATE_OCCUPIED
  /\ Goto(p, "fp")
  /\ Reads

LoadFingerprint(p) ==
  /\ pc[p] = "fp"
  /\ \/ fingerprint[Idx(p)] # Fp[arg[p].key] /\ Continue(p)
     \/ /\ fingerprint[Idx(p)] = Fp[arg[p].key]
        /\ Goto(p, IF arg[p].op = "del" THEN "key" ELSE "expiry")
  /\ Reads

\* is_expired: it loads the expiry, and only then reads the clock.
LoadExpiry(p) ==
  /\ pc[p] = "expiry"
  /\ loaded' = [loaded EXCEPT ![p] = expires_at[Idx(p)]]
  /\ Goto(p, IF expires_at[Idx(p)] = 0 THEN "key" ELSE "clock")
  /\ UNCHANGED <<slotVars, used_count, now, got, wiping>>

ReadClock(p) ==
  /\ pc[p] = "clock"
  /\ loaded' = [loaded EXCEPT ![p] = 0]
  /\ Goto(p, IF now >= loaded[p] THEN "evict" ELSE "key")
  /\ UNCHANGED <<slotVars, used_count, now, got, wiping>>

\* Fault: a slot is freed as EMPTY.
Freed(i) == [state EXCEPT ![i] = STATE_EMPTY]

Tombstoned(i) == [state EXCEPT ![i] = STATE_TOMBSTONE]

\* lazy_evict_if_expired: the compare-exchange, and its ignored result.
Evict(p) ==
  /\ pc[p] = "evict"
  /\ state' = IF state[Idx(p)] = STATE_OCCUPIED THEN Tombstoned(Idx(p)) ELSE state
  /\ \/ arg[p].op = "get" /\ Return(p, "Expired")
     \/ arg[p].op = "set" /\ Advance(p, Candidate(p))
  /\ UNCHANGED <<fingerprint, expires_at, key_buf, val_buf>> /\ Other

\* read_key and the comparison, which one differing half decides.
CompareKey(p) ==
  /\ pc[p] = "key"
  /\ \/ key_buf[Idx(p)][half[p]] # arg[p].key /\ Continue(p)
     \/ /\ key_buf[Idx(p)][half[p]] = arg[p].key
        /\ \/ arg[p].op = "get" /\ CopyThen(p, "read")
           \/ arg[p].op = "set" /\ CopyThen(p, "update")
           \/ arg[p].op = "del" /\ CopyThen(p, "del")
  /\ Reads

-----------------------------------------------------------------------------
(* What an operation does once it has found its key.                       *)

\* read_value.
ReadValue(p) ==
  /\ pc[p] = "read"
  /\ got' = [got EXCEPT ![p][half[p]] = val_buf[Idx(p)][half[p]]]
  /\ \/ half[p] = 1 /\ SecondHalf(p)
     \/ half[p] = 2 /\ Return(p, "Found")
  /\ UNCHANGED <<slotVars, used_count, now, loaded, wiping>>

\* write_value on the slot that holds the key.
UpdateValue(p) ==
  /\ pc[p] = "update"
  /\ val_buf' = [val_buf EXCEPT ![Idx(p)][half[p]] = arg[p].val]
  /\ CopyThen(p, "update_exp")
  /\ UNCHANGED <<state, fingerprint, expires_at, key_buf>> /\ Other

\* Fault: an update keeps the old expiry.
UpdateExpiryKept(p) ==
  /\ pc[p] = "update_exp"
  /\ Return(p, "Updated")
  /\ Reads

UpdateExpiry(p) ==
  /\ pc[p] = "update_exp"
  /\ expires_at' = [expires_at EXCEPT ![Idx(p)] = arg[p].expiry]
  /\ Return(p, "Updated")
  /\ UNCHANGED <<state, fingerprint, key_buf, val_buf>> /\ Other

\* The compare-exchange; when it fails the loop goes on to the next slot.
DelCas(p) ==
  /\ pc[p] = "del"
  /\ \/ /\ state[Idx(p)] = STATE_OCCUPIED
        /\ state' = Tombstoned(Idx(p))
        /\ Goto(p, "del_count")
     \/ /\ state[Idx(p)] # STATE_OCCUPIED
        /\ Continue(p)
        /\ UNCHANGED state
  /\ UNCHANGED <<fingerprint, expires_at, key_buf, val_buf>> /\ Other

DelCount(p) ==
  /\ pc[p] = "del_count"
  /\ used_count' = (used_count + Wrap - 1) % Wrap
  /\ Return(p, "Deleted")
  /\ UNCHANGED <<slotVars, now, got, loaded, wiping>>

-----------------------------------------------------------------------------
(* claim_slot, field by field.                                             *)

\* Fault: the fingerprint store is missing.
AfterNoFp == [write_key |-> "write_val", write_val |-> "write_exp",
              write_exp |-> "publish"]

\* The store that follows each one.
After == [write_key |-> "write_val", write_val |-> "write_fp",
          write_fp |-> "write_exp", write_exp |-> "publish"]

WriteKey(p) ==
  /\ pc[p] = "write_key"
  /\ key_buf' = [key_buf EXCEPT ![Target(p)][half[p]] = arg[p].key]
  /\ CopyThen(p, After.write_key)
  /\ UNCHANGED <<state, fingerprint, expires_at, val_buf>> /\ Other

WriteVal(p) ==
  /\ pc[p] = "write_val"
  /\ val_buf' = [val_buf EXCEPT ![Target(p)][half[p]] = arg[p].val]
  /\ CopyThen(p, After.write_val)
  /\ UNCHANGED <<state, fingerprint, expires_at, key_buf>> /\ Other

WriteFp(p) ==
  /\ pc[p] = "write_fp"
  /\ fingerprint' = [fingerprint EXCEPT ![Target(p)] = Fp[arg[p].key]]
  /\ Goto(p, After.write_fp)
  /\ UNCHANGED <<state, expires_at, key_buf, val_buf>> /\ Other

WriteExp(p) ==
  /\ pc[p] = "write_exp"
  /\ expires_at' = [expires_at EXCEPT ![Target(p)] = arg[p].expiry]
  /\ Goto(p, After.write_exp)
  /\ UNCHANGED <<state, fingerprint, key_buf, val_buf>> /\ Other

Publish(p) ==
  /\ pc[p] = "publish"
  /\ state' = [state EXCEPT ![Target(p)] = STATE_OCCUPIED]
  /\ Goto(p, "count")
  /\ UNCHANGED <<fingerprint, expires_at, key_buf, val_buf>> /\ Other

\* Fault: a reused tombstone is not counted.
CountsNew(p) == first_tombstone[p] = NoSlot

\* Only a loop that ended at an EMPTY slot counts its key.
Counts(p) == probe[p] < N

CountInsert(p) ==
  /\ pc[p] = "count"
  /\ used_count' = IF Counts(p) THEN (used_count + 1) % Wrap ELSE used_count
  /\ Return(p, "Inserted")
  /\ UNCHANGED <<slotVars, now, got, loaded, wiping>>

-----------------------------------------------------------------------------
(* FLUSH, death and time.                                                  *)

\* Nobody looks between the five stores to one slot.
FlushSlot(p) ==
  /\ pc[p] = "flush" /\ probe[p] < N
  /\ state' = [state EXCEPT ![probe[p]] = STATE_EMPTY]
  /\ fingerprint' = [fingerprint EXCEPT ![probe[p]] = 0]
  /\ expires_at' = [expires_at EXCEPT ![probe[p]] = 0]
  /\ key_buf' = [key_buf EXCEPT ![probe[p]] = Both(NoKey)]
  /\ val_buf' = [val_buf EXCEPT ![probe[p]] = Both(NoVal)]
  /\ probe' = [probe EXCEPT ![p] = @ + 1]
  /\ UNCHANGED <<pc, arg, first_tombstone, half, ret>> /\ Other

FlushCount(p) ==
  /\ pc[p] = "flush" /\ probe[p] = N
  /\ used_count' = 0
  /\ wiping' = FALSE
  /\ Return(p, "Flushed")
  /\ UNCHANGED <<slotVars, now, got, loaded>>

\* The process dies; what it stored in the arena stays.
Crash(p) ==
  /\ p \in CanCrash
  /\ pc[p] # "idle"
  /\ Return(p, "Crashed")
  /\ loaded' = [loaded EXCEPT ![p] = 0]
  /\ UNCHANGED <<slotVars, used_count, now, got, wiping>>

Tick ==
  /\ now < MaxTime
  /\ now' = now + 1
  /\ UNCHANGED <<slotVars, used_count, opVars, got, loaded, wiping>>

-----------------------------------------------------------------------------
Init ==
  /\ state = [i \in Slots |-> STATE_EMPTY]
  /\ fingerprint = [i \in Slots |-> 0]
  /\ expires_at = [i \in Slots |-> 0]
  /\ key_buf = [i \in Slots |-> Both(NoKey)]
  /\ val_buf = [i \in Slots |-> Both(NoVal)]
  /\ used_count = 0
  /\ now = 1
  /\ pc = [p \in Procs |-> "idle"]
  /\ arg = [p \in Procs |-> NoArg]
  /\ probe = [p \in Procs |-> 0]
  /\ first_tombstone = [p \in Procs |-> NoSlot]
  /\ half = [p \in Procs |-> 1]
  /\ got = [p \in Procs |-> Both(NoVal)]
  /\ loaded = [p \in Procs |-> 0]
  /\ ret = [p \in Procs |-> "None"]
  /\ wiping = FALSE

Call(p) == CallGet(p) \/ CallSet(p) \/ CallDel(p) \/ CallFlush(p)

\* The steps of an operation after its call.
Step(p) ==
  \/ ProbeEmpty(p) \/ ProbeTombstone(p) \/ ProbeOccupied(p)
  \/ LoadFingerprint(p) \/ LoadExpiry(p) \/ ReadClock(p) \/ Evict(p)
  \/ CompareKey(p)
  \/ ReadValue(p) \/ UpdateValue(p) \/ UpdateExpiry(p)
  \/ DelCas(p) \/ DelCount(p)
  \/ WriteKey(p) \/ WriteVal(p) \/ WriteFp(p) \/ WriteExp(p) \/ Publish(p)
  \/ CountInsert(p)
  \/ FlushSlot(p) \/ FlushCount(p)

Next ==
  \/ \E p \in Procs : Call(p) \/ Step(p) \/ Crash(p)
  \/ Tick

Spec == Init /\ [][Next]_vars

\* The scheduler runs every process, but nothing is assumed of the ones that
\* may die: they may also stop for ever in the middle of an operation.
FairSpec == Spec /\ \A p \in Procs \ CanCrash : WF_vars(Step(p))

-----------------------------------------------------------------------------
(* Properties of every run, whatever the processes do.                     *)

Claiming == {"write_key", "write_val", "write_fp", "write_exp", "publish"}
Scanning == {"probe", "fp", "expiry", "clock", "evict", "key", "read", "update",
             "update_exp", "del", "del_count", "count"}
Labels == Claiming \cup Scanning \cup {"idle", "flush"}
Results == {"None", "Found", "NotFound", "Expired", "Inserted", "Updated",
            "Full", "Deleted", "Flushed", "Crashed"}

\* The type of the state: every slot index a process holds is in the array,
\* every loop index in bounds, and used_count fits its 64 bits.
TypeOK ==
  /\ state \in [Slots -> {STATE_EMPTY, STATE_OCCUPIED, STATE_TOMBSTONE}]
  /\ fingerprint \in [Slots -> Nat]
  /\ expires_at \in [Slots -> Nat]
  /\ key_buf \in [Slots -> [1 .. 2 -> Keys \cup {NoKey}]]
  /\ val_buf \in [Slots -> [1 .. 2 -> Vals \cup {NoVal}]]
  /\ used_count \in 0 .. Wrap - 1
  /\ now \in Nat
  /\ pc \in [Procs -> Labels]
  /\ arg \in [Procs -> [op : OpNames \cup {"none"}, key : Keys \cup {NoKey},
                        val : Vals \cup {NoVal}, expiry : Nat]]
  /\ probe \in [Procs -> 0 .. N]
  /\ first_tombstone \in [Procs -> Slots \cup {NoSlot}]
  /\ half \in [Procs -> 1 .. 2]
  /\ got \in [Procs -> [1 .. 2 -> Vals \cup {NoVal}]]
  /\ loaded \in [Procs -> Nat]
  /\ ret \in [Procs -> Results]
  /\ wiping \in BOOLEAN

\* A lookup of k that starts now reaches slot i: no EMPTY slot stops it.
Reaches(k, i) ==
  \E o \in 0 .. N - 1 :
    /\ i = At(k, o)
    /\ \A j \in 0 .. o - 1 : state[At(k, j)] # STATE_EMPTY

\* The probe chains never break: whatever sets, deletes and expiries run
\* concurrently and wherever a process dies, a key whose bytes are in an
\* occupied slot can be reached by the probe of that key.  It is what the
\* tombstones of del and lazy_evict_if_expired are for.  A FLUSH that died
\* half way is the exception, until another FLUSH completes.
ProbeChainIntact ==
  ~wiping => \A i \in Slots, k \in Keys :
    state[i] = STATE_OCCUPIED /\ key_buf[i] = Both(k) => Reaches(k, i)

-----------------------------------------------------------------------------
(* Properties of the runs in which only one process calls set.             *)

\* No key is in two occupied slots: set scans the whole chain before it reuses
\* a tombstone, and what others delete or expire meanwhile never makes it
\* insert a second copy.
UniqueKey ==
  \A i, j \in Slots :
    /\ i # j
    /\ state[i] = STATE_OCCUPIED /\ state[j] = STATE_OCCUPIED
    => key_buf[i] # key_buf[j]

\* An occupied slot is a whole one: claim_slot publishes last, so its key is
\* not torn and its fingerprint is that key's.
OccupiedIsWhole ==
  \A i \in Slots : state[i] = STATE_OCCUPIED =>
    \E k \in Keys : key_buf[i] = Both(k) /\ fingerprint[i] = Fp[k]

\* While some slot was never used, used_count is the number of occupied slots,
\* but for the operations between their store to state and their fetch_add or
\* fetch_sub, which also let it wrap below zero for a moment.  Needs no expiry
\* and no process that dies.
CountExact ==
  ~wiping /\ (\E i \in Slots : state[i] = STATE_EMPTY) =>
    (used_count + Cardinality({p \in Procs : pc[p] = "count"})) % Wrap
      = (Cardinality({i \in Slots : state[i] = STATE_OCCUPIED})
           + Cardinality({p \in Procs : pc[p] = "del_count"})) % Wrap

-----------------------------------------------------------------------------
(* Wait-freedom: a call returns in a bounded number of its own steps, even *)
(* if other processes run for ever or stop in the middle of an operation.  *)

\* How far from its end the work at one slot is.
Rank == [probe |-> 13, fp |-> 12, expiry |-> 11, clock |-> 10, evict |-> 9, key |-> 9,
         read |-> 8, update |-> 8, del |-> 8, update_exp |-> 7, del_count |-> 7,
         write_key |-> 6, write_val |-> 5, write_fp |-> 4, write_exp |-> 3,
         publish |-> 2, count |-> 1]

\* A bound on the steps p still has to take: two for each label that is left
\* at its slot, and for each slot it has not reached as many as a whole visit.
StepsLeft(p) ==
  CASE pc[p] = "idle"  -> 0
    [] pc[p] = "flush" -> N - probe[p] + 1
    [] OTHER           -> 26 * (N - probe[p]) + 2 * Rank[pc[p]] + 1 - half[p]

\* No call takes more than 26 (N + 1) steps: each step of its process brings it
\* nearer to its return, and no step of another process takes it back.
StepsBounded ==
  [][\A p \in Procs :
       /\ StepsLeft(p) \in 0 .. 26 * (N + 1)
       /\ Step(p) => StepsLeft(p)' < StepsLeft(p)
       /\ pc[p] # "idle" => StepsLeft(p)' <= StepsLeft(p)]_vars

\* With a fair scheduler it returns.
WaitFree ==
  \A p \in Procs \ CanCrash : pc[p] # "idle" ~> pc[p] = "idle"

=============================================================================
