------------------------------- MODULE Client -------------------------------
(***************************************************************************)
(* MemLaneClient (src/client.rs) over the map it calls.  Each call of the  *)
(* client makes one or more calls of the map, and other processes call the *)
(* map in between.  A call of the map is one step here, as KVStore         *)
(* promises; what HashMap adds when several processes write comes on top.  *)
(***************************************************************************)
EXTENDS Integers, FiniteSets, Sequences

CONSTANTS
  Procs,             \* processes, each with a client
  Keys, LongKeys,    \* keys of at most and of more than MAX_KEY_LEN bytes
  Texts, LongTexts,  \* values that are no numbers, and values too long
  SetVals,           \* the values that SET and MSET are called with
  Missing,           \* stands for no value
  Capacity,          \* SLOT_COUNT
  W,                 \* 2^64: counters are u64
  Ops,               \* Ops[p]: the operations process p calls
  MaxBatch,          \* bound on the keys of one MGET or MSET
  MaxCount           \* bound on the counters: no INCR is called beyond it

Numbers == 0 .. W - 1
OpNames == {"get", "exists", "set", "del", "flush", "mget", "mset", "incr", "decr"}

ASSUME ClientAssumption ==
  /\ Capacity \in Nat \ {0} /\ W \in Nat \ {0, 1}
  /\ MaxBatch \in Nat /\ MaxCount \in Nat
  /\ Ops \in [Procs -> SUBSET OpNames]
  /\ Keys \cap LongKeys = {}
  /\ Texts \cap LongTexts = {}
  /\ Numbers \cap (Texts \cup LongTexts \cup {Missing}) = {}
  /\ Missing \notin Texts \cup LongTexts
  /\ SetVals \subseteq Texts \cup LongTexts \cup Numbers

VARIABLES
  store,     \* store[k]: the value of k in the map
  expiring,  \* the keys whose entry has an expiry
  req,       \* req[p]: p's running call
  step,      \* step[p]: the number of the map call that is next
  current,   \* the number INCR or DECR has read
  got,       \* the values MGET has read
  answer,    \* the answer of the call that has just returned
  most,      \* history: most[k]: the number last stored in k, and the INCRs since
  before     \* history: the map at p's call, or <<>> once another changed it

vars == <<store, expiring, req, step, current, got, answer, most, before>>

NoReq == [op |-> "none", keys |-> <<>>, vals |-> <<>>, ttl |-> FALSE]
Ok(x) == [ok |-> TRUE, val |-> x]
Err(x) == [ok |-> FALSE, val |-> x]
NoAnswer == Ok("none")

\* from_utf8 and parse, with 0 for all that is no number or not there.
Number(v) == IF v \in Numbers THEN v ELSE 0

\* The key and the value of the running step; INCR and DECR have one key.
Key(p) == req[p].keys[IF step[p] <= Len(req[p].keys) THEN step[p] ELSE 1]
Val(p) == req[p].vals[step[p]]
Held == {k \in Keys : store[k] # Missing}

-----------------------------------------------------------------------------
(* Pieces of an action.                                                    *)

Return(p, ans) ==
  /\ answer' = ans
  /\ req' = [req EXCEPT ![p] = NoReq]
  /\ step' = [step EXCEPT ![p] = 0]
  /\ current' = [current EXCEPT ![p] = 0]
  /\ got' = [got EXCEPT ![p] = <<>>]

NextStep(p) ==
  /\ step' = [step EXCEPT ![p] = @ + 1]
  /\ answer' = NoAnswer
  /\ UNCHANGED req

Unwritten == UNCHANGED <<store, expiring, most>>

\* An INCR or DECR of k has read, and has yet to write.
Between(k) ==
  \E p \in Procs : req[p].op \in {"incr", "decr"} /\ step[p] = 2 /\ req[p].keys[1] = k

\* Counter k goes on from n; if another call is to write what it has read before,
\* the higher number stays possible.
GoesOn(k, n) == most' = [most EXCEPT ![k] = IF Between(k) /\ n < @ THEN @ ELSE n]

\* The map's set of key k, which is refused if k finds no slot.
Fits(k) == k \in Held \/ Cardinality(Held) < Capacity
Put(k, v, ttl) ==
  /\ Fits(k)
  /\ store' = [store EXCEPT ![k] = v]
  /\ expiring' = IF ttl THEN expiring \cup {k} ELSE expiring \ {k}

\* What each process remembers of the map when it calls, until another changes it.
Remember ==
  before' = [p \in Procs |->
    CASE req'[p] = NoReq -> <<>>
      [] req[p] = NoReq /\ req'[p] # NoReq -> store
      [] req[p] # NoReq /\ req'[p] # NoReq ->
           IF store' # store /\ step'[p] = step[p] THEN <<>> ELSE before[p]]

-----------------------------------------------------------------------------
Begin(p, op, keys, vals, ttl) ==
  /\ req[p] = NoReq
  /\ op \in Ops[p]
  /\ req' = [req EXCEPT ![p] = [op |-> op, keys |-> keys, vals |-> vals, ttl |-> ttl]]
  /\ step' = [step EXCEPT ![p] = 1]
  /\ answer' = NoAnswer
  /\ UNCHANGED <<store, expiring, current, got, most>>

Batches(S) == UNION {[1 .. n -> S] : n \in 1 .. MaxBatch}

Call(p) ==
  \/ \E op \in {"get", "exists", "del", "decr"}, k \in Keys \cup LongKeys :
       Begin(p, op, <<k>>, <<>>, FALSE)
  \/ \E k \in Keys \cup LongKeys :
       /\ k \in Keys => most[k] < MaxCount
       /\ Begin(p, "incr", <<k>>, <<>>, FALSE)
  \/ \E k \in Keys \cup LongKeys, v \in SetVals, ttl \in BOOLEAN :
       Begin(p, "set", <<k>>, <<v>>, ttl)
  \/ \E ks \in Batches(Keys \cup LongKeys) : Begin(p, "mget", ks, <<>>, FALSE)
  \/ \E ks \in Batches(Keys \cup LongKeys) :
       \E vs \in [DOMAIN ks -> SetVals], ttl \in BOOLEAN : Begin(p, "mset", ks, vs, ttl)
  \/ Begin(p, "flush", <<>>, <<>>, FALSE)

\* The check each operation makes before it calls the map.
KeyTooLong(p) ==
  /\ req[p].op \notin {"none", "flush"} /\ Key(p) \in LongKeys
  /\ Return(p, Err("KeyTooLong"))
  /\ Unwritten

ValueTooLong(p) ==
  /\ req[p].op \in {"set", "mset"} /\ Key(p) \in Keys /\ Val(p) \in LongTexts
  /\ Return(p, Err("ValueTooLong"))
  /\ Unwritten

Get(p) ==
  /\ req[p].op \in {"get", "exists"} /\ Key(p) \in Keys
  /\ \/ req[p].op = "get" /\ Return(p, Ok(store[Key(p)]))
     \/ req[p].op = "exists" /\ Return(p, Ok(Key(p) \in Held))
  /\ Unwritten

\* Fault: MGET reads one key too many.
MgetEndsLate(p) == step[p] > Len(req[p].keys)

MgetEnds(p) == step[p] = Len(req[p].keys)

Mget(p) ==
  /\ req[p].op = "mget" /\ Key(p) \in Keys
  /\ \/ MgetEnds(p) /\ Return(p, Ok(Append(got[p], store[Key(p)])))
     \/ /\ ~MgetEnds(p)
        /\ NextStep(p)
        /\ got' = [got EXCEPT ![p] = Append(@, store[Key(p)])]
        /\ UNCHANGED current
  /\ Unwritten

Del(p) ==
  /\ req[p].op = "del" /\ Key(p) \in Keys
  /\ store' = [store EXCEPT ![Key(p)] = Missing]
  /\ expiring' = expiring \ {Key(p)}
  /\ GoesOn(Key(p), 0)
  /\ Return(p, Ok(Key(p) \in Held))

Set(p) ==
  /\ req[p].op = "set" /\ Key(p) \in Keys /\ Val(p) \notin LongTexts
  /\ Put(Key(p), Val(p), req[p].ttl)
  /\ GoesOn(Key(p), Number(Val(p)))
  /\ Return(p, Ok(Key(p) \notin Held))

\* Each pair is a SET; the count is of all of them, new keys or not.
Mset(p) ==
  /\ req[p].op = "mset" /\ Key(p) \in Keys /\ Val(p) \notin LongTexts
  /\ Put(Key(p), Val(p), req[p].ttl)
  /\ GoesOn(Key(p), Number(Val(p)))
  /\ \/ step[p] = Len(req[p].keys) /\ Return(p, Ok(step[p]))
     \/ step[p] < Len(req[p].keys) /\ NextStep(p) /\ UNCHANGED <<current, got>>

\* Fault: MSET passes over a pair that does not fit.
FullPassedOver(p) ==
  /\ req[p].op \in {"set", "mset"} /\ Key(p) \in Keys /\ Val(p) \notin LongTexts
  /\ ~Fits(Key(p))
  /\ \/ step[p] = Len(req[p].keys) /\ Return(p, Ok(step[p]))
     \/ step[p] < Len(req[p].keys) /\ NextStep(p) /\ UNCHANGED <<current, got>>
  /\ Unwritten

\* The map has no slot for the key: MSET stops, and keeps what it has set.
Full(p) ==
  /\ req[p].op \in {"set", "mset"} /\ Key(p) \in Keys /\ Val(p) \notin LongTexts
  /\ ~Fits(Key(p))
  /\ Return(p, Err("ArenaFull"))
  /\ Unwritten

\* INCR and DECR: a GET ...
ReadNumber(p) ==
  /\ req[p].op \in {"incr", "decr"} /\ step[p] = 1 /\ Key(p) \in Keys
  /\ current' = [current EXCEPT ![p] = Number(store[Key(p)])]
  /\ NextStep(p)
  /\ UNCHANGED got
  /\ Unwritten

\* current + 1, which wraps in a build without overflow checks, and
\* current.saturating_sub(1).
PlusOne(n) == IF n = W - 1 THEN 0 ELSE n + 1

\* Fault: DECR subtracts without saturating.
NextNumberWraps(p) ==
  IF req[p].op = "incr" THEN PlusOne(current[p])
  ELSE IF current[p] = 0 THEN W - 1 ELSE current[p] - 1

NextNumber(p) ==
  IF req[p].op = "incr" THEN PlusOne(current[p])
  ELSE IF current[p] = 0 THEN 0 ELSE current[p] - 1

\* ... and a SET without expiry.
WriteNumber(p) ==
  /\ req[p].op \in {"incr", "decr"} /\ step[p] = 2
  /\ LET k == req[p].keys[1] IN
     \/ /\ Put(k, NextNumber(p), FALSE)
        /\ most' = [most EXCEPT ![k] = IF req[p].op = "incr" THEN @ + 1 ELSE @]
        /\ Return(p, Ok(NextNumber(p)))
     \/ /\ ~Fits(k)
        /\ Return(p, Err("ArenaFull"))
        /\ Unwritten

\* FLUSH, when no other call runs.
Flush(p) ==
  /\ req[p].op = "flush"
  /\ \A q \in Procs : q # p => req[q] = NoReq
  /\ store' = [k \in Keys |-> Missing]
  /\ expiring' = {}
  /\ most' = [k \in Keys |-> 0]
  /\ Return(p, Ok("OK"))

\* An entry expires, and the next lookup evicts it.
Expire ==
  /\ \E k \in expiring :
       /\ store' = [store EXCEPT ![k] = Missing]
       /\ expiring' = expiring \ {k}
       /\ GoesOn(k, 0)
  /\ answer' = NoAnswer
  /\ UNCHANGED <<req, step, current, got>>

-----------------------------------------------------------------------------
Init ==
  /\ store = [k \in Keys |-> Missing]
  /\ expiring = {}
  /\ req = [p \in Procs |-> NoReq]
  /\ step = [p \in Procs |-> 0]
  /\ current = [p \in Procs |-> 0]
  /\ got = [p \in Procs |-> <<>>]
  /\ answer = NoAnswer
  /\ most = [k \in Keys |-> 0]
  /\ before = [p \in Procs |-> <<>>]

Next ==
  \/ \E p \in Procs :
       \/ Call(p) /\ Remember
       \/ KeyTooLong(p) /\ Remember
       \/ ValueTooLong(p) /\ Remember
       \/ Full(p) /\ Remember
       \/ Get(p) /\ Remember
       \/ Mget(p) /\ Remember
       \/ Del(p) /\ Remember
       \/ Set(p) /\ Remember
       \/ Mset(p) /\ Remember
       \/ ReadNumber(p) /\ Remember
       \/ WriteNumber(p) /\ Remember
       \/ Flush(p) /\ Remember
  \/ Expire /\ Remember

Spec == Init /\ [][Next]_vars

-----------------------------------------------------------------------------
(* Properties.                                                             *)

TypeOK ==
  /\ store \in [Keys -> Numbers \cup Texts \cup {Missing}]
  /\ expiring \subseteq Held
  /\ current \in [Procs -> Numbers]
  /\ most \in [Keys -> Nat]
  /\ \A p \in Procs :
       /\ req[p].op \in OpNames \cup {"none"}
       /\ req[p].op \notin {"none", "flush", "incr", "decr"} =>
            step[p] \in 1 .. Len(req[p].keys)

\* A counter is never higher than the number last stored in it (0 once it is
\* deleted, flushed or expired) and the INCRs that have written it since, however
\* INCRs and DECRs of it overlap: a lost update only makes it lower.  A number that
\* an INCR or DECR reads before such a store, and writes after it, comes back.
NeverOvercounts == \A k \in Keys : Number(store[k]) <= most[k]

\* The map old with the first n pairs of an MSET in it: of two pairs with one key
\* the later one counts.
Overlay(old, keys, vals, n) ==
  [k \in Keys |-> IF \E i \in 1 .. n : keys[i] = k
                  THEN vals[CHOOSE i \in 1 .. n : keys[i] = k /\
                              \A j \in i + 1 .. n : keys[j] # k]
                  ELSE old[k]]

\* The pair at which an MSET that starts with map old must fail, or one more than
\* there are.
FailsAt(old, keys, vals) ==
  LET bad(i) == \/ keys[i] \in LongKeys \/ vals[i] \in LongTexts
                \/ Cardinality({k \in Keys : old[k] # Missing}
                     \cup {keys[j] : j \in 1 .. i}) > Capacity
                   /\ old[keys[i]] = Missing /\ \A j \in 1 .. i - 1 : keys[j] # keys[i]
      n == Len(keys)
  IN CHOOSE i \in 1 .. n + 1 : (i = n + 1 \/ bad(i)) /\ \A j \in 1 .. i - 1 : ~bad(j)

\* What an INCR or DECR makes of n: u64 wraps upwards, and saturates at 0.
Counted(op, n) == IF op = "incr" THEN (n + 1) % W ELSE n - (IF n = 0 THEN 0 ELSE 1)

\* A call of several steps beside which no other changes the map does what it
\* says: MSET stores the pairs up to the first that fails and no other, and answers
\* their number or the error; MGET answers each key's value in order, or the error
\* of a key that is too long; INCR and DECR store and answer the next number, or
\* change nothing and answer the error of a key that is too long or a full map.
CallEffect ==
  [][\A p \in Procs :
       LET r == req[p] old == before[p] IN
       old # <<>> /\ r # NoReq /\ req'[p] = NoReq =>
         /\ r.op = "mset" =>
              LET n == FailsAt(old, r.keys, r.vals) - 1 IN
              /\ store' = Overlay(old, r.keys, r.vals, n)
              /\ answer'.ok <=> n = Len(r.keys)
              /\ answer'.ok => answer'.val = n
         /\ r.op = "mget" =>
              /\ answer'.ok <=> \A i \in DOMAIN r.keys : r.keys[i] \in Keys
              /\ answer'.ok => answer'.val = [i \in DOMAIN r.keys |-> old[r.keys[i]]]
         /\ r.op \in {"incr", "decr"} =>
              LET n == FailsAt(old, r.keys, <<0>>)
                  next == Counted(r.op, Number(old[r.keys[1]])) IN
              /\ answer'.ok <=> n = 2
              /\ answer'.ok => /\ answer'.val = next
                               /\ store' = [old EXCEPT ![r.keys[1]] = next]
              /\ ~answer'.ok => store' = old]_vars

=============================================================================
