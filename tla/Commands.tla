------------------------------ MODULE Commands ------------------------------
(***************************************************************************)
(* dispatch_command (src/server/mod.rs): the answer to each command and    *)
(* what it does to the keys, one call of the map at a time.                *)
(***************************************************************************)
EXTENDS Resp, FiniteSets, Functions

CONSTANTS
  MaxKeyLen, MaxValLen,  \* MAX_KEY_LEN, MAX_VAL_LEN, in pieces of the wire
  Capacity,              \* SLOT_COUNT
  W                      \* 2^64, and twice the smallest negative i64

\* The store maps keys to their value and time to live in seconds, 0 for ever.
Empty == [k \in {} |-> <<>>]

\* What a call of the map leaves behind: the answer of the command, or that more
\* calls follow, what the calls so far have returned, and the store.
Unfinished == [type |-> "unfinished"]
Called(reply, results, store) == [reply |-> reply, results |-> results, store |-> store]
Answer(reply, store) == Called(reply, <<>>, store)
GoesOn(results, store) == Called(Unfinished, results, store)

\* A loop of so many calls, and the answer after the last.
Loop(results, calls, reply, store) ==
  IF Len(results) = calls THEN Answer(reply, store) ELSE GoesOn(results, store)

Get(store, k) == IF k \in DOMAIN store THEN BulkString(store[k].val) ELSE Nil
Without(store, ks) == Restrict(store, DOMAIN store \ ks)

\* u64::parse, with 0 for what is no number.
Number(data) ==
  IF IsNumber(data) /\ data[1].n \in 0 .. W - 1 THEN data[1].n ELSE 0

\* MemLaneClient::set.
Set(store, k, v, ttl) ==
  IF Len(k) > MaxKeyLen THEN Answer(err("KeyTooLong"), store)
  ELSE IF Len(v) > MaxValLen THEN Answer(err("ValueTooLong"), store)
  ELSE IF k \notin DOMAIN store /\ Cardinality(DOMAIN store) = Capacity
    THEN Answer(err("ArenaFull"), store)
  ELSE Answer(ok, [x \in DOMAIN store \cup {k} |->
                     IF x = k THEN [val |-> v, ttl |-> ttl] ELSE store[x]])

\* Fault: milliseconds are rounded down.
SecondsDown(px) == px \div 1000

Seconds(px) == ((px + 999) % W) \div 1000

\* The options of SET from the i-th argument on; the last of them counts.
RECURSIVE Ttl(_, _, _)
Ttl(args, i, ttl) ==
  IF i > Len(args) THEN ttl
  ELSE LET valued == i < Len(args) IN
       CASE args[i] = <<Data("EX")>> /\ valued -> Ttl(args, i + 2, Number(args[i + 1]))
         [] args[i] = <<Data("PX")>> /\ valued ->
              Ttl(args, i + 2, Seconds(Number(args[i + 1])))
         [] OTHER -> Ttl(args, i + 1, ttl)

\* Fault: a call counts whatever it has returned.
HitsAll(results) == Len(results)

\* How many keys DEL has deleted or EXISTS has found.
Hits(results) == Cardinality({i \in DOMAIN results : results[i]})

\* One key of DEL and of EXISTS.  A key that is too long is passed over.
Del(args, results, store) ==
  LET k == args[Len(results) + 1]
      all == Append(results, k \in DOMAIN store)
  IN Loop(all, Len(args), Integer(Hits(all)), Without(store, {k}))

Exists(args, results, store) ==
  LET all == Append(results, args[Len(results) + 1] \in DOMAIN store) IN
  Loop(all, Len(args), Integer(Hits(all)), store)

\* One key of MemLaneClient::mget, which ends at one that is too long.
Mget(args, results, store) ==
  LET k == args[Len(results) + 1]
      all == Append(results, Get(store, k))
  IN IF Len(k) > MaxKeyLen THEN Answer(err("KeyTooLong"), store)
     ELSE Loop(all, Len(args), Array(all), store)

\* One pair of MemLaneClient::mset, which ends at one that fails.
Mset(args, results, store) ==
  LET i == 2 * Len(results) + 1
      set == Set(store, args[i], args[i + 1], 0)
      all == Append(results, set.reply)
  IN IF set.reply # ok THEN set ELSE Loop(all, Len(args) \div 2, ok, set.store)

Current(store, k) == IF k \in DOMAIN store THEN Number(store[k].val) ELSE 0
NextNumber(name, n) ==
  IF name = "INCR" THEN (n + 1) % W ELSE n - (IF n = 0 THEN 0 ELSE 1)

\* MemLaneClient::incr and decr get the number and then set the next one, which
\* is answered as an i64.
Count(name, k, results, store) ==
  IF results = <<>>
    THEN IF Len(k) > MaxKeyLen THEN Answer(err("KeyTooLong"), store)
         ELSE GoesOn(<<Current(store, k)>>, store)
  ELSE LET n == NextNumber(name, results[1])
           set == Set(store, k, <<Digits(n)>>, 0)
       IN IF set.reply # ok THEN set
          ELSE Answer(Integer(IF n < W \div 2 THEN n ELSE n - W), set.store)

WrongArgs(name, args) ==
  CASE name \in {"GET", "INCR", "DECR", "TTL"} -> Len(args) # 1
    [] name = "SET" -> Len(args) < 2
    [] name \in {"DEL", "EXISTS", "MGET"} -> args = <<>>
    [] name = "MSET" -> args = <<>> \/ Len(args) % 2 # 0
    [] OTHER -> FALSE

Unknown(name) == Error(<<Txt("-", "unknown command")>> \o name)

Execute(val, results, store) ==
  LET name == Verb(val)
      args == Args(val)
  IN
  CASE WrongArgs(name, args) -> Answer(err("wrong number of arguments"), store)
    [] name = "PING" -> Answer(IF args = <<>> THEN pong ELSE BulkString(args[1]), store)
    [] name = "GET" ->
         Answer(IF Len(args[1]) > MaxKeyLen THEN err("KeyTooLong") ELSE Get(store, args[1]),
                store)
    [] name = "SET" -> Set(store, args[1], args[2], Ttl(args, 3, 0))
    [] name = "DEL" -> Del(args, results, store)
    [] name = "EXISTS" -> Exists(args, results, store)
    [] name = "MGET" -> Mget(args, results, store)
    [] name = "MSET" -> Mset(args, results, store)
    [] name \in {"INCR", "DECR"} -> Count(name, args[1], results, store)
    [] name = "TTL" -> Answer(Integer(-1), store)
    [] name \in {"FLUSH", "FLUSHALL", "FLUSHDB"} -> Answer(ok, Empty)
    [] name = "INFO" -> Answer(BulkString(<<Data("INFO"), Eol>>), store)
    [] name = "COMMAND" -> Answer(Array(<<>>), store)
    [] OTHER -> Answer(Unknown(Name(val)), store)

Dispatch(val, results, store) ==
  IF IsCommand(val) THEN Execute(val, results, store)
  ELSE Answer(err("no command"), store)

=============================================================================
