---------------------------- MODULE ClientProofs ----------------------------
(***************************************************************************)
(* Proofs about Client for any number of processes, keys and values: the   *)
(* type invariant, that no counter is ever too high, and what a call does  *)
(* beside which nobody else changes the map.                               *)
(***************************************************************************)
EXTENDS Client, SequenceTheorems, FiniteSetTheorems, TLAPS

AllKeys == Keys \cup LongKeys

\* The running calls: their keys and values, and the next map call.
ReqsOK ==
  /\ req \in [Procs -> [op : OpNames \cup {"none"}, keys : Seq(AllKeys),
                        vals : Seq(SetVals), ttl : BOOLEAN]]
  /\ step \in [Procs -> Nat]
  /\ \A p \in Procs :
       /\ req[p].op \in {"incr", "decr"} => Len(req[p].keys) = 1 /\ step[p] \in 1 .. 2
       /\ req[p].op \in {"set", "mset"} => Len(req[p].vals) = Len(req[p].keys)

\* The number that an INCR or DECR has read, and is about to write, is one that
\* the counter may have.
ReadsCounted ==
  \A p \in Procs : req[p].op \in {"incr", "decr"} /\ step[p] = 2 =>
    /\ req[p].keys[1] \in Keys
    /\ current[p] <= most[req[p].keys[1]]

IInv == TypeOK /\ ReqsOK /\ NeverOvercounts /\ ReadsCounted

-----------------------------------------------------------------------------

\* What is in the map is not Missing, and only numbers count as numbers.
LEMMA Values ==
  /\ \A v \in SetVals : v # Missing /\ Number(v) \in Numbers
  /\ \A n \in Numbers : n # Missing /\ Number(n) = n
  /\ Number(Missing) = 0
  /\ \A v \in Numbers \cup Texts \cup {Missing} : Number(v) \in Numbers
  BY ClientAssumption DEF Number, Numbers

\* The key and the value of a running step.
LEMMA Arguments ==
  ASSUME IInv, NEW p \in Procs, req[p].op \notin {"none", "flush"}
  PROVE  /\ Key(p) \in AllKeys
         /\ req[p].op \in {"set", "mset"} => Val(p) \in SetVals
         /\ req[p].op \in {"incr", "decr"} => Key(p) = req[p].keys[1]
<1>1. /\ req[p].keys \in Seq(AllKeys) /\ req[p].vals \in Seq(SetVals)
      /\ step[p] \in Nat
  BY DEF IInv, ReqsOK
<1>2. CASE req[p].op \in {"incr", "decr"}
  <2>1. Len(req[p].keys) = 1 /\ step[p] \in 1 .. 2
    BY <1>2 DEF IInv, ReqsOK
  <2>2. Key(p) = req[p].keys[1]
    BY <2>1 DEF Key
  <2> QED  BY <1>1, <1>2, <2>1, <2>2, ElementOfSeq
<1>3. CASE req[p].op \notin {"incr", "decr"}
  <2>1. step[p] \in 1 .. Len(req[p].keys)
    BY <1>3 DEF IInv, TypeOK
  <2>2. Key(p) = req[p].keys[step[p]]
    BY <1>1, <2>1 DEF Key
  <2>3. Key(p) \in AllKeys
    BY <1>1, <2>1, <2>2, ElementOfSeq
  <2>4. req[p].op \in {"set", "mset"} => Val(p) \in SetVals
    BY <1>1, <2>1, ElementOfSeq DEF Val, IInv, ReqsOK
  <2> QED  BY <1>3, <2>3, <2>4
<1> QED  BY <1>2, <1>3

\* The map and the bounds of the counters stay well-formed, and no bound is lowered
\* while a call has a number to write.
MapKept ==
  /\ store' \in [Keys -> Numbers \cup Texts \cup {Missing}]
  /\ expiring' \subseteq Held'
  /\ most' \in [Keys -> Nat]
  /\ NeverOvercounts'
  /\ \A k \in Keys : Between(k) => most[k] <= most'[k]

\* Only the call of process p changes.
OnlyCallOf(p) ==
  \A q \in Procs \ {p} :
    /\ req'[q] = req[q] /\ step'[q] = step[q] /\ current'[q] = current[q]

\* What others have read stays covered.
LEMMA OthersCounted ==
  ASSUME IInv, MapKept, NEW p \in Procs, OnlyCallOf(p),
         NEW q \in Procs \ {p}, req'[q].op \in {"incr", "decr"}, step'[q] = 2
  PROVE  /\ req'[q].keys[1] \in Keys
         /\ current'[q] <= most'[req'[q].keys[1]]
<1>1. req[q].keys[1] \in Keys /\ current[q] <= most[req[q].keys[1]] /\ Between(req[q].keys[1])
  BY DEF IInv, ReadsCounted, OnlyCallOf, Between
<1>2. most[req[q].keys[1]] <= most'[req[q].keys[1]]
  BY <1>1 DEF MapKept
<1>3. /\ current[q] \in Nat /\ most[req[q].keys[1]] \in Nat
      /\ most'[req[q].keys[1]] \in Nat
  BY <1>1 DEF IInv, TypeOK, MapKept, Numbers
<1> QED  BY <1>1, <1>2, <1>3 DEF OnlyCallOf

\* The end of a call keeps the invariant, if its effect on the map does.
LEMMA ReturnKeeps ==
  ASSUME IInv, MapKept, NEW p \in Procs, NEW ans, Return(p, ans)
  PROVE  IInv'
<1>1. OnlyCallOf(p)
  BY DEF Return, OnlyCallOf, IInv, TypeOK, ReqsOK
<1>2. /\ req'[p] = NoReq /\ step'[p] = 0 /\ current'[p] = 0
  BY DEF Return, IInv, TypeOK, ReqsOK
<1>3. NoReq \in [op : OpNames \cup {"none"}, keys : Seq(AllKeys),
                 vals : Seq(SetVals), ttl : BOOLEAN]
  BY EmptySeq DEF NoReq
<1>4. ReqsOK'
  <2>1. req' \in [Procs -> [op : OpNames \cup {"none"}, keys : Seq(AllKeys),
                            vals : Seq(SetVals), ttl : BOOLEAN]]
    BY <1>3 DEF Return, IInv, ReqsOK
  <2>2. step' \in [Procs -> Nat]
    BY DEF Return, IInv, ReqsOK
  <2>3. NoReq.op = "none"
    BY DEF NoReq
  <2>4. ASSUME NEW q \in Procs
        PROVE  /\ req'[q].op \in {"incr", "decr"} =>
                    Len(req'[q].keys) = 1 /\ step'[q] \in 1 .. 2
               /\ req'[q].op \in {"set", "mset"} =>
                    Len(req'[q].vals) = Len(req'[q].keys)
    <3>1. CASE q = p
      BY <3>1, <1>2, <2>3
    <3>2. CASE q # p
      BY <3>2, <1>1 DEF OnlyCallOf, IInv, ReqsOK
    <3> QED  BY <3>1, <3>2
  <2> QED  BY <2>1, <2>2, <2>4 DEF ReqsOK
<1>5. TypeOK'
  <2>1. current' \in [Procs -> Numbers]
    BY ClientAssumption DEF Return, IInv, TypeOK, Numbers
  <2>2. ASSUME NEW q \in Procs
        PROVE  /\ req'[q].op \in OpNames \cup {"none"}
               /\ req'[q].op \notin {"none", "flush", "incr", "decr"} =>
                    step'[q] \in 1 .. Len(req'[q].keys)
    <3>1. CASE q = p
      BY <3>1, <1>2 DEF NoReq
    <3>2. CASE q # p
      BY <3>2, <1>1 DEF OnlyCallOf, IInv, TypeOK
    <3> QED  BY <3>1, <3>2
  <2> QED  BY <2>1, <2>2 DEF MapKept, TypeOK
<1>6. ReadsCounted'
  BY <1>1, <1>2, OthersCounted DEF ReadsCounted, NoReq
<1> QED  BY <1>4, <1>5, <1>6 DEF IInv, MapKept

\* So does a step to the next key of a batch.
LEMMA NextKeyKeeps ==
  ASSUME IInv, MapKept, NEW p \in Procs, req[p].op \in {"mget", "mset"},
         step[p] # Len(req[p].keys), NextStep(p), UNCHANGED current
  PROVE  IInv'
<1>1. OnlyCallOf(p) /\ req' = req /\ step'[p] = step[p] + 1
  BY DEF NextStep, OnlyCallOf, IInv, TypeOK, ReqsOK
<1>2. step[p] \in 1 .. Len(req[p].keys) /\ Len(req[p].keys) \in Nat
  BY LenProperties DEF IInv, TypeOK, ReqsOK
<1>3. step' \in [Procs -> Nat]
  BY DEF NextStep, IInv, ReqsOK
<1>4. ReqsOK'
  BY <1>1, <1>3 DEF OnlyCallOf, IInv, ReqsOK
<1>5. TypeOK'
  <2>1. ASSUME NEW q \in Procs
        PROVE  /\ req'[q].op \in OpNames \cup {"none"}
               /\ req'[q].op \notin {"none", "flush", "incr", "decr"} =>
                    step'[q] \in 1 .. Len(req'[q].keys)
    <3>1. CASE q = p
      BY <3>1, <1>1, <1>2 DEF IInv, TypeOK
    <3>2. CASE q # p
      BY <3>2, <1>1 DEF OnlyCallOf, IInv, TypeOK
    <3> QED  BY <3>1, <3>2
  <2> QED  BY <2>1 DEF MapKept, IInv, TypeOK
<1>6. ReadsCounted'
  BY <1>1, OthersCounted DEF ReadsCounted
<1> QED  BY <1>4, <1>5, <1>6 DEF IInv, MapKept

\* A step that leaves the map alone.
LEMMA UnwrittenKeepsMap == ASSUME IInv, Unwritten PROVE MapKept
<1>1. \A k \in Keys : most[k] \in Nat
  BY DEF IInv, TypeOK
<1>2. NeverOvercounts' /\ Held' = Held
  BY DEF IInv, NeverOvercounts, Unwritten, Number, Held
<1> QED  BY <1>1, <1>2 DEF IInv, TypeOK, Unwritten, MapKept

\* A SET of a number that the counter may have after it.
LEMMA PutKeepsMap ==
  ASSUME IInv, NEW k \in Keys, NEW v \in Numbers \cup Texts, NEW ttl, Put(k, v, ttl),
         most' \in [Keys -> Nat], \A j \in Keys \ {k} : most'[j] = most[j],
         Between(k) => most[k] <= most'[k], Number(v) <= most'[k]
  PROVE  MapKept
<1>1. store' \in [Keys -> Numbers \cup Texts \cup {Missing}]
  BY DEF IInv, TypeOK, Put
<1>2. expiring' \subseteq Held'
  <2>1. v # Missing
    BY ClientAssumption
  <2>2. \A j \in Keys : store'[j] = IF j = k THEN v ELSE store[j]
    BY DEF IInv, TypeOK, Put
  <2>3. expiring' \subseteq expiring \cup {k}
    BY DEF Put
  <2> QED  BY <2>1, <2>2, <2>3 DEF IInv, TypeOK, Held
<1>3. ASSUME NEW j \in Keys PROVE Number(store'[j]) <= most'[j]
  <2>1. CASE j = k
    BY <2>1 DEF IInv, TypeOK, Put
  <2>2. CASE j # k
    BY <2>2 DEF IInv, TypeOK, Put, NeverOvercounts
  <2> QED  BY <2>1, <2>2
<1>4. NeverOvercounts'
  BY <1>3 DEF NeverOvercounts, Number
<1>5. ASSUME NEW j \in Keys, Between(j) PROVE most[j] <= most'[j]
  <2>1. most[j] \in Nat
    BY DEF IInv, TypeOK
  <2>2. CASE j = k
    BY <1>5, <2>2
  <2>3. CASE j # k
    BY <2>1, <2>3
  <2> QED  BY <2>2, <2>3
<1> QED  BY <1>1, <1>2, <1>4, <1>5 DEF MapKept

\* The bound of the key that is set.
LEMMA GoesOnKeeps ==
  ASSUME IInv, NEW k \in Keys, NEW n \in Nat, GoesOn(k, n)
  PROVE  /\ most' \in [Keys -> Nat] /\ \A j \in Keys \ {k} : most'[j] = most[j]
         /\ (Between(k) => most[k] <= most'[k]) /\ n <= most'[k]
<1>1. most \in [Keys -> Nat]
  BY DEF IInv, TypeOK
<1> HIDE DEF Between
<1>2. CASE Between(k) /\ n < most[k]
  <2>1. most' = [most EXCEPT ![k] = most[k]]
    BY <1>2 DEF GoesOn
  <2> QED  BY <1>1, <1>2, <2>1
<1>3. CASE ~(Between(k) /\ n < most[k])
  <2>1. most' = [most EXCEPT ![k] = n]
    BY <1>3 DEF GoesOn
  <2> QED  BY <1>1, <1>3, <2>1
<1> QED  BY <1>2, <1>3

\* A step that only removes entries.
LEMMA RemovalKeepsMap ==
  ASSUME IInv, most' \in [Keys -> Nat], \A k \in Keys : Between(k) => most[k] <= most'[k],
         store' \in [Keys -> Numbers \cup Texts \cup {Missing}],
         \A k \in Keys : store'[k] = Missing \/ (store'[k] = store[k] /\ most'[k] = most[k]),
         expiring' \subseteq Held'
  PROVE  MapKept
<1>1. ASSUME NEW k \in Keys PROVE Number(store'[k]) <= most'[k]
  <2>1. Number(store[k]) <= most[k] /\ most'[k] \in Nat
    BY DEF IInv, TypeOK, NeverOvercounts
  <2> QED  BY <2>1, Values
<1>2. NeverOvercounts'
  BY <1>1 DEF NeverOvercounts, Number
<1> QED  BY <1>2 DEF MapKept, IInv, TypeOK

-----------------------------------------------------------------------------
(* One lemma for each action.                                              *)

\* The arguments that a call can have.
GoodCall(op, keys, vals, ttl) ==
  /\ op \in OpNames /\ keys \in Seq(AllKeys) /\ vals \in Seq(SetVals) /\ ttl \in BOOLEAN
  /\ op # "flush" => 1 \in 1 .. Len(keys)
  /\ op \in {"incr", "decr"} => Len(keys) = 1
  /\ op \in {"set", "mset"} => Len(vals) = Len(keys)

\* A call that begins with such arguments.
LEMMA BeginKeeps ==
  ASSUME IInv, NEW p \in Procs, NEW op, NEW keys, NEW vals, NEW ttl,
         GoodCall(op, keys, vals, ttl), Begin(p, op, keys, vals, ttl)
  PROVE  IInv'
<1>1. Unwritten /\ UNCHANGED current
  BY DEF Begin, Unwritten
<1>2. MapKept
  BY <1>1, UnwrittenKeepsMap
<1>3. OnlyCallOf(p)
  BY DEF Begin, OnlyCallOf, IInv, TypeOK, ReqsOK
<1>4. req'[p] = [op |-> op, keys |-> keys, vals |-> vals, ttl |-> ttl] /\ step'[p] = 1
  BY DEF Begin, IInv, ReqsOK
<1>5. ReqsOK'
  <2>1. /\ req' \in [Procs -> [op : OpNames \cup {"none"}, keys : Seq(AllKeys),
                              vals : Seq(SetVals), ttl : BOOLEAN]]
        /\ step' \in [Procs -> Nat]
    BY DEF Begin, IInv, ReqsOK, GoodCall
  <2>2. ASSUME NEW q \in Procs
        PROVE  /\ req'[q].op \in {"incr", "decr"} =>
                    Len(req'[q].keys) = 1 /\ step'[q] \in 1 .. 2
               /\ req'[q].op \in {"set", "mset"} =>
                    Len(req'[q].vals) = Len(req'[q].keys)
    <3>1. CASE q = p
      BY <3>1, <1>4 DEF GoodCall
    <3>2. CASE q # p
      BY <3>2, <1>3 DEF OnlyCallOf, IInv, ReqsOK
    <3> QED  BY <3>1, <3>2
  <2> QED  BY <2>1, <2>2 DEF ReqsOK
<1>6. TypeOK'
  <2>1. ASSUME NEW q \in Procs
        PROVE  /\ req'[q].op \in OpNames \cup {"none"}
               /\ req'[q].op \notin {"none", "flush", "incr", "decr"} =>
                    step'[q] \in 1 .. Len(req'[q].keys)
    <3>1. CASE q = p
      BY <3>1, <1>4 DEF GoodCall
    <3>2. CASE q # p
      BY <3>2, <1>3 DEF OnlyCallOf, IInv, TypeOK
    <3> QED  BY <3>1, <3>2
  <2> QED  BY <1>1, <1>2, <2>1 DEF MapKept, IInv, TypeOK
<1>7. ReadsCounted'
  BY <1>2, <1>3, <1>4, OthersCounted DEF ReadsCounted
<1> QED  BY <1>2, <1>5, <1>6, <1>7 DEF IInv, MapKept

\* A sequence of one element, and the batches, are sequences.
LEMMA Singles == ASSUME NEW S, NEW x \in S PROVE <<x>> \in Seq(S) /\ Len(<<x>>) = 1
  OBVIOUS

\* The keys and values of a batch.
LEMMA BatchSeq ==
  ASSUME NEW S, NEW ks \in Batches(S), NEW T, NEW vs \in [DOMAIN ks -> T]
  PROVE  /\ ks \in Seq(S) /\ 1 \in 1 .. Len(ks)
         /\ vs \in Seq(T) /\ Len(vs) = Len(ks)
<1>1. PICK n \in 1 .. MaxBatch : ks \in [1 .. n -> S]
  BY DEF Batches
<1>2. n \in Nat /\ n >= 1 /\ DOMAIN ks = 1 .. n
  BY <1>1, ClientAssumption
<1>3. ks \in Seq(S) /\ Len(ks) = n
  BY <1>1, <1>2, SeqDef, LenProperties
<1>4. vs \in Seq(T) /\ Len(vs) = n
  BY <1>2, SeqDef, LenProperties
<1> QED  BY <1>2, <1>3, <1>4

\* Whatever is called, the arguments are good.
LEMMA CallKeeps == ASSUME IInv, NEW p \in Procs, Call(p) PROVE IInv'
<1>1. ASSUME NEW op \in OpNames \ {"flush", "set", "mset"}, NEW k \in AllKeys,
             Begin(p, op, <<k>>, <<>>, FALSE)
      PROVE  IInv'
  <2>1. GoodCall(op, <<k>>, <<>>, FALSE)
    BY Singles, EmptySeq DEF GoodCall
  <2> QED  BY <1>1, <2>1, BeginKeeps
<1>2. ASSUME NEW k \in AllKeys, NEW v \in SetVals, NEW ttl \in BOOLEAN,
             Begin(p, "set", <<k>>, <<v>>, ttl)
      PROVE  IInv'
  <2>1. GoodCall("set", <<k>>, <<v>>, ttl)
    BY Singles DEF GoodCall, OpNames
  <2> QED  BY <1>2, <2>1, BeginKeeps
<1>3. ASSUME NEW ks \in Batches(AllKeys), Begin(p, "mget", ks, <<>>, FALSE)
      PROVE  IInv'
  <2>1. ks \in [DOMAIN ks -> AllKeys]
    BY DEF Batches
  <2>2. GoodCall("mget", ks, <<>>, FALSE)
    BY <2>1, BatchSeq, EmptySeq DEF GoodCall, OpNames
  <2> QED  BY <1>3, <2>2, BeginKeeps
<1>4. ASSUME NEW ks \in Batches(AllKeys), NEW vs \in [DOMAIN ks -> SetVals],
             NEW ttl \in BOOLEAN, Begin(p, "mset", ks, vs, ttl)
      PROVE  IInv'
  <2>1. GoodCall("mset", ks, vs, ttl)
    BY BatchSeq DEF GoodCall, OpNames
  <2> QED  BY <1>4, <2>1, BeginKeeps
<1>5. CASE Begin(p, "flush", <<>>, <<>>, FALSE)
  <2>1. GoodCall("flush", <<>>, <<>>, FALSE)
    BY EmptySeq DEF GoodCall, OpNames
  <2> QED  BY <1>5, <2>1, BeginKeeps
<1> QED  BY <1>1, <1>2, <1>3, <1>4, <1>5 DEF Call, OpNames, AllKeys

\* Calls that end without an effect on the map.
LEMMA QuietReturnKeeps ==
  ASSUME IInv, NEW p \in Procs, NEW ans, Return(p, ans), Unwritten
  PROVE  IInv'
  BY UnwrittenKeepsMap, ReturnKeeps

\* get and exists change nothing.
LEMMA GetKeeps == ASSUME IInv, NEW p \in Procs, Get(p) PROVE IInv'
  BY QuietReturnKeeps DEF Get

\* mget returns or goes on to its next key.
LEMMA MgetKeeps == ASSUME IInv, NEW p \in Procs, Mget(p) PROVE IInv'
<1>1. CASE MgetEnds(p) /\ Return(p, Ok(Append(got[p], store[Key(p)])))
  BY <1>1, QuietReturnKeeps DEF Mget
<1>2. CASE ~MgetEnds(p) /\ NextStep(p) /\ UNCHANGED current
  BY <1>2, UnwrittenKeepsMap, NextKeyKeeps DEF Mget, MgetEnds
<1> QED  BY <1>1, <1>2 DEF Mget

\* del removes one entry,
LEMMA DelKeeps == ASSUME IInv, NEW p \in Procs, Del(p) PROVE IInv'
<1>1. /\ store' \in [Keys -> Numbers \cup Texts \cup {Missing}]
      /\ \A k \in Keys : store'[k] = store[k] \/ store'[k] = Missing
      /\ \A k \in Keys : k # Key(p) => store'[k] = store[k]
  BY DEF Del, IInv, TypeOK
<1>2. expiring' \subseteq Held'
  BY <1>1 DEF Del, IInv, TypeOK, Held
<1>3. Key(p) \in Keys /\ GoesOn(Key(p), 0) /\ store'[Key(p)] = Missing
  BY DEF Del, IInv, TypeOK
<1>4. /\ most' \in [Keys -> Nat] /\ \A j \in Keys \ {Key(p)} : most'[j] = most[j]
      /\ \A k \in Keys : Between(k) => most[k] <= most'[k]
  BY <1>3, GoesOnKeeps DEF IInv, TypeOK
<1>5. \A k \in Keys : store'[k] = Missing \/ (store'[k] = store[k] /\ most'[k] = most[k])
  BY <1>1, <1>3, <1>4
<1> QED  BY <1>1, <1>2, <1>4, <1>5, RemovalKeepsMap, ReturnKeeps DEF Del

\* flush removes them all.
LEMMA FlushKeeps == ASSUME IInv, NEW p \in Procs, Flush(p) PROVE IInv'
<1>1. /\ store' \in [Keys -> Numbers \cup Texts \cup {Missing}]
      /\ \A k \in Keys : store'[k] = Missing
      /\ expiring' \subseteq Held'
  BY DEF Flush
<1>2. most' \in [Keys -> Nat]
  BY DEF Flush
<1>3. \A k \in Keys : ~Between(k)
  BY DEF Flush, Between, NoReq
<1> QED  BY <1>1, <1>2, <1>3, RemovalKeepsMap, ReturnKeeps DEF Flush

\* A SET of a value that its caller gave, alone or in an MSET.
LEMMA GivenKeepsMap ==
  ASSUME IInv, NEW p \in Procs, req[p].op \in {"set", "mset"}, Key(p) \in Keys,
         Val(p) \notin LongTexts, Put(Key(p), Val(p), req[p].ttl),
         GoesOn(Key(p), Number(Val(p)))
  PROVE  MapKept
<1>1. Val(p) \in SetVals
  BY Arguments
<1>2. Val(p) \in Numbers \cup Texts
  BY <1>1, ClientAssumption
<1>3. Number(Val(p)) \in Nat
  BY <1>1, Values, ClientAssumption DEF Numbers
<1>4. /\ most' \in [Keys -> Nat] /\ \A j \in Keys \ {Key(p)} : most'[j] = most[j]
      /\ (Between(Key(p)) => most[Key(p)] <= most'[Key(p)]) /\ Number(Val(p)) <= most'[Key(p)]
  BY <1>3, GoesOnKeeps
<1> QED  BY <1>2, <1>4, PutKeepsMap

\* set stores what its caller gave, and its number is the bound from then on.
LEMMA SetKeeps == ASSUME IInv, NEW p \in Procs, Set(p) PROVE IInv'
  BY GivenKeepsMap, ReturnKeeps DEF Set

\* So does each pair of mset.
LEMMA MsetKeeps == ASSUME IInv, NEW p \in Procs, Mset(p) PROVE IInv'
<1>1. MapKept
  BY GivenKeepsMap DEF Mset
<1>2. CASE Return(p, Ok(step[p]))
  BY <1>1, <1>2, ReturnKeeps
<1>3. CASE step[p] < Len(req[p].keys) /\ NextStep(p) /\ UNCHANGED current
  <2>1. step[p] \in Nat /\ Len(req[p].keys) \in Nat
    BY LenProperties DEF IInv, ReqsOK
  <2> QED  BY <1>1, <1>3, <2>1, NextKeyKeeps DEF Mset
<1> QED  BY <1>2, <1>3 DEF Mset

\* The number read is no higher than the counter may be.
LEMMA ReadNumberKeeps == ASSUME IInv, NEW p \in Procs, ReadNumber(p) PROVE IInv'
<1>1. MapKept /\ most' = most
  BY UnwrittenKeepsMap DEF ReadNumber, Unwritten
<1>2. req[p].keys[1] = Key(p) /\ Key(p) \in Keys
  BY Arguments DEF ReadNumber
<1>3. /\ current' = [current EXCEPT ![p] = Number(store[Key(p)])]
      /\ req' = req /\ step' = [step EXCEPT ![p] = @ + 1] /\ step[p] = 1
  BY DEF ReadNumber, NextStep
<1>4. OnlyCallOf(p) /\ step'[p] = 2 /\ current'[p] = Number(store[Key(p)])
  BY <1>3 DEF OnlyCallOf, IInv, TypeOK, ReqsOK
<1>5. current'[p] <= most'[req'[p].keys[1]]
  BY <1>1, <1>2, <1>3, <1>4 DEF IInv, NeverOvercounts
<1>6. ReadsCounted'
  BY <1>1, <1>2, <1>3, <1>4, <1>5, OthersCounted DEF ReadsCounted
<1>7. ReqsOK'
  <2>1. step' \in [Procs -> Nat]
    BY <1>3 DEF IInv, ReqsOK
  <2>2. \A q \in Procs : step'[q] = IF q = p THEN 2 ELSE step[q]
    BY <1>4 DEF OnlyCallOf
  <2> QED  BY <1>3, <2>1, <2>2 DEF IInv, ReqsOK
<1>8. TypeOK'
  <2>1. store[Key(p)] \in Numbers \cup Texts \cup {Missing}
    BY <1>2 DEF IInv, TypeOK
  <2>2. current' \in [Procs -> Numbers]
    BY <1>3, <2>1, Values DEF IInv, TypeOK
  <2>3. \A q \in Procs : q # p => step'[q] = step[q]
    BY <1>4 DEF OnlyCallOf
  <2>4. req[p].op \in {"incr", "decr"}
    BY DEF ReadNumber
  <2> QED  BY <1>1, <1>3, <2>2, <2>3, <2>4 DEF MapKept, IInv, TypeOK
<1> QED  BY <1>1, <1>6, <1>7, <1>8 DEF IInv, MapKept

\* The number written is no higher than the bound: an INCR raises it.
LEMMA WriteNumberKeeps == ASSUME IInv, NEW p \in Procs, WriteNumber(p) PROVE IInv'
<1> DEFINE k == req[p].keys[1]
<1>1. k \in Keys /\ current[p] <= most[k]
  BY DEF WriteNumber, IInv, ReadsCounted
<1>2. CASE /\ Put(k, NextNumber(p), FALSE)
           /\ most' = [most EXCEPT ![k] = IF req[p].op = "incr" THEN @ + 1 ELSE @]
           /\ Return(p, Ok(NextNumber(p)))
  <2>1. current[p] \in 0 .. W - 1 /\ W \in Nat /\ most \in [Keys -> Nat]
    BY ClientAssumption DEF IInv, TypeOK, Numbers
  <2>2. /\ most' \in [Keys -> Nat]
        /\ \A j \in Keys \ {k} : most'[j] = most[j]
        /\ most'[k] = IF req[p].op = "incr" THEN most[k] + 1 ELSE most[k]
        /\ most[k] <= most'[k]
    BY <1>1, <1>2, <2>1
  <2>3. NextNumber(p) \in Numbers
    BY <2>1 DEF NextNumber, PlusOne, Numbers
  <2>4. NextNumber(p) <= most'[k]
    BY <1>1, <2>1, <2>2 DEF NextNumber, PlusOne
  <2>5. Number(NextNumber(p)) <= most'[k]
    BY <2>3, <2>4, Values
  <2>6. MapKept
    BY <1>1, <1>2, <2>2, <2>3, <2>5, PutKeepsMap
  <2> QED  BY <1>2, <2>6, ReturnKeeps
<1>3. CASE Return(p, Err("ArenaFull")) /\ Unwritten
  BY <1>3, QuietReturnKeeps
<1> QED  BY <1>2, <1>3 DEF WriteNumber

\* An expired entry is removed.
LEMMA ExpireKeeps == ASSUME IInv, Expire PROVE IInv'
<1>1. PICK k \in expiring : /\ store' = [store EXCEPT ![k] = Missing]
                           /\ expiring' = expiring \ {k} /\ GoesOn(k, 0)
  BY DEF Expire
<1>2. /\ store' \in [Keys -> Numbers \cup Texts \cup {Missing}]
      /\ \A j \in Keys : store'[j] = store[j] \/ store'[j] = Missing
      /\ \A j \in Keys : j # k => store'[j] = store[j]
  BY <1>1 DEF IInv, TypeOK
<1>3. expiring' \subseteq Held'
  BY <1>1, <1>2 DEF IInv, TypeOK, Held
<1>4. k \in Keys /\ store'[k] = Missing
  BY <1>1 DEF IInv, TypeOK, Held
<1>5. /\ most' \in [Keys -> Nat] /\ \A j \in Keys \ {k} : most'[j] = most[j]
      /\ \A j \in Keys : Between(j) => most[j] <= most'[j]
  BY <1>1, <1>4, GoesOnKeeps DEF IInv, TypeOK
<1>6. \A j \in Keys : store'[j] = Missing \/ (store'[j] = store[j] /\ most'[j] = most[j])
  BY <1>2, <1>4, <1>5
<1>7. MapKept /\ UNCHANGED <<req, step, current>>
  BY <1>2, <1>3, <1>5, <1>6, RemovalKeepsMap DEF Expire
<1>8. ReadsCounted'
  <2> SUFFICES ASSUME NEW q \in Procs, req[q].op \in {"incr", "decr"}, step[q] = 2
               PROVE  req[q].keys[1] \in Keys /\ current[q] <= most'[req[q].keys[1]]
    BY <1>7 DEF ReadsCounted
  <2> DEFINE j == req[q].keys[1]
  <2>1. j \in Keys /\ current[q] <= most[j] /\ Between(j)
    BY DEF IInv, ReadsCounted, Between
  <2>2. current[q] \in Nat /\ most[j] \in Nat /\ most'[j] \in Nat /\ most[j] <= most'[j]
    BY <1>5, <2>1 DEF IInv, TypeOK, Numbers
  <2> QED  BY <2>1, <2>2
<1> QED  BY <1>7, <1>8 DEF IInv, TypeOK, ReqsOK, MapKept

-----------------------------------------------------------------------------

\* Initially nothing is held, counted or called.
LEMMA InitEstablishes == Init => IInv
<1> SUFFICES ASSUME Init PROVE IInv
  OBVIOUS
<1>1. TypeOK
  BY ClientAssumption DEF Init, TypeOK, Held, Numbers, NoReq
<1>2. ReqsOK
  BY EmptySeq DEF Init, ReqsOK, NoReq
<1>3. NeverOvercounts
  BY Values DEF Init, NeverOvercounts
<1>4. ReadsCounted
  BY DEF Init, ReadsCounted, NoReq
<1> QED  BY <1>1, <1>2, <1>3, <1>4 DEF IInv

\* Every step keeps the invariant.
LEMMA NextKeeps == IInv /\ [Next]_vars => IInv'
<1> SUFFICES ASSUME IInv, [Next]_vars PROVE IInv'
  OBVIOUS
<1>1. ASSUME NEW p \in Procs,
             KeyTooLong(p) \/ ValueTooLong(p) \/ Full(p)
      PROVE  IInv'
  BY <1>1, QuietReturnKeeps DEF KeyTooLong, ValueTooLong, Full
<1>2. CASE UNCHANGED vars
  BY <1>2 DEF vars, IInv, TypeOK, ReqsOK, NeverOvercounts, ReadsCounted, Number, Held
<1> QED
  BY <1>1, <1>2, CallKeeps, GetKeeps, MgetKeeps, DelKeeps, SetKeeps, MsetKeeps,
     ReadNumberKeeps, WriteNumberKeeps, FlushKeeps, ExpireKeeps DEF Next

\* Every call is at one of its keys, the map holds values and an entry with an
\* expiry is there: the steps of mget, mset, incr and decr never leave their
\* arguments.
THEOREM TypeCorrect == Spec => []TypeOK
<1>1. IInv => TypeOK
  BY DEF IInv
<1> QED  BY <1>1, InitEstablishes, NextKeeps, PTL DEF Spec

\* However the incr and decr of any number of clients overlap, and whatever
\* set, mset, del, flush and expiry do in between, no counter exceeds the number
\* that was last stored in it, 0 if none was, and the INCRs that have written
\* since; unless a call that had read it before wrote after that.
THEOREM CountersCovered == Spec => []NeverOvercounts
<1>1. IInv => NeverOvercounts
  BY DEF IInv
<1> QED  BY <1>1, InitEstablishes, NextKeeps, PTL DEF Spec

-----------------------------------------------------------------------------
(* A call beside which nobody else changes the map.                        *)

Stored == Numbers \cup Texts \cup {Missing}

\* The map m is old with the first n pairs of the batch r in it.
Laid(m, old, r, n) ==
  \A k \in Keys :
    \/ m[k] = old[k] /\ \A i \in 1 .. n : r.keys[i] # k
    \/ \E i \in 1 .. n :
         /\ r.keys[i] = k /\ m[k] = r.vals[i]
         /\ \A j \in i + 1 .. n : r.keys[j] # k

\* The keys that are held once the first n pairs are.
HeldWith(old, r, n) == {k \in Keys : old[k] # Missing} \cup {r.keys[j] : j \in 1 .. n}

\* Pair i of the batch r fails on a map that began as old.
Bad(old, r, i) ==
  \/ r.keys[i] \in LongKeys \/ r.vals[i] \in LongTexts
  \/ /\ Cardinality(HeldWith(old, r, i)) > Capacity
     /\ old[r.keys[i]] = Missing /\ \A j \in 1 .. i - 1 : r.keys[j] # r.keys[i]

\* What the first n steps of an MSET have done to the map m.
Done(m, old, r, n) ==
  /\ Laid(m, old, r, n)
  /\ \A i \in 1 .. n : r.keys[i] \in Keys /\ r.vals[i] # Missing /\ ~Bad(old, r, i)

\* What a running batch has done, if nobody has changed the map beside it.
MsetSoFar(p) ==
  req[p].op = "mset" /\ before[p] # <<>> =>
    /\ before[p] \in [Keys -> Stored]
    /\ Done(store, before[p], req[p], step[p] - 1)

MgetSoFar(p) ==
  req[p].op = "mget" /\ before[p] # <<>> =>
    /\ before[p] = store
    /\ \A i \in 1 .. step[p] - 1 : req[p].keys[i] \in Keys
    /\ got[p] = [i \in 1 .. step[p] - 1 |-> store[req[p].keys[i]]]

\* An INCR or DECR has changed nothing yet, and what it has read is still there.
CountSoFar(p) ==
  req[p].op \in {"incr", "decr"} /\ before[p] # <<>> =>
    /\ before[p] = store
    /\ step[p] = 2 => current[p] = Number(store[req[p].keys[1]])

Idle(p) == req[p].op = "none" => req[p] = NoReq /\ got[p] = <<>>

BInv ==
  /\ IsFiniteSet(Held)
  /\ got \in [Procs -> Seq(Stored)]
  /\ \A p \in Procs : Idle(p) /\ MsetSoFar(p) /\ MgetSoFar(p) /\ CountSoFar(p)

-----------------------------------------------------------------------------
(* Pairs laid over a map.                                                  *)

\* A batch of n keys and values.
Batch(r, n) ==
  /\ n \in Nat /\ r.keys \in Seq(AllKeys) /\ r.vals \in Seq(SetVals)
  /\ Len(r.keys) = n /\ Len(r.vals) = n

\* What is laid is what Overlay says: the last pair of a key is the only one
\* with no later pair of it.
LEMMA LaidIsOverlay ==
  ASSUME NEW m \in [Keys -> Stored], NEW old, NEW r, NEW n \in Nat, Laid(m, old, r, n)
  PROVE  m = Overlay(old, r.keys, r.vals, n)
<1>1. ASSUME NEW k \in Keys PROVE m[k] = Overlay(old, r.keys, r.vals, n)[k]
  <2>1. CASE m[k] = old[k] /\ \A i \in 1 .. n : r.keys[i] # k
    BY <2>1 DEF Overlay
  <2>2. ASSUME NEW i \in 1 .. n, r.keys[i] = k, m[k] = r.vals[i],
               \A j \in i + 1 .. n : r.keys[j] # k
        PROVE  m[k] = Overlay(old, r.keys, r.vals, n)[k]
    <3> DEFINE Last(l) == r.keys[l] = k /\ \A j \in l + 1 .. n : r.keys[j] # k
    <3>1. ASSUME NEW l \in 1 .. n, Last(l) PROVE l = i
      BY <2>2, <3>1
    <3>2. Last(i)
      BY <2>2
    <3>3. (CHOOSE l \in 1 .. n : Last(l)) = i
      <4> HIDE DEF Last
      <4> QED  BY <3>1, <3>2
    <3>4. Overlay(old, r.keys, r.vals, n)[k] = r.vals[CHOOSE l \in 1 .. n : Last(l)]
      BY <2>2 DEF Overlay
    <3> QED  BY <2>2, <3>3, <3>4
  <2> QED  BY <2>1, <2>2 DEF Laid
<1>2. Overlay(old, r.keys, r.vals, n) = [k \in Keys |-> Overlay(old, r.keys, r.vals, n)[k]]
  BY DEF Overlay
<1> QED  BY <1>1, <1>2

\* The map after one pair more.
LEMMA LaidNext ==
  ASSUME NEW m \in [Keys -> Stored], NEW old, NEW r, NEW n \in Nat, Laid(m, old, r, n),
         r.keys[n + 1] \in Keys
  PROVE  Laid([m EXCEPT ![r.keys[n + 1]] = r.vals[n + 1]], old, r, n + 1)
<1> DEFINE M == [m EXCEPT ![r.keys[n + 1]] = r.vals[n + 1]]
<1> SUFFICES ASSUME NEW k \in Keys
             PROVE  \/ M[k] = old[k] /\ \A i \in 1 .. n + 1 : r.keys[i] # k
                    \/ \E i \in 1 .. n + 1 :
                         /\ r.keys[i] = k /\ M[k] = r.vals[i]
                         /\ \A j \in i + 1 .. n + 1 : r.keys[j] # k
  BY DEF Laid
<1>1. CASE k = r.keys[n + 1]
  <2>1. n + 1 \in 1 .. n + 1 /\ M[k] = r.vals[n + 1] /\ (n + 1) + 1 .. n + 1 = {}
    BY <1>1
  <2> QED  BY <1>1, <2>1
<1>2. CASE k # r.keys[n + 1]
  <2>1. M[k] = m[k]
    BY <1>2
  <2>2. \A i \in 1 .. n + 1 : i \in 1 .. n \/ i = n + 1
    OBVIOUS
  <2>3. CASE m[k] = old[k] /\ \A i \in 1 .. n : r.keys[i] # k
    BY <1>2, <2>1, <2>2, <2>3
  <2>4. ASSUME NEW i \in 1 .. n, r.keys[i] = k, m[k] = r.vals[i],
               \A j \in i + 1 .. n : r.keys[j] # k
        PROVE  \E l \in 1 .. n + 1 :
                 /\ r.keys[l] = k /\ M[k] = r.vals[l]
                 /\ \A j \in l + 1 .. n + 1 : r.keys[j] # k
    <3>1. \A j \in i + 1 .. n + 1 : j \in i + 1 .. n \/ j = n + 1
      OBVIOUS
    <3>2. \A j \in i + 1 .. n + 1 : r.keys[j] # k
      BY <1>2, <2>4, <3>1
    <3> QED  BY <2>1, <2>4, <3>2
  <2> QED  BY <2>3, <2>4 DEF Laid
<1> QED  BY <1>1, <1>2

\* The keys it holds.
LEMMA LaidHolds ==
  ASSUME NEW m \in [Keys -> Stored], NEW old, NEW r, NEW n \in Nat, Done(m, old, r, n)
  PROVE  {k \in Keys : m[k] # Missing} = HeldWith(old, r, n)
<1>1. ASSUME NEW k \in Keys PROVE m[k] # Missing <=> k \in HeldWith(old, r, n)
  <2>1. CASE m[k] = old[k] /\ \A i \in 1 .. n : r.keys[i] # k
    BY <2>1 DEF HeldWith
  <2>2. ASSUME NEW i \in 1 .. n, r.keys[i] = k, m[k] = r.vals[i]
        PROVE  m[k] # Missing /\ k \in HeldWith(old, r, n)
    BY <2>2 DEF Done, HeldWith
  <2> QED  BY <2>1, <2>2 DEF Done, Laid
<1>2. HeldWith(old, r, n) \subseteq Keys
  BY DEF HeldWith, Done
<1> QED  BY <1>1, <1>2

\* The next pair fails exactly if the code says so.
LEMMA FitsNot ==
  ASSUME NEW m \in [Keys -> Stored], NEW old, NEW r, NEW n \in Nat, Done(m, old, r, n),
         IsFiniteSet({k \in Keys : m[k] # Missing}),
         r.keys[n + 1] \in Keys, r.vals[n + 1] \notin LongTexts
  PROVE  Bad(old, r, n + 1) <=>
           /\ m[r.keys[n + 1]] = Missing
           /\ Cardinality({k \in Keys : m[k] # Missing}) >= Capacity
<1> DEFINE k == r.keys[n + 1]
           H == {x \in Keys : m[x] # Missing}
<1>1. HeldWith(old, r, n + 1) = H \cup {k}
  <2>1. HeldWith(old, r, n + 1) = HeldWith(old, r, n) \cup {k}
    <3>1. \A i : i \in 1 .. n + 1 <=> i \in 1 .. n \/ i = n + 1
      OBVIOUS
    <3>2. {r.keys[j] : j \in 1 .. n + 1} = {r.keys[j] : j \in 1 .. n} \cup {k}
      BY <3>1
    <3> QED  BY <3>2 DEF HeldWith
  <2> QED  BY <2>1, LaidHolds
<1>2. Cardinality(H) \in Nat /\ Capacity \in Nat
  BY FS_CardinalityType, ClientAssumption
<1>3. k \notin LongKeys
  BY ClientAssumption
<1>4. m[k] = Missing <=> k \notin H
  OBVIOUS
<1>5. k \notin H <=> old[k] = Missing /\ \A j \in 1 .. n : r.keys[j] # k
  <2>1. H = HeldWith(old, r, n)
    BY LaidHolds
  <2> QED  BY <2>1 DEF HeldWith
<1>6. k \notin H => Cardinality(H \cup {k}) = Cardinality(H) + 1
  BY FS_AddElement
<1>7. (n + 1) - 1 = n
  OBVIOUS
<1>8. Bad(old, r, n + 1) <=>
        Cardinality(H \cup {k}) > Capacity /\ old[k] = Missing
          /\ \A j \in 1 .. n : r.keys[j] # k
  BY <1>1, <1>3, <1>7 DEF Bad
<1> QED  BY <1>2, <1>4, <1>5, <1>6, <1>8

\* Where it fails is the first pair that does.
LEMMA FailsAtIs ==
  ASSUME NEW old, NEW r, NEW l \in Nat, Len(r.keys) = l, NEW n \in 1 .. l + 1,
         \A i \in 1 .. n - 1 : ~Bad(old, r, i), n = l + 1 \/ Bad(old, r, n)
  PROVE  FailsAt(old, r.keys, r.vals) = n
<1> DEFINE First(i) == (i = l + 1 \/ Bad(old, r, i)) /\ \A j \in 1 .. i - 1 : ~Bad(old, r, j)
<1>1. FailsAt(old, r.keys, r.vals) = CHOOSE i \in 1 .. l + 1 : First(i)
  BY DEF FailsAt, Bad, HeldWith
<1>2. ASSUME NEW i \in 1 .. l + 1, First(i) PROVE i = n
  <2>1. CASE i < n
    BY <1>2, <2>1
  <2>2. CASE i > n
    BY <1>2, <2>2
  <2> QED  BY <2>1, <2>2
<1>3. First(n)
  OBVIOUS
<1>4. (CHOOSE i \in 1 .. l + 1 : First(i)) = n
  <2> HIDE DEF First
  <2> QED  BY <1>2, <1>3
<1> QED  BY <1>1, <1>4

-----------------------------------------------------------------------------
(* The steps of a batch.                                                   *)

Running(p) == Idle(p) /\ MsetSoFar(p) /\ MgetSoFar(p) /\ CountSoFar(p)

\* What CallEffect says of p when its call ends.
Told(p) ==
  before[p] # <<>> /\ req[p] # NoReq /\ req'[p] = NoReq =>
    /\ req[p].op = "mset" =>
         LET n == FailsAt(before[p], req[p].keys, req[p].vals) - 1 IN
         /\ store' = Overlay(before[p], req[p].keys, req[p].vals, n)
         /\ answer'.ok <=> n = Len(req[p].keys)
         /\ answer'.ok => answer'.val = n
    /\ req[p].op = "mget" =>
         /\ answer'.ok <=> \A i \in DOMAIN req[p].keys : req[p].keys[i] \in Keys
         /\ answer'.ok => answer'.val = [i \in DOMAIN req[p].keys |-> before[p][req[p].keys[i]]]
    /\ req[p].op \in {"incr", "decr"} =>
         LET n == FailsAt(before[p], req[p].keys, <<0>>)
             next == Counted(req[p].op, Number(before[p][req[p].keys[1]])) IN
         /\ answer'.ok <=> n = 2
         /\ answer'.ok => /\ answer'.val = next
                          /\ store' = [before[p] EXCEPT ![req[p].keys[1]] = next]
         /\ ~answer'.ok => store' = before[p]

BInvs == IInv /\ BInv

LEMMA StoreType == ASSUME IInv PROVE store \in [Keys -> Stored]
  BY DEF IInv, TypeOK, Stored

\* A process that does not move keeps what it knows, or forgets the map.
LEMMA OthersRun ==
  ASSUME BInvs, NEW q \in Procs, Remember,
         req'[q] = req[q], step'[q] = step[q], got'[q] = got[q],
         current'[q] = current[q]
  PROVE  Running(q)' /\ Told(q)
<1>1. Running(q)
  BY DEF BInvs, BInv, Running
<1>2. Told(q)
  BY DEF Told
<1>3. CASE req[q].op = "none"
  BY <1>1, <1>2, <1>3 DEF Running, Idle, MsetSoFar, MgetSoFar, CountSoFar
<1>4. CASE req[q].op # "none"
  <2>1. req[q] # NoReq
    BY <1>4 DEF NoReq
  <2>2. before'[q] = IF store' # store THEN <<>> ELSE before[q]
    BY <2>1 DEF Remember
  <2> QED  BY <1>1, <1>2, <1>4, <2>2 DEF Running, Idle, MsetSoFar, MgetSoFar, CountSoFar
<1> QED  BY <1>3, <1>4

\* So do all others when one moves.
OnlyGot(p) == \A q \in Procs \ {p} : got'[q] = got[q]

LEMMA AllRun ==
  ASSUME BInvs, NEW p \in Procs, Remember, OnlyCallOf(p), OnlyGot(p), Running(p)', Told(p),
         got' \in [Procs -> Seq(Stored)], IsFiniteSet(Held')
  PROVE  BInv' /\ \A q \in Procs : Told(q)
<1>1. ASSUME NEW q \in Procs \ {p} PROVE Running(q)' /\ Told(q)
  BY OthersRun DEF OnlyCallOf, OnlyGot
<1> QED  BY <1>1 DEF BInv, Running

\* The end of a call leaves nothing to know; what it answers must be true.
LEMMA ReturnRuns ==
  ASSUME BInvs, NEW p \in Procs, NEW ans, Return(p, ans), Remember, Told(p),
         IsFiniteSet(Held')
  PROVE  BInv' /\ \A q \in Procs : Told(q)
<1>1. OnlyCallOf(p) /\ OnlyGot(p)
  BY DEF Return, OnlyCallOf, OnlyGot, BInvs, BInv, IInv, TypeOK, ReqsOK
<1>2. req'[p] = NoReq /\ got'[p] = <<>>
  BY DEF Return, BInvs, BInv, IInv, ReqsOK
<1>3. Running(p)'
  BY <1>2 DEF Running, Idle, MsetSoFar, MgetSoFar, CountSoFar, NoReq
<1>4. got' \in [Procs -> Seq(Stored)]
  BY EmptySeq DEF Return, BInvs, BInv
<1> QED  BY <1>1, <1>3, <1>4, AllRun

\* What is held stays finite.
LEMMA HeldFinite ==
  ASSUME BInvs, store' = store \/ (\E k \in Keys : \E v : store' = [store EXCEPT ![k] = v])
                  \/ store' = [k \in Keys |-> Missing]
  PROVE  IsFiniteSet(Held')
<1>1. IsFiniteSet(Held)
  BY DEF BInvs, BInv
<1>2. ASSUME NEW k \in Keys, NEW v, store' = [store EXCEPT ![k] = v]
      PROVE  IsFiniteSet(Held')
  <2>1. store \in [Keys -> Stored]
    BY StoreType DEF BInvs
  <2>2. Held' \subseteq Held \cup {k}
    BY <1>2, <2>1 DEF Held
  <2> QED  BY <1>1, <2>2, FS_AddElement, FS_Subset
<1>3. CASE store' = [k \in Keys |-> Missing]
  <2>1. Held' = {}
    BY <1>3 DEF Held
  <2> QED  BY <2>1, FS_EmptySet
<1>4. CASE store' = store
  BY <1>1, <1>4 DEF Held
<1> QED  BY <1>2, <1>3, <1>4

\* A call begins with the map as it is.
LEMMA BeginRuns ==
  ASSUME BInvs, NEW p \in Procs, NEW op, NEW keys, NEW vals, NEW ttl,
         Begin(p, op, keys, vals, ttl), Remember
  PROVE  BInv' /\ \A q \in Procs : Told(q)
<1>1. OnlyCallOf(p) /\ OnlyGot(p) /\ store' = store /\ got' = got
  BY DEF Begin, OnlyCallOf, OnlyGot, BInvs, IInv, ReqsOK
<1>2. /\ req'[p] = [op |-> op, keys |-> keys, vals |-> vals, ttl |-> ttl] /\ step'[p] = 1
      /\ req[p] = NoReq
  BY DEF Begin, BInvs, IInv, ReqsOK
<1>3. op # "none"
  BY ClientAssumption DEF Begin, OpNames
<1>4. before'[p] = store /\ req'[p] # NoReq
  BY <1>2, <1>3 DEF Remember, NoReq
<1>5. got'[p] = <<>>
  BY <1>1, <1>2 DEF NoReq, BInvs, BInv, Idle
<1>6. MgetSoFar(p)'
  BY <1>1, <1>2, <1>4, <1>5 DEF MgetSoFar
<1>7. MsetSoFar(p)'
  <2>1. Done(store, store, req'[p], 0)
    BY DEF Done, Laid
  <2> QED  BY <1>1, <1>2, <1>4, <2>1, StoreType DEF MsetSoFar, BInvs
<1>8. CountSoFar(p)'
  BY <1>1, <1>2, <1>4 DEF CountSoFar
<1>9. Running(p)' /\ Told(p)
  BY <1>2, <1>3, <1>6, <1>7, <1>8 DEF Running, Idle, Told
<1> QED  BY <1>1, <1>9, AllRun, HeldFinite DEF BInvs, BInv

\* The arguments of a running batch.
LEMMA BatchAt ==
  ASSUME BInvs, NEW p \in Procs, req[p].op \in {"mget", "mset"}
  PROVE  /\ step[p] \in Nat \ {0} /\ step[p] - 1 \in Nat /\ (step[p] - 1) + 1 = step[p]
         /\ Len(req[p].keys) \in Nat /\ step[p] <= Len(req[p].keys)
         /\ Key(p) = req[p].keys[step[p]] /\ Key(p) \in AllKeys
         /\ DOMAIN req[p].keys = 1 .. Len(req[p].keys)
         /\ req[p].op = "mset" => Val(p) = req[p].vals[step[p]] /\ Val(p) \in SetVals
<1>1. req[p].keys \in Seq(AllKeys) /\ step[p] \in 1 .. Len(req[p].keys)
  BY DEF BInvs, IInv, TypeOK, ReqsOK
<1>2. Len(req[p].keys) \in Nat /\ DOMAIN req[p].keys = 1 .. Len(req[p].keys)
  BY <1>1, LenProperties
<1> QED  BY <1>1, <1>2, Arguments DEF Key, Val, BInvs

\* One value more.
LEMMA Picked ==
  ASSUME NEW S, NEW m, NEW ks, NEW n \in Nat, NEW s \in Seq(S),
         s = [i \in 1 .. n |-> m[ks[i]]], m[ks[n + 1]] \in S
  PROVE  Append(s, m[ks[n + 1]]) = [i \in 1 .. n + 1 |-> m[ks[i]]]
<1> DEFINE t == Append(s, m[ks[n + 1]])
<1>1. DOMAIN s = 1 .. Len(s) /\ Len(s) \in Nat /\ DOMAIN s = 1 .. n
  BY LenProperties
<1>2. Len(s) = n
  BY <1>1
<1>3. /\ t \in Seq(S) /\ Len(t) = n + 1
      /\ \A i \in 1 .. n : t[i] = s[i]
      /\ t[n + 1] = m[ks[n + 1]]
  BY <1>2, AppendProperties
<1>4. t = [i \in 1 .. n + 1 |-> t[i]]
  BY <1>3, LenProperties
<1>5. ASSUME NEW i \in 1 .. n + 1 PROVE t[i] = m[ks[i]]
  <2>1. i \in 1 .. n \/ i = n + 1
    OBVIOUS
  <2> QED  BY <1>3, <2>1
<1> HIDE DEF t
<1> QED  BY <1>4, <1>5

\* mget reads the map as it was.
LEMMA MgetRuns ==
  ASSUME BInvs, NEW p \in Procs, Mget(p), Remember
  PROVE  BInv' /\ \A q \in Procs : Told(q)
<1> DEFINE r == req[p]
           n == step[p] - 1
<1>1. r.op = "mget" /\ Key(p) \in Keys /\ store' = store /\ r # NoReq
  BY DEF Mget, Unwritten, NoReq
<1>2. /\ step[p] \in Nat /\ n \in Nat /\ n + 1 = step[p] /\ Len(r.keys) \in Nat
      /\ step[p] <= Len(r.keys) /\ Key(p) = r.keys[n + 1]
      /\ DOMAIN r.keys = 1 .. Len(r.keys)
  BY <1>1, BatchAt
<1>3. IsFiniteSet(Held')
  BY <1>1, HeldFinite
<1>4. store[Key(p)] \in Stored /\ got[p] \in Seq(Stored)
  BY <1>1, StoreType DEF BInvs, BInv
<1>5. ASSUME before[p] # <<>>
      PROVE  /\ before[p] = store
             /\ \A i \in 1 .. n + 1 : r.keys[i] \in Keys
             /\ Append(got[p], store[Key(p)]) = [i \in 1 .. n + 1 |-> store[r.keys[i]]]
  <2>1. /\ before[p] = store
        /\ \A i \in 1 .. n : r.keys[i] \in Keys
        /\ got[p] = [i \in 1 .. n |-> store[r.keys[i]]]
    BY <1>1, <1>5 DEF BInvs, BInv, MgetSoFar
  <2>2. \A i \in 1 .. n + 1 : i \in 1 .. n \/ i = n + 1
    BY <1>2
  <2>3. Append(got[p], store[Key(p)]) = [i \in 1 .. n + 1 |-> store[r.keys[i]]]
    BY <1>2, <1>4, <2>1, Picked
  <2> QED  BY <1>1, <1>2, <2>1, <2>2, <2>3
<1>6. CASE MgetEnds(p) /\ Return(p, Ok(Append(got[p], store[Key(p)])))
  <2>1. /\ answer'.ok = TRUE /\ answer'.val = Append(got[p], store[Key(p)])
        /\ n + 1 = Len(r.keys)
    BY <1>2, <1>6 DEF Return, Ok, MgetEnds
  <2>2. Told(p)
    BY <1>1, <1>2, <1>5, <2>1 DEF Told
  <2> QED  BY <1>3, <1>6, <2>2, ReturnRuns
<1>7. CASE ~MgetEnds(p) /\ NextStep(p) /\ got' = [got EXCEPT ![p] = Append(@, store[Key(p)])]
           /\ UNCHANGED current
  <2>1. OnlyCallOf(p) /\ OnlyGot(p) /\ req' = req /\ step'[p] = step[p] + 1
    BY <1>7 DEF NextStep, OnlyCallOf, OnlyGot, BInvs, BInv, IInv, ReqsOK
  <2>2. got'[p] = Append(got[p], store[Key(p)]) /\ got' \in [Procs -> Seq(Stored)]
    BY <1>4, <1>7, AppendProperties DEF BInvs, BInv
  <2>3. before'[p] = before[p]
    BY <1>1, <2>1 DEF Remember
  <2>4. step'[p] - 1 = n + 1
    BY <1>2, <2>1
  <2>5. MgetSoFar(p)'
    BY <1>1, <1>5, <2>1, <2>2, <2>3, <2>4 DEF MgetSoFar
  <2>6. Running(p)' /\ Told(p)
    BY <1>1, <2>1, <2>5 DEF Running, Idle, MsetSoFar, CountSoFar, Told
  <2> QED  BY <1>3, <2>1, <2>2, <2>6, AllRun
<1> QED  BY <1>1, <1>6, <1>7 DEF Mget

\* What an MSET that begins a step alone has done.
LEMMA MsetAt ==
  ASSUME BInvs, NEW p \in Procs, req[p].op = "mset", before[p] # <<>>
  PROVE  /\ before[p] \in [Keys -> Stored]
         /\ Done(store, before[p], req[p], step[p] - 1)
         /\ store = Overlay(before[p], req[p].keys, req[p].vals, step[p] - 1)
<1>1. before[p] \in [Keys -> Stored] /\ Done(store, before[p], req[p], step[p] - 1)
  BY DEF BInvs, BInv, MsetSoFar
<1>2. step[p] - 1 \in Nat
  BY BatchAt
<1> QED  BY <1>1, <1>2, LaidIsOverlay, StoreType DEF Done, BInvs

\* The one key of an INCR or DECR is too long, or has no slot, or the call goes well.
LEMMA CountTooLong ==
  ASSUME NEW old, NEW ks, Len(ks) = 1, ks[1] \in LongKeys
  PROVE  FailsAt(old, ks, <<0>>) = 1
<1> DEFINE r == [keys |-> ks, vals |-> <<0>>]
<1>1. r.keys = ks /\ r.vals = <<0>> /\ Bad(old, r, 1)
  BY DEF Bad
<1>2. 1 \in 1 .. 1 + 1 /\ 1 .. 1 - 1 = {}
  OBVIOUS
<1> HIDE DEF r
<1> QED  BY <1>1, <1>2, FailsAtIs

LEMMA CountFails ==
  ASSUME NEW old \in [Keys -> Stored], NEW ks, Len(ks) = 1, ks[1] \in Keys,
         IsFiniteSet({k \in Keys : old[k] # Missing})
  PROVE  FailsAt(old, ks, <<0>>) = 2 <=>
           \/ old[ks[1]] # Missing
           \/ Cardinality({k \in Keys : old[k] # Missing}) < Capacity
<1> DEFINE r == [keys |-> ks, vals |-> <<0>>]
<1>1. r.keys = ks /\ r.vals = <<0>> /\ r.vals[1] = 0
  OBVIOUS
<1>2. 0 \notin LongTexts
  BY ClientAssumption DEF Numbers
<1>3. Done(old, old, r, 0)
  BY DEF Done, Laid
<1>4. Bad(old, r, 1) <=>
        /\ old[ks[1]] = Missing
        /\ Cardinality({k \in Keys : old[k] # Missing}) >= Capacity
  <2>1. 0 \in Nat /\ 0 + 1 = 1
    OBVIOUS
  <2> HIDE DEF r
  <2> QED  BY <1>1, <1>2, <1>3, <2>1, FitsNot
<1>5. Cardinality({k \in Keys : old[k] # Missing}) \in Nat /\ Capacity \in Nat
  BY FS_CardinalityType, ClientAssumption
<1>6. /\ 1 \in 1 .. 1 + 1 /\ 2 \in 1 .. 1 + 1 /\ 1 .. 1 - 1 = {} /\ 2 = 1 + 1
      /\ \A i \in 1 .. 2 - 1 : i = 1
  OBVIOUS
<1> HIDE DEF r
<1>7. CASE Bad(old, r, 1)
  <2>1. /\ Len(r.keys) = 1 /\ \A i \in 1 .. 1 - 1 : ~Bad(old, r, i)
        /\ 1 = 1 + 1 \/ Bad(old, r, 1)
    BY <1>1, <1>6, <1>7
  <2>2. FailsAt(old, r.keys, r.vals) = 1
    BY <1>6, <2>1, FailsAtIs
  <2> QED  BY <1>1, <1>4, <1>5, <1>7, <2>2
<1>8. CASE ~Bad(old, r, 1)
  <2>1. /\ Len(r.keys) = 1 /\ \A i \in 1 .. 2 - 1 : ~Bad(old, r, i)
        /\ 2 = 1 + 1 \/ Bad(old, r, 2)
    BY <1>1, <1>6, <1>8
  <2>2. FailsAt(old, r.keys, r.vals) = 2
    BY <1>6, <2>1, FailsAtIs
  <2> QED  BY <1>1, <1>4, <1>5, <1>8, <2>2
<1> QED  BY <1>7, <1>8

\* The wrap of PlusOne is that of u64.
LEMMA NextIsCounted ==
  ASSUME IInv, NEW p \in Procs, req[p].op \in {"incr", "decr"}
  PROVE  NextNumber(p) = Counted(req[p].op, current[p])
<1>1. W \in Nat \ {0} /\ current[p] \in 0 .. W - 1
  BY ClientAssumption DEF IInv, TypeOK, Numbers
<1>2. (current[p] + 1) % W = PlusOne(current[p])
  <2>1. CASE current[p] = W - 1
    <3>1. W % W = 0 /\ current[p] + 1 = W
      BY <1>1, <2>1
    <3> QED  BY <2>1, <3>1 DEF PlusOne
  <2>2. CASE current[p] # W - 1
    BY <1>1, <2>2 DEF PlusOne
  <2> QED  BY <2>1, <2>2
<1>3. current[p] - (IF current[p] = 0 THEN 0 ELSE 1) =
        IF current[p] = 0 THEN 0 ELSE current[p] - 1
  BY <1>1
<1> QED  BY <1>2, <1>3 DEF NextNumber, Counted

\* The second step of INCR or DECR says and stores what it should.
LEMMA CountTold ==
  ASSUME BInvs, NEW p \in Procs, WriteNumber(p) PROVE Told(p)
<1> SUFFICES ASSUME before[p] # <<>> PROVE Told(p)
  BY DEF Told
<1> DEFINE k == req[p].keys[1]
<1>1. /\ req[p].op \in {"incr", "decr"} /\ step[p] = 2 /\ k \in Keys /\ Len(req[p].keys) = 1
  BY DEF WriteNumber, BInvs, IInv, ReadsCounted, ReqsOK
<1>2. before[p] = store /\ current[p] = Number(store[k])
  BY <1>1 DEF BInvs, BInv, CountSoFar
<1>3. store \in [Keys -> Stored] /\ IsFiniteSet({j \in Keys : store[j] # Missing})
  BY StoreType DEF BInvs, BInv, Held
<1>4. FailsAt(store, req[p].keys, <<0>>) = 2 <=> Fits(k)
  BY <1>1, <1>3, CountFails DEF Fits, Held
<1>5. NextNumber(p) = Counted(req[p].op, Number(store[k]))
  BY <1>1, <1>2, NextIsCounted DEF BInvs
<1>6. CASE Put(k, NextNumber(p), FALSE) /\ Return(p, Ok(NextNumber(p)))
  <2>1. /\ answer'.ok = TRUE /\ answer'.val = NextNumber(p) /\ Fits(k)
        /\ store' = [store EXCEPT ![k] = NextNumber(p)]
    BY <1>6 DEF Return, Ok, Put
  <2> QED  BY <1>1, <1>2, <1>4, <1>5, <2>1 DEF Told
<1>7. CASE ~Fits(k) /\ Return(p, Err("ArenaFull")) /\ Unwritten
  <2>1. answer'.ok = FALSE /\ store' = store
    BY <1>7 DEF Return, Err, Unwritten
  <2> QED  BY <1>1, <1>2, <1>4, <1>7, <2>1 DEF Told
<1> QED  BY <1>6, <1>7 DEF WriteNumber

\* The pair whose turn it is fails, and so does the call.
LEMMA BadTold ==
  ASSUME BInvs, NEW p \in Procs, NEW x, Return(p, Err(x)), store' = store,
         req[p].op = "mset" /\ before[p] # <<>> => Bad(before[p], req[p], step[p]),
         req[p].op \in {"mget", "incr", "decr"} => Key(p) \in LongKeys
  PROVE  Told(p)
<1>1. answer'.ok = FALSE
  BY DEF Return, Err
<1>2. CASE req[p].op = "mset" /\ before[p] # <<>>
  <2>1. /\ step[p] \in 1 .. Len(req[p].keys) + 1 /\ Len(req[p].keys) \in Nat
        /\ step[p] - 1 # Len(req[p].keys)
    BY <1>2, BatchAt
  <2>2. FailsAt(before[p], req[p].keys, req[p].vals) = step[p]
    BY <1>2, <2>1, MsetAt, FailsAtIs DEF Done
  <2> QED  BY <1>1, <1>2, <2>1, <2>2, MsetAt DEF Told
<1>3. CASE req[p].op = "mget"
  <2>1. step[p] \in DOMAIN req[p].keys /\ req[p].keys[step[p]] \notin Keys
    BY <1>3, BatchAt, ClientAssumption
  <2> QED  BY <1>1, <1>3, <2>1 DEF Told
<1>4. CASE req[p].op \in {"incr", "decr"} /\ before[p] # <<>>
  <2>1. req[p].keys[1] \in LongKeys /\ Len(req[p].keys) = 1
    BY <1>4, Arguments DEF BInvs, IInv, ReqsOK
  <2>2. FailsAt(before[p], req[p].keys, <<0>>) = 1
    BY <2>1, CountTooLong
  <2>3. before[p] = store
    BY <1>4 DEF BInvs, BInv, CountSoFar
  <2> QED  BY <1>1, <1>4, <2>2, <2>3 DEF Told
<1> QED  BY <1>2, <1>3, <1>4 DEF Told

\* The checks of the lengths, and a map that is full.
LEMMA FailsRuns ==
  ASSUME BInvs, NEW p \in Procs, KeyTooLong(p) \/ ValueTooLong(p) \/ Full(p), Remember
  PROVE  BInv' /\ \A q \in Procs : Told(q)
<1>1. store' = store /\ IsFiniteSet(Held')
  BY HeldFinite DEF KeyTooLong, ValueTooLong, Full, Unwritten
<1>2. PICK x : Return(p, Err(x))
  BY DEF KeyTooLong, ValueTooLong, Full
<1>3. ASSUME req[p].op = "mset", before[p] # <<>> PROVE Bad(before[p], req[p], step[p])
  <2>1. /\ Key(p) = req[p].keys[step[p]] /\ Val(p) = req[p].vals[step[p]]
        /\ step[p] - 1 \in Nat /\ (step[p] - 1) + 1 = step[p]
    BY <1>3, BatchAt
  <2>2. CASE KeyTooLong(p) \/ ValueTooLong(p)
    BY <2>1, <2>2 DEF KeyTooLong, ValueTooLong, Bad
  <2>3. CASE Full(p)
    <3>1. Key(p) \in Keys /\ Val(p) \notin LongTexts /\ ~Fits(Key(p))
      BY <2>3 DEF Full
    <3>2. IsFiniteSet({k \in Keys : store[k] # Missing})
      BY DEF BInvs, BInv, Held
    <3>3. Cardinality(Held) \in Nat /\ Capacity \in Nat
      BY FS_CardinalityType, ClientAssumption DEF BInvs, BInv
    <3>4. store[Key(p)] = Missing /\ Cardinality({k \in Keys : store[k] # Missing}) >= Capacity
      BY <3>1, <3>3 DEF Fits, Held
    <3> QED  BY <1>3, <2>1, <3>1, <3>2, <3>4, MsetAt, FitsNot, StoreType DEF BInvs
  <2> QED  BY <2>2, <2>3
<1>4. req[p].op \in {"mget", "incr", "decr"} => Key(p) \in LongKeys
  BY DEF KeyTooLong, ValueTooLong, Full
<1> QED  BY <1>1, <1>2, <1>3, <1>4, BadTold, ReturnRuns

\* mset lays one pair more.
LEMMA MsetRuns ==
  ASSUME BInvs, NEW p \in Procs, Mset(p), Remember
  PROVE  BInv' /\ \A q \in Procs : Told(q)
<1> DEFINE r == req[p]
           n == step[p] - 1
           l == Len(req[p].keys)
<1>1. /\ r.op = "mset" /\ Key(p) \in Keys /\ Val(p) \notin LongTexts /\ r # NoReq
      /\ Fits(Key(p)) /\ store' = [store EXCEPT ![Key(p)] = Val(p)]
  BY DEF Mset, Put, NoReq
<1>2. /\ step[p] \in Nat \ {0} /\ n \in Nat /\ n + 1 = step[p] /\ l \in Nat /\ step[p] <= l
      /\ Key(p) = r.keys[n + 1] /\ Val(p) = r.vals[n + 1] /\ Val(p) \in SetVals
  BY <1>1, BatchAt
<1>3. IsFiniteSet(Held')
  BY <1>1, HeldFinite
<1>4. store' \in [Keys -> Stored] /\ Val(p) # Missing
  <2>1. Val(p) \in Stored /\ Val(p) # Missing
    BY <1>1, <1>2, ClientAssumption DEF Stored, Numbers
  <2> QED  BY <1>1, <2>1, StoreType DEF BInvs
<1>5. ASSUME before[p] # <<>>
      PROVE  /\ before[p] \in [Keys -> Stored]
             /\ Done(store', before[p], r, n + 1)
  <2>1. before[p] \in [Keys -> Stored] /\ Done(store, before[p], r, n)
    BY <1>1, <1>5, MsetAt
  <2>2. Laid(store', before[p], r, n + 1)
    BY <1>1, <1>2, <2>1, LaidNext, StoreType DEF BInvs, Done
  <2>3. ~Bad(before[p], r, n + 1)
    <3>1. IsFiniteSet({k \in Keys : store[k] # Missing})
      BY DEF BInvs, BInv, Held
    <3>2. Cardinality(Held) \in Nat /\ Capacity \in Nat
      BY FS_CardinalityType, ClientAssumption DEF BInvs, BInv
    <3>3. ~(/\ store[Key(p)] = Missing
            /\ Cardinality({k \in Keys : store[k] # Missing}) >= Capacity)
      BY <1>1, <3>2 DEF Fits, Held
    <3> QED  BY <1>1, <1>2, <2>1, <3>1, <3>3, FitsNot, StoreType DEF BInvs
  <2>4. \A i \in 1 .. n + 1 : i \in 1 .. n \/ i = n + 1
    BY <1>2
  <2> QED  BY <1>1, <1>2, <1>4, <2>1, <2>2, <2>3, <2>4 DEF Done
<1>6. CASE step[p] = l /\ Return(p, Ok(step[p]))
  <2>1. answer'.ok = TRUE /\ answer'.val = step[p]
    BY <1>6 DEF Return, Ok
  <2>2. ASSUME before[p] # <<>>
        PROVE  /\ FailsAt(before[p], r.keys, r.vals) - 1 = l
               /\ store' = Overlay(before[p], r.keys, r.vals, l)
    <3>1. l + 1 \in 1 .. l + 1 /\ (l + 1) - 1 = l /\ n + 1 = l
      BY <1>2, <1>6
    <3>2. Done(store', before[p], r, l)
      BY <1>5, <2>2, <3>1
    <3>3. FailsAt(before[p], r.keys, r.vals) = l + 1
      BY <1>2, <3>1, <3>2, FailsAtIs DEF Done
    <3>4. store' = Overlay(before[p], r.keys, r.vals, l)
      BY <1>2, <1>4, <3>2, LaidIsOverlay DEF Done
    <3> QED  BY <3>1, <3>3, <3>4
  <2>3. Told(p)
    BY <1>1, <1>6, <2>1, <2>2 DEF Told
  <2> QED  BY <1>3, <1>6, <2>3, ReturnRuns
<1>7. CASE step[p] < l /\ NextStep(p) /\ UNCHANGED <<current, got>>
  <2>1. OnlyCallOf(p) /\ OnlyGot(p) /\ req' = req /\ step'[p] = step[p] + 1 /\ got' = got
    BY <1>7 DEF NextStep, OnlyCallOf, OnlyGot, BInvs, BInv, IInv, ReqsOK
  <2>2. before'[p] = before[p]
    BY <1>1, <1>2, <2>1 DEF Remember
  <2>3. step'[p] - 1 = n + 1
    BY <1>2, <2>1
  <2>4. MsetSoFar(p)'
    BY <1>5, <2>1, <2>2, <2>3 DEF MsetSoFar
  <2>5. Running(p)' /\ Told(p)
    BY <1>1, <2>1, <2>4 DEF Running, Idle, MgetSoFar, CountSoFar, Told
  <2>6. got' \in [Procs -> Seq(Stored)]
    BY <2>1 DEF BInvs, BInv
  <2> QED  BY <1>3, <2>1, <2>5, <2>6, AllRun
<1> QED  BY <1>6, <1>7 DEF Mset

\* All other calls.
LEMMA SinglesRun ==
  ASSUME BInvs, NEW p \in Procs, Remember,
         Get(p) \/ Del(p) \/ Set(p) \/ ReadNumber(p) \/ WriteNumber(p) \/ Flush(p)
  PROVE  BInv' /\ \A q \in Procs : Told(q)
<1>1. req[p].op \notin {"none", "mget", "mset"}
  BY DEF Get, Del, Set, ReadNumber, WriteNumber, Flush
<1>2. Told(p)
  BY <1>1, CountTold DEF Told, Get, Del, Set, Flush, ReadNumber, NextStep
<1>3. IsFiniteSet(Held')
  <2>1. WriteNumber(p) => req[p].keys[1] \in Keys
    BY DEF WriteNumber, BInvs, IInv, ReadsCounted
  <2> QED  BY <2>1, HeldFinite DEF Get, Del, Set, ReadNumber, WriteNumber, Flush, Put, Unwritten
<1>4. CASE \E ans : Return(p, ans)
  BY <1>2, <1>3, <1>4, ReturnRuns
<1>5. CASE ReadNumber(p)
  <2>1. OnlyCallOf(p) /\ OnlyGot(p) /\ req' = req /\ got' = got
    BY <1>5 DEF ReadNumber, NextStep, OnlyCallOf, OnlyGot, BInvs, BInv, IInv, TypeOK, ReqsOK
  <2>2. Running(p)'
    <3>1. /\ store' = store /\ step[p] = 1 /\ req[p] # NoReq /\ step'[p] = 2
          /\ current'[p] = Number(store[Key(p)]) /\ Key(p) = req[p].keys[1]
      BY <1>1, <1>5, Arguments
      DEF ReadNumber, NextStep, Unwritten, NoReq, BInvs, IInv, TypeOK, ReqsOK
    <3>2. before'[p] = before[p]
      BY <2>1, <3>1 DEF Remember
    <3>3. CountSoFar(p)'
      BY <2>1, <3>1, <3>2 DEF CountSoFar, BInvs, BInv
    <3> QED  BY <1>1, <2>1, <3>3 DEF Running, Idle, MsetSoFar, MgetSoFar
  <2>3. got' \in [Procs -> Seq(Stored)]
    BY <2>1 DEF BInvs, BInv
  <2> QED  BY <1>2, <1>3, <2>1, <2>2, <2>3, AllRun
<1> QED  BY <1>4, <1>5 DEF Get, Del, Set, WriteNumber, Flush

\* A call, and an expiry.
LEMMA CallRuns ==
  ASSUME BInvs, NEW p \in Procs, Call(p), Remember
  PROVE  BInv' /\ \A q \in Procs : Told(q)
  BY BeginRuns DEF Call

LEMMA ExpireRuns ==
  ASSUME BInvs, Expire, Remember PROVE BInv' /\ \A q \in Procs : Told(q)
<1>1. UNCHANGED <<req, step, got, current>>
  BY DEF Expire
<1>2. \A q \in Procs : Running(q)' /\ Told(q)
  BY <1>1, OthersRun
<1>3. IsFiniteSet(Held')
  <2>1. expiring \subseteq Keys
    BY DEF BInvs, IInv, TypeOK, Held
  <2> QED  BY <2>1, HeldFinite DEF Expire
<1> QED  BY <1>1, <1>2, <1>3 DEF BInv, BInvs, Running

LEMMA NextRuns ==
  ASSUME BInvs, [Next]_vars PROVE BInv' /\ [\A q \in Procs : Told(q)]_vars
<1>1. CASE UNCHANGED vars
  BY <1>1 DEF vars, BInvs, BInv, Idle, MsetSoFar, MgetSoFar, CountSoFar, Held
<1> QED
  BY <1>1, CallRuns, FailsRuns, MgetRuns, MsetRuns, SinglesRun, ExpireRuns DEF Next

LEMMA InitRuns == Init => BInv
<1> SUFFICES ASSUME Init PROVE BInv
  OBVIOUS
<1>1. Held = {}
  BY DEF Init, Held
<1> QED  BY <1>1, FS_EmptySet, EmptySeq
         DEF Init, BInv, Idle, MsetSoFar, MgetSoFar, CountSoFar, NoReq

\* A call of several steps beside which nobody else changes the map does what it
\* says, whatever its length and however often a key is in it: mset stores the
\* pairs up to the first that fails and no other, and answers their number or the
\* error; mget answers the value of each key in order; incr and decr store and
\* answer the next number, or leave the map alone and answer an error.
THEOREM CallsTakeEffect == Spec => CallEffect
<1>1. Init => BInvs
  BY InitEstablishes, InitRuns DEF BInvs
<1>2. BInvs /\ [Next]_vars => BInvs'
  BY NextKeeps, NextRuns DEF BInvs
<1>3. BInvs /\ [Next]_vars =>
        [\A p \in Procs :
           LET r == req[p] old == before[p] IN
           old # <<>> /\ r # NoReq /\ req'[p] = NoReq =>
             /\ r.op = "mset" =>
                  LET n == FailsAt(old, r.keys, r.vals) - 1 IN
                  /\ store' = Overlay(old, r.keys, r.vals, n)
                  /\ answer'.ok <=> n = Len(r.keys)
                  /\ answer'.ok => answer'.val = n
             /\ r.op = "mget" =>
                  /\ answer'.ok <=> \A i \in DOMAIN r.keys : r.keys[i] \in Keys
                  /\ answer'.ok => answer'.val = [i \in DOMAIN r.keys |-> old[r.keys[i]]]
             /\ r.op \in {"incr", "decr"} =>
                  LET n == FailsAt(old, r.keys, <<0>>)
                      next == Counted(r.op, Number(old[r.keys[1]])) IN
                  /\ answer'.ok <=> n = 2
                  /\ answer'.ok => /\ answer'.val = next
                                   /\ store' = [old EXCEPT ![r.keys[1]] = next]
                  /\ ~answer'.ok => store' = old]_vars
  BY NextRuns DEF Told
<1> QED  BY <1>1, <1>2, <1>3, PTL DEF Spec, CallEffect

=============================================================================
