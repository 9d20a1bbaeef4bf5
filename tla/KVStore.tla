------------------------------ MODULE KVStore ------------------------------
(***************************************************************************)
(* What the map promises to the one process that writes to it: a           *)
(* dictionary of at most Capacity keys, whose operations take effect at    *)
(* one instant between call and answer, and whose entries expire.          *)
(***************************************************************************)
EXTENDS Integers, FiniteSets

CONSTANTS
  Keys, Vals, NoKey, NoVal, \* as in HashMap
  Capacity,
  Ttls

VARIABLES
  dict,   \* dict[k]: the entry of k, or Missing
  now,    \* the clock
  req,    \* the writer's running call, or None
  phase,  \* "called" until the call takes effect, then what it did
  answer  \* the answer to the last call

kvars == <<dict, now, req, phase, answer>>

Missing == [val |-> NoVal, expiry |-> 0]
None == [op |-> "none", key |-> NoKey, val |-> NoVal, expiry |-> 0]
Unanswered == [result |-> "None", val |-> NoVal]

Held == {k \in Keys : dict[k] # Missing}
Expired(k) == dict[k].expiry # 0 /\ now >= dict[k].expiry

Init ==
  /\ dict = [k \in Keys |-> Missing]
  /\ now = 1
  /\ req = None
  /\ phase = "idle"
  /\ answer = Unanswered

Invoke(op, k, v, expiry) ==
  /\ phase = "idle"
  /\ phase' = "called"
  /\ req' = [op |-> op, key |-> k, val |-> v, expiry |-> expiry]
  /\ answer' = Unanswered
  /\ UNCHANGED <<dict, now>>

Call ==
  \/ \E op \in {"get", "del"}, k \in Keys : Invoke(op, k, NoVal, 0)
  \/ \E k \in Keys, v \in Vals, ttl \in Ttls :
       Invoke("set", k, v, IF ttl = 0 THEN 0 ELSE now + ttl)
  \/ Invoke("flush", NoKey, NoVal, 0)

\* The call takes effect: it changes the dictionary and is in phase did.
Effect(op, did, newDict) ==
  /\ phase = "called" /\ req.op = op
  /\ phase' = did
  /\ dict' = newDict
  /\ UNCHANGED <<now, req, answer>>

Entry == [val |-> req.val, expiry |-> req.expiry]

Insert ==
  /\ req.key \in Keys \ Held
  /\ Cardinality(Held) < Capacity
  /\ Effect("set", "inserted", [dict EXCEPT ![req.key] = Entry])

Update ==
  /\ req.key \in Held
  /\ Effect("set", "updated", [dict EXCEPT ![req.key] = Entry])

Remove ==
  /\ req.key \in Held
  /\ Effect("del", "removed", [dict EXCEPT ![req.key] = Missing])

\* Only an entry that has not expired is found.
Find ==
  /\ req.key \in Held /\ ~Expired(req.key)
  /\ Effect("get", "found", dict)

Clear == Effect("flush", "cleared", [k \in Keys |-> Missing])

\* A SET that finds its key expired drops the entry before it inserts.
Drop ==
  /\ phase = "called" /\ req.op = "set"
  /\ req.key \in Held /\ Expired(req.key)
  /\ dict' = [dict EXCEPT ![req.key] = Missing]
  /\ UNCHANGED <<now, req, phase, answer>>

Answer(result, val) ==
  /\ answer' = [result |-> result, val |-> val]
  /\ phase' = "idle"
  /\ req' = None
  /\ UNCHANGED now

Respond ==
  \/ phase = "inserted" /\ Answer("Inserted", NoVal) /\ UNCHANGED dict
  \/ phase = "updated" /\ Answer("Updated", NoVal) /\ UNCHANGED dict
  \/ phase = "removed" /\ Answer("Deleted", NoVal) /\ UNCHANGED dict
  \/ phase = "cleared" /\ Answer("Flushed", NoVal) /\ UNCHANGED dict
  \/ phase = "found" /\ Answer("Found", dict[req.key].val) /\ UNCHANGED dict

\* Answers of calls that change nothing.
Miss ==
  /\ phase = "called" /\ req.op \in {"get", "del"}
  /\ req.key \notin Held
  /\ Answer("NotFound", NoVal)
  /\ UNCHANGED dict

\* Other keys hold every place, expired or not.
Refuse ==
  /\ phase = "called" /\ req.op = "set"
  /\ req.key \notin Held /\ Cardinality(Held) = Capacity
  /\ Answer("Full", NoVal)
  /\ UNCHANGED dict

\* A GET of an expired entry drops it.
Expire ==
  /\ phase = "called" /\ req.op = "get"
  /\ req.key \in Held /\ Expired(req.key)
  /\ dict' = [dict EXCEPT ![req.key] = Missing]
  /\ Answer("Expired", NoVal)

Tick ==
  /\ now' = now + 1
  /\ UNCHANGED <<dict, req, phase, answer>>

Next ==
  \/ Call
  \/ Insert \/ Update \/ Remove \/ Find \/ Clear \/ Drop
  \/ Respond \/ Miss \/ Refuse \/ Expire
  \/ Tick

Spec == Init /\ [][Next]_kvars

=============================================================================
