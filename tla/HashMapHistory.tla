--------------------------- MODULE HashMapHistory ---------------------------
(***************************************************************************)
(* HashMap with a history variable, to say what an answer of the map means *)
(* in terms of what the map held for the key while the call ran.           *)
(***************************************************************************)
EXTENDS HashMap

VARIABLES
  seen    \* seen[p]: the moments of p's running call, as its key saw them

hvars == <<vars, seen>>

\* The slots where a lookup of k finds an entry that counts.
Live(k) == {i \in Slots : /\ state[i] = STATE_OCCUPIED
                          /\ key_buf[i] = Both(k)
                          /\ fingerprint[i] = Fp[k]
                          /\ ~IsExpired(i)}

Moment(k) == [held |-> Live(k) # {},
              full |-> \A i \in Slots : state[i] = STATE_OCCUPIED]

Running(p) == pc[p] \notin {"idle", "flush"}

HInit == Init /\ seen = [p \in Procs |-> {}]

Record ==
  seen' = [p \in Procs |->
    IF Running(p)' THEN seen[p] \cup {Moment(arg[p].key)'} ELSE {}]

HNext == Next /\ Record

HSpec == HInit /\ [][HNext]_hvars

-----------------------------------------------------------------------------

\* Process p answers its call with one of the results.
Answers(p, results) == Running(p) /\ pc'[p] = "idle" /\ ret'[p] \in results

\* At some moment of p's call key k had no entry.
WasAbsent(p) == \E m \in seen[p] : ~m.held

\* With one process calling set, "no such key" is never invented: a GET or DEL
\* that misses and a SET that inserts ran while, at some moment before, no live
\* entry of the key existed; a SET that updates in place saw one; and when a
\* GET has answered Expired the entry is gone, if it was not before.
\* Tombstones, reused slots and keys deleted and set again behind the scan
\* never hide a key that was there throughout.
AnswerSound ==
  [][\A p \in Procs :
       /\ Answers(p, {"NotFound", "Inserted"}) => WasAbsent(p)
       /\ Answers(p, {"Expired"}) =>
            WasAbsent(p) \/ \E k \in {arg[p].key} : ~Moment(k)'.held
       /\ Answers(p, {"Updated"}) => \E m \in seen[p] : m.held]_hvars

\* With one process calling set, SET refuses a key only if at some moment of
\* the call all slots were occupied and none by that key.
FullSound ==
  [][\A p \in Procs : Answers(p, {"Full"}) =>
       \E m \in seen[p] : m.full /\ ~m.held]_hvars

=============================================================================
