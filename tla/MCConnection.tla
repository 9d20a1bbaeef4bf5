---------------------------- MODULE MCConnection ----------------------------
(***************************************************************************)
(* Connection with the parser, the encoder and the commands of the server, *)
(* for a peer that stays and one that flushes and may fail.                *)
(***************************************************************************)
EXTENDS Connection, FiniteSets, SequencesExt

CONSTANTS c1, c2, MaxKeyLen, MaxValLen, Capacity, W

C == INSTANCE Commands

MCParse(buf) == C!Parse(buf)
MCEncode(reply) == C!Encode(reply)
MCDispatch(command, called, s) == C!Dispatch(command, called, s)
MCEmpty == C!Empty
MCError == C!err("protocol error")
MCNoValue == C!Unfinished

\* Commands as a peer writes them: arrays of bulk strings.
Word(s) == <<C!Data(s)>>
N(n) == <<C!Digits(n)>>
Bulk(data) == <<C!Num("$", Len(data)), C!Eol>> \o data \o <<C!Eol>>
Cmd(words) ==
  <<C!Num("*", Len(words)), C!Eol>> \o FlattenSeq([i \in DOMAIN words |-> Bulk(words[i])])

k == Word("k")
j == Word("j")
long == <<C!Data("k"), C!Data("k")>>
breaking == <<C!Data("v"), C!Eol>>  \* a value with a line break

\* Another process may set a key that is not there, to the largest number, and the
\* clock may remove an entry that does not live for ever.
MCOthers(s) ==
  {C!Without(s, {x}) : x \in {y \in DOMAIN s : s[y].ttl > 0}}
    \cup {C!Set(s, k, N(W - 1), 0).store : x \in {k} \ DOMAIN s}

SetK == Cmd(<<Word("SET"), k, breaking, Word("PX"), N(1001)>>)
Ping == Cmd(<<Word("PING")>>)
Junk == <<C!Data("x")>>
Nested == <<C!Num("*", 2), C!Eol, C!Num("*", 0), C!Eol, C!Num("$", -1), C!Eol>>

MCStreams1 == {
  SetK \o Cmd(<<Word("MGET"), k, j>>),
  Cmd(<<Word("MSET"), k, N(0), long, j>>) \o Cmd(<<Word("INCR"), k>>),
  Cmd(<<Word("SET"), k, N(1), Word("EX")>>) \o Cmd(<<Word("DECR"), k>>),
  Cmd(<<Word("DEL"), k, k>>) \o Cmd(<<Word("EXISTS"), k, k>>),
  Cmd(<<Word("GET"), long>>) \o Cmd(<<Word("GET"), k>>),
  Cmd(<<Word("TTL"), k>>) \o Cmd(<<Word("INFO")>>) \o Cmd(<<Word("COMMAND")>>),
  Ping \o Junk \o Ping,
  Cmd(<<Word("NOPE")>>) \o Nested \o SubSeq(SetK, 1, 7)}
MCStreams == (c1 :> MCStreams1) @@ (c2 :> {Cmd(<<Word("FLUSH")>>)})

MCBytes == UNION {Range(s) : s \in UNION Range(MCStreams)}

-----------------------------------------------------------------------------

\* What has been written to the peer reads back as the answers, one for each
\* command executed until the first protocol error.
AnswersReadBack ==
  \A c \in Conns :
    /\ C!ParseAll(out[c]) = replies[c]
    /\ clean[c] => Len(done[c]) = Len(replies[c]) + (IF val[c] = NoValue THEN 0 ELSE 1)

\* Answers and effects, whatever other connections and the clock do to the store
\* between two calls of the map: an error other than that of an MSET has left the
\* store alone; DEL has removed each key named and answers how many entries it
\* removed itself; EXISTS answers how many of the keys named it found; the answer
\* of INCR and DECR is what they have stored, as an i64; and an entry that PX
\* gives p milliseconds gets no less, and less than a second more.
AnswerTrue ==
  \A c \in Conns : pc[c] = "write" /\ C!IsCommand(val[c]) =>
    LET name == C!Verb(val[c])
        args == C!Args(val[c])
        calls == DOMAIN turns[c]
        Before(i) == turns[c][i].before
        After(i) == turns[c][i].after
        Answers(names, type) == name \in names /\ response[c].type = type
    IN
    /\ response[c].type = "error" /\ name # "MSET" =>
         \A i \in calls : After(i) = Before(i)
    /\ Answers({"DEL"}, "integer") =>
         /\ \A i \in DOMAIN args : args[i] \notin DOMAIN After(i)
         /\ response[c].n = Cardinality({i \in calls : After(i) # Before(i)})
    /\ Answers({"EXISTS"}, "integer") =>
         response[c].n = Cardinality({i \in DOMAIN args : args[i] \in DOMAIN Before(i)})
    /\ Answers({"INCR", "DECR"}, "integer") =>
         response[c].n % W = C!Number(After(2)[args[1]].val)
    /\ /\ Answers({"SET"}, "simple")
       /\ Len(args) = 4 /\ args[3] = <<C!Data("PX")>> /\ args[4][1].n + 999 < W
       => After(1)[args[1]].ttl * 1000 - args[4][1].n \in 0 .. 999

=============================================================================
