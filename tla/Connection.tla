----------------------------- MODULE Connection -----------------------------
(***************************************************************************)
(* handle_client (src/server/mod.rs): one task for each connection reads   *)
(* what has arrived, however the network has cut it, parses every complete *)
(* command that is there, executes it, call of the map by call of the map, *)
(* and answers it before the next.  Parser, encoder and commands are       *)
(* parameters.                                                             *)
(***************************************************************************)
EXTENDS Integers, Sequences

CONSTANTS
  Conns,         \* connections
  Reliable,      \* those whose peer stays until it has all answers
  Bytes,         \* pieces of the wire
  Streams,       \* Streams[c]: all that the peer of c may write, in one order
  EmptyStore,
  ReadBufSize,   \* READ_BUF_SIZE
  NoValue,       \* stands for no command and no answer
  ErrorReply,    \* the answer to a protocol error
  parse(_), encode_to_vec(_),   \* as in the code
  dispatch_command(_, _, _),    \* one call of the map, after what others returned
  Others(_)      \* what other processes, or the clock, may make of a store

Slice(s, from, to) == SubSeq(s, from + 1, to)

\* More input never changes what the parser has made of the beginning.
Stable(b, more) ==
  /\ parse(b).kind \in {"value", "error", "incomplete"}
  /\ parse(b).kind = "value" => parse(b).consumed \in 1 .. Len(b)
  /\ parse(b).kind # "incomplete" => parse(b \o more) = parse(b)

ASSUME ConnectionAssumption ==
  /\ Reliable \subseteq Conns
  /\ Streams \in [Conns -> SUBSET Seq(Bytes)]
  /\ ReadBufSize \in Nat \ {0}

ASSUME ParseAssumption ==
  \A c \in Conns : \A s \in Streams[c] :
    \A i \in 0 .. Len(s) : \A j \in i .. Len(s) : \A k \in j .. Len(s) :
      Stable(Slice(s, i, j), Slice(s, j, k))

VARIABLES
  pc,        \* where the task is, or "closed"
  stream,    \* all that the peer writes
  taken,     \* how much of it has been read
  pending, offset,  \* as in the code
  val, results,  \* the command, and what its calls of the map have returned
  response,  \* the answer being written
  store,     \* the arena behind the client
  out,       \* history: what has been written to the peer
  done,      \* history: the commands executed, with their places in the stream
  replies,   \* history: the answers written
  clean,     \* history: no protocol error so far
  turns      \* history: the store before and after each call of the command

vars == <<pc, stream, taken, pending, offset, val, results, response, store, out, done,
          replies, clean, turns>>

-----------------------------------------------------------------------------
\* A command and its answer go out of scope.
Dropped(c) ==
  /\ val' = [val EXCEPT ![c] = NoValue]
  /\ results' = [results EXCEPT ![c] = <<>>]
  /\ response' = [response EXCEPT ![c] = NoValue]
  /\ turns' = [turns EXCEPT ![c] = <<>>]

\* What a task has at its start.
Fresh(c, s) ==
  /\ stream' = [stream EXCEPT ![c] = s]
  /\ taken' = [taken EXCEPT ![c] = 0]
  /\ pending' = [pending EXCEPT ![c] = <<>>]
  /\ offset' = [offset EXCEPT ![c] = 0]
  /\ Dropped(c)
  /\ out' = [out EXCEPT ![c] = <<>>]
  /\ done' = [done EXCEPT ![c] = <<>>]
  /\ replies' = [replies EXCEPT ![c] = <<>>]
  /\ clean' = [clean EXCEPT ![c] = TRUE]
  /\ UNCHANGED store

\* run_server has accepted a connection and spawned its task.
Accept(c, s) ==
  /\ pc[c] = "closed"
  /\ pc' = [pc EXCEPT ![c] = "read"]
  /\ Fresh(c, s)

\* The task returns, and what it had is dropped.
Ends(c) ==
  /\ pc' = [pc EXCEPT ![c] = "closed"]
  /\ Fresh(c, <<>>)

\* read returns n bytes.
Read(c, n) ==
  /\ pc[c] = "read"
  /\ n \in 1 .. ReadBufSize /\ taken[c] + n <= Len(stream[c])
  /\ pc' = [pc EXCEPT ![c] = "parse"]
  /\ taken' = [taken EXCEPT ![c] = @ + n]
  /\ pending' = [pending EXCEPT ![c] = @ \o Slice(stream[c], taken[c], taken[c] + n)]
  /\ offset' = [offset EXCEPT ![c] = 0]
  /\ UNCHANGED <<stream, val, results, response, store, out, done, replies, clean, turns>>

\* read returns nothing or an error.
Disconnect(c) ==
  /\ pc[c] = "read"
  /\ c \in Reliable => taken[c] = Len(stream[c])
  /\ Ends(c)

Rest(c) == Slice(pending[c], offset[c], Len(pending[c]))

\* Where in the stream the parser is.
Place(c) == taken[c] - Len(Rest(c))

\* A complete command is there.
Execute(c) ==
  /\ pc[c] = "parse" /\ parse(Rest(c)).kind = "value"
  /\ pc' = [pc EXCEPT ![c] = "run"]
  /\ LET command == parse(Rest(c)).val IN
     /\ val' = [val EXCEPT ![c] = command]
     /\ done' = [done EXCEPT ![c] = Append(@, [at |-> Place(c), val |-> command])]
  /\ offset' = [offset EXCEPT ![c] = @ + parse(Rest(c)).consumed]
  /\ UNCHANGED <<stream, taken, pending, results, response, store, out, replies, clean,
                 turns>>

\* The next call of the map, or the answer of a command that makes none.
Turn(c) ==
  /\ pc[c] = "run"
  /\ LET t == dispatch_command(val[c], results[c], store) IN
     /\ pc' = [pc EXCEPT ![c] = IF t.reply = NoValue THEN "run" ELSE "write"]
     /\ results' = [results EXCEPT ![c] = t.results]
     /\ response' = [response EXCEPT ![c] = t.reply]
     /\ store' = t.store
     /\ turns' = [turns EXCEPT ![c] = Append(@, [before |-> store, after |-> t.store])]
  /\ UNCHANGED <<stream, taken, pending, offset, val, out, done, replies, clean>>

\* Fault: what has been parsed stays in the buffer.
DrainedNothing(c) == pending[c]

Drained(c) == Rest(c)

\* The rest needs more data.
NeedMore(c) ==
  /\ pc[c] = "parse" /\ parse(Rest(c)).kind = "incomplete"
  /\ pc' = [pc EXCEPT ![c] = "read"]
  /\ pending' = [pending EXCEPT ![c] = Drained(c)]
  /\ offset' = [offset EXCEPT ![c] = 0]
  /\ UNCHANGED <<stream, taken, val, results, response, store, out, done, replies, clean,
                 turns>>

\* A protocol error is answered.
Reject(c) ==
  /\ pc[c] = "parse" /\ parse(Rest(c)).kind = "error"
  /\ pc' = [pc EXCEPT ![c] = "write_error"]
  /\ response' = [response EXCEPT ![c] = ErrorReply]
  /\ clean' = [clean EXCEPT ![c] = FALSE]
  /\ UNCHANGED <<stream, taken, pending, offset, val, results, store, out, done, replies,
                 turns>>

\* write_all has written the answer.
Written(c) ==
  /\ out' = [out EXCEPT ![c] = @ \o encode_to_vec(response[c])]
  /\ replies' = [replies EXCEPT ![c] = Append(@, response[c])]
  /\ Dropped(c)

\* Fault: the loop ends after one command.
AfterAnswerRead == "read"

AfterAnswer == "parse"

Reply(c) ==
  /\ pc[c] = "write"
  /\ Written(c)
  /\ pc' = [pc EXCEPT ![c] = AfterAnswer]
  /\ UNCHANGED <<stream, taken, pending, offset, store, done, clean>>

\* Fault: the offset survives the buffer.
ClearPendingOnly(c) == pending' = [pending EXCEPT ![c] = <<>>] /\ UNCHANGED offset

Clear(c) ==
  /\ pending' = [pending EXCEPT ![c] = <<>>]
  /\ offset' = [offset EXCEPT ![c] = 0]

\* Whatever had been read after a protocol error is thrown away.
ReplyError(c) ==
  /\ pc[c] = "write_error"
  /\ Written(c)
  /\ Clear(c)
  /\ pc' = [pc EXCEPT ![c] = "read"]
  /\ UNCHANGED <<stream, taken, store, done, clean>>

\* write_all fails.
WriteFails(c) ==
  /\ pc[c] \in {"write", "write_error"} /\ c \notin Reliable
  /\ Ends(c)

\* The arena changes behind the server.
Outside ==
  /\ store' \in Others(store)
  /\ UNCHANGED <<pc, stream, taken, pending, offset, val, results, response, out, done,
                 replies, clean, turns>>

-----------------------------------------------------------------------------
Init ==
  /\ pc = [c \in Conns |-> "closed"]
  /\ stream = [c \in Conns |-> <<>>]
  /\ taken = [c \in Conns |-> 0]
  /\ pending = [c \in Conns |-> <<>>]
  /\ offset = [c \in Conns |-> 0]
  /\ val = [c \in Conns |-> NoValue]
  /\ results = [c \in Conns |-> <<>>]
  /\ response = [c \in Conns |-> NoValue]
  /\ store = EmptyStore
  /\ out = [c \in Conns |-> <<>>]
  /\ done = [c \in Conns |-> <<>>]
  /\ replies = [c \in Conns |-> <<>>]
  /\ clean = [c \in Conns |-> TRUE]
  /\ turns = [c \in Conns |-> <<>>]

\* A step of the task on what it has.
Step(c) == Execute(c) \/ Turn(c) \/ NeedMore(c) \/ Reject(c) \/ Reply(c) \/ ReplyError(c)
Receive(c) == \E n \in 1 .. ReadBufSize : Read(c, n)

Next ==
  \/ \E c \in Conns :
       \/ \E s \in Streams[c] : Accept(c, s)
       \/ Step(c) \/ Receive(c) \/ Disconnect(c) \/ WriteFails(c)
  \/ Outside

Spec == Init /\ [][Next]_vars

\* A task that need not wait for its peer.
Busy(c) == pc[c] \in {"parse", "run", "write", "write_error"}

\* The runtime polls the task, and a reliable peer writes and reads.  Step(c) is
\* enabled when the task is busy, so the first part is its weak fairness.
FairSpec ==
  /\ Spec
  /\ \A c \in Reliable :
       /\ []<>~Busy(c) \/ []<><<Step(c)>>_vars
       /\ WF_vars(Receive(c))

-----------------------------------------------------------------------------
(* Properties.                                                             *)

TypeOK ==
  /\ pc \in [Conns -> {"closed", "read", "parse", "run", "write", "write_error"}]
  /\ \A c \in Conns :
       /\ stream[c] \in Streams[c] \cup {<<>>}
       /\ taken[c] \in 0 .. Len(stream[c])
       /\ pending[c] \in Seq(Bytes) /\ offset[c] \in 0 .. Len(pending[c])
       /\ clean[c] \in BOOLEAN

\* The parser's view of the whole stream at the place of the n-th command.
Whole(c, n) == parse(Slice(stream[c], done[c][n].at, Len(stream[c])))

\* Up to a protocol error the commands executed are those of the stream read as
\* a whole, from its first byte on and without a gap, however it was cut.
AsWhole ==
  \A c \in Conns : clean[c] =>
    \A n \in DOMAIN done[c] :
      /\ Whole(c, n).kind = "value" /\ Whole(c, n).val = done[c][n].val
      /\ done[c][n].at =
           IF n = 1 THEN 0 ELSE done[c][n - 1].at + Whole(c, n - 1).consumed

\* All that a reliable peer has written is read and answered, but for the
\* beginning of a command.
AllAnswered ==
  \A c \in Reliable :
    pc[c] # "closed" ~>
      /\ pc[c] = "read" /\ taken[c] = Len(stream[c])
      /\ parse(pending[c]).kind = "incomplete"

=============================================================================
