-------------------------------- MODULE Resp --------------------------------
(***************************************************************************)
(* The wire protocol (src/server/resp.rs) around its parser: parse_all,    *)
(* the encoder, and what makes a value a command.                          *)
(***************************************************************************)
EXTENDS Parser

Data(s) == Txt("data", s)
Digits(n) == Num("data", n)

ok == SimpleString(<<Txt("+", "OK")>>)
pong == SimpleString(<<Txt("+", "PONG")>>)
err(msg) == Error(<<Txt("-", msg)>>)

\* parse_all, as far as it gets.
RECURSIVE ParseAll(_)
ParseAll(buf) ==
  LET r == Parse(buf) IN
  IF r.kind = "value" THEN <<r.val>> \o ParseAll(From(buf, r.consumed)) ELSE <<>>

-----------------------------------------------------------------------------
(* Encoder.                                                                *)

RECURSIVE Encode(_)

\* Fault: the header of an array counts one item too many.
EncodeArrayLonger(items) ==
  <<Num("*", Len(items) + 1), Eol>>
    \o FlattenSeq([i \in DOMAIN items |-> Encode(items[i])])

EncodeArray(items) ==
  <<Num("*", Len(items)), Eol>> \o FlattenSeq([i \in DOMAIN items |-> Encode(items[i])])

Encode(val) ==
  CASE val.type \in {"simple", "error"} -> Append(val.line, Eol)
    [] val.type = "integer" -> <<Num(":", val.n), Eol>>
    [] val.type = "bulk" -> <<Num("$", Len(val.data)), Eol>> \o val.data \o <<Eol>>
    [] val.type = "nil" -> <<Num("$", -1), Eol>>
    [] val.type = "array" -> EncodeArray(val.items)

-----------------------------------------------------------------------------
(* Commands.                                                               *)

\* extract_command.  Upper and lower case are not told apart.
IsCommand(val) ==
  /\ val.type = "array" /\ val.items # <<>>
  /\ \A i \in DOMAIN val.items : val.items[i].type = "bulk"
Name(val) == val.items[1].data
Verb(val) ==
  IF Len(Name(val)) = 1 /\ Name(val)[1].type = "data" THEN Name(val)[1].text ELSE ""
Args(val) == [i \in 1 .. Len(val.items) - 1 |-> val.items[i + 1].data]

=============================================================================
