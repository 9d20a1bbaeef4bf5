------------------------------- MODULE Parser -------------------------------
(***************************************************************************)
(* The parser of the wire protocol (src/server/resp.rs).  A piece of the   *)
(* wire is the type byte of a line with the text behind it, a run of data, *)
(* or the end of a line; a cut inside a piece leaves the parser as         *)
(* undecided as one before it.                                             *)
(***************************************************************************)
EXTENDS Integers, Sequences, SequencesExt

Piece == [type : STRING, n : Int, text : STRING]

Num(t, n) == [type |-> t, n |-> n, text |-> ""]
Txt(t, s) == [type |-> t, n |-> 0, text |-> s]
Eol == Txt("eol", "crlf")

\* RespValue.  The line of a simple string or an error begins with its type.
SimpleString(line) == [type |-> "simple", line |-> line]
Error(line) == [type |-> "error", line |-> line]
Integer(n) == [type |-> "integer", n |-> n]
BulkString(data) == [type |-> "bulk", data |-> data]
Nil == [type |-> "nil"]
Array(items) == [type |-> "array", items |-> items]

-----------------------------------------------------------------------------

Incomplete == [kind |-> "incomplete"]
ProtocolError == [kind |-> "error"]
Parsed(val, consumed) == [kind |-> "value", val |-> val, consumed |-> consumed]

\* The header of an array: count items follow.
Header(count, consumed) == [kind |-> "array", count |-> count, consumed |-> consumed]

From(buf, offset) == SubSeq(buf, offset + 1, Len(buf))

\* parse_line: what is before the first end of line.
Line(buf) == SubSeq(buf, 1, SelectInSeq(buf, LAMBDA b : b = Eol) - 1)

IsNumber(line) == Len(line) = 1 /\ line[1].text = ""

ParseBulk(buf, len, header) ==
  IF len < 0 THEN Parsed(Nil, header)
  ELSE LET needed == header + len + 1 IN
       IF Len(buf) < needed THEN Incomplete
       ELSE Parsed(BulkString(SubSeq(buf, header + 1, header + len)), needed)

\* parse, but for the items of an array.
ParseHead(buf) ==
  IF buf = <<>> THEN Incomplete
  ELSE IF Head(buf).type \notin {"+", "-", ":", "$", "*"} THEN ProtocolError
  ELSE IF ~Contains(buf, Eol) THEN Incomplete
  ELSE LET line == Line(buf)
           header == Len(line) + 1
       IN CASE Head(buf).type = "+" -> Parsed(SimpleString(line), header)
            [] Head(buf).type = "-" -> Parsed(Error(line), header)
            [] ~IsNumber(line) /\ Head(buf).type \in {":", "$", "*"} -> ProtocolError
            [] OTHER -> LET n == line[1].n IN
                 CASE Head(buf).type = ":" -> Parsed(Integer(n), header)
                   [] Head(buf).type = "$" -> ParseBulk(buf, n, header)
                   [] Head(buf).type = "*" ->
                        IF n < 0 THEN Parsed(Nil, header) ELSE Header(n, header)

\* One turn of the loop of parse_array; at[i] is parse of the buffer from i on.
WithItem(sofar, at) ==
  IF sofar.kind # "value" THEN sofar
  ELSE LET r == at[sofar.consumed] IN
       IF r.kind # "value" THEN r
       ELSE Parsed(Append(sofar.val, r.val), sofar.consumed + r.consumed)

\* The loop: count items from the offset start on.
ParseItems(at, start, count) ==
  LET items[k \in 0 .. count] ==
        IF k = 0 THEN Parsed(<<>>, start) ELSE WithItem(items[k - 1], at)
  IN items[count]

ParseFrom(buf, offset, at) ==
  LET head == ParseHead(From(buf, offset)) IN
  IF head.kind # "array" THEN head
  ELSE LET items == ParseItems(at, offset + head.consumed, head.count) IN
       IF items.kind # "value" THEN items
       ELSE Parsed(Array(items.val), items.consumed - offset)

Parse(buf) ==
  LET at[offset \in 0 .. Len(buf)] == ParseFrom(buf, offset, at) IN at[0]

=============================================================================
