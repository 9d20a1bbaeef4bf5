-------------------------- MODULE ConnectionProofs --------------------------
(***************************************************************************)
(* Proofs about Connection, for any number of connections, any streams,    *)
(* any commands and any parser that does not change its mind when more     *)
(* input arrives: the type invariant, and that commands are executed as    *)
(* the uncut stream has them.  The parser of the server is such a parser.  *)
(***************************************************************************)
EXTENDS Connection, Parser, SequenceTheorems, WellFoundedInduction, TLAPS

States == {"closed", "read", "parse", "run", "write", "write_error"}

\* Where the next command begins.
NextPlace(c) ==
  IF done[c] = <<>> THEN 0
  ELSE done[c][Len(done[c])].at + Whole(c, Len(done[c])).consumed

Typed(c) ==
  /\ stream[c] \in Streams[c] \cup {<<>>}
  /\ taken[c] \in 0 .. Len(stream[c])
  /\ pending[c] \in Seq(Bytes) /\ offset[c] \in 0 .. Len(pending[c])
  /\ clean[c] \in BOOLEAN
  /\ \E S : done[c] \in Seq(S)

\* The buffer ends where the part of the stream ends that has been read.
Located(c) ==
  /\ pc[c] # "closed" => stream[c] \in Streams[c]
  /\ pc[c] = "read" => offset[c] = 0
  /\ pc[c] = "write_error" => ~clean[c]
  /\ Len(Rest(c)) <= taken[c]
  /\ Rest(c) = Slice(stream[c], Place(c), taken[c])
  /\ clean[c] => Place(c) = NextPlace(c)

\* AsWhole of one connection.
Reads(c) ==
  clean[c] =>
    \A n \in DOMAIN done[c] :
      /\ Whole(c, n).kind = "value" /\ Whole(c, n).val = done[c][n].val
      /\ done[c][n].at =
           IF n = 1 THEN 0 ELSE done[c][n - 1].at + Whole(c, n - 1).consumed

Good(c) == Typed(c) /\ Located(c) /\ Reads(c)

Functions ==
  /\ pc \in [Conns -> States]
  /\ DOMAIN stream = Conns /\ DOMAIN taken = Conns
  /\ DOMAIN pending = Conns /\ DOMAIN offset = Conns
  /\ DOMAIN done = Conns /\ DOMAIN clean = Conns

IInv == Functions /\ \A c \in Conns : Good(c)

-----------------------------------------------------------------------------
(* Slices.                                                                 *)

LEMMA SliceType ==
  ASSUME NEW s \in Seq(Bytes), NEW i \in 0 .. Len(s), NEW j \in i .. Len(s)
  PROVE  /\ Slice(s, i, j) \in Seq(Bytes)
         /\ Len(Slice(s, i, j)) = j - i
         /\ \A n \in 1 .. j - i : Slice(s, i, j)[n] = s[i + n]
<1>1. \A n \in i + 1 .. j : s[n] \in Bytes
  BY ElementOfSeq, LenProperties
<1>2. /\ SubSeq(s, i + 1, j) \in Seq(Bytes)
      /\ Len(SubSeq(s, i + 1, j)) = IF i + 1 <= j THEN j - (i + 1) + 1 ELSE 0
      /\ \A n \in 1 .. j - (i + 1) + 1 : SubSeq(s, i + 1, j)[n] = s[i + 1 + n - 1]
  BY <1>1, LenProperties, SubSeqProperties
<1> QED
  BY <1>2, LenProperties DEF Slice

LEMMA SliceWhole ==
  ASSUME NEW s \in Seq(Bytes)
  PROVE  Slice(s, 0, Len(s)) = s
BY SubSeqFull DEF Slice

LEMMA SliceNothing ==
  ASSUME NEW s \in Seq(Bytes), NEW i \in 0 .. Len(s)
  PROVE  Slice(s, i, i) = <<>>
BY LenProperties, SubSeqEmpty DEF Slice

\* Two slices that meet are one.
LEMMA SliceConcat ==
  ASSUME NEW s \in Seq(Bytes), NEW i \in 0 .. Len(s), NEW j \in i .. Len(s),
         NEW k \in j .. Len(s)
  PROVE  Slice(s, i, j) \o Slice(s, j, k) = Slice(s, i, k)
<1> DEFINE a == Slice(s, i, j)
           b == Slice(s, j, k)
           u == Slice(s, i, k)
<1>1. /\ a \in Seq(Bytes) /\ Len(a) = j - i /\ \A n \in 1 .. j - i : a[n] = s[i + n]
      /\ b \in Seq(Bytes) /\ Len(b) = k - j /\ \A n \in 1 .. k - j : b[n] = s[j + n]
      /\ u \in Seq(Bytes) /\ Len(u) = k - i /\ \A n \in 1 .. k - i : u[n] = s[i + n]
  <2>1. j \in 0 .. Len(s) /\ k \in i .. Len(s)
    BY LenProperties
  <2> QED
    BY <2>1, SliceType
<1> HIDE DEF a, b, u
<1>2. /\ a \o b \in Seq(Bytes) /\ Len(a \o b) = Len(a) + Len(b)
      /\ \A n \in 1 .. Len(a) + Len(b) :
           (a \o b)[n] = IF n <= Len(a) THEN a[n] ELSE b[n - Len(a)]
  BY <1>1, ConcatProperties
<1>3. Len(a \o b) = Len(u)
  BY <1>1, <1>2, LenProperties
<1>4. ASSUME NEW n \in 1 .. Len(a \o b)
      PROVE  (a \o b)[n] = u[n]
  <2>1. n \in 1 .. k - i /\ u[n] = s[i + n]
    BY <1>1, <1>3
  <2>2. CASE n <= j - i
    BY <1>1, <1>2, <2>1, <2>2
  <2>3. CASE n > j - i
    <3>1. n - (j - i) \in 1 .. k - j
      BY <2>1, <2>3, LenProperties
    <3>2. b[n - (j - i)] = s[j + (n - (j - i))]
      BY <1>1, <3>1
    <3>3. j + (n - (j - i)) = i + n
      BY <2>1, LenProperties
    <3>4. (a \o b)[n] = b[n - Len(a)]
      <4>1. n \in 1 .. Len(a) + Len(b)
        BY <1>2
      <4>2. ~(n <= Len(a))
        BY <1>1, <2>1, <2>3, LenProperties
      <4> QED
        BY <1>2, <4>1, <4>2
    <3> QED
      BY <1>1, <2>1, <3>2, <3>3, <3>4
  <2> QED
    BY <2>1, <2>2, <2>3, LenProperties
<1> QED
  BY <1>1, <1>2, <1>3, <1>4, SeqEqual DEF a, b, u

\* What is left of a slice behind its first m pieces.
LEMMA SliceSlice ==
  ASSUME NEW s \in Seq(Bytes), NEW i \in 0 .. Len(s), NEW j \in i .. Len(s),
         NEW m \in 0 .. j - i
  PROVE  Slice(Slice(s, i, j), m, j - i) = Slice(s, i + m, j)
<1> DEFINE a == Slice(s, i, j)
           b == Slice(a, m, j - i)
           u == Slice(s, i + m, j)
<1>1. a \in Seq(Bytes) /\ Len(a) = j - i /\ \A n \in 1 .. j - i : a[n] = s[i + n]
  BY SliceType
<1> HIDE DEF a
<1>2. /\ b \in Seq(Bytes) /\ Len(b) = j - i - m
      /\ \A n \in 1 .. j - i - m : b[n] = a[m + n]
  <2>1. m \in 0 .. Len(a) /\ j - i \in m .. Len(a)
    BY <1>1, LenProperties
  <2> QED
    BY <1>1, <2>1, SliceType
<1>3. /\ u \in Seq(Bytes) /\ Len(u) = j - (i + m)
      /\ \A n \in 1 .. j - (i + m) : u[n] = s[i + m + n]
  <2>1. i + m \in 0 .. Len(s) /\ j \in i + m .. Len(s)
    BY LenProperties
  <2> QED
    BY <2>1, SliceType
<1> HIDE DEF b, u
<1>4. ASSUME NEW n \in 1 .. Len(b)
      PROVE  b[n] = u[n]
  <2>1. n \in 1 .. j - i - m /\ n \in 1 .. j - (i + m) /\ m + n \in 1 .. j - i
    BY <1>2, LenProperties
  <2>2. a[m + n] = s[i + (m + n)] /\ i + (m + n) = i + m + n
    BY <1>1, <2>1, LenProperties
  <2> QED
    BY <1>2, <1>3, <2>1, <2>2
<1> QED
  BY <1>2, <1>3, <1>4, LenProperties, SeqEqual DEF a, b, u

-----------------------------------------------------------------------------
(* The parser, the buffer and the other connections.                       *)

\* What the parser makes of the buffer is what it makes of the whole stream.
LEMMA ParsedAsWhole ==
  ASSUME NEW c \in Conns, NEW s \in Streams[c],
         NEW i \in 0 .. Len(s), NEW j \in i .. Len(s),
         parse(Slice(s, i, j)).kind # "incomplete"
  PROVE  /\ parse(Slice(s, i, Len(s))) = parse(Slice(s, i, j))
         /\ parse(Slice(s, i, j)).kind = "value" =>
              parse(Slice(s, i, j)).consumed \in 1 .. j - i
<1>1. s \in Seq(Bytes)
  BY ConnectionAssumption DEF ConnectionAssumption
<1>2. Len(s) \in j .. Len(s) /\ Len(s) \in Nat
  BY <1>1, LenProperties
<1>3. Stable(Slice(s, i, j), Slice(s, j, Len(s)))
  BY <1>2, ParseAssumption DEF ParseAssumption
<1>4. Slice(s, i, j) \o Slice(s, j, Len(s)) = Slice(s, i, Len(s))
  BY <1>1, <1>2, SliceConcat
<1>5. Len(Slice(s, i, j)) = j - i
  BY <1>1, SliceType
<1> QED
  BY <1>3, <1>4, <1>5 DEF Stable

LEMMA StreamType ==
  ASSUME NEW c \in Conns, Typed(c)
  PROVE  /\ stream[c] \in Seq(Bytes) /\ Len(stream[c]) \in Nat
         /\ taken[c] \in 0 .. Len(stream[c])
<1>1. stream[c] \in Seq(Bytes)
  BY ConnectionAssumption, EmptySeq DEF ConnectionAssumption, Typed
<1> QED
  BY <1>1, LenProperties DEF Typed

\* The buffer lies in the stream.
LEMMA BufferPlaced ==
  ASSUME NEW c \in Conns, Typed(c), Located(c)
  PROVE  /\ Rest(c) \in Seq(Bytes)
         /\ Len(Rest(c)) = Len(pending[c]) - offset[c]
         /\ Place(c) \in 0 .. taken[c]
         /\ Len(Rest(c)) = taken[c] - Place(c)
<1>1. pending[c] \in Seq(Bytes) /\ Len(pending[c]) \in Nat /\ offset[c] \in 0 .. Len(pending[c])
  BY LenProperties DEF Typed
<1>2. /\ Rest(c) \in Seq(Bytes)
      /\ Len(Rest(c)) = Len(pending[c]) - offset[c]
  <2>1. Len(pending[c]) \in offset[c] .. Len(pending[c])
    BY <1>1
  <2> QED
    BY <1>1, <2>1, SliceType DEF Rest
<1> QED
  BY <1>1, <1>2, StreamType DEF Place, Located

\* A step that leaves a connection alone.
LEMMA Kept ==
  ASSUME NEW d \in Conns, Good(d),
         stream'[d] = stream[d], taken'[d] = taken[d], pending'[d] = pending[d],
         offset'[d] = offset[d], done'[d] = done[d], clean'[d] = clean[d],
         pc'[d] = pc[d]
  PROVE  Good(d)'
<1>1. Rest(d)' = Rest(d)
  BY DEF Rest
<1>2. Place(d)' = Place(d)
  BY <1>1 DEF Place
<1>3. \A n : Whole(d, n)' = Whole(d, n)
  BY DEF Whole
<1>4. NextPlace(d)' = NextPlace(d)
  BY <1>3 DEF NextPlace
<1>5. Typed(d)'
  BY DEF Good, Typed
<1>6. Located(d)'
  BY <1>1, <1>2, <1>4 DEF Good, Located
<1>7. Reads(d)'
  BY <1>3 DEF Good, Reads
<1> QED
  BY <1>5, <1>6, <1>7 DEF Good

\* A connection whose buffer moves, but whose commands stay.
LEMMA Moved ==
  ASSUME NEW c \in Conns, Good(c),
         Typed(c)',
         stream'[c] = stream[c], done'[c] = done[c],
         clean'[c] => clean[c],
         pc'[c] # "closed" => pc[c] # "closed",
         pc'[c] = "read" => offset'[c] = 0,
         pc'[c] = "write_error" => ~clean'[c],
         Len(Rest(c)') <= taken'[c],
         Rest(c)' = Slice(stream[c], Place(c)', taken'[c]),
         clean'[c] => Place(c)' = Place(c)
  PROVE  Good(c)'
<1>1. \A n : Whole(c, n)' = Whole(c, n)
  BY DEF Whole
<1>2. NextPlace(c)' = NextPlace(c)
  BY <1>1 DEF NextPlace
<1>3. Located(c)'
  BY <1>2 DEF Good, Located
<1>4. Reads(c)'
  BY <1>1 DEF Good, Reads
<1> QED
  BY <1>3, <1>4 DEF Good

-----------------------------------------------------------------------------
(* One lemma for each kind of step.                                        *)

LEMMA FreshGood ==
  ASSUME NEW c \in Conns, NEW s, Functions, Fresh(c, s),
         \/ s \in Streams[c] /\ pc'[c] = "read"
         \/ s = <<>> /\ pc'[c] = "closed"
  PROVE  Good(c)'
<1>1. /\ stream'[c] = s /\ taken'[c] = 0 /\ pending'[c] = <<>> /\ offset'[c] = 0
      /\ done'[c] = <<>> /\ clean'[c] = TRUE
  BY DEF Fresh, Functions
<1>2. s \in Seq(Bytes) /\ Len(s) \in Nat
  BY ConnectionAssumption, EmptySeq, LenProperties DEF ConnectionAssumption
<1>3. Rest(c)' = <<>>
  <2>1. Slice(<<>>, 0, Len(<<>>)) = <<>>
    BY EmptySeq, SliceWhole
  <2> QED
    BY <1>1, <2>1 DEF Rest
<1>4. Place(c)' = 0
  <2>1. Len(<<>>) = 0
    BY EmptySeq
  <2> QED
    BY <1>1, <1>3, <2>1, 0 - 0 = 0 DEF Place
<1>5. Typed(c)'
  <2>1. stream'[c] \in Streams[c] \cup {<<>>} /\ 0 \in 0 .. Len(s)
    BY <1>1, <1>2
  <2>2. <<>> \in Seq(Bytes) /\ <<>> \in Seq({}) /\ 0 \in 0 .. Len(<<>>)
    BY EmptySeq
  <2>3. \E S : done'[c] \in Seq(S)
    BY <1>1, <2>2
  <2> QED
    BY <1>1, <2>1, <2>2, <2>3 DEF Typed
<1>6. Slice(s, 0, 0) = <<>>
  BY <1>2, SliceNothing
<1>7. Located(c)'
  <2>1. NextPlace(c)' = 0
    BY <1>1 DEF NextPlace
  <2>2. Len(Rest(c)') <= taken'[c] /\ Rest(c)' = Slice(stream'[c], Place(c)', taken'[c])
    BY <1>1, <1>3, <1>4, <1>6, EmptySeq
  <2> QED
    BY <1>1, <1>4, <2>1, <2>2 DEF Located
<1>8. Reads(c)'
  <2>1. DOMAIN done'[c] = {}
    BY <1>1
  <2> QED
    BY <2>1 DEF Reads
<1> QED
  BY <1>5, <1>7, <1>8 DEF Good

LEMMA ReadGood ==
  ASSUME NEW c \in Conns, Functions, Good(c), NEW n \in 1 .. ReadBufSize, Read(c, n)
  PROVE  Good(c)'
<1> DEFINE s == stream[c]
           t == taken[c]
<1>1. /\ pc[c] = "read" /\ pc'[c] = "parse" /\ offset[c] = 0 /\ offset'[c] = 0
      /\ taken'[c] = t + n /\ t + n <= Len(s)
      /\ pending'[c] = pending[c] \o Slice(s, t, t + n)
      /\ stream'[c] = s /\ done'[c] = done[c] /\ clean'[c] = clean[c]
  BY DEF Read, Functions, Good, Located
<1>2. /\ s \in Seq(Bytes) /\ Len(s) \in Nat /\ t \in 0 .. Len(s) /\ n \in Nat
      /\ t + n \in 0 .. Len(s) /\ t + n \in t .. Len(s)
  BY <1>1, StreamType, ConnectionAssumption DEF Good, ConnectionAssumption
<1>3. /\ pending[c] \in Seq(Bytes) /\ pending[c] = Rest(c)
      /\ Place(c) \in 0 .. t /\ Len(pending[c]) = t - Place(c)
      /\ pending[c] = Slice(s, Place(c), t)
  BY <1>1, BufferPlaced, SliceWhole DEF Good, Typed, Located, Rest
<1>4. pending'[c] = Slice(s, Place(c), t + n)
  <2>1. Place(c) \in 0 .. Len(s) /\ t \in Place(c) .. Len(s)
    BY <1>2, <1>3
  <2> QED
    BY <1>1, <1>2, <1>3, <2>1, SliceConcat
<1>5. pending'[c] \in Seq(Bytes) /\ Len(pending'[c]) = (t + n) - Place(c)
  <2>1. Place(c) \in 0 .. Len(s) /\ t + n \in Place(c) .. Len(s)
    BY <1>2, <1>3
  <2>2. /\ Slice(s, Place(c), t + n) \in Seq(Bytes)
        /\ Len(Slice(s, Place(c), t + n)) = (t + n) - Place(c)
    BY <1>2, <2>1, SliceType
  <2> QED
    BY <1>4, <2>2
<1>6. Rest(c)' = pending'[c]
  BY <1>1, <1>5, SliceWhole DEF Rest
<1>7. Place(c)' = Place(c)
  <2>1. Place(c)' = (t + n) - Len(pending'[c])
    BY <1>1, <1>6 DEF Place
  <2>2. (t + n) - ((t + n) - Place(c)) = Place(c)
    BY <1>2, <1>3
  <2> QED
    BY <1>5, <2>1, <2>2
<1>8. Typed(c)'
  <2>1. Len(pending'[c]) \in Nat
    BY <1>5, LenProperties
  <2>2. offset'[c] \in 0 .. Len(pending'[c])
    <3>1. 0 \in 0 .. Len(pending'[c])
      BY <2>1
    <3> QED
      BY <1>1, <3>1
  <2>3. taken'[c] \in 0 .. Len(stream'[c])
    BY <1>1, <1>2
  <2>4. (\E S : done[c] \in Seq(S)) /\ clean[c] \in BOOLEAN
        /\ s \in Streams[c] \cup {<<>>}
    BY DEF Good, Typed
  <2> QED
    BY <1>1, <1>5, <2>2, <2>3, <2>4 DEF Typed
<1>9. Len(Rest(c)') <= taken'[c] /\ Rest(c)' = Slice(s, Place(c)', taken'[c])
  <2>1. Len(pending'[c]) <= t + n
    BY <1>2, <1>3, <1>5
  <2> QED
    BY <1>1, <1>4, <1>6, <1>7, <2>1
<1> QED
  BY <1>1, <1>7, <1>8, <1>9, Moved

LEMMA NeedMoreGood ==
  ASSUME NEW c \in Conns, Functions, Good(c), NeedMore(c)
  PROVE  Good(c)'
<1>1. /\ pc[c] = "parse" /\ pc'[c] = "read"
      /\ pending'[c] = Rest(c) /\ offset'[c] = 0
      /\ stream'[c] = stream[c] /\ taken'[c] = taken[c]
      /\ done'[c] = done[c] /\ clean'[c] = clean[c]
  BY DEF NeedMore, Drained, Functions
<1>2. Rest(c) \in Seq(Bytes) /\ Len(Rest(c)) \in Nat
  BY BufferPlaced, LenProperties DEF Good
<1>3. Rest(c)' = Rest(c)
  <2>1. Slice(Rest(c), 0, Len(Rest(c))) = Rest(c)
    BY <1>2, SliceWhole
  <2> QED
    BY <1>1, <2>1 DEF Rest
<1>4. Place(c)' = Place(c)
  BY <1>1, <1>3 DEF Place
<1>5. Typed(c)'
  <2>1. 0 \in 0 .. Len(Rest(c))
    BY <1>2
  <2> QED
    BY <1>1, <1>2, <2>1 DEF Good, Typed
<1>6. Len(Rest(c)') <= taken'[c] /\ Rest(c)' = Slice(stream[c], Place(c)', taken'[c])
  BY <1>1, <1>3, <1>4 DEF Good, Located
<1> QED
  BY <1>1, <1>4, <1>5, <1>6, Moved

LEMMA RejectGood ==
  ASSUME NEW c \in Conns, Functions, Good(c), Reject(c)
  PROVE  Good(c)'
<1>1. /\ pc[c] = "parse" /\ pc'[c] = "write_error"
      /\ pending'[c] = pending[c] /\ offset'[c] = offset[c]
      /\ stream'[c] = stream[c] /\ taken'[c] = taken[c]
      /\ done'[c] = done[c] /\ clean'[c] = FALSE
  BY DEF Reject, Functions
<1>2. Rest(c)' = Rest(c)
  BY <1>1 DEF Rest
<1>3. Place(c)' = Place(c)
  BY <1>1, <1>2 DEF Place
<1>4. Typed(c)'
  BY <1>1 DEF Good, Typed
<1>5. Len(Rest(c)') <= taken'[c] /\ Rest(c)' = Slice(stream[c], Place(c)', taken'[c])
  BY <1>1, <1>2, <1>3 DEF Good, Located
<1> QED
  BY <1>1, <1>3, <1>4, <1>5, Moved

LEMMA TurnGood ==
  ASSUME NEW c \in Conns, Functions, Good(c), Turn(c)
  PROVE  Good(c)'
<1>1. /\ pc[c] = "run" /\ pc'[c] \in {"run", "write"}
      /\ pending'[c] = pending[c] /\ offset'[c] = offset[c]
      /\ stream'[c] = stream[c] /\ taken'[c] = taken[c]
      /\ done'[c] = done[c] /\ clean'[c] = clean[c]
  BY DEF Turn, Functions
<1>2. Rest(c)' = Rest(c)
  BY <1>1 DEF Rest
<1>3. Place(c)' = Place(c)
  BY <1>1, <1>2 DEF Place
<1>4. Typed(c)'
  BY <1>1 DEF Good, Typed
<1>5. Len(Rest(c)') <= taken'[c] /\ Rest(c)' = Slice(stream[c], Place(c)', taken'[c])
  BY <1>1, <1>2, <1>3 DEF Good, Located
<1> QED
  BY <1>1, <1>3, <1>4, <1>5, Moved

LEMMA ReplyGood ==
  ASSUME NEW c \in Conns, Functions, Good(c), Reply(c)
  PROVE  Good(c)'
<1>1. /\ pc[c] = "write" /\ pc'[c] = "parse"
      /\ pending'[c] = pending[c] /\ offset'[c] = offset[c]
      /\ stream'[c] = stream[c] /\ taken'[c] = taken[c]
      /\ done'[c] = done[c] /\ clean'[c] = clean[c]
  BY DEF Reply, Written, AfterAnswer, Functions
<1>2. Rest(c)' = Rest(c)
  BY <1>1 DEF Rest
<1>3. Place(c)' = Place(c)
  BY <1>1, <1>2 DEF Place
<1>4. Typed(c)'
  BY <1>1 DEF Good, Typed
<1>5. Len(Rest(c)') <= taken'[c] /\ Rest(c)' = Slice(stream[c], Place(c)', taken'[c])
  BY <1>1, <1>2, <1>3 DEF Good, Located
<1> QED
  BY <1>1, <1>3, <1>4, <1>5, Moved

LEMMA ReplyErrorGood ==
  ASSUME NEW c \in Conns, Functions, Good(c), ReplyError(c)
  PROVE  Good(c)'
<1>1. /\ pc[c] = "write_error" /\ pc'[c] = "read"
      /\ pending'[c] = <<>> /\ offset'[c] = 0
      /\ stream'[c] = stream[c] /\ taken'[c] = taken[c]
      /\ done'[c] = done[c] /\ clean'[c] = clean[c]
  BY DEF ReplyError, Written, Clear, Functions
<1>2. ~clean'[c]
  BY <1>1 DEF Good, Located
<1>3. Rest(c)' = <<>>
  <2>1. Slice(<<>>, 0, Len(<<>>)) = <<>>
    BY EmptySeq, SliceWhole
  <2> QED
    BY <1>1, <2>1 DEF Rest
<1>4. Len(<<>>) = 0 /\ <<>> \in Seq(Bytes)
  BY EmptySeq
<1>5. /\ stream[c] \in Seq(Bytes) /\ taken[c] \in 0 .. Len(stream[c])
      /\ Len(stream[c]) \in Nat
  BY StreamType DEF Good
<1>6. Place(c)' = taken[c]
  <2>1. Place(c)' = taken[c] - 0
    BY <1>1, <1>3, <1>4 DEF Place
  <2>2. taken[c] - 0 = taken[c]
    BY <1>5
  <2> QED
    BY <2>1, <2>2
<1>7. Typed(c)'
  <2>1. 0 \in 0 .. Len(<<>>)
    BY <1>4
  <2> QED
    BY <1>1, <1>4, <2>1 DEF Good, Typed
<1>8. Len(Rest(c)') <= taken'[c] /\ Rest(c)' = Slice(stream[c], Place(c)', taken'[c])
  <2>1. Slice(stream[c], taken[c], taken[c]) = <<>>
    BY <1>5, SliceNothing
  <2>2. 0 <= taken[c]
    BY <1>5
  <2> QED
    BY <1>1, <1>3, <1>4, <1>6, <2>1, <2>2
<1> QED
  BY <1>1, <1>2, <1>7, <1>8, Moved

LEMMA ExecuteGood ==
  ASSUME NEW c \in Conns, Functions, Good(c), Execute(c)
  PROVE  Good(c)'
<1> DEFINE s == stream[c]
           t == taken[c]
           p == Place(c)
           r == parse(Rest(c))
           m == r.consumed
           e == [at |-> p, val |-> r.val]
<1>0. PICK L \in Nat : L = Len(done[c])
  BY LenProperties DEF Good, Typed
<1>1. /\ pc[c] = "parse" /\ pc'[c] = "run" /\ r.kind = "value"
      /\ pending'[c] = pending[c] /\ offset'[c] = offset[c] + m
      /\ stream'[c] = s /\ taken'[c] = t /\ clean'[c] = clean[c]
      /\ done'[c] = Append(done[c], e)
  BY DEF Execute, Functions
<1>2. /\ s \in Streams[c] /\ s \in Seq(Bytes) /\ Len(s) \in Nat /\ t \in 0 .. Len(s)
      /\ p \in 0 .. t /\ Len(Rest(c)) = t - p /\ Len(Rest(c)) = Len(pending[c]) - offset[c]
      /\ Rest(c) = Slice(s, p, t)
  BY <1>1, StreamType, BufferPlaced DEF Good, Located
<1>3. /\ pending[c] \in Seq(Bytes) /\ Len(pending[c]) \in Nat
      /\ offset[c] \in 0 .. Len(pending[c])
  BY LenProperties DEF Good, Typed
<1>4. p \in 0 .. Len(s) /\ t \in p .. Len(s)
  BY <1>2
<1>5. parse(Slice(s, p, Len(s))) = r /\ m \in 1 .. t - p
  BY <1>1, <1>2, <1>4, ParsedAsWhole
<1> HIDE DEF s, t, p, r, m, e
<1>6. Rest(c)' = Slice(s, p + m, t)
  <2>1. m \in 0 .. t - p /\ m \in 0 .. Len(pending[c]) - offset[c]
    BY <1>2, <1>3, <1>5
  <2>2. Slice(Slice(s, p, t), m, t - p) = Slice(s, p + m, t)
    BY <1>2, <1>4, <2>1, SliceSlice
  <2>3. Len(pending[c]) \in offset[c] .. Len(pending[c])
    BY <1>3
  <2>4. Slice(Slice(pending[c], offset[c], Len(pending[c])), m, Len(pending[c]) - offset[c])
          = Slice(pending[c], offset[c] + m, Len(pending[c]))
    BY <1>3, <2>1, <2>3, SliceSlice
  <2>5. Rest(c) = Slice(pending[c], offset[c], Len(pending[c]))
    BY DEF Rest
  <2>6. Rest(c)' = Slice(pending[c], offset[c] + m, Len(pending[c]))
    BY <1>1 DEF Rest
  <2>7. Len(pending[c]) - offset[c] = t - p
    BY <1>2
  <2> QED
    BY <1>2, <2>2, <2>4, <2>5, <2>6, <2>7
<1>7. Len(Rest(c)') = t - (p + m) /\ Place(c)' = p + m
  <2>1. p + m \in 0 .. Len(s) /\ t \in p + m .. Len(s)
    BY <1>2, <1>5
  <2>2. Len(Slice(s, p + m, t)) = t - (p + m)
    BY <1>2, <2>1, SliceType
  <2>3. Place(c)' = t - Len(Rest(c)')
    BY <1>1 DEF Place
  <2>4. t - (t - (p + m)) = p + m
    BY <1>2, <1>5
  <2> QED
    BY <1>6, <2>2, <2>3, <2>4
<1>8. /\ L \in Nat /\ DOMAIN done[c] = 1 .. L
      /\ DOMAIN done'[c] = 1 .. L + 1 /\ Len(done'[c]) = L + 1
      /\ \A n \in 1 .. L : done'[c][n] = done[c][n]
      /\ done'[c][L + 1] = e /\ \E S : done'[c] \in Seq(S)
  <2>1. PICK S : done[c] \in Seq(S)
    BY DEF Good, Typed
  <2>2. done[c] \in Seq(S \cup {e}) /\ e \in S \cup {e}
    BY <2>1, SeqMonotonic
  <2>3. L \in Nat /\ DOMAIN done[c] = 1 .. L
    BY <1>0, <2>1, LenProperties
  <2>4. /\ Append(done[c], e) \in Seq(S \cup {e}) /\ Len(Append(done[c], e)) = L + 1
        /\ \A n \in 1 .. L : Append(done[c], e)[n] = done[c][n]
        /\ Append(done[c], e)[L + 1] = e
    BY <1>0, <2>2, AppendProperties
  <2>5. DOMAIN Append(done[c], e) = 1 .. L + 1
    BY <2>4, LenProperties
  <2> QED
    BY <1>1, <2>3, <2>4, <2>5
<1>9. /\ \A n \in 1 .. L : Whole(c, n)' = Whole(c, n)
      /\ Whole(c, L + 1)' = r
  <2>1. \A n \in 1 .. L : Whole(c, n)' = Whole(c, n)
    BY <1>1, <1>8 DEF Whole, s
  <2>2. e.at = p
    BY DEF e
  <2>3. done'[c][L + 1].at = p
    BY <1>8, <2>2
  <2>4. Whole(c, L + 1)' = parse(Slice(s, done'[c][L + 1].at, Len(s)))
    BY <1>1 DEF Whole
  <2> QED
    BY <1>5, <2>1, <2>3, <2>4
<1>10. NextPlace(c)' = p + m
  <2>1. done'[c] # <<>>
    BY <1>8, EmptySeq
  <2>2. NextPlace(c)' = done'[c][L + 1].at + Whole(c, L + 1)'.consumed
    BY <1>8, <2>1 DEF NextPlace
  <2>3. done'[c][L + 1].at = p
    BY <1>8 DEF e
  <2> QED
    BY <1>9, <2>2, <2>3 DEF m
<1>11. Typed(c)'
  <2>1. offset[c] + m \in 0 .. Len(pending[c])
    BY <1>2, <1>3, <1>5
  <2> QED
    BY <1>1, <1>3, <1>8, <2>1 DEF Good, Typed, s, t
<1>12. Located(c)'
  <2>1. t - (p + m) <= t
    BY <1>2, <1>5
  <2> QED
    BY <1>1, <1>2, <1>6, <1>7, <1>10, <2>1 DEF Located
<1>13. Reads(c)'
  <2> SUFFICES ASSUME clean[c], NEW n \in 1 .. L + 1
               PROVE  /\ Whole(c, n)'.kind = "value" /\ Whole(c, n)'.val = done'[c][n].val
                      /\ done'[c][n].at =
                           IF n = 1 THEN 0
                           ELSE done'[c][n - 1].at + Whole(c, n - 1)'.consumed
    BY <1>1, <1>8 DEF Reads
  <2>1. CASE n \in 1 .. L
    <3>1. n = 1 \/ n - 1 \in 1 .. L
      BY <1>8, <2>1
    <3>2. /\ Whole(c, n).kind = "value" /\ Whole(c, n).val = done[c][n].val
          /\ done[c][n].at =
               IF n = 1 THEN 0 ELSE done[c][n - 1].at + Whole(c, n - 1).consumed
      BY <1>8, <2>1 DEF Good, Reads
    <3>3. Whole(c, n)' = Whole(c, n) /\ done'[c][n] = done[c][n]
      BY <1>8, <1>9, <2>1
    <3>4. n # 1 => Whole(c, n - 1)' = Whole(c, n - 1) /\ done'[c][n - 1] = done[c][n - 1]
      BY <1>8, <1>9, <3>1
    <3> QED
      BY <3>2, <3>3, <3>4
  <2>2. CASE n = L + 1
    <3>1. p = NextPlace(c)
      BY DEF Good, Located, p
    <3>2. CASE L = 0
      <4>1. done[c] = <<>>
        <5>1. PICK S : done[c] \in Seq(S)
          BY DEF Good, Typed
        <5> QED
          BY <1>0, <3>2, <5>1, EmptySeq
      <4>2. p = 0
        BY <1>0, <3>1, <4>1 DEF NextPlace
      <4> QED
        BY <1>1, <1>8, <1>9, <2>2, <3>2, <4>2 DEF e
    <3>3. CASE L # 0
      <4>1. done[c] # <<>> /\ L \in 1 .. L /\ n - 1 = L /\ n # 1
        BY <1>0, <1>8, <2>2, <3>3, EmptySeq
      <4>2. p = done[c][L].at + Whole(c, L).consumed
        BY <1>0, <3>1, <4>1 DEF NextPlace
      <4> QED
        BY <1>1, <1>8, <1>9, <2>2, <4>1, <4>2 DEF e
    <3> QED
      BY <3>2, <3>3
  <2> QED
    BY <1>8, <2>1, <2>2
<1> QED
  BY <1>11, <1>12, <1>13 DEF Good

-----------------------------------------------------------------------------
(* The invariant.                                                          *)

Acts(c) ==
  \/ \E s \in Streams[c] : Accept(c, s)
  \/ Step(c) \/ Receive(c) \/ Disconnect(c) \/ WriteFails(c)

Alike(d) ==
  /\ pc'[d] = pc[d] /\ stream'[d] = stream[d] /\ taken'[d] = taken[d]
  /\ pending'[d] = pending[d] /\ offset'[d] = offset[d]
  /\ done'[d] = done[d] /\ clean'[d] = clean[d]

\* A task changes only what is its own.
LEMMA OnlyOwn ==
  ASSUME NEW c \in Conns, Functions, Acts(c)
  PROVE  Functions' /\ \A d \in Conns \ {c} : Alike(d)
<1>1. CASE \E s \in Streams[c] : Accept(c, s)
  BY <1>1 DEF Accept, Fresh, Functions, Alike, States
<1>2. CASE Execute(c)
  BY <1>2 DEF Execute, Functions, Alike, States
<1>3. CASE NeedMore(c)
  BY <1>3 DEF NeedMore, Functions, Alike, States
<1>4. CASE Reject(c)
  BY <1>4 DEF Reject, Functions, Alike, States
<1>5. CASE Reply(c)
  BY <1>5 DEF Reply, Written, AfterAnswer, Functions, Alike, States
<1>6. CASE ReplyError(c)
  BY <1>6 DEF ReplyError, Written, Clear, Functions, Alike, States
<1>7. CASE Receive(c)
  BY <1>7 DEF Receive, Read, Functions, Alike, States
<1>8. CASE Disconnect(c) \/ WriteFails(c)
  BY <1>8 DEF Disconnect, WriteFails, Ends, Fresh, Functions, Alike, States
<1>9. CASE Turn(c)
  BY <1>9 DEF Turn, Functions, Alike, States
<1> QED
  BY <1>1, <1>2, <1>3, <1>4, <1>5, <1>6, <1>7, <1>8, <1>9 DEF Acts, Step

LEMMA ActsGood ==
  ASSUME NEW c \in Conns, Functions, Good(c), Acts(c)
  PROVE  Good(c)'
<1>1. ASSUME NEW s \in Streams[c], Accept(c, s)
      PROVE  Good(c)'
  BY <1>1, FreshGood DEF Accept, Functions
<1>2. CASE Disconnect(c) \/ WriteFails(c)
  BY <1>2, FreshGood DEF Disconnect, WriteFails, Ends, Functions
<1>3. CASE Receive(c)
  BY <1>3, ReadGood DEF Receive
<1>4. CASE Step(c)
  BY <1>4, ExecuteGood, TurnGood, NeedMoreGood, RejectGood, ReplyGood, ReplyErrorGood
  DEF Step
<1> QED
  BY <1>1, <1>2, <1>3, <1>4 DEF Acts

LEMMA InitInv == Init => IInv
<1> SUFFICES ASSUME Init
             PROVE  IInv
  OBVIOUS
<1>1. Functions
  BY DEF Init, Functions, States
<1>2. ASSUME NEW c \in Conns
      PROVE  Good(c)
  <2>1. /\ pc[c] = "closed" /\ stream[c] = <<>> /\ taken[c] = 0 /\ pending[c] = <<>>
        /\ offset[c] = 0 /\ done[c] = <<>> /\ clean[c] = TRUE
    BY DEF Init
  <2>2. Len(<<>>) = 0 /\ <<>> \in Seq(Bytes) /\ <<>> \in Seq({}) /\ 0 - 0 = 0
    BY EmptySeq
  <2>3. Slice(<<>>, 0, 0) = <<>> /\ Slice(<<>>, 0, Len(<<>>)) = <<>>
    BY <2>2, SliceWhole
  <2>4. Rest(c) = <<>> /\ Place(c) = 0
    <3>1. Rest(c) = <<>>
      BY <2>1, <2>3 DEF Rest
    <3> QED
      BY <2>1, <2>2, <3>1 DEF Place
  <2>5. Typed(c)
    <3>1. 0 \in 0 .. Len(<<>>)
      BY <2>2
    <3> QED
      BY <2>1, <2>2, <3>1 DEF Typed
  <2>6. Located(c)
    <3>1. NextPlace(c) = 0
      BY <2>1 DEF NextPlace
    <3> QED
      BY <2>1, <2>2, <2>3, <2>4, <3>1 DEF Located
  <2>7. Reads(c)
    <3>1. DOMAIN done[c] = {}
      BY <2>1
    <3> QED
      BY <3>1 DEF Reads
  <2> QED
    BY <2>5, <2>6, <2>7 DEF Good
<1> QED
  BY <1>1, <1>2 DEF IInv

LEMMA NextInv == IInv /\ [Next]_vars => IInv'
<1> SUFFICES ASSUME IInv, [Next]_vars
             PROVE  IInv'
  OBVIOUS
<1>1. ASSUME NEW c \in Conns, Acts(c)
      PROVE  IInv'
  <2>1. Functions' /\ \A d \in Conns \ {c} : Alike(d)
    BY <1>1, OnlyOwn DEF IInv
  <2>2. Good(c)'
    BY <1>1, ActsGood DEF IInv
  <2>3. ASSUME NEW d \in Conns \ {c}
        PROVE  Good(d)'
    BY <2>1, <2>3, Kept DEF IInv, Alike
  <2> QED
    BY <2>1, <2>2, <2>3 DEF IInv
<1>2. CASE Outside \/ UNCHANGED vars
  <2>1. UNCHANGED <<pc, stream, taken, pending, offset, done, clean>>
    BY <1>2 DEF Outside, vars
  <2>2. Functions'
    BY <2>1 DEF IInv, Functions
  <2>3. ASSUME NEW d \in Conns
        PROVE  Good(d)'
    BY <2>1, Kept DEF IInv
  <2> QED
    BY <2>2, <2>3 DEF IInv
<1> QED
  BY <1>1, <1>2 DEF Next, Acts

LEMMA Invariance == Spec => []IInv
BY InitInv, NextInv, PTL DEF Spec

\* handle_client keeps its buffer, its offset and what it has read of a stream
\* within each other's bounds.
THEOREM TypeCorrect == Spec => []TypeOK
<1>1. IInv => TypeOK
  BY DEF IInv, Functions, Good, Typed, TypeOK, States
<1> QED
  BY <1>1, Invariance, PTL

\* handle_client executes the commands of the stream as the uncut stream has
\* them, each once and from the right byte, until a protocol error.
THEOREM CutsUnseen == Spec => []AsWhole
<1>1. IInv => AsWhole
  BY DEF IInv, Good, Reads, AsWhole
<1> QED
  BY <1>1, Invariance, PTL

-----------------------------------------------------------------------------
(* The parser of the server.  It recurses on numbers of items and on       *)
(* offsets; a claim about it is proved at the first or the last place      *)
(* where it could fail.                                                    *)

\* A set of natural numbers has a least element.
LEMMA LeastIn == ASSUME NEW T, T \subseteq Nat, T # {} PROVE \E x \in T : \A y \in T : x <= y
<1> DEFINE R == OpToRel(<, Nat)
<1>0. R = {ss \in Nat \X Nat : ss[1] < ss[2]}
  BY DEF OpToRel
<1>1. IsWellFoundedOn(R, Nat)
  BY NatLessThanWellFounded
<1> HIDE DEF R
<1>2. PICK x \in T : \A y \in T : ~(<<y, x>> \in R)
  BY <1>1, WFMin
<1>3. ASSUME NEW y \in T PROVE x <= y
  <2>1. <<y, x>> \in Nat \X Nat /\ ~(<<y, x>> \in R)
    BY <1>2
  <2>2. ~(y < x)
    BY <2>1, <1>0
  <2> QED BY <2>2
<1> QED BY <1>3

\* A part of a buffer stays what it is when more comes.
LEMMA PartOf ==
  ASSUME NEW S, NEW b \in Seq(S), NEW m \in Seq(S),
         NEW i \in 1 .. Len(b) + 1, NEW j \in 0 .. Len(b)
  PROVE  /\ SubSeq(b, i, j) \in Seq(S)
         /\ Len(SubSeq(b, i, j)) = IF i <= j THEN j - i + 1 ELSE 0
         /\ \A n \in 1 .. j - i + 1 : SubSeq(b, i, j)[n] = b[i + n - 1]
         /\ SubSeq(b \o m, i, j) = SubSeq(b, i, j)
<1>0. Len(b) \in Nat /\ Len(m) \in Nat /\ i \in Int /\ j \in Int
  BY LenProperties
<1>1. \A n \in i .. j : b[n] \in S
  BY <1>0, ElementOfSeq
<1>2. \A n \in i .. j : (b \o m)[n] = b[n]
  BY <1>0, ConcatProperties
<1> DEFINE p == SubSeq(b, i, j)
           q == SubSeq(b \o m, i, j)
<1>3. /\ p \in Seq(S)
      /\ Len(p) = IF i <= j THEN j - i + 1 ELSE 0
      /\ \A n \in 1 .. j - i + 1 : p[n] = b[i + n - 1]
  BY <1>0, <1>1, SubSeqProperties
<1>4. /\ q \in Seq(S)
      /\ Len(q) = IF i <= j THEN j - i + 1 ELSE 0
      /\ \A n \in 1 .. j - i + 1 : q[n] = (b \o m)[i + n - 1]
  <2>1. \A n \in i .. j : (b \o m)[n] \in S
    BY <1>1, <1>2
  <2> QED  BY <1>0, <2>1, SubSeqProperties
<1> HIDE DEF p, q
<1>5. ASSUME NEW n \in 1 .. Len(p) PROVE q[n] = p[n]
  <2>1. n \in 1 .. j - i + 1 /\ i + n - 1 \in i .. j
    BY <1>0, <1>3
  <2> QED  BY <1>2, <1>3, <1>4, <2>1
<1>6. q = p
  BY <1>3, <1>4, <1>5, SeqEqual
<1> QED  BY <1>3, <1>6 DEF p, q

\* What is left of a buffer behind an offset, with and without more.
LEMMA FromIs ==
  ASSUME NEW S, NEW b \in Seq(S), NEW m \in Seq(S), NEW i \in 0 .. Len(b)
  PROVE  /\ From(b, i) \in Seq(S)
         /\ Len(From(b, i)) = Len(b) - i
         /\ From(b \o m, i) = From(b, i) \o m
<1> DEFINE p == From(b, i)
           c == b \o m
           q == From(c, i)
<1>1. Len(b) \in Nat /\ Len(m) \in Nat
  BY LenProperties
<1>2. /\ p \in Seq(S) /\ Len(p) = Len(b) - i
      /\ \A n \in 1 .. Len(b) - i : p[n] = b[i + n]
  <2>1. \A n \in i + 1 .. Len(b) : b[n] \in S
    BY <1>1, ElementOfSeq
  <2>2. /\ p \in Seq(S)
        /\ Len(p) = IF i + 1 <= Len(b) THEN Len(b) - (i + 1) + 1 ELSE 0
        /\ \A n \in 1 .. Len(b) - (i + 1) + 1 : p[n] = b[i + 1 + n - 1]
    BY <1>1, <2>1, SubSeqProperties DEF From
  <2> HIDE DEF p
  <2>3. ASSUME NEW n \in 1 .. Len(b) - i PROVE p[n] = b[i + n]
    <3>1. n \in 1 .. Len(b) - (i + 1) + 1 /\ i + 1 + n - 1 = i + n
      BY <1>1
    <3> QED  BY <2>2, <3>1
  <2>4. Len(p) = Len(b) - i
    BY <1>1, <2>2
  <2> QED  BY <2>2, <2>3, <2>4
<1>3. /\ c \in Seq(S) /\ Len(c) = Len(b) + Len(m)
      /\ \A n \in 1 .. Len(b) + Len(m) : c[n] = IF n <= Len(b) THEN b[n] ELSE m[n - Len(b)]
  BY ConcatProperties
<1> HIDE DEF c
<1>4. /\ q \in Seq(S) /\ Len(q) = Len(b) + Len(m) - i
      /\ \A n \in 1 .. Len(b) + Len(m) - i : q[n] = c[i + n]
  <2>1. \A n \in i + 1 .. Len(c) : c[n] \in S
    BY <1>1, <1>3, ElementOfSeq
  <2>2. /\ q \in Seq(S)
        /\ Len(q) = IF i + 1 <= Len(c) THEN Len(c) - (i + 1) + 1 ELSE 0
        /\ \A n \in 1 .. Len(c) - (i + 1) + 1 : q[n] = c[i + 1 + n - 1]
    BY <1>1, <1>3, <2>1, SubSeqProperties DEF From
  <2> HIDE DEF p, q
  <2>3. ASSUME NEW n \in 1 .. Len(b) + Len(m) - i PROVE q[n] = c[i + n]
    <3>1. n \in 1 .. Len(c) - (i + 1) + 1 /\ i + 1 + n - 1 = i + n
      BY <1>1, <1>3
    <3> QED  BY <2>2, <3>1
  <2>4. Len(q) = Len(b) + Len(m) - i
    BY <1>1, <1>3, <2>2
  <2> QED  BY <2>2, <2>3, <2>4
<1> HIDE DEF p, q
<1>5. /\ p \o m \in Seq(S) /\ Len(p \o m) = Len(p) + Len(m)
      /\ \A n \in 1 .. Len(p) + Len(m) :
           (p \o m)[n] = IF n <= Len(p) THEN p[n] ELSE m[n - Len(p)]
  BY <1>2, ConcatProperties
<1>6. Len(q) = Len(p \o m)
  BY <1>1, <1>2, <1>4, <1>5
<1>7. ASSUME NEW n \in 1 .. Len(q) PROVE q[n] = (p \o m)[n]
  <2>1. /\ n \in 1 .. Len(b) + Len(m) - i /\ n \in 1 .. Len(p) + Len(m)
        /\ i + n \in 1 .. Len(b) + Len(m)
    BY <1>1, <1>2, <1>4
  <2>2. CASE n <= Len(b) - i
    <3>1. n \in 1 .. Len(b) - i /\ i + n <= Len(b) /\ n <= Len(p)
      BY <1>1, <1>2, <2>1, <2>2
    <3> QED  BY <1>2, <1>3, <1>4, <1>5, <2>1, <3>1
  <2>3. CASE n > Len(b) - i
    <3>1. ~(i + n <= Len(b)) /\ ~(n <= Len(p)) /\ i + n - Len(b) = n - Len(p)
      BY <1>1, <1>2, <2>1, <2>3
    <3>2. q[n] = m[i + n - Len(b)] /\ (p \o m)[n] = m[n - Len(p)]
      BY <1>3, <1>4, <1>5, <2>1, <3>1
    <3> QED  BY <3>1, <3>2
  <2> QED  BY <1>1, <2>1, <2>2, <2>3
<1>8. q = p \o m
  BY <1>4, <1>5, <1>6, <1>7, SeqEqual
<1> QED  BY <1>2, <1>8 DEF p, q, c

-----------------------------------------------------------------------------

\* e is where the first line ends.
EndsAt(b, e) == e \in 2 .. Len(b) /\ b[e] = Eol /\ \A i \in 1 .. e - 1 : b[i] # Eol

LEMMA LineIs ==
  ASSUME NEW b, Len(b) \in Nat, NEW e, EndsAt(b, e)
  PROVE  Line(b) = SubSeq(b, 1, e - 1)
<1> DEFINE I == {i \in 1 .. Len(b) : b[i] = Eol}
           s == SelectInSeq(b, LAMBDA x : x = Eol)
<1>1. e \in I /\ I # {} /\ \A i \in I : e <= i
  BY DEF EndsAt
<1>2. s = CHOOSE x \in I : \A y \in I : x <= y
  BY <1>1 DEF SelectInSeq, Min
<1> HIDE DEF s
<1>3. s \in I /\ \A y \in I : s <= y
  <2> HIDE DEF I
  <2> QED  BY <1>1, <1>2
<1>4. s = e
  BY <1>1, <1>3
<1>5. Line(b) = SubSeq(b, 1, s - 1)
  BY DEF Line, s
<1> QED  BY <1>4, <1>5

LEMMA EndExists ==
  ASSUME NEW b \in Seq(Piece), Contains(b, Eol), b[1] # Eol
  PROVE  \E e : EndsAt(b, e)
<1> DEFINE I == {i \in 1 .. Len(b) : b[i] = Eol}
<1>1. Len(b) \in Nat
  BY LenProperties
<1>2. I \subseteq Nat /\ I # {}
  BY <1>1 DEF Contains
<1>3. PICK e \in I : \A y \in I : e <= y
  <2> HIDE DEF I
  <2> QED  BY <1>2, LeastIn
<1>4. e \in 1 .. Len(b) /\ b[e] = Eol /\ e # 1
  BY <1>3
<1>5. \A i \in 1 .. e - 1 : b[i] # Eol
  BY <1>1, <1>3
<1> QED  BY <1>1, <1>4, <1>5 DEF EndsAt

\* What parse makes of a value or a header fits in a buffer of n pieces.
Fits(r, n) ==
  /\ r.kind \in {"value", "error", "incomplete"}
  /\ r.kind = "value" => r.consumed \in 1 .. n

HeadFits(r, n) ==
  \/ Fits(r, n)
  \/ r.kind = "array" /\ r.count \in Nat /\ r.consumed \in 1 .. n

Types == {"+", "-", ":", "$", "*"}

LEMMA HeadStable ==
  ASSUME NEW b \in Seq(Piece), NEW m \in Seq(Piece)
  PROVE  /\ HeadFits(ParseHead(b), Len(b))
         /\ ParseHead(b).kind # "incomplete" => ParseHead(b \o m) = ParseHead(b)
<1> DEFINE c == b \o m
<1>0. Len(b) \in Nat /\ Len(m) \in Nat
  BY LenProperties
<1>1. c \in Seq(Piece) /\ Len(c) = Len(b) + Len(m) /\ \A i \in 1 .. Len(b) : c[i] = b[i]
  BY <1>0, ConcatProperties
<1> HIDE DEF c
<1>2. CASE b = <<>>
  BY <1>2 DEF ParseHead, Incomplete, HeadFits, Fits
<1>3. CASE b # <<>>
  <2>1. Len(b) # 0 /\ b[1] \in Piece
    BY <1>0, <1>3, EmptySeq, ElementOfSeq
  <2>2. c # <<>> /\ c[1] = b[1] /\ Head(b) = b[1] /\ Head(c) = c[1]
    BY <1>0, <1>1, <2>1, EmptySeq
  <2>3. CASE b[1].type \notin Types
    <3>1. ParseHead(b) = ProtocolError /\ ParseHead(c) = ProtocolError
      BY <1>3, <2>2, <2>3 DEF ParseHead, Types
    <3> QED  BY <3>1 DEF ProtocolError, HeadFits, Fits, c
  <2>4. CASE b[1].type \in Types /\ ~Contains(b, Eol)
    BY <1>3, <2>2, <2>4 DEF ParseHead, Incomplete, HeadFits, Fits, Types
  <2>5. CASE b[1].type \in Types /\ Contains(b, Eol)
    <3>1. b[1] # Eol
      BY <2>5 DEF Types, Eol, Txt
    <3>2. PICK e : EndsAt(b, e)
      BY <2>5, <3>1, EndExists
    <3>3. e \in 2 .. Len(b)
      BY <3>2 DEF EndsAt
    <3>4. EndsAt(c, e)
      <4>1. \A i \in 1 .. e : i \in 1 .. Len(b)
        BY <1>0, <3>3
      <4>2. \A i \in 1 .. e : c[i] = b[i]
        BY <1>1, <4>1
      <4>3. e \in 2 .. Len(c) /\ e \in 1 .. e /\ \A i \in 1 .. e - 1 : i \in 1 .. e
        BY <1>0, <1>1, <3>3
      <4> QED  BY <3>2, <4>2, <4>3 DEF EndsAt
    <3> DEFINE line == SubSeq(b, 1, e - 1)
    <3>5. Line(b) = line /\ Line(c) = line
      <4>1. SubSeq(c, 1, e - 1) = line
        BY <1>0, <3>3, PartOf DEF c
      <4>2. Line(b) = line
        BY <1>0, <3>2, LineIs
      <4>3. Line(c) = SubSeq(c, 1, e - 1)
        BY <1>0, <1>1, <3>4, LineIs
      <4> QED  BY <4>1, <4>2, <4>3
    <3>6. Len(line) = e - 1 /\ line[1] = b[1]
      <4>1. /\ Len(line) = e - 1 /\ \A n \in 1 .. e - 1 : line[n] = b[1 + n - 1]
        BY <1>0, <3>3, PartOf
      <4> QED  BY <3>3, <4>1
    <3> HIDE DEF line
    <3>7. Contains(c, Eol)
      BY <1>0, <1>1, <2>5 DEF Contains
    <3> DEFINE Outcome(x) ==
           CASE b[1].type = "+" -> Parsed(SimpleString(line), e)
            [] b[1].type = "-" -> Parsed(Error(line), e)
            [] ~IsNumber(line) /\ b[1].type \in {":", "$", "*"} -> ProtocolError
            [] OTHER -> 
                 CASE b[1].type = ":" -> Parsed(Integer(b[1].n), e)
                   [] b[1].type = "$" -> ParseBulk(x, b[1].n, e)
                   [] b[1].type = "*" ->
                        IF b[1].n < 0 THEN Parsed(Nil, e) ELSE Header(b[1].n, e)
    <3>8. ParseHead(b) = Outcome(b) /\ ParseHead(c) = Outcome(c)
      <4>1. Len(line) + 1 = e
        BY <3>3, <3>6
      <4> QED  BY <1>3, <2>2, <2>5, <3>5, <3>6, <3>7, <4>1 DEF ParseHead, Types
    <3>9. b[1].n \in Int
      BY <2>1 DEF Piece
    <3>10. /\ HeadFits(ParseBulk(b, b[1].n, e), Len(b))
           /\ ParseBulk(b, b[1].n, e).kind # "incomplete" =>
                ParseBulk(c, b[1].n, e) = ParseBulk(b, b[1].n, e)
      <4> DEFINE len == b[1].n
                 needed == e + len + 1
      <4>1. CASE len < 0
        BY <3>3, <4>1 DEF ParseBulk, Parsed, HeadFits, Fits
      <4>2. CASE len >= 0 /\ Len(b) < needed
        BY <3>9, <4>2 DEF ParseBulk, Incomplete, HeadFits, Fits
      <4>3. CASE len >= 0 /\ Len(b) >= needed
        <5>1. SubSeq(c, e + 1, e + len) = SubSeq(b, e + 1, e + len)
          BY <1>0, <3>3, <3>9, <4>3, PartOf DEF c
        <5>2. needed \in 1 .. Len(b) /\ ~(len < 0) /\ ~(Len(b) < needed) /\ ~(Len(c) < needed)
          BY <1>0, <1>1, <3>3, <3>9, <4>3
        <5> QED  BY <5>1, <5>2 DEF ParseBulk, Parsed, HeadFits, Fits
      <4> QED  BY <1>0, <3>3, <3>9, <4>1, <4>2, <4>3
    <3>11. CASE b[1].type = "$" /\ IsNumber(line)
      <4>1. \A x : Outcome(x) = ParseBulk(x, b[1].n, e)
        BY <3>11
      <4> HIDE DEF Outcome
      <4> QED  BY <3>8, <3>10, <4>1 DEF c
    <3>12. CASE ~(b[1].type = "$" /\ IsNumber(line))
      <4>1. \A x, y : Outcome(x) = Outcome(y)
        BY <3>12
      <4>2. HeadFits(Outcome(b), Len(b))
        BY <2>5, <3>3, <3>9, <3>12 DEF Types, Parsed, ProtocolError, Header, HeadFits, Fits
      <4> HIDE DEF Outcome
      <4> QED  BY <3>8, <4>1, <4>2 DEF c
    <3> QED  BY <3>11, <3>12
  <2> QED  BY <2>3, <2>4, <2>5
<1> QED  BY <1>2, <1>3
-----------------------------------------------------------------------------
\* What the loop of parse_array has after each number of items.
Item(at, start, items, k) ==
  IF k = 0 THEN Parsed(<<>>, start) ELSE WithItem(items[k - 1], at)

Items(at, start, n, items) == \A k \in 0 .. n : items[k] = Item(at, start, items, k)

LEMMA TurnsExist ==
  ASSUME NEW at, NEW start, NEW n \in Nat
  PROVE  \E items : Items(at, start, n, items)
<1> DEFINE Bad == {k \in Nat : ~ \E items : Items(at, start, k, items)}
<1>1. SUFFICES ASSUME Bad # {} PROVE FALSE
  OBVIOUS
<1> HIDE DEF Bad
<1>2. PICK k \in Bad : \A l \in Bad : k <= l
  <2>1. Bad \subseteq Nat
    BY DEF Bad
  <2> QED  BY <2>1, <1>1, LeastIn
<1>3. k \in Nat /\ ~ \E items : Items(at, start, k, items)
  BY DEF Bad
<1>4. CASE k = 0
  <2>1. Items(at, start, 0, [i \in {0} |-> Parsed(<<>>, start)])
    BY DEF Items, Item
  <2> QED  BY <1>3, <1>4, <2>1
<1>5. CASE k # 0
  <2>1. k - 1 \in Nat /\ k - 1 \notin Bad
    BY <1>2, <1>3, <1>5
  <2>2. PICK g : Items(at, start, k - 1, g)
    BY <2>1 DEF Bad
  <2> DEFINE h == [i \in 0 .. k |-> IF i = k THEN WithItem(g[k - 1], at) ELSE g[i]]
  <2>3. \A i \in 0 .. k - 1 : h[i] = g[i] /\ g[i] = Item(at, start, g, i)
    BY <1>3, <2>2 DEF Items
  <2>4. h[k] = WithItem(g[k - 1], at)
    BY <1>3
  <2> HIDE DEF h
  <2>5. ASSUME NEW i \in 0 .. k PROVE h[i] = Item(at, start, h, i)
    <3>1. CASE i = k
      <4>1. h[k - 1] = g[k - 1]
        BY <2>1, <2>3
      <4> QED  BY <1>5, <2>4, <3>1, <4>1 DEF Item
    <3>2. CASE i = 0
      BY <1>3, <1>5, <2>3, <3>2 DEF Item
    <3>3. CASE i # k /\ i # 0
      <4>1. i \in 0 .. k - 1 /\ i - 1 \in 0 .. k - 1
        BY <1>3, <3>3
      <4>2. h[i] = WithItem(g[i - 1], at) /\ h[i - 1] = g[i - 1]
        BY <2>3, <3>3, <4>1 DEF Item
      <4> QED  BY <3>3, <4>2 DEF Item
    <3> QED  BY <3>1, <3>2, <3>3
  <2>6. Items(at, start, k, h)
    BY <2>5 DEF Items
  <2> QED  BY <1>3, <2>6
<1> QED  BY <1>4, <1>5

LEMMA ItemsAre ==
  ASSUME NEW at, NEW start, NEW n \in Nat
  PROVE  \E items : Items(at, start, n, items) /\ ParseItems(at, start, n) = items[n]
<1>1. PICK h : Items(at, start, n, h)
  BY TurnsExist
<1> DEFINE g == [k \in 0 .. n |-> h[k]]
           items == CHOOSE f : f = [k \in 0 .. n |-> Item(at, start, f, k)]
<1>2. g = [k \in 0 .. n |-> Item(at, start, g, k)]
  <2>1. ASSUME NEW k \in 0 .. n PROVE h[k] = Item(at, start, g, k)
    <3>1. h[k] = Item(at, start, h, k)
      BY <1>1 DEF Items
    <3>2. k # 0 => g[k - 1] = h[k - 1]
      OBVIOUS
    <3> HIDE DEF g
    <3> QED  BY <3>1, <3>2 DEF Item
  <2>2. g = [k \in 0 .. n |-> h[k]]
    OBVIOUS
  <2> HIDE DEF g
  <2> QED  BY <2>1, <2>2
<1>3. items = [k \in 0 .. n |-> Item(at, start, items, k)]
  <2> HIDE DEF g
  <2> QED  BY <1>2
<1>4. ParseItems(at, start, n) = items[n]
  BY DEF ParseItems, Item
<1> HIDE DEF items
<1>5. Items(at, start, n, items)
  BY <1>3 DEF Items
<1> QED  BY <1>4, <1>5

\* What the parser makes of everything behind an offset stays in the buffer, and
\* two such tables agree where the kind of the first is in K.
Agree(from, len, K, a, b) ==
  \A i \in from + 1 .. len :
    Fits(a[i], len - i) /\ (a[i].kind \in K => b[i] = a[i])

LEMMA ItemsAgree ==
  ASSUME NEW len \in Nat, NEW from \in 0 .. len, NEW K, "value" \in K,
         NEW a, NEW b, Agree(from, len, K, a, b),
         NEW start \in from + 1 .. len, NEW n \in Nat
  PROVE  LET x == ParseItems(a, start, n)
             y == ParseItems(b, start, n)
         IN  /\ x.kind \in {"value", "error", "incomplete"}
             /\ x.kind = "value" => x.consumed \in start .. len
             /\ x.kind \in K => y = x
<1>1. PICK f : Items(a, start, n, f) /\ ParseItems(a, start, n) = f[n]
  BY ItemsAre
<1>2. PICK g : Items(b, start, n, g) /\ ParseItems(b, start, n) = g[n]
  BY ItemsAre
<1> DEFINE Ok(k) == /\ f[k].kind \in {"value", "error", "incomplete"}
                    /\ f[k].kind = "value" => f[k].consumed \in start .. len
                    /\ f[k].kind \in K => g[k] = f[k]
           Bad == {k \in 0 .. n : ~Ok(k)}
<1>3. ASSUME Bad # {} PROVE FALSE
  <2>1. Bad \subseteq Nat
    OBVIOUS
  <2>2. PICK k \in Bad : \A l \in Bad : k <= l
    <3> HIDE DEF Bad
    <3> QED  BY <2>1, <1>3, LeastIn
  <2>3. k \in 0 .. n /\ ~Ok(k)
    BY <2>2
  <2>4. CASE k = 0
    <3>1. f[0] = Parsed(<<>>, start) /\ g[0] = Parsed(<<>>, start)
      BY <1>1, <1>2 DEF Items, Item
    <3> QED  BY <2>3, <2>4, <3>1 DEF Parsed
  <2>5. CASE k # 0
    <3>1. k - 1 \in 0 .. n /\ k - 1 \notin Bad
      BY <2>2, <2>3, <2>5
    <3>2. Ok(k - 1)
      BY <3>1
    <3>3. f[k] = WithItem(f[k - 1], a) /\ g[k] = WithItem(g[k - 1], b)
      BY <1>1, <1>2, <2>3, <2>5 DEF Items, Item
    <3> DEFINE p == f[k - 1]
               q == g[k - 1]
    <3>4. /\ p.kind \in {"value", "error", "incomplete"}
          /\ p.kind = "value" => p.consumed \in start .. len
          /\ p.kind \in K => q = p
      BY <3>2
    <3> HIDE DEF p, q
    <3>5. CASE p.kind # "value"
      <4>1. f[k] = p /\ (q = p => g[k] = p)
        BY <3>3, <3>5 DEF WithItem, p, q
      <4> QED  BY <2>3, <3>4, <3>5, <4>1
    <3>6. CASE p.kind = "value"
      <4> DEFINE o == p.consumed
                 r == a[o]
                 s == b[o]
      <4>1. q = p /\ o \in start .. len
        BY <3>4, <3>6
      <4>2. o \in from + 1 .. len
        BY <4>1
      <4>3. Fits(r, len - o) /\ (r.kind \in K => s = r)
        BY <4>2 DEF Agree
      <4>4. f[k] = IF r.kind # "value" THEN r
                   ELSE Parsed(Append(p.val, r.val), o + r.consumed)
        BY <3>3, <3>6 DEF WithItem, p
      <4>5. g[k] = IF s.kind # "value" THEN s
                   ELSE Parsed(Append(p.val, s.val), o + s.consumed)
        BY <3>3, <3>6, <4>1 DEF WithItem, q
      <4> HIDE DEF r, s
      <4>6. CASE r.kind # "value"
        <5>1. f[k] = r /\ (s = r => g[k] = r)
          BY <4>4, <4>5, <4>6
        <5> QED  BY <2>3, <4>3, <4>6, <5>1 DEF Fits
      <4>7. CASE r.kind = "value"
        <5>1. s = r
          BY <4>3, <4>7
        <5>2. f[k] = Parsed(Append(p.val, r.val), o + r.consumed) /\ g[k] = f[k]
          BY <4>4, <4>5, <4>7, <5>1
        <5>3. o + r.consumed \in start .. len
          BY <4>1, <4>3, <4>7 DEF Fits
        <5> QED  BY <2>3, <5>2, <5>3 DEF Parsed
      <4> QED  BY <4>6, <4>7
    <3> QED  BY <3>5, <3>6
  <2> QED  BY <2>4, <2>5
<1>4. Ok(n)
  BY <1>3
<1> QED  BY <1>1, <1>2, <1>4

\* parse at an offset, from two tables that agree behind it, and from a buffer
\* to which more may have come.
LEMMA FromAgree ==
  ASSUME NEW buf \in Seq(Piece), NEW more \in Seq(Piece), NEW i \in 0 .. Len(buf),
         NEW K, "value" \in K, NEW a, NEW b, Agree(i, Len(buf), K, a, b),
         NEW c, c = buf \/ (c = buf \o more /\ "incomplete" \notin K)
  PROVE  /\ Fits(ParseFrom(buf, i, a), Len(buf) - i)
         /\ ParseFrom(buf, i, a).kind \in K => ParseFrom(c, i, b) = ParseFrom(buf, i, a)
<1> DEFINE len == Len(buf)
           r == From(buf, i)
           head == ParseHead(r)
           other == ParseHead(From(c, i))
<1>1. len \in Nat
  BY LenProperties
<1>2. /\ r \in Seq(Piece) /\ Len(r) = len - i
      /\ From(buf \o more, i) = r \o more
  BY FromIs
<1>3. /\ HeadFits(head, len - i)
      /\ c = buf => other = head
      /\ head.kind # "incomplete" => other = head
  <2>1. /\ HeadFits(ParseHead(r), Len(r))
        /\ ParseHead(r).kind # "incomplete" => ParseHead(r \o more) = ParseHead(r)
    BY <1>2, HeadStable
  <2> HIDE DEF r
  <2> QED  BY <1>2, <2>1 DEF r
<1>4. ParseFrom(buf, i, a) =
        IF head.kind # "array" THEN head
        ELSE LET items == ParseItems(a, i + head.consumed, head.count) IN
             IF items.kind # "value" THEN items ELSE Parsed(Array(items.val), items.consumed - i)
  BY DEF ParseFrom
<1>5. ParseFrom(c, i, b) =
        IF other.kind # "array" THEN other
        ELSE LET items == ParseItems(b, i + other.consumed, other.count) IN
             IF items.kind # "value" THEN items ELSE Parsed(Array(items.val), items.consumed - i)
  BY DEF ParseFrom
<1> HIDE DEF head, other, r, len
<1>6. CASE head.kind # "array"
  <2>1. Fits(head, len - i)
    BY <1>3, <1>6 DEF HeadFits
  <2>2. head.kind \in K => other = head
    BY <1>3
  <2> QED  BY <1>4, <1>5, <1>6, <2>1, <2>2 DEF len
<1>7. CASE head.kind = "array"
  <2> DEFINE start == i + head.consumed
             x == ParseItems(a, start, head.count)
             y == ParseItems(b, start, head.count)
  <2>1. other = head /\ head.count \in Nat /\ head.consumed \in 1 .. len - i
    BY <1>3, <1>7 DEF HeadFits, Fits
  <2>2. start \in i + 1 .. len /\ i \in 0 .. len
    BY <1>1, <2>1 DEF len
  <2>3. /\ x.kind \in {"value", "error", "incomplete"}
        /\ x.kind = "value" => x.consumed \in start .. len
        /\ x.kind \in K => y = x
    <3> HIDE DEF start
    <3>1. Agree(i, len, K, a, b)
      BY DEF len
    <3> QED  BY <1>1, <2>1, <2>2, <3>1, ItemsAgree
  <2>4. ParseFrom(buf, i, a) =
          IF x.kind # "value" THEN x ELSE Parsed(Array(x.val), x.consumed - i)
    BY <1>4, <1>7
  <2>5. ParseFrom(c, i, b) =
          IF y.kind # "value" THEN y ELSE Parsed(Array(y.val), y.consumed - i)
    BY <1>5, <1>7, <2>1
  <2> HIDE DEF x, y
  <2>6. CASE x.kind # "value"
    BY <2>3, <2>4, <2>5, <2>6 DEF Fits
  <2>7. CASE x.kind = "value"
    <3>1. y = x /\ x.consumed - i \in 1 .. len - i
      BY <1>1, <2>2, <2>3, <2>7
    <3> QED  BY <2>4, <2>5, <2>7, <3>1 DEF Fits, Parsed, len
  <2> QED  BY <2>6, <2>7
<1> QED  BY <1>6, <1>7

LEMMA MostIn ==
  ASSUME NEW n \in Nat, NEW T, T \subseteq 0 .. n, T # {}
  PROVE  \E x \in T : \A y \in T : y <= x
<1> DEFINE U == {n - y : y \in T}
<1>1. U \subseteq Nat /\ U # {}
  <2>1. \A y \in T : y \in 0 .. n
    OBVIOUS
  <2>2. \A y \in T : n - y \in Nat
    BY <2>1
  <2> QED  BY <2>2
<1>2. PICK u \in U : \A w \in U : u <= w
  <2> HIDE DEF U
  <2> QED  BY <1>1, LeastIn
<1>3. PICK x \in T : u = n - x
  BY <1>2
<1>4. ASSUME NEW y \in T PROVE y <= x
  <2>1. n - x <= n - y
    BY <1>2, <1>3
  <2>2. x \in 0 .. n /\ y \in 0 .. n
    BY <1>3, <1>4
  <2> QED  BY <2>1, <2>2
<1> QED  BY <1>4

\* The last n entries of what parse makes of a buffer at each offset.
Table(buf, n, t) ==
  \A i \in Len(buf) - n + 1 .. Len(buf) : t[i] = ParseFrom(buf, i, t)

Kinds == {"value", "error", "incomplete"}

LEMMA TableFits ==
  ASSUME NEW buf \in Seq(Piece), NEW n \in 0 .. Len(buf) + 1, NEW t, Table(buf, n, t)
  PROVE  \A i \in Len(buf) - n + 1 .. Len(buf) : Fits(t[i], Len(buf) - i)
<1> DEFINE len == Len(buf)
           Bad == {i \in len - n + 1 .. len : ~Fits(t[i], len - i)}
<1>1. len \in Nat
  BY LenProperties
<1>2. ASSUME Bad # {} PROVE FALSE
  <2>1. Bad \subseteq 0 .. len
    BY <1>1
  <2>2. PICK i \in Bad : \A j \in Bad : j <= i
    <3> HIDE DEF Bad, len
    <3> QED  BY <1>1, <1>2, <2>1, MostIn
  <2>3. i \in 0 .. len /\ i \in len - n + 1 .. len /\ ~Fits(t[i], len - i)
    BY <2>1, <2>2
  <2>4. Agree(i, len, Kinds, t, t)
    <3>1. ASSUME NEW j \in i + 1 .. len PROVE Fits(t[j], len - j)
      <4>1. j \in len - n + 1 .. len /\ ~(j <= i)
        BY <1>1, <2>3
      <4> QED  BY <2>2, <4>1
    <3> QED  BY <3>1 DEF Agree
  <2>5. Fits(ParseFrom(buf, i, t), len - i)
    <3>1. i \in 0 .. Len(buf) /\ Agree(i, Len(buf), Kinds, t, t) /\ "value" \in Kinds
      BY <2>3, <2>4 DEF Kinds
    <3> QED  BY <3>1, FromAgree, EmptySeq
  <2>6. t[i] = ParseFrom(buf, i, t)
    BY <2>3 DEF Table
  <2> QED  BY <2>3, <2>5, <2>6
<1> QED  BY <1>2

LEMMA TablesExist ==
  ASSUME NEW buf \in Seq(Piece), NEW n \in 0 .. Len(buf) + 1
  PROVE  \E t : Table(buf, n, t)
<1> DEFINE len == Len(buf)
           Bad == {k \in 0 .. len + 1 : ~ \E t : Table(buf, k, t)}
<1>0. len \in Nat
  BY LenProperties
<1>1. SUFFICES ASSUME Bad # {} PROVE FALSE
  OBVIOUS
<1>2. Bad \subseteq Nat
  BY <1>0
<1> HIDE DEF Bad
<1>3. PICK k \in Bad : \A l \in Bad : k <= l
  BY <1>1, <1>2, LeastIn
<1>4. k \in 0 .. len + 1 /\ ~ \E t : Table(buf, k, t)
  BY DEF Bad
<1>5. CASE k = 0
  <2>1. Table(buf, 0, <<>>)
    BY <1>0 DEF Table
  <2> QED  BY <1>4, <1>5, <2>1
<1>6. CASE k # 0
  <2> DEFINE o == len - k + 1
  <2>1. k - 1 \in 0 .. len + 1 /\ k - 1 \notin Bad /\ o \in 0 .. len
    BY <1>0, <1>3, <1>4, <1>6
  <2>2. PICK t : Table(buf, k - 1, t)
    BY <2>1 DEF Bad
  <2>3. \A i \in o + 1 .. len : t[i] = ParseFrom(buf, i, t) /\ Fits(t[i], len - i)
    <3>1. Len(buf) - (k - 1) + 1 = o + 1
      BY <1>0, <1>4
    <3>2. k - 1 \in 0 .. Len(buf) + 1
      BY <2>1
    <3> HIDE DEF o
    <3> QED  BY <2>2, <3>1, <3>2, TableFits DEF Table
  <2> DEFINE u == [i \in o .. len |-> IF i = o THEN ParseFrom(buf, o, t) ELSE t[i]]
  <2>4. /\ u[o] = ParseFrom(buf, o, t)
        /\ \A i \in o + 1 .. len : u[i] = t[i]
    BY <1>0, <2>1
  <2> HIDE DEF u, o
  <2>5. ASSUME NEW i \in o .. len PROVE ParseFrom(buf, i, u) = ParseFrom(buf, i, t)
    <3>1. i \in 0 .. len
      BY <1>0, <2>1
    <3>2. \A j \in i + 1 .. len : j \in o + 1 .. len
      BY <1>0, <2>1
    <3>3. Agree(i, len, Kinds, t, u)
      BY <2>3, <2>4, <3>2 DEF Agree
    <3>4. /\ Fits(ParseFrom(buf, i, t), len - i)
          /\ ParseFrom(buf, i, t).kind \in Kinds => ParseFrom(buf, i, u) = ParseFrom(buf, i, t)
      <4>1. "value" \in Kinds
        BY DEF Kinds
      <4>2. /\ Fits(ParseFrom(buf, i, t), Len(buf) - i)
            /\ ParseFrom(buf, i, t).kind \in Kinds => ParseFrom(buf, i, u) = ParseFrom(buf, i, t)
        <5>1. i \in 0 .. Len(buf) /\ Agree(i, Len(buf), Kinds, t, u) /\ buf = buf
          BY <3>1, <3>3
        <5> QED  BY <4>1, <5>1, FromAgree
      <4> QED  BY <4>2
    <3> QED  BY <3>4 DEF Fits, Kinds
  <2>6. ASSUME NEW i \in o .. len PROVE u[i] = ParseFrom(buf, i, u)
    <3>1. i = o \/ i \in o + 1 .. len
      BY <1>0, <2>1
    <3> QED  BY <2>3, <2>4, <2>5, <3>1
  <2>7. Table(buf, k, u)
    BY <2>6 DEF Table, o
  <2> QED  BY <1>4, <2>7
<1> QED  BY <1>5, <1>6

\* parse finds such a table, of the whole buffer.
LEMMA ParseIs ==
  ASSUME NEW buf \in Seq(Piece)
  PROVE  \E t : Table(buf, Len(buf) + 1, t) /\ Parse(buf) = t[0]
<1> DEFINE len == Len(buf)
           at == CHOOSE a : a = [i \in 0 .. len |-> ParseFrom(buf, i, a)]
<1>0. len \in Nat /\ len + 1 \in 0 .. len + 1 /\ len - (len + 1) + 1 = 0
  BY LenProperties
<1>1. PICK t : Table(buf, len + 1, t)
  BY <1>0, TablesExist
<1>2. \A i \in 0 .. len : t[i] = ParseFrom(buf, i, t) /\ Fits(t[i], len - i)
  <2>1. Len(buf) + 1 \in 0 .. Len(buf) + 1
    BY <1>0
  <2> QED  BY <1>0, <1>1, <2>1, TableFits DEF Table
<1> DEFINE u == [i \in 0 .. len |-> t[i]]
<1>3. \A i \in 0 .. len : u[i] = t[i]
  OBVIOUS
<1>4. ASSUME NEW i \in 0 .. len PROVE t[i] = ParseFrom(buf, i, u)
  <2> HIDE DEF u
  <2>1. \A j \in i + 1 .. len : j \in 0 .. len
    BY <1>0
  <2>2. Agree(i, Len(buf), Kinds, t, u) /\ "value" \in Kinds /\ i \in 0 .. Len(buf)
    BY <1>2, <1>3, <2>1 DEF Agree, Kinds
  <2>3. /\ Fits(ParseFrom(buf, i, t), Len(buf) - i)
        /\ ParseFrom(buf, i, t).kind \in Kinds => ParseFrom(buf, i, u) = ParseFrom(buf, i, t)
    <3>1. buf = buf
      OBVIOUS
    <3> HIDE DEF len
    <3> QED  BY <2>2, <3>1, FromAgree
  <2> QED  BY <1>2, <2>3 DEF Fits, Kinds
<1>5. u = [i \in 0 .. len |-> ParseFrom(buf, i, u)]
  <2>1. u = [i \in 0 .. len |-> t[i]]
    OBVIOUS
  <2> HIDE DEF u
  <2> QED  BY <2>1, <1>4
<1>6. at = [i \in 0 .. len |-> ParseFrom(buf, i, at)]
  <2> HIDE DEF u
  <2> QED  BY <1>5
<1>7. Parse(buf) = at[0]
  BY DEF Parse
<1> HIDE DEF at
<1>8. Table(buf, Len(buf) + 1, at)
  BY <1>0, <1>6 DEF Table
<1> QED  BY <1>7, <1>8

LEMMA ParseStable ==
  ASSUME NEW buf \in Seq(Piece), NEW more \in Seq(Piece)
  PROVE  /\ Fits(Parse(buf), Len(buf))
         /\ Parse(buf).kind # "incomplete" => Parse(buf \o more) = Parse(buf)
<1> DEFINE len == Len(buf)
           K == {"value", "error"}
           c == buf \o more
<1>0. /\ len \in Nat /\ Len(more) \in Nat
      /\ c \in Seq(Piece) /\ Len(c) = len + Len(more)
  BY LenProperties, ConcatProperties
<1>1. PICK t : Table(buf, Len(buf) + 1, t) /\ Parse(buf) = t[0]
  BY ParseIs
<1>2. PICK u : Table(c, Len(c) + 1, u) /\ Parse(c) = u[0]
  BY <1>0, ParseIs
<1>3. \A i \in 0 .. len : t[i] = ParseFrom(buf, i, t) /\ Fits(t[i], len - i)
  <2>1. Len(buf) + 1 \in 0 .. Len(buf) + 1 /\ Len(buf) - (Len(buf) + 1) + 1 = 0
    BY <1>0
  <2> QED  BY <1>1, <2>1, TableFits DEF Table
<1>4. \A i \in 0 .. len : u[i] = ParseFrom(c, i, u)
  <2>1. Len(c) - (Len(c) + 1) + 1 = 0 /\ \A i \in 0 .. len : i \in 0 .. Len(c)
    BY <1>0
  <2> QED  BY <1>2, <2>1 DEF Table
<1> DEFINE Bad == {i \in 0 .. len : ~(t[i].kind \in K => u[i] = t[i])}
<1> HIDE DEF len, c
<1>5. ASSUME Bad # {} PROVE FALSE
  <2>1. Bad \subseteq 0 .. len
    OBVIOUS
  <2>2. PICK i \in Bad : \A j \in Bad : j <= i
    <3> HIDE DEF Bad
    <3> QED  BY <1>0, <1>5, <2>1, MostIn
  <2>3. i \in 0 .. len /\ ~(t[i].kind \in K => u[i] = t[i])
    BY <2>2
  <2>4. Agree(i, len, K, t, u)
    <3>1. ASSUME NEW j \in i + 1 .. len
          PROVE  Fits(t[j], len - j) /\ (t[j].kind \in K => u[j] = t[j])
      <4>1. j \in 0 .. len /\ ~(j <= i)
        BY <1>0, <2>3
      <4> QED  BY <1>3, <2>2, <4>1
    <3> QED  BY <3>1 DEF Agree
  <2>5. ParseFrom(buf, i, t).kind \in K => ParseFrom(c, i, u) = ParseFrom(buf, i, t)
    <3>1. /\ i \in 0 .. Len(buf) /\ Agree(i, Len(buf), K, t, u)
          /\ "value" \in K
      BY <2>3, <2>4 DEF len
    <3>2. c = buf \/ (c = buf \o more /\ "incomplete" \notin K)
      BY DEF c
    <3> HIDE DEF K
    <3>3. /\ Fits(ParseFrom(buf, i, t), Len(buf) - i)
          /\ ParseFrom(buf, i, t).kind \in K => ParseFrom(c, i, u) = ParseFrom(buf, i, t)
      <4> HIDE DEF Bad
      <4> QED  BY <3>1, <3>2, FromAgree
    <3> QED  BY <3>3
  <2> QED  BY <1>3, <1>4, <2>3, <2>5
<1>6. 0 \in 0 .. len /\ 0 \notin Bad
  BY <1>0, <1>5
<1>7. Fits(t[0], len) /\ (t[0].kind \in K => u[0] = t[0])
  <2>1. len - 0 = len
    BY <1>0
  <2> QED  BY <1>3, <1>6, <2>1
<1> QED  BY <1>1, <1>2, <1>7 DEF Fits, len, c

\* parse of resp.rs does what Connection assumes of a parser, for everything a
\* peer may send: a value or an error that it finds is found whatever follows,
\* and a value takes up at least a piece and no more than is there.
THEOREM ServerParser ==
  ASSUME Bytes \subseteq Piece, \A b \in Seq(Bytes) : parse(b) = Parse(b)
  PROVE  /\ \A b, more \in Seq(Bytes) : Stable(b, more)
         /\ \A c \in Conns : \A s \in Streams[c] :
              \A i \in 0 .. Len(s) : \A j \in i .. Len(s) : \A k \in j .. Len(s) :
                Stable(Slice(s, i, j), Slice(s, j, k))
<1>1. ASSUME NEW b \in Seq(Bytes), NEW more \in Seq(Bytes) PROVE Stable(b, more)
  <2>1. b \in Seq(Piece) /\ more \in Seq(Piece) /\ b \o more \in Seq(Bytes)
    BY SeqMonotonic, ConcatProperties
  <2>2. /\ Fits(Parse(b), Len(b))
        /\ Parse(b).kind # "incomplete" => Parse(b \o more) = Parse(b)
    BY <2>1, ParseStable
  <2>3. parse(b) = Parse(b) /\ parse(b \o more) = Parse(b \o more)
    BY <2>1
  <2> QED  BY <2>2, <2>3 DEF Stable, Fits
<1>2. ASSUME NEW c \in Conns, NEW s \in Streams[c], NEW i \in 0 .. Len(s),
             NEW j \in i .. Len(s), NEW k \in j .. Len(s)
      PROVE  Slice(s, i, j) \in Seq(Bytes) /\ Slice(s, j, k) \in Seq(Bytes)
  <2>1. s \in Seq(Bytes)
    BY ConnectionAssumption DEF ConnectionAssumption
  <2>2. j \in 0 .. Len(s)
    BY <2>1, LenProperties
  <2> QED  BY <2>1, <2>2, SliceType
<1> QED  BY <1>1, <1>2

=============================================================================
