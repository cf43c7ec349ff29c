--------------------------- MODULE ReceiverProofs ---------------------------
(***************************************************************************)
(* Both receivers are correct for every stream of messages, every size of  *)
(* a read and every way the bytes of the stream are cut into chunks: the   *)
(* partial message of the server, and receive_data of the package.         *)
(*                                                                         *)
(* Each invariant says where in the stream the receiver stands.  On the    *)
(* server, the bytes it has used up are the messages dispatched and the    *)
(* part it holds of the current one.  In the package, receive_data begins  *)
(* before a header if expected_length is None, behind it if not.           *)
(***************************************************************************)
EXTENDS PartialMessage, ClientReceive, SequenceTheorems, TLAPS

\* A span is a sequence of its length.
LEMMA SpanType ==
  ASSUME NEW a \in Int, NEW n \in Nat
  PROVE  /\ Span(a, n) \in Seq(Int)
         /\ Len(Span(a, n)) = n
         /\ \A i \in 1 .. n : Span(a, n)[i] = a + i
<1>1. Span(a, n) \in [1 .. n -> Int]
  BY DEF Span
<1>2. Span(a, n) \in Seq(Int)
  BY <1>1
<1>3. DOMAIN Span(a, n) = 1 .. n
  BY DEF Span
<1>4. Len(Span(a, n)) = n
  BY <1>2, <1>3
<1> QED
  BY <1>2, <1>4 DEF Span

\* A sequence with the right length and bytes is the span.
LEMMA SpanIs ==
  ASSUME NEW s \in Seq(Int), NEW a \in Int, NEW n \in Nat,
         Len(s) = n, \A i \in 1 .. n : s[i] = a + i
  PROVE  s = Span(a, n)
BY DEF Span

\* s holds the bytes that follow the first a.
Follows(s, a) ==
    /\ s \in Seq(Int)
    /\ \A i \in 1 .. Len(s) : s[i] = a + i

LEMMA SpanFollows ==
  ASSUME NEW a \in Int, NEW n \in Nat
  PROVE  Follows(Span(a, n), a)
BY SpanType DEF Follows

\* A part of such a sequence is a span.
LEMMA FollowsSub ==
  ASSUME NEW s, NEW a \in Int, Follows(s, a),
         NEW i \in Nat, NEW m \in Nat, i + m <= Len(s)
  PROVE  SubSeq(s, i + 1, i + m) = Span(a + i, m)
<1> DEFINE t == SubSeq(s, i + 1, i + m)
<1>1. s \in Seq(Int) /\ Len(s) \in Nat /\ \A j \in 1 .. Len(s) : s[j] = a + j
  BY DEF Follows
<1>2. \A j \in i + 1 .. i + m : s[j] \in Int
  <2> SUFFICES ASSUME NEW j \in i + 1 .. i + m PROVE s[j] \in Int
    OBVIOUS
  <2>1. j \in 1 .. Len(s) /\ a + j \in Int
    BY <1>1
  <2> QED
    BY <1>1, <2>1
<1>3. /\ t \in Seq(Int)
      /\ Len(t) = IF i + 1 <= i + m THEN (i + m) - (i + 1) + 1 ELSE 0
      /\ \A j \in 1 .. (i + m) - (i + 1) + 1 : t[j] = s[(i + 1) + j - 1]
  <2> HIDE DEF t
  <2>1. i + 1 \in Int /\ i + m \in Int
    OBVIOUS
  <2> QED
    BY <1>2, <2>1, SubSeqProperties DEF t
<1> HIDE DEF t
<1>4. Len(t) = m
  BY <1>3
<1>5. \A j \in 1 .. m : t[j] = (a + i) + j
  <2> SUFFICES ASSUME NEW j \in 1 .. m PROVE t[j] = (a + i) + j
    OBVIOUS
  <2>1. t[j] = s[i + j]
    BY <1>3
  <2>2. i + j \in 1 .. Len(s)
    BY <1>1
  <2> QED
    BY <1>1, <2>1, <2>2
<1>6. t = Span(a + i, m)
  <2>1. a + i \in Int
    OBVIOUS
  <2> QED
    BY <1>3, <1>4, <1>5, <2>1, SpanIs
<1> QED
  BY <1>6 DEF t

LEMMA SpanSub ==
  ASSUME NEW a \in Int, NEW n \in Nat, NEW i \in Nat, NEW m \in Nat, i + m <= n
  PROVE  SubSeq(Span(a, n), i + 1, i + m) = Span(a + i, m)
<1>1. Follows(Span(a, n), a) /\ Len(Span(a, n)) = n
  BY SpanFollows, SpanType
<1> QED
  BY <1>1, FollowsSub

\* Two spans that meet are one.
LEMMA SpanCat ==
  ASSUME NEW a \in Int, NEW n \in Nat, NEW m \in Nat
  PROVE  Span(a, n) \o Span(a + n, m) = Span(a, n + m)
<1> DEFINE s == Span(a, n) \o Span(a + n, m)
<1>1. /\ Span(a, n) \in Seq(Int) /\ Len(Span(a, n)) = n
      /\ Span(a + n, m) \in Seq(Int) /\ Len(Span(a + n, m)) = m
      /\ \A i \in 1 .. n : Span(a, n)[i] = a + i
      /\ \A i \in 1 .. m : Span(a + n, m)[i] = a + n + i
  BY SpanType
<1>2. /\ s \in Seq(Int) /\ Len(s) = n + m
      /\ \A i \in 1 .. n + m :
            s[i] = IF i <= n THEN Span(a, n)[i] ELSE Span(a + n, m)[i - n]
  <2> HIDE DEF s
  <2>1. /\ s \in Seq(Int)
        /\ Len(s) = Len(Span(a, n)) + Len(Span(a + n, m))
        /\ \A i \in 1 .. Len(Span(a, n)) + Len(Span(a + n, m)) :
              s[i] = IF i <= Len(Span(a, n)) THEN Span(a, n)[i]
                     ELSE Span(a + n, m)[i - Len(Span(a, n))]
    BY <1>1, ConcatProperties DEF s
  <2> QED
    BY <1>1, <2>1
<1> HIDE DEF s
<1>3. \A i \in 1 .. n + m : s[i] = a + i
  <2> SUFFICES ASSUME NEW i \in 1 .. n + m PROVE s[i] = a + i
    OBVIOUS
  <2>1. CASE i <= n
    <3>1. i \in 1 .. n
      BY <2>1
    <3> QED
      BY <1>1, <1>2, <2>1, <3>1
  <2>2. CASE ~(i <= n)
    <3>1. i - n \in 1 .. m /\ a + n + (i - n) = a + i
      BY <2>2
    <3> QED
      BY <1>1, <1>2, <2>2, <3>1
  <2> QED
    BY <2>1, <2>2
<1>4. s = Span(a, n + m)
  BY <1>2, <1>3, SpanIs
<1> QED
  BY <1>4 DEF s

\* What is left of such a sequence without its first n bytes.
LEMMA FollowsDrop ==
  ASSUME NEW s, NEW a \in Int, Follows(s, a), Len(s) \in Nat,
         NEW n \in Nat, n <= Len(s)
  PROVE  /\ Follows(SubSeq(s, n + 1, Len(s)), a + n)
         /\ Len(SubSeq(s, n + 1, Len(s))) = Len(s) - n
<1>1. PICK l \in Nat : l = Len(s)
  OBVIOUS
<1>2. n <= l
  BY <1>1
<1>3. l - n \in Nat /\ n + (l - n) = l /\ a + n \in Int
  BY <1>2
<1>4. PICK m \in Nat : m = l - n /\ n + m = l
  BY <1>3
<1>5. SubSeq(s, n + 1, n + m) = Span(a + n, m)
  <2>1. n + m <= Len(s)
    BY <1>1, <1>4
  <2> QED
    BY <2>1, FollowsSub
<1>6. /\ Follows(Span(a + n, m), a + n)
      /\ Len(Span(a + n, m)) = m
  BY <1>3, SpanFollows, SpanType
<1> QED
  BY <1>1, <1>4, <1>5, <1>6

\* The bytes that come next are added at the end.
LEMMA FollowsCat ==
  ASSUME NEW s, NEW a \in Int, Follows(s, a), Len(s) \in Nat,
         NEW n \in Nat
  PROVE  /\ Follows(s \o Span(a + Len(s), n), a)
         /\ Len(s \o Span(a + Len(s), n)) = Len(s) + n
<1>1. s = Span(a, Len(s))
  BY SpanIs DEF Follows
<1>2. PICK m \in Nat : m = Len(s)
  OBVIOUS
<1>3. s \o Span(a + m, n) = Span(a, m + n)
  BY <1>1, <1>2, SpanCat
<1>4. m + n \in Nat
  OBVIOUS
<1>5. Follows(Span(a, m + n), a) /\ Len(Span(a, m + n)) = m + n
  BY <1>4, SpanFollows, SpanType
<1> QED
  BY <1>2, <1>3, <1>5

\* What the assumption on Start says, in the order it is used.
LEMMA StreamFacts ==
  /\ N \in Nat /\ HeaderLen \in Nat /\ HeaderLen > 0 /\ Total \in Nat
  /\ \A k \in 1 .. N + 1 : Start[k] \in Nat
  /\ \A k \in 1 .. N : /\ Length[k] \in Nat
                       /\ Start[k + 1] = Start[k] + HeaderLen + Length[k]
                       /\ Start[k + 1] <= Total
BY StreamAssumption, SMTT(40) DEF Total

\* The header of a message tells its length: no two headers are the same.
LEMMA DecodedHeader ==
  ASSUME NEW k \in 1 .. N
  PROVE  Decoded(Header(k)) = Length[k]
<1>1. \A j \in 1 .. N : Header(j) = Header(k) => j = k
  <2> SUFFICES ASSUME NEW j \in 1 .. N, Header(j) = Header(k), j # k
               PROVE FALSE
    OBVIOUS
  <2>1. Start[j] + 1 = Start[k] + 1
    <3>1. /\ Start[j] \in Int /\ Start[k] \in Int
          /\ HeaderLen \in Nat /\ 1 \in 1 .. HeaderLen
      BY StreamFacts
    <3>2. Span(Start[j], HeaderLen)[1] = Start[j] + 1
      BY <3>1, SpanType
    <3>3. Span(Start[k], HeaderLen)[1] = Start[k] + 1
      BY <3>1, SpanType
    <3> QED
      BY <3>2, <3>3 DEF Header
  <2>2. Start[j] # Start[k]
    <3>1. CASE j < k
      <4>1. k \in j + 1 .. N + 1
        BY <3>1, StreamFacts
      <4>2. Start[j + 1] <= Start[k]
        BY <4>1, StreamAssumption
      <4> QED
        BY <4>2, StreamFacts
    <3>2. CASE k < j
      <4>1. j \in k + 1 .. N + 1
        BY <3>2, StreamFacts
      <4>2. Start[k + 1] <= Start[j]
        BY <4>1, StreamAssumption
      <4> QED
        BY <4>2, StreamFacts
    <3> QED
      BY <3>1, <3>2, StreamFacts
  <2> QED
    BY <2>1, <2>2, StreamFacts
<1>2. (CHOOSE j \in 1 .. N : Header(k) = Header(j)) = k
  BY <1>1
<1> QED
  BY <1>2 DEF Decoded

-----------------------------------------------------------------------------
(***************************************************************************)
(* The receiving side of the server.                                       *)
(***************************************************************************)
Current == Len(dispatched) + 1      \* the message being received
Position == taken - Remain          \* how much of the stream was given away

\* The buffer holds the bytes of the stream that were read last.
BufferInv ==
    /\ taken \in Nat /\ taken <= Total
    /\ Follows(readBuffer, taken - Len(readBuffer))
    /\ Len(readBuffer) \in 0 .. ReadBufferSize
    /\ offset \in Nat /\ offset <= Len(readBuffer)

InHeader ==
    /\ msgLength = Null /\ msgData = <<>>
    /\ bytesUsed < HeaderLen
    /\ msgLenBytes = Span(Start[Current], bytesUsed)
    /\ Position = Start[Current] + bytesUsed

InData ==
    /\ Current <= N /\ msgLength = Length[Current]
    /\ msgLenBytes \in Seq(Int)
    /\ bytesUsed <= msgLength
    /\ msgData = Span(Start[Current] + HeaderLen, bytesUsed)
    /\ Position = Start[Current] + HeaderLen + bytesUsed

IInv ==
    /\ BufferInv
    /\ dispatched \in Seq(Seq(Int)) /\ Len(dispatched) <= N
    /\ bytesUsed \in Nat
    /\ InHeader \/ InData
-----------------------------------------------------------------------------
LEMMA BufferFacts ==
  /\ ReadBufferSize \in Nat /\ ReadBufferSize > 0
  /\ \A n \in Nat : n # Null
BY BufferAssumption

LEMMA EmptySpan ==
  ASSUME NEW a \in Int
  PROVE  Span(a, 0) = <<>>
<1>1. Span(a, 0) \in Seq(Int) /\ Len(Span(a, 0)) = 0
  BY SpanType
<1> QED
  BY <1>1

\* Copying the bytes that follow those already there extends the span.
LEMMA CopySpan ==
  ASSUME NEW src, NEW from \in Nat, NEW n \in Nat, NEW a \in Int, NEW at \in Nat,
         Follows(src, a + at - from), Len(src) \in Nat, from + n <= Len(src)
  PROVE  BlockCopy(src, from, Span(a, at), at, n) = Span(a, at + n)
<1>1. SubSeq(Span(a, at), 1, at) = Span(a, at)
  <2>1. 0 \in Nat /\ 0 + at <= at
    OBVIOUS
  <2>2. SubSeq(Span(a, at), 0 + 1, 0 + at) = Span(a + 0, at)
    BY <2>1, SpanSub, ZenonT(40)
  <2>3. 0 + 1 = 1 /\ 0 + at = at /\ a + 0 = a
    OBVIOUS
  <2> QED
    BY <2>2, <2>3
<1>2. SubSeq(src, from + 1, from + n) = Span(a + at, n)
  <2>1. PICK b \in Int : b = a + at - from
    OBVIOUS
  <2>2. SubSeq(src, from + 1, from + n) = Span(b + from, n)
    BY <2>1, FollowsSub
  <2> QED
    BY <2>1, <2>2
<1>3. Span(a, at) \o Span(a + at, n) = Span(a, at + n)
  BY SpanCat
<1> QED
  BY <1>1, <1>2, <1>3 DEF BlockCopy

\* msgData was extended with what was missing, or all there was.
Took(a, length, from, left, at) ==
    \E m \in Nat :
        /\ m <= left /\ at + m <= length
        /\ bytesUsed' = at + m /\ offset' = from + m
        /\ msgData' = Span(a, at + m)
        /\ left > 0 /\ at < length => m > 0

LEMMA GiveDataTakes ==
  ASSUME NEW length \in Nat, NEW from \in Nat, NEW left \in Nat, NEW at \in Nat,
         GiveData(length, from, left, at), at <= length,
         NEW a \in Int, msgData = Span(a, at), Follows(readBuffer, a + at - from),
         Len(readBuffer) \in Nat, from + left <= Len(readBuffer)
  PROVE  Took(a, length, from, left, at)
<1> DEFINE n == Smaller(left, length - at)
<1>1. /\ n \in Nat /\ n <= left /\ at + n <= length
      /\ left > 0 /\ at < length => n > 0
  BY DEF Smaller
<1>2. /\ msgData' = BlockCopy(readBuffer, from, msgData, at, n)
      /\ bytesUsed' = at + n
      /\ offset' = from + n
  BY DEF GiveData
<1> HIDE DEF n
<1>3. BlockCopy(readBuffer, from, msgData, at, n) = Span(a, at + n)
  <2>1. from + n <= Len(readBuffer)
    BY <1>1
  <2>2. BlockCopy(readBuffer, from, Span(a, at), at, n) = Span(a, at + n)
    BY <1>1, <2>1, CopySpan
  <2> QED
    BY <2>2
<1> QED
  BY <1>1, <1>2, <1>3 DEF Took
-----------------------------------------------------------------------------
LEMMA InitInv == Init => IInv
<1> SUFFICES ASSUME Init PROVE IInv
  OBVIOUS
<1>1. /\ Start[1] = 0 /\ N \in Nat /\ HeaderLen \in Nat /\ HeaderLen > 0
      /\ Total \in Nat
  BY StreamFacts, StreamAssumption
<1>2. Span(0, 0) = <<>>
  BY EmptySpan
<1>3. BufferInv
  <2>1. Follows(<<>>, 0) /\ Len(<<>>) = 0
    BY <1>2, SpanFollows
  <2>2. taken - Len(readBuffer) = 0 /\ Len(readBuffer) = 0
    <3>1. taken = 0 /\ readBuffer = <<>>
      BY DEF Init
    <3>2. Len(readBuffer) = 0
      BY <2>1, <3>1
    <3>3. 0 - 0 = 0
      OBVIOUS
    <3> QED
      BY <3>1, <3>2, <3>3, Zenon
  <2> QED
    BY <1>1, <2>1, <2>2, BufferFacts DEF Init, BufferInv
<1>4. InHeader
  BY <1>1, <1>2 DEF Init, InHeader, Current, Position, Remain
<1> QED
  BY <1>1, <1>3, <1>4 DEF Init, IInv

LEMMA ReadInv ==
  ASSUME IInv, NEW n \in 1 .. ReadBufferSize, Read(n)
  PROVE  IInv'
<1>1. BufferInv'
  <2>1. taken \in Nat /\ n \in Nat
    BY DEF IInv, BufferInv
  <2>2. readBuffer' = Span(taken, n) /\ taken' = taken + n /\ offset' = 0
    BY DEF Read
  <2>3. Len(readBuffer') = n /\ Follows(readBuffer', taken)
    BY <2>1, <2>2, SpanType, SpanFollows
  <2>4. taken' - Len(readBuffer') = taken
    BY <2>1, <2>2, <2>3
  <2>5. taken' \in Nat /\ taken' <= Total
    BY <2>1 DEF Read
  <2>6. n \in 0 .. ReadBufferSize
    BY BufferFacts
  <2> QED
    BY <2>1, <2>2, <2>3, <2>4, <2>5, <2>6 DEF BufferInv
<1>2. Position' = Position
  <2>1. taken \in Nat /\ n \in Nat
    BY DEF IInv, BufferInv
  <2>2. readBuffer' = Span(taken, n) /\ taken' = taken + n /\ offset' = 0
    BY DEF Read
  <2>3. Len(readBuffer') = n
    BY <2>1, <2>2, SpanType
  <2>4. Position' = taken
    BY <2>1, <2>2, <2>3 DEF Position, Remain
  <2>5. Position = taken
    BY <2>1 DEF Position, Read
  <2> QED
    BY <2>4, <2>5
<1>3. UNCHANGED <<msgVars, dispatched>>
  BY DEF Read
<1> QED
  BY <1>1, <1>2, <1>3 DEF IInv, InHeader, InData, Current, msgVars

\* What the position says of the message being received.
LEMMA CurrentFacts ==
  ASSUME IInv
  PROVE  /\ Current \in 1 .. N + 1 /\ Start[Current] \in Nat
         /\ Remain \in Nat /\ taken \in Nat /\ Len(readBuffer) \in Nat
         /\ offset + Remain = Len(readBuffer)
         /\ Position = taken - Remain
         /\ Position < Total => Current \in 1 .. N
         /\ Follows(readBuffer, taken - Len(readBuffer))
<1>1. Current \in 1 .. N + 1
  <2>1. Len(dispatched) \in Nat /\ Len(dispatched) <= N /\ N \in Nat
    BY StreamFacts DEF IInv
  <2> QED
    BY <2>1 DEF Current
<1>2. Start[Current] \in Nat
  BY <1>1, StreamFacts
<1>3. /\ Remain \in Nat /\ taken \in Nat /\ Len(readBuffer) \in Nat
      /\ offset + Remain = Len(readBuffer)
  BY DEF Remain, IInv, BufferInv
<1>4. Position < Total => Current \in 1 .. N
  <2> SUFFICES ASSUME Position < Total PROVE Current \in 1 .. N
    OBVIOUS
  <2>1. CASE InData
    BY <1>1, <2>1, StreamFacts DEF InData
  <2>2. CASE InHeader
    <3>1. bytesUsed \in Nat /\ Position = Start[Current] + bytesUsed
      BY <2>2 DEF InHeader, IInv
    <3>2. Start[Current] < Total
      BY <1>2, <3>1, StreamFacts
    <3>3. Current # N + 1
      BY <1>2, <3>2 DEF Total
    <3> QED
      BY <1>1, <3>3, StreamFacts
  <2> QED
    BY <2>1, <2>2 DEF IInv
<1> QED
  BY <1>1, <1>2, <1>3, <1>4 DEF Position, IInv, BufferInv

\* Data is received once the header has told its length.
LEMMA NullMeansHeader ==
  ASSUME IInv
  PROVE  /\ msgLength = Null => InHeader
         /\ msgLength # Null => InData /\ msgLength \in Nat
<1>1. InData => msgLength \in Nat
  <2> SUFFICES ASSUME InData PROVE msgLength \in Nat
    OBVIOUS
  <2>1. Current \in 1 .. N
    BY CurrentFacts, StreamFacts DEF InData
  <2> QED
    BY <2>1, StreamFacts DEF InData
<1>2. InHeader => msgLength = Null
  BY DEF InHeader
<1> QED
  BY <1>1, <1>2, BufferFacts DEF IInv

\* Giving away m bytes of the buffer moves on by m in the stream.
LEMMA BufferMoves ==
  ASSUME IInv, NEW m \in Nat, m <= Remain, offset' = offset + m,
         UNCHANGED <<taken, readBuffer>>
  PROVE  /\ BufferInv' /\ Position' = Position + m
         /\ m > 0 => offset' > offset
<1>1. /\ Remain \in Nat /\ taken \in Nat /\ Len(readBuffer) \in Nat
      /\ offset \in Nat /\ offset + Remain = Len(readBuffer)
  BY CurrentFacts DEF IInv, BufferInv
<1>2. offset' \in Nat /\ offset' <= Len(readBuffer)
  BY <1>1
<1>3. BufferInv'
  BY <1>2 DEF IInv, BufferInv
<1>4. Position' = taken - (Len(readBuffer) - (offset + m))
  BY DEF Position, Remain
<1>5. Position = taken - (Len(readBuffer) - offset)
  BY DEF Position, Remain
<1>6. PICK l \in Nat : l = Len(readBuffer)
  BY <1>1
<1>7. Position' = Position + m
  BY <1>1, <1>4, <1>5, <1>6
<1> QED
  BY <1>1, <1>3, <1>7

LEMMA DataInv ==
  ASSUME IInv, GiveBytes, msgLength # Null
  PROVE  BufferInv' /\ InData' /\ bytesUsed' \in Nat /\ offset' > offset
<1>1. InData /\ msgLength \in Nat
  BY NullMeansHeader
<1>2. /\ GiveData(msgLength, offset, Remain, bytesUsed)
      /\ UNCHANGED <<msgLenBytes, msgLength, taken, readBuffer, dispatched>>
  BY DEF GiveBytes, GiveHeader
<1>3. /\ offset \in Nat /\ Remain > 0 /\ bytesUsed \in Nat
      /\ bytesUsed <= msgLength /\ bytesUsed < msgLength
  BY <1>1 DEF GiveBytes, IsComplete, InData, IInv, BufferInv
<1>4. PICK a \in Int : /\ a = Start[Current] + HeaderLen
                       /\ msgData = Span(a, bytesUsed)
  BY <1>1, CurrentFacts, StreamFacts, SMTT(40) DEF InData
<1>5. taken - Remain = a + bytesUsed
  BY <1>1, <1>4, CurrentFacts DEF InData
<1>6. PICK m \in Nat :
         /\ m <= Remain /\ bytesUsed + m <= msgLength /\ m > 0
         /\ bytesUsed' = bytesUsed + m /\ offset' = offset + m
         /\ msgData' = Span(a, bytesUsed + m)
  <2>1. BufferInv /\ Remain \in Nat /\ offset + Remain = Len(readBuffer)
    BY CurrentFacts DEF IInv
  <2>2. PICK left \in Nat, length \in Nat : left = Remain /\ length = msgLength
    BY <1>1, <2>1
  <2>3. GiveData(length, offset, left, bytesUsed)
    BY <1>2, <2>2
  <2>4. /\ bytesUsed <= length /\ Len(readBuffer) \in Nat
        /\ offset + left <= Len(readBuffer)
    BY <1>3, CurrentFacts, <2>2
  <2>5. Follows(readBuffer, a + bytesUsed - offset)
    <3>1. taken - Len(readBuffer) = a + bytesUsed - offset
      BY <1>3, <1>5, <2>1, <2>4, CurrentFacts, SMTT(40)
    <3> QED
      BY <3>1, CurrentFacts
  <2>6. Took(a, length, offset, left, bytesUsed)
    <3>1. /\ bytesUsed \in Nat /\ offset \in Nat
          /\ msgData = Span(a, bytesUsed)
      BY <1>3, <1>4
    <3> QED
      BY <2>3, <2>4, <2>5, <3>1, GiveDataTakes
  <2> QED
    BY <1>3, <2>2, <2>6 DEF Took
<1>7. offset' > offset /\ BufferInv'
  BY <1>2, <1>3, <1>6, BufferMoves
<1>8. Current' = Current /\ Position' = Position + m
  BY <1>2, <1>3, <1>6, BufferMoves DEF Current
<1>9. Position' = a + bytesUsed' /\ bytesUsed' \in Nat
  <2>1. Position = a + bytesUsed
    BY <1>1, <1>4 DEF InData
  <2> QED
    BY <1>3, <1>6, <1>8, <2>1
<1> QED
  BY <1>1, <1>2, <1>4, <1>6, <1>7, <1>8, <1>9 DEF InData

LEMMA HeaderInv ==
  ASSUME IInv, GiveBytes, msgLength = Null
  PROVE  /\ BufferInv' /\ (InHeader' \/ InData')
         /\ bytesUsed' \in Nat /\ offset' > offset
<1>1. InHeader
  BY NullMeansHeader
<1>2. GiveHeader /\ UNCHANGED <<taken, readBuffer, dispatched>> /\ Remain > 0
  BY DEF GiveBytes
<1>3. /\ offset \in Nat /\ bytesUsed \in Nat /\ bytesUsed < HeaderLen
      /\ HeaderLen \in Nat
  BY <1>1, StreamFacts DEF InHeader, IInv, BufferInv
<1>4. PICK a \in Nat : a = Start[Current]
  BY CurrentFacts
<1>5. /\ Remain \in Nat /\ taken \in Nat /\ Len(readBuffer) \in Nat
      /\ offset + Remain = Len(readBuffer)
      /\ taken - Remain = a + bytesUsed /\ Position = a + bytesUsed
  BY <1>1, <1>4, CurrentFacts DEF InHeader
<1>6. Current \in 1 .. N
  <2>1. Position < Total
    <3>1. Position = taken - Remain /\ taken <= Total
      BY CurrentFacts DEF IInv, BufferInv
    <3> QED
      BY <1>2, <1>5, <3>1, StreamFacts
  <2> QED
    BY <2>1, CurrentFacts
<1>7. PICK n \in Nat :
         /\ n > 0 /\ n <= Remain /\ bytesUsed + n <= HeaderLen
         /\ msgLenBytes' = BlockCopy(readBuffer, offset, msgLenBytes, bytesUsed, n)
         /\ IF bytesUsed + n = HeaderLen
            THEN /\ msgLength' = Decoded(msgLenBytes')
                 /\ GiveData(msgLength', offset + n, Remain - n, 0)
            ELSE /\ bytesUsed' = bytesUsed + n
                 /\ offset' = offset + n
                 /\ UNCHANGED <<msgLength, msgData>>
  <2> DEFINE n == Smaller(Remain, HeaderLen - bytesUsed)
  <2>1. n \in Nat /\ n > 0 /\ n <= Remain /\ bytesUsed + n <= HeaderLen
    BY <1>2, <1>3, <1>5 DEF Smaller
  <2> QED
    BY <1>2, <2>1 DEF GiveHeader
<1>8. n > 0 /\ n <= Remain /\ bytesUsed + n <= HeaderLen
  BY <1>7
<1>9. msgLenBytes' = Span(a, bytesUsed + n)
  <2>1. taken - Len(readBuffer) = a + bytesUsed - offset
    BY <1>3, <1>5
  <2>2. Follows(readBuffer, a + bytesUsed - offset)
    BY <2>1, CurrentFacts
  <2>3. msgLenBytes = Span(a, bytesUsed)
    BY <1>1, <1>4 DEF InHeader
  <2>4. offset + n <= Len(readBuffer)
    BY <1>3, <1>5, <1>8
  <2>5. BlockCopy(readBuffer, offset, Span(a, bytesUsed), bytesUsed, n)
          = Span(a, bytesUsed + n)
    BY <1>3, <1>5, <2>2, <2>4, CopySpan
  <2> QED
    BY <1>7, <2>3, <2>5
<1>10. Current' = Current
  BY <1>2 DEF Current
<1>11. CASE bytesUsed + n = HeaderLen
  <2>1. PICK length \in Nat : length = Length[Current]
    BY <1>6, StreamFacts
  <2>2. msgLength' = length
    <3>1. msgLenBytes' = Header(Current)
      BY <1>4, <1>9, <1>11 DEF Header
    <3> QED
      BY <1>6, <1>7, <1>11, <2>1, <3>1, DecodedHeader
  <2>3. PICK from \in Nat, left \in Nat : from = offset + n /\ left = Remain - n
    BY <1>3, <1>5, <1>8
  <2>4. GiveData(length, from, left, 0)
    BY <1>7, <1>11, <2>2, <2>3
  <2>5. PICK d \in Nat : d = a + HeaderLen
    BY <1>3
  <2>6. msgData = Span(d, 0)
    BY <1>1, EmptySpan DEF InHeader
  <2>7. /\ from + left <= Len(readBuffer) /\ Len(readBuffer) \in Nat
        /\ Follows(readBuffer, d + 0 - from)
    <3>1. taken - Len(readBuffer) = d + 0 - from
      BY <1>3, <1>5, <1>8, <1>11, <2>3, <2>5
    <3> QED
      BY <1>3, <1>5, <1>8, <2>3, <3>1, CurrentFacts
  <2>8. PICK m \in Nat :
           /\ m <= left /\ 0 + m <= length
           /\ bytesUsed' = 0 + m /\ offset' = from + m
           /\ msgData' = Span(d, 0 + m)
    <3>1. 0 <= length /\ 0 \in Nat /\ d \in Int
      OBVIOUS
    <3>2. Took(d, length, from, left, 0)
      BY <2>4, <2>6, <2>7, <3>1, GiveDataTakes
    <3> QED
      BY <3>2 DEF Took
  <2>9. n + m > 0 /\ n + m <= Remain /\ offset' = offset + (n + m)
    BY <1>3, <1>5, <1>8, <2>3, <2>8
  <2>10. /\ BufferInv' /\ offset' > offset
         /\ Position' = Position + (n + m)
    BY <1>2, <2>9, BufferMoves
  <2>11. Position' = d + m /\ bytesUsed' = m
    BY <1>3, <1>5, <1>11, <2>5, <2>8, <2>10
  <2>12. msgLenBytes' \in Seq(Int)
    BY <1>3, <1>9, SpanType
  <2>13. Current' <= N /\ msgLength' = Length[Current']
    BY <1>6, <1>10, <2>1, <2>2
  <2>14. bytesUsed' <= msgLength' /\ msgData' = Span(d, bytesUsed')
    BY <2>2, <2>8, <2>11
  <2>15. d = Start[Current'] + HeaderLen
    BY <1>4, <1>10, <2>5
  <2>16. InData'
    BY <2>11, <2>12, <2>13, <2>14, <2>15 DEF InData
  <2> QED
    BY <2>10, <2>11, <2>16
<1>12. CASE bytesUsed + n # HeaderLen
  <2>1. /\ bytesUsed' = bytesUsed + n /\ offset' = offset + n
        /\ UNCHANGED <<msgLength, msgData>>
    BY <1>7, <1>12
  <2>2. bytesUsed' \in Nat /\ bytesUsed' < HeaderLen
    BY <1>3, <1>8, <1>12, <2>1
  <2>3. BufferInv' /\ offset' > offset /\ Position' = Position + n
    BY <1>2, <1>8, <2>1, BufferMoves
  <2>4. Position' = a + bytesUsed'
    BY <1>3, <1>5, <2>1, <2>3
  <2>5. InHeader'
    BY <1>1, <1>4, <1>9, <1>10, <2>1, <2>2, <2>4 DEF InHeader
  <2> QED
    BY <2>2, <2>3, <2>5
<1> QED
  BY <1>11, <1>12

LEMMA GiveBytesInv ==
  ASSUME IInv, GiveBytes
  PROVE  IInv' /\ offset' > offset
<1>1. UNCHANGED dispatched
  BY DEF GiveBytes
<1>2. BufferInv' /\ (InHeader' \/ InData') /\ bytesUsed' \in Nat /\ offset' > offset
  <2>1. CASE msgLength = Null
    BY <2>1, HeaderInv
  <2>2. CASE msgLength # Null
    BY <2>2, DataInv
  <2> QED
    BY <2>1, <2>2
<1> QED
  BY <1>1, <1>2 DEF IInv

LEMMA DispatchInv ==
  ASSUME IInv, Dispatch
  PROVE  IInv' /\ Current \in 1 .. N /\ msgData = Body(Current)
<1>1. InData /\ bytesUsed = msgLength
  BY NullMeansHeader DEF Dispatch, IsComplete
<1>2. /\ Current \in 1 .. N /\ bytesUsed = Length[Current]
      /\ Start[Current] \in Nat /\ Length[Current] \in Nat
      /\ Start[Current + 1] = Start[Current] + HeaderLen + Length[Current]
      /\ Start[Current + 1] \in Nat
  <2>1. Current \in 1 .. N
    BY <1>1, CurrentFacts, StreamFacts DEF InData
  <2> QED
    BY <1>1, <2>1, StreamFacts DEF InData
<1>3. msgData = Body(Current)
  BY <1>1, <1>2 DEF InData, Body
<1>4. /\ dispatched' \in Seq(Seq(Int)) /\ Len(dispatched') = Current
  <2>1. msgData \in Seq(Int)
    <3>1. /\ Start[Current] + HeaderLen \in Int /\ bytesUsed \in Nat
          /\ msgData = Span(Start[Current] + HeaderLen, bytesUsed)
      BY <1>1, <1>2, StreamFacts DEF InData, IInv
    <3> QED
      BY <3>1, SpanType
  <2> QED
    BY <2>1 DEF Dispatch, IInv, Current
<1>5. BufferInv' /\ Position' = Position
  BY DEF Dispatch, IInv, BufferInv, Position, Remain
<1>6. /\ msgLenBytes' = <<>> /\ msgLength' = Null /\ msgData' = <<>>
      /\ bytesUsed' = 0
  BY DEF Dispatch, NewMessage
<1>7. Position' = Start[Current'] + 0 /\ Current' = Current + 1
  <2>1. Current' = Current + 1
    BY <1>4 DEF Current
  <2>2. Position = Start[Current + 1]
    BY <1>1, <1>2 DEF InData
  <2> QED
    BY <1>2, <1>5, <2>1, <2>2
<1>8. InHeader'
  <2>1. Span(Start[Current'], 0) = <<>>
    BY <1>2, <1>7, EmptySpan
  <2> QED
    BY <1>6, <1>7, <2>1, StreamFacts DEF InHeader
<1>9. Len(dispatched') <= N /\ bytesUsed' \in Nat
  BY <1>2, <1>4, <1>6, StreamFacts
<1> QED
  BY <1>2, <1>3, <1>4, <1>5, <1>8, <1>9 DEF IInv
-----------------------------------------------------------------------------
LEMMA NextInv ==
  ASSUME IInv, [Next]_vars
  PROVE  IInv'
<1>1. CASE \E n \in 1 .. ReadBufferSize : Read(n)
  BY <1>1, ReadInv
<1>2. CASE GiveBytes
  BY <1>2, GiveBytesInv
<1>3. CASE Dispatch
  BY <1>3, DispatchInv
<1>4. CASE UNCHANGED vars
  BY <1>4 DEF vars, msgVars, IInv, BufferInv, InHeader, InData, Current,
              Position, Remain
<1> QED
  BY <1>1, <1>2, <1>3, <1>4 DEF Next

(***************************************************************************)
(* The bytes ReadCallback has given away are the messages it dispatched    *)
(* and the part of the current one that is in the partial message.         *)
(***************************************************************************)
THEOREM Invariance == Spec => []IInv
<1>1. Init => IInv
  BY InitInv
<1>2. IInv /\ [Next]_vars => IInv'
  BY NextInv
<1> QED
  BY <1>1, <1>2, PTL DEF Spec

\* The variables of the receiver have their types.
THEOREM TypeCorrect == Spec => []TypeOK
<1>1. IInv => TypeOK
  <2> SUFFICES ASSUME IInv PROVE TypeOK
    OBVIOUS
  <2>1. /\ taken \in 0 .. Total
        /\ readBuffer \in Seq(Int) /\ Len(readBuffer) <= ReadBufferSize
        /\ offset \in 0 .. Len(readBuffer)
        /\ dispatched \in Seq(Seq(Int))
    BY StreamFacts, BufferFacts DEF IInv, BufferInv, Follows
  <2>2. CASE msgLength = Null
    <3>1. /\ Start[Current] \in Int /\ bytesUsed \in Nat /\ msgData = <<>>
          /\ msgLenBytes = Span(Start[Current], bytesUsed)
      BY <2>2, NullMeansHeader, CurrentFacts DEF InHeader, IInv
    <3>2. msgLenBytes \in Seq(Int) /\ Len(msgLenBytes) = bytesUsed
      BY <3>1, SpanType
    <3> QED
      BY <2>1, <2>2, <3>1, <3>2 DEF TypeOK
  <2>3. CASE msgLength # Null
    <3>1. /\ Start[Current] + HeaderLen \in Int /\ bytesUsed \in Nat
          /\ msgLenBytes \in Seq(Int) /\ msgLength \in Nat
          /\ msgData = Span(Start[Current] + HeaderLen, bytesUsed)
      BY <2>3, NullMeansHeader, CurrentFacts, StreamFacts, SMTT(40) DEF InData, IInv
    <3>2. msgData \in Seq(Int) /\ Len(msgData) = bytesUsed
      BY <3>1, SpanType
    <3> QED
      BY <2>1, <2>3, <3>1, <3>2 DEF TypeOK
  <2> QED
    BY <2>2, <2>3
<1> QED
  BY <1>1, Invariance, PTL

(***************************************************************************)
(* No message whose last byte has been read is kept when ReadCallback      *)
(* waits for more data.                                                    *)
(***************************************************************************)
THEOREM AllDispatched == Spec => []NothingHeldBack
<1>1. IInv => NothingHeldBack
  <2> SUFFICES ASSUME IInv, Remain = 0, ~IsComplete,
                      NEW k \in 1 .. N, Start[k + 1] <= taken,
                      ~(k <= Len(dispatched))
               PROVE  FALSE
    BY DEF NothingHeldBack
  <2>1. /\ Current \in 1 .. N + 1 /\ Start[Current] \in Nat
        /\ taken \in Nat /\ Position = taken
    BY CurrentFacts
  <2>2. Current \in 1 .. N /\ Current <= k
    <3>1. Len(dispatched) \in Nat /\ N \in Nat
      BY StreamFacts DEF IInv
    <3> QED
      BY <2>1, <3>1 DEF Current
  <2>3. Start[Current + 1] <= Start[k + 1]
    <3>1. k + 1 \in Current + 1 .. N + 1
      BY <2>2, StreamFacts
    <3> QED
      BY <2>2, <3>1, StreamAssumption
  <2>4. /\ Start[Current + 1] = Start[Current] + HeaderLen + Length[Current]
        /\ Length[Current] \in Nat /\ HeaderLen \in Nat
        /\ Start[Current + 1] \in Nat /\ Start[k + 1] \in Nat
    BY <2>2, StreamFacts
  <2>5. taken < Start[Current + 1]
    <3>1. CASE msgLength = Null
      BY <2>1, <2>4, <3>1, NullMeansHeader, SMTT(40) DEF InHeader, IInv
    <3>2. CASE msgLength # Null
      <4>1. bytesUsed < Length[Current] /\ bytesUsed \in Nat
        BY <2>4, <3>2, NullMeansHeader DEF InData, IsComplete, IInv
      <4>2. Position = Start[Current] + HeaderLen + bytesUsed
        BY <3>2, NullMeansHeader DEF InData
      <4> QED
        BY <2>1, <2>4, <4>1, <4>2, SMTT(40)
    <3> QED
      BY <3>1, <3>2
  <2> QED
    BY <2>1, <2>3, <2>4, <2>5
<1> QED
  BY <1>1, Invariance, PTL

\* Each call of GiveBytes takes something, so the loop of ReadCallback ends.
THEOREM EveryCallTakes == Spec => GiveBytesTakes
<1>1. IInv /\ [Next]_vars => [GiveBytes => offset' > offset]_vars
  BY GiveBytesInv
<1> QED
  BY <1>1, Invariance, PTL DEF Spec, GiveBytesTakes

(***************************************************************************)
(* What is dispatched is the stream of messages, whole and in order: each  *)
(* step delivers the next message or none.                                 *)
(***************************************************************************)
THEOREM Implements == Spec => Stream!Spec
<1>1. Init => Stream!Init
  BY DEF Init, Stream!Init
<1>2. IInv /\ [Next]_vars => [Stream!Deliver]_dispatched
  <2> SUFFICES ASSUME IInv, [Next]_vars PROVE [Stream!Deliver]_dispatched
    OBVIOUS
  <2>1. CASE Dispatch
    <3>1. Current \in 1 .. N /\ msgData = Body(Current)
      BY <2>1, DispatchInv
    <3>2. Len(dispatched) < N
      <4>1. Len(dispatched) \in Nat /\ N \in Nat
        BY StreamFacts DEF IInv
      <4> QED
        BY <3>1, <4>1 DEF Current
    <3>3. dispatched' = Append(dispatched, Stream!Body(Len(dispatched) + 1))
      BY <2>1, <3>1 DEF Dispatch, Current, Body, Span, Stream!Body, Stream!Span
    <3> QED
      BY <3>2, <3>3 DEF Stream!Deliver
  <2>2. CASE ~Dispatch
    BY <2>2 DEF Next, Read, GiveBytes, vars
  <2> QED
    BY <2>1, <2>2
<1> QED
  BY <1>1, <1>2, Invariance, PTL DEF Spec, Stream!Spec

-----------------------------------------------------------------------------
(***************************************************************************)
(* The receiving side of the package.                                      *)
(***************************************************************************)
RecvCurrent == Len(queued) + 1               \* the message being received
RecvPosition == arrived - Len(receive_data)    \* where receive_data begins

AtHeader == expected_length = None /\ RecvPosition = Start[RecvCurrent]

AtBody ==
    /\ RecvCurrent <= N /\ expected_length = Length[RecvCurrent]
    /\ RecvPosition = Start[RecvCurrent] + HeaderLen

RecvIInv ==
    /\ arrived \in Nat /\ arrived <= Total
    /\ Len(receive_data) \in Nat /\ Follows(receive_data, RecvPosition)
    /\ queued \in Seq(Seq(Int)) /\ Len(queued) <= N
    /\ AtHeader \/ AtBody
-----------------------------------------------------------------------------
LEMMA RecvFacts ==
  /\ RecvSize \in Nat /\ RecvSize > 0
  /\ \A n \in Nat : n # None
BY RecvAssumption

LEMMA RecvCurrentFacts ==
  ASSUME RecvIInv
  PROVE  /\ RecvCurrent \in 1 .. N + 1 /\ Start[RecvCurrent] \in Nat
         /\ RecvPosition \in Int /\ RecvPosition + Len(receive_data) = arrived
         /\ expected_length = None => AtHeader
         /\ expected_length # None => /\ AtBody /\ RecvCurrent \in 1 .. N
                                      /\ expected_length \in Nat
<1>1. RecvCurrent \in 1 .. N + 1
  <2>1. Len(queued) \in Nat /\ Len(queued) <= N /\ N \in Nat
    BY StreamFacts DEF RecvIInv
  <2> QED
    BY <2>1 DEF RecvCurrent
<1>2. Start[RecvCurrent] \in Nat
  BY <1>1, StreamFacts
<1>3. RecvPosition \in Int /\ RecvPosition + Len(receive_data) = arrived
  BY DEF RecvPosition, RecvIInv
<1>4. AtBody => RecvCurrent \in 1 .. N /\ expected_length \in Nat
  <2> SUFFICES ASSUME AtBody PROVE RecvCurrent \in 1 .. N /\ expected_length \in Nat
    OBVIOUS
  <2>1. RecvCurrent \in 1 .. N
    BY <1>1, StreamFacts DEF AtBody
  <2> QED
    BY <2>1, StreamFacts DEF AtBody
<1>5. AtHeader => expected_length = None
  BY DEF AtHeader
<1> QED
  BY <1>1, <1>2, <1>3, <1>4, <1>5, RecvFacts DEF RecvIInv

\* Before the end of the stream there is a message to receive.
LEMMA NotAtEnd ==
  ASSUME RecvIInv, AtHeader, RecvPosition < Total
  PROVE  RecvCurrent \in 1 .. N
<1>1. Start[RecvCurrent] < Total /\ Start[RecvCurrent] \in Nat
  BY RecvCurrentFacts DEF AtHeader
<1>2. RecvCurrent # N + 1
  BY <1>1 DEF Total
<1> QED
  BY <1>2, RecvCurrentFacts, StreamFacts, SMTT(40)
-----------------------------------------------------------------------------
LEMMA RecvInitInv == RecvInit => RecvIInv
<1> SUFFICES ASSUME RecvInit PROVE RecvIInv
  OBVIOUS
<1>1. Start[1] = 0 /\ N \in Nat /\ Total \in Nat
  BY StreamFacts, StreamAssumption
<1>2. Follows(<<>>, 0) /\ Len(<<>>) = 0
  BY DEF Follows
<1>3. /\ arrived = 0 /\ receive_data = <<>> /\ queued = <<>>
      /\ expected_length = None
  BY DEF RecvInit
<1>4. Len(receive_data) = 0 /\ RecvPosition = 0
  <2>1. Len(receive_data) = 0
    BY <1>2, <1>3
  <2>2. 0 - 0 = 0
    OBVIOUS
  <2> QED
    BY <1>3, <2>1, <2>2, Zenon DEF RecvPosition
<1>5. AtHeader
  BY <1>1, <1>3, <1>4 DEF AtHeader, RecvCurrent
<1> QED
  BY <1>1, <1>2, <1>3, <1>4, <1>5 DEF RecvIInv

LEMMA RecvInv ==
  ASSUME RecvIInv, NEW n \in 1 .. RecvSize, Recv(n)
  PROVE  RecvIInv'
<1>1. /\ receive_data' = receive_data \o Span(arrived, n)
      /\ arrived' = arrived + n /\ arrived' <= Total
      /\ UNCHANGED <<expected_length, queued>>
  BY DEF Recv
<1>2. arrived \in Nat /\ n \in Nat /\ Len(receive_data) \in Nat
  BY DEF RecvIInv
<1>3. /\ Follows(receive_data', RecvPosition)
      /\ Len(receive_data') = Len(receive_data) + n
  <2>1. /\ Follows(receive_data, RecvPosition) /\ RecvPosition \in Int
        /\ arrived = RecvPosition + Len(receive_data) /\ arrived \in Int
    BY <1>2, RecvCurrentFacts DEF RecvIInv
  <2> QED
    BY <1>1, <1>2, <2>1, FollowsCat
<1>4. RecvPosition' = RecvPosition
  <2>1. RecvPosition' = arrived' - Len(receive_data')
    BY DEF RecvPosition
  <2>2. RecvPosition = arrived - Len(receive_data)
    BY DEF RecvPosition
  <2> QED
    BY <1>1, <1>2, <1>3, <2>1, <2>2
<1>5. arrived' \in Nat /\ Len(receive_data') \in Nat
  BY <1>1, <1>2, <1>3
<1> QED
  BY <1>1, <1>3, <1>4, <1>5 DEF RecvIInv, AtHeader, AtBody, RecvCurrent

\* Dropping n bytes moves on by n in the stream.
LEMMA DropMoves ==
  ASSUME RecvIInv, NEW n \in Nat, n <= Len(receive_data),
         receive_data' = Drop(receive_data, n), UNCHANGED arrived
  PROVE  /\ RecvPosition' = RecvPosition + n
         /\ Len(receive_data') \in Nat
         /\ Follows(receive_data', RecvPosition')
<1>1. /\ arrived \in Nat /\ RecvPosition \in Int /\ Len(receive_data) \in Nat
      /\ RecvPosition + Len(receive_data) = arrived
      /\ Follows(receive_data, RecvPosition)
  BY RecvCurrentFacts DEF RecvIInv
<1>2. /\ Follows(receive_data', RecvPosition + n)
      /\ Len(receive_data') = Len(receive_data) - n
  BY <1>1, FollowsDrop DEF Drop
<1>3. Len(receive_data') \in Nat
  BY <1>1, <1>2
<1>4. RecvPosition' = arrived - Len(receive_data')
  BY DEF RecvPosition
<1>5. RecvPosition' = RecvPosition + n
  BY <1>1, <1>2, <1>4
<1> QED
  BY <1>2, <1>3, <1>5

LEMMA TakeHeaderInv ==
  ASSUME RecvIInv, TakeHeader
  PROVE  RecvIInv'
<1>1. /\ AtHeader /\ HeaderLen \in Nat /\ HeaderLen > 0
      /\ HeaderLen <= Len(receive_data) /\ Len(receive_data) \in Nat
      /\ RecvPosition \in Int /\ Follows(receive_data, RecvPosition)
  BY RecvCurrentFacts, StreamFacts DEF TakeHeader, HeaderReady, RecvIInv
<1>2. /\ expected_length' = Decoded(SubSeq(receive_data, 1, HeaderLen))
      /\ receive_data' = Drop(receive_data, HeaderLen)
      /\ UNCHANGED <<arrived, queued>>
  BY DEF TakeHeader
<1>3. RecvCurrent \in 1 .. N
  <2>1. RecvPosition < Total
    <3>1. /\ RecvPosition + Len(receive_data) = arrived /\ arrived <= Total
          /\ Total \in Nat /\ arrived \in Nat
      BY RecvCurrentFacts, StreamFacts DEF RecvIInv
    <3> QED
      BY <1>1, <3>1
  <2> QED
    BY <1>1, <2>1, NotAtEnd
<1>4. SubSeq(receive_data, 1, HeaderLen) = Header(RecvCurrent)
  <2>1. 0 \in Nat /\ 0 + HeaderLen <= Len(receive_data)
    BY <1>1
  <2>2. SubSeq(receive_data, 0 + 1, 0 + HeaderLen) = Span(RecvPosition + 0, HeaderLen)
    BY <1>1, <2>1, FollowsSub
  <2>3. 0 + 1 = 1 /\ 0 + HeaderLen = HeaderLen /\ RecvPosition + 0 = Start[RecvCurrent]
    BY <1>1 DEF AtHeader
  <2> QED
    BY <2>2, <2>3 DEF Header
<1>5. expected_length' = Length[RecvCurrent]
  BY <1>2, <1>3, <1>4, DecodedHeader
<1>6. /\ RecvPosition' = RecvPosition + HeaderLen
      /\ Len(receive_data') \in Nat
      /\ Follows(receive_data', RecvPosition')
  BY <1>1, <1>2, DropMoves
<1>7. AtBody'
  <2>1. RecvCurrent' = RecvCurrent
    BY <1>2 DEF RecvCurrent
  <2>2. RecvCurrent <= N
    BY <1>3, StreamFacts
  <2> QED
    BY <1>1, <1>5, <1>6, <2>1, <2>2 DEF AtHeader, AtBody
<1> QED
  BY <1>2, <1>6, <1>7 DEF RecvIInv

LEMMA TakeMessageInv ==
  ASSUME RecvIInv, TakeMessage
  PROVE  /\ RecvIInv' /\ RecvCurrent \in 1 .. N
         /\ queued' = Append(queued, Body(RecvCurrent))
<1>1. /\ AtBody /\ RecvCurrent \in 1 .. N
      /\ expected_length <= Len(receive_data)
      /\ Len(receive_data) \in Nat /\ Follows(receive_data, RecvPosition)
      /\ RecvPosition \in Int
  BY RecvCurrentFacts DEF TakeMessage, MessageReady, RecvIInv
<1>2. /\ queued' = Append(queued, SubSeq(receive_data, 1, expected_length))
      /\ receive_data' = Drop(receive_data, expected_length)
      /\ expected_length' = None
      /\ UNCHANGED arrived
  BY DEF TakeMessage
<1>3. PICK n \in Nat : n = expected_length
  BY RecvCurrentFacts, <1>1 DEF TakeMessage, MessageReady
<1>4. n = Length[RecvCurrent] /\ n <= Len(receive_data)
  BY <1>1, <1>3 DEF AtBody
<1>5. PICK d \in Nat : d = Start[RecvCurrent] + HeaderLen
  BY RecvCurrentFacts, StreamFacts
<1>6. SubSeq(receive_data, 1, n) = Body(RecvCurrent)
  <2>1. 0 \in Nat /\ 0 + n <= Len(receive_data)
    BY <1>4
  <2>2. SubSeq(receive_data, 0 + 1, 0 + n) = Span(RecvPosition + 0, n)
    BY <1>1, <2>1, FollowsSub
  <2>3. 0 + 1 = 1 /\ 0 + n = n /\ RecvPosition + 0 = d
    BY <1>1, <1>5 DEF AtBody
  <2> QED
    BY <1>4, <1>5, <2>2, <2>3 DEF Body
<1>7. queued' = Append(queued, Body(RecvCurrent))
  BY <1>2, <1>3, <1>6
<1>8. /\ queued' \in Seq(Seq(Int)) /\ Len(queued') = RecvCurrent
  <2>1. Body(RecvCurrent) \in Seq(Int)
    <3>1. Body(RecvCurrent) = Span(d, n)
      BY <1>4, <1>5 DEF Body
    <3> QED
      BY <3>1, SpanType
  <2> QED
    BY <1>7, <2>1 DEF RecvIInv, RecvCurrent
<1>9. /\ RecvPosition' = RecvPosition + n
      /\ Len(receive_data') \in Nat
      /\ Follows(receive_data', RecvPosition')
  BY <1>2, <1>3, <1>4, DropMoves
<1>10. AtHeader'
  <2>1. RecvCurrent' = RecvCurrent + 1
    BY <1>8 DEF RecvCurrent
  <2>2. Start[RecvCurrent + 1] = d + n
    BY <1>1, <1>4, <1>5, StreamFacts
  <2>3. RecvPosition = d
    BY <1>1, <1>5 DEF AtBody
  <2>4. RecvPosition' = Start[RecvCurrent']
    BY <1>9, <2>1, <2>2, <2>3
  <2> QED
    BY <1>2, <2>4 DEF AtHeader
<1>11. Len(queued') <= N
  BY <1>1, <1>8, StreamFacts
<1> QED
  BY <1>1, <1>2, <1>7, <1>8, <1>9, <1>10, <1>11 DEF RecvIInv

LEMMA RecvNextInv ==
  ASSUME RecvIInv, [RecvNext]_recvVars
  PROVE  RecvIInv'
<1>1. CASE \E n \in 1 .. RecvSize : Recv(n)
  BY <1>1, RecvInv
<1>2. CASE TakeHeader
  BY <1>2, TakeHeaderInv
<1>3. CASE TakeMessage
  BY <1>3, TakeMessageInv
<1>4. CASE UNCHANGED recvVars
  BY <1>4 DEF recvVars, RecvIInv, AtHeader, AtBody, RecvCurrent, RecvPosition
<1> QED
  BY <1>1, <1>2, <1>3, <1>4 DEF RecvNext
-----------------------------------------------------------------------------
(***************************************************************************)
(* receive_data begins where the messages put in recv_queue end, or behind *)
(* the header that follows them.                                           *)
(***************************************************************************)
THEOREM RecvInvariance == RecvSpec => []RecvIInv
<1>1. RecvInit => RecvIInv
  BY RecvInitInv
<1>2. RecvIInv /\ [RecvNext]_recvVars => RecvIInv'
  BY RecvNextInv
<1> QED
  BY <1>1, <1>2, PTL DEF RecvSpec

\* The variables of the receiver have their types.
THEOREM RecvTypeCorrect == RecvSpec => []RecvTypeOK
<1>1. RecvIInv => RecvTypeOK
  <2> SUFFICES ASSUME RecvIInv PROVE RecvTypeOK
    OBVIOUS
  <2>1. arrived \in 0 .. Total /\ receive_data \in Seq(Int)
    BY StreamFacts DEF RecvIInv, Follows
  <2>2. expected_length \in Nat \cup {None}
    BY RecvCurrentFacts
  <2> QED
    BY <2>1, <2>2 DEF RecvIInv, RecvTypeOK
<1> QED
  BY <1>1, RecvInvariance, PTL

(***************************************************************************)
(* No message whose last byte has been read is kept when _receive returns  *)
(* to select.                                                              *)
(***************************************************************************)
THEOREM AllQueued == RecvSpec => []NothingLeftOver
<1>1. RecvIInv => NothingLeftOver
  <2> SUFFICES ASSUME RecvIInv, ~HeaderReady, ~MessageReady,
                      NEW k \in 1 .. N, Start[k + 1] <= arrived,
                      ~(k <= Len(queued))
               PROVE  FALSE
    BY DEF NothingLeftOver
  <2>1. /\ Start[RecvCurrent] \in Nat /\ arrived \in Nat /\ RecvPosition \in Int
        /\ RecvPosition + Len(receive_data) = arrived /\ Len(receive_data) \in Nat
    BY RecvCurrentFacts DEF RecvIInv
  <2>2. RecvCurrent \in 1 .. N /\ RecvCurrent <= k
    <3>1. Len(queued) \in Nat /\ N \in Nat
      BY StreamFacts DEF RecvIInv
    <3> QED
      BY <3>1 DEF RecvCurrent
  <2>3. Start[RecvCurrent + 1] <= Start[k + 1]
    <3>1. k + 1 \in RecvCurrent + 1 .. N + 1
      BY <2>2, StreamFacts
    <3> QED
      BY <2>2, <3>1, StreamAssumption
  <2>4. /\ Start[RecvCurrent + 1] = Start[RecvCurrent] + HeaderLen + Length[RecvCurrent]
        /\ Length[RecvCurrent] \in Nat /\ HeaderLen \in Nat
        /\ Start[RecvCurrent + 1] \in Nat /\ Start[k + 1] \in Nat
    BY <2>2, StreamFacts
  <2>5. arrived < Start[RecvCurrent + 1]
    <3>1. CASE expected_length = None
      <4>1. Len(receive_data) < HeaderLen /\ RecvPosition = Start[RecvCurrent]
        BY <2>1, <2>4, <3>1, RecvCurrentFacts DEF HeaderReady, AtHeader
      <4>2. arrived < Start[RecvCurrent] + HeaderLen
        BY <2>1, <2>4, <4>1
      <4> QED
        BY <2>1, <2>4, <4>2
    <3>2. CASE expected_length # None
      <4>1. /\ Len(receive_data) < Length[RecvCurrent]
            /\ RecvPosition = Start[RecvCurrent] + HeaderLen
        BY <2>1, <2>4, <3>2, RecvCurrentFacts DEF MessageReady, AtBody
      <4> QED
        BY <2>1, <2>4, <4>1, SMTT(30)
    <3> QED
      BY <3>1, <3>2
  <2> QED
    BY <2>1, <2>3, <2>4, <2>5
<1> QED
  BY <1>1, RecvInvariance, PTL

(***************************************************************************)
(* What is put in recv_queue is the stream of messages, whole and in       *)
(* order: each step delivers the next message or none.                     *)
(***************************************************************************)
THEOREM RecvImplements == RecvSpec => Queue!Spec
<1>1. RecvInit => Queue!Init
  BY DEF RecvInit, Queue!Init
<1>2. RecvIInv /\ [RecvNext]_recvVars => [Queue!Deliver]_queued
  <2> SUFFICES ASSUME RecvIInv, [RecvNext]_recvVars PROVE [Queue!Deliver]_queued
    OBVIOUS
  <2>1. CASE TakeMessage
    <3>1. RecvCurrent \in 1 .. N /\ queued' = Append(queued, Body(RecvCurrent))
      BY <2>1, TakeMessageInv
    <3>2. Len(queued) < N
      <4>1. Len(queued) \in Nat /\ N \in Nat
        BY StreamFacts DEF RecvIInv
      <4> QED
        BY <3>1, <4>1 DEF RecvCurrent
    <3>3. queued' = Append(queued, Queue!Body(Len(queued) + 1))
      BY <3>1 DEF RecvCurrent, Body, Span, Queue!Body, Queue!Span
    <3> QED
      BY <3>2, <3>3 DEF Queue!Deliver
  <2>2. CASE ~TakeMessage
    BY <2>2 DEF RecvNext, Recv, TakeHeader, recvVars
  <2> QED
    BY <2>1, <2>2
<1> QED
  BY <1>1, <1>2, RecvInvariance, PTL DEF RecvSpec, Queue!Spec
=============================================================================
