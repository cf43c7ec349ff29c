------------------------ MODULE ProjectTransferProofs ------------------------
(***************************************************************************)
(* Whatever the users, projects and texts are, what one end sends the      *)
(* other understands, a project has one build id, and its files are where  *)
(* the server looks for them when the build begins.                        *)
(*                                                                         *)
(* The invariant has two halves.  Talk says that the two ends take turns:  *)
(* there is at most one request under way, or one answer that ends a turn, *)
(* or a build that runs; all of them are messages that fit the count in    *)
(* front of them.  Work says what has been done: when the package may send *)
(* the next file, all that it no longer has to send lie in their place,    *)
(* and so do those of every build that was sent, unless a later one of the *)
(* same id wrote there.                                                    *)
(***************************************************************************)
EXTENDS ProjectTransfer, MessageLemmas

LEMMA AsTextIs ==
    ASSUME NEW m, m = Msg(m.kind, m.values, m.payload)
    PROVE  AsText(m) = Msg(m.kind, m.values,
                           IF m.kind = FileContent THEN Chars(m.payload) ELSE m.payload)
<1>1. CASE m.kind = FileContent
  BY <1>1 DEF AsText, Msg
<1>2. CASE m.kind # FileContent
  BY <1>2 DEF AsText
<1> QED
  BY <1>1, <1>2

LEMMA MsgHas == \A k, v, p : /\ Msg(k, v, p).kind = k /\ Msg(k, v, p).values = v
                             /\ Msg(k, v, p).payload = p
BY DEF Msg

LEMMA NamesWithoutNUL ==
    ASSUME NEW names \in Seq(Seq(Char)), \A n \in ToSet(names) : NUL \notin ToSet(n)
    PROVE  \A i \in 1 .. Len(names) : \A j \in 1 .. Len(names[i]) : names[i][j] # NUL
<1> SUFFICES ASSUME NEW i \in 1 .. Len(names), NEW j \in 1 .. Len(names[i])
             PROVE  names[i][j] # NUL
  OBVIOUS
<1>1. names[i] \in ToSet(names)
  BY DEF ToSet
<1> DEFINE X == Seq(Char)
           n == names[i]
<1>2. n \in X
  <2>1. names \in Seq(X)
    OBVIOUS
  <2> HIDE DEF X
  <2> QED
    BY <2>1
<1>3. n[j] \in ToSet(n)
  BY <1>2 DEF ToSet
<1> QED
  BY <1>1, <1>3

\* What the two programs make of the payload of a message that fits.
SamePayload(m, data) ==
    LET form == Registry[m.kind].payload
        text == AsText(m)
    IN  /\ IsUtf8(data) /\ Typed(text, Seq(Char)) /\ CsPayload(text) = data
        /\ PayloadValue(form, Chars(data)) = text.payload
        /\ PayloadValue(form, CsText(data)) = text.payload

LEMMA ValueOfPayload ==
    \A form, t : /\ form = "none" => PayloadValue(form, t) = << >>
                 /\ form = "names" => PayloadValue(form, t) = Split(t)
                 /\ form \in {"text", "content"} => PayloadValue(form, t) = t
BY DEF PayloadValue

LEMMA PayloadReads ==
    ASSUME NEW m, Typed(m, Seq(Byte)), Fits(m)
    PROVE  SamePayload(m, PyPayload(m))
<1> DEFINE form == Registry[m.kind].payload
           text == AsText(m)
           data == PyPayload(m)
<1>1. /\ m = Msg(m.kind, m.values, m.payload) /\ m.kind \in Kinds
      /\ PayloadTyped(form, m.payload, Seq(Byte))
  BY DEF Typed
<1>2. /\ form \in {"none", "text", "names", "content"} /\ (form = "content" <=> m.kind = FileContent)
  BY <1>1, FieldsAreKnown
<1>3. /\ text.kind = m.kind /\ text.values = m.values
      /\ text = Msg(text.kind, text.values, text.payload)
      /\ text.payload = IF m.kind = FileContent THEN Chars(m.payload) ELSE m.payload
  BY <1>1, AsTextIs, MsgHas
<1>4. ASSUME PayloadTyped(form, text.payload, Seq(Char))
      PROVE  Typed(text, Seq(Char))
  BY <1>3, <1>4 DEF Typed
<1>5. /\ form = "none" => data = m.payload /\ CsPayload(text) = << >>
      /\ form = "text" => data = Utf8(m.payload) /\ CsPayload(text) = Utf8(text.payload)
      /\ form = "names" => /\ data = Utf8(Joined(m.payload))
                           /\ CsPayload(text) = Utf8(Joined(text.payload))
      /\ form = "content" => data = m.payload /\ CsPayload(text) = Utf8(text.payload)
  <2>1. form = Registry[text.kind].payload
    BY <1>3
  <2> QED
    BY <2>1, PayloadCases
<1>6. \A t : /\ form = "none" => PayloadValue(form, t) = << >>
             /\ form = "names" => PayloadValue(form, t) = Split(t)
             /\ form \in {"text", "content"} => PayloadValue(form, t) = t
  BY ValueOfPayload
<1>7. /\ form = "content" => IsUtf8(m.payload)
      /\ form = "names" => \A n \in ToSet(m.payload) : NUL \notin ToSet(n)
  BY DEF Fits
<1> SUFFICES /\ IsUtf8(data) /\ PayloadTyped(form, text.payload, Seq(Char)) /\ CsPayload(text) = data
             /\ PayloadValue(form, Chars(data)) = text.payload
             /\ PayloadValue(form, CsText(data)) = text.payload
  BY <1>4 DEF SamePayload
<1> HIDE DEF form, text, data
<1>8. CASE form = "none"
  <2>1. m.payload = << >> /\ text.payload = << >> /\ data = << >>
    BY <1>1, <1>2, <1>3, <1>5, <1>8 DEF PayloadTyped
  <2>2. IsUtf8(<< >>)
    <3>1. << >> \in Seq(Char)
      OBVIOUS
    <3> QED
      BY <3>1, Utf8Empty, TextReads
  <2> QED
    BY <1>5, <1>6, <1>8, <2>1, <2>2 DEF PayloadTyped
<1>9. CASE form = "text"
  <2>1. m.payload \in Seq(Char) /\ text.payload = m.payload
    BY <1>1, <1>2, <1>3, <1>9 DEF PayloadTyped
  <2>2. Chars(data) = m.payload /\ CsText(data) = m.payload /\ IsUtf8(data)
    BY <1>5, <1>9, <2>1, TextReads
  <2> QED
    BY <1>5, <1>6, <1>9, <2>1, <2>2 DEF PayloadTyped
<1>10. CASE form = "names"
  <2>1. m.payload \in Seq(Seq(Char)) /\ m.payload # << >> /\ text.payload = m.payload
    BY <1>1, <1>2, <1>3, <1>10 DEF PayloadTyped
  <2>2. \A i \in 1 .. Len(m.payload) : \A j \in 1 .. Len(m.payload[i]) : m.payload[i][j] # NUL
    BY <1>7, <1>10, <2>1, NamesWithoutNUL
  <2>3. Joined(m.payload) \in Seq(Char) /\ Split(Joined(m.payload)) = m.payload
    <3>1. NUL \in Char
      BY NULIs
    <3> QED
      BY <2>1, <2>2, <3>1, JoinedType, SplitsBack
  <2>4. /\ Chars(data) = Joined(m.payload) /\ CsText(data) = Joined(m.payload)
        /\ IsUtf8(data)
    BY <1>5, <1>10, <2>3, TextReads
  <2> QED
    BY <1>5, <1>6, <1>10, <2>1, <2>3, <2>4 DEF PayloadTyped
<1>11. CASE form = "content"
  <2>1. m.payload \in Seq(Byte) /\ data = m.payload /\ IsUtf8(data)
    BY <1>1, <1>5, <1>7, <1>11 DEF PayloadTyped
  <2>2. text.payload = Chars(data)
    BY <1>2, <1>3, <1>11, <2>1
  <2>3. Chars(data) \in Seq(Char) /\ Utf8(Chars(data)) = data
    BY <2>1, WritesBack
  <2>4. CsText(data) = Chars(data)
    BY <2>3, AreChars DEF CsText
  <2> QED
    BY <1>5, <1>6, <1>11, <2>1, <2>2, <2>3, <2>4 DEF PayloadTyped
<1> QED
  BY <1>2, <1>8, <1>9, <1>10, <1>11

LEMMA WireIs ==
    ASSUME NEW k, NEW pieces, NEW data, Told(k, pieces, data), Small(Len(data)),
           NEW d, d = Wire(k, pieces)
    PROVE  /\ d \in Seq(Byte) /\ Body(d) = Big(k, 2) \o Concat(pieces)
           /\ Number(SubSeq(d, 1, 4)) = Len(d) - 4
<1> DEFINE b == Big(k, 2) \o Concat(pieces)
<1>1. Sized(Len(b))
  BY HeaderIs
<1>2. b \in Seq(Byte)
  BY BodyHolds DEF Told
<1>3. d = Big(Len(b), 4) \o b
  BY DEF Wire
<1> HIDE DEF b
<1>4. d \in Seq(Byte) /\ SubSeq(d, 5, Len(d)) = b /\ Number(SubSeq(d, 1, 4)) = Len(d) - 4
  BY <1>1, <1>2, <1>3, Framing
<1> QED
  BY <1>4 DEF Body, b

LEMMA FitsWhole ==
    ASSUME NEW m, NEW C, Typed(m, C), Fits(m), NEW i \in 1 .. Len(Registry[m.kind].fields)
    PROVE  Whole(Registry[m.kind].fields[i], m.values[i])
<1> DEFINE f == Registry[m.kind].fields[i]
<1>1. i \in DOMAIN m.values
  BY DEF Typed
<1>2. FieldFits(f, m.values[i])
  BY <1>1 DEF Fits
<1> QED
  BY <1>2 DEF FieldFits, Whole

\* Both ends make the same bytes of a message, and it comes out of them as it was.
Understood(m) ==
    LET d == PyEncode(m)
    IN  /\ d = CsEncode(AsText(m))
        /\ PyDecode(Body(d)) = AsText(m) /\ CsDecode(Body(d)) = AsText(m)

(***************************************************************************)
(* Any message of any kind, whether the program sends it or not, with      *)
(* values of the right types that fit their fields and a payload that fits *)
(* its count, has the same bytes at both ends, and each end decodes them   *)
(* to that message (messages.py:104-125, messages/*.cs).                   *)
(***************************************************************************)
THEOREM FittingAgrees ==
    ASSUME NEW m, Typed(m, Seq(Byte)), Small(Len(PyPayload(m))), Fits(m)
    PROVE  Understood(m)
<1> DEFINE k == m.kind
           fields == Registry[k].fields
           n == Len(fields)
           data == PyPayload(m)
           text == AsText(m)
           pieces == PyPieces(m)
           form == Registry[k].payload
<1>1. /\ m = Msg(k, m.values, m.payload) /\ k \in Kinds
      /\ m.values = [i \in 1 .. n |-> m.values[i]]
      /\ \A i \in 1 .. n : FieldTyped(fields[i], m.values[i])
  BY DEF Typed
<1>2. DOMAIN fields = 1 .. n /\ \A i \in 1 .. n : FieldKnown(fields[i])
  BY <1>1, FieldsAreKnown
<1>3. \A i \in 1 .. n : LET raw == PyField(fields[i], m.values[i])
                        IN  /\ CsField(fields[i], m.values[i]) = raw
                            /\ FieldValue(fields[i].form, raw, CsText(raw)) = m.values[i]
                            /\ FieldValue(fields[i].form, raw, Chars(raw)) = m.values[i]
                            /\ fields[i].form = "text" => IsUtf8(raw)
  BY <1>1, <1>2, FitsWhole, FieldReads
<1>4. SamePayload(m, data)
  BY PayloadReads
<1>5. /\ IsUtf8(data) /\ Typed(text, Seq(Char)) /\ CsPayload(text) = data
      /\ PayloadValue(form, Chars(data)) = text.payload
      /\ PayloadValue(form, CsText(data)) = text.payload
  BY <1>4 DEF SamePayload
<1>6. text.kind = k /\ text.values = m.values /\ text = Msg(k, m.values, text.payload)
  BY <1>1, AsTextIs, MsgHas
<1>7. /\ PyEncode(m) = Wire(k, pieces) /\ Told(k, pieces, data)
      /\ \A i \in 1 .. n : pieces[i] = PyField(fields[i], m.values[i])
  BY PyEncodeIs
<1>8. CsEncode(text) = Wire(k, CsPieces(text))
  BY <1>5, <1>6, CsEncodeIs
<1>9. CsPieces(text) = pieces
  <2>1. CsRaws(text) = PyRaws(m)
    <3>1. CsRaws(text) = [i \in 1 .. n |-> CsField(fields[i], m.values[i])]
      BY <1>2, <1>6 DEF CsRaws
    <3>2. PyRaws(m) = [i \in 1 .. n |-> PyField(fields[i], m.values[i])]
      BY <1>2 DEF PyRaws
    <3> QED
      BY <1>3, <3>1, <3>2
  <2> QED
    BY <1>5, <1>6, <2>1 DEF CsPieces, PyPieces
<1>10. Body(PyEncode(m)) = Big(k, 2) \o Concat(pieces)
  BY <1>7, WireIs
<1> HIDE DEF k, data, text, pieces, form
<1>11. CsDecode(Body(PyEncode(m))) = CsRead(k, pieces, data)
  BY <1>7, <1>10, CsReads
<1>12. PyDecode(Body(PyEncode(m))) = PyRead(k, pieces, data)
  <2>1. \A i \in 1 .. n : fields[i].form = "text" => IsUtf8(pieces[i])
    BY <1>3, <1>7
  <2> QED
    BY <1>5, <1>7, <1>10, <2>1, PyReads
<1>13. CsRead(k, pieces, data) = text
  <2>1. [i \in 1 .. n |-> CsValue(k, i, pieces[i])] = [i \in 1 .. n |-> m.values[i]]
    BY <1>3, <1>7 DEF CsValue
  <2> QED
    BY <1>1, <1>5, <1>6, <2>1 DEF CsRead, form
<1>14. PyRead(k, pieces, data) = text
  <2>1. [i \in 1 .. n |-> PyValue(k, i, pieces[i])] = [i \in 1 .. n |-> m.values[i]]
    BY <1>3, <1>7 DEF PyValue
  <2> QED
    BY <1>1, <1>5, <1>6, <2>1 DEF PyRead, form
<1> QED
  BY <1>7, <1>8, <1>9, <1>11, <1>12, <1>13, <1>14 DEF Understood, text, k

ServerKinds  == {Message, Error, Acknowledge, BuildOutput, BuildComplete}
PackageKinds == {Introduction, SetBuild, FileContent, ExecuteBuild}

LEMMA KindsAre ==
    /\ ServerKinds \subseteq Kinds /\ PackageKinds \subseteq Kinds
    /\ \A k \in ServerKinds : /\ k # FileContent /\ k # SetBuild
                              /\ \A i \in 1 .. Len(Registry[k].fields) :
                                    Registry[k].fields[i].form # "text"
<1>1. ServerKinds \subseteq Kinds /\ PackageKinds \subseteq Kinds
  BY DEF ServerKinds, PackageKinds, Kinds, Introduction, SetBuild, FileContent, ExecuteBuild,
         Message, Error, Acknowledge, BuildOutput, BuildComplete
<1>2. ASSUME NEW k \in ServerKinds PROVE k # FileContent /\ k # SetBuild
  BY DEF ServerKinds, SetBuild, FileContent,
         Message, Error, Acknowledge, BuildOutput, BuildComplete
<1>3. ASSUME NEW k \in ServerKinds, NEW i \in 1 .. Len(Registry[k].fields)
      PROVE  Registry[k].fields[i].form # "text"
  <2>1. CASE k = Message
    BY <2>1 DEF Registry, Kinds, Message, MessageMessage, Layout
  <2>2. CASE k = Error
    BY <2>2 DEF Registry, Kinds, Error, ErrorMessage, Layout, U
  <2>3. CASE k = Acknowledge
    <3>1. Registry[k].fields = <<U(2), Flag>>
      BY <2>3 DEF Registry, Kinds, Acknowledge, AcknowledgeMessage, Layout
    <3>2. i = 1 \/ i = 2
      BY <3>1
    <3> QED
      BY <3>1, <3>2 DEF U, Flag
  <2>4. CASE k = BuildOutput
    BY <2>4 DEF Registry, Kinds, BuildOutput, BuildOutputMessage, Layout, Flag
  <2>5. CASE k = BuildComplete
    BY <2>5 DEF Registry, Kinds, BuildComplete, BuildCompleteMessage, Layout, U
  <2> QED
    BY <2>1, <2>2, <2>3, <2>4, <2>5 DEF ServerKinds
<1> QED
  BY <1>1, <1>2, <1>3

LEMMA ServerFits ==
    ASSUME NEW m, NEW C, Typed(m, C), m.kind \in ServerKinds
    PROVE  Fits(m) /\ Typed(m, Seq(Byte)) /\ AsText(m) = m
<1> DEFINE k == m.kind
           fields == Registry[k].fields
           form == Registry[k].payload
<1>1. /\ m = Msg(k, m.values, m.payload) /\ k \in Kinds
      /\ m.values = [i \in 1 .. Len(fields) |-> m.values[i]]
      /\ \A i \in 1 .. Len(fields) : FieldTyped(fields[i], m.values[i])
      /\ PayloadTyped(form, m.payload, C)
  BY DEF Typed
<1>2. /\ form # "content" /\ form # "names"
      /\ \A i \in 1 .. Len(fields) : FieldKnown(fields[i]) /\ fields[i].form # "text"
  BY <1>1, FieldsAreKnown, KindsAre
<1>3. Typed(m, Seq(Byte))
  BY <1>1, <1>2 DEF Typed, PayloadTyped
<1>4. ASSUME NEW i \in DOMAIN m.values PROVE FieldFits(fields[i], m.values[i])
  <2>1. /\ FieldTyped(fields[i], m.values[i]) /\ FieldKnown(fields[i])
        /\ fields[i].form # "text"
    BY <1>1, <1>2
  <2> DEFINE f == fields[i]
             v == m.values[i]
  <2> HIDE DEF f, v
  <2>2. FieldTyped(f, v) /\ (f.form = "number" \/ f.form = "flag")
    BY <2>1 DEF FieldKnown, Forms, f, v
  <2>3. FieldFits(f, v)
    BY <2>2 DEF FieldFits, FieldTyped
  <2> QED
    BY <2>3 DEF f, v
<1>5. Fits(m)
  BY <1>2, <1>4 DEF Fits
<1>6. AsText(m) = m
  BY KindsAre DEF AsText
<1> QED
  BY <1>3, <1>5, <1>6

\* A text that was read, of at most so many characters.
Text(n) == {t \in Seq(Char) : Len(t) <= n}

LEMMA CsTextType ==
    ASSUME NEW b \in Seq(Byte)
    PROVE  CsText(b) \in Text(Len(b)) /\ Len(b) \in Nat
<1> DEFINE t == Chars(b)
           D == Char \cup {NoChar}
<1>1. t \in Seq(D) /\ Len(t) <= Len(b) /\ Len(b) \in Nat
  BY CharsType
<1>2. ReplacementChar \in Char
  BY DEF ReplacementChar, Char
<1> HIDE DEF t
<1>3. \A i \in 1 .. Len(t) : t[i] \in Char \/ t[i] = NoChar
  BY <1>1
<1>4. CsText(b) = [i \in 1 .. Len(t) |-> IF t[i] = NoChar THEN ReplacementChar ELSE t[i]]
  BY <1>1 DEF CsText, Replaced, t
<1>5. Len(t) \in Nat
  BY <1>1
<1>6. \A i \in 1 .. Len(t) : (IF t[i] = NoChar THEN ReplacementChar ELSE t[i]) \in Char
  BY <1>2, <1>3
<1> HIDE DEF D
<1>7. CsText(b) \in Seq(Char) /\ Len(CsText(b)) = Len(t)
  <2> DEFINE F(i) == IF t[i] = NoChar THEN ReplacementChar ELSE t[i]
  <2>1. CsText(b) = [i \in 1 .. Len(t) |-> F(i)] /\ \A i \in 1 .. Len(t) : F(i) \in Char
    BY <1>4, <1>6
  <2> HIDE DEF F
  <2> QED
    BY <1>5, <2>1
<1> QED
  BY <1>1, <1>7 DEF Text

\* What the server makes of a payload.
CsLoaded(form, p, n) ==
    /\ form = "text" => p \in Text(n)
    /\ form = "content" => p \in Text(n)
    /\ form = "names" => p \in Seq(Text(n)) /\ Len(p) \in Nat \ {0}

LEMMA CsReadTyped ==
    ASSUME NEW k, NEW pieces, NEW data, Told(k, pieces, data), NEW m, m = CsRead(k, pieces, data)
    PROVE  /\ m.kind = k /\ k \in Kinds /\ m # Raised
           /\ \A i \in 1 .. Len(Registry[k].fields) :
                 Registry[k].fields[i].form = "text" =>
                     m.values[i] \in Text(Registry[k].fields[i].width)
           /\ CsLoaded(Registry[k].payload, m.payload, Len(data))
<1> DEFINE n == Len(Registry[k].fields)
           form == Registry[k].payload
           vals == [i \in 1 .. n |-> CsValue(k, i, pieces[i])]
           p == PayloadValue(form, CsText(data))
           X == Seq(Byte)
<1>1. /\ Laid(k, pieces) /\ data \in X
  BY DEF Told
<1>2. k \in Kinds /\ pieces \in Seq(X) /\ Len(pieces) = n + (IF HasPayload(k) THEN 2 ELSE 0)
      /\ \A i \in 1 .. n : Len(pieces[i]) = Registry[k].fields[i].width
  BY <1>1 DEF Laid
<1>3. n \in Nat /\ form \in {"none", "text", "names", "content"}
  BY <1>2, FieldsAreKnown
<1>4. m = Msg(k, vals, p)
  BY DEF CsRead
<1>5. m.kind = k /\ m.values = vals /\ m.payload = p
  BY <1>4, MsgHas
<1>6. m # Raised
  <2>1. k # -1
    BY <1>2 DEF Kinds
  <2>2. Raised.kind = -1
    BY DEF Raised
  <2> QED
    BY <1>5, <2>1, <2>2
<1>7. ASSUME NEW i \in 1 .. n, Registry[k].fields[i].form = "text"
      PROVE  m.values[i] \in Text(Registry[k].fields[i].width)
  <2> DEFINE w == Registry[k].fields[i].width
             y == pieces[i]
  <2>1. y \in X /\ Len(y) = w
    <3>1. n \in Nat /\ Len(pieces) = n + (IF HasPayload(k) THEN 2 ELSE 0)
      BY <1>2, <1>3
    <3>2. i \in 1 .. n
      OBVIOUS
    <3> HIDE DEF X, n
    <3>3. i \in 1 .. Len(pieces)
      BY <3>1, <3>2
    <3>4. pieces[i] \in X
      BY <1>2, <3>3
    <3> QED
      BY <1>2, <3>2, <3>4
  <2>2. CsText(y) \in Seq(Char) /\ Len(CsText(y)) <= w /\ w \in Nat
    BY <2>1, CsTextType DEF Text
  <2>3. Stripped(CsText(y)) \in Seq(Char) /\ Len(Stripped(CsText(y))) <= Len(CsText(y))
    BY <2>2, StrippedType
  <2>4. m.values[i] = Stripped(CsText(y))
    BY <1>5, <1>7, ValueCases DEF CsValue
  <2> HIDE DEF w, y
  <2>5. Len(CsText(y)) \in Nat /\ Len(Stripped(CsText(y))) \in Nat
    BY <2>2, <2>3
  <2>6. Len(Stripped(CsText(y))) <= w
    BY <2>2, <2>3, <2>5
  <2> QED
    BY <2>3, <2>4, <2>6 DEF Text, w
<1>8. CsLoaded(form, p, Len(data))
  <2> DEFINE t == CsText(data)
  <2>1. t \in Seq(Char) /\ Len(t) <= Len(data) /\ Len(data) \in Nat
    BY <1>1, CsTextType DEF Text
  <2>2. /\ form = "names" => p = Split(t)
        /\ form = "text" => p = t
        /\ form = "content" => p = t
    BY ValueOfPayload
  <2>3. Split(t) \in Seq({s \in Seq(Char) : Len(s) <= Len(t)}) /\ Len(Split(t)) \in Nat \ {0}
    BY <2>1, SplitType
  <2> HIDE DEF t, p
  <2>4. {s \in Seq(Char) : Len(s) <= Len(t)} \subseteq Text(Len(data))
    BY <2>1 DEF Text
  <2>5. Split(t) \in Seq(Text(Len(data)))
    BY <2>3, <2>4
  <2>6. (form = "text" => p = t) /\ (form = "content" => p = t)
    BY ValueOfPayload DEF p, t
  <2> QED
    BY <2>1, <2>2, <2>3, <2>5, <2>6 DEF CsLoaded, Text
<1> QED
  BY <1>2, <1>5, <1>6, <1>7, <1>8

-----------------------------------------------------------------------------
(***************************************************************************)
(* Messages under way: each has values of its kind, and a payload that its *)
(* count can say.                                                          *)
(***************************************************************************)
Modest(n) == n \in Nat /\ n < 1431655000

Requested(w) ==
    /\ w = [sent |-> w.sent, data |-> PyEncode(w.sent)] /\ w.sent.kind \in PackageKinds
    /\ Typed(w.sent, Seq(Byte)) /\ Modest(Len(PyPayload(w.sent)))

Answered(w) ==
    /\ w = [sent |-> w.sent, data |-> CsEncode(w.sent)] /\ w.sent.kind \in ServerKinds
    /\ Typed(w.sent, Seq(Byte)) /\ Small(Len(PyPayload(w.sent)))

LEMMA Sizes ==
    /\ \A n : Modest(n) => Small(n)
    /\ \A n \in Nat : n < MaxCarried => Modest(n)
    /\ \A n, l \in Nat : n < MaxCarried /\ l <= 3 * n => Modest(l)
    /\ \A n, s, l : s \in Nat /\ l \in Nat /\ Modest(n) /\ s <= n /\ l <= 3 * s => Small(l)
    /\ \A n \in 0 .. 600 : Modest(n)
BY SMT DEF Modest, Small, MaxCarried

LEMMA CarriedText ==
    ASSUME NEW t \in Seq(Char), Len(t) < MaxCarried
    PROVE  Modest(Len(Utf8(t)))
<1>1. Len(t) \in Nat /\ Utf8(t) \in Seq(Byte) /\ Len(Utf8(t)) <= 3 * Len(t)
  BY Utf8Type
<1>2. Len(Utf8(t)) \in Nat
  BY <1>1
<1> QED
  BY <1>1, <1>2, Sizes

LEMMA AnsweredText ==
    ASSUME NEW n, Modest(n), NEW t \in Text(n)
    PROVE  t \in Seq(Char) /\ Small(Len(Utf8(t)))
<1>1. t \in Seq(Char) /\ Len(t) <= n
  BY DEF Text
<1>2. Len(t) \in Nat /\ Utf8(t) \in Seq(Byte) /\ Len(Utf8(t)) <= 3 * Len(t)
  BY <1>1, Utf8Type
<1>3. Len(Utf8(t)) \in Nat
  BY <1>2
<1> QED
  BY <1>1, <1>2, <1>3, Sizes

\* What the server reads of a message that was sent.
Heard(sent, m) ==
    /\ m.kind = sent.kind /\ m # Raised
    /\ \A i \in 1 .. Len(Registry[m.kind].fields) :
          Registry[m.kind].fields[i].form = "text" =>
              m.values[i] \in Text(Registry[m.kind].fields[i].width)
    /\ CsLoaded(Registry[m.kind].payload, m.payload, Len(PyPayload(sent)))

LEMMA RequestRestored ==
    ASSUME NEW w, Requested(w)
    PROVE  Framed(w) /\ Agreed(w) /\ Heard(w.sent, CsDecode(Body(w.data)))
<1> DEFINE m == w.sent
           k == m.kind
           pieces == PyPieces(m)
           data == PyPayload(m)
           d == w.data
<1>1. Typed(m, Seq(Byte)) /\ Small(Len(data)) /\ d = PyEncode(m)
  <2>1. Typed(m, Seq(Byte)) /\ Modest(Len(data)) /\ d = PyEncode(m)
    BY DEF Requested
  <2> HIDE DEF m, data, d
  <2> QED
    BY <2>1, Sizes
<1>2. d = Wire(k, pieces) /\ Told(k, pieces, data)
  BY <1>1, PyEncodeIs
<1> HIDE DEF m, pieces, data, d
<1>3. Body(d) = Big(k, 2) \o Concat(pieces) /\ Number(SubSeq(d, 1, 4)) = Len(d) - 4
  BY <1>1, <1>2, WireIs
<1>4. CsDecode(Body(d)) = CsRead(k, pieces, data)
  BY <1>2, <1>3, CsReads
<1>5. Heard(m, CsDecode(Body(d)))
  BY <1>2, <1>4, CsReadTyped DEF Heard, data
<1>6. Fits(m) => Understood(m)
  BY <1>1, FittingAgrees DEF data
<1>7. Agreed(w)
  BY <1>1, <1>6 DEF Agreed, Understood, d, m
<1> QED
  BY <1>3, <1>5, <1>7 DEF Framed, d, m

LEMMA AnswerRestored ==
    ASSUME NEW w, Answered(w)
    PROVE  /\ Framed(w) /\ Agreed(w) /\ PyDecode(Body(w.data)) = w.sent
           /\ PyDecode(Body(w.data)) # Raised
<1> DEFINE m == w.sent
           d == w.data
<1>1. /\ Typed(m, Seq(Byte)) /\ Small(Len(PyPayload(m))) /\ d = CsEncode(m)
      /\ m.kind \in ServerKinds
  BY DEF Answered
<1>2. Fits(m) /\ AsText(m) = m
  BY <1>1, ServerFits
<1>3. Understood(m)
  BY <1>1, <1>2, FittingAgrees
<1>4. d = PyEncode(m) /\ PyDecode(Body(d)) = m /\ CsDecode(Body(d)) = m
  BY <1>1, <1>2, <1>3 DEF Understood
<1>5. Agreed(w)
  BY <1>1, <1>2, <1>4 DEF Agreed
<1>6. Number(SubSeq(d, 1, 4)) = Len(d) - 4
  <2>1. d = Wire(m.kind, PyPieces(m)) /\ Told(m.kind, PyPieces(m), PyPayload(m))
    BY <1>1, <1>4, PyEncodeIs
  <2> HIDE DEF m, d
  <2> QED
    BY <1>1, <2>1, WireIs
<1>7. m # Raised
  <2>1. m.kind # -1
    BY <1>1, KindsAre DEF Kinds
  <2> QED
    BY <2>1 DEF Raised
<1> QED
  BY <1>4, <1>5, <1>6, <1>7 DEF Framed

LEMMA MsgTyped ==
    ASSUME NEW k \in Kinds, NEW v, NEW p, NEW C,
           v = [i \in 1 .. Len(Registry[k].fields) |-> v[i]],
           \A i \in 1 .. Len(Registry[k].fields) : FieldTyped(Registry[k].fields[i], v[i]),
           PayloadTyped(Registry[k].payload, p, C)
    PROVE  Typed(Msg(k, v, p), C)
<1> DEFINE m == Msg(k, v, p)
<1>1. m.kind = k /\ m.values = v /\ m.payload = p
  BY MsgHas
<1> HIDE DEF m
<1>2. m = Msg(m.kind, m.values, m.payload)
  BY <1>1 DEF m
<1>3. Typed(m, C)
  BY <1>1, <1>2 DEF Typed
<1> QED
  BY <1>3 DEF m

LEMMA Layouts ==
    /\ Registry[Introduction] = IntroductionMessage /\ Registry[Message] = MessageMessage
    /\ Registry[Error] = ErrorMessage /\ Registry[SetBuild] = SetBuildMessage
    /\ Registry[Acknowledge] = AcknowledgeMessage /\ Registry[FileContent] = FileContentMessage
    /\ Registry[ExecuteBuild] = ExecuteBuildMessage
    /\ Registry[BuildOutput] = BuildOutputMessage
    /\ Registry[BuildComplete] = BuildCompleteMessage
<1>1. Registry[Introduction] = IntroductionMessage
  BY DEF Registry, Kinds, Introduction
<1>2. Registry[Message] = MessageMessage
  BY DEF Registry, Kinds, Message
<1>3. Registry[Error] = ErrorMessage
  BY DEF Registry, Kinds, Error
<1>4. Registry[SetBuild] = SetBuildMessage
  BY DEF Registry, Kinds, SetBuild
<1>5. Registry[Acknowledge] = AcknowledgeMessage
  BY DEF Registry, Kinds, Acknowledge
<1>6. Registry[FileContent] = FileContentMessage
  BY DEF Registry, Kinds, FileContent
<1>7. Registry[ExecuteBuild] = ExecuteBuildMessage
  BY DEF Registry, Kinds, ExecuteBuild
<1>8. Registry[BuildOutput] = BuildOutputMessage
  BY DEF Registry, Kinds, BuildOutput
<1>9. Registry[BuildComplete] = BuildCompleteMessage
  BY DEF Registry, Kinds, BuildComplete
<1> QED
  BY <1>1, <1>2, <1>3, <1>4, <1>5, <1>6, <1>7, <1>8, <1>9

LEMMA TextField1 == \A w, t : t \in Seq(Char) => FieldTyped(Str(w), t)
BY DEF FieldTyped, Str

LEMMA IsRequested ==
    ASSUME NEW m, m.kind \in PackageKinds, Typed(m, Seq(Byte)), Modest(Len(PyPayload(m)))
    PROVE  Requested([sent |-> m, data |-> PyEncode(m)])
BY DEF Requested

LEMMA IsAnswered ==
    ASSUME NEW m, m.kind \in ServerKinds, Typed(m, Seq(Byte)), Small(Len(PyPayload(m)))
    PROVE  Answered([sent |-> m, data |-> CsEncode(m)])
BY DEF Answered

LEMMA NoPayloadSize ==
    ASSUME NEW k \in Kinds, NEW v, Registry[k].payload = "none"
    PROVE  PyPayload(Msg(k, v, << >>)) = << >> /\ Modest(Len(PyPayload(Msg(k, v, << >>))))
<1>1. PyPayload(Msg(k, v, << >>)) = << >>
  BY MsgHas, PayloadCases
<1>2. Len(<< >>) \in 0 .. 600
  OBVIOUS
<1> QED
  BY <1>1, <1>2, Sizes

LEMMA IntroductionRequested ==
    ASSUME NEW login \in Logins,
           NEW m, m = Msg(Introduction,
                   <<1, login.username, login.password, Hostname, Platform>>, <<>>)
    PROVE  Requested([sent |-> m, data |-> PyEncode(m)])
<1> DEFINE v == <<1, login.username, login.password, Hostname, Platform>>
           k == Introduction
           fields == <<U(1), Str(64), Str(64), Str(64), Str(8)>>
<1>1. Registry[k].fields = fields /\ Registry[k].payload = "none"
  BY Layouts DEF IntroductionMessage, Layout
<1>2. k \in Kinds /\ k \in PackageKinds
  BY KindsAre DEF PackageKinds
<1>3. FieldTyped(U(1), 1)
  BY WeightIs DEF FieldTyped, U, InWidth
<1>4. /\ login.username \in Seq(Char) /\ login.password \in Seq(Char)
      /\ Hostname \in Seq(Char) /\ Platform \in Seq(Char)
  BY TextAssumption
<1>5. /\ FieldTyped(Str(64), login.username) /\ FieldTyped(Str(64), login.password)
      /\ FieldTyped(Str(64), Hostname) /\ FieldTyped(Str(8), Platform)
  BY <1>4, TextField1
<1>6. \A i \in 1 .. 5 : FieldTyped(fields[i], v[i])
  BY <1>3, <1>5
<1>7. Len(fields) = 5 /\ v = [i \in 1 .. 5 |-> v[i]]
  OBVIOUS
<1>8. PayloadTyped("none", << >>, Seq(Byte))
  BY DEF PayloadTyped
<1> HIDE DEF v, k, fields
<1>9. Typed(Msg(k, v, << >>), Seq(Byte))
  BY <1>1, <1>2, <1>6, <1>7, <1>8, MsgTyped
<1>10. m = Msg(k, v, << >>)
  BY DEF v, k
<1> QED
  BY <1>1, <1>2, <1>9, <1>10, NoPayloadSize, MsgHas, IsRequested

LEMMA ExecuteRequested ==
    ASSUME NEW m, m = Msg(ExecuteBuild, << >>, ShellCmd)
    PROVE  Requested([sent |-> m, data |-> PyEncode(m)])
<1>1. Registry[ExecuteBuild].fields = << >> /\ Registry[ExecuteBuild].payload = "text"
  BY Layouts DEF ExecuteBuildMessage, Layout
<1>2. ExecuteBuild \in Kinds /\ ExecuteBuild \in PackageKinds
  BY KindsAre DEF PackageKinds
<1>3. ShellCmd \in Seq(Char) /\ Len(ShellCmd) < MaxCarried
  BY TextAssumption, SizeAssumption
<1>4. PayloadTyped("text", ShellCmd, Seq(Byte))
  BY <1>3 DEF PayloadTyped
<1>5. << >> = [i \in 1 .. Len(<< >>) |-> << >>[i]] /\ 1 .. Len(<< >>) = {}
  OBVIOUS
<1>6. Typed(m, Seq(Byte))
  BY <1>1, <1>2, <1>4, <1>5, MsgTyped
<1>7. PyPayload(m) = Utf8(ShellCmd)
  BY <1>1, MsgHas, PayloadCases
<1> QED
  BY <1>2, <1>3, <1>6, <1>7, CarriedText, MsgHas, IsRequested

LEMMA FileRequested ==
    ASSUME NEW p \in Projects, NEW f \in p.files,
           NEW m, m = Msg(FileContent, <<f.root, f.name>>, f.content)
    PROVE  Requested([sent |-> m, data |-> PyEncode(m)])
<1> DEFINE v == <<f.root, f.name>>
           fields == <<Str(256), Str(256)>>
<1>1. Registry[FileContent].fields = fields /\ Registry[FileContent].payload = "content"
  BY Layouts DEF FileContentMessage, Layout
<1>2. FileContent \in Kinds /\ FileContent \in PackageKinds
  BY KindsAre DEF PackageKinds
<1>3. /\ f.root \in Seq(Char) /\ f.name \in Seq(Char) /\ f.content \in Seq(Byte)
      /\ Len(f.content) < MaxCarried
  BY ProjectsAssumption, SizeAssumption
<1>4. FieldTyped(Str(256), f.root) /\ FieldTyped(Str(256), f.name)
  BY <1>3, TextField1
<1>5. \A i \in 1 .. 2 : FieldTyped(fields[i], v[i])
  BY <1>4
<1>6. Len(fields) = 2 /\ v = [i \in 1 .. 2 |-> v[i]]
  OBVIOUS
<1>7. PayloadTyped("content", f.content, Seq(Byte))
  BY <1>3 DEF PayloadTyped
<1> HIDE DEF v, fields
<1>8. m = Msg(FileContent, v, f.content)
  BY DEF v
<1>9. Typed(m, Seq(Byte))
  <2> DEFINE all == Registry[FileContent].fields
  <2>1. v = [i \in 1 .. Len(all) |-> v[i]] /\ \A i \in 1 .. Len(all) : FieldTyped(all[i], v[i])
    BY <1>1, <1>5, <1>6
  <2>2. PayloadTyped(Registry[FileContent].payload, f.content, Seq(Byte))
    BY <1>1, <1>7
  <2>3. Typed(Msg(FileContent, v, f.content), Seq(Byte))
    BY <1>2, <2>1, <2>2, MsgTyped
  <2> QED
    BY <1>8, <2>3
<1>10. PyPayload(m) = f.content
  BY <1>1, <1>8, MsgHas, PayloadCases
<1>11. Modest(Len(f.content))
  <2>1. Len(f.content) \in Nat
    BY <1>3
  <2> QED
    BY <1>3, <2>1, Sizes
<1> QED
  BY <1>2, <1>8, <1>9, <1>10, <1>11, MsgHas, IsRequested

LEMMA SetBuildRequested ==
    ASSUME NEW p \in Projects, NEW folders \in SetToSeqs(p.folders),
           NEW m, m = Msg(SetBuild, << >>, <<BuildId(folders)>> \o folders)
    PROVE  Requested([sent |-> m, data |-> PyEncode(m)])
<1> DEFINE X == Seq(Char)
           id == BuildId(folders)
           names == <<id>> \o folders
<1>1. Registry[SetBuild].fields = << >> /\ Registry[SetBuild].payload = "names"
  BY Layouts DEF SetBuildMessage, Layout
<1>2. SetBuild \in Kinds /\ SetBuild \in PackageKinds
  BY KindsAre DEF PackageKinds
<1>3. IsFiniteSet(p.folders) /\ p.folders \subseteq X /\ Apart(p.folders)
  BY ProjectsAssumption DEF Apart
<1>4. id \in X
  BY <1>3, BuildIdIs
<1>5. folders \in Seq(p.folders)
  BY <1>3, Enumerated
<1>6. Len(Joined(names)) < MaxCarried
  BY SizeAssumption
<1>7. names \in Seq(X) /\ names # << >>
  <2> HIDE DEF X, id
  <2>1. <<id>> \in Seq(X) /\ folders \in Seq(X)
    BY <1>3, <1>4, <1>5
  <2>2. names \in Seq(X) /\ Len(names) = 1 + Len(folders) /\ Len(folders) \in Nat
    BY <2>1
  <2> QED
    BY <2>2
<1> HIDE DEF names, id
<1>8. Joined(names) \in Seq(Char)
  BY <1>7, NULIs, JoinedType DEF X
<1>9. PayloadTyped("names", names, Seq(Byte))
  BY <1>7 DEF PayloadTyped, X
<1>10. << >> = [i \in 1 .. Len(<< >>) |-> << >>[i]] /\ 1 .. Len(<< >>) = {}
  OBVIOUS
<1>11. m = Msg(SetBuild, << >>, names)
  BY DEF names, id
<1> HIDE DEF X
<1>12. Typed(m, Seq(Byte))
  <2>1. \A i \in 1 .. Len(Registry[SetBuild].fields) :
           FieldTyped(Registry[SetBuild].fields[i], << >>[i])
    BY <1>1, <1>10
  <2>2. << >> = [i \in 1 .. Len(Registry[SetBuild].fields) |-> << >>[i]]
    BY <1>1, <1>10
  <2>3. PayloadTyped(Registry[SetBuild].payload, names, Seq(Byte))
    BY <1>1, <1>9
  <2>4. Typed(Msg(SetBuild, << >>, names), Seq(Byte))
    BY <1>2, <2>1, <2>2, <2>3, MsgTyped
  <2> QED
    BY <1>11, <2>4
<1>13. PyPayload(m) = Utf8(Joined(names))
  BY <1>1, <1>11, MsgHas, PayloadCases
<1> QED
  BY <1>2, <1>6, <1>8, <1>11, <1>12, <1>13, CarriedText, MsgHas, IsRequested

LEMMA TextAnswered ==
    ASSUME NEW k \in {Message, Error, BuildOutput}, NEW v, NEW n, Modest(n), NEW t \in Text(n),
           v = [i \in 1 .. Len(Registry[k].fields) |-> v[i]],
           \A i \in 1 .. Len(Registry[k].fields) : FieldTyped(Registry[k].fields[i], v[i]),
           NEW m, m = Msg(k, v, t)
    PROVE  Answered([sent |-> m, data |-> CsEncode(m)])
<1>1. Registry[k].payload = "text"
  BY Layouts DEF MessageMessage, ErrorMessage, BuildOutputMessage, Layout
<1>2. k \in Kinds /\ k \in ServerKinds
  BY KindsAre DEF ServerKinds
<1>3. t \in Seq(Char) /\ Small(Len(Utf8(t)))
  BY AnsweredText
<1>4. PayloadTyped("text", t, Seq(Byte))
  BY <1>3 DEF PayloadTyped
<1>5. Typed(m, Seq(Byte))
  BY <1>1, <1>2, <1>4, MsgTyped
<1>6. PyPayload(m) = Utf8(t)
  BY <1>1, MsgHas, PayloadCases
<1> QED
  BY <1>2, <1>3, <1>5, <1>6, MsgHas, IsAnswered

LEMMA PlainAnswered ==
    ASSUME NEW k \in {Acknowledge, BuildComplete}, NEW v,
           v = [i \in 1 .. Len(Registry[k].fields) |-> v[i]],
           \A i \in 1 .. Len(Registry[k].fields) : FieldTyped(Registry[k].fields[i], v[i]),
           NEW m, m = Msg(k, v, <<>>)
    PROVE  Answered([sent |-> m, data |-> CsEncode(m)])
<1>1. Registry[k].payload = "none"
  BY Layouts DEF AcknowledgeMessage, BuildCompleteMessage, Layout
<1>2. k \in Kinds /\ k \in ServerKinds
  BY KindsAre DEF ServerKinds
<1>3. PayloadTyped("none", << >>, Seq(Byte))
  BY DEF PayloadTyped
<1>4. Typed(m, Seq(Byte))
  BY <1>1, <1>2, <1>3, MsgTyped
<1>5. Small(Len(PyPayload(m)))
  BY <1>1, <1>2, NoPayloadSize, Sizes
<1> QED
  BY <1>2, <1>4, <1>5, MsgHas, IsAnswered

LEMMA MessageAnswered ==
    ASSUME NEW n, Modest(n), NEW t \in Text(n), NEW m, m = Msg(Message, <<>>, t)
    PROVE  Answered([sent |-> m, data |-> CsEncode(m)])
<1>1. Registry[Message].fields = << >>
  BY Layouts DEF MessageMessage, Layout
<1>2. << >> = [i \in 1 .. Len(<< >>) |-> << >>[i]] /\ 1 .. Len(<< >>) = {}
  OBVIOUS
<1>3. /\ << >> = [i \in 1 .. Len(Registry[Message].fields) |-> << >>[i]]
      /\ \A i \in 1 .. Len(Registry[Message].fields) :
            FieldTyped(Registry[Message].fields[i], << >>[i])
  BY <1>1, <1>2
<1> QED
  BY <1>3, TextAnswered

LEMMA OneField ==
    ASSUME NEW k, NEW f, Registry[k].fields = <<f>>, NEW x, FieldTyped(f, x)
    PROVE  /\ <<x>> = [i \in 1 .. Len(Registry[k].fields) |-> <<x>>[i]]
           /\ \A i \in 1 .. Len(Registry[k].fields) : FieldTyped(Registry[k].fields[i], <<x>>[i])
<1>1. Len(<<f>>) = 1 /\ <<x>> = [i \in 1 .. 1 |-> <<x>>[i]] /\ <<f>>[1] = f /\ <<x>>[1] = x
  OBVIOUS
<1>2. \A i \in 1 .. 1 : i = 1
  OBVIOUS
<1> QED
  BY <1>1, <1>2

LEMMA TwoFields ==
    ASSUME NEW k, NEW f, NEW g, Registry[k].fields = <<f, g>>,
           NEW x, NEW y, FieldTyped(f, x), FieldTyped(g, y)
    PROVE  /\ <<x, y>> = [i \in 1 .. Len(Registry[k].fields) |-> <<x, y>>[i]]
           /\ \A i \in 1 .. Len(Registry[k].fields) :
                 FieldTyped(Registry[k].fields[i], <<x, y>>[i])
<1>1. /\ Len(<<f, g>>) = 2 /\ <<x, y>> = [i \in 1 .. 2 |-> <<x, y>>[i]]
      /\ <<f, g>>[1] = f /\ <<x, y>>[1] = x /\ <<f, g>>[2] = g /\ <<x, y>>[2] = y
  OBVIOUS
<1>2. \A i \in 1 .. 2 : i = 1 \/ i = 2
  OBVIOUS
<1> QED
  BY <1>1, <1>2

LEMMA ErrorAnswered ==
    ASSUME NEW code \in {1001, 2000}, NEW n, Modest(n), NEW t \in Text(n),
           NEW m, m = Msg(Error, <<code>>, t)
    PROVE  Answered([sent |-> m, data |-> CsEncode(m)])
<1>1. Registry[Error].fields = <<U(4)>>
  BY Layouts DEF ErrorMessage, Layout
<1>2. FieldTyped(U(4), code)
  BY WeightIs, SMT DEF FieldTyped, U, InWidth
<1> QED
  BY <1>1, <1>2, OneField, TextAnswered

LEMMA OutputAnswered ==
    ASSUME NEW stdout \in BOOLEAN, NEW m, m = Msg(BuildOutput, <<stdout>>, Output)
    PROVE  Answered([sent |-> m, data |-> CsEncode(m)])
<1>1. Registry[BuildOutput].fields = <<Flag>>
  BY Layouts DEF BuildOutputMessage, Layout
<1>2. FieldTyped(Flag, stdout)
  BY DEF FieldTyped, Flag
<1>3. Output \in Seq(Char) /\ Len(Output) < MaxCarried
  BY TextAssumption, SizeAssumption
<1>4. Modest(Len(Output)) /\ Output \in Text(Len(Output))
  <2>1. Len(Output) \in Nat
    BY <1>3
  <2>2. Modest(Len(Output))
    BY <1>3, <2>1, Sizes
  <2>3. Output \in Text(Len(Output))
    BY <1>3, <2>1 DEF Text
  <2> QED
    BY <2>2, <2>3
<1> QED
  BY <1>1, <1>2, <1>4, OneField, TextAnswered

LEMMA CompleteAnswered ==
    ASSUME NEW code \in Int, NEW m, m = Msg(BuildComplete, <<code % 65536>>, <<>>)
    PROVE  Answered([sent |-> m, data |-> CsEncode(m)])
<1>1. Registry[BuildComplete].fields = <<U(2)>>
  BY Layouts DEF BuildCompleteMessage, Layout
<1> DEFINE x == code % 65536
<1>2. x \in Nat /\ x <= 65535
  BY SMT
<1> HIDE DEF x
<1>3. x \in Nat /\ x >= 0 /\ x \div 256 < 256
  BY <1>2, SMT
<1>4. FieldTyped(U(2), x)
  BY <1>3, WeightIs DEF FieldTyped, U, InWidth
<1> QED
  BY <1>1, <1>4, OneField, PlainAnswered DEF x

LEMMA AckAnswered ==
    ASSUME NEW kind \in {Introduction, SetBuild, FileContent}, NEW m, m = Ack(kind)
    PROVE  Answered([sent |-> m, data |-> CsEncode(m)])
<1> DEFINE v == <<kind, TRUE>>
           fields == <<U(2), Flag>>
           k == Acknowledge
<1>1. Registry[k].fields = fields
  BY Layouts DEF AcknowledgeMessage, Layout
<1>2. kind \in 0 .. 255
  BY DEF Introduction, SetBuild, FileContent
<1>3. kind >= 0 /\ kind \div 256 < 256 /\ kind \in Nat
  BY <1>2
<1>4. FieldTyped(U(2), kind) /\ FieldTyped(Flag, TRUE)
  BY <1>3, WeightIs DEF FieldTyped, U, InWidth, Flag
<1>5. /\ v = [i \in 1 .. Len(Registry[k].fields) |-> v[i]]
      /\ \A i \in 1 .. Len(Registry[k].fields) : FieldTyped(Registry[k].fields[i], v[i])
  BY <1>1, <1>4, TwoFields
<1> HIDE DEF v, fields
<1>6. m = Msg(k, v, << >>)
  BY DEF Ack, v, k
<1> QED
  BY <1>5, <1>6, PlainAnswered DEF k

-----------------------------------------------------------------------------
IsSeq(s) == \E S : s \in Seq(S)

LEMMA IsSeqFacts ==
    ASSUME NEW s, IsSeq(s)
    PROVE  /\ Len(s) \in Nat /\ DOMAIN s = 1 .. Len(s)
           /\ s # << >> <=> Len(s) > 0
           /\ s # << >> => /\ Head(s) = s[1] /\ IsSeq(Tail(s)) /\ Len(Tail(s)) = Len(s) - 1
                           /\ \A i \in 1 .. Len(s) - 1 : Tail(s)[i] = s[i + 1]
<1>1. PICK S : s \in Seq(S)
  BY DEF IsSeq
<1>2. Len(s) \in Nat /\ DOMAIN s = 1 .. Len(s) /\ (s # << >> <=> Len(s) > 0)
  BY <1>1
<1>3. ASSUME s # << >>
      PROVE  /\ Head(s) = s[1] /\ Tail(s) \in Seq(S) /\ Len(Tail(s)) = Len(s) - 1
             /\ \A i \in 1 .. Len(s) - 1 : Tail(s)[i] = s[i + 1]
  BY <1>1, <1>3
<1>4. s # << >> => IsSeq(Tail(s))
  BY <1>3 DEF IsSeq
<1> QED
  BY <1>2, <1>3, <1>4

LEMMA IsSeqCat ==
    ASSUME NEW s, IsSeq(s), NEW t, IsSeq(t), NEW w, w = s \o t
    PROVE  IsSeq(w) /\ Catted(w, s, t)
<1>1. PICK S : s \in Seq(S)
  BY DEF IsSeq
<1>2. PICK T : t \in Seq(T)
  BY DEF IsSeq
<1>3. s \in Seq(S \cup T) /\ t \in Seq(S \cup T)
  BY <1>1, <1>2
<1>4. w \in Seq(S \cup T) /\ Catted(w, s, t)
  BY <1>3, CatIs
<1> QED
  BY <1>4 DEF IsSeq

LEMMA IsSeqEmpty == IsSeq(<< >>) /\ Len(<< >>) = 0
<1>1. << >> \in Seq({})
  OBVIOUS
<1> QED
  BY <1>1 DEF IsSeq

Answer(m) == [sent |-> m, data |-> CsEncode(m)]

LEMMA ReplyOne ==
    ASSUME NEW a, Reply(<<a>>)
    PROVE  toPackage' = toPackage \o <<Answer(a)>>
<1>1. [i \in DOMAIN <<a>> |-> [sent |-> <<a>>[i], data |-> CsEncode(<<a>>[i])]] = <<Answer(a)>>
  BY DEF Answer
<1> QED
  BY <1>1 DEF Reply

LEMMA ReplyTwo ==
    ASSUME NEW a, NEW b, Reply(<<a, b>>)
    PROVE  toPackage' = toPackage \o <<Answer(a), Answer(b)>>
<1> DEFINE s == [i \in 1 .. 2 |-> Answer(<<a, b>>[i])]
<1>1. s = <<Answer(a), Answer(b)>>
  <2>1. s[1] = Answer(a) /\ s[2] = Answer(b)
    OBVIOUS
  <2> QED
    BY <2>1
<1>2. toPackage' = toPackage \o s
  <2>1. DOMAIN <<a, b>> = 1 .. 2
    OBVIOUS
  <2> QED
    BY <2>1 DEF Reply, Answer
<1> QED
  BY <1>1, <1>2

\* What ends the turn of the server.
Turns == {Acknowledge, Error, BuildComplete}

TurnsLast(s) == \A i \in 1 .. Len(s) : s[i].sent.kind \in Turns => i = Len(s)
NoTurns(s)   == \A i \in 1 .. Len(s) : s[i].sent.kind \notin Turns

AllAnswered(s) == IsSeq(s) /\ \A i \in 1 .. Len(s) : Answered(s[i])

LEMMA RepliedOne ==
    ASSUME NEW s, AllAnswered(s), NEW a, Answered(Answer(a)), NEW w, w = s \o <<Answer(a)>>
    PROVE  /\ AllAnswered(w)
           /\ NoTurns(s) => TurnsLast(w)
           /\ NoTurns(s) /\ a.kind \notin Turns => NoTurns(w)
<1> DEFINE t == <<Answer(a)>>
<1>1. IsSeq(t) /\ Len(t) = 1 /\ t[1] = Answer(a)
  <2>1. t \in Seq({Answer(a)})
    OBVIOUS
  <2> QED
    BY <2>1 DEF IsSeq
<1> HIDE DEF t
<1>2. IsSeq(w) /\ Catted(w, s, t) /\ IsSeq(s)
  BY <1>1, IsSeqCat DEF AllAnswered, t
<1>3. /\ Len(s) \in Nat /\ Len(w) = Len(s) + 1
      /\ \A i \in 1 .. Len(s) : w[i] = s[i]
      /\ w[Len(s) + 1] = Answer(a)
  BY <1>1, <1>2 DEF Catted
<1>4. \A i \in 1 .. Len(w) : i \in 1 .. Len(s) \/ i = Len(w)
  BY <1>3
<1>5. AllAnswered(w)
  BY <1>2, <1>3, <1>4 DEF AllAnswered
<1>6. NoTurns(s) => TurnsLast(w)
  BY <1>3, <1>4 DEF NoTurns, TurnsLast
<1>7. Answer(a).sent.kind = a.kind
  BY DEF Answer
<1> QED
  BY <1>3, <1>4, <1>5, <1>6, <1>7 DEF NoTurns

LEMMA RepliedTwo ==
    ASSUME NEW s, AllAnswered(s), NEW a, Answered(Answer(a)), NEW b, Answered(Answer(b)),
           a.kind \notin Turns, NoTurns(s), NEW w, w = s \o <<Answer(a), Answer(b)>>
    PROVE  AllAnswered(w) /\ TurnsLast(w)
<1>1. PICK S : s \in Seq(S)
  BY DEF AllAnswered, IsSeq
<1> DEFINE T == S \cup {Answer(a), Answer(b)}
           x == <<Answer(a)>>
           y == <<Answer(b)>>
           z == <<Answer(a), Answer(b)>>
           v == s \o x
<1>2. s \in Seq(T) /\ x \in Seq(T) /\ y \in Seq(T) /\ z = x \o y
  BY <1>1
<1>3. w = v \o y
  <2> HIDE DEF T, x, y, z
  <2>1. Cat(Cat(s, x), y) = Cat(s, Cat(x, y))
    BY <1>2, CatAssociative
  <2> QED
    BY <1>2, <2>1 DEF Cat, z
<1>4. AllAnswered(v) /\ NoTurns(v)
  BY RepliedOne
<1> QED
  BY <1>3, <1>4, RepliedOne

-----------------------------------------------------------------------------
(***************************************************************************)
(* The two ends take turns: at most one request, or what ends its turn, or *)
(* a build process, is there at a time.                                    *)
(***************************************************************************)
Carries(w) == toServer = <<w>> /\ Requested(w)

UnderWay == (toServer = << >> \/ \E w : Carries(w)) /\ AllAnswered(toPackage)

OneTurn ==
    /\ busy \in BOOLEAN /\ running \in BOOLEAN /\ (running => busy)
    /\ toServer # << >> => NoTurns(toPackage) /\ ~running /\ busy
    /\ TurnsLast(toPackage)
    /\ running \/ ~busy => NoTurns(toPackage)

LoggedIn ==
    /\ user \in Users \cup {NoUser}
    /\ \A w : toServer = <<w>> => (w.sent.kind = Introduction <=> user = NoUser)
    /\ \A i \in 1 .. Len(toPackage) : toPackage[i].sent.kind = Acknowledge => user # NoUser
    /\ user = NoUser => current_build_folders = Nowhere

Talk == UnderWay /\ OneTurn /\ LoggedIn

LEMMA OneElement == \A v, w : <<v>> # << >> /\ (<<v>> = <<w>> => v = w) /\ Head(<<v>>) = v /\ Tail(<<v>>) = << >>
<1> TAKE v, w
<1>1. <<v>> # << >> /\ Head(<<v>>) = v /\ Tail(<<v>>) = << >>
  OBVIOUS
<1>2. <<v>> = <<w>> => <<v>>[1] = <<w>>[1]
  OBVIOUS
<1> QED
  BY <1>1, <1>2

LEMMA Asks ==
    ASSUME NEW m, Request(m), toServer = << >>
    PROVE  toServer' = <<[sent |-> m, data |-> PyEncode(m)]>>
BY DEF Request

LEMMA SetsUp ==
    ASSUME NEW p \in Projects, SetUp(p), toServer = << >>
    PROVE  \E folders, w :
              /\ folders \in SetToSeqs(p.folders)
              /\ toServer' = <<w>> /\ Requested(w)
              /\ w.sent = Msg(SetBuild, <<>>, <<BuildId(folders)>> \o folders)
              /\ builds' = Append(builds, [project |-> p, id |-> BuildId(folders),
                                           user |-> user.username, sent |-> FALSE])
              /\ proj_files' = p.files
<1>1. PICK folders \in SetToSeqs(p.folders) :
          /\ Request(Msg(SetBuild, <<>>, <<BuildId(folders)>> \o folders))
          /\ builds' = Append(builds, [project |-> p, id |-> BuildId(folders),
                                       user |-> user.username, sent |-> FALSE])
          /\ proj_files' = p.files
  BY DEF SetUp
<1> DEFINE m == Msg(SetBuild, <<>>, <<BuildId(folders)>> \o folders)
           w == [sent |-> m, data |-> PyEncode(m)]
<1>2. Requested(w)
  BY SetBuildRequested
<1> HIDE DEF m
<1>3. toServer' = <<w>>
  BY <1>1, Asks DEF m
<1>4. w.sent = m
  OBVIOUS
<1> QED
  BY <1>1, <1>2, <1>3, <1>4 DEF m

\* What the package has when it receives something.
LEMMA Received ==
    ASSUME Talk, Receive, NEW m, m = PyDecode(Body(Head(toPackage).data))
    PROVE  /\ toPackage # << >> /\ toPackage' = Tail(toPackage) /\ m = toPackage[1].sent
           /\ m.kind \in ServerKinds /\ AllAnswered(toPackage')
           /\ m.kind \in Turns => toPackage' = << >> /\ toServer = << >> /\ ~running /\ busy
           /\ TurnsLast(toPackage') /\ (NoTurns(toPackage) => NoTurns(toPackage'))
           /\ \A i \in 1 .. Len(toPackage') :
                 i + 1 \in 1 .. Len(toPackage) /\ toPackage'[i] = toPackage[i + 1]
           /\ 1 \in 1 .. Len(toPackage)
<1>1. toPackage # << >> /\ toPackage' = Tail(toPackage)
  BY DEF Receive
<1>2. IsSeq(toPackage) /\ \A i \in 1 .. Len(toPackage) : Answered(toPackage[i])
  BY DEF Talk, UnderWay, AllAnswered
<1> DEFINE n == Len(toPackage)
<1>3. /\ n \in Nat /\ n > 0 /\ Head(toPackage) = toPackage[1]
      /\ IsSeq(toPackage') /\ Len(toPackage') = n - 1
      /\ \A i \in 1 .. n - 1 : toPackage'[i] = toPackage[i + 1]
  BY <1>1, <1>2, IsSeqFacts
<1> HIDE DEF n
<1>4. 1 \in 1 .. n /\ \A i \in 1 .. n - 1 : i + 1 \in 1 .. n
  BY <1>3
<1>5. Answered(toPackage[1])
  BY <1>2, <1>4 DEF n
<1>6. m = toPackage[1].sent /\ m.kind \in ServerKinds
  BY <1>3, <1>5, AnswerRestored DEF Answered
<1>7. AllAnswered(toPackage')
  BY <1>2, <1>3, <1>4 DEF AllAnswered, n
<1>8. TurnsLast(toPackage') /\ (NoTurns(toPackage) => NoTurns(toPackage'))
  <2>1. TurnsLast(toPackage)
    BY DEF Talk, OneTurn
  <2>2. NoTurns(toPackage) => NoTurns(toPackage')
    BY <1>3, <1>4 DEF NoTurns, n
  <2>3. ASSUME NEW i \in 1 .. n - 1, toPackage'[i].sent.kind \in Turns PROVE i = n - 1
    <3>1. i + 1 = n
      BY <1>3, <1>4, <2>1, <2>3 DEF TurnsLast, n
    <3> QED
      BY <1>3, <3>1
  <2> QED
    BY <1>3, <2>2, <2>3 DEF TurnsLast
<1>9. ASSUME m.kind \in Turns
      PROVE  toPackage' = << >> /\ toServer = << >> /\ ~running /\ busy
  <2>1. ~NoTurns(toPackage)
    BY <1>4, <1>6, <1>9 DEF NoTurns, n
  <2>2. 1 = n
    BY <1>4, <1>6, <1>9 DEF Talk, OneTurn, TurnsLast, n
  <2>3. Len(toPackage') = 0
    BY <1>3, <2>2
  <2>4. toPackage' = << >>
    BY <1>3, <2>3, IsSeqFacts
  <2> QED
    BY <2>1, <2>4 DEF Talk, OneTurn
<1> QED
  BY <1>1, <1>3, <1>4, <1>6, <1>7, <1>8, <1>9 DEF n

LEMMA KindsDiffer ==
    /\ Introduction # SetBuild /\ Introduction # FileContent /\ Introduction # ExecuteBuild
    /\ SetBuild # FileContent /\ SetBuild # ExecuteBuild /\ FileContent # ExecuteBuild
    /\ Message \notin Turns /\ BuildOutput \notin Turns
    /\ Acknowledge \in Turns /\ Error \in Turns /\ BuildComplete \in Turns
    /\ Error # Acknowledge /\ BuildComplete # Acknowledge
    /\ Message # Acknowledge /\ BuildOutput # Acknowledge
BY DEF Introduction, SetBuild, FileContent, ExecuteBuild, Turns, Message, BuildOutput,
       Acknowledge, Error, BuildComplete

LEMMA TalkConnects ==
    ASSUME Talk, NEW login \in Logins, RunConnects(login)
    PROVE  Talk'
<1> DEFINE m == Msg(Introduction,
                    <<1, login.username, login.password, Hostname, Platform>>, <<>>)
           w == [sent |-> m, data |-> PyEncode(m)]
<1>1. /\ ~busy /\ user = NoUser /\ Request(m) /\ busy' = TRUE
      /\ UNCHANGED <<toPackage, serverVars, proj_files, builds>>
  BY DEF RunConnects
<1>2. Requested(w) /\ m.kind = Introduction
  BY IntroductionRequested, MsgHas
<1> HIDE DEF m
<1>3. toServer = << >> /\ NoTurns(toPackage) /\ ~running
  BY <1>1 DEF Talk, OneTurn
<1>4. toServer' = <<w>> /\ w.sent = m
  BY <1>1, <1>3, Asks
<1> HIDE DEF w
<1>5. UnderWay'
  BY <1>1, <1>2, <1>4 DEF Talk, UnderWay, Carries, AllAnswered
<1>6. OneTurn'
  BY <1>1, <1>3, <1>4, OneElement DEF Talk, OneTurn, serverVars, NoTurns, TurnsLast
<1>7. LoggedIn'
  BY <1>1, <1>2, <1>3, <1>4, OneElement DEF Talk, LoggedIn, serverVars, NoTurns
<1> QED
  BY <1>5, <1>6, <1>7 DEF Talk

LEMMA TalkBuilds ==
    ASSUME Talk, NEW p \in Projects, RunBuilds(p)
    PROVE  Talk'
<1>1. /\ ~busy /\ user # NoUser /\ SetUp(p) /\ busy' = TRUE
      /\ UNCHANGED <<toPackage, serverVars>>
  BY DEF RunBuilds
<1>2. toServer = << >> /\ NoTurns(toPackage) /\ ~running
  BY <1>1 DEF Talk, OneTurn
<1>3. PICK folders, w :
          /\ folders \in SetToSeqs(p.folders)
          /\ toServer' = <<w>> /\ Requested(w)
          /\ w.sent = Msg(SetBuild, <<>>, <<BuildId(folders)>> \o folders)
  BY <1>1, <1>2, SetsUp
<1>4. w.sent.kind # Introduction
  BY <1>3, MsgHas, KindsDiffer
<1>5. UnderWay'
  BY <1>1, <1>3 DEF Talk, UnderWay, Carries, AllAnswered
<1>6. OneTurn'
  BY <1>1, <1>2, <1>3, OneElement DEF Talk, OneTurn, serverVars, NoTurns, TurnsLast
<1>7. LoggedIn'
  BY <1>1, <1>2, <1>3, <1>4, OneElement DEF Talk, LoggedIn, serverVars, NoTurns
<1> QED
  BY <1>5, <1>6, <1>7 DEF Talk

\* What the package may send for an acknowledgement.
LEMMA SendsNext ==
    ASSUME SendNextFile, toServer = << >>,
           proj_files \subseteq UNION {p.files : p \in Projects}
    PROVE  /\ busy' = busy
           /\ \E w : /\ toServer' = <<w>> /\ Requested(w)
                     /\ \/ /\ proj_files = {} /\ w.sent.kind = ExecuteBuild /\ proj_files' = proj_files
                           /\ builds' = [builds EXCEPT ![Len(builds)].sent = TRUE]
                        \/ \E f \in proj_files :
                              /\ w.sent = Msg(FileContent, <<f.root, f.name>>, f.content)
                              /\ proj_files' = proj_files \ {f} /\ builds' = builds
<1>1. CASE proj_files = {}
  <2> DEFINE m == Msg(ExecuteBuild, <<>>, ShellCmd)
             w == [sent |-> m, data |-> PyEncode(m)]
  <2>1. /\ Request(m) /\ builds' = [builds EXCEPT ![Len(builds)].sent = TRUE]
        /\ proj_files' = proj_files /\ busy' = busy
    BY <1>1 DEF SendNextFile
  <2>2. Requested(w) /\ m.kind = ExecuteBuild
    BY ExecuteRequested, MsgHas
  <2> HIDE DEF m
  <2>3. toServer' = <<w>> /\ w.sent = m
    BY <2>1, Asks
  <2> HIDE DEF w
  <2> QED
    BY <1>1, <2>1, <2>2, <2>3
<1>2. CASE proj_files # {}
  <2>1. PICK f \in proj_files : /\ Request(Msg(FileContent, <<f.root, f.name>>, f.content))
                                /\ proj_files' = proj_files \ {f} /\ builds' = builds
                                /\ busy' = busy
    BY <1>2 DEF SendNextFile
  <2> DEFINE m == Msg(FileContent, <<f.root, f.name>>, f.content)
             w == [sent |-> m, data |-> PyEncode(m)]
  <2>2. PICK p \in Projects : f \in p.files
    OBVIOUS
  <2>3. Requested(w)
    BY <2>2, FileRequested
  <2> HIDE DEF m
  <2>4. toServer' = <<w>> /\ w.sent = m
    BY <2>1, Asks DEF m
  <2> HIDE DEF w
  <2> QED
    BY <2>1, <2>3, <2>4 DEF m
<1> QED
  BY <1>1, <1>2

LEMMA AcksInTurn ==
    ASSUME Talk, Receive, NEW m, m = PyDecode(Body(Head(toPackage).data)), m.kind = Acknowledge
    PROVE  toPackage' = << >> /\ toServer = << >> /\ ~running /\ busy /\ user # NoUser
<1>1. /\ m = toPackage[1].sent /\ 1 \in 1 .. Len(toPackage)
      /\ toPackage' = << >> /\ toServer = << >> /\ ~running /\ busy
  BY Received, KindsDiffer
<1> QED
  BY <1>1 DEF Talk, LoggedIn

\* The state behind a request that answers an acknowledgement.
LEMMA TalkAsks ==
    ASSUME Talk, toPackage' = << >>, ~running, busy, user # NoUser, busy' = busy,
           UNCHANGED serverVars, NEW w, toServer' = <<w>>, Requested(w),
           w.sent.kind # Introduction
    PROVE  Talk'
<1>1. AllAnswered(<< >>) /\ NoTurns(<< >>) /\ TurnsLast(<< >>)
  BY IsSeqEmpty DEF AllAnswered, NoTurns, TurnsLast
<1>2. UnderWay'
  BY <1>1 DEF UnderWay, Carries, AllAnswered
<1>3. OneTurn'
  BY <1>1 DEF Talk, OneTurn, serverVars, NoTurns, TurnsLast
<1>4. LoggedIn'
  BY OneElement, IsSeqEmpty DEF Talk, LoggedIn, serverVars
<1> QED
  BY <1>2, <1>3, <1>4 DEF Talk

LEMMA TalkReceive ==
    ASSUME Talk, Receive, proj_files \subseteq UNION {p.files : p \in Projects}
    PROVE  Talk'
<1> DEFINE m == PyDecode(Body(Head(toPackage).data))
<1>1. /\ UNCHANGED serverVars
      /\ \/ /\ m.kind = Acknowledge /\ m.values = <<Introduction, TRUE>>
            /\ \E p \in Projects : SetUp(p)
            /\ UNCHANGED busy
         \/ /\ m.kind = Acknowledge
            /\ m.values \in {<<SetBuild, TRUE>>, <<FileContent, TRUE>>}
            /\ SendNextFile
         \/ /\ m.kind \in {Message, BuildOutput}
            /\ UNCHANGED <<toServer, packageVars>>
         \/ /\ m.kind \in {Error, BuildComplete}
            /\ busy' = FALSE
            /\ UNCHANGED <<toServer, proj_files, builds>>
  BY DEF Receive
<1>2. m = PyDecode(Body(Head(toPackage).data))
  OBVIOUS
<1> HIDE DEF m
<1>3. CASE m.kind = Acknowledge /\ (\E p \in Projects : SetUp(p)) /\ UNCHANGED busy
  <2>1. toPackage' = << >> /\ toServer = << >> /\ ~running /\ busy /\ user # NoUser
    BY <1>2, <1>3, AcksInTurn
  <2>2. PICK p \in Projects : SetUp(p)
    BY <1>3
  <2>3. PICK folders, w :
            /\ folders \in SetToSeqs(p.folders)
            /\ toServer' = <<w>> /\ Requested(w)
            /\ w.sent = Msg(SetBuild, <<>>, <<BuildId(folders)>> \o folders)
    BY <2>1, <2>2, SetsUp
  <2>4. w.sent.kind # Introduction
    BY <2>3, MsgHas, KindsDiffer
  <2> QED
    BY <1>1, <1>3, <2>1, <2>3, <2>4, TalkAsks
<1>4. CASE m.kind = Acknowledge /\ SendNextFile
  <2>1. toPackage' = << >> /\ toServer = << >> /\ ~running /\ busy /\ user # NoUser
    BY <1>2, <1>4, AcksInTurn
  <2>2. /\ busy' = busy
        /\ \E w : /\ toServer' = <<w>> /\ Requested(w)
                  /\ \/ w.sent.kind = ExecuteBuild
                     \/ \E f \in proj_files :
                            w.sent = Msg(FileContent, <<f.root, f.name>>, f.content)
    BY <1>4, <2>1, SendsNext
  <2>3. PICK w : /\ toServer' = <<w>> /\ Requested(w)
                 /\ \/ w.sent.kind = ExecuteBuild
                    \/ \E f \in proj_files :
                           w.sent = Msg(FileContent, <<f.root, f.name>>, f.content)
    BY <2>2
  <2>4. w.sent.kind = ExecuteBuild \/ w.sent.kind = FileContent
    <3>1. \A f : Msg(FileContent, <<f.root, f.name>>, f.content).kind = FileContent
      BY MsgHas
    <3> QED
      BY <2>3, <3>1
  <2>5. w.sent.kind # Introduction
    BY <2>4, KindsDiffer
  <2> QED
    BY <1>1, <2>1, <2>2, <2>3, <2>5, TalkAsks
<1>5. CASE /\ \/ m.kind \in {Message, BuildOutput} /\ busy' = busy
              \/ m.kind \in {Error, BuildComplete} /\ busy' = FALSE
           /\ UNCHANGED toServer
  <2>1. /\ AllAnswered(toPackage') /\ TurnsLast(toPackage')
        /\ NoTurns(toPackage) => NoTurns(toPackage')
        /\ \A i \in 1 .. Len(toPackage') :
              i + 1 \in 1 .. Len(toPackage) /\ toPackage'[i] = toPackage[i + 1]
        /\ m.kind \in Turns => toPackage' = << >> /\ toServer = << >> /\ ~running /\ busy
    BY <1>2, Received
  <2>2. UnderWay'
    BY <1>5, <2>1 DEF Talk, UnderWay, Carries
  <2>3. LoggedIn'
    BY <1>1, <1>5, <2>1 DEF Talk, LoggedIn, serverVars
  <2>4. OneTurn'
    <3>1. CASE m.kind \in {Message, BuildOutput} /\ busy' = busy
      BY <1>1, <1>5, <2>1, <3>1 DEF Talk, OneTurn, serverVars
    <3>2. CASE m.kind \in {Error, BuildComplete} /\ busy' = FALSE
      <4>1. toPackage' = << >> /\ toServer = << >> /\ ~running
        BY <2>1, <3>2, KindsDiffer
      <4>2. NoTurns(<< >>) /\ TurnsLast(<< >>)
        BY IsSeqEmpty DEF NoTurns, TurnsLast
      <4> QED
        BY <1>1, <1>5, <3>2, <4>1, <4>2 DEF Talk, OneTurn, serverVars, NoTurns, TurnsLast
    <3> QED
      BY <1>5, <3>1, <3>2
  <2> QED
    BY <2>2, <2>3, <2>4 DEF Talk
<1> QED
  BY <1>1, <1>3, <1>4, <1>5 DEF packageVars

LEMMA NoAcks ==
    ASSUME NEW s, IsSeq(s), NoTurns(s), NEW a, a.kind # Acknowledge, NEW w, w = s \o <<Answer(a)>>
    PROVE  \A i \in 1 .. Len(w) : w[i].sent.kind # Acknowledge
<1> DEFINE t == <<Answer(a)>>
<1>1. IsSeq(t) /\ Len(t) = 1 /\ t[1] = Answer(a)
  <2>1. t \in Seq({Answer(a)})
    OBVIOUS
  <2> QED
    BY <2>1 DEF IsSeq
<1> HIDE DEF t
<1>2. Catted(w, s, t)
  BY <1>1, IsSeqCat DEF t
<1>3. /\ Len(s) \in Nat /\ Len(w) = Len(s) + 1
      /\ \A i \in 1 .. Len(s) : w[i] = s[i]
      /\ w[Len(s) + 1] = Answer(a)
  BY <1>1, <1>2 DEF Catted
<1>4. \A i \in 1 .. Len(w) : i \in 1 .. Len(s) \/ i = Len(s) + 1
  BY <1>3
<1>5. Answer(a).sent.kind = a.kind
  BY DEF Answer
<1> QED
  BY <1>3, <1>4, <1>5, KindsDiffer DEF NoTurns

\* What the server has when it handles a request.
LEMMA Dispatched ==
    ASSUME Talk, Dispatch, NEW m, m = CsDecode(Body(Head(toServer).data))
    PROVE  \E w : /\ Carries(w) /\ Heard(w.sent, m) /\ Modest(Len(PyPayload(w.sent)))
                  /\ toServer' = << >> /\ UNCHANGED packageVars
                  /\ AllAnswered(toPackage) /\ NoTurns(toPackage) /\ ~running /\ busy
                  /\ m.kind \in PackageKinds
                  /\ (m.kind = Introduction <=> user = NoUser)
<1>1. toServer # << >> /\ toServer' = Tail(toServer) /\ UNCHANGED packageVars
  BY DEF Dispatch
<1>2. PICK w : toServer = <<w>> /\ Requested(w)
  BY <1>1 DEF Talk, UnderWay, Carries
<1>3. Head(toServer) = w /\ toServer' = << >>
  BY <1>1, <1>2, OneElement
<1>4. Heard(w.sent, m)
  BY <1>2, <1>3, RequestRestored
<1>5. Modest(Len(PyPayload(w.sent))) /\ w.sent.kind \in PackageKinds
  BY <1>2 DEF Requested
<1>6. m.kind = w.sent.kind
  BY <1>4 DEF Heard
<1>7. w.sent.kind = Introduction <=> user = NoUser
  BY <1>2 DEF Talk, LoggedIn
<1>8. AllAnswered(toPackage) /\ NoTurns(toPackage) /\ ~running /\ busy
  BY <1>1 DEF Talk, UnderWay, OneTurn
<1> QED
  BY <1>1, <1>2, <1>3, <1>4, <1>5, <1>6, <1>7, <1>8 DEF Carries

LEMMA TalkAnswers ==
    ASSUME Talk, busy, UNCHANGED packageVars, toServer' = << >>, ~running,
           AllAnswered(toPackage'), TurnsLast(toPackage'),
           UNCHANGED running \/ (running' = TRUE /\ NoTurns(toPackage')),
           user' \in Users \cup {NoUser},
           \/ user' # NoUser
           \/ /\ current_build_folders' = Nowhere
              /\ \A i \in 1 .. Len(toPackage') : toPackage'[i].sent.kind # Acknowledge
    PROVE  Talk'
<1>1. UnderWay'
  BY DEF UnderWay
<1>2. OneTurn'
  <2>1. running = FALSE /\ busy' = TRUE
    BY DEF Talk, OneTurn, packageVars
  <2>2. running' = FALSE \/ (running' = TRUE /\ NoTurns(toPackage'))
    BY <2>1
  <2> QED
    BY <2>1, <2>2 DEF OneTurn
<1>3. LoggedIn'
  BY OneElement DEF LoggedIn
<1> QED
  BY <1>1, <1>2, <1>3 DEF Talk

LEMMA IntroductionHeard ==
    ASSUME NEW sent, NEW m, Heard(sent, m), m.kind = Introduction
    PROVE  m.values[2] \in Text(64) /\ m.values[3] \in Text(64) /\ m.values[5] \in Text(8)
<1> DEFINE fields == <<U(1), Str(64), Str(64), Str(64), Str(8)>>
<1>1. Registry[m.kind].fields = fields
  BY Layouts DEF IntroductionMessage, Layout
<1>2. \A i \in 1 .. Len(fields) : fields[i].form = "text" => m.values[i] \in Text(fields[i].width)
  BY <1>1 DEF Heard
<1>3. /\ Len(fields) = 5 /\ fields[2] = Str(64) /\ fields[3] = Str(64) /\ fields[5] = Str(8)
  OBVIOUS
<1>4. \A n : Str(n).form = "text" /\ Str(n).width = n
  BY DEF Str
<1> HIDE DEF fields
<1>5. /\ 2 \in 1 .. Len(fields) /\ 3 \in 1 .. Len(fields) /\ 5 \in 1 .. Len(fields)
  BY <1>3
<1> QED
  BY <1>2, <1>3, <1>4, <1>5

LEMMA FileHeard ==
    ASSUME NEW sent, NEW m, Heard(sent, m), m.kind = FileContent
    PROVE  /\ m.values[1] \in Text(256) /\ m.values[2] \in Text(256)
           /\ m.payload \in Text(Len(PyPayload(sent)))
<1> DEFINE fields == <<Str(256), Str(256)>>
<1>1. Registry[m.kind].fields = fields /\ Registry[m.kind].payload = "content"
  BY Layouts DEF FileContentMessage, Layout
<1>2. \A i \in 1 .. Len(fields) : fields[i].form = "text" => m.values[i] \in Text(fields[i].width)
  BY <1>1 DEF Heard
<1>3. /\ Len(fields) = 2 /\ fields[1] = Str(256) /\ fields[2] = Str(256)
  OBVIOUS
<1>4. \A n : Str(n).form = "text" /\ Str(n).width = n
  BY DEF Str
<1> HIDE DEF fields
<1>5. 1 \in 1 .. Len(fields) /\ 2 \in 1 .. Len(fields)
  BY <1>3
<1>6. m.payload \in Text(Len(PyPayload(sent)))
  BY <1>1 DEF Heard, CsLoaded
<1> QED
  BY <1>2, <1>3, <1>4, <1>5, <1>6

LEMMA NamesHeard ==
    ASSUME NEW sent, NEW m, Heard(sent, m), m.kind = SetBuild
    PROVE  Head(m.payload) \in Text(Len(PyPayload(sent)))
<1>1. Registry[m.kind].payload = "names"
  BY Layouts DEF SetBuildMessage, Layout
<1> DEFINE T == Text(Len(PyPayload(sent)))
<1>2. m.payload \in Seq(T) /\ Len(m.payload) \in Nat \ {0}
  BY <1>1 DEF Heard, CsLoaded
<1> HIDE DEF T
<1>3. Head(m.payload) \in T
  BY <1>2
<1> QED
  BY <1>3 DEF T

LEMMA CommandHeard ==
    ASSUME NEW sent, NEW m, Heard(sent, m), m.kind = ExecuteBuild
    PROVE  m.payload \in Text(Len(PyPayload(sent)))
<1>1. Registry[m.kind].payload = "text"
  BY Layouts DEF ExecuteBuildMessage, Layout
<1> QED
  BY <1>1 DEF Heard, CsLoaded

LEMMA Texts ==
    /\ Modest(64) /\ Modest(72) /\ Modest(256)
    /\ \A s \in Text(64), t \in Text(8) : s \o t \in Text(72)
<1>1. 64 \in 0 .. 600 /\ 72 \in 0 .. 600 /\ 256 \in 0 .. 600
  OBVIOUS
<1>2. ASSUME NEW s \in Text(64), NEW t \in Text(8) PROVE s \o t \in Text(72)
  <2>1. s \in Seq(Char) /\ t \in Seq(Char) /\ Len(s) <= 64 /\ Len(t) <= 8
    BY DEF Text
  <2>2. Len(s) \in Nat /\ Len(t) \in Nat
    BY <2>1
  <2>3. s \o t \in Seq(Char) /\ Len(s \o t) = Len(s) + Len(t)
    BY <2>1, CatFacts
  <2>4. Len(s) + Len(t) <= 72
    BY <2>1, <2>2
  <2> QED
    BY <2>3, <2>4 DEF Text
<1> QED
  BY <1>1, <1>2, Sizes

LEMMA TalkIntroduction ==
    ASSUME Talk, Dispatch, NEW m, m = CsDecode(Body(Head(toServer).data)), HandleIntroduction(m)
    PROVE  Talk'
<1>1. m.kind = Introduction /\ UNCHANGED <<current_build_folders, disk, running>>
  BY DEF HandleIntroduction
<1>2. PICK w : /\ Heard(w.sent, m) /\ toServer' = << >> /\ UNCHANGED packageVars
               /\ AllAnswered(toPackage) /\ NoTurns(toPackage) /\ ~running /\ busy
               /\ (m.kind = Introduction <=> user = NoUser)
  BY Dispatched
<1>3. m.values[2] \in Text(64) /\ m.values[5] \in Text(8)
  BY <1>1, <1>2, IntroductionHeard
<1>4. user = NoUser /\ current_build_folders = Nowhere
  BY <1>1, <1>2 DEF Talk, LoggedIn
<1> DEFINE known == Login(m.values[2], m.values[3])
           e == Msg(Error, <<1001>>, m.values[2])
           h == Msg(Message, <<>>, m.values[2] \o m.values[5])
<1>5. CASE known = {}
  <2>1. Reply(<<e>>) /\ UNCHANGED user
    BY <1>5 DEF HandleIntroduction
  <2>2. Answered(Answer(e)) /\ e.kind = Error
    BY <1>3, Texts, ErrorAnswered, MsgHas DEF Answer
  <2> HIDE DEF e
  <2>3. toPackage' = toPackage \o <<Answer(e)>>
    BY <2>1, ReplyOne
  <2>4. AllAnswered(toPackage') /\ TurnsLast(toPackage')
    BY <1>2, <2>2, <2>3, RepliedOne
  <2>5. \A i \in 1 .. Len(toPackage') : toPackage'[i].sent.kind # Acknowledge
    BY <1>2, <2>2, <2>3, NoAcks, KindsDiffer DEF AllAnswered
  <2> QED
    BY <1>1, <1>2, <1>4, <2>1, <2>4, <2>5, TalkAnswers
<1>6. CASE known # {}
  <2>1. user' \in known /\ Reply(<<h, Ack(Introduction)>>)
    BY <1>6 DEF HandleIntroduction
  <2>2. user' \in Users /\ user' # NoUser
    BY <2>1, TransferAssumption DEF Login
  <2>3. Answered(Answer(h)) /\ h.kind = Message /\ h.kind \notin Turns
    BY <1>3, Texts, MessageAnswered, MsgHas, KindsDiffer DEF Answer
  <2>4. Answered(Answer(Ack(Introduction)))
    BY AckAnswered DEF Answer
  <2> HIDE DEF h
  <2>5. toPackage' = toPackage \o <<Answer(h), Answer(Ack(Introduction))>>
    BY <2>1, ReplyTwo
  <2>6. AllAnswered(toPackage') /\ TurnsLast(toPackage')
    BY <1>2, <2>3, <2>4, <2>5, RepliedTwo
  <2> QED
    BY <1>1, <1>2, <2>2, <2>6, TalkAnswers
<1> QED
  BY <1>5, <1>6

LEMMA TalkSetBuild ==
    ASSUME Talk, Dispatch, NEW m, m = CsDecode(Body(Head(toServer).data)), HandleSetBuild(m)
    PROVE  Talk'
<1> DEFINE id == Head(m.payload)
           h == Msg(Message, <<>>, id)
<1>1. m.kind = SetBuild /\ Reply(<<h, Ack(SetBuild)>>) /\ UNCHANGED <<user, disk, running>>
  BY DEF HandleSetBuild
<1>2. PICK w : /\ Heard(w.sent, m) /\ toServer' = << >> /\ UNCHANGED packageVars
               /\ AllAnswered(toPackage) /\ NoTurns(toPackage) /\ ~running /\ busy
               /\ (m.kind = Introduction <=> user = NoUser)
               /\ Modest(Len(PyPayload(w.sent)))
  BY Dispatched
<1>3. user # NoUser /\ user \in Users \cup {NoUser}
  BY <1>1, <1>2, KindsDiffer DEF Talk, LoggedIn
<1>4. id \in Text(Len(PyPayload(w.sent)))
  BY <1>1, <1>2, NamesHeard
<1>5. Answered(Answer(h)) /\ h.kind = Message /\ h.kind \notin Turns
  BY <1>2, <1>4, MessageAnswered, MsgHas, KindsDiffer DEF Answer
<1>6. Answered(Answer(Ack(SetBuild)))
  BY AckAnswered DEF Answer
<1> HIDE DEF h
<1>7. toPackage' = toPackage \o <<Answer(h), Answer(Ack(SetBuild))>>
  BY <1>1, ReplyTwo
<1>8. AllAnswered(toPackage') /\ TurnsLast(toPackage')
  BY <1>2, <1>5, <1>6, <1>7, RepliedTwo
<1> QED
  BY <1>1, <1>2, <1>3, <1>8, TalkAnswers

LEMMA TalkFileContents ==
    ASSUME Talk, Dispatch, NEW m, m = CsDecode(Body(Head(toServer).data)), HandleFileContents(m)
    PROVE  Talk'
<1> DEFINE root == m.values[1]
           e == Msg(Error, <<2000>>, root)
<1>1. m.kind = FileContent /\ UNCHANGED running
  BY DEF HandleFileContents
<1>2. PICK w : /\ Heard(w.sent, m) /\ toServer' = << >> /\ UNCHANGED packageVars
               /\ AllAnswered(toPackage) /\ NoTurns(toPackage) /\ ~running /\ busy
               /\ (m.kind = Introduction <=> user = NoUser)
  BY Dispatched
<1>3. user # NoUser /\ user \in Users \cup {NoUser}
  BY <1>1, <1>2, KindsDiffer DEF Talk, LoggedIn
<1>4. CASE root \in DOMAIN current_build_folders
  <2>1. Reply(<<Ack(FileContent)>>) /\ UNCHANGED <<user, current_build_folders>>
    BY <1>4 DEF HandleFileContents
  <2>2. Answered(Answer(Ack(FileContent)))
    BY AckAnswered DEF Answer
  <2>3. toPackage' = toPackage \o <<Answer(Ack(FileContent))>>
    BY <2>1, ReplyOne
  <2>4. AllAnswered(toPackage') /\ TurnsLast(toPackage')
    BY <1>2, <2>2, <2>3, RepliedOne
  <2> QED
    BY <1>1, <1>2, <1>3, <2>1, <2>4, TalkAnswers
<1>5. CASE root \notin DOMAIN current_build_folders
  <2>1. Reply(<<e>>) /\ user' = NoUser /\ current_build_folders' = Nowhere
    BY <1>5 DEF HandleFileContents
  <2>2. root \in Text(256)
    BY <1>1, <1>2, FileHeard
  <2>3. Answered(Answer(e)) /\ e.kind = Error
    BY <2>2, Texts, ErrorAnswered, MsgHas DEF Answer
  <2> HIDE DEF e
  <2>4. toPackage' = toPackage \o <<Answer(e)>>
    BY <2>1, ReplyOne
  <2>5. AllAnswered(toPackage') /\ TurnsLast(toPackage')
    BY <1>2, <2>3, <2>4, RepliedOne
  <2>6. \A i \in 1 .. Len(toPackage') : toPackage'[i].sent.kind # Acknowledge
    BY <1>2, <2>3, <2>4, NoAcks, KindsDiffer DEF AllAnswered
  <2> QED
    BY <1>1, <1>2, <2>1, <2>5, <2>6, TalkAnswers
<1> QED
  BY <1>4, <1>5

LEMMA TalkExecuteBuild ==
    ASSUME Talk, Dispatch, NEW m, m = CsDecode(Body(Head(toServer).data)), HandleExecuteBuild(m)
    PROVE  Talk'
<1> DEFINE h == Msg(Message, <<>>, m.payload)
<1>1. /\ m.kind = ExecuteBuild /\ Reply(<<h>>) /\ running' = TRUE
      /\ UNCHANGED <<user, current_build_folders, disk>>
  BY DEF HandleExecuteBuild
<1>2. PICK w : /\ Heard(w.sent, m) /\ toServer' = << >> /\ UNCHANGED packageVars
               /\ AllAnswered(toPackage) /\ NoTurns(toPackage) /\ ~running /\ busy
               /\ (m.kind = Introduction <=> user = NoUser)
               /\ Modest(Len(PyPayload(w.sent)))
  BY Dispatched
<1>3. user # NoUser /\ user \in Users \cup {NoUser}
  BY <1>1, <1>2, KindsDiffer DEF Talk, LoggedIn
<1>4. m.payload \in Text(Len(PyPayload(w.sent)))
  BY <1>1, <1>2, CommandHeard
<1>5. Answered(Answer(h)) /\ h.kind = Message /\ h.kind \notin Turns
  BY <1>2, <1>4, MessageAnswered, MsgHas, KindsDiffer DEF Answer
<1> HIDE DEF h
<1>6. toPackage' = toPackage \o <<Answer(h)>>
  BY <1>1, ReplyOne
<1>7. AllAnswered(toPackage') /\ TurnsLast(toPackage') /\ NoTurns(toPackage')
  BY <1>2, <1>5, <1>6, RepliedOne
<1> QED
  BY <1>1, <1>2, <1>3, <1>7, TalkAnswers

LEMMA TalkOutput ==
    ASSUME Talk, NEW stdout \in BOOLEAN, ProcessOutput(stdout)
    PROVE  Talk'
<1> DEFINE h == Msg(BuildOutput, <<stdout>>, Output)
<1>1. /\ running /\ toPackage = << >> /\ Reply(<<h>>)
      /\ UNCHANGED <<toServer, serverVars, packageVars>>
  BY DEF ProcessOutput
<1>2. Answered(Answer(h)) /\ h.kind = BuildOutput /\ h.kind \notin Turns
  BY OutputAnswered, MsgHas, KindsDiffer DEF Answer
<1> HIDE DEF h
<1>3. toPackage' = toPackage \o <<Answer(h)>>
  BY <1>1, ReplyOne
<1>4. AllAnswered(toPackage) /\ NoTurns(toPackage) /\ toServer = << >> /\ busy
  BY <1>1 DEF Talk, UnderWay, OneTurn
<1>5. AllAnswered(toPackage') /\ TurnsLast(toPackage') /\ NoTurns(toPackage')
  BY <1>2, <1>3, <1>4, RepliedOne
<1>6. \A i \in 1 .. Len(toPackage') : toPackage'[i].sent.kind # Acknowledge
  BY <1>5, KindsDiffer DEF NoTurns
<1>7. UnderWay'
  BY <1>1, <1>4, <1>5 DEF UnderWay
<1>8. OneTurn'
  BY <1>1, <1>4, <1>5 DEF Talk, OneTurn, serverVars, packageVars
<1>9. LoggedIn'
  BY <1>1, <1>4, <1>6, OneElement DEF Talk, LoggedIn, serverVars
<1> QED
  BY <1>7, <1>8, <1>9 DEF Talk

LEMMA TalkExited ==
    ASSUME Talk, NEW code \in ExitCodes, ProcessExited(code)
    PROVE  Talk'
<1> DEFINE h == Msg(BuildComplete, <<code % 65536>>, <<>>)
<1>1. /\ running /\ running' = FALSE /\ Reply(<<h>>)
      /\ UNCHANGED <<toServer, user, current_build_folders, disk, packageVars>>
  BY DEF ProcessExited
<1>2. Answered(Answer(h)) /\ h.kind = BuildComplete
  <2>1. code \in Int
    BY TransferAssumption
  <2> QED
    BY <2>1, CompleteAnswered, MsgHas DEF Answer
<1> HIDE DEF h
<1>3. toPackage' = toPackage \o <<Answer(h)>>
  BY <1>1, ReplyOne
<1>4. AllAnswered(toPackage) /\ NoTurns(toPackage) /\ toServer = << >> /\ busy
  BY <1>1 DEF Talk, UnderWay, OneTurn
<1>5. AllAnswered(toPackage') /\ TurnsLast(toPackage')
  BY <1>2, <1>3, <1>4, RepliedOne
<1>6. \A i \in 1 .. Len(toPackage') : toPackage'[i].sent.kind # Acknowledge
  BY <1>2, <1>3, <1>4, NoAcks, KindsDiffer DEF AllAnswered
<1>7. UnderWay'
  BY <1>1, <1>4, <1>5 DEF UnderWay
<1>8. OneTurn'
  BY <1>1, <1>4, <1>5 DEF Talk, OneTurn, packageVars
<1>9. LoggedIn'
  BY <1>1, <1>4, <1>6, OneElement DEF Talk, LoggedIn
<1> QED
  BY <1>7, <1>8, <1>9 DEF Talk

-----------------------------------------------------------------------------
(***************************************************************************)
(* What the server makes of the folders and the files of a project.        *)
(***************************************************************************)
LEMMA ProjectIs ==
    ASSUME NEW p \in Projects
    PROVE  /\ Apart(p.folders) /\ IsFiniteSet(p.folders) /\ p.folders \subseteq Seq(Char)
           /\ \A f \in p.folders : NUL \notin ToSet(f)
           /\ \A f \in p.files : f.root \in p.folders /\ f.name \in Seq(Char)
           /\ \A f, g \in p.files : f.root = g.root /\ f.name = g.name => f = g
BY ProjectsAssumption DEF Apart

LEMMA IdWithoutNUL ==
    ASSUME NEW p \in Projects, NEW folders \in SetToSeqs(p.folders)
    PROVE  BuildId(folders) \in Seq(Char) /\ NUL \notin ToSet(BuildId(folders))
<1> DEFINE S == p.folders
           X == Seq(Char \ {NUL})
           s == SortedFolders(folders)
<1>1. Apart(S) /\ IsFiniteSet(S) /\ S \subseteq Seq(Char) /\ \A f \in S : NUL \notin ToSet(f)
  BY ProjectIs
<1>2. ASSUME NEW f \in S PROVE f \in X
  <2>1. f \in Seq(Char) /\ NUL \notin ToSet(f)
    BY <1>1
  <2>2. Len(f) \in Nat /\ f = [i \in 1 .. Len(f) |-> f[i]] /\ \A i \in 1 .. Len(f) : f[i] \in Char
    BY <2>1
  <2>3. \A i \in 1 .. Len(f) : f[i] # NUL
    BY <2>1, <2>2 DEF ToSet
  <2> QED
    BY <2>2, <2>3
<1>3. ToSet(folders) = S
  BY <1>1, Enumerated
<1>4. s \in SetToSeqs(S)
  <2>1. \E t \in SetToSeqs(S) : Ascending(t)
    BY <1>1, SortedExists
  <2> QED
    BY <1>3, <2>1 DEF SortedFolders
<1>5. s \in Seq(S)
  BY <1>1, <1>4, Enumerated
<1>6. BuildId(folders) = Concat(s)
  BY DEF BuildId
<1> HIDE DEF s
<1>7. s \in Seq(X)
  <2> HIDE DEF X, S
  <2> QED
    BY <1>2, <1>5
<1>8. Concat(s) \in Seq(Char \ {NUL})
  BY <1>7, ConcatType
<1>9. ASSUME NEW t \in Seq(Char \ {NUL}) PROVE NUL \notin ToSet(t)
  BY DEF ToSet
<1> QED
  BY <1>1, <1>6, <1>8, <1>9, BuildIdIs

\* The server reads the names of a build as they are.
LEMMA NamesDecoded ==
    ASSUME NEW p \in Projects, NEW folders \in SetToSeqs(p.folders), NEW w, Requested(w),
           w.sent = Msg(SetBuild, <<>>, <<BuildId(folders)>> \o folders),
           NEW m, m = CsDecode(Body(w.data))
    PROVE  Head(m.payload) = BuildId(folders) /\ ToSet(Tail(m.payload)) = p.folders
<1> DEFINE id == BuildId(folders)
           names == <<id>> \o folders
           S == p.folders \cup {id}
<1>1. id \in Seq(Char) /\ NUL \notin ToSet(id)
  BY IdWithoutNUL
<1>2. IsFiniteSet(p.folders) /\ \A f \in p.folders : NUL \notin ToSet(f)
  BY ProjectIs
<1>3. folders \in Seq(p.folders) /\ ToSet(folders) = p.folders
  BY <1>2, Enumerated
<1>4. Typed(w.sent, Seq(Byte)) /\ Small(Len(PyPayload(w.sent))) /\ w.data = PyEncode(w.sent)
  <2>1. Typed(w.sent, Seq(Byte)) /\ Modest(Len(PyPayload(w.sent))) /\ w.data = PyEncode(w.sent)
    BY DEF Requested
  <2> QED
    BY <2>1, Sizes
<1>5. w.sent.kind = SetBuild /\ w.sent.values = << >> /\ w.sent.payload = names
  <2>1. w.sent = Msg(SetBuild, << >>, names)
    OBVIOUS
  <2> HIDE DEF names
  <2> QED
    BY <2>1, MsgHas
<1>6. <<id>> \in Seq(S) /\ folders \in Seq(S)
  BY <1>3
<1>7. names \in Seq(S) /\ Head(names) = id /\ Tail(names) = folders /\ ToSet(names) \subseteq S
  <2> HIDE DEF id
  <2>1. names \in Seq(S) /\ names[1] = id /\ Len(names) = 1 + Len(folders) /\ Len(folders) \in Nat
    BY <1>6
  <2>2. Head(names) = id
    BY <2>1
  <2>3. Tail(names) = folders
    BY <1>6
  <2>4. ToSet(names) \subseteq S
    <3> HIDE DEF names
    <3> QED
      BY <2>1 DEF ToSet
  <2> QED
    BY <2>1, <2>2, <2>3, <2>4
<1> HIDE DEF names, id
<1>8. Fits(w.sent)
  <2>1. \A n \in ToSet(names) : NUL \notin ToSet(n)
    BY <1>1, <1>2, <1>7
  <2>2. Registry[SetBuild].payload = "names"
    BY Layouts DEF SetBuildMessage, Layout
  <2>3. DOMAIN w.sent.values = {}
    BY <1>5
  <2> QED
    BY <1>5, <2>1, <2>2, <2>3 DEF Fits
<1>9. CsDecode(Body(w.data)) = w.sent
  <2>1. Understood(w.sent)
    BY <1>4, <1>8, FittingAgrees
  <2>2. AsText(w.sent) = w.sent
    BY <1>5, KindsDiffer DEF AsText
  <2> QED
    BY <1>4, <2>1, <2>2 DEF Understood
<1> QED
  BY <1>3, <1>5, <1>7, <1>9 DEF id

\* The server reads the text of a file, and its names if they fit.
LEMMA FileDecoded ==
    ASSUME NEW p \in Projects, NEW f \in p.files, NEW w, Requested(w),
           w.sent = Msg(FileContent, <<f.root, f.name>>, f.content),
           NEW m, m = CsDecode(Body(w.data))
    PROVE  /\ m.payload = CsText(f.content) /\ f.content \in Seq(Byte)
           /\ FieldFits(Str(256), f.root) /\ FieldFits(Str(256), f.name) =>
                 m.values[1] = f.root /\ m.values[2] = f.name
<1> DEFINE s == w.sent
           k == FileContent
           pieces == PyPieces(s)
           data == PyPayload(s)
           fields == <<Str(256), Str(256)>>
           d == w.data
<1>1. Typed(s, Seq(Byte)) /\ Small(Len(data)) /\ d = PyEncode(s)
  <2>1. Typed(s, Seq(Byte)) /\ Modest(Len(data)) /\ d = PyEncode(s)
    BY DEF Requested
  <2> HIDE DEF data, s, d
  <2> QED
    BY <2>1, Sizes
<1>2. s.kind = k /\ s.values = <<f.root, f.name>> /\ s.payload = f.content
  BY MsgHas
<1>3. Registry[k].fields = fields /\ Registry[k].payload = "content"
  BY Layouts DEF FileContentMessage, Layout
<1>4. /\ d = Wire(k, pieces) /\ Told(k, pieces, data)
      /\ \A i \in 1 .. 2 : pieces[i] = PyField(fields[i], s.values[i])
  <2>1. Len(Registry[k].fields) = 2
    BY <1>3
  <2> QED
    BY <1>1, <1>2, <1>3, <2>1, PyEncodeIs
<1>5. data = f.content
  BY <1>2, <1>3, PayloadCases
<1>6. f.content \in Seq(Byte) /\ f.root \in Seq(Char) /\ f.name \in Seq(Char)
  BY ProjectsAssumption
<1> HIDE DEF s, pieces, data, d
<1>7. Body(d) = Big(k, 2) \o Concat(pieces)
  BY <1>1, <1>4, WireIs
<1>8. m = CsRead(k, pieces, data)
  BY <1>4, <1>7, CsReads DEF d
<1> DEFINE vals == [i \in 1 .. Len(Registry[k].fields) |-> CsValue(k, i, pieces[i])]
<1>9. m.values = vals /\ m.payload = PayloadValue(Registry[k].payload, CsText(data))
  BY <1>8, MsgHas DEF CsRead
<1>10. m.payload = CsText(f.content)
  BY <1>3, <1>5, <1>9, ValueOfPayload
<1>11. ASSUME NEW i \in 1 .. 2, NEW t \in Seq(Char), s.values[i] = t, FieldFits(Str(256), t)
       PROVE  m.values[i] = t
  <2>1. fields[i] = Str(256) /\ Len(fields) = 2
    OBVIOUS
  <2>2. FieldKnown(Str(256))
    BY DEF FieldKnown, Forms, Str
  <2>3. FieldTyped(Str(256), t) /\ Whole(Str(256), t)
    BY <1>11, TextField1 DEF FieldFits, Whole, Str
  <2>4. FieldValue(Str(256).form, pieces[i], CsText(pieces[i])) = t
    <3>1. pieces[i] = PyField(Str(256), t)
      BY <1>4, <1>11, <2>1
    <3> QED
      BY <2>2, <2>3, <3>1, FieldReads
  <2>5. m.values[i] = CsValue(k, i, pieces[i])
    BY <1>3, <1>9, <2>1
  <2> QED
    BY <1>3, <2>1, <2>4, <2>5 DEF CsValue
<1>12. s.values[1] = f.root /\ s.values[2] = f.name
  BY <1>2
<1> QED
  BY <1>6, <1>10, <1>11, <1>12

-----------------------------------------------------------------------------
(***************************************************************************)
(* While a build is set up, what is not under way and not left to send is  *)
(* in its place, and so is every file of a build that was sent.            *)
(***************************************************************************)
UserNames == {u.username : u \in Users \cup {NoUser}}

BuildRecords ==
    [project : Projects, id : Seq(Char), user : UserNames, sent : BOOLEAN]

Recorded ==
    /\ \A f \in DOMAIN current_build_folders : current_build_folders[f][1] = user.username
    /\ \A x \in DOMAIN disk : disk[x] \in Seq(Byte)
    /\ proj_files \subseteq UNION {p.files : p \in Projects}
    /\ builds \in Seq(BuildRecords)
    /\ \A i \in 1 .. Len(builds) :
          \E folders \in SetToSeqs(builds[i].project.folders) : builds[i].id = BuildId(folders)

LastBuild  == builds[Len(builds)]
Folders(b) == [f \in b.project.folders |-> LocalFolder(b.user, b.id, f)]
Spot(b, f) == <<LocalFolder(b.user, b.id, f.root), f.name>>

Separable(b) ==
    /\ \A f \in b.project.files : FieldFits(Str(256), f.root) /\ FieldFits(Str(256), f.name)
    /\ \A r, s \in b.project.folders : Basename(r) = Basename(s) => r = s

Holding(d, b, f) == Spot(b, f) \in DOMAIN d /\ d[Spot(b, f)] = Written(CsText(f.content))
HoldsBut(d, b, X) == Separable(b) => \A f \in b.project.files \ X : Holding(d, b, f)

Ready(b) ==
    /\ Len(builds) > 0 /\ ~b.sent /\ b.user = user.username /\ proj_files \subseteq b.project.files

Naming(m, b) ==
    /\ proj_files = b.project.files
    /\ \E folders \in SetToSeqs(b.project.folders) :
          b.id = BuildId(folders) /\ m = Msg(SetBuild, <<>>, <<BuildId(folders)>> \o folders)

Sending(m, b) ==
    \E f \in b.project.files : /\ m = Msg(FileContent, <<f.root, f.name>>, f.content)
                               /\ HoldsBut(disk, b, proj_files \cup {f})

Confirms(m) == m.kind = Acknowledge /\ m.values # <<Introduction, TRUE>>

InOrder ==
    /\ \A w : toServer = <<w>> /\ w.sent.kind = SetBuild => Ready(LastBuild) /\ Naming(w.sent, LastBuild)
    /\ \A w : toServer = <<w>> /\ w.sent.kind = FileContent =>
          /\ Ready(LastBuild) /\ current_build_folders = Folders(LastBuild)
          /\ Sending(w.sent, LastBuild)
    /\ \A i \in 1 .. Len(toPackage) : Confirms(toPackage[i].sent) =>
          /\ Ready(LastBuild) /\ current_build_folders = Folders(LastBuild)
          /\ HoldsBut(disk, LastBuild, proj_files)

Latest(bs, n) == \A i \in n + 1 .. Len(bs) : bs[i].id # bs[n].id

AllHeld(d, bs) ==
    \A n \in 1 .. Len(bs) :
        bs[n].sent /\ Separable(bs[n]) /\ Latest(bs, n) => HoldsBut(d, bs[n], {})

Finished == AllHeld(disk, builds)

Work == Recorded /\ InOrder /\ Finished

LEMMA WorkFrame ==
    ASSUME Work, UNCHANGED <<user, current_build_folders, disk, proj_files, builds>>,
           \A w : toServer' = <<w>> /\ w.sent.kind \in {SetBuild, FileContent} => toServer = <<w>>,
           \A i \in 1 .. Len(toPackage') : Confirms(toPackage'[i].sent) =>
               \E j \in 1 .. Len(toPackage) : toPackage[j].sent = toPackage'[i].sent
    PROVE  Work'
<1>1. Recorded'
  BY DEF Work, Recorded
<1>2. Finished'
  BY DEF Work, Finished
<1>3. LastBuild' = LastBuild
  BY DEF LastBuild
<1>4. InOrder'
  <2>1. Ready(LastBuild)' <=> Ready(LastBuild)
    BY <1>3 DEF Ready
  <2>2. ASSUME NEW w, toServer' = <<w>>, w.sent.kind = SetBuild
        PROVE  Ready(LastBuild)' /\ Naming(w.sent, LastBuild)'
    <3>1. toServer = <<w>>
      BY <2>2
    <3>2. Ready(LastBuild) /\ Naming(w.sent, LastBuild)
      BY <2>2, <3>1 DEF Work, InOrder
    <3> QED
      BY <1>3, <2>1, <3>2 DEF Naming
  <2>3. ASSUME NEW w, toServer' = <<w>>, w.sent.kind = FileContent
        PROVE  /\ Ready(LastBuild)' /\ current_build_folders' = Folders(LastBuild)'
               /\ Sending(w.sent, LastBuild)'
    <3>1. toServer = <<w>>
      BY <2>3
    <3>2. /\ Ready(LastBuild) /\ current_build_folders = Folders(LastBuild)
          /\ Sending(w.sent, LastBuild)
      BY <2>3, <3>1 DEF Work, InOrder
    <3> QED
      BY <1>3, <2>1, <3>2 DEF Sending
  <2>4. ASSUME NEW i \in 1 .. Len(toPackage'), Confirms(toPackage'[i].sent)
        PROVE  /\ Ready(LastBuild)' /\ current_build_folders' = Folders(LastBuild)'
               /\ HoldsBut(disk, LastBuild, proj_files)'
    <3>1. PICK j \in 1 .. Len(toPackage) : Confirms(toPackage[j].sent)
      BY <2>4
    <3>2. /\ Ready(LastBuild) /\ current_build_folders = Folders(LastBuild)
          /\ HoldsBut(disk, LastBuild, proj_files)
      BY <3>1 DEF Work, InOrder
    <3> QED
      BY <1>3, <2>1, <3>2
  <2> QED
    BY <2>2, <2>3, <2>4 DEF InOrder
<1> QED
  BY <1>1, <1>2, <1>4 DEF Work

LEMMA LastOf ==
    ASSUME Recorded, Len(builds) > 0
    PROVE  /\ LastBuild \in BuildRecords /\ Len(builds) \in 1 .. Len(builds)
           /\ LastBuild.project \in Projects
           /\ \E folders \in SetToSeqs(LastBuild.project.folders) :
                  LastBuild.id = BuildId(folders)
<1>1. builds \in Seq(BuildRecords)
  BY DEF Recorded
<1>2. Len(builds) \in 1 .. Len(builds)
  BY <1>1
<1>3. LastBuild \in BuildRecords
  BY <1>1, <1>2 DEF LastBuild
<1>4. LastBuild.project \in Projects
  BY <1>3 DEF BuildRecords
<1> QED
  BY <1>2, <1>3, <1>4 DEF Recorded, LastBuild

LEMMA WorkConnects ==
    ASSUME Talk, Work, NEW login \in Logins, RunConnects(login)
    PROVE  Work'
<1> DEFINE m == Msg(Introduction,
                    <<1, login.username, login.password, Hostname, Platform>>, <<>>)
           w == [sent |-> m, data |-> PyEncode(m)]
<1>1. /\ ~busy /\ Request(m)
      /\ UNCHANGED <<toPackage, serverVars, proj_files, builds>>
  BY DEF RunConnects
<1>2. m.kind = Introduction
  BY MsgHas
<1> HIDE DEF m
<1>3. toServer = << >>
  BY <1>1 DEF Talk, OneTurn
<1>4. toServer' = <<w>> /\ w.sent = m
  BY <1>1, <1>3, Asks
<1> HIDE DEF w
<1>5. ASSUME NEW v, toServer' = <<v>> PROVE v.sent.kind \notin {SetBuild, FileContent}
  BY <1>2, <1>4, <1>5, OneElement, KindsDiffer
<1> QED
  BY <1>1, <1>5, WorkFrame DEF serverVars

LEMMA WorkSetsUp ==
    ASSUME Talk, Work, NEW p \in Projects, SetUp(p), toServer = << >>, UNCHANGED serverVars,
           \A i \in 1 .. Len(toPackage') : toPackage'[i].sent.kind # Acknowledge
    PROVE  Work'
<1>1. PICK folders, w :
          /\ folders \in SetToSeqs(p.folders)
          /\ toServer' = <<w>>
          /\ w.sent = Msg(SetBuild, <<>>, <<BuildId(folders)>> \o folders)
          /\ builds' = Append(builds, [project |-> p, id |-> BuildId(folders),
                                       user |-> user.username, sent |-> FALSE])
          /\ proj_files' = p.files
  BY SetsUp
<1> DEFINE b == [project |-> p, id |-> BuildId(folders),
                 user |-> user.username, sent |-> FALSE]
<1>2. b \in BuildRecords
  <2>1. BuildId(folders) \in Seq(Char)
    BY <1>1, IdWithoutNUL
  <2>2. user.username \in UserNames
    BY DEF Talk, LoggedIn, UserNames
  <2> QED
    BY <2>1, <2>2 DEF BuildRecords
<1>3. b.project = p /\ b.id = BuildId(folders) /\ b.user = user.username /\ b.sent = FALSE
  OBVIOUS
<1>4. builds' = Append(builds, b)
  BY <1>1
<1> HIDE DEF b
<1>5. builds \in Seq(BuildRecords)
  BY DEF Work, Recorded
<1>6. /\ builds' \in Seq(BuildRecords) /\ Len(builds') = Len(builds) + 1
      /\ Len(builds) \in Nat /\ builds'[Len(builds) + 1] = b
      /\ \A i \in 1 .. Len(builds) : builds'[i] = builds[i]
  BY <1>2, <1>4, <1>5
<1>7. \A i \in 1 .. Len(builds') : i \in 1 .. Len(builds) \/ i = Len(builds) + 1
  BY <1>6
<1>8. Recorded'
  <2>1. ASSUME NEW i \in 1 .. Len(builds')
        PROVE  \E names \in SetToSeqs(builds'[i].project.folders) : builds'[i].id = BuildId(names)
    <3>1. CASE i \in 1 .. Len(builds)
      BY <1>6, <3>1 DEF Work, Recorded
    <3>2. CASE i = Len(builds) + 1
      BY <1>1, <1>3, <1>6, <3>2
    <3> QED
      BY <1>7, <3>1, <3>2
  <2>2. proj_files' \subseteq UNION {q.files : q \in Projects}
    BY <1>1
  <2> QED
    BY <1>6, <2>1, <2>2 DEF Work, Recorded, serverVars
<1>9. LastBuild' = b /\ Len(builds') > 0
  BY <1>6 DEF LastBuild
<1>10. Ready(LastBuild)'
  BY <1>1, <1>3, <1>9 DEF Ready, serverVars
<1>11. Naming(w.sent, LastBuild)'
  BY <1>1, <1>3, <1>9 DEF Naming
<1>12. InOrder'
  <2>1. ASSUME NEW v, toServer' = <<v>> PROVE v = w /\ v.sent.kind = SetBuild
    BY <1>1, <2>1, OneElement, MsgHas
  <2> QED
    BY <1>10, <1>11, <2>1, KindsDiffer DEF InOrder, Confirms
<1>13. Finished'
  <2>1. ASSUME NEW n \in 1 .. Len(builds'), builds'[n].sent, Separable(builds'[n]),
               Latest(builds', n)
        PROVE  HoldsBut(disk', builds'[n], {})
    <3>1. n \in 1 .. Len(builds)
      BY <1>3, <1>6, <1>7, <2>1
    <3>2. Latest(builds, n)
      <4>1. \A i \in n + 1 .. Len(builds) : i \in n + 1 .. Len(builds') /\ i \in 1 .. Len(builds)
        BY <1>6, <3>1
      <4> QED
        BY <1>6, <2>1, <3>1, <4>1 DEF Latest
    <3>3. HoldsBut(disk, builds[n], {})
      BY <1>6, <2>1, <3>1, <3>2 DEF Work, Finished, AllHeld
    <3> QED
      BY <1>6, <3>1, <3>3 DEF serverVars
  <2> QED
    BY <2>1 DEF Finished, AllHeld
<1> QED
  BY <1>8, <1>12, <1>13 DEF Work

LEMMA WorkBuilds ==
    ASSUME Talk, Work, NEW p \in Projects, RunBuilds(p)
    PROVE  Work'
<1>1. ~busy /\ SetUp(p) /\ UNCHANGED <<toPackage, serverVars>>
  BY DEF RunBuilds
<1>2. toServer = << >> /\ NoTurns(toPackage)
  BY <1>1 DEF Talk, OneTurn
<1>3. \A i \in 1 .. Len(toPackage') : toPackage'[i].sent.kind # Acknowledge
  BY <1>1, <1>2, KindsDiffer DEF NoTurns
<1> QED
  BY <1>1, <1>2, <1>3, WorkSetsUp

\* A build is the same for its files when it was sent.
LEMMA SentBuild ==
    ASSUME NEW b \in BuildRecords, NEW c, c = [b EXCEPT !.sent = TRUE]
    PROVE  /\ c \in BuildRecords /\ c.project = b.project /\ c.id = b.id /\ c.user = b.user
           /\ Separable(c) = Separable(b)
           /\ \A d, X : HoldsBut(d, c, X) = HoldsBut(d, b, X)
<1>1. c \in BuildRecords /\ c.project = b.project /\ c.id = b.id /\ c.user = b.user
  BY DEF BuildRecords
<1>2. Separable(c) = Separable(b)
  BY <1>1 DEF Separable
<1>3. \A f : Spot(c, f) = Spot(b, f)
  BY <1>1 DEF Spot
<1>4. \A d, f : Holding(d, c, f) = Holding(d, b, f)
  BY <1>3 DEF Holding
<1> QED
  BY <1>1, <1>2, <1>4 DEF HoldsBut

LEMMA WorkSends ==
    ASSUME Work, toServer = << >>, SendNextFile, UNCHANGED serverVars, toPackage' = << >>,
           Ready(LastBuild), current_build_folders = Folders(LastBuild),
           HoldsBut(disk, LastBuild, proj_files)
    PROVE  Work'
<1>1. proj_files \subseteq UNION {p.files : p \in Projects} /\ builds \in Seq(BuildRecords)
  BY DEF Work, Recorded
<1>2. PICK w :
          /\ toServer' = <<w>>
          /\ \/ /\ proj_files = {} /\ w.sent.kind = ExecuteBuild /\ proj_files' = proj_files
                /\ builds' = [builds EXCEPT ![Len(builds)].sent = TRUE]
             \/ \E f \in proj_files :
                   /\ w.sent = Msg(FileContent, <<f.root, f.name>>, f.content)
                   /\ proj_files' = proj_files \ {f} /\ builds' = builds
  BY <1>1, SendsNext
<1>3. \A v : toServer' = <<v>> => v = w
  BY <1>2, OneElement
<1>4. Len(builds) > 0
  BY DEF Ready
<1>5. LastBuild \in BuildRecords /\ Len(builds) \in 1 .. Len(builds)
  BY <1>4, LastOf DEF Work
<1>6. \A i \in 1 .. Len(toPackage') : FALSE
  BY IsSeqEmpty
<1>7. CASE /\ proj_files = {} /\ w.sent.kind = ExecuteBuild /\ proj_files' = proj_files
           /\ builds' = [builds EXCEPT ![Len(builds)].sent = TRUE]
  <2> DEFINE l == Len(builds)
             c == [LastBuild EXCEPT !.sent = TRUE]
  <2>1. /\ c \in BuildRecords /\ c.project = LastBuild.project /\ c.id = LastBuild.id
        /\ Separable(c) = Separable(LastBuild)
        /\ HoldsBut(disk, c, {}) = HoldsBut(disk, LastBuild, {})
    BY <1>5, SentBuild
  <2>2. builds' = [builds EXCEPT ![l] = c]
    BY <1>1, <1>5, <1>7 DEF LastBuild
  <2> HIDE DEF c
  <2>3. /\ builds' \in Seq(BuildRecords) /\ Len(builds') = l /\ builds'[l] = c
        /\ \A i \in 1 .. l : i # l => builds'[i] = builds[i]
    BY <1>1, <1>5, <2>1, <2>2
  <2>4. \A i \in 1 .. l : builds'[i].id = builds[i].id /\ builds'[i].project = builds[i].project
    BY <2>1, <2>3 DEF LastBuild
  <2>5. Recorded'
    BY <1>7, <2>3, <2>4 DEF Work, Recorded, serverVars
  <2>6. InOrder'
    <3>1. ASSUME NEW v, toServer' = <<v>> PROVE v.sent.kind # SetBuild /\ v.sent.kind # FileContent
      BY <1>3, <1>7, <3>1, KindsDiffer
    <3> QED
      BY <1>6, <3>1 DEF InOrder
  <2>7. Finished'
    <3>1. ASSUME NEW n \in 1 .. Len(builds'), builds'[n].sent, Separable(builds'[n]),
                 Latest(builds', n)
          PROVE  HoldsBut(disk, builds'[n], {})
      <4>1. CASE n = l
        BY <1>7, <2>1, <2>3, <4>1
      <4>2. CASE n # l
        <5>1. n \in 1 .. l /\ builds'[n] = builds[n]
          BY <2>3, <4>2
        <5>2. \A i \in n + 1 .. l : i \in 1 .. l
          BY <1>5, <5>1
        <5>3. Latest(builds, n)
          BY <2>3, <2>4, <3>1, <5>1, <5>2 DEF Latest
        <5> QED
          BY <3>1, <5>1, <5>3 DEF Work, Finished, AllHeld
      <4> QED
        BY <4>1, <4>2
    <3> QED
      BY <3>1 DEF Finished, AllHeld, serverVars
  <2> QED
    BY <2>5, <2>6, <2>7 DEF Work
<1>8. ASSUME NEW f \in proj_files, w.sent = Msg(FileContent, <<f.root, f.name>>, f.content),
             proj_files' = proj_files \ {f}, builds' = builds
      PROVE  Work'
  <2>1. LastBuild' = LastBuild
    BY <1>8 DEF LastBuild
  <2>2. Ready(LastBuild)'
    BY <1>8, <2>1 DEF Ready, serverVars
  <2>3. Sending(w.sent, LastBuild)'
    <3>1. f \in LastBuild.project.files
      BY DEF Ready
    <3>2. proj_files' \cup {f} = proj_files
      BY <1>8
    <3>3. HoldsBut(disk', LastBuild, proj_files' \cup {f})
      BY <3>2 DEF serverVars
    <3> QED
      BY <1>8, <2>1, <3>1, <3>3 DEF Sending
  <2>4. w.sent.kind = FileContent
    BY <1>8, MsgHas
  <2>5. InOrder'
    <3>1. ASSUME NEW v, toServer' = <<v>> PROVE v = w /\ v.sent.kind # SetBuild
      BY <1>3, <2>4, <3>1, KindsDiffer
    <3>2. current_build_folders' = Folders(LastBuild)'
      BY <2>1 DEF serverVars
    <3> QED
      BY <1>6, <2>2, <2>3, <3>1, <3>2 DEF InOrder
  <2>6. Recorded' /\ Finished'
    BY <1>8 DEF Work, Recorded, Finished, serverVars
  <2> QED
    BY <2>5, <2>6 DEF Work
<1> QED
  BY <1>2, <1>7, <1>8

LEMMA PairFirst == \A k, l, x, y : <<k, x>> = <<l, y>> => k = l
<1> TAKE k, l, x, y
<1>1. <<k, x>>[1] = k /\ <<l, y>>[1] = l
  OBVIOUS
<1> QED
  BY <1>1

LEMMA WorkReceive ==
    ASSUME Talk, Work, Receive
    PROVE  Work'
<1> DEFINE m == PyDecode(Body(Head(toPackage).data))
<1>1. /\ UNCHANGED serverVars
      /\ \/ /\ m.kind = Acknowledge /\ m.values = <<Introduction, TRUE>>
            /\ \E p \in Projects : SetUp(p)
            /\ UNCHANGED busy
         \/ /\ m.kind = Acknowledge
            /\ m.values \in {<<SetBuild, TRUE>>, <<FileContent, TRUE>>}
            /\ SendNextFile
         \/ /\ m.kind \in {Message, BuildOutput}
            /\ UNCHANGED <<toServer, packageVars>>
         \/ /\ m.kind \in {Error, BuildComplete}
            /\ busy' = FALSE
            /\ UNCHANGED <<toServer, proj_files, builds>>
  BY DEF Receive
<1>2. m = PyDecode(Body(Head(toPackage).data))
  OBVIOUS
<1> HIDE DEF m
<1>3. CASE m.kind = Acknowledge /\ \E p \in Projects : SetUp(p)
  <2>1. toPackage' = << >> /\ toServer = << >>
    BY <1>2, <1>3, AcksInTurn
  <2>2. \A i \in 1 .. Len(toPackage') : toPackage'[i].sent.kind # Acknowledge
    BY <2>1, IsSeqEmpty
  <2> QED
    BY <1>1, <1>3, <2>1, <2>2, WorkSetsUp
<1>4. CASE /\ m.kind = Acknowledge /\ m.values \in {<<SetBuild, TRUE>>, <<FileContent, TRUE>>}
           /\ SendNextFile
  <2>1. toPackage' = << >> /\ toServer = << >>
    BY <1>2, <1>4, AcksInTurn
  <2>2. m = toPackage[1].sent /\ 1 \in 1 .. Len(toPackage)
    BY <1>2, Received
  <2>3. m.values # <<Introduction, TRUE>>
    <3> DEFINE first == <<SetBuild, TRUE>>
               second == <<FileContent, TRUE>>
               third == <<Introduction, TRUE>>
    <3>1. first # third /\ second # third
      BY PairFirst, KindsDiffer
    <3>2. m.values \in {first, second}
      BY <1>4
    <3>3. m.values # third
      <4> HIDE DEF first, second, third
      <4> QED
        BY <3>1, <3>2
    <3> QED
      BY <3>3
  <2>4. Confirms(toPackage[1].sent)
    BY <1>4, <2>2, <2>3 DEF Confirms
  <2>5. /\ Ready(LastBuild) /\ current_build_folders = Folders(LastBuild)
        /\ HoldsBut(disk, LastBuild, proj_files)
    BY <2>2, <2>4 DEF Work, InOrder
  <2> QED
    BY <1>1, <1>4, <2>1, <2>5, WorkSends
<1>5. CASE UNCHANGED <<toServer, proj_files, builds>>
  <2>1. \A i \in 1 .. Len(toPackage') :
            i + 1 \in 1 .. Len(toPackage) /\ toPackage'[i] = toPackage[i + 1]
    BY <1>2, Received
  <2>2. \A i \in 1 .. Len(toPackage') :
            \E j \in 1 .. Len(toPackage) : toPackage[j].sent = toPackage'[i].sent
    BY <2>1
  <2> QED
    BY <1>1, <1>5, <2>2, WorkFrame DEF serverVars
<1> QED
  BY <1>1, <1>3, <1>4, <1>5 DEF packageVars

\* An answer that is no acknowledgement.
LEMMA WorkAnswers ==
    ASSUME Work, UNCHANGED <<user, current_build_folders, disk, proj_files, builds>>,
           toServer' = << >> \/ UNCHANGED toServer,
           \A i \in 1 .. Len(toPackage') : toPackage'[i].sent.kind # Acknowledge
    PROVE  Work'
<1>1. \A w : toServer' = <<w>> => toServer = <<w>>
  BY OneElement
<1>2. \A i \in 1 .. Len(toPackage') : ~Confirms(toPackage'[i].sent)
  BY DEF Confirms
<1> QED
  BY <1>1, <1>2, WorkFrame

LEMMA WorkOutput ==
    ASSUME Talk, Work, NEW stdout \in BOOLEAN, ProcessOutput(stdout)
    PROVE  Work'
<1> DEFINE h == Msg(BuildOutput, <<stdout>>, Output)
<1>1. running /\ Reply(<<h>>) /\ UNCHANGED <<toServer, serverVars, packageVars>>
  BY DEF ProcessOutput
<1>2. h.kind # Acknowledge
  BY MsgHas, KindsDiffer
<1> HIDE DEF h
<1>3. toPackage' = toPackage \o <<Answer(h)>>
  BY <1>1, ReplyOne
<1>4. IsSeq(toPackage) /\ NoTurns(toPackage)
  BY <1>1 DEF Talk, UnderWay, OneTurn, AllAnswered
<1>5. \A i \in 1 .. Len(toPackage') : toPackage'[i].sent.kind # Acknowledge
  BY <1>2, <1>3, <1>4, NoAcks
<1> QED
  BY <1>1, <1>5, WorkAnswers DEF serverVars, packageVars

LEMMA WorkExited ==
    ASSUME Talk, Work, NEW code \in ExitCodes, ProcessExited(code)
    PROVE  Work'
<1> DEFINE h == Msg(BuildComplete, <<code % 65536>>, <<>>)
<1>1. /\ running /\ Reply(<<h>>)
      /\ UNCHANGED <<toServer, user, current_build_folders, disk, packageVars>>
  BY DEF ProcessExited
<1>2. h.kind # Acknowledge
  BY MsgHas, KindsDiffer
<1> HIDE DEF h
<1>3. toPackage' = toPackage \o <<Answer(h)>>
  BY <1>1, ReplyOne
<1>4. IsSeq(toPackage) /\ NoTurns(toPackage)
  BY <1>1 DEF Talk, UnderWay, OneTurn, AllAnswered
<1>5. \A i \in 1 .. Len(toPackage') : toPackage'[i].sent.kind # Acknowledge
  BY <1>2, <1>3, <1>4, NoAcks
<1> QED
  BY <1>1, <1>5, WorkAnswers DEF packageVars

LEMMA WorkExecuteBuild ==
    ASSUME Talk, Work, Dispatch, NEW m, m = CsDecode(Body(Head(toServer).data)),
           HandleExecuteBuild(m)
    PROVE  Work'
<1> DEFINE h == Msg(Message, <<>>, m.payload)
<1>1. Reply(<<h>>) /\ UNCHANGED <<user, current_build_folders, disk>>
  BY DEF HandleExecuteBuild
<1>2. PICK w : /\ toServer' = << >> /\ UNCHANGED packageVars
               /\ AllAnswered(toPackage) /\ NoTurns(toPackage)
  BY Dispatched
<1>3. h.kind # Acknowledge
  BY MsgHas, KindsDiffer
<1> HIDE DEF h
<1>4. toPackage' = toPackage \o <<Answer(h)>>
  BY <1>1, ReplyOne
<1>5. \A i \in 1 .. Len(toPackage') : toPackage'[i].sent.kind # Acknowledge
  BY <1>2, <1>3, <1>4, NoAcks DEF AllAnswered
<1> QED
  BY <1>1, <1>2, <1>5, WorkAnswers DEF packageVars

LEMMA AckHas ==
    ASSUME NEW k
    PROVE  /\ Ack(k).kind = Acknowledge /\ Ack(k).values = <<k, TRUE>>
           /\ k # Introduction => Confirms(Ack(k))
           /\ k = Introduction => ~Confirms(Ack(k))
<1> DEFINE v == <<k, TRUE>>
<1>1. k # Introduction => v # <<Introduction, TRUE>>
  <2>1. v[1] = k /\ <<Introduction, TRUE>>[1] = Introduction
    OBVIOUS
  <2> QED
    BY <2>1
<1>2. k = Introduction => v = <<Introduction, TRUE>>
  OBVIOUS
<1>3. Ack(k) = Msg(Acknowledge, v, << >>)
  BY DEF Ack
<1> HIDE DEF v
<1>4. Ack(k).kind = Acknowledge /\ Ack(k).values = v
  BY <1>3, MsgHas
<1> QED
  BY <1>1, <1>2, <1>4 DEF Confirms, v

LEMMA WorkIntroduction ==
    ASSUME Talk, Work, Dispatch, NEW m, m = CsDecode(Body(Head(toServer).data)),
           HandleIntroduction(m)
    PROVE  Work'
<1>1. m.kind = Introduction /\ UNCHANGED <<current_build_folders, disk>>
  BY DEF HandleIntroduction
<1>2. PICK w : /\ toServer' = << >> /\ UNCHANGED packageVars
               /\ AllAnswered(toPackage) /\ NoTurns(toPackage)
               /\ (m.kind = Introduction <=> user = NoUser)
  BY Dispatched
<1>3. current_build_folders = Nowhere
  BY <1>1, <1>2 DEF Talk, LoggedIn
<1> DEFINE known == Login(m.values[2], m.values[3])
           e == Msg(Error, <<1001>>, m.values[2])
           h == Msg(Message, <<>>, m.values[2] \o m.values[5])
           a == Ack(Introduction)
<1>4. CASE known = {}
  <2>1. Reply(<<e>>) /\ UNCHANGED user
    BY <1>4 DEF HandleIntroduction
  <2>2. e.kind # Acknowledge
    BY MsgHas, KindsDiffer
  <2> HIDE DEF e
  <2>3. toPackage' = toPackage \o <<Answer(e)>>
    BY <2>1, ReplyOne
  <2>4. \A i \in 1 .. Len(toPackage') : toPackage'[i].sent.kind # Acknowledge
    BY <1>2, <2>2, <2>3, NoAcks DEF AllAnswered
  <2> QED
    BY <1>1, <1>2, <2>1, <2>4, WorkAnswers DEF packageVars
<1>5. CASE known # {}
  <2>1. Reply(<<h, a>>)
    BY <1>5 DEF HandleIntroduction
  <2>2. h.kind # Acknowledge
    BY MsgHas, KindsDiffer
  <2>3. ~Confirms(h) /\ ~Confirms(a)
    BY <2>2, AckHas DEF Confirms
  <2> HIDE DEF h, a
  <2>4. toPackage' = toPackage \o <<Answer(h), Answer(a)>>
    BY <2>1, ReplyTwo
  <2>5. ASSUME NEW i \in 1 .. Len(toPackage') PROVE ~Confirms(toPackage'[i].sent)
    <3> DEFINE t == <<Answer(h), Answer(a)>>
    <3>1. IsSeq(t) /\ Len(t) = 2 /\ t[1] = Answer(h) /\ t[2] = Answer(a)
      <4>1. t \in Seq({Answer(h), Answer(a)})
        OBVIOUS
      <4> QED
        BY <4>1 DEF IsSeq
    <3> HIDE DEF t
    <3>2. Catted(toPackage', toPackage, t) /\ IsSeq(toPackage)
      BY <1>2, <2>4, <3>1, IsSeqCat DEF AllAnswered, t
    <3>3. Len(toPackage) \in Nat
      BY <3>2, IsSeqFacts
    <3>4. /\ Len(toPackage') = Len(toPackage) + 2
          /\ \A j \in 1 .. Len(toPackage) : toPackage'[j] = toPackage[j]
          /\ toPackage'[Len(toPackage) + 1] = Answer(h)
          /\ toPackage'[Len(toPackage) + 2] = Answer(a)
      BY <3>1, <3>2, <3>3 DEF Catted
    <3>5. i \in 1 .. Len(toPackage) \/ i = Len(toPackage) + 1 \/ i = Len(toPackage) + 2
      BY <3>3, <3>4
    <3>6. Answer(h).sent = h /\ Answer(a).sent = a
      BY DEF Answer
    <3>7. i \in 1 .. Len(toPackage) => ~Confirms(toPackage[i].sent)
      BY <1>2, KindsDiffer DEF NoTurns, Confirms
    <3> QED
      BY <2>3, <3>4, <3>5, <3>6, <3>7
  <2>6. Recorded'
    <3>1. DOMAIN Nowhere = {}
      BY DEF Nowhere
    <3> QED
      BY <1>1, <1>2, <1>3, <3>1 DEF Work, Recorded, packageVars
  <2>7. Finished'
    BY <1>1, <1>2 DEF Work, Finished, packageVars
  <2>8. InOrder'
    <3>1. \A v : toServer' # <<v>>
      BY <1>2, OneElement
    <3> QED
      BY <2>5, <3>1 DEF InOrder
  <2> QED
    BY <2>6, <2>7, <2>8 DEF Work
<1> QED
  BY <1>4, <1>5

LEMMA WorkSetBuild ==
    ASSUME Talk, Work, Dispatch, NEW m, m = CsDecode(Body(Head(toServer).data)),
           HandleSetBuild(m)
    PROVE  Work'
<1> DEFINE h == Msg(Message, <<>>, Head(m.payload))
           b == LastBuild
<1>1. m.kind = SetBuild /\ UNCHANGED <<user, disk>>
  BY DEF HandleSetBuild
<1>2. PICK w : /\ Carries(w) /\ Heard(w.sent, m) /\ toServer' = << >> /\ UNCHANGED packageVars
               /\ NoTurns(toPackage)
  BY Dispatched
<1>3. toServer = <<w>> /\ Requested(w) /\ m = CsDecode(Body(w.data)) /\ w.sent.kind = SetBuild
  BY <1>1, <1>2, OneElement DEF Carries, Heard
<1>4. Ready(b) /\ Naming(w.sent, b)
  BY <1>3 DEF Work, InOrder
<1>5. b.project \in Projects
  BY <1>4, LastOf DEF Work, Ready
<1>6. PICK folders \in SetToSeqs(b.project.folders) :
          /\ b.id = BuildId(folders)
          /\ w.sent = Msg(SetBuild, <<>>, <<BuildId(folders)>> \o folders)
  BY <1>4 DEF Naming
<1>7. Head(m.payload) = b.id /\ ToSet(Tail(m.payload)) = b.project.folders
  BY <1>3, <1>5, <1>6, NamesDecoded
<1>8. current_build_folders' = Folders(b)
  <2>1. b.user = user.username
    BY <1>4 DEF Ready
  <2> QED
    BY <1>7, <2>1 DEF HandleSetBuild, Folders
<1>9. b' = b
  BY <1>2 DEF packageVars, LastBuild
<1>10. Ready(b)'
  BY <1>1, <1>2, <1>4, <1>9 DEF Ready, packageVars
<1>11. HoldsBut(disk', b, proj_files')
  BY <1>2, <1>4 DEF HoldsBut, Naming, packageVars
<1>12. InOrder'
  <2>1. \A v : toServer' # <<v>>
    BY <1>2, OneElement
  <2> QED
    BY <1>8, <1>9, <1>10, <1>11, <2>1 DEF InOrder
<1>13. Recorded'
  <2>1. \A f \in DOMAIN current_build_folders' : current_build_folders'[f][1] = user'.username
    BY <1>1, <1>4, <1>8 DEF Folders, LocalFolder, Ready
  <2> QED
    BY <1>1, <1>2, <2>1 DEF Work, Recorded, packageVars
<1>14. Finished'
  BY <1>1, <1>2 DEF Work, Finished, packageVars
<1> QED
  BY <1>12, <1>13, <1>14 DEF Work

\* Two files of a project have places of their own.
LEMMA Spots ==
    ASSUME NEW b, b.project \in Projects, Separable(b),
           NEW f \in b.project.files, NEW g \in b.project.files, Spot(b, f) = Spot(b, g)
    PROVE  f = g
<1>1. LocalFolder(b.user, b.id, f.root) = LocalFolder(b.user, b.id, g.root) /\ f.name = g.name
  BY PairFirst DEF Spot
<1>2. Basename(f.root) = Basename(g.root)
  BY <1>1 DEF LocalFolder
<1>3. f.root \in b.project.folders /\ g.root \in b.project.folders
  BY ProjectIs
<1>4. f.root = g.root
  BY <1>2, <1>3 DEF Separable
<1> QED
  BY <1>1, <1>4, ProjectIs

\* A file of one build is not in the directory of another.
LEMMA SpotsApart ==
    ASSUME NEW b, NEW c, b.id # c.id, NEW f, NEW r \in c.project.folders, NEW n
    PROVE  Spot(b, f) # <<Folders(c)[r], n>>
<1>1. Folders(c)[r] = <<c.user, c.id, Basename(r)>>
  BY DEF Folders, LocalFolder
<1>2. Spot(b, f) = <<<<b.user, b.id, Basename(f.root)>>, f.name>>
  BY DEF Spot, LocalFolder
<1>3. <<b.user, b.id, Basename(f.root)>> # <<c.user, c.id, Basename(r)>>
  OBVIOUS
<1> QED
  BY <1>1, <1>2, <1>3, PairFirst

LEMMA WrittenType ==
    ASSUME NEW t \in Seq(Char)
    PROVE  Written(t) \in Seq(Byte)
<1>1. ByteOrderMark \in Seq(Byte)
  BY DEF ByteOrderMark, Byte
<1>2. Utf8(t) \in Seq(Byte)
  BY Utf8Type
<1> QED
  BY <1>1, <1>2 DEF Written

LEMMA WorkFileContents ==
    ASSUME Talk, Work, Dispatch, NEW m, m = CsDecode(Body(Head(toServer).data)),
           HandleFileContents(m)
    PROVE  Work'
<1> DEFINE root == m.values[1]
           e == Msg(Error, <<2000>>, root)
           a == Ack(FileContent)
           b == LastBuild
<1>1. m.kind = FileContent
  BY DEF HandleFileContents
<1>2. PICK w : /\ Carries(w) /\ Heard(w.sent, m) /\ toServer' = << >> /\ UNCHANGED packageVars
               /\ AllAnswered(toPackage) /\ NoTurns(toPackage)
  BY Dispatched
<1>3. toServer = <<w>> /\ Requested(w) /\ m = CsDecode(Body(w.data)) /\ w.sent.kind = FileContent
  BY <1>1, <1>2, OneElement DEF Carries, Heard
<1>4. Ready(b) /\ current_build_folders = Folders(b) /\ Sending(w.sent, b)
  BY <1>3 DEF Work, InOrder
<1>5. b.project \in Projects
  BY <1>4, LastOf DEF Work, Ready
<1>6. PICK f \in b.project.files : /\ w.sent = Msg(FileContent, <<f.root, f.name>>, f.content)
                                   /\ HoldsBut(disk, b, proj_files \cup {f})
  BY <1>4 DEF Sending
<1>7. /\ m.payload = CsText(f.content) /\ m.payload \in Seq(Char)
      /\ Separable(b) => m.values[1] = f.root /\ m.values[2] = f.name
  <2>1. m.payload \in Text(Len(PyPayload(w.sent)))
    BY <1>1, <1>2, FileHeard
  <2> QED
    BY <1>3, <1>5, <1>6, <2>1, FileDecoded DEF Separable, Text
<1>8. b' = b /\ \A v : toServer' # <<v>>
  BY <1>2, OneElement DEF packageVars, LastBuild
<1>9. CASE root \notin DOMAIN current_build_folders
  <2>1. Reply(<<e>>) /\ user' = NoUser /\ current_build_folders' = Nowhere /\ disk' = disk
    BY <1>9 DEF HandleFileContents
  <2>2. e.kind # Acknowledge
    BY MsgHas, KindsDiffer
  <2> HIDE DEF e
  <2>3. toPackage' = toPackage \o <<Answer(e)>>
    BY <2>1, ReplyOne
  <2>4. \A i \in 1 .. Len(toPackage') : toPackage'[i].sent.kind # Acknowledge
    BY <1>2, <2>2, <2>3, NoAcks DEF AllAnswered
  <2>5. InOrder'
    BY <1>8, <2>4 DEF InOrder, Confirms
  <2>6. Recorded'
    <3>1. DOMAIN Nowhere = {}
      BY DEF Nowhere
    <3> QED
      BY <1>2, <2>1, <3>1 DEF Work, Recorded, packageVars
  <2>7. Finished'
    BY <1>2, <2>1 DEF Work, Finished, packageVars
  <2> QED
    BY <2>5, <2>6, <2>7 DEF Work
<1>10. CASE root \in DOMAIN current_build_folders
  <2> DEFINE file == <<current_build_folders[root], m.values[2]>>
  <2>1. /\ disk' = [x \in DOMAIN disk \cup {file} |->
                       IF x = file THEN Written(m.payload) ELSE disk[x]]
        /\ UNCHANGED <<user, current_build_folders>>
    BY <1>10 DEF HandleFileContents
  <2> HIDE DEF file
  <2>2. /\ DOMAIN disk' = DOMAIN disk \cup {file} /\ disk'[file] = Written(m.payload)
        /\ \A x \in DOMAIN disk : x # file => disk'[x] = disk[x]
    BY <2>1
  <2>3. root \in b.project.folders
    BY <1>4, <1>10 DEF Folders
  <2>4. Recorded'
    <3>1. Written(m.payload) \in Seq(Byte)
      BY <1>7, WrittenType
    <3>2. \A x \in DOMAIN disk' : disk'[x] \in Seq(Byte)
      BY <2>2, <3>1 DEF Work, Recorded
    <3> QED
      BY <1>2, <2>1, <3>2 DEF Work, Recorded, packageVars
  <2>5. Finished'
    <3>1. ASSUME NEW n \in 1 .. Len(builds), builds[n].sent, Separable(builds[n]),
                 Latest(builds, n)
          PROVE  HoldsBut(disk', builds[n], {})
      <4>1. HoldsBut(disk, builds[n], {})
        BY <3>1 DEF Work, Finished, AllHeld
      <4>2. b.id # builds[n].id
        <5>1. n # Len(builds)
          BY <1>4, <3>1 DEF Ready, LastBuild
        <5>2. Len(builds) \in n + 1 .. Len(builds)
          <6>1. Len(builds) \in Nat
            BY DEF Work, Recorded
          <6> QED
            BY <5>1, <6>1
        <5> QED
          BY <3>1, <5>2 DEF Latest, LastBuild
      <4>3. ASSUME NEW g \in builds[n].project.files PROVE Holding(disk', builds[n], g)
        <5>1. Holding(disk, builds[n], g)
          BY <3>1, <4>1 DEF HoldsBut
        <5>2. Spot(builds[n], g) # file
          BY <1>4, <2>3, <4>2, SpotsApart DEF file
        <5> QED
          BY <2>2, <5>1, <5>2 DEF Holding
      <4> QED
        BY <4>3 DEF HoldsBut
    <3> QED
      BY <1>2, <3>1 DEF Finished, AllHeld, packageVars
  <2>6. ASSUME Separable(b), NEW g \in b.project.files \ proj_files
        PROVE  Holding(disk', b, g)
    <3>1. file = Spot(b, f)
      BY <1>4, <1>7, <2>3, <2>6 DEF file, Spot, Folders
    <3>2. CASE g = f
      BY <1>7, <2>2, <3>1, <3>2 DEF Holding
    <3>3. CASE g # f
      <4>1. Holding(disk, b, g)
        BY <1>6, <2>6, <3>3 DEF HoldsBut
      <4>2. Spot(b, g) # file
        BY <1>5, <2>6, <3>1, <3>3, Spots
      <4> QED
        BY <2>2, <4>1, <4>2 DEF Holding
    <3> QED
      BY <3>2, <3>3
  <2>7. InOrder'
    <3>1. Ready(b)'
      BY <1>2, <1>4, <1>8, <2>1 DEF Ready, packageVars
    <3>2. current_build_folders' = Folders(b)
      BY <1>4, <2>1
    <3>3. HoldsBut(disk', b, proj_files')
      BY <1>2, <2>6 DEF HoldsBut, packageVars
    <3> QED
      BY <1>8, <3>1, <3>2, <3>3 DEF InOrder
  <2> QED
    BY <2>4, <2>5, <2>7 DEF Work
<1> QED
  BY <1>9, <1>10

-----------------------------------------------------------------------------
(***************************************************************************)
(* The inductive invariant, and the theorems.                              *)
(***************************************************************************)
IInv == Talk /\ Work

LEMMA InitInv == Init => IInv
<1> SUFFICES ASSUME Init PROVE IInv
  OBVIOUS
<1>1. /\ toServer = << >> /\ toPackage = << >> /\ user = NoUser /\ running = FALSE
      /\ current_build_folders = Nowhere /\ disk = Nowhere /\ DOMAIN Nowhere = {}
      /\ proj_files = {} /\ busy = FALSE /\ builds = << >>
  BY DEF Init, Nowhere
<1>2. IsSeq(toPackage) /\ Len(toPackage) = 0 /\ \A w : toServer # <<w>>
  BY <1>1, IsSeqEmpty, OneElement
<1>3. \A i \in 1 .. Len(toPackage) : FALSE
  BY <1>2
<1>4. Talk
  BY <1>1, <1>2, <1>3 DEF Talk, UnderWay, OneTurn, LoggedIn, AllAnswered, NoTurns, TurnsLast
<1>5. builds \in Seq(BuildRecords) /\ \A i \in 1 .. Len(builds) : FALSE
  BY <1>1
<1>6. Recorded
  BY <1>1, <1>5 DEF Recorded
<1>7. InOrder
  BY <1>2, <1>3 DEF InOrder
<1>8. Finished
  BY <1>5 DEF Finished, AllHeld
<1> QED
  BY <1>4, <1>6, <1>7, <1>8 DEF IInv, Work

LEMMA NextInv == IInv /\ [Next]_vars => IInv'
<1> SUFFICES ASSUME IInv, [Next]_vars PROVE IInv'
  OBVIOUS
<1>1. Talk /\ Work
  BY DEF IInv
<1>2. ASSUME NEW login \in Logins, RunConnects(login) PROVE IInv'
  BY <1>1, <1>2, TalkConnects, WorkConnects DEF IInv
<1>3. ASSUME NEW p \in Projects, RunBuilds(p) PROVE IInv'
  BY <1>1, <1>3, TalkBuilds, WorkBuilds DEF IInv
<1>4. CASE Receive
  <2>1. proj_files \subseteq UNION {p.files : p \in Projects}
    BY <1>1 DEF Work, Recorded
  <2> QED
    BY <1>1, <1>4, <2>1, TalkReceive, WorkReceive DEF IInv
<1>5. CASE Dispatch
  <2> DEFINE m == CsDecode(Body(Head(toServer).data))
  <2>1. m = CsDecode(Body(Head(toServer).data))
    OBVIOUS
  <2>2. \/ HandleIntroduction(m) \/ HandleSetBuild(m)
        \/ HandleFileContents(m) \/ HandleExecuteBuild(m)
    BY <1>5 DEF Dispatch
  <2> HIDE DEF m
  <2>3. CASE HandleIntroduction(m)
    BY <1>1, <1>5, <2>1, <2>3, TalkIntroduction, WorkIntroduction DEF IInv
  <2>4. CASE HandleSetBuild(m)
    BY <1>1, <1>5, <2>1, <2>4, TalkSetBuild, WorkSetBuild DEF IInv
  <2>5. CASE HandleFileContents(m)
    BY <1>1, <1>5, <2>1, <2>5, TalkFileContents, WorkFileContents DEF IInv
  <2>6. CASE HandleExecuteBuild(m)
    BY <1>1, <1>5, <2>1, <2>6, TalkExecuteBuild, WorkExecuteBuild DEF IInv
  <2> QED
    BY <2>2, <2>3, <2>4, <2>5, <2>6
<1>6. ASSUME NEW stdout \in BOOLEAN, ProcessOutput(stdout) PROVE IInv'
  BY <1>1, <1>6, TalkOutput, WorkOutput DEF IInv
<1>7. ASSUME NEW code \in ExitCodes, ProcessExited(code) PROVE IInv'
  BY <1>1, <1>7, TalkExited, WorkExited DEF IInv
<1>8. CASE UNCHANGED vars
  <2>1. Talk'
    BY <1>1, <1>8 DEF Talk, UnderWay, Carries, OneTurn, LoggedIn, vars, serverVars, packageVars
  <2>2. Work'
    BY <1>1, <1>8, WorkFrame DEF vars, serverVars, packageVars
  <2> QED
    BY <2>1, <2>2 DEF IInv
<1> QED
  BY <1>2, <1>3, <1>4, <1>5, <1>6, <1>7, <1>8 DEF Next

\* Every state has the inductive invariant.
THEOREM Invariance == Spec => []IInv
BY InitInv, NextInv, PTL DEF Spec

LEMMA IInvTypes == IInv => TypeOK
<1> SUFFICES ASSUME IInv PROVE TypeOK
  OBVIOUS
<1>1. UnderWay /\ OneTurn /\ LoggedIn /\ Recorded
  BY DEF IInv, Talk, Work
<1>2. ASSUME NEW i \in DOMAIN toServer
      PROVE  toServer[i].sent.kind \in {Introduction, SetBuild, FileContent, ExecuteBuild}
  <2>1. PICK w : toServer = <<w>> /\ Requested(w)
    BY <1>1, <1>2 DEF UnderWay, Carries
  <2>2. toServer[i] = w
    BY <1>2, <2>1
  <2> QED
    BY <2>1, <2>2 DEF Requested, PackageKinds
<1>3. ASSUME NEW i \in DOMAIN toPackage
      PROVE  toPackage[i].sent.kind \in {Message, Error, Acknowledge, BuildOutput, BuildComplete}
  <2>1. i \in 1 .. Len(toPackage)
    BY <1>1, <1>3, IsSeqFacts DEF UnderWay, AllAnswered
  <2>2. Answered(toPackage[i])
    BY <1>1, <2>1 DEF UnderWay, AllAnswered
  <2> QED
    BY <2>2 DEF Answered, ServerKinds
<1>4. ASSUME NEW x \in DOMAIN disk, NEW b \in ToSet(disk[x]) PROVE b \in 0 .. 255
  <2>1. disk[x] \in Seq(Byte)
    BY <1>1, <1>4 DEF Recorded
  <2>2. PICK i \in 1 .. Len(disk[x]) : b = disk[x][i]
    BY <1>4, <2>1 DEF ToSet
  <2>3. b \in Byte
    BY <2>1, <2>2
  <2> QED
    BY <2>3 DEF Byte
<1>5. ASSUME NEW i \in DOMAIN builds
      PROVE  builds[i].project \in Projects /\ builds[i].sent \in BOOLEAN
  <2>1. builds[i] \in BuildRecords
    BY <1>1, <1>5 DEF Recorded
  <2> QED
    BY <2>1 DEF BuildRecords
<1> QED
  BY <1>1, <1>2, <1>3, <1>4, <1>5 DEF TypeOK, OneTurn, LoggedIn, Recorded

\* Each end only has messages of the other's kinds under way, the server has a user
\* of the configuration or none, its folders are that user's, and its files are bytes.
THEOREM TypeCorrect == Spec => []TypeOK
BY Invariance, IInvTypes, PTL

LEMMA IInvRestored == IInv => Restored
<1> SUFFICES ASSUME IInv PROVE Restored
  OBVIOUS
<1>1. UnderWay
  BY DEF IInv, Talk
<1>2. ASSUME NEW w \in ToSet(toServer)
      PROVE  Framed(w) /\ Agreed(w) /\ CsDecode(Body(w.data)) # Raised
  <2>1. PICK v : toServer = <<v>> /\ Requested(v)
    BY <1>1, <1>2 DEF UnderWay, Carries, ToSet
  <2>2. w = v
    BY <1>2, <2>1 DEF ToSet
  <2> QED
    BY <2>1, <2>2, RequestRestored DEF Heard
<1>3. ASSUME NEW w \in ToSet(toPackage)
      PROVE  Framed(w) /\ Agreed(w) /\ PyDecode(Body(w.data)) # Raised
  <2>1. PICK i \in 1 .. Len(toPackage) : w = toPackage[i]
    BY <1>1, <1>3, IsSeqFacts DEF UnderWay, AllAnswered, ToSet
  <2>2. Answered(w)
    BY <1>1, <2>1 DEF UnderWay, AllAnswered
  <2> QED
    BY <2>2, AnswerRestored
<1> QED
  BY <1>2, <1>3 DEF Restored

(***************************************************************************)
(* The count in front of every message is the number of bytes behind it,   *)
(* no message makes the other end raise, and one that fits its fields      *)
(* comes out as it was, whatever the users, the projects and the texts     *)
(* (messages.py:104-125, 317-338, messages/*.cs).                          *)
(***************************************************************************)
THEOREM EverythingRestored == Spec => []Restored
BY Invariance, IInvRestored, PTL

LEMMA IInvIds == IInv => BuildIdOfFolders
<1> SUFFICES ASSUME IInv PROVE BuildIdOfFolders
  OBVIOUS
<1>1. Recorded
  BY DEF IInv, Work
<1> DEFINE folders(n) == builds[n].project.folders
<1>2. ASSUME NEW n \in DOMAIN builds
      PROVE  /\ Apart(folders(n)) /\ IsFiniteSet(folders(n))
             /\ \E names \in SetToSeqs(folders(n)) : builds[n].id = BuildId(names)
  <2>1. n \in 1 .. Len(builds) /\ builds[n] \in BuildRecords
    BY <1>1, <1>2 DEF Recorded
  <2>2. builds[n].project \in Projects
    BY <2>1 DEF BuildRecords
  <2> QED
    BY <1>1, <2>1, <2>2, ProjectIs DEF Recorded
<1>3. ASSUME NEW i \in DOMAIN builds, NEW j \in DOMAIN builds, folders(i) = folders(j)
      PROVE  builds[i].id = builds[j].id
  <2>1. PICK names \in SetToSeqs(folders(i)) : builds[i].id = BuildId(names)
    BY <1>2
  <2>2. PICK others \in SetToSeqs(folders(i)) : builds[j].id = BuildId(others)
    BY <1>2, <1>3
  <2>3. Apart(folders(i))
    BY <1>2
  <2> HIDE DEF folders
  <2> QED
    BY <2>1, <2>2, <2>3, BuildIdIs
<1>4. ASSUME NEW n \in DOMAIN builds, Cardinality(folders(n)) = 1
      PROVE  folders(n) = {builds[n].id}
  <2>1. PICK names \in SetToSeqs(folders(n)) : builds[n].id = BuildId(names)
    BY <1>2
  <2>2. Apart(folders(n)) /\ IsFiniteSet(folders(n))
    BY <1>2
  <2> HIDE DEF folders
  <2>3. PICK f : folders(n) = {f}
    BY <1>4, <2>2, FS_Singleton
  <2> QED
    BY <2>1, <2>2, <2>3, BuildIdIs
<1> QED
  BY <1>3, <1>4 DEF BuildIdOfFolders

(***************************************************************************)
(* The folders of a project have one build id in whatever order they come, *)
(* and projects of one folder each have ids of their own, for folders with *)
(* normal paths (messages.py:223-230).                                     *)
(***************************************************************************)
THEOREM OneBuildId == Spec => []BuildIdOfFolders
BY Invariance, IInvIds, PTL

LEMMA IInvPlaces == IInv => FilesInTheirPlace
<1> SUFFICES ASSUME IInv,
                    NEW n \in DOMAIN builds, builds[n].sent, Placeable(builds[n]), Newest(n),
                    NEW f \in builds[n].project.files
             PROVE  /\ Spot(builds[n], f) \in DOMAIN disk
                    /\ disk[Spot(builds[n], f)] = Written(CsText(f.content))
  BY DEF FilesInTheirPlace, Stored, Spot
<1>1. Finished /\ n \in 1 .. Len(builds)
  BY DEF IInv, Work, Recorded
<1>2. Separable(builds[n]) /\ Latest(builds, n)
  BY DEF Placeable, Separable, Newest, Latest
<1>3. HoldsBut(disk, builds[n], {})
  BY <1>1, <1>2 DEF Finished, AllHeld
<1> QED
  BY <1>2, <1>3 DEF HoldsBut, Holding

(***************************************************************************)
(* When the package asks for the build, all the files of a project are     *)
(* where the server looks for them, with the text they had, for any number *)
(* of files, folders and users, and for projects that are built one after  *)
(* the other in any order (remote_build.py:193-194, 211-233,               *)
(* BuildClient_Handlers.cs:245-263, 293-296).                              *)
(***************************************************************************)
THEOREM FilesArrive == Spec => []FilesInTheirPlace
BY Invariance, IInvPlaces, PTL
=============================================================================
