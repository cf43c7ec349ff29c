------------------------------ MODULE Messages ------------------------------
(***************************************************************************)
(* The nine kinds of messages and what each end makes of them: encode and  *)
(* decode of the classes of messages.py, Encode and the constructors from  *)
(* bytes of messages/*.cs on the server.                                   *)
(*                                                                         *)
(* A message has a kind, fields of fixed width, and maybe a payload of any *)
(* length behind them.  encode and decode of a Python class name the same  *)
(* layout; the server has the offset of every field as a number.           *)
(***************************************************************************)
EXTENDS Encoding

U(width)   == [form |-> "number", width |-> width]
Str(width) == [form |-> "text", width |-> width]
Flag       == [form |-> "flag", width |-> 1]

Layout(fields, payload) == [fields |-> fields, payload |-> payload]

IntroductionMessage ==          \* version, user, password, hostname, platform
    Layout(<<U(1), Str(64), Str(64), Str(64), Str(8)>>, "none")
MessageMessage      == Layout(<<>>, "text")
ErrorMessage        == Layout(<<U(4)>>, "text")              \* code
SetBuildMessage     == Layout(<<>>, "names")                 \* the id, the folders
AcknowledgeMessage  == Layout(<<U(2), Flag>>, "none")        \* message id, positive
FileContentMessage  == Layout(<<Str(256), Str(256)>>, "content")
ExecuteBuildMessage == Layout(<<>>, "text")
BuildOutputMessage  == Layout(<<Flag>>, "text")              \* stdout
BuildCompleteMessage == Layout(<<U(2)>>, "none")             \* exit code

Introduction  == 0
Message       == 1
Error         == 2
SetBuild      == 3
Acknowledge   == 4
FileContent   == 5
ExecuteBuild  == 6
BuildOutput   == 7
BuildComplete == 8
Kinds == 0 .. 8

\* ProtocolMessage.register, which refuses to take an id twice.
Registry ==
    [k \in Kinds |->
        <<IntroductionMessage, MessageMessage, ErrorMessage, SetBuildMessage,
          AcknowledgeMessage, FileContentMessage, ExecuteBuildMessage,
          BuildOutputMessage, BuildCompleteMessage>>[k + 1]]

Msg(kind, values, payload) == [kind |-> kind, values |-> values, payload |-> payload]

\* An exception instead of a message, or of bytes.
Raised == [kind |-> -1]

HasPayload(k) == Registry[k].payload # "none"

\* The bytes in front of a field, those of the kind included.
Start(fields, n) ==
    LET start[i \in 1 .. Len(fields) + 1] ==
            IF i = 1 THEN 2 ELSE start[i - 1] + fields[i - 1].width
    IN  start[n]

\* Everything but the payload and its count.
FixedSize(k) == Start(Registry[k].fields, Len(Registry[k].fields) + 1)

FullSize(k, data) == FixedSize(k) + (IF HasPayload(k) THEN 4 + Len(data) ELSE 0)

Header(k, data) == Big(FullSize(k, data), 4) \o Big(k, 2)

\* What is read from the bytes of a field, or of a payload, and from their text.
FieldValue(form, raw, text) ==
    CASE form = "number" -> Number(raw)
      [] form = "flag"   -> Number(raw) # 0
      [] form = "text"   -> Stripped(text)

PayloadValue(form, text) ==
    CASE form = "none"  -> <<>>
      [] form = "names" -> Split(text)
      [] OTHER          -> text
-----------------------------------------------------------------------------
(***************************************************************************)
(* messages.py.  The package has the content of a file as bytes when it    *)
(* encodes it and as text when it has decoded it.                          *)
(***************************************************************************)
PyField(f, v) ==
    CASE f.form = "number" -> Big(v, f.width)
      [] f.form = "flag"   -> <<IF v THEN 1 ELSE 0>>
      [] f.form = "text"   -> Fit(Utf8(v), f.width)

PyPayload(m) ==
    CASE Registry[m.kind].payload = "text"  -> Utf8(m.payload)
      [] Registry[m.kind].payload = "names" -> Utf8(Joined(m.payload))
      [] OTHER -> m.payload

PyEncode(m) ==
    LET fields == Registry[m.kind].fields
        data   == PyPayload(m)
        pieces == [i \in DOMAIN fields |-> PyField(fields[i], m.values[i])]
                      \o (IF HasPayload(m.kind) THEN <<Big(Len(data), 4), data>> ELSE <<>>)
    IN  Header(m.kind, data) \o Concat(pieces)

\* from_data and decode: an unknown kind, a wrong length, or bytes that are no
\* text raise.
PyDecode(data) ==
    LET k      == Number(SubSeq(data, 1, 2))
        fields == Registry[k].fields
        form   == Registry[k].payload
        behind == FixedSize(k)
        count  == Number(SubSeq(data, behind + 1, behind + 4))
        Raw(i) == SubSeq(data, Start(fields, i) + 1, Start(fields, i) + fields[i].width)
        payload == IF HasPayload(k) THEN SubSeq(data, behind + 5, behind + 4 + count)
                   ELSE <<>>
    IN  IF \/ Len(data) < 2 \/ k \notin Kinds
           \/ IF HasPayload(k)
              THEN Len(data) < behind + 4 \/ Len(data) < behind + 4 + count
              ELSE Len(data) # behind
           \/ \E i \in DOMAIN fields : fields[i].form = "text" /\ ~IsUtf8(Raw(i))
           \/ ~IsUtf8(payload)
        THEN Raised
        ELSE Msg(k, [i \in DOMAIN fields |-> FieldValue(fields[i].form, Raw(i), Chars(Raw(i)))],
                 PayloadValue(form, Chars(payload)))
-----------------------------------------------------------------------------
(***************************************************************************)
(* messages/*.cs.  The server has the content of a file as text.           *)
(***************************************************************************)
OffsetsShort(k) ==              \* mutant: the code of an error has two bytes
    <<<<2, 3, 67, 131, 195>>, <<2, 6>>, <<2, 4, 8>>, <<2, 6>>, <<2, 4>>,
      <<2, 258, 514, 518>>, <<2, 6>>, <<2, 3, 7>>, <<2>>>>[k + 1]

\* Of the fields, then of the count and the payload.
Offsets(k) ==
    <<<<2, 3, 67, 131, 195>>, <<2, 6>>, <<2, 6, 10>>, <<2, 6>>, <<2, 4>>,
      <<2, 258, 514, 518>>, <<2, 6>>, <<2, 3, 7>>, <<2>>>>[k + 1]

\* PaddedByteArray counts characters, BlockCopy then takes width bytes.
CsField(f, v) ==
    CASE f.form = "number" -> Big(v, f.width)
      [] f.form = "flag"   -> <<IF v THEN 1 ELSE 0>>
      [] f.form = "text"   -> SubSeq(Utf8(Fit(v, f.width)), 1, f.width)

CsPayload(m) ==
    CASE Registry[m.kind].payload = "none"  -> <<>>
      [] Registry[m.kind].payload = "names" -> Utf8(Joined(m.payload))
      [] OTHER -> Utf8(m.payload)

CsEncode(m) ==
    LET k      == m.kind
        fields == Registry[k].fields
        data   == CsPayload(m)
        pieces == [i \in DOMAIN fields |-> CsField(fields[i], m.values[i])]
                      \o (IF HasPayload(k) THEN <<Big(Len(data), 4), data>> ELSE <<>>)
        Covers(j, i) == i \in Offsets(k)[j] + 1 .. Offsets(k)[j] + Len(pieces[j])
        At(i) == IF \E j \in DOMAIN pieces : Covers(j, i)
                 THEN LET j == CHOOSE j \in DOMAIN pieces : Covers(j, i)
                      IN  pieces[j][i - Offsets(k)[j]]
                 ELSE NUL
    IN  Header(k, data) \o [i \in 1 .. FullSize(k, data) - 2 |-> At(i + 2)]

CsText(raw) == Replaced(Chars(raw))

CsDecode(data) ==
    LET k      == Number(SubSeq(data, 1, 2))
        fields == Registry[k].fields
        Raw(j, size) == SubSeq(data, Offsets(k)[j] + 1, Offsets(k)[j] + size)
        count   == Number(Raw(Len(fields) + 1, 4))
        payload == IF HasPayload(k) THEN Raw(Len(fields) + 2, count) ELSE <<>>
    IN  IF \/ Len(data) < 2 \/ k \notin Kinds
           \/ IF HasPayload(k)
              THEN \/ Len(data) < FixedSize(k) + 4
                   \/ Len(data) < FixedSize(k) + 4 + count
              ELSE Len(data) # FixedSize(k)
        THEN Raised
        ELSE Msg(k, [i \in DOMAIN fields |->
                        LET raw == Raw(i, fields[i].width)
                        IN  FieldValue(fields[i].form, raw, CsText(raw))],
                 PayloadValue(Registry[k].payload, CsText(payload)))
-----------------------------------------------------------------------------
(***************************************************************************)
(* make_build_id.  Of SHA-1 only matters that different texts have         *)
(* different sums, so a text is its own sum.                               *)
(***************************************************************************)
Slash == 47

LastSlash(path) == SelectLastInSeq(path, LAMBDA c : c = Slash)

\* dirname and basename of a path that does not end in a slash.
Basename(path) == SubSeq(path, LastSlash(path) + 1, Len(path))
Dirname(path)  == SubSeq(path, 1, IF LastSlash(path) = 1 THEN 1 ELSE LastSlash(path) - 1)

Precedes(s, t) ==
    \/ IsStrictPrefix(s, t)
    \/ \E i \in DOMAIN s \cap DOMAIN t :
          s[i] < t[i] /\ \A j \in 1 .. i - 1 : s[j] = t[j]

FolderPrecedes(p, q) ==
    \/ Precedes(Dirname(p), Dirname(q))
    \/ Dirname(p) = Dirname(q) /\ Precedes(Basename(p), Basename(q))

Ascending(s) == \A i \in 2 .. Len(s) : FolderPrecedes(s[i - 1], s[i])

SortedFolders(folders) == CHOOSE s \in SetToSeqs(ToSet(folders)) : Ascending(s)

BuildIdUnsorted(folders) ==     \* mutant: the folders as they come
    Concat(folders)

BuildId(folders) == Concat(SortedFolders(folders))
=============================================================================
