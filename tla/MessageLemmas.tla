--------------------------- MODULE MessageLemmas ---------------------------
(***************************************************************************)
(* What both programs make of a message, for messages of every kind and    *)
(* all values: the bytes of its fields lie where the other program looks   *)
(* for them, and what each decoder reads there is what the encoder put in, *)
(* as far as the field had room for it.  Last, the order of the folders of *)
(* a project, which makes one build id of them.                            *)
(***************************************************************************)
EXTENDS Messages, EncodingLemmas

(***************************************************************************)
(* Layouts: the fields of a message follow each other without a gap, and   *)
(* the offsets of the server are the places of the package's formats.      *)
(***************************************************************************)
Starts(f, fields, n) ==
    [i \in 1 .. n + 1 |-> IF i = 1 THEN 2 ELSE f[i - 1] + fields[i - 1].width]

LEMMA StartsFixed ==
    ASSUME NEW fields
    PROVE  \A n \in Nat : \E f : f = Starts(f, fields, n)
<1> DEFINE P(n) == \E f : f = Starts(f, fields, n)
<1>1. P(0)
  <2> DEFINE f == [i \in 1 .. 0 + 1 |-> 2]
  <2>1. f = Starts(f, fields, 0)
    BY DEF Starts
  <2> QED
    BY <2>1
<1>2. ASSUME NEW n \in Nat, P(n) PROVE P(n + 1)
  <2>1. PICK f : f = Starts(f, fields, n)
    BY <1>2
  <2> DEFINE k == n + 1
             g == [i \in 1 .. k + 1 |-> IF i = k + 1 THEN f[k] + fields[k].width ELSE f[i]]
  <2>0. k \in Nat /\ k >= 1
    OBVIOUS
  <2>4. f = Starts(f, fields, n) /\ \A i \in 1 .. k : f[i] = IF i = 1 THEN 2 ELSE f[i - 1] + fields[i - 1].width
    BY <2>1 DEF Starts
  <2> HIDE DEF k
  <2>2. ASSUME NEW i \in 1 .. k + 1 PROVE g[i] = Starts(g, fields, k)[i]
    <3>1. CASE i = k + 1
      <4>1. i # 1 /\ i - 1 = k /\ k \in 1 .. k + 1 /\ k # k + 1
        BY <2>0, <3>1
      <4>2. g[i] = f[k] + fields[k].width /\ g[k] = f[k]
        BY <3>1, <4>1
      <4> HIDE DEF g
      <4> QED
        BY <3>1, <4>1, <4>2 DEF Starts
    <3>2. CASE i = 1
      <4>1. f[1] = 2 /\ 1 # k + 1
        BY <2>0, <2>4
      <4>2. g[i] = 2
        BY <3>2, <4>1
      <4> HIDE DEF g
      <4> QED
        BY <3>2, <4>2 DEF Starts
    <3>3. CASE i # k + 1 /\ i # 1
      <4>1. i \in 1 .. k /\ i - 1 \in 1 .. k + 1 /\ i - 1 # k + 1
        BY <2>0, <3>3
      <4>2. g[i] = f[i] /\ g[i - 1] = f[i - 1]
        BY <3>3, <4>1
      <4>3. f[i] = f[i - 1] + fields[i - 1].width
        BY <2>4, <3>3, <4>1
      <4> HIDE DEF g
      <4> QED
        BY <3>3, <4>2, <4>3 DEF Starts
    <3> QED
      BY <3>1, <3>2, <3>3
  <2>3. g = Starts(g, fields, k)
    <3>1. g = [i \in 1 .. k + 1 |-> g[i]] /\ Starts(g, fields, k) = [i \in 1 .. k + 1 |-> Starts(g, fields, k)[i]]
      BY DEF Starts
    <3> HIDE DEF g
    <3> QED
      BY <2>2, <3>1
  <2> HIDE DEF g
  <2> QED
    BY <2>3 DEF k
<1> DEFINE T == {n \in Nat : P(n)}
<1> HIDE DEF P
<1>3. T \in SUBSET Nat /\ 0 \in T /\ \A n \in T : n + 1 \in T
  BY <1>1, <1>2
<1>4. \A n \in Nat : n \in T
  <2> HIDE DEF T
  <2> QED
    BY <1>3, Induction
<1> QED
  BY <1>4 DEF P

LEMMA StartIs ==
    ASSUME NEW fields, Len(fields) \in Nat
    PROVE  /\ Start(fields, 1) = 2
           /\ \A i \in 1 .. Len(fields) :
                  Start(fields, i + 1) = Start(fields, i) + fields[i].width
<1> DEFINE f == CHOOSE g : g = Starts(g, fields, Len(fields))
<1>1. \A n : Start(fields, n) = f[n]
  BY Zenon DEF Start, Starts
<1>2. f = Starts(f, fields, Len(fields))
  BY StartsFixed
<1> HIDE DEF f
<1>3. f[1] = 2
  BY <1>2 DEF Starts
<1>4. ASSUME NEW i \in 1 .. Len(fields) PROVE f[i + 1] = f[i] + fields[i].width
  <2>1. i + 1 \in 1 .. Len(fields) + 1 /\ i + 1 # 1 /\ (i + 1) - 1 = i
    OBVIOUS
  <2> QED
    BY <1>2, <2>1 DEF Starts
<1> QED
  BY <1>1, <1>3, <1>4

\* What is known of the fields of a kind.
Forms == {"number", "text", "flag"}

FieldsKnown(k) ==
    LET fields == Registry[k].fields
    IN  /\ Len(fields) \in 0 .. 5 /\ DOMAIN fields = 1 .. Len(fields)
        /\ \A i \in 1 .. Len(fields) :
              /\ fields[i].form \in Forms /\ fields[i].width \in Nat
              /\ fields[i].form = "number" => fields[i].width \in {1, 2, 4}
              /\ fields[i].form = "flag" => fields[i].width = 1
        /\ Registry[k].payload \in {"none", "text", "names", "content"}
        /\ Registry[k].payload = "content" <=> k = FileContent
        /\ Registry[k].payload = "names" <=> k = SetBuild

LEMMA RegistryKnown == \A k \in Kinds : FieldsKnown(k)
<1>1. Kinds = {0, 1, 2, 3, 4, 5, 6, 7, 8}
  BY DEF Kinds
<1>2. FieldsKnown(0)
  <2> DEFINE fields == Registry[0].fields
  <2>1. /\ fields = <<U(1), Str(64), Str(64), Str(64), Str(8)>> /\ Registry[0].payload = "none"
    BY DEF Kinds, Registry, Layout, IntroductionMessage
  <2> HIDE DEF fields
  <2>2. /\ Len(fields) = 5 /\ DOMAIN fields = 1 .. 5
        /\ fields[1].form = "number" /\ fields[1].width = 1
        /\ fields[2].form = "text" /\ fields[2].width = 64
        /\ fields[3].form = "text" /\ fields[3].width = 64
        /\ fields[4].form = "text" /\ fields[4].width = 64
        /\ fields[5].form = "text" /\ fields[5].width = 8
    BY <2>1 DEF U, Str
  <2>3. \A i \in 1 .. 5 :
              /\ fields[i].form \in Forms /\ fields[i].width \in Nat
              /\ fields[i].form = "number" => fields[i].width \in {1, 2, 4}
              /\ fields[i].form = "flag" => fields[i].width = 1
    BY <2>2 DEF Forms
  <2> QED
    BY <2>1, <2>2, <2>3 DEF FieldsKnown, FileContent, SetBuild, fields
<1>3. FieldsKnown(1)
  BY DEF FieldsKnown, Forms, Kinds, Registry, Layout, U, Str, Flag, MessageMessage, FileContent, SetBuild
<1>4. FieldsKnown(2)
  BY DEF FieldsKnown, Forms, Kinds, Registry, Layout, U, Str, Flag, ErrorMessage, FileContent, SetBuild
<1>5. FieldsKnown(3)
  BY DEF FieldsKnown, Forms, Kinds, Registry, Layout, U, Str, Flag, SetBuildMessage, FileContent, SetBuild
<1>6. FieldsKnown(4)
  BY DEF FieldsKnown, Forms, Kinds, Registry, Layout, U, Str, Flag, AcknowledgeMessage, FileContent, SetBuild
<1>7. FieldsKnown(5)
  BY DEF FieldsKnown, Forms, Kinds, Registry, Layout, U, Str, Flag, FileContentMessage, FileContent, SetBuild
<1>8. FieldsKnown(6)
  BY DEF FieldsKnown, Forms, Kinds, Registry, Layout, U, Str, Flag, ExecuteBuildMessage, FileContent, SetBuild
<1>9. FieldsKnown(7)
  BY DEF FieldsKnown, Forms, Kinds, Registry, Layout, U, Str, Flag, BuildOutputMessage, FileContent, SetBuild
<1>10. FieldsKnown(8)
  BY DEF FieldsKnown, Forms, Kinds, Registry, Layout, U, Str, Flag, BuildCompleteMessage, FileContent, SetBuild
<1> QED
  BY <1>1, <1>2, <1>3, <1>4, <1>5, <1>6, <1>7, <1>8, <1>9, <1>10

\* The place of every field is in both programs the same.
SameOffsets(k) ==
    LET fields == Registry[k].fields
    IN  /\ \A j \in 1 .. Len(fields) : Offsets(k)[j] = Start(fields, j)
        /\ HasPayload(k) => /\ Offsets(k)[Len(fields) + 1] = FixedSize(k)
                            /\ Offsets(k)[Len(fields) + 2] = FixedSize(k) + 4
        /\ FixedSize(k) \in Nat /\ 2 <= FixedSize(k) /\ FixedSize(k) <= 514

LEMMA OffsetsAgree == \A k \in Kinds : SameOffsets(k)
<1>1. Kinds = {0, 1, 2, 3, 4, 5, 6, 7, 8}
  BY DEF Kinds
<1>2. SameOffsets(0)
  <2> DEFINE fields == Registry[0].fields
  <2>1. /\ Len(fields) = 5 /\ fields[1].width = 1 /\ fields[2].width = 64
        /\ fields[3].width = 64 /\ fields[4].width = 64 /\ fields[5].width = 8
        /\ Registry[0].payload = "none"
    BY DEF Kinds, Registry, Layout, U, Str, IntroductionMessage
  <2>2. Offsets(0) = <<2, 3, 67, 131, 195>>
    BY DEF Offsets
  <2> HIDE DEF fields
  <2>8. Len(fields) \in Nat /\ Len(fields) = 5
    BY <2>1
  <2>3. /\ Start(fields, 1) = 2
        /\ \A i \in 1 .. Len(fields) : Start(fields, i + 1) = Start(fields, i) + fields[i].width
    BY <2>8, StartIs
  <2>4. /\ Start(fields, 1 + 1) = 3 /\ Start(fields, 2 + 1) = 67 /\ Start(fields, 3 + 1) = 131
        /\ Start(fields, 4 + 1) = 195 /\ Start(fields, 5 + 1) = 203
    BY <2>1, <2>3
  <2>5. \A j \in 1 .. 5 : Offsets(0)[j] = Start(fields, j)
    BY <2>2, <2>3, <2>4
  <2>6. FixedSize(0) = 203
    BY <2>1, <2>4 DEF FixedSize, fields
  <2> QED
    BY <2>1, <2>5, <2>6 DEF SameOffsets, HasPayload, fields
<1>3. SameOffsets(1)
  <2> DEFINE fields == Registry[1].fields
  <2>1. /\ Len(fields) = 0
        /\ Registry[1].payload = "text"
    BY DEF Kinds, Registry, Layout, MessageMessage
  <2>2. Offsets(1) = <<2, 6>>
    BY DEF Offsets
  <2> HIDE DEF fields
  <2>8. Len(fields) \in Nat /\ Len(fields) = 0
    BY <2>1
  <2>3. /\ Start(fields, 1) = 2
        /\ \A i \in 1 .. Len(fields) : Start(fields, i + 1) = Start(fields, i) + fields[i].width
    BY <2>8, StartIs
  <2>5. \A j \in 1 .. 0 : Offsets(1)[j] = Start(fields, j)
    BY <2>2, <2>3
  <2>6. FixedSize(1) = 2
    BY <2>1, <2>3 DEF FixedSize, fields
  <2>7. Offsets(1)[1] = 2 /\ Offsets(1)[2] = 6
    BY <2>2
  <2> QED
    BY <2>1, <2>5, <2>6, <2>7 DEF SameOffsets, HasPayload, fields
<1>4. SameOffsets(2)
  <2> DEFINE fields == Registry[2].fields
  <2>1. /\ Len(fields) = 1 /\ fields[1].width = 4
        /\ Registry[2].payload = "text"
    BY DEF Kinds, Registry, Layout, U, ErrorMessage
  <2>2. Offsets(2) = <<2, 6, 10>>
    BY DEF Offsets
  <2> HIDE DEF fields
  <2>8. Len(fields) \in Nat /\ Len(fields) = 1
    BY <2>1
  <2>3. /\ Start(fields, 1) = 2
        /\ \A i \in 1 .. Len(fields) : Start(fields, i + 1) = Start(fields, i) + fields[i].width
    BY <2>8, StartIs
  <2>4. Start(fields, 1 + 1) = 6
    BY <2>1, <2>3
  <2>5. \A j \in 1 .. 1 : Offsets(2)[j] = Start(fields, j)
    BY <2>2, <2>3, <2>4
  <2>6. FixedSize(2) = 6
    BY <2>1, <2>4 DEF FixedSize, fields
  <2>7. Offsets(2)[2] = 6 /\ Offsets(2)[3] = 10
    BY <2>2
  <2> QED
    BY <2>1, <2>5, <2>6, <2>7 DEF SameOffsets, HasPayload, fields
<1>5. SameOffsets(3)
  <2> DEFINE fields == Registry[3].fields
  <2>1. /\ Len(fields) = 0
        /\ Registry[3].payload = "names"
    BY DEF Kinds, Registry, Layout, SetBuildMessage
  <2>2. Offsets(3) = <<2, 6>>
    BY DEF Offsets
  <2> HIDE DEF fields
  <2>8. Len(fields) \in Nat /\ Len(fields) = 0
    BY <2>1
  <2>3. /\ Start(fields, 1) = 2
        /\ \A i \in 1 .. Len(fields) : Start(fields, i + 1) = Start(fields, i) + fields[i].width
    BY <2>8, StartIs
  <2>5. \A j \in 1 .. 0 : Offsets(3)[j] = Start(fields, j)
    BY <2>2, <2>3
  <2>6. FixedSize(3) = 2
    BY <2>1, <2>3 DEF FixedSize, fields
  <2>7. Offsets(3)[1] = 2 /\ Offsets(3)[2] = 6
    BY <2>2
  <2> QED
    BY <2>1, <2>5, <2>6, <2>7 DEF SameOffsets, HasPayload, fields
<1>6. SameOffsets(4)
  <2> DEFINE fields == Registry[4].fields
  <2>1. /\ Len(fields) = 2 /\ fields[1].width = 2 /\ fields[2].width = 1
        /\ Registry[4].payload = "none"
    BY DEF Kinds, Registry, Layout, U, Flag, AcknowledgeMessage
  <2>2. Offsets(4) = <<2, 4>>
    BY DEF Offsets
  <2> HIDE DEF fields
  <2>8. Len(fields) \in Nat /\ Len(fields) = 2
    BY <2>1
  <2>3. /\ Start(fields, 1) = 2
        /\ \A i \in 1 .. Len(fields) : Start(fields, i + 1) = Start(fields, i) + fields[i].width
    BY <2>8, StartIs
  <2>4. Start(fields, 1 + 1) = 4 /\ Start(fields, 2 + 1) = 5
    BY <2>1, <2>3
  <2>5. \A j \in 1 .. 2 : Offsets(4)[j] = Start(fields, j)
    BY <2>2, <2>3, <2>4
  <2>6. FixedSize(4) = 5
    BY <2>1, <2>4 DEF FixedSize, fields
  <2> QED
    BY <2>1, <2>5, <2>6 DEF SameOffsets, HasPayload, fields
<1>7. SameOffsets(5)
  <2> DEFINE fields == Registry[5].fields
  <2>1. /\ Len(fields) = 2 /\ fields[1].width = 256 /\ fields[2].width = 256
        /\ Registry[5].payload = "content"
    BY DEF Kinds, Registry, Layout, Str, FileContentMessage
  <2>2. Offsets(5) = <<2, 258, 514, 518>>
    BY DEF Offsets
  <2> HIDE DEF fields
  <2>8. Len(fields) \in Nat /\ Len(fields) = 2
    BY <2>1
  <2>3. /\ Start(fields, 1) = 2
        /\ \A i \in 1 .. Len(fields) : Start(fields, i + 1) = Start(fields, i) + fields[i].width
    BY <2>8, StartIs
  <2>4. Start(fields, 1 + 1) = 258 /\ Start(fields, 2 + 1) = 514
    BY <2>1, <2>3
  <2>5. \A j \in 1 .. 2 : Offsets(5)[j] = Start(fields, j)
    BY <2>2, <2>3, <2>4
  <2>6. FixedSize(5) = 514
    BY <2>1, <2>4 DEF FixedSize, fields
  <2>7. Offsets(5)[3] = 514 /\ Offsets(5)[4] = 518
    BY <2>2
  <2> QED
    BY <2>1, <2>5, <2>6, <2>7 DEF SameOffsets, HasPayload, fields
<1>8. SameOffsets(6)
  <2> DEFINE fields == Registry[6].fields
  <2>1. /\ Len(fields) = 0
        /\ Registry[6].payload = "text"
    BY DEF Kinds, Registry, Layout, ExecuteBuildMessage
  <2>2. Offsets(6) = <<2, 6>>
    BY DEF Offsets
  <2> HIDE DEF fields
  <2>8. Len(fields) \in Nat /\ Len(fields) = 0
    BY <2>1
  <2>3. /\ Start(fields, 1) = 2
        /\ \A i \in 1 .. Len(fields) : Start(fields, i + 1) = Start(fields, i) + fields[i].width
    BY <2>8, StartIs
  <2>5. \A j \in 1 .. 0 : Offsets(6)[j] = Start(fields, j)
    BY <2>2, <2>3
  <2>6. FixedSize(6) = 2
    BY <2>1, <2>3 DEF FixedSize, fields
  <2>7. Offsets(6)[1] = 2 /\ Offsets(6)[2] = 6
    BY <2>2
  <2> QED
    BY <2>1, <2>5, <2>6, <2>7 DEF SameOffsets, HasPayload, fields
<1>9. SameOffsets(7)
  <2> DEFINE fields == Registry[7].fields
  <2>1. /\ Len(fields) = 1 /\ fields[1].width = 1
        /\ Registry[7].payload = "text"
    BY DEF Kinds, Registry, Layout, Flag, BuildOutputMessage
  <2>2. Offsets(7) = <<2, 3, 7>>
    BY DEF Offsets
  <2> HIDE DEF fields
  <2>8. Len(fields) \in Nat /\ Len(fields) = 1
    BY <2>1
  <2>3. /\ Start(fields, 1) = 2
        /\ \A i \in 1 .. Len(fields) : Start(fields, i + 1) = Start(fields, i) + fields[i].width
    BY <2>8, StartIs
  <2>4. Start(fields, 1 + 1) = 3
    BY <2>1, <2>3
  <2>5. \A j \in 1 .. 1 : Offsets(7)[j] = Start(fields, j)
    BY <2>2, <2>3, <2>4
  <2>6. FixedSize(7) = 3
    BY <2>1, <2>4 DEF FixedSize, fields
  <2>7. Offsets(7)[2] = 3 /\ Offsets(7)[3] = 7
    BY <2>2
  <2> QED
    BY <2>1, <2>5, <2>6, <2>7 DEF SameOffsets, HasPayload, fields
<1>10. SameOffsets(8)
  <2> DEFINE fields == Registry[8].fields
  <2>1. /\ Len(fields) = 1 /\ fields[1].width = 2
        /\ Registry[8].payload = "none"
    BY DEF Kinds, Registry, Layout, U, BuildCompleteMessage
  <2>2. Offsets(8) = <<2>>
    BY DEF Offsets
  <2> HIDE DEF fields
  <2>8. Len(fields) \in Nat /\ Len(fields) = 1
    BY <2>1
  <2>3. /\ Start(fields, 1) = 2
        /\ \A i \in 1 .. Len(fields) : Start(fields, i + 1) = Start(fields, i) + fields[i].width
    BY <2>8, StartIs
  <2>4. Start(fields, 1 + 1) = 4
    BY <2>1, <2>3
  <2>5. \A j \in 1 .. 1 : Offsets(8)[j] = Start(fields, j)
    BY <2>2, <2>3, <2>4
  <2>6. FixedSize(8) = 4
    BY <2>1, <2>4 DEF FixedSize, fields
  <2> QED
    BY <2>1, <2>5, <2>6 DEF SameOffsets, HasPayload, fields
<1> QED
  BY <1>1, <1>2, <1>3, <1>4, <1>5, <1>6, <1>7, <1>8, <1>9, <1>10

-----------------------------------------------------------------------------
(***************************************************************************)
(* What was put one after the other is found where it was put.             *)
(***************************************************************************)
Holds(b, p, y) ==
    p \in Nat /\ p + Len(y) <= Len(b) /\ \A i \in 1 .. Len(y) : b[p + i] = y[i]

LEMMA HoldsSub ==
    ASSUME NEW S, NEW b \in Seq(S), NEW y \in Seq(S), NEW p, Holds(b, p, y)
    PROVE  SubSeq(b, p + 1, p + Len(y)) = y
<1> DEFINE s == SubSeq(b, p + 1, p + Len(y))
<1>1. /\ p \in Nat /\ Len(y) \in Nat /\ Len(b) \in Nat /\ p + Len(y) <= Len(b)
      /\ \A i \in 1 .. Len(y) : b[p + i] = y[i]
  BY DEF Holds
<1>2. s \in Seq(S) /\ Len(s) = Len(y) /\ \A i \in 1 .. Len(y) : s[i] = b[p + i]
  BY <1>1
<1> HIDE DEF s
<1>3. \A i \in 1 .. Len(s) : s[i] = y[i]
  BY <1>1, <1>2
<1>4. s = y
  BY <1>2, <1>3, SeqEqual
<1> QED
  BY <1>4 DEF s

LEMMA CatHolds ==
    ASSUME NEW S, NEW x \in Seq(S), NEW y \in Seq(S), NEW z \in Seq(S),
           NEW b, b = Cat(Cat(x, y), z)
    PROVE  Holds(b, Len(x), y)
<1> DEFINE c == x \o y
<1>1. /\ c \in Seq(S) /\ Len(c) = Len(x) + Len(y) /\ Len(x) \in Nat /\ Len(y) \in Nat
      /\ \A i \in 1 .. Len(y) : c[Len(x) + i] = y[i]
  BY CatFacts
<1>2. b = c \o z
  BY DEF Cat
<1> HIDE DEF c
<1>3. c \in Seq(S) /\ z \in Seq(S)
  BY <1>1
<1>4. /\ c \o z \in Seq(S) /\ Len(c \o z) = Len(c) + Len(z) /\ Len(z) \in Nat
      /\ \A i \in 1 .. Len(c) : (c \o z)[i] = c[i]
  BY <1>3, CatFacts
<1>5. Len(x) + Len(y) <= Len(b)
  BY <1>1, <1>2, <1>4
<1>6. ASSUME NEW i \in 1 .. Len(y) PROVE b[Len(x) + i] = y[i]
  <2>1. Len(x) + i \in 1 .. Len(c)
    BY <1>1
  <2> QED
    BY <1>1, <1>2, <1>4, <2>1
<1> QED
  BY <1>1, <1>5, <1>6 DEF Holds

LEMMA ConcatHolds ==
    ASSUME NEW S, NEW seqs, NEW f, Sums(f, seqs, S), NEW h \in Seq(S),
           NEW b, b = h \o Concat(seqs), NEW j \in 1 .. Len(seqs)
    PROVE  Holds(b, Len(h) + Len(f[j - 1]), seqs[j])
<1>1. /\ Len(seqs) \in Nat /\ j \in 0 .. Len(seqs) /\ Len(seqs) \in j .. Len(seqs)
      /\ j - 1 \in 0 .. Len(seqs)
  BY SumsMeans
<1>2. PICK d \in Seq(S) : f[Len(seqs)] = Cat(f[j], d)
  BY <1>1, Between
<1>3. f[j - 1] \in Seq(S) /\ seqs[j] \in Seq(S) /\ f[j] = Cat(f[j - 1], seqs[j]) /\ f[j] \in Seq(S)
  BY <1>1, SumsMeans
<1>4. b = Cat(h, f[Len(seqs)])
  BY ConcatAdds DEF Cat
<1> DEFINE x == f[j - 1]
           y == seqs[j]
           hx == Cat(h, x)
<1>5. x \in Seq(S) /\ y \in Seq(S) /\ h \in Seq(S)
  BY <1>3
<1>6. b = Cat(h, Cat(Cat(x, y), d))
  BY <1>2, <1>3, <1>4
<1> HIDE DEF x, y
<1>7. Cat(x, y) \in Seq(S) /\ hx \in Seq(S)
  BY <1>5, CatType
<1>8. Cat(h, Cat(Cat(x, y), d)) = Cat(Cat(h, Cat(x, y)), d)
  BY <1>5, <1>7, CatAssociative
<1>9. Cat(h, Cat(x, y)) = Cat(hx, y)
  BY <1>5, CatAssociative
<1>10. b = Cat(Cat(hx, y), d)
  BY <1>6, <1>8, <1>9
<1>11. Len(hx) = Len(h) + Len(x)
  BY <1>5 DEF Cat
<1> HIDE DEF hx
<1>12. Holds(b, Len(hx), y)
  BY <1>5, <1>7, <1>10, CatHolds
<1> QED
  BY <1>11, <1>12 DEF x, y

LengthsAdd(f, seqs) ==
    /\ Len(f[0]) = 0 /\ \A j \in 0 .. Len(seqs) : Len(f[j]) \in Nat
    /\ \A j \in 1 .. Len(seqs) :
          Len(seqs[j]) \in Nat /\ Len(f[j]) = Len(f[j - 1]) + Len(seqs[j])

LEMMA SumLengths ==
    ASSUME NEW S, NEW seqs, NEW f, Sums(f, seqs, S)
    PROVE  LengthsAdd(f, seqs)
<1>1. /\ Len(seqs) \in Nat /\ f[0] = << >>
      /\ \A i \in 0 .. Len(seqs) : f[i] \in Seq(S)
      /\ \A i \in 1 .. Len(seqs) : seqs[i] \in Seq(S) /\ f[i] = Cat(f[i - 1], seqs[i])
  BY SumsMeans
<1>2. \A j \in 0 .. Len(seqs) : Len(f[j]) \in Nat
  BY <1>1
<1>3. ASSUME NEW j \in 1 .. Len(seqs)
      PROVE  Len(seqs[j]) \in Nat /\ Len(f[j]) = Len(f[j - 1]) + Len(seqs[j])
  <2> DEFINE x == f[j - 1]
             y == seqs[j]
  <2>1. x \in Seq(S) /\ y \in Seq(S) /\ f[j] = Cat(x, y)
    BY <1>1
  <2> HIDE DEF x, y
  <2>2. Len(Cat(x, y)) = Len(x) + Len(y) /\ Len(y) \in Nat
    BY <2>1 DEF Cat
  <2> QED
    BY <2>1, <2>2 DEF x, y
<1> QED
  BY <1>1, <1>2, <1>3 DEF LengthsAdd

LEMMA ConcatCovered ==
    ASSUME NEW S, NEW seqs, NEW f, Sums(f, seqs, S), NEW i \in 1 .. Len(f[Len(seqs)])
    PROVE  \E j \in 1 .. Len(seqs) : i \in Len(f[j - 1]) + 1 .. Len(f[j - 1]) + Len(seqs[j])
<1>1. /\ Len(f[0]) = 0 /\ \A j \in 0 .. Len(seqs) : Len(f[j]) \in Nat
      /\ \A j \in 1 .. Len(seqs) :
                 Len(seqs[j]) \in Nat /\ Len(f[j]) = Len(f[j - 1]) + Len(seqs[j])
  <2>1. LengthsAdd(f, seqs)
    BY SumLengths
  <2> QED
    BY <2>1 DEF LengthsAdd
<1>2. Len(seqs) \in Nat
  BY SumsMeans
<1> DEFINE T == {j \in 0 .. Len(seqs) : i <= Len(f[j])}
<1>3. T \in SUBSET Nat /\ T # {}
  <2>1. Len(seqs) \in T
    BY <1>1, <1>2
  <2> QED
    BY <1>2, <2>1
<1> HIDE DEF T
<1>4. PICK j \in T : \A m \in T : j <= m
  BY <1>3, LeastNatural
<1>5. j \in 0 .. Len(seqs) /\ i <= Len(f[j])
  BY DEF T
<1>6. j # 0
  BY <1>1, <1>2, <1>5
<1>7. j \in 1 .. Len(seqs) /\ j - 1 \in 0 .. Len(seqs)
  BY <1>2, <1>5, <1>6
<1>8. ~(i <= Len(f[j - 1]))
  <2>1. ~(j <= j - 1)
    BY <1>7
  <2> QED
    BY <1>4, <1>7, <2>1 DEF T
<1>11. Len(f[Len(seqs)]) \in Nat /\ i \in Nat
  BY <1>1, <1>2
<1>9. i \in Nat /\ Len(f[j - 1]) \in Nat /\ Len(seqs[j]) \in Nat /\ Len(f[j]) = Len(f[j - 1]) + Len(seqs[j])
  BY <1>1, <1>7, <1>11
<1>10. i \in Len(f[j - 1]) + 1 .. Len(f[j - 1]) + Len(seqs[j])
  <2> DEFINE p == Len(f[j - 1])
             q == Len(seqs[j])
             r == Len(f[j])
  <2>1. i \in Nat /\ p \in Nat /\ q \in Nat /\ r = p + q /\ i <= r /\ ~(i <= p)
    BY <1>5, <1>8, <1>9
  <2> HIDE DEF p, q, r
  <2>2. i \in p + 1 .. p + q
    BY <2>1
  <2> QED
    BY <2>2 DEF p, q
<1> QED
  BY <1>7, <1>10
-----------------------------------------------------------------------------
\* The pieces of a message: its fields, then the count and the payload.
Place(k, j) ==
    LET fields == Registry[k].fields
    IN  IF j <= Len(fields) THEN Start(fields, j)
        ELSE IF j = Len(fields) + 1 THEN FixedSize(k) ELSE FixedSize(k) + 4

Laid(k, pieces) ==
    LET fields == Registry[k].fields
    IN  /\ k \in Kinds /\ pieces \in Seq(Seq(Byte))
        /\ Len(pieces) = Len(fields) + (IF HasPayload(k) THEN 2 ELSE 0)
        /\ \A j \in 1 .. Len(fields) : Len(pieces[j]) = fields[j].width
        /\ HasPayload(k) => Len(pieces[Len(fields) + 1]) = 4

LEMMA PlacesAre ==
    ASSUME NEW k, NEW pieces, Laid(k, pieces), NEW f, Sums(f, pieces, Byte)
    PROVE  /\ \A j \in 1 .. Len(pieces) : /\ Place(k, j) = 2 + Len(f[j - 1])
                                          /\ Offsets(k)[j] = Place(k, j)
           /\ 2 + Len(f[Len(pieces)]) =
                  FixedSize(k) + (IF HasPayload(k)
                                  THEN 4 + Len(pieces[Len(Registry[k].fields) + 2]) ELSE 0)
<1> DEFINE fields == Registry[k].fields
           n == Len(fields)
<1>1. /\ k \in Kinds /\ Len(pieces) = n + (IF HasPayload(k) THEN 2 ELSE 0)
      /\ \A j \in 1 .. n : Len(pieces[j]) = fields[j].width
      /\ HasPayload(k) => Len(pieces[n + 1]) = 4
  BY DEF Laid
<1>2. n \in Nat /\ FieldsKnown(k) /\ SameOffsets(k)
  BY <1>1, RegistryKnown, OffsetsAgree DEF FieldsKnown
<1>3. /\ Start(fields, 1) = 2
      /\ \A i \in 1 .. n : Start(fields, i + 1) = Start(fields, i) + fields[i].width
  BY <1>2, StartIs
<1>4. /\ Len(f[0]) = 0 /\ \A j \in 0 .. Len(pieces) : Len(f[j]) \in Nat
      /\ \A j \in 1 .. Len(pieces) :
                 Len(pieces[j]) \in Nat /\ Len(f[j]) = Len(f[j - 1]) + Len(pieces[j])
  <2>1. LengthsAdd(f, pieces)
    BY SumLengths
  <2> QED
    BY <2>1 DEF LengthsAdd
<1>5. /\ \A j \in 1 .. n : Offsets(k)[j] = Start(fields, j)
      /\ HasPayload(k) => Offsets(k)[n + 1] = FixedSize(k) /\ Offsets(k)[n + 2] = FixedSize(k) + 4
      /\ FixedSize(k) = Start(fields, n + 1) /\ FixedSize(k) \in Nat
  BY <1>2 DEF SameOffsets, FixedSize
<1>6. \A j : Place(k, j) = IF j <= n THEN Start(fields, j)
                           ELSE IF j = n + 1 THEN FixedSize(k) ELSE FixedSize(k) + 4
  BY DEF Place
<1> HIDE DEF n, fields
<1> DEFINE P(j) == j <= n => Start(fields, j + 1) = 2 + Len(f[j])
           T == {j \in Nat : P(j)}
<1>7. P(0)
  BY <1>2, <1>3, <1>4
<1>8. ASSUME NEW j \in Nat, P(j) PROVE P(j + 1)
  <2> SUFFICES ASSUME j + 1 <= n PROVE Start(fields, (j + 1) + 1) = 2 + Len(f[j + 1])
    OBVIOUS
  <2>1. j + 1 \in 1 .. n /\ j + 1 \in 1 .. Len(pieces) /\ j \in 0 .. Len(pieces) /\ (j + 1) - 1 = j
    BY <1>1, <1>2
  <2>2. Start(fields, (j + 1) + 1) = Start(fields, j + 1) + fields[j + 1].width
    BY <1>3, <2>1
  <2>3. Len(f[j + 1]) = Len(f[j]) + fields[j + 1].width /\ fields[j + 1].width \in Nat /\ Len(f[j]) \in Nat
    BY <1>1, <1>4, <2>1
  <2>4. Start(fields, j + 1) = 2 + Len(f[j])
    BY <1>2, <1>8, <2>1
  <2> QED
    BY <2>2, <2>3, <2>4
<1>9. T \in SUBSET Nat /\ 0 \in T /\ \A j \in T : j + 1 \in T
  <2> HIDE DEF P
  <2> QED
    BY <1>7, <1>8
<1> HIDE DEF T
<1>10. \A j \in Nat : j \in T
  BY <1>9, Induction
<1>11. \A j \in 0 .. n : Start(fields, j + 1) = 2 + Len(f[j])
  BY <1>2, <1>10 DEF T
<1>12. FixedSize(k) = 2 + Len(f[n])
  BY <1>2, <1>5, <1>11
<1>13. HasPayload(k) => /\ Len(f[n + 1]) = Len(f[n]) + 4
                        /\ Len(f[n + 2]) = Len(f[n + 1]) + Len(pieces[n + 2])
                        /\ Len(pieces[n + 2]) \in Nat
  <2> SUFFICES ASSUME HasPayload(k)
               PROVE /\ Len(f[n + 1]) = Len(f[n]) + 4
                     /\ Len(f[n + 2]) = Len(f[n + 1]) + Len(pieces[n + 2])
                     /\ Len(pieces[n + 2]) \in Nat
    OBVIOUS
  <2>1. /\ n + 1 \in 1 .. Len(pieces) /\ n + 2 \in 1 .. Len(pieces)
        /\ (n + 1) - 1 = n /\ (n + 2) - 1 = n + 1
    BY <1>1, <1>2
  <2> QED
    BY <1>1, <1>4, <2>1
<1>14. n \in 0 .. Len(pieces) /\ Len(f[n]) \in Nat
  BY <1>1, <1>2, <1>4
<1>15. ASSUME NEW j \in 1 .. Len(pieces)
       PROVE  Place(k, j) = 2 + Len(f[j - 1]) /\ Offsets(k)[j] = Place(k, j)
  <2>1. CASE j <= n
    <3>1. j \in 1 .. n /\ j - 1 \in 0 .. n /\ (j - 1) + 1 = j
      BY <1>2, <2>1
    <3> QED
      BY <1>5, <1>6, <1>11, <2>1, <3>1
  <2>2. CASE j = n + 1
    <3>1. HasPayload(k) /\ ~(j <= n) /\ j - 1 = n
      BY <1>1, <1>2, <2>2
    <3> QED
      BY <1>5, <1>6, <1>12, <2>2, <3>1
  <2>3. CASE j > n + 1
    <3>1. HasPayload(k) /\ ~(j <= n) /\ j # n + 1 /\ j = n + 2 /\ j - 1 = n + 1
      BY <1>1, <1>2, <2>3
    <3>2. 2 + Len(f[n + 1]) = FixedSize(k) + 4
      BY <1>12, <1>13, <1>14, <3>1
    <3> QED
      BY <1>5, <1>6, <3>1, <3>2
  <2> QED
    BY <1>2, <2>1, <2>2, <2>3
<1>16. CASE HasPayload(k)
  <2>1. 2 + Len(f[Len(pieces)]) = FixedSize(k) + (4 + Len(pieces[n + 2]))
    <3>1. Len(pieces) = n + 2
      BY <1>1, <1>16
    <3>2. Len(f[n + 2]) = Len(f[n]) + 4 + Len(pieces[n + 2])
      BY <1>13, <1>16
    <3> DEFINE l == Len(f[n])
               c == Len(pieces[n + 2])
    <3>3. l \in Nat /\ c \in Nat /\ Len(f[Len(pieces)]) = l + 4 + c /\ FixedSize(k) = 2 + l
      BY <1>12, <1>13, <1>14, <1>16, <3>1, <3>2
    <3> HIDE DEF l, c
    <3>4. 2 + (l + 4 + c) = (2 + l) + (4 + c)
      BY <3>3
    <3> QED
      BY <3>3, <3>4 DEF c
  <2> QED
    BY <1>15, <1>16, <2>1 DEF n, fields
<1>17. CASE ~HasPayload(k)
  <2>1. 2 + Len(f[Len(pieces)]) = FixedSize(k) + 0
    BY <1>1, <1>2, <1>5, <1>12, <1>14, <1>17
  <2> QED
    BY <1>15, <1>17, <2>1
<1> QED
  BY <1>16, <1>17

\* The bytes of a message behind its count, and a message with its count.
LEMMA BodyHolds ==
    ASSUME NEW k, NEW pieces, Laid(k, pieces), NEW b, b = Big(k, 2) \o Concat(pieces)
    PROVE  /\ b \in Seq(Byte) /\ Number(SubSeq(b, 1, 2)) = k
           /\ Len(b) = FixedSize(k) + (IF HasPayload(k)
                                       THEN 4 + Len(pieces[Len(Registry[k].fields) + 2]) ELSE 0)
           /\ \A j \in 1 .. Len(pieces) : /\ Holds(b, Place(k, j), pieces[j])
                                          /\ Offsets(k)[j] = Place(k, j)
           /\ \A i \in 1 .. Len(Concat(pieces)) :
                 \E j \in 1 .. Len(pieces) :
                    i + 2 \in Place(k, j) + 1 .. Place(k, j) + Len(pieces[j])
<1> DEFINE h == Big(k, 2)
           c == Concat(pieces)
<1>1. k \in Kinds /\ pieces \in Seq(Seq(Byte))
  BY DEF Laid
<1>2. PICK f : Sums(f, pieces, Byte)
  BY <1>1, SumsExist
<1>3. /\ \A j \in 1 .. Len(pieces) : Place(k, j) = 2 + Len(f[j - 1]) /\ Offsets(k)[j] = Place(k, j)
      /\ 2 + Len(f[Len(pieces)]) =
             FixedSize(k) + (IF HasPayload(k)
                             THEN 4 + Len(pieces[Len(Registry[k].fields) + 2]) ELSE 0)
  BY <1>2, PlacesAre
<1>4. c = f[Len(pieces)] /\ c \in Seq(Byte)
  BY <1>1, <1>2, ConcatAdds, ConcatType
<1>5. h \in Seq(Byte) /\ Len(h) = 2 /\ Number(h) = k
  <2>1. k \in Nat /\ k <= 8
    BY <1>1 DEF Kinds
  <2>2. k \div 256 < 256
    BY <2>1
  <2>3. InWidth(k, 2)
    BY <2>1, <2>2, WeightIs DEF InWidth
  <2> QED
    BY <2>1, <2>3, BigType, NumberBack
<1>6. b = h \o c
  OBVIOUS
<1> HIDE DEF h, c
<1>7. h \in Seq(Byte) /\ c \in Seq(Byte)
  BY <1>4, <1>5
<1>8. /\ Len(c) \in Nat /\ h \o c \in Seq(Byte) /\ Len(h \o c) = Len(h) + Len(c)
      /\ \A i \in 1 .. Len(h) : (h \o c)[i] = h[i]
  BY <1>7, CatFacts
<1>9. Len(b) = 2 + Len(f[Len(pieces)])
  BY <1>4, <1>5, <1>6, <1>8
<1>10. SubSeq(b, 1, 2) = h
  <2>1. b \in Seq(Byte) /\ h \in Seq(Byte)
    BY <1>5, <1>6, <1>8
  <2>4. Len(b) = 2 + Len(c) /\ Len(b) \in Nat /\ Len(h) = 2
    BY <1>5, <1>6, <1>8
  <2>5. 0 + Len(h) <= Len(b)
    BY <1>8, <2>4
  <2>6. \A i \in 1 .. 2 : 0 + i = i
    OBVIOUS
  <2>7. \A i \in 1 .. Len(h) : b[0 + i] = h[i]
    BY <1>6, <1>8, <2>4, <2>6
  <2>2. Holds(b, 0, h)
    BY <2>5, <2>7 DEF Holds
  <2>3. SubSeq(b, 0 + 1, 0 + Len(h)) = h
    BY <2>1, <2>2, HoldsSub
  <2>8. 0 + 1 = 1 /\ 0 + Len(h) = 2
    BY <2>4
  <2> QED
    BY <2>3, <2>8
<1>11. ASSUME NEW j \in 1 .. Len(pieces) PROVE Holds(b, Place(k, j), pieces[j])
  <2>1. b = h \o Concat(pieces)
    BY <1>6 DEF c
  <2>2. Holds(b, Len(h) + Len(f[j - 1]), pieces[j])
    BY <1>2, <1>7, <2>1, ConcatHolds
  <2> QED
    BY <1>3, <1>5, <2>2
<1>12. ASSUME NEW i \in 1 .. Len(c)
       PROVE  \E j \in 1 .. Len(pieces) :
                 i + 2 \in Place(k, j) + 1 .. Place(k, j) + Len(pieces[j])
  <2>1. PICK j \in 1 .. Len(pieces) : i \in Len(f[j - 1]) + 1 .. Len(f[j - 1]) + Len(pieces[j])
    BY <1>2, <1>4, ConcatCovered
  <2>2. LengthsAdd(f, pieces) /\ Len(pieces) \in Nat
    BY <1>2, SumLengths, SumsMeans
  <2> DEFINE p == Len(f[j - 1])
             q == Len(pieces[j])
  <2>3. p \in Nat /\ q \in Nat
    BY <2>2 DEF LengthsAdd
  <2>4. Place(k, j) = 2 + p /\ i \in p + 1 .. p + q
    BY <1>3, <2>1
  <2> HIDE DEF p, q
  <2>5. i + 2 \in (2 + p) + 1 .. (2 + p) + q
    BY <2>3, <2>4
  <2> QED
    BY <2>4, <2>5 DEF q
<1>13. b \in Seq(Byte) /\ Number(SubSeq(b, 1, 2)) = k
  BY <1>5, <1>6, <1>8, <1>10
<1> QED
  BY <1>3, <1>9, <1>11, <1>12, <1>13 DEF c

\* Four bytes say the size.
Sized(n) == n \in Nat /\ n < 4294967296

LEMMA SizedFits == \A n : Sized(n) => n \in Nat /\ InWidth(n, 4)
<1> SUFFICES ASSUME NEW n, Sized(n) PROVE n \in Nat /\ InWidth(n, 4)
  OBVIOUS
<1>1. n \in Nat
  BY SMT DEF Sized
<1>2. n >= 0 /\ n \div 16777216 < 256
  BY SMT DEF Sized
<1>3. Weight[4] = 16777216
  BY SMT DEF Weight
<1> QED
  BY <1>1, <1>2, <1>3, SMT DEF InWidth

LEMMA Framing ==
    ASSUME NEW b \in Seq(Byte), Sized(Len(b)),
           NEW d, d = Big(Len(b), 4) \o b
    PROVE  /\ d \in Seq(Byte) /\ SubSeq(d, 5, Len(d)) = b
           /\ Number(SubSeq(d, 1, 4)) = Len(d) - 4
<1> DEFINE n == Len(b)
           h == Big(n, 4)
<1>1. Sized(n) /\ n \in Nat
  OBVIOUS
<1>2. d = h \o b
  OBVIOUS
<1>3. Len(b) = n
  OBVIOUS
<1> HIDE DEF n
<1>4. InWidth(n, 4)
  BY <1>1, SizedFits
<1>5. h \in Seq(Byte) /\ Len(h) = 4 /\ Number(h) = n
  BY <1>1, <1>4, BigType, NumberBack
<1> HIDE DEF h
<1>6. h \in Seq(Byte) /\ b \in Seq(Byte)
  BY <1>5
<1>7. /\ h \o b \in Seq(Byte) /\ Len(h \o b) = Len(h) + Len(b)
      /\ \A i \in 1 .. Len(h) : (h \o b)[i] = h[i]
      /\ \A i \in 1 .. Len(b) : (h \o b)[Len(h) + i] = b[i]
  BY <1>6, CatFacts
<1>8. /\ d \in Seq(Byte) /\ Len(d) = 4 + n
      /\ Holds(d, 0, h) /\ Holds(d, 4, b)
  <2>1. d \in Seq(Byte) /\ Len(d) = 4 + n
    BY <1>2, <1>3, <1>5, <1>7
  <2>2. 0 + Len(h) <= Len(d) /\ 4 + Len(b) <= Len(d)
    BY <1>1, <1>3, <1>5, <2>1
  <2>3. \A i \in 1 .. Len(h) : d[0 + i] = h[i]
    BY <1>2, <1>5, <1>7
  <2>4. \A i \in 1 .. Len(b) : d[4 + i] = b[i]
    BY <1>2, <1>5, <1>7
  <2> QED
    BY <2>1, <2>2, <2>3, <2>4 DEF Holds
<1>9. SubSeq(d, 0 + 1, 0 + Len(h)) = h /\ SubSeq(d, 4 + 1, 4 + Len(b)) = b
  BY <1>6, <1>8, HoldsSub
<1>10. 0 + 1 = 1 /\ 0 + Len(h) = 4 /\ 4 + 1 = 5 /\ 4 + Len(b) = Len(d) /\ Len(d) - 4 = n
  BY <1>1, <1>3, <1>5, <1>8
<1>11. SubSeq(d, 1, 4) = h /\ SubSeq(d, 5, Len(d)) = b
  BY <1>9, <1>10
<1> QED
  BY <1>5, <1>8, <1>10, <1>11

-----------------------------------------------------------------------------
(***************************************************************************)
(* What both decoders read from the bytes of a message, given its kind k.  *)
(***************************************************************************)
CsRaw(b, k, j, size) == SubSeq(b, Offsets(k)[j] + 1, Offsets(k)[j] + size)
PyRaw(b, k, i) ==
    LET fields == Registry[k].fields
    IN  SubSeq(b, Start(fields, i) + 1, Start(fields, i) + fields[i].width)

CsContent(b, k) ==
    IF HasPayload(k)
    THEN CsRaw(b, k, Len(Registry[k].fields) + 2, Number(CsRaw(b, k, Len(Registry[k].fields) + 1, 4)))
    ELSE <<>>
PyContent(b, k) ==
    IF HasPayload(k)
    THEN SubSeq(b, FixedSize(k) + 5,
                FixedSize(k) + 4 + Number(SubSeq(b, FixedSize(k) + 1, FixedSize(k) + 4)))
    ELSE <<>>

CsCut(b, k) ==
    \/ Len(b) < 2 \/ k \notin Kinds
    \/ IF HasPayload(k)
       THEN \/ Len(b) < FixedSize(k) + 4
            \/ Len(b) < FixedSize(k) + 4 + Number(CsRaw(b, k, Len(Registry[k].fields) + 1, 4))
       ELSE Len(b) # FixedSize(k)
PyCut(b, k) ==
    \/ Len(b) < 2 \/ k \notin Kinds
    \/ IF HasPayload(k)
       THEN \/ Len(b) < FixedSize(k) + 4
            \/ Len(b) < FixedSize(k) + 4 + Number(SubSeq(b, FixedSize(k) + 1, FixedSize(k) + 4))
       ELSE Len(b) # FixedSize(k)

CsValue(k, i, raw) == FieldValue(Registry[k].fields[i].form, raw, CsText(raw))
PyValue(k, i, raw) == FieldValue(Registry[k].fields[i].form, raw, Chars(raw))

NoText(b, k) ==
    \/ \E i \in DOMAIN Registry[k].fields :
          Registry[k].fields[i].form = "text" /\ ~IsUtf8(PyRaw(b, k, i))
    \/ ~IsUtf8(PyContent(b, k))

LEMMA CsDecodeIs ==
    ASSUME NEW b, NEW k, k = Number(SubSeq(b, 1, 2)), ~CsCut(b, k)
    PROVE  CsDecode(b) =
               Msg(k, [i \in DOMAIN Registry[k].fields |->
                           CsValue(k, i, CsRaw(b, k, i, Registry[k].fields[i].width))],
                   PayloadValue(Registry[k].payload, CsText(CsContent(b, k))))
BY DEF CsDecode, CsCut, CsValue, CsContent, CsRaw

LEMMA PyDecodeIs ==
    ASSUME NEW b, NEW k, k = Number(SubSeq(b, 1, 2)), ~PyCut(b, k), ~NoText(b, k)
    PROVE  PyDecode(b) =
               Msg(k, [i \in DOMAIN Registry[k].fields |-> PyValue(k, i, PyRaw(b, k, i))],
                   PayloadValue(Registry[k].payload, Chars(PyContent(b, k))))
BY DEF PyDecode, PyCut, NoText, PyValue, PyContent, PyRaw

\* The pieces and the payload of a message that both can read.
Told(k, pieces, data) ==
    LET n == Len(Registry[k].fields)
    IN  /\ Laid(k, pieces) /\ data \in Seq(Byte) /\ Sized(Len(data))
        /\ HasPayload(k) => pieces[n + 1] = Big(Len(data), 4) /\ pieces[n + 2] = data
        /\ ~HasPayload(k) => data = << >>

CsRead(k, pieces, data) ==
    Msg(k, [i \in 1 .. Len(Registry[k].fields) |-> CsValue(k, i, pieces[i])],
        PayloadValue(Registry[k].payload, CsText(data)))
PyRead(k, pieces, data) ==
    Msg(k, [i \in 1 .. Len(Registry[k].fields) |-> PyValue(k, i, pieces[i])],
        PayloadValue(Registry[k].payload, Chars(data)))

Found(b, k, pieces, data) ==
    /\ b \in Seq(Byte) /\ Number(SubSeq(b, 1, 2)) = k /\ ~CsCut(b, k) /\ ~PyCut(b, k)
    /\ \A i \in 1 .. Len(Registry[k].fields) :
          /\ CsRaw(b, k, i, Registry[k].fields[i].width) = pieces[i]
          /\ PyRaw(b, k, i) = pieces[i]
    /\ CsContent(b, k) = data /\ PyContent(b, k) = data

LEMMA PiecesFound ==
    ASSUME NEW k, NEW pieces, NEW data, Told(k, pieces, data),
           NEW b, b = Big(k, 2) \o Concat(pieces)
    PROVE  Found(b, k, pieces, data)
<1> DEFINE fields == Registry[k].fields
           n == Len(fields)
           s == FixedSize(k)
<1>1. /\ k \in Kinds /\ pieces \in Seq(Seq(Byte)) /\ data \in Seq(Byte) /\ Laid(k, pieces)
      /\ Len(pieces) = n + (IF HasPayload(k) THEN 2 ELSE 0)
      /\ \A j \in 1 .. n : Len(pieces[j]) = fields[j].width
      /\ HasPayload(k) => Len(pieces[n + 1]) = 4
      /\ HasPayload(k) => pieces[n + 1] = Big(Len(data), 4) /\ pieces[n + 2] = data
      /\ ~HasPayload(k) => data = << >>
      /\ Sized(Len(data))
  BY DEF Laid, Told
<1>2. n \in Nat /\ s \in Nat /\ 2 <= s
  <2>1. FieldsKnown(k) /\ SameOffsets(k)
    BY <1>1, RegistryKnown, OffsetsAgree
  <2> QED
    BY <2>1 DEF FieldsKnown, SameOffsets
<1>3. /\ b \in Seq(Byte) /\ Number(SubSeq(b, 1, 2)) = k
      /\ Len(b) = s + (IF HasPayload(k) THEN 4 + Len(pieces[n + 2]) ELSE 0)
      /\ \A j \in 1 .. Len(pieces) : Holds(b, Place(k, j), pieces[j]) /\ Offsets(k)[j] = Place(k, j)
  BY <1>1, BodyHolds
<1>4. \A j : Place(k, j) = IF j <= n THEN Start(fields, j)
                           ELSE IF j = n + 1 THEN s ELSE s + 4
  BY DEF Place
<1> HIDE DEF n, fields, s
<1>5. \A j \in 1 .. Len(pieces) : pieces[j] \in Seq(Byte)
  <2> DEFINE X == Seq(Byte)
  <2>1. pieces \in Seq(X)
    BY <1>1
  <2> HIDE DEF X
  <2>2. \A j \in 1 .. Len(pieces) : pieces[j] \in X
    BY <2>1
  <2> QED
    BY <2>2 DEF X
<1>6. \A j \in 1 .. Len(pieces) :
         SubSeq(b, Place(k, j) + 1, Place(k, j) + Len(pieces[j])) = pieces[j]
  BY <1>3, <1>5, HoldsSub
<1>7. ASSUME NEW i \in 1 .. n
      PROVE  CsRaw(b, k, i, fields[i].width) = pieces[i] /\ PyRaw(b, k, i) = pieces[i]
  <2>1. i \in 1 .. Len(pieces) /\ i <= n
    BY <1>1, <1>2
  <2>2. SubSeq(b, Place(k, i) + 1, Place(k, i) + fields[i].width) = pieces[i]
    BY <1>1, <1>6, <2>1
  <2>3. Offsets(k)[i] = Place(k, i) /\ Place(k, i) = Start(fields, i)
    BY <1>3, <1>4, <2>1
  <2>4. CsRaw(b, k, i, fields[i].width) = pieces[i]
    BY <2>2, <2>3 DEF CsRaw
  <2>5. PyRaw(b, k, i) = SubSeq(b, Start(fields, i) + 1, Start(fields, i) + fields[i].width)
    BY DEF PyRaw, fields
  <2> QED
    BY <2>2, <2>3, <2>4, <2>5
<1>8. CASE ~HasPayload(k)
  <2>1. Len(b) = s
    BY <1>2, <1>3, <1>8
  <2>2. ~CsCut(b, k) /\ ~PyCut(b, k)
    BY <1>1, <1>2, <1>8, <2>1 DEF CsCut, PyCut, n, fields, s
  <2>3. CsContent(b, k) = data /\ PyContent(b, k) = data
    BY <1>1, <1>8 DEF CsContent, PyContent
  <2> QED
    BY <1>3, <1>7, <2>2, <2>3 DEF Found, n, fields
<1>9. CASE HasPayload(k)
  <2> DEFINE l == Len(data)
             h == Big(l, 4)
  <2>0. l \in Nat /\ Sized(l)
    BY <1>1
  <2>1. /\ n + 1 \in 1 .. Len(pieces) /\ n + 2 \in 1 .. Len(pieces)
        /\ ~(n + 1 <= n) /\ ~(n + 2 <= n) /\ n + 2 # n + 1
    BY <1>1, <1>2, <1>9
  <2>2. /\ Offsets(k)[n + 1] = s /\ Offsets(k)[n + 2] = s + 4
        /\ Place(k, n + 1) = s /\ Place(k, n + 2) = s + 4
    BY <1>3, <1>4, <2>1
  <2>3. pieces[n + 1] = h /\ Len(h) = 4 /\ pieces[n + 2] = data
    BY <1>1, <1>9
  <2>4. InWidth(l, 4) /\ Number(h) = l
    BY <2>0, SizedFits, NumberBack
  <2> HIDE DEF h
  <2>5. SubSeq(b, s + 1, s + 4) = h
    BY <1>6, <2>1, <2>2, <2>3
  <2>6. SubSeq(b, (s + 4) + 1, (s + 4) + l) = data
    BY <1>6, <2>1, <2>2, <2>3
  <2>7. Len(b) = s + (4 + l)
    BY <1>3, <1>9, <2>3
  <2> HIDE DEF l
  <2>8. CsRaw(b, k, n + 1, 4) = h
    BY <2>2, <2>5 DEF CsRaw
  <2>9. CsRaw(b, k, n + 2, l) = data
    BY <2>2, <2>6 DEF CsRaw
  <2>10. CsContent(b, k) = data
    BY <1>9, <2>4, <2>8, <2>9 DEF CsContent, n, fields, s
  <2>11. (s + 4) + 1 = s + 5 /\ (s + 4) + l = s + 4 + l
    BY <1>2, <2>0
  <2>12. PyContent(b, k) = data
    BY <1>9, <2>4, <2>5, <2>6, <2>11 DEF PyContent, n, fields, s
  <2>13. ~(Len(b) < 2) /\ ~(Len(b) < s + 4) /\ ~(Len(b) < s + 4 + l)
    BY <1>2, <2>0, <2>7
  <2>14. ~CsCut(b, k)
    BY <1>1, <1>9, <2>4, <2>8, <2>13 DEF CsCut, n, fields, s
  <2>15. ~PyCut(b, k)
    BY <1>1, <1>9, <2>4, <2>5, <2>13 DEF PyCut, n, fields, s
  <2> QED
    BY <1>3, <1>7, <2>10, <2>12, <2>14, <2>15 DEF Found, n, fields
<1> QED
  BY <1>8, <1>9

LEMMA CsReads ==
    ASSUME NEW k, NEW pieces, NEW data, Told(k, pieces, data)
    PROVE  CsDecode(Big(k, 2) \o Concat(pieces)) = CsRead(k, pieces, data)
<1> DEFINE b == Big(k, 2) \o Concat(pieces)
           fields == Registry[k].fields
<1>1. /\ Number(SubSeq(b, 1, 2)) = k /\ ~CsCut(b, k)
      /\ \A i \in 1 .. Len(fields) : CsRaw(b, k, i, fields[i].width) = pieces[i]
      /\ CsContent(b, k) = data
  <2>1. Found(b, k, pieces, data)
    BY PiecesFound
  <2> QED
    BY <2>1 DEF Found
<1>2. DOMAIN fields = 1 .. Len(fields)
  <2>1. k \in Kinds
    BY DEF Told, Laid
  <2>2. FieldsKnown(k)
    BY <2>1, RegistryKnown
  <2> QED
    BY <2>2 DEF FieldsKnown
<1> HIDE DEF b
<1>3. CsDecode(b) =
          Msg(k, [i \in DOMAIN fields |-> CsValue(k, i, CsRaw(b, k, i, fields[i].width))],
              PayloadValue(Registry[k].payload, CsText(CsContent(b, k))))
  BY <1>1, CsDecodeIs
<1> DEFINE A(i) == CsValue(k, i, CsRaw(b, k, i, fields[i].width))
           B(i) == CsValue(k, i, pieces[i])
<1>4. \A i \in 1 .. Len(fields) : A(i) = B(i)
  BY <1>1
<1> HIDE DEF A, B
<1>5. [i \in DOMAIN fields |-> A(i)] = [i \in 1 .. Len(fields) |-> B(i)]
  BY <1>2, <1>4
<1>6. CsRead(k, pieces, data) =
          Msg(k, [i \in 1 .. Len(fields) |-> B(i)],
              PayloadValue(Registry[k].payload, CsText(data)))
  BY DEF CsRead, B
<1>7. CsDecode(b) =
          Msg(k, [i \in DOMAIN fields |-> A(i)],
              PayloadValue(Registry[k].payload, CsText(CsContent(b, k))))
  BY <1>3 DEF A
<1> HIDE DEF fields
<1>8. CsDecode(b) = CsRead(k, pieces, data)
  BY <1>1, <1>5, <1>6, <1>7
<1> QED
  BY <1>8 DEF b

LEMMA PyReads ==
    ASSUME NEW k, NEW pieces, NEW data, Told(k, pieces, data), IsUtf8(data),
           \A i \in 1 .. Len(Registry[k].fields) :
               Registry[k].fields[i].form = "text" => IsUtf8(pieces[i])
    PROVE  PyDecode(Big(k, 2) \o Concat(pieces)) = PyRead(k, pieces, data)
<1> DEFINE b == Big(k, 2) \o Concat(pieces)
           fields == Registry[k].fields
<1>1. /\ Number(SubSeq(b, 1, 2)) = k /\ ~PyCut(b, k)
      /\ \A i \in 1 .. Len(fields) : PyRaw(b, k, i) = pieces[i]
      /\ PyContent(b, k) = data
  <2>1. Found(b, k, pieces, data)
    BY PiecesFound
  <2> QED
    BY <2>1 DEF Found
<1>2. DOMAIN fields = 1 .. Len(fields)
  <2>1. k \in Kinds
    BY DEF Told, Laid
  <2>2. FieldsKnown(k)
    BY <2>1, RegistryKnown
  <2> QED
    BY <2>2 DEF FieldsKnown
<1> HIDE DEF b
<1>9. ~NoText(b, k)
  BY <1>1, <1>2 DEF NoText
<1>3. PyDecode(b) =
          Msg(k, [i \in DOMAIN fields |-> PyValue(k, i, PyRaw(b, k, i))],
              PayloadValue(Registry[k].payload, Chars(PyContent(b, k))))
  BY <1>1, <1>9, PyDecodeIs
<1> DEFINE A(i) == PyValue(k, i, PyRaw(b, k, i))
           B(i) == PyValue(k, i, pieces[i])
<1>4. \A i \in 1 .. Len(fields) : A(i) = B(i)
  BY <1>1
<1> HIDE DEF A, B
<1>5. [i \in DOMAIN fields |-> A(i)] = [i \in 1 .. Len(fields) |-> B(i)]
  BY <1>2, <1>4
<1>6. PyRead(k, pieces, data) =
          Msg(k, [i \in 1 .. Len(fields) |-> B(i)],
              PayloadValue(Registry[k].payload, Chars(data)))
  BY DEF PyRead, B
<1>7. PyDecode(b) =
          Msg(k, [i \in DOMAIN fields |-> A(i)],
              PayloadValue(Registry[k].payload, Chars(PyContent(b, k))))
  BY <1>3 DEF A
<1> HIDE DEF fields
<1>8. PyDecode(b) = PyRead(k, pieces, data)
  BY <1>1, <1>5, <1>6, <1>7
<1> QED
  BY <1>8 DEF b

-----------------------------------------------------------------------------
(***************************************************************************)
(* Fields and payloads: what both programs make of a value, and of its     *)
(* bytes.                                                                  *)
(***************************************************************************)
LEMMA AreChars ==
    ASSUME NEW t \in Seq(Char)
    PROVE  NoChar \notin ToSet(t) /\ Replaced(t) = t
<1>1. \A i \in 1 .. Len(t) : t[i] \in Nat
  <2>1. \A i \in 1 .. Len(t) : t[i] \in Char
    OBVIOUS
  <2> QED
    BY <2>1, CharIsNat
<1>2. Len(t) \in Nat /\ DOMAIN t = 1 .. Len(t) /\ t = [i \in DOMAIN t |-> t[i]]
  OBVIOUS
<1>3. \A i \in DOMAIN t : t[i] # NoChar
  BY <1>1, <1>2 DEF NoChar
<1> QED
  BY <1>2, <1>3 DEF ToSet, Replaced

LEMMA TextReads ==
    ASSUME NEW t \in Seq(Char)
    PROVE  Chars(Utf8(t)) = t /\ CsText(Utf8(t)) = t /\ IsUtf8(Utf8(t))
BY ReadsBack, AreChars DEF CsText, IsUtf8

LEMMA TextField ==
    ASSUME NEW v \in Seq(Char), Stripped(v) = v, NEW w \in Nat, Len(Utf8(v)) <= w,
           NEW raw, raw = Fit(Utf8(v), w)
    PROVE  /\ IsUtf8(raw) /\ Stripped(Chars(raw)) = v /\ Stripped(CsText(raw)) = v
           /\ SubSeq(Utf8(Fit(v, w)), 1, w) = raw
<1> DEFINE u == Utf8(v)
           n == w - Len(u)
           z == NULs(n)
           m == w - Len(v)
           vz == v \o z
<1>1. /\ u \in Seq(Byte) /\ Len(u) \in Nat /\ Len(v) \in Nat /\ Len(v) <= Len(u)
      /\ n \in Nat /\ m \in Nat /\ n <= m
  <2>1. u \in Seq(Byte) /\ Len(v) <= Len(u)
    BY Utf8Type
  <2> HIDE DEF u
  <2>2. Len(u) \in Nat /\ Len(v) \in Nat
    BY <2>1
  <2>3. Len(u) <= w
    BY DEF u
  <2> QED
    BY <2>1, <2>2, <2>3
<1>2. raw = u \o z
  BY <1>1, NULIs, FitPads
<1> HIDE DEF n, m
<1>3. z \in Seq(Char) /\ z \in Seq(Byte) /\ Len(z) = n
  BY <1>1, NULsType, NULIs
<1>4. Utf8(z) = z
  BY <1>1, Utf8NULs
<1> HIDE DEF z
<1>5. vz \in Seq(Char) /\ Utf8(vz) = raw
  <2>1. Utf8(v \o z) = Utf8(v) \o Utf8(z)
    BY <1>3, Utf8Cat
  <2>2. v \o z \in Seq(Char)
    BY <1>3
  <2> QED
    BY <1>2, <1>4, <2>1, <2>2
<1>6. Stripped(vz) = v
  BY <1>1, NULIs, StripsBack DEF z
<1> HIDE DEF vz
<1>7. Chars(raw) = vz /\ CsText(raw) = vz /\ IsUtf8(raw)
  BY <1>5, TextReads
<1>8. SubSeq(Utf8(Fit(v, w)), 1, w) = raw
  <2> DEFINE y == NULs(m)
             e == NULs(m - n)
             b == Utf8(Fit(v, w))
  <2>1. Fit(v, w) = v \o y
    <3>1. Len(v) <= w
      BY <1>1 DEF n, m
    <3> QED
      BY <3>1, NULIs, FitPads DEF m
  <2>2. m - n \in Nat /\ m = n + (m - n)
    BY <1>1
  <2>3. y = z \o e
    <3>1. NULs(n + (m - n)) = NULs(n) \o NULs(m - n)
      BY <1>1, <2>2, NULsCat
    <3> QED
      BY <2>2, <3>1 DEF z
  <2>4. y \in Seq(Char) /\ Utf8(y) = y
    BY <1>1, NULsType, NULIs, Utf8NULs
  <2>5. e \in Seq(Byte)
    BY <2>2, NULsType, NULIs
  <2> HIDE DEF e, y
  <2>6. b = u \o y
    BY <2>1, <2>4, Utf8Cat
  <2>7. b = Cat(u, Cat(z, e))
    BY <2>3, <2>6 DEF Cat
  <2>8. Cat(Cat(u, z), e) = Cat(u, Cat(z, e))
    BY <1>1, <1>3, <2>5, CatAssociative
  <2> HIDE DEF b, u
  <2>9. b = Cat(Cat(<< >>, raw), e) /\ raw \in Seq(Byte) /\ Len(raw) = w
    <3>1. raw = Cat(u, z) /\ raw \in Seq(Byte)
      BY <1>1, <1>2, <1>3, CatType DEF Cat
    <3>2. Cat(<< >>, raw) = raw
      BY <3>1, CatEmpty
    <3>3. Len(raw) = Len(u) + Len(z)
      <4>1. u \in Seq(Byte) /\ z \in Seq(Byte)
        BY <1>1, <1>3
      <4>2. Len(u \o z) = Len(u) + Len(z)
        BY <4>1, CatFacts
      <4> QED
        BY <1>2, <4>2
    <3> QED
      BY <1>1, <1>3, <2>7, <2>8, <3>1, <3>2, <3>3 DEF n
  <2>10. << >> \in Seq(Byte) /\ Len(<< >>) = 0
    OBVIOUS
  <2>11. Holds(b, 0, raw)
    BY <2>5, <2>9, <2>10, CatHolds
  <2>12. b \in Seq(Byte)
    <3>1. Cat(<< >>, raw) \in Seq(Byte)
      BY <2>9, <2>10, CatType
    <3> QED
      BY <2>5, <2>9, <3>1, CatType
  <2>13. SubSeq(b, 0 + 1, 0 + Len(raw)) = raw
    BY <2>9, <2>11, <2>12, HoldsSub
  <2>14. 0 + 1 = 1 /\ 0 + Len(raw) = w
    BY <2>9
  <2> QED
    BY <2>13, <2>14 DEF b
<1> QED
  BY <1>6, <1>7, <1>8
-----------------------------------------------------------------------------
FieldTyped(f, v) ==
    /\ f.form = "number" => v \in Nat /\ InWidth(v, f.width)
    /\ f.form = "flag"   => v \in BOOLEAN
    /\ f.form = "text"   => v \in Seq(Char)

FieldKnown(f) ==
    /\ f.form \in Forms /\ f.width \in Nat
    /\ f.form = "number" => f.width \in {1, 2, 4}
    /\ f.form = "flag" => f.width = 1

LEMMA FieldCases ==
    ASSUME NEW f, NEW v
    PROVE  /\ f.form = "number" => PyField(f, v) = Big(v, f.width) /\ CsField(f, v) = Big(v, f.width)
           /\ f.form = "flag" => /\ PyField(f, v) = <<IF v THEN 1 ELSE 0>>
                                 /\ CsField(f, v) = <<IF v THEN 1 ELSE 0>>
           /\ f.form = "text" => /\ PyField(f, v) = Fit(Utf8(v), f.width)
                                 /\ CsField(f, v) = SubSeq(Utf8(Fit(v, f.width)), 1, f.width)
BY DEF PyField, CsField

LEMMA ValueCases ==
    ASSUME NEW form, NEW raw, NEW text
    PROVE  /\ form = "number" => FieldValue(form, raw, text) = Number(raw)
           /\ form = "flag" => FieldValue(form, raw, text) = (Number(raw) # 0)
           /\ form = "text" => FieldValue(form, raw, text) = Stripped(text)
BY DEF FieldValue

LEMMA FlagReads ==
    ASSUME NEW v \in BOOLEAN, NEW raw, raw = <<IF v THEN 1 ELSE 0>>
    PROVE  raw \in Seq(Byte) /\ Len(raw) = 1 /\ (Number(raw) # 0) = v
<1>1. raw \in Seq(Byte) /\ Len(raw) = 1 /\ raw[1] = IF v THEN 1 ELSE 0
  BY DEF Byte
<1>2. \A b \in Seq(Byte) : Len(b) = 1 => Number(b) = b[1]
  BY NumberOf
<1>3. Number(raw) = raw[1]
  BY <1>1, <1>2, Zenon
<1> QED
  BY <1>1, <1>3

LEMMA PyFieldType ==
    ASSUME NEW f, FieldKnown(f), NEW v, FieldTyped(f, v)
    PROVE  PyField(f, v) \in Seq(Byte) /\ Len(PyField(f, v)) = f.width
<1>1. CASE f.form = "number"
  <2>1. v \in Nat /\ f.width \in {1, 2, 4}
    BY <1>1 DEF FieldKnown, FieldTyped
  <2> QED
    BY <1>1, <2>1, BigType, FieldCases
<1>2. CASE f.form = "flag"
  <2>1. v \in BOOLEAN /\ f.width = 1
    BY <1>2 DEF FieldKnown, FieldTyped
  <2> QED
    BY <1>2, <2>1, FlagReads, FieldCases
<1>3. CASE f.form = "text"
  <2>1. v \in Seq(Char) /\ f.width \in Nat
    BY <1>3 DEF FieldKnown, FieldTyped
  <2>2. Utf8(v) \in Seq(Byte)
    BY <2>1, Utf8Type
  <2> QED
    <3> DEFINE u == Utf8(v)
               w == f.width
    <3>1. u \in Seq(Byte) /\ w \in Nat /\ NUL \in Byte
      BY <2>1, <2>2, NULIs
    <3>2. PyField(f, v) = Fit(u, w)
      BY <1>3, FieldCases
    <3> HIDE DEF u, w
    <3>3. Fit(u, w) \in Seq(Byte) /\ Len(Fit(u, w)) = w
      BY <3>1, FitType
    <3> QED
      BY <3>2, <3>3 DEF w
<1> QED
  BY <1>1, <1>2, <1>3 DEF FieldKnown, Forms

LEMMA CsFieldType ==
    ASSUME NEW f, FieldKnown(f), NEW v, FieldTyped(f, v)
    PROVE  CsField(f, v) \in Seq(Byte) /\ Len(CsField(f, v)) = f.width
<1>1. CASE f.form = "number"
  <2>1. v \in Nat /\ f.width \in {1, 2, 4}
    BY <1>1 DEF FieldKnown, FieldTyped
  <2> QED
    BY <1>1, <2>1, BigType, FieldCases
<1>2. CASE f.form = "flag"
  <2>1. v \in BOOLEAN /\ f.width = 1
    BY <1>2 DEF FieldKnown, FieldTyped
  <2> QED
    BY <1>2, <2>1, FlagReads, FieldCases
<1>3. CASE f.form = "text"
  <2> DEFINE t == Fit(v, f.width)
             u == Utf8(t)
             w == f.width
  <2>1. v \in Seq(Char) /\ w \in Nat
    BY <1>3 DEF FieldKnown, FieldTyped
  <2>2. t \in Seq(Char) /\ Len(t) = w
    BY <2>1, NULIs, FitType
  <2> HIDE DEF t
  <2>3. u \in Seq(Byte) /\ Len(t) <= Len(u)
    BY <2>2, Utf8Type
  <2>4. CsField(f, v) = SubSeq(u, 1, w)
    BY <1>3, FieldCases DEF t
  <2> HIDE DEF u, w
  <2>5. SubSeq(u, 1, w) \in Seq(Byte) /\ Len(SubSeq(u, 1, w)) = w
    BY <2>1, <2>2, <2>3
  <2> QED
    BY <2>4, <2>5 DEF w
<1> QED
  BY <1>1, <1>2, <1>3 DEF FieldKnown, Forms

\* A text that its field does not cut.
Whole(f, v) == f.form = "text" => Len(Utf8(v)) <= f.width /\ Stripped(v) = v

LEMMA FieldReads ==
    ASSUME NEW f, FieldKnown(f), NEW v, FieldTyped(f, v), Whole(f, v),
           NEW raw, raw = PyField(f, v)
    PROVE  /\ CsField(f, v) = raw
           /\ FieldValue(f.form, raw, CsText(raw)) = v
           /\ FieldValue(f.form, raw, Chars(raw)) = v
           /\ f.form = "text" => IsUtf8(raw)
<1>1. CASE f.form = "number"
  <2>1. v \in Nat /\ f.width \in {1, 2, 4} /\ InWidth(v, f.width)
    BY <1>1 DEF FieldKnown, FieldTyped
  <2>2. Number(Big(v, f.width)) = v
    BY <2>1, NumberBack
  <2> QED
    BY <1>1, <2>2, FieldCases, ValueCases
<1>2. CASE f.form = "flag"
  <2>1. v \in BOOLEAN
    BY <1>2 DEF FieldTyped
  <2>2. raw = <<IF v THEN 1 ELSE 0>> /\ CsField(f, v) = raw
    BY <1>2, FieldCases
  <2>3. (Number(raw) # 0) = v
    BY <2>1, <2>2, FlagReads
  <2>4. /\ FieldValue(f.form, raw, CsText(raw)) = (Number(raw) # 0)
        /\ FieldValue(f.form, raw, Chars(raw)) = (Number(raw) # 0)
    BY <1>2, ValueCases
  <2> QED
    BY <1>2, <2>2, <2>3, <2>4
<1>3. CASE f.form = "text"
  <2> DEFINE w == f.width
  <2>1. v \in Seq(Char) /\ w \in Nat /\ Len(Utf8(v)) <= w /\ Stripped(v) = v
    BY <1>3 DEF FieldKnown, FieldTyped, Whole
  <2>2. raw = Fit(Utf8(v), w) /\ CsField(f, v) = SubSeq(Utf8(Fit(v, w)), 1, w)
    BY <1>3, FieldCases
  <2> HIDE DEF w
  <2>3. /\ IsUtf8(raw) /\ Stripped(Chars(raw)) = v /\ Stripped(CsText(raw)) = v
        /\ SubSeq(Utf8(Fit(v, w)), 1, w) = raw
    BY <2>1, <2>2, TextField
  <2>4. /\ FieldValue(f.form, raw, CsText(raw)) = Stripped(CsText(raw))
        /\ FieldValue(f.form, raw, Chars(raw)) = Stripped(Chars(raw))
    BY <1>3, ValueCases
  <2> QED
    BY <2>2, <2>3, <2>4
<1> QED
  BY <1>1, <1>2, <1>3 DEF FieldKnown, Forms

-----------------------------------------------------------------------------
(***************************************************************************)
(* The bytes of a message, as the package makes them and as the server     *)
(* does, from the bytes of its fields and of its payload.                  *)
(***************************************************************************)
Tail2(k, data) == IF HasPayload(k) THEN <<Big(Len(data), 4), data>> ELSE <<>>

Small(n) == n \in Nat /\ n < 4294966000

LEMMA SmallIsSized ==
    /\ \A n : Small(n) => Sized(n)
    /\ \A n, s : Small(n) /\ s \in Nat /\ s <= 514 => Sized(n) /\ Sized(s + (4 + n)) /\ Sized(s)
<1>1. \A n : Small(n) => Sized(n)
  BY SMT DEF Small, Sized
<1> SUFFICES ASSUME NEW n, NEW s, Small(n), s \in Nat, s <= 514
             PROVE  Sized(n) /\ Sized(s + (4 + n)) /\ Sized(s)
  BY <1>1
<1> QED
  BY SMT DEF Small, Sized

\* w is s, and t behind it.
Catted(w, s, t) ==
    /\ Len(s) \in Nat /\ Len(t) \in Nat /\ Len(w) = Len(s) + Len(t)
    /\ \A i \in 1 .. Len(s) : w[i] = s[i]
    /\ \A i \in 1 .. Len(t) : w[Len(s) + i] = t[i]

LEMMA CatIs ==
    ASSUME NEW S, NEW s \in Seq(S), NEW t \in Seq(S), NEW w, w = s \o t
    PROVE  w \in Seq(S) /\ Catted(w, s, t)
BY CatFacts DEF Catted

LEMMA PiecesTold ==
    ASSUME NEW k \in Kinds, NEW raws \in Seq(Seq(Byte)), NEW data \in Seq(Byte),
           Small(Len(data)), HasPayload(k) \/ data = << >>,
           Len(raws) = Len(Registry[k].fields),
           \A i \in 1 .. Len(raws) : Len(raws[i]) = Registry[k].fields[i].width,
           NEW pieces, pieces = raws \o Tail2(k, data)
    PROVE  Told(k, pieces, data) /\ \A i \in 1 .. Len(raws) : pieces[i] = raws[i]
<1> DEFINE fields == Registry[k].fields
           n == Len(fields)
           X == Seq(Byte)
           t == Tail2(k, data)
           size == Big(Len(data), 4)
<1>1. n \in Nat
  <2>1. FieldsKnown(k)
    BY RegistryKnown
  <2> QED
    BY <2>1 DEF FieldsKnown
<1>2. size \in X /\ Len(size) = 4 /\ Len(data) \in Nat /\ data \in X
  <2>1. Len(data) \in Nat
    OBVIOUS
  <2> QED
    BY <2>1, BigType
<1>3. raws \in Seq(X) /\ pieces = raws \o t /\ Len(raws) = n
  OBVIOUS
<1>10. /\ Sized(Len(data)) /\ (HasPayload(k) \/ data = << >>) /\ data \in Seq(Byte)
       /\ \A i \in 1 .. n : Len(raws[i]) = fields[i].width
  BY <1>2, SmallIsSized
<1> HIDE DEF n, X, size, fields
<1>4. /\ t \in Seq(X)
      /\ HasPayload(k) => Len(t) = 2 /\ t[1] = size /\ t[2] = data
      /\ ~HasPayload(k) => Len(t) = 0
  <2>1. CASE HasPayload(k)
    <3>1. t = <<size, data>>
      BY <2>1 DEF Tail2, size
    <3> HIDE DEF t
    <3>2. <<size, data>> \in Seq(X) /\ Len(<<size, data>>) = 2
      BY <1>2
    <3> QED
      BY <2>1, <3>1, <3>2
  <2>2. CASE ~HasPayload(k)
    <3>1. t = << >>
      BY <2>2 DEF Tail2
    <3> HIDE DEF t
    <3>2. << >> \in Seq(X) /\ Len(<< >>) = 0
      OBVIOUS
    <3> QED
      BY <2>2, <3>1, <3>2
  <2> QED
    BY <2>1, <2>2
<1> HIDE DEF t
<1>5. raws \in Seq(X) /\ t \in Seq(X)
  BY <1>3, <1>4
<1>6. /\ pieces \in Seq(X) /\ Len(pieces) = n + Len(t)
      /\ \A i \in 1 .. n : pieces[i] = raws[i]
      /\ \A i \in 1 .. Len(t) : pieces[n + i] = t[i]
  <2>1. pieces \in Seq(X) /\ Catted(pieces, raws, t)
    BY <1>3, <1>5, CatIs
  <2> QED
    BY <1>3, <2>1 DEF Catted
<1>7. HasPayload(k) => pieces[n + 1] = size /\ pieces[n + 2] = data /\ Len(pieces[n + 1]) = 4
  <2> SUFFICES ASSUME HasPayload(k)
               PROVE  pieces[n + 1] = size /\ pieces[n + 2] = data /\ Len(pieces[n + 1]) = 4
    OBVIOUS
  <2>0. Len(t) = 2 /\ t[1] = size /\ t[2] = data
    BY <1>4
  <2>1. 1 \in 1 .. Len(t) /\ 2 \in 1 .. Len(t)
    BY <2>0
  <2> QED
    BY <1>2, <1>6, <2>0, <2>1
<1>8. Len(pieces) = n + (IF HasPayload(k) THEN 2 ELSE 0)
  BY <1>4, <1>6
<1>9. Laid(k, pieces)
  BY <1>6, <1>7, <1>8, <1>10 DEF Laid, n, X, fields
<1>11. Told(k, pieces, data)
  BY <1>7, <1>9, <1>10 DEF Told, n, fields, size
<1> QED
  BY <1>3, <1>6, <1>11

\* A message in front of which its count stands.
Wire(k, pieces) == Big(Len(Big(k, 2) \o Concat(pieces)), 4) \o (Big(k, 2) \o Concat(pieces))

LEMMA HeaderIs ==
    ASSUME NEW k, NEW pieces, NEW data, Told(k, pieces, data), Small(Len(data))
    PROVE  /\ Header(k, data) \o Concat(pieces) = Wire(k, pieces)
           /\ Sized(Len(Big(k, 2) \o Concat(pieces)))
           /\ FullSize(k, data) - 2 = Len(Concat(pieces))
<1> DEFINE n == Len(Registry[k].fields)
           b == Big(k, 2) \o Concat(pieces)
           s == FixedSize(k)
           p == Big(FullSize(k, data), 4)
           q == Big(k, 2)
           c == Concat(pieces)
<1>1. /\ k \in Kinds /\ Laid(k, pieces) /\ data \in Seq(Byte) /\ pieces \in Seq(Seq(Byte))
      /\ HasPayload(k) => pieces[n + 2] = data
  BY DEF Told, Laid
<1>2. s \in Nat /\ s <= 514
  BY <1>1, OffsetsAgree DEF SameOffsets
<1>3. Len(b) = s + (IF HasPayload(k) THEN 4 + Len(pieces[n + 2]) ELSE 0)
  BY <1>1, BodyHolds
<1>4. Len(b) = FullSize(k, data)
  BY <1>1, <1>3 DEF FullSize
<1>5. Sized(Len(b)) /\ Len(b) \in Nat
  <2> DEFINE l == Len(data)
             m == Len(b)
  <2>1. Sized(s + (4 + l)) /\ Sized(s)
    BY <1>2, SmallIsSized
  <2>2. m = IF HasPayload(k) THEN s + (4 + l) ELSE s + 0
    BY <1>1, <1>3
  <2>3. s + 0 = s
    BY <1>2
  <2> HIDE DEF l, m, s
  <2>4. Sized(m)
    BY <2>1, <2>2, <2>3
  <2> QED
    BY <2>4, SizedFits DEF m
<1>6. p \in Seq(Byte) /\ q \in Seq(Byte) /\ c \in Seq(Byte) /\ Len(q) = 2
  <2>1. k \in Nat
    BY <1>1 DEF Kinds
  <2> QED
    BY <1>1, <1>4, <1>5, <2>1, BigType, ConcatType
<1>7. Header(k, data) = p \o q /\ Wire(k, pieces) = p \o (q \o c)
  BY <1>4 DEF Header, Wire
<1>8. b = q \o c
  OBVIOUS
<1> HIDE DEF p, q, c, b
<1>9. (p \o q) \o c = p \o (q \o c)
  <2>1. Cat(Cat(p, q), c) = Cat(p, Cat(q, c))
    BY <1>6, CatAssociative
  <2> QED
    BY <2>1 DEF Cat
<1>10. Len(b) = 2 + Len(c) /\ Len(c) \in Nat
  <2>1. Catted(b, q, c)
    BY <1>6, <1>8, CatIs
  <2> QED
    BY <1>6, <2>1 DEF Catted
<1>11. FullSize(k, data) - 2 = Len(c)
  BY <1>4, <1>10
<1> QED
  BY <1>5, <1>7, <1>9, <1>11 DEF b, c, q

-----------------------------------------------------------------------------
(***************************************************************************)
(* Messages of the program: the values of a kind, and a payload of the     *)
(* right type.  The content of a file is bytes for the package, text for   *)
(* the server.                                                             *)
(***************************************************************************)
PayloadTyped(form, p, Contents) ==
    /\ form = "none"    => p = << >>
    /\ form = "text"    => p \in Seq(Char)
    /\ form = "names"   => p \in Seq(Seq(Char)) /\ p # << >>
    /\ form = "content" => p \in Contents

Typed(m, Contents) ==
    LET fields == Registry[m.kind].fields
    IN  /\ m = Msg(m.kind, m.values, m.payload) /\ m.kind \in Kinds
        /\ m.values = [i \in 1 .. Len(fields) |-> m.values[i]]
        /\ \A i \in 1 .. Len(fields) : FieldTyped(fields[i], m.values[i])
        /\ PayloadTyped(Registry[m.kind].payload, m.payload, Contents)

LEMMA PayloadCases ==
    ASSUME NEW m, NEW form, form = Registry[m.kind].payload
    PROVE  /\ form = "none" => PyPayload(m) = m.payload /\ CsPayload(m) = << >>
           /\ form = "text" => PyPayload(m) = Utf8(m.payload) /\ CsPayload(m) = Utf8(m.payload)
           /\ form = "names" => /\ PyPayload(m) = Utf8(Joined(m.payload))
                                /\ CsPayload(m) = Utf8(Joined(m.payload))
           /\ form = "content" => PyPayload(m) = m.payload /\ CsPayload(m) = Utf8(m.payload)
BY DEF PyPayload, CsPayload

LEMMA FieldsAreKnown ==
    ASSUME NEW k \in Kinds
    PROVE  LET fields == Registry[k].fields
           IN  /\ Len(fields) \in Nat /\ DOMAIN fields = 1 .. Len(fields)
               /\ \A i \in 1 .. Len(fields) : FieldKnown(fields[i])
               /\ Registry[k].payload \in {"none", "text", "names", "content"}
               /\ Registry[k].payload = "content" <=> k = FileContent
               /\ Registry[k].payload = "names" <=> k = SetBuild
               /\ HasPayload(k) <=> Registry[k].payload # "none"
<1>1. FieldsKnown(k)
  BY RegistryKnown
<1> QED
  BY <1>1 DEF FieldsKnown, FieldKnown, HasPayload

LEMMA PyPayloadType ==
    ASSUME NEW m, Typed(m, Seq(Byte))
    PROVE  /\ PyPayload(m) \in Seq(Byte) /\ (HasPayload(m.kind) \/ PyPayload(m) = << >>)
<1> DEFINE form == Registry[m.kind].payload
<1>1. m.kind \in Kinds /\ PayloadTyped(form, m.payload, Seq(Byte))
  BY DEF Typed
<1>2. form \in {"none", "text", "names", "content"} /\ (HasPayload(m.kind) <=> form # "none")
  BY <1>1, FieldsAreKnown
<1>3. /\ form = "none" => PyPayload(m) = m.payload
      /\ form = "text" => PyPayload(m) = Utf8(m.payload)
      /\ form = "names" => PyPayload(m) = Utf8(Joined(m.payload))
      /\ form = "content" => PyPayload(m) = m.payload
  BY PayloadCases
<1> HIDE DEF form
<1>4. CASE form = "none"
  <2>1. << >> \in Seq(Byte)
    OBVIOUS
  <2> QED
    BY <1>1, <1>3, <1>4, <2>1 DEF PayloadTyped
<1>5. CASE form = "text"
  <2>1. m.payload \in Seq(Char)
    BY <1>1, <1>5 DEF PayloadTyped
  <2> QED
    BY <1>2, <1>3, <1>5, <2>1, Utf8Type
<1>6. CASE form = "names"
  <2>1. m.payload \in Seq(Seq(Char))
    BY <1>1, <1>6 DEF PayloadTyped
  <2>2. Joined(m.payload) \in Seq(Char)
    BY <2>1, NULIs, JoinedType
  <2> QED
    BY <1>2, <1>3, <1>6, <2>2, Utf8Type
<1>7. CASE form = "content"
  BY <1>1, <1>2, <1>3, <1>7 DEF PayloadTyped
<1> QED
  BY <1>2, <1>4, <1>5, <1>6, <1>7

LEMMA CsPayloadType ==
    ASSUME NEW m, Typed(m, Seq(Char))
    PROVE  /\ CsPayload(m) \in Seq(Byte) /\ (HasPayload(m.kind) \/ CsPayload(m) = << >>)
<1> DEFINE form == Registry[m.kind].payload
<1>1. m.kind \in Kinds /\ PayloadTyped(form, m.payload, Seq(Char))
  BY DEF Typed
<1>2. form \in {"none", "text", "names", "content"} /\ (HasPayload(m.kind) <=> form # "none")
  BY <1>1, FieldsAreKnown
<1>3. /\ form = "none" => CsPayload(m) = << >>
      /\ form = "text" => CsPayload(m) = Utf8(m.payload)
      /\ form = "names" => CsPayload(m) = Utf8(Joined(m.payload))
      /\ form = "content" => CsPayload(m) = Utf8(m.payload)
  BY PayloadCases
<1> HIDE DEF form
<1>4. CASE form = "none"
  <2>1. << >> \in Seq(Byte)
    OBVIOUS
  <2> QED
    BY <1>3, <1>4, <2>1
<1>5. CASE form = "text" \/ form = "content"
  <2>1. m.payload \in Seq(Char)
    BY <1>1, <1>5 DEF PayloadTyped
  <2> QED
    BY <1>2, <1>3, <1>5, <2>1, Utf8Type
<1>6. CASE form = "names"
  <2>1. m.payload \in Seq(Seq(Char))
    BY <1>1, <1>6 DEF PayloadTyped
  <2>2. Joined(m.payload) \in Seq(Char)
    BY <2>1, NULIs, JoinedType
  <2> QED
    BY <1>2, <1>3, <1>6, <2>2, Utf8Type
<1> QED
  BY <1>2, <1>4, <1>5, <1>6

\* The fields of a message as either end writes them.
PyRaws(m) ==
    LET fields == Registry[m.kind].fields
    IN  [i \in DOMAIN fields |-> PyField(fields[i], m.values[i])]
CsRaws(m) ==
    LET fields == Registry[m.kind].fields
    IN  [i \in DOMAIN fields |-> CsField(fields[i], m.values[i])]

RawsTyped(k, raws) ==
    /\ raws \in Seq(Seq(Byte)) /\ Len(raws) = Len(Registry[k].fields)
    /\ \A i \in 1 .. Len(raws) : Len(raws[i]) = Registry[k].fields[i].width

LEMMA RawsType ==
    ASSUME NEW m, NEW C, Typed(m, C)
    PROVE  RawsTyped(m.kind, PyRaws(m)) /\ RawsTyped(m.kind, CsRaws(m))
<1> DEFINE fields == Registry[m.kind].fields
           n == Len(fields)
           X == Seq(Byte)
           F(i) == PyField(fields[i], m.values[i])
           G(i) == CsField(fields[i], m.values[i])
<1>1. m.kind \in Kinds /\ \A i \in 1 .. n : FieldTyped(fields[i], m.values[i])
  BY DEF Typed
<1>2. n \in Nat /\ DOMAIN fields = 1 .. n /\ \A i \in 1 .. n : FieldKnown(fields[i])
  BY <1>1, FieldsAreKnown
<1>3. \A i \in 1 .. n : /\ F(i) \in X /\ Len(F(i)) = fields[i].width
                        /\ G(i) \in X /\ Len(G(i)) = fields[i].width
  BY <1>1, <1>2, PyFieldType, CsFieldType
<1>4. PyRaws(m) = [i \in 1 .. n |-> F(i)] /\ CsRaws(m) = [i \in 1 .. n |-> G(i)]
  BY <1>2 DEF PyRaws, CsRaws
<1> HIDE DEF X, F, G, n
<1>5. /\ PyRaws(m) \in Seq(X) /\ Len(PyRaws(m)) = n /\ \A i \in 1 .. n : PyRaws(m)[i] = F(i)
      /\ CsRaws(m) \in Seq(X) /\ Len(CsRaws(m)) = n /\ \A i \in 1 .. n : CsRaws(m)[i] = G(i)
  BY <1>2, <1>3, <1>4
<1> QED
  BY <1>3, <1>5 DEF RawsTyped, X, n

PyPieces(m) == PyRaws(m) \o Tail2(m.kind, PyPayload(m))
CsPieces(m) == CsRaws(m) \o Tail2(m.kind, CsPayload(m))

LEMMA RawsTold ==
    ASSUME NEW k \in Kinds, NEW raws, RawsTyped(k, raws), NEW data \in Seq(Byte),
           HasPayload(k) \/ data = << >>, Small(Len(data))
    PROVE  /\ Told(k, raws \o Tail2(k, data), data)
           /\ \A i \in 1 .. Len(Registry[k].fields) : (raws \o Tail2(k, data))[i] = raws[i]
<1> DEFINE pieces == raws \o Tail2(k, data)
<1>1. /\ raws \in Seq(Seq(Byte)) /\ Len(raws) = Len(Registry[k].fields)
      /\ \A i \in 1 .. Len(raws) : Len(raws[i]) = Registry[k].fields[i].width
  BY DEF RawsTyped
<1>2. Told(k, pieces, data) /\ \A i \in 1 .. Len(raws) : pieces[i] = raws[i]
  BY <1>1, PiecesTold
<1> QED
  BY <1>1, <1>2

LEMMA PyEncodeIs ==
    ASSUME NEW m, Typed(m, Seq(Byte)), Small(Len(PyPayload(m)))
    PROVE  /\ PyEncode(m) = Wire(m.kind, PyPieces(m))
           /\ Told(m.kind, PyPieces(m), PyPayload(m))
           /\ \A i \in 1 .. Len(Registry[m.kind].fields) :
                 PyPieces(m)[i] = PyField(Registry[m.kind].fields[i], m.values[i])
<1> DEFINE k == m.kind
           data == PyPayload(m)
           raws == PyRaws(m)
           pieces == PyPieces(m)
           n == Len(Registry[k].fields)
<1>1. k \in Kinds /\ RawsTyped(k, raws)
  BY RawsType DEF Typed
<1>2. data \in Seq(Byte) /\ (HasPayload(k) \/ data = << >>) /\ Small(Len(data))
  BY PyPayloadType
<1>3. pieces = raws \o Tail2(k, data)
  BY DEF PyPieces
<1>4. PyEncode(m) = Header(k, data) \o Concat(pieces)
  BY DEF PyEncode, PyPieces, PyRaws, Tail2
<1>5. \A i \in 1 .. n : raws[i] = PyField(Registry[k].fields[i], m.values[i])
  <2>1. DOMAIN Registry[k].fields = 1 .. n
    BY <1>1, FieldsAreKnown
  <2> QED
    BY <2>1 DEF PyRaws
<1> HIDE DEF k, data, raws, pieces
<1>6. Told(k, pieces, data) /\ \A i \in 1 .. n : pieces[i] = raws[i]
  BY <1>1, <1>2, <1>3, RawsTold
<1>7. PyEncode(m) = Wire(k, pieces)
  BY <1>2, <1>4, <1>6, HeaderIs
<1> QED
  BY <1>5, <1>6, <1>7 DEF k, data, pieces

\* The server puts the pieces at their offsets.
CsCovers(k, pieces, j, x) == x \in Offsets(k)[j] + 1 .. Offsets(k)[j] + Len(pieces[j])
CsByte(k, pieces, x) ==
    IF \E j \in DOMAIN pieces : CsCovers(k, pieces, j, x)
    THEN LET j == CHOOSE j \in DOMAIN pieces : CsCovers(k, pieces, j, x)
         IN  pieces[j][x - Offsets(k)[j]]
    ELSE NUL

LEMMA CsBytes ==
    ASSUME NEW k, NEW pieces, NEW data, Told(k, pieces, data)
    PROVE  [i \in 1 .. Len(Concat(pieces)) |-> CsByte(k, pieces, i + 2)] = Concat(pieces)
<1> DEFINE c == Concat(pieces)
           q == Big(k, 2)
           b == q \o c
<1>1. Laid(k, pieces) /\ k \in Kinds /\ pieces \in Seq(Seq(Byte))
  BY DEF Told, Laid
<1>2. /\ \A j \in 1 .. Len(pieces) : Holds(b, Place(k, j), pieces[j]) /\ Offsets(k)[j] = Place(k, j)
      /\ \A i \in 1 .. Len(c) :
            \E j \in 1 .. Len(pieces) : i + 2 \in Place(k, j) + 1 .. Place(k, j) + Len(pieces[j])
  BY <1>1, BodyHolds
<1>3. q \in Seq(Byte) /\ Len(q) = 2 /\ c \in Seq(Byte)
  <2>1. k \in Nat
    BY <1>1 DEF Kinds
  <2> QED
    BY <1>1, <2>1, BigType, ConcatType
<1>4. b = q \o c
  OBVIOUS
<1>5. DOMAIN pieces = 1 .. Len(pieces) /\ \A j \in 1 .. Len(pieces) : Len(pieces[j]) \in Nat
  <2> DEFINE X == Seq(Byte)
  <2>1. pieces \in Seq(X) /\ \A x \in X : Len(x) \in Nat
    BY <1>1
  <2> HIDE DEF X
  <2> QED
    BY <2>1
<1> HIDE DEF b, c, q
<1>6. Catted(b, q, c)
  BY <1>3, <1>4, CatIs
<1>7. ASSUME NEW i \in 1 .. Len(c) PROVE CsByte(k, pieces, i + 2) = c[i]
  <2> DEFINE j == CHOOSE j \in DOMAIN pieces : CsCovers(k, pieces, j, i + 2)
  <2>1. \E l \in DOMAIN pieces : CsCovers(k, pieces, l, i + 2)
    BY <1>2, <1>5 DEF CsCovers
  <2>2. j \in DOMAIN pieces /\ CsCovers(k, pieces, j, i + 2)
    BY <2>1
  <2>3. CsByte(k, pieces, i + 2) = pieces[j][(i + 2) - Offsets(k)[j]]
    BY <2>1 DEF CsByte
  <2> HIDE DEF j
  <2> DEFINE p == Place(k, j)
             y == pieces[j]
  <2>4. j \in 1 .. Len(pieces) /\ Offsets(k)[j] = p /\ Holds(b, p, y) /\ Len(y) \in Nat
    BY <1>2, <1>5, <2>2
  <2>5. i + 2 \in p + 1 .. p + Len(y)
    BY <2>2, <2>4 DEF CsCovers
  <2> HIDE DEF p
  <2> DEFINE z == (i + 2) - p
  <2>6. p \in Nat /\ \A l \in 1 .. Len(y) : b[p + l] = y[l]
    BY <2>4 DEF Holds
  <2>7. z \in 1 .. Len(y) /\ p + z = i + 2
    <3>1. i \in Int
      OBVIOUS
    <3> HIDE DEF y
    <3> QED
      BY <2>4, <2>5, <2>6, <3>1
  <2>8. b[i + 2] = y[z]
    <3> HIDE DEF z, y
    <3> QED
      BY <2>6, <2>7
  <2>9. b[i + 2] = c[i]
    <3>1. 2 + i = i + 2
      OBVIOUS
    <3>2. b[Len(q) + i] = c[i]
      BY <1>6 DEF Catted
    <3> QED
      BY <1>3, <3>1, <3>2
  <2> QED
    BY <2>3, <2>4, <2>8, <2>9
<1> DEFINE e == [i \in 1 .. Len(c) |-> CsByte(k, pieces, i + 2)]
<1>8. e = [i \in 1 .. Len(c) |-> c[i]]
  BY <1>7
<1>9. c = [i \in 1 .. Len(c) |-> c[i]]
  BY <1>3
<1> QED
  BY <1>8, <1>9 DEF c

LEMMA CsEncodeIs ==
    ASSUME NEW m, Typed(m, Seq(Char)), Small(Len(CsPayload(m)))
    PROVE  /\ CsEncode(m) = Wire(m.kind, CsPieces(m))
           /\ Told(m.kind, CsPieces(m), CsPayload(m))
           /\ \A i \in 1 .. Len(Registry[m.kind].fields) :
                 CsPieces(m)[i] = CsField(Registry[m.kind].fields[i], m.values[i])
<1> DEFINE k == m.kind
           data == CsPayload(m)
           raws == CsRaws(m)
           pieces == CsPieces(m)
           n == Len(Registry[k].fields)
           size == FullSize(k, data) - 2
<1>1. k \in Kinds /\ RawsTyped(k, raws)
  BY RawsType DEF Typed
<1>2. data \in Seq(Byte) /\ (HasPayload(k) \/ data = << >>) /\ Small(Len(data))
  BY CsPayloadType
<1>3. pieces = raws \o Tail2(k, data)
  BY DEF CsPieces
<1>4. CsEncode(m) = Header(k, data) \o [i \in 1 .. size |-> CsByte(k, pieces, i + 2)]
  BY DEF CsEncode, CsPieces, CsRaws, Tail2, CsByte, CsCovers
<1>5. \A i \in 1 .. n : raws[i] = CsField(Registry[k].fields[i], m.values[i])
  <2>1. DOMAIN Registry[k].fields = 1 .. n
    BY <1>1, FieldsAreKnown
  <2> QED
    BY <2>1 DEF CsRaws
<1> HIDE DEF k, data, raws, pieces
<1>6. Told(k, pieces, data) /\ \A i \in 1 .. n : pieces[i] = raws[i]
  BY <1>1, <1>2, <1>3, RawsTold
<1>7. Header(k, data) \o Concat(pieces) = Wire(k, pieces) /\ size = Len(Concat(pieces))
  BY <1>2, <1>6, HeaderIs
<1>8. [i \in 1 .. Len(Concat(pieces)) |-> CsByte(k, pieces, i + 2)] = Concat(pieces)
  BY <1>6, CsBytes
<1> HIDE DEF size
<1>9. CsEncode(m) = Wire(k, pieces)
  BY <1>4, <1>7, <1>8
<1> QED
  BY <1>5, <1>6, <1>9 DEF k, data, pieces

-----------------------------------------------------------------------------
(***************************************************************************)
(* The folders of a project have one order.                                *)
(***************************************************************************)
LEMMA SamePrefix ==
    ASSUME NEW S, NEW s \in Seq(S), NEW t \in Seq(S), NEW n \in Nat, n <= Len(s), n <= Len(t),
           \A i \in 1 .. n : s[i] = t[i]
    PROVE  SubSeq(s, 1, n) = SubSeq(t, 1, n)
<1> DEFINE x == SubSeq(s, 1, n)
           y == SubSeq(t, 1, n)
<1>1. x \in Seq(S) /\ Len(x) = n /\ \A i \in 1 .. n : x[i] = s[i]
  OBVIOUS
<1>2. y \in Seq(S) /\ Len(y) = n /\ \A i \in 1 .. n : y[i] = t[i]
  OBVIOUS
<1> HIDE DEF x, y
<1>3. x = y
  BY <1>1, <1>2, SeqEqual
<1> QED
  BY <1>3 DEF x, y

LEMMA Comparable ==
    ASSUME NEW s \in Seq(Nat), NEW t \in Seq(Nat), s # t
    PROVE  Precedes(s, t) \/ Precedes(t, s)
<1> DEFINE D == {i \in DOMAIN s \cap DOMAIN t : s[i] # t[i]}
<1>1. /\ DOMAIN s = 1 .. Len(s) /\ DOMAIN t = 1 .. Len(t) /\ Len(s) \in Nat /\ Len(t) \in Nat
      /\ \A i \in 1 .. Len(s) : s[i] \in Nat
      /\ \A i \in 1 .. Len(t) : t[i] \in Nat
  OBVIOUS
<1>2. CASE D # {}
  <2>1. D \in SUBSET Nat
    BY <1>1
  <2>2. PICK i \in D : \A j \in D : i <= j
    <3> HIDE DEF D
    <3> QED
      BY <1>2, <2>1, LeastNatural
  <2>3. /\ i \in DOMAIN s \cap DOMAIN t /\ s[i] # t[i]
        /\ i \in 1 .. Len(s) /\ i \in 1 .. Len(t)
    BY <1>1
  <2>4. ASSUME NEW j \in 1 .. i - 1 PROVE s[j] = t[j]
    <3>1. j \in 1 .. Len(s) /\ j \in 1 .. Len(t) /\ ~(i <= j)
      BY <1>1, <2>3
    <3> QED
      BY <1>1, <2>2, <3>1
  <2>5. s[i] < t[i] \/ t[i] < s[i]
    BY <1>1, <2>3
  <2> QED
    BY <2>3, <2>4, <2>5 DEF Precedes
<1>3. CASE D = {}
  <2>1. \A i \in DOMAIN s \cap DOMAIN t : s[i] = t[i]
    BY <1>3
  <2>2. Len(s) # Len(t)
    <3>1. ASSUME Len(s) = Len(t) PROVE \A i \in 1 .. Len(s) : s[i] = t[i]
      BY <1>1, <2>1, <3>1
    <3> HIDE DEF D
    <3> QED
      BY <3>1, SeqEqual
  <2>3. CASE Len(s) < Len(t)
    <3>1. SubSeq(s, 1, Len(s)) = SubSeq(t, 1, Len(s))
      <4>1. \A i \in 1 .. Len(s) : s[i] = t[i]
        BY <1>1, <2>1, <2>3
      <4> DEFINE n == Len(s)
      <4>2. n \in Nat /\ n <= Len(s) /\ n <= Len(t) /\ \A i \in 1 .. n : s[i] = t[i]
        BY <1>1, <2>3, <4>1
      <4> HIDE DEF D, n
      <4>3. SubSeq(s, 1, n) = SubSeq(t, 1, n)
        BY <4>2, SamePrefix
      <4> QED
        BY <4>3 DEF n
    <3> QED
      BY <1>1, <2>3, <3>1 DEF Precedes, IsStrictPrefix, IsPrefix
  <2>4. CASE Len(t) < Len(s)
    <3>1. SubSeq(t, 1, Len(t)) = SubSeq(s, 1, Len(t))
      <4>1. \A i \in 1 .. Len(t) : s[i] = t[i]
        BY <1>1, <2>1, <2>4
      <4> HIDE DEF D
      <4> QED
        BY <1>1, <2>4, <4>1, SamePrefix
    <3> QED
      BY <1>1, <2>4, <3>1 DEF Precedes, IsStrictPrefix, IsPrefix
  <2>5. Len(s) \in Nat /\ Len(t) \in Nat
    OBVIOUS
  <2>6. Len(s) < Len(t) \/ Len(t) < Len(s)
    BY <2>2, <2>5
  <2> QED
    BY <2>3, <2>4, <2>6
<1> QED
  BY <1>2, <1>3

LEMMA LastSlashIs ==
    ASSUME NEW path \in Seq(Nat)
    PROVE  LastSlash(path) \in 0 .. Len(path)
<1> DEFINE I == {i \in 1 .. Len(path) : path[i] = Slash}
           J == {n \in Nat : Len(path) - n \in I}
<1>1. LastSlash(path) = IF I # {} THEN Max(I) ELSE 0
  BY DEF LastSlash, SelectLastInSeq
<1>2. ASSUME I # {} PROVE Max(I) \in I
  <2>1. PICK i \in I : TRUE
    BY <1>2
  <2>2. Len(path) \in Nat /\ i \in 1 .. Len(path)
    OBVIOUS
  <2>3. Len(path) - (Len(path) - i) = i /\ Len(path) - i \in Nat
    BY <2>2
  <2>4. Len(path) - i \in J
    BY <2>3
  <2>5. J \in SUBSET Nat /\ J # {}
    BY <2>4
  <2>6. PICK n \in J : \A k \in J : n <= k
    <3> HIDE DEF J
    <3> QED
      BY <2>5, LeastNatural
  <2> DEFINE x == Len(path) - n
  <2>7. x \in I
    OBVIOUS
  <2>8. ASSUME NEW y \in I PROVE x >= y
    <3>1. y \in 1 .. Len(path)
      OBVIOUS
    <3>2. Len(path) - (Len(path) - y) = y /\ Len(path) - y \in Nat
      BY <2>2, <3>1
    <3>3. Len(path) - y \in J
      BY <3>2
    <3>4. n <= Len(path) - y
      BY <2>6, <3>3
    <3>5. n \in Nat
      OBVIOUS
    <3> QED
      BY <2>2, <3>1, <3>4, <3>5
  <2> HIDE DEF I, x
  <2>9. \A y \in I : x >= y
    BY <2>8
  <2> QED
    BY <2>7, <2>9 DEF Max
<1>3. I \subseteq 1 .. Len(path) /\ Len(path) \in Nat
  OBVIOUS
<1> HIDE DEF I
<1>4. CASE I = {}
  BY <1>1, <1>3, <1>4
<1>5. CASE I # {}
  <2>1. Max(I) \in 1 .. Len(path)
    BY <1>2, <1>3, <1>5
  <2> QED
    BY <1>1, <1>3, <1>5, <2>1
<1> QED
  BY <1>4, <1>5

LEMMA PathParts ==
    ASSUME NEW path \in Seq(Nat)
    PROVE  Dirname(path) \in Seq(Nat) /\ Basename(path) \in Seq(Nat)
<1> DEFINE i == LastSlash(path)
<1>1. i \in 0 .. Len(path) /\ Len(path) \in Nat
  BY LastSlashIs
<1>2. /\ Basename(path) = SubSeq(path, i + 1, Len(path))
      /\ Dirname(path) = SubSeq(path, 1, IF i = 1 THEN 1 ELSE i - 1)
  BY DEF Basename, Dirname
<1> HIDE DEF i
<1>3. SubSeq(path, i + 1, Len(path)) \in Seq(Nat)
  BY <1>1
<1>4. SubSeq(path, 1, i - 1) \in Seq(Nat)
  BY <1>1
<1>5. i = 1 => SubSeq(path, 1, 1) \in Seq(Nat)
  BY <1>1
<1> QED
  BY <1>2, <1>3, <1>4, <1>5

\* The paths of two folders are never the same when they are taken apart.
Apart(S) ==
    /\ IsFiniteSet(S) /\ S \subseteq Seq(Char)
    /\ \A p, q \in S : Dirname(p) = Dirname(q) /\ Basename(p) = Basename(q) => p = q

LEMMA FoldersCompare ==
    ASSUME NEW S, Apart(S), NEW p \in S, NEW q \in S, p # q
    PROVE  FolderPrecedes(p, q) \/ FolderPrecedes(q, p)
<1>1. p \in Seq(Nat) /\ q \in Seq(Nat)
  <2>1. p \in Seq(Char) /\ q \in Seq(Char)
    BY DEF Apart
  <2>2. Char \subseteq Nat
    BY CharIsNat
  <2>3. ASSUME NEW t \in Seq(Char) PROVE t \in Seq(Nat)
    <3>1. Len(t) \in Nat /\ t = [i \in 1 .. Len(t) |-> t[i]] /\ \A i \in 1 .. Len(t) : t[i] \in Char
      OBVIOUS
    <3>2. \A i \in 1 .. Len(t) : t[i] \in Nat
      BY <2>2, <3>1
    <3> QED
      BY <3>1, <3>2
  <2> QED
    BY <2>1, <2>3
<1>2. /\ Dirname(p) \in Seq(Nat) /\ Basename(p) \in Seq(Nat)
      /\ Dirname(q) \in Seq(Nat) /\ Basename(q) \in Seq(Nat)
  BY <1>1, PathParts
<1>3. Dirname(p) # Dirname(q) \/ Basename(p) # Basename(q)
  BY DEF Apart
<1>4. CASE Dirname(p) # Dirname(q)
  BY <1>2, <1>4, Comparable DEF FolderPrecedes
<1>5. CASE Dirname(p) = Dirname(q) /\ Basename(p) # Basename(q)
  BY <1>2, <1>5, Comparable DEF FolderPrecedes
<1> QED
  BY <1>3, <1>4, <1>5

LEMMA Enumerated ==
    ASSUME NEW S, IsFiniteSet(S), NEW s \in SetToSeqs(S)
    PROVE  /\ s \in Seq(S) /\ Len(s) = Cardinality(S) /\ ToSet(s) = S /\ Cardinality(S) \in Nat
           /\ \A i, j \in 1 .. Len(s) : i # j => s[i] # s[j]
<1> DEFINE n == Cardinality(S)
           D == 1 .. n
<1>1. n \in Nat
  BY FS_CardinalityType
<1>2. s \in [D -> S] /\ \A i, j \in D : i # j => s[i] # s[j]
  BY DEF SetToSeqs
<1>3. s \in Injection(D, S)
  BY <1>2 DEF Injection, IsInjective
<1>4. IsFiniteSet(D) /\ Cardinality(D) = n
  BY <1>1, FS_Interval
<1>5. s \in Surjection(D, S)
  BY <1>3, <1>4, FS_Injection
<1>6. \A x \in S : \E i \in D : s[i] = x
  BY <1>5 DEF Surjection
<1>7. s \in Seq(S) /\ Len(s) = n
  <2> HIDE DEF n
  <2> QED
    BY <1>1, <1>2
<1>8. ToSet(s) = S
  <2> HIDE DEF D
  <2> QED
    BY <1>2, <1>6 DEF ToSet
<1> QED
  BY <1>1, <1>2, <1>7, <1>8

\* s with x behind the first p.
Inserted(s, p, x) ==
    [i \in 1 .. Len(s) + 1 |-> IF i <= p THEN s[i] ELSE IF i = p + 1 THEN x ELSE s[i - 1]]

LEMMA InsertedIs ==
    ASSUME NEW s, NEW n \in Nat, Len(s) = n, NEW p \in 0 .. n, NEW x, NEW t, t = Inserted(s, p, x)
    PROVE  /\ DOMAIN t = 1 .. n + 1 /\ t[p + 1] = x
           /\ \A i \in 1 .. n + 1 : /\ i <= p => t[i] = s[i] /\ i \in 1 .. n
                                    /\ i > p + 1 => t[i] = s[i - 1] /\ i - 1 \in 1 .. n
                                    /\ i <= p \/ i = p + 1 \/ i > p + 1
BY DEF Inserted

LEMMA InsertedSeqs ==
    ASSUME NEW R, IsFiniteSet(R), NEW x, x \notin R, NEW s \in SetToSeqs(R), NEW p \in 0 .. Len(s)
    PROVE  Inserted(s, p, x) \in SetToSeqs(R \cup {x})
<1> DEFINE n == Cardinality(R)
           t == Inserted(s, p, x)
           S == R \cup {x}
<1>1. n \in Nat /\ Len(s) = n /\ s \in Seq(R) /\ \A i, j \in 1 .. n : i # j => s[i] # s[j]
  BY Enumerated
<1>2. Cardinality(S) = n + 1
  BY FS_AddElement
<1>3. /\ DOMAIN t = 1 .. n + 1 /\ t[p + 1] = x
      /\ \A i \in 1 .. n + 1 : /\ i <= p => t[i] = s[i] /\ i \in 1 .. n
                               /\ i > p + 1 => t[i] = s[i - 1] /\ i - 1 \in 1 .. n
                               /\ i <= p \/ i = p + 1 \/ i > p + 1
  <2> HIDE DEF n, t
  <2> QED
    BY <1>1, InsertedIs DEF t
<1>4. \A i \in 1 .. n : s[i] \in R
  BY <1>1
<1>5. p \in 0 .. n
  BY <1>1
<1>6. t = [i \in DOMAIN t |-> t[i]]
  BY DEF Inserted
<1> HIDE DEF n, t
<1>7. \A i \in 1 .. n + 1 : t[i] \in S
  BY <1>3, <1>4
<1>8. t \in [1 .. n + 1 -> S]
  BY <1>3, <1>6, <1>7
<1>9. ASSUME NEW i \in 1 .. n + 1, NEW j \in 1 .. n + 1, i < j
      PROVE  t[i] # t[j]
  <2>1. CASE j <= p
    <3>1. i <= p
      BY <1>1, <1>5, <1>9, <2>1
    <3> QED
      BY <1>1, <1>3, <1>9, <2>1, <3>1
  <2>2. CASE j = p + 1
    <3>1. i <= p
      BY <1>1, <1>5, <1>9, <2>2
    <3> QED
      BY <1>3, <1>4, <2>2, <3>1
  <2>3. CASE j > p + 1
    <3>1. CASE i <= p
      <4>1. i # j - 1
        BY <1>5, <2>3, <3>1
      <4> QED
        BY <1>1, <1>3, <2>3, <3>1, <4>1
    <3>2. CASE i = p + 1
      BY <1>3, <1>4, <2>3, <3>2
    <3>3. CASE i > p + 1
      <4>1. i - 1 # j - 1
        BY <1>9
      <4> QED
        BY <1>1, <1>3, <2>3, <3>3, <4>1
    <3> QED
      BY <1>3, <3>1, <3>2, <3>3
  <2> QED
    BY <1>3, <2>1, <2>2, <2>3
<1>10. \A i, j \in 1 .. n + 1 : i # j => t[i] # t[j]
  <2> SUFFICES ASSUME NEW i \in 1 .. n + 1, NEW j \in 1 .. n + 1, i # j
               PROVE  t[i] # t[j]
    OBVIOUS
  <2>1. i < j \/ j < i
    BY <1>1
  <2> QED
    BY <1>9, <2>1
<1>11. t \in SetToSeqs(S)
  BY <1>2, <1>8, <1>10 DEF SetToSeqs
<1> QED
  BY <1>11 DEF t

LEMMA InsertedAscends ==
    ASSUME NEW S, Apart(S), NEW x \in S, NEW s \in Seq(S \ {x}), Ascending(s)
    PROVE  \E p \in 0 .. Len(s) : Ascending(Inserted(s, p, x))
<1> DEFINE n == Len(s)
           P == {i \in 0 .. n : i = n \/ FolderPrecedes(x, s[i + 1])}
<1>1. n \in Nat /\ n \in P /\ P \in SUBSET Nat
  OBVIOUS
<1>2. PICK p \in P : \A i \in P : p <= i
  <2> HIDE DEF P
  <2> QED
    BY <1>1, LeastNatural
<1>3. p \in 0 .. n /\ (p = n \/ FolderPrecedes(x, s[p + 1]))
  OBVIOUS
<1>4. p > 0 => FolderPrecedes(s[p], x)
  <2> SUFFICES ASSUME p > 0 PROVE FolderPrecedes(s[p], x)
    OBVIOUS
  <2>1. p - 1 \in 0 .. n /\ ~(p <= p - 1) /\ p - 1 # n /\ (p - 1) + 1 = p /\ p \in 1 .. n
    BY <1>1, <1>3
  <2>2. ~FolderPrecedes(x, s[p])
    BY <1>2, <2>1
  <2>3. s[p] \in S /\ s[p] # x
    BY <2>1
  <2> QED
    BY <2>2, <2>3, FoldersCompare
<1> DEFINE t == Inserted(s, p, x)
<1>5. /\ DOMAIN t = 1 .. n + 1 /\ t[p + 1] = x
      /\ \A i \in 1 .. n + 1 : /\ i <= p => t[i] = s[i] /\ i \in 1 .. n
                               /\ i > p + 1 => t[i] = s[i - 1] /\ i - 1 \in 1 .. n
                               /\ i <= p \/ i = p + 1 \/ i > p + 1
  <2> HIDE DEF n, t, P
  <2> QED
    BY <1>1, <1>3, InsertedIs DEF t, n
<1>6. Len(t) = n + 1
  BY <1>1 DEF Inserted
<1>7. \A i \in 2 .. n : FolderPrecedes(s[i - 1], s[i])
  BY DEF Ascending
<1> HIDE DEF n, t, P
<1>8. ASSUME NEW i \in 2 .. n + 1 PROVE FolderPrecedes(t[i - 1], t[i])
  <2>1. i \in 1 .. n + 1 /\ i - 1 \in 1 .. n + 1 /\ i \in Nat
    BY <1>1
  <2>2. CASE i <= p
    <3>1. i - 1 <= p /\ i \in 2 .. n
      BY <1>1, <1>3, <2>1, <2>2
    <3> QED
      BY <1>5, <1>7, <2>1, <2>2, <3>1
  <2>3. CASE i = p + 1
    <3>1. i - 1 = p /\ p > 0 /\ i - 1 <= p
      BY <1>3, <2>3
    <3>2. t[i - 1] = s[p] /\ t[i] = x
      BY <1>5, <2>1, <2>3, <3>1
    <3> QED
      BY <1>4, <3>1, <3>2
  <2>4. CASE i = p + 2
    <3>1. i - 1 = p + 1 /\ i > p + 1 /\ p # n
      BY <1>1, <1>3, <2>4
    <3>2. t[i - 1] = x /\ t[i] = s[p + 1]
      BY <1>5, <2>1, <3>1
    <3> QED
      BY <1>3, <3>1, <3>2
  <2>5. CASE i > p + 2
    <3>1. i - 1 > p + 1 /\ i > p + 1 /\ i - 1 \in 2 .. n /\ (i - 1) - 1 = i - 2
      BY <1>1, <1>3, <2>1, <2>5
    <3>2. t[i - 1] = s[(i - 1) - 1] /\ t[i] = s[i - 1]
      BY <1>5, <2>1, <3>1
    <3> QED
      BY <1>7, <3>1, <3>2
  <2>6. i <= p \/ i = p + 1 \/ i = p + 2 \/ i > p + 2
    BY <1>1, <1>3, <2>1
  <2> QED
    BY <2>2, <2>3, <2>4, <2>5, <2>6
<1>9. Ascending(t)
  BY <1>6, <1>8 DEF Ascending
<1> QED
  BY <1>3, <1>9 DEF t, n

LEMMA SortedExists ==
    ASSUME NEW S, Apart(S)
    PROVE  \E s \in SetToSeqs(S) : Ascending(s)
<1> DEFINE Sortable(n) == \A R \in SUBSET S : Cardinality(R) = n =>
                              \E s \in SetToSeqs(R) : Ascending(s)
           T == {n \in Nat : Sortable(n)}
<1>1. IsFiniteSet(S) /\ \A R \in SUBSET S : IsFiniteSet(R)
  BY FS_Subset DEF Apart
<1>2. 0 \in T
  <2> SUFFICES ASSUME NEW R \in SUBSET S, Cardinality(R) = 0
               PROVE  \E s \in SetToSeqs(R) : Ascending(s)
    OBVIOUS
  <2>1. << >> \in SetToSeqs(R)
    BY DEF SetToSeqs
  <2>2. Ascending(<< >>)
    BY DEF Ascending
  <2> QED
    BY <2>1, <2>2
<1>3. ASSUME NEW n \in T PROVE n + 1 \in T
  <2> SUFFICES ASSUME NEW R \in SUBSET S, Cardinality(R) = n + 1
               PROVE  \E s \in SetToSeqs(R) : Ascending(s)
    OBVIOUS
  <2>1. n \in Nat /\ Sortable(n)
    OBVIOUS
  <2>2. IsFiniteSet(R) /\ R # {}
    BY <1>1, <2>1, FS_EmptySet
  <2>3. PICK x \in R : TRUE
    BY <2>2
  <2> DEFINE Q == R \ {x}
  <2>4. IsFiniteSet(Q) /\ Cardinality(Q) = n /\ Q \in SUBSET S /\ Q \cup {x} = R /\ x \notin Q
    BY <2>1, <2>2, FS_RemoveElement
  <2> HIDE DEF T
  <2>5. PICK s \in SetToSeqs(Q) : Ascending(s)
    BY <2>1, <2>4
  <2>6. s \in Seq(Q)
    BY <2>4, Enumerated
  <2>7. Apart(R)
    BY <2>2 DEF Apart
  <2>8. PICK p \in 0 .. Len(s) : Ascending(Inserted(s, p, x))
    BY <2>6, <2>5, <2>7, InsertedAscends
  <2>9. Inserted(s, p, x) \in SetToSeqs(R)
    BY <2>4, <2>5, <2>8, InsertedSeqs
  <2> QED
    BY <2>8, <2>9
<1>4. T \in SUBSET Nat
  OBVIOUS
<1>5. \A n \in Nat : n \in T
  <2> HIDE DEF T
  <2> QED
    BY <1>2, <1>3, <1>4, Induction
<1>6. Cardinality(S) \in T
  BY <1>1, <1>5, FS_CardinalityType
<1> QED
  BY <1>6

\* A build id is a text, and does not depend on the order of the folders.
LEMMA BuildIdIs ==
    ASSUME NEW S, Apart(S), NEW folders \in SetToSeqs(S)
    PROVE  /\ BuildId(folders) \in Seq(Char)
           /\ \A others \in SetToSeqs(S) : BuildId(others) = BuildId(folders)
           /\ \A f : S = {f} => BuildId(folders) = f
<1>1. IsFiniteSet(S) /\ S \subseteq Seq(Char)
  BY DEF Apart
<1>2. ToSet(folders) = S /\ \A others \in SetToSeqs(S) : ToSet(others) = S
  BY <1>1, Enumerated
<1> DEFINE s == SortedFolders(folders)
<1>3. s = CHOOSE t \in SetToSeqs(S) : Ascending(t)
  BY <1>2 DEF SortedFolders
<1>4. s \in SetToSeqs(S)
  BY <1>3, SortedExists
<1>5. s \in Seq(S) /\ Len(s) = Cardinality(S)
  BY <1>1, <1>4, Enumerated
<1>6. BuildId(folders) = Concat(s)
  BY DEF BuildId
<1>7. \A others \in SetToSeqs(S) : BuildId(others) = Concat(s)
  BY <1>2, <1>3 DEF BuildId, SortedFolders
<1> HIDE DEF s
<1>8. Concat(s) \in Seq(Char)
  <2>1. s \in Seq(Seq(Char))
    <3> DEFINE X == Seq(Char)
    <3>1. S \subseteq X /\ s \in Seq(S)
      BY <1>1, <1>5
    <3> HIDE DEF X
    <3>2. s \in Seq(X)
      BY <3>1
    <3> QED
      BY <3>2 DEF X
  <2> QED
    BY <2>1, ConcatType
<1>9. ASSUME NEW f, S = {f} PROVE Concat(s) = f
  <2>1. Cardinality(S) = 1
    BY <1>9, FS_Singleton
  <2>2. s = <<f>>
    BY <1>5, <1>9, <2>1
  <2>3. f \in Seq(Char)
    BY <1>1, <1>9
  <2> QED
    BY <2>2, <2>3, ConcatSingle
<1> QED
  BY <1>6, <1>7, <1>8, <1>9
=============================================================================
