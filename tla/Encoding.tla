------------------------------ MODULE Encoding ------------------------------
(***************************************************************************)
(* Text and numbers as bytes, the way both programs make them: struct,     *)
(* encode and decode in Python (messages.py), BigEndianBitConverter,       *)
(* Encoding.UTF8 and Extensions.cs on the server.                          *)
(*                                                                         *)
(* A text is a sequence of code points below 2^16, and a byte is a number. *)
(***************************************************************************)
EXTENDS Integers, Sequences, SequencesExt

Byte == 0 .. 255
Char == {c \in Nat : c < 65536 /\ ~(55296 <= c /\ c <= 57343)}    \* no half of a pair

NUL == 0

\* One after the other, as FlattenSeq; halves do not recurse deeply.
Concat(seqs) ==
    LET size == Len(seqs)
        part[r \in (1 .. size + 1) \X (0 .. size)] ==
            IF r[1] > r[2] THEN << >>
            ELSE IF r[1] = r[2] THEN seqs[r[1]]
            ELSE LET middle == (r[1] + r[2]) \div 2
                 IN  part[<<r[1], middle>>] \o part[<<middle + 1, r[2]>>]
    IN  part[<<1, size>>]

\* Fills up with NUL, or cuts.
Fit(s, width) == [i \in 1 .. width |-> IF i <= Len(s) THEN s[i] ELSE NUL]

\* rstrip("\000"), TrimEnd.
Stripped(text) ==
    LET size    == Len(text)
        Ends(n) == /\ n = 0 \/ text[n] # NUL
                   /\ \A i \in n + 1 .. size : text[i] = NUL
    IN  SubSeq(text, 1, CHOOSE n \in 0 .. size : Ends(n))

Joined(texts) ==
    Concat([i \in DOMAIN texts |-> IF i = 1 THEN texts[i] ELSE <<NUL>> \o texts[i]])

Split(text) ==
    LET Cut(i)   == i \in {0, Len(text) + 1} \/ text[i] = NUL
        Before(i) == CHOOSE j \in 0 .. i - 1 : Cut(j) /\ \A n \in j + 1 .. i - 1 : ~Cut(n)
    IN  Concat([i \in 1 .. Len(text) + 1 |->
                   IF Cut(i) THEN <<SubSeq(text, Before(i) + 1, i - 1)>> ELSE << >>])
-----------------------------------------------------------------------------
\* Numbers have a width in bytes, the most significant one first.
Weight == <<1, 256, 65536, 16777216>>

InWidth(n, width) == n >= 0 /\ n \div Weight[width] < 256

Big(n, width) == [i \in 1 .. width |-> (n \div Weight[width - i + 1]) % 256]

Number(bytes) ==
    LET value[i \in 0 .. Len(bytes)] ==
            IF i = 0 THEN 0 ELSE value[i - 1] * 256 + bytes[i]
    IN  value[Len(bytes)]
-----------------------------------------------------------------------------
(***************************************************************************)
(* UTF-8.  A byte that belongs to no character is read as NoChar: Python   *)
(* raises, .NET replaces it.                                               *)
(***************************************************************************)
NoChar == -1
ReplacementChar == 65533
ByteOrderMark == <<239, 187, 191>>

CharBytes(c) ==
    CASE c < 128  -> <<c>>
      [] c < 2048 /\ c >= 128 -> <<192 + c \div 64, 128 + (c % 64)>>
      [] OTHER    -> <<224 + c \div 4096, 128 + ((c \div 64) % 64), 128 + (c % 64)>>

Utf8(text) == Concat([i \in DOMAIN text |-> CharBytes(text[i])])

Continues(byte) == byte \div 64 = 2

Follows(bytes, i, n) ==
    i + n <= Len(bytes) /\ \A j \in 1 .. n : Continues(bytes[i + j])

\* The bytes of the character that begins at i; 0 if none does, or one that has
\* a shorter form, or half of a pair.
CharLength(bytes, i) ==
    IF bytes[i] < 128 THEN 1
    ELSE IF bytes[i] \in 194 .. 223 /\ Follows(bytes, i, 1) THEN 2
    ELSE IF /\ bytes[i] \in 224 .. 239 /\ Follows(bytes, i, 2)
            /\ bytes[i] = 224 => bytes[i + 1] >= 160
            /\ bytes[i] = 237 => bytes[i + 1] < 160  THEN 3
    ELSE 0

CharAt(bytes, i) ==
    LET length == CharLength(bytes, i)
    IN  IF length = 1 THEN bytes[i]
        ELSE IF length = 2 THEN (bytes[i] % 32) * 64 + (bytes[i + 1] % 64)
        ELSE IF length = 3 THEN (bytes[i] % 16) * 4096 + (bytes[i + 1] % 64) * 64
                                    + (bytes[i + 2] % 64)
        ELSE NoChar

\* A byte that another character has taken begins none.
Begins(bytes, i) ==
    \A j \in {i - 2, i - 1} \cap DOMAIN bytes : CharLength(bytes, j) <= i - j

Chars(bytes) ==
    Concat([i \in DOMAIN bytes |-> IF Begins(bytes, i) THEN <<CharAt(bytes, i)>> ELSE << >>])

IsUtf8(bytes) == NoChar \notin ToSet(Chars(bytes))

Replaced(chars) ==
    [i \in DOMAIN chars |-> IF chars[i] = NoChar THEN ReplacementChar ELSE chars[i]]
=============================================================================
