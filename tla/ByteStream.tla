----------------------------- MODULE ByteStream -----------------------------
(***************************************************************************)
(* The bytes of one direction of a connection: N messages, one after the   *)
(* other, each a header that holds the length of what follows it           *)
(* (messages.py, "struct.pack('>I..."; the Encode methods of the server).  *)
(*                                                                         *)
(* A byte is its position in the stream, so that a receiver which mixes up *)
(* bytes is found out whatever they are.                                   *)
(***************************************************************************)
EXTENDS Integers, Sequences

CONSTANTS
    N,          \* number of messages
    HeaderLen,  \* bytes of a header (4)
    Length,     \* Length[k]: bytes of message k, without its header
    Start       \* Start[k]: bytes before message k

ASSUME StreamAssumption ==
    /\ N \in Nat /\ HeaderLen \in Nat \ {0}
    /\ Length \in [1 .. N -> Nat]
    /\ Start \in [1 .. N + 1 -> Nat]
    /\ Start[1] = 0
    /\ \A k \in 1 .. N : Start[k + 1] = Start[k] + HeaderLen + Length[k]
    \* This follows from the above, by induction.
    /\ \A k \in 1 .. N : \A j \in k + 1 .. N + 1 : Start[k + 1] <= Start[j]

Total == Start[N + 1]

\* The n bytes that follow the first a.
Span(a, n) == [i \in 1 .. n |-> a + i]

Header(k) == Span(Start[k], HeaderLen)
Body(k)   == Span(Start[k] + HeaderLen, Length[k])

\* The length four bytes stand for; 0 if they are not a header.
Decoded(bytes) ==
    IF \E k \in 1 .. N : bytes = Header(k)
    THEN Length[CHOOSE k \in 1 .. N : bytes = Header(k)] ELSE 0
=============================================================================
