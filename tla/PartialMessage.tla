--------------------------- MODULE PartialMessage ---------------------------
(***************************************************************************)
(* The receiving side of the server (BuildClient.ReadCallback and          *)
(* PartialMessage.cs): chunks of any size are given to a partial message,  *)
(* which takes what it can use, until it is complete.                      *)
(***************************************************************************)
EXTENDS ByteStream

CONSTANTS ReadBufferSize, Null

ASSUME BufferAssumption == ReadBufferSize \in Nat \ {0} /\ Null \notin Int

VARIABLES
    taken,        \* bytes the socket has handed over
    readBuffer,   \* the last chunk
    offset,       \* bytesUsed of ReadCallback: how much of it was given away
    msgLenBytes,  \* inMsg: the header,
    msgLength,    \* the size of msgData (Null: there is none),
    msgData,      \* what it has been filled with,
    bytesUsed,    \* and how much of the one being filled is
    dispatched    \* history: the messages given to Dispatch

msgVars == <<msgLenBytes, msgLength, msgData, bytesUsed>>
vars == <<taken, readBuffer, offset, msgVars, dispatched>>

NewMessage ==
    /\ msgLenBytes' = <<>> /\ msgLength' = Null /\ msgData' = <<>>
    /\ bytesUsed' = 0

Init ==
    /\ taken = 0 /\ readBuffer = <<>> /\ offset = 0
    /\ msgLenBytes = <<>> /\ msgLength = Null /\ msgData = <<>> /\ bytesUsed = 0
    /\ dispatched = <<>>

Smaller(a, b) == IF a <= b THEN a ELSE b

BlockCopyOver(src, from, dst, at, n) ==     \* mutant: copies to the start
    SubSeq(src, from + 1, from + n)

\* Buffer.BlockCopy; what is behind the bytes in use is of no interest.
BlockCopy(src, from, dst, at, n) ==
    SubSeq(dst, 1, at) \o SubSeq(src, from + 1, from + n)

IsCompleteUsed ==               \* mutant: a message has to have bytes
    msgLength # Null /\ bytesUsed > 0 /\ bytesUsed = msgLength

IsComplete == msgLength # Null /\ bytesUsed = msgLength

Remain == Len(readBuffer) - offset

\* EndReceive gives what has arrived, at most a buffer full.
Read(n) ==
    /\ Remain = 0 /\ ~IsComplete
    /\ n <= ReadBufferSize /\ taken + n <= Total
    /\ readBuffer' = Span(taken, n) /\ offset' = 0
    /\ taken' = taken + n
    /\ UNCHANGED <<msgVars, dispatched>>

(***************************************************************************)
(* GiveBytes: the rest of the header and, if that completes it, or if it   *)
(* had been complete, as much of the message as there is.                  *)
(***************************************************************************)
GiveData(length, from, left, at) ==
    LET n == Smaller(left, length - at)
    IN  /\ msgData' = BlockCopy(readBuffer, from, msgData, at, n)
        /\ bytesUsed' = at + n
        /\ offset' = from + n

GiveHeaderKeeps ==              \* mutant: bytesUsed is not reset after the header
    LET n == Smaller(Remain, HeaderLen - bytesUsed)
    IN  /\ msgLength = Null
        /\ msgLenBytes' = BlockCopy(readBuffer, offset, msgLenBytes, bytesUsed, n)
        /\ IF bytesUsed + n = HeaderLen
           THEN /\ msgLength' = Decoded(msgLenBytes')
                /\ UNCHANGED msgData
                /\ bytesUsed' = HeaderLen
                /\ offset' = offset + n
           ELSE /\ bytesUsed' = bytesUsed + n
                /\ offset' = offset + n
                /\ UNCHANGED <<msgLength, msgData>>

GiveHeaderFrom ==               \* mutant: offset is not moved past the header
    LET n == Smaller(Remain, HeaderLen - bytesUsed)
    IN  /\ msgLength = Null
        /\ msgLenBytes' = BlockCopy(readBuffer, offset, msgLenBytes, bytesUsed, n)
        /\ IF bytesUsed + n = HeaderLen
           THEN /\ msgLength' = Decoded(msgLenBytes')
                /\ GiveData(msgLength', offset, Remain - n, 0)
           ELSE /\ bytesUsed' = bytesUsed + n
                /\ offset' = offset + n
                /\ UNCHANGED <<msgLength, msgData>>

GiveHeader ==
    LET n == Smaller(Remain, HeaderLen - bytesUsed)
    IN  /\ msgLength = Null
        /\ msgLenBytes' = BlockCopy(readBuffer, offset, msgLenBytes, bytesUsed, n)
        /\ IF bytesUsed + n = HeaderLen
           THEN /\ msgLength' = Decoded(msgLenBytes')
                /\ GiveData(msgLength', offset + n, Remain - n, 0)
           ELSE /\ bytesUsed' = bytesUsed + n
                /\ offset' = offset + n
                /\ UNCHANGED <<msgLength, msgData>>

GiveBytes ==
    /\ Remain > 0 /\ ~IsComplete
    /\ \/ GiveHeader
       \/ /\ msgLength # Null
          /\ GiveData(msgLength, offset, Remain, bytesUsed)
          /\ UNCHANGED <<msgLenBytes, msgLength>>
    /\ UNCHANGED <<taken, readBuffer, dispatched>>

Dispatch ==
    /\ IsComplete
    /\ dispatched' = Append(dispatched, msgData)
    /\ NewMessage
    /\ UNCHANGED <<taken, readBuffer, offset>>

Next == (\E n \in 1 .. ReadBufferSize : Read(n)) \/ GiveBytes \/ Dispatch

Spec == Init /\ [][Next]_vars

\* What was sent arrives, and ReadCallback runs.
FairSpec == Spec /\ WF_vars(Next)
-----------------------------------------------------------------------------
TypeOK ==
    /\ taken \in 0 .. Total
    /\ readBuffer \in Seq(Int) /\ Len(readBuffer) <= ReadBufferSize
    /\ offset \in 0 .. Len(readBuffer)
    /\ msgLenBytes \in Seq(Int) /\ msgLength \in Nat \cup {Null}
    /\ msgData \in Seq(Int)
    /\ bytesUsed \in 0 .. Len(IF msgLength = Null THEN msgLenBytes ELSE msgData)
    /\ dispatched \in Seq(Seq(Int))

(***************************************************************************)
(* Before ReadCallback waits for more data it has dispatched every message *)
(* whose last byte has been read, however the chunks cut the messages, and *)
(* also when the last one is empty (BuildClient.cs:153-170).               *)
(***************************************************************************)
NothingHeldBack ==
    Remain = 0 /\ ~IsComplete =>
        \A k \in 1 .. N : Start[k + 1] <= taken => k <= Len(dispatched)

(***************************************************************************)
(* The loop of ReadCallback ends: each call of GiveBytes takes something   *)
(* (BuildClient.cs:154-167, PartialMessage.cs:32-83).                      *)
(***************************************************************************)
GiveBytesTakes == [][GiveBytes => offset' > offset]_vars

\* The messages are those of the stream.
Stream == INSTANCE MessageStream WITH delivered <- dispatched
StreamSpec == Stream!FairSpec
=============================================================================
