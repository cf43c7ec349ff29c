--------------------------- MODULE ClientReceive ---------------------------
(***************************************************************************)
(* The receiving side of the package (Connection._receive, network.py): all *)
(* bytes are collected in one array, from which headers and messages are   *)
(* cut while there are enough of them.                                     *)
(***************************************************************************)
EXTENDS ByteStream

CONSTANTS RecvSize, None

ASSUME RecvAssumption == RecvSize \in Nat \ {0} /\ None \notin Int

VARIABLES
    arrived,           \* bytes the socket has handed over
    receive_data,
    expected_length,
    queued           \* history: the messages put in recv_queue

recvVars == <<arrived, receive_data, expected_length, queued>>

RecvInit ==
    /\ arrived = 0
    /\ receive_data = <<>> /\ expected_length = None
    /\ queued = <<>>

Drop(s, n) == SubSeq(s, n + 1, Len(s))

HeaderReady == expected_length = None /\ Len(receive_data) >= HeaderLen

MessageReadyMore ==             \* mutant: > for >=
    expected_length # None /\ Len(receive_data) > expected_length

MessageReady == expected_length # None /\ Len(receive_data) >= expected_length

\* recv, outside the loop.
Recv(n) ==
    /\ ~HeaderReady /\ ~MessageReady
    /\ n <= RecvSize /\ arrived + n <= Total
    /\ receive_data' = receive_data \o Span(arrived, n)
    /\ arrived' = arrived + n
    /\ UNCHANGED <<expected_length, queued>>

TakeHeaderIncluded ==           \* mutant: takes the length to count the header
    /\ HeaderReady
    /\ expected_length' = Decoded(SubSeq(receive_data, 1, HeaderLen)) - HeaderLen
    /\ receive_data' = Drop(receive_data, HeaderLen)
    /\ UNCHANGED <<arrived, queued>>

TakeHeader ==
    /\ HeaderReady
    /\ expected_length' = Decoded(SubSeq(receive_data, 1, HeaderLen))
    /\ receive_data' = Drop(receive_data, HeaderLen)
    /\ UNCHANGED <<arrived, queued>>

TakeMessageAll ==               \* mutant: the rest of the chunk is dropped
    /\ MessageReady
    /\ queued' = Append(queued, SubSeq(receive_data, 1, expected_length))
    /\ receive_data' = <<>>
    /\ expected_length' = None
    /\ UNCHANGED arrived

TakeMessage ==
    /\ MessageReady
    /\ queued' = Append(queued, SubSeq(receive_data, 1, expected_length))
    /\ receive_data' = Drop(receive_data, expected_length)
    /\ expected_length' = None
    /\ UNCHANGED arrived

RecvNext == (\E n \in 1 .. RecvSize : Recv(n)) \/ TakeHeader \/ TakeMessage

RecvSpec == RecvInit /\ [][RecvNext]_recvVars

\* What was sent arrives, and the network thread runs.
RecvFairSpec == RecvSpec /\ WF_recvVars(RecvNext)
-----------------------------------------------------------------------------
RecvTypeOK ==
    /\ arrived \in 0 .. Total
    /\ receive_data \in Seq(Int)
    /\ expected_length \in Nat \cup {None}
    /\ queued \in Seq(Seq(Int))

(***************************************************************************)
(* When _receive returns to select, every message whose last byte has been *)
(* read is in recv_queue, also when one read had several of them or only   *)
(* the end of one (network.py:429-446).                                    *)
(***************************************************************************)
NothingLeftOver ==
    ~HeaderReady /\ ~MessageReady =>
        \A k \in 1 .. N : Start[k + 1] <= arrived => k <= Len(queued)

\* The messages are those of the stream.
Queue == INSTANCE MessageStream WITH delivered <- queued
QueueSpec == Queue!FairSpec
=============================================================================
