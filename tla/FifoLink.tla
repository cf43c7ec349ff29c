------------------------------ MODULE FifoLink ------------------------------
(***************************************************************************)
(* What the send side of a build server connection promises to the code    *)
(* that calls BuildClient.Send: messages reach the remote end whole, in    *)
(* the order in which Send accepted them, none twice and none skipped;     *)
(* a message marked CloseAfterSending is the last one that ever does.      *)
(* The link may break at any time, and then nothing more is received.      *)
(***************************************************************************)
EXTENDS Naturals, Sequences

CONSTANTS Msgs,      \* the messages that can be sent
          Closing    \* those with CloseAfterSending set

VARIABLES accepted,  \* the messages Send took, in that order
          received,  \* the messages the remote end has in full
          broken     \* the connection is gone

vars == <<accepted, received, broken>>

Init == accepted = <<>> /\ received = <<>> /\ broken = FALSE

\* The remote end has had the last message it is ever going to get.
Ended == received # <<>> /\ received[Len(received)] \in Closing

Accept(m) ==
    /\ accepted' = Append(accepted, m)
    /\ UNCHANGED <<received, broken>>

Deliver ==
    /\ ~broken /\ ~Ended
    /\ Len(received) < Len(accepted)
    /\ received' = Append(received, accepted[Len(received) + 1])
    /\ UNCHANGED <<accepted, broken>>

Break ==
    /\ ~broken
    /\ broken' = TRUE
    /\ UNCHANGED <<accepted, received>>

Next == (\E m \in Msgs : Accept(m)) \/ Deliver \/ Break

Spec == Init /\ [][Next]_vars

\* A link that stays up delivers what it accepted.
FairSpec == Spec /\ WF_vars(Deliver)
=============================================================================
