--------------------------- MODULE MessageStream ---------------------------
(***************************************************************************)
(* What the receiving side of a connection promises to the code that gets  *)
(* its messages: the messages of the stream, whole, in order, each once,   *)
(* and in the end all of them.                                             *)
(***************************************************************************)
EXTENDS ByteStream

VARIABLE delivered

Init == delivered = <<>>

Deliver ==
    /\ Len(delivered) < N
    /\ delivered' = Append(delivered, Body(Len(delivered) + 1))

Spec == Init /\ [][Deliver]_delivered

FairSpec == Spec /\ WF_delivered(Deliver)
=============================================================================
