---------------------------- MODULE MCReceivers ----------------------------
(***************************************************************************)
(* Both receivers get the same six messages, two of them empty, in chunks  *)
(* of up to two and a half headers: first the package, then the server.    *)
(* They share nothing, so the order shows all that interleaving would.     *)
(***************************************************************************)
EXTENDS PartialMessage, ClientReceive

MCLength == <<2, 0, 5, 0, 12, 1>>
MCStart  == <<0, 6, 10, 19, 23, 39, 44>>

MCInit == Init /\ RecvInit

MCNext ==
    \/ RecvNext /\ UNCHANGED vars
    \/ Len(queued) = N /\ Next /\ UNCHANGED recvVars

MCSpec == MCInit /\ [][MCNext]_<<vars, recvVars>> /\ WF_<<vars, recvVars>>(MCNext)
=============================================================================
