------------------------- MODULE MCBuildClientSend -------------------------
(***************************************************************************)
(* A client with a reader and two threads of build process events; two     *)
(* ordinary messages, one that closes the connection and the error 9998.   *)
(* Messages are longer than a byte, so that an operation can move a part.  *)
(***************************************************************************)
EXTENDS BuildClientSend

CONSTANTS m1, m2, bye, x, e1, e2

MCMsgs    == {m1, m2, bye, x}
MCClosing == {bye, x}
MCLength  == [m \in MCMsgs |-> IF m = m1 THEN 3 ELSE 2]
=============================================================================
