-------------------------- MODULE MCClientNetwork --------------------------
(***************************************************************************)
(* Bounds for one or two connections: how many messages each sends and     *)
(* receives.                                                               *)
(***************************************************************************)
EXTENDS ClientNetwork

CONSTANTS c1, c2

Three  == [c \in Conns |-> 3]
First  == [c \in Conns |-> IF c = c1 THEN 1 ELSE 0]
=============================================================================
