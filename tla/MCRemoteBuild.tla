--------------------------- MODULE MCRemoteBuild ---------------------------
(***************************************************************************)
(* RemoteBuild with a few connections, runs and files.                     *)
(* The names of the files are interchangeable: all of them may vanish.     *)
(***************************************************************************)
EXTENDS RemoteBuild, TLC

Symmetry == Permutations(Files)
=============================================================================
