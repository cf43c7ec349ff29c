---------------------------- MODULE RemoteBuild ----------------------------
(***************************************************************************)
(* A whole remote build: the command in Sublime Text and the handlers of   *)
(* the server, with the connections between them, which may break at any   *)
(* time.                                                                   *)
(***************************************************************************)
EXTENDS ClientSession, ServerSession

vars == <<linkVars, clientVars, serverVars>>

Init == LinkInit /\ ClientInit /\ ServerInit

\* Only a server that runs accepts and closes connections; when it has ended
\* the kernel does away with what is left of them.
NetNext(c) ==
    \/ alive /\ NetEstablished(c)
    \/ NetRefused(c)
    \/ NetReceive(c)
    \/ NetClosed(c)
    \/ alive /\ ServerCloses(c)
    \/ ~alive /\ Break(c)

Client  == ClientNext /\ UNCHANGED serverVars
Server  == ServerNext /\ UNCHANGED clientVars
Network == (\E c \in Conns : NetNext(c)) /\ UNCHANGED <<clientVars, serverVars>>
Breaks  == (\E c \in Conns : Break(c)) /\ UNCHANGED <<clientVars, serverVars>>

Next == Client \/ Server \/ Network \/ Breaks

Spec == Init /\ [][Next]_vars

\* Sublime runs every callback, the network threads and the server go on,
\* ExecuteProcess among them, and a build command ends.  Nobody has to run the
\* command, nothing has to break and a process owes no output.
FairSpec ==
    /\ Spec
    /\ WF_vars(Callback /\ UNCHANGED serverVars)
    /\ \A c \in Conns :
          /\ WF_vars(NetNext(c) /\ UNCHANGED <<clientVars, serverVars>>)
          /\ WF_vars(Handle(c) /\ UNCHANGED clientVars)
    /\ \A p \in 1 .. MaxRuns :
          /\ WF_vars((ProcessExited(p) \/ ProcessThrows(p)) /\ UNCHANGED clientVars)
          /\ WF_vars(BeginReading(p) /\ UNCHANGED clientVars)

TypeOK == LinkTypeOK /\ ClientTypeOK /\ ServerTypeOK
-----------------------------------------------------------------------------
(***************************************************************************)
(* The client sends the next request when the last one is acknowledged     *)
(* (remote_build.py:196-209), so at most one thing of a connection is      *)
(* under way: a request, or the acknowledgement that makes the next one.   *)
(* Every connection that breaks, every error and every run the user starts *)
(* afterwards has to leave it at that.                                     *)
(***************************************************************************)
IsAck(m) == m.type = "Acknowledge"

AckReplies(c)   == {i \in 1 .. Len(toClient[c]) : IsAck(toClient[c][i])}
AckCallbacks(c) == {i \in 1 .. Len(callbacks) :
                       callbacks[i].conn = c /\ IsAck(callbacks[i].msg)}

OneToken ==
    \A c \in Conns :
        Len(toServer[c]) + Cardinality(AckReplies(c)) + Cardinality(AckCallbacks(c)) <= 1

(***************************************************************************)
(* The server never has to tell this client that a request was not to be   *)
(* sent at this point of the conversation: no introduction is missing or   *)
(* repeated, no file comes before its build is set up, no build starts     *)
(* before there is a folder (BuildClient_Handlers.cs:120-124, 186-190,     *)
(* 280-284, 316-321).                                                      *)
(***************************************************************************)
ClientObeysServer == violations = {}

(***************************************************************************)
(* A build starts when the server has written every file of the project    *)
(* for it, on its own connection; and a file the process finds is the one  *)
(* of its run, not of an earlier one, unless a different connection wrote  *)
(* it last (remote_build.py:178-185, BuildClient_Handlers.cs:296-299): the *)
(* connections of a user share the directory, and what the server has      *)
(* received on one it handles even after that one broke.                   *)
(***************************************************************************)
BuildSeesItsFiles ==
    \A p \in 1 .. Len(procs) :
        LET build == procs[p]
        IN  /\ build.got = Files
            /\ \A f \in Files : build.saw[f].conn = build.conn =>
                                    build.saw[f] = [run |-> build.run, conn |-> build.conn]

(***************************************************************************)
(* One run of the command executes at most one build, whatever breaks      *)
(* (remote_build.py:211-233, BuildClient_Handlers.cs:307-326).             *)
(***************************************************************************)
ExecuteOnce ==
    \A p, q \in 1 .. Len(procs) : procs[p].run = procs[q].run => p = q

(***************************************************************************)
(* The command never loses a connection that works: the CLOSED of an older *)
(* one, delivered late, leaves the current one alone                       *)
(* (remote_build.py:153-159, 235-239).                                     *)
(***************************************************************************)
NoOrphans == \A c \in Conns : connected[c] => connection = c

(***************************************************************************)
(* No callback uses a connection that is None: the acknowledgements of a   *)
(* connection are handled before its CLOSED (remote_build.py:194, 230-233, *)
(* 236-239).                                                               *)
(***************************************************************************)
NoneNeverUsed == exception # "no connection"

(***************************************************************************)
(* Every run ends in a way the user is told of: a finished build, an       *)
(* error, the end of the connection, or the exception of a file that could *)
(* not be read (remote_build.py:235-291).                                  *)
(***************************************************************************)
BuildFinishes == busy ~> ~busy
-----------------------------------------------------------------------------
(***************************************************************************)
(* "We know the build is ready to execute when the last file is done"      *)
(* (remote_build.py:181), and the server says of the acknowledgement that  *)
(* it tells "that we have received the file and handled it so they can     *)
(* send the next one or start the build" (BuildClient_Handlers.cs:298-299). *)
(***************************************************************************)
ExecuteWhenLastFileDone ==
    \A p \in 1 .. Len(procs) : procs[p].got = Files

(***************************************************************************)
(* "When the build message or a file transmission is acknowledged, we can  *)
(* send the first (or next) file" (remote_build.py:206-207): no file goes  *)
(* on a connection before SetBuild, which is to be acknowledged.           *)
(***************************************************************************)
FileAfterAck ==
    \A c \in Conns : "FileContent" \in sent[c] => "SetBuild" \in sent[c]
=============================================================================
