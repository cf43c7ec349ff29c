--------------------------- MODULE SessionLinks ---------------------------
(***************************************************************************)
(* What lies between RemoteBuildCommand (remote_build.py), which runs in   *)
(* the main thread of Sublime Text, and the handlers of the build server   *)
(* (BuildClient_Handlers.cs): one connection after the other, the messages *)
(* under way on each, and the callbacks that wait for the main thread.     *)
(*                                                                         *)
(* ClientNetwork and BuildClientSend model how the two ends move messages; *)
(* of these two only the outcome is kept here: messages arrive in order,   *)
(* a closing error ends what the server sends, and a broken connection     *)
(* loses a suffix of what is under way.                                    *)
(***************************************************************************)
EXTENDS Naturals, Sequences, FiniteSets

CONSTANTS
    MaxConns,   \* bound: connections that are opened
    MaxRuns,    \* bound: how often the user runs the build command
    MaxOutput,  \* bound: lines of output of one build
    Files       \* the files of the project

ASSUME LinkBoundAssumption ==
    /\ MaxConns \in Nat \ {0} /\ MaxRuns \in Nat \ {0} /\ MaxOutput \in Nat
    /\ IsFiniteSet(Files)

Conns  == 1 .. MaxConns
NoConn == 0
NoFile == "no file"

VARIABLES
    link,       \* link[c]: see LinkStates
    toServer,   \* toServer[c]: requests sent and not handled
    toClient,   \* toClient[c]: replies sent and not received
    connected,  \* Connection.connected
    callbacks   \* notifications given to set_timeout, in order

linkVars == <<link, toServer, toClient, connected, callbacks>>

\* ending: the server has queued an error it closes the connection after.
\* down:   the socket no longer works.  closed: the client has noticed.
LinkStates == {"none", "connecting", "open", "ending", "down", "closed"}

RequestTypes == {"Introduction", "SetBuild", "FileContent", "ExecuteBuild"}

\* A request carries the run it was made for (and so what a file held).
Requests == [type : RequestTypes, run : 1 .. MaxRuns, file : Files \cup {NoFile}]

\* Only log lines come of a MessageMessage, so it is left out.  The server
\* answers ExecuteBuild with the output of the build, never with Acknowledge.
\* An Error that ExecuteBuild was answered with has a code of its own (3000).
\* The process of an Error is not in the message: it tells what an error is of.
Replies ==
    [type : {"Acknowledge"}, of : RequestTypes \ {"ExecuteBuild"}, proc : {0}]
        \cup [type : {"Error"}, of : {"none", "ExecuteBuild"}, proc : 0 .. MaxRuns]
        \cup [type : {"BuildOutput", "BuildComplete"}, of : {"none"},
              proc : 1 .. MaxRuns]

Closed == [type |-> "CLOSED", of |-> "none", proc |-> 0]

LinkTypeOK ==
    /\ link \in [Conns -> LinkStates]
    /\ toServer \in [Conns -> Seq(Requests)]
    /\ toClient \in [Conns -> Seq(Replies)]
    /\ connected \in [Conns -> BOOLEAN]
    /\ callbacks \in Seq([conn : Conns, msg : Replies \cup {Closed}])

LinkInit ==
    /\ link = [c \in Conns |-> "none"]
    /\ toServer = [c \in Conns |-> <<>>]
    /\ toClient = [c \in Conns |-> <<>>]
    /\ connected = [c \in Conns |-> FALSE]
    /\ callbacks = <<>>

Prefixes(s) == {SubSeq(s, 1, n) : n \in 0 .. Len(s)}

(***************************************************************************)
(* The client's side: Connection.send, and the network thread.             *)
(***************************************************************************)
\* What is queued before the connection is up is sent when it is.
Transmit(c, m) ==
    toServer' = IF link[c] \in {"connecting", "open", "ending"}
                THEN [toServer EXCEPT ![c] = Append(@, m)]
                ELSE toServer

NetEstablished(c) ==
    /\ link[c] = "connecting"
    /\ link' = [link EXCEPT ![c] = "open"]
    /\ connected' = [connected EXCEPT ![c] = TRUE]
    /\ UNCHANGED <<toServer, toClient, callbacks>>

NetRefused(c) ==
    /\ link[c] = "connecting"
    /\ link' = [link EXCEPT ![c] = "down"]
    /\ toServer' = [toServer EXCEPT ![c] = <<>>]
    /\ UNCHANGED <<toClient, connected, callbacks>>

NetReceive(c) ==
    /\ connected[c] /\ toClient[c] # <<>>
    /\ toClient' = [toClient EXCEPT ![c] = Tail(@)]
    /\ callbacks' = Append(callbacks, [conn |-> c, msg |-> Head(toClient[c])])
    /\ UNCHANGED <<link, toServer, connected>>

NetClosedFirst(c) ==            \* mutant: CLOSED overtakes the messages
    /\ link[c] = "down" /\ toClient[c] = <<>>
    /\ link' = [link EXCEPT ![c] = "closed"]
    /\ connected' = [connected EXCEPT ![c] = FALSE]
    /\ callbacks' = <<[conn |-> c, msg |-> Closed]>> \o callbacks
    /\ UNCHANGED <<toServer, toClient>>

NetClosed(c) ==
    /\ link[c] = "down" /\ toClient[c] = <<>>
    /\ link' = [link EXCEPT ![c] = "closed"]
    /\ connected' = [connected EXCEPT ![c] = FALSE]
    /\ callbacks' = Append(callbacks, [conn |-> c, msg |-> Closed])
    /\ UNCHANGED <<toServer, toClient>>

(***************************************************************************)
(* The server's side: BuildClient.Send, and closing after an error.        *)
(***************************************************************************)
Reply(c, m) ==
    /\ toClient' = IF link[c] = "open"
                   THEN [toClient EXCEPT ![c] = Append(@, m)] ELSE toClient
    /\ UNCHANGED link

ReplyAndClose(c, m) ==
    /\ toClient' = IF link[c] = "open"
                   THEN [toClient EXCEPT ![c] = Append(@, m)] ELSE toClient
    /\ link' = IF link[c] = "open" THEN [link EXCEPT ![c] = "ending"] ELSE link

ServerCloses(c) ==
    /\ link[c] = "ending"
    /\ link' = [link EXCEPT ![c] = "down"]
    /\ toServer' = [toServer EXCEPT ![c] = <<>>]
    /\ UNCHANGED <<toClient, connected, callbacks>>

\* The connection breaks.  What was received before that may be handled yet.
Break(c) ==
    /\ link[c] \in {"open", "ending"}
    /\ link' = [link EXCEPT ![c] = "down"]
    /\ \E s \in Prefixes(toServer[c]), r \in Prefixes(toClient[c]) :
          /\ toServer' = [toServer EXCEPT ![c] = s]
          /\ toClient' = [toClient EXCEPT ![c] = r]
    /\ UNCHANGED <<connected, callbacks>>
=============================================================================
