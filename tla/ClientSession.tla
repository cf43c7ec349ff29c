--------------------------- MODULE ClientSession ---------------------------
(***************************************************************************)
(* RemoteBuildCommand (remote_build.py): the user runs it, and from then   *)
(* on every step is the answer to an acknowledgement of the server.        *)
(***************************************************************************)
EXTENDS SessionLinks

CONSTANTS
    Overlap,    \* may the user run a build before the last one has ended?
    Attentive,  \* does the user know that an error 3000 logged before a build
                \* is said to be started is not the end of that build?
    Vanishing   \* files that may be gone when they are to be sent

ASSUME ClientAssumption ==
    Overlap \in BOOLEAN /\ Attentive \in BOOLEAN /\ Vanishing \subseteq Files

VARIABLES
    connection,  \* self.connection; NoConn: None
    projFiles,   \* self.proj_files
    prompt,      \* the panel that is open
    runNo,       \* history: how often the command was run
    busy,        \* history: the user has seen no end of the last run
    announced,   \* history: the panel has said that its build is started
    exception,   \* history: the exception that ended a callback
    sent         \* history: sent[c]: the types of the requests sent on c

clientVars == <<connection, projFiles, prompt, runNo, busy, announced, exception, sent>>

ClientTypeOK ==
    /\ connection \in Conns \cup {NoConn}
    /\ projFiles \subseteq Files
    /\ prompt \in {"none", "connections", "password"}
    /\ runNo \in 0 .. MaxRuns /\ busy \in BOOLEAN /\ announced \in BOOLEAN
    /\ exception \in {"none", "no file", "no connection"}
    /\ sent \in [Conns -> SUBSET RequestTypes]

ClientInit ==
    /\ connection = NoConn /\ projFiles = {} /\ prompt = "none"
    /\ runNo = 0 /\ busy = FALSE /\ announced = FALSE /\ exception = "none"
    /\ sent = [c \in Conns |-> {}]

Request(t, f) == [type |-> t, run |-> runNo', file |-> f]   \* runNo' is set first

\* self.connection.send(m); None has no send.
SendTo(c, m) ==
    IF c = NoConn
    THEN /\ exception' = "no connection"
         /\ UNCHANGED <<toServer, sent>>
    ELSE /\ Transmit(c, m)
         /\ sent' = [sent EXCEPT ![c] = @ \cup {m.type}]
         /\ UNCHANGED exception

StartBuildEager ==              \* mutant: does not wait for SetBuild's acknowledgement
    /\ projFiles' = Files
    /\ toServer' = [toServer EXCEPT ![connection] =
                       @ \o <<Request("SetBuild", NoFile), Request("ExecuteBuild", NoFile)>>]
    /\ UNCHANGED <<exception, sent>>

\* Gathering the files of one folder never raises (FileGather); the encoding of
\* SetBuild does so only for a path that is no text, which is left out.
StartBuild ==
    /\ projFiles' = Files
    /\ SendTo(connection, Request("SetBuild", NoFile))

(***************************************************************************)
(* run.  The user reads what the command logs, and waits for the end of    *)
(* the last build unless Overlap.  Without the details of a connection the *)
(* command shows the list of connections, and then asks for a password if  *)
(* there is none; either ends in a run with all details, which are looked  *)
(* at only if there is no connection by then.                              *)
(***************************************************************************)
NeedsConnection == connection \notin {c \in Conns : connected[c]}

MayRun == runNo < MaxRuns /\ (Overlap \/ ~busy)

RunAsks ==
    /\ MayRun /\ NeedsConnection
    /\ prompt' = "connections"
    /\ UNCHANGED <<linkVars, connection, projFiles, runNo, busy, announced,
                   exception, sent>>

SelectItem ==
    /\ prompt = "connections"
    /\ prompt' \in {"none", "password"}
    /\ UNCHANGED <<linkVars, connection, projFiles, runNo, busy, announced,
                   exception, sent>>

PasswordDismissed ==
    /\ prompt = "password"
    /\ prompt' = "none"
    /\ UNCHANGED <<linkVars, connection, projFiles, runNo, busy, announced,
                   exception, sent>>

RunCounted ==
    /\ MayRun
    /\ runNo' = runNo + 1
    /\ prompt' = "none" /\ busy' = TRUE /\ announced' = FALSE

\* A connect that raises leaves everything as it was and is no run.
RunConnects ==
    /\ RunCounted /\ NeedsConnection
    /\ \E c \in Conns :
          /\ link[c] = "none" /\ \A d \in 1 .. c - 1 : link[d] # "none"
          /\ connection' = c
          /\ link' = [link EXCEPT ![c] = "connecting"]
          /\ toServer' = [toServer EXCEPT ![c] = <<Request("Introduction", NoFile)>>]
          /\ sent' = [sent EXCEPT ![c] = {"Introduction"}]
    /\ UNCHANGED <<toClient, connected, callbacks, projFiles, exception>>

RunBuilds ==
    /\ RunCounted /\ ~NeedsConnection
    /\ StartBuild
    /\ UNCHANGED <<link, toClient, connected, callbacks, connection>>

(***************************************************************************)
(* result, for one notification after the other.                           *)
(***************************************************************************)
Take(t) ==
    /\ callbacks # <<>> /\ Head(callbacks).msg.type = t
    /\ callbacks' = Tail(callbacks)
    /\ UNCHANGED <<link, toClient, connected, prompt, runNo>>

TakeAck(types) == Take("Acknowledge") /\ Head(callbacks).msg.of \in types

OnClosedAny ==                  \* mutant: connection is not compared
    /\ Take("CLOSED")
    /\ connection' = NoConn
    /\ busy' = FALSE
    /\ UNCHANGED <<toServer, projFiles, announced, exception, sent>>

OnClosed ==
    /\ Take("CLOSED")
    /\ connection' = IF Head(callbacks).conn = connection THEN NoConn ELSE connection
    /\ busy' = (busy /\ Head(callbacks).conn # connection)
    /\ UNCHANGED <<toServer, projFiles, announced, exception, sent>>

\* BuildOutput, an Error and BuildComplete are only logged.
OnOutput ==
    /\ Take("BuildOutput")
    /\ UNCHANGED <<toServer, connection, projFiles, busy, announced, exception, sent>>

OnEnd ==
    /\ \/ Take("BuildComplete") /\ busy' = FALSE
       \/ /\ Take("Error")
          /\ busy' = (busy /\ Attentive /\ ~announced
                           /\ Head(callbacks).msg.of = "ExecuteBuild")
    /\ UNCHANGED <<toServer, connection, projFiles, announced, exception, sent>>

\* An exception in a callback ends what the user waits for.
StaysBusyIf(ok) == busy' = (busy /\ ok)

SendNextFileShort ==            \* mutant: builds when the last file is next
    IF Cardinality(projFiles) <= 1
    THEN /\ SendTo(connection, Request("ExecuteBuild", NoFile))
         /\ StaysBusyIf(connection # NoConn)
         /\ announced' = TRUE
         /\ UNCHANGED projFiles
    ELSE \E f \in projFiles :
            /\ projFiles' = projFiles \ {f} /\ UNCHANGED announced
            /\ \/ /\ SendTo(connection, Request("FileContent", f))
                  /\ StaysBusyIf(connection # NoConn)
               \/ /\ f \in Vanishing
                  /\ exception' = "no file" /\ StaysBusyIf(FALSE)
                  /\ UNCHANGED <<toServer, sent>>

\* send_next_file.  The file is read when it is sent.
SendNextFile ==
    IF projFiles = {}
    THEN /\ SendTo(connection, Request("ExecuteBuild", NoFile))
         /\ StaysBusyIf(connection # NoConn)
         /\ announced' = TRUE
         /\ UNCHANGED projFiles
    ELSE \E f \in projFiles :
            /\ projFiles' = projFiles \ {f} /\ UNCHANGED announced
            /\ \/ /\ SendTo(connection, Request("FileContent", f))
                  /\ StaysBusyIf(connection # NoConn)
               \/ /\ f \in Vanishing
                  /\ exception' = "no file" /\ StaysBusyIf(FALSE)
                  /\ UNCHANGED <<toServer, sent>>

OnIntroducedSends ==            \* mutant: goes on to the files at once
    /\ TakeAck({"Introduction"})
    /\ SendNextFile
    /\ UNCHANGED connection

OnIntroduced ==
    /\ TakeAck({"Introduction"})
    /\ StartBuild
    /\ StaysBusyIf(connection # NoConn)
    /\ UNCHANGED <<connection, announced>>

OnReady ==
    /\ TakeAck({"SetBuild", "FileContent"})
    /\ SendNextFile
    /\ UNCHANGED connection

Callback == OnClosed \/ OnOutput \/ OnEnd \/ OnIntroduced \/ OnReady

ClientNext ==
    RunAsks \/ SelectItem \/ PasswordDismissed \/ RunConnects \/ RunBuilds \/ Callback
=============================================================================
