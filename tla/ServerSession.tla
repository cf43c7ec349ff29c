--------------------------- MODULE ServerSession ---------------------------
(***************************************************************************)
(* The protocol handlers of the build server (BuildClient_Handlers.cs), the *)
(* cache directory they write to, and the processes that they start.  All  *)
(* connections of one user for the same project share one directory.       *)
(***************************************************************************)
EXTENDS SessionLinks

VARIABLES
    hasIntroduced,
    user,        \* user[c]: LoginUser has found the user
    folders,     \* current_build_folders: "null", "empty" or "set"
    disk,        \* the file in the cache: who wrote it, on which connection
    procs,       \* the processes started, in order
    alive,       \* FALSE: an exception nobody catches has ended the server
    received,    \* history: received[c]: files written on c since SetBuild
    violations   \* history: connections on which the client broke the protocol

serverVars == <<hasIntroduced, user, folders, disk, procs, alive, received, violations>>

NoContent == [run |-> 0, conn |-> 0]
Contents  == [run : 0 .. MaxRuns, conn : 0 .. MaxConns]

\* reads: the streams whose reading has begun.  done: Exited has been raised.
\* left: ExecuteProcess has returned to the thread that handles the requests.
Processes == [conn : Conns, run : 1 .. MaxRuns, saw : [Files -> Contents],
              got : SUBSET Files, out : 0 .. MaxOutput, done : BOOLEAN,
              reads : SUBSET {"output", "error"}, left : BOOLEAN]

ServerTypeOK ==
    /\ hasIntroduced \in [Conns -> BOOLEAN] /\ user \in [Conns -> BOOLEAN]
    /\ folders \in [Conns -> {"null", "empty", "set"}]
    /\ disk \in [Files -> Contents]
    /\ procs \in Seq(Processes)
    /\ alive \in BOOLEAN
    /\ received \in [Conns -> SUBSET Files] /\ violations \subseteq Conns

ServerInit ==
    /\ hasIntroduced = [c \in Conns |-> FALSE] /\ user = [c \in Conns |-> FALSE]
    /\ folders = [c \in Conns |-> "null"]
    /\ disk = [f \in Files |-> NoContent]
    /\ procs = <<>>
    /\ alive = TRUE
    /\ received = [c \in Conns |-> {}] /\ violations = {}

(***************************************************************************)
(* Dispatch.  A connection's requests are handled one after the other.     *)
(***************************************************************************)
Acknowledge(t) == [type |-> "Acknowledge", of |-> t, proc |-> 0]
Error          == [type |-> "Error", of |-> "none", proc |-> 0]

\* Error 3000: process 0, which could not be started, or p, which was.
ProcessError(p) == [type |-> "Error", of |-> "ExecuteBuild", proc |-> p]

\* The thread that handles the requests of c is still in ExecuteProcess.
Executing(c) == \E p \in 1 .. Len(procs) : procs[p].conn = c /\ ~procs[p].left

Dispatch(c, t) ==
    /\ alive /\ link[c] # "connecting" /\ ~Executing(c)
    /\ toServer[c] # <<>> /\ Head(toServer[c]).type = t
    /\ toServer' = [toServer EXCEPT ![c] = Tail(@)]
    /\ UNCHANGED <<connected, callbacks, alive>>

Allowed(c, t) == hasIntroduced[c] <=> t # "Introduction"

\* The first error of two closes nothing; it is the second that ends it.
ProtocolViolation(c) ==
    /\ ReplyAndClose(c, Error)
    /\ violations' = violations \cup {c}
    /\ UNCHANGED <<hasIntroduced, user, folders, disk, procs, received>>

\* The catch block.
ServerException(c) == ReplyAndClose(c, Error)

\* This client always names protocol version 1, the one the server wants.
HandleIntroductionOf(c) ==
    /\ hasIntroduced' = [hasIntroduced EXCEPT ![c] = TRUE]
    /\ \/ /\ user' = [user EXCEPT ![c] = TRUE]
          /\ Reply(c, Acknowledge("Introduction"))
       \/ /\ ReplyAndClose(c, Error)
          /\ UNCHANGED user
    /\ UNCHANGED <<folders, disk, procs, received, violations>>

HandleIntroduction(c) ==
    /\ Dispatch(c, "Introduction")
    /\ IF Allowed(c, "Introduction")
       THEN HandleIntroductionOf(c) ELSE ProtocolViolation(c)

HandleSetBuildSilent(c) ==      \* mutant: forgets to acknowledge
    /\ folders' = [folders EXCEPT ![c] = "set"]
    /\ received' = [received EXCEPT ![c] = {}]
    /\ UNCHANGED <<link, toClient, hasIntroduced, user, disk, procs, violations>>

\* The root path cannot be put together without a user; CreateDirectory may
\* fail after the folder has been recorded.
HandleSetBuildOf(c) ==
    /\ folders' = [folders EXCEPT ![c] = IF user[c] THEN "set" ELSE "empty"]
    /\ received' = [received EXCEPT ![c] = {}]
    /\ \/ user[c] /\ Reply(c, Acknowledge("SetBuild"))
       \/ ServerException(c)
    /\ UNCHANGED <<hasIntroduced, user, disk, procs, violations>>

HandleSetBuild(c) ==
    /\ Dispatch(c, "SetBuild")
    /\ IF Allowed(c, "SetBuild") THEN HandleSetBuildOf(c) ELSE ProtocolViolation(c)

\* A write that fails may have destroyed what was there.
HandleFileContentsOf(c, r) ==
    \/ /\ folders[c] = "set"
       /\ disk' = [disk EXCEPT ![r.file] = [run |-> r.run, conn |-> c]]
       /\ received' = [received EXCEPT ![c] = @ \cup {r.file}]
       /\ Reply(c, Acknowledge("FileContent"))
       /\ UNCHANGED <<hasIntroduced, user, folders, procs, violations>>
    \/ /\ ServerException(c)
       /\ disk' \in IF folders[c] = "set"
                    THEN {disk, [disk EXCEPT ![r.file] = NoContent]} ELSE {disk}
       /\ violations' = IF folders[c] = "set" THEN violations
                        ELSE violations \cup {c}
       /\ UNCHANGED <<hasIntroduced, user, folders, procs, received>>

HandleFileContents(c) ==
    /\ Dispatch(c, "FileContent")
    /\ IF Allowed(c, "FileContent")
       THEN HandleFileContentsOf(c, Head(toServer[c])) ELSE ProtocolViolation(c)

(***************************************************************************)
(* ExecuteBuild: the process is started, with an error that closes nothing *)
(* if that fails; from then on its events arrive in threads of their own,  *)
(* while the thread of the handler goes on to read its two streams.        *)
(***************************************************************************)
StartProcess(c, r) ==
    procs' = Append(procs, [conn |-> c, run |-> r.run, saw |-> disk,
                            got |-> received[c], out |-> 0, done |-> FALSE,
                            reads |-> {}, left |-> FALSE])

HandleExecuteBuildAll(c, r) ==  \* mutant: acknowledges every request
    /\ StartProcess(c, r) /\ Reply(c, Acknowledge("ExecuteBuild"))
    /\ UNCHANGED <<hasIntroduced, user, folders, disk, received, violations>>

HandleExecuteBuildAcks(c, r) == \* mutant: acknowledges a file it did not get
    /\ StartProcess(c, r) /\ Reply(c, Acknowledge("FileContent"))
    /\ UNCHANGED <<hasIntroduced, user, folders, disk, received, violations>>

HandleExecuteBuildOf(c, r) ==
    /\ IF folders[c] = "null"
       THEN ServerException(c) /\ violations' = violations \cup {c} /\ UNCHANGED procs
       ELSE /\ \/ StartProcess(c, r) /\ UNCHANGED <<link, toClient>>
               \/ Reply(c, ProcessError(0)) /\ UNCHANGED procs
            /\ UNCHANGED violations
    /\ UNCHANGED <<hasIntroduced, user, folders, disk, received>>

HandleExecuteBuild(c) ==
    /\ Dispatch(c, "ExecuteBuild")
    /\ IF Allowed(c, "ExecuteBuild")
       THEN HandleExecuteBuildOf(c, Head(toServer[c])) ELSE ProtocolViolation(c)

\* BeginOutputReadLine, and then BeginErrorReadLine.  Exited disposes the
\* process; what is called after that throws, and the catch block sends an
\* error for a process that was started.
BeginReading(p) ==
    /\ alive /\ p \in 1 .. Len(procs) /\ ~procs[p].left
    /\ IF procs[p].done
       THEN /\ Reply(procs[p].conn, ProcessError(p))
            /\ procs' = [procs EXCEPT ![p].left = TRUE]
       ELSE /\ procs' = [procs EXCEPT
                            ![p].reads = @ \cup {IF @ = {} THEN "output" ELSE "error"},
                            ![p].left = (procs[p].reads # {})]
            /\ UNCHANGED <<link, toClient>>
    /\ UNCHANGED <<toServer, connected, callbacks, hasIntroduced, user, folders,
                   disk, alive, received, violations>>

\* Exited may be raised while output is still being read.
ProcessOutput(p) ==
    /\ alive /\ p \in 1 .. Len(procs)
    /\ procs[p].reads # {} /\ procs[p].out < MaxOutput
    /\ Reply(procs[p].conn, [type |-> "BuildOutput", of |-> "none", proc |-> p])
    /\ procs' = [procs EXCEPT ![p].out = @ + 1]
    /\ UNCHANGED <<toServer, connected, callbacks, hasIntroduced, user, folders,
                   disk, alive, received, violations>>

\* BuildComplete is sent and the process disposed in one step: a read that
\* begins between the two might as well have begun before.
ProcessExited(p) ==
    /\ alive /\ p \in 1 .. Len(procs) /\ ~procs[p].done
    /\ Reply(procs[p].conn, [type |-> "BuildComplete", of |-> "none", proc |-> p])
    /\ procs' = [procs EXCEPT ![p].done = TRUE]
    /\ UNCHANGED <<toServer, connected, callbacks, hasIntroduced, user, folders,
                   disk, alive, received, violations>>

\* A Send that throws in such a thread ends the server.
ProcessThrows(p) ==
    /\ alive /\ p \in 1 .. Len(procs)
    /\ ~procs[p].done \/ (procs[p].reads # {} /\ procs[p].out < MaxOutput)
    /\ link[procs[p].conn] \in {"down", "closed"}
    /\ alive' = FALSE
    /\ UNCHANGED <<linkVars, hasIntroduced, user, folders, disk, procs, received,
                   violations>>

\* AcceptCallback has no catch: EndAccept or the first BeginReceive throws if
\* the connection that is to be accepted is gone.
AcceptThrows(c) ==
    /\ alive /\ link[c] \in {"connecting", "open"}
    /\ toServer[c] # <<>> /\ Head(toServer[c]).type = "Introduction"
    /\ alive' = FALSE
    /\ UNCHANGED <<linkVars, hasIntroduced, user, folders, disk, procs, received,
                   violations>>

Handle(c) == HandleIntroduction(c) \/ HandleSetBuild(c) \/ HandleFileContents(c)
                \/ HandleExecuteBuild(c)

ServerNext ==
    \/ \E c \in Conns : Handle(c) \/ AcceptThrows(c)
    \/ \E p \in 1 .. Len(procs) :
          BeginReading(p) \/ ProcessOutput(p) \/ ProcessExited(p) \/ ProcessThrows(p)
=============================================================================
