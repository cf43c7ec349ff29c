--------------------------- MODULE ClientNetwork ---------------------------
(***************************************************************************)
(* The connections of the Sublime Text package (network.py): the main      *)
(* thread, which opens connections, queues messages, runs the callbacks of *)
(* set_timeout and shuts everything down when the package unloads, and the *)
(* network thread, which does all socket I/O between two looks at an event.*)
(*                                                                         *)
(* conn_lock is held over several steps only by shutdown.  What the other  *)
(* holders do under it is one action, taken when shutdown does not hold it *)
(* and not interleaved with anything that could notice.  The network       *)
(* thread uses a connection outside the lock, one step per access.         *)
(*                                                                         *)
(* Messages are counted.  A message to send is Units bytes.                *)
(***************************************************************************)
EXTENDS Naturals, Sequences, FiniteSets

CONSTANTS
    Conns,     \* the connections that may be opened
    NoConn,
    Units,     \* length of an encoded message
    Batch,     \* how many sends one call of _send attempts (10 in the code)
    MaxSend,   \* bound: MaxSend[c] messages are queued on connection c
    MaxRecv    \* bound: the server sends MaxRecv[c] messages on it

ASSUME BoundAssumption ==
    /\ Units \in Nat \ {0} /\ Batch \in Nat \ {0}
    /\ MaxSend \in [Conns -> Nat] /\ MaxRecv \in [Conns -> Nat]
    /\ NoConn \notin Conns

VARIABLES
    mainPC,      \* the main thread: see MainPCs
    event,       \* thr_event
    listed,      \* ConnectionManager.connections
    sock,        \* sock[c]: "none" (null) or "open"
    connected,   \* Connection.connected
    sendQueue,   \* number of messages in Connection.send_queue
    sendData,    \* bytes left of Connection.send_data; 0: None
    recvQueue,   \* number of messages in Connection.recv_queue
    callbacks,   \* what set_timeout was given, in order
    raised,      \* history: raised[c]: all notifications of c, in order
    missed,      \* history: a MESSAGE callback found no message
    npc,         \* the network thread: see NetPCs
    cur,         \* the connection it is serving
    readable, writable, rset, wset, batch,  \* its local variables
    left,        \* how many rounds of the loop in _send are left
    peer,        \* peer[c]: what the kernel knows about the other end
    inbox,       \* whole messages of the server waiting in the kernel
    full,        \* connections for which the kernel takes no more data
    sentBy,      \* bound: messages given to send(c)
    servedBy     \* bound: messages the server has sent on c

connVars  == <<listed, sock, connected>>
queueVars == <<sendQueue, sendData, recvQueue>>
noteVars  == <<callbacks, raised, missed>>
loopVars  == <<cur, readable, writable, rset, wset, batch, left>>
envVars   == <<peer, inbox, full, servedBy>>
mainVars  == <<mainPC, event, sentBy>>
vars == <<mainVars, connVars, queueVars, noteVars, npc, loopVars, envVars>>

MainPCs == {"idle", "join", "closing", "done"}
NetPCs  == {"loop", "snapshot", "select", "serve", "deliver", "raise", "probe",
            "established", "send", "failed", "sendError", "recvError", "close",
            "closed", "ended", "died"}
Notifications == {"CLOSED", "CONNECTING", "CONNECTED", "CONNECTION_FAILED",
                  "SEND_ERROR", "RECV_ERROR", "MESSAGE"}

Init ==
    /\ mainPC = "idle" /\ event = FALSE
    /\ listed = {}
    /\ sock = [c \in Conns |-> "none"]
    /\ connected = [c \in Conns |-> FALSE]
    /\ sendQueue = [c \in Conns |-> 0] /\ sendData = [c \in Conns |-> 0]
    /\ recvQueue = [c \in Conns |-> 0]
    /\ callbacks = <<>>
    /\ raised = [c \in Conns |-> <<>>] /\ missed = FALSE
    /\ npc = "loop" /\ cur = NoConn
    /\ readable = {} /\ writable = {} /\ rset = {} /\ wset = {}
    /\ batch = 0 /\ left = 0
    /\ peer = [c \in Conns |-> "none"]
    /\ inbox = [c \in Conns |-> 0] /\ full = {}
    /\ sentBy = [c \in Conns |-> 0] /\ servedBy = [c \in Conns |-> 0]

\* Connection._raise: the listener runs later, in the main thread.
Raise(c, n) ==
    /\ callbacks' = Append(callbacks, [conn |-> c, note |-> n])
    /\ raised' = [raised EXCEPT ![c] = Append(@, n)]
    /\ UNCHANGED missed

\* ConnectionManager._close_connection.  What can go wrong between its
\* assignments can also go wrong just before or after them.  When the socket's
\* shutdown raises, close is not called; the socket is closed all the same,
\* because the reference that goes is the last one.
CloseConnection(c) ==
    /\ sock' = [sock EXCEPT ![c] = "none"]
    /\ connected' = [connected EXCEPT ![c] = FALSE]

LockFree == mainPC # "closing"

(***************************************************************************)
(* The main thread.                                                        *)
(***************************************************************************)
\* When the connect of the socket raises anything but BlockingIOError, there is
\* no connection, nothing has changed and the caller gets the exception.
Connect(c) ==
    /\ mainPC = "idle"
    /\ peer[c] = "none"
    /\ peer' = [peer EXCEPT ![c] = "pending"]
    /\ sock' = [sock EXCEPT ![c] = "open"]
    /\ Raise(c, "CONNECTING")
    /\ listed' = listed \cup {c}
    /\ UNCHANGED <<mainVars, connected, queueVars, npc, loopVars, inbox, full,
                   servedBy>>

Send(c) ==
    /\ mainPC = "idle"
    /\ peer[c] # "none" /\ sentBy[c] < MaxSend[c]
    /\ sentBy' = [sentBy EXCEPT ![c] = @ + 1]
    /\ sendQueue' = [sendQueue EXCEPT ![c] = @ + 1]
    /\ UNCHANGED <<mainPC, event, connVars, sendData, recvQueue, noteVars, npc,
                   loopVars, envVars>>

RunCallbackGreedy ==            \* mutant: receive without looking at the notification
    /\ mainPC \in {"idle", "done"}
    /\ callbacks # <<>>
    /\ callbacks' = Tail(callbacks)
    /\ recvQueue' = [recvQueue EXCEPT ![Head(callbacks).conn] = @ - 1]
    /\ UNCHANGED missed
    /\ UNCHANGED <<mainVars, connVars, sendQueue, sendData, raised, npc, loopVars, envVars>>

RunCallbackIfUp ==              \* mutant: closed connections are not listened to
    /\ mainPC \in {"idle", "done"}
    /\ callbacks # <<>>
    /\ callbacks' = Tail(callbacks)
    /\ LET c == Head(callbacks).conn
       IN  IF Head(callbacks).note = "MESSAGE" /\ connected[c]
           THEN recvQueue' = [recvQueue EXCEPT ![c] = @ - 1]
           ELSE UNCHANGED recvQueue
    /\ UNCHANGED missed
    /\ UNCHANGED <<mainVars, connVars, sendQueue, sendData, raised, npc, loopVars, envVars>>

\* The listener takes one message for every MESSAGE (remote_build.py:256-259).
RunCallback ==
    /\ mainPC \in {"idle", "done"}
    /\ callbacks # <<>>
    /\ callbacks' = Tail(callbacks)
    /\ LET c == Head(callbacks).conn
           n == Head(callbacks).note
       IN  IF n = "MESSAGE" /\ recvQueue[c] > 0
           THEN /\ recvQueue' = [recvQueue EXCEPT ![c] = @ - 1]
                /\ UNCHANGED missed
           ELSE /\ missed' = (missed \/ n = "MESSAGE")
                /\ UNCHANGED recvQueue
    /\ UNCHANGED <<mainVars, connVars, sendQueue, sendData, raised, npc, loopVars, envVars>>

\* shutdown: set the event, wait for the thread for a while (it may take
\* longer), then close every connection with the lock held.
ShutdownStart ==
    /\ mainPC = "idle"
    /\ event' = TRUE
    /\ mainPC' = "join"
    /\ UNCHANGED <<sentBy, connVars, queueVars, noteVars, npc, loopVars, envVars>>

ShutdownJoined ==
    /\ mainPC = "join"
    /\ mainPC' = "closing"
    /\ UNCHANGED <<event, sentBy, connVars, queueVars, noteVars, npc, loopVars,
                   envVars>>

ShutdownClose(c) ==
    /\ mainPC = "closing"
    /\ c \in listed /\ sock[c] = "open"
    /\ CloseConnection(c)
    /\ UNCHANGED <<mainVars, listed, queueVars, noteVars, npc, loopVars, envVars>>

ShutdownEndEarly ==             \* mutant: closes only connected connections
    /\ mainPC = "closing"
    /\ \A c \in listed : connected[c] => sock[c] = "none"
    /\ mainPC' = "done"
    /\ UNCHANGED <<event, sentBy, connVars, queueVars, noteVars, npc, loopVars,
                   envVars>>

ShutdownEnd ==
    /\ mainPC = "closing"
    /\ \A c \in listed : sock[c] = "none"
    /\ mainPC' = "done"
    /\ UNCHANGED <<event, sentBy, connVars, queueVars, noteVars, npc, loopVars,
                   envVars>>

(***************************************************************************)
(* NetworkThread.run.                                                      *)
(***************************************************************************)
NetLoopForever ==               \* mutant: while True
    /\ npc = "loop"
    /\ npc' = "snapshot"
    /\ UNCHANGED <<mainVars, connVars, queueVars, noteVars, loopVars, envVars>>

NetLoop ==
    /\ npc = "loop"
    /\ npc' = IF event THEN "ended" ELSE "snapshot"
    /\ UNCHANGED <<mainVars, connVars, queueVars, noteVars, loopVars, envVars>>

IsWriteableQueued(c) ==         \* mutant: forgets send_data
    sock[c] # "none" /\ (~connected[c] \/ sendQueue[c] > 0)

IsWriteable(c) ==
    sock[c] # "none" /\ (~connected[c] \/ sendQueue[c] > 0 \/ sendData[c] > 0)

NetSnapshotOr ==                \* mutant: if not readable or not writable
    /\ npc = "snapshot" /\ LockFree
    /\ readable' = {c \in listed : connected[c]}
    /\ writable' = {c \in listed : IsWriteable(c)}
    /\ npc' = IF readable' = {} \/ writable' = {} THEN "loop" ELSE "select"
    /\ UNCHANGED <<mainVars, connVars, queueVars, noteVars, cur, rset, wset, batch,
                   left, envVars>>

NetSnapshot ==
    /\ npc = "snapshot" /\ LockFree
    /\ readable' = {c \in listed : connected[c]}
    /\ writable' = {c \in listed : IsWriteable(c)}
    /\ npc' = IF readable' = {} /\ writable' = {} THEN "loop" ELSE "select"
    /\ UNCHANGED <<mainVars, connVars, queueVars, noteVars, cur, rset, wset, batch,
                   left, envVars>>

\* select raises when fileno() returns None, and nobody catches that.  It does
\* not call a connection writable while the other end leaves the buffers full.
NetSelect ==
    /\ npc = "select"
    /\ IF \E c \in readable \cup writable : sock[c] = "none"
       THEN npc' = "died" /\ UNCHANGED <<rset, wset>>
       ELSE /\ rset' = {c \in readable : inbox[c] > 0 \/ peer[c] = "gone"}
            /\ wset' = {c \in writable : peer[c] # "pending" /\ c \notin full}
            /\ npc' = "serve"
    /\ readable' = {} /\ writable' = {}
    /\ UNCHANGED <<mainVars, connVars, queueVars, noteVars, cur, batch, left, envVars>>

NetServed ==
    /\ npc = "serve" /\ rset = {} /\ wset = {}
    /\ npc' = "loop" /\ cur' = NoConn
    /\ UNCHANGED <<mainVars, connVars, queueVars, noteVars, readable, writable, rset,
                   wset, batch, left, envVars>>

(***************************************************************************)
(* Connection._receive.  A recv completes any number of messages, finds the *)
(* end of the connection, or raises.  One that completes no message changes *)
(* nothing but receive_data.                                               *)
(***************************************************************************)
Receive(c) ==
    /\ npc = "serve" /\ c \in rset
    /\ rset' = rset \ {c} /\ cur' = c
    /\ \/ /\ sock[c] = "none"
          /\ npc' = "recvError"
          /\ UNCHANGED <<batch, inbox>>
       \/ /\ sock[c] = "open" /\ inbox[c] > 0
          /\ \E n \in 1 .. inbox[c] :
                batch' = n /\ inbox' = [inbox EXCEPT ![c] = @ - n]
          /\ npc' = "deliver"
       \/ /\ sock[c] = "open" /\ peer[c] = "gone"
          /\ npc' \in IF inbox[c] = 0 THEN {"close", "recvError"} ELSE {"recvError"}
          /\ UNCHANGED <<batch, inbox>>
    /\ UNCHANGED <<mainVars, connVars, queueVars, noteVars, readable, writable, wset,
                   left, peer, full, servedBy>>

\* The next message goes in recv_queue; a message that cannot be decoded
\* raises and ends the connection.
Deliver ==
    /\ npc = "deliver" /\ batch > 0
    /\ batch' = batch - 1
    /\ \/ /\ recvQueue' = [recvQueue EXCEPT ![cur] = @ + 1]
          /\ npc' = "raise"
       \/ /\ npc' = "recvError"
          /\ UNCHANGED recvQueue
    /\ UNCHANGED <<mainVars, connVars, sendQueue, sendData, noteVars, cur, readable,
                   writable, rset, wset, left, envVars>>

RaiseMessage ==
    /\ npc = "raise"
    /\ Raise(cur, "MESSAGE")
    /\ npc' = "deliver"
    /\ UNCHANGED <<mainVars, connVars, queueVars, loopVars, envVars>>

Delivered ==
    /\ npc = "deliver" /\ batch = 0
    /\ npc' = "serve"
    /\ UNCHANGED <<mainVars, connVars, queueVars, noteVars, loopVars, envVars>>

(***************************************************************************)
(* Connection._send.                                                       *)
(***************************************************************************)
StartSendUnchecked(c) ==        \* mutant: no test of the socket
    /\ npc = "serve" /\ rset = {} /\ c \in wset
    /\ wset' = wset \ {c} /\ cur' = c
    /\ left' = Batch
    /\ npc' = IF connected[c] THEN "send" ELSE "probe"
    /\ UNCHANGED <<mainVars, connVars, queueVars, noteVars, readable, writable, rset,
                   batch, envVars>>

StartSendProbes(c) ==           \* mutant: no test of connected
    /\ npc = "serve" /\ rset = {} /\ c \in wset
    /\ wset' = wset \ {c} /\ cur' = c
    /\ left' = Batch
    /\ npc' = IF sock[c] = "none" THEN "serve" ELSE "probe"
    /\ UNCHANGED <<mainVars, connVars, queueVars, noteVars, readable, writable, rset,
                   batch, envVars>>

StartSend(c) ==
    /\ npc = "serve" /\ rset = {} /\ c \in wset
    /\ wset' = wset \ {c} /\ cur' = c
    /\ left' = Batch
    /\ npc' = IF sock[c] = "none" THEN "serve"
              ELSE IF connected[c] THEN "send" ELSE "probe"
    /\ UNCHANGED <<mainVars, connVars, queueVars, noteVars, readable, writable, rset,
                   batch, envVars>>

\* getsockopt is called outside the try block.
Probe ==
    /\ npc = "probe"
    /\ npc' = IF sock[cur] = "none" THEN "died"
              ELSE IF peer[cur] = "refused" THEN "failed" ELSE "established"
    /\ UNCHANGED <<mainVars, connVars, queueVars, noteVars, loopVars, envVars>>

Established ==
    /\ npc = "established"
    /\ connected' = [connected EXCEPT ![cur] = TRUE]
    /\ Raise(cur, "CONNECTED")
    /\ npc' = "send"
    /\ UNCHANGED <<mainVars, listed, sock, queueVars, loopVars, envVars>>

\* One round of the loop: take a message if there is none, send some of it.
\* Unless the buffers are full they take a byte at least, which may fill them.
SendSome ==
    /\ npc = "send" /\ left > 0
    /\ LET data == IF sendData[cur] > 0 THEN sendData[cur] ELSE Units
           rest == [sendData EXCEPT ![cur] = data]
       IN  IF sendData[cur] = 0 /\ sendQueue[cur] = 0
           THEN npc' = "serve" /\ UNCHANGED <<sendQueue, sendData, left, full>>
           ELSE /\ IF sendData[cur] = 0
                   THEN sendQueue' = [sendQueue EXCEPT ![cur] = @ - 1]
                   ELSE UNCHANGED sendQueue
                /\ \/ /\ sock[cur] = "open"         \* sends all there is
                      /\ sendData' = [sendData EXCEPT ![cur] = 0]
                      /\ full' \in {full, full \cup {cur}}
                      /\ left' = left - 1
                      /\ npc' = IF left = 1 THEN "serve" ELSE "send"
                   \/ /\ sock[cur] = "open"         \* sends a part
                      /\ \E k \in 1 .. data - 1 :
                            sendData' = [sendData EXCEPT ![cur] = data - k]
                      /\ full' = full \cup {cur}
                      /\ npc' = "serve" /\ UNCHANGED left
                   \/ /\ sock[cur] = "open" /\ cur \in full   \* would block
                      /\ sendData' = rest
                      /\ npc' = "serve" /\ UNCHANGED <<left, full>>
                   \/ /\ sock[cur] = "none" \/ peer[cur] = "gone"   \* raises
                      /\ sendData' = rest
                      /\ npc' = "sendError" /\ UNCHANGED <<left, full>>
    /\ UNCHANGED <<mainVars, connVars, recvQueue, noteVars, cur, readable, writable,
                   rset, wset, batch, peer, inbox, servedBy>>

(***************************************************************************)
(* The notification of an error, then Connection.close.                    *)
(***************************************************************************)
RaiseError ==
    /\ \/ npc = "failed"    /\ Raise(cur, "CONNECTION_FAILED")
       \/ npc = "sendError" /\ Raise(cur, "SEND_ERROR")
       \/ npc = "recvError" /\ Raise(cur, "RECV_ERROR")
    /\ npc' = "close"
    /\ UNCHANGED <<mainVars, connVars, queueVars, loopVars, envVars>>

RemoveKeepsConnected ==         \* mutant: connected is not reset
    /\ npc = "close" /\ LockFree
    /\ sock' = [sock EXCEPT ![cur] = "none"]
    /\ listed' = listed \ {cur}
    /\ npc' = "closed"
    /\ UNCHANGED <<mainVars, connected, queueVars, noteVars, loopVars, envVars>>

RemoveConnection ==
    /\ npc = "close" /\ LockFree
    /\ CloseConnection(cur)
    /\ listed' = listed \ {cur}
    /\ npc' = "closed"
    /\ UNCHANGED <<mainVars, queueVars, noteVars, loopVars, envVars>>

RaiseClosed ==
    /\ npc = "closed"
    /\ Raise(cur, "CLOSED")
    /\ npc' = "serve"
    /\ UNCHANGED <<mainVars, connVars, queueVars, loopVars, envVars>>

(***************************************************************************)
(* The other end, through the kernel.                                      *)
(***************************************************************************)
PeerAnswers(c) ==
    /\ peer[c] = "pending"
    /\ peer' \in {[peer EXCEPT ![c] = p] : p \in {"up", "refused"}}
    /\ UNCHANGED <<mainVars, connVars, queueVars, noteVars, npc, loopVars, inbox,
                   full, servedBy>>

PeerSends(c) ==
    /\ peer[c] = "up" /\ servedBy[c] < MaxRecv[c]
    /\ servedBy' = [servedBy EXCEPT ![c] = @ + 1]
    /\ inbox' = [inbox EXCEPT ![c] = @ + 1]
    /\ UNCHANGED <<mainVars, connVars, queueVars, noteVars, npc, loopVars, peer, full>>

\* The other end has read so much that there is room again.
PeerReads(c) ==
    /\ peer[c] = "up" /\ c \in full
    /\ full' = full \ {c}
    /\ UNCHANGED <<mainVars, connVars, queueVars, noteVars, npc, loopVars, peer, inbox,
                   servedBy>>

\* A connection that is reset is writable, one that is only shut down need not be.
PeerGoes(c) ==
    /\ peer[c] = "up"
    /\ peer' = [peer EXCEPT ![c] = "gone"]
    /\ full' \in {full, full \ {c}}
    /\ UNCHANGED <<mainVars, connVars, queueVars, noteVars, npc, loopVars, inbox,
                   servedBy>>

-----------------------------------------------------------------------------
MainShutdown ==
    ShutdownJoined \/ ShutdownEnd \/ \E c \in Conns : ShutdownClose(c)

NetStep ==
    \/ NetLoop \/ NetSnapshot \/ NetSelect \/ NetServed
    \/ \E c \in Conns : Receive(c) \/ StartSend(c)
    \/ Deliver \/ RaiseMessage \/ Delivered
    \/ Probe \/ Established \/ SendSome
    \/ RaiseError \/ RemoveConnection \/ RaiseClosed

Next ==
    \/ \E c \in Conns : Connect(c) \/ Send(c)
    \/ RunCallback \/ ShutdownStart \/ MainShutdown
    \/ NetStep
    \/ \E c \in Conns : PeerAnswers(c) \/ PeerSends(c) \/ PeerReads(c) \/ PeerGoes(c)

Spec == Init /\ [][Next]_vars

\* Both threads run.  The other end owes nothing, not even to read.
FairSpec == Spec /\ WF_vars(NetStep) /\ WF_vars(MainShutdown) /\ WF_vars(RunCallback)
-----------------------------------------------------------------------------
TypeOK ==
    /\ mainPC \in MainPCs /\ event \in BOOLEAN
    /\ listed \subseteq Conns
    /\ sock \in [Conns -> {"none", "open"}]
    /\ connected \in [Conns -> BOOLEAN]
    /\ \A c \in Conns :
          /\ sentBy[c] \in 0 .. MaxSend[c] /\ sendQueue[c] \in 0 .. sentBy[c]
          /\ servedBy[c] \in 0 .. MaxRecv[c] /\ inbox[c] \in 0 .. servedBy[c]
          /\ recvQueue[c] \in 0 .. servedBy[c]
          /\ sendData[c] \in 0 .. Units
    /\ callbacks \in Seq([conn : Conns, note : Notifications])
    /\ raised \in [Conns -> Seq(Notifications)] /\ missed \in BOOLEAN
    /\ npc \in NetPCs /\ cur \in Conns \cup {NoConn}
    /\ readable \subseteq Conns /\ writable \subseteq Conns
    /\ rset \subseteq Conns /\ wset \subseteq Conns
    /\ batch \in Nat /\ left \in 0 .. Batch /\ full \subseteq Conns
    /\ peer \in [Conns -> {"none", "pending", "up", "refused", "gone"}]

Ordered(h) ==
    \A i \in 1 .. Len(h) :
        /\ h[i] = "CONNECTING" <=> i = 1
        /\ h[i] \in {"CONNECTED", "CONNECTION_FAILED"} => i = 2
        /\ h[i] \in {"MESSAGE", "SEND_ERROR", "RECV_ERROR"} =>
               i > 2 /\ h[2] = "CONNECTED"
        /\ h[i] \in {"CONNECTION_FAILED", "SEND_ERROR", "RECV_ERROR"} =>
               i >= Len(h) - 1 /\ (i < Len(h) => h[i + 1] = "CLOSED")
        /\ h[i] = "CLOSED" => i = Len(h)

(***************************************************************************)
(* The listener can rely on the order of notifications (network.py:62-86), *)
(* whatever the two threads do and also when the package unloads in the    *)
(* middle: CONNECTING first and once, then at most one CONNECTED or one    *)
(* CONNECTION_FAILED, messages only in between, and after an error or a    *)
(* CLOSED nothing but that error's CLOSED.                                 *)
(***************************************************************************)
NotificationOrder == \A c \in Conns : Ordered(raised[c])

MessageCallbacks(c) ==
    {i \in 1 .. Len(callbacks) : callbacks[i] = [conn |-> c, note |-> "MESSAGE"]}

(***************************************************************************)
(* MESSAGE callbacks and queued messages match one to one, so the listener *)
(* never asks for a message that is not there and leaves none behind, even *)
(* for a connection that has been closed since (network.py:442-443,        *)
(* remote_build.py:256-259).                                               *)
(***************************************************************************)
MessageAccounting ==
    /\ ~missed
    /\ \A c \in Conns :
          recvQueue[c] = Cardinality(MessageCallbacks(c))
                             + IF npc = "raise" /\ cur = c THEN 1 ELSE 0

(***************************************************************************)
(* Until the package unloads, a connection that says it is connected has a *)
(* socket and is one the network thread looks after, and one that has lost *)
(* its socket tells its listener (network.py:179-196, 221-228, 305-315).   *)
(***************************************************************************)
NoSilentLoss ==
    ~event =>
        \A c \in Conns :
            /\ connected[c] => sock[c] = "open"
            /\ sock[c] = "open" => c \in listed
            /\ sock[c] = "none" /\ peer[c] # "none" =>
                  \/ npc = "closed" /\ cur = c
                  \/ raised[c][Len(raised[c])] = "CLOSED"

(***************************************************************************)
(* "This ensures that we keep doing sends and receives no matter what else *)
(* is happening" (network.py:464-465): no exception ends the thread before *)
(* shutdown has started to close the connections under it.                 *)
(***************************************************************************)
NetSurvives == npc = "died" => mainPC \in {"closing", "done"}

(***************************************************************************)
(* shutdown leaves no socket open, not even that of a connection which the *)
(* network thread was working on when the wait for it timed out            *)
(* (network.py:125-141).                                                   *)
(***************************************************************************)
NothingLeftOpen == mainPC = "done" => \A c \in Conns : sock[c] = "none"

(***************************************************************************)
(* shutdown returns and the network thread stops: neither waits for the    *)
(* other for ever (network.py:125-141, 488).                               *)
(***************************************************************************)
ShutdownFinishes == event ~> mainPC = "done" /\ npc \in {"ended", "died"}

(***************************************************************************)
(* What is queued is sent, to the last byte, to an other end that makes    *)
(* room again and again, unless the connection fails, is never answered,   *)
(* or the package unloads (network.py:285-292, 357-411).                   *)
(***************************************************************************)
MakesRoom(c) == []<>(c \notin full)

SendsHappen ==
    \A c \in Conns :
        MakesRoom(c) =>
            (sendQueue[c] > 0 \/ sendData[c] > 0 ~>
                \/ sendQueue[c] = 0 /\ sendData[c] = 0
                \/ sock[c] = "none" \/ peer[c] = "pending" \/ event)

(***************************************************************************)
(* What the server sends reaches the listener, under the same conditions   *)
(* (network.py:413-446).                                                   *)
(***************************************************************************)
MessagesArrive ==
    \A c \in Conns :
        inbox[c] > 0 ~>
            \/ inbox[c] = 0 /\ recvQueue[c] = 0
            \/ sock[c] = "none" \/ event
=============================================================================
