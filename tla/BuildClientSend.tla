-------------------------- MODULE BuildClientSend --------------------------
(***************************************************************************)
(* The send side of one BuildClient of the build server (BuildClient.cs).  *)
(*                                                                         *)
(* Threads that call Send: Reader, the thread running ReadCallback and     *)
(* Dispatch for this client, and Events, the threads that run the          *)
(* OutputDataReceived, ErrorDataReceived and Exited handlers of a build    *)
(* process.  Callback is the thread pool thread that runs SendCallback.    *)
(* All of them meet at sendMutex, which is re-entrant and is released by   *)
(* nobody when an exception leaves Send.                                   *)
(*                                                                         *)
(* Bytes are counted, not represented: a message m is Length[m] bytes, an  *)
(* asynchronous send moves some of the bytes it was given, and the remote  *)
(* end is an observer that notices bytes which do not continue the message *)
(* it is in the middle of.                                                 *)
(***************************************************************************)
EXTENDS Naturals, Sequences

CONSTANTS
    Msgs,             \* messages; every call of Send carries a new one
    Closing,          \* the messages whose CloseAfterSending is true
    Length,           \* Length[m]: the number of bytes Encode() returns
    ServerException,  \* the error 9998 message of Dispatch's catch block
    Events, Reader, Callback,   \* the threads
    NoMsg, Nobody     \* null sendBuffer, free mutex

Senders == Events \cup {Reader}
Threads == Senders \cup {Callback}

ASSUME MsgAssumption ==
    /\ Closing \subseteq Msgs
    /\ ServerException \in Closing
    /\ NoMsg \notin Msgs
    /\ Length \in [Msgs -> Nat \ {0}]

ASSUME ThreadAssumption ==
    /\ Reader \notin Events
    /\ Callback \notin Senders
    /\ Nobody \notin Threads

VARIABLES
    pc,         \* pc[t]: where thread t is, see PCs
    arg,        \* arg[t]: the message thread t has passed to Send
    owner,      \* the thread that owns sendMutex
    depth,      \* how many times it has entered it
    outQueue,   \* messages waiting to be sent
    sendBuffer, \* the message being sent, or NoMsg
    bytesSent,  \* how many of its bytes are known to be sent
    closeAfterSending,
    ops,        \* BeginSend operations the socket has not finished, in order
    result,     \* bytes moved by the operation SendCallback runs for; 0: failed
    socket,     \* "open", or "dead": disconnected, reset, closed by the peer
    fresh,      \* messages not yet sent by anybody
    accepted,   \* history: the messages put in outQueue
    received,   \* history: the messages the remote end has in full
    peerMsg, peerBytes,  \* the message the remote end has the first bytes of
    garbled     \* the remote end was sent bytes that continue nothing

mutexVars == <<owner, depth>>
bufVars   == <<outQueue, sendBuffer, bytesSent, closeAfterSending>>
peerVars  == <<received, peerMsg, peerBytes, garbled>>
vars == <<pc, arg, mutexVars, bufVars, ops, result, socket, fresh, accepted,
          peerVars>>

PCs == {"idle", "wait", "enter", "begin", "leave", "threw"}

Init ==
    /\ pc = [t \in Threads |-> "idle"]
    /\ arg = [t \in Senders |-> NoMsg]
    /\ owner = Nobody /\ depth = 0
    /\ outQueue = <<>> /\ sendBuffer = NoMsg /\ bytesSent = 0
    /\ closeAfterSending = FALSE
    /\ ops = <<>> /\ result = 0 /\ socket = "open"
    /\ fresh = Msgs \ {ServerException} /\ accepted = <<>>
    /\ received = <<>> /\ peerMsg = NoMsg /\ peerBytes = 0 /\ garbled = FALSE

Goto(t, label) == pc' = [pc EXCEPT ![t] = label]

(***************************************************************************)
(* The mutex.  WaitOne succeeds for the thread that already owns it.       *)
(***************************************************************************)
WaitOne(t) ==
    /\ pc[t] = "wait"
    /\ owner \in {Nobody, t}
    /\ owner' = t /\ depth' = depth + 1
    /\ Goto(t, "enter")
    /\ UNCHANGED <<arg, bufVars, ops, result, socket, fresh, accepted, peerVars>>

ReleaseMutex(t) ==
    /\ pc[t] = "leave"
    /\ depth' = depth - 1
    /\ owner' = IF depth = 1 THEN Nobody ELSE owner
    /\ Goto(t, "idle")
    /\ UNCHANGED <<arg, bufVars, ops, result, socket, fresh, accepted, peerVars>>

(***************************************************************************)
(* BeginSending: take the next message if none is being sent, then hand    *)
(* the unsent rest to the socket.  On a dead socket BeginSend may accept an *)
(* operation that will fail, or throw at once, when sendBuffer is already  *)
(* set; where the exception goes is up to the caller.                      *)
(***************************************************************************)
BeginSend(t, m, from, onThrow) ==
    \/ /\ ops' = Append(ops, [msg |-> m, from |-> from])
       /\ Goto(t, "leave")
    \/ /\ socket = "dead"
       /\ UNCHANGED ops
       /\ Goto(t, onThrow)

BeginNextSetsLate(t, onThrow) ==    \* mutant: fields assigned after BeginSend
    /\ sendBuffer = NoMsg /\ outQueue # <<>>
    /\ outQueue' = Tail(outQueue)
    /\ closeAfterSending' = (Head(outQueue) \in Closing)
    /\ BeginSend(t, Head(outQueue), 0, onThrow)
    /\ sendBuffer' = IF ops' = ops THEN NoMsg ELSE Head(outQueue)
    /\ bytesSent' = 0

BeginNext(t, onThrow) ==
    /\ sendBuffer = NoMsg /\ outQueue # <<>>
    /\ outQueue' = Tail(outQueue)
    /\ sendBuffer' = Head(outQueue)
    /\ closeAfterSending' = (Head(outQueue) \in Closing)
    /\ bytesSent' = 0
    /\ BeginSend(t, Head(outQueue), 0, onThrow)

BeginRest(t, onThrow) ==
    /\ sendBuffer # NoMsg
    /\ BeginSend(t, sendBuffer, bytesSent, onThrow)
    /\ UNCHANGED bufVars

(***************************************************************************)
(* Send, as run by thread t for message m.                                 *)
(***************************************************************************)
CallSend(t, m) ==
    /\ pc[t] = "idle"
    /\ m \in fresh
    /\ fresh' = fresh \ {m}
    /\ arg' = [arg EXCEPT ![t] = m]
    /\ Goto(t, "wait")
    /\ UNCHANGED <<mutexVars, bufVars, ops, result, socket, accepted, peerVars>>

EnqueueBuffer(t) ==             \* mutant: queues the wrong object
    /\ pc[t] = "enter"
    /\ outQueue' = Append(outQueue, sendBuffer)
    /\ accepted' = Append(accepted, sendBuffer)
    /\ Goto(t, "begin")
    /\ UNCHANGED <<arg, mutexVars, sendBuffer, bytesSent, closeAfterSending, ops,
                   result, socket, fresh, peerVars>>

Enqueue(t) ==
    /\ pc[t] = "enter"
    /\ outQueue' = Append(outQueue, arg[t])
    /\ accepted' = Append(accepted, arg[t])
    /\ Goto(t, "begin")
    /\ UNCHANGED <<arg, mutexVars, sendBuffer, bytesSent, closeAfterSending, ops,
                   result, socket, fresh, peerVars>>

SendBeginAlways(t) ==           \* mutant: no test of sendBuffer
    /\ pc[t] = "begin"
    /\ BeginNext(t, "threw") \/ BeginRest(t, "threw")
    /\ UNCHANGED <<arg, mutexVars, result, socket, fresh, accepted, peerVars>>

SendBeginReturns(t) ==          \* mutant: return before ReleaseMutex
    /\ pc[t] = "begin"
    /\ \/ BeginNext(t, "threw")
       \/ /\ sendBuffer # NoMsg
          /\ Goto(t, "idle")
          /\ UNCHANGED <<bufVars, ops>>
    /\ UNCHANGED <<arg, mutexVars, result, socket, fresh, accepted, peerVars>>

SendBegin(t) ==
    /\ pc[t] = "begin"
    /\ \/ BeginNext(t, "threw")
       \/ /\ sendBuffer # NoMsg
          /\ Goto(t, "leave")
          /\ UNCHANGED <<bufVars, ops>>
    /\ UNCHANGED <<arg, mutexVars, result, socket, fresh, accepted, peerVars>>

\* Dispatch catches what Send throws at the reader and sends error 9998.
\* Nothing catches it in a process event handler: see Up.
Catch ==
    /\ pc[Reader] = "threw"
    /\ arg' = [arg EXCEPT ![Reader] = ServerException]
    /\ Goto(Reader, "wait")
    /\ UNCHANGED <<mutexVars, bufVars, ops, result, socket, fresh, accepted,
                   peerVars>>

(***************************************************************************)
(* The socket finishes the oldest operation, in part or in full, or fails  *)
(* it; either way SendCallback is called.                                  *)
(***************************************************************************)
PeerTakes(op, k) ==
    IF IF op.from = 0 THEN peerBytes = 0
                      ELSE peerMsg = op.msg /\ peerBytes = op.from
    THEN /\ UNCHANGED garbled
         /\ peerMsg' = op.msg
         /\ IF op.from + k = Length[op.msg]
            THEN peerBytes' = 0 /\ received' = Append(received, op.msg)
            ELSE peerBytes' = op.from + k /\ UNCHANGED received
    ELSE garbled' = TRUE /\ UNCHANGED <<received, peerMsg, peerBytes>>

OpMoves(k) ==
    /\ pc[Callback] = "idle" /\ ops # <<>> /\ socket = "open"
    /\ k <= Length[Head(ops).msg] - Head(ops).from
    /\ PeerTakes(Head(ops), k)
    /\ ops' = Tail(ops)
    /\ result' = k
    /\ Goto(Callback, "wait")
    /\ UNCHANGED <<arg, mutexVars, bufVars, socket, fresh, accepted>>

OpFails ==
    /\ pc[Callback] = "idle" /\ ops # <<>> /\ socket = "dead"
    /\ ops' = Tail(ops)
    /\ result' = 0
    /\ Goto(Callback, "wait")
    /\ UNCHANGED <<arg, mutexVars, bufVars, socket, fresh, accepted, peerVars>>

SocketDies ==
    /\ socket = "open"
    /\ socket' = "dead"
    /\ UNCHANGED <<pc, arg, mutexVars, bufVars, ops, result, fresh, accepted,
                   peerVars>>

(***************************************************************************)
(* SendCallback, between WaitOne and ReleaseMutex.  Its catch blocks swallow *)
(* every exception, so a failed operation leaves sendBuffer set for good.  *)
(***************************************************************************)
EndSendThrows ==
    /\ pc[Callback] = "enter" /\ result = 0
    /\ Goto(Callback, "leave")
    /\ UNCHANGED <<arg, mutexVars, bufVars, ops, result, socket, fresh, accepted,
                   peerVars>>

EndSendPart ==
    /\ pc[Callback] = "enter" /\ result > 0
    /\ bytesSent + result # Length[sendBuffer]
    /\ bytesSent' = bytesSent + result
    /\ Goto(Callback, "begin")
    /\ UNCHANGED <<arg, mutexVars, outQueue, sendBuffer, closeAfterSending, ops,
                   result, socket, fresh, accepted, peerVars>>

EndSendAllStops ==              \* mutant: returns after a complete message
    /\ pc[Callback] = "enter" /\ result > 0
    /\ bytesSent + result = Length[sendBuffer]
    /\ sendBuffer' = NoMsg
    /\ bytesSent' = 0
    /\ IF closeAfterSending THEN socket' = "dead" ELSE UNCHANGED socket
    /\ Goto(Callback, "leave")
    /\ UNCHANGED <<arg, mutexVars, outQueue, closeAfterSending, ops, result, fresh,
                   accepted, peerVars>>

EndSendAllStaysOpen ==          \* mutant: closeAfterSending is not looked at
    /\ pc[Callback] = "enter" /\ result > 0
    /\ bytesSent + result = Length[sendBuffer]
    /\ sendBuffer' = NoMsg
    /\ bytesSent' = 0
    /\ Goto(Callback, "begin")
    /\ UNCHANGED <<arg, mutexVars, outQueue, closeAfterSending, ops, result,
                   socket, fresh, accepted, peerVars>>

EndSendAll ==
    /\ pc[Callback] = "enter" /\ result > 0
    /\ bytesSent + result = Length[sendBuffer]
    /\ sendBuffer' = NoMsg
    /\ bytesSent' = 0
    /\ IF closeAfterSending
       THEN socket' = "dead" /\ Goto(Callback, "leave")
       ELSE UNCHANGED socket /\ Goto(Callback, "begin")
    /\ UNCHANGED <<arg, mutexVars, outQueue, closeAfterSending, ops, result, fresh,
                   accepted, peerVars>>

CallbackBeginReturns ==         \* mutant: no finally around an empty queue
    /\ pc[Callback] = "begin"
    /\ \/ BeginNext(Callback, "leave")
       \/ BeginRest(Callback, "leave")
       \/ /\ sendBuffer = NoMsg /\ outQueue = <<>>
          /\ Goto(Callback, "idle")
          /\ UNCHANGED <<bufVars, ops>>
    /\ UNCHANGED <<arg, mutexVars, result, socket, fresh, accepted, peerVars>>

CallbackBegin ==
    /\ pc[Callback] = "begin"
    /\ \/ BeginNext(Callback, "leave")
       \/ BeginRest(Callback, "leave")
       \/ /\ sendBuffer = NoMsg /\ outQueue = <<>>
          /\ Goto(Callback, "leave")
          /\ UNCHANGED <<bufVars, ops>>
    /\ UNCHANGED <<arg, mutexVars, result, socket, fresh, accepted, peerVars>>

-----------------------------------------------------------------------------
\* An exception nobody catches in an event handler ends the server process.
Up == \A t \in Events : pc[t] # "threw"

SenderStep(t) == WaitOne(t) \/ Enqueue(t) \/ SendBegin(t) \/ ReleaseMutex(t)

CallbackStep ==
    \/ WaitOne(Callback) \/ ReleaseMutex(Callback)
    \/ EndSendThrows \/ EndSendPart \/ EndSendAll \/ CallbackBegin

SocketStep == OpFails \/ \E m \in Msgs : \E k \in 1 .. Length[m] : OpMoves(k)

Next ==
    /\ Up
    /\ \/ \E t \in Senders : SenderStep(t) \/ \E m \in Msgs : CallSend(t, m)
       \/ Catch
       \/ CallbackStep
       \/ SocketStep
       \/ SocketDies

Spec == Init /\ [][Next]_vars

(***************************************************************************)
(* Threads that can run do, and the network moves bytes while it lasts.    *)
(* Nothing obliges anybody to call Send, or the connection to break.       *)
(***************************************************************************)
Fairness ==
    /\ \A t \in Senders : WF_vars(Up /\ SenderStep(t))
    /\ WF_vars(Up /\ Catch)
    /\ WF_vars(Up /\ CallbackStep)
    /\ WF_vars(Up /\ SocketStep)

FairSpec == Spec /\ Fairness

-----------------------------------------------------------------------------
Ops == [msg : Msgs, from : Nat]

TypeOK ==
    /\ pc \in [Threads -> PCs]
    /\ arg \in [Senders -> Msgs \cup {NoMsg}]
    /\ owner \in Threads \cup {Nobody} /\ depth \in Nat
    /\ outQueue \in Seq(Msgs)
    /\ sendBuffer \in Msgs \cup {NoMsg} /\ bytesSent \in Nat
    /\ closeAfterSending \in BOOLEAN
    /\ ops \in Seq(Ops) /\ result \in Nat
    /\ socket \in {"open", "dead"}
    /\ fresh \subseteq Msgs
    /\ accepted \in Seq(Msgs) /\ received \in Seq(Msgs)
    /\ peerMsg \in Msgs \cup {NoMsg} /\ peerBytes \in Nat
    /\ garbled \in BOOLEAN

(***************************************************************************)
(* The state shared by Send and SendCallback is only used inside the mutex *)
(* (BuildClient.cs:57-66, 188-239): no two threads are between WaitOne and *)
(* ReleaseMutex, not even when an exception left Send without releasing.   *)
(***************************************************************************)
Inside(t) == pc[t] \in {"enter", "begin", "leave"}

MutualExclusion ==
    \A t, u \in Threads : Inside(t) /\ Inside(u) => t = u

(***************************************************************************)
(* "The code here assumes that our internal state for what we're sending   *)
(* and how much has been transmitted is set up correctly before this is    *)
(* called" (BuildClient.cs:117-120).  The socket never has two operations  *)
(* of this client, the one it has is for the unsent rest of sendBuffer, and *)
(* the remote end never gets bytes that do not continue the message it is  *)
(* in the middle of.                                                       *)
(***************************************************************************)
OneSendAtATime ==
    /\ Len(ops) <= 1
    /\ ops # <<>> => Head(ops) = [msg |-> sendBuffer, from |-> bytesSent]
    /\ ~garbled

(***************************************************************************)
(* No lost wake-up: as long as the connection is up, a queued message has  *)
(* somebody who will send it.  Either a message is being sent, with an     *)
(* operation the socket has or a SendCallback on its way, or the thread    *)
(* that queued it is about to call BeginSending.                           *)
(***************************************************************************)
NoStrandedMessage ==
    socket = "open" /\ outQueue # <<>> =>
        \/ sendBuffer # NoMsg /\ (ops # <<>> \/ pc[Callback] # "idle")
        \/ \E t \in Threads : pc[t] = "begin"

(***************************************************************************)
(* Send has no finally.  An exception leaves the mutex owned by a thread   *)
(* that is not in Send any more, and everybody else blocks; the code lives *)
(* with that because it only happens to a connection that is gone and that *)
(* no SendCallback has anything left to do for.                            *)
(***************************************************************************)
LeakedMutex == owner # Nobody /\ ~Inside(owner)

LeakMeansDead ==
    LeakedMutex => socket = "dead" /\ ops = <<>> /\ pc[Callback] = "idle"

(***************************************************************************)
(* Dispatch's catch block calls Send, outside any try that could take a    *)
(* second exception to the remote end (BuildClient_Handlers.cs:170-173).   *)
(* It does not throw: the Send that failed had set sendBuffer, so this one *)
(* only queues its message.                                                *)
(***************************************************************************)
CatchNeverThrows == pc[Reader] = "threw" => arg[Reader] # ServerException

(***************************************************************************)
(* Every call of Send returns, unless the connection has gone.             *)
(***************************************************************************)
SendReturns ==
    \A t \in Senders : pc[t] = "wait" ~> (pc[t] = "idle" \/ socket = "dead")

\* The send side implements the link its callers rely on.
Link == INSTANCE FifoLink WITH broken <- (socket = "dead")
LinkSpec == Link!FairSpec
=============================================================================
