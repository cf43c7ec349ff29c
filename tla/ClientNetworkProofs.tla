------------------------ MODULE ClientNetworkProofs ------------------------
(***************************************************************************)
(* Proofs about ClientNetwork, for any number of connections and messages: *)
(* its type invariant and the safety invariants about the connections and  *)
(* their notifications.                                                    *)
(*                                                                         *)
(* Three facts carry the argument.  Only the network thread closes a       *)
(* connection before shutdown has the lock, and the one it closes is the   *)
(* one it is serving.  That one is never among those it has still to read  *)
(* from.  And where the thread is decides what the connection it serves    *)
(* has raised so far.                                                      *)
(***************************************************************************)
EXTENDS ClientNetwork, SequenceTheorems, FiniteSetTheorems, TLAPS

\* The network thread has a connection in hand.
Serving == npc \in {"deliver", "raise", "probe", "established", "send", "failed",
                    "sendError", "recvError", "close", "closed"}

\* shutdown has not touched a connection yet.
Early == mainPC \in {"idle", "join"}

InHand(c) == IF npc \in {"deliver", "raise"} /\ cur = c THEN batch ELSE 0

ThreadTypes ==
    /\ mainPC \in MainPCs /\ event \in BOOLEAN
    /\ npc \in NetPCs /\ cur \in Conns \cup {NoConn}
    /\ Serving => cur \in Conns
    /\ readable \subseteq Conns /\ writable \subseteq Conns
    /\ rset \subseteq Conns /\ wset \subseteq Conns
    /\ batch \in Nat /\ left \in 0 .. Batch /\ full \subseteq Conns

ConnTypes ==
    /\ listed \subseteq Conns
    /\ sock \in [Conns -> {"none", "open"}]
    /\ connected \in [Conns -> BOOLEAN]
    /\ peer \in [Conns -> {"none", "pending", "up", "refused", "gone"}]

CountTypes ==
    /\ sentBy \in [Conns -> Nat] /\ sendQueue \in [Conns -> Nat]
    /\ servedBy \in [Conns -> Nat] /\ inbox \in [Conns -> Nat]
    /\ recvQueue \in [Conns -> Nat]
    /\ sendData \in [Conns -> 0 .. Units]

NoteTypes ==
    /\ callbacks \in Seq([conn : Conns, note : Notifications])
    /\ raised \in [Conns -> Seq(Notifications)] /\ missed \in BOOLEAN

Types == ThreadTypes /\ ConnTypes /\ CountTypes /\ NoteTypes

Counts ==
    \A c \in Conns :
        /\ sentBy[c] <= MaxSend[c] /\ sendQueue[c] <= sentBy[c]
        /\ servedBy[c] <= MaxRecv[c]
        /\ inbox[c] + recvQueue[c] + InHand(c) <= servedBy[c]

Sockets ==
    /\ event <=> mainPC # "idle"
    /\ \A c \in Conns : sock[c] = "open" => c \in listed /\ peer[c] # "none"
    /\ mainPC = "done" => \A c \in Conns : sock[c] = "none"

Rounds ==
    /\ npc # "select" => readable = {} /\ writable = {}
    /\ Serving => cur \notin rset

EarlySockets ==
    Early =>
        /\ npc # "died"
        /\ \A c \in Conns : connected[c] => sock[c] = "open"
        /\ \A c \in readable \cup writable \cup rset : sock[c] = "open"
        /\ Serving /\ npc # "closed" => sock[cur] = "open"

\* What has been raised while a connection works.
Fresh(h) == h = <<"CONNECTING">>
Up(h)    == /\ Len(h) >= 2 /\ h[1] = "CONNECTING" /\ h[2] = "CONNECTED"
            /\ \A i \in 3 .. Len(h) : h[i] = "MESSAGE"

\* Everything but CLOSED.
Ending(h) == Len(h) >= 2 /\ h[Len(h)] # "CLOSED"

Closing(c) == npc = "close" /\ cur = c

Histories ==
    \A c \in Conns :
        /\ Ordered(raised[c])
        /\ peer[c] = "none" <=> raised[c] = <<>>
        /\ peer[c] = "none" => sock[c] = "none" /\ ~connected[c]
        /\ connected[c] => Up(raised[c]) \/ Closing(c)
        /\ sock[c] = "open" /\ ~connected[c] => Fresh(raised[c]) \/ Closing(c)
        /\ c \in readable \cup rset => Up(raised[c])

Hand ==
    /\ npc \in {"probe", "established", "failed"} => Fresh(raised[cur]) /\ ~connected[cur]
    /\ npc \in {"deliver", "raise", "send", "sendError", "recvError"} => Up(raised[cur])
    /\ npc \in {"close", "closed"} => Ending(raised[cur])
    /\ npc = "closed" => sock[cur] = "none" /\ ~connected[cur]

Told ==
    Early => \A c \in Conns :
        sock[c] = "none" /\ peer[c] # "none" =>
            \/ npc = "closed" /\ cur = c
            \/ raised[c][Len(raised[c])] = "CLOSED"

IInv == Types /\ Counts /\ Sockets /\ Rounds /\ EarlySockets /\ Histories /\ Hand /\ Told
-----------------------------------------------------------------------------
USE DEF connVars, queueVars, noteVars, loopVars, envVars, mainVars

\* The initial state satisfies the invariant.
LEMMA InitInv == Init => IInv
<1> SUFFICES ASSUME Init PROVE IInv
  OBVIOUS
<1> USE BoundAssumption DEF Init
<1>1. ThreadTypes /\ ConnTypes /\ CountTypes
  <2>1. ThreadTypes
    <3>1. npc \in NetPCs /\ mainPC \in MainPCs /\ ~Serving
      BY DEF Serving, MainPCs, NetPCs
    <3>2. left \in 0 .. Batch /\ batch \in Nat
      OBVIOUS
    <3> QED
      BY <3>1, <3>2 DEF ThreadTypes
  <2>2. ConnTypes
    BY DEF ConnTypes
  <2>3. CountTypes
    BY DEF CountTypes
  <2> QED
    BY <2>1, <2>2, <2>3
<1>2. NoteTypes
  <2>1. /\ <<>> \in Seq([conn : Conns, note : Notifications])
        /\ <<>> \in Seq(Notifications)
    BY EmptySeq
  <2> QED
    BY <2>1 DEF NoteTypes
<1>3. Counts /\ Sockets /\ Rounds /\ EarlySockets
  BY DEF Counts, InHand, Sockets, Rounds, EarlySockets, Serving
<1>4. Histories /\ Hand /\ Told
  BY DEF Histories, Ordered, Hand, Told
<1> QED
  BY <1>1, <1>2, <1>3, <1>4 DEF IInv, Types

-----------------------------------------------------------------------------
(***************************************************************************)
(* Which steps change which variables.                                     *)
(***************************************************************************)
LEMMA OtherConnSteps ==
    ASSUME Next
    PROVE  \/ UNCHANGED <<connVars, peer>>
           \/ \E c \in Conns : Connect(c) \/ ShutdownClose(c) \/ PeerAnswers(c) \/ PeerGoes(c)
           \/ Established \/ RemoveConnection
<1>1. CASE \/ RunCallback \/ ShutdownStart
           \/ \E c \in Conns : Send(c) \/ PeerSends(c) \/ PeerReads(c)
  BY <1>1 DEF RunCallback, ShutdownStart, Send, PeerSends, PeerReads
<1>2. CASE ShutdownJoined \/ ShutdownEnd
  BY <1>2 DEF ShutdownJoined, ShutdownEnd
<1>3. CASE NetLoop \/ NetSnapshot \/ NetSelect \/ NetServed \/ Probe
  BY <1>3 DEF NetLoop, NetSnapshot, NetSelect, NetServed, Probe
<1>4. CASE \E c \in Conns : Receive(c) \/ StartSend(c)
  BY <1>4 DEF Receive, StartSend
<1>5. CASE Deliver \/ RaiseMessage \/ Delivered \/ SendSome \/ RaiseError \/ RaiseClosed
  BY <1>5 DEF Deliver, RaiseMessage, Delivered, SendSome, RaiseError, RaiseClosed
<1> QED
  BY <1>1, <1>2, <1>3, <1>4, <1>5 DEF Next, NetStep, MainShutdown

LEMMA OtherCountSteps ==
    ASSUME Next
    PROVE  \/ UNCHANGED <<queueVars, sentBy, inbox, servedBy>>
           \/ \E c \in Conns : Send(c) \/ Receive(c) \/ PeerSends(c)
           \/ RunCallback \/ Deliver \/ SendSome
<1>1. CASE \E c \in Conns : \/ Connect(c) \/ StartSend(c) \/ PeerAnswers(c)
                          \/ PeerReads(c) \/ PeerGoes(c)
  BY <1>1 DEF Connect, StartSend, PeerAnswers, PeerReads, PeerGoes
<1>2. CASE ShutdownStart \/ MainShutdown
  BY <1>2 DEF ShutdownStart, MainShutdown, ShutdownJoined, ShutdownEnd, ShutdownClose
<1>3. CASE NetLoop \/ NetSnapshot \/ NetSelect \/ NetServed \/ Probe \/ Established
  BY <1>3 DEF NetLoop, NetSnapshot, NetSelect, NetServed, Probe, Established
<1>4. CASE RaiseMessage \/ Delivered \/ RaiseError \/ RemoveConnection \/ RaiseClosed
  BY <1>4 DEF RaiseMessage, Delivered, RaiseError, RemoveConnection, RaiseClosed
<1> QED
  BY <1>1, <1>2, <1>3, <1>4 DEF Next, NetStep

LEMMA OtherNoteSteps ==
    ASSUME Next
    PROVE  \/ UNCHANGED noteVars
           \/ \E c \in Conns : Connect(c)
           \/ RunCallback \/ RaiseMessage \/ Established \/ RaiseError \/ RaiseClosed
<1>1. CASE \E c \in Conns : Send(c) \/ Receive(c) \/ StartSend(c)
  BY <1>1 DEF Send, Receive, StartSend
<1>2. CASE \E c \in Conns : PeerAnswers(c) \/ PeerSends(c) \/ PeerReads(c) \/ PeerGoes(c)
  BY <1>2 DEF PeerAnswers, PeerSends, PeerReads, PeerGoes
<1>3. CASE ShutdownStart \/ MainShutdown
  BY <1>3 DEF ShutdownStart, MainShutdown, ShutdownJoined, ShutdownEnd, ShutdownClose
<1>4. CASE NetLoop \/ NetSnapshot \/ NetSelect \/ NetServed \/ Probe
  BY <1>4 DEF NetLoop, NetSnapshot, NetSelect, NetServed, Probe
<1>5. CASE Deliver \/ Delivered \/ SendSome \/ RemoveConnection
  BY <1>5 DEF Deliver, Delivered, SendSome, RemoveConnection
<1> QED
  BY <1>1, <1>2, <1>3, <1>4, <1>5 DEF Next, NetStep

LEMMA OtherMainSteps ==
    ASSUME Next
    PROVE  UNCHANGED <<mainPC, event>> \/ ShutdownStart \/ ShutdownJoined \/ ShutdownEnd
<1>1. CASE RunCallback \/ \E c \in Conns : Connect(c) \/ Send(c) \/ ShutdownClose(c)
  BY <1>1 DEF RunCallback, Connect, Send, ShutdownClose
<1>2. CASE \E c \in Conns : PeerAnswers(c) \/ PeerSends(c) \/ PeerReads(c) \/ PeerGoes(c)
  BY <1>2 DEF PeerAnswers, PeerSends, PeerReads, PeerGoes
<1>3. CASE NetLoop \/ NetSnapshot \/ NetSelect \/ NetServed \/ Probe \/ Established
  BY <1>3 DEF NetLoop, NetSnapshot, NetSelect, NetServed, Probe, Established
<1>4. CASE \E c \in Conns : Receive(c) \/ StartSend(c)
  BY <1>4 DEF Receive, StartSend
<1>5. CASE Deliver \/ RaiseMessage \/ Delivered \/ SendSome
  BY <1>5 DEF Deliver, RaiseMessage, Delivered, SendSome
<1>6. CASE RaiseError \/ RemoveConnection \/ RaiseClosed
  BY <1>6 DEF RaiseError, RemoveConnection, RaiseClosed
<1> QED
  BY <1>1, <1>2, <1>3, <1>4, <1>5, <1>6 DEF Next, NetStep, MainShutdown

LEMMA OtherThreadSteps ==
    ASSUME Next
    PROVE  UNCHANGED <<npc, loopVars>> \/ NetStep
<1>1. CASE RunCallback \/ ShutdownStart \/ \E c \in Conns : Connect(c) \/ Send(c)
  BY <1>1 DEF RunCallback, ShutdownStart, Connect, Send
<1>2. CASE MainShutdown
  BY <1>2 DEF MainShutdown, ShutdownJoined, ShutdownEnd, ShutdownClose
<1>3. CASE \E c \in Conns : PeerAnswers(c) \/ PeerSends(c) \/ PeerReads(c) \/ PeerGoes(c)
  BY <1>3 DEF PeerAnswers, PeerSends, PeerReads, PeerGoes
<1> QED
  BY <1>1, <1>2, <1>3 DEF Next

\* Only these raise.
LEMMA Raises ==
    ASSUME Types
    PROVE  /\ \A c \in Conns : Connect(c) => Raise(c, "CONNECTING")
           /\ RaiseMessage => cur \in Conns /\ Raise(cur, "MESSAGE")
           /\ Established  => cur \in Conns /\ Raise(cur, "CONNECTED")
           /\ RaiseError   => cur \in Conns /\ \E n \in Notifications : Raise(cur, n)
           /\ RaiseClosed  => cur \in Conns /\ Raise(cur, "CLOSED")
BY DEF Connect, RaiseMessage, Established, RaiseError, RaiseClosed, Types,
       ThreadTypes, Serving, Notifications

-----------------------------------------------------------------------------
(***************************************************************************)
(* Types.                                                                  *)
(***************************************************************************)
LEMMA ThreadTypesStep ==
    ASSUME Types, Next
    PROVE  ThreadTypes'
<1> USE BoundAssumption DEF Types, ThreadTypes, Serving, MainPCs, NetPCs
<1>1. ASSUME NEW c \in Conns, Connect(c) \/ Send(c) PROVE ThreadTypes'
  BY <1>1 DEF Connect, Send
<1>2. CASE RunCallback \/ ShutdownStart
  BY <1>2 DEF RunCallback, ShutdownStart
<1>3. CASE MainShutdown
  BY <1>3 DEF MainShutdown, ShutdownJoined, ShutdownEnd, ShutdownClose
<1>4. CASE NetLoop \/ NetSnapshot \/ NetSelect \/ NetServed
  <2>1. CASE NetLoop \/ NetServed
    BY <2>1 DEF NetLoop, NetServed
  <2>2. CASE NetSnapshot
    BY <2>2 DEF NetSnapshot, ConnTypes
  <2>3. CASE NetSelect
    BY <2>3 DEF NetSelect
  <2> QED
    BY <1>4, <2>1, <2>2, <2>3
<1>5. ASSUME NEW c \in Conns, Receive(c) PROVE ThreadTypes'
  <2>1. npc' \in {"deliver", "close", "recvError"} /\ batch' \in Nat
    BY <1>5 DEF Receive, CountTypes
  <2> QED
    BY <1>5, <2>1 DEF Receive
<1>6. ASSUME NEW c \in Conns, StartSend(c) PROVE ThreadTypes'
  BY <1>6 DEF StartSend
<1>7. CASE Deliver
  BY <1>7 DEF Deliver
<1>8. CASE RaiseMessage \/ Delivered \/ Probe \/ Established
  BY <1>8 DEF RaiseMessage, Delivered, Probe, Established
<1>9. CASE SendSome
  <2>1. npc' \in {"send", "serve", "sendError"} /\ left' \in 0 .. Batch
    BY <1>9 DEF SendSome
  <2> QED
    BY <1>9, <2>1 DEF SendSome
<1>10. CASE RaiseError \/ RemoveConnection \/ RaiseClosed
  BY <1>10 DEF RaiseError, RemoveConnection, RaiseClosed
<1>11. ASSUME NEW c \in Conns, PeerAnswers(c) \/ PeerSends(c) \/ PeerReads(c) \/ PeerGoes(c)
       PROVE  ThreadTypes'
  BY <1>11 DEF PeerAnswers, PeerSends, PeerReads, PeerGoes
<1> QED
  BY <1>1, <1>2, <1>3, <1>4, <1>5, <1>6, <1>7, <1>8, <1>9, <1>10, <1>11
     DEF Next, NetStep

LEMMA ConnTypesStep ==
    ASSUME Types, Next
    PROVE  ConnTypes'
<1> USE DEF Types, ConnTypes
<1>1. CASE UNCHANGED <<connVars, peer>>
  BY <1>1
<1>2. ASSUME NEW c \in Conns, Connect(c) PROVE ConnTypes'
  BY <1>2 DEF Connect
<1>3. ASSUME NEW c \in Conns, ShutdownClose(c) PROVE ConnTypes'
  BY <1>3 DEF ShutdownClose, CloseConnection
<1>4. CASE Established
  BY <1>4 DEF Established
<1>5. CASE RemoveConnection
  BY <1>5 DEF RemoveConnection, CloseConnection
<1>6. ASSUME NEW c \in Conns, PeerAnswers(c) \/ PeerGoes(c) PROVE ConnTypes'
  BY <1>6 DEF PeerAnswers, PeerGoes
<1> QED
  BY <1>1, <1>2, <1>3, <1>4, <1>5, <1>6, OtherConnSteps

LEMMA CountTypesStep ==
    ASSUME Types, Next
    PROVE  CountTypes'
<1> USE BoundAssumption DEF Types, CountTypes
<1>1. CASE UNCHANGED <<queueVars, sentBy, inbox, servedBy>>
  BY <1>1
<1>2. ASSUME NEW c \in Conns, Send(c) PROVE CountTypes'
  BY <1>2 DEF Send
<1>3. CASE RunCallback
  <2> DEFINE c == Head(callbacks).conn
  <2>1. \/ recvQueue' = recvQueue
        \/ recvQueue[c] > 0 /\ recvQueue' = [recvQueue EXCEPT ![c] = @ - 1]
    BY <1>3 DEF RunCallback
  <2>2. recvQueue' \in [Conns -> Nat]
    <3> HIDE DEF c
    <3> QED
      BY <2>1
  <2> QED
    BY <1>3, <2>2 DEF RunCallback
<1>4. ASSUME NEW c \in Conns, Receive(c) PROVE CountTypes'
  <2>1. inbox' = inbox \/ \E n \in 1 .. inbox[c] : inbox' = [inbox EXCEPT ![c] = @ - n]
    BY <1>4 DEF Receive
  <2>2. inbox' \in [Conns -> Nat]
    BY <2>1
  <2> QED
    BY <1>4, <2>2 DEF Receive
<1>5. CASE Deliver
  BY <1>5 DEF Deliver, ThreadTypes, Serving
<1>6. CASE SendSome
  <2> DEFINE data == IF sendData[cur] > 0 THEN sendData[cur] ELSE Units
  <2>0. cur \in Conns
    BY <1>6 DEF SendSome, ThreadTypes, Serving
  <2>1. data \in 1 .. Units
    BY <2>0
  <2>2. sendData' = sendData \/ \E k \in 0 .. Units : sendData' = [sendData EXCEPT ![cur] = k]
    <3> HIDE DEF data
    <3>1. \A k \in 1 .. data - 1 : data - k \in 0 .. Units
      BY <2>1
    <3> QED
      BY <1>6, <2>1, <3>1 DEF SendSome, data
  <2>3. \/ sendQueue' = sendQueue
        \/ sendQueue[cur] > 0 /\ sendQueue' = [sendQueue EXCEPT ![cur] = @ - 1]
    <3>1. CASE sendData[cur] = 0 /\ sendQueue[cur] = 0
      BY <1>6, <3>1 DEF SendSome
    <3>2. CASE sendData[cur] = 0 /\ sendQueue[cur] # 0
      BY <1>6, <2>0, <3>2 DEF SendSome
    <3>3. CASE sendData[cur] # 0
      BY <1>6, <3>3 DEF SendSome
    <3> QED
      BY <3>1, <3>2, <3>3
  <2> QED
    BY <1>6, <2>0, <2>2, <2>3 DEF SendSome
<1>7. ASSUME NEW c \in Conns, PeerSends(c) PROVE CountTypes'
  BY <1>7 DEF PeerSends
<1> QED
  BY <1>1, <1>2, <1>3, <1>4, <1>5, <1>6, <1>7, OtherCountSteps

\* A notification goes at the end of what its connection has raised.
LEMMA RaiseTypes ==
    ASSUME NoteTypes, NEW c \in Conns, NEW n \in Notifications, Raise(c, n)
    PROVE  NoteTypes' /\ raised'[c] = Append(raised[c], n)
<1>1. [conn |-> c, note |-> n] \in [conn : Conns, note : Notifications]
  OBVIOUS
<1>2. callbacks' \in Seq([conn : Conns, note : Notifications])
  BY <1>1, AppendProperties DEF NoteTypes, Raise
<1>3. Append(raised[c], n) \in Seq(Notifications)
  BY AppendProperties DEF NoteTypes
<1> QED
  BY <1>2, <1>3 DEF NoteTypes, Raise

LEMMA NoteTypesStep ==
    ASSUME Types, Next
    PROVE  NoteTypes'
<1> USE DEF Types
<1>1. CASE UNCHANGED noteVars
  BY <1>1 DEF NoteTypes
<1>2. CASE RunCallback
  BY <1>2, HeadTailProperties DEF RunCallback, NoteTypes
<1>3. ASSUME NEW c \in Conns, NEW n \in Notifications, Raise(c, n) PROVE NoteTypes'
  BY <1>3, RaiseTypes
<1> QED
  BY <1>1, <1>2, <1>3, OtherNoteSteps, Raises DEF Notifications

LEMMA TypesStep ==
    ASSUME Types, Next
    PROVE  Types'
BY ThreadTypesStep, ConnTypesStep, CountTypesStep, NoteTypesStep DEF Types

-----------------------------------------------------------------------------
(***************************************************************************)
(* Numbers of messages.                                                    *)
(***************************************************************************)
\* Only Receive takes messages in hand.
LEMMA InHandStep ==
    ASSUME Types, Next, NEW c \in Conns, ~ \E d \in Conns : Receive(d)
    PROVE  InHand(c)' <= InHand(c) /\ InHand(c) \in Nat /\ InHand(c)' \in Nat
<1> USE DEF Types, ThreadTypes, InHand
<1>1. CASE UNCHANGED <<npc, cur, batch>>
  BY <1>1
<1>2. CASE npc' \notin {"deliver", "raise"}
  BY <1>2
<1>3. CASE Deliver
  BY <1>3 DEF Deliver
<1>4. CASE RaiseMessage
  BY <1>4 DEF RaiseMessage
<1>5. CASE NetLoop \/ NetSnapshot \/ NetSelect \/ NetServed
  BY <1>2, <1>5 DEF NetLoop, NetSnapshot, NetSelect, NetServed
<1>6. CASE \E d \in Conns : StartSend(d)
  BY <1>2, <1>6 DEF StartSend
<1>7. CASE Delivered \/ Probe \/ Established \/ SendSome
  BY <1>2, <1>7 DEF Delivered, Probe, Established, SendSome
<1>8. CASE RaiseError \/ RemoveConnection \/ RaiseClosed
  BY <1>2, <1>8 DEF RaiseError, RemoveConnection, RaiseClosed
<1> QED
  BY <1>1, <1>3, <1>4, <1>5, <1>6, <1>7, <1>8, OtherThreadSteps DEF NetStep

LEMMA CountsStep ==
    ASSUME Types, Counts, Next
    PROVE  Counts'
<1> SUFFICES ASSUME NEW c \in Conns
             PROVE  /\ sentBy'[c] <= MaxSend[c] /\ sendQueue'[c] <= sentBy'[c]
                    /\ servedBy'[c] <= MaxRecv[c]
                    /\ inbox'[c] + recvQueue'[c] + InHand(c)' <= servedBy'[c]
  BY DEF Counts
<1> USE BoundAssumption
<1>1. /\ sentBy[c] \in Nat /\ sendQueue[c] \in Nat /\ servedBy[c] \in Nat
      /\ inbox[c] \in Nat /\ recvQueue[c] \in Nat
      /\ sentBy[c] <= MaxSend[c] /\ sendQueue[c] <= sentBy[c]
      /\ servedBy[c] <= MaxRecv[c]
      /\ inbox[c] + recvQueue[c] + InHand(c) <= servedBy[c]
      /\ MaxSend[c] \in Nat /\ MaxRecv[c] \in Nat
  BY DEF Types, CountTypes, Counts
<1>2. (~ \E d \in Conns : Receive(d)) =>
          InHand(c)' <= InHand(c) /\ InHand(c) \in Nat /\ InHand(c)' \in Nat
  BY InHandStep
<1>3. CASE UNCHANGED <<queueVars, sentBy, inbox, servedBy>> /\ ~ \E d \in Conns : Receive(d)
  BY <1>1, <1>2, <1>3
<1>4. ASSUME NEW d \in Conns, Send(d), ~ \E e \in Conns : Receive(e)
      PROVE  /\ sentBy'[c] <= MaxSend[c] /\ sendQueue'[c] <= sentBy'[c]
             /\ UNCHANGED <<inbox, recvQueue, servedBy>>
  BY <1>1, <1>4 DEF Send, Types, CountTypes
<1>5. CASE RunCallback
  <2>1. UNCHANGED <<sentBy, sendQueue, inbox, servedBy, npc, cur, batch>>
    BY <1>5 DEF RunCallback
  <2>2. recvQueue'[c] <= recvQueue[c] /\ recvQueue'[c] \in Nat
    <3> DEFINE d == Head(callbacks).conn
    <3>1. \/ recvQueue' = recvQueue
          \/ recvQueue[d] > 0 /\ recvQueue' = [recvQueue EXCEPT ![d] = @ - 1]
      BY <1>5 DEF RunCallback
    <3> HIDE DEF d
    <3> QED
      BY <3>1, <1>1 DEF Types, CountTypes
  <2>3. InHand(c)' = InHand(c) /\ InHand(c) \in Nat
    BY <2>1 DEF InHand, Types, ThreadTypes
  <2> QED
    BY <1>1, <2>1, <2>2, <2>3
<1>6. ASSUME NEW d \in Conns, Receive(d)
      PROVE  inbox'[c] + recvQueue'[c] + InHand(c)' <= servedBy'[c]
             /\ UNCHANGED <<sentBy, sendQueue, servedBy>>
  <2>1. npc = "serve" /\ cur' = d /\ UNCHANGED <<sentBy, sendQueue, servedBy, recvQueue>>
    BY <1>6 DEF Receive
  <2>2. \/ npc' \in {"close", "recvError"} /\ inbox' = inbox
        \/ /\ npc' = "deliver"
           /\ \E n \in 1 .. inbox[d] :
                 batch' = n /\ inbox' = [inbox EXCEPT ![d] = @ - n]
    BY <1>6 DEF Receive
  <2>3. CASE inbox' = inbox /\ npc' \in {"close", "recvError"}
    BY <1>1, <2>1, <2>3 DEF InHand
  <2>4. ASSUME NEW n \in 1 .. inbox[d], batch' = n, npc' = "deliver",
               inbox' = [inbox EXCEPT ![d] = @ - n]
        PROVE  inbox'[c] + recvQueue'[c] + InHand(c)' <= servedBy'[c]
    BY <1>1, <2>1, <2>4 DEF InHand, Types, CountTypes
  <2> QED
    BY <2>1, <2>2, <2>3, <2>4
<1>7. CASE Deliver
  <2>1. cur \in Conns
    BY <1>7 DEF Deliver, Types, ThreadTypes, Serving
  <2> QED
    BY <1>1, <1>7, <2>1 DEF Deliver, InHand, Types, ThreadTypes, CountTypes
<1>8. CASE SendSome
  <2>1. UNCHANGED <<sentBy, inbox, recvQueue, servedBy>>
    BY <1>8 DEF SendSome
  <2>2. sendQueue'[c] <= sendQueue[c] /\ sendQueue'[c] \in Nat
    BY <1>8, CountTypesStep DEF SendSome, Types, CountTypes
  <2>3. InHand(c)' = 0 /\ InHand(c) = 0
    BY <1>8 DEF SendSome, InHand
  <2> QED
    BY <1>1, <2>1, <2>2, <2>3
<1>9. ASSUME NEW d \in Conns, PeerSends(d)
      PROVE  /\ servedBy'[c] <= MaxRecv[c]
             /\ inbox'[c] + recvQueue'[c] + InHand(c)' <= servedBy'[c]
             /\ UNCHANGED <<sentBy, sendQueue>>
  <2>1. InHand(c)' = InHand(c) /\ InHand(c) \in Nat
    BY <1>9 DEF PeerSends, InHand, Types, ThreadTypes
  <2> QED
    BY <1>1, <1>9, <2>1 DEF PeerSends, Types, CountTypes
<1> QED
  BY <1>1, <1>2, <1>3, <1>4, <1>5, <1>6, <1>7, <1>8, <1>9, OtherCountSteps

-----------------------------------------------------------------------------
(***************************************************************************)
(* Sockets.                                                                *)
(***************************************************************************)
LEMMA SocketsStep ==
    ASSUME Types, Sockets, Next
    PROVE  Sockets'
<1> USE DEF Types, ConnTypes, Sockets
<1>1. CASE UNCHANGED <<mainPC, event, connVars, peer>>
  BY <1>1
<1>2. ASSUME NEW c \in Conns, Connect(c) PROVE Sockets'
  BY <1>2 DEF Connect
<1>3. CASE ShutdownStart
  BY <1>3 DEF ShutdownStart
<1>4. CASE ShutdownJoined \/ ShutdownEnd
  BY <1>4 DEF ShutdownJoined, ShutdownEnd
<1>5. ASSUME NEW c \in Conns, ShutdownClose(c) PROVE Sockets'
  BY <1>5 DEF ShutdownClose, CloseConnection
<1>6. CASE Established
  BY <1>6 DEF Established
<1>7. CASE RemoveConnection
  BY <1>7 DEF RemoveConnection, CloseConnection
<1>8. ASSUME NEW c \in Conns, PeerAnswers(c) \/ PeerGoes(c) PROVE Sockets'
  BY <1>8 DEF PeerAnswers, PeerGoes
<1> QED
  BY <1>1, <1>2, <1>3, <1>4, <1>5, <1>6, <1>7, <1>8, OtherConnSteps, OtherMainSteps

LEMMA RoundsStep ==
    ASSUME Types, Rounds, Next
    PROVE  Rounds'
<1> USE DEF Rounds, Serving
<1>1. CASE UNCHANGED <<npc, loopVars>>
  BY <1>1
<1>2. CASE NetLoop \/ NetSelect \/ NetServed
  BY <1>2 DEF NetLoop, NetSelect, NetServed
<1>3. CASE NetSnapshot
  BY <1>3 DEF NetSnapshot
<1>4. CASE \E c \in Conns : Receive(c) \/ StartSend(c)
  BY <1>4 DEF Receive, StartSend
<1>5. CASE Deliver \/ RaiseMessage \/ Delivered \/ Probe \/ Established
  BY <1>5 DEF Deliver, RaiseMessage, Delivered, Probe, Established
<1>6. CASE SendSome
  BY <1>6 DEF SendSome
<1>7. CASE RaiseError \/ RemoveConnection \/ RaiseClosed
  BY <1>7 DEF RaiseError, RemoveConnection, RaiseClosed
<1> QED
  BY <1>1, <1>2, <1>3, <1>4, <1>5, <1>6, <1>7, OtherThreadSteps DEF NetStep

\* shutdown never gives the connections back.
LEMMA EarlyStep ==
    ASSUME Next, Early'
    PROVE  Early
BY OtherMainSteps DEF Early, ShutdownStart, ShutdownJoined, ShutdownEnd

LEMMA EarlySocketsStep ==
    ASSUME Types, Rounds, EarlySockets, Next
    PROVE  EarlySockets'
<1> SUFFICES ASSUME Early'
             PROVE  EarlySockets'
  BY DEF EarlySockets
<1>0. Early
  BY EarlyStep
<1> USE <1>0 DEF EarlySockets, Serving
<1>1. CASE UNCHANGED <<npc, loopVars, sock, connected>>
  BY <1>1
<1>2. ASSUME NEW c \in Conns, Connect(c) PROVE EarlySockets'
  BY <1>2 DEF Connect, Types, ConnTypes
<1>3. CASE \E c \in Conns : ShutdownClose(c)
  BY <1>3 DEF ShutdownClose, Early
<1>4. CASE NetLoop \/ NetServed
  BY <1>4 DEF NetLoop, NetServed
<1>5. CASE NetSnapshot
  BY <1>5 DEF NetSnapshot, IsWriteable, Types, ConnTypes
<1>6. CASE NetSelect
  BY <1>6 DEF NetSelect
<1>7. ASSUME NEW c \in Conns, Receive(c) PROVE EarlySockets'
  BY <1>7 DEF Receive
<1>8. ASSUME NEW c \in Conns, StartSend(c) PROVE EarlySockets'
  BY <1>8 DEF StartSend, Types, ConnTypes
<1>9. CASE Deliver \/ RaiseMessage \/ Delivered \/ Probe
  BY <1>9 DEF Deliver, RaiseMessage, Delivered, Probe
<1>10. CASE Established
  BY <1>10 DEF Established, Types, ConnTypes
<1>11. CASE SendSome
  BY <1>11 DEF SendSome
<1>12. CASE RaiseError \/ RaiseClosed
  BY <1>12 DEF RaiseError, RaiseClosed
<1>13. CASE RemoveConnection
  BY <1>13 DEF RemoveConnection, CloseConnection, Rounds, Types, ConnTypes
<1>14. UNCHANGED <<sock, connected>> \/ (\E c \in Conns : Connect(c) \/ ShutdownClose(c))
         \/ Established \/ RemoveConnection
  <2>1. CASE \E c \in Conns : PeerAnswers(c) \/ PeerGoes(c)
    BY <2>1 DEF PeerAnswers, PeerGoes
  <2> QED
    BY <2>1, OtherConnSteps
<1> QED
  BY <1>1, <1>2, <1>3, <1>4, <1>5, <1>6, <1>7, <1>8, <1>9, <1>10, <1>11, <1>12, <1>13,
     <1>14, OtherThreadSteps DEF NetStep

-----------------------------------------------------------------------------
(***************************************************************************)
(* What a connection has raised.                                           *)
(***************************************************************************)
\* While a connection works, it has raised in order.
LEMMA UpOrdered ==
    ASSUME NEW h \in Seq(Notifications), Up(h)
    PROVE  Ordered(h) /\ Ending(h)
<1>1. Len(h) \in Nat /\ Len(h) >= 2
  BY LenProperties DEF Up
<1>2. \A i \in 1 .. Len(h) :
          \/ i = 1 /\ h[i] = "CONNECTING"
          \/ i = 2 /\ h[i] = "CONNECTED"
          \/ i > 2 /\ h[i] = "MESSAGE"
  BY <1>1 DEF Up
<1>3. Ordered(h)
  BY <1>1, <1>2 DEF Ordered, Up
<1>4. Ending(h)
  BY <1>1, <1>2 DEF Ending
<1> QED
  BY <1>3, <1>4

LEMMA UpMessage ==
    ASSUME NEW h \in Seq(Notifications), Up(h)
    PROVE  Up(Append(h, "MESSAGE"))
<1>1. "MESSAGE" \in Notifications
  BY DEF Notifications
<1>2. /\ Len(Append(h, "MESSAGE")) = Len(h) + 1
      /\ \A i \in 1 .. Len(h) : Append(h, "MESSAGE")[i] = h[i]
      /\ Append(h, "MESSAGE")[Len(h) + 1] = "MESSAGE"
  BY <1>1, AppendProperties
<1>3. Len(h) \in Nat /\ Len(h) >= 2
  BY LenProperties DEF Up
<1> QED
  BY <1>2, <1>3 DEF Up

LEMMA FreshConnected ==
    ASSUME NEW h, Fresh(h)
    PROVE  Up(Append(h, "CONNECTED"))
BY DEF Fresh, Up

\* An error may follow only where the connection still works.
LEMMA ErrorOrdered ==
    ASSUME NEW h \in Seq(Notifications), NEW e,
           \/ e = "CONNECTION_FAILED" /\ Fresh(h)
           \/ e \in {"SEND_ERROR", "RECV_ERROR"} /\ Up(h)
    PROVE  Ordered(Append(h, e)) /\ Ending(Append(h, e))
<1> DEFINE g == Append(h, e)
<1>1. e \in Notifications
  BY DEF Notifications
<1>2. /\ Len(g) = Len(h) + 1
      /\ \A i \in 1 .. Len(h) : g[i] = h[i]
      /\ g[Len(h) + 1] = e
  BY <1>1, AppendProperties
<1>3. Len(h) \in Nat
  BY LenProperties
<1> HIDE DEF g
<1>4. CASE e = "CONNECTION_FAILED" /\ Fresh(h)
  <2>1. Len(h) = 1 /\ h[1] = "CONNECTING"
    BY <1>4 DEF Fresh
  <2>2. Len(g) = 2 /\ g[1] = "CONNECTING" /\ g[2] = "CONNECTION_FAILED"
    BY <1>2, <1>4, <2>1
  <2>3. \A i \in 1 .. Len(g) : i = 1 \/ i = 2
    BY <2>2
  <2> QED
    BY <2>2, <2>3 DEF Ordered, Ending, g
<1>5. CASE e \in {"SEND_ERROR", "RECV_ERROR"} /\ Up(h)
  <2>1. Len(h) >= 2
    BY <1>5 DEF Up
  <2>2. \A i \in 1 .. Len(g) :
            \/ i = 1 /\ g[i] = "CONNECTING"
            \/ i = 2 /\ g[i] = "CONNECTED"
            \/ i > 2 /\ i < Len(g) /\ g[i] = "MESSAGE"
            \/ i > 2 /\ i = Len(g) /\ g[i] = e
    BY <1>2, <1>3, <1>5, <2>1 DEF Up
  <2>3. g[2] = "CONNECTED"
    BY <1>2, <1>3, <1>5, <2>1 DEF Up
  <2>4. Ordered(g)
    BY <1>2, <1>3, <1>5, <2>2, <2>3 DEF Ordered
  <2>5. Ending(g)
    BY <1>2, <1>3, <1>5, <2>1 DEF Ending
  <2> QED
    BY <2>4, <2>5 DEF g
<1> QED
  BY <1>4, <1>5

LEMMA ClosedOrdered ==
    ASSUME NEW h \in Seq(Notifications), Ordered(h), Ending(h)
    PROVE  Ordered(Append(h, "CLOSED"))
<1> DEFINE g == Append(h, "CLOSED")
<1>1. "CLOSED" \in Notifications
  BY DEF Notifications
<1>2. /\ Len(g) = Len(h) + 1
      /\ \A i \in 1 .. Len(h) : g[i] = h[i]
      /\ g[Len(h) + 1] = "CLOSED"
  BY <1>1, AppendProperties
<1>3. Len(h) \in Nat /\ Len(h) >= 2 /\ h[Len(h)] # "CLOSED"
  BY LenProperties DEF Ending
<1> HIDE DEF g
<1>4. Ordered(g)
  <2> SUFFICES ASSUME NEW i \in 1 .. Len(g)
               PROVE  /\ g[i] = "CONNECTING" <=> i = 1
                      /\ g[i] \in {"CONNECTED", "CONNECTION_FAILED"} => i = 2
                      /\ g[i] \in {"MESSAGE", "SEND_ERROR", "RECV_ERROR"} =>
                             i > 2 /\ g[2] = "CONNECTED"
                      /\ g[i] \in {"CONNECTION_FAILED", "SEND_ERROR", "RECV_ERROR"} =>
                             i >= Len(g) - 1 /\ (i < Len(g) => g[i + 1] = "CLOSED")
                      /\ g[i] = "CLOSED" => i = Len(g)
    BY DEF Ordered
  <2>1. CASE i = Len(h) + 1
    BY <1>2, <1>3, <2>1
  <2>2. CASE i \in 1 .. Len(h)
    <3>1. g[i] = h[i] /\ g[2] = h[2]
      BY <1>2, <1>3, <2>2
    <3>2. /\ h[i] = "CONNECTING" <=> i = 1
          /\ h[i] \in {"CONNECTED", "CONNECTION_FAILED"} => i = 2
          /\ h[i] \in {"MESSAGE", "SEND_ERROR", "RECV_ERROR"} =>
                 i > 2 /\ h[2] = "CONNECTED"
          /\ h[i] \in {"CONNECTION_FAILED", "SEND_ERROR", "RECV_ERROR"} =>
                 i >= Len(h) - 1 /\ (i < Len(h) => h[i + 1] = "CLOSED")
          /\ h[i] = "CLOSED" => i = Len(h)
      BY <2>2 DEF Ordered
    <3>3. h[i] \in {"CONNECTION_FAILED", "SEND_ERROR", "RECV_ERROR"} => i = Len(h)
      BY <1>3, <2>2, <3>2
    <3> QED
      BY <1>2, <1>3, <2>2, <3>1, <3>2, <3>3
  <2> QED
    BY <1>2, <1>3, <2>1, <2>2
<1> QED
  BY <1>4 DEF g

\* The steps of the network thread that only look or move data.
Moves ==
    \/ NetLoop \/ NetSnapshot \/ NetSelect \/ NetServed
    \/ \E c \in Conns : Receive(c) \/ StartSend(c)
    \/ Deliver \/ Delivered \/ Probe \/ SendSome

LEMMA MovesStep ==
    ASSUME Moves
    PROVE  UNCHANGED <<raised, connVars, peer>> /\ npc \notin {"close", "closed"}
<1>1. CASE NetLoop \/ NetSnapshot \/ NetSelect \/ NetServed
  BY <1>1 DEF NetLoop, NetSnapshot, NetSelect, NetServed
<1>2. CASE \E c \in Conns : Receive(c) \/ StartSend(c)
  BY <1>2 DEF Receive, StartSend
<1>3. CASE Deliver \/ Delivered \/ Probe
  BY <1>3 DEF Deliver, Delivered, Probe
<1>4. CASE SendSome
  BY <1>4 DEF SendSome
<1> QED
  BY <1>1, <1>2, <1>3, <1>4 DEF Moves

\* All steps, by what they do to the connections.
LEMMA Steps ==
    ASSUME Next
    PROVE  \/ UNCHANGED <<raised, connVars, peer, npc, loopVars>>
           \/ \E c \in Conns : Connect(c) \/ ShutdownClose(c) \/ PeerAnswers(c) \/ PeerGoes(c)
           \/ Moves \/ RaiseMessage \/ Established \/ RaiseError
           \/ RemoveConnection \/ RaiseClosed
<1>1. CASE RunCallback \/ ShutdownStart
  BY <1>1 DEF RunCallback, ShutdownStart
<1>2. CASE ShutdownJoined \/ ShutdownEnd
  BY <1>2 DEF ShutdownJoined, ShutdownEnd
<1>3. CASE \E c \in Conns : Send(c) \/ PeerSends(c) \/ PeerReads(c)
  BY <1>3 DEF Send, PeerSends, PeerReads
<1> QED
  BY <1>1, <1>2, <1>3 DEF Next, MainShutdown, NetStep, Moves

LEMMA HistoriesStep ==
    ASSUME Types, Rounds, Histories, Hand, Next
    PROVE  Histories'
<1> USE DEF Histories, Closing
<1>0. \A c \in Conns : raised[c] \in Seq(Notifications)
  BY DEF Types, NoteTypes
<1>1. CASE UNCHANGED <<raised, connVars, peer, npc, loopVars>>
  BY <1>1
<1>2. ASSUME NEW c \in Conns, Connect(c) PROVE Histories'
  <2>1. raised[c] = <<>> /\ peer[c] = "none"
    BY <1>2 DEF Connect
  <2>2. raised' = [raised EXCEPT ![c] = <<"CONNECTING">>]
    <3>1. raised' = [raised EXCEPT ![c] = Append(@, "CONNECTING")]
      BY <1>2 DEF Connect, Raise
    <3>2. Append(<<>>, "CONNECTING") = <<"CONNECTING">>
      OBVIOUS
    <3> QED
      BY <2>1, <3>1, <3>2
  <2>3. Ordered(<<"CONNECTING">>) /\ <<"CONNECTING">> # <<>> /\ Fresh(<<"CONNECTING">>)
    BY DEF Ordered, Fresh
  <2>4. ~Up(raised[c])
    BY <2>1 DEF Up
  <2>5. raised'[c] = <<"CONNECTING">> /\ \A d \in Conns \ {c} : raised'[d] = raised[d]
    BY <2>2 DEF Types, NoteTypes
  <2>6. /\ peer'[c] = "pending" /\ \A d \in Conns \ {c} : peer'[d] = peer[d]
        /\ sock'[c] = "open" /\ \A d \in Conns \ {c} : sock'[d] = sock[d]
        /\ UNCHANGED <<connected, npc, cur, readable, rset>>
    BY <1>2 DEF Connect, Types, ConnTypes
  <2> QED
    BY <2>1, <2>3, <2>4, <2>5, <2>6
<1>3. ASSUME NEW c \in Conns, ShutdownClose(c) PROVE Histories'
  BY <1>3 DEF ShutdownClose, CloseConnection, Types, ConnTypes
<1>4. ASSUME NEW c \in Conns, PeerAnswers(c) PROVE Histories'
  <2>1. \A d \in Conns : peer'[d] = "none" <=> peer[d] = "none"
    BY <1>4 DEF PeerAnswers, Types, ConnTypes
  <2> QED
    BY <1>4, <2>1 DEF PeerAnswers
<1>5. ASSUME NEW c \in Conns, PeerGoes(c) PROVE Histories'
  <2>1. \A d \in Conns : peer'[d] = "none" <=> peer[d] = "none"
    BY <1>5 DEF PeerGoes, Types, ConnTypes
  <2> QED
    BY <1>5, <2>1 DEF PeerGoes
<1>6. CASE Moves
  <2>1. UNCHANGED <<raised, connVars, peer>> /\ npc # "close"
    BY <1>6, MovesStep
  <2>2. \A c \in readable' \cup rset' : c \in Conns => Up(raised[c])
    <3>1. CASE NetLoop \/ NetServed \/ Deliver \/ Delivered \/ Probe
      BY <3>1 DEF NetLoop, NetServed, Deliver, Delivered, Probe
    <3>2. CASE NetSnapshot
      BY <2>1, <3>2 DEF NetSnapshot
    <3>3. CASE NetSelect
      BY <3>3 DEF NetSelect
    <3>4. CASE \E c \in Conns : Receive(c) \/ StartSend(c)
      BY <3>4 DEF Receive, StartSend
    <3>5. CASE SendSome
      BY <3>5 DEF SendSome
    <3> QED
      BY <1>6, <3>1, <3>2, <3>3, <3>4, <3>5 DEF Moves
  <2> QED
    BY <2>1, <2>2
<1>7. ASSUME RaiseMessage \/ Established \/ RaiseError \/ RaiseClosed
      PROVE  /\ cur \in Conns /\ Serving /\ readable = {} /\ cur \notin rset
             /\ \A c \in Conns \ {cur} : raised'[c] = raised[c]
             /\ UNCHANGED <<sock, peer, cur, readable, rset>>
             /\ \A c \in Conns \ {cur} : connected'[c] = connected[c]
             /\ peer[cur] # "none"
  <2>1. cur \in Conns /\ Serving
    BY <1>7 DEF RaiseMessage, Established, RaiseError, RaiseClosed, Serving,
               Types, ThreadTypes
  <2>2. UNCHANGED <<sock, peer, cur, readable, rset>>
    BY <1>7 DEF RaiseMessage, Established, RaiseError, RaiseClosed
  <2>3. \E n : Raise(cur, n)
    BY <1>7 DEF RaiseMessage, Established, RaiseError, RaiseClosed
  <2>4. \A c \in Conns \ {cur} : raised'[c] = raised[c]
    BY <2>3 DEF Raise, Types, NoteTypes
  <2>5. \A c \in Conns \ {cur} : connected'[c] = connected[c]
    BY <1>7 DEF RaiseMessage, Established, RaiseError, RaiseClosed, Types, ConnTypes
  <2>6. readable = {} /\ cur \notin rset
    BY <2>1 DEF Rounds, Serving
  <2>7. raised[cur] # <<>>
    BY <1>7 DEF RaiseMessage, Established, RaiseError, RaiseClosed, Hand, Fresh, Up, Ending
  <2> QED
    BY <2>1, <2>2, <2>4, <2>5, <2>6, <2>7
<1>8. CASE RaiseMessage
  <2>1. Up(raised'[cur]) /\ Ordered(raised'[cur]) /\ raised'[cur] # <<>>
    <3>1. Up(Append(raised[cur], "MESSAGE"))
      BY <1>0, <1>7, <1>8, UpMessage DEF RaiseMessage, Hand
    <3>2. raised'[cur] = Append(raised[cur], "MESSAGE")
      BY <1>7, <1>8 DEF RaiseMessage, Raise, Types, NoteTypes
    <3>3. Append(raised[cur], "MESSAGE") \in Seq(Notifications)
      BY <1>0, <1>7, <1>8, AppendProperties DEF Notifications
    <3>4. Ordered(Append(raised[cur], "MESSAGE"))
      BY <3>1, <3>3, UpOrdered
    <3>5. Append(raised[cur], "MESSAGE") # <<>>
      BY <1>0, <1>7, <1>8, AppendProperties DEF Notifications
    <3> QED
      BY <3>1, <3>2, <3>4, <3>5
  <2>2. npc = "raise" /\ npc' = "deliver" /\ connected' = connected
    BY <1>8 DEF RaiseMessage
  <2>3. sock[cur] = "open" => connected[cur]
    <3>1. raised[cur] # <<"CONNECTING">>
      BY <2>2 DEF Hand, Up
    <3> QED
      BY <1>7, <1>8, <2>2, <3>1 DEF Fresh
  <2> QED
    BY <1>7, <1>8, <2>1, <2>2, <2>3
<1>9. CASE Established
  <2>1. Up(raised'[cur]) /\ Ordered(raised'[cur]) /\ raised'[cur] # <<>>
    <3>1. Up(Append(raised[cur], "CONNECTED"))
      BY <1>9, FreshConnected DEF Established, Hand
    <3>2. raised'[cur] = Append(raised[cur], "CONNECTED")
      BY <1>7, <1>9 DEF Established, Raise, Types, NoteTypes
    <3>3. Append(raised[cur], "CONNECTED") \in Seq(Notifications)
      BY <1>0, <1>7, <1>9, AppendProperties DEF Notifications
    <3>4. Ordered(Append(raised[cur], "CONNECTED"))
      BY <3>1, <3>3, UpOrdered
    <3>5. Append(raised[cur], "CONNECTED") # <<>>
      BY <1>0, <1>7, <1>9, AppendProperties DEF Notifications
    <3> QED
      BY <3>1, <3>2, <3>4, <3>5
  <2>2. npc = "established" /\ npc' = "send" /\ connected'[cur]
    BY <1>7, <1>9 DEF Established, Types, ConnTypes
  <2> QED
    BY <1>7, <1>9, <2>1, <2>2
<1>10. CASE RaiseError
  <2>1. Ordered(raised'[cur]) /\ raised'[cur] # <<>>
    <3>1. PICK e \in {"CONNECTION_FAILED", "SEND_ERROR", "RECV_ERROR"} :
              /\ Raise(cur, e)
              /\ \/ e = "CONNECTION_FAILED" /\ npc = "failed"
                 \/ e \in {"SEND_ERROR", "RECV_ERROR"} /\ npc \in {"sendError", "recvError"}
      BY <1>10 DEF RaiseError
    <3>2. Ordered(Append(raised[cur], e)) /\ Ending(Append(raised[cur], e))
      BY <1>0, <1>7, <1>10, <3>1, ErrorOrdered DEF Hand
    <3>3. raised'[cur] = Append(raised[cur], e)
      BY <1>7, <1>10, <3>1 DEF Raise, Types, NoteTypes
    <3> QED
      BY <3>2, <3>3 DEF Ending
  <2>2. npc # "close" /\ npc' = "close" /\ connected' = connected
    BY <1>10 DEF RaiseError
  <2> QED
    BY <1>7, <1>10, <2>1, <2>2
<1>11. CASE RemoveConnection
  <2>1. cur \in Conns
    BY <1>11 DEF RemoveConnection, Types, ThreadTypes, Serving
  <2> QED
    BY <1>11, <2>1 DEF RemoveConnection, CloseConnection, Types, ConnTypes
<1>12. CASE RaiseClosed
  <2>1. Ordered(raised'[cur]) /\ raised'[cur] # <<>>
    <3>1. Ordered(Append(raised[cur], "CLOSED"))
      BY <1>0, <1>7, <1>12, ClosedOrdered DEF RaiseClosed, Hand
    <3>2. raised'[cur] = Append(raised[cur], "CLOSED")
      BY <1>7, <1>12 DEF RaiseClosed, Raise, Types, NoteTypes
    <3>3. Append(raised[cur], "CLOSED") # <<>>
      BY <1>0, <1>7, <1>12, AppendProperties DEF Notifications
    <3> QED
      BY <3>1, <3>2, <3>3
  <2>2. npc = "closed" /\ npc' = "serve" /\ connected' = connected
        /\ sock[cur] = "none" /\ ~connected[cur]
    BY <1>12 DEF RaiseClosed, Hand
  <2> QED
    BY <1>7, <1>12, <2>1, <2>2
<1> QED
  BY <1>1, <1>2, <1>3, <1>4, <1>5, <1>6, <1>8, <1>9, <1>10, <1>11, <1>12, Steps

LEMMA HandStep ==
    ASSUME Types, Histories, Histories', Hand, Next
    PROVE  Hand'
<1> USE DEF Hand
<1>0. \A c \in Conns : raised[c] \in Seq(Notifications) /\ raised'[c] \in Seq(Notifications)
  BY TypesStep DEF Types, NoteTypes
<1>1. CASE UNCHANGED <<raised, connVars, peer, npc, loopVars>>
  BY <1>1
<1>2. ASSUME NEW c \in Conns, Connect(c) PROVE Hand'
  <2>1. raised[c] = <<>>
    BY <1>2 DEF Connect, Histories
  <2>2. Serving => cur \in Conns
    BY DEF Types, ThreadTypes
  <2>3. \A d \in Conns \ {c} : raised'[d] = raised[d] /\ sock'[d] = sock[d]
    BY <1>2 DEF Connect, Raise, Types, ConnTypes, NoteTypes
  <2>4. UNCHANGED <<npc, cur, connected>>
    BY <1>2 DEF Connect
  <2>5. Serving => cur # c
    BY <2>1 DEF Serving, Fresh, Up, Ending
  <2> QED
    BY <2>2, <2>3, <2>4, <2>5 DEF Serving
<1>3. ASSUME NEW c \in Conns, ShutdownClose(c) PROVE Hand'
  <2>1. UNCHANGED <<raised, npc, cur>>
    BY <1>3 DEF ShutdownClose
  <2>2. \A d \in Conns : /\ sock[d] = "none" => sock'[d] = "none"
                         /\ ~connected[d] => ~connected'[d]
    BY <1>3 DEF ShutdownClose, CloseConnection, Types, ConnTypes
  <2>3. Serving => cur \in Conns
    BY DEF Types, ThreadTypes
  <2> QED
    BY <2>1, <2>2, <2>3 DEF Serving
<1>4. CASE \E c \in Conns : PeerAnswers(c) \/ PeerGoes(c)
  BY <1>4 DEF PeerAnswers, PeerGoes
<1>5. CASE Moves
  <2>0. UNCHANGED <<raised, connVars>>
    BY <1>5, MovesStep
  <2>1. CASE NetLoop \/ NetSnapshot \/ NetSelect \/ NetServed \/ Delivered
    BY <2>1 DEF NetLoop, NetSnapshot, NetSelect, NetServed, Delivered
  <2>2. ASSUME NEW c \in Conns, Receive(c) PROVE Hand'
    <3>1. Up(raised[c]) /\ Ending(raised[c])
      BY <1>0, <2>2, UpOrdered DEF Receive, Histories
    <3>2. cur' = c /\ npc' \in {"recvError", "deliver", "close"}
      BY <2>2 DEF Receive
    <3> QED
      BY <2>0, <3>1, <3>2
  <2>3. ASSUME NEW c \in Conns, StartSend(c) PROVE Hand'
    <3>1. npc = "serve" /\ cur' = c
      BY <2>3 DEF StartSend
    <3>2. \/ npc' = "serve"
          \/ npc' = "send" /\ connected[c]
          \/ npc' = "probe" /\ sock[c] = "open" /\ ~connected[c]
      BY <2>3 DEF StartSend, Types, ConnTypes
    <3> QED
      BY <2>0, <3>1, <3>2 DEF Histories, Closing
  <2>4. CASE Deliver \/ Probe
    BY <2>0, <2>4 DEF Deliver, Probe
  <2>5. CASE SendSome
    <3>1. npc = "send" /\ npc' \in {"send", "serve", "sendError"} /\ cur' = cur
      BY <2>5 DEF SendSome
    <3> QED
      BY <2>0, <3>1
  <2> QED
    BY <1>5, <2>1, <2>2, <2>3, <2>4, <2>5 DEF Moves
<1>6. CASE RaiseMessage \/ Established
  <2>1. cur \in Conns /\ cur' = cur /\ npc' \in {"deliver", "send"}
    BY <1>6 DEF RaiseMessage, Established, Types, ThreadTypes, Serving
  <2>2. Up(raised'[cur])
    <3>1. \/ raised'[cur] = Append(raised[cur], "MESSAGE") /\ Up(raised[cur])
          \/ raised'[cur] = Append(raised[cur], "CONNECTED") /\ Fresh(raised[cur])
      BY <1>6, <2>1 DEF RaiseMessage, Established, Raise, Types, NoteTypes
    <3> QED
      BY <1>0, <2>1, <3>1, UpMessage, FreshConnected
  <2> QED
    BY <2>1, <2>2
<1>7. CASE RaiseError
  <2>0. cur \in Conns /\ npc' = "close" /\ cur' = cur
    BY <1>7 DEF RaiseError, Types, ThreadTypes, Serving
  <2>1. PICK e \in {"CONNECTION_FAILED", "SEND_ERROR", "RECV_ERROR"} :
            /\ Raise(cur, e)
            /\ \/ e = "CONNECTION_FAILED" /\ npc = "failed"
               \/ e \in {"SEND_ERROR", "RECV_ERROR"} /\ npc \in {"sendError", "recvError"}
    BY <1>7 DEF RaiseError
  <2>2. Ending(Append(raised[cur], e))
    BY <1>0, <2>0, <2>1, ErrorOrdered
  <2>3. raised'[cur] = Append(raised[cur], e)
    BY <2>0, <2>1 DEF Raise, Types, NoteTypes
  <2> QED
    BY <2>0, <2>2, <2>3
<1>8. CASE RemoveConnection
  <2>1. cur \in Conns
    BY <1>8 DEF RemoveConnection, Types, ThreadTypes, Serving
  <2> QED
    BY <1>8, <2>1 DEF RemoveConnection, CloseConnection, Types, ConnTypes
<1>9. CASE RaiseClosed
  BY <1>9 DEF RaiseClosed
<1> QED
  BY <1>1, <1>2, <1>3, <1>4, <1>5, <1>6, <1>7, <1>8, <1>9, Steps

LEMMA ToldStep ==
    ASSUME Types, Rounds, EarlySockets, Histories, Hand, Told, Next
    PROVE  Told'
<1> SUFFICES ASSUME Early'
             PROVE  Told'
  BY DEF Told
<1>0. Early
  BY EarlyStep
<1> USE <1>0 DEF Told
<1>1. CASE UNCHANGED <<raised, connVars, peer, npc, loopVars>>
  BY <1>1
<1>2. ASSUME NEW c \in Conns, Connect(c) PROVE Told'
  <2>1. /\ sock'[c] = "open" /\ UNCHANGED <<npc, cur>>
        /\ \A d \in Conns \ {c} : /\ raised'[d] = raised[d] /\ sock'[d] = sock[d]
                                  /\ peer'[d] = peer[d]
    BY <1>2 DEF Connect, Raise, Types, ConnTypes, NoteTypes
  <2> QED
    BY <2>1
<1>3. CASE \E c \in Conns : ShutdownClose(c)
  BY <1>3 DEF ShutdownClose, Early
<1>4. CASE \E c \in Conns : PeerAnswers(c) \/ PeerGoes(c)
  <2>1. \A d \in Conns : peer'[d] = "none" <=> peer[d] = "none"
    BY <1>4 DEF PeerAnswers, PeerGoes, Types, ConnTypes
  <2>2. UNCHANGED <<raised, sock, npc, cur>>
    BY <1>4 DEF PeerAnswers, PeerGoes
  <2> QED
    BY <2>1, <2>2
<1>5. CASE Moves
  BY <1>5, MovesStep
<1>6. CASE RaiseMessage \/ Established \/ RaiseError
  <2>1. /\ cur \in Conns /\ npc # "closed" /\ Serving
        /\ UNCHANGED <<sock, peer>>
    BY <1>6 DEF RaiseMessage, Established, RaiseError, Types, ThreadTypes, Serving
  <2>2. sock[cur] = "open"
    BY <2>1 DEF EarlySockets
  <2>3. \A d \in Conns \ {cur} : raised'[d] = raised[d]
    BY <1>6 DEF RaiseMessage, Established, RaiseError, Raise, Types, NoteTypes
  <2> QED
    BY <2>1, <2>2, <2>3
<1>7. CASE RemoveConnection
  <2>1. /\ cur \in Conns /\ npc # "closed" /\ npc' = "closed"
        /\ UNCHANGED <<raised, peer, cur>>
    BY <1>7 DEF RemoveConnection, Types, ThreadTypes, Serving
  <2>2. \A d \in Conns \ {cur} : sock'[d] = sock[d]
    BY <1>7 DEF RemoveConnection, CloseConnection, Types, ConnTypes
  <2> QED
    BY <2>1, <2>2
<1>8. CASE RaiseClosed
  <2>1. cur \in Conns /\ npc = "closed" /\ UNCHANGED <<sock, peer, cur>>
    BY <1>8 DEF RaiseClosed, Types, ThreadTypes, Serving
  <2>2. \A d \in Conns \ {cur} : raised'[d] = raised[d]
    BY <1>8 DEF RaiseClosed, Raise, Types, NoteTypes
  <2>3. raised'[cur][Len(raised'[cur])] = "CLOSED"
    <3>1. raised'[cur] = Append(raised[cur], "CLOSED")
      BY <1>8, <2>1 DEF RaiseClosed, Raise, Types, NoteTypes
    <3>2. raised[cur] \in Seq(Notifications) /\ "CLOSED" \in Notifications
      BY <2>1 DEF Types, NoteTypes, Notifications
    <3> QED
      BY <3>1, <3>2, AppendProperties
  <2> QED
    BY <2>1, <2>2, <2>3
<1> QED
  BY <1>1, <1>2, <1>3, <1>4, <1>5, <1>6, <1>7, <1>8, Steps

-----------------------------------------------------------------------------
\* A step of the system, or of nothing, preserves the invariant.
LEMMA StepInv == IInv /\ [Next]_vars => IInv'
<1> SUFFICES ASSUME IInv, [Next]_vars PROVE IInv'
  OBVIOUS
<1> USE DEF IInv
<1>1. CASE Next
  <2>1. Types' /\ Counts' /\ Sockets'
    BY <1>1, TypesStep, CountsStep, SocketsStep
  <2>2. Rounds' /\ EarlySockets'
    BY <1>1, RoundsStep, EarlySocketsStep
  <2>3. Histories'
    BY <1>1, HistoriesStep
  <2>4. Hand' /\ Told'
    BY <1>1, <2>3, HandStep, ToldStep
  <2> QED
    BY <2>1, <2>2, <2>3, <2>4
<1>2. CASE UNCHANGED vars
  <2> USE <1>2 DEF vars
  <2>1. Types' /\ Counts' /\ Sockets'
    BY DEF Types, ThreadTypes, ConnTypes, CountTypes, NoteTypes, Serving,
           Counts, InHand, Sockets
  <2>2. Rounds' /\ EarlySockets' /\ Hand' /\ Told'
    BY DEF Rounds, EarlySockets, Early, Serving, Hand, Told
  <2>3. Histories'
    BY DEF Histories, Closing
  <2> QED
    BY <2>1, <2>2, <2>3
<1> QED
  BY <1>1, <1>2

THEOREM Inductive == Spec => []IInv
BY InitInv, StepInv, PTL DEF Spec

(***************************************************************************)
(* Every variable keeps its type, and no queue ever holds more messages    *)
(* than were given to send or than the server has sent.                    *)
(***************************************************************************)
THEOREM TypeCorrect == Spec => []TypeOK
<1>1. IInv => TypeOK
  <2> SUFFICES ASSUME IInv PROVE TypeOK
    OBVIOUS
  <2> USE DEF IInv, Types
  <2>1. \A c \in Conns :
            /\ sentBy[c] \in 0 .. MaxSend[c] /\ sendQueue[c] \in 0 .. sentBy[c]
            /\ servedBy[c] \in 0 .. MaxRecv[c] /\ inbox[c] \in 0 .. servedBy[c]
            /\ recvQueue[c] \in 0 .. servedBy[c]
            /\ sendData[c] \in 0 .. Units
    <3> SUFFICES ASSUME NEW c \in Conns
                 PROVE  /\ sentBy[c] \in 0 .. MaxSend[c] /\ sendQueue[c] \in 0 .. sentBy[c]
                        /\ servedBy[c] \in 0 .. MaxRecv[c] /\ inbox[c] \in 0 .. servedBy[c]
                        /\ recvQueue[c] \in 0 .. servedBy[c]
                        /\ sendData[c] \in 0 .. Units
      OBVIOUS
    <3>1. InHand(c) \in Nat /\ MaxSend[c] \in Nat /\ MaxRecv[c] \in Nat
      BY BoundAssumption DEF InHand, ThreadTypes
    <3>2. sentBy[c] \in 0 .. MaxSend[c] /\ sendQueue[c] \in 0 .. sentBy[c]
      BY <3>1 DEF Counts, CountTypes
    <3>3. /\ servedBy[c] \in 0 .. MaxRecv[c] /\ inbox[c] \in 0 .. servedBy[c]
          /\ recvQueue[c] \in 0 .. servedBy[c]
      BY <3>1 DEF Counts, CountTypes
    <3> QED
      BY <3>2, <3>3 DEF CountTypes
  <2>2. /\ mainPC \in MainPCs /\ event \in BOOLEAN
        /\ npc \in NetPCs /\ cur \in Conns \cup {NoConn}
        /\ readable \subseteq Conns /\ writable \subseteq Conns
        /\ rset \subseteq Conns /\ wset \subseteq Conns
        /\ batch \in Nat /\ left \in 0 .. Batch /\ full \subseteq Conns
    BY DEF ThreadTypes
  <2> QED
    BY <2>1, <2>2 DEF TypeOK, ConnTypes, NoteTypes
<1> QED
  BY <1>1, Inductive, PTL

(***************************************************************************)
(* The order of notifications, for any number of connections, whatever     *)
(* fails and whenever the package unloads.                                 *)
(***************************************************************************)
THEOREM NotificationsInOrder == Spec => []NotificationOrder
<1>1. IInv => NotificationOrder
  BY DEF IInv, Histories, NotificationOrder
<1> QED
  BY <1>1, Inductive, PTL

(***************************************************************************)
(* A connection that is said to be connected has a socket and is listed,   *)
(* and the loss of one is always told, until the package unloads.          *)
(***************************************************************************)
THEOREM LossIsTold == Spec => []NoSilentLoss
<1>1. IInv => NoSilentLoss
  <2> SUFFICES ASSUME IInv, ~event
               PROVE  \A c \in Conns :
                        /\ connected[c] => sock[c] = "open"
                        /\ sock[c] = "open" => c \in listed
                        /\ sock[c] = "none" /\ peer[c] # "none" =>
                              \/ npc = "closed" /\ cur = c
                              \/ raised[c][Len(raised[c])] = "CLOSED"
    BY DEF NoSilentLoss
  <2>1. Early
    BY DEF IInv, Sockets, Types, ThreadTypes, MainPCs, Early
  <2> QED
    BY <2>1 DEF IInv, Sockets, EarlySockets, Told
<1> QED
  BY <1>1, Inductive, PTL

(***************************************************************************)
(* Nothing but the end of the wait in shutdown ends the network thread.    *)
(***************************************************************************)
THEOREM ThreadSurvives == Spec => []NetSurvives
<1>1. IInv => NetSurvives
  BY DEF IInv, EarlySockets, Types, ThreadTypes, MainPCs, Early, NetSurvives
<1> QED
  BY <1>1, Inductive, PTL

(***************************************************************************)
(* When shutdown has ended, every socket is closed, however many           *)
(* connections there were and whatever the network thread was doing.       *)
(***************************************************************************)
THEOREM ShutdownClosesAll == Spec => []NothingLeftOpen
<1>1. IInv => NothingLeftOpen
  BY DEF IInv, Sockets, NothingLeftOpen
<1> QED
  BY <1>1, Inductive, PTL
-----------------------------------------------------------------------------
(***************************************************************************)
(* Messages and their callbacks.                                           *)
(***************************************************************************)
\* There are finitely many places in a sequence.
LEMMA PlacesFinite ==
    ASSUME NEW n \in Nat, NEW S \in SUBSET (1 .. n)
    PROVE  IsFiniteSet(S) /\ Cardinality(S) \in Nat
<1>1. IsFiniteSet(1 .. n)
  BY FS_Interval
<1> QED
  BY <1>1, FS_Subset, FS_CardinalityType

LEMMA CallbacksFinite ==
    ASSUME NoteTypes, NEW c \in Conns
    PROVE  IsFiniteSet(MessageCallbacks(c)) /\ Cardinality(MessageCallbacks(c)) \in Nat
<1>1. Len(callbacks) \in Nat
  BY DEF NoteTypes
<1>2. MessageCallbacks(c) \subseteq 1 .. Len(callbacks)
  BY DEF MessageCallbacks
<1> QED
  BY <1>1, <1>2, PlacesFinite

\* A notification is one callback more.
LEMMA OneMore ==
    ASSUME NoteTypes, NEW c \in Conns, NEW d \in Conns, NEW n \in Notifications, Raise(d, n)
    PROVE  Cardinality(MessageCallbacks(c))' =
               Cardinality(MessageCallbacks(c)) + IF d = c /\ n = "MESSAGE" THEN 1 ELSE 0
<1> DEFINE note == [conn |-> d, note |-> n]
           last == Len(callbacks) + 1
<1>1. /\ Len(callbacks) \in Nat /\ Len(callbacks') = last /\ callbacks'[last] = note
      /\ \A i \in 1 .. Len(callbacks) : callbacks'[i] = callbacks[i]
  <2>1. note \in [conn : Conns, note : Notifications]
    OBVIOUS
  <2>2. callbacks \in Seq([conn : Conns, note : Notifications])
    BY DEF NoteTypes
  <2>3. callbacks' = Append(callbacks, note)
    BY DEF Raise
  <2> HIDE DEF note
  <2> QED
    BY <2>1, <2>2, <2>3, AppendProperties
<1>2. note = [conn |-> c, note |-> "MESSAGE"] <=> d = c /\ n = "MESSAGE"
  OBVIOUS
<1> HIDE DEF note
<1>3. MessageCallbacks(c)' = IF d = c /\ n = "MESSAGE"
                             THEN MessageCallbacks(c) \cup {last} ELSE MessageCallbacks(c)
  <2>1. 1 .. last = (1 .. Len(callbacks)) \cup {last}
    BY <1>1
  <2> QED
    BY <1>1, <1>2, <2>1 DEF MessageCallbacks
<1>4. last \notin MessageCallbacks(c)
  BY <1>1 DEF MessageCallbacks
<1>5. /\ IsFiniteSet(MessageCallbacks(c)) /\ Cardinality(MessageCallbacks(c)) \in Nat
  BY CallbacksFinite
<1>6. Cardinality(MessageCallbacks(c) \cup {last}) = Cardinality(MessageCallbacks(c)) + 1
  BY <1>4, <1>5, FS_AddElement
<1> QED
  BY <1>3, <1>5, <1>6

\* The first callback has run: the others are one place further on.
LEMMA OneLess ==
    ASSUME NoteTypes, NEW c \in Conns, callbacks # <<>>, callbacks' = Tail(callbacks)
    PROVE  Cardinality(MessageCallbacks(c)) =
               Cardinality(MessageCallbacks(c))'
                   + IF Head(callbacks) = [conn |-> c, note |-> "MESSAGE"] THEN 1 ELSE 0
<1> DEFINE S == MessageCallbacks(c) \ {1}
           T == MessageCallbacks(c)'
           f == [i \in S |-> i - 1]
<1>1. /\ Len(callbacks) \in Nat \ {0} /\ Len(callbacks') = Len(callbacks) - 1
      /\ \A i \in 1 .. Len(callbacks) - 1 : callbacks'[i] = callbacks[i + 1]
      /\ Head(callbacks) = callbacks[1]
  BY DEF NoteTypes
<1>2. /\ IsFiniteSet(MessageCallbacks(c)) /\ Cardinality(MessageCallbacks(c)) \in Nat
  BY CallbacksFinite
<1>3. /\ IsFiniteSet(S)
      /\ Cardinality(S) = IF 1 \in MessageCallbacks(c) THEN Cardinality(MessageCallbacks(c)) - 1
                          ELSE Cardinality(MessageCallbacks(c))
  BY <1>2, FS_RemoveElement
<1>4. 1 \in MessageCallbacks(c) <=> Head(callbacks) = [conn |-> c, note |-> "MESSAGE"]
  BY <1>1 DEF MessageCallbacks
<1>5. \A i \in S : i \in Nat /\ i - 1 \in T
  BY <1>1 DEF MessageCallbacks
<1>6. \A j \in T : j \in Nat /\ j + 1 \in S
  BY <1>1 DEF MessageCallbacks
<1> HIDE DEF S, T
<1>7. f \in Bijection(S, T)
  <2>1. f \in [S -> T]
    BY <1>5
  <2>2. \A i, j \in S : f[i] = f[j] => i = j
    BY <1>5
  <2>3. \A j \in T : \E i \in S : f[i] = j
    <3> SUFFICES ASSUME NEW j \in T PROVE \E i \in S : f[i] = j
      OBVIOUS
    <3>1. j + 1 \in S /\ f[j + 1] = j
      BY <1>6
    <3> QED
      BY <3>1
  <2> QED
    BY <2>1, <2>2, <2>3 DEF Bijection, Injection, IsInjective, Surjection
<1>8. Cardinality(T) = Cardinality(S)
  BY <1>3, <1>7, FS_Bijection DEF ExistsBijection
<1> QED
  BY <1>2, <1>3, <1>4, <1>8 DEF T

Raising(c) == npc = "raise" /\ cur = c

\* Which steps change whether a message has no callback yet.
LEMMA OtherRaisingSteps ==
    ASSUME Next
    PROVE  (\A c : Raising(c)' <=> Raising(c)) \/ Deliver \/ RaiseMessage
<1>1. CASE UNCHANGED <<npc, loopVars>>
  BY <1>1 DEF Raising
<1>2. CASE NetLoop \/ NetSnapshot \/ NetSelect \/ NetServed \/ Delivered
  BY <1>2 DEF Raising, NetLoop, NetSnapshot, NetSelect, NetServed, Delivered
<1>3. CASE \E c \in Conns : Receive(c) \/ StartSend(c)
  BY <1>3 DEF Raising, Receive, StartSend
<1>4. CASE Probe \/ Established \/ SendSome
  BY <1>4 DEF Raising, Probe, Established, SendSome
<1>5. CASE RaiseError \/ RemoveConnection \/ RaiseClosed
  BY <1>5 DEF Raising, RaiseError, RemoveConnection, RaiseClosed
<1> QED
  BY <1>1, <1>2, <1>3, <1>4, <1>5, OtherThreadSteps DEF NetStep

\* Only a message that is queued or taken changes the queue.
LEMMA OtherQueueSteps ==
    ASSUME Next
    PROVE  UNCHANGED recvQueue \/ RunCallback \/ Deliver
<1>1. CASE \E c \in Conns : Send(c) \/ Receive(c) \/ PeerSends(c)
  BY <1>1 DEF Send, Receive, PeerSends
<1>2. CASE SendSome
  BY <1>2 DEF SendSome
<1> QED
  BY <1>1, <1>2, OtherCountSteps

Owed(c) == IF Raising(c) THEN 1 ELSE 0

Accounts ==
    /\ ~missed
    /\ \A c \in Conns : recvQueue[c] = Cardinality(MessageCallbacks(c)) + Owed(c)

LEMMA AccountsStep ==
    ASSUME Types, Accounts, Next
    PROVE  Accounts'
<1> USE DEF Types
<1>1. \A c \in Conns : Cardinality(MessageCallbacks(c)) \in Nat /\ recvQueue[c] \in Nat
  BY CallbacksFinite DEF CountTypes
<1>2. CASE RunCallback
  <2> DEFINE first == Head(callbacks)
  <2>1. callbacks # <<>> /\ callbacks' = Tail(callbacks) /\ UNCHANGED <<npc, cur>>
    BY <1>2 DEF RunCallback
  <2>2. first \in [conn : Conns, note : Notifications]
    BY <2>1, HeadTailProperties DEF NoteTypes
  <2>3. \A c \in Conns : /\ Owed(c)' = Owed(c) /\ Owed(c) \in {0, 1}
                         /\ Cardinality(MessageCallbacks(c))' \in Nat
    <3>1. Len(callbacks') \in Nat
      BY NoteTypesStep DEF NoteTypes
    <3>2. \A c \in Conns : MessageCallbacks(c)' \subseteq 1 .. Len(callbacks')
      BY DEF MessageCallbacks
    <3>3. \A c \in Conns : Cardinality(MessageCallbacks(c)') \in Nat
      BY <3>1, <3>2, PlacesFinite
    <3> QED
      BY <2>1, <3>3 DEF Owed, Raising
  <2>4. \A c \in Conns : Cardinality(MessageCallbacks(c)) =
            Cardinality(MessageCallbacks(c))'
                + IF first = [conn |-> c, note |-> "MESSAGE"] THEN 1 ELSE 0
    BY <2>1, OneLess
  <2> HIDE DEF first
  <2>5. CASE first.note = "MESSAGE"
    <3>1. PICK d \in Conns : d = first.conn
      BY <2>2
    <3>2. \A c \in Conns : first = [conn |-> c, note |-> "MESSAGE"] <=> c = d
      BY <2>2, <2>5, <3>1
    <3>3. \A c \in Conns : Cardinality(MessageCallbacks(c)) =
              Cardinality(MessageCallbacks(c))' + IF c = d THEN 1 ELSE 0
      BY <2>4, <3>2
    <3>4. recvQueue[d] > 0
      <4>1. Cardinality(MessageCallbacks(d)) = Cardinality(MessageCallbacks(d))' + 1
        BY <3>3
      <4> QED
        BY <2>3, <4>1 DEF Accounts
    <3>5. UNCHANGED missed /\ recvQueue' = [recvQueue EXCEPT ![d] = @ - 1]
      BY <1>2, <2>5, <3>1, <3>4 DEF RunCallback, first
    <3>6. \A c \in Conns : recvQueue'[c] = Cardinality(MessageCallbacks(c))' + Owed(c)'
      BY <1>1, <2>3, <3>3, <3>5 DEF Accounts, CountTypes
    <3> QED
      BY <3>5, <3>6 DEF Accounts
  <2>6. CASE first.note # "MESSAGE"
    <3>1. UNCHANGED <<missed, recvQueue>>
      BY <1>2, <2>6 DEF RunCallback, NoteTypes, first
    <3>2. \A c \in Conns : first # [conn |-> c, note |-> "MESSAGE"]
      BY <2>6
    <3>3. \A c \in Conns : Cardinality(MessageCallbacks(c))' = Cardinality(MessageCallbacks(c))
      BY <2>3, <2>4, <3>2
    <3> QED
      BY <2>3, <3>1, <3>3 DEF Accounts
  <2> QED
    BY <2>5, <2>6
<1>3. CASE Deliver
  <2>1. UNCHANGED <<callbacks, missed, cur>> /\ npc = "deliver" /\ cur \in Conns
    BY <1>3 DEF Deliver, ThreadTypes, Serving
  <2>2. \A c \in Conns : MessageCallbacks(c)' = MessageCallbacks(c) /\ Owed(c) = 0
    BY <2>1 DEF MessageCallbacks, Owed, Raising
  <2>3. CASE recvQueue' = [recvQueue EXCEPT ![cur] = @ + 1] /\ npc' = "raise"
    BY <1>1, <2>1, <2>2, <2>3 DEF Accounts, Owed, Raising, CountTypes
  <2>4. CASE UNCHANGED recvQueue /\ npc' = "recvError"
    BY <2>1, <2>2, <2>4 DEF Accounts, Owed, Raising
  <2> QED
    BY <1>3, <2>3, <2>4 DEF Deliver
<1>4. CASE RaiseMessage
  <2>1. /\ cur \in Conns /\ Raise(cur, "MESSAGE") /\ "MESSAGE" \in Notifications
        /\ UNCHANGED <<recvQueue, cur, missed>> /\ npc = "raise" /\ npc' = "deliver"
    BY <1>4 DEF RaiseMessage, ThreadTypes, Serving, Notifications, Raise
  <2>2. \A c \in Conns : Cardinality(MessageCallbacks(c))' =
            Cardinality(MessageCallbacks(c)) + IF cur = c THEN 1 ELSE 0
    BY <2>1, OneMore
  <2>3. \A c \in Conns : Owed(c) = (IF cur = c THEN 1 ELSE 0) /\ Owed(c)' = 0
    BY <2>1 DEF Owed, Raising
  <2> QED
    BY <1>1, <2>1, <2>2, <2>3 DEF Accounts
<1>5. CASE ~(RunCallback \/ Deliver \/ RaiseMessage)
  <2>1. UNCHANGED recvQueue /\ \A c \in Conns : Owed(c)' = Owed(c)
    BY <1>5, OtherQueueSteps, OtherRaisingSteps DEF Owed
  <2>2. CASE UNCHANGED noteVars
    BY <2>1, <2>2 DEF Accounts, MessageCallbacks
  <2>3. ASSUME NEW d \in Conns, NEW n \in Notifications \ {"MESSAGE"}, Raise(d, n)
        PROVE  Accounts'
    <3>1. \A c \in Conns : Cardinality(MessageCallbacks(c))' = Cardinality(MessageCallbacks(c))
      BY <1>1, <2>3, OneMore
    <3>2. UNCHANGED missed
      BY <2>3 DEF Raise
    <3> QED
      BY <2>1, <3>1, <3>2 DEF Accounts
  <2>4. \/ UNCHANGED noteVars
        \/ \E d \in Conns, n \in Notifications \ {"MESSAGE"} : Raise(d, n)
    <3>1. CASE \E c \in Conns : Connect(c)
      BY <3>1 DEF Connect, Notifications
    <3>2. CASE Established \/ RaiseError \/ RaiseClosed
      BY <3>2 DEF Established, RaiseError, RaiseClosed, ThreadTypes, Serving, Notifications
    <3> QED
      BY <1>5, <3>1, <3>2, OtherNoteSteps
  <2> QED
    BY <2>2, <2>3, <2>4
<1> QED
  BY <1>2, <1>3, <1>4, <1>5

(***************************************************************************)
(* The listener never asks for a message that is not there, and leaves     *)
(* none behind, for any number of connections and messages.                *)
(***************************************************************************)
THEOREM EveryMessageHasItsCallback == Spec => []MessageAccounting
<1>1. Init => Accounts
  <2> SUFFICES ASSUME Init PROVE Accounts
    OBVIOUS
  <2>1. \A c \in Conns : MessageCallbacks(c) = {}
    BY DEF Init, MessageCallbacks
  <2> QED
    BY <2>1, FS_EmptySet DEF Init, Accounts, Owed, Raising
<1>2. IInv /\ Accounts /\ [Next]_vars => Accounts'
  <2>1. CASE UNCHANGED vars
    BY <2>1 DEF vars, Accounts, MessageCallbacks, Owed, Raising
  <2> QED
    BY <2>1, AccountsStep DEF IInv
<1>3. Accounts => MessageAccounting
  BY DEF Accounts, MessageAccounting, Owed, Raising
<1> QED
  BY <1>1, <1>2, <1>3, Inductive, PTL DEF Spec
=============================================================================
