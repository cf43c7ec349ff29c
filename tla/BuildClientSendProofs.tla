----------------------- MODULE BuildClientSendProofs -----------------------
(***************************************************************************)
(* Proofs about BuildClientSend, for any messages of any length and any    *)
(* number of process event threads: its type invariant, the safety         *)
(* invariants that the runs check, and that every behaviour of it is one   *)
(* of the abstract link, FifoLink.                                         *)
(***************************************************************************)
EXTENDS BuildClientSend, SequenceTheorems, TLAPS

\* Send has thrown: the message being sent will never be finished, and
\* nothing the socket or SendCallback does will change that.
Stuck == /\ socket = "dead" /\ ops = <<>>
         /\ sendBuffer # NoMsg /\ pc[Callback] = "idle"

\* A SendCallback has a finished operation that it has not accounted for.
Ending == pc[Callback] \in {"wait", "enter"}

\* How many bytes of sendBuffer the remote end has.
Moved == bytesSent + IF Ending THEN result ELSE 0

\* The remote end has nothing of a message that it does not have all of.
Whole == sendBuffer = NoMsg \/ Moved = Length[sendBuffer]

Pending == IF Whole THEN <<>> ELSE <<sendBuffer>>

MutexInv ==
    /\ \A t \in Threads : Inside(t) \/ pc[t] = "threw" => owner = t
    /\ owner = Nobody <=> depth = 0
    /\ pc[Callback] # "threw"

ArgInv ==
    /\ \A t \in Senders : pc[t] # "idle" => arg[t] \in Msgs
    /\ ServerException \notin fresh

LeakInv ==
    /\ LeakedMutex \/ depth > 1 => Stuck
    /\ pc[Reader] # "idle" /\ arg[Reader] = ServerException
          => Stuck /\ pc[Reader] # "threw"

BufferInv ==
    /\ ops # <<>> => /\ ops = <<[msg |-> sendBuffer, from |-> bytesSent]>>
                     /\ sendBuffer # NoMsg
                     /\ pc[Callback] \in {"idle", "leave"}
    /\ Ending => sendBuffer # NoMsg /\ (result = 0 => socket = "dead")
    /\ sendBuffer = NoMsg => bytesSent = 0
    /\ sendBuffer # NoMsg => /\ bytesSent < Length[sendBuffer]
                             /\ Moved <= Length[sendBuffer]
                             /\ closeAfterSending = (sendBuffer \in Closing)

WakeInv ==
    socket = "open" =>
        /\ sendBuffer # NoMsg =>
              ops # <<>> \/ pc[Callback] \in {"wait", "enter", "begin"}
        /\ sendBuffer = NoMsg /\ outQueue # <<>> =>
              \E t \in Threads : pc[t] = "begin"

PeerInv ==
    /\ ~garbled
    /\ peerBytes = IF Whole THEN 0 ELSE Moved
    /\ peerBytes > 0 => peerMsg = sendBuffer

OrderInv ==
    /\ accepted = (received \o Pending) \o outQueue
    /\ Ending /\ Whole => received # <<>> /\ received[Len(received)] = sendBuffer
    /\ Link!Ended /\ socket = "open" => Ending /\ Whole

IInv == /\ TypeOK /\ MutexInv /\ ArgInv /\ LeakInv
        /\ BufferInv /\ WakeInv /\ PeerInv /\ OrderInv

-----------------------------------------------------------------------------
USE DEF mutexVars, bufVars, peerVars, Goto, PCs

\* The initial state satisfies the invariant.
LEMMA InitInv == Init => IInv
<1> SUFFICES ASSUME Init PROVE IInv
  OBVIOUS
<1> USE MsgAssumption, ThreadAssumption DEF Init
<1>0. <<>> \in Seq(Msgs) /\ <<>> \in Seq(Ops)
  BY EmptySeq
<1>1. TypeOK
  <2>1. pc \in [Threads -> PCs] /\ arg \in [Senders -> Msgs \cup {NoMsg}]
    OBVIOUS
  <2> QED
    BY <1>0, <2>1 DEF TypeOK
<1>2. MutexInv
  BY DEF MutexInv, Inside, Threads
<1>3. ArgInv /\ LeakInv
  BY DEF ArgInv, LeakInv, LeakedMutex, Threads, Senders
<1>4. BufferInv /\ WakeInv /\ PeerInv
  BY DEF BufferInv, WakeInv, PeerInv, Ending, Moved, Whole, Threads
<1>5. OrderInv
  BY DEF OrderInv, Ending, Moved, Whole, Pending, Threads, Link!Ended
<1> QED
  BY <1>1, <1>2, <1>3, <1>4, <1>5 DEF IInv

\* Entering the mutex.
LEMMA WaitOneInv ==
    ASSUME IInv, NEW t \in Threads, WaitOne(t)
    PROVE  IInv'
<1> USE ThreadAssumption DEF IInv, WaitOne
<1>0. t = Callback => owner = Nobody
  BY DEF TypeOK, LeakInv, LeakedMutex, Stuck, Inside
<1>1. TypeOK'
  BY DEF TypeOK
<1>2. MutexInv'
  BY DEF TypeOK, MutexInv, Inside
<1>3. ArgInv'
  BY DEF TypeOK, ArgInv, Threads
<1>4. LeakInv'
  BY <1>0 DEF TypeOK, LeakInv, LeakedMutex, MutexInv, Stuck, Inside, Threads, Senders
<1>5. Ending' = Ending /\ Moved' = Moved /\ Whole' = Whole
  BY DEF TypeOK, Ending, Moved, Whole
<1>6. BufferInv' /\ WakeInv' /\ PeerInv'
  BY <1>5 DEF TypeOK, BufferInv, WakeInv, PeerInv
<1>7. OrderInv'
  BY <1>5 DEF OrderInv, Pending, Link!Ended
<1> QED
  BY <1>1, <1>2, <1>3, <1>4, <1>6, <1>7

\* Leaving the mutex.
LEMMA ReleaseMutexInv ==
    ASSUME IInv, NEW t \in Threads, ReleaseMutex(t)
    PROVE  IInv'
<1> USE ThreadAssumption DEF IInv, ReleaseMutex
<1>0. /\ owner = t /\ depth \in Nat \ {0}
      /\ depth > 1 => t # Callback
  BY DEF TypeOK, MutexInv, LeakInv, Stuck, Inside
<1>1. TypeOK'
  BY <1>0 DEF TypeOK
<1>2. MutexInv'
  BY <1>0 DEF TypeOK, MutexInv, Inside
<1>3. ArgInv'
  BY DEF TypeOK, ArgInv, Threads
<1>4. LeakInv'
  BY <1>0 DEF TypeOK, LeakInv, LeakedMutex, MutexInv, Stuck, Inside, Threads, Senders
<1>5. Ending' = Ending /\ Moved' = Moved /\ Whole' = Whole
  BY DEF TypeOK, Ending, Moved, Whole
<1>6. BufferInv' /\ WakeInv' /\ PeerInv'
  BY <1>5 DEF TypeOK, BufferInv, WakeInv, PeerInv
<1>7. OrderInv'
  BY <1>5 DEF OrderInv, Pending, Link!Ended
<1> QED
  BY <1>1, <1>2, <1>3, <1>4, <1>6, <1>7

\* A call of Send.
LEMMA CallSendInv ==
    ASSUME IInv, NEW t \in Senders, NEW m \in Msgs, CallSend(t, m)
    PROVE  IInv'
<1> USE ThreadAssumption DEF IInv, CallSend
<1>0. t \in Threads /\ t # Callback
  BY DEF Threads
<1>1. TypeOK'
  BY DEF TypeOK
<1>2. MutexInv'
  BY <1>0 DEF TypeOK, MutexInv, Inside
<1>3. ArgInv'
  BY <1>0 DEF TypeOK, ArgInv, Threads
<1>4. LeakInv'
  <2>1. m # ServerException
    BY DEF ArgInv
  <2>2. Stuck' = Stuck
    BY <1>0 DEF TypeOK, Stuck
  <2>3. LeakedMutex' = LeakedMutex
    BY <1>0 DEF TypeOK, LeakedMutex, Inside
  <2> QED
    BY <1>0, <2>1, <2>2, <2>3 DEF TypeOK, LeakInv, Senders, Threads
<1>5. Ending' = Ending /\ Moved' = Moved /\ Whole' = Whole
  BY <1>0 DEF TypeOK, Ending, Moved, Whole
<1>6. BufferInv' /\ WakeInv' /\ PeerInv'
  BY <1>0, <1>5 DEF TypeOK, BufferInv, WakeInv, PeerInv
<1>7. OrderInv'
  BY <1>5 DEF OrderInv, Pending, Link!Ended
<1> QED
  BY <1>1, <1>2, <1>3, <1>4, <1>6, <1>7

\* Dispatch's catch block.
LEMMA CatchInv ==
    ASSUME IInv, Catch
    PROVE  IInv'
<1> USE ThreadAssumption, MsgAssumption DEF IInv, Catch
<1>0. /\ Reader \in Threads /\ Reader \in Senders /\ Reader # Callback
      /\ ServerException \in Msgs
  BY DEF Threads, Senders
<1>1. TypeOK'
  BY <1>0 DEF TypeOK
<1>2. MutexInv'
  BY <1>0 DEF TypeOK, MutexInv, Inside
<1>3. ArgInv'
  BY <1>0 DEF TypeOK, ArgInv, Threads
<1>4. LeakInv'
  <2>1. owner = Reader /\ Stuck
    BY <1>0 DEF MutexInv, LeakInv, LeakedMutex, Inside
  <2>2. Stuck'
    BY <1>0, <2>1 DEF TypeOK, Stuck
  <2> QED
    BY <1>0, <2>2 DEF TypeOK, LeakInv
<1>5. Ending' = Ending /\ Moved' = Moved /\ Whole' = Whole
  BY <1>0 DEF TypeOK, Ending, Moved, Whole
<1>6. BufferInv' /\ WakeInv' /\ PeerInv'
  BY <1>0, <1>5 DEF TypeOK, BufferInv, WakeInv, PeerInv
<1>7. OrderInv'
  BY <1>5 DEF OrderInv, Pending, Link!Ended
<1> QED
  BY <1>1, <1>2, <1>3, <1>4, <1>6, <1>7

\* SendCallback finds that the operation failed.
LEMMA EndSendThrowsInv ==
    ASSUME IInv, EndSendThrows
    PROVE  IInv'
<1> USE ThreadAssumption DEF IInv, EndSendThrows
<1>0. Callback \in Threads /\ Callback \notin Senders
  BY DEF Threads
<1>1. TypeOK'
  BY <1>0 DEF TypeOK
<1>2. MutexInv'
  BY <1>0 DEF TypeOK, MutexInv, Inside
<1>3. ArgInv'
  BY <1>0 DEF TypeOK, ArgInv, Threads
<1>4. LeakInv'
  BY <1>0 DEF TypeOK, LeakInv, LeakedMutex, Stuck, Inside, Senders, MutexInv
<1>5. Ending /\ ~Ending' /\ Moved' = Moved /\ Whole' = Whole
  BY <1>0 DEF TypeOK, Ending, Moved, Whole
<1>6. socket = "dead" /\ ops = <<>> /\ sendBuffer # NoMsg
  BY <1>5 DEF BufferInv, Ending
<1>7. BufferInv' /\ WakeInv' /\ PeerInv'
  BY <1>0, <1>5, <1>6 DEF TypeOK, BufferInv, WakeInv, PeerInv
<1>8. OrderInv'
  BY <1>5, <1>6 DEF OrderInv, Pending, Link!Ended
<1> QED
  BY <1>1, <1>2, <1>3, <1>4, <1>7, <1>8

\* The connection breaks.
LEMMA SocketDiesInv ==
    ASSUME IInv, SocketDies
    PROVE  IInv'
<1> USE DEF IInv, SocketDies
<1>1. TypeOK' /\ MutexInv' /\ ArgInv'
  BY DEF TypeOK, MutexInv, ArgInv, Inside
<1>2. LeakInv' /\ BufferInv' /\ WakeInv' /\ PeerInv'
  BY DEF LeakInv, LeakedMutex, Stuck, Inside, BufferInv, WakeInv, PeerInv,
         Ending, Moved, Whole
<1>3. OrderInv'
  BY DEF OrderInv, Pending, Ending, Moved, Whole, Link!Ended
<1> QED
  BY <1>1, <1>2, <1>3
-----------------------------------------------------------------------------
\* Taking from the front of the second of two sequences.
LEMMA MoveHead ==
    ASSUME NEW S, NEW r \in Seq(S), NEW q \in Seq(S), q # <<>>
    PROVE  (r \o <<>>) \o q = (r \o <<Head(q)>>) \o Tail(q)
<1>1. /\ Head(q) \in S /\ Tail(q) \in Seq(S) /\ <<Head(q)>> \in Seq(S)
      /\ Len(Tail(q)) = Len(q) - 1 /\ Len(q) \in Nat \ {0}
      /\ \A i \in 1 .. Len(Tail(q)) : Tail(q)[i] = q[i + 1]
  BY HeadTailProperties, EmptySeq
<1>2. q = <<Head(q)>> \o Tail(q)
  <2> DEFINE h == <<Head(q)>>
             c == h \o Tail(q)
  <2>1. Len(h) = 1 /\ h[1] = q[1]
    OBVIOUS
  <2>2. c \in Seq(S) /\ Len(c) = Len(q)
    BY <1>1, <2>1, ConcatProperties
  <2>3. \A i \in 1 .. Len(q) : c[i] = IF i <= 1 THEN h[i] ELSE Tail(q)[i - 1]
    BY <1>1, <2>1, ConcatProperties
  <2>4. \A i \in 1 .. Len(q) : q[i] = c[i]
    BY <1>1, <2>1, <2>3
  <2> QED
    BY <2>2, <2>4, SeqEqual
<1> QED
  BY <1>1, <1>2, ConcatEmptySeq, ConcatAssociative

\* The parts of accepted are sequences of messages.
LEMMA PendingType ==
    ASSUME TypeOK
    PROVE  Pending \in Seq(Msgs) /\ received \o Pending \in Seq(Msgs)
<1>1. Pending \in Seq(Msgs)
  BY DEF TypeOK, Pending, Whole
<1> QED
  BY <1>1, ConcatProperties DEF TypeOK

\* Send queues its message.
LEMMA EnqueueInv ==
    ASSUME IInv, NEW t \in Senders, Enqueue(t)
    PROVE  IInv'
<1> USE ThreadAssumption DEF IInv, Enqueue
<1>0. t \in Threads /\ t # Callback /\ arg[t] \in Msgs
  BY DEF Threads, ArgInv
<1>1. TypeOK'
  BY <1>0 DEF TypeOK
<1>2. MutexInv'
  BY <1>0 DEF TypeOK, MutexInv, Inside
<1>3. ArgInv'
  BY <1>0 DEF TypeOK, ArgInv, Threads
<1>4. LeakInv'
  BY <1>0 DEF TypeOK, LeakInv, LeakedMutex, Stuck, Inside
<1>5. Ending' = Ending /\ Moved' = Moved /\ Whole' = Whole /\ Pending' = Pending
  BY <1>0 DEF TypeOK, Ending, Moved, Whole, Pending
<1>6. BufferInv' /\ PeerInv'
  BY <1>0, <1>5 DEF TypeOK, BufferInv, PeerInv
<1>7. WakeInv'
  BY <1>0, <1>5 DEF TypeOK, WakeInv
<1>8. OrderInv'
  <2>1. /\ received \o Pending \in Seq(Msgs) /\ outQueue \in Seq(Msgs)
        /\ accepted \in Seq(Msgs) /\ <<arg[t]>> \in Seq(Msgs)
    BY <1>0, PendingType DEF TypeOK
  <2>2. /\ accepted' = accepted \o <<arg[t]>>
        /\ outQueue' = outQueue \o <<arg[t]>>
    BY <1>0, <2>1, AppendIsConcat
  <2>3. ((received \o Pending) \o outQueue) \o <<arg[t]>>
           = (received \o Pending) \o (outQueue \o <<arg[t]>>)
    BY <2>1, ConcatAssociative, SMTT(40)
  <2>4. accepted' = (received \o Pending) \o outQueue'
    BY <2>2, <2>3 DEF OrderInv
  <2> QED
    BY <2>4, <1>5 DEF OrderInv, Link!Ended
<1> QED
  BY <1>1, <1>2, <1>3, <1>4, <1>6, <1>7, <1>8

\* BeginSending takes the next message.
LEMMA BeginNextInv ==
    ASSUME IInv, NEW t \in Threads, pc[t] = "begin",
           NEW onThrow \in {"threw", "leave"},
           t = Callback <=> onThrow = "leave",
           BeginNext(t, onThrow),
           UNCHANGED <<arg, mutexVars, result, socket, fresh, accepted, peerVars>>
    PROVE  IInv'
<1> USE ThreadAssumption DEF IInv, BeginNext
<1> DEFINE m == Head(outQueue)
<1>0. /\ m \in Msgs /\ Tail(outQueue) \in Seq(Msgs) /\ m # NoMsg
      /\ Length[m] \in Nat \ {0}
  BY MsgAssumption, HeadTailProperties DEF TypeOK
<1>1. /\ owner = t /\ ops = <<>> /\ ~Stuck /\ depth <= 1
      /\ pc[Callback] = IF t = Callback THEN "begin" ELSE "idle"
  <2>1. owner = t /\ \A u \in Threads : u # t => pc[u] \in {"idle", "wait"}
    BY DEF MutexInv, Inside, TypeOK
  <2>2. ops = <<>> /\ ~Ending /\ ~Stuck
    BY DEF BufferInv, Stuck
  <2> QED
    BY <2>1, <2>2 DEF Ending, LeakInv, Threads, TypeOK
<1>2. /\ accepted = (received \o <<m>>) \o Tail(outQueue)
      /\ ~(Ending /\ Whole)
  <2>1. received \in Seq(Msgs) /\ outQueue \in Seq(Msgs)
    BY DEF TypeOK
  <2>2. (received \o <<>>) \o outQueue = (received \o <<m>>) \o Tail(outQueue)
    BY <2>1, MoveHead
  <2>3. Pending = <<>> /\ ~Ending
    BY DEF Pending, Whole, BufferInv
  <2> QED
    BY <2>2, <2>3 DEF OrderInv
<1>3. CASE /\ ops' = Append(ops, [msg |-> m, from |-> 0])
           /\ Goto(t, "leave")
  <2>0. ops' = <<[msg |-> m, from |-> 0]>>
    BY <1>1, <1>3
  <2>1. TypeOK'
    <3>1. [msg |-> m, from |-> 0] \in Ops
      BY <1>0 DEF Ops
    <3> QED
      BY <1>0, <1>3, <2>0, <3>1 DEF TypeOK
  <2>2. MutexInv' /\ ArgInv'
    BY <1>0, <1>3 DEF TypeOK, MutexInv, ArgInv, Inside, Threads
  <2>3. LeakInv'
    BY <1>1, <1>3 DEF TypeOK, LeakInv, LeakedMutex, Inside, Threads, Senders
  <2>4. ~Ending' /\ Moved' = 0 /\ ~Whole' /\ Pending' = <<m>>
    BY <1>0, <1>1, <1>3 DEF TypeOK, Ending, Moved, Whole, Pending, Threads
  <2>5. BufferInv' /\ WakeInv'
    BY <1>0, <1>1, <1>3, <2>0, <2>4 DEF TypeOK, BufferInv, WakeInv, Threads
  <2>6. PeerInv'
    BY <2>4 DEF PeerInv, Whole
  <2>7. OrderInv'
    BY <1>3, <1>2, <2>4 DEF OrderInv, Link!Ended
  <2> QED
    BY <2>1, <2>2, <2>3, <2>5, <2>6, <2>7
<1>4. CASE /\ socket = "dead"
           /\ UNCHANGED ops
           /\ Goto(t, onThrow)
  <2>1. TypeOK'
    BY <1>0, <1>4 DEF TypeOK
  <2>2. MutexInv' /\ ArgInv'
    BY <1>0, <1>1, <1>4 DEF TypeOK, MutexInv, ArgInv, Inside, Threads
  <2>3. LeakInv'
    <3>1. t # Callback => Stuck'
      BY <1>0, <1>1, <1>4 DEF Stuck, Threads, TypeOK
    <3>2. t = Callback => ~LeakedMutex'
      BY <1>1, <1>4 DEF LeakedMutex, Inside, TypeOK
    <3>3. pc[Reader] # "idle" => arg[Reader] # ServerException
      BY <1>1 DEF LeakInv
    <3>4. pc'[Reader] # "idle" => pc[Reader] # "idle"
      BY <1>4 DEF TypeOK
    <3> QED
      BY <1>1, <3>1, <3>2, <3>3, <3>4 DEF LeakInv
  <2>4. ~Ending' /\ Moved' = 0 /\ ~Whole' /\ Pending' = <<m>>
    BY <1>0, <1>1, <1>4 DEF TypeOK, Ending, Moved, Whole, Pending, Threads
  <2>5. BufferInv' /\ WakeInv'
    BY <1>0, <1>1, <1>4, <2>4 DEF TypeOK, BufferInv, WakeInv
  <2>6. PeerInv'
    BY <2>4 DEF PeerInv, Whole
  <2>7. OrderInv'
    BY <1>4, <1>2, <2>4 DEF OrderInv, Link!Ended
  <2> QED
    BY <2>1, <2>2, <2>3, <2>5, <2>6, <2>7
<1> QED
  BY <1>3, <1>4 DEF BeginSend

\* Only the program counter of a thread inside the mutex moves on.
LEMMA BeginSkipInv ==
    ASSUME IInv, NEW t \in Threads, pc[t] = "begin", Goto(t, "leave"),
           socket = "open" => sendBuffer # NoMsg \/ outQueue = <<>>,
           t = Callback => sendBuffer = NoMsg,
           UNCHANGED <<bufVars, ops, arg, mutexVars, result, socket, fresh,
                       accepted, peerVars>>
    PROVE  IInv'
<1> USE ThreadAssumption DEF IInv
<1>1. TypeOK'
  BY DEF TypeOK
<1>2. MutexInv' /\ ArgInv'
  BY DEF TypeOK, MutexInv, ArgInv, Inside, Threads
<1>3. LeakInv'
  BY DEF TypeOK, LeakInv, LeakedMutex, Stuck, Inside, Threads, Senders
<1>4. Ending' = Ending /\ Moved' = Moved /\ Whole' = Whole /\ Pending' = Pending
  BY DEF TypeOK, Ending, Moved, Whole, Pending
<1>5. BufferInv' /\ PeerInv'
  BY <1>4 DEF TypeOK, BufferInv, PeerInv
<1>6. WakeInv'
  BY DEF TypeOK, WakeInv, BufferInv
<1>7. OrderInv'
  BY <1>4 DEF OrderInv, Link!Ended
<1> QED
  BY <1>1, <1>2, <1>3, <1>5, <1>6, <1>7

\* Send looks at sendBuffer.
LEMMA SendBeginInv ==
    ASSUME IInv, NEW t \in Senders, SendBegin(t)
    PROVE  IInv'
<1> USE ThreadAssumption DEF SendBegin
<1>0. t \in Threads /\ t # Callback
  BY DEF Threads
<1>1. CASE BeginNext(t, "threw")
  BY <1>0, <1>1, BeginNextInv
<1>2. CASE sendBuffer # NoMsg /\ Goto(t, "leave") /\ UNCHANGED <<bufVars, ops>>
  BY <1>0, <1>2, BeginSkipInv
<1> QED
  BY <1>1, <1>2

\* SendCallback sends the rest of the message.
LEMMA BeginRestInv ==
    ASSUME IInv, pc[Callback] = "begin", BeginRest(Callback, "leave"),
           UNCHANGED <<arg, mutexVars, result, socket, fresh, accepted, peerVars>>
    PROVE  IInv'
<1> USE ThreadAssumption DEF IInv, BeginRest
<1>0. /\ Callback \in Threads /\ Callback \notin Senders
      /\ owner = Callback /\ ops = <<>> /\ ~Stuck /\ sendBuffer \in Msgs
  BY DEF Threads, MutexInv, Inside, BufferInv, Stuck, TypeOK
<1>1. Goto(Callback, "leave") /\ UNCHANGED bufVars
  BY DEF BeginSend
<1>2. \/ ops' = <<[msg |-> sendBuffer, from |-> bytesSent]>>
      \/ socket = "dead" /\ ops' = <<>>
  BY <1>0 DEF BeginSend
<1>3. TypeOK'
  <2>1. [msg |-> sendBuffer, from |-> bytesSent] \in Ops
    BY <1>0 DEF Ops, TypeOK
  <2>2. /\ <<>> \in Seq(Ops)
        /\ <<[msg |-> sendBuffer, from |-> bytesSent]>> \in Seq(Ops)
    BY <2>1, EmptySeq
  <2>3. ops' \in Seq(Ops)
    BY <1>2, <2>2
  <2> QED
    BY <1>0, <1>1, <2>3 DEF TypeOK
<1>4. MutexInv' /\ ArgInv'
  BY <1>0, <1>1 DEF TypeOK, MutexInv, ArgInv, Inside, Threads
<1>5. LeakInv'
  BY <1>0, <1>1 DEF TypeOK, LeakInv, LeakedMutex, Inside, Threads, Senders
<1>6. /\ ~Ending /\ ~Ending'
      /\ Moved' = Moved /\ Whole' = Whole /\ Pending' = Pending
  BY <1>0, <1>1 DEF TypeOK, Ending, Moved, Whole, Pending
<1>7. BufferInv' /\ WakeInv' /\ PeerInv'
  <2>1. BufferInv'
    BY <1>0, <1>1, <1>2, <1>6 DEF TypeOK, BufferInv
  <2>2. WakeInv'
    <3>1. ops' # <<>> \/ socket = "dead"
      BY <1>2
    <3> QED
      BY <1>1, <3>1 DEF WakeInv
  <2>3. PeerInv'
    BY <1>1, <1>6 DEF PeerInv
  <2> QED
    BY <2>1, <2>2, <2>3
<1>8. OrderInv'
  BY <1>1, <1>6 DEF OrderInv, Link!Ended
<1> QED
  BY <1>3, <1>4, <1>5, <1>7, <1>8

\* SendCallback calls BeginSending.
LEMMA CallbackBeginInv ==
    ASSUME IInv, CallbackBegin
    PROVE  IInv'
<1> USE DEF CallbackBegin
<1>0. Callback \in Threads
  BY DEF Threads
<1>1. CASE BeginNext(Callback, "leave")
  BY <1>0, <1>1, BeginNextInv
<1>2. CASE BeginRest(Callback, "leave")
  BY <1>0, <1>2, BeginRestInv
<1>3. CASE /\ sendBuffer = NoMsg /\ outQueue = <<>>
           /\ Goto(Callback, "leave") /\ UNCHANGED <<bufVars, ops>>
  BY <1>0, <1>3, BeginSkipInv
<1> QED
  BY <1>1, <1>2, <1>3

\* SendCallback accounts for a part of a message.
LEMMA EndSendPartInv ==
    ASSUME IInv, EndSendPart
    PROVE  IInv'
<1> USE ThreadAssumption DEF IInv, EndSendPart
<1>0. /\ Callback \in Threads /\ Callback \notin Senders
      /\ Ending /\ ~Ending' /\ sendBuffer \in Msgs
  BY DEF Threads, Ending, BufferInv, TypeOK
<1>1. TypeOK'
  BY <1>0 DEF TypeOK
<1>2. MutexInv' /\ ArgInv'
  BY <1>0 DEF TypeOK, MutexInv, ArgInv, Inside, Threads
<1>3. LeakInv'
  BY <1>0 DEF TypeOK, LeakInv, LeakedMutex, Stuck, Inside, Senders, MutexInv
<1>4. /\ Moved = bytesSent + result /\ Moved' = Moved
      /\ ~Whole /\ ~Whole' /\ Pending' = Pending
  BY <1>0, MsgAssumption DEF TypeOK, Moved, Whole, Pending
<1>5. BufferInv'
  <2>1. ops = <<>> /\ Length[sendBuffer] \in Nat
    BY <1>0, MsgAssumption DEF BufferInv, Ending
  <2>2. bytesSent' < Length[sendBuffer]
    <3>1. bytesSent + result <= Length[sendBuffer]
      BY <1>0, <1>4, MsgAssumption DEF BufferInv
    <3>2. bytesSent' = bytesSent + result /\ bytesSent' \in Nat
      BY DEF TypeOK
    <3> QED
      BY <2>1, <3>1, <3>2
  <2> QED
    BY <1>0, <1>4, <2>1, <2>2 DEF BufferInv
<1>6. WakeInv' /\ PeerInv'
  BY <1>0, <1>4 DEF TypeOK, WakeInv, PeerInv
<1>7. OrderInv'
  BY <1>4 DEF OrderInv, Link!Ended
<1> QED
  BY <1>1, <1>2, <1>3, <1>5, <1>6, <1>7

\* SendCallback finds the message sent.
LEMMA EndSendAllInv ==
    ASSUME IInv, EndSendAll
    PROVE  IInv'
<1> USE ThreadAssumption DEF IInv, EndSendAll
<1>0. /\ Callback \in Threads /\ Callback \notin Senders
      /\ Ending /\ ~Ending' /\ sendBuffer \in Msgs /\ ops = <<>>
      /\ owner = Callback
  BY DEF Threads, Ending, BufferInv, TypeOK, MutexInv, Inside
<1>1. TypeOK'
  BY <1>0 DEF TypeOK
<1>2. MutexInv' /\ ArgInv'
  BY <1>0 DEF TypeOK, MutexInv, ArgInv, Inside, Threads
<1>3. LeakInv'
  <2>1. ~Stuck
    BY DEF Stuck
  <2>2. ~LeakedMutex'
    BY <1>0 DEF TypeOK, LeakedMutex, Inside
  <2>3. pc'[Reader] = pc[Reader]
    <3>1. Reader \in Threads /\ Reader # Callback
      BY DEF Threads, Senders
    <3> QED
      BY <3>1 DEF TypeOK
  <2> QED
    BY <2>1, <2>2, <2>3 DEF LeakInv
<1>4. Whole /\ Whole' /\ Pending' = Pending /\ Moved' = 0
  BY <1>0 DEF TypeOK, Moved, Whole, Pending
<1>5. BufferInv' /\ PeerInv'
  BY <1>0, <1>4 DEF TypeOK, BufferInv, PeerInv
<1>6. WakeInv'
  BY <1>0 DEF TypeOK, WakeInv
<1>7. OrderInv'
  BY <1>0, <1>4 DEF OrderInv, BufferInv, Link!Ended
<1> QED
  BY <1>1, <1>2, <1>3, <1>5, <1>6, <1>7

\* The socket fails an operation.
LEMMA OpFailsInv ==
    ASSUME IInv, OpFails
    PROVE  IInv'
<1> USE ThreadAssumption DEF IInv, OpFails
<1>0. /\ Callback \in Threads /\ Callback \notin Senders
      /\ ops' = <<>> /\ ~Ending /\ Ending' /\ sendBuffer \in Msgs
  BY DEF Threads, BufferInv, Ending, TypeOK
<1>1. TypeOK'
  BY <1>0, EmptySeq DEF TypeOK
<1>2. MutexInv' /\ ArgInv'
  BY <1>0 DEF TypeOK, MutexInv, ArgInv, Inside, Threads
<1>3. LeakInv'
  BY <1>0 DEF TypeOK, LeakInv, LeakedMutex, Stuck, Inside, Senders
<1>4. /\ Moved' = Moved /\ Whole' = Whole /\ Pending' = Pending
      /\ ~Whole
  BY <1>0, MsgAssumption DEF TypeOK, Moved, Whole, Pending, BufferInv
<1>5. BufferInv' /\ WakeInv' /\ PeerInv'
  BY <1>0, <1>4 DEF TypeOK, BufferInv, WakeInv, PeerInv
<1>6. OrderInv'
  BY <1>4 DEF OrderInv, Link!Ended
<1> QED
  BY <1>1, <1>2, <1>3, <1>5, <1>6

\* The socket moves bytes.
LEMMA OpMovesInv ==
    ASSUME IInv, NEW m \in Msgs, NEW k \in 1 .. Length[m], OpMoves(k)
    PROVE  IInv'
<1> USE ThreadAssumption DEF IInv, OpMoves
<1>0. /\ Callback \in Threads /\ Callback \notin Senders
      /\ sendBuffer \in Msgs /\ Length[sendBuffer] \in Nat \ {0}
      /\ ~Ending /\ Ending' /\ k \in Nat \ {0}
      /\ Head(ops) = [msg |-> sendBuffer, from |-> bytesSent]
      /\ ops' = <<>> /\ k <= Length[sendBuffer] - bytesSent
      /\ bytesSent \in Nat /\ bytesSent < Length[sendBuffer]
  <2>1. /\ Callback \in Threads /\ Callback \notin Senders
        /\ ~Ending /\ Ending'
    BY DEF Threads, Ending, TypeOK
  <2>2. /\ ops = <<[msg |-> sendBuffer, from |-> bytesSent]>>
        /\ sendBuffer \in Msgs /\ bytesSent < Length[sendBuffer]
    BY DEF BufferInv, TypeOK
  <2>3. Length[sendBuffer] \in Nat \ {0} /\ Length[m] \in Nat /\ bytesSent \in Nat
    BY <2>2, MsgAssumption DEF TypeOK
  <2> QED
    BY <2>1, <2>2, <2>3
<1>1. /\ Moved = bytesSent /\ ~Whole
      /\ Moved' = bytesSent + k /\ Pending = <<sendBuffer>>
  <2>1. Moved = bytesSent /\ Moved' = bytesSent + k
    BY <1>0 DEF Moved
  <2>2. ~Whole
    BY <1>0, <2>1, MsgAssumption DEF Whole
  <2> QED
    BY <2>1, <2>2 DEF Pending
<1>2. /\ UNCHANGED garbled /\ peerMsg' = sendBuffer
      /\ IF bytesSent + k = Length[sendBuffer]
         THEN peerBytes' = 0 /\ received' = Append(received, sendBuffer)
         ELSE peerBytes' = bytesSent + k /\ UNCHANGED received
  <2>1. /\ Head(ops).from = bytesSent /\ Head(ops).msg = sendBuffer
        /\ peerBytes = bytesSent /\ (bytesSent # 0 => peerMsg = sendBuffer)
    BY <1>0, <1>1 DEF PeerInv
  <2> QED
    BY <2>1 DEF PeerTakes
<1>3. TypeOK'
  <2>1. received' \in Seq(Msgs)
    <3>1. received \in Seq(Msgs) /\ sendBuffer \in Msgs
      BY <1>0 DEF TypeOK
    <3>2. Append(received, sendBuffer) \in Seq(Msgs)
      BY <3>1, AppendProperties
    <3> QED
      BY <1>2, <3>1, <3>2
  <2> QED
    BY <1>0, <1>2, <2>1, EmptySeq, SMTT(40) DEF TypeOK
<1>4. MutexInv' /\ ArgInv'
  BY <1>0 DEF TypeOK, MutexInv, ArgInv, Inside, Threads
<1>5. LeakInv'
  BY <1>0 DEF TypeOK, LeakInv, LeakedMutex, Stuck, Inside, Senders
<1>6. BufferInv' /\ WakeInv'
  BY <1>0, <1>1 DEF TypeOK, BufferInv, WakeInv
<1>7. PeerInv'
  BY <1>0, <1>1, <1>2 DEF PeerInv, Whole, TypeOK
<1>8. OrderInv'
  <2>1. CASE bytesSent + k = Length[sendBuffer]
    <3>1. Whole' /\ Pending' = <<>>
      BY <1>0, <1>1, <2>1 DEF Whole, Pending
    <3>2. /\ received' = received \o <<sendBuffer>>
          /\ received' \in Seq(Msgs) /\ received \in Seq(Msgs)
      <4>1. received \in Seq(Msgs) /\ received' = Append(received, sendBuffer)
        BY <1>2, <2>1 DEF TypeOK
      <4> QED
        BY <1>0, <4>1, AppendIsConcat, AppendProperties
    <3>3. received' \o <<>> = received'
      BY <3>2, ConcatEmptySeq
    <3>4. accepted' = (received' \o Pending') \o outQueue'
      BY <1>1, <3>1, <3>2, <3>3 DEF OrderInv
    <3>5. received' # <<>> /\ received'[Len(received')] = sendBuffer'
      BY <1>0, <1>2, <2>1, <3>2
    <3> QED
      BY <1>0, <3>1, <3>4, <3>5 DEF OrderInv
  <2>2. CASE bytesSent + k # Length[sendBuffer]
    <3>1. ~Whole' /\ Pending' = Pending
      BY <1>0, <1>1, <2>2 DEF Whole, Pending
    <3> QED
      BY <1>0, <1>1, <1>2, <2>2, <3>1 DEF OrderInv, Link!Ended
  <2> QED
    BY <2>1, <2>2
<1> QED
  BY <1>3, <1>4, <1>5, <1>6, <1>7, <1>8
-----------------------------------------------------------------------------
\* Nothing happens.
LEMMA StutterInv == IInv /\ UNCHANGED vars => IInv'
<1> SUFFICES ASSUME IInv, UNCHANGED vars PROVE IInv'
  OBVIOUS
<1> USE DEF vars
<1>1. TypeOK' /\ MutexInv' /\ ArgInv' /\ LeakInv'
  BY DEF IInv, TypeOK, MutexInv, ArgInv, LeakInv, LeakedMutex, Stuck, Inside
<1>2. BufferInv' /\ WakeInv' /\ PeerInv' /\ OrderInv'
  BY DEF IInv, BufferInv, WakeInv, PeerInv, OrderInv, Pending, Whole, Moved,
         Ending, Link!Ended
<1> QED
  BY <1>1, <1>2 DEF IInv

\* Every step preserves the invariant.
LEMMA NextInv == IInv /\ [Next]_vars => IInv'
<1> SUFFICES ASSUME IInv, [Next]_vars PROVE IInv'
  OBVIOUS
<1>0. Senders \subseteq Threads /\ Callback \in Threads
  BY DEF Threads
<1>1. ASSUME NEW t \in Senders, SenderStep(t) PROVE IInv'
  BY <1>0, <1>1, WaitOneInv, EnqueueInv, SendBeginInv, ReleaseMutexInv
     DEF SenderStep
<1>2. ASSUME NEW t \in Senders, NEW m \in Msgs, CallSend(t, m) PROVE IInv'
  BY <1>2, CallSendInv
<1>3. CASE Catch
  BY <1>3, CatchInv
<1>4. CASE CallbackStep
  BY <1>0, <1>4, WaitOneInv, ReleaseMutexInv, EndSendThrowsInv, EndSendPartInv,
     EndSendAllInv, CallbackBeginInv DEF CallbackStep
<1>5. CASE SocketStep
  BY <1>5, OpFailsInv, OpMovesInv DEF SocketStep
<1>6. CASE SocketDies
  BY <1>6, SocketDiesInv
<1>7. CASE UNCHANGED vars
  BY <1>7, StutterInv
<1> QED
  BY <1>1, <1>2, <1>3, <1>4, <1>5, <1>6, <1>7 DEF Next

\* The inductive invariant holds of every behaviour.
THEOREM Invariant == Spec => []IInv
<1> QED
  BY InitInv, NextInv, PTL DEF Spec

\* Every variable of the send side keeps its type; in particular what Send
\* queues is always a message and the mutex is never released too often
\* (BuildClient.cs:57-66, 188-239).
THEOREM TypeCorrect == Spec => []TypeOK
<1>1. IInv => TypeOK
  BY DEF IInv
<1> QED
  BY Invariant, <1>1, PTL

\* Send and SendCallback exclude each other for any number of threads.
THEOREM Exclusion == Spec => []MutualExclusion
<1>1. IInv => MutualExclusion
  BY DEF IInv, MutexInv, MutualExclusion
<1> QED
  BY Invariant, <1>1, PTL

\* The socket never has two sends of a client, and the remote end never gets
\* bytes of one message inside another.
THEOREM NeverTwoSends == Spec => []OneSendAtATime
<1>1. ASSUME IInv PROVE OneSendAtATime
  <2>1. CASE ops = <<>>
    BY <1>1, <2>1 DEF IInv, PeerInv, OneSendAtATime
  <2>2. CASE ops = <<[msg |-> sendBuffer, from |-> bytesSent]>>
    <3>1. Len(ops) = 1 /\ Head(ops) = [msg |-> sendBuffer, from |-> bytesSent]
      BY <2>2
    <3> QED
      BY <1>1, <3>1 DEF IInv, PeerInv, OneSendAtATime
  <2> QED
    BY <1>1, <2>1, <2>2 DEF IInv, BufferInv
<1> QED
  BY Invariant, <1>1, PTL

\* While the connection is up a queued message has somebody to send it.
THEOREM NobodyForgotten == Spec => []NoStrandedMessage
<1>1. IInv => NoStrandedMessage
  BY DEF IInv, WakeInv, NoStrandedMessage
<1> QED
  BY Invariant, <1>1, PTL

\* Send leaks the mutex only when the connection is gone and idle.
THEOREM LeaksAreHarmless == Spec => []LeakMeansDead
<1>1. IInv => LeakMeansDead
  BY DEF IInv, LeakInv, Stuck, LeakMeansDead
<1> QED
  BY Invariant, <1>1, PTL

\* Reporting an exception to the remote end does not raise another one.
THEOREM CatchIsSafe == Spec => []CatchNeverThrows
<1>1. IInv => CatchNeverThrows
  BY DEF IInv, LeakInv, CatchNeverThrows
<1> QED
  BY Invariant, <1>1, PTL

-----------------------------------------------------------------------------
\* The first message after those received is the one being sent.
LEMMA NextToReceive ==
    ASSUME IInv, ~Whole
    PROVE  /\ Len(received) < Len(accepted)
           /\ accepted[Len(received) + 1] = sendBuffer
<1> DEFINE r == received \o <<sendBuffer>>
<1>1. /\ received \in Seq(Msgs) /\ outQueue \in Seq(Msgs)
      /\ sendBuffer \in Msgs /\ <<sendBuffer>> \in Seq(Msgs)
      /\ Len(<<sendBuffer>>) = 1 /\ <<sendBuffer>>[1] = sendBuffer
  BY DEF IInv, TypeOK, Whole
<1>2. /\ r \in Seq(Msgs) /\ Len(r) = Len(received) + 1
      /\ r[Len(received) + 1] = sendBuffer /\ Len(received) \in Nat
  BY <1>1, ConcatProperties
<1>3. accepted = r \o outQueue
  BY DEF IInv, OrderInv, Pending
<1> HIDE DEF r
<1>4. /\ Len(accepted) = Len(r) + Len(outQueue) /\ Len(outQueue) \in Nat
      /\ accepted[Len(r)] = r[Len(r)]
  <2>1. Len(outQueue) \in Nat /\ Len(r) \in 1 .. Len(r) + Len(outQueue)
    BY <1>1, <1>2
  <2>2. /\ Len(r \o outQueue) = Len(r) + Len(outQueue)
        /\ (r \o outQueue)[Len(r)] = r[Len(r)]
    <3>1. r \in Seq(Msgs) /\ outQueue \in Seq(Msgs)
      BY <1>1, <1>2
    <3>2. Len(r \o outQueue) = Len(r) + Len(outQueue)
      BY <3>1, ConcatProperties
    <3>3. \A i \in 1 .. Len(r) + Len(outQueue) : (r \o outQueue)[i] =
                IF i <= Len(r) THEN r[i] ELSE outQueue[i - Len(r)]
      BY <3>1, ConcatProperties
    <3> QED
      BY <1>2, <2>1, <3>2, <3>3
  <2> QED
    BY <1>3, <2>1, <2>2
<1> QED
  BY <1>2, <1>4

\* Every step of the send side is a step of the link, or none it can see.
LEMMA StepRefinement == IInv /\ [Next]_vars => [Link!Next]_(Link!vars)
<1> SUFFICES ASSUME IInv, [Next]_vars PROVE [Link!Next]_(Link!vars)
  OBVIOUS
<1> USE DEF Link!vars
<1>1. ASSUME NEW t \in Senders, Enqueue(t) PROVE Link!Next
  <2>1. arg[t] \in Msgs
    BY <1>1 DEF IInv, ArgInv, Enqueue
  <2>2. Link!Accept(arg[t])
    BY <1>1 DEF Enqueue, Link!Accept
  <2> QED
    BY <2>1, <2>2 DEF Link!Next
<1>2. ASSUME NEW m \in Msgs, NEW k \in 1 .. Length[m], OpMoves(k)
      PROVE  Link!Next \/ UNCHANGED Link!vars
  <2>1. /\ ops = <<[msg |-> sendBuffer, from |-> bytesSent]>>
        /\ ~Ending /\ ~Whole /\ socket = "open"
    <3>1. /\ ops = <<[msg |-> sendBuffer, from |-> bytesSent]>> /\ ~Ending
          /\ sendBuffer # NoMsg /\ bytesSent < Length[sendBuffer]
          /\ sendBuffer \in Msgs /\ bytesSent \in Nat /\ socket = "open"
      BY <1>2 DEF IInv, BufferInv, TypeOK, OpMoves, Ending
    <3>2. Length[sendBuffer] \in Nat
      BY <3>1, MsgAssumption
    <3> QED
      BY <3>1, <3>2 DEF Whole, Moved
  <2>2. UNCHANGED received \/ received' = Append(received, sendBuffer)
    BY <1>2, <2>1 DEF OpMoves, PeerTakes
  <2>3. CASE UNCHANGED received
    BY <1>2, <2>3 DEF OpMoves
  <2>4. CASE received' = Append(received, sendBuffer)
    <3>1. ~Link!Ended
      BY <2>1 DEF IInv, OrderInv
    <3>2. Link!Deliver
      BY <1>2, <2>1, <2>4, <3>1, NextToReceive DEF OpMoves, Link!Deliver
    <3> QED
      BY <3>2 DEF Link!Next
  <2> QED
    BY <2>2, <2>3, <2>4
<1>3. CASE SocketDies \/ EndSendAll
  BY <1>3 DEF SocketDies, EndSendAll, Link!Next, Link!Break, IInv, TypeOK
<1>4. ASSUME NEW t \in Threads, WaitOne(t) \/ ReleaseMutex(t)
      PROVE  UNCHANGED Link!vars
  BY <1>4 DEF WaitOne, ReleaseMutex
<1>5. ASSUME NEW t \in Senders, SendBegin(t) \/ \E m \in Msgs : CallSend(t, m)
      PROVE  UNCHANGED Link!vars
  BY <1>5 DEF SendBegin, CallSend
<1>6. CASE Catch \/ OpFails \/ EndSendThrows \/ EndSendPart \/ CallbackBegin
  BY <1>6 DEF Catch, OpFails, EndSendThrows, EndSendPart, CallbackBegin
<1>7. CASE UNCHANGED vars
  BY <1>7 DEF vars
<1>8. Senders \subseteq Threads /\ Callback \in Threads
  BY DEF Threads
<1> QED
  BY <1>1, <1>2, <1>3, <1>4, <1>5, <1>6, <1>7, <1>8
     DEF Next, SenderStep, CallbackStep, SocketStep

\* The send side is a link: messages arrive whole and in the order in which
\* Send accepted them, and none after one with CloseAfterSending.
THEOREM Refinement == Spec => Link!Spec
<1>1. Init => Link!Init
  BY DEF Init, Link!Init
<1> QED
  BY Invariant, <1>1, StepRefinement, PTL DEF Spec, Link!Spec
=============================================================================
