------------------------- MODULE RemoteBuildProofs -------------------------
(***************************************************************************)
(* Proofs about RemoteBuild, for any number of connections, runs and files *)
(* and a user who waits for the end of a build (~Overlap): its type        *)
(* invariant and the safety invariants that the run checks.                *)
(*                                                                         *)
(* The argument is that a build has one turn: a request that the server    *)
(* has not handled, a reply that the client has not handled, or a process  *)
(* that runs.  Each turn makes at most one other, on the same connection;  *)
(* the user makes one only when there is none; and of connections that are *)
(* not the current one nothing reaches the client any more.  What the two  *)
(* ends know about the build is then a function of whose turn it is.       *)
(***************************************************************************)
EXTENDS RemoteBuild, SequenceTheorems, FiniteSetTheorems, TLAPS

\* The error for a process that was started: it comes after BuildComplete.
Late(m) == m.type = "Error" /\ m.of = "ExecuteBuild" /\ m.proc # 0

\* A message that ends the server's turn.
Counts(m) == m.type \notin {"BuildOutput", "CLOSED"} /\ ~Late(m)

TurnReplies(c)   == {i \in 1 .. Len(toClient[c]) : Counts(toClient[c][i])}
TurnCallbacks(c) == {i \in 1 .. Len(callbacks) :
                        callbacks[i].conn = c /\ Counts(callbacks[i].msg)}
TurnProcs(c)     == {p \in 1 .. Len(procs) : procs[p].conn = c /\ ~procs[p].done}

Held(c) == TurnReplies(c) # {} \/ TurnCallbacks(c) # {}

\* The message of that turn.
Holds(c, m) ==
    \/ \E i \in TurnReplies(c) : toClient[c][i] = m
    \/ \E i \in TurnCallbacks(c) : callbacks[i].msg = m

Asks(c, r) == toServer[c] = <<r>>

Lone(S) == \A x, y \in S : x = y

Turns ==
    \A c \in Conns :
        /\ toServer[c] # <<>> => \E r \in Requests : Asks(c, r)
        /\ Lone(TurnReplies(c)) /\ Lone(TurnCallbacks(c)) /\ Lone(TurnProcs(c))
        /\ TurnReplies(c) = {} \/ TurnCallbacks(c) = {}
        /\ toServer[c] # <<>> => ~Held(c) /\ TurnProcs(c) = {}
        /\ Held(c) => TurnProcs(c) = {}
        /\ ~busy /\ connection = c =>
               toServer[c] = <<>> /\ ~Held(c) /\ TurnProcs(c) = {}

\* Nothing has been heard of the connection yet.
Untried(c) == link[c] \in {"none", "connecting"} \/ (link[c] = "down" /\ ~connected[c])

IsClosed(b, c) == b.conn = c /\ b.msg.type = "CLOSED"

Links ==
    \A c \in Conns :
        /\ connected[c] => link[c] \in {"open", "ending", "down"}
        /\ link[c] \in {"open", "ending"} => connected[c]
        /\ ~connected[c] => TurnReplies(c) = {}
        /\ Untried(c) => /\ TurnCallbacks(c) = {} /\ ~hasIntroduced[c]
                         /\ connection = c => busy
        /\ Untried(c) /\ link[c] # "connecting" => toServer[c] = <<>>
        /\ connection # c => link[c] \in {"none", "closed"} /\ TurnCallbacks(c) = {}
        /\ \A i \in 1 .. Len(callbacks) : IsClosed(callbacks[i], c) =>
               link[c] = "closed" /\ \A j \in TurnCallbacks(c) : j < i

IsReady(m) == IsAck(m) /\ m.of \in {"SetBuild", "FileContent"}

Talk ==
    /\ violations = {} /\ exception # "no connection"
    /\ \A c \in Conns :
        /\ connection = c => runNo > 0 /\ (~busy => hasIntroduced[c])
        /\ \A r \in Requests : Asks(c, r) =>
               /\ r.type = "Introduction" <=> ~hasIntroduced[c]
               /\ r.type \in {"FileContent", "ExecuteBuild"} => folders[c] = "set"
               /\ r.type = "FileContent" => r.file \in Files
        /\ Held(c) => hasIntroduced[c]
        /\ \A m \in Replies : Holds(c, m) /\ IsReady(m) => folders[c] = "set"
        /\ \A p \in 1 .. Len(procs) : procs[p].conn = c => hasIntroduced[c]

\* The build of run n is to be executed, or has been.
Executes(c, n) ==
    \E r \in Requests : Asks(c, r) /\ r.type = "ExecuteBuild" /\ r.run = n

Executed(n) == \E p \in 1 .. Len(procs) : procs[p].run = n

Prepares(c) ==
    \/ \E m \in Replies : Holds(c, m) /\ IsAck(m)
    \/ \E r \in Requests : Asks(c, r) /\ r.type # "ExecuteBuild"

Runs ==
    /\ ExecuteOnce
    /\ \A p \in 1 .. Len(procs) : procs[p].run <= runNo
    /\ \A c \in Conns :
        /\ \A r \in Requests : Asks(c, r) =>
               r.run <= runNo /\ (connection = c => r.run = runNo)
        /\ \A n \in 1 .. MaxRuns : Executes(c, n) =>
               ~Executed(n) /\ \A d \in Conns \ {c} : ~Executes(d, n)
        /\ connection = c /\ Prepares(c) =>
               ~Executed(runNo) /\ \A d \in Conns : ~Executes(d, runNo)

\* Of the files in S those that c wrote last are of run n.
Own(c, S, n) == \A f \in S : disk[f].conn = c => disk[f].run = n

Copies ==
    /\ BuildSeesItsFiles
    /\ \A c \in Conns :
        /\ \A r \in Requests : Asks(c, r) /\ r.type = "ExecuteBuild" =>
               received[c] = Files /\ Own(c, Files, r.run)
        /\ connection = c =>
            /\ \A r \in Requests : Asks(c, r) /\ r.type = "SetBuild" => projFiles = Files
            /\ \A r \in Requests : Asks(c, r) /\ r.type = "FileContent" =>
                   /\ projFiles \cup received[c] \cup {r.file} = Files
                   /\ Own(c, received[c], runNo)
            /\ \A m \in Replies : Holds(c, m) /\ IsReady(m) =>
                   /\ projFiles \cup received[c] = Files
                   /\ Own(c, received[c], runNo)

IInv == ~Overlap /\ Attentive /\ TypeOK /\ Turns /\ Links /\ Talk /\ Runs /\ Copies

\* A late error has no turn.  It must not be handled while the user waits for
\* the end of a build that was said to be started: another end comes first.
Waiting == busy /\ announced

Ends(m) == Counts(m) /\ ~IsAck(m)

EndQueued   == \E i \in 1 .. Len(callbacks) : Ends(callbacks[i].msg)
AckQueued   == \E i \in 1 .. Len(callbacks) : IsAck(callbacks[i].msg)
EndComes(c) == EndQueued \/ \E i \in 1 .. Len(toClient[c]) : Ends(toClient[c][i])
AckComes(c) == AckQueued \/ \E i \in 1 .. Len(toClient[c]) : IsAck(toClient[c][i])

LateCallbacks ==
    \A i \in 1 .. Len(callbacks) : Late(callbacks[i].msg) =>
        /\ Waiting => \E j \in 1 .. i - 1 : Ends(callbacks[j].msg)
        /\ \A j \in 1 .. i - 1 : ~IsAck(callbacks[j].msg)

LateReplies(c) ==
    \A i \in 1 .. Len(toClient[c]) : Late(toClient[c][i]) =>
        /\ Waiting => EndQueued \/ \E j \in 1 .. i - 1 : Ends(toClient[c][j])
        /\ ~AckQueued /\ \A j \in 1 .. i - 1 : ~IsAck(toClient[c][j])

\* Late errors that are not sent yet.
Unread(c) == {p \in 1 .. Len(procs) :
                 procs[p].conn = c /\ procs[p].done /\ ~procs[p].left}

LateErrors(c) ==
    /\ Executing(c) => ~AckComes(c)
    /\ Unread(c) # {} /\ link[c] = "open" /\ Waiting => EndComes(c)

Lates == LateCallbacks /\ \A c \in Conns : connection = c => LateReplies(c) /\ LateErrors(c)

Inv == IInv /\ Lates
-----------------------------------------------------------------------------
USE DEF linkVars, clientVars, serverVars

(***************************************************************************)
(* The way to the client: how the turns on it change.                      *)
(***************************************************************************)
\* At most one turn is on its way to the client.
Path(c) ==
    /\ Lone(TurnReplies(c)) /\ Lone(TurnCallbacks(c))
    /\ TurnReplies(c) = {} \/ TurnCallbacks(c) = {}

\* A reply.
LEMMA ReplyPath ==
    ASSUME LinkTypeOK, NEW c \in Conns, NEW m \in Replies, Path(c),
           Counts(m) => ~Held(c),
           toClient' = IF link[c] = "open"
                       THEN [toClient EXCEPT ![c] = Append(@, m)] ELSE toClient,
           callbacks' = callbacks
    PROVE  /\ Path(c)'
           /\ \A d \in Conns : TurnCallbacks(d)' = TurnCallbacks(d)
           /\ \A d \in Conns \ {c} : /\ TurnReplies(d)' = TurnReplies(d)
                                     /\ \A x \in Replies : Holds(d, x)' = Holds(d, x)
           /\ \A x \in Replies : Holds(c, x)' =>
                  Holds(c, x) \/ (x = m /\ Counts(m) /\ link[c] = "open")
           /\ TurnReplies(c)' # {} =>
                  TurnReplies(c) # {} \/ (Counts(m) /\ link[c] = "open")
<1>1. \A d \in Conns : TurnCallbacks(d)' = TurnCallbacks(d)
  BY DEF TurnCallbacks
<1>2. \A d \in Conns \ {c} : toClient'[d] = toClient[d]
  BY DEF LinkTypeOK
<1>3. \A d \in Conns \ {c} : /\ TurnReplies(d)' = TurnReplies(d)
                             /\ \A x \in Replies : Holds(d, x)' = Holds(d, x)
  BY <1>1, <1>2 DEF TurnReplies, Holds
<1>4. CASE link[c] # "open"
  BY <1>1, <1>3, <1>4 DEF TurnReplies, Holds, Path
<1>5. CASE link[c] = "open"
  <2>0. toClient[c] \in Seq(Replies)
    BY DEF LinkTypeOK
  <2>1. toClient'[c] = Append(toClient[c], m)
    BY <1>5 DEF LinkTypeOK
  <2>2. /\ Len(toClient[c]) \in Nat
        /\ Len(toClient'[c]) = Len(toClient[c]) + 1
        /\ \A i \in 1 .. Len(toClient[c]) : toClient'[c][i] = toClient[c][i]
        /\ toClient'[c][Len(toClient[c]) + 1] = m
    BY <2>0, <2>1, AppendProperties, LenProperties
  <2>3. \A i : i \in TurnReplies(c)' <=>
            i \in TurnReplies(c) \/ (i = Len(toClient[c]) + 1 /\ Counts(m))
    BY <2>2 DEF TurnReplies
  <2>4. \A i \in TurnReplies(c) : toClient'[c][i] = toClient[c][i]
    BY <2>2 DEF TurnReplies
  <2>5. Path(c)'
    BY <1>1, <2>3 DEF Path, Held, Lone
  <2>6. \A x \in Replies : Holds(c, x)' => Holds(c, x) \/ (x = m /\ Counts(m))
    <3> SUFFICES ASSUME NEW x \in Replies, Holds(c, x)'
                 PROVE  Holds(c, x) \/ (x = m /\ Counts(m))
      OBVIOUS
    <3>1. CASE \E i \in TurnCallbacks(c)' : callbacks'[i].msg = x
      BY <1>1, <3>1 DEF Holds
    <3>2. CASE \E i \in TurnReplies(c)' : toClient'[c][i] = x
      <4>1. PICK i \in TurnReplies(c)' : toClient'[c][i] = x
        BY <3>2
      <4>2. CASE i \in TurnReplies(c)
        BY <2>4, <4>1, <4>2 DEF Holds
      <4>3. CASE i = Len(toClient[c]) + 1 /\ Counts(m)
        BY <2>2, <4>1, <4>3
      <4> QED
        BY <2>3, <4>1, <4>2, <4>3
    <3> QED
      BY <3>1, <3>2 DEF Holds
  <2> QED
    BY <1>1, <1>3, <1>5, <2>3, <2>5, <2>6
<1> QED
  BY <1>4, <1>5

\* A callback is handled.
LEMMA TakePath ==
    ASSUME LinkTypeOK, \A c \in Conns : Path(c),
           callbacks # <<>>, callbacks' = Tail(callbacks), UNCHANGED toClient
    PROVE  LET b == Head(callbacks)
           IN  /\ b.conn \in Conns /\ b.msg \in Replies \cup {Closed} /\ b = callbacks[1]
               /\ \A c \in Conns :
                   /\ Path(c)' /\ TurnReplies(c)' = TurnReplies(c)
                   /\ \A i \in TurnCallbacks(c)' : i + 1 \in TurnCallbacks(c) /\ i \in Nat
                   /\ Held(c)' => Held(c)
                   /\ \A m \in Replies : Holds(c, m)' => Holds(c, m)
                   /\ b.conn = c /\ Counts(b.msg) =>
                          ~Held(c)' /\ Held(c) /\ Holds(c, b.msg)
<1> DEFINE b == Head(callbacks)
<1>0. callbacks \in Seq([conn : Conns, msg : Replies \cup {Closed}])
  BY DEF LinkTypeOK
<1>1. b = callbacks[1] /\ b \in [conn : Conns, msg : Replies \cup {Closed}]
  <2>1. Head(callbacks) \in [conn : Conns, msg : Replies \cup {Closed}]
    BY <1>0, HeadTailProperties
  <2>2. Head(callbacks) = callbacks[1]
    BY <1>0
  <2> QED
    BY <2>1, <2>2
<1>2. /\ Len(callbacks) \in Nat /\ Len(callbacks) >= 1
      /\ Len(callbacks') = Len(callbacks) - 1
      /\ \A i \in 1 .. Len(callbacks) - 1 : callbacks'[i] = callbacks[i + 1]
  BY <1>0, HeadTailProperties, LenProperties, EmptySeq
<1>3. \A c \in Conns : TurnReplies(c)' = TurnReplies(c)
  BY DEF TurnReplies
<1>4. \A c \in Conns : \A i \in TurnCallbacks(c)' :
          /\ i + 1 \in TurnCallbacks(c) /\ i \in Nat /\ i >= 1
          /\ callbacks'[i] = callbacks[i + 1]
  BY <1>2 DEF TurnCallbacks
<1>5. \A c \in Conns : Path(c)'
  BY <1>3, <1>4 DEF Path, Lone
<1>6. \A c \in Conns : Held(c)' => Held(c)
  BY <1>3, <1>4 DEF Held
<1>7. \A c \in Conns : \A m \in Replies : Holds(c, m)' => Holds(c, m)
  BY <1>3, <1>4 DEF Holds
<1>8. Counts(b.msg) => 1 \in TurnCallbacks(b.conn)
  BY <1>1, <1>2 DEF TurnCallbacks
<1>9. ASSUME NEW c \in Conns, b.conn = c, Counts(b.msg)
      PROVE  ~Held(c)' /\ Held(c) /\ Holds(c, b.msg)
  <2>1. 1 \in TurnCallbacks(c)
    BY <1>8, <1>9
  <2>2. TurnReplies(c) = {}
    BY <2>1 DEF Path
  <2>3. \A i \in TurnCallbacks(c)' : i + 1 = 1 /\ i \in Nat /\ i >= 1
    BY <1>4, <2>1 DEF Path, Lone
  <2>4. TurnCallbacks(c)' = {}
    BY <2>3
  <2>5. ~Held(c)'
    BY <1>3, <2>2, <2>4 DEF Held
  <2>6. Held(c) /\ Holds(c, b.msg)
    BY <1>1, <2>1 DEF Held, Holds
  <2> QED
    BY <2>5, <2>6
<1> QED
  BY <1>1, <1>3, <1>4, <1>5, <1>6, <1>7, <1>9

\* The client receives a reply.
LEMMA ReceivePath ==
    ASSUME LinkTypeOK, \A c \in Conns : Path(c), NEW c \in Conns, NetReceive(c)
    PROVE  /\ \A d \in Conns : /\ Path(d)'
                               /\ TurnReplies(d)' # {} => TurnReplies(d) # {}
                               /\ Held(d)' => Held(d)
                               /\ \A m \in Replies : Holds(d, m)' => Holds(d, m)
           /\ \A d \in Conns \ {c} : TurnCallbacks(d)' = TurnCallbacks(d)
           /\ Len(callbacks) \in Nat /\ Len(callbacks') = Len(callbacks) + 1
           /\ \A i \in 1 .. Len(callbacks) : callbacks'[i] = callbacks[i]
           /\ callbacks'[Len(callbacks) + 1].msg \in Replies
<1> DEFINE m0 == Head(toClient[c])
           b  == [conn |-> c, msg |-> m0]
<1>0. /\ callbacks \in Seq([conn : Conns, msg : Replies \cup {Closed}])
      /\ toClient[c] \in Seq(Replies) /\ toClient[c] # <<>>
  BY DEF LinkTypeOK, NetReceive
<1>1. m0 = toClient[c][1] /\ m0 \in Replies
  BY <1>0
<1>2. /\ Len(toClient[c]) \in Nat /\ Len(toClient[c]) >= 1
      /\ Len(toClient'[c]) = Len(toClient[c]) - 1
      /\ \A i \in 1 .. Len(toClient[c]) - 1 : toClient'[c][i] = toClient[c][i + 1]
  <2>1. toClient'[c] = Tail(toClient[c])
    BY DEF NetReceive, LinkTypeOK
  <2> QED
    BY <1>0, <2>1, HeadTailProperties, LenProperties, EmptySeq
<1>3. /\ Len(callbacks) \in Nat /\ Len(callbacks') = Len(callbacks) + 1
      /\ \A i \in 1 .. Len(callbacks) : callbacks'[i] = callbacks[i]
      /\ callbacks'[Len(callbacks) + 1] = b
  <2>1. callbacks' = Append(callbacks, b)
    BY DEF NetReceive
  <2>2. b \in [conn : Conns, msg : Replies \cup {Closed}]
    BY <1>1
  <2> HIDE DEF b
  <2> QED
    BY <1>0, <2>1, <2>2, AppendProperties, LenProperties
<1>4. \A d \in Conns \ {c} : /\ toClient'[d] = toClient[d]
                             /\ TurnReplies(d)' = TurnReplies(d)
  BY DEF NetReceive, LinkTypeOK, TurnReplies
<1>5. \A d \in Conns : \A i : i \in TurnCallbacks(d)' <=>
          \/ i \in TurnCallbacks(d)
          \/ i = Len(callbacks) + 1 /\ d = c /\ Counts(m0)
  BY <1>3 DEF TurnCallbacks
<1>6. \A i \in TurnReplies(c)' :
          /\ i + 1 \in TurnReplies(c) /\ i \in Nat /\ i >= 1
          /\ toClient'[c][i] = toClient[c][i + 1]
  BY <1>2 DEF TurnReplies
<1>7. Counts(m0) => 1 \in TurnReplies(c)
  BY <1>1, <1>2 DEF TurnReplies
<1>8. Counts(m0) => TurnReplies(c)' = {} /\ TurnCallbacks(c) = {}
  BY <1>6, <1>7 DEF Path, Lone
<1>9. \A d \in Conns \ {c} : TurnCallbacks(d)' = TurnCallbacks(d)
  BY <1>5
<1>10. ~Counts(m0) => TurnCallbacks(c)' = TurnCallbacks(c)
  BY <1>5
<1>11. \A d \in Conns \ {c} : \A m \in Replies : Holds(d, m)' => Holds(d, m)
  BY <1>3, <1>4, <1>9 DEF Holds, TurnCallbacks
<1>12. Path(c)' /\ \A m \in Replies : Holds(c, m)' => Holds(c, m)
  <2>1. CASE Counts(m0)
    <3>1. TurnReplies(c)' = {} /\ \A i \in TurnCallbacks(c)' : i = Len(callbacks) + 1
      BY <1>5, <1>8, <2>1
    <3>2. \A m \in Replies : Holds(c, m)' => Holds(c, m)
      BY <1>1, <1>3, <1>7, <2>1, <3>1 DEF Holds
    <3> QED
      BY <3>1, <3>2 DEF Path, Lone
  <2>2. CASE ~Counts(m0)
    <3>1. Path(c)'
      BY <1>6, <1>10, <2>2 DEF Path, Lone
    <3>2. \A i \in TurnCallbacks(c)' : i \in TurnCallbacks(c) /\ callbacks'[i] = callbacks[i]
      BY <1>3, <1>10, <2>2 DEF TurnCallbacks
    <3>3. \A m \in Replies : Holds(c, m)' => Holds(c, m)
      BY <1>6, <3>2 DEF Holds
    <3> QED
      BY <3>1, <3>3
  <2> QED
    BY <2>1, <2>2
<1>13. Held(c)' => Held(c)
  BY <1>5, <1>6, <1>7 DEF Held
<1>14. \A d \in Conns \ {c} : Path(d)' /\ (Held(d)' => Held(d))
  BY <1>4, <1>9 DEF Path, Held
<1>15. \A d \in Conns : TurnReplies(d)' # {} => TurnReplies(d) # {}
  BY <1>4, <1>6
<1> QED
  BY <1>1, <1>3, <1>9, <1>11, <1>12, <1>13, <1>14, <1>15

\* The client notices the end of a connection.
LEMMA ClosedPath ==
    ASSUME LinkTypeOK, \A c \in Conns : Path(c), NEW c \in Conns, NetClosed(c)
    PROVE  /\ \A d \in Conns : /\ Path(d)' /\ TurnReplies(d)' = TurnReplies(d)
                               /\ TurnCallbacks(d)' = TurnCallbacks(d)
                               /\ \A m \in Replies : Holds(d, m)' = Holds(d, m)
           /\ Len(callbacks) \in Nat /\ Len(callbacks') = Len(callbacks) + 1
           /\ \A i \in 1 .. Len(callbacks) : callbacks'[i] = callbacks[i]
           /\ callbacks'[Len(callbacks) + 1] = [conn |-> c, msg |-> Closed]
<1> DEFINE b  == [conn |-> c, msg |-> Closed]
<1>0. callbacks \in Seq([conn : Conns, msg : Replies \cup {Closed}])
  BY DEF LinkTypeOK
<1>1. /\ Len(callbacks) \in Nat /\ Len(callbacks') = Len(callbacks) + 1
      /\ \A i \in 1 .. Len(callbacks) : callbacks'[i] = callbacks[i]
      /\ callbacks'[Len(callbacks) + 1] = b
  <2>1. callbacks' = Append(callbacks, b)
    BY DEF NetClosed
  <2>2. b \in [conn : Conns, msg : Replies \cup {Closed}]
    OBVIOUS
  <2> HIDE DEF b
  <2> QED
    BY <1>0, <2>1, <2>2, AppendProperties, LenProperties
<1>2. ~Counts(b.msg)
  BY DEF Counts, Closed
<1>3. \A d \in Conns : TurnReplies(d)' = TurnReplies(d)
  BY DEF NetClosed, TurnReplies
<1>4. \A d \in Conns : TurnCallbacks(d)' = TurnCallbacks(d)
  <2> SUFFICES ASSUME NEW d \in Conns, NEW i
               PROVE  i \in TurnCallbacks(d)' <=> i \in TurnCallbacks(d)
    OBVIOUS
  <2> QED
    BY <1>1, <1>2 DEF TurnCallbacks
<1>5. \A d \in Conns : \A m \in Replies : Holds(d, m)' = Holds(d, m)
  <2>1. \A d \in Conns : \A i \in TurnCallbacks(d) : callbacks'[i] = callbacks[i]
    BY <1>1 DEF TurnCallbacks
  <2>2. toClient' = toClient
    BY DEF NetClosed
  <2> QED
    BY <1>3, <1>4, <2>1, <2>2 DEF Holds
<1> QED
  BY <1>1, <1>3, <1>4, <1>5 DEF Path

\* The connection breaks.
LEMMA BreakPath ==
    ASSUME LinkTypeOK, \A c \in Conns : Path(c), NEW c \in Conns, Break(c)
    PROVE  /\ \A d \in Conns : /\ Path(d)' /\ TurnCallbacks(d)' = TurnCallbacks(d)
                               /\ TurnReplies(d)' # {} => TurnReplies(d) # {}
                               /\ Held(d)' => Held(d)
                               /\ \A m \in Replies : Holds(d, m)' => Holds(d, m)
           /\ toServer'[c] \in Seq(Requests) /\ toClient'[c] \in Seq(Replies)
           /\ Len(toServer[c]) <= 1 => toServer'[c] \in {toServer[c], <<>>}
<1>1. PICK n \in 0 .. Len(toClient[c]) : toClient'[c] = SubSeq(toClient[c], 1, n)
  BY DEF Break, Prefixes, LinkTypeOK
<1>2. PICK k \in 0 .. Len(toServer[c]) : toServer'[c] = SubSeq(toServer[c], 1, k)
  BY DEF Break, Prefixes, LinkTypeOK
<1>3. toClient[c] \in Seq(Replies) /\ toServer[c] \in Seq(Requests)
  BY DEF LinkTypeOK
<1>4. /\ Len(toClient[c]) \in Nat /\ Len(toClient'[c]) = n
      /\ \A i \in 1 .. n : toClient'[c][i] = toClient[c][i]
      /\ toClient'[c] \in Seq(Replies)
  BY <1>1, <1>3
<1>5. toServer'[c] \in Seq(Requests) /\ Len(toServer[c]) \in Nat
  BY <1>2, <1>3
<1>6. \A d \in Conns : /\ TurnCallbacks(d)' = TurnCallbacks(d) /\ callbacks' = callbacks
                       /\ d # c => toClient'[d] = toClient[d]
  BY DEF Break, TurnCallbacks, LinkTypeOK
<1>7. \A i \in TurnReplies(c)' : i \in TurnReplies(c) /\ toClient'[c][i] = toClient[c][i]
  BY <1>4 DEF TurnReplies
<1>8. \A d \in Conns \ {c} : TurnReplies(d)' = TurnReplies(d)
  BY <1>6 DEF TurnReplies
<1>9. \A d \in Conns : Path(d)' /\ (TurnReplies(d)' # {} => TurnReplies(d) # {})
  BY <1>6, <1>7, <1>8 DEF Path, Lone
<1>10. \A d \in Conns : Held(d)' => Held(d)
  BY <1>6, <1>9 DEF Held
<1>11. \A d \in Conns : \A m \in Replies : Holds(d, m)' => Holds(d, m)
  BY <1>6, <1>7, <1>8 DEF Holds
<1>12. Len(toServer[c]) <= 1 => toServer'[c] \in {toServer[c], <<>>}
  BY <1>2, <1>3, <1>5
<1> QED
  BY <1>4, <1>5, <1>6, <1>9, <1>10, <1>11, <1>12
-----------------------------------------------------------------------------
(***************************************************************************)
(* Steps that only take turns away.                                        *)
(***************************************************************************)
LEMMA OneRequest ==
    ASSUME NEW r PROVE <<r>> # <<>> /\ Head(<<r>>) = r /\ Tail(<<r>>) = <<>>
OBVIOUS

LEMMA InitInv == ~Overlap /\ Attentive /\ Init => IInv
<1> SUFFICES ASSUME ~Overlap, Attentive, Init PROVE IInv
  OBVIOUS
<1> USE DEF Init, LinkInit, ClientInit, ServerInit
<1>1. TypeOK
  <2>1. LinkTypeOK
    BY DEF LinkTypeOK, LinkStates
  <2>2. ClientTypeOK
    <3>1. /\ connection \in Conns \cup {NoConn} /\ projFiles \subseteq Files
          /\ runNo \in 0 .. MaxRuns /\ sent \in [Conns -> SUBSET RequestTypes]
      BY LinkBoundAssumption
    <3> QED
      BY <3>1 DEF ClientTypeOK
  <2>3. ServerTypeOK
    BY LinkBoundAssumption DEF ServerTypeOK, Contents, NoContent
  <2> QED
    BY <2>1, <2>2, <2>3 DEF TypeOK
<1>2. \A c \in Conns : /\ TurnReplies(c) = {} /\ TurnCallbacks(c) = {} /\ TurnProcs(c) = {}
                       /\ connection # c /\ \A r : ~Asks(c, r)
  BY DEF TurnReplies, TurnCallbacks, TurnProcs, Asks, Conns, NoConn
<1>3. \A c \in Conns : ~Held(c) /\ \A m \in Replies : ~Holds(c, m)
  BY <1>2 DEF Held, Holds
<1>4. Turns
  BY <1>2, <1>3 DEF Turns, Lone
<1>5. Links
  BY <1>2 DEF Links, Untried
<1>6. Talk
  BY <1>2, <1>3 DEF Talk
<1>7. Runs
  BY <1>2, <1>3 DEF Runs, ExecuteOnce, Executes, Prepares
<1>8. Copies
  BY <1>2, <1>3 DEF Copies, BuildSeesItsFiles
<1> QED
  BY <1>1, <1>4, <1>5, <1>6, <1>7, <1>8 DEF IInv

\* The processes are the same, but some may be done.
SameBuilds ==
    /\ Len(procs') = Len(procs)
    /\ \A p \in 1 .. Len(procs) :
          /\ procs'[p].conn = procs[p].conn /\ procs'[p].run = procs[p].run
          /\ procs'[p].got = procs[p].got /\ procs'[p].saw = procs[p].saw
          /\ procs[p].done => procs'[p].done

Quieter(c) ==
    /\ connection' = c => connection = c /\ (projFiles' = projFiles \/ ~busy')
    /\ toServer'[c] \in {toServer[c], <<>>}
    /\ Path(c)'
    /\ \A m \in Replies : Holds(c, m)' /\ IsAck(m) => Holds(c, m)
    /\ Held(c)' => hasIntroduced[c] /\ TurnProcs(c)' = {} /\ toServer'[c] = <<>>
    /\ ~busy' /\ connection' = c => /\ toServer'[c] = <<>> /\ ~Held(c)'
                                    /\ TurnProcs(c)' = {} /\ hasIntroduced[c]

LEMMA Fewer ==
    ASSUME IInv, SameBuilds, exception' # "no connection",
           UNCHANGED <<runNo, hasIntroduced, folders, disk, received, violations>>,
           \A c \in Conns : Quieter(c)
    PROVE  Turns' /\ Talk' /\ Runs' /\ Copies'
<1>1. \A c \in Conns : \A r \in Requests : Asks(c, r)' => Asks(c, r)
  BY OneRequest DEF Quieter, Asks
<1>2. \A c \in Conns : TurnProcs(c)' \subseteq TurnProcs(c)
  BY DEF SameBuilds, TurnProcs
<1>3. Turns'
  <2>1. \A c \in Conns : toServer'[c] # <<>> => \E r \in Requests : Asks(c, r)'
    BY DEF Quieter, IInv, Turns, Asks
  <2>2. \A c \in Conns : Lone(TurnProcs(c)')
    BY <1>2 DEF IInv, Turns, Lone
  <2>3. \A c \in Conns : toServer'[c] # <<>> => ~Held(c)' /\ TurnProcs(c)' = {}
    BY <1>2 DEF IInv, Turns, Quieter
  <2> QED
    BY <2>1, <2>2, <2>3 DEF Turns, Quieter, Path, Lone
<1>4. Talk'
  <2>1. \A c \in Conns : connection' = c => runNo > 0 /\ (~busy' => hasIntroduced[c])
    BY DEF IInv, Talk, Quieter
  <2>2. \A c \in Conns : \A m \in Replies : Holds(c, m)' /\ IsReady(m) => folders[c] = "set"
    BY DEF IInv, Talk, Quieter, IsReady
  <2>3. \A c \in Conns : \A p \in 1 .. Len(procs') : procs'[p].conn = c => hasIntroduced[c]
    BY DEF IInv, Talk, SameBuilds
  <2> QED
    BY <1>1, <2>1, <2>2, <2>3 DEF Talk, IInv, Quieter, IsReady
<1>5. Runs'
  <2>1. \A c \in Conns : \A n \in 1 .. MaxRuns : Executes(c, n)' => Executes(c, n)
    BY <1>1 DEF Executes
  <2>2. \A n : Executed(n)' <=> Executed(n)
    BY DEF Executed, SameBuilds
  <2>3. \A c \in Conns : Prepares(c)' => Prepares(c)
    BY <1>1 DEF Prepares, Quieter, IsAck
  <2>4. \A c \in Conns : Executes(c, runNo)' => Executes(c, runNo)
    BY <1>1 DEF Executes
  <2>5. ExecuteOnce' /\ \A p \in 1 .. Len(procs') : procs'[p].run <= runNo
    BY DEF IInv, Runs, ExecuteOnce, SameBuilds
  <2>6. \A c \in Conns : \A r \in Requests : Asks(c, r)' =>
            r.run <= runNo /\ (connection' = c => r.run = runNo)
    BY <1>1 DEF IInv, Runs, Quieter
  <2>7. \A c \in Conns : \A n \in 1 .. MaxRuns : Executes(c, n)' =>
            ~Executed(n)' /\ \A d \in Conns \ {c} : ~Executes(d, n)'
    BY <2>1, <2>2 DEF IInv, Runs
  <2>8. \A c \in Conns : connection' = c /\ Prepares(c)' =>
            ~Executed(runNo)' /\ \A d \in Conns : ~Executes(d, runNo)'
    BY <2>2, <2>3, <2>4 DEF IInv, Runs, Quieter
  <2> QED
    BY <2>5, <2>6, <2>7, <2>8 DEF Runs
<1>6. Copies'
  <2>0. \A c \in Conns :
            /\ \A r \in Requests : Own(c, Files, r.run)' <=> Own(c, Files, r.run)
            /\ Own(c, received[c], runNo)' <=> Own(c, received[c], runNo)
    BY DEF Own
  <2>1. BuildSeesItsFiles'
    <3> SUFFICES ASSUME NEW p \in 1 .. Len(procs)
                 PROVE  /\ procs'[p].got = Files
                        /\ \A f \in Files : procs'[p].saw[f].conn = procs'[p].conn =>
                               procs'[p].saw[f] =
                                   [run |-> procs'[p].run, conn |-> procs'[p].conn]
      BY DEF BuildSeesItsFiles, SameBuilds
    <3>1. /\ procs[p].got = Files
          /\ \A f \in Files : procs[p].saw[f].conn = procs[p].conn =>
                 procs[p].saw[f] = [run |-> procs[p].run, conn |-> procs[p].conn]
      BY DEF IInv, Copies, BuildSeesItsFiles
    <3>2. /\ procs'[p].conn = procs[p].conn /\ procs'[p].run = procs[p].run
          /\ procs'[p].got = procs[p].got /\ procs'[p].saw = procs[p].saw
      BY DEF SameBuilds
    <3> QED
      BY <3>1, <3>2
  <2>2. \A c \in Conns : \A r \in Requests : Asks(c, r)' /\ r.type = "ExecuteBuild" =>
            received'[c] = Files /\ Own(c, Files, r.run)'
    BY <1>1, <2>0 DEF IInv, Copies
  <2>3. ASSUME NEW c \in Conns, connection' = c
        PROVE  /\ \A r \in Requests : Asks(c, r)' => Asks(c, r) /\ projFiles' = projFiles
               /\ \A m \in Replies : Holds(c, m)' /\ IsReady(m) =>
                      Holds(c, m) /\ projFiles' = projFiles
    <3>1. ASSUME NEW r \in Requests, Asks(c, r)' PROVE busy'
      BY <2>3, <3>1, OneRequest DEF Quieter, Asks
    <3>2. ASSUME NEW m \in Replies, Holds(c, m)' PROVE busy'
      BY <2>3, <3>2 DEF Quieter, Held, Holds
    <3> QED
      BY <1>1, <2>3, <3>1, <3>2 DEF Quieter, IsReady
  <2>4. ASSUME NEW c \in Conns, connection' = c
        PROVE  /\ \A r \in Requests : Asks(c, r)' /\ r.type = "SetBuild" =>
                      projFiles' = Files
               /\ \A r \in Requests : Asks(c, r)' /\ r.type = "FileContent" =>
                      /\ projFiles' \cup received[c] \cup {r.file} = Files
                      /\ Own(c, received[c], runNo)'
               /\ \A m \in Replies : Holds(c, m)' /\ IsReady(m) =>
                      /\ projFiles' \cup received[c] = Files
                      /\ Own(c, received[c], runNo)'
    <3>1. connection = c
      BY <2>4 DEF Quieter
    <3> QED
      BY <2>0, <2>3, <2>4, <3>1 DEF IInv, Copies
  <2> QED
    BY <2>1, <2>2, <2>4 DEF Copies
<1> QED
  BY <1>3, <1>4, <1>5, <1>6

\* Nothing happens at either end.
Quiet == UNCHANGED <<connection, projFiles, runNo, busy, exception, hasIntroduced,
                     folders, disk, procs, received, violations>>

LEMMA Lost ==
    ASSUME IInv, Quiet,
           \A c \in Conns : /\ toServer'[c] \in {toServer[c], <<>>}
                            /\ Path(c)' /\ (Held(c)' => Held(c))
                            /\ \A m \in Replies : Holds(c, m)' => Holds(c, m)
    PROVE  Turns' /\ Talk' /\ Runs' /\ Copies'
<1>1. \A c \in Conns : TurnProcs(c)' = TurnProcs(c)
  BY DEF Quiet, TurnProcs
<1>2. SameBuilds /\ exception' # "no connection"
  BY DEF Quiet, SameBuilds, IInv, Talk
<1>3. \A c \in Conns : Quieter(c)
  BY <1>1 DEF Quieter, Quiet, IInv, Turns, Talk
<1> QED
  BY <1>2, <1>3, Fewer DEF Quiet

LEMMA PathOfTurns == Turns => \A c \in Conns : Path(c)
BY DEF Turns, Path

\* Both ends keep their types when the links do and nothing happens at them.
LEMMA NetType ==
    ASSUME TypeOK, LinkTypeOK', UNCHANGED <<clientVars, serverVars>>
    PROVE  TypeOK'
<1>1. ClientTypeOK' = ClientTypeOK
  BY DEF ClientTypeOK
<1>2. ServerTypeOK' = ServerTypeOK
  BY DEF ServerTypeOK
<1> QED
  BY <1>1, <1>2 DEF TypeOK

\* The network's steps that leave what is on the way to the client alone.
LEMMA NetStep ==
    ASSUME IInv, NEW c \in Conns, UNCHANGED <<clientVars, serverVars>>,
           NetEstablished(c) \/ NetRefused(c) \/ ServerCloses(c)
    PROVE  IInv'
<1>0. UNCHANGED <<toClient, callbacks>> /\ LinkTypeOK
  BY DEF NetEstablished, NetRefused, ServerCloses, IInv, TypeOK
<1>1. \A d \in Conns : /\ TurnReplies(d)' = TurnReplies(d)
                       /\ TurnCallbacks(d)' = TurnCallbacks(d)
                       /\ \A m \in Replies : Holds(d, m)' = Holds(d, m)
  BY <1>0 DEF TurnReplies, TurnCallbacks, Holds
<1>2. \A d \in Conns : Path(d)' /\ (Held(d)' => Held(d))
  BY <1>1, PathOfTurns DEF Path, Held, IInv
<1>3. \A d \in Conns : toServer'[d] \in {toServer[d], <<>>}
  BY <1>0 DEF NetEstablished, NetRefused, ServerCloses, LinkTypeOK
<1>4. Turns' /\ Talk' /\ Runs' /\ Copies'
  BY <1>1, <1>2, <1>3, Lost DEF Quiet
<1>5. LinkTypeOK'
  <2>1. link' \in [Conns -> LinkStates] /\ connected' \in [Conns -> BOOLEAN]
    BY <1>0 DEF NetEstablished, NetRefused, ServerCloses, LinkTypeOK, LinkStates
  <2>2. toServer' \in [Conns -> Seq(Requests)]
    <3>1. <<>> \in Seq(Requests)
      OBVIOUS
    <3>2. toServer' \in {toServer, [toServer EXCEPT ![c] = <<>>]}
      BY DEF NetEstablished, NetRefused, ServerCloses
    <3> QED
      BY <1>0, <3>1, <3>2 DEF LinkTypeOK
  <2> QED
    BY <1>0, <2>1, <2>2 DEF LinkTypeOK
<1>6. Links'
  <2>1. Links /\ LinkTypeOK
    BY DEF IInv, TypeOK
  <2>2. CASE NetEstablished(c)
    BY <1>0, <1>1, <2>1, <2>2 DEF Links, Untried, NetEstablished, LinkTypeOK
  <2>3. CASE NetRefused(c)
    BY <1>0, <1>1, <2>1, <2>3 DEF Links, Untried, NetRefused, LinkTypeOK
  <2>4. CASE ServerCloses(c)
    BY <1>0, <1>1, <2>1, <2>4 DEF Links, Untried, ServerCloses, LinkTypeOK
  <2> QED
    BY <2>2, <2>3, <2>4
<1> QED
  BY <1>4, <1>5, <1>6, NetType DEF IInv

LEMMA ReceiveStep ==
    ASSUME IInv, NEW c \in Conns, UNCHANGED <<clientVars, serverVars>>, NetReceive(c)
    PROVE  IInv'
<1>0. LinkTypeOK /\ Links /\ connected[c] /\ UNCHANGED <<link, toServer, connected>>
  BY DEF IInv, TypeOK, NetReceive
<1>1. \A d \in Conns : Path(d)
  BY PathOfTurns DEF IInv
<1>2. /\ \A d \in Conns : /\ Path(d)'
                          /\ TurnReplies(d)' # {} => TurnReplies(d) # {}
                          /\ Held(d)' => Held(d)
                          /\ \A m \in Replies : Holds(d, m)' => Holds(d, m)
      /\ \A d \in Conns \ {c} : TurnCallbacks(d)' = TurnCallbacks(d)
      /\ Len(callbacks) \in Nat /\ Len(callbacks') = Len(callbacks) + 1
      /\ \A i \in 1 .. Len(callbacks) : callbacks'[i] = callbacks[i]
      /\ callbacks'[Len(callbacks) + 1].msg \in Replies
  BY <1>0, <1>1, ReceivePath
<1>3. Turns' /\ Talk' /\ Runs' /\ Copies'
  BY <1>0, <1>2, Lost DEF Quiet
<1>4. LinkTypeOK'
  <2>1. toClient[c] \in Seq(Replies) /\ toClient[c] # <<>>
    BY <1>0 DEF LinkTypeOK, NetReceive
  <2>2. Tail(toClient[c]) \in Seq(Replies) /\ Head(toClient[c]) \in Replies
    BY <2>1, HeadTailProperties
  <2>3. toClient' \in [Conns -> Seq(Replies)]
    BY <1>0, <2>2 DEF LinkTypeOK, NetReceive
  <2>4. [conn |-> c, msg |-> Head(toClient[c])] \in [conn : Conns, msg : Replies \cup {Closed}]
    BY <2>2
  <2>5. callbacks' \in Seq([conn : Conns, msg : Replies \cup {Closed}])
    BY <1>0, <2>4, AppendProperties DEF LinkTypeOK, NetReceive
  <2> QED
    BY <1>0, <2>3, <2>5 DEF LinkTypeOK
<1>5. Links'
  <2>0. link[c] \in {"open", "ending", "down"}
    BY <1>0 DEF Links
  <2>1. ASSUME NEW d \in Conns, NEW i \in 1 .. Len(callbacks'), IsClosed(callbacks'[i], d)
        PROVE  link[d] = "closed" /\ \A j \in TurnCallbacks(d)' : j < i
    <3>1. callbacks'[Len(callbacks) + 1].msg.type # "CLOSED"
      BY <1>2 DEF Replies
    <3>2. i \in 1 .. Len(callbacks) /\ IsClosed(callbacks[i], d)
      BY <1>2, <2>1, <3>1 DEF IsClosed
    <3>3. link[d] = "closed" /\ \A j \in TurnCallbacks(d) : j < i
      BY <1>0, <3>2 DEF Links
    <3> QED
      BY <1>2, <2>0, <3>3
  <2>2. ASSUME NEW d \in Conns
        PROVE  /\ connected[d] => link[d] \in {"open", "ending", "down"}
               /\ link[d] \in {"open", "ending"} => connected[d]
               /\ ~connected[d] => TurnReplies(d)' = {}
               /\ Untried(d)' => /\ TurnCallbacks(d)' = {} /\ ~hasIntroduced'[d]
                                 /\ connection' = d => busy'
               /\ Untried(d)' /\ link[d] # "connecting" => toServer'[d] = <<>>
               /\ connection' # d =>
                      link[d] \in {"none", "closed"} /\ TurnCallbacks(d)' = {}
    BY <1>0, <1>2, <2>0 DEF Links, Untried
  <2> QED
    BY <1>0, <2>1, <2>2 DEF Links
<1> QED
  BY <1>3, <1>4, <1>5, NetType DEF IInv

LEMMA ClosedStep ==
    ASSUME IInv, NEW c \in Conns, UNCHANGED <<clientVars, serverVars>>, NetClosed(c)
    PROVE  IInv'
<1>0. /\ LinkTypeOK /\ Links /\ link[c] = "down" /\ toClient[c] = <<>>
      /\ UNCHANGED <<toServer, toClient>>
      /\ \A d \in Conns \ {c} : link'[d] = link[d] /\ connected'[d] = connected[d]
      /\ link'[c] = "closed" /\ ~connected'[c]
  BY DEF IInv, TypeOK, NetClosed, LinkTypeOK
<1>1. \A d \in Conns : Path(d)
  BY PathOfTurns DEF IInv
<1>2. /\ \A d \in Conns : /\ Path(d)' /\ TurnReplies(d)' = TurnReplies(d)
                          /\ TurnCallbacks(d)' = TurnCallbacks(d)
                          /\ \A m \in Replies : Holds(d, m)' = Holds(d, m)
      /\ Len(callbacks) \in Nat /\ Len(callbacks') = Len(callbacks) + 1
      /\ \A i \in 1 .. Len(callbacks) : callbacks'[i] = callbacks[i]
      /\ callbacks'[Len(callbacks) + 1] = [conn |-> c, msg |-> Closed]
  BY <1>0, <1>1, ClosedPath
<1>3. Turns' /\ Talk' /\ Runs' /\ Copies'
  BY <1>0, <1>2, Lost DEF Quiet, Held
<1>4. LinkTypeOK'
  <2>1. [conn |-> c, msg |-> Closed] \in [conn : Conns, msg : Replies \cup {Closed}]
    OBVIOUS
  <2>2. callbacks' \in Seq([conn : Conns, msg : Replies \cup {Closed}])
    BY <1>0, <2>1, AppendProperties DEF LinkTypeOK, NetClosed
  <2> QED
    BY <1>0, <2>2 DEF LinkTypeOK, NetClosed, LinkStates
<1>5. Links'
  <2>1. TurnReplies(c) = {}
    BY <1>0 DEF TurnReplies
  <2>2. ASSUME NEW d \in Conns, NEW i \in 1 .. Len(callbacks'), IsClosed(callbacks'[i], d)
        PROVE  link'[d] = "closed" /\ \A j \in TurnCallbacks(d)' : j < i
    <3>1. CASE i \in 1 .. Len(callbacks)
      <4>1. link[d] = "closed" /\ \A j \in TurnCallbacks(d) : j < i
        BY <1>0, <1>2, <2>2, <3>1 DEF Links, IsClosed
      <4> QED
        BY <1>0, <1>2, <4>1
    <3>2. CASE i = Len(callbacks) + 1
      <4>1. d = c
        BY <1>2, <2>2, <3>2 DEF IsClosed
      <4>2. \A j \in TurnCallbacks(d) : j < i
        BY <1>2, <3>2 DEF TurnCallbacks
      <4> QED
        BY <1>0, <1>2, <4>1, <4>2
    <3> QED
      BY <1>2, <2>2, <3>1, <3>2
  <2>3. ASSUME NEW d \in Conns
        PROVE  /\ connected'[d] => link'[d] \in {"open", "ending", "down"}
               /\ link'[d] \in {"open", "ending"} => connected'[d]
               /\ ~connected'[d] => TurnReplies(d)' = {}
               /\ Untried(d)' => /\ TurnCallbacks(d)' = {} /\ ~hasIntroduced'[d]
                                 /\ connection' = d => busy'
               /\ Untried(d)' /\ link'[d] # "connecting" => toServer'[d] = <<>>
               /\ connection' # d =>
                      link'[d] \in {"none", "closed"} /\ TurnCallbacks(d)' = {}
    BY <1>0, <1>2, <2>1 DEF Links, Untried
  <2> QED
    BY <2>2, <2>3 DEF Links
<1> QED
  BY <1>3, <1>4, <1>5, NetType DEF IInv

LEMMA BreakStep ==
    ASSUME IInv, NEW c \in Conns, UNCHANGED <<clientVars, serverVars>>, Break(c)
    PROVE  IInv'
<1>0. /\ LinkTypeOK /\ Links /\ link[c] \in {"open", "ending"}
      /\ UNCHANGED <<connected, callbacks>>
      /\ \A d \in Conns \ {c} : link'[d] = link[d] /\ toServer'[d] = toServer[d]
      /\ link'[c] = "down"
  BY DEF IInv, TypeOK, Break, LinkTypeOK
<1>1. \A d \in Conns : Path(d)
  BY PathOfTurns DEF IInv
<1>2. /\ \A d \in Conns : /\ Path(d)' /\ TurnCallbacks(d)' = TurnCallbacks(d)
                          /\ TurnReplies(d)' # {} => TurnReplies(d) # {}
                          /\ Held(d)' => Held(d)
                          /\ \A m \in Replies : Holds(d, m)' => Holds(d, m)
      /\ toServer'[c] \in Seq(Requests) /\ toClient'[c] \in Seq(Replies)
      /\ Len(toServer[c]) <= 1 => toServer'[c] \in {toServer[c], <<>>}
  BY <1>0, <1>1, BreakPath
<1>3. Len(toServer[c]) <= 1
  <2>1. \A r : Len(<<r>>) = 1
    OBVIOUS
  <2>2. toServer[c] = <<>> \/ \E r \in Requests : toServer[c] = <<r>>
    BY DEF IInv, Turns, Asks
  <2>3. CASE toServer[c] = <<>>
    <3>1. Len(<<>>) = 0
      OBVIOUS
    <3> QED
      BY <2>3, <3>1
  <2>4. CASE \E r \in Requests : toServer[c] = <<r>>
    <3>1. PICK r \in Requests : toServer[c] = <<r>>
      BY <2>4
    <3>2. Len(toServer[c]) = 1
      BY <2>1, <3>1
    <3> QED
      BY <3>2
  <2> QED
    BY <2>2, <2>3, <2>4
<1>4. Turns' /\ Talk' /\ Runs' /\ Copies'
  BY <1>0, <1>2, <1>3, Lost DEF Quiet
<1>5. LinkTypeOK'
  <2>1. /\ \E s : toServer' = [toServer EXCEPT ![c] = s]
        /\ \E s : toClient' = [toClient EXCEPT ![c] = s]
    BY DEF Break
  <2> QED
    BY <1>0, <1>2, <2>1 DEF LinkTypeOK, Break, LinkStates
<1>6. Links'
  <2>1. connected[c]
    BY <1>0 DEF Links
  <2>2. ASSUME NEW d \in Conns, NEW i \in 1 .. Len(callbacks'), IsClosed(callbacks'[i], d)
        PROVE  link'[d] = "closed" /\ \A j \in TurnCallbacks(d)' : j < i
    BY <1>0, <1>2, <2>2 DEF Links
  <2>3. ASSUME NEW d \in Conns
        PROVE  /\ connected'[d] => link'[d] \in {"open", "ending", "down"}
               /\ link'[d] \in {"open", "ending"} => connected'[d]
               /\ ~connected'[d] => TurnReplies(d)' = {}
               /\ Untried(d)' => /\ TurnCallbacks(d)' = {} /\ ~hasIntroduced'[d]
                                 /\ connection' = d => busy'
               /\ Untried(d)' /\ link'[d] # "connecting" => toServer'[d] = <<>>
               /\ connection' # d =>
                      link'[d] \in {"none", "closed"} /\ TurnCallbacks(d)' = {}
    BY <1>0, <1>2, <2>1 DEF Links, Untried
  <2> QED
    BY <2>2, <2>3 DEF Links
<1> QED
  BY <1>4, <1>5, <1>6, NetType DEF IInv
-----------------------------------------------------------------------------
(***************************************************************************)
(* Steps of the client.                                                    *)
(***************************************************************************)
\* The panels, and the end of the server.
LEMMA PanelStep ==
    ASSUME IInv, Quiet, UNCHANGED <<linkVars, announced, sent, user>>,
           prompt' \in {"none", "connections", "password"}, alive' \in BOOLEAN
    PROVE  IInv'
<1>1. \A d \in Conns : /\ TurnReplies(d)' = TurnReplies(d)
                       /\ TurnCallbacks(d)' = TurnCallbacks(d)
                       /\ \A m \in Replies : Holds(d, m)' = Holds(d, m)
  BY DEF TurnReplies, TurnCallbacks, Holds
<1>2. \A d \in Conns : Path(d)' /\ (Held(d)' => Held(d))
  BY <1>1, PathOfTurns DEF Path, Held, IInv
<1>3. Turns' /\ Talk' /\ Runs' /\ Copies'
  BY <1>1, <1>2, Lost
<1>4. Links'
  BY <1>1 DEF Quiet, IInv, Links, Untried
<1>5. TypeOK'
  BY DEF Quiet, IInv, TypeOK, LinkTypeOK, ClientTypeOK, ServerTypeOK
<1> QED
  BY <1>3, <1>4, <1>5 DEF IInv

\* A callback and the links.
LEMMA TakeLinks ==
    ASSUME IInv, callbacks # <<>>, callbacks' = Tail(callbacks),
           UNCHANGED <<link, toClient, connected, hasIntroduced>>,
           \/ connection' = connection
           \/ connection' = NoConn /\ IsClosed(Head(callbacks), connection),
           \A d \in Conns : Untried(d) =>
               /\ connection' = d => busy'
               /\ link[d] # "connecting" => toServer'[d] = <<>>
    PROVE  Links'
<1>0. /\ LinkTypeOK /\ Links /\ \A d \in Conns : Path(d)
      /\ callbacks \in Seq([conn : Conns, msg : Replies \cup {Closed}])
  BY PathOfTurns DEF IInv, TypeOK, LinkTypeOK
<1>1. \A d \in Conns : /\ TurnReplies(d)' = TurnReplies(d)
                       /\ \A i \in TurnCallbacks(d)' : i + 1 \in TurnCallbacks(d) /\ i \in Nat
  BY <1>0, TakePath
<1>2. /\ Len(callbacks) \in Nat /\ Len(callbacks) >= 1
      /\ Len(callbacks') = Len(callbacks) - 1
      /\ \A i \in 1 .. Len(callbacks) - 1 : callbacks'[i] = callbacks[i + 1]
      /\ Head(callbacks) = callbacks[1]
  <2>1. /\ Len(callbacks) \in Nat /\ Len(callbacks) >= 1
        /\ Head(callbacks) = callbacks[1]
    BY <1>0, EmptySeq
  <2> QED
    BY <1>0, <2>1, HeadTailProperties
<1>3. ASSUME NEW d \in Conns, NEW i \in 1 .. Len(callbacks'), IsClosed(callbacks'[i], d)
      PROVE  link'[d] = "closed" /\ \A j \in TurnCallbacks(d)' : j < i
  <2>1. i + 1 \in 1 .. Len(callbacks) /\ IsClosed(callbacks[i + 1], d)
    BY <1>2, <1>3 DEF IsClosed
  <2>2. link[d] = "closed" /\ \A j \in TurnCallbacks(d) : j < i + 1
    BY <1>0, <2>1 DEF Links
  <2>3. \A j \in TurnCallbacks(d)' : j + 1 < i + 1 /\ j \in Nat
    BY <1>1, <2>2
  <2> QED
    BY <2>2, <2>3
<1>4. ASSUME NEW d \in Conns, connection' # d
      PROVE  link[d] \in {"none", "closed"} /\ TurnCallbacks(d)' = {}
  <2>1. CASE connection # d
    BY <1>0, <1>1, <2>1 DEF Links
  <2>2. CASE connection = d
    <3>1. IsClosed(callbacks[1], d)
      BY <1>2, <1>4, <2>2
    <3>2. link[d] = "closed" /\ \A j \in TurnCallbacks(d) : j < 1
      BY <1>0, <1>2, <3>1 DEF Links
    <3>3. \A j \in TurnCallbacks(d)' : j + 1 < 1 /\ j \in Nat
      BY <1>1, <3>2
    <3>4. TurnCallbacks(d)' = {}
      BY <3>3
    <3> QED
      BY <3>2, <3>4
  <2> QED
    BY <2>1, <2>2
<1>5. ASSUME NEW d \in Conns
      PROVE  /\ connected'[d] => link'[d] \in {"open", "ending", "down"}
             /\ link'[d] \in {"open", "ending"} => connected'[d]
             /\ ~connected'[d] => TurnReplies(d)' = {}
             /\ Untried(d)' => /\ TurnCallbacks(d)' = {} /\ ~hasIntroduced'[d]
                               /\ connection' = d => busy'
             /\ Untried(d)' /\ link'[d] # "connecting" => toServer'[d] = <<>>
  BY <1>0, <1>1 DEF Links, Untried
<1> QED
  BY <1>3, <1>4, <1>5 DEF Links

\* The client asks for the next thing, if the connection still takes it.
Asking(c, m) ==
    /\ m \in Requests /\ m.run = runNo' /\ runNo' \in {runNo, runNo + 1} /\ runNo' > 0
    /\ connection' = c /\ busy' /\ exception' # "no connection"
    /\ toServer[c] = <<>> /\ toServer' \in {toServer, [toServer EXCEPT ![c] = <<m>>]}
    /\ TurnProcs(c) = {} /\ ~Held(c)'
    /\ m.type = "Introduction" <=> ~hasIntroduced[c]
    /\ m.type \in {"FileContent", "ExecuteBuild"} => folders[c] = "set"
    /\ ~Executed(runNo') /\ \A d \in Conns : ~Executes(d, runNo')
    /\ m.type = "SetBuild" => projFiles' = Files
    /\ m.type = "FileContent" => /\ m.file \in Files /\ Own(c, received[c], runNo')
                                 /\ projFiles' \cup received[c] \cup {m.file} = Files
    /\ m.type = "ExecuteBuild" => received[c] = Files /\ Own(c, Files, runNo')

LEMMA Asked ==
    ASSUME IInv, NEW c \in Conns, NEW m, Asking(c, m),
           UNCHANGED <<hasIntroduced, folders, disk, procs, received, violations>>,
           \A d \in Conns : /\ Path(d)' /\ (Held(d)' => Held(d))
                            /\ \A x \in Replies : Holds(d, x)' => Holds(d, x)
    PROVE  Turns' /\ Talk' /\ Runs' /\ Copies'
<1>0. /\ m \in Requests /\ m.run = runNo' /\ runNo \in Nat /\ runNo' \in Nat
      /\ runNo <= runNo' /\ connection' = c /\ busy'
  <2>1. runNo \in Nat
    <3>1. runNo \in 0 .. MaxRuns
      BY DEF IInv, TypeOK, ClientTypeOK
    <3> QED
      BY <3>1, LinkBoundAssumption
  <2>2. /\ m \in Requests /\ m.run = runNo' /\ runNo' \in {runNo, runNo + 1}
        /\ connection' = c /\ busy'
    BY DEF Asking
  <2> QED
    BY <2>1, <2>2
<1>1. /\ \A d \in Conns \ {c} : toServer'[d] = toServer[d]
      /\ toServer[c] = <<>> /\ toServer'[c] \in {<<>>, <<m>>}
  BY DEF Asking, IInv, TypeOK, LinkTypeOK
<1>2. \A r : Asks(c, r)' => r = m
  BY <1>1, OneRequest DEF Asks
<1>3. \A d \in Conns \ {c} : \A r : Asks(d, r)' <=> Asks(d, r)
  BY <1>1 DEF Asks
<1>4. \A d \in Conns : TurnProcs(d)' = TurnProcs(d)
  BY DEF TurnProcs
<1>5. ~Held(c)' /\ \A x \in Replies : ~Holds(c, x)'
  BY DEF Asking, Held, Holds
<1>6. Turns'
  <2>1. \A d \in Conns : toServer'[d] # <<>> => \E r \in Requests : Asks(d, r)'
    BY <1>0, <1>1 DEF IInv, Turns, Asks
  <2>2. \A d \in Conns : toServer'[d] # <<>> => ~Held(d)' /\ TurnProcs(d)' = {}
    BY <1>1, <1>4, <1>5 DEF IInv, Turns, Asking
  <2>3. \A d \in Conns : Held(d)' => TurnProcs(d)' = {}
    BY <1>4 DEF IInv, Turns
  <2> QED
    BY <1>0, <1>4, <2>1, <2>2, <2>3 DEF IInv, Turns, Path
<1>7. Talk'
  <2>1. \A d \in Conns : \A r \in Requests : Asks(d, r)' =>
            /\ r.type = "Introduction" <=> ~hasIntroduced[d]
            /\ r.type \in {"FileContent", "ExecuteBuild"} => folders[d] = "set"
            /\ r.type = "FileContent" => r.file \in Files
    BY <1>2, <1>3 DEF IInv, Talk, Asking
  <2>2. \A d \in Conns : \A x \in Replies : Holds(d, x)' /\ IsReady(x) => folders[d] = "set"
    BY DEF IInv, Talk
  <2> QED
    BY <1>0, <2>1, <2>2 DEF IInv, Talk, Asking, IsReady
<1>8. Runs'
  <2>1. \A n : Executed(n)' <=> Executed(n)
    BY DEF Executed
  <2>2. \A d \in Conns \ {c} : \A n : Executes(d, n)' <=> Executes(d, n)
    BY <1>3 DEF Executes
  <2>3. \A n : Executes(c, n)' => n = runNo'
    BY <1>0, <1>2 DEF Executes
  <2>4. ~Executed(runNo') /\ \A d \in Conns : ~Executes(d, runNo')
    BY DEF Asking
  <2>5. ExecuteOnce' /\ \A p \in 1 .. Len(procs') : procs'[p].run <= runNo'
    <3>1. \A p \in 1 .. Len(procs) : procs[p].run \in Nat /\ procs[p].run <= runNo
      <4>1. \A p \in 1 .. Len(procs) : procs[p] \in Processes
        BY DEF IInv, TypeOK, ServerTypeOK
      <4> QED
        BY <4>1 DEF IInv, Runs, Processes
    <3> QED
      BY <1>0, <3>1 DEF IInv, Runs, ExecuteOnce
  <2>6. \A d \in Conns : \A r \in Requests : Asks(d, r)' =>
            r.run <= runNo' /\ (connection' = d => r.run = runNo')
    BY <1>0, <1>2, <1>3, LinkBoundAssumption DEF IInv, Runs, Requests
  <2>7. \A d \in Conns : \A n \in 1 .. MaxRuns : Executes(d, n)' =>
            ~Executed(n)' /\ \A e \in Conns \ {d} : ~Executes(e, n)'
    BY <2>1, <2>2, <2>3, <2>4 DEF IInv, Runs
  <2>8. Prepares(c)' => ~Executed(runNo)' /\ \A e \in Conns : ~Executes(e, runNo)'
    <3> SUFFICES ASSUME Prepares(c)'
                 PROVE  ~Executed(runNo)' /\ \A e \in Conns : ~Executes(e, runNo)'
      OBVIOUS
    <3>1. m.type # "ExecuteBuild"
      BY <1>2, <1>5 DEF Prepares
    <3>2. ~Executes(c, runNo)'
      BY <1>2, <3>1 DEF Executes
    <3>3. \A e \in Conns \ {c} : Executes(e, runNo)' <=> Executes(e, runNo')
      BY <1>3 DEF Executes
    <3>4. Executed(runNo)' <=> Executed(runNo')
      BY DEF Executed
    <3> QED
      BY <2>4, <3>2, <3>3, <3>4
  <2> QED
    BY <1>0, <2>5, <2>6, <2>7, <2>8 DEF Runs
<1>9. Copies'
  <2>0. /\ \A d \in Conns : \A r \in Requests : Own(d, Files, r.run)' <=> Own(d, Files, r.run)
        /\ Own(c, received[c], runNo)' <=> Own(c, received[c], runNo')
    BY DEF Own
  <2>1. BuildSeesItsFiles'
    BY DEF IInv, Copies, BuildSeesItsFiles
  <2>2. \A d \in Conns : \A r \in Requests : Asks(d, r)' /\ r.type = "ExecuteBuild" =>
            received[d] = Files /\ Own(d, Files, r.run)'
    BY <1>0, <1>2, <1>3, <2>0 DEF IInv, Copies, Asking
  <2>3. \A r \in Requests : Asks(c, r)' /\ r.type = "SetBuild" => projFiles' = Files
    BY <1>2 DEF Asking
  <2>4. \A r \in Requests : Asks(c, r)' /\ r.type = "FileContent" =>
            /\ projFiles' \cup received[c] \cup {r.file} = Files
            /\ Own(c, received[c], runNo)'
    BY <1>2, <2>0 DEF Asking
  <2> QED
    BY <1>0, <1>5, <2>1, <2>2, <2>3, <2>4 DEF Copies
<1> QED
  BY <1>6, <1>7, <1>8, <1>9

\* A request that is sent is asked, if the link takes it.
LEMMA Sends ==
    ASSUME TypeOK, NEW c \in Conns, NEW m \in Requests, toServer[c] = <<>>, SendTo(c, m)
    PROVE  /\ toServer' \in {toServer, [toServer EXCEPT ![c] = <<m>>]}
           /\ toServer' \in [Conns -> Seq(Requests)] /\ sent' \in [Conns -> SUBSET RequestTypes]
           /\ exception' = exception
           /\ link[c] \in {"none", "down"} => toServer' = toServer
<1>1. /\ c # NoConn /\ toServer \in [Conns -> Seq(Requests)]
      /\ sent \in [Conns -> SUBSET RequestTypes]
  <2>1. c # NoConn
    BY LinkBoundAssumption DEF Conns, NoConn
  <2> QED
    BY <2>1 DEF TypeOK, LinkTypeOK, ClientTypeOK
<1>2. Append(toServer[c], m) = <<m>> /\ <<m>> \in Seq(Requests)
  OBVIOUS
<1>3. toServer' = IF link[c] \in {"connecting", "open", "ending"}
                  THEN [toServer EXCEPT ![c] = <<m>>] ELSE toServer
  BY <1>1, <1>2 DEF SendTo, Transmit
<1>4. sent' = [sent EXCEPT ![c] = @ \cup {m.type}] /\ exception' = exception
  BY <1>1 DEF SendTo
<1>5. sent[c] \cup {m.type} \in SUBSET RequestTypes
  BY <1>1 DEF Requests
<1> QED
  BY <1>1, <1>2, <1>3, <1>4, <1>5

\* The user's own steps touch nothing that is on its way to the client.
LEMMA SameTurns ==
    ASSUME IInv, UNCHANGED <<toClient, callbacks>>
    PROVE  \A d \in Conns : /\ TurnReplies(d)' = TurnReplies(d)
                            /\ TurnCallbacks(d)' = TurnCallbacks(d)
                            /\ Path(d)' /\ (Held(d)' <=> Held(d))
                            /\ \A x \in Replies : Holds(d, x)' <=> Holds(d, x)
<1>1. \A d \in Conns : /\ TurnReplies(d)' = TurnReplies(d)
                       /\ TurnCallbacks(d)' = TurnCallbacks(d)
                       /\ \A m \in Replies : Holds(d, m)' = Holds(d, m)
  BY DEF TurnReplies, TurnCallbacks, Holds
<1> QED
  BY <1>1, PathOfTurns DEF IInv, Path, Held

\* What no run has asked for yet.
LEMMA NewRun ==
    ASSUME IInv
    PROVE  ~Executed(runNo + 1) /\ \A d \in Conns : ~Executes(d, runNo + 1)
<1>1. runNo \in Nat
  <2>1. runNo \in 0 .. MaxRuns
    BY DEF IInv, TypeOK, ClientTypeOK
  <2> QED
    BY <2>1, LinkBoundAssumption
<1>2. ~Executed(runNo + 1)
  BY <1>1 DEF IInv, Runs, Executed
<1>3. \A d \in Conns : ~Executes(d, runNo + 1)
  BY <1>1 DEF IInv, Runs, Executes
<1> QED
  BY <1>2, <1>3

LEMMA RunConnectsStep ==
    ASSUME IInv, UNCHANGED serverVars, RunConnects
    PROVE  IInv'
<1>1. PICK c \in Conns :
          /\ link[c] = "none" /\ connection' = c
          /\ link' = [link EXCEPT ![c] = "connecting"]
          /\ toServer' = [toServer EXCEPT ![c] = <<Request("Introduction", NoFile)>>]
          /\ sent' = [sent EXCEPT ![c] = {"Introduction"}]
  BY DEF RunConnects
<1> DEFINE m == Request("Introduction", NoFile)
<1>2. /\ ~busy /\ NeedsConnection /\ runNo' = runNo + 1 /\ runNo < MaxRuns
      /\ prompt' = "none" /\ busy' /\ busy' \in BOOLEAN /\ ~announced' /\ announced' \in BOOLEAN
      /\ UNCHANGED <<toClient, connected, callbacks, projFiles, exception>>
  BY DEF RunConnects, RunCounted, MayRun, IInv
<1>3. LinkTypeOK /\ ClientTypeOK /\ Links /\ TypeOK /\ Turns /\ Talk
  BY DEF IInv, TypeOK
<1>4. runNo \in 0 .. MaxRuns /\ MaxRuns \in Nat /\ runNo \in Nat
  <2>1. runNo \in 0 .. MaxRuns
    BY <1>3 DEF ClientTypeOK
  <2> QED
    BY <2>1, LinkBoundAssumption
<1>5. m = [type |-> "Introduction", run |-> runNo + 1, file |-> NoFile] /\ m \in Requests
  BY <1>2, <1>4 DEF Request, Requests, RequestTypes
<1> HIDE DEF m
<1>6. /\ TurnReplies(c) = {} /\ TurnCallbacks(c) = {} /\ ~hasIntroduced[c]
      /\ toServer[c] = <<>> /\ ~Held(c) /\ ~connected[c]
  BY <1>1, <1>3 DEF Links, Untried, Held
<1>7. TurnProcs(c) = {}
  BY <1>3, <1>6 DEF Talk, TurnProcs
<1>8. \A d \in Conns \ {c} : link[d] \in {"none", "closed"} /\ TurnCallbacks(d) = {}
  <2> SUFFICES ASSUME NEW d \in Conns \ {c}
               PROVE  link[d] \in {"none", "closed"} /\ TurnCallbacks(d) = {}
    OBVIOUS
  <2>1. CASE connection # d
    BY <1>3, <2>1 DEF Links
  <2>2. CASE connection = d
    <3>1. ~connected[d]
      BY <1>2, <2>2 DEF NeedsConnection
    <3>2. ~Untried(d) /\ link[d] \notin {"open", "ending"}
      BY <1>2, <1>3, <2>2, <3>1 DEF Links
    <3>3. link[d] = "closed"
      BY <1>3, <3>1, <3>2 DEF LinkTypeOK, LinkStates, Untried
    <3>4. TurnCallbacks(d) = {}
      BY <1>2, <1>3, <2>2 DEF Turns, Held
    <3> QED
      BY <3>3, <3>4
  <2> QED
    BY <2>1, <2>2
<1>9. \A d \in Conns : /\ TurnReplies(d)' = TurnReplies(d)
                       /\ TurnCallbacks(d)' = TurnCallbacks(d)
                       /\ Path(d)' /\ (Held(d)' <=> Held(d))
                       /\ \A x \in Replies : Holds(d, x)' <=> Holds(d, x)
  BY <1>2, SameTurns
<1>10. Asking(c, m)
  <2>1. ~Executed(runNo') /\ \A d \in Conns : ~Executes(d, runNo')
    BY <1>2, NewRun
  <2>2. exception' # "no connection"
    BY <1>2, <1>3 DEF Talk
  <2>3. ~Held(c)'
    BY <1>6, <1>9
  <2>4. toServer' = [toServer EXCEPT ![c] = <<m>>]
    BY <1>1 DEF m
  <2>5. m \in Requests /\ m.run = runNo' /\ m.type = "Introduction" /\ runNo' > 0
    BY <1>2, <1>4, <1>5
  <2> QED
    BY <1>1, <1>2, <1>6, <1>7, <2>1, <2>2, <2>3, <2>4, <2>5 DEF Asking
<1>11. Turns' /\ Talk' /\ Runs' /\ Copies'
  BY <1>9, <1>10, Asked
<1>12. Links'
  <2>1. \A d \in Conns \ {c} : link'[d] = link[d] /\ toServer'[d] = toServer[d]
    BY <1>1, <1>3 DEF LinkTypeOK
  <2>2. link'[c] = "connecting"
    BY <1>1, <1>3 DEF LinkTypeOK
  <2>3. \A d \in Conns : \A i \in 1 .. Len(callbacks') : IsClosed(callbacks'[i], d) =>
            link'[d] = "closed" /\ \A j \in TurnCallbacks(d)' : j < i
    BY <1>1, <1>2, <1>3, <1>9, <2>1 DEF Links
  <2>4. ASSUME NEW d \in Conns
        PROVE  /\ connected'[d] => link'[d] \in {"open", "ending", "down"}
               /\ link'[d] \in {"open", "ending"} => connected'[d]
               /\ ~connected'[d] => TurnReplies(d)' = {}
               /\ Untried(d)' => /\ TurnCallbacks(d)' = {} /\ ~hasIntroduced'[d]
                                 /\ connection' = d => busy'
               /\ Untried(d)' /\ link'[d] # "connecting" => toServer'[d] = <<>>
               /\ connection' # d =>
                      link'[d] \in {"none", "closed"} /\ TurnCallbacks(d)' = {}
    BY <1>1, <1>2, <1>3, <1>6, <1>8, <1>9, <2>1, <2>2 DEF Links, Untried
  <2> QED
    BY <2>3, <2>4 DEF Links
<1>13. TypeOK'
  <2>1. <<m>> \in Seq(Requests)
    BY <1>5
  <2>2. LinkTypeOK'
    BY <1>1, <1>2, <1>3, <2>1 DEF LinkTypeOK, LinkStates, m
  <2>3. ClientTypeOK'
    <3>1. sent' \in [Conns -> SUBSET RequestTypes]
      BY <1>1, <1>3 DEF ClientTypeOK, RequestTypes
    <3>2. runNo' \in 0 .. MaxRuns
      BY <1>2, <1>4
    <3> QED
      BY <1>1, <1>2, <1>3, <3>1, <3>2 DEF ClientTypeOK
  <2>4. ServerTypeOK'
    BY <1>3 DEF TypeOK, ServerTypeOK
  <2> QED
    BY <2>2, <2>3, <2>4 DEF TypeOK
<1> QED
  BY <1>11, <1>12, <1>13 DEF IInv

LEMMA RunBuildsStep ==
    ASSUME IInv, UNCHANGED serverVars, RunBuilds
    PROVE  IInv'
<1> DEFINE c == connection
           m == Request("SetBuild", NoFile)
<1>1. /\ ~busy /\ c \in Conns /\ connected[c] /\ runNo' = runNo + 1 /\ runNo < MaxRuns
      /\ prompt' = "none" /\ busy' /\ busy' \in BOOLEAN /\ ~announced' /\ announced' \in BOOLEAN
      /\ projFiles' = Files /\ SendTo(c, m)
      /\ UNCHANGED <<link, toClient, connected, callbacks, connection>>
  BY DEF RunBuilds, RunCounted, MayRun, NeedsConnection, StartBuild, IInv
<1>2. LinkTypeOK /\ ClientTypeOK /\ Links /\ TypeOK /\ Turns /\ Talk
  BY DEF IInv, TypeOK
<1>3. runNo \in Nat
  <2>1. runNo \in 0 .. MaxRuns
    BY <1>2 DEF ClientTypeOK
  <2> QED
    BY <2>1, LinkBoundAssumption
<1>4. m = [type |-> "SetBuild", run |-> runNo + 1, file |-> NoFile] /\ m \in Requests
  BY <1>1, <1>3, LinkBoundAssumption DEF Request, Requests, RequestTypes
<1>5. /\ toServer[c] = <<>> /\ ~Held(c) /\ TurnProcs(c) = {} /\ hasIntroduced[c]
      /\ ~Untried(c)
  BY <1>1, <1>2 DEF Turns, Talk, Links
<1>6. c' = c
  BY <1>1
<1> HIDE DEF m, c
<1>7. /\ toServer' \in {toServer, [toServer EXCEPT ![c] = <<m>>]}
      /\ toServer' \in [Conns -> Seq(Requests)] /\ sent' \in [Conns -> SUBSET RequestTypes]
      /\ exception' = exception
  BY <1>1, <1>2, <1>4, <1>5, Sends
<1>8. \A d \in Conns : /\ TurnReplies(d)' = TurnReplies(d)
                       /\ TurnCallbacks(d)' = TurnCallbacks(d)
                       /\ Path(d)' /\ (Held(d)' <=> Held(d))
                       /\ \A x \in Replies : Holds(d, x)' <=> Holds(d, x)
  BY <1>1, SameTurns
<1>9. \A d \in Conns : d = c => Asking(d, m)
  <2>1. ~Executed(runNo') /\ \A d \in Conns : ~Executes(d, runNo')
    BY <1>1, NewRun
  <2>2. exception' # "no connection"
    BY <1>7, <1>2 DEF Talk
  <2>3. m.run = runNo' /\ m.type = "SetBuild" /\ runNo' > 0
    BY <1>1, <1>3, <1>4
  <2> SUFFICES ASSUME NEW d \in Conns, d = c PROVE Asking(d, m)
    OBVIOUS
  <2>4. ~Held(d)' /\ connection' = d /\ d = connection
    BY <1>1, <1>5, <1>6, <1>8 DEF c
  <2> QED
    BY <1>1, <1>4, <1>5, <1>7, <2>1, <2>2, <2>3, <2>4 DEF Asking
<1>10. Turns' /\ Talk' /\ Runs' /\ Copies'
  BY <1>1, <1>8, <1>9, Asked
<1>11. Links'
  <2>1. \A d \in Conns \ {c} : toServer'[d] = toServer[d]
    BY <1>1, <1>2, <1>7 DEF LinkTypeOK
  <2>2. connection' = c /\ c = connection
    BY <1>1 DEF c
  <2> QED
    BY <1>1, <1>2, <1>5, <1>8, <2>1, <2>2 DEF Links, Untried
<1>12. TypeOK'
  <2>1. LinkTypeOK'
    BY <1>1, <1>2, <1>7 DEF LinkTypeOK
  <2>2. runNo' \in 0 .. MaxRuns
    BY <1>1, <1>3, LinkBoundAssumption
  <2>3. ClientTypeOK'
    BY <1>1, <1>2, <1>7, <2>2 DEF ClientTypeOK
  <2>4. ServerTypeOK'
    BY <1>2 DEF TypeOK, ServerTypeOK
  <2> QED
    BY <2>1, <2>3, <2>4 DEF TypeOK
<1> QED
  BY <1>10, <1>11, <1>12 DEF IInv

\* What reaches the client is of its connection.
LEMMA HeldIsCurrent ==
    ASSUME IInv, NEW c \in Conns, Held(c)
    PROVE  /\ connection = c /\ ~Untried(c) /\ toServer[c] = <<>> /\ TurnProcs(c) = {}
           /\ hasIntroduced[c]
<1>1. Links /\ Turns /\ Talk
  BY DEF IInv
<1>2. CASE TurnReplies(c) # {}
  BY <1>1, <1>2 DEF Links, Turns, Talk, Untried
<1>3. CASE TurnCallbacks(c) # {}
  BY <1>1, <1>3 DEF Links, Turns, Talk
<1> QED
  BY <1>2, <1>3 DEF Held

\* The callback that is taken, and what is left.
LEMMA Taken ==
    ASSUME IInv, callbacks # <<>>, callbacks' = Tail(callbacks), UNCHANGED toClient
    PROVE  LET b == Head(callbacks)
           IN  /\ b.conn \in Conns /\ b.msg \in Replies \cup {Closed}
               /\ callbacks' \in Seq([conn : Conns, msg : Replies \cup {Closed}])
               /\ \A d \in Conns : /\ Path(d)' /\ (Held(d)' => Held(d))
                                   /\ \A x \in Replies : Holds(d, x)' => Holds(d, x)
                                   /\ b.conn = d /\ Counts(b.msg) =>
                                          /\ ~Held(d)' /\ Held(d) /\ Holds(d, b.msg)
                                          /\ connection = d
<1>1. LinkTypeOK /\ \A d \in Conns : Path(d)
  BY PathOfTurns DEF IInv, TypeOK
<1>2. callbacks' \in Seq([conn : Conns, msg : Replies \cup {Closed}])
  BY <1>1, HeadTailProperties DEF LinkTypeOK
<1>3. \A d \in Conns : Held(d) => connection = d
  BY HeldIsCurrent
<1> QED
  BY <1>1, <1>2, <1>3, TakePath

\* Types when a callback is handled.
LEMMA TakeType ==
    ASSUME IInv, callbacks # <<>>, callbacks' = Tail(callbacks),
           UNCHANGED <<link, toClient, connected, prompt, runNo, serverVars>>,
           toServer' \in [Conns -> Seq(Requests)], sent' \in [Conns -> SUBSET RequestTypes],
           connection' \in Conns \cup {NoConn}, projFiles' \subseteq Files,
           busy' \in BOOLEAN, announced' \in BOOLEAN,
           exception' \in {"none", "no file", "no connection"}
    PROVE  TypeOK'
<1>1. callbacks' \in Seq([conn : Conns, msg : Replies \cup {Closed}])
  BY HeadTailProperties DEF IInv, TypeOK, LinkTypeOK
<1>2. LinkTypeOK'
  BY <1>1 DEF IInv, TypeOK, LinkTypeOK
<1>3. ClientTypeOK'
  BY DEF IInv, TypeOK, ClientTypeOK
<1>4. ServerTypeOK'
  BY DEF IInv, TypeOK, ServerTypeOK
<1> QED
  BY <1>2, <1>3, <1>4 DEF TypeOK

LEMMA OnClosedStep ==
    ASSUME IInv, UNCHANGED serverVars, OnClosed
    PROVE  IInv'
<1> DEFINE b == Head(callbacks)
<1>1. /\ callbacks # <<>> /\ callbacks' = Tail(callbacks) /\ b.msg.type = "CLOSED"
      /\ UNCHANGED <<link, toClient, connected, prompt, runNo, toServer, projFiles,
                     announced, exception, sent>>
      /\ connection' = IF b.conn = connection THEN NoConn ELSE connection
      /\ busy' = (busy /\ b.conn # connection)
  BY DEF OnClosed, Take
<1>2. \A d \in Conns : /\ d # NoConn
                       /\ Path(d)' /\ (Held(d)' => Held(d))
                       /\ \A x \in Replies : Holds(d, x)' => Holds(d, x)
  <2>1. \A d \in Conns : d # NoConn
    BY LinkBoundAssumption DEF Conns, NoConn
  <2> QED
    BY <1>1, <2>1, Taken
<1>3. SameBuilds /\ \A d \in Conns : TurnProcs(d)' = TurnProcs(d)
  BY DEF SameBuilds, TurnProcs
<1>4. \A d \in Conns : connection' = d => connection = d /\ busy' = busy
  BY <1>1, <1>2 DEF IInv, TypeOK, ClientTypeOK
<1>5. \A d \in Conns : Quieter(d)
  BY <1>1, <1>2, <1>3, <1>4 DEF Quieter, IInv, Turns, Talk
<1>6. Turns' /\ Talk' /\ Runs' /\ Copies'
  <2>1. exception' # "no connection"
    BY <1>1 DEF IInv, Talk
  <2> QED
    BY <1>1, <1>3, <1>5, <2>1, Fewer
<1>7. Links'
  <2>1. \/ connection' = connection
        \/ connection' = NoConn /\ IsClosed(b, connection)
    BY <1>1 DEF IsClosed
  <2>2. \A d \in Conns : Untried(d) =>
            /\ connection' = d => busy'
            /\ link[d] # "connecting" => toServer'[d] = <<>>
    BY <1>1, <1>4 DEF IInv, Links
  <2> QED
    BY <1>1, <2>1, <2>2, TakeLinks
<1>8. TypeOK'
  <2>1. connection' \in Conns \cup {NoConn} /\ busy' \in BOOLEAN
    BY <1>1 DEF IInv, TypeOK, ClientTypeOK
  <2> QED
    BY <1>1, <2>1, TakeType DEF IInv, TypeOK, ClientTypeOK, LinkTypeOK
<1> QED
  BY <1>6, <1>7, <1>8 DEF IInv

\* A message that is only logged.
LEMMA LoggedStep ==
    ASSUME IInv, callbacks # <<>>, callbacks' = Tail(callbacks),
           UNCHANGED <<link, toClient, connected, toServer, clientVars, serverVars>>
    PROVE  IInv'
<1>1. \A d \in Conns : /\ Path(d)' /\ (Held(d)' => Held(d))
                       /\ \A x \in Replies : Holds(d, x)' => Holds(d, x)
  BY Taken
<1>2. Turns' /\ Talk' /\ Runs' /\ Copies'
  BY <1>1, Lost DEF Quiet
<1>3. Links'
  <2>1. \A d \in Conns : Untried(d) =>
            /\ connection' = d => busy'
            /\ link[d] # "connecting" => toServer'[d] = <<>>
    BY DEF IInv, Links
  <2> QED
    BY <2>1, TakeLinks
<1>4. TypeOK'
  BY TakeType DEF IInv, TypeOK, ClientTypeOK, LinkTypeOK
<1> QED
  BY <1>2, <1>3, <1>4 DEF IInv

\* A late error does not end the run that the user waits for.
LEMMA LateStep ==
    ASSUME IInv, UNCHANGED serverVars, OnEnd, Late(Head(callbacks).msg), ~Waiting
    PROVE  IInv'
<1>1. busy \in BOOLEAN /\ announced \in BOOLEAN /\ Attentive
  BY DEF IInv, TypeOK, ClientTypeOK
<1>2. busy' = busy
  BY <1>1 DEF OnEnd, Take, Late, Waiting
<1> QED
  BY <1>2, LoggedStep DEF OnEnd, Take

LEMMA EndStep ==
    ASSUME IInv, UNCHANGED serverVars, OnEnd, ~Late(Head(callbacks).msg)
    PROVE  IInv'
<1> DEFINE b == Head(callbacks)
<1>1. /\ callbacks # <<>> /\ callbacks' = Tail(callbacks)
      /\ UNCHANGED <<link, toClient, connected, prompt, runNo, toServer, connection,
                     projFiles, announced, exception, sent>>
      /\ b.msg.type \in {"Error", "BuildComplete"}
  BY DEF OnEnd, Take
<1>2. Counts(b.msg)
  BY <1>1 DEF Counts
<1>3. /\ b.conn \in Conns
      /\ \A d \in Conns : /\ Path(d)' /\ (Held(d)' => Held(d))
                          /\ \A x \in Replies : Holds(d, x)' => Holds(d, x)
                          /\ b.conn = d => ~Held(d)' /\ Held(d) /\ connection = d
  BY <1>1, <1>2, Taken
<1>4. \A d \in Conns : connection = d =>
          /\ ~Held(d)' /\ ~Untried(d) /\ toServer[d] = <<>> /\ TurnProcs(d) = {}
          /\ hasIntroduced[d]
  BY <1>3, HeldIsCurrent
<1>5. SameBuilds /\ \A d \in Conns : TurnProcs(d)' = TurnProcs(d)
  BY DEF SameBuilds, TurnProcs
<1>6. \A d \in Conns : Quieter(d)
  BY <1>1, <1>3, <1>4, <1>5 DEF Quieter, IInv, Turns, Talk
<1>7. Turns' /\ Talk' /\ Runs' /\ Copies'
  <2>1. exception' # "no connection"
    BY <1>1 DEF IInv, Talk
  <2> QED
    BY <1>1, <1>5, <1>6, <2>1, Fewer
<1>8. Links'
  <2>1. \A d \in Conns : Untried(d) =>
            /\ connection' = d => busy'
            /\ link[d] # "connecting" => toServer'[d] = <<>>
    BY <1>1, <1>4 DEF IInv, Links
  <2> QED
    BY <1>1, <2>1, TakeLinks
<1>9. TypeOK'
  <2>1. busy' \in BOOLEAN
    BY DEF OnEnd
  <2> QED
    BY <1>1, <2>1, TakeType DEF IInv, TypeOK, ClientTypeOK, LinkTypeOK
<1> QED
  BY <1>7, <1>8, <1>9 DEF IInv

\* An acknowledgement that is handled is of the current connection.
LEMMA AckTaken ==
    ASSUME IInv, callbacks # <<>>, callbacks' = Tail(callbacks), UNCHANGED toClient,
           IsAck(Head(callbacks).msg)
    PROVE  /\ connection \in Conns /\ connection # NoConn
           /\ runNo \in 1 .. MaxRuns /\ Head(callbacks).msg \in Replies
           /\ \A d \in Conns : /\ Path(d)' /\ (Held(d)' => Held(d))
                               /\ \A x \in Replies : Holds(d, x)' => Holds(d, x)
           /\ \A c \in Conns : connection = c =>
                  /\ ~Held(c)' /\ Holds(c, Head(callbacks).msg) /\ hasIntroduced[c]
                  /\ ~Untried(c) /\ toServer[c] = <<>> /\ TurnProcs(c) = {}
                  /\ ~Executed(runNo) /\ \A d \in Conns : ~Executes(d, runNo)
<1> DEFINE b == Head(callbacks)
<1>1. Counts(b.msg)
  BY DEF IsAck, Counts, Late
<1>2. /\ b.conn \in Conns /\ b.msg \in Replies \cup {Closed}
      /\ \A d \in Conns : /\ Path(d)' /\ (Held(d)' => Held(d))
                          /\ \A x \in Replies : Holds(d, x)' => Holds(d, x)
                          /\ b.conn = d => /\ ~Held(d)' /\ Held(d) /\ Holds(d, b.msg)
                                           /\ connection = d
  BY <1>1, Taken
<1>3. b.msg \in Replies
  BY <1>2 DEF IsAck, Closed
<1>4. connection \in Conns /\ connection # NoConn
  BY <1>2, LinkBoundAssumption DEF Conns, NoConn
<1>5. runNo \in 1 .. MaxRuns
  <2>1. runNo \in 0 .. MaxRuns /\ runNo > 0
    BY <1>4 DEF IInv, Talk, TypeOK, ClientTypeOK
  <2> QED
    BY <2>1, LinkBoundAssumption
<1>6. ASSUME NEW c \in Conns, connection = c
      PROVE  /\ ~Held(c)' /\ Holds(c, b.msg) /\ hasIntroduced[c]
             /\ ~Untried(c) /\ toServer[c] = <<>> /\ TurnProcs(c) = {}
             /\ ~Executed(runNo) /\ \A d \in Conns : ~Executes(d, runNo)
  <2>1. /\ ~Held(c)' /\ Holds(c, b.msg) /\ hasIntroduced[c]
        /\ ~Untried(c) /\ toServer[c] = <<>> /\ TurnProcs(c) = {}
    BY <1>2, <1>6, HeldIsCurrent
  <2>2. Prepares(c)
    BY <1>3, <2>1 DEF Prepares
  <2> QED
    BY <1>6, <2>1, <2>2 DEF IInv, Runs
<1> QED
  BY <1>2, <1>3, <1>4, <1>5, <1>6

\* The next request after an acknowledgement.
LEMMA NextRequest ==
    ASSUME IInv, callbacks # <<>>, callbacks' = Tail(callbacks),
           IsAck(Head(callbacks).msg), NEW c \in Conns, connection = c,
           UNCHANGED <<link, toClient, connected, prompt, runNo, connection, serverVars>>,
           NEW m \in Requests, SendTo(c, m), m.run = runNo, m.type # "Introduction",
           busy' = (busy /\ connection # NoConn), announced' \in BOOLEAN,
           projFiles' \subseteq Files,
           m.type \in {"FileContent", "ExecuteBuild"} => folders[c] = "set",
           m.type = "SetBuild" => projFiles' = Files,
           m.type = "FileContent" => /\ m.file \in Files /\ Own(c, received[c], runNo)
                                     /\ projFiles' \cup received[c] \cup {m.file} = Files,
           m.type = "ExecuteBuild" => received[c] = Files /\ Own(c, Files, runNo)
    PROVE  IInv'
<1>1. /\ connection # NoConn /\ runNo \in 1 .. MaxRuns /\ Head(callbacks).msg \in Replies
      /\ \A d \in Conns : /\ Path(d)' /\ (Held(d)' => Held(d))
                          /\ \A x \in Replies : Holds(d, x)' => Holds(d, x)
      /\ ~Held(c)' /\ Holds(c, Head(callbacks).msg) /\ hasIntroduced[c]
      /\ ~Untried(c) /\ toServer[c] = <<>> /\ TurnProcs(c) = {}
      /\ ~Executed(runNo) /\ \A d \in Conns : ~Executes(d, runNo)
  BY AckTaken
<1>2. /\ toServer' \in {toServer, [toServer EXCEPT ![c] = <<m>>]}
      /\ toServer' \in [Conns -> Seq(Requests)] /\ sent' \in [Conns -> SUBSET RequestTypes]
      /\ exception' = exception
  BY <1>1, Sends DEF IInv
<1>3. busy /\ busy'
  <2>1. Held(c)
    BY <1>1 DEF Held, Holds
  <2> QED
    BY <1>1, <2>1 DEF IInv, Turns
<1>4. Asking(c, m)
  <2>1. runNo' > 0 /\ exception' # "no connection"
    BY <1>1, <1>2 DEF IInv, Talk
  <2> QED
    BY <1>1, <1>2, <1>3, <2>1 DEF Asking
<1>5. Turns' /\ Talk' /\ Runs' /\ Copies'
  BY <1>1, <1>4, Asked
<1>6. Links'
  <2>1. \A d \in Conns : Untried(d) /\ link[d] # "connecting" => toServer'[d] = <<>>
    BY <1>1, <1>2 DEF IInv, Links, TypeOK, LinkTypeOK
  <2> QED
    BY <1>1, <1>3, <2>1, TakeLinks
<1>7. TypeOK'
  BY <1>2, <1>3, TakeType DEF IInv, TypeOK, ClientTypeOK
<1> QED
  BY <1>5, <1>6, <1>7 DEF IInv

LEMMA OnIntroducedStep ==
    ASSUME IInv, UNCHANGED serverVars, OnIntroduced
    PROVE  IInv'
<1> DEFINE m == Request("SetBuild", NoFile)
<1>1. /\ callbacks # <<>> /\ callbacks' = Tail(callbacks) /\ IsAck(Head(callbacks).msg)
      /\ UNCHANGED <<link, toClient, connected, prompt, runNo, connection>>
      /\ projFiles' = Files /\ SendTo(connection, m)
      /\ busy' = (busy /\ connection # NoConn) /\ announced' = announced
  BY DEF OnIntroduced, TakeAck, Take, StartBuild, StaysBusyIf, IsAck
<1>2. runNo \in 1 .. MaxRuns /\ connection \in Conns
  BY <1>1, AckTaken
<1>3. m \in Requests /\ m.run = runNo /\ m.type = "SetBuild"
  BY <1>1, <1>2 DEF Request, Requests, RequestTypes
<1> HIDE DEF m
<1>4. PICK c \in Conns : c = connection
  BY <1>2
<1>5. announced' \in BOOLEAN
  BY <1>1 DEF IInv, TypeOK, ClientTypeOK
<1> QED
  BY <1>1, <1>3, <1>4, <1>5, NextRequest

LEMMA OnReadyStep ==
    ASSUME IInv, UNCHANGED serverVars, OnReady
    PROVE  IInv'
<1>1. /\ callbacks # <<>> /\ callbacks' = Tail(callbacks) /\ IsAck(Head(callbacks).msg)
      /\ IsReady(Head(callbacks).msg)
      /\ UNCHANGED <<link, toClient, connected, prompt, runNo, connection>>
      /\ SendNextFile
  BY DEF OnReady, TakeAck, Take, IsAck, IsReady
<1>2. /\ connection \in Conns /\ connection # NoConn
      /\ runNo \in 1 .. MaxRuns /\ Head(callbacks).msg \in Replies
      /\ \A d \in Conns : /\ Path(d)' /\ (Held(d)' => Held(d))
                          /\ \A x \in Replies : Holds(d, x)' => Holds(d, x)
  BY <1>1, AckTaken
<1>3. PICK c \in Conns : c = connection
  BY <1>2
<1>4. /\ ~Held(c)' /\ Holds(c, Head(callbacks).msg) /\ hasIntroduced[c]
      /\ ~Untried(c) /\ toServer[c] = <<>> /\ TurnProcs(c) = {}
  BY <1>1, <1>3, AckTaken
<1>5. /\ folders[c] = "set" /\ projFiles \cup received[c] = Files
      /\ Own(c, received[c], runNo) /\ projFiles \subseteq Files
  BY <1>1, <1>2, <1>3, <1>4 DEF IInv, Talk, Copies, TypeOK, ClientTypeOK
<1>6. CASE projFiles = {}
  <2> DEFINE m == Request("ExecuteBuild", NoFile)
  <2>1. m \in Requests /\ m.run = runNo /\ m.type = "ExecuteBuild"
    BY <1>1, <1>2 DEF Request, Requests, RequestTypes
  <2>2. /\ SendTo(c, m) /\ busy' = (busy /\ connection # NoConn) /\ projFiles' = projFiles
        /\ announced' \in BOOLEAN
    BY <1>1, <1>3, <1>6 DEF SendNextFile, StaysBusyIf
  <2>3. received[c] = Files /\ Own(c, Files, runNo)
    BY <1>5, <1>6
  <2> HIDE DEF m
  <2> QED
    BY <1>1, <1>3, <1>5, <2>1, <2>2, <2>3, NextRequest
<1>7. CASE projFiles # {}
  <2>1. PICK f \in projFiles :
            /\ projFiles' = projFiles \ {f} /\ announced' = announced
            /\ \/ /\ SendTo(connection, Request("FileContent", f))
                  /\ StaysBusyIf(connection # NoConn)
               \/ /\ f \in Vanishing
                  /\ exception' = "no file" /\ StaysBusyIf(FALSE)
                  /\ UNCHANGED <<toServer, sent>>
    BY <1>1, <1>7 DEF SendNextFile
  <2>2. /\ f \in Files /\ projFiles' \subseteq Files
        /\ projFiles' \cup received[c] \cup {f} = Files
        /\ announced' \in BOOLEAN
    BY <1>5, <2>1 DEF IInv, TypeOK, ClientTypeOK
  <2>3. CASE /\ SendTo(connection, Request("FileContent", f))
             /\ StaysBusyIf(connection # NoConn)
    <3> DEFINE m == Request("FileContent", f)
    <3>1. m \in Requests /\ m.run = runNo /\ m.type = "FileContent" /\ m.file = f
      BY <1>1, <1>2, <2>2 DEF Request, Requests, RequestTypes
    <3>2. SendTo(c, m) /\ busy' = (busy /\ connection # NoConn)
      BY <1>3, <2>3 DEF StaysBusyIf
    <3> HIDE DEF m
    <3> QED
      BY <1>1, <1>3, <1>5, <2>2, <3>1, <3>2, NextRequest
  <2>4. CASE /\ exception' = "no file" /\ StaysBusyIf(FALSE)
             /\ UNCHANGED <<toServer, sent>>
    <3>1. ~busy' /\ busy' \in BOOLEAN
      BY <2>4 DEF StaysBusyIf
    <3>2. SameBuilds /\ \A d \in Conns : TurnProcs(d)' = TurnProcs(d)
      BY DEF SameBuilds, TurnProcs
    <3>3. \A d \in Conns : Quieter(d)
      BY <1>1, <1>2, <1>3, <1>4, <2>4, <3>1, <3>2 DEF Quieter, IInv, Turns, Talk
    <3>4. Turns' /\ Talk' /\ Runs' /\ Copies'
      BY <1>1, <2>4, <3>2, <3>3, Fewer
    <3>5. Links'
      <4>1. \A d \in Conns : Untried(d) =>
                /\ connection' = d => busy'
                /\ link[d] # "connecting" => toServer'[d] = <<>>
        BY <1>1, <1>3, <1>4, <2>4 DEF IInv, Links
      <4> QED
        BY <1>1, <4>1, TakeLinks
    <3>6. TypeOK'
      BY <1>1, <1>2, <2>2, <2>4, <3>1, TakeType DEF IInv, TypeOK, ClientTypeOK, LinkTypeOK
    <3> QED
      BY <3>4, <3>5, <3>6 DEF IInv
  <2> QED
    BY <2>1, <2>3, <2>4
<1> QED
  BY <1>6, <1>7

LEMMA ClientStep ==
    ASSUME Inv, Client
    PROVE  IInv'
<1>0. IInv
  BY DEF Inv
<1>1. ClientNext /\ UNCHANGED serverVars
  BY DEF Client
<1>2. CASE RunAsks \/ SelectItem \/ PasswordDismissed
  <2>1. Quiet /\ UNCHANGED <<linkVars, announced, sent, user>>
    BY <1>1, <1>2 DEF Quiet, RunAsks, SelectItem, PasswordDismissed
  <2>2. prompt' \in {"none", "connections", "password"} /\ alive' \in BOOLEAN
    BY <1>0, <1>1, <1>2 DEF RunAsks, SelectItem, PasswordDismissed, IInv, TypeOK, ServerTypeOK
  <2> QED
    BY <1>0, <2>1, <2>2, PanelStep
<1>3. CASE OnOutput
  BY <1>0, <1>1, <1>3, LoggedStep DEF OnOutput, Take
<1>4. CASE OnEnd
  <2>1. CASE Late(Head(callbacks).msg)
    <3>1. 1 \in 1 .. Len(callbacks) /\ Head(callbacks) = callbacks[1]
      BY <1>0, <1>4, EmptySeq DEF OnEnd, Take, IInv, TypeOK, LinkTypeOK
    <3>2. ~Waiting
      BY <2>1, <3>1 DEF Inv, Lates, LateCallbacks
    <3> QED
      BY <1>0, <1>1, <1>4, <2>1, <3>2, LateStep
  <2>2. CASE ~Late(Head(callbacks).msg)
    BY <1>0, <1>1, <1>4, <2>2, EndStep
  <2> QED
    BY <2>1, <2>2
<1> QED
  BY <1>0, <1>1, <1>2, <1>3, <1>4, RunConnectsStep, RunBuildsStep, OnClosedStep,
     OnIntroducedStep, OnReadyStep DEF ClientNext, Callback
-----------------------------------------------------------------------------
(***************************************************************************)
(* Steps of the server.                                                    *)
(***************************************************************************)
\* The server changes a link only to close it.
LEMMA ServerLinks ==
    ASSUME IInv, UNCHANGED <<clientVars, connected, callbacks>>,
           \A d \in Conns :
               /\ link'[d] = link[d] \/ (link[d] = "open" /\ link'[d] = "ending")
               /\ toServer'[d] \in {toServer[d], <<>>}
               /\ TurnReplies(d)' # {} => TurnReplies(d) # {} \/ link[d] = "open"
               /\ Untried(d) => hasIntroduced'[d] = hasIntroduced[d]
    PROVE  Links'
<1>0. Links
  BY DEF IInv
<1>1. \A d \in Conns : TurnCallbacks(d)' = TurnCallbacks(d)
  BY DEF TurnCallbacks
<1>2. ASSUME NEW d \in Conns, NEW i \in 1 .. Len(callbacks'), IsClosed(callbacks'[i], d)
      PROVE  link'[d] = "closed" /\ \A j \in TurnCallbacks(d)' : j < i
  BY <1>0, <1>1, <1>2 DEF Links
<1>3. ASSUME NEW d \in Conns
      PROVE  /\ connected'[d] => link'[d] \in {"open", "ending", "down"}
             /\ link'[d] \in {"open", "ending"} => connected'[d]
             /\ ~connected'[d] => TurnReplies(d)' = {}
             /\ Untried(d)' => /\ TurnCallbacks(d)' = {} /\ ~hasIntroduced'[d]
                               /\ connection' = d => busy'
             /\ Untried(d)' /\ link'[d] # "connecting" => toServer'[d] = <<>>
             /\ connection' # d =>
                    link'[d] \in {"none", "closed"} /\ TurnCallbacks(d)' = {}
  BY <1>0, <1>1 DEF Links, Untried
<1> QED
  BY <1>2, <1>3 DEF Links

\* What the server knows when it takes a request.
LEMMA Dispatched ==
    ASSUME IInv, NEW c \in Conns, NEW t, Dispatch(c, t)
    PROVE  /\ Head(toServer[c]) \in Requests /\ Asks(c, Head(toServer[c]))
           /\ Head(toServer[c]).type = t
           /\ toServer' = [toServer EXCEPT ![c] = <<>>]
           /\ UNCHANGED <<connected, callbacks, alive>>
           /\ ~Held(c) /\ TurnProcs(c) = {} /\ ~Untried(c) /\ Allowed(c, t)
<1>1. PICK r \in Requests : Asks(c, r)
  BY DEF IInv, Turns, Dispatch
<1>2. Head(toServer[c]) = r /\ Tail(toServer[c]) = <<>> /\ toServer[c] # <<>>
  BY <1>1, OneRequest DEF Asks
<1>3. ~Held(c) /\ TurnProcs(c) = {}
  BY <1>2 DEF IInv, Turns
<1>4. ~Untried(c)
  BY <1>2 DEF IInv, Links, Dispatch
<1>5. Allowed(c, t)
  BY <1>1, <1>2 DEF IInv, Talk, Dispatch, Allowed
<1> QED
  BY <1>1, <1>2, <1>3, <1>4, <1>5 DEF Dispatch

\* A reply to a request, after which the connection may end.
Answer(c, m) ==
    /\ toServer[c] # <<>> /\ toServer' = [toServer EXCEPT ![c] = <<>>]
    /\ m \in Replies /\ Counts(m)
    /\ toClient' = IF link[c] = "open"
                   THEN [toClient EXCEPT ![c] = Append(@, m)] ELSE toClient
    /\ link' \in {link, IF link[c] = "open" THEN [link EXCEPT ![c] = "ending"] ELSE link}
    /\ UNCHANGED <<clientVars, connected, callbacks, procs>>
    /\ hasIntroduced'[c] /\ ~Untried(c)
    /\ \A d \in Conns \ {c} : hasIntroduced'[d] = hasIntroduced[d]

LEMMA Answered ==
    ASSUME IInv, NEW c \in Conns, NEW m, Answer(c, m)
    PROVE  /\ LinkTypeOK' /\ Links' /\ Turns'
           /\ \A x \in Replies : Holds(c, x)' => x = m
           /\ \A d \in Conns \ {c} : /\ Held(d)' <=> Held(d)
                                     /\ \A x \in Replies : Holds(d, x)' <=> Holds(d, x)
           /\ \A d \in Conns : \A r : Asks(d, r)' <=> d # c /\ Asks(d, r)
<1>0. /\ m \in Replies /\ Counts(m) /\ ~Held(c) /\ TurnProcs(c) = {}
      /\ UNCHANGED <<clientVars, connected, callbacks, procs>>
      /\ LinkTypeOK /\ Links /\ Turns
  BY DEF Answer, IInv, Turns, TypeOK
<1>1. /\ toServer'[c] = <<>>
      /\ \A d \in Conns \ {c} : toServer'[d] = toServer[d] /\ link'[d] = link[d]
      /\ link'[c] = link[c] \/ (link[c] = "open" /\ link'[c] = "ending")
  BY <1>0 DEF Answer, LinkTypeOK
<1>2. Path(c) /\ \A d \in Conns : Path(d)
  BY <1>0, PathOfTurns
<1>3. /\ Path(c)'
      /\ \A d \in Conns : TurnCallbacks(d)' = TurnCallbacks(d)
      /\ \A d \in Conns \ {c} : /\ TurnReplies(d)' = TurnReplies(d)
                                /\ \A x \in Replies : Holds(d, x)' = Holds(d, x)
      /\ \A x \in Replies : Holds(c, x)' =>
             Holds(c, x) \/ (x = m /\ Counts(m) /\ link[c] = "open")
      /\ TurnReplies(c)' # {} => TurnReplies(c) # {} \/ (Counts(m) /\ link[c] = "open")
  BY <1>0, <1>2, ReplyPath DEF Answer
<1>4. \A x \in Replies : Holds(c, x)' => x = m
  BY <1>0, <1>3 DEF Held, Holds
<1>5. \A d \in Conns \ {c} : Held(d)' <=> Held(d)
  BY <1>3 DEF Held
<1>6. \A d \in Conns : \A r : Asks(d, r)' <=> d # c /\ Asks(d, r)
  BY <1>1, OneRequest DEF Asks
<1>7. LinkTypeOK'
  <2>1. toServer' \in [Conns -> Seq(Requests)]
    <3>1. <<>> \in Seq(Requests)
      OBVIOUS
    <3> QED
      BY <1>0, <3>1 DEF Answer, LinkTypeOK
  <2>2. toClient' \in [Conns -> Seq(Replies)]
    <3>1. Append(toClient[c], m) \in Seq(Replies)
      BY <1>0, AppendProperties DEF LinkTypeOK
    <3> QED
      BY <1>0, <3>1 DEF Answer, LinkTypeOK
  <2>3. link' \in [Conns -> LinkStates]
    BY <1>0 DEF Answer, LinkTypeOK, LinkStates
  <2> QED
    BY <1>0, <2>1, <2>2, <2>3 DEF LinkTypeOK
<1>8. Links'
  BY <1>0, <1>1, <1>3, ServerLinks DEF Answer
<1>9. Turns'
  <2>1. \A d \in Conns : TurnProcs(d)' = TurnProcs(d)
    BY <1>0 DEF TurnProcs
  <2>2. connection = c => busy
    BY <1>0 DEF Turns, Answer
  <2>3. ASSUME NEW d \in Conns
        PROVE  /\ toServer'[d] # <<>> => \E r \in Requests : Asks(d, r)'
               /\ toServer'[d] # <<>> => ~Held(d)' /\ TurnProcs(d)' = {}
               /\ Held(d)' => TurnProcs(d)' = {}
               /\ ~busy' /\ connection' = d =>
                      toServer'[d] = <<>> /\ ~Held(d)' /\ TurnProcs(d)' = {}
               /\ Path(d)' /\ Lone(TurnProcs(d)')
    <3>1. CASE d = c
      BY <1>0, <1>1, <1>3, <2>1, <2>2, <3>1 DEF Lone
    <3>2. CASE d # c
      <4>1. Path(d)'
        BY <1>2, <1>3, <3>2 DEF Path
      <4> QED
        BY <1>0, <1>1, <1>5, <1>6, <2>1, <3>2, <4>1 DEF Turns
    <3> QED
      BY <3>1, <3>2
  <2> QED
    BY <2>3 DEF Turns, Path
<1> QED
  BY <1>3, <1>4, <1>5, <1>6, <1>7, <1>8, <1>9

\* What else the ends know when the server has answered.
LEMMA Known ==
    ASSUME IInv, NEW c \in Conns, NEW m, NEW r \in Requests, Asks(c, r), Answer(c, m),
           UNCHANGED violations,
           \A d \in Conns \ {c} : folders'[d] = folders[d] /\ received'[d] = received[d],
           IsReady(m) => folders'[c] = "set", IsAck(m) => r.type # "ExecuteBuild",
           \A f \in Files : disk'[f] = disk[f] \/ disk'[f].conn \in {0, c},
           connection = c /\ IsReady(m) => /\ projFiles \cup received'[c] = Files
                                           /\ Own(c, received[c], runNo)'
    PROVE  Talk' /\ Runs' /\ Copies'
<1>0. /\ m \in Replies /\ hasIntroduced'[c]
      /\ UNCHANGED <<connection, projFiles, runNo, busy, exception, procs>>
      /\ \A d \in Conns \ {c} : hasIntroduced'[d] = hasIntroduced[d]
      /\ Talk /\ Runs /\ Copies
  BY DEF Answer, IInv
<1>1. /\ \A x \in Replies : Holds(c, x)' => x = m
      /\ \A d \in Conns \ {c} : /\ Held(d)' <=> Held(d)
                                /\ \A x \in Replies : Holds(d, x)' <=> Holds(d, x)
      /\ \A d \in Conns : \A x : Asks(d, x)' <=> d # c /\ Asks(d, x)
  BY Answered
<1>2. Talk'
  <2>1. \A d \in Conns : hasIntroduced[d] => hasIntroduced'[d]
    BY <1>0
  <2>2. \A d \in Conns : Held(d)' => hasIntroduced'[d]
    BY <1>0, <1>1 DEF Talk
  <2>3. \A d \in Conns : \A x \in Replies : Holds(d, x)' /\ IsReady(x) => folders'[d] = "set"
    <3>1. \A x \in Replies : Holds(c, x)' /\ IsReady(x) => folders'[c] = "set"
      BY <1>1
    <3>2. \A d \in Conns \ {c} : \A x \in Replies :
              Holds(d, x)' /\ IsReady(x) => folders'[d] = "set"
      BY <1>0, <1>1 DEF Talk
    <3> QED
      BY <3>1, <3>2
  <2>4. \A d \in Conns : \A x \in Requests : Asks(d, x)' =>
            /\ x.type = "Introduction" <=> ~hasIntroduced'[d]
            /\ x.type \in {"FileContent", "ExecuteBuild"} => folders'[d] = "set"
            /\ x.type = "FileContent" => x.file \in Files
    BY <1>0, <1>1 DEF Talk
  <2> QED
    BY <1>0, <2>1, <2>2, <2>3, <2>4, ZenonT(40) DEF Talk, IsReady
<1>3. Runs'
  <2>1. \A d \in Conns : \A n : Executes(d, n)' <=> d # c /\ Executes(d, n)
    BY <1>1 DEF Executes
  <2>2. \A n : Executed(n)' <=> Executed(n)
    BY <1>0 DEF Executed
  <2>3. Prepares(c)' => Prepares(c)
    BY <1>1 DEF Prepares, IsAck
  <2>4. \A d \in Conns \ {c} : Prepares(d)' => Prepares(d)
    BY <1>1 DEF Prepares, IsAck
  <2>5. ExecuteOnce' /\ \A p \in 1 .. Len(procs') : procs'[p].run <= runNo
    BY <1>0 DEF Runs, ExecuteOnce
  <2>6. \A d \in Conns : \A x \in Requests : Asks(d, x)' =>
            x.run <= runNo' /\ (connection' = d => x.run = runNo')
    BY <1>0, <1>1 DEF Runs
  <2>7. \A d \in Conns : \A n \in 1 .. MaxRuns : Executes(d, n)' =>
            ~Executed(n)' /\ \A e \in Conns \ {d} : ~Executes(e, n)'
    BY <1>0, <2>1, <2>2 DEF Runs
  <2>8. \A d \in Conns : Executes(d, runNo)' <=> d # c /\ Executes(d, runNo)
    BY <1>0, <1>1 DEF Executes
  <2>9. \A d \in Conns : connection' = d /\ Prepares(d)' =>
            ~Executed(runNo)' /\ \A e \in Conns : ~Executes(e, runNo)'
    BY <1>0, <2>2, <2>3, <2>4, <2>8 DEF Runs
  <2> QED
    BY <1>0, <2>5, <2>6, <2>7, <2>9 DEF Runs
<1>4. Copies'
  <2>0. c # 0
    BY LinkBoundAssumption DEF Conns
  <2>1. BuildSeesItsFiles'
    BY <1>0 DEF Copies, BuildSeesItsFiles
  <2>2. ASSUME NEW d \in Conns \ {c}
        PROVE  /\ \A n : Own(d, Files, n)' <=> \A f \in Files : disk'[f].conn = d =>
                                                    disk'[f].run = n
               /\ \A f \in Files : disk'[f].conn = d => disk'[f] = disk[f]
    BY <2>0, LinkBoundAssumption DEF Own, Conns
  <2>3. \A d \in Conns \ {c} : \A x \in Requests : Own(d, Files, x.run) => Own(d, Files, x.run)'
    BY <2>2 DEF Own
  <2>4. \A d \in Conns \ {c} : Own(d, received[d], runNo) => Own(d, received[d], runNo)'
    <3>1. \A d \in Conns : received[d] \subseteq Files
      BY DEF IInv, TypeOK, ServerTypeOK
    <3> QED
      BY <1>0, <2>2, <3>1 DEF Own
  <2>5. \A d \in Conns : \A x \in Requests : Asks(d, x)' /\ x.type = "ExecuteBuild" =>
            received'[d] = Files /\ Own(d, Files, x.run)'
    BY <1>0, <1>1, <2>3 DEF Copies
  <2>6. ASSUME NEW d \in Conns, connection' = d
        PROVE  /\ \A x \in Requests : Asks(d, x)' /\ x.type = "SetBuild" =>
                      projFiles' = Files
               /\ \A x \in Requests : Asks(d, x)' /\ x.type = "FileContent" =>
                      /\ projFiles' \cup received'[d] \cup {x.file} = Files
                      /\ Own(d, received[d], runNo)'
               /\ \A x \in Replies : Holds(d, x)' /\ IsReady(x) =>
                      /\ projFiles' \cup received'[d] = Files
                      /\ Own(d, received[d], runNo)'
    <3>1. CASE d = c
      BY <1>0, <1>1, <2>6, <3>1
    <3>2. CASE d # c
      <4>1. /\ \A x \in Requests : Asks(d, x)' => Asks(d, x)
            /\ \A x \in Replies : Holds(d, x)' => Holds(d, x)
            /\ received'[d] = received[d] /\ projFiles' = projFiles /\ connection = d
            /\ Own(d, received[d], runNo) => Own(d, received[d], runNo)'
        BY <1>0, <1>1, <2>4, <2>6, <3>2
      <4> QED
        BY <1>0, <4>1 DEF Copies
    <3> QED
      BY <3>1, <3>2
  <2> QED
    BY <2>1, <2>5, <2>6 DEF Copies
<1> QED
  BY <1>2, <1>3, <1>4

\* Both ways to answer, by what was replied.
LEMMA Answers ==
    ASSUME IInv, NEW c \in Conns, NEW t, Dispatch(c, t), UNCHANGED <<clientVars, procs>>,
           NEW m \in Replies, Counts(m), Reply(c, m) \/ ReplyAndClose(c, m),
           hasIntroduced'[c], \A d \in Conns \ {c} : hasIntroduced'[d] = hasIntroduced[d]
    PROVE  Answer(c, m)
<1>1. toServer[c] # <<>>
  BY DEF Dispatch
<1>2. /\ toServer' = [toServer EXCEPT ![c] = <<>>] /\ ~Untried(c)
      /\ UNCHANGED <<connected, callbacks>>
  BY Dispatched
<1>3. /\ toClient' = IF link[c] = "open"
                     THEN [toClient EXCEPT ![c] = Append(@, m)] ELSE toClient
      /\ link' \in {link, IF link[c] = "open" THEN [link EXCEPT ![c] = "ending"] ELSE link}
  BY DEF Reply, ReplyAndClose
<1> QED
  BY <1>1, <1>2, <1>3 DEF Answer

LEMMA ReplyTypes ==
    /\ \A t \in RequestTypes \ {"ExecuteBuild"} :
          /\ Acknowledge(t) \in Replies /\ Counts(Acknowledge(t)) /\ IsAck(Acknowledge(t))
          /\ IsReady(Acknowledge(t)) => t # "Introduction"
    /\ \A m \in {Error, ProcessError(0)} :
          m \in Replies /\ Counts(m) /\ ~IsAck(m) /\ ~IsReady(m)
BY LinkBoundAssumption
   DEF Acknowledge, Error, ProcessError, Replies, Counts, Late, IsAck, IsReady, RequestTypes

LEMMA AnswerStep ==
    ASSUME IInv, NEW c \in Conns, NEW m, Answer(c, m), Talk' /\ Runs' /\ Copies',
           ServerTypeOK'
    PROVE  IInv'
<1>1. LinkTypeOK' /\ Links' /\ Turns'
  BY Answered
<1>2. ClientTypeOK'
  BY DEF IInv, TypeOK, ClientTypeOK, Answer
<1> QED
  BY <1>1, <1>2 DEF IInv, TypeOK

LEMMA IntroductionStep ==
    ASSUME IInv, UNCHANGED clientVars, NEW c \in Conns, HandleIntroduction(c)
    PROVE  IInv'
<1> DEFINE r == Head(toServer[c])
<1>1. /\ Dispatch(c, "Introduction") /\ r \in Requests /\ Asks(c, r)
      /\ r.type = "Introduction" /\ alive' = alive /\ HandleIntroductionOf(c)
  BY Dispatched DEF HandleIntroduction
<1> HIDE DEF r
<1>2. PICK m \in {Acknowledge("Introduction"), Error} : Reply(c, m) \/ ReplyAndClose(c, m)
  BY <1>1 DEF HandleIntroductionOf
<1>3. /\ UNCHANGED <<folders, disk, procs, received, violations>>
      /\ hasIntroduced' = [hasIntroduced EXCEPT ![c] = TRUE]
      /\ user' \in {user, [user EXCEPT ![c] = TRUE]}
  BY <1>1 DEF HandleIntroductionOf
<1>4. ServerTypeOK
  BY DEF IInv, TypeOK
<1>5. m \in Replies /\ Counts(m) /\ ~IsReady(m)
  BY <1>2, ReplyTypes DEF RequestTypes
<1>6. Answer(c, m)
  BY <1>1, <1>2, <1>3, <1>4, <1>5, Answers DEF ServerTypeOK
<1>7. Talk' /\ Runs' /\ Copies'
  BY <1>1, <1>3, <1>5, <1>6, Known
<1>8. ServerTypeOK'
  BY <1>1, <1>3, <1>4 DEF ServerTypeOK
<1> QED
  BY <1>6, <1>7, <1>8, AnswerStep

LEMMA SetBuildStep ==
    ASSUME IInv, UNCHANGED clientVars, NEW c \in Conns, HandleSetBuild(c)
    PROVE  IInv'
<1> DEFINE r == Head(toServer[c])
<1>1. /\ Dispatch(c, "SetBuild") /\ r \in Requests /\ Asks(c, r)
      /\ r.type = "SetBuild" /\ alive' = alive /\ Allowed(c, "SetBuild")
      /\ HandleSetBuildOf(c)
  BY Dispatched DEF HandleSetBuild
<1> HIDE DEF r
<1>2. PICK m \in {Acknowledge("SetBuild"), Error} :
          /\ Reply(c, m) \/ ReplyAndClose(c, m)
          /\ m = Acknowledge("SetBuild") => user[c]
  BY <1>1 DEF HandleSetBuildOf, ServerException, Acknowledge, Error
<1>3. /\ UNCHANGED <<hasIntroduced, user, disk, procs, violations>>
      /\ folders' = [folders EXCEPT ![c] = IF user[c] THEN "set" ELSE "empty"]
      /\ received' = [received EXCEPT ![c] = {}]
  BY <1>1 DEF HandleSetBuildOf
<1>4. ServerTypeOK /\ hasIntroduced[c]
  BY <1>1 DEF IInv, TypeOK, Allowed
<1>5. /\ m \in Replies /\ Counts(m)
      /\ IsReady(m) => user[c]
  BY <1>2, ReplyTypes DEF RequestTypes
<1>6. Answer(c, m)
  BY <1>1, <1>2, <1>3, <1>4, <1>5, Answers
<1>7. Talk' /\ Runs' /\ Copies'
  <2>1. /\ \A d \in Conns \ {c} : folders'[d] = folders[d] /\ received'[d] = received[d]
        /\ IsReady(m) => folders'[c] = "set"
        /\ received'[c] = {}
    BY <1>3, <1>4, <1>5 DEF ServerTypeOK
  <2>2. Own(c, received[c], runNo)'
    BY <2>1 DEF Own
  <2>3. connection = c => projFiles = Files
    BY <1>1 DEF IInv, Copies
  <2> QED
    BY <1>1, <1>3, <1>6, <2>1, <2>2, <2>3, Known
<1>8. ServerTypeOK'
  BY <1>1, <1>3, <1>4 DEF ServerTypeOK
<1> QED
  BY <1>6, <1>7, <1>8, AnswerStep

LEMMA FileContentsStep ==
    ASSUME IInv, UNCHANGED clientVars, NEW c \in Conns, HandleFileContents(c)
    PROVE  IInv'
<1> DEFINE r == Head(toServer[c])
<1>1. /\ Dispatch(c, "FileContent") /\ r \in Requests /\ Asks(c, r)
      /\ r.type = "FileContent" /\ alive' = alive /\ Allowed(c, "FileContent")
      /\ HandleFileContentsOf(c, r)
  BY Dispatched DEF HandleFileContents
<1> HIDE DEF r
<1>2. /\ folders[c] = "set" /\ r.file \in Files /\ r.run \in 1 .. MaxRuns
      /\ connection = c => /\ projFiles \cup received[c] \cup {r.file} = Files
                           /\ Own(c, received[c], runNo) /\ r.run = runNo
  BY <1>1 DEF IInv, Talk, Copies, Runs, Requests
<1>3. /\ ServerTypeOK /\ hasIntroduced[c] /\ c \in 0 .. MaxConns
      /\ received[c] \subseteq Files
  BY <1>1, LinkBoundAssumption DEF IInv, TypeOK, Allowed, Conns, ServerTypeOK
<1>4. CASE /\ disk' = [disk EXCEPT ![r.file] = [run |-> r.run, conn |-> c]]
           /\ received' = [received EXCEPT ![c] = @ \cup {r.file}]
           /\ Reply(c, Acknowledge("FileContent"))
           /\ UNCHANGED <<hasIntroduced, user, folders, procs, violations>>
  <2> DEFINE m == Acknowledge("FileContent")
             x == [run |-> r.run, conn |-> c]
  <2>1. m \in Replies /\ Counts(m)
    BY ReplyTypes DEF RequestTypes
  <2>2. Answer(c, m)
    BY <1>1, <1>3, <1>4, <2>1, Answers
  <2>3. /\ \A d \in Conns \ {c} : received'[d] = received[d]
        /\ received'[c] = received[c] \cup {r.file}
        /\ \A f \in Files \ {r.file} : disk'[f] = disk[f]
        /\ disk'[r.file] = x /\ x.run = r.run /\ x.conn = c
    BY <1>2, <1>3, <1>4 DEF ServerTypeOK
  <2>4. connection = c => /\ projFiles \cup received'[c] = Files
                          /\ Own(c, received[c], runNo)'
    <3> SUFFICES ASSUME connection = c
                 PROVE  /\ projFiles \cup received'[c] = Files
                        /\ Own(c, received[c], runNo)'
      OBVIOUS
    <3>1. projFiles \cup received'[c] = Files
      BY <1>2, <2>3
    <3>2. \A f \in received'[c] : disk'[f].conn = c => disk'[f].run = runNo
      BY <1>2, <1>3, <2>3 DEF Own
    <3> QED
      BY <3>1, <3>2 DEF Own
  <2>5. Talk' /\ Runs' /\ Copies'
    <3>1. \A f \in Files : disk'[f] = disk[f] \/ disk'[f].conn \in {0, c}
      BY <2>3
    <3>2. IsAck(m) => r.type # "ExecuteBuild"
      BY <1>1
    <3> HIDE DEF m
    <3> QED
      BY <1>1, <1>2, <1>4, <2>2, <2>3, <2>4, <3>1, <3>2, Known
  <2>6. ServerTypeOK'
    <3>1. x \in Contents
      BY <1>2, <1>3, LinkBoundAssumption DEF Contents
    <3>2. disk' \in [Files -> Contents]
      BY <1>3, <1>4, <3>1 DEF ServerTypeOK
    <3>3. received' \in [Conns -> SUBSET Files]
      BY <1>2, <1>3, <1>4 DEF ServerTypeOK
    <3> QED
      BY <1>1, <1>3, <1>4, <3>2, <3>3 DEF ServerTypeOK
  <2> HIDE DEF m
  <2> QED
    BY <2>2, <2>5, <2>6, AnswerStep
<1>5. CASE /\ ServerException(c)
           /\ disk' \in {disk, [disk EXCEPT ![r.file] = NoContent]}
           /\ UNCHANGED <<hasIntroduced, user, folders, procs, received, violations>>
  <2>1. Error \in Replies /\ Counts(Error) /\ ~IsReady(Error) /\ ~IsAck(Error)
    BY ReplyTypes
  <2>2. Answer(c, Error)
    BY <1>1, <1>3, <1>5, <2>1, Answers DEF ServerException
  <2>3. /\ \A f \in Files : disk'[f] = disk[f] \/ disk'[f].conn \in {0, c}
        /\ disk' \in [Files -> Contents]
    <3>1. NoContent \in Contents /\ NoContent.conn = 0
      BY LinkBoundAssumption DEF Contents, NoContent
    <3> QED
      BY <1>3, <1>5, <3>1 DEF ServerTypeOK
  <2>4. Talk' /\ Runs' /\ Copies'
    BY <1>1, <1>5, <2>1, <2>2, <2>3, Known
  <2>5. ServerTypeOK'
    BY <1>1, <1>3, <1>5, <2>3 DEF ServerTypeOK
  <2> QED
    BY <2>2, <2>4, <2>5, AnswerStep
<1> QED
  BY <1>1, <1>2, <1>4, <1>5 DEF HandleFileContentsOf

\* Each process has a run of its own, so the processes can be counted by it.
LEMMA FewProcesses == ASSUME IInv PROVE Len(procs) \in Nat /\ Len(procs) <= MaxRuns
<1>1. /\ procs \in Seq(Processes) /\ Len(procs) \in Nat
      /\ MaxRuns \in Nat /\ ExecuteOnce
  BY LinkBoundAssumption DEF IInv, TypeOK, ServerTypeOK, Runs
<1> DEFINE S == 1 .. Len(procs)
           f == [p \in S |-> procs[p].run]
<1>2. \A p \in S : procs[p].run \in 1 .. MaxRuns
  <2>1. \A p \in S : procs[p] \in Processes
    BY <1>1
  <2> QED
    BY <2>1 DEF Processes
<1>3. f \in [S -> 1 .. MaxRuns]
  BY <1>2
<1>4. \A p, q \in S : f[p] = f[q] => p = q
  BY <1>1 DEF ExecuteOnce
<1>5. /\ IsFiniteSet(S) /\ Cardinality(S) = Len(procs)
      /\ IsFiniteSet(1 .. MaxRuns) /\ Cardinality(1 .. MaxRuns) = MaxRuns
  <2>1. \A n \in Nat : IsFiniteSet(1 .. n) /\ Cardinality(1 .. n) = n
    <3> SUFFICES ASSUME NEW n \in Nat
                 PROVE  IsFiniteSet(1 .. n) /\ Cardinality(1 .. n) = n
      OBVIOUS
    <3>1. 1 \in Int /\ n \in Int
      OBVIOUS
    <3>2. /\ IsFiniteSet(1 .. n)
          /\ Cardinality(1 .. n) = IF 1 > n THEN 0 ELSE n - 1 + 1
      BY <3>1, FS_Interval
    <3> QED
      BY <3>2
  <2> QED
    BY <1>1, <2>1
<1>6. CASE Len(procs) > MaxRuns
  <2> HIDE DEF S, f
  <2>1. \E p, q \in S : p # q /\ f[p] = f[q]
    BY <1>1, <1>3, <1>5, <1>6, FS_PigeonHole
  <2> QED
    BY <1>4, <2>1
<1> QED
  BY <1>1, <1>6

LEMMA StartStep ==
    ASSUME IInv, UNCHANGED <<clientVars, link, toClient>>, NEW c \in Conns,
           Dispatch(c, "ExecuteBuild"), StartProcess(c, Head(toServer[c])),
           UNCHANGED <<hasIntroduced, user, folders, disk, received, violations>>
    PROVE  IInv'
<1> DEFINE r == Head(toServer[c])
           x == [conn |-> c, run |-> r.run, saw |-> disk, got |-> received[c],
                 out |-> 0, done |-> FALSE, reads |-> {}, left |-> FALSE]
<1>0. LinkTypeOK /\ ServerTypeOK /\ Turns /\ Talk /\ Runs /\ Copies
  BY DEF IInv, TypeOK
<1>1. /\ r \in Requests /\ Asks(c, r) /\ r.type = "ExecuteBuild"
      /\ toServer' = [toServer EXCEPT ![c] = <<>>]
      /\ UNCHANGED <<connected, callbacks, alive>>
      /\ ~Held(c) /\ TurnProcs(c) = {} /\ ~Untried(c) /\ Allowed(c, "ExecuteBuild")
  BY Dispatched
<1>2. procs' = Append(procs, x)
  BY DEF StartProcess
<1>3. /\ r.run \in 1 .. MaxRuns /\ received[c] = Files /\ Own(c, Files, r.run)
      /\ hasIntroduced[c]
  BY <1>0, <1>1 DEF Copies, Requests, Allowed
<1>4. x \in Processes
  BY <1>0, <1>3, LinkBoundAssumption DEF Processes, ServerTypeOK
<1>5. /\ x.conn = c /\ x.run = r.run /\ x.saw = disk /\ x.got = Files /\ ~x.done
  BY <1>3
<1> HIDE DEF r, x
<1>6. /\ Len(procs) \in Nat /\ Len(procs') = Len(procs) + 1
      /\ \A p \in 1 .. Len(procs) : procs'[p] = procs[p]
      /\ procs'[Len(procs) + 1] = x /\ procs' \in Seq(Processes)
  <2>1. procs \in Seq(Processes)
    BY <1>0 DEF ServerTypeOK
  <2> QED
    BY <1>2, <1>4, <2>1, AppendProperties, LenProperties
<1>7. /\ toServer'[c] = <<>> /\ \A d \in Conns \ {c} : toServer'[d] = toServer[d]
      /\ \A d \in Conns : \A y : Asks(d, y)' <=> d # c /\ Asks(d, y)
  <2>1. toServer'[c] = <<>> /\ \A d \in Conns \ {c} : toServer'[d] = toServer[d]
    BY <1>0, <1>1 DEF LinkTypeOK
  <2> QED
    BY <2>1, OneRequest DEF Asks
<1>8. \A d \in Conns : /\ TurnReplies(d)' = TurnReplies(d)
                       /\ TurnCallbacks(d)' = TurnCallbacks(d)
                       /\ Path(d)' /\ (Held(d)' <=> Held(d))
                       /\ \A y \in Replies : Holds(d, y)' <=> Holds(d, y)
  BY <1>1, SameTurns
<1>9. /\ \A d \in Conns \ {c} : TurnProcs(d)' = TurnProcs(d)
      /\ \A p \in TurnProcs(c)' : p = Len(procs) + 1
  <2>1. \A d \in Conns \ {c} : \A p : p \in TurnProcs(d)' <=> p \in TurnProcs(d)
    BY <1>5, <1>6 DEF TurnProcs
  <2>2. \A d \in Conns \ {c} : TurnProcs(d)' = TurnProcs(d)
    BY <2>1
  <2>3. \A p \in TurnProcs(c)' : p \in TurnProcs(c) \/ p = Len(procs) + 1
    BY <1>6 DEF TurnProcs
  <2> QED
    BY <1>1, <2>2, <2>3
<1>10. Turns'
  <2>1. connection = c => busy
    BY <1>0, <1>1, OneRequest DEF Turns, Asks
  <2>2. ASSUME NEW d \in Conns
        PROVE  /\ toServer'[d] # <<>> => \E y \in Requests : Asks(d, y)'
               /\ toServer'[d] # <<>> => ~Held(d)' /\ TurnProcs(d)' = {}
               /\ Held(d)' => TurnProcs(d)' = {}
               /\ ~busy' /\ connection' = d =>
                      toServer'[d] = <<>> /\ ~Held(d)' /\ TurnProcs(d)' = {}
               /\ Path(d)' /\ Lone(TurnProcs(d)')
    <3>1. CASE d = c
      BY <1>1, <1>7, <1>8, <1>9, <2>1, <3>1 DEF Lone
    <3>2. CASE d # c
      BY <1>0, <1>7, <1>8, <1>9, <3>2 DEF Turns
    <3> QED
      BY <3>1, <3>2
  <2> QED
    BY <2>2 DEF Turns, Path
<1>11. Links'
  BY <1>1, <1>7, <1>8, ServerLinks
<1>12. Talk'
  <2>1. \A d \in Conns : \A p \in 1 .. Len(procs') : procs'[p].conn = d => hasIntroduced[d]
    <3>1. \A p \in 1 .. Len(procs') : p \in 1 .. Len(procs) \/ procs'[p].conn = c
      BY <1>5, <1>6
    <3>2. \A d \in Conns : \A p \in 1 .. Len(procs) :
              procs'[p].conn = d => hasIntroduced[d]
      BY <1>0, <1>6 DEF Talk
    <3> QED
      BY <1>3, <3>1, <3>2
  <2> QED
    BY <1>0, <1>7, <1>8, <2>1 DEF Talk
<1>13. Runs'
  <2>1. \A d \in Conns : \A n : Executes(d, n)' <=> d # c /\ Executes(d, n)
    BY <1>7 DEF Executes
  <2>2. \A n : Executed(n)' => Executed(n) \/ n = r.run
    <3>1. \A p \in 1 .. Len(procs') : p \in 1 .. Len(procs) \/ procs'[p].run = r.run
      BY <1>5, <1>6
    <3> QED
      BY <1>6, <3>1 DEF Executed
  <2>3. Executes(c, r.run)
    BY <1>1 DEF Executes
  <2>4. ~Executed(r.run) /\ \A d \in Conns \ {c} : ~Executes(d, r.run)
    BY <1>0, <1>3, <2>3 DEF Runs
  <2>5. ExecuteOnce'
    <3>1. \A p \in 1 .. Len(procs) : procs[p].run # r.run
      BY <2>4 DEF Executed
    <3>2. ASSUME NEW p \in 1 .. Len(procs'), NEW q \in 1 .. Len(procs'),
                 procs'[p].run = procs'[q].run
          PROVE  p = q
      BY <1>0, <1>5, <1>6, <3>1, <3>2 DEF Runs, ExecuteOnce
    <3> QED
      BY <3>2 DEF ExecuteOnce
  <2>6. \A p \in 1 .. Len(procs') : procs'[p].run <= runNo
    <3>1. r.run <= runNo
      BY <1>0, <1>1 DEF Runs
    <3> QED
      BY <1>0, <1>5, <1>6, <3>1 DEF Runs
  <2>7. \A d \in Conns : \A n \in 1 .. MaxRuns : Executes(d, n)' =>
            ~Executed(n)' /\ \A e \in Conns \ {d} : ~Executes(e, n)'
    BY <1>0, <2>1, <2>2, <2>4 DEF Runs
  <2>8. ASSUME NEW d \in Conns, connection' = d, Prepares(d)'
        PROVE  ~Executed(runNo)' /\ \A e \in Conns : ~Executes(e, runNo)'
    <3>1. d # c
      BY <1>1, <1>7, <1>8, <2>8 DEF Prepares, Held, Holds
    <3>2. Prepares(d)
      BY <1>7, <1>8, <2>8, <3>1 DEF Prepares
    <3>3. ~Executed(runNo) /\ \A e \in Conns : ~Executes(e, runNo)
      BY <1>0, <2>8, <3>2 DEF Runs
    <3>4. r.run # runNo
      BY <2>3, <3>3
    <3>5. \A e \in Conns : Executes(e, runNo)' => Executes(e, runNo)
      BY <1>7 DEF Executes
    <3>6. Executed(runNo)' => Executed(runNo) \/ runNo = r.run
      BY <2>2
    <3> QED
      BY <3>3, <3>4, <3>5, <3>6
  <2>9. \A d \in Conns : \A y \in Requests : Asks(d, y)' =>
            y.run <= runNo' /\ (connection' = d => y.run = runNo')
    BY <1>0, <1>7 DEF Runs
  <2> QED
    BY <2>5, <2>6, <2>7, <2>8, <2>9 DEF Runs
<1>14. Copies'
  <2>1. ASSUME NEW f \in Files, disk[f].conn = c
        PROVE  disk[f] = [run |-> r.run, conn |-> c]
    <3>1. disk[f] \in Contents /\ disk[f].run = r.run
      BY <1>0, <1>3, <2>1 DEF ServerTypeOK, Own
    <3> QED
      BY <2>1, <3>1 DEF Contents
  <2>2. BuildSeesItsFiles'
    <3> SUFFICES ASSUME NEW p \in 1 .. Len(procs')
                 PROVE  /\ procs'[p].got = Files
                        /\ \A f \in Files : procs'[p].saw[f].conn = procs'[p].conn =>
                               procs'[p].saw[f] =
                                   [run |-> procs'[p].run, conn |-> procs'[p].conn]
      BY DEF BuildSeesItsFiles
    <3>1. CASE p = Len(procs) + 1
      BY <1>5, <1>6, <2>1, <3>1
    <3>2. CASE p \in 1 .. Len(procs)
      BY <1>0, <1>6, <3>2 DEF Copies, BuildSeesItsFiles
    <3> QED
      BY <1>6, <3>1, <3>2
  <2>3. \A d \in Conns :
            /\ \A y \in Requests : Own(d, Files, y.run)' <=> Own(d, Files, y.run)
            /\ Own(d, received[d], runNo)' <=> Own(d, received[d], runNo)
    BY DEF Own
  <2> QED
    BY <1>0, <1>7, <1>8, <2>2, <2>3 DEF Copies
<1>15. TypeOK'
  <2>1. <<>> \in Seq(Requests)
    OBVIOUS
  <2>2. LinkTypeOK'
    BY <1>0, <1>1, <2>1 DEF LinkTypeOK
  <2>3. ClientTypeOK'
    BY DEF IInv, TypeOK, ClientTypeOK
  <2>4. ServerTypeOK'
    BY <1>0, <1>1, <1>6 DEF ServerTypeOK
  <2> QED
    BY <2>2, <2>3, <2>4 DEF TypeOK
<1> QED
  BY <1>10, <1>11, <1>12, <1>13, <1>14, <1>15 DEF IInv

LEMMA ExecuteStep ==
    ASSUME IInv, UNCHANGED clientVars, NEW c \in Conns, HandleExecuteBuild(c)
    PROVE  IInv'
<1> DEFINE r == Head(toServer[c])
<1>1. /\ Dispatch(c, "ExecuteBuild") /\ r \in Requests /\ Asks(c, r)
      /\ r.type = "ExecuteBuild" /\ alive' = alive /\ Allowed(c, "ExecuteBuild")
      /\ HandleExecuteBuildOf(c, r)
  BY Dispatched DEF HandleExecuteBuild
<1>2. folders[c] = "set" /\ hasIntroduced[c]
  BY <1>1 DEF IInv, Talk, Allowed
<1>3. /\ UNCHANGED <<hasIntroduced, user, folders, disk, received, violations>>
      /\ \/ StartProcess(c, r) /\ UNCHANGED <<link, toClient>>
         \/ Reply(c, ProcessError(0)) /\ UNCHANGED procs
  BY <1>1, <1>2 DEF HandleExecuteBuildOf
<1>4. CASE StartProcess(c, r) /\ UNCHANGED <<link, toClient>>
  BY <1>1, <1>3, <1>4, StartStep
<1>5. CASE Reply(c, ProcessError(0)) /\ UNCHANGED procs
  <2> DEFINE m == ProcessError(0)
  <2>1. m \in Replies /\ Counts(m) /\ ~IsReady(m) /\ ~IsAck(m)
    BY ReplyTypes
  <2> HIDE DEF r, m
  <2>2. Answer(c, m)
    BY <1>1, <1>2, <1>3, <1>5, <2>1, Answers DEF m
  <2>3. Talk' /\ Runs' /\ Copies'
    BY <1>1, <1>3, <2>1, <2>2, Known
  <2>4. ServerTypeOK'
    BY <1>1, <1>3, <1>5 DEF IInv, TypeOK, ServerTypeOK
  <2> QED
    BY <2>2, <2>3, <2>4, AnswerStep
<1> QED
  BY <1>3, <1>4, <1>5

\* Processes end and write their output, each in threads of its own.
LEMMA ProcessStep ==
    ASSUME IInv, UNCHANGED clientVars, NEW p \in 1 .. Len(procs),
           ProcessOutput(p) \/ ProcessExited(p)
    PROVE  IInv'
<1> DEFINE c == procs[p].conn
<1>0. LinkTypeOK /\ ServerTypeOK /\ Turns /\ Talk /\ procs \in Seq(Processes)
  BY DEF IInv, TypeOK, ServerTypeOK
<1>1. /\ procs[p] \in Processes /\ Len(procs) \in Nat /\ Len(procs) <= MaxRuns
      /\ p \in 1 .. MaxRuns
  BY <1>0, FewProcesses, LinkBoundAssumption
<1>2. PICK m \in Replies :
          /\ m.type \in {"BuildOutput", "BuildComplete"}
          /\ Reply(procs[p].conn, m)
          /\ Counts(m) => /\ ~procs[p].done
                          /\ procs' = [procs EXCEPT ![p].done = TRUE]
  <2>1. CASE ProcessOutput(p)
    <3> DEFINE m == [type |-> "BuildOutput", of |-> "none", proc |-> p]
    <3>1. m \in Replies /\ ~Counts(m) /\ m.type = "BuildOutput"
      BY <1>1 DEF Replies, Counts
    <3> QED
      BY <2>1, <3>1 DEF ProcessOutput
  <2>2. CASE ProcessExited(p)
    <3> DEFINE m == [type |-> "BuildComplete", of |-> "none", proc |-> p]
    <3>1. m \in Replies /\ m.type = "BuildComplete"
      BY <1>1 DEF Replies
    <3> QED
      BY <2>2, <3>1 DEF ProcessExited
  <2> QED
    BY <2>1, <2>2
<1>3. /\ UNCHANGED <<toServer, connected, callbacks, hasIntroduced, user, folders, disk,
                     alive, received, violations, link>>
      /\ \/ procs' = [procs EXCEPT ![p].out = @ + 1] /\ procs[p].out < MaxOutput
         \/ procs' = [procs EXCEPT ![p].done = TRUE]
      /\ toClient' = IF link[c] = "open"
                     THEN [toClient EXCEPT ![c] = Append(@, m)] ELSE toClient
  BY <1>2 DEF ProcessOutput, ProcessExited, Reply
<1>4. /\ procs' \in Seq(Processes) /\ SameBuilds
      /\ Counts(m) => procs'[p].done
  <2>0. ASSUME procs' = [procs EXCEPT ![p].done = TRUE]
        PROVE  procs'[p] = [procs[p] EXCEPT !.done = TRUE] /\ procs'[p].done
    <3> DEFINE x == [procs[p] EXCEPT !.done = TRUE]
    <3>1. procs' = [procs EXCEPT ![p] = x]
      BY <2>0, Zenon
    <3>2. x.done
      BY <1>1 DEF Processes
    <3> HIDE DEF x
    <3>3. procs'[p] = x
      BY <1>0, <3>1
    <3> QED
      BY <3>2, <3>3 DEF x
  <2>1. /\ Len(procs') = Len(procs)
        /\ \A q \in 1 .. Len(procs) : q # p => procs'[q] = procs[q]
    BY <1>0, <1>3
  <2>2. CASE procs' = [procs EXCEPT ![p].out = @ + 1] /\ procs[p].out < MaxOutput
    <3>1. procs'[p] = [procs[p] EXCEPT !.out = @ + 1]
      BY <1>0, <2>2
    <3>2. procs[p].out + 1 \in 0 .. MaxOutput
      BY <1>1, <2>2, LinkBoundAssumption DEF Processes
    <3>3. procs'[p] \in Processes
      BY <1>1, <3>1, <3>2 DEF Processes
    <3>4. /\ procs'[p].conn = procs[p].conn /\ procs'[p].run = procs[p].run
          /\ procs'[p].got = procs[p].got /\ procs'[p].saw = procs[p].saw
          /\ procs'[p].done = procs[p].done
      BY <1>1, <3>1 DEF Processes
    <3>5. procs' \in Seq(Processes)
      BY <1>0, <2>1, <2>2, <3>3
    <3>6. SameBuilds
      BY <2>1, <3>4 DEF SameBuilds
    <3>7. Counts(m) => procs'[p].done
      BY <1>2, <2>0
    <3> QED
      BY <3>5, <3>6, <3>7
  <2>3. CASE procs' = [procs EXCEPT ![p].done = TRUE]
    <3>1. procs'[p] = [procs[p] EXCEPT !.done = TRUE]
      BY <2>0, <2>3
    <3>2. procs'[p] \in Processes
      BY <1>1, <3>1 DEF Processes
    <3>3. /\ procs'[p].conn = procs[p].conn /\ procs'[p].run = procs[p].run
          /\ procs'[p].got = procs[p].got /\ procs'[p].saw = procs[p].saw
          /\ procs'[p].done
      BY <1>1, <3>1 DEF Processes
    <3>4. procs' \in Seq(Processes)
      BY <1>0, <2>1, <2>3, <3>2
    <3> QED
      BY <2>1, <3>3, <3>4 DEF SameBuilds
  <2> QED
    BY <1>3, <2>2, <2>3
<1>5. c \in Conns /\ hasIntroduced[c]
  BY <1>0, <1>1 DEF Processes, Talk
<1>6. Counts(m) => /\ p \in TurnProcs(c) /\ TurnProcs(c) = {p} /\ toServer[c] = <<>>
                   /\ ~Held(c) /\ (connection = c => busy) /\ procs'[p].done
  <2> SUFFICES ASSUME Counts(m)
               PROVE  /\ p \in TurnProcs(c) /\ TurnProcs(c) = {p} /\ toServer[c] = <<>>
                      /\ ~Held(c) /\ (connection = c => busy) /\ procs'[p].done
    OBVIOUS
  <2>1. p \in TurnProcs(c)
    BY <1>2 DEF TurnProcs
  <2>2. TurnProcs(c) = {p}
    BY <1>0, <1>5, <2>1 DEF Turns, Lone
  <2>3. procs'[p].done
    BY <1>4
  <2> QED
    BY <1>0, <1>5, <2>1, <2>2, <2>3 DEF Turns
<1>7. \A d \in Conns : Path(d)
  BY <1>0, PathOfTurns
<1>8. PICK e \in Conns : e = c
  BY <1>5
<1>9. /\ \A d \in Conns : TurnCallbacks(d)' = TurnCallbacks(d)
      /\ Path(e)'
      /\ \A d \in Conns \ {e} : /\ TurnReplies(d)' = TurnReplies(d)
                                /\ \A x \in Replies : Holds(d, x)' = Holds(d, x)
      /\ \A x \in Replies : Holds(e, x)' =>
             Holds(e, x) \/ (x = m /\ Counts(m) /\ link[e] = "open")
      /\ TurnReplies(e)' # {} => TurnReplies(e) # {} \/ (Counts(m) /\ link[e] = "open")
  <2>1. /\ LinkTypeOK /\ Path(e) /\ (Counts(m) => ~Held(e))
        /\ toClient' = IF link[e] = "open"
                       THEN [toClient EXCEPT ![e] = Append(@, m)] ELSE toClient
        /\ callbacks' = callbacks
    BY <1>0, <1>3, <1>6, <1>7, <1>8
  <2> HIDE DEF c
  <2> QED
    BY <2>1, ReplyPath
<1>10. \A d \in Conns : TurnProcs(d)' \subseteq TurnProcs(d)
  BY <1>4 DEF SameBuilds, TurnProcs
<1>11. Counts(m) => TurnProcs(e)' = {}
  <2> SUFFICES ASSUME Counts(m) PROVE TurnProcs(e)' = {}
    OBVIOUS
  <2>1. \A q \in TurnProcs(e)' : q = p /\ ~procs'[q].done
    BY <1>6, <1>8, <1>10 DEF TurnProcs
  <2> QED
    BY <1>6, <2>1
<1> HIDE DEF c
<1>12. \A d \in Conns \ {e} : Quieter(d)
  <2>1. \A d \in Conns \ {e} : Path(d)' /\ (Held(d)' <=> Held(d))
    BY <1>7, <1>9 DEF Path, Held
  <2> QED
    BY <1>0, <1>3, <1>9, <1>10, <2>1 DEF Quieter, Turns, Talk
<1>13. Quieter(e)
  <2>1. \A x \in Replies : Holds(e, x)' /\ IsAck(x) => Holds(e, x)
    BY <1>2, <1>9 DEF IsAck
  <2>2. Held(e)' => Held(e) \/ Counts(m)
    BY <1>9 DEF Held
  <2>3. Held(e)' => hasIntroduced[e] /\ TurnProcs(e)' = {} /\ toServer'[e] = <<>>
    BY <1>0, <1>3, <1>5, <1>6, <1>8, <1>10, <1>11, <2>2 DEF Turns
  <2>4. ~busy' /\ connection' = e => /\ toServer'[e] = <<>> /\ ~Held(e)'
                                     /\ TurnProcs(e)' = {} /\ hasIntroduced[e]
    BY <1>0, <1>3, <1>6, <1>8, <1>10, <2>2 DEF Turns, Talk
  <2> QED
    BY <1>3, <1>9, <2>1, <2>3, <2>4 DEF Quieter
<1>14. Turns' /\ Talk' /\ Runs' /\ Copies'
  <2>1. exception' # "no connection"
    BY <1>0 DEF Talk
  <2>2. \A d \in Conns : Quieter(d)
    BY <1>12, <1>13
  <2> QED
    BY <1>3, <1>4, <2>1, <2>2, Fewer
<1>15. Links'
  <2>1. \A d \in Conns : TurnReplies(d)' # {} => TurnReplies(d) # {} \/ link[d] = "open"
    BY <1>9
  <2> QED
    BY <1>3, <2>1, ServerLinks
<1>16. TypeOK'
  <2>1. Append(toClient[e], m) \in Seq(Replies)
    BY <1>0, AppendProperties DEF LinkTypeOK
  <2>2. LinkTypeOK'
    BY <1>0, <1>3, <1>8, <2>1 DEF LinkTypeOK
  <2>3. ClientTypeOK'
    BY DEF IInv, TypeOK, ClientTypeOK
  <2>4. ServerTypeOK'
    BY <1>0, <1>3, <1>4 DEF ServerTypeOK
  <2> QED
    BY <2>2, <2>3, <2>4 DEF TypeOK
<1> QED
  BY <1>14, <1>15, <1>16 DEF IInv

\* The handler goes on to read the output of its process, or sends a late error.
LEMMA BeginStep ==
    ASSUME IInv, UNCHANGED clientVars, NEW p \in 1 .. Len(procs), BeginReading(p)
    PROVE  IInv'
<1>0. LinkTypeOK /\ ServerTypeOK /\ Turns /\ Talk /\ procs \in Seq(Processes)
  BY DEF IInv, TypeOK, ServerTypeOK
<1>1. /\ procs[p] \in Processes /\ Len(procs) \in Nat /\ p \in 1 .. MaxRuns
      /\ MaxRuns \in Nat
  BY <1>0, FewProcesses, LinkBoundAssumption
<1>2. PICK c \in Conns : c = procs[p].conn
  BY <1>1 DEF Processes
<1>3. PICK x \in Processes :
          /\ procs' = [procs EXCEPT ![p] = x]
          /\ x.conn = procs[p].conn /\ x.run = procs[p].run /\ x.got = procs[p].got
          /\ x.saw = procs[p].saw /\ x.done = procs[p].done
  <2>1. CASE procs[p].done
    <3> DEFINE x == [procs[p] EXCEPT !.left = TRUE]
    <3>1. x \in Processes
      BY <1>1 DEF Processes
    <3>2. procs' = [procs EXCEPT ![p] = x]
      BY <2>1, Zenon DEF BeginReading
    <3>3. /\ x.conn = procs[p].conn /\ x.run = procs[p].run /\ x.got = procs[p].got
          /\ x.saw = procs[p].saw /\ x.done = procs[p].done
      BY <1>1 DEF Processes
    <3> QED
      BY <3>1, <3>2, <3>3
  <2>2. CASE ~procs[p].done
    <3> DEFINE s == IF procs[p].reads = {} THEN "output" ELSE "error"
               x == [procs[p] EXCEPT !.reads = @ \cup {s}, !.left = (procs[p].reads # {})]
    <3>1. procs[p].reads \cup {s} \in SUBSET {"output", "error"}
      BY <1>1 DEF Processes
    <3>2. x \in Processes
      BY <1>1, <3>1 DEF Processes
    <3>3. procs' = [procs EXCEPT ![p] = x]
      BY <1>1, <2>2 DEF BeginReading
    <3>4. /\ x.conn = procs[p].conn /\ x.run = procs[p].run /\ x.got = procs[p].got
          /\ x.saw = procs[p].saw /\ x.done = procs[p].done
      BY <1>1 DEF Processes
    <3> QED
      BY <3>2, <3>3, <3>4
  <2> QED
    BY <2>1, <2>2
<1>4. procs' \in Seq(Processes) /\ SameBuilds
  <2>1. /\ procs' \in Seq(Processes) /\ Len(procs') = Len(procs) /\ procs'[p] = x
        /\ \A q \in 1 .. Len(procs) : q # p => procs'[q] = procs[q]
    BY <1>0, <1>3
  <2> QED
    BY <1>3, <2>1 DEF SameBuilds
<1>5. /\ UNCHANGED <<link, toServer, connected, callbacks, hasIntroduced, user, folders,
                     disk, alive, received, violations>>
      /\ \/ toClient' = toClient
         \/ toClient' = IF link[c] = "open"
                        THEN [toClient EXCEPT ![c] = Append(@, ProcessError(p))]
                        ELSE toClient
  BY <1>2 DEF BeginReading, Reply
<1>6. ProcessError(p) \in Replies /\ ~Counts(ProcessError(p))
  BY <1>1 DEF ProcessError, Replies, Counts, Late
<1>7. \A d \in Conns : Path(d)
  BY <1>0, PathOfTurns
<1>8. \A d \in Conns : /\ Path(d)' /\ (Held(d)' => Held(d))
                       /\ TurnReplies(d)' # {} => TurnReplies(d) # {}
                       /\ \A m \in Replies : Holds(d, m)' => Holds(d, m)
  <2>1. CASE toClient' = toClient
    BY <1>5, <2>1, SameTurns
  <2>2. CASE toClient' = IF link[c] = "open"
                         THEN [toClient EXCEPT ![c] = Append(@, ProcessError(p))]
                         ELSE toClient
    <3> DEFINE m == ProcessError(p)
    <3> HIDE DEF m
    <3>1. /\ m \in Replies /\ ~Counts(m)
          /\ toClient' = IF link[c] = "open"
                         THEN [toClient EXCEPT ![c] = Append(@, m)] ELSE toClient
          /\ callbacks' = callbacks
      BY <1>5, <1>6, <2>2 DEF m
    <3>2. /\ Path(c)'
          /\ \A d \in Conns : TurnCallbacks(d)' = TurnCallbacks(d)
          /\ \A d \in Conns \ {c} : /\ TurnReplies(d)' = TurnReplies(d)
                                    /\ \A y \in Replies : Holds(d, y)' = Holds(d, y)
          /\ \A y \in Replies : Holds(c, y)' => Holds(c, y)
          /\ TurnReplies(c)' # {} => TurnReplies(c) # {}
      BY <1>0, <1>7, <3>1, ReplyPath
    <3> QED
      BY <1>7, <3>2 DEF Path, Held
  <2> QED
    BY <1>5, <2>1, <2>2
<1>9. \A d \in Conns : TurnProcs(d)' \subseteq TurnProcs(d)
  BY <1>4 DEF SameBuilds, TurnProcs
<1>10. Turns' /\ Talk' /\ Runs' /\ Copies'
  <2>1. exception' # "no connection"
    BY <1>0 DEF Talk
  <2>2. \A d \in Conns : Quieter(d)
    BY <1>0, <1>5, <1>8, <1>9 DEF Quieter, Turns, Talk
  <2> QED
    BY <1>4, <1>5, <2>1, <2>2, Fewer
<1>11. Links'
  BY <1>5, <1>8, ServerLinks
<1>12. TypeOK'
  <2>1. Append(toClient[c], ProcessError(p)) \in Seq(Replies)
    BY <1>0, <1>6, AppendProperties DEF LinkTypeOK
  <2>2. LinkTypeOK'
    BY <1>0, <1>5, <2>1 DEF LinkTypeOK
  <2>3. ClientTypeOK'
    BY DEF IInv, TypeOK, ClientTypeOK
  <2>4. ServerTypeOK'
    BY <1>0, <1>4, <1>5 DEF ServerTypeOK
  <2> QED
    BY <2>2, <2>3, <2>4 DEF TypeOK
<1> QED
  BY <1>10, <1>11, <1>12 DEF IInv

LEMMA ServerStep ==
    ASSUME IInv, Server
    PROVE  IInv'
<1>1. ServerNext /\ UNCHANGED clientVars
  BY DEF Server
<1>2. CASE \E c \in Conns : Handle(c)
  BY <1>1, <1>2, IntroductionStep, SetBuildStep, FileContentsStep, ExecuteStep DEF Handle
<1>3. CASE \E p \in 1 .. Len(procs) : ProcessOutput(p) \/ ProcessExited(p)
  BY <1>1, <1>3, ProcessStep
<1>5. CASE \E p \in 1 .. Len(procs) : BeginReading(p)
  BY <1>1, <1>5, BeginStep
<1>4. CASE \/ \E c \in Conns : AcceptThrows(c)
           \/ \E p \in 1 .. Len(procs) : ProcessThrows(p)
  <2>1. Quiet /\ UNCHANGED <<linkVars, announced, sent, user>>
    BY <1>1, <1>4 DEF Quiet, AcceptThrows, ProcessThrows
  <2>2. prompt' \in {"none", "connections", "password"} /\ alive' \in BOOLEAN
    BY <1>1, <1>4 DEF AcceptThrows, ProcessThrows, IInv, TypeOK, ClientTypeOK
  <2> QED
    BY <2>1, <2>2, PanelStep
<1> QED
  BY <1>1, <1>2, <1>3, <1>4, <1>5 DEF ServerNext

LEMMA StepIInv == Inv /\ [Next]_vars => IInv'
<1> SUFFICES ASSUME Inv, [Next]_vars PROVE IInv'
  OBVIOUS
<1>0. IInv
  BY DEF Inv
<1>1. CASE Client
  BY <1>1, ClientStep
<1>2. CASE Server
  BY <1>0, <1>2, ServerStep
<1>3. CASE Network
  BY <1>0, <1>3, NetStep, ReceiveStep, ClosedStep, BreakStep DEF Network, NetNext
<1>4. CASE Breaks
  BY <1>0, <1>4, BreakStep DEF Breaks
<1>5. CASE UNCHANGED vars
  <2>1. Quiet /\ UNCHANGED <<linkVars, announced, sent, user>>
    BY <1>0, <1>5 DEF vars, Quiet
  <2>2. prompt' \in {"none", "connections", "password"} /\ alive' \in BOOLEAN
    BY <1>0, <1>5 DEF vars, IInv, TypeOK, ClientTypeOK, ServerTypeOK
  <2> QED
    BY <1>0, <2>1, <2>2, PanelStep
<1> QED
  BY <1>1, <1>2, <1>3, <1>4, <1>5 DEF Next
-----------------------------------------------------------------------------
(***************************************************************************)
(* Late errors: each of them comes behind the end of its run, and before   *)
(* any acknowledgement of the next.                                        *)
(***************************************************************************)
LEMMA InitLates == Init => Lates
<1> SUFFICES ASSUME Init PROVE Lates
  OBVIOUS
<1>1. callbacks = <<>> /\ \A c \in Conns : connection # c
  BY LinkBoundAssumption DEF Init, LinkInit, ClientInit, Conns, NoConn
<1> QED
  BY <1>1 DEF Lates, LateCallbacks

\* Nothing new is said.
LEMMA SameLates ==
    ASSUME Lates, UNCHANGED <<toClient, callbacks, procs, connection, busy, announced>>,
           \A c \in Conns : link'[c] = "open" => link[c] = "open" \/ Unread(c) = {}
    PROVE  Lates'
<1>1. LateCallbacks'
  BY DEF Lates, LateCallbacks, Waiting
<1>2. ASSUME NEW c \in Conns, connection' = c
      PROVE  LateReplies(c)' /\ LateErrors(c)'
  <2>1. LateReplies(c) /\ LateErrors(c)
    BY <1>2 DEF Lates
  <2>2. /\ EndQueued' = EndQueued /\ AckQueued' = AckQueued /\ Waiting' = Waiting
        /\ EndComes(c)' = EndComes(c) /\ AckComes(c)' = AckComes(c)
        /\ Executing(c)' = Executing(c) /\ Unread(c)' = Unread(c)
    BY DEF EndQueued, AckQueued, EndComes, AckComes, Executing, Unread, Waiting
  <2>3. LateReplies(c)'
    BY <2>1, <2>2 DEF LateReplies
  <2>4. LateErrors(c)'
    BY <2>1, <2>2 DEF LateErrors
  <2> QED
    BY <2>3, <2>4
<1> QED
  BY <1>1, <1>2 DEF Lates

\* A callback is handled.  An acknowledgement may be the one after which the
\* build is said to be started; it has no late error behind it.
LEMMA TakenLates ==
    ASSUME IInv, Lates, callbacks # <<>>, callbacks' = Tail(callbacks),
           UNCHANGED <<toClient, procs, link>>, connection' \in {connection, NoConn},
           \/ Waiting' => Waiting /\ ~Ends(Head(callbacks).msg)
           \/ IsAck(Head(callbacks).msg)
    PROVE  Lates'
<1>1. /\ Len(callbacks) \in Nat /\ Len(callbacks) >= 1 /\ Head(callbacks) = callbacks[1]
      /\ Len(callbacks') = Len(callbacks) - 1
      /\ \A i \in 1 .. Len(callbacks') : callbacks'[i] = callbacks[i + 1]
  <2>1. callbacks \in Seq([conn : Conns, msg : Replies \cup {Closed}])
    BY DEF IInv, TypeOK, LinkTypeOK
  <2>2. /\ Len(callbacks) \in Nat /\ Len(callbacks) >= 1
        /\ Head(callbacks) = callbacks[1]
    BY <2>1, EmptySeq
  <2> QED
    BY <2>1, <2>2, HeadTailProperties
<1>2. AckQueued' => AckQueued
  BY <1>1 DEF AckQueued
<1>3. ~Ends(Head(callbacks).msg) /\ EndQueued => EndQueued'
  <2> SUFFICES ASSUME ~Ends(Head(callbacks).msg), EndQueued PROVE EndQueued'
    OBVIOUS
  <2>1. PICK i \in 1 .. Len(callbacks) : Ends(callbacks[i].msg)
    BY DEF EndQueued
  <2>2. i - 1 \in 1 .. Len(callbacks') /\ callbacks'[i - 1] = callbacks[i]
    BY <1>1, <2>1
  <2> QED
    BY <2>1, <2>2 DEF EndQueued
<1>4. LateCallbacks'
  <2> SUFFICES ASSUME NEW i \in 1 .. Len(callbacks'), Late(callbacks'[i].msg)
               PROVE  /\ Waiting' => \E j \in 1 .. i - 1 : Ends(callbacks'[j].msg)
                      /\ \A j \in 1 .. i - 1 : ~IsAck(callbacks'[j].msg)
    BY DEF LateCallbacks
  <2>1. i + 1 \in 1 .. Len(callbacks) /\ Late(callbacks[i + 1].msg)
    BY <1>1
  <2>2. /\ Waiting => \E j \in 1 .. i : Ends(callbacks[j].msg)
        /\ \A j \in 1 .. i : ~IsAck(callbacks[j].msg)
    BY <2>1 DEF Lates, LateCallbacks
  <2>3. \A j \in 1 .. i - 1 : ~IsAck(callbacks'[j].msg)
    <3> SUFFICES ASSUME NEW j \in 1 .. i - 1 PROVE ~IsAck(callbacks'[j].msg)
      OBVIOUS
    <3>1. j + 1 \in 1 .. i /\ callbacks'[j] = callbacks[j + 1]
      BY <1>1
    <3> QED
      BY <2>2, <3>1
  <2>4. ASSUME Waiting' PROVE \E j \in 1 .. i - 1 : Ends(callbacks'[j].msg)
    <3>1. ~IsAck(Head(callbacks).msg)
      BY <1>1, <2>2
    <3>2. Waiting /\ ~Ends(callbacks[1].msg)
      BY <1>1, <2>4, <3>1
    <3>3. PICK j \in 1 .. i : Ends(callbacks[j].msg)
      BY <2>2, <3>2
    <3>4. j - 1 \in 1 .. i - 1 /\ callbacks'[j - 1] = callbacks[j]
      BY <1>1, <3>2, <3>3
    <3> QED
      BY <3>3, <3>4
  <2> QED
    BY <2>3, <2>4
<1>5. ASSUME NEW c \in Conns, connection' = c
      PROVE  LateReplies(c)' /\ LateErrors(c)'
  <2>0. connection = c
    BY <1>5, LinkBoundAssumption DEF Conns, NoConn
  <2>1. LateReplies(c) /\ LateErrors(c)
    BY <2>0 DEF Lates
  <2>2. /\ Executing(c)' = Executing(c) /\ Unread(c)' = Unread(c)
        /\ Unread(c) # {} => Executing(c)
    BY DEF Executing, Unread
  <2>3. AckComes(c)' => AckComes(c)
    BY <1>2 DEF AckComes
  <2>4. CASE IsAck(Head(callbacks).msg)
    <3>1. AckQueued
      BY <1>1, <2>4 DEF AckQueued
    <3>2. \A i \in 1 .. Len(toClient[c]) : ~Late(toClient[c][i])
      BY <2>1, <3>1 DEF LateReplies
    <3>3. ~Executing(c)
      BY <2>1, <3>1 DEF LateErrors, AckComes
    <3> QED
      BY <2>2, <3>2, <3>3 DEF LateReplies, LateErrors
  <2>5. CASE Waiting' => Waiting /\ ~Ends(Head(callbacks).msg)
    <3>1. LateReplies(c)'
      BY <1>2, <1>3, <2>1, <2>5 DEF LateReplies
    <3>2. Waiting' /\ EndComes(c) => EndComes(c)'
      BY <1>3, <2>5 DEF EndComes
    <3> QED
      BY <2>1, <2>2, <2>3, <2>5, <3>1, <3>2 DEF LateErrors
  <2> QED
    BY <2>4, <2>5
<1> QED
  BY <1>4, <1>5 DEF Lates

\* A run begins, on the same connection or on one of which nothing is heard.
LEMMA RunLates ==
    ASSUME Lates, UNCHANGED <<toClient, callbacks, procs>>, ~Waiting',
           connection' = connection \/ ~AckQueued,
           \A c \in Conns : connection' = c => connection = c \/ ~AckComes(c)
    PROVE  Lates'
<1>1. LateCallbacks'
  BY DEF Lates, LateCallbacks
<1>2. ASSUME NEW c \in Conns, connection' = c
      PROVE  LateReplies(c)' /\ LateErrors(c)'
  <2>1. /\ EndQueued' = EndQueued /\ AckQueued' = AckQueued
        /\ EndComes(c)' = EndComes(c) /\ AckComes(c)' = AckComes(c)
        /\ Executing(c)' = Executing(c)
    BY DEF EndQueued, AckQueued, EndComes, AckComes, Executing
  <2>2. CASE connection = c
    BY <2>1, <2>2 DEF Lates, LateReplies, LateErrors
  <2>3. CASE ~AckComes(c)
    BY <2>1, <2>3 DEF AckComes, LateReplies, LateErrors
  <2> QED
    BY <1>2, <2>2, <2>3
<1> QED
  BY <1>1, <1>2 DEF Lates

\* Something is queued for the main thread: what came of the connection, or
\* that it is closed.
LEMMA QueuedLates ==
    ASSUME IInv, Lates, NEW c \in Conns,
           UNCHANGED <<procs, connection, busy, announced>>,
           NetReceive(c) \/ NetClosed(c)
    PROVE  Lates'
<1> DEFINE n == Len(callbacks)
           m == callbacks'[n + 1].msg
<1>0. /\ n \in Nat /\ Len(callbacks') = n + 1
      /\ \A i \in 1 .. n : callbacks'[i] = callbacks[i]
  <2>1. \A d \in Conns : Path(d)
    BY PathOfTurns DEF IInv
  <2> QED
    BY <2>1, ReceivePath, ClosedPath DEF IInv, TypeOK
<1>1. EndQueued => EndQueued'
  BY <1>0 DEF EndQueued
<1>2. AckQueued' => AckQueued \/ IsAck(m)
  BY <1>0 DEF AckQueued
<1>3. Waiting' = Waiting
  BY DEF Waiting
<1>4. \A i \in 1 .. n : Late(callbacks'[i].msg) =>
          /\ Waiting => \E j \in 1 .. i - 1 : Ends(callbacks'[j].msg)
          /\ \A j \in 1 .. i - 1 : ~IsAck(callbacks'[j].msg)
  <2> SUFFICES ASSUME NEW i \in 1 .. n, Late(callbacks'[i].msg)
               PROVE  /\ Waiting => \E j \in 1 .. i - 1 : Ends(callbacks'[j].msg)
                      /\ \A j \in 1 .. i - 1 : ~IsAck(callbacks'[j].msg)
    OBVIOUS
  <2>1. \A j \in 1 .. i - 1 : callbacks'[j] = callbacks[j]
    BY <1>0
  <2> QED
    BY <1>0, <2>1 DEF Lates, LateCallbacks
<1>5. CASE NetClosed(c)
  <2>1. m = Closed
    <3>1. \A d \in Conns : Path(d)
      BY PathOfTurns DEF IInv
    <3>2. callbacks'[Len(callbacks) + 1] = [conn |-> c, msg |-> Closed]
      BY <1>5, <3>1, ClosedPath DEF IInv, TypeOK
    <3> QED
      BY <3>2
  <2>2. ~Late(m) /\ ~IsAck(m)
    BY <2>1 DEF Closed, Late, IsAck
  <2>3. LateCallbacks'
    BY <1>0, <1>3, <1>4, <2>2 DEF LateCallbacks
  <2>4. ASSUME NEW d \in Conns, connection' = d
        PROVE  LateReplies(d)' /\ LateErrors(d)'
    <3>1. LateReplies(d) /\ LateErrors(d)
      BY <2>4 DEF Lates
    <3>2. /\ toClient' = toClient /\ Executing(d)' = Executing(d)
          /\ link'[d] = "open" => link[d] = "open"
      BY <1>5 DEF NetClosed, Executing, IInv, TypeOK, LinkTypeOK
    <3>3. LateReplies(d)'
      BY <1>1, <1>2, <1>3, <2>2, <3>1, <3>2 DEF LateReplies
    <3>4. LateErrors(d)'
      BY <1>1, <1>2, <1>3, <2>2, <3>1, <3>2 DEF LateErrors, EndComes, AckComes, Unread
    <3> QED
      BY <3>3, <3>4
  <2> QED
    BY <2>3, <2>4 DEF Lates
<1>6. CASE NetReceive(c)
  <2>1. /\ connection = c /\ connected[c] /\ link' = link
    BY <1>6 DEF NetReceive, IInv, Links
  <2>2. /\ Len(toClient[c]) \in Nat /\ Len(toClient[c]) >= 1
        /\ Len(toClient'[c]) = Len(toClient[c]) - 1 /\ m = toClient[c][1]
        /\ \A i \in 1 .. Len(toClient'[c]) : toClient'[c][i] = toClient[c][i + 1]
    <3>1. /\ toClient[c] \in Seq(Replies) /\ toClient[c] # <<>>
          /\ toClient'[c] = Tail(toClient[c])
      BY <1>6 DEF NetReceive, IInv, TypeOK, LinkTypeOK
    <3>2. /\ Len(toClient[c]) \in Nat /\ Len(toClient[c]) >= 1
          /\ Head(toClient[c]) = toClient[c][1] /\ toClient[c][1] \in Replies
      BY <3>1, EmptySeq
    <3>3. m = toClient[c][1]
      <4> DEFINE b == [conn |-> c, msg |-> toClient[c][1]]
      <4>1. callbacks' = Append(callbacks, b)
        BY <1>6, <3>2 DEF NetReceive
      <4>2. /\ b \in [conn : Conns, msg : Replies \cup {Closed}]
            /\ b.msg = toClient[c][1]
        BY <3>2
      <4>3. callbacks \in Seq([conn : Conns, msg : Replies \cup {Closed}])
        BY DEF IInv, TypeOK, LinkTypeOK
      <4> HIDE DEF b
      <4> QED
        BY <4>1, <4>2, <4>3, AppendProperties
    <3> QED
      BY <3>1, <3>2, <3>3, HeadTailProperties
  <2> HIDE DEF m
  <2>3. LateReplies(c) /\ LateErrors(c)
    BY <2>1 DEF Lates
  <2>4. LateCallbacks'
    <3>1. Late(m) => /\ Waiting => EndQueued
                     /\ ~AckQueued
      BY <2>2, <2>3 DEF LateReplies
    <3>2. Late(m) => /\ Waiting => \E j \in 1 .. n : Ends(callbacks'[j].msg)
                     /\ \A j \in 1 .. n : ~IsAck(callbacks'[j].msg)
      BY <1>0, <3>1 DEF EndQueued, AckQueued
    <3> SUFFICES ASSUME NEW i \in 1 .. Len(callbacks'), Late(callbacks'[i].msg)
                 PROVE  /\ Waiting' => \E j \in 1 .. i - 1 : Ends(callbacks'[j].msg)
                        /\ \A j \in 1 .. i - 1 : ~IsAck(callbacks'[j].msg)
      BY DEF LateCallbacks
    <3>3. CASE i \in 1 .. n
      BY <1>3, <1>4, <3>3
    <3>4. CASE i = n + 1
      BY <1>0, <1>3, <3>2, <3>4 DEF m
    <3> QED
      BY <1>0, <3>3, <3>4
  <2>5. Ends(m) => EndQueued'
    BY <1>0 DEF EndQueued, m
  <2>6. LateReplies(c)'
    <3> SUFFICES ASSUME NEW i \in 1 .. Len(toClient'[c]), Late(toClient'[c][i])
                 PROVE  /\ Waiting => EndQueued' \/ \E j \in 1 .. i - 1 : Ends(toClient'[c][j])
                        /\ ~AckQueued' /\ \A j \in 1 .. i - 1 : ~IsAck(toClient'[c][j])
      BY <1>3 DEF LateReplies
    <3>1. /\ Waiting => EndQueued \/ \E j \in 1 .. i : Ends(toClient[c][j])
          /\ ~AckQueued /\ \A j \in 1 .. i : ~IsAck(toClient[c][j])
      <4>1. /\ i + 1 \in 1 .. Len(toClient[c]) /\ Late(toClient[c][i + 1])
            /\ (i + 1) - 1 = i
        BY <2>2
      <4> QED
        BY <2>3, <4>1 DEF LateReplies
    <3>2. \A j \in 1 .. i - 1 : j + 1 \in 1 .. i /\ toClient'[c][j] = toClient[c][j + 1]
      BY <2>2
    <3>3. ~AckQueued' /\ \A j \in 1 .. i - 1 : ~IsAck(toClient'[c][j])
      BY <1>2, <2>2, <3>1, <3>2
    <3>4. ASSUME Waiting PROVE EndQueued' \/ \E j \in 1 .. i - 1 : Ends(toClient'[c][j])
      <4>1. CASE EndQueued
        BY <1>1, <4>1
      <4>2. CASE \E j \in 1 .. i : Ends(toClient[c][j])
        <5>1. PICK j \in 1 .. i : Ends(toClient[c][j])
          BY <4>2
        <5>2. CASE j = 1
          BY <2>2, <2>5, <5>1, <5>2
        <5>3. CASE j # 1
          <6>1. j - 1 \in 1 .. i - 1 /\ toClient'[c][j - 1] = toClient[c][j]
            BY <2>2, <5>1, <5>3
          <6> QED
            BY <5>1, <6>1
        <5> QED
          BY <5>2, <5>3
      <4> QED
        BY <3>1, <3>4, <4>1, <4>2
    <3> QED
      BY <3>3, <3>4
  <2>7. LateErrors(c)'
    <3>1. Executing(c)' = Executing(c)
      BY DEF Executing
    <3>2. AckComes(c)' => AckComes(c)
      <4>1. CASE AckQueued'
        <5>1. 1 \in 1 .. Len(toClient[c])
          BY <2>2
        <5> QED
          BY <1>2, <2>2, <4>1, <5>1 DEF AckComes
      <4>2. CASE \E i \in 1 .. Len(toClient'[c]) : IsAck(toClient'[c][i])
        <5>1. PICK i \in 1 .. Len(toClient'[c]) : IsAck(toClient'[c][i])
          BY <4>2
        <5>2. i + 1 \in 1 .. Len(toClient[c]) /\ toClient'[c][i] = toClient[c][i + 1]
          BY <2>2, <5>1
        <5> QED
          BY <5>1, <5>2 DEF AckComes
      <4> QED
        BY <4>1, <4>2 DEF AckComes
    <3>3. EndComes(c) => EndComes(c)'
      <4>1. CASE EndQueued
        BY <1>1, <4>1 DEF EndComes
      <4>2. CASE \E i \in 1 .. Len(toClient[c]) : Ends(toClient[c][i])
        <5>1. PICK i \in 1 .. Len(toClient[c]) : Ends(toClient[c][i])
          BY <4>2
        <5>2. CASE i = 1
          BY <2>2, <2>5, <5>1, <5>2 DEF EndComes
        <5>3. CASE i # 1
          <6>1. i - 1 \in 1 .. Len(toClient'[c]) /\ toClient'[c][i - 1] = toClient[c][i]
            BY <2>2, <5>1, <5>3
          <6> QED
            BY <5>1, <6>1 DEF EndComes
        <5> QED
          BY <5>2, <5>3
      <4> QED
        BY <4>1, <4>2 DEF EndComes
    <3> QED
      BY <1>3, <2>1, <2>3, <3>1, <3>2, <3>3 DEF LateErrors, Unread
  <2>8. \A d \in Conns : connection' = d => d = c
    BY <2>1
  <2> QED
    BY <2>4, <2>6, <2>7, <2>8 DEF Lates
<1> QED
  BY <1>5, <1>6

\* A connection breaks: what arrives yet is a prefix of what was sent.
LEMMA BrokenLates ==
    ASSUME IInv, Lates, NEW c \in Conns, Break(c),
           UNCHANGED <<procs, connection, busy, announced>>
    PROVE  Lates'
<1>1. PICK n \in 0 .. Len(toClient[c]) : toClient'[c] = SubSeq(toClient[c], 1, n)
  BY DEF Break, Prefixes, IInv, TypeOK, LinkTypeOK
<1>2. /\ Len(toClient'[c]) = n /\ n \in Nat /\ n <= Len(toClient[c])
      /\ Len(toClient[c]) \in Nat
      /\ \A i \in 1 .. n : toClient'[c][i] = toClient[c][i]
  <2>1. toClient[c] \in Seq(Replies)
    BY DEF IInv, TypeOK, LinkTypeOK
  <2> QED
    BY <1>1, <2>1
<1>3. /\ callbacks' = callbacks /\ link'[c] = "down"
      /\ \A d \in Conns \ {c} : toClient'[d] = toClient[d] /\ link'[d] = link[d]
  BY DEF Break, IInv, TypeOK, LinkTypeOK
<1>4. LateCallbacks'
  BY <1>3 DEF Lates, LateCallbacks, Waiting
<1>5. ASSUME NEW d \in Conns, connection' = d
      PROVE  LateReplies(d)' /\ LateErrors(d)'
  <2>1. LateReplies(d) /\ LateErrors(d)
    BY <1>5 DEF Lates
  <2>2. /\ EndQueued' = EndQueued /\ AckQueued' = AckQueued /\ Waiting' = Waiting
        /\ Executing(d)' = Executing(d) /\ Unread(d)' = Unread(d)
    BY <1>3 DEF EndQueued, AckQueued, Executing, Unread, Waiting
  <2>3. CASE d = c
    <3>1. \A i \in 1 .. n : \A j \in 1 .. i - 1 : j \in 1 .. n
      OBVIOUS
    <3>2. LateReplies(d)'
      BY <1>2, <2>1, <2>2, <2>3, <3>1 DEF LateReplies
    <3>3. AckComes(d)' => AckComes(d)
      BY <1>2, <2>2, <2>3 DEF AckComes
    <3> QED
      BY <1>3, <2>1, <2>2, <2>3, <3>2, <3>3 DEF LateErrors
  <2>4. CASE d # c
    BY <1>3, <2>1, <2>2, <2>4 DEF LateReplies, LateErrors, EndComes, AckComes
  <2> QED
    BY <2>3, <2>4
<1> QED
  BY <1>4, <1>5 DEF Lates

\* The server sends m on c: the answer to a request, an event of a process, or
\* a late error.
LEMMA SentLates ==
    ASSUME IInv, Lates, NEW c \in Conns, NEW m \in Replies,
           UNCHANGED <<callbacks, connection, busy, announced>>,
           toClient' = IF link[c] = "open"
                       THEN [toClient EXCEPT ![c] = Append(@, m)] ELSE toClient,
           \A d \in Conns : link'[d] = "open" => link[d] = "open",
           \A d \in Conns : Executing(d)' => Executing(d),
           \A d \in Conns : Unread(d)' # {} => Unread(d) # {} \/ (d = c /\ Ends(m)),
           IsAck(m) => ~Executing(c),
           Late(m) => Unread(c) # {}
    PROVE  Lates'
<1>1. LateCallbacks'
  BY DEF Lates, LateCallbacks, Waiting
<1>2. ASSUME NEW d \in Conns, connection' = d
      PROVE  LateReplies(d)' /\ LateErrors(d)'
  <2>1. LateReplies(d) /\ LateErrors(d)
    BY <1>2 DEF Lates
  <2>2. EndQueued' = EndQueued /\ AckQueued' = AckQueued /\ Waiting' = Waiting
    BY DEF EndQueued, AckQueued, Waiting
  <2>3. CASE d = c /\ link[c] = "open"
    <3>1. /\ Len(toClient[c]) \in Nat /\ Len(toClient'[c]) = Len(toClient[c]) + 1
          /\ \A i \in 1 .. Len(toClient[c]) : toClient'[c][i] = toClient[c][i]
          /\ toClient'[c][Len(toClient[c]) + 1] = m
      <4>1. /\ toClient[c] \in Seq(Replies) /\ toClient'[c] = Append(toClient[c], m)
        BY <2>3 DEF IInv, TypeOK, LinkTypeOK
      <4> QED
        BY <4>1, AppendProperties, LenProperties
    <3>2. Late(m) => /\ Waiting => EndComes(c)
                     /\ ~AckComes(c)
      BY <2>1, <2>3 DEF LateErrors, Executing, Unread
    <3>3. LateReplies(c)'
      <4> SUFFICES ASSUME NEW i \in 1 .. Len(toClient'[c]), Late(toClient'[c][i])
                   PROVE  /\ Waiting => \/ EndQueued
                                        \/ \E j \in 1 .. i - 1 : Ends(toClient'[c][j])
                          /\ ~AckQueued /\ \A j \in 1 .. i - 1 : ~IsAck(toClient'[c][j])
        BY <2>2 DEF LateReplies
      <4>1. \A j \in 1 .. i - 1 : j \in 1 .. Len(toClient[c]) /\ toClient'[c][j] = toClient[c][j]
        BY <3>1
      <4>2. CASE i \in 1 .. Len(toClient[c])
        BY <2>1, <2>3, <3>1, <4>1, <4>2 DEF LateReplies
      <4>3. CASE i = Len(toClient[c]) + 1
        <5>1. (i - 1) = Len(toClient[c]) /\ Late(m)
          BY <3>1, <4>3
        <5> QED
          BY <3>2, <4>1, <5>1 DEF EndComes, AckComes
      <4> QED
        BY <3>1, <4>2, <4>3
    <3>4. /\ EndComes(c) \/ Ends(m) => EndComes(c)'
          /\ AckComes(c)' => AckComes(c) \/ IsAck(m)
      BY <2>2, <3>1 DEF EndComes, AckComes
    <3>5. LateErrors(c)'
      BY <2>1, <2>2, <2>3, <3>4 DEF LateErrors
    <3> QED
      BY <2>3, <3>3, <3>5
  <2>4. CASE ~(d = c /\ link[c] = "open")
    <3>1. toClient'[d] = toClient[d]
      BY <2>4 DEF IInv, TypeOK, LinkTypeOK
    <3>2. /\ EndComes(d)' = EndComes(d) /\ AckComes(d)' = AckComes(d)
          /\ LateReplies(d)'
      BY <2>1, <2>2, <3>1 DEF EndComes, AckComes, LateReplies
    <3> QED
      BY <2>1, <2>2, <2>4, <3>2 DEF LateErrors
  <2> QED
    BY <2>3, <2>4
<1> QED
  BY <1>1, <1>2 DEF Lates

\* Acknowledgements are of the current connection, and of a run under way.
LEMMA AckIsHeld ==
    ASSUME IInv
    PROVE  /\ AckQueued => busy /\ \E c \in Conns : connection = c /\ Held(c)
           /\ \A c \in Conns : \A i \in 1 .. Len(toClient[c]) :
                  IsAck(toClient[c][i]) => connection = c /\ Held(c)
<1>1. ASSUME NEW c \in Conns, Held(c) PROVE connection = c /\ busy
  BY <1>1, HeldIsCurrent DEF IInv, Turns
<1>2. ASSUME NEW i \in 1 .. Len(callbacks), IsAck(callbacks[i].msg)
      PROVE  \E c \in Conns : Held(c)
  <2>1. PICK c \in Conns : callbacks[i].conn = c
    <3>1. callbacks[i] \in [conn : Conns, msg : Replies \cup {Closed}]
      <4>1. callbacks \in Seq([conn : Conns, msg : Replies \cup {Closed}])
        BY DEF IInv, TypeOK, LinkTypeOK
      <4> QED
        BY <4>1, ElementOfSeq
    <3> QED
      BY <3>1
  <2>2. i \in TurnCallbacks(c)
    BY <1>2, <2>1 DEF TurnCallbacks, IsAck, Counts, Late
  <2> QED
    BY <2>2 DEF Held
<1>3. \A c \in Conns : \A i \in 1 .. Len(toClient[c]) : IsAck(toClient[c][i]) => Held(c)
  BY DEF Held, TurnReplies, IsAck, Counts, Late
<1> QED
  BY <1>1, <1>2, <1>3 DEF AckQueued

LEMMA ClientLates ==
    ASSUME Inv, Client
    PROVE  Lates'
<1>0. IInv /\ Lates /\ ClientNext /\ UNCHANGED serverVars
  BY DEF Inv, Client
<1>1. CASE RunAsks \/ SelectItem \/ PasswordDismissed
  BY <1>0, <1>1, SameLates DEF RunAsks, SelectItem, PasswordDismissed
<1>2. CASE RunConnects
  <2>1. PICK c \in Conns : link[c] = "none" /\ connection' = c
    BY <1>2 DEF RunConnects
  <2>2. ~AckQueued
    BY <1>0, <1>2, AckIsHeld DEF IInv, Turns, RunConnects, RunCounted, MayRun
  <2>3. ~Held(c)
    BY <1>0, <2>1, HeldIsCurrent DEF Untried
  <2>4. ~AckComes(c)
    BY <1>0, <2>2, <2>3, AckIsHeld DEF AckComes
  <2> QED
    BY <1>0, <1>2, <2>1, <2>2, <2>4, RunLates DEF RunConnects, RunCounted, Waiting
<1>3. CASE RunBuilds
  BY <1>0, <1>3, RunLates DEF RunBuilds, RunCounted, Waiting
<1>4. CASE OnClosed
  <2>1. ~Ends(Head(callbacks).msg)
    BY <1>4 DEF OnClosed, Take, Ends, Counts
  <2> QED
    BY <1>0, <1>4, <2>1, TakenLates DEF OnClosed, Take, Waiting
<1>5. CASE OnOutput
  <2>1. ~Ends(Head(callbacks).msg)
    BY <1>5 DEF OnOutput, Take, Ends, Counts
  <2> QED
    BY <1>0, <1>5, <2>1, TakenLates DEF OnOutput, Take, Waiting
<1>6. CASE OnEnd
  <2>1. ~Waiting'
    BY <1>6 DEF OnEnd, Waiting
  <2> QED
    BY <1>0, <1>6, <2>1, TakenLates DEF OnEnd, Take
<1>7. CASE OnIntroduced \/ OnReady
  <2>1. /\ callbacks # <<>> /\ callbacks' = Tail(callbacks) /\ IsAck(Head(callbacks).msg)
        /\ UNCHANGED <<toClient, link, connection>>
    BY <1>7 DEF OnIntroduced, OnReady, TakeAck, Take, IsAck
  <2> QED
    BY <1>0, <2>1, TakenLates
<1> QED
  BY <1>0, <1>1, <1>2, <1>3, <1>4, <1>5, <1>6, <1>7 DEF ClientNext, Callback

\* A request is answered.
LEMMA AnswerLates ==
    ASSUME IInv, Lates, UNCHANGED <<clientVars, procs>>, NEW c \in Conns, NEW t,
           Dispatch(c, t), NEW m \in Replies, ~Late(m), Reply(c, m) \/ ReplyAndClose(c, m)
    PROVE  Lates'
<1>1. /\ toClient' = IF link[c] = "open"
                     THEN [toClient EXCEPT ![c] = Append(@, m)] ELSE toClient
      /\ \A d \in Conns : link'[d] = "open" => link[d] = "open"
  BY DEF Reply, ReplyAndClose, IInv, TypeOK, LinkTypeOK
<1>2. /\ \A d \in Conns : Executing(d)' = Executing(d) /\ Unread(d)' = Unread(d)
      /\ ~Executing(c) /\ callbacks' = callbacks
  BY DEF Dispatch, Executing, Unread
<1> QED
  BY <1>1, <1>2, SentLates

\* A process is started.  No acknowledgement is under way then.
LEMMA StartLates ==
    ASSUME IInv, Lates, UNCHANGED <<clientVars, link, toClient>>, NEW c \in Conns,
           Dispatch(c, "ExecuteBuild"), NEW r, StartProcess(c, r)
    PROVE  Lates'
<1>1. ~Held(c) /\ callbacks' = callbacks
  BY Dispatched
<1>2. /\ Len(procs) \in Nat /\ Len(procs') = Len(procs) + 1
      /\ \A p \in 1 .. Len(procs) : procs'[p] = procs[p]
      /\ procs'[Len(procs) + 1].conn = c /\ ~procs'[Len(procs) + 1].done
  <2> DEFINE x == [conn |-> c, run |-> r.run, saw |-> disk, got |-> received[c],
                   out |-> 0, done |-> FALSE, reads |-> {}, left |-> FALSE]
  <2>1. procs' = Append(procs, x) /\ procs \in Seq(Processes)
    BY DEF StartProcess, IInv, TypeOK, ServerTypeOK
  <2>2. x.conn = c /\ ~x.done
    OBVIOUS
  <2> HIDE DEF x
  <2>3. /\ Len(procs) \in Nat /\ Len(procs') = Len(procs) + 1
        /\ \A p \in 1 .. Len(procs) : procs'[p] = procs[p]
        /\ procs'[Len(procs) + 1] = x
    BY <2>1
  <2> QED
    BY <2>2, <2>3
<1>3. \A d \in Conns : /\ Executing(d)' => Executing(d) \/ d = c
                       /\ Unread(d)' # {} => Unread(d) # {}
  <2> SUFFICES ASSUME NEW d \in Conns
               PROVE  /\ Executing(d)' => Executing(d) \/ d = c
                      /\ Unread(d)' # {} => Unread(d) # {}
    OBVIOUS
  <2>1. Executing(d)' => Executing(d) \/ d = c
    BY <1>2 DEF Executing
  <2>2. \A p \in Unread(d)' : p \in Unread(d)
    BY <1>2 DEF Unread
  <2> QED
    BY <2>1, <2>2
<1>4. connection = c => ~AckComes(c)
  BY <1>1, AckIsHeld DEF AckComes
<1>5. LateCallbacks'
  BY <1>1 DEF Lates, LateCallbacks, Waiting
<1>6. ASSUME NEW d \in Conns, connection' = d
      PROVE  LateReplies(d)' /\ LateErrors(d)'
  <2>1. /\ EndQueued' = EndQueued /\ AckQueued' = AckQueued /\ Waiting' = Waiting
        /\ EndComes(d)' = EndComes(d) /\ AckComes(d)' = AckComes(d)
    BY <1>1 DEF EndQueued, AckQueued, EndComes, AckComes, Waiting
  <2>2. LateReplies(d)' /\ LateErrors(d)
    BY <1>6, <2>1 DEF Lates, LateReplies
  <2> QED
    BY <1>3, <1>4, <1>6, <2>1, <2>2 DEF LateErrors
<1> QED
  BY <1>5, <1>6 DEF Lates

LEMMA HandleLates ==
    ASSUME IInv, Lates, UNCHANGED clientVars, NEW c \in Conns, Handle(c)
    PROVE  Lates'
<1>0. \A m \in {Error, ProcessError(0), Acknowledge("Introduction"), Acknowledge("SetBuild"),
                Acknowledge("FileContent")} : m \in Replies /\ ~Late(m)
  BY ReplyTypes DEF Late, Error, ProcessError, Acknowledge, RequestTypes
<1>1. CASE \E r : /\ Dispatch(c, "ExecuteBuild") /\ StartProcess(c, r)
                  /\ UNCHANGED <<link, toClient>>
  BY <1>1, StartLates
<1>2. CASE \E t : /\ Dispatch(c, t) /\ UNCHANGED procs
                  /\ \E m \in {Error, ProcessError(0), Acknowledge("Introduction"),
                               Acknowledge("SetBuild"), Acknowledge("FileContent")} :
                         Reply(c, m) \/ ReplyAndClose(c, m)
  BY <1>0, <1>2, AnswerLates
<1>3. CASE HandleIntroduction(c)
  BY <1>2, <1>3 DEF HandleIntroduction, HandleIntroductionOf, ProtocolViolation
<1>4. CASE HandleSetBuild(c)
  BY <1>2, <1>4 DEF HandleSetBuild, HandleSetBuildOf, ProtocolViolation, ServerException
<1>5. CASE HandleFileContents(c)
  BY <1>2, <1>5 DEF HandleFileContents, HandleFileContentsOf, ProtocolViolation, ServerException
<1>6. CASE HandleExecuteBuild(c)
  BY <1>1, <1>2, <1>6
  DEF HandleExecuteBuild, HandleExecuteBuildOf, ProtocolViolation, ServerException
<1> QED
  BY <1>3, <1>4, <1>5, <1>6 DEF Handle

\* A step of one process that is left as it was but for what it says of it.
LEMMA ProcessChange ==
    ASSUME IInv, NEW p \in 1 .. Len(procs), NEW x, procs' = [procs EXCEPT ![p] = x],
           x.conn = procs[p].conn, procs[p].left => x.left
    PROVE  \A d \in Conns :
              /\ Executing(d)' => Executing(d)
              /\ Unread(d)' # {} => Unread(d) # {} \/ (d = x.conn /\ x.done /\ ~procs[p].done)
<1>1. /\ Len(procs') = Len(procs) /\ procs'[p] = x
      /\ \A q \in 1 .. Len(procs) : q # p => procs'[q] = procs[q]
  BY DEF IInv, TypeOK, ServerTypeOK
<1>2. \A d \in Conns : Executing(d)' => Executing(d)
  BY <1>1 DEF Executing
<1>3. ASSUME NEW d \in Conns, NEW q \in Unread(d)'
      PROVE  q \in Unread(d) \/ (d = x.conn /\ x.done /\ ~procs[p].done)
  BY <1>1 DEF Unread
<1> QED
  BY <1>2, <1>3

LEMMA ProcessLates ==
    ASSUME IInv, Lates, UNCHANGED clientVars, NEW p \in 1 .. Len(procs),
           ProcessOutput(p) \/ ProcessExited(p) \/ BeginReading(p)
    PROVE  Lates'
<1>1. /\ procs[p] \in Processes /\ p \in 1 .. MaxRuns /\ MaxRuns \in Nat
      /\ procs \in Seq(Processes)
  BY FewProcesses, LinkBoundAssumption DEF IInv, TypeOK, ServerTypeOK
<1>2. PICK c \in Conns : c = procs[p].conn
  BY <1>1 DEF Processes
<1>3. UNCHANGED <<callbacks, link>>
  BY DEF ProcessOutput, ProcessExited, BeginReading, Reply
<1>4. CASE ProcessOutput(p)
  <2> DEFINE x == [procs[p] EXCEPT !.out = @ + 1]
             m == [type |-> "BuildOutput", of |-> "none", proc |-> p]
  <2>1. procs' = [procs EXCEPT ![p] = x] /\ Reply(c, m)
    BY <1>2, <1>4 DEF ProcessOutput
  <2>2. x.conn = c /\ x.left = procs[p].left /\ x.done = procs[p].done
    BY <1>1, <1>2 DEF Processes
  <2>3. m \in Replies /\ ~IsAck(m) /\ ~Late(m)
    BY <1>1 DEF Replies, IsAck, Late
  <2> HIDE DEF x, m
  <2>4. \A d \in Conns : /\ Executing(d)' => Executing(d)
                         /\ Unread(d)' # {} => Unread(d) # {}
    BY <1>2, <2>1, <2>2, ProcessChange
  <2> QED
    BY <1>3, <2>1, <2>3, <2>4, SentLates DEF Reply
<1>5. CASE ProcessExited(p)
  <2> DEFINE x == [procs[p] EXCEPT !.done = TRUE]
             m == [type |-> "BuildComplete", of |-> "none", proc |-> p]
  <2>1. procs' = [procs EXCEPT ![p] = x] /\ Reply(c, m)
    BY <1>2, <1>5, Zenon DEF ProcessExited
  <2>2. x.conn = c /\ x.left = procs[p].left
    BY <1>1, <1>2 DEF Processes
  <2>3. m \in Replies /\ ~IsAck(m) /\ ~Late(m) /\ Ends(m)
    BY <1>1 DEF Replies, IsAck, Late, Ends, Counts
  <2> HIDE DEF x, m
  <2>4. \A d \in Conns : /\ Executing(d)' => Executing(d)
                         /\ Unread(d)' # {} => Unread(d) # {} \/ d = c
    BY <1>2, <2>1, <2>2, ProcessChange
  <2> QED
    BY <1>3, <2>1, <2>3, <2>4, SentLates DEF Reply
<1>6. CASE BeginReading(p) /\ procs[p].done
  <2> DEFINE x == [procs[p] EXCEPT !.left = TRUE]
             m == ProcessError(p)
  <2>1. procs' = [procs EXCEPT ![p] = x] /\ Reply(c, m)
    BY <1>2, <1>6, Zenon DEF BeginReading
  <2>2. x.conn = c /\ x.left /\ x.done = procs[p].done
    BY <1>1, <1>2 DEF Processes
  <2>3. m \in Replies /\ ~IsAck(m)
    BY <1>1 DEF Replies, IsAck, ProcessError
  <2>4. p \in Unread(c)
    BY <1>2, <1>6 DEF BeginReading, Unread
  <2> HIDE DEF x, m
  <2>5. \A d \in Conns : /\ Executing(d)' => Executing(d)
                         /\ Unread(d)' # {} => Unread(d) # {}
    BY <1>2, <2>1, <2>2, ProcessChange
  <2> QED
    BY <1>3, <2>1, <2>3, <2>4, <2>5, SentLates DEF Reply
<1>7. CASE BeginReading(p) /\ ~procs[p].done
  <2> DEFINE s == IF procs[p].reads = {} THEN "output" ELSE "error"
             x == [procs[p] EXCEPT !.reads = @ \cup {s}, !.left = (procs[p].reads # {})]
  <2>1. procs' = [procs EXCEPT ![p] = x] /\ toClient' = toClient /\ ~procs[p].left
    BY <1>1, <1>7 DEF BeginReading
  <2>2. x.conn = c /\ x.done = procs[p].done
    BY <1>1, <1>2 DEF Processes
  <2> HIDE DEF x
  <2>3. \A d \in Conns : /\ Executing(d)' => Executing(d)
                         /\ Unread(d)' # {} => Unread(d) # {}
    BY <1>2, <2>1, <2>2, ProcessChange
  <2>4. /\ EndQueued' = EndQueued /\ AckQueued' = AckQueued /\ Waiting' = Waiting
        /\ \A d \in Conns : /\ EndComes(d)' = EndComes(d) /\ AckComes(d)' = AckComes(d)
                            /\ LateReplies(d)' = LateReplies(d)
        /\ LateCallbacks' = LateCallbacks
    BY <1>3, <2>1 DEF EndQueued, AckQueued, EndComes, AckComes, Waiting, LateReplies,
                      LateCallbacks
  <2> QED
    BY <1>3, <2>3, <2>4 DEF Lates, LateErrors
<1> QED
  BY <1>4, <1>5, <1>6, <1>7

LEMMA NetLates ==
    ASSUME IInv, Lates, NEW c \in Conns, UNCHANGED <<clientVars, serverVars>>,
           NetNext(c) \/ Break(c)
    PROVE  Lates'
<1>1. CASE NetEstablished(c)
  <2>1. Unread(c) = {}
    BY <1>1 DEF NetEstablished, IInv, Talk, Links, Untried, Unread
  <2> QED
    BY <1>1, <2>1, SameLates DEF NetEstablished, IInv, TypeOK, LinkTypeOK
<1>2. CASE NetRefused(c) \/ ServerCloses(c)
  BY <1>2, SameLates DEF NetRefused, ServerCloses, IInv, TypeOK, LinkTypeOK
<1>3. CASE NetReceive(c) \/ NetClosed(c)
  BY <1>3, QueuedLates
<1>4. CASE Break(c)
  BY <1>4, BrokenLates
<1> QED
  BY <1>1, <1>2, <1>3, <1>4 DEF NetNext

LEMMA StepInv == Inv /\ [Next]_vars => Inv'
<1> SUFFICES ASSUME Inv, [Next]_vars PROVE Inv'
  OBVIOUS
<1>0. IInv /\ Lates
  BY DEF Inv
<1>1. ASSUME Client PROVE Lates'
  BY <1>1, ClientLates
<1>2. ASSUME Server PROVE Lates'
  <2>1. ServerNext /\ UNCHANGED clientVars
    BY <1>2 DEF Server
  <2>2. CASE \E c \in Conns : Handle(c)
    BY <1>0, <2>1, <2>2, HandleLates
  <2>3. CASE \E p \in 1 .. Len(procs) :
                 ProcessOutput(p) \/ ProcessExited(p) \/ BeginReading(p)
    BY <1>0, <2>1, <2>3, ProcessLates
  <2>4. CASE \/ \E c \in Conns : AcceptThrows(c)
             \/ \E p \in 1 .. Len(procs) : ProcessThrows(p)
    BY <1>0, <2>1, <2>4, SameLates DEF AcceptThrows, ProcessThrows
  <2> QED
    BY <2>1, <2>2, <2>3, <2>4 DEF ServerNext
<1>3. ASSUME Network \/ Breaks PROVE Lates'
  BY <1>0, <1>3, NetLates DEF Network, Breaks
<1>4. ASSUME UNCHANGED vars PROVE Lates'
  BY <1>0, <1>4, SameLates DEF vars
<1>5. Lates'
  BY <1>1, <1>2, <1>3, <1>4 DEF Next
<1>6. IInv'
  BY StepIInv
<1> QED
  BY <1>5, <1>6 DEF Inv
-----------------------------------------------------------------------------
(***************************************************************************)
(* What follows for a user who waits for the end of a build.               *)
(***************************************************************************)
\* The inductive invariant: one turn, and what the ends know by whose it is.
THEOREM Inductive == ~Overlap /\ Attentive /\ Spec => []Inv
<1>1. CASE ~Overlap /\ Attentive
  <2>1. Init => Inv
    BY <1>1, InitInv, InitLates DEF Inv
  <2> QED
    BY <2>1, StepInv, PTL DEF Spec
<1>2. CASE ~(~Overlap /\ Attentive)
  BY <1>2
<1> QED
  BY <1>1, <1>2

\* All variables keep their types (SessionLinks, ClientSession, ServerSession).
THEOREM TypeCorrect == ~Overlap /\ Attentive /\ Spec => []TypeOK
<1>1. Inv => TypeOK
  BY DEF Inv, IInv
<1> QED
  BY <1>1, Inductive, PTL

LEMMA LoneSize == ASSUME NEW S, Lone(S)
                  PROVE  Cardinality(S) = IF S = {} THEN 0 ELSE 1
<1>1. CASE S = {}
  BY <1>1, FS_EmptySet
<1>2. CASE S # {}
  <2>1. PICK x : S = {x}
    BY <1>2 DEF Lone
  <2> QED
    BY <1>2, <2>1, FS_Singleton
<1> QED
  BY <1>1, <1>2

\* At most one thing of a connection is under way: a request, or the
\* acknowledgement that makes the next one (remote_build.py:196-209).
THEOREM OneThingUnderWay == ~Overlap /\ Attentive /\ Spec => []OneToken
<1>1. Inv => OneToken
  <2> SUFFICES ASSUME Inv, NEW c \in Conns
               PROVE  Len(toServer[c]) + Cardinality(AckReplies(c))
                          + Cardinality(AckCallbacks(c)) <= 1
    BY DEF OneToken
  <2>1. AckReplies(c) \subseteq TurnReplies(c) /\ AckCallbacks(c) \subseteq TurnCallbacks(c)
    BY DEF AckReplies, AckCallbacks, TurnReplies, TurnCallbacks, IsAck, Counts, Late
  <2>2. /\ Lone(AckReplies(c)) /\ Lone(AckCallbacks(c))
        /\ AckReplies(c) = {} \/ AckCallbacks(c) = {}
        /\ toServer[c] # <<>> => AckReplies(c) = {} /\ AckCallbacks(c) = {}
    BY <2>1 DEF Inv, IInv, Turns, Held, Lone
  <2>3. Len(toServer[c]) = IF toServer[c] = <<>> THEN 0 ELSE 1
    <3>1. Len(<<>>) = 0 /\ \A r : Len(<<r>>) = 1
      OBVIOUS
    <3>2. toServer[c] # <<>> => \E r \in Requests : toServer[c] = <<r>>
      BY DEF Inv, IInv, Turns, Asks
    <3>3. CASE toServer[c] = <<>>
      BY <3>1, <3>3
    <3>4. CASE toServer[c] # <<>>
      <4>1. PICK r \in Requests : toServer[c] = <<r>>
        BY <3>2, <3>4
      <4> QED
        BY <3>1, <3>4, <4>1
    <3> QED
      BY <3>3, <3>4
  <2>4. /\ Cardinality(AckReplies(c)) = IF AckReplies(c) = {} THEN 0 ELSE 1
        /\ Cardinality(AckCallbacks(c)) = IF AckCallbacks(c) = {} THEN 0 ELSE 1
    BY <2>2, LoneSize
  <2> QED
    BY <2>2, <2>3, <2>4
<1> QED
  BY <1>1, Inductive, PTL

\* The server never has to tell this client that a request is out of place
\* (BuildClient_Handlers.cs:120-124, 186-190, 280-284, 316-321).
THEOREM NoViolation == ~Overlap /\ Attentive /\ Spec => []ClientObeysServer
<1>1. Inv => ClientObeysServer
  BY DEF Inv, IInv, Talk, ClientObeysServer
<1> QED
  BY <1>1, Inductive, PTL

\* A build starts when all files of its run are there
\* (remote_build.py:178-185, BuildClient_Handlers.cs:296-299).
THEOREM FilesAreThere == ~Overlap /\ Attentive /\ Spec => []BuildSeesItsFiles
<1>1. Inv => BuildSeesItsFiles
  BY DEF Inv, IInv, Copies
<1> QED
  BY <1>1, Inductive, PTL

\* A run executes at most one build
\* (remote_build.py:211-233, BuildClient_Handlers.cs:307-326).
THEOREM OneBuildARun == ~Overlap /\ Attentive /\ Spec => []ExecuteOnce
<1>1. Inv => ExecuteOnce
  BY DEF Inv, IInv, Runs
<1> QED
  BY <1>1, Inductive, PTL

\* The command never loses a connection that works
\* (remote_build.py:153-159, 235-239).
THEOREM ConnectionKept == ~Overlap /\ Attentive /\ Spec => []NoOrphans
<1>1. Inv => NoOrphans
  BY DEF Inv, IInv, Links, NoOrphans
<1> QED
  BY <1>1, Inductive, PTL

\* No callback uses a connection that is None
\* (remote_build.py:194, 230-233, 236-239).
THEOREM NoneIsNotUsed == ~Overlap /\ Attentive /\ Spec => []NoneNeverUsed
<1>1. Inv => NoneNeverUsed
  BY DEF Inv, IInv, Talk, NoneNeverUsed
<1> QED
  BY <1>1, Inductive, PTL
=============================================================================
