# A verification development for the remote build system

The repository is a Sublime Text package written in Python and a build server
written in C#. The package sends the files of a project to the server, which
keeps them in a cache directory, runs a shell command there, and sends back what
the command prints. This directory holds TLA+ models of the parts where that can
go wrong, TLC configurations that check them on small instances, and TLAPS proofs
of what matters most.

Contents: [the system](#the-system), [the plan](#the-plan),
[the sending side of the server](#the-sending-side-of-the-server),
[the network layer of the client](#the-network-layer-of-the-client),
[a remote build](#a-remote-build), [what the messages say](#what-the-messages-say),
[the receiving sides](#the-receiving-sides),
[the files of a project](#the-files-of-a-project), [runs](#runs),
[proofs](#proofs), [not modelled](#not-modelled).

## The system

| Component | State | Operations | What makes it correct |
|---|---|---|---|
| Server, sending side of a connection (`BuildClient.cs`) | `outQueue`, `sendBuffer`, `bytesSent`, `closeAfterSending`, `sendMutex` | `Send` from any thread, `BeginSending`, `SendCallback` on pool threads | messages leave whole, in order, once; none is stranded in the queue; nothing follows a closing error; a mutex lost to an exception hurts nobody |
| Server, receiving side (`BuildClient.cs`, `PartialMessage.cs`) | `readBuffer`, `inMsg` | `BeginReading`, `ReadCallback`, `GiveBytes` | the messages dispatched are the messages sent, however the bytes are cut |
| Server, protocol handlers (`BuildClient_Handlers.cs`) | `hasIntroduced`, `user`, `current_build_folders`, the files on disk, running processes | `Dispatch`, one handler per message, the three process events | every request is answered or ends the connection; a build finds its files; output comes before the end |
| Server, accepting (`Main.cs`) | `allDone` | `StartListening`, `AcceptCallback` | every connection gets a client object, or what waits for it is told |
| Client, network layer (`network.py`) | the list of connections, the event, per connection: socket, `connected`, two queues, partial data | `connect`, `send`, `receive`, `close`, `shutdown`; the network thread | notifications come in an order the listener can rely on; nothing is lost silently; shutdown ends it all |
| Client, build command (`remote_build.py`) | `connection`, `proj_files`, `build_args` | `run` with its two panels, and `result` for every notification | one request at a time; a build starts when its files are there, once; the current connection is not lost |
| Messages (`messages.py`, `messages/*.cs`) | the registry of classes | encode, decode, build id | both ends agree on every byte; files end up where the build looks for them |
| Gathering of files (`file_gather.py`) | none that outlives a call | filters, coalescing of folders, deltas | each file of the project once, under its right name |

How they interact. The command calls `connect` and `send` of the network layer in
the main thread of Sublime. The network thread does the I/O and hands every
notification to `set_timeout`, which runs `result` in the main thread later. On
the server, pool threads run `ReadCallback`, which calls the handlers, which call
`Send`; other pool threads run `SendCallback` and the events of build processes,
which call `Send` too. The two programs share nothing but the connection, except
that all connections of a user for one project share a directory of the server.

What is hard. Two threads on the client and any number on the server share
queues and flags; sockets fail at any point, partly through a message; exceptions
leave locks and buffers as they are; the state of a connection is read in one
thread and changed in another; callbacks are handled after the connection they
belong to has gone; a build is driven by acknowledgements alone, so that each one
too many or too few changes what is built, or stops it.

## The plan

1. `FifoLink`, `BuildClientSend` with its proofs: the sending side of the server.
   *Done.*
2. `ClientNetwork` with its proofs: the network layer of the client. *Done.*
3. `SessionLinks`, `ClientSession`, `ServerSession`, composed in `RemoteBuild`, with
   proofs: a whole remote build. *Done.*
4. `ByteStream`, `MessageStream`, `PartialMessage`, `ClientReceive` with their
   proofs: reassembly of messages on both ends, refining a stream of messages.
   *Done.*
5. `FileGather`, `FilesetDeltas` with proofs: the files of a project and the deltas
   of two file sets. *Done.*
6. `Encoding`, `Messages`, `ProjectTransfer` with their proofs: what the messages are
   made of, and a conversation that uses them byte by byte. *Done.*
7. The accept loop. *Its failure is an action of `ServerSession` (`AcceptThrows`); the
   event between `StartListening` and `AcceptCallback` has no model, see
   [not modelled](#not-modelled).*

Modules declare their parameters as CONSTANTS with named assumptions and use
recursive functions or folds where something is proved. Bounds are constants too.

## The sending side of the server

`FifoLink` is what the callers of `Send` rely on: what they send is received
whole, in order, once; a message with `CloseAfterSending` is the last one; the
connection may break. Its `FairSpec` adds that a connection that stays up
delivers everything.

`BuildClientSend` is the code: a thread in `Send` is a program counter that goes
from `idle` to `wait` (on the mutex), `enter`, `begin` and `leave`; `SendCallback`
is one more thread that the socket starts. `BeginNext` and `BeginRest` are the two
ways through `BeginSending`. `EndSendPart`, `EndSendAll` and `EndSendThrows` are
the outcomes of `EndSend`. The socket works on the operations it was given and may
move any part of one; once it is dead operations fail, and `BeginSend` either
accepts an operation that will fail or throws. `Send` has no `finally`: the
exception leaves the mutex owned (program counter `threw`). In the reader,
`Dispatch` catches it and calls `Send` again; in an event handler of a process
nobody does, and the server ends (`Up`).

A callback that runs synchronously inside `BeginSend` is covered: the mutex is
re-entrant and the caller does nothing between the call and releasing the mutex,
so the run in which the callback comes right after is the same. That a pool thread
which owns a leaked mutex may be given other work, and then enter it, is left out.
The messages every thread may send are given beforehand (`fresh`); this bounds the
model and is nothing the code has.

Properties: `OneSendAtATime` (and no bytes of one message in another), `NoStrandedMessage` (no lost wake-up), `LeakMeansDead` (the mutex leaks
only on a connection that is gone and idle), `CatchNeverThrows`, `SendReturns`,
and `LinkSpec`: the code implements `FifoLink!FairSpec`.

Fairness: weak for every thread that is inside `Send` or `SendCallback`, for the
catch block, and for the socket, which stands for a remote end that keeps reading.
Weak fairness is enough for the mutex because the messages are finitely many.
Nobody has to call `Send`.

## The network layer of the client

`ClientNetwork` has the main thread (`Connect`, `Send`, `RunCallback`, and
`shutdown` in four steps), the network thread with a program counter for each
access to shared state, and the other end as the kernel sees it. Messages are
counted, not named, and a message to send has `Units` bytes so that it can be sent
in parts; `Batch` is the 10 of `_send`. `conn_lock` is held over several steps by
`shutdown` only; what `connect`, `_remove` and the snapshot of `run` do under it is
one action that waits for it. `_close_connection` is one action as well: a step of
the other thread between its assignments sees nothing that it could not see just
before or after (a socket that was shut down fails like one that is gone).

The histories `raised` and `missed` record what the listener was told and whether
it ever found no message for a `MESSAGE`. A read that completes no message changes
nothing but `receive_data` and is not a step. `full` are the connections for which the
kernel takes no more data: `select` does not call them writable, a `send` that leaves a rest
has filled the buffers and one that leaves none may have, a later `send` of the same call of
`_send` may then block, and `PeerReads` makes room. `Connection.close` is only called
by the network thread in this package, so it is modelled there and not in the main
thread. Two errors leave no trace in the model: a `connect` that raises (anything but
`BlockingIOError`) has changed nothing, and the caller gets the exception; a socket whose
`shutdown` raises in `_close_connection` is not closed there, but the reference that goes is
the last one, which closes it.

Properties: `NotificationOrder`, `MessageAccounting`, `NoSilentLoss`,
`NetSurvives`, `NothingLeftOpen`; under fairness `ShutdownFinishes`, `SendsHappen`,
`MessagesArrive`. Fairness: weak for the network thread, for the rest of a shutdown
that has started, and for the callbacks of Sublime. The other end owes nothing. One that
stops reading keeps what is queued where it is for as long as it likes: `SendsHappen` is about
connections that have room again and again (`MakesRoom`), and without this it is
violated. In its run one message more is queued than a call of `_send` attempts.

The network thread need not end the way the docstring of `run` says ("drop out of the
loop and gracefully exit"): `shutdown` waits a quarter of a second; a thread that is held
up between its snapshot and `select` then passes it a connection without a socket,
`fileno()` returns `None`, and the exception ends the thread (`npc` is `died`).
`NetSurvives` says that this happens in a shutdown only, and `NothingLeftOpen` that it
does no harm, because all sockets are closed at that point.

## A remote build

`SessionLinks` keeps what the two models above promise: each connection is a
sequence of requests, a sequence of replies, and a queue of callbacks common to
all. A closing error makes a connection `ending`: nothing queued later reaches the
client. A connection that breaks keeps a prefix of what is under way in each
direction; the server may still handle requests it had received. A `CLOSED`
callback comes when the client has read all there is.

`ClientSession` is `RemoteBuildCommand`. `run` is three actions: `RunAsks` shows the
list of connections, `RunConnects` and `RunBuilds` are a run with all details.
`SelectItem` and `PasswordDismissed` are the callbacks of the two panels; a password
that is given is a `RunConnects`, or a `RunBuilds` if there is a connection by then.
`result` and `acknowledge` are one action for each kind of notification.
Notifications and messages that are only logged are left out, except
`BuildOutput`, an `Error` and `BuildComplete`, which tell the user something: `busy`
records that the user has not yet seen the end of the last run. The constant
`Overlap` says whether a user may start a run nevertheless. `Attentive` is about error
3000 (see `BeginReading` below), which may be a late one of an earlier run: an attentive user
does not take it for the end of a run as long as the panel has not said "All files
transmitted, starting build" (`announced`). `Vanishing` are files
that may be gone when `send_next_file` opens them: the exception ends the callback,
and the acknowledgement with it. `self.connection` may be `None` in `SendTo`. A `connect`
that raises ends `run` before anything has changed; nor does a run fail in gathering
(`OneFolderNeverRaises`), and a `SetBuild` can be encoded unless its path is no text, which is
left out.

`ServerSession` is `Dispatch`, the handlers and the events of build processes. One
action is one message handled in full, with the outcomes the code has: an
acknowledgement, an error that closes, an error that does not, an exception that
the catch block turns into an error. A login may be refused, a directory may not be
created, a file may not be written or only in part. `disk` holds for every file
which run wrote it and on which connection. Handlers of different connections run
on different threads, but share nothing except the directory, and each writes one
file per message.

`ExecuteProcess` takes several steps, because the events of a process begin when it does:
`StartProcess`, and then `BeginReading` once for each of its two streams, while the connection
waits (`Executing`: its requests are handled one after the other). `ProcessExited` sends
`BuildComplete` and disposes the process. When this happens before both reads have begun,
the next one throws, and the `catch` sends error 3000 for a process that was started: one run
then has `BuildComplete` and, later, an `Error`. A read that begins between the two halves of
`ProcessExited` might as well have begun before. A process event on a connection that is gone is either lost or
ends the server (`ProcessThrows`), and so does a connection that is gone when
`AcceptCallback` takes it (`AcceptThrows`); a server that ended accepts and handles
nothing, and the kernel does away with its connections.

Output may be sent after `BuildComplete` (`ProcessOutput` does not look at `done`):
`Exited` and the events of the output readers are independent. The command only logs
either and no document promises an order, so no property is about it.

`RemoteBuild` composes them. Properties, for an attentive user who waits for a run to end
before the next (by its result, an error, the end of the connection, or an
exception): `OneToken`, `ClientObeysServer`, `BuildSeesItsFiles`, `ExecuteOnce`,
`NoOrphans`, `NoneNeverUsed`, and under fairness `BuildFinishes`. The last relies
on build commands that end and on pool threads that go on; it asks nothing of the server,
which may be gone. A file that is missing ends a run with an exception on the console;
`BuildFinishes` counts that as an end, though the panel does not show it. A connection that is
dead without either end noticing is not modelled.
`BuildSeesItsFiles` allows for one thing: another connection of the same user, broken
but with requests left, may write a file or start a build in the shared directory.
This happens in the model.

Violated, by what the code does:

- `ExecuteWhenLastFileDone`, if two runs overlap: `run` does not test whether a
  build is under way. Two acknowledgements then drive one list of files, and
  `ExecuteBuild` is sent before the last file is acknowledged; when writing this
  file fails the build is started without it. It does not take a user who starts two
  builds at once. The run has one who waits but takes any error for the end of
  a build (`Attentive` is `FALSE`): the late error 3000 of the first run arrives when the
  second is under way, and the third one overlaps it. The error says
  nothing of its run, so nothing but the order of the lines tells the user better.
- `FileAfterAck`, if runs may overlap: an acknowledgement that was queued before its
  connection broke is handled after `run` has opened the next one, and a file is
  sent there ahead of `SetBuild`.

## What the messages say

`Encoding` has text and numbers as bytes: `struct`, UTF-8, padding and its removal.
`Messages` has the nine classes, each a layout of fixed fields and perhaps a payload,
and what the two programs make of them. `PyEncode` and `PyDecode` go by the format
strings of `messages.py`; `CsEncode` and `CsDecode` by the offsets written out in
`messages/*.cs`, which are numbers of their own (`Offsets`), so that a field moved at one
end only is found out. Names are padded and cut to their real widths (64, 256 and 8
bytes): by bytes in the package, by characters and then by bytes on the server. Bytes
that are no text raise in Python and are replaced in .NET. `BuildId` is `make_build_id`.

`ProjectTransfer` is the conversation of `RemoteBuild` with all its contents, on one
connection that works: the package sends the folders and files of a project, the server
maps the folders to directories of its cache (`LocalFolder`) and writes the files there
(`Written`), and answers with messages, acknowledgements, output and an exit code. The
folders come in any order, because they are the keys of a dictionary. A project may have
several; the command as it is names one (`remote_build.py:144-149`).

Decoding UTF-8 is strict, as in both libraries: an overlong form is no character, and
neither is half of a surrogate pair. Long texts are put together by halves (`Concat`),
which makes no difference but to the time TLC takes.

What is assumed of the constants: `TransferAssumption` (nobody has the empty name and
password that stand for no user, exit codes are integers), `ProjectsAssumption` (a project has
finitely many folders; their paths are normal and without NUL; a file is in a project
once), `TextAssumption` (what the two ends send are texts) and `SizeAssumption`: no payload
is longer than `MaxCarried`, which is 2^28, since the count in front of a message has
four bytes and an answer that quotes a text may need nine for each of its characters.
Nothing in the code limits a payload before `struct.pack` raises at 2^32, so what happens to
longer ones is left out.

Simplifications: a letter is a code point below 2^16 that is no half of a pair; SHA-1 is the identity, since only
collisions would tell; one replacement character stands for each bad byte, where .NET
may use one for several (the instance only cuts characters of two bytes, for which this is
the same); the protocol version is always 1; platform and host are the same for all builds;
paths have no backslashes; `CsEncode` covers all kinds though the server sends five.

Properties:

- `Restored`: the count in front of a message is right, nothing that one program sends
  makes the other raise, and a message whose values fit their fields is the same at both
  ends, in bytes and in values. This includes the classes that both programs have and
  only one sends.
- `BuildIdOfFolders`: the folders of a project have one build id in any order, and
  projects of one folder never share one.
- `FilesInTheirPlace`: when the package asks for the build every file of the project is where
  the server will look for it, and no build of another project moves or changes it. It
  leaves out what does go wrong: a name over 256 bytes, two folders with the same last
  component, and two sets of folders whose paths are the same text one after the other
  (`/a`, `/b/c` and `/a/b/c`). The instance has all three. Files that were deleted in a
  project stay in its directory (`Changed` is such a project); no property forbids it.

Violated, by what the code does: `ContentKept`. The server decodes the content of every
file as text and writes it with a byte order mark, so no file arrives as it was sent.

## The receiving sides

`ByteStream` is one direction of a connection as bytes: `N` messages, each a header
of `HeaderLen` bytes that tells the `Length` of what follows. A byte is its position
in the stream, so a receiver that loses, repeats or swaps any is found out, and two
headers are never the same by accident. `MessageStream` is what a receiver promises:
it delivers the bodies of the messages in order, and in the end all of them.

`PartialMessage` is the server. `Read` is `EndReceive` with a chunk of any size up to
the buffer; `GiveBytes` is the method, with its two halves `GiveHeader` (which goes on
with the data when it completes the header) and `GiveData`; `Dispatch` is the rest of
the loop of `ReadCallback`, which replaces the partial message by a new one.
`ClientReceive` is `Connection._receive`: `Recv` appends a chunk to `receive_data`,
`TakeHeader` and `TakeMessage` are the two halves of its loop. Only the bytes of
`msgLenBytes` and `msgData` that are in use are kept. What becomes of a dispatched
message, and what an error or the end of the connection does, is in the models above.

Properties: `NothingHeldBack` on the server and `NothingLeftOver` in the package (no
message whose last byte has been read is kept while the receiver waits for more, be it
empty or several in one chunk), `GiveBytesTakes` (the loop on the server ends), and
`StreamSpec` and `QueueSpec`: each implements `MessageStream!FairSpec`. Fairness: what
was sent arrives, and the receiver runs. `MCReceivers` runs the two one after the other,
since they share nothing.

## The files of a project

`FileGather` is `find_project_files`. A path is a sequence of names; since the code
compares paths as text, `Rest` says which names begin with which others, and `Rank`
how they sort. A pattern is the set of the relative names it matches. `ListFolder` is
`_files_for_folder` up to the files it goes through, one `ReadDetails` is one call of
`_get_file_details`, and `Coalesce` is one turn of the loop of `_coalesce_folders`,
with `First` for the sorting; `GatherView` is the branch without folders. `Delete` may
come between any two of them, so that a file that was listed has `None` for its
details. A walk of the tree is one step: what is deleted while it goes on might as
well have been deleted before it or after it. Lists of excluded patterns that the code
extends in place are taken as they are after that.

`FilesetDeltas` is `calculate_fileset_deltas` as operators, for any two file sets,
gathered with or without hashes, in which some files may have vanished. Comparing the
latter raises. Its variables are the arguments of the call and do not change; the run has
the calls of both functions (`MCInit`).

Properties: `NoFileTwice`, `EveryFileByItsName` (the command opens a file by its folder
and name), `OneFolderNeverRaises` (the case of the build command); `MakesThemMatch`,
`NothingInVain`. `EveryFileByItsName` leaves out projects with the siblings below; of a
folder that is given twice the second entry counts, which replaces the first in `files`.

`OnlyChildrenCoalesced` is violated by what the code does: `startswith` takes a folder
for a child of another whose name its own begins with. Two more things are
in the model and have no run of their own: without folders the result has the details of
one file where the callers expect files (`GatherView`); and a file that vanished makes the
merging of its folder, and the comparison of its details, raise.

## Runs

| Run | Instance | Question |
|---|---|---|
| `build_client_send` | reader, two event threads, four messages of 2 and 3 bytes, two of them closing | all of the sending side, and that it implements `FifoLink` |
| `client_network` | two connections, one message each way on one of them | the safety properties of the network layer |
| `client_network_live` | one connection, three messages of two bytes out, two sends at a time, one message in | its liveness |
| `remote_build` | three runs, three connections, two files, no output | safety of a whole build |
| `remote_build_live` | two runs, two connections, two files, a line of output per build | every run ends |
| `remote_build_late_error` | one connection, three runs of a user who waits but is not attentive | finds the first trace above |
| `remote_build_stale_ack` | two connections, two runs that may overlap | finds the second |
| `project_transfer` | two builds of eight projects, two users and four logins | what is sent is understood, and files are in their place |
| `project_transfer_content` | the same | finds the trace above |
| `receivers` | six messages of 0 to 12 bytes, header of 4, chunks of 1 to 10 | both receiving sides, and that they implement `MessageStream` |
| `file_gather` | four files in four folders, seven entries, up to three of them; file sets of two folders, names and contents | the files of a project, and the deltas of two file sets |
| `file_gather_siblings` | the same | finds the trace above |

Why these bounds. On the sending side two event threads compete with each other,
with the reader and with the callback; a message of three bytes can be in the
middle of being sent twice. In the network layer a second connection is needed for
what the thread does to one while it serves the other; one
of them carries the messages, since connections share nothing but the thread, the list
and the callbacks, and the other only comes and goes. Liveness is checked for one connection. In a build the
stale callback of one connection needs a second one, and the late request of an old
connection a second run; the third of each shows that nothing new happens after
that; a late error needs two runs on one connection, and three for what may follow from it.
Two files are the fewest for which "next" and "last" differ. Output changes nothing but the log, so the safety
run has none of it, and the live run a line of each build, which may come after its
end. The projects of `project_transfer` are those that could be taken for each other: one that
changes between its builds, a sibling with the same last component, both in one project,
two whose paths are the same text, names of 255, 256 and 257 bytes, and a character that
the end of a field cuts; two builds are the fewest that can disturb each other. Chunks of up to ten bytes may hold two headers and
part of a third, two empty messages among them, and are shorter than the longest
message, so that a message and a header are cut at each of their bytes. The files of a build
are symmetric: all of them may vanish. Three folders are a chain of parents, in any order, or a
parent, a child and a sibling; the entries have one folder that is relative, one with
includes, one with excludes and one without a path. Deadlock is not checked, because each system may stop: everything was sent,
the package was unloaded, or the user runs nothing more.

For every property of a passing run there is a mutant: an operator next to the one
it changes, marked `mutant`, with a bug the code might plausibly have; put in place
of the original, it breaks the property.

## Proofs

`BuildClientSendProofs` proves for any threads, messages and lengths that the
specification of the sending side satisfies `TypeOK`, `MutualExclusion`,
`OneSendAtATime`, `NoStrandedMessage`, `LeakMeansDead` and `CatchNeverThrows`, and
that it implements `Link!Spec`, the safety part of `FifoLink`. The assumptions are
`MsgAssumption` and `ThreadAssumption`: the threads are different, a message has a
length of at least one byte, and the error of the catch block closes.

None of these is inductive. `IInv` adds

- `MutexInv`: who is inside, or threw, owns the mutex; the callback never throws;
- `ArgInv`: a thread in `Send` has a message;
- `LeakInv`: if the mutex is owned by a thread that left, or entered twice, then
  `Stuck`: the socket is dead, no operation and no callback is left, and
  `sendBuffer` is set. This is the heart of it: `sendBuffer` is set before
  `BeginSend` can throw, so the second `Send` of the catch block does not call it,
  and since no callback comes any more, it stays set;
- `BufferInv`: the one operation is for the unsent rest, and a callback that has not
  yet looked at its result has the bytes between `bytesSent` and what moved;
- `WakeInv`: on an open socket a message in `sendBuffer` has an operation or a
  callback, and a queue without a message in `sendBuffer` has a thread at `begin`;
- `PeerInv`: the remote end has exactly the bytes that moved;
- `OrderInv`: what was accepted is what was received, then the message being sent,
  then the queue. The refinement follows from it.

The proof has a lemma for each action, put together in `NextInv`.

`ReceiverProofs` begins with what is needed of spans of the stream: their concatenation,
their parts, what is left when some are dropped, and that a header tells the length
of its message. It proves, for `PartialMessage` and for `ClientReceive`, for any number
and lengths of messages, any header, any size of buffer and any chunks that the
receivers satisfy `TypeOK` and `RecvTypeOK`, `NothingHeldBack` and `NothingLeftOver`, that
`GiveBytes` always takes something, and that what is delivered is `MessageStream!Spec`. The assumptions are
`StreamAssumption` (one message begins where the last one ends), `BufferAssumption`
and `RecvAssumption`. The invariants say where in the stream the receiver stands. On
the server what was given away ends in the header of the next message (`InHeader`,
with just these bytes of it in `msgLenBytes`) or in its data (`InData`), and the rest
of the chunk follows. On the client `receive_data` begins at the next header
(`AtHeader`) or behind it (`AtBody`).

`ClientNetworkProofs` proves for any connections, messages, units and batches that the
network layer satisfies `TypeOK`, `NotificationOrder`, `MessageAccounting`, `NoSilentLoss`,
`NetSurvives` and `NothingLeftOpen`, from `BoundAssumption`. Three facts carry it. Until `shutdown` has
the lock (`Early`) only the network thread closes a connection, and the one it closes is the
one it serves (`EarlySockets`). That one is not among those it has still to read from
(`Rounds`), so what `select` found in one round is not used for a connection that went in
it. And where the thread is decides what the connection it serves has raised so far
(`Hand`): nothing but `CONNECTING` where it is being probed, no `CLOSED` before the last
step of closing it. `Histories` says the same of the connections nobody serves, `Told` that
a connection without a socket has raised `CLOSED` or is about to, and `Counts` bounds
the queues. `MessageAccounting` adds that the queue of callbacks holds one `MESSAGE` for each
message that was received, and that one more is owed between the two; the callbacks are
counted as a set of places in that queue, by the library's theorems about cardinality.

`RemoteBuildProofs` proves for any number of connections, runs, files and lines of output that
a remote build satisfies `TypeOK`, `OneToken`, `ClientObeysServer`, `BuildSeesItsFiles`,
`ExecuteOnce`, `NoOrphans` and `NoneNeverUsed`. The assumptions are `LinkBoundAssumption`,
`ClientAssumption`, and `~Overlap /\ Attentive` in the theorems themselves: the user waits for
the end of a build, and knows a late error. The runs above show that both are needed. The argument is that a
build has one turn: a request that the server has not handled, a reply or callback that the
client has not handled, or a process that runs. Each turn makes at most one other, on
its connection; the user makes one only when there is none; and of connections other than
the current one nothing reaches the client any more. `IInv` has

- `Turns`: no connection has more than one turn, and the current one has none while the
  user waits for nothing;
- `Links`: what the state of a link means for both ends. A connection of which
  nothing has been heard yet is awaited, one that is not current is closed or was
  never opened, and its `CLOSED` comes after all its other callbacks;
- `Talk`: what the server knows when a turn is on its way (`hasIntroduced`, `folders`);
- `Runs`: the build of a run is executed, about to be, or still being prepared, and only one of
  these;
- `Copies`: the file on its way, those still to send and those received are all the
  files, and those that this connection wrote last are of this run.

A late error (`Late`) has no turn: its process has ended. `Inv` is `IInv` and `Lates`, which says
where late errors can be. `LateCallbacks` and `LateReplies`: behind the end of their run if the user is
still waiting for it, and before every acknowledgement of the next; `LateErrors`: while
`ExecuteProcess` has not returned, no acknowledgement is on its way, because the server handles the
requests of a connection one after the other. So an error 3000 that is handled when a
build is announced and its end awaited has another end before it, and ends nothing.

`FewProcesses` (each process is of a run of its own, and those are at most `MaxRuns`) is what
bounds the processes; it is the pigeonhole principle, from the library's theorems about
cardinality.

`FileGatherProofs` proves for any names, tree, folders, filters and deletions that gathering
satisfies `TypeOK`, `OneFolderNeverRaises`, `NoFileTwice` and `EveryFileByItsName`, from
`NamesAssumption` (what a name begins with begins with it in turn, or the other way round, and
sorts before it) and `PathsAssumption` (no folder of a project is the root of the file system).

- `Typed`: a folder that is being listed is already a key of `files`, and what was found in it
  is described by its own path or not at all (`FilesTyped`).
- `OneFolder`: a folder that is alone is merged into no other, so the details that are missing
  are never looked at.
- `Merged`, for any number of folders: those that have been merged are sorted before those that
  have not (`Order`); of the keys of the result none begins with another, and every folder that
  was merged begins with one (`Targets`); an entry of a key is that of a file found in
  a folder that begins with it (`Origins`), and every file found in such a folder has one
  (`NoneLost`).

That a folder sorts before those that begin with it, and that of two folders another begins with one
begins with the other, is what makes a turn of the loop keep `Targets`
(`StartsWithSorts`, `StartsWithLinear`). That a set of folders has a first one is an induction over the
folders that are listed, which the invariant carries (`Sortable`); that two paths have a
first place where they differ is one over numbers (`LeastNatural`, from the library's
theorem that they are well-founded).

The same module proves `MakesThemMatch` and `NothingInVain` of `FilesetDeltas` for any
folders, names and contents and for any arguments (`Arguments`), from `MissingAssumption`. The
lemmas `SameHash` and `SameContent` say when a comparison of hashes is one of contents,
`DiffMatches` what that means for one folder that both ends have, `AllAddedMatches` and
`AllRemovedMatches` for one that only one of them has.

`ProjectTransferProofs` proves for any users, projects and texts that the conversation satisfies
`TypeOK`, `Restored`, `BuildIdOfFolders` and `FilesInTheirPlace`, from the four assumptions
above. It also proves `FittingAgrees`, which is about no behaviour: any message of any class whose
values have the types of their fields and fit them, and whose payload fits the count, has the same
bytes at both ends, and both ends decode these to that message. `Restored` shows this of
the messages that are sent, and of those cut at the end of a field that neither end raises.

What the recursive functions over texts and bytes compute is proved by induction over a set
of numbers: the set of those for which something holds has no least number outside it
(`LeastNatural`, from the library's theorem that the numbers are well-founded). This
needs no operator for a parameter. That a recursive function exists at all, and is what
its definition says, is proved the same way.

- `EncodingLemmas`: the pieces of a `Concat` follow one another (`ConcatPlus`); what UTF-8
  encodes it decodes (`ReadsBack`), and what it decodes without a replacement it encodes to
  the same bytes (`WritesBack`); a number is what its bytes say (`NumberBack`); what was padded
  is stripped again (`StripsBack`); names without NUL that were joined are split again
  (`SplitsBack`).
- `MessageLemmas`: the offsets written out on the server are the places of the formats of
  the package, for each class (`OffsetsAgree`); the count is the number of bytes that follow
  (`Framing`); a decoder finds at a field's place the piece the encoder put there
  (`PiecesFound`, `PyReads`, `CsReads`), and reads the value from it if it fits
  (`FieldReads`, `PayloadReads`). Two paths can always be compared (`Comparable`), so the folders of
  a project have one sorted order (`SortedExists`), and with it one build id (`BuildIdIs`).

Of `ProjectTransfer` the invariant `IInv` has two halves.

- `Talk`: what is under way was made by an encoder from values of the right types and a payload
  that fits (`UnderWay`); there is one request, or one answer that ends its turn and comes last, or one
  process, and nothing else is sent meanwhile (`OneTurn`); a login is on its way exactly when
  nobody is logged in, and then no folder is mapped (`LoggedIn`). `Restored` says something
  of the bytes under way only, so it needs to know where they came from.
- `Work`: the files still to send are files of projects, and an id belongs to the folders of its
  project (`Recorded`); when a `SetBuild` is on its way it names the folders of the last
  build; when a file or an acknowledgement is, the folders mapped are those of the last build, and all its files but
  those to send, and the one on its way, are in their place (`InOrder`); and the files of each build that
  was sent are there, unless a later one has the same id (`Finished`). `FilesInTheirPlace`
  looks at the disk when a build is asked for; only the acknowledgements tell the package that, and
  so the invariant has to say what each of them means.

Writing one file disturbs no other because different files of one build have different places (`Spots`),
and so have files of two builds whose ids differ (`SpotsApart`): the directory of a
build has its id as a component of its own.

Only model checked: liveness under fairness, namely `SendReturns`, `ShutdownFinishes`, `SendsHappen`,
`MessagesArrive`, `BuildFinishes`, and the fairness that `LinkSpec`, `StreamSpec` and `QueueSpec` add to
the specifications the proofs reach. It needs ENABLED, which is out of reach of the prover.

## Not modelled

- The event between `StartListening` and `AcceptCallback`: it is reset before the one
  `BeginAccept` that is outstanding, and set at the start of its callback, so the loop and the
  callback never wait for each other. What a callback that throws does is in `ServerSession`.
- The panel, the test commands, the syntax definition, settings and build files: they
  log or call the above, and keep no state of their own.
- `net_test` (an older copy of the network layer and its messages), `dotnet_tests` and
  `test_project`: not part of the running system.
- The ends of a connection that neither end is told of.
- Matching of a name with a pattern (`fnmatch`), and `..` in the paths of folders.
- The first folder of a build being the working directory of its process, and the output
  of the process before it is cut into lines.
- Reading the configuration of the server: the users and the cache directory are given.
