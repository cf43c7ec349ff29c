-------------------------- MODULE ProjectTransfer --------------------------
(***************************************************************************)
(* What a build conversation says, byte by byte: the package encodes the   *)
(* names and files of a project, the server decodes them, maps them to its *)
(* cache directory and writes them there, and the package decodes what it  *)
(* answers.  When each end sends what, and what may fail meanwhile, is the *)
(* subject of RemoteBuild; here one connection works, and a user builds    *)
(* one project after the other.                                            *)
(***************************************************************************)
EXTENDS Messages, FiniteSets

CONSTANTS
    Users,              \* config.users
    Logins,             \* what users of the package type, like Users
    Hostname, Platform,
    Projects,           \* a set of folders, and files (root, name, content)
    ShellCmd,
    Output,             \* a line a build may print
    ExitCodes,
    MaxBuilds           \* bound: builds that are set up

NoUser == [username |-> <<>>, password |-> <<>>]

ASSUME TransferAssumption ==
    MaxBuilds \in Nat \ {0} /\ ExitCodes \subseteq Int /\ NoUser \notin Users

\* Paths are normal: each is the only one with its directory and its name.  A
\* project has a file once.
ASSUME ProjectsAssumption ==
    \A p \in Projects :
        /\ IsFiniteSet(p.folders) /\ p.folders \subseteq Seq(Char)
        /\ \A f \in p.folders : NUL \notin ToSet(f)
        /\ \A f, g \in p.folders :
              Dirname(f) = Dirname(g) /\ Basename(f) = Basename(g) => f = g
        /\ \A f \in p.files :
              f.root \in p.folders /\ f.name \in Seq(Char) /\ f.content \in Seq(Byte)
        /\ \A f, g \in p.files : f.root = g.root /\ f.name = g.name => f = g

ASSUME TextAssumption ==
    /\ \A u \in Logins : u.username \in Seq(Char) /\ u.password \in Seq(Char)
    /\ {Hostname, Platform, ShellCmd, Output} \subseteq Seq(Char)

\* bound: what one message carries; the count in front of it has four bytes, and
\* in the answer a character may have become nine bytes
MaxCarried == 268435456

ASSUME SizeAssumption ==
    /\ Len(ShellCmd) < MaxCarried /\ Len(Output) < MaxCarried
    /\ \A p \in Projects :
          /\ \A f \in p.files : Len(f.content) < MaxCarried
          /\ \A folders \in SetToSeqs(p.folders) :
                Len(Joined(<<BuildId(folders)>> \o folders)) < MaxCarried

VARIABLES
    toServer, toPackage,    \* messages under way, as sent and as bytes
    user,                   \* the user logged in, if any
    current_build_folders,
    disk,                   \* the files in the cache
    running,                \* a build process runs
    proj_files,
    busy,                   \* a run of the command has not ended
    builds                  \* history: the builds set up

serverVars  == <<user, current_build_folders, disk, running>>
packageVars == <<proj_files, busy, builds>>
vars == <<toServer, toPackage, serverVars, packageVars>>

Nowhere == << >>                           \* a dictionary without entries

Init ==
    /\ toServer = <<>> /\ toPackage = <<>>
    /\ user = NoUser /\ current_build_folders = Nowhere /\ disk = Nowhere
    /\ running = FALSE
    /\ proj_files = {} /\ busy = FALSE /\ builds = <<>>

Request(m) ==
    toServer' = Append(toServer, [sent |-> m, data |-> PyEncode(m)])

Reply(messages) ==
    toPackage' = toPackage \o
        [i \in DOMAIN messages |-> [sent |-> messages[i], data |-> CsEncode(messages[i])]]

\* What the partial message, or receive_data, has cut from the stream.
Body(data) == SubSeq(data, 5, Len(data))
-----------------------------------------------------------------------------
(***************************************************************************)
(* RemoteBuildCommand.  The folders are the keys of a dictionary, in no    *)
(* particular order.                                                       *)
(***************************************************************************)
SetUp(project) ==
    \E folders \in SetToSeqs(project.folders) :
        LET id == BuildId(folders)
        IN  /\ Request(Msg(SetBuild, <<>>, <<id>> \o folders))
            /\ builds' = Append(builds, [project |-> project, id |-> id,
                                       user |-> user.username, sent |-> FALSE])
            /\ proj_files' = project.files

\* A connection lasts as long as its user is logged in.
RunConnects(login) ==
    /\ ~busy /\ user = NoUser /\ Len(builds) < MaxBuilds
    /\ Request(Msg(Introduction,
                   <<1, login.username, login.password, Hostname, Platform>>, <<>>))
    /\ busy' = TRUE
    /\ UNCHANGED <<toPackage, serverVars, proj_files, builds>>

RunBuilds(project) ==
    /\ ~busy /\ user # NoUser /\ Len(builds) < MaxBuilds
    /\ SetUp(project)
    /\ busy' = TRUE
    /\ UNCHANGED <<toPackage, serverVars>>

SendNextFile ==
    /\ IF proj_files = {}
       THEN /\ Request(Msg(ExecuteBuild, <<>>, ShellCmd))
            /\ builds' = [builds EXCEPT ![Len(builds)].sent = TRUE]
            /\ UNCHANGED proj_files
       ELSE \E f \in proj_files :
                /\ Request(Msg(FileContent, <<f.root, f.name>>, f.content))
                /\ proj_files' = proj_files \ {f}
                /\ UNCHANGED builds
    /\ UNCHANGED busy

Receive ==
    /\ toPackage # <<>>
    /\ toPackage' = Tail(toPackage)
    /\ LET m == PyDecode(Body(Head(toPackage).data))
       IN  \/ /\ m.kind = Acknowledge /\ m.values = <<Introduction, TRUE>>
              /\ \E p \in Projects : SetUp(p)
              /\ UNCHANGED busy
           \/ /\ m.kind = Acknowledge
              /\ m.values \in {<<SetBuild, TRUE>>, <<FileContent, TRUE>>}
              /\ SendNextFile
           \/ /\ m.kind \in {Message, BuildOutput}
              /\ UNCHANGED <<toServer, packageVars>>
           \/ /\ m.kind \in {Error, BuildComplete}
              /\ busy' = FALSE
              /\ UNCHANGED <<toServer, proj_files, builds>>
    /\ UNCHANGED serverVars
-----------------------------------------------------------------------------
(***************************************************************************)
(* BuildClient.  An error of these handlers closes the connection.         *)
(***************************************************************************)
Ack(kind) == Msg(Acknowledge, <<kind, TRUE>>, <<>>)

Login(username, password) ==
    {u \in Users : u.username = username /\ u.password = password}

HandleIntroduction(m) ==
    /\ m.kind = Introduction
    /\ LET known == Login(m.values[2], m.values[3])
       IN  IF known = {}
           THEN /\ Reply(<<Msg(Error, <<1001>>, m.values[2])>>)
                /\ UNCHANGED user
           ELSE /\ user' \in known
                /\ Reply(<<Msg(Message, <<>>, m.values[2] \o m.values[5]),
                           Ack(Introduction)>>)
    /\ UNCHANGED <<current_build_folders, disk, running>>

LocalFolderOfHost(username, id, folder) ==  \* mutant: the id in front of the user
    <<id, username, Basename(folder)>>

LocalFolderOfAll(username, id, folder) ==   \* mutant: one directory for all projects
    <<username, Basename(folder)>>

\* The platform and the host are the same for all builds here.
LocalFolder(username, id, folder) == <<username, id, Basename(folder)>>

HandleSetBuild(m) ==
    /\ m.kind = SetBuild
    /\ LET id == Head(m.payload)
       IN  /\ current_build_folders' =
                  [f \in ToSet(Tail(m.payload)) |-> LocalFolder(user.username, id, f)]
           /\ Reply(<<Msg(Message, <<>>, id), Ack(SetBuild)>>)
    /\ UNCHANGED <<user, disk, running>>

\* WriteAllText puts the mark in front.
Written(text) == ByteOrderMark \o Utf8(text)

HandleFileContents(m) ==
    /\ m.kind = FileContent
    /\ LET root == m.values[1]
           file == <<current_build_folders[root], m.values[2]>>
       IN  IF root \in DOMAIN current_build_folders
           THEN /\ disk' = [x \in DOMAIN disk \cup {file} |->
                               IF x = file THEN Written(m.payload) ELSE disk[x]]
                /\ Reply(<<Ack(FileContent)>>)
                /\ UNCHANGED <<user, current_build_folders>>
           ELSE /\ Reply(<<Msg(Error, <<2000>>, root)>>)
                /\ user' = NoUser /\ current_build_folders' = Nowhere
                /\ UNCHANGED disk
    /\ UNCHANGED running

HandleExecuteBuild(m) ==
    /\ m.kind = ExecuteBuild
    /\ Reply(<<Msg(Message, <<>>, m.payload)>>)
    /\ running' = TRUE
    /\ UNCHANGED <<user, current_build_folders, disk>>

Dispatch ==
    /\ toServer # <<>>
    /\ toServer' = Tail(toServer)
    /\ LET m == CsDecode(Body(Head(toServer).data))
       IN  \/ HandleIntroduction(m) \/ HandleSetBuild(m)
           \/ HandleFileContents(m) \/ HandleExecuteBuild(m)
    /\ UNCHANGED packageVars

\* The process runs by itself, and its events come in threads of their own.
ProcessOutput(stdout) ==
    /\ running /\ toPackage = <<>>
    /\ Reply(<<Msg(BuildOutput, <<stdout>>, Output)>>)
    /\ UNCHANGED <<toServer, serverVars, packageVars>>

\* The exit code is cast to an unsigned number of 16 bits.
ProcessExited(code) ==
    /\ running
    /\ Reply(<<Msg(BuildComplete, <<code % 65536>>, <<>>)>>)
    /\ running' = FALSE
    /\ UNCHANGED <<toServer, user, current_build_folders, disk, packageVars>>

Next ==
    \/ \E login \in Logins : RunConnects(login)
    \/ \E p \in Projects : RunBuilds(p)
    \/ Receive
    \/ Dispatch
    \/ \E stdout \in BOOLEAN : ProcessOutput(stdout)
    \/ \E code \in ExitCodes : ProcessExited(code)

Spec == Init /\ [][Next]_vars

TypeOK ==
    /\ \A i \in DOMAIN toServer : toServer[i].sent.kind \in
          {Introduction, SetBuild, FileContent, ExecuteBuild}
    /\ \A i \in DOMAIN toPackage : toPackage[i].sent.kind \in
          {Message, Error, Acknowledge, BuildOutput, BuildComplete}
    /\ user \in Users \cup {NoUser}
    /\ \A f \in DOMAIN current_build_folders : current_build_folders[f][1] = user.username
    /\ \A x \in DOMAIN disk : \A b \in ToSet(disk[x]) : b \in 0 .. 255
    /\ running \in BOOLEAN /\ busy \in BOOLEAN
    /\ proj_files \subseteq UNION {p.files : p \in Projects}
    /\ \A i \in DOMAIN builds : builds[i].project \in Projects /\ builds[i].sent \in BOOLEAN
-----------------------------------------------------------------------------
\* The class of the other end has every value of the message as it is.
FieldFits(f, v) ==
    CASE f.form = "number" -> InWidth(v, f.width)
      [] f.form = "text"   -> Len(Utf8(v)) <= f.width /\ Stripped(v) = v
      [] f.form = "flag"   -> TRUE

Fits(m) ==
    /\ \A i \in DOMAIN m.values : FieldFits(Registry[m.kind].fields[i], m.values[i])
    /\ Registry[m.kind].payload = "content" => IsUtf8(m.payload)
    /\ Registry[m.kind].payload = "names" => \A n \in ToSet(m.payload) : NUL \notin ToSet(n)

AsText(m) == IF m.kind = FileContent THEN [m EXCEPT !.payload = Chars(@)] ELSE m

(***************************************************************************)
(* What one end sends the other understands.  The count in front of every  *)
(* message is the number of bytes behind it, the other end never fails to  *)
(* decode them, and a message whose values fit their fields comes out as   *)
(* it was, wherever it is decoded: the two sets of classes, which name     *)
(* their layouts in format strings (messages.py:104-125, 317-338) and in   *)
(* offsets (messages/Introduction.cs:29-56, FileContent.cs:27-54), make    *)
(* the same bytes of it.                                                   *)
(***************************************************************************)
Framed(w) == Number(SubSeq(w.data, 1, 4)) = Len(w.data) - 4

Agreed(w) ==
    Fits(w.sent) =>
        /\ PyDecode(Body(w.data)) = AsText(w.sent)
        /\ CsDecode(Body(w.data)) = AsText(w.sent)
        /\ w.data = PyEncode(w.sent) /\ w.data = CsEncode(AsText(w.sent))

Restored ==
    /\ \A w \in ToSet(toServer)  : Framed(w) /\ Agreed(w) /\ CsDecode(Body(w.data)) # Raised
    /\ \A w \in ToSet(toPackage) : Framed(w) /\ Agreed(w) /\ PyDecode(Body(w.data)) # Raised

(***************************************************************************)
(* The folders of a project, in whatever order the dictionary has them,    *)
(* have one build id, so that a later build finds its directory again, and *)
(* two projects of one folder each never share one (messages.py:223-230,   *)
(* BuildClient_Handlers.cs:245-254).                                       *)
(***************************************************************************)
BuildIdOfFolders ==
    \A i, j \in DOMAIN builds :
        LET folders(n) == builds[n].project.folders
            one(n)     == Cardinality(folders(n)) = 1
        IN  /\ folders(i) = folders(j) => builds[i].id = builds[j].id
            /\ one(i) /\ one(j) /\ folders(i) # folders(j) => builds[i].id # builds[j].id

(***************************************************************************)
(* When the package asks for the build, every file of the project is where *)
(* the server looks for it, with the text it had, and no build of another  *)
(* project moves or changes it later (remote_build.py:193-194, 211-233,    *)
(* BuildClient_Handlers.cs:245-263, 293-296).  That takes names that fit   *)
(* their fields, folders that differ in their last component, and a build  *)
(* id that no project with other folders has.                              *)
(***************************************************************************)
Placeable(b) ==
    /\ \A f \in b.project.files : /\ FieldFits(Str(256), f.root)
                                  /\ FieldFits(Str(256), f.name)
    /\ \A r, s \in b.project.folders : Basename(r) = Basename(s) => r = s
    /\ \A i \in DOMAIN builds : builds[i].id = b.id =>
                                    builds[i].project.folders = b.project.folders

Newest(n) == \A i \in n + 1 .. Len(builds) : builds[i].id # builds[n].id

Stored(b, f) == disk[<<LocalFolder(b.user, b.id, f.root), f.name>>]

FilesInTheirPlace ==
    \A n \in DOMAIN builds :
        builds[n].sent /\ Placeable(builds[n]) /\ Newest(n) =>
            \A f \in builds[n].project.files :
                /\ <<LocalFolder(builds[n].user, builds[n].id, f.root), f.name>> \in DOMAIN disk
                /\ Stored(builds[n], f) = Written(CsText(f.content))
-----------------------------------------------------------------------------
(***************************************************************************)
(* "This message is used by both the client and the server to transmit     *)
(* file contents around" (messages.py:295-296): a file that was sent has   *)
(* the same content on the server.                                         *)
(***************************************************************************)
ContentKept ==
    \A n \in DOMAIN builds :
        builds[n].sent /\ Placeable(builds[n]) /\ Newest(n) =>
            \A f \in builds[n].project.files : Stored(builds[n], f) = f.content
=============================================================================
