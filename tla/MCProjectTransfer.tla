------------------------- MODULE MCProjectTransfer -------------------------
(***************************************************************************)
(* ProjectTransfer with fields of their real width, names that fit them    *)
(* and names that do not, and projects that are alike in every way that    *)
(* could make two files meet.  The letters are code points.                *)
(***************************************************************************)
EXTENDS ProjectTransfer

a == 97
b == 98
c == 99
eAcute == 233       \* two bytes of UTF-8

Long(n) == [i \in 1 .. n |-> a]

File(root, name, content) == [root |-> root, name |-> name, content |-> content]
Project(folders, files)   == [folders |-> folders, files |-> files]

\* Every file has this name, unless a project has two.
Name    == <<a>>
InSub   == <<b, Slash, eAcute>>
ACText  == <<Slash, a, Slash, c>>
BCText  == <<Slash, b, Slash, c>>
DeepDir == <<Slash, a, Slash, b, Slash, c>>

\* One folder, with a file in a subfolder; empty, ASCII and other texts.
Single == Project({ACText}, {File(ACText, Name, <<>>), File(ACText, InSub, <<195, 169, a>>)})
\* The same folder later: one file has changed, the other is gone.
Changed == Project({ACText}, {File(ACText, Name, <<a, NUL>>)})
\* Another folder, with the same last component.
Other == Project({BCText}, {File(BCText, Name, <<b>>)})
\* Both in one project.
Both == Project({ACText, BCText}, {File(ACText, Name, <<a>>), File(BCText, Name, <<b>>)})
\* Two projects whose paths are the same text when one follows the other.
Deep == Project({DeepDir}, {File(DeepDir, Name, <<c>>)})
Pair == Project({<<Slash, a>>, <<Slash, b, Slash, c>>},
                {File(<<Slash, a>>, Name, <<a>>), File(<<Slash, b, Slash, c>>, Name, <<b>>)})
\* A root of 257 bytes, a name whose last character is cut, and bytes that
\* are no text; the name of 256 bytes fits.
LongRoot == Project({<<Slash>> \o Long(256)}, {File(<<Slash>> \o Long(256), Name, <<a>>)})
LongName == Project({ACText}, {File(ACText, Long(255) \o <<eAcute>>, <<255, a>>),
                               File(ACText, Long(256), <<239, 187, 191, a>>)})

MCProjects == {Single, Changed, Other, Both, Deep, Pair, LongRoot, LongName}

User(name, password) == [username |-> name, password |-> password]

MCUsers  == {User(Long(64), <<b>>), User(<<a>>, <<b>>)}
\* The right ones, a wrong password, and a name the field cuts to a user's.
MCLogins == MCUsers \cup {User(<<a>>, <<c>>), User(Long(65), <<b>>)}

MCHostname == <<c, eAcute>>
MCPlatform == <<a, b, c>>
MCShellCmd == <<a, eAcute>>
MCOutput   == <<8364>>      \* three bytes of UTF-8
=============================================================================
