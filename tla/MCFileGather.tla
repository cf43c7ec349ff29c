----------------------------- MODULE MCFileGather -----------------------------
(***************************************************************************)
(* A tree in which a folder lies in another, which lies in a third, and    *)
(* one has a sibling whose name begins with its own.                       *)
(***************************************************************************)
EXTENDS FileGather, FilesetDeltas

MCNames == {"p", "b", "bc", "c", "x"}
MCRest  == <<"bc", "b">> :> "c"
MCRank  == "b" :> 1 @@ "bc" :> 2 @@ "c" :> 3 @@ "p" :> 4 @@ "x" :> 5
MCFiles == {<<"p", "x">>, <<"p", "b", "x">>, <<"p", "b", "c", "x">>,
            <<"p", "bc", "x">>}

Entry(absolute, p) ==
    [absolute |-> absolute, path |-> p,
     file_include_patterns |-> {}, file_exclude_patterns |-> {},
     folder_include_patterns |-> {}, folder_exclude_patterns |-> {}]

\* One is relative, one leaves out "c", one keeps the files of "b" only, one
\* has no path.
MCFolderEntries ==
    {Entry(FALSE, << >>),
     [Entry(TRUE, <<"p">>) EXCEPT
         !.folder_include_patterns = {"b"}, !.file_include_patterns = {{<<"b", "x">>}}],
     [Entry(TRUE, <<"p", "b">>) EXCEPT !.folder_exclude_patterns = {"c"}],
     Entry(FALSE, <<"b">>),
     Entry(TRUE, <<"p", "b", "c">>),
     Entry(TRUE, <<"p", "bc">>),
     Entry(TRUE, None)}

MCProjectPaths == {<<"p">>}

\* The preferences leave out "x" at the top of a folder named in one entry.
MCPreferredFiles   == {{<<"bc", "x">>}}
MCPreferredFolders == {}

\* The file sets whose deltas are calculated
MCFolderNames == {"f", "g"}
MCFileNames   == {"a", "b"}
MCContents    == {1, 2}
MCVanishing   == {"b"}

\* A call of find_project_files, or one of calculate_fileset_deltas
GatherInit == Init /\ us = NoEntries /\ them = NoEntries
DeltasInit == Init /\ folders = << >> /\ path = None /\ view = None /\ Arguments

MCInit == GatherInit \/ DeltasInit
MCNext == Next /\ UNCHANGED <<us, them>>
MCSpec == MCInit /\ [][MCNext]_<<vars, us, them>>
=============================================================================
