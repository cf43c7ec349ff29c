------------------------------ MODULE FileGather ------------------------------
(***************************************************************************)
(* find_project_files (file_gather.py): the files of the folders of a      *)
(* project are listed and filtered, the details of each are read while     *)
(* files may be deleted, and folders inside of others are merged into      *)
(* them.                                                                   *)
(*                                                                         *)
(* A path is a sequence of names.  As text one name may begin with another *)
(* ("bc" with "b"), which is what Rest is about: Rest[n, m] is n without   *)
(* the m it begins with.  Rank is the order of names as text; characters   *)
(* that sort before the separator are left out, so that paths sort name by *)
(* name.                                                                   *)
(***************************************************************************)
EXTENDS Naturals, SequencesExt

CONSTANTS
    Names, Rest, Rank,
    Files,              \* the files there are to begin with
    FolderEntries,      \* what the folders of a project may be
    MaxFolders,         \* bound on how many there are
    ProjectPaths,       \* where the project may be saved
    PreferredFiles,     \* file_exclude_patterns of the preferences,
    PreferredFolders,   \* and folder_exclude_patterns
    DetailFields,       \* the keys of a dictionary of details
    None

\* What a text begins with begins with it in turn, or the other way round.
ASSUME NamesAssumption ==
    /\ DOMAIN Rest \subseteq Names \X Names
    /\ Rank \in [Names -> Nat] /\ IsInjective(Rank)
    /\ \A p \in DOMAIN Rest : Rank[p[2]] < Rank[p[1]] /\ Rest[p] \in Names
    /\ \A p, q \in DOMAIN Rest : p[2] = q[1] => <<p[1], q[2]>> \in DOMAIN Rest
    /\ \A p, q \in DOMAIN Rest :
           p[1] = q[1] => \/ p[2] = q[2] \/ <<p[2], q[2]>> \in DOMAIN Rest
                         \/ <<q[2], p[2]>> \in DOMAIN Rest

\* The root of the file system, which has no name, is no folder of a project.
ASSUME PathsAssumption ==
    /\ Files \subseteq Seq(Names) /\ ProjectPaths \subseteq Seq(Names) \ {<< >>}
    /\ MaxFolders \in Nat
    /\ \A entry \in FolderEntries :
           /\ entry.path \in Seq(Names) \cup {None}
           /\ entry.absolute => entry.path # << >>
    /\ None \notin [name : Seq(Names), of : Seq(Names)]

VARIABLES
    tree,       \* the files on disk
    folders,    \* the folders of the project
    path,       \* the folder the project is saved in (None: it is not)
    view,       \* the file the active view shows (None: none)
    started,    \* how many folders have been listed
    listed,     \* files of the last one whose details are not read yet
    files,      \* search path -> name -> details
    left,       \* search paths that are still to be merged
    coalesced,  \* the result
    raised      \* an exception has ended the call

project == <<folders, path, view>>
vars == <<tree, project, started, listed, files, left, coalesced, raised>>

NoFiles == << >>

\* dict.update and dict[key] = value
Updated(dict, other) ==
    [k \in DOMAIN dict \cup DOMAIN other |->
        IF k \in DOMAIN other THEN other[k] ELSE dict[k]]

Put(dict, key, value) == Updated(dict, [k \in {key} |-> value])

-----------------------------------------------------------------------------
Init ==
    /\ tree = Files
    /\ folders \in BoundedSeq(FolderEntries, MaxFolders)
    /\ path \in ProjectPaths \cup {None}
    /\ view \in Files \cup {None}
    /\ started = 0 /\ listed = {} /\ files = NoFiles /\ left = {}
    /\ coalesced = NoFiles /\ raised = FALSE

Finished == started = Len(folders) /\ listed = {} /\ left = {}

\* Somebody deletes a file, between any two steps.
Delete(file) ==
    /\ ~raised /\ ~Finished
    /\ tree' = tree \ {file}
    /\ UNCHANGED <<project, started, listed, files, left, coalesced, raised>>

Raise ==
    /\ raised' = TRUE
    /\ UNCHANGED <<tree, project, started, listed, files, left, coalesced>>
-----------------------------------------------------------------------------
\* A pattern is the set of what it matches.
ListMatch(name, patterns) == \E pattern \in patterns : name \in pattern

Keep(name, includes, excludes) ==
    /\ includes = {} \/ ListMatch(name, includes)
    /\ ~ListMatch(name, excludes)

PruneFolders(dirs, includes, excludes) ==
    {d \in dirs : (includes = {} \/ d \in includes) /\ d \notin excludes}

\* The files os.walk finds, relative to the path, below folders that are kept.
Walk(entry, root) ==
    {name \in {SubSeq(f, Len(root) + 1, Len(f)) :
                  f \in {g \in tree : IsStrictPrefix(root, g)}} :
        /\ LET dirs == Range(Front(name))
           IN  dirs = PruneFolders(dirs, entry.folder_include_patterns,
                          entry.folder_exclude_patterns \cup PreferredFolders)
        /\ Keep(name, entry.file_include_patterns,
                      entry.file_exclude_patterns \cup PreferredFiles)}

\* os.path.abspath(os.path.join(project_path, search_path))
SearchPath(entry) == IF entry.absolute THEN entry.path ELSE path \o entry.path

BadEntry(entry) == entry.path = None \/ (~entry.absolute /\ path = None)

DetailsOfName(root, name) ==                \* mutant: looks for the name alone
    IF root \o name \in tree THEN [name |-> name, of |-> name] ELSE None

Details(root, name) ==
    IF root \o name \in tree THEN [name |-> name, of |-> root \o name] ELSE None

\* _files_for_folder up to the list of its files, and after it
ListFolder ==
    /\ ~raised /\ listed = {} /\ started < Len(folders)
    /\ LET entry == folders[started + 1]
       IN  \/ /\ BadEntry(entry)
              /\ Raise
           \/ /\ ~BadEntry(entry)
              /\ LET root == SearchPath(entry)
                 IN  /\ listed' = Walk(entry, root)
                     /\ files' = Put(files, root, NoFiles)
                     /\ left' = left \cup {root}
              /\ started' = started + 1
              /\ UNCHANGED <<tree, project, coalesced, raised>>

ReadDetails(name) ==
    LET root == SearchPath(folders[started])
    IN  /\ name \in listed
        /\ files' = [files EXCEPT ![root] = Put(@, name, Details(root, name))]
        /\ listed' = listed \ {name}
        /\ UNCHANGED <<tree, project, started, left, coalesced, raised>>
-----------------------------------------------------------------------------
\* The comparison of paths and of names as Python compares their text
Before(p, q) ==
    \E k \in 1 .. Len(q) :
        /\ k <= Len(p) + 1 /\ SubSeq(p, 1, k - 1) = SubSeq(q, 1, k - 1)
        /\ k <= Len(p) => Rank[p[k]] < Rank[q[k]]

SortsBeforeName(p, q) ==                    \* mutant: sorts by name first
    \/ Rank[Last(p)] < Rank[Last(q)]
    \/ Last(p) = Last(q) /\ Before(Front(p), Front(q))

\* By (dirname, basename)
SortsBefore(p, q) ==
    \/ Before(Front(p), Front(q))
    \/ Front(p) = Front(q) /\ Rank[Last(p)] < Rank[Last(q)]

First(paths) == CHOOSE p \in paths : \A q \in paths \ {p} : SortsBefore(p, q)

StartsWith(p, q) ==
    LET n == Len(q)
    IN  /\ n <= Len(p) /\ SubSeq(p, 1, n - 1) = SubSeq(q, 1, n - 1)
        /\ p[n] = q[n] \/ <<p[n], q[n]>> \in DOMAIN Rest

SuffixLast(p, common) ==                    \* mutant: the basename only
    <<Last(p)>>

\* folder[len(common):].lstrip(os.sep)
Suffix(p, common) ==
    LET n == Len(common)
    IN  (IF p[n] = common[n] THEN << >> ELSE <<Rest[p[n], common[n]]>>)
           \o SubSeq(p, n + 1, Len(p))

Renamed(src, suffix) ==
    LET info(entry) == src[CHOOSE name \in DOMAIN src : suffix \o name = entry]
    IN  [entry \in {suffix \o name : name \in DOMAIN src} |->
            [info(entry) EXCEPT !.name = entry]]

MergeFailsAlways(folder, parents) ==        \* mutant: renames everywhere
    None \in Range(files[folder])

\* There is no name to change in the details of a file that had gone.
MergeFails(folder, parents) == parents # {} /\ None \in Range(files[folder])

\* One turn of the loop of _coalesce_folders
Coalesce ==
    /\ ~raised /\ listed = {} /\ started = Len(folders) /\ left # {}
    /\ LET folder  == First(left)
           parents == {fixed \in DOMAIN coalesced : StartsWith(folder, fixed)}
           common  == First(parents)
       IN  \/ MergeFails(folder, parents) /\ Raise
           \/ /\ ~MergeFails(folder, parents)
              /\ coalesced' =
                     IF parents = {} THEN Put(coalesced, folder, files[folder])
                     ELSE [coalesced EXCEPT ![common] =
                              Updated(@, Renamed(files[folder], Suffix(folder, common)))]
              /\ left' = left \ {folder}
              /\ UNCHANGED <<tree, project, started, listed, files, raised>>

\* Without folders the result has the details of the file that is shown.
GatherView ==
    /\ folders = << >> /\ coalesced = NoFiles /\ view # None
    /\ coalesced' = Put(coalesced, Front(view),
           IF view \in tree THEN [field \in DetailFields |-> view] ELSE None)
    /\ UNCHANGED <<tree, project, started, listed, files, left, raised>>

Next ==
    \/ \E file \in tree : Delete(file)
    \/ ListFolder
    \/ \E name \in listed : ReadDetails(name)
    \/ Coalesce
    \/ GatherView

Spec == Init /\ [][Next]_vars
-----------------------------------------------------------------------------
Relative == UNION {{SubSeq(f, k, Len(f)) : k \in 1 .. Len(f)} : f \in Files}

TypeOK ==
    /\ tree \subseteq Files /\ started \in 0 .. Len(folders)
    /\ listed \subseteq Relative /\ left \subseteq DOMAIN files
    /\ raised \in BOOLEAN
    /\ \A root \in DOMAIN files :
           \A name \in DOMAIN files[root] :
               name \in Relative
               /\ files[root][name] \in {None, [name |-> name, of |-> root \o name]}

\* The entries of a dictionary of dictionaries that have details
Entries(dict) ==
    {e \in UNION {{root} \X DOMAIN dict[root] : root \in DOMAIN dict} :
        dict[e[1]][e[2]] # None}

(***************************************************************************)
(* No file of the project is in the result twice, whichever folders lie in *)
(* which others and in whatever order they are given: folders are merged   *)
(* after those they lie in (file_gather.py:62-75).                         *)
(***************************************************************************)
NoFileTwice ==
    folders # << >> =>
        \A e, f \in Entries(coalesced) :
            coalesced[e[1]][e[2]].of = coalesced[f[1]][f[2]].of => e = f

\* No folder has a name that begins with that of another.
Proper ==
    \A p, q \in DOMAIN files : StartsWith(p, q) => IsPrefix(q, p)

(***************************************************************************)
(* Every file that was found in some folder is in the result, under the    *)
(* folder and the name that lead to it (file_gather.py:78-89): the command *)
(* opens the file by them.                                                 *)
(***************************************************************************)
EveryFileByItsName ==
    folders # << >> /\ Finished /\ ~raised /\ Proper =>
        /\ \A e \in Entries(coalesced) :
               coalesced[e[1]][e[2]] = [name |-> e[2], of |-> e[1] \o e[2]]
        /\ {e[1] \o e[2] : e \in Entries(coalesced)}
               = {e[1] \o e[2] : e \in Entries(files)}

(***************************************************************************)
(* A project with one folder, such as the command uses, is gathered        *)
(* without an exception although files go away meanwhile; what was found   *)
(* has an entry (file_gather.py:125-126, remote_build.py:144-149).         *)
(***************************************************************************)
OneFolderNeverRaises ==
    Len(folders) = 1 /\ ~BadEntry(folders[1]) =>
        /\ ~raised
        /\ Finished => coalesced = files

(***************************************************************************)
(* Only the files of child folders are put into another folder: "attempt   *)
(* to coalesce all of the child folders that appear into their parents"    *)
(* (file_gather.py:58-60).                                                 *)
(***************************************************************************)
OnlyChildrenCoalesced ==
    folders # << >> =>
        \A e \in Entries(coalesced) : IsPrefix(e[1], coalesced[e[1]][e[2]].of)
=============================================================================
