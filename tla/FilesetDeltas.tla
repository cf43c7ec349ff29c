---------------------------- MODULE FilesetDeltas ----------------------------
(***************************************************************************)
(* calculate_fileset_deltas (file_gather.py): what another end has to add, *)
(* remove and change to have our files.  A file set is a dictionary of     *)
(* folders, each a dictionary of names, as find_project_files returns it;  *)
(* either end may have gathered it without hashes (hash_files).            *)
(***************************************************************************)
EXTENDS Functions

CONSTANTS
    FolderNames, FileNames, Contents,
    Vanishing,      \* names of files that may go while their details are read
    Missing         \* None, for a hash or for all details of a file

ASSUME MissingAssumption ==
    Vanishing \subseteq FileNames /\ Missing \notin Contents

VARIABLES us, them      \* the arguments of a call

NoEntries == [n \in {} |-> Missing]

\* The details of a file: sha1 is Missing without hashes, and stands for the
\* content otherwise.
Infos(hashed) ==
    {[content |-> c, sha1 |-> IF hashed THEN c ELSE Missing] : c \in Contents}

Dicts(keys, values) == UNION {[k -> values] : k \in SUBSET keys}

FolderFiles(hashed) ==
    {d \in Dicts(FileNames, Infos(hashed) \cup {Missing}) :
        \A n \in DOMAIN d \ Vanishing : d[n] # Missing}

\* Either end takes hashes or not.
Filesets == [hashed \in BOOLEAN |-> Dicts(FolderNames, FolderFiles(hashed))]

Arguments ==
    \E ourHash, theirHash \in BOOLEAN :
        us \in Filesets[ourHash] /\ them \in Filesets[theirHash]
-----------------------------------------------------------------------------
DiffFilesSwapped(ours, theirs) ==           \* mutant: the difference reversed
    [add    |-> Restrict(theirs, DOMAIN theirs \ DOMAIN ours),
     remove |-> Restrict(ours, DOMAIN ours \ DOMAIN theirs),
     modify |-> Restrict(ours, {n \in DOMAIN ours \cap DOMAIN theirs :
                                   ours[n].sha1 # theirs[n].sha1})]

DiffFilesAll(ours, theirs) ==               \* mutant: does not compare hashes
    [add    |-> Restrict(ours, DOMAIN ours \ DOMAIN theirs),
     remove |-> Restrict(theirs, DOMAIN theirs \ DOMAIN ours),
     modify |-> Restrict(ours, DOMAIN ours \cap DOMAIN theirs)]

\* The sets of files of a folder that both have
DiffFiles(ours, theirs) ==
    [add    |-> Restrict(ours, DOMAIN ours \ DOMAIN theirs),
     remove |-> Restrict(theirs, DOMAIN theirs \ DOMAIN ours),
     modify |-> Restrict(ours, {n \in DOMAIN ours \cap DOMAIN theirs :
                                   ours[n].sha1 # theirs[n].sha1})]

AllAdded(ours)     == [add |-> ours, remove |-> NoEntries, modify |-> NoEntries]
AllRemoved(theirs) == [add |-> NoEntries, remove |-> theirs, modify |-> NoEntries]

FilesetDelta(ours, theirs) ==
    [f \in DOMAIN ours \cup DOMAIN theirs |->
        IF f \notin DOMAIN theirs THEN AllAdded(ours[f])
        ELSE IF f \notin DOMAIN ours THEN AllRemoved(theirs[f])
        ELSE DiffFiles(ours[f], theirs[f])]
-----------------------------------------------------------------------------
\* Details that are missing have no "sha1": the comparison raises.
CannotCompare ==
    \E f \in DOMAIN us \cap DOMAIN them :
        \E n \in DOMAIN us[f] \cap DOMAIN them[f] : Missing \in {us[f][n], them[f][n]}

FilesOf(fileset, f) == IF f \in DOMAIN fileset THEN fileset[f] ELSE NoEntries

\* What the other end has in a folder when it has done what it was told
Patched(theirs, delta) ==
    [n \in (DOMAIN theirs \ DOMAIN delta.remove)
              \cup DOMAIN delta.add \cup DOMAIN delta.modify |->
        IF n \in DOMAIN delta.add THEN delta.add[n]
        ELSE IF n \in DOMAIN delta.modify THEN delta.modify[n]
        ELSE theirs[n]]

ContentOf(info) == IF info = Missing THEN Missing ELSE info.content

SameContents(a, b) ==
    /\ DOMAIN a = DOMAIN b
    /\ \A n \in DOMAIN a : ContentOf(a[n]) = ContentOf(b[n])

Hashed(fileset) ==
    \A f \in DOMAIN fileset :
        \A n \in DOMAIN fileset[f] :
            fileset[f][n] # Missing => fileset[f][n].sha1 # Missing

(***************************************************************************)
(* The deltas "make their files match ours" (file_gather.py:207-210) in    *)
(* every folder that either end has, if one of the ends has hashes; it     *)
(* need not be both.                                                       *)
(***************************************************************************)
MakesThemMatch ==
    ~CannotCompare /\ (Hashed(us) \/ Hashed(them)) =>
        LET deltas == FilesetDelta(us, them)
        IN  \A f \in DOMAIN us \cup DOMAIN them :
                /\ f \in DOMAIN deltas
                /\ SameContents(Patched(FilesOf(them, f), deltas[f]), FilesOf(us, f))

(***************************************************************************)
(* Nothing is sent in vain if both ends have hashes: a file that is added  *)
(* is new to them, one that is removed is theirs and not ours, and one     *)
(* that is modified is different (file_gather.py:243-254).                 *)
(***************************************************************************)
NothingInVain ==
    ~CannotCompare /\ Hashed(us) /\ Hashed(them) =>
        LET deltas == FilesetDelta(us, them)
        IN  \A f \in DOMAIN deltas :
                LET ours   == FilesOf(us, f)
                    theirs == FilesOf(them, f)
                IN  /\ DOMAIN deltas[f].add \cap DOMAIN theirs = {}
                    /\ DOMAIN deltas[f].remove \subseteq DOMAIN theirs \ DOMAIN ours
                    /\ \A n \in DOMAIN deltas[f].modify :
                           theirs[n].content # ours[n].content
=============================================================================
