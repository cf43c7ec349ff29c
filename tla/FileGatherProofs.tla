--------------------------- MODULE FileGatherProofs ---------------------------
(***************************************************************************)
(* Proofs about FileGather, for any tree, folders, filters and deletions:  *)
(* gathering a project with one folder raises nothing and loses nothing,   *)
(* and of any number of folders every file that was found comes out once,  *)
(* under the folder and the name that lead to it.                          *)
(*                                                                         *)
(* And about FilesetDeltas, for any folders, names and contents: the       *)
(* deltas make the files of the other end match, and say nothing in vain.  *)
(***************************************************************************)
EXTENDS FileGather, FilesetDeltas, SequenceTheorems, WellFoundedInduction, TLAPS

USE DEF project
-----------------------------------------------------------------------------
(***************************************************************************)
(* Types.                                                                  *)
(***************************************************************************)
RightType(root, name, details) ==
    name \in Relative /\ details \in {None, [name |-> name, of |-> root \o name]}

FilesTyped ==
    \A root \in DOMAIN files : \A name \in DOMAIN files[root] :
        RightType(root, name, files[root][name])

Typed ==
    /\ folders \in Seq(FolderEntries) /\ path \in ProjectPaths \cup {None}
    /\ tree \subseteq Files /\ started \in 0 .. Len(folders) /\ raised \in BOOLEAN
    /\ listed \subseteq Relative /\ left \subseteq DOMAIN files
    /\ FilesTyped
    /\ listed # {} => SearchPath(folders[started]) \in DOMAIN files

LEMMA TypedInit == Init => Typed
<1> SUFFICES ASSUME Init PROVE Typed
  OBVIOUS
<1>1. folders \in Seq(FolderEntries)
  <2>1. PICK m \in 0 .. MaxFolders : folders \in [1 .. m -> FolderEntries]
    BY DEF Init, BoundedSeq, SeqOf
  <2>2. m \in Nat
    BY PathsAssumption
  <2> QED
    BY <2>1, <2>2
<1>2. Len(folders) \in Nat
  BY <1>1
<1>3. started = 0 /\ started \in 0 .. Len(folders)
  BY <1>2 DEF Init
<1>4. files = NoFiles /\ listed = {} /\ left = {} /\ raised = FALSE
  BY DEF Init
<1>5. FilesTyped
  <2>1. DOMAIN files = {}
    BY <1>4 DEF NoFiles
  <2> QED
    BY <2>1 DEF FilesTyped
<1>6. path \in ProjectPaths \cup {None} /\ tree \subseteq Files
  BY DEF Init
<1> QED
  BY <1>1, <1>3, <1>4, <1>5, <1>6 DEF Typed

\* A search path is a path, if the folder has one.
LEMMA SearchPathType ==
    ASSUME Typed, NEW entry \in FolderEntries, ~BadEntry(entry)
    PROVE  SearchPath(entry) \in Seq(Names)
<1>1. entry.path \in Seq(Names)
  BY PathsAssumption DEF BadEntry
<1>2. CASE entry.absolute
  BY <1>1, <1>2 DEF SearchPath
<1>3. CASE ~entry.absolute
  <2>1. path \in Seq(Names)
    BY <1>3, PathsAssumption DEF Typed, BadEntry
  <2> QED
    BY <1>1, <1>3, <2>1 DEF SearchPath
<1> QED
  BY <1>2, <1>3

\* What is listed are the ends of paths of files.
LEMMA WalkType ==
    ASSUME tree \subseteq Files, NEW entry, NEW root \in Seq(Names)
    PROVE  Walk(entry, root) \subseteq Relative
<1> SUFFICES ASSUME NEW f \in tree, IsStrictPrefix(root, f)
             PROVE  SubSeq(f, Len(root) + 1, Len(f)) \in Relative
  BY DEF Walk
<1>1. f \in Files /\ f \in Seq(Names)
  BY PathsAssumption
<1>2. Len(root) \in Nat /\ Len(f) \in Nat /\ Len(root) <= Len(f)
  BY <1>1 DEF IsStrictPrefix, IsPrefix
<1>3. Len(root) # Len(f)
  <2> SUFFICES ASSUME Len(root) = Len(f) PROVE FALSE
    OBVIOUS
  <2>1. SubSeq(root, 1, Len(root)) = root /\ SubSeq(f, 1, Len(f)) = f
    BY <1>1
  <2> QED
    BY <2>1 DEF IsStrictPrefix, IsPrefix
<1>4. Len(root) + 1 \in 1 .. Len(f)
  BY <1>2, <1>3
<1> QED
  BY <1>1, <1>4 DEF Relative

LEMMA TypedList == ASSUME Typed, ListFolder PROVE Typed'
<1> USE DEF Typed
<1>1. CASE Raise
  BY <1>1 DEF Raise, FilesTyped, SearchPath
<1>2. CASE ~Raise
  <2> DEFINE entry == folders[started + 1]
             root  == SearchPath(entry)
  <2>1. /\ ~BadEntry(entry) /\ UNCHANGED <<tree, project, coalesced, raised>>
        /\ listed' = Walk(entry, root) /\ files' = Put(files, root, NoFiles)
        /\ left' = left \cup {root} /\ started' = started + 1
        /\ started < Len(folders)
    BY <1>2 DEF ListFolder
  <2>2. started + 1 \in 1 .. Len(folders) /\ entry \in FolderEntries
    BY <2>1
  <2>3. root \in Seq(Names)
    BY <2>1, <2>2, SearchPathType
  <2>4. listed' \subseteq Relative
    BY <2>1, <2>3, WalkType
  <2>5. SearchPath(folders[started])' = root
    BY <2>1 DEF SearchPath
  <2> HIDE DEF root
  <2>6. /\ DOMAIN files' = DOMAIN files \cup {root}
        /\ \A r \in DOMAIN files' : files'[r] = IF r = root THEN NoFiles ELSE files[r]
    BY <2>1 DEF Put, Updated
  <2>7. DOMAIN NoFiles = {}
    BY DEF NoFiles
  <2>8. FilesTyped'
    BY <2>6, <2>7 DEF FilesTyped, RightType, Relative
  <2> QED
    BY <2>1, <2>2, <2>4, <2>5, <2>6, <2>8
<1> QED
  BY <1>1, <1>2

LEMMA TypedRead == ASSUME Typed, NEW name \in listed, ReadDetails(name) PROVE Typed'
<1> USE DEF Typed
<1> DEFINE root == SearchPath(folders[started])
           info == Details(root, name)
<1>1. /\ files' = [files EXCEPT ![root] = Put(@, name, info)]
      /\ listed' = listed \ {name}
      /\ UNCHANGED <<tree, project, started, left, coalesced, raised>>
  BY DEF ReadDetails
<1>2. root \in DOMAIN files
  OBVIOUS
<1>3. SearchPath(folders[started])' = root
  BY <1>1 DEF SearchPath
<1>4. RightType(root, name, info)
  BY DEF RightType, Details
<1> HIDE DEF root, info
<1>5. /\ DOMAIN files' = DOMAIN files
      /\ files'[root] = Put(files[root], name, info)
      /\ \A r \in DOMAIN files \ {root} : files'[r] = files[r]
  BY <1>1, <1>2
<1>6. /\ DOMAIN files'[root] = DOMAIN files[root] \cup {name}
      /\ \A n \in DOMAIN files'[root] :
            files'[root][n] = IF n = name THEN info ELSE files[root][n]
  BY <1>5 DEF Put, Updated
<1>7. FilesTyped'
  <2> SUFFICES ASSUME NEW r \in DOMAIN files', NEW n \in DOMAIN files'[r]
               PROVE  RightType(r, n, files'[r][n])
    BY DEF FilesTyped, RightType, Relative
  <2>1. CASE r = root
    BY <1>2, <1>4, <1>6, <2>1 DEF FilesTyped
  <2>2. CASE r # root
    BY <1>5, <2>2 DEF FilesTyped
  <2> QED
    BY <2>1, <2>2
<1> QED
  BY <1>1, <1>2, <1>3, <1>5, <1>7

LEMMA TypedStep == Typed /\ [Next]_vars => Typed'
<1> SUFFICES ASSUME Typed, [Next]_vars PROVE Typed'
  OBVIOUS
<1>1. CASE (\E file \in tree : Delete(file)) \/ Coalesce \/ GatherView \/ UNCHANGED vars
  <2>1. /\ UNCHANGED <<project, started, listed, files>>
        /\ tree' \subseteq tree /\ left' \subseteq left /\ raised' \in BOOLEAN
    BY <1>1 DEF Delete, Coalesce, GatherView, Raise, vars, Typed
  <2> QED
    BY <2>1 DEF Typed, FilesTyped, RightType, Relative, SearchPath
<1>2. CASE ListFolder
  BY <1>2, TypedList
<1>3. CASE \E name \in listed : ReadDetails(name)
  BY <1>3, TypedRead
<1> QED
  BY <1>1, <1>2, <1>3 DEF Next

(***************************************************************************)
(* Whatever is deleted meanwhile, what has been found is a file of the     *)
(* tree by its name in its folder, or has no details.                      *)
(***************************************************************************)
THEOREM TypeCorrect == Spec => []TypeOK
<1>1. Typed => TypeOK
  BY DEF Typed, TypeOK, FilesTyped, RightType
<1> QED
  BY <1>1, TypedInit, TypedStep, PTL DEF Spec
-----------------------------------------------------------------------------
(***************************************************************************)
(* A folder that is alone is merged into no other, so the details that are *)
(* missing are never looked at.                                            *)
(***************************************************************************)
Alone == Len(folders) = 1 /\ ~BadEntry(folders[1])

Root == SearchPath(folders[1])

OneFolder ==
    Alone =>
        /\ ~raised /\ started \in {0, 1}
        /\ started = 0 => /\ files = NoFiles /\ left = {} /\ listed = {}
                          /\ coalesced = NoFiles
        /\ started = 1 =>
               /\ files = [root \in {Root} |-> files[Root]]
               /\ \/ left = {Root} /\ coalesced = NoFiles
                  \/ left = {} /\ listed = {} /\ coalesced = files

LEMMA FirstOfOne == ASSUME NEW p PROVE First({p}) = p
BY DEF First

LEMMA Alike == UNCHANGED project => Alone' = Alone /\ Root' = Root
BY DEF Alone, Root, BadEntry, SearchPath

LEMMA OneFolderInit == Init => OneFolder
BY DEF Init, OneFolder

LEMMA OneFolderList == ASSUME OneFolder, ListFolder PROVE OneFolder'
<1> SUFFICES ASSUME Alone' PROVE OneFolder'
  BY DEF OneFolder
<1>1. UNCHANGED project /\ listed = {} /\ started < Len(folders)
  BY DEF ListFolder, Raise
<1>2. Alone /\ Root' = Root
  BY <1>1, Alike
<1>3. started = 0 /\ files = NoFiles /\ left = {} /\ coalesced = NoFiles
  BY <1>1, <1>2 DEF OneFolder, Alone
<1>4. /\ files' = Put(NoFiles, Root, NoFiles)
      /\ left' = {Root} /\ started' = 1
      /\ UNCHANGED <<coalesced, raised>>
  BY <1>2, <1>3 DEF ListFolder, Alone, Root
<1>5. files' = [root \in {Root} |-> files'[Root]]
  BY <1>4 DEF NoFiles, Put, Updated
<1> QED
  BY <1>2, <1>3, <1>4, <1>5 DEF OneFolder

LEMMA OneFolderRead ==
    ASSUME OneFolder, NEW name \in listed, ReadDetails(name) PROVE OneFolder'
<1> SUFFICES ASSUME Alone' PROVE OneFolder'
  BY DEF OneFolder
<1>1. UNCHANGED <<project, started, left, coalesced, raised>> /\ name \in listed
  BY DEF ReadDetails
<1>2. Alone /\ Root' = Root
  BY <1>1, Alike
<1>3. /\ started = 1 /\ files = [root \in {Root} |-> files[Root]]
      /\ left = {Root} /\ coalesced = NoFiles /\ ~raised
  BY <1>1, <1>2 DEF OneFolder
<1>4. PICK x : files' = [files EXCEPT ![Root] = x]
  BY <1>3 DEF ReadDetails, Root
<1>5. files' = [root \in {Root} |-> files'[Root]]
  BY <1>3, <1>4
<1> QED
  BY <1>1, <1>2, <1>3, <1>5 DEF OneFolder

LEMMA OneFolderCoalesce == ASSUME OneFolder, Coalesce PROVE OneFolder'
<1> SUFFICES ASSUME Alone' PROVE OneFolder'
  BY DEF OneFolder
<1>1. /\ UNCHANGED <<project, started, listed, files>>
      /\ left # {} /\ listed = {}
  BY DEF Coalesce, Raise
<1>2. Alone /\ Root' = Root
  BY <1>1, Alike
<1>3. /\ started = 1 /\ files = [root \in {Root} |-> files[Root]]
      /\ left = {Root} /\ coalesced = NoFiles /\ ~raised
  BY <1>1, <1>2 DEF OneFolder
<1>4. First(left) = Root
  BY <1>3, FirstOfOne
<1>5. {fixed \in DOMAIN coalesced : StartsWith(Root, fixed)} = {}
  BY <1>3 DEF NoFiles
<1>6. coalesced' = Put(NoFiles, Root, files[Root]) /\ left' = {} /\ ~raised'
  BY <1>3, <1>4, <1>5 DEF Coalesce, MergeFails
<1>7. coalesced' = files
  BY <1>3, <1>6 DEF Put, Updated, NoFiles
<1> QED
  BY <1>1, <1>2, <1>3, <1>6, <1>7 DEF OneFolder

LEMMA OneFolderStep == OneFolder /\ [Next]_vars => OneFolder'
<1> SUFFICES ASSUME OneFolder, [Next]_vars PROVE OneFolder'
  OBVIOUS
<1>1. CASE \/ \E file \in tree : Delete(file)
           \/ UNCHANGED vars
  <2>1. UNCHANGED <<project, started, listed, files, left, coalesced, raised>>
    BY <1>1 DEF Delete, vars
  <2>2. Alone' = Alone /\ Root' = Root
    BY <2>1, Alike
  <2> QED
    BY <2>1, <2>2 DEF OneFolder
<1>2. CASE ListFolder
  BY <1>2, OneFolderList
<1>3. CASE \E name \in listed : ReadDetails(name)
  BY <1>3, OneFolderRead
<1>4. CASE Coalesce
  BY <1>4, OneFolderCoalesce
<1>5. CASE GatherView
  <2>1. folders' = << >>
    BY <1>5 DEF GatherView
  <2>2. ~Alone'
    <3>1. Len(<< >>) = 0
      OBVIOUS
    <3> QED
      BY <2>1, <3>1 DEF Alone
  <2> QED
    BY <2>2 DEF OneFolder
<1> QED
  BY <1>1, <1>2, <1>3, <1>4, <1>5 DEF Next

\* A project with one folder, such as the command uses, is gathered without an
\* exception although files go away meanwhile, and what was found has an entry
\* (file_gather.py:125-126, remote_build.py:144-149).
THEOREM OneFolderGathered == Spec => []OneFolderNeverRaises
<1>1. OneFolder => OneFolderNeverRaises
  <2> SUFFICES ASSUME OneFolder, Alone
               PROVE  ~raised /\ (Finished => coalesced = files)
    BY DEF OneFolderNeverRaises, Alone
  <2>1. Finished => started = 1 /\ left = {}
    BY DEF Finished, Alone
  <2> QED
    BY <2>1 DEF OneFolder
<1> QED
  BY <1>1, OneFolderInit, OneFolderStep, PTL DEF Spec
-----------------------------------------------------------------------------
(***************************************************************************)
(* The order of paths.  Agree names what Before and StartsWith compare.    *)
(***************************************************************************)
\* A set of numbers has a least one: what an induction over numbers comes to.
LEMMA LeastNatural == ASSUME NEW T \in SUBSET Nat, T # {}
               PROVE \E n \in T : \A m \in T : n <= m
<1> DEFINE R == {p \in Nat \X Nat : p[1] < p[2]}
<1>1. OpToRel(<, Nat) = R
  BY DEF OpToRel
<1>2. IsWellFoundedOn(R, Nat)
  BY <1>1, NatLessThanWellFounded
<1>3. \E x \in T : \A y \in T : ~(<<y, x>> \in R)
  <2> HIDE DEF R
  <2> QED
   BY <1>2, WFMin
<1>4. PICK x \in T : \A y \in T : ~(<<y, x>> \in R)
  BY <1>3
<1>5. ASSUME NEW y \in T PROVE x <= y
  <2>1. x \in Nat /\ y \in Nat
    OBVIOUS
  <2>2. ~(<<y, x>> \in R)
    BY <1>4
  <2>3. ~(y < x)
    BY <2>1, <2>2
  <2> QED
    BY <2>1, <2>3
<1> QED
  BY <1>5

Paths == Seq(Names) \ {<< >>}

Agree(p, q, n) == \A i \in 1 .. n : p[i] = q[i]

LEMMA SameStart ==
    ASSUME NEW p \in Seq(Names), NEW q \in Seq(Names), NEW n \in Nat,
           n <= Len(p), n <= Len(q)
    PROVE  SubSeq(p, 1, n) = SubSeq(q, 1, n) <=> Agree(p, q, n)
<1>1. /\ SubSeq(p, 1, n) \in Seq(Names) /\ SubSeq(q, 1, n) \in Seq(Names)
      /\ Len(SubSeq(p, 1, n)) = n /\ Len(SubSeq(q, 1, n)) = n
      /\ \A i \in 1 .. n : SubSeq(p, 1, n)[i] = p[i] /\ SubSeq(q, 1, n)[i] = q[i]
  OBVIOUS
<1>2. ASSUME SubSeq(p, 1, n) = SubSeq(q, 1, n) PROVE Agree(p, q, n)
  BY <1>1, <1>2 DEF Agree
<1>3. ASSUME Agree(p, q, n) PROVE SubSeq(p, 1, n) = SubSeq(q, 1, n)
  <2>1. \A i \in 1 .. n : SubSeq(p, 1, n)[i] = SubSeq(q, 1, n)[i]
    BY <1>1, <1>3 DEF Agree
  <2> QED
    BY <1>1, <2>1, SeqEqual
<1> QED
  BY <1>2, <1>3

LEMMA BeforeMeans ==
    ASSUME NEW p \in Seq(Names), NEW q \in Seq(Names)
    PROVE  Before(p, q) <=>
               \E k \in 1 .. Len(q) :
                   /\ k <= Len(p) + 1 /\ Agree(p, q, k - 1)
                   /\ k <= Len(p) => Rank[p[k]] < Rank[q[k]]
<1>1. ASSUME NEW k \in 1 .. Len(q), k <= Len(p) + 1
      PROVE  SubSeq(p, 1, k - 1) = SubSeq(q, 1, k - 1) <=> Agree(p, q, k - 1)
  <2>1. k - 1 \in Nat /\ k - 1 <= Len(p) /\ k - 1 <= Len(q)
    BY <1>1
  <2> QED
    BY <2>1, SameStart
<1> QED
  BY <1>1 DEF Before

LEMMA RankOfName ==
    ASSUME NEW m \in Names, NEW n \in Names
    PROVE  Rank[m] \in Nat /\ (Rank[m] = Rank[n] => m = n)
BY NamesAssumption DEF IsInjective

LEMMA Elements == ASSUME NEW p \in Seq(Names) PROVE \A i \in 1 .. Len(p) : p[i] \in Names
OBVIOUS

LEMMA BeforeAsymmetric ==
    ASSUME NEW p \in Seq(Names), NEW q \in Seq(Names), Before(p, q), Before(q, p)
    PROVE  FALSE
<1>1. PICK k \in 1 .. Len(q) : /\ k <= Len(p) + 1 /\ Agree(p, q, k - 1)
                               /\ k <= Len(p) => Rank[p[k]] < Rank[q[k]]
  BY BeforeMeans
<1>2. PICK l \in 1 .. Len(p) : /\ l <= Len(q) + 1 /\ Agree(q, p, l - 1)
                               /\ l <= Len(q) => Rank[q[l]] < Rank[p[l]]
  BY BeforeMeans
<1>3. Len(p) \in Nat /\ Len(q) \in Nat
  OBVIOUS
<1>4. CASE k < l
  <2>1. k <= Len(p) /\ p[k] = q[k]
    BY <1>2, <1>3, <1>4 DEF Agree
  <2> QED
    BY <1>1, <2>1, RankOfName, Elements
<1>5. CASE l < k
  <2>1. l <= Len(q) /\ p[l] = q[l]
    BY <1>1, <1>3, <1>5 DEF Agree
  <2> QED
    BY <1>2, <2>1, RankOfName, Elements
<1>6. CASE k = l
  <2>1. Rank[p[k]] < Rank[q[k]] /\ Rank[q[k]] < Rank[p[k]]
    BY <1>1, <1>2, <1>3, <1>6
  <2>2. Rank[p[k]] \in Nat /\ Rank[q[k]] \in Nat
    BY <1>2, <1>6, RankOfName, Elements
  <2> QED
    BY <2>1, <2>2
<1> QED
  BY <1>3, <1>4, <1>5, <1>6

\* The first place where two paths differ decides.
LEMMA BeforeTotal ==
    ASSUME NEW p \in Seq(Names), NEW q \in Seq(Names), p # q
    PROVE  Before(p, q) \/ Before(q, p)
<1> DEFINE T == {i \in Nat : /\ i # 0 /\ i <= Len(p) + 1 /\ i <= Len(q) + 1
                             /\ \/ i > Len(p) \/ i > Len(q)
                                \/ p[i] # q[i]}
<1>1. Len(p) \in Nat /\ Len(q) \in Nat
  OBVIOUS
<1>2. T # {}
  <2>1. CASE Len(p) <= Len(q)
    <3>1. Len(p) + 1 \in T
      BY <1>1, <2>1
    <3> QED
      BY <3>1
  <2>2. CASE ~(Len(p) <= Len(q))
    <3>1. Len(q) + 1 \in T
      BY <1>1, <2>2
    <3> QED
      BY <3>1
  <2> QED
    BY <2>1, <2>2
<1>3. PICK k \in T : \A i \in T : k <= i
  <2>1. T \in SUBSET Nat
    OBVIOUS
  <2> HIDE DEF T
  <2> QED
    BY <1>2, <2>1, LeastNatural
<1>4. k \in Nat /\ 1 <= k /\ k <= Len(p) + 1 /\ k <= Len(q) + 1
  BY <1>1
<1>5. Agree(p, q, k - 1)
  <2> SUFFICES ASSUME NEW i \in 1 .. k - 1 PROVE p[i] = q[i]
    BY DEF Agree
  <2>1. i \in Nat /\ i # 0 /\ i < k /\ i <= Len(p) /\ i <= Len(q)
    BY <1>1, <1>4
  <2>2. i \notin T
    <3> HIDE DEF T
    <3> QED
      BY <1>3, <1>4, <2>1
  <2> QED
    BY <1>1, <2>1, <2>2
<1>6. Agree(q, p, k - 1)
  BY <1>5 DEF Agree
<1>7. CASE k > Len(p)
  <2>1. k <= Len(q)
    <3> SUFFICES ASSUME k = Len(q) + 1 PROVE FALSE
      BY <1>1, <1>4
    <3>1. Len(p) = Len(q) /\ k - 1 = Len(p)
      BY <1>1, <1>4, <1>7
    <3>2. \A i \in 1 .. Len(p) : p[i] = q[i]
      BY <1>5, <3>1 DEF Agree
    <3> QED
      BY <3>1, <3>2, SeqEqual
  <2> QED
    BY <1>1, <1>4, <1>5, <1>7, <2>1, BeforeMeans
<1>8. CASE k > Len(q) /\ k <= Len(p)
  BY <1>1, <1>4, <1>6, <1>8, BeforeMeans
<1>9. CASE k <= Len(p) /\ k <= Len(q)
  <2>1. p[k] # q[k]
    BY <1>1, <1>9
  <2>2. Rank[p[k]] < Rank[q[k]] \/ Rank[q[k]] < Rank[p[k]]
    BY <1>4, <1>9, <2>1, RankOfName, Elements
  <2>3. k \in 1 .. Len(p) /\ k \in 1 .. Len(q)
    BY <1>4, <1>9
  <2> HIDE DEF T
  <2>4. CASE Rank[p[k]] < Rank[q[k]]
    BY <1>4, <1>5, <2>3, <2>4, BeforeMeans
  <2>5. CASE Rank[q[k]] < Rank[p[k]]
    BY <1>4, <1>6, <2>3, <2>5, BeforeMeans
  <2> QED
    BY <2>2, <2>4, <2>5
<1> QED
  BY <1>1, <1>4, <1>7, <1>8, <1>9

LEMMA BeforeTransitive ==
    ASSUME NEW p \in Seq(Names), NEW q \in Seq(Names), NEW r \in Seq(Names),
           Before(p, q), Before(q, r)
    PROVE  Before(p, r)
<1>1. PICK k \in 1 .. Len(q) : /\ k <= Len(p) + 1 /\ Agree(p, q, k - 1)
                               /\ k <= Len(p) => Rank[p[k]] < Rank[q[k]]
  BY BeforeMeans
<1>2. PICK l \in 1 .. Len(r) : /\ l <= Len(q) + 1 /\ Agree(q, r, l - 1)
                               /\ l <= Len(q) => Rank[q[l]] < Rank[r[l]]
  BY BeforeMeans
<1>3. Len(p) \in Nat /\ Len(q) \in Nat /\ Len(r) \in Nat /\ k \in Nat /\ l \in Nat
  OBVIOUS
<1>4. CASE k < l
  <2>1. Agree(p, r, k - 1) /\ k \in 1 .. Len(r) /\ q[k] = r[k]
    BY <1>1, <1>2, <1>3, <1>4 DEF Agree
  <2> QED
    BY <1>1, <2>1, BeforeMeans
<1>5. CASE k >= l
  <2>1. Agree(p, r, l - 1) /\ l <= Len(p) + 1 /\ l <= Len(q)
    BY <1>1, <1>2, <1>3, <1>5 DEF Agree
  <2>2. l <= Len(p) => Rank[p[l]] < Rank[r[l]]
    <3> SUFFICES ASSUME l <= Len(p) PROVE Rank[p[l]] < Rank[r[l]]
      OBVIOUS
    <3>1. Rank[q[l]] < Rank[r[l]]
      BY <1>2, <2>1
    <3>2. p[l] = q[l] \/ (l = k /\ Rank[p[l]] < Rank[q[l]])
      BY <1>1, <1>3, <1>5 DEF Agree
    <3>3. Rank[p[l]] \in Nat /\ Rank[q[l]] \in Nat /\ Rank[r[l]] \in Nat
      BY <1>3, <2>1, RankOfName, Elements
    <3> QED
      BY <3>1, <3>2, <3>3
  <2> QED
    BY <2>1, <2>2, BeforeMeans
<1> QED
  BY <1>3, <1>4, <1>5

LEMMA FrontAndLast ==
    ASSUME NEW p \in Paths
    PROVE  /\ Len(p) \in Nat \ {0} /\ Front(p) \in Seq(Names)
           /\ Len(Front(p)) = Len(p) - 1 /\ Last(p) = p[Len(p)] /\ Last(p) \in Names
           /\ \A i \in 1 .. Len(p) - 1 : Front(p)[i] = p[i]
<1>1. p \in Seq(Names) /\ Len(p) \in Nat \ {0}
  BY DEF Paths
<1>2. /\ SubSeq(p, 1, Len(p) - 1) \in Seq(Names)
      /\ Len(SubSeq(p, 1, Len(p) - 1)) = Len(p) - 1
      /\ \A i \in 1 .. Len(p) - 1 : SubSeq(p, 1, Len(p) - 1)[i] = p[i]
  <2> DEFINE n == Len(p) - 1
  <2>1. n \in Nat /\ n <= Len(p)
    BY <1>1
  <2> HIDE DEF n
  <2>2. /\ SubSeq(p, 1, n) \in Seq(Names) /\ Len(SubSeq(p, 1, n)) = n
        /\ \A i \in 1 .. n : SubSeq(p, 1, n)[i] = p[i]
    BY <1>1, <2>1
  <2> QED
    BY <2>2 DEF n
<1>3. p[Len(p)] \in Names
  BY <1>1
<1> QED
  BY <1>1, <1>2, <1>3 DEF Front, Last

\* NamesAssumption without the projections of pairs.
LEMMA RestTransitive ==
    ASSUME NEW l, NEW m, NEW n, <<l, m>> \in DOMAIN Rest, <<m, n>> \in DOMAIN Rest
    PROVE  <<l, n>> \in DOMAIN Rest
<1> DEFINE x == <<l, m>>
           y == <<m, n>>
<1>1. x[2] = y[1] => <<x[1], y[2]>> \in DOMAIN Rest
  <2> HIDE DEF x, y
  <2>1. x \in DOMAIN Rest /\ y \in DOMAIN Rest
    BY DEF x, y
  <2> QED
    BY <2>1, NamesAssumption
<1> QED
  BY <1>1

LEMMA RestLinear ==
    ASSUME NEW l, NEW m, NEW n, <<l, m>> \in DOMAIN Rest, <<l, n>> \in DOMAIN Rest
    PROVE  m = n \/ <<m, n>> \in DOMAIN Rest \/ <<n, m>> \in DOMAIN Rest
<1> DEFINE x == <<l, m>>
           y == <<l, n>>
<1>1. x[1] = y[1] => \/ x[2] = y[2] \/ <<x[2], y[2]>> \in DOMAIN Rest
                    \/ <<y[2], x[2]>> \in DOMAIN Rest
  <2> HIDE DEF x, y
  <2>1. x \in DOMAIN Rest /\ y \in DOMAIN Rest
    BY DEF x, y
  <2> QED
    BY <2>1, NamesAssumption
<1> QED
  BY <1>1

LEMMA SortsAsymmetric ==
    ASSUME NEW p \in Paths, NEW q \in Paths, SortsBefore(p, q), SortsBefore(q, p)
    PROVE  FALSE
<1>1. Front(p) \in Seq(Names) /\ Front(q) \in Seq(Names)
  BY FrontAndLast
<1>2. Rank[Last(p)] \in Nat /\ Rank[Last(q)] \in Nat
  BY FrontAndLast, RankOfName
<1>3. ~(Before(Front(p), Front(q)) /\ Before(Front(q), Front(p)))
  BY <1>1, BeforeAsymmetric
<1>4. ~Before(Front(p), Front(p))
  BY <1>1, BeforeAsymmetric
<1> QED
  BY <1>2, <1>3, <1>4 DEF SortsBefore

LEMMA SortsTotal ==
    ASSUME NEW p \in Paths, NEW q \in Paths, p # q
    PROVE  SortsBefore(p, q) \/ SortsBefore(q, p)
<1>1. CASE Front(p) # Front(q)
  <2>1. Front(p) \in Seq(Names) /\ Front(q) \in Seq(Names)
    BY FrontAndLast
  <2>2. Before(Front(p), Front(q)) \/ Before(Front(q), Front(p))
    BY <1>1, <2>1, BeforeTotal
  <2> QED
    BY <2>2 DEF SortsBefore
<1>2. CASE Front(p) = Front(q)
  <2>1. Last(p) # Last(q)
    <3> SUFFICES ASSUME Last(p) = Last(q) PROVE FALSE
      OBVIOUS
    <3>1. Len(p) = Len(q) /\ p \in Seq(Names) /\ q \in Seq(Names)
      BY <1>2, FrontAndLast DEF Paths
    <3>2. ASSUME NEW i \in 1 .. Len(p) PROVE p[i] = q[i]
      <4>1. CASE i = Len(p)
        BY <3>1, <4>1, FrontAndLast
      <4>2. CASE i # Len(p)
        BY <1>2, <3>1, <4>2, FrontAndLast, SMTT(20)
      <4> QED
        BY <4>1, <4>2
    <3> QED
      BY <3>1, <3>2, SeqEqual
  <2>2. Rank[Last(p)] \in Nat /\ Rank[Last(q)] \in Nat /\ Rank[Last(p)] # Rank[Last(q)]
    BY <2>1, FrontAndLast, RankOfName
  <2> QED
    BY <1>2, <2>2 DEF SortsBefore
<1> QED
  BY <1>1, <1>2

LEMMA SortsTransitive ==
    ASSUME NEW p \in Paths, NEW q \in Paths, NEW r \in Paths,
           SortsBefore(p, q), SortsBefore(q, r)
    PROVE  SortsBefore(p, r)
<1>1. /\ Front(p) \in Seq(Names) /\ Front(q) \in Seq(Names) /\ Front(r) \in Seq(Names)
      /\ Rank[Last(p)] \in Nat /\ Rank[Last(q)] \in Nat /\ Rank[Last(r)] \in Nat
  BY FrontAndLast, RankOfName
<1>2. Before(Front(p), Front(q)) /\ Before(Front(q), Front(r)) => Before(Front(p), Front(r))
  BY <1>1, BeforeTransitive
<1> QED
  BY <1>1, <1>2 DEF SortsBefore

LEMMA StartsWithMeans ==
    ASSUME NEW p \in Paths, NEW q \in Paths
    PROVE  StartsWith(p, q) <=>
               /\ Len(q) <= Len(p) /\ Agree(p, q, Len(q) - 1)
               /\ \/ p[Len(q)] = q[Len(q)]
                  \/ <<p[Len(q)], q[Len(q)]>> \in DOMAIN Rest
<1>1. Len(p) \in Nat \ {0} /\ Len(q) \in Nat \ {0} /\ p \in Seq(Names) /\ q \in Seq(Names)
  BY DEF Paths
<1>2. Len(q) <= Len(p) =>
          (SubSeq(p, 1, Len(q) - 1) = SubSeq(q, 1, Len(q) - 1) <=> Agree(p, q, Len(q) - 1))
  <2> DEFINE n == Len(q) - 1
  <2>1. n \in Nat /\ n <= Len(q) /\ (Len(q) <= Len(p) => n <= Len(p))
    BY <1>1
  <2> HIDE DEF n
  <2>2. Len(q) <= Len(p) => (SubSeq(p, 1, n) = SubSeq(q, 1, n) <=> Agree(p, q, n))
    BY <1>1, <2>1, SameStart
  <2> QED
    BY <2>2 DEF n
<1> QED
  BY <1>2 DEF StartsWith

LEMMA StartsWithItself == ASSUME NEW p \in Paths PROVE StartsWith(p, p)
<1>1. Len(p) \in Nat \ {0}
  BY DEF Paths
<1>2. Len(p) <= Len(p) /\ Agree(p, p, Len(p) - 1) /\ p[Len(p)] = p[Len(p)]
  BY <1>1 DEF Agree
<1> QED
  BY <1>2, StartsWithMeans

LEMMA StartsWithTransitive ==
    ASSUME NEW p \in Paths, NEW q \in Paths, NEW r \in Paths,
           StartsWith(p, q), StartsWith(q, r)
    PROVE  StartsWith(p, r)
<1>1. Len(p) \in Nat \ {0} /\ Len(q) \in Nat \ {0} /\ Len(r) \in Nat \ {0}
  BY DEF Paths
<1>2. /\ Len(q) <= Len(p) /\ Agree(p, q, Len(q) - 1)
      /\ \/ p[Len(q)] = q[Len(q)]
         \/ <<p[Len(q)], q[Len(q)]>> \in DOMAIN Rest
  BY StartsWithMeans
<1>3. /\ Len(r) <= Len(q) /\ Agree(q, r, Len(r) - 1)
      /\ \/ q[Len(r)] = r[Len(r)]
         \/ <<q[Len(r)], r[Len(r)]>> \in DOMAIN Rest
  BY StartsWithMeans
<1>4. Len(r) <= Len(p) /\ Agree(p, r, Len(r) - 1)
  BY <1>1, <1>2, <1>3 DEF Agree
<1>5. \/ p[Len(r)] = r[Len(r)]
      \/ <<p[Len(r)], r[Len(r)]>> \in DOMAIN Rest
  <2>1. CASE Len(r) < Len(q)
    <3>1. p[Len(r)] = q[Len(r)]
      BY <1>1, <1>2, <2>1 DEF Agree
    <3> QED
      BY <1>3, <3>1
  <2>2. CASE Len(r) = Len(q)
    BY <1>2, <1>3, <2>2, RestTransitive
  <2> QED
    BY <1>1, <1>3, <2>1, <2>2
<1> QED
  BY <1>4, <1>5, StartsWithMeans

\* Of two paths that one path begins with, one begins with the other.
LEMMA StartsWithLinear ==
    ASSUME NEW p \in Paths, NEW q \in Paths, NEW r \in Paths,
           StartsWith(p, q), StartsWith(p, r)
    PROVE  StartsWith(q, r) \/ StartsWith(r, q)
<1>0. Len(p) \in Nat \ {0} /\ Len(q) \in Nat \ {0} /\ Len(r) \in Nat \ {0}
  BY DEF Paths
<1>1. ASSUME NEW a \in Paths, NEW b \in Paths, StartsWith(p, a), StartsWith(p, b),
             Len(b) <= Len(a)
      PROVE  StartsWith(a, b) \/ StartsWith(b, a)
  <2>1. Len(a) \in Nat \ {0} /\ Len(b) \in Nat \ {0}
    BY DEF Paths
  <2>2. /\ Len(a) <= Len(p) /\ Agree(p, a, Len(a) - 1)
        /\ \/ p[Len(a)] = a[Len(a)]
           \/ <<p[Len(a)], a[Len(a)]>> \in DOMAIN Rest
    BY <1>1, StartsWithMeans
  <2>3. /\ Len(b) <= Len(p) /\ Agree(p, b, Len(b) - 1)
        /\ \/ p[Len(b)] = b[Len(b)]
           \/ <<p[Len(b)], b[Len(b)]>> \in DOMAIN Rest
    BY <1>1, StartsWithMeans
  <2>4. Agree(a, b, Len(b) - 1) /\ Agree(b, a, Len(b) - 1)
    BY <1>0, <1>1, <2>1, <2>2, <2>3 DEF Agree
  <2>5. CASE Len(b) < Len(a)
    <3>1. a[Len(b)] = p[Len(b)]
      BY <2>1, <2>2, <2>5 DEF Agree
    <3> QED
      BY <1>1, <2>3, <2>4, <3>1, StartsWithMeans
  <2>6. CASE Len(b) = Len(a)
    <3>1. \/ a[Len(b)] = b[Len(b)]
          \/ <<a[Len(b)], b[Len(b)]>> \in DOMAIN Rest
          \/ <<b[Len(b)], a[Len(b)]>> \in DOMAIN Rest
      BY <2>2, <2>3, <2>6, RestLinear
    <3> QED
      BY <1>1, <2>1, <2>4, <2>6, <3>1, StartsWithMeans
  <2> QED
    BY <1>1, <2>1, <2>5, <2>6
<1>2. Len(q) <= Len(r) \/ Len(r) <= Len(q)
  BY <1>0
<1> QED
  BY <1>1, <1>2

LEMMA StartsWithSorts ==
    ASSUME NEW p \in Paths, NEW q \in Paths, StartsWith(p, q), p # q
    PROVE  SortsBefore(q, p)
<1>1. Len(p) \in Nat \ {0} /\ Len(q) \in Nat \ {0}
  BY DEF Paths
<1>2. /\ Len(q) <= Len(p) /\ Agree(p, q, Len(q) - 1)
      /\ \/ p[Len(q)] = q[Len(q)]
         \/ <<p[Len(q)], q[Len(q)]>> \in DOMAIN Rest
  BY StartsWithMeans
<1>3. /\ Front(p) \in Seq(Names) /\ Front(q) \in Seq(Names)
      /\ Len(Front(p)) = Len(p) - 1 /\ Len(Front(q)) = Len(q) - 1
  BY FrontAndLast
<1>4. Agree(Front(q), Front(p), Len(q) - 1)
  <2>1. /\ \A i \in 1 .. Len(p) - 1 : Front(p)[i] = p[i]
        /\ \A i \in 1 .. Len(q) - 1 : Front(q)[i] = q[i]
    BY FrontAndLast
  <2> QED
    BY <1>1, <1>2, <2>1 DEF Agree
<1>5. CASE Len(q) < Len(p)
  <2>1. /\ Len(q) \in 1 .. Len(Front(p)) /\ Len(q) <= Len(Front(q)) + 1
        /\ ~(Len(q) <= Len(Front(q)))
    BY <1>1, <1>3, <1>5
  <2>2. Before(Front(q), Front(p))
    BY <1>3, <1>4, <2>1, BeforeMeans
  <2> QED
    BY <2>2 DEF SortsBefore
<1>6. CASE Len(q) = Len(p)
  <2>1. Front(q) = Front(p)
    <3>1. Len(Front(q)) = Len(Front(p)) /\ Len(q) - 1 = Len(Front(q))
      BY <1>3, <1>6
    <3>2. \A i \in 1 .. Len(Front(q)) : Front(q)[i] = Front(p)[i]
      BY <1>4, <3>1 DEF Agree
    <3> QED
      BY <1>3, <3>1, <3>2, SeqEqual
  <2>2. p[Len(q)] # q[Len(q)]
    <3> SUFFICES ASSUME p[Len(q)] = q[Len(q)] PROVE FALSE
      OBVIOUS
    <3>1. \A i \in 1 .. Len(p) : p[i] = q[i]
      BY <1>1, <1>2, <1>6 DEF Agree
    <3> QED
      BY <1>6, <3>1, SeqEqual DEF Paths
  <2>3. Last(p) = p[Len(q)] /\ Last(q) = q[Len(q)]
    BY <1>6, FrontAndLast
  <2>4. Rank[Last(q)] < Rank[Last(p)]
    BY <1>2, <2>2, <2>3, NamesAssumption
  <2> QED
    BY <2>1, <2>4 DEF SortsBefore
<1> QED
  BY <1>1, <1>2, <1>5, <1>6

-----------------------------------------------------------------------------
(***************************************************************************)
(* What is put in front of a name when its folder is merged.               *)
(***************************************************************************)
Cut(p, n) == SubSeq(p, n + 1, Len(p))

\* The file of this name in p, and its name when p is merged into k.
FileAt(p, name) == p \o name
EntryFor(p, k, name) == Suffix(p, k) \o name

LEMMA CutMeans ==
    ASSUME NEW p \in Seq(Names), NEW n \in Nat, n <= Len(p)
    PROVE  /\ Cut(p, n) \in Seq(Names) /\ Len(Cut(p, n)) = Len(p) - n
           /\ \A i \in 1 .. Len(p) - n : Cut(p, n)[i] = p[n + i]
<1>1. n + 1 \in Int /\ Len(p) \in Int /\ Len(p) \in Nat
  OBVIOUS
<1>2. \A i \in n + 1 .. Len(p) : p[i] \in Names
  BY <1>1
<1>3. /\ Cut(p, n) \in Seq(Names)
      /\ Len(Cut(p, n)) = IF n + 1 <= Len(p) THEN Len(p) - (n + 1) + 1 ELSE 0
      /\ \A i \in 1 .. Len(p) - (n + 1) + 1 : Cut(p, n)[i] = p[(n + 1) + i - 1]
  BY <1>1, <1>2, SubSeqProperties DEF Cut
<1>4. Len(Cut(p, n)) = Len(p) - n
  BY <1>1, <1>3
<1>5. ASSUME NEW i \in 1 .. Len(p) - n PROVE Cut(p, n)[i] = p[n + i]
  <2>1. i \in 1 .. Len(p) - (n + 1) + 1 /\ (n + 1) + i - 1 = n + i
    BY <1>1
  <2> QED
    BY <1>3, <2>1
<1> QED
  BY <1>3, <1>4, <1>5

\* Of two ways to divide a path into a folder and a name, the shorter folder
\* has the rest of the other in its name.
LEMMA Cancel ==
    ASSUME NEW p \in Seq(Names), NEW q \in Seq(Names), NEW m \in Seq(Names),
           NEW n \in Seq(Names), FileAt(p, m) = FileAt(q, n), Len(p) <= Len(q)
    PROVE  Agree(q, p, Len(p)) /\ m = FileAt(Cut(q, Len(p)), n)
<1>0. p \o m = q \o n
  BY DEF FileAt
<1>1. /\ Len(p) \in Nat /\ Len(q) \in Nat /\ Len(m) \in Nat /\ Len(n) \in Nat
      /\ Len(p) + Len(m) = Len(q) + Len(n)
  <2>1. Len(p \o m) = Len(p) + Len(m) /\ Len(q \o n) = Len(q) + Len(n)
    OBVIOUS
  <2> QED
    BY <1>0, <2>1
<1>2. \A i \in 1 .. Len(p) + Len(m) :
          (p \o m)[i] = IF i <= Len(p) THEN p[i] ELSE m[i - Len(p)]
  BY ConcatProperties
<1>3. \A i \in 1 .. Len(q) + Len(n) :
          (q \o n)[i] = IF i <= Len(q) THEN q[i] ELSE n[i - Len(q)]
  BY ConcatProperties
<1>4. Agree(q, p, Len(p))
  <2> SUFFICES ASSUME NEW i \in 1 .. Len(p) PROVE q[i] = p[i]
    BY DEF Agree
  <2>1. i \in 1 .. Len(p) + Len(m) /\ i \in 1 .. Len(q) + Len(n) /\ i <= Len(q)
    BY <1>1
  <2> QED
    BY <1>0, <1>2, <1>3, <2>1
<1> DEFINE c == Cut(q, Len(p))
<1>5. /\ c \in Seq(Names) /\ Len(c) = Len(q) - Len(p)
      /\ \A i \in 1 .. Len(q) - Len(p) : c[i] = q[Len(p) + i]
  BY <1>1, CutMeans
<1> HIDE DEF c
<1>6. /\ c \o n \in Seq(Names) /\ Len(c \o n) = Len(m)
      /\ \A i \in 1 .. Len(m) : (c \o n)[i] = IF i <= Len(c) THEN c[i] ELSE n[i - Len(c)]
  <2>1. Len(c) + Len(n) = Len(m)
    BY <1>1, <1>5
  <2> QED
    BY <1>5, <2>1, ConcatProperties, SMTT(20)
<1>7. ASSUME NEW i \in 1 .. Len(m) PROVE m[i] = (c \o n)[i]
  <2>1. m[i] = (p \o m)[Len(p) + i]
    <3>1. /\ Len(p) + i \in 1 .. Len(p) + Len(m) /\ ~(Len(p) + i <= Len(p))
          /\ Len(p) + i - Len(p) = i
      BY <1>1
    <3> QED
      BY <1>2, <3>1, SMTT(20)
  <2>2. (q \o n)[Len(p) + i] = IF Len(p) + i <= Len(q) THEN q[Len(p) + i]
                                ELSE n[Len(p) + i - Len(q)]
    <3>1. Len(p) + i \in 1 .. Len(q) + Len(n)
      BY <1>1
    <3> QED
      BY <1>3, <3>1
  <2>3. CASE Len(p) + i <= Len(q)
    <3>1. i \in 1 .. Len(q) - Len(p) /\ i <= Len(c)
      BY <1>1, <1>5, <2>3
    <3> QED
      BY <1>0, <1>5, <1>6, <2>1, <2>2, <2>3, <3>1
  <2>4. CASE ~(Len(p) + i <= Len(q))
    <3>1. ~(i <= Len(c)) /\ i - Len(c) = Len(p) + i - Len(q)
      BY <1>1, <1>5, <2>4
    <3> QED
      BY <1>0, <1>6, <2>1, <2>2, <2>4, <3>1
  <2> QED
    BY <2>3, <2>4
<1>8. m = c \o n
  BY <1>6, <1>7, SeqEqual
<1> QED
  BY <1>4, <1>8 DEF c, FileAt

LEMMA Assoc ==
    ASSUME NEW l \in Seq(Names), NEW m \in Seq(Names), NEW n \in Seq(Names)
    PROVE  l \o (m \o n) = (l \o m) \o n
OBVIOUS

LEMMA SuffixType ==
    ASSUME NEW p \in Paths, NEW k \in Paths, StartsWith(p, k)
    PROVE  /\ Suffix(p, k) \in Seq(Names)
           /\ Suffix(p, k) = (IF p[Len(k)] = k[Len(k)] THEN << >>
                              ELSE <<Rest[<<p[Len(k)], k[Len(k)]>>]>>) \o Cut(p, Len(k))
           /\ (IF p[Len(k)] = k[Len(k)] THEN << >>
               ELSE <<Rest[<<p[Len(k)], k[Len(k)]>>]>>) \in Seq(Names)
<1> DEFINE x == <<p[Len(k)], k[Len(k)]>>
           h == IF p[Len(k)] = k[Len(k)] THEN << >> ELSE <<Rest[x]>>
<1>1. p \in Seq(Names) /\ Len(k) \in Nat /\ Len(k) <= Len(p)
  <2>1. Len(k) <= Len(p)
    BY StartsWithMeans
  <2>2. p \in Seq(Names) /\ k \in Seq(Names)
    BY DEF Paths
  <2> QED
    BY <2>1, <2>2
<1>2. Cut(p, Len(k)) \in Seq(Names)
  BY <1>1, CutMeans
<1>3. h \in Seq(Names)
  <2>1. CASE p[Len(k)] = k[Len(k)]
    BY <2>1
  <2>2. CASE p[Len(k)] # k[Len(k)]
    <3>1. x \in DOMAIN Rest
      BY <2>2, StartsWithMeans
    <3>2. Rest[x] \in Names
      <4> HIDE DEF x
      <4> QED
        BY <3>1, NamesAssumption
    <3> QED
      BY <2>2, <3>2
  <2> QED
    BY <2>1, <2>2
<1>4. Suffix(p, k) = h \o Cut(p, Len(k))
  BY DEF Suffix, Cut
<1> HIDE DEF h
<1>5. Suffix(p, k) \in Seq(Names)
  BY <1>2, <1>3, <1>4
<1> QED
  BY <1>3, <1>4, <1>5 DEF h

\* The suffix of a folder in another continues that of the other.
LEMMA SuffixSplits ==
    ASSUME NEW p \in Paths, NEW q \in Paths, NEW k \in Paths, StartsWith(p, k),
           Len(p) <= Len(q), Agree(q, p, Len(p))
    PROVE  StartsWith(q, k) /\ Suffix(q, k) = Suffix(p, k) \o Cut(q, Len(p))
<1> DEFINE n == Len(k)
           h == IF p[n] = k[n] THEN << >> ELSE <<Rest[<<p[n], k[n]>>]>>
<1>1. /\ Len(p) \in Nat \ {0} /\ Len(q) \in Nat \ {0} /\ n \in Nat \ {0}
      /\ p \in Seq(Names) /\ q \in Seq(Names) /\ k \in Seq(Names)
  BY DEF Paths
<1>2. /\ n <= Len(p) /\ Agree(p, k, n - 1)
      /\ \/ p[n] = k[n]
         \/ <<p[n], k[n]>> \in DOMAIN Rest
  BY StartsWithMeans
<1>3. q[n] = p[n]
  BY <1>1, <1>2 DEF Agree
<1>4. StartsWith(q, k)
  <2>1. n <= Len(q) /\ Agree(q, k, n - 1)
    BY <1>1, <1>2 DEF Agree
  <2> QED
    BY <1>2, <1>3, <2>1, StartsWithMeans
<1>5. Cut(q, n) = Cut(p, n) \o Cut(q, Len(p))
  <2>1. SubSeq(q, n + 1, Len(p)) \o SubSeq(q, Len(p) + 1, Len(q)) = SubSeq(q, n + 1, Len(q))
    <3>1. /\ n + 1 \in 1 .. Len(q) + 1 /\ Len(p) \in (n + 1) - 1 .. Len(q)
          /\ Len(q) \in Len(p) .. Len(q)
      BY <1>1, <1>2
    <3> QED
      BY <1>1, <3>1, ConcatAdjacentSubSeq
  <2>2. SubSeq(q, n + 1, Len(p)) = SubSeq(p, n + 1, Len(p))
    <3>1. /\ n + 1 \in Int /\ Len(p) \in Int
          /\ \A i \in n + 1 .. Len(p) : q[i] \in Names /\ p[i] \in Names
      BY <1>1
    <3> DEFINE a == SubSeq(q, n + 1, Len(p))
               b == SubSeq(p, n + 1, Len(p))
    <3>2. /\ a \in Seq(Names) /\ b \in Seq(Names)
          /\ Len(a) = IF n + 1 <= Len(p) THEN Len(p) - (n + 1) + 1 ELSE 0
          /\ Len(b) = IF n + 1 <= Len(p) THEN Len(p) - (n + 1) + 1 ELSE 0
          /\ \A i \in 1 .. Len(p) - (n + 1) + 1 : a[i] = q[(n + 1) + i - 1]
          /\ \A i \in 1 .. Len(p) - (n + 1) + 1 : b[i] = p[(n + 1) + i - 1]
      <4> HIDE DEF n
      <4> QED
        BY <3>1, SubSeqProperties
    <3>3. ASSUME NEW i \in 1 .. Len(a) PROVE a[i] = b[i]
      <4>1. i \in 1 .. Len(p) - (n + 1) + 1 /\ (n + 1) + i - 1 \in 1 .. Len(p)
        BY <1>1, <1>2, <3>2
      <4> QED
        BY <3>2, <4>1 DEF Agree
    <3> HIDE DEF a, b
    <3>4. Len(a) = Len(b)
      BY <3>2
    <3>5. a = b
      BY <3>2, <3>3, <3>4, SeqEqual
    <3> QED
      BY <3>5 DEF a, b
  <2> QED
    BY <2>1, <2>2 DEF Cut
<1>6. /\ Suffix(p, k) = h \o Cut(p, n) /\ h \in Seq(Names)
      /\ Suffix(q, k) = h \o Cut(q, n)
  <2>1. Suffix(p, k) = h \o Cut(p, n) /\ h \in Seq(Names)
    BY SuffixType
  <2>2. Suffix(q, k) = h \o Cut(q, n)
    BY <1>3, <1>4, SuffixType
  <2> QED
    BY <2>1, <2>2
<1>7. Cut(p, n) \in Seq(Names) /\ Cut(q, Len(p)) \in Seq(Names)
  BY <1>1, <1>2, CutMeans
<1> HIDE DEF h, n
<1>8. h \o (Cut(p, n) \o Cut(q, Len(p))) = (h \o Cut(p, n)) \o Cut(q, Len(p))
  <2> DEFINE a == Cut(p, n)
             b == Cut(q, Len(p))
  <2>1. h \in Seq(Names) /\ a \in Seq(Names) /\ b \in Seq(Names)
    BY <1>6, <1>7
  <2> HIDE DEF a, b
  <2>2. h \o (a \o b) = (h \o a) \o b
    BY <2>1
  <2> QED
    BY <2>2 DEF a, b
<1> QED
  BY <1>4, <1>5, <1>6, <1>8

\* Files that are the same are merged under one name.
LEMMA SameEntry ==
    ASSUME NEW p \in Paths, NEW q \in Paths, NEW k \in Paths,
           NEW m \in Seq(Names), NEW n \in Seq(Names),
           StartsWith(p, k), Len(p) <= Len(q), FileAt(p, m) = FileAt(q, n)
    PROVE  StartsWith(q, k) /\ EntryFor(p, k, m) = EntryFor(q, k, n)
<1>1. p \in Seq(Names) /\ q \in Seq(Names)
  BY DEF Paths
<1>2. Agree(q, p, Len(p)) /\ m = FileAt(Cut(q, Len(p)), n)
  BY <1>1, Cancel
<1>3. StartsWith(q, k) /\ Suffix(q, k) = Suffix(p, k) \o Cut(q, Len(p))
  BY <1>2, SuffixSplits
<1>4. Suffix(p, k) \in Seq(Names)
  BY SuffixType
<1>5. Cut(q, Len(p)) \in Seq(Names)
  <2>1. Len(p) \in Nat
    BY <1>1
  <2> QED
    BY <1>1, <2>1, CutMeans
<1> DEFINE a == Suffix(p, k)
           b == Cut(q, Len(p))
<1>6. a \o (b \o n) = (a \o b) \o n
  <2> HIDE DEF a, b
  <2>1. a \in Seq(Names) /\ b \in Seq(Names)
    BY <1>4, <1>5 DEF a, b
  <2> QED
    BY <2>1, Assoc, SMTT(30)
<1>7. EntryFor(p, k, m) = a \o (b \o n)
  BY <1>2 DEF EntryFor, FileAt
<1>8. EntryFor(q, k, n) = (a \o b) \o n
  BY <1>3 DEF EntryFor
<1> QED
  BY <1>3, <1>6, <1>7, <1>8

LEMMA SuffixOfItself == ASSUME NEW p \in Paths PROVE Suffix(p, p) = << >>
<1>1. p \in Seq(Names) /\ Len(p) \in Nat \ {0}
  BY DEF Paths
<1>2. Cut(p, Len(p)) \in Seq(Names) /\ Len(Cut(p, Len(p))) = 0
  BY <1>1, CutMeans
<1>3. Cut(p, Len(p)) = << >>
  BY <1>2
<1>4. Suffix(p, p) = << >> \o << >>
  BY <1>3, StartsWithItself, SuffixType
<1> QED
  BY <1>4

\* In a folder that lies in another the suffix is the way from there.
LEMMA SuffixOfChild ==
    ASSUME NEW p \in Paths, NEW k \in Paths, IsPrefix(k, p)
    PROVE  k \o Suffix(p, k) = p
<1>1. /\ Len(p) \in Nat \ {0} /\ Len(k) \in Nat \ {0} /\ Len(k) <= Len(p)
      /\ p \in Seq(Names) /\ k \in Seq(Names)
  BY DEF Paths, IsPrefix
<1>2. Agree(p, k, Len(k))
  <2>1. SubSeq(k, 1, Len(k)) = SubSeq(p, 1, Len(k))
    BY DEF IsPrefix
  <2>2. Agree(k, p, Len(k))
    BY <1>1, <2>1, SameStart
  <2> QED
    BY <2>2 DEF Agree
<1>3. StartsWith(k, k) /\ Suffix(k, k) = << >>
  BY StartsWithItself, SuffixOfItself
<1>4. Suffix(p, k) = << >> \o Cut(p, Len(k))
  BY <1>1, <1>2, <1>3, SuffixSplits
<1>5. Cut(p, Len(k)) \in Seq(Names)
  BY <1>1, CutMeans
<1>6. Suffix(p, k) = Cut(p, Len(k))
  BY <1>4, <1>5
<1>7. SubSeq(p, 1, Len(k)) \o SubSeq(p, Len(k) + 1, Len(p)) = SubSeq(p, 1, Len(p))
  <2>1. /\ 1 \in 1 .. Len(p) + 1 /\ Len(k) \in 1 - 1 .. Len(p)
        /\ Len(p) \in Len(k) .. Len(p)
    BY <1>1
  <2> QED
    BY <1>1, <2>1, ConcatAdjacentSubSeq
<1>8. SubSeq(p, 1, Len(p)) = p /\ SubSeq(p, 1, Len(k)) = k
  <2>1. SubSeq(p, 1, Len(p)) = p /\ SubSeq(k, 1, Len(k)) = k
    BY <1>1, SubSeqFull
  <2> QED
    BY <2>1 DEF IsPrefix
<1> QED
  BY <1>6, <1>7, <1>8 DEF Cut

-----------------------------------------------------------------------------
(***************************************************************************)
(* Merging.  The folders that have been merged are those sorted first, the *)
(* keys of the result begin with none of each other, and every folder      *)
(* begins with one: the one its files are in.                              *)
(***************************************************************************)
Done == DOMAIN files \ left

\* Every set of folders that are left has a first one.
Sortable(paths) ==
    \A T \in SUBSET paths :
        T # {} => \E p \in T : \A q \in T \ {p} : SortsBefore(p, q)

Order ==
    /\ DOMAIN files \subseteq Paths /\ Sortable(left)
    /\ started < Len(folders) \/ listed # {} =>
           left = DOMAIN files /\ coalesced = NoFiles
    /\ \A p \in Done : \A q \in left : SortsBefore(p, q)

Targets ==
    /\ DOMAIN coalesced \subseteq Done
    /\ \A k, l \in DOMAIN coalesced : StartsWith(k, l) => k = l
    /\ \A p \in Done : \E k \in DOMAIN coalesced : StartsWith(p, k)

\* Its details there.
Moved(p, k, name) == [name |-> EntryFor(p, k, name), of |-> p \o name]

Origin(k, entry) ==
    \E p \in Done : \E name \in DOMAIN files[p] :
        /\ StartsWith(p, k) /\ files[p][name] # None
        /\ entry = EntryFor(p, k, name) /\ coalesced[k][entry] = Moved(p, k, name)

Origins ==
    \A k \in DOMAIN coalesced : \A entry \in DOMAIN coalesced[k] :
        coalesced[k][entry] # None => Origin(k, entry)

Arrived(p, name) ==
    \E k \in DOMAIN coalesced :
        /\ StartsWith(p, k) /\ EntryFor(p, k, name) \in DOMAIN coalesced[k]
        /\ coalesced[k][EntryFor(p, k, name)] # None

NoneLost ==
    \A p \in Done : \A name \in DOMAIN files[p] :
        files[p][name] # None => Arrived(p, name)

Merged == folders # << >> => Order /\ Targets /\ Origins /\ NoneLost

LEMMA SortableAdd ==
    ASSUME NEW S \in SUBSET Paths, Sortable(S), NEW r \in Paths
    PROVE  Sortable(S \cup {r})
<1> SUFFICES ASSUME NEW T \in SUBSET (S \cup {r}), T # {}
             PROVE  \E p \in T : \A q \in T \ {p} : SortsBefore(p, q)
  BY DEF Sortable
<1>1. CASE T \ {r} = {}
  <2>1. T = {r}
    BY <1>1
  <2> QED
    BY <2>1
<1>2. CASE T \ {r} # {}
  <2>1. PICK p \in T \ {r} : \A q \in (T \ {r}) \ {p} : SortsBefore(p, q)
    <3>1. T \ {r} \in SUBSET S
      OBVIOUS
    <3> QED
      BY <1>2, <3>1 DEF Sortable
  <2>2. p \in Paths /\ p # r
    BY <2>1
  <2>3. CASE r \in T /\ SortsBefore(r, p)
    <3>1. ASSUME NEW q \in T \ {r} PROVE SortsBefore(r, q)
      <4>1. CASE q = p
        BY <2>3, <4>1
      <4>2. CASE q # p
        <5>1. SortsBefore(p, q) /\ q \in Paths
          BY <2>1, <4>2
        <5> QED
          BY <2>2, <2>3, <5>1, SortsTransitive
      <4> QED
        BY <4>1, <4>2
    <3> QED
      BY <2>3, <3>1
  <2>4. CASE r \notin T \/ SortsBefore(p, r)
    <3>1. \A q \in T \ {p} : SortsBefore(p, q)
      BY <2>1, <2>4
    <3> QED
      BY <3>1
  <2> QED
    BY <2>2, <2>3, <2>4, SortsTotal
<1> QED
  BY <1>1, <1>2

LEMMA SortableLess == ASSUME NEW S, NEW R \in SUBSET S, Sortable(S) PROVE Sortable(R)
BY DEF Sortable

LEMMA FirstIsFirst ==
    ASSUME NEW S, S # {}, Sortable(S)
    PROVE  First(S) \in S /\ \A q \in S \ {First(S)} : SortsBefore(First(S), q)
<1>1. \E p \in S : \A q \in S \ {p} : SortsBefore(p, q)
  BY DEF Sortable
<1> QED
  BY <1>1 DEF First

LEMMA NothingMerged ==
    ASSUME DOMAIN files \subseteq Paths, Sortable(left), left = DOMAIN files,
           coalesced = NoFiles
    PROVE  Order /\ Targets /\ Origins /\ NoneLost
<1>1. Done = {} /\ DOMAIN coalesced = {}
  BY DEF Done, NoFiles
<1> QED
  BY <1>1 DEF Order, Targets, Origins, NoneLost

LEMMA MergedInit == Init => Merged
<1> SUFFICES ASSUME Init PROVE Merged
  OBVIOUS
<1>1. DOMAIN files = {} /\ left = {} /\ coalesced = NoFiles
  BY DEF Init, NoFiles
<1>2. Sortable(left)
  BY <1>1 DEF Sortable
<1> QED
  BY <1>1, <1>2, NothingMerged DEF Merged

\* A search path has a name.
LEMMA SearchPathIsPath ==
    ASSUME Typed, NEW entry \in FolderEntries, ~BadEntry(entry)
    PROVE  SearchPath(entry) \in Paths
<1>1. SearchPath(entry) \in Seq(Names)
  BY SearchPathType
<1>2. entry.path \in Seq(Names) /\ (entry.absolute => entry.path # << >>)
  BY PathsAssumption DEF BadEntry
<1>3. CASE entry.absolute
  BY <1>1, <1>2, <1>3 DEF SearchPath, Paths
<1>4. CASE ~entry.absolute
  <2>1. path \in Seq(Names) /\ path # << >>
    BY <1>4, PathsAssumption DEF Typed, BadEntry
  <2>2. SearchPath(entry) = path \o entry.path
    BY <1>4 DEF SearchPath
  <2>3. path \o entry.path # << >>
    BY <1>2, <2>1, ConcatEqualIffEmpty
  <2> QED
    BY <1>1, <2>2, <2>3 DEF Paths
<1> QED
  BY <1>3, <1>4

LEMMA MergedList == ASSUME Typed, Merged, ListFolder PROVE Merged'
<1> SUFFICES ASSUME folders' # << >> PROVE (Order /\ Targets /\ Origins /\ NoneLost)'
  BY DEF Merged
<1>0. folders' = folders /\ started < Len(folders) /\ listed = {}
  BY DEF ListFolder, Raise
<1>1. Order /\ Targets /\ Origins /\ NoneLost
  BY <1>0 DEF Merged
<1>2. DOMAIN files \subseteq Paths /\ Sortable(left) /\ left = DOMAIN files /\ coalesced = NoFiles
  BY <1>0, <1>1 DEF Order
<1>3. /\ DOMAIN files' \subseteq Paths /\ Sortable(left') /\ left' = DOMAIN files'
      /\ coalesced' = NoFiles
  <2>1. CASE Raise
    BY <1>2, <2>1 DEF Raise
  <2>2. CASE ~Raise
    <3> DEFINE entry == folders[started + 1]
               root  == SearchPath(entry)
    <3>1. /\ ~BadEntry(entry) /\ UNCHANGED coalesced
          /\ files' = Put(files, root, NoFiles) /\ left' = left \cup {root}
      BY <2>2 DEF ListFolder
    <3>2. entry \in FolderEntries
      <4>1. started + 1 \in 1 .. Len(folders)
        BY <1>0 DEF Typed
      <4> QED
        BY <4>1 DEF Typed
    <3>3. root \in Paths
      BY <3>1, <3>2, SearchPathIsPath
    <3> HIDE DEF root
    <3>4. DOMAIN files' = DOMAIN files \cup {root}
      BY <3>1 DEF Put, Updated
    <3>5. Sortable(left')
      BY <1>2, <3>1, <3>3, SortableAdd
    <3> QED
      BY <1>2, <3>1, <3>3, <3>4, <3>5
  <2> QED
    BY <2>1, <2>2
<1>4. Done' = {} /\ DOMAIN coalesced' = {}
  BY <1>3 DEF Done, NoFiles
<1> QED
  BY <1>3, <1>4 DEF Order, Targets, Origins, NoneLost, Sortable

LEMMA MergedRead ==
    ASSUME Typed, Merged, NEW name \in listed, ReadDetails(name) PROVE Merged'
<1> SUFFICES ASSUME folders' # << >> PROVE (Order /\ Targets /\ Origins /\ NoneLost)'
  BY DEF Merged
<1>0. UNCHANGED <<folders, left, coalesced>> /\ listed # {}
  BY DEF ReadDetails
<1>1. Order
  BY <1>0 DEF Merged
<1>2. DOMAIN files \subseteq Paths /\ Sortable(left) /\ left = DOMAIN files /\ coalesced = NoFiles
  BY <1>0, <1>1 DEF Order
<1>3. DOMAIN files' = DOMAIN files
  BY DEF ReadDetails
<1>4. Done' = {} /\ DOMAIN coalesced' = {}
  BY <1>0, <1>2, <1>3 DEF Done, NoFiles
<1> QED
  BY <1>0, <1>2, <1>3, <1>4 DEF Order, Targets, Origins, NoneLost, Sortable

LEMMA RelativeNames == Relative \subseteq Paths
<1> SUFFICES ASSUME NEW x \in Relative PROVE x \in Paths
  OBVIOUS
<1>0. PICK f \in Files : \E k \in 1 .. Len(f) : x = SubSeq(f, k, Len(f))
  BY DEF Relative
<1> PICK k \in 1 .. Len(f) : x = SubSeq(f, k, Len(f))
  BY <1>0
<1>1. f \in Seq(Names)
  BY PathsAssumption
<1>2. k \in Int /\ Len(f) \in Int /\ k <= Len(f) /\ \A i \in k .. Len(f) : f[i] \in Names
  BY <1>1
<1>3. /\ SubSeq(f, k, Len(f)) \in Seq(Names)
      /\ Len(SubSeq(f, k, Len(f))) = Len(f) - k + 1
  BY <1>2, SubSeqProperties
<1>4. SubSeq(f, k, Len(f)) # << >>
  <2>1. Len(f) - k + 1 # 0
    BY <1>2
  <2>2. Len(<< >>) = 0
    OBVIOUS
  <2> QED
    BY <1>3, <2>1, <2>2
<1> QED
  BY <1>3, <1>4 DEF Paths

\* What is known of a file that was found.
LEMMA Found ==
    ASSUME Typed, NEW p \in DOMAIN files, NEW name \in DOMAIN files[p]
    PROVE  /\ name \in Seq(Names)
           /\ files[p][name] \in {None, [name |-> name, of |-> p \o name]}
BY RelativeNames DEF Typed, FilesTyped, RightType, Paths

LEMMA MovedIsDetails ==
    ASSUME NEW p \in Paths, NEW k \in Paths, StartsWith(p, k), NEW name \in Seq(Names)
    PROVE  /\ EntryFor(p, k, name) \in Seq(Names) /\ Moved(p, k, name) # None
           /\ k = p => EntryFor(p, k, name) = name
<1>1. Suffix(p, k) \in Seq(Names) /\ p \in Seq(Names)
  BY SuffixType DEF Paths
<1>2. EntryFor(p, k, name) \in Seq(Names) /\ p \o name \in Seq(Names)
  BY <1>1 DEF EntryFor
<1>3. Moved(p, k, name) \in [name : Seq(Names), of : Seq(Names)]
  BY <1>2 DEF Moved
<1>4. k = p => EntryFor(p, k, name) = name
  <2> SUFFICES ASSUME k = p PROVE EntryFor(p, k, name) = name
    OBVIOUS
  <2>1. EntryFor(p, k, name) = << >> \o name
    BY SuffixOfItself DEF EntryFor
  <2> QED
    BY <2>1
<1> QED
  BY <1>2, <1>3, <1>4, PathsAssumption

\* What Renamed makes of the files of a folder, none of which has gone.
LEMMA RenamedMeans ==
    ASSUME Typed, NEW p \in DOMAIN files, p \in Paths, None \notin Range(files[p]),
           NEW k \in Paths, StartsWith(p, k)
    PROVE  LET src == Renamed(files[p], Suffix(p, k))
           IN  /\ DOMAIN src = {EntryFor(p, k, name) : name \in DOMAIN files[p]}
               /\ \A name \in DOMAIN files[p] :
                      src[EntryFor(p, k, name)] = Moved(p, k, name)
<1> DEFINE suffix == Suffix(p, k)
           src == Renamed(files[p], suffix)
           info(entry) == files[p][CHOOSE name \in DOMAIN files[p] : suffix \o name = entry]
<1>1. suffix \in Seq(Names)
  BY SuffixType
<1> HIDE DEF suffix
<1>2. /\ DOMAIN src = {suffix \o name : name \in DOMAIN files[p]}
      /\ \A entry \in DOMAIN src : src[entry] = [info(entry) EXCEPT !.name = entry]
  BY DEF Renamed
<1>3. ASSUME NEW name \in DOMAIN files[p]
      PROVE  src[suffix \o name] = [name |-> suffix \o name, of |-> p \o name]
  <2>1. \A other \in DOMAIN files[p] : suffix \o other = suffix \o name => other = name
    BY <1>1, Found, ConcatSimplifications
  <2>2. (CHOOSE other \in DOMAIN files[p] : suffix \o other = suffix \o name) = name
    BY <2>1
  <2>3. info(suffix \o name) = files[p][name]
    BY <2>2
  <2>4. files[p][name] # None
    BY DEF Range
  <2>5. files[p][name] = [name |-> name, of |-> p \o name]
    BY <2>4, Found
  <2>6. src[suffix \o name] = [info(suffix \o name) EXCEPT !.name = suffix \o name]
    BY <1>2
  <2> HIDE DEF info, src
  <2>7. src[suffix \o name]
            = [[name |-> name, of |-> p \o name] EXCEPT !.name = suffix \o name]
    BY <2>3, <2>5, <2>6
  <2> QED
    BY <2>7
<1> HIDE DEF src
<1>4. /\ DOMAIN src = {EntryFor(p, k, name) : name \in DOMAIN files[p]}
      /\ \A name \in DOMAIN files[p] : src[EntryFor(p, k, name)] = Moved(p, k, name)
  BY <1>2, <1>3 DEF EntryFor, Moved, suffix
<1> QED
  BY <1>4 DEF src, suffix

\* A folder that begins with no key of the result becomes one.
LEMMA MergedApart ==
    ASSUME Typed, Order, Targets, Origins, NoneLost, Coalesce, ~raised',
           folders' = folders, files' = files,
           NEW folder \in left, folder = First(left),
           {fixed \in DOMAIN coalesced : StartsWith(folder, fixed)} = {}
    PROVE  (Targets /\ Origins /\ NoneLost)'
<1>1. folder \in DOMAIN files /\ folder \in Paths /\ folder \notin DOMAIN coalesced
  BY DEF Typed, Order, Targets, Done
<1>2. coalesced' = Put(coalesced, folder, files[folder]) /\ left' = left \ {folder}
  BY DEF Coalesce, Raise, MergeFails
<1>3. /\ DOMAIN coalesced' = DOMAIN coalesced \cup {folder}
      /\ coalesced'[folder] = files[folder]
      /\ \A k \in DOMAIN coalesced : coalesced'[k] = coalesced[k]
  BY <1>1, <1>2 DEF Put, Updated
<1>4. Done' = Done \cup {folder} /\ Done \subseteq Paths /\ DOMAIN coalesced \subseteq Done
  BY <1>1, <1>2 DEF Done, Order, Targets
<1>5. ASSUME NEW l \in DOMAIN coalesced PROVE ~StartsWith(l, folder) /\ ~StartsWith(folder, l)
  <2>1. l \in Paths /\ SortsBefore(l, folder) /\ l # folder
    BY <1>1, <1>4 DEF Order
  <2> QED
    BY <1>1, <2>1, StartsWithSorts, SortsAsymmetric
<1>6. Targets'
  <2>1. DOMAIN coalesced' \subseteq Done'
    BY <1>3, <1>4 DEF Targets
  <2>2. \A k, l \in DOMAIN coalesced' : StartsWith(k, l) => k = l
    BY <1>3, <1>5 DEF Targets
  <2>3. \A p \in Done' : \E k \in DOMAIN coalesced' : StartsWith(p, k)
    BY <1>1, <1>3, <1>4, StartsWithItself DEF Targets
  <2> QED
    BY <2>1, <2>2, <2>3 DEF Targets
<1>7. Origins'
  <2> SUFFICES ASSUME NEW k \in DOMAIN coalesced', NEW entry \in DOMAIN coalesced'[k],
                      coalesced'[k][entry] # None
               PROVE  Origin(k, entry)'
    BY DEF Origins
  <2>1. CASE k \in DOMAIN coalesced
    <3>1. Origin(k, entry)
      BY <1>3, <2>1 DEF Origins
    <3> QED
      BY <1>3, <1>4, <2>1, <3>1 DEF Origin
  <2>2. CASE k = folder
    <3>1. entry \in DOMAIN files[folder] /\ files[folder][entry] # None
      BY <1>3, <2>2
    <3>2. /\ entry \in Seq(Names)
          /\ files[folder][entry] = [name |-> entry, of |-> folder \o entry]
      BY <1>1, <3>1, Found
    <3>3. EntryFor(folder, folder, entry) = entry /\ StartsWith(folder, folder)
      BY <1>1, <3>2, MovedIsDetails, StartsWithItself
    <3>4. coalesced'[k][entry] = Moved(folder, k, entry)
      BY <1>3, <2>2, <3>2, <3>3 DEF Moved
    <3> QED
      BY <1>4, <2>2, <3>1, <3>3, <3>4 DEF Origin
  <2> QED
    BY <1>3, <2>1, <2>2
<1>8. NoneLost'
  <2> SUFFICES ASSUME NEW p \in Done', NEW name \in DOMAIN files[p], files[p][name] # None
               PROVE  Arrived(p, name)'
    BY DEF NoneLost
  <2>1. CASE p \in Done
    <3>1. Arrived(p, name)
      BY <2>1 DEF NoneLost
    <3> QED
      BY <1>3, <3>1 DEF Arrived
  <2>2. CASE p = folder
    <3>1. name \in Seq(Names)
      BY <1>1, <2>2, Found
    <3>2. EntryFor(p, p, name) = name /\ StartsWith(p, p)
      BY <1>1, <2>2, <3>1, MovedIsDetails, StartsWithItself
    <3> QED
      BY <1>3, <2>2, <3>2 DEF Arrived
  <2> QED
    BY <1>4, <2>1, <2>2
<1> QED
  BY <1>6, <1>7, <1>8

\* A folder that begins with a key of the result is merged into it, and there
\* is only one such key.
LEMMA MergedInto ==
    ASSUME Typed, Order, Targets, Origins, NoneLost, Coalesce, ~raised',
           folders' = folders, files' = files,
           NEW folder \in left, folder = First(left),
           NEW c \in DOMAIN coalesced, StartsWith(folder, c)
    PROVE  (Targets /\ Origins /\ NoneLost)'
<1>1. /\ folder \in DOMAIN files /\ folder \in Paths
      /\ c \in Paths /\ DOMAIN coalesced \subseteq Paths
  BY DEF Typed, Order, Targets, Done
<1>2. {fixed \in DOMAIN coalesced : StartsWith(folder, fixed)} = {c}
  <2>1. ASSUME NEW d \in DOMAIN coalesced, StartsWith(folder, d) PROVE d = c
    <3>1. d \in Paths
      BY <1>1
    <3>2. StartsWith(c, d) \/ StartsWith(d, c)
      BY <1>1, <2>1, <3>1, StartsWithLinear
    <3> QED
      BY <2>1, <3>2 DEF Targets
  <2> QED
    BY <2>1
<1> DEFINE src == Renamed(files[folder], Suffix(folder, c))
<1>3. /\ None \notin Range(files[folder]) /\ left' = left \ {folder}
      /\ coalesced' = [coalesced EXCEPT ![c] = Updated(@, src)]
  <2>1. First({c}) = c
    BY FirstOfOne
  <2> HIDE DEF src
  <2>2. ~MergeFails(folder, {c})
    BY <1>2 DEF Coalesce, Raise
  <2>3. None \notin Range(files[folder])
    BY <2>2 DEF MergeFails
  <2> QED
    BY <1>2, <2>1, <2>2, <2>3 DEF Coalesce, Raise, src
<1>4. /\ DOMAIN src = {EntryFor(folder, c, name) : name \in DOMAIN files[folder]}
      /\ \A name \in DOMAIN files[folder] :
             src[EntryFor(folder, c, name)] = Moved(folder, c, name)
  BY <1>1, <1>3, RenamedMeans
<1> HIDE DEF src
<1>5. /\ DOMAIN coalesced' = DOMAIN coalesced
      /\ \A k \in DOMAIN coalesced : k # c => coalesced'[k] = coalesced[k]
      /\ DOMAIN coalesced'[c] = DOMAIN coalesced[c] \cup DOMAIN src
      /\ \A e \in DOMAIN src : coalesced'[c][e] = src[e]
      /\ \A e \in DOMAIN coalesced[c] \ DOMAIN src : coalesced'[c][e] = coalesced[c][e]
  BY <1>3 DEF Updated
<1>6. Done' = Done \cup {folder} /\ Done \subseteq Paths
  BY <1>1, <1>3 DEF Done, Order
<1>7. Targets'
  BY <1>5, <1>6 DEF Targets
<1>8. \A name \in DOMAIN files[folder] :
          /\ files[folder][name] # None /\ Moved(folder, c, name) # None
          /\ EntryFor(folder, c, name) \in DOMAIN src
  BY <1>1, <1>3, <1>4, Found, MovedIsDetails DEF Range
<1>9. Origins'
  <2> SUFFICES ASSUME NEW k \in DOMAIN coalesced, NEW entry \in DOMAIN coalesced'[k],
                      coalesced'[k][entry] # None
               PROVE  Origin(k, entry)'
    BY <1>5 DEF Origins
  <2>1. CASE k = c /\ entry \in DOMAIN src
    <3>1. PICK name \in DOMAIN files[folder] : entry = EntryFor(folder, c, name)
      BY <1>4, <2>1
    <3>2. coalesced'[c][entry] = Moved(folder, c, name)
      BY <1>4, <1>5, <2>1, <3>1
    <3> QED
      BY <1>6, <1>8, <2>1, <3>1, <3>2 DEF Origin
  <2>2. CASE ~(k = c /\ entry \in DOMAIN src)
    <3>1. entry \in DOMAIN coalesced[k] /\ coalesced'[k][entry] = coalesced[k][entry]
      BY <1>5, <2>2
    <3>2. Origin(k, entry)
      BY <3>1 DEF Origins
    <3> QED
      BY <1>6, <3>1, <3>2 DEF Origin
  <2> QED
    BY <2>1, <2>2
<1>10. NoneLost'
  <2> SUFFICES ASSUME NEW p \in Done', NEW name \in DOMAIN files[p], files[p][name] # None
               PROVE  Arrived(p, name)'
    BY DEF NoneLost
  <2>1. CASE p \in Done
    <3>1. PICK k \in DOMAIN coalesced :
              /\ StartsWith(p, k) /\ EntryFor(p, k, name) \in DOMAIN coalesced[k]
              /\ coalesced[k][EntryFor(p, k, name)] # None
      BY <2>1 DEF NoneLost, Arrived
    <3>2. CASE k = c /\ EntryFor(p, k, name) \in DOMAIN src
      <4>1. PICK other \in DOMAIN files[folder] :
                EntryFor(p, k, name) = EntryFor(folder, c, other)
        BY <1>4, <3>2
      <4>2. coalesced'[c][EntryFor(p, k, name)] = Moved(folder, c, other)
        BY <1>4, <1>5, <3>2, <4>1
      <4> QED
        BY <1>5, <1>8, <3>1, <3>2, <4>2 DEF Arrived
    <3>3. CASE ~(k = c /\ EntryFor(p, k, name) \in DOMAIN src)
      <4>1. /\ EntryFor(p, k, name) \in DOMAIN coalesced'[k]
            /\ coalesced'[k][EntryFor(p, k, name)] = coalesced[k][EntryFor(p, k, name)]
        BY <1>5, <3>1, <3>3
      <4> QED
        BY <1>5, <3>1, <4>1 DEF Arrived
    <3> QED
      BY <3>2, <3>3
  <2>2. CASE p = folder
    <3>1. /\ EntryFor(folder, c, name) \in DOMAIN coalesced'[c]
          /\ coalesced'[c][EntryFor(folder, c, name)] = Moved(folder, c, name)
      BY <1>4, <1>5, <1>8, <2>2
    <3> QED
      BY <1>5, <1>8, <2>2, <3>1 DEF Arrived
  <2> QED
    BY <1>6, <2>1, <2>2
<1> QED
  BY <1>7, <1>9, <1>10

LEMMA MergedCoalesce == ASSUME Typed, Merged, Coalesce PROVE Merged'
<1> SUFFICES ASSUME folders' # << >> PROVE (Order /\ Targets /\ Origins /\ NoneLost)'
  BY DEF Merged
<1>0. UNCHANGED <<folders, files, started, listed>>
  BY DEF Coalesce, Raise
<1>1. Order /\ Targets /\ Origins /\ NoneLost
  BY <1>0 DEF Merged
<1> DEFINE folder == First(left)
           parents == {fixed \in DOMAIN coalesced : StartsWith(folder, fixed)}
<1>2. CASE Raise /\ UNCHANGED <<left, coalesced>>
  BY <1>0, <1>1, <1>2 DEF Order, Targets, Origins, Origin, NoneLost, Arrived, Done,
                          Sortable
<1>3. CASE ~Raise
  <2>1. /\ ~raised /\ left # {} /\ listed = {} /\ started = Len(folders)
        /\ left' = left \ {folder} /\ UNCHANGED raised
    BY <1>3 DEF Coalesce
  <2>2. folder \in left /\ \A q \in left \ {folder} : SortsBefore(folder, q)
    BY <1>1, <2>1, FirstIsFirst DEF Order
  <2> HIDE DEF folder
  <2>3. Order'
    <3>1. Sortable(left')
      BY <1>1, <2>1, SortableLess DEF Order
    <3>2. \A p \in Done' : \A q \in left' : SortsBefore(p, q)
      BY <1>0, <1>1, <2>1, <2>2 DEF Order, Done
    <3>3. ~(started' < Len(folders')) /\ listed' = {}
      BY <1>0, <2>1 DEF Typed
    <3> QED
      BY <1>0, <1>1, <3>1, <3>2, <3>3 DEF Order, Sortable
  <2>4. (Targets /\ Origins /\ NoneLost)'
    <3>1. CASE parents = {}
      BY <1>0, <1>1, <2>1, <2>2, <3>1, MergedApart DEF folder
    <3>2. CASE parents # {}
      <4>1. PICK c \in DOMAIN coalesced : StartsWith(folder, c)
        BY <3>2
      <4> QED
        BY <1>0, <1>1, <2>1, <2>2, <4>1, MergedInto DEF folder
    <3> QED
      BY <3>1, <3>2
  <2> QED
    BY <2>3, <2>4
<1> QED
  BY <1>2, <1>3 DEF Raise


LEMMA MergedStep == Typed /\ Merged /\ [Next]_vars => Merged'
<1> SUFFICES ASSUME Typed, Merged, [Next]_vars PROVE Merged'
  OBVIOUS
<1>1. CASE \/ \E file \in tree : Delete(file)
           \/ UNCHANGED vars
  <2>1. UNCHANGED <<folders, started, listed, files, left, coalesced>>
    BY <1>1 DEF Delete, vars
  <2> QED
    BY <2>1 DEF Merged, Order, Targets, Origins, Origin, NoneLost, Arrived, Done, Sortable
<1>2. CASE ListFolder
  BY <1>2, MergedList
<1>3. CASE \E name \in listed : ReadDetails(name)
  BY <1>3, MergedRead
<1>4. CASE Coalesce
  BY <1>4, MergedCoalesce
<1>5. CASE GatherView
  BY <1>5 DEF GatherView, Merged
<1> QED
  BY <1>1, <1>2, <1>3, <1>4, <1>5 DEF Next

LEMMA SameFile ==
    ASSUME Typed, Order, Targets,
           NEW k \in DOMAIN coalesced, NEW l \in DOMAIN coalesced,
           NEW p \in Done, NEW q \in Done,
           NEW m \in DOMAIN files[p], NEW n \in DOMAIN files[q],
           StartsWith(p, k), StartsWith(q, l), FileAt(p, m) = FileAt(q, n), Len(p) <= Len(q)
    PROVE  k = l /\ EntryFor(p, k, m) = EntryFor(q, l, n)
<1>1. p \in Paths /\ q \in Paths /\ p \in DOMAIN files /\ q \in DOMAIN files
  BY DEF Order, Done
<1>2. k \in Paths /\ l \in Paths
  BY DEF Order, Targets, Done
<1>3. m \in Seq(Names)
  BY <1>1, Found
<1>4. n \in Seq(Names)
  BY <1>1, Found
<1>5. StartsWith(q, k) /\ EntryFor(p, k, m) = EntryFor(q, k, n)
  BY <1>1, <1>2, <1>3, <1>4, SameEntry
<1>6. k = l
  <2>1. StartsWith(k, l) \/ StartsWith(l, k)
    BY <1>1, <1>2, <1>5, StartsWithLinear
  <2> QED
    BY <2>1 DEF Targets
<1> QED
  BY <1>5, <1>6

LEMMA Unique ==
    ASSUME Typed, Merged, folders # << >>,
           NEW e \in Entries(coalesced), NEW f \in Entries(coalesced),
           coalesced[e[1]][e[2]].of = coalesced[f[1]][f[2]].of
    PROVE  e = f
<1>0. Order /\ Targets /\ Origins
  BY DEF Merged
<1>1. ASSUME NEW g \in Entries(coalesced)
      PROVE  /\ g = <<g[1], g[2]>> /\ g[1] \in DOMAIN coalesced
             /\ Origin(g[1], g[2])
  <2>1. /\ g = <<g[1], g[2]>> /\ g[1] \in DOMAIN coalesced
        /\ g[2] \in DOMAIN coalesced[g[1]] /\ coalesced[g[1]][g[2]] # None
    BY DEF Entries
  <2>2. Origin(g[1], g[2])
    BY <1>0, <2>1 DEF Origins
  <2> QED
    BY <2>1, <2>2
<1>2. PICK p \in Done : \E m \in DOMAIN files[p] :
          /\ StartsWith(p, e[1]) /\ e[2] = EntryFor(p, e[1], m)
          /\ coalesced[e[1]][e[2]] = Moved(p, e[1], m)
  BY <1>1 DEF Origin
<1>3. PICK m \in DOMAIN files[p] :
          /\ StartsWith(p, e[1]) /\ e[2] = EntryFor(p, e[1], m)
          /\ coalesced[e[1]][e[2]] = Moved(p, e[1], m)
  BY <1>2
<1>4. PICK q \in Done : \E n \in DOMAIN files[q] :
          /\ StartsWith(q, f[1]) /\ f[2] = EntryFor(q, f[1], n)
          /\ coalesced[f[1]][f[2]] = Moved(q, f[1], n)
  BY <1>1 DEF Origin
<1>5. PICK n \in DOMAIN files[q] :
          /\ StartsWith(q, f[1]) /\ f[2] = EntryFor(q, f[1], n)
          /\ coalesced[f[1]][f[2]] = Moved(q, f[1], n)
  BY <1>4
<1>6. e[1] \in DOMAIN coalesced /\ f[1] \in DOMAIN coalesced
  BY <1>1
<1>7. FileAt(p, m) = FileAt(q, n)
  <2>1. Moved(p, e[1], m).of = FileAt(p, m) /\ Moved(q, f[1], n).of = FileAt(q, n)
    BY DEF Moved, FileAt
  <2> QED
    BY <1>3, <1>5, <2>1
<1>8. e[1] = f[1] /\ e[2] = f[2]
  <2>1. Len(p) \in Nat /\ Len(q) \in Nat
    BY <1>0 DEF Order, Done, Paths
  <2>2. CASE Len(p) <= Len(q)
    <3>1. e[1] = f[1] /\ EntryFor(p, e[1], m) = EntryFor(q, f[1], n)
      BY <1>0, <1>3, <1>5, <1>6, <1>7, <2>2, SameFile
    <3> QED
      BY <1>3, <1>5, <3>1
  <2>3. CASE Len(q) <= Len(p)
    <3>1. f[1] = e[1] /\ EntryFor(q, f[1], n) = EntryFor(p, e[1], m)
      BY <1>0, <1>3, <1>5, <1>6, <1>7, <2>3, SameFile
    <3> QED
      BY <1>3, <1>5, <3>1
  <2> QED
    BY <2>1, <2>2, <2>3
<1> QED
  BY <1>1, <1>8

\* No file of the project is in the result twice, whichever folders lie in
\* which others and in whatever order they are given (file_gather.py:62-75).
THEOREM OnceEach == Spec => []NoFileTwice
<1>1. Typed /\ Merged => NoFileTwice
  BY Unique DEF NoFileTwice
<1> QED
  BY <1>1, TypedInit, TypedStep, MergedInit, MergedStep, PTL DEF Spec

LEMMA ByTheirNames ==
    ASSUME Typed, Merged, folders # << >>, left = {}, Proper
    PROVE  /\ \A e \in Entries(coalesced) :
                  coalesced[e[1]][e[2]] = [name |-> e[2], of |-> e[1] \o e[2]]
           /\ {e[1] \o e[2] : e \in Entries(coalesced)}
                  = {e[1] \o e[2] : e \in Entries(files)}
<1>0. Order /\ Targets /\ Origins /\ NoneLost /\ Done = DOMAIN files
  BY DEF Merged, Done
<1>1. ASSUME NEW p \in DOMAIN files, NEW k \in DOMAIN coalesced,
             NEW name \in DOMAIN files[p], StartsWith(p, k)
      PROVE  k \o EntryFor(p, k, name) = p \o name
  <2>1. p \in Paths /\ k \in Paths /\ k \in DOMAIN files
    BY <1>0 DEF Order, Targets
  <2>2. k \o Suffix(p, k) = p
    BY <1>1, <2>1, SuffixOfChild DEF Proper
  <2>3. k \in Seq(Names) /\ Suffix(p, k) \in Seq(Names) /\ name \in Seq(Names)
    BY <1>1, <2>1, SuffixType, Found DEF Paths
  <2>4. k \o (Suffix(p, k) \o name) = (k \o Suffix(p, k)) \o name
    BY <2>3
  <2> QED
    BY <2>2, <2>4 DEF EntryFor
<1>2. ASSUME NEW e \in Entries(coalesced)
      PROVE  /\ coalesced[e[1]][e[2]] = [name |-> e[2], of |-> e[1] \o e[2]]
             /\ \E d \in Entries(files) : e[1] \o e[2] = d[1] \o d[2]
  <2>1. /\ e[1] \in DOMAIN coalesced /\ e[2] \in DOMAIN coalesced[e[1]]
        /\ coalesced[e[1]][e[2]] # None
    BY DEF Entries
  <2>2. PICK p \in DOMAIN files : \E name \in DOMAIN files[p] :
            /\ StartsWith(p, e[1]) /\ files[p][name] # None
            /\ e[2] = EntryFor(p, e[1], name)
            /\ coalesced[e[1]][e[2]] = Moved(p, e[1], name)
    BY <1>0, <2>1 DEF Origins, Origin
  <2>3. PICK name \in DOMAIN files[p] :
            /\ StartsWith(p, e[1]) /\ files[p][name] # None
            /\ e[2] = EntryFor(p, e[1], name)
            /\ coalesced[e[1]][e[2]] = Moved(p, e[1], name)
    BY <2>2
  <2>4. e[1] \o e[2] = p \o name
    BY <1>1, <2>1, <2>3
  <2>5. <<p, name>> \in Entries(files)
    BY <2>3 DEF Entries
  <2> QED
    BY <2>3, <2>4, <2>5 DEF Moved
<1>3. ASSUME NEW d \in Entries(files)
      PROVE  \E e \in Entries(coalesced) : e[1] \o e[2] = d[1] \o d[2]
  <2>1. /\ d[1] \in DOMAIN files /\ d[2] \in DOMAIN files[d[1]]
        /\ files[d[1]][d[2]] # None
    BY DEF Entries
  <2>2. PICK k \in DOMAIN coalesced :
            /\ StartsWith(d[1], k) /\ EntryFor(d[1], k, d[2]) \in DOMAIN coalesced[k]
            /\ coalesced[k][EntryFor(d[1], k, d[2])] # None
    BY <1>0, <2>1 DEF NoneLost, Arrived
  <2>3. k \o EntryFor(d[1], k, d[2]) = d[1] \o d[2]
    BY <1>1, <2>1, <2>2
  <2>4. <<k, EntryFor(d[1], k, d[2])>> \in Entries(coalesced)
    BY <2>2 DEF Entries
  <2> QED
    BY <2>3, <2>4
<1>4. {e[1] \o e[2] : e \in Entries(coalesced)} \subseteq {e[1] \o e[2] : e \in Entries(files)}
  BY <1>2
<1>5. {e[1] \o e[2] : e \in Entries(files)} \subseteq {e[1] \o e[2] : e \in Entries(coalesced)}
  BY <1>3
<1> QED
  BY <1>2, <1>4, <1>5

\* Every file that was found in some folder is in the result, under the folder
\* and the name that lead to it (file_gather.py:78-89).
THEOREM FoundByItsName == Spec => []EveryFileByItsName
<1>1. Typed /\ Merged => EveryFileByItsName
  BY ByTheirNames DEF EveryFileByItsName, Finished
<1> QED
  BY <1>1, TypedInit, TypedStep, MergedInit, MergedStep, PTL DEF Spec
-----------------------------------------------------------------------------
(***************************************************************************)
(* The deltas of two sets of files                                         *)
(***************************************************************************)
\* A sha1 that both details have is that of one content.
LEMMA SameHash ==
    ASSUME NEW h \in BOOLEAN, NEW k \in BOOLEAN,
           NEW a \in Infos(h), NEW b \in Infos(k), a.sha1 # Missing
    PROVE  a.sha1 = b.sha1 => a.content = b.content
<1>1. PICK c \in Contents : a = [content |-> c, sha1 |-> IF h THEN c ELSE Missing]
  BY DEF Infos
<1>2. PICK d \in Contents : b = [content |-> d, sha1 |-> IF k THEN d ELSE Missing]
  BY DEF Infos
<1> QED
  BY <1>1, <1>2, MissingAssumption

\* With hashes at both ends the same content has the same sha1.
LEMMA SameContent ==
    ASSUME NEW h \in BOOLEAN, NEW k \in BOOLEAN,
           NEW a \in Infos(h), NEW b \in Infos(k), a.sha1 # Missing, b.sha1 # Missing
    PROVE  a.content = b.content => a.sha1 = b.sha1
<1>1. PICK c \in Contents : a = [content |-> c, sha1 |-> IF h THEN c ELSE Missing]
  BY DEF Infos
<1>2. PICK d \in Contents : b = [content |-> d, sha1 |-> IF k THEN d ELSE Missing]
  BY DEF Infos
<1> QED
  BY <1>1, <1>2

\* A member of Dicts is a function on some of the keys.
LEMMA DictType ==
    ASSUME NEW K, NEW V, NEW d \in Dicts(K, V)
    PROVE  /\ DOMAIN d \subseteq K
           /\ d \in [DOMAIN d -> V]
BY DEF Dicts

\* The details in the files of a folder
LEMMA FilesType ==
    ASSUME NEW h, NEW d \in FolderFiles(h)
    PROVE  \A n \in DOMAIN d : d[n] = Missing \/ d[n] \in Infos(h)
<1>1. d \in Dicts(FileNames, Infos(h) \cup {Missing})
  BY DEF FolderFiles
<1> QED
  BY <1>1, DictType

\* What the files of two ends have to be for their details to be compared
Comparable(ours, theirs) ==
    \A n \in DOMAIN ours \cap DOMAIN theirs : ours[n] # Missing /\ theirs[n] # Missing

HashedFiles(d) == \A n \in DOMAIN d : d[n] # Missing => d[n].sha1 # Missing

\* The deltas of a folder that both ends have
LEMMA DiffMatches ==
    ASSUME NEW h \in BOOLEAN, NEW k \in BOOLEAN,
           NEW ours \in FolderFiles(h), NEW theirs \in FolderFiles(k),
           Comparable(ours, theirs),
           HashedFiles(ours) \/ HashedFiles(theirs)
    PROVE  SameContents(Patched(theirs, DiffFiles(ours, theirs)), ours)
<1> DEFINE both == DOMAIN ours \cap DOMAIN theirs
           changed == {n \in both : ours[n].sha1 # theirs[n].sha1}
           delta == DiffFiles(ours, theirs)
           mine == Patched(theirs, delta)
<1>1. /\ DOMAIN delta.add = DOMAIN ours \ DOMAIN theirs
      /\ DOMAIN delta.remove = DOMAIN theirs \ DOMAIN ours
      /\ DOMAIN delta.modify = changed
      /\ \A n \in DOMAIN delta.add : delta.add[n] = ours[n]
      /\ \A n \in DOMAIN delta.modify : delta.modify[n] = ours[n]
  BY DEF DiffFiles, Restrict
<1>2. DOMAIN mine = DOMAIN ours
  <2>1. DOMAIN mine = (DOMAIN theirs \ DOMAIN delta.remove)
                         \cup DOMAIN delta.add \cup DOMAIN delta.modify
    BY DEF Patched
  <2> QED
    BY <1>1, <2>1
<1>3. ASSUME NEW n \in DOMAIN ours
      PROVE  ContentOf(mine[n]) = ContentOf(ours[n])
  <2>1. CASE n \notin DOMAIN theirs
    <3>1. mine[n] = delta.add[n]
      BY <1>1, <1>2, <2>1 DEF Patched
    <3> QED
      BY <3>1, <1>1, <2>1
  <2>2. CASE n \in changed
    <3>1. mine[n] = delta.modify[n]
      BY <1>1, <1>2, <2>2 DEF Patched
    <3> QED
      BY <3>1, <1>1, <2>2
  <2>3. CASE n \in both \ changed
    <3>1. mine[n] = theirs[n]
      BY <1>1, <1>2, <2>3 DEF Patched
    <3>2. ours[n] # Missing /\ theirs[n] # Missing
      BY <2>3 DEF Comparable
    <3>3. ours[n] \in Infos(h) /\ theirs[n] \in Infos(k)
      BY <2>3, <3>2, FilesType
    <3>4. ours[n].sha1 = theirs[n].sha1
      BY <2>3
    <3>5. ours[n].sha1 # Missing
      BY <2>3, <3>2, <3>4 DEF HashedFiles
    <3>6. ours[n].content = theirs[n].content
      BY <3>3, <3>4, <3>5, SameHash
    <3> QED
      BY <3>1, <3>2, <3>6 DEF ContentOf
  <2> QED
    BY <2>1, <2>2, <2>3
<1> QED
  BY <1>2, <1>3 DEF SameContents

\* The deltas of a folder that one end has
LEMMA AllAddedMatches ==
    ASSUME NEW h, NEW ours \in FolderFiles(h)
    PROVE  SameContents(Patched(NoEntries, AllAdded(ours)), ours)
BY DEF SameContents, Patched, AllAdded, NoEntries

LEMMA AllRemovedMatches ==
    ASSUME NEW h, NEW theirs \in FolderFiles(h)
    PROVE  SameContents(Patched(theirs, AllRemoved(theirs)), NoEntries)
BY DEF SameContents, Patched, AllRemoved, NoEntries
-----------------------------------------------------------------------------
\* The files of a folder of a file set
LEMMA FolderTypes ==
    ASSUME NEW h \in BOOLEAN, NEW s \in Filesets[h], NEW f \in DOMAIN s
    PROVE  s[f] \in FolderFiles(h)
<1>1. s \in Dicts(FolderNames, FolderFiles(h))
  BY DEF Filesets
<1> QED
  BY <1>1, DictType

\* The deltas make the files of the other end match ours
\* (calculate_fileset_deltas, file_gather.py:205-267).
THEOREM Matches == Arguments => MakesThemMatch
<1> SUFFICES ASSUME NEW h \in BOOLEAN, NEW k \in BOOLEAN,
                    us \in Filesets[h], them \in Filesets[k],
                    ~CannotCompare, Hashed(us) \/ Hashed(them),
                    NEW f \in DOMAIN us \cup DOMAIN them
             PROVE  /\ f \in DOMAIN FilesetDelta(us, them)
                    /\ SameContents(
                           Patched(FilesOf(them, f), FilesetDelta(us, them)[f]),
                           FilesOf(us, f))
  BY DEF MakesThemMatch, Arguments
<1> DEFINE deltas == FilesetDelta(us, them)
<1>1. f \in DOMAIN deltas
  BY DEF FilesetDelta
<1>2. CASE f \notin DOMAIN them
  <2>1. us[f] \in FolderFiles(h)
    BY <1>2, FolderTypes
  <2>2. deltas[f] = AllAdded(us[f])
    BY <1>2 DEF FilesetDelta
  <2> QED
    BY <1>1, <1>2, <2>1, <2>2, AllAddedMatches DEF FilesOf
<1>3. CASE f \notin DOMAIN us
  <2>1. them[f] \in FolderFiles(k)
    BY <1>3, FolderTypes
  <2>2. deltas[f] = AllRemoved(them[f])
    BY <1>3 DEF FilesetDelta
  <2> QED
    BY <1>1, <1>3, <2>1, <2>2, AllRemovedMatches DEF FilesOf
<1>4. CASE f \in DOMAIN us /\ f \in DOMAIN them
  <2>1. us[f] \in FolderFiles(h) /\ them[f] \in FolderFiles(k)
    BY <1>4, FolderTypes
  <2>2. deltas[f] = DiffFiles(us[f], them[f])
    BY <1>4 DEF FilesetDelta
  <2>3. Comparable(us[f], them[f])
    BY <1>4 DEF CannotCompare, Comparable
  <2>4. HashedFiles(us[f]) \/ HashedFiles(them[f])
    BY <1>4 DEF Hashed, HashedFiles
  <2>5. SameContents(Patched(them[f], DiffFiles(us[f], them[f])), us[f])
    BY <2>1, <2>3, <2>4, DiffMatches
  <2> QED
    BY <1>1, <1>4, <2>2, <2>5 DEF FilesOf
<1> QED
  BY <1>2, <1>3, <1>4

\* Nothing is added, removed or modified that need not be
\* (calculate_fileset_deltas, file_gather.py:243-254).
THEOREM NoneInVain == Arguments => NothingInVain
<1> SUFFICES ASSUME NEW h \in BOOLEAN, NEW k \in BOOLEAN,
                    us \in Filesets[h], them \in Filesets[k],
                    ~CannotCompare, Hashed(us), Hashed(them),
                    NEW f \in DOMAIN FilesetDelta(us, them)
             PROVE  LET delta  == FilesetDelta(us, them)[f]
                        ours   == FilesOf(us, f)
                        theirs == FilesOf(them, f)
                    IN  /\ DOMAIN delta.add \cap DOMAIN theirs = {}
                        /\ DOMAIN delta.remove \subseteq DOMAIN theirs \ DOMAIN ours
                        /\ \A n \in DOMAIN delta.modify :
                               theirs[n].content # ours[n].content
  BY DEF NothingInVain, Arguments
<1> DEFINE delta == FilesetDelta(us, them)[f]
<1>1. f \in DOMAIN us \cup DOMAIN them
  BY DEF FilesetDelta
<1>2. CASE f \notin DOMAIN them
  <2>1. delta = AllAdded(us[f])
    BY <1>1, <1>2 DEF FilesetDelta
  <2> QED
    BY <1>2, <2>1 DEF AllAdded, NoEntries, FilesOf
<1>3. CASE f \notin DOMAIN us
  <2>1. delta = AllRemoved(them[f])
    BY <1>1, <1>3 DEF FilesetDelta
  <2> QED
    BY <1>1, <1>3, <2>1 DEF AllRemoved, NoEntries, FilesOf
<1>4. CASE f \in DOMAIN us /\ f \in DOMAIN them
  <2>1. us[f] \in FolderFiles(h) /\ them[f] \in FolderFiles(k)
    BY <1>4, FolderTypes
  <2>2. delta = DiffFiles(us[f], them[f])
    BY <1>4 DEF FilesetDelta
  <2>3. FilesOf(us, f) = us[f] /\ FilesOf(them, f) = them[f]
    BY <1>4 DEF FilesOf
  <2>4. /\ DOMAIN delta.add = DOMAIN us[f] \ DOMAIN them[f]
        /\ DOMAIN delta.remove = DOMAIN them[f] \ DOMAIN us[f]
        /\ DOMAIN delta.modify = {n \in DOMAIN us[f] \cap DOMAIN them[f] :
                                     us[f][n].sha1 # them[f][n].sha1}
    BY <2>2 DEF DiffFiles, Restrict
  <2>5. ASSUME NEW n \in DOMAIN delta.modify
        PROVE  them[f][n].content # us[f][n].content
    <3>1. /\ n \in DOMAIN us[f] \cap DOMAIN them[f]
          /\ us[f][n].sha1 # them[f][n].sha1
      BY <2>4, <2>5
    <3>2. us[f][n] # Missing /\ them[f][n] # Missing
      BY <1>4, <3>1 DEF CannotCompare
    <3>3. us[f][n] \in Infos(h) /\ them[f][n] \in Infos(k)
      BY <2>1, <3>1, <3>2, FilesType
    <3>4. us[f][n].sha1 # Missing /\ them[f][n].sha1 # Missing
      BY <1>4, <3>1, <3>2 DEF Hashed
    <3> QED
      BY <3>1, <3>3, <3>4, SameContent
  <2> QED
    BY <2>3, <2>4, <2>5
<1> QED
  BY <1>2, <1>3, <1>4
===============================================================================
