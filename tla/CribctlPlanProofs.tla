------------------------- MODULE CribctlPlanProofs -------------------------
(***************************************************************************)
(* What a command of cribctl applies, for any plans and any number of      *)
(* commands: the YAML files of its directory, each once and in the order   *)
(* of their paths, in bundles the clients accept; the files that were      *)
(* shown and those it began with; and all of them when it succeeds.        *)
(***************************************************************************)
EXTENDS CribctlPlan, Lemmas

(* The order of paths: by directory, then by name.                         *)
PathsBelow(S) ==
    [p \in S |-> {q \in S : q[1] < p[1] \/ (q[1] = p[1] /\ q[2] < p[2])}]

LEMMA PathsInOrder ==
    ASSUME NEW S, S \subseteq Nat \X Nat
    PROVE  /\ IsStrictOrder(PathsBelow(S), S)
           /\ \A p, q \in S : q \in PathsBelow(S)[p]
                                 <=> q[1] < p[1] \/ (q[1] = p[1] /\ q[2] < p[2])
           /\ [i \in 1..Cardinality(S) |->
                  CHOOSE p \in S : Cardinality({q \in S :
                      q[1] < p[1] \/ (q[1] = p[1] /\ q[2] < p[2])}) = i - 1]
                = ByRank(S, PathsBelow(S))
<1> DEFINE below == PathsBelow(S)
<1>1. \A p, q \in S : /\ p[1] \in Nat /\ p[2] \in Nat /\ p = <<p[1], p[2]>>
                      /\ q \in below[p] <=> q[1] < p[1] \/ (q[1] = p[1] /\ q[2] < p[2])
    BY DEF PathsBelow
<1>2. below \in [S -> SUBSET S]
    BY DEF PathsBelow
<1>3. \A p \in S : below[p] = {q \in S : q[1] < p[1] \/ (q[1] = p[1] /\ q[2] < p[2])}
    BY DEF PathsBelow
<1> HIDE DEF below
<1>4. IsStrictOrder(below, S)
    <2>1. \A p, q \in S : q \in below[p] => below[q] \subseteq below[p]
        <3> SUFFICES ASSUME NEW p \in S, NEW q \in S, q \in below[p], NEW r \in below[q]
                     PROVE  r \in below[p]
            OBVIOUS
        <3>1. r \in S
            BY <1>2
        <3>2. /\ p[1] \in Nat /\ p[2] \in Nat /\ q[1] \in Nat /\ q[2] \in Nat
              /\ r[1] \in Nat /\ r[2] \in Nat
            BY <1>1, <3>1
        <3>3. /\ q[1] < p[1] \/ (q[1] = p[1] /\ q[2] < p[2])
              /\ r[1] < q[1] \/ (r[1] = q[1] /\ r[2] < q[2])
            BY <1>1, <3>1
        <3>4. r[1] < p[1] \/ (r[1] = p[1] /\ r[2] < p[2])
            BY <3>2, <3>3
        <3> QED
            BY <1>1, <3>1, <3>4
    <2>2. \A p, q \in S : p # q => p \in below[q] \/ q \in below[p]
        <3> SUFFICES ASSUME NEW p \in S, NEW q \in S, p \notin below[q], q \notin below[p]
                     PROVE  p = q
            OBVIOUS
        <3>1. p[1] = q[1] /\ p[2] = q[2]
            BY <1>1
        <3> QED
            BY <1>1, <3>1
    <2>3. \A p \in S : p \notin below[p]
        BY <1>1
    <2> QED
        BY <1>2, <2>1, <2>2, <2>3 DEF IsStrictOrder
<1>5. [i \in 1..Cardinality(S) |->
          CHOOSE p \in S : Cardinality({q \in S :
              q[1] < p[1] \/ (q[1] = p[1] /\ q[2] < p[2])}) = i - 1]
          = ByRank(S, below)
    <2> DEFINE v(i) == CHOOSE p \in S : Cardinality({q \in S :
                           q[1] < p[1] \/ (q[1] = p[1] /\ q[2] < p[2])}) = i - 1
               w(i) == CHOOSE p \in S : Cardinality(below[p]) = i - 1
    <2>1. ASSUME NEW i PROVE v(i) = w(i)
        BY <1>3, Zenon
    <2>2. ByRank(S, below) = [i \in 1..Cardinality(S) |-> w(i)]
        BY Zenon DEF ByRank
    <2> HIDE DEF v, w
    <2>3. [i \in 1..Cardinality(S) |-> v(i)] = ByRank(S, below)
        BY <2>1, <2>2
    <2> QED
        BY <2>3 DEF v
<1> QED
    BY <1>1, <1>4, <1>5 DEF below

YamlPaths(files) == {p \in DOMAIN files : files[p].yaml}

LEMMA InOrderIsByRank ==
    ASSUME NEW files, IsDirectory(files)
    PROVE  /\ InOrder(files) = ByRank(YamlPaths(files), PathsBelow(YamlPaths(files)))
           /\ Lists(InOrder(files), YamlPaths(files), PathsBelow(YamlPaths(files)))
<1> DEFINE S == YamlPaths(files)
<1>1. S \subseteq Nat \X Nat /\ IsFiniteSet(S)
    BY FS_Subset DEF YamlPaths, IsDirectory
<1>2. InOrder(files) = [i \in 1..Cardinality(S) |->
          CHOOSE p \in S : Cardinality({q \in S :
              q[1] < p[1] \/ (q[1] = p[1] /\ q[2] < p[2])}) = i - 1]
    BY DEF InOrder, Sorted, YamlPaths
<1> HIDE DEF S
<1>3. InOrder(files) = ByRank(S, PathsBelow(S))
    BY <1>1, <1>2, PathsInOrder
<1>4. Lists(ByRank(S, PathsBelow(S)), S, PathsBelow(S))
    BY <1>1, PathsInOrder, ByRankLists
<1> QED
    BY <1>3, <1>4 DEF S

----------------------------------------------------------------------------
(* The scan of a directory: every subdirectory, its files by name.         *)
NamesIn(files, d) == {p[2] : p \in {q \in DOMAIN files : q[1] = d}}

IsListing(names, files, d) ==
    /\ names \in Seq(Nat) /\ Len(Tree(files)[d]) = Len(names)
    /\ \A i \in 1..Len(names) :
          /\ <<d, names[i]>> \in DOMAIN files
          /\ Tree(files)[d][i] = files[<<d, names[i]>>]
    /\ \A i, j \in 1..Len(names) : i < j => names[i] < names[j]
    /\ \A p \in DOMAIN files : p[1] = d => \E i \in 1..Len(names) : names[i] = p[2]

LEMMA TreeTyped ==
    ASSUME NEW files, IsDirectory(files)
    PROVE  /\ IsTree(Tree(files), Files)
           /\ DOMAIN Tree(files) = {p[1] : p \in DOMAIN files}
           /\ \A d \in DOMAIN Tree(files) : \E names : IsListing(names, files, d)
<1> DEFINE P == DOMAIN files
           D == {p[1] : p \in P}
           tree == Tree(files)
           sorted(d) == ByRank(NamesIn(files, d), NumbersBelow(NamesIn(files, d)))
           at(d, ns) == [i \in DOMAIN ns |-> files[<<d, ns[i]>>]]
<1>1. /\ P \subseteq Nat \X Nat /\ IsFiniteSet(P) /\ files \in [P -> Files]
      /\ \A p \in P : p[1] \in Nat /\ p[2] \in Nat /\ p = <<p[1], p[2]>>
    BY DEF IsDirectory
<1>2. D \subseteq Nat /\ IsFiniteSet(D)
    <2> DEFINE f == [p \in P |-> p[1]]
    <2>1. f \in Surjection(P, D)
        BY DEF Surjection
    <2>2. IsFiniteSet(D)
        BY <1>1, <2>1, FS_Surjection
    <2> QED
        BY <1>1, <2>2
<1>3. ASSUME NEW d \in D
      PROVE  NamesIn(files, d) \subseteq Nat /\ IsFiniteSet(NamesIn(files, d))
    <2> DEFINE Q == {q \in P : q[1] = d}
               f == [p \in Q |-> p[2]]
    <2>1. IsFiniteSet(Q)
        BY <1>1, FS_Subset
    <2>2. f \in Surjection(Q, {p[2] : p \in Q})
        BY DEF Surjection
    <2>3. NamesIn(files, d) = {p[2] : p \in Q}
        BY DEF NamesIn
    <2>4. IsFiniteSet(NamesIn(files, d))
        BY <2>1, <2>2, <2>3, FS_Surjection
    <2> QED
        BY <1>1, <2>3, <2>4
<1>4. DOMAIN tree = D
    BY DEF Tree
<1>5. ASSUME NEW d \in D
      PROVE  tree[d] = at(d, sorted(d))
    <2> DEFINE S == NamesIn(files, d)
               names == [i \in 1..Cardinality(S) |->
                            CHOOSE x \in S : Cardinality({y \in S : y < x}) = i - 1]
    <2>1. tree[d] = at(d, names)
        BY DEF Tree, Sorted, NamesIn
    <2>2. S \subseteq Nat
        BY <1>3
    <2> HIDE DEF S
    <2>3. names = ByRank(S, NumbersBelow(S))
        BY <2>2, NumbersInOrder
    <2> HIDE DEF names
    <2>4. names = sorted(d)
        BY <2>3 DEF S
    <2> HIDE DEF at, sorted
    <2> QED
        BY <2>1, <2>4
<1>6. ASSUME NEW d \in D
      PROVE  /\ tree[d] \in Seq(Files) /\ sorted(d) \in Seq(Nat) /\ Len(tree[d]) = Len(sorted(d))
             /\ \A i \in 1..Len(sorted(d)) :
                   /\ <<d, sorted(d)[i]>> \in P
                   /\ tree[d][i] = files[<<d, sorted(d)[i]>>]
             /\ \A i, j \in 1..Len(sorted(d)) : i < j => sorted(d)[i] < sorted(d)[j]
             /\ \A p \in P : p[1] = d => \E i \in 1..Len(sorted(d)) : sorted(d)[i] = p[2]
    <2> DEFINE S == NamesIn(files, d)
               ns == sorted(d)
    <2>1. S \subseteq Nat /\ IsFiniteSet(S)
        BY <1>3
    <2>2. /\ Lists(ns, S, NumbersBelow(S))
          /\ \A x, y \in S : y \in NumbersBelow(S)[x] <=> y < x
        BY <2>1, NumbersInOrder, ByRankLists
    <2> HIDE DEF S, ns
    <2>3. ns \in Seq(S) /\ Len(ns) \in Nat /\ DOMAIN ns = 1..Len(ns)
        BY <2>2, LenProperties DEF Lists
    <2>4. \A i \in 1..Len(ns) : ns[i] \in S
        BY <2>3, ElementOfSeq
    <2>5. \A x \in S : <<d, x>> \in P
        <3> SUFFICES ASSUME NEW x \in S PROVE <<d, x>> \in P
            OBVIOUS
        <3>1. PICK p \in P : p[1] = d /\ x = p[2]
            BY DEF S, NamesIn
        <3> QED
            BY <1>1, <3>1
    <2>6. tree[d] = [i \in 1..Len(ns) |-> files[<<d, ns[i]>>]]
        BY <1>5, <2>3 DEF ns
    <2>7. \A i \in 1..Len(ns) : <<d, ns[i]>> \in P /\ files[<<d, ns[i]>>] \in Files
        BY <1>1, <2>4, <2>5
    <2>8. tree[d] \in Seq(Files) /\ Len(tree[d]) = Len(ns)
        BY <2>3, <2>6, <2>7
    <2>9. \A i, j \in 1..Len(ns) : i < j => ns[i] < ns[j]
        BY <2>2, <2>4 DEF Lists
    <2>10. \A p \in P : p[1] = d => \E i \in 1..Len(ns) : ns[i] = p[2]
        <3> SUFFICES ASSUME NEW p \in P, p[1] = d PROVE \E i \in 1..Len(ns) : ns[i] = p[2]
            OBVIOUS
        <3>1. p[2] \in S
            BY DEF S, NamesIn
        <3> QED
            BY <2>2, <3>1 DEF Lists
    <2>11. ns \in Seq(Nat)
        <3>1. ns \in [1..Len(ns) -> S]
            BY <2>3, LenProperties
        <3>2. ns \in [1..Len(ns) -> Nat]
            BY <2>1, <3>1
        <3> QED
            BY <2>3, <3>2
    <2> QED
        BY <2>6, <2>7, <2>8, <2>9, <2>10, <2>11 DEF ns
<1> HIDE DEF sorted, P, D
<1>7. tree \in [D -> Seq(Files)]
    <2>1. tree = [d \in D |-> tree[d]]
        BY <1>4 DEF Tree, D, P
    <2> HIDE DEF tree
    <2> QED
        BY <1>6, <2>1
<1> HIDE DEF tree
<1>8. IsTree(tree, Files)
    BY <1>2, <1>4, <1>7 DEF IsTree
<1>9. ASSUME NEW d \in D PROVE IsListing(sorted(d), files, d)
    BY <1>6 DEF IsListing, tree, P
<1> QED
    BY <1>4, <1>8, <1>9 DEF tree, P, D

LEMMA FilesAreTyped == FilesTyped(Files) /\ \A m \in ManifestsOf(Files) : m.isLocal \in BOOLEAN
BY DEF FilesTyped, Files, ManifestsOf

(* The YAML files of a subdirectory stand in the order of their names.     *)
LEMMA DirectoryYaml ==
    ASSUME NEW files, IsDirectory(files), NEW d \in DOMAIN Tree(files),
           NEW ys, ys = YamlOf(Tree(files)[d])
    PROVE  /\ ys \in Seq(Files)
           /\ \A k \in 1..Len(ys) : ys[k].path \in YamlPaths(files) /\ ys[k].path[1] = d
           /\ \A k, l \in 1..Len(ys) : k < l => ys[k].path[2] < ys[l].path[2]
           /\ \A p \in YamlPaths(files) : p[1] = d => \E k \in 1..Len(ys) : ys[k].path = p
<1> DEFINE fs == Tree(files)[d]
<1>0. PICK names : IsListing(names, files, d)
    BY TreeTyped
<1>1. /\ names \in Seq(Nat) /\ Len(fs) = Len(names)
      /\ \A i \in 1..Len(names) :
            /\ <<d, names[i]>> \in DOMAIN files
            /\ fs[i] = files[<<d, names[i]>>]
      /\ \A i, j \in 1..Len(names) : i < j => names[i] < names[j]
      /\ \A p \in DOMAIN files : p[1] = d => \E i \in 1..Len(names) : names[i] = p[2]
    BY <1>0 DEF IsListing
<1>2. fs \in Seq(Files)
    BY TreeTyped DEF IsTree
<1> HIDE DEF fs
<1>3. ys = YamlOf(fs)
    BY DEF fs
<1>4. ys \in Seq(Files)
    BY <1>2, <1>3, FilesAreTyped, YamlFacts
<1>5. PICK from : IsFilter(from, ys, fs)
    BY <1>2, <1>3, FilesAreTyped, YamlFacts
<1>6. \A i \in 1..Len(fs) : fs[i].path = <<d, names[i]>> /\ fs[i].yaml = files[<<d, names[i]>>].yaml
    BY <1>1 DEF IsDirectory
<1>7. \A k \in 1..Len(ys) :
          /\ from[k] \in 1..Len(fs) /\ ys[k] = fs[from[k]] /\ ys[k].yaml
          /\ ys[k].path = <<d, names[from[k]]>>
    BY <1>5, <1>6 DEF IsFilter
<1>8. ASSUME NEW k \in 1..Len(ys) PROVE ys[k].path \in YamlPaths(files) /\ ys[k].path[1] = d
    <2>1. from[k] \in 1..Len(fs) /\ ys[k].path = <<d, names[from[k]]>> /\ fs[from[k]].yaml
        BY <1>7
    <2>2. <<d, names[from[k]]>> \in DOMAIN files /\ files[<<d, names[from[k]]>>].yaml
        BY <1>1, <1>6, <2>1
    <2> QED
        BY <2>1, <2>2 DEF YamlPaths
<1>9. \A k, l \in 1..Len(ys) : k < l => ys[k].path[2] < ys[l].path[2]
    <2> SUFFICES ASSUME NEW k \in 1..Len(ys), NEW l \in 1..Len(ys), k < l
                 PROVE  ys[k].path[2] < ys[l].path[2]
        OBVIOUS
    <2>1. from[k] < from[l] /\ from[k] \in 1..Len(names) /\ from[l] \in 1..Len(names)
        BY <1>1, <1>5, <1>7 DEF IsFilter
    <2>2. names[from[k]] < names[from[l]]
        BY <1>1, <2>1
    <2>3. ys[k].path[2] = names[from[k]] /\ ys[l].path[2] = names[from[l]]
        BY <1>7
    <2> QED
        BY <2>2, <2>3
<1>10. ASSUME NEW p \in YamlPaths(files), p[1] = d PROVE \E k \in 1..Len(ys) : ys[k].path = p
    <2>1. p \in DOMAIN files /\ files[p].yaml /\ p = <<p[1], p[2]>>
        BY DEF YamlPaths, IsDirectory
    <2>2. PICK i \in 1..Len(names) : names[i] = p[2]
        BY <1>1, <1>10, <2>1
    <2>3. p = <<d, names[i]>>
        BY <1>10, <2>1, <2>2
    <2>4. i \in 1..Len(fs) /\ fs[i].yaml
        BY <1>1, <1>6, <2>1, <2>3
    <2>5. PICK k \in 1..Len(ys) : from[k] = i
        BY <1>5, <2>4 DEF IsFilter
    <2> QED
        BY <1>7, <2>3, <2>5
<1> QED
    BY <1>4, <1>8, <1>9, <1>10

(* What FindManifests makes of a directory.                                *)
BundlesIn(files) == normalizeManifests(findManifests(Tree(files)))

(* The manifests found, directory by directory.                            *)
AreDirectories(dirs, found, files) ==
    /\ DOMAIN found \subseteq Nat /\ IsFiniteSet(DOMAIN found)
    /\ found \in [DOMAIN found -> Seq(ManifestsOf(Files))]
    /\ dirs \in Seq(DOMAIN found)
    /\ \A i, j \in 1..Len(dirs) : i < j => dirs[i] < dirs[j]
    /\ \A i \in 1..Len(dirs) : \A x \in 1..Len(found[dirs[i]]) :
          /\ found[dirs[i]][x].file.path \in YamlPaths(files)
          /\ found[dirs[i]][x].file.path[1] = dirs[i]
    /\ \A i \in 1..Len(dirs) : \A x, y \in 1..Len(found[dirs[i]]) :
          x < y => found[dirs[i]][x].file.path[2] < found[dirs[i]][y].file.path[2]
    /\ \A p \in YamlPaths(files) : \E i \in 1..Len(dirs) :
          \E x \in 1..Len(found[dirs[i]]) : found[dirs[i]][x].file.path = p

LEMMA FoundFacts ==
    ASSUME NEW files, IsDirectory(files),
           NEW found, found = findManifests(Tree(files)),
           NEW dirs, dirs = SortedKeys(found)
    PROVE  AreDirectories(dirs, found, files)
<1> DEFINE tree == Tree(files)
           ys(d) == YamlOf(tree[d])
<1>1. IsTree(tree, Files) /\ DOMAIN tree = {p[1] : p \in DOMAIN files}
    BY TreeTyped
<1>0. found = findManifests(tree)
    OBVIOUS
<1> HIDE DEF tree
<1>2. /\ DOMAIN found = {d \in DOMAIN tree : ys(d) # <<>>}
      /\ found \in [DOMAIN found -> Seq(ManifestsOf(Files))]
      /\ \A d \in DOMAIN found :
            /\ Len(found[d]) = Len(ys(d))
            /\ \A k \in 1..Len(found[d]) : found[d][k].file = ys(d)[k]
    <2>1. IsTree(tree, Files) /\ FilesTyped(Files)
        BY <1>1, FilesAreTyped
    <2>2. AreFound(found, tree, Files)
        BY <1>0, <2>1, FindManifestsFacts
    <2> QED
        BY <2>2 DEF AreFound
<1>3. DOMAIN found \subseteq Nat /\ IsFiniteSet(DOMAIN found)
    BY <1>1, <1>2, FS_Subset DEF IsTree
<1>4. /\ dirs \in Seq(DOMAIN found)
      /\ \A d \in DOMAIN found : \E i \in 1..Len(dirs) : dirs[i] = d
      /\ \A i, j \in 1..Len(dirs) : i < j => dirs[i] < dirs[j]
    BY <1>3, SortedKeysFacts
<1>5. \A d \in DOMAIN tree :
          /\ ys(d) \in Seq(Files)
          /\ \A k \in 1..Len(ys(d)) : ys(d)[k].path \in YamlPaths(files) /\ ys(d)[k].path[1] = d
          /\ \A k, l \in 1..Len(ys(d)) : k < l => ys(d)[k].path[2] < ys(d)[l].path[2]
          /\ \A p \in YamlPaths(files) : p[1] = d => \E k \in 1..Len(ys(d)) : ys(d)[k].path = p
    BY DirectoryYaml DEF tree
<1> HIDE DEF ys
<1>6. ASSUME NEW d \in DOMAIN found
      PROVE  /\ \A x \in 1..Len(found[d]) :
                   found[d][x].file.path \in YamlPaths(files) /\ found[d][x].file.path[1] = d
             /\ \A x, y \in 1..Len(found[d]) :
                   x < y => found[d][x].file.path[2] < found[d][y].file.path[2]
    <2>1. d \in DOMAIN tree /\ Len(found[d]) = Len(ys(d))
          /\ \A k \in 1..Len(ys(d)) : found[d][k].file = ys(d)[k]
        BY <1>2
    <2>2. ASSUME NEW x \in 1..Len(found[d])
          PROVE  /\ x \in 1..Len(ys(d)) /\ found[d][x].file = ys(d)[x]
                 /\ found[d][x].file.path \in YamlPaths(files) /\ found[d][x].file.path[1] = d
        <3>1. x \in 1..Len(ys(d)) /\ found[d][x].file = ys(d)[x]
            BY <2>1
        <3>2. ys(d)[x].path \in YamlPaths(files) /\ ys(d)[x].path[1] = d
            BY <1>5, <2>1, <3>1
        <3> QED
            BY <3>1, <3>2
    <2>3. ASSUME NEW x \in 1..Len(found[d]), NEW y \in 1..Len(found[d]), x < y
          PROVE  found[d][x].file.path[2] < found[d][y].file.path[2]
        <3>1. ys(d)[x].path[2] < ys(d)[y].path[2]
            BY <1>5, <2>1, <2>2, <2>3
        <3> QED
            BY <2>2, <3>1
    <2> QED
        BY <2>2, <2>3
<1>7. \A i \in 1..Len(dirs) : dirs[i] \in DOMAIN found
    BY <1>4, ElementOfSeq
<1>8. ASSUME NEW p \in YamlPaths(files)
      PROVE  \E i \in 1..Len(dirs) :
                 \E x \in 1..Len(found[dirs[i]]) : found[dirs[i]][x].file.path = p
    <2>1. p[1] \in DOMAIN tree
        BY <1>1 DEF YamlPaths
    <2>2. PICK k \in 1..Len(ys(p[1])) : ys(p[1])[k].path = p
        BY <1>5, <2>1
    <2>3. ys(p[1]) # <<>>
        <3> SUFFICES ASSUME ys(p[1]) = <<>> PROVE FALSE
            OBVIOUS
        <3>1. Len(ys(p[1])) = 0
            OBVIOUS
        <3> QED
            BY <2>2, <3>1
    <2>4. p[1] \in DOMAIN found
        BY <1>2, <2>1, <2>3
    <2>5. PICK i \in 1..Len(dirs) : dirs[i] = p[1]
        BY <1>4, <2>4
    <2>6. k \in 1..Len(found[p[1]]) /\ found[p[1]][k].file.path = p
        BY <1>2, <2>2, <2>4
    <2> QED
        BY <2>5, <2>6
<1>9. \A i \in 1..Len(dirs) : \A x \in 1..Len(found[dirs[i]]) :
          found[dirs[i]][x].file.path \in YamlPaths(files) /\ found[dirs[i]][x].file.path[1] = dirs[i]
    BY <1>6, <1>7, Zenon
<1>10. \A i \in 1..Len(dirs) : \A x, y \in 1..Len(found[dirs[i]]) :
           x < y => found[dirs[i]][x].file.path[2] < found[dirs[i]][y].file.path[2]
    <2> SUFFICES ASSUME NEW i \in 1..Len(dirs)
                 PROVE  \A x, y \in 1..Len(found[dirs[i]]) :
                   x < y => found[dirs[i]][x].file.path[2] < found[dirs[i]][y].file.path[2]
        OBVIOUS
    <2> DEFINE d == dirs[i]
    <2>1. d \in DOMAIN found
        BY <1>7
    <2> HIDE DEF d
    <2>2. \A x, y \in 1..Len(found[d]) : x < y => found[d][x].file.path[2] < found[d][y].file.path[2]
        BY <1>6, <2>1
    <2> QED
        BY <2>2 DEF d
<1> QED
    BY <1>2, <1>3, <1>4, <1>8, <1>9, <1>10 DEF AreDirectories

(* Normalizing loses, repeats and reorders nothing.                        *)
LEMMA BundlesAreFiles ==
    ASSUME NEW files, IsDirectory(files)
    PROVE  PathsOf(BundlesIn(files)) = InOrder(files)
<1> DEFINE M == ManifestsOf(Files)
           S == YamlPaths(files)
           below == PathsBelow(S)
           bs == BundlesIn(files)
           all == ManifestsIn(bs)
           t == PathsOf(bs)
<1>0. PICK found, dirs : found = findManifests(Tree(files)) /\ dirs = SortedKeys(found)
    OBVIOUS
<1> DEFINE n == Len(dirs)
           seqs == [i \in DOMAIN dirs |-> found[dirs[i]]]
           path(i, x) == seqs[i][x].file.path
           N == Len(all)
<1>2. bs = normalizeManifests(found)
    BY <1>0 DEF BundlesIn
<1>3. AreDirectories(dirs, found, files)
    BY <1>0, FoundFacts
<1> HIDE DEF bs, S
<1>1. /\ DOMAIN found \subseteq Nat /\ IsFiniteSet(DOMAIN found)
      /\ found \in [DOMAIN found -> Seq(M)]
      /\ dirs \in Seq(DOMAIN found)
      /\ \A i, j \in 1..n : i < j => dirs[i] < dirs[j]
      /\ \A i \in 1..n : \A x \in 1..Len(found[dirs[i]]) :
            found[dirs[i]][x].file.path \in S /\ found[dirs[i]][x].file.path[1] = dirs[i]
      /\ \A i \in 1..n : \A x, y \in 1..Len(found[dirs[i]]) :
            x < y => found[dirs[i]][x].file.path[2] < found[dirs[i]][y].file.path[2]
      /\ \A p \in S : \E i \in 1..n :
            \E x \in 1..Len(found[dirs[i]]) : found[dirs[i]][x].file.path = p
    BY <1>3 DEF AreDirectories, S
<1>4. all = FlattenSeq(seqs)
    <2>1. \A m \in M : m.isLocal \in BOOLEAN
        BY FilesAreTyped
    <2>2. dirs = SortedKeys(found)
        BY <1>0
    <2> HIDE DEF M
    <2>3. AreBundles(bs, found, dirs, M)
        BY <1>1, <1>2, <2>1, <2>2, NormalizeFacts
    <2> QED
        BY <2>3 DEF AreBundles
<1>5. /\ n \in Nat /\ DOMAIN dirs = 1..n
      /\ \A i \in 1..n : dirs[i] \in DOMAIN found /\ found[dirs[i]] \in Seq(M)
    BY <1>1, LenProperties
<1>6. /\ seqs \in Seq(Seq(M)) /\ Len(seqs) = n
      /\ \A i \in 1..n : seqs[i] = found[dirs[i]] /\ Len(seqs[i]) \in Nat
    BY <1>5, LenProperties
<1>7. all \in Seq(M)
    BY <1>4, <1>6, FlattenSeqFacts
<1>8. Len(all) \in Nat /\ DOMAIN all = 1..Len(all)
    BY <1>7, LenProperties
<1>9. PICK at : IsPlacement(at, n, seqs, all)
    BY <1>4, <1>6, FlattenSeqFacts
<1>10. t = [k \in 1..Len(all) |-> all[k].file.path]
    BY <1>8 DEF PathsOf
<1> HIDE DEF all, seqs, n, t, N
<1>11. /\ \A i \in 1..n : at[i] \in Nat /\ at[i] + Len(seqs[i]) <= N
       /\ \A i \in 1..n : \A x \in 1..Len(seqs[i]) : all[at[i] + x] = seqs[i][x]
       /\ \A i, j \in 1..n : i < j => at[i] + Len(seqs[i]) <= at[j]
       /\ \A k \in 1..N : \E i \in 1..n : \E x \in 1..Len(seqs[i]) : k = at[i] + x
    BY <1>9 DEF IsPlacement, N
<1>12. /\ \A i, j \in 1..n : i < j => dirs[i] < dirs[j]
       /\ \A i \in 1..n : \A x \in 1..Len(seqs[i]) : path(i, x) \in S /\ path(i, x)[1] = dirs[i]
       /\ \A i \in 1..n : \A x, y \in 1..Len(seqs[i]) : x < y => path(i, x)[2] < path(i, y)[2]
       /\ \A p \in S : \E i \in 1..n : \E x \in 1..Len(seqs[i]) : path(i, x) = p
    <2>1. \A i \in 1..n : seqs[i] = found[dirs[i]]
        BY <1>6
    <2>2. \A i \in 1..n : \A x \in 1..Len(seqs[i]) : path(i, x) \in S /\ path(i, x)[1] = dirs[i]
        <3> SUFFICES ASSUME NEW i \in 1..n, NEW x \in 1..Len(seqs[i])
                     PROVE  path(i, x) \in S /\ path(i, x)[1] = dirs[i]
            OBVIOUS
        <3>1. seqs[i] = found[dirs[i]]
            BY <2>1
        <3>2. found[dirs[i]][x].file.path \in S /\ found[dirs[i]][x].file.path[1] = dirs[i]
            BY <1>1, <3>1
        <3> QED
            BY <3>1, <3>2
    <2>3. \A i \in 1..n : \A x, y \in 1..Len(seqs[i]) : x < y => path(i, x)[2] < path(i, y)[2]
        BY <1>1, <2>1, Zenon
    <2>4. ASSUME NEW p \in S PROVE \E i \in 1..n : \E x \in 1..Len(seqs[i]) : path(i, x) = p
        <3>1. PICK i \in 1..n : \E x \in 1..Len(found[dirs[i]]) : found[dirs[i]][x].file.path = p
            BY <1>1
        <3>2. seqs[i] = found[dirs[i]]
            BY <2>1
        <3> QED
            BY <3>1, <3>2
    <2> QED
        BY <1>1, <2>2, <2>3, <2>4
<1>13. N \in Nat /\ t = [k \in 1..N |-> all[k].file.path]
    BY <1>8, <1>10 DEF N
<1>14. \A k \in 1..N : \E i \in 1..n : \E x \in 1..Len(seqs[i]) :
            k = at[i] + x /\ t[k] = path(i, x)
    <2> SUFFICES ASSUME NEW k \in 1..N
                 PROVE  \E i \in 1..n : \E x \in 1..Len(seqs[i]) :
                            k = at[i] + x /\ t[k] = path(i, x)
        OBVIOUS
    <2>1. PICK i \in 1..n : \E x \in 1..Len(seqs[i]) : k = at[i] + x
        BY <1>11
    <2>2. PICK x \in 1..Len(seqs[i]) : k = at[i] + x
        BY <2>1
    <2>3. all[k] = seqs[i][x]
        BY <1>11, <2>2
    <2>4. t[k] = all[k].file.path
        BY <1>13
    <2>5. t[k] = path(i, x)
        BY <2>3, <2>4
    <2> QED
        BY <2>2, <2>5
<1> HIDE DEF path
<1>15. S \subseteq Nat \X Nat /\ IsFiniteSet(S)
    BY FS_Subset DEF YamlPaths, IsDirectory, S
<1>16. \A k \in 1..N : t[k] \in S
    BY <1>12, <1>14
<1>17. t \in Seq(S) /\ Len(t) = N
    BY <1>13, <1>16
<1>18. ASSUME NEW p \in S PROVE \E k \in 1..N : t[k] = p
    <2>0. PICK i \in 1..n : \E x \in 1..Len(seqs[i]) : path(i, x) = p
        BY <1>12
    <2>1. PICK x \in 1..Len(seqs[i]) : path(i, x) = p
        BY <2>0
    <2> DEFINE a == at[i]
               l == Len(seqs[i])
    <2>2. a \in Nat /\ a + l <= N /\ all[a + x] = seqs[i][x] /\ l \in Nat
        BY <1>6, <1>11
    <2> HIDE DEF a, l
    <2>3. x \in 1..l
        BY DEF l
    <2>4. a + x \in 1..N
        BY <1>13, <2>2, <2>3
    <2>5. t[a + x] = p
        BY <1>13, <2>1, <2>2, <2>4 DEF path
    <2> QED
        BY <2>4, <2>5
<1>19. ASSUME NEW k \in 1..N, NEW l \in 1..N, k < l
       PROVE  t[k] \in below[t[l]]
    <2>1. PICK i \in 1..n : \E x \in 1..Len(seqs[i]) : k = at[i] + x /\ t[k] = path(i, x)
        BY <1>14
    <2>2. PICK x \in 1..Len(seqs[i]) : k = at[i] + x /\ t[k] = path(i, x)
        BY <2>1
    <2>3. PICK j \in 1..n : \E y \in 1..Len(seqs[j]) : l = at[j] + y /\ t[l] = path(j, y)
        BY <1>14
    <2>4. PICK y \in 1..Len(seqs[j]) : l = at[j] + y /\ t[l] = path(j, y)
        BY <2>3
    <2>5. at[i] \in Nat /\ at[j] \in Nat /\ Len(seqs[i]) \in Nat /\ Len(seqs[j]) \in Nat
        BY <1>6, <1>11
    <2>6. ~(j < i)
        <3> SUFFICES ASSUME j < i PROVE FALSE
            OBVIOUS
        <3> DEFINE a == at[i]
                   b == at[j]
                   m == Len(seqs[j])
        <3>1. b + m <= a /\ k = a + x /\ l = b + y /\ y \in 1..m
              /\ a \in Nat /\ b \in Nat /\ m \in Nat /\ x \in Nat /\ x > 0
            BY <1>11, <2>2, <2>4, <2>5
        <3> HIDE DEF a, b, m
        <3> QED
            BY <1>19, <3>1
    <2>7. /\ t[k] \in S /\ t[l] \in S
          /\ t[k][1] < t[l][1] \/ (t[k][1] = t[l][1] /\ t[k][2] < t[l][2])
        <3>1. t[k] \in S /\ t[l] \in S /\ t[k][1] = dirs[i] /\ t[l][1] = dirs[j]
            BY <1>12, <2>2, <2>4
        <3>2. CASE i < j
            BY <1>12, <3>1, <3>2
        <3>3. CASE i = j
            <4>1. x < y
                BY <1>19, <2>2, <2>4, <2>5, <3>3
            <4>2. path(i, x)[2] < path(i, y)[2]
                BY <1>12, <3>3, <4>1
            <4> QED
                BY <2>2, <2>4, <3>1, <3>3, <4>2
        <3> QED
            BY <1>5, <2>6, <3>1, <3>2, <3>3
    <2> QED
        BY <1>15, <2>7, PathsInOrder
<1>20. Lists(t, S, below)
    BY <1>17, <1>18, <1>19 DEF Lists
<1>21. t = ByRank(S, below)
    BY <1>15, <1>20, PathsInOrder, ListIsByRank
<1> QED
    BY <1>21, InOrderIsByRank DEF t, bs, S

(* Two remote bundles in a row come from different directories.            *)
RemoteMeetAcross(bs) ==
    \A i \in 2..Len(bs) :
        ~bs[i].isLocal /\ ~bs[i - 1].isLocal =>
            bs[i].manifests[1].file.path[1] # bs[i - 1].manifests[1].file.path[1]

LEMMA BundlesFacts ==
    ASSUME NEW files, IsDirectory(files)
    PROVE  /\ BundlesIn(files) \in Seq(BundlesWith(ManifestsOf(Files)))
           /\ AllFit(BundlesIn(files))
           /\ RemoteMeetAcross(BundlesIn(files))
<1> DEFINE M == ManifestsOf(Files)
           bs == BundlesIn(files)
<1>0. PICK found, dirs : found = findManifests(Tree(files)) /\ dirs = SortedKeys(found)
    OBVIOUS
<1> DEFINE n == Len(dirs)
           parts == [i \in DOMAIN dirs |-> normalizeDir(found[dirs[i]])]
<1>1. bs = normalizeManifests(found)
    BY <1>0 DEF BundlesIn
<1>2. AreDirectories(dirs, found, files)
    BY <1>0, FoundFacts
<1> HIDE DEF bs
<1>3. \A m \in M : m.isLocal \in BOOLEAN
    BY FilesAreTyped
<1> HIDE DEF M
<1>4. /\ DOMAIN found \subseteq Nat /\ IsFiniteSet(DOMAIN found)
      /\ found \in [DOMAIN found -> Seq(M)] /\ dirs \in Seq(DOMAIN found)
      /\ \A i, j \in 1..n : i < j => dirs[i] < dirs[j]
    BY <1>2 DEF AreDirectories, M
<1>5. \A i \in 1..n : \A x \in 1..Len(found[dirs[i]]) : found[dirs[i]][x].file.path[1] = dirs[i]
    BY <1>2 DEF AreDirectories
<1>6. AreBundles(bs, found, dirs, M)
    BY <1>0, <1>1, <1>3, <1>4, NormalizeFacts
<1>7. /\ bs \in Seq(BundlesWith(M)) /\ AllFit(bs)
      /\ parts \in Seq(Seq(BundlesWith(M))) /\ bs = FlattenSeq(parts)
    BY <1>6 DEF AreBundles
<1>8. /\ n \in Nat /\ DOMAIN dirs = 1..n
      /\ \A i \in 1..n : dirs[i] \in Nat /\ found[dirs[i]] \in Seq(M)
    <2>1. \A i \in 1..n : dirs[i] \in DOMAIN found
        BY <1>4, ElementOfSeq
    <2> QED
        BY <1>4, <2>1, LenProperties
<1>9. \A i \in 1..n :
          /\ parts[i] \in Seq(BundlesWith(M)) /\ AllFit(parts[i]) /\ RemoteApart(parts[i])
          /\ ManifestsIn(parts[i]) = found[dirs[i]]
    <2> SUFFICES ASSUME NEW i \in 1..n
                 PROVE  /\ parts[i] \in Seq(BundlesWith(M)) /\ AllFit(parts[i])
                        /\ RemoteApart(parts[i]) /\ ManifestsIn(parts[i]) = found[dirs[i]]
        OBVIOUS
    <2>1. parts[i] = normalizeDir(found[dirs[i]])
        BY <1>8
    <2>2. found[dirs[i]] \in Seq(M)
        BY <1>8
    <2> HIDE DEF parts
    <2> QED
        BY <1>3, <2>1, <2>2, NormalizeDirFacts
<1>10. Len(parts) = n
    BY <1>8
<1> HIDE DEF parts, n
<1>11. ASSUME NEW i \in 1..n, NEW x \in 1..Len(parts[i])
       PROVE  parts[i][x].manifests[1].file.path[1] = dirs[i]
    <2>1. parts[i][x] \in BundlesWith(M) /\ Fits(parts[i][x])
        BY <1>9, ElementOfSeq DEF AllFit
    <2>2. parts[i][x].manifests \in Seq(M) /\ Len(parts[i][x].manifests) > 0
        <3>1. parts[i][x].manifests \in Seq(M)
            BY <2>1 DEF BundlesWith
        <3> DEFINE l == Len(parts[i][x].manifests)
        <3>2. l \in Nat /\ (l = 1 \/ l > 0)
            BY <2>1, <3>1, LenProperties DEF Fits, ClientOK
        <3> HIDE DEF l
        <3>3. l > 0
            BY <3>2
        <3> QED
            BY <3>1, <3>3 DEF l
    <2>3. 1 \in 1..Len(parts[i][x].manifests)
        BY <2>2, LenProperties
    <2>4. PICK j \in 1..Len(ManifestsIn(parts[i])) :
              ManifestsIn(parts[i])[j] = parts[i][x].manifests[1]
        BY <1>9, <2>3, BundleManifestsIn
    <2> QED
        BY <1>5, <1>9, <2>4 DEF n
<1>12. PICK at : IsPlacement(at, n, parts, bs)
    BY <1>7, <1>10, FlattenSeqFacts
<1>13. RemoteMeetAcross(bs)
    <2> SUFFICES ASSUME NEW i \in 2..Len(bs), ~bs[i].isLocal, ~bs[i-1].isLocal
                 PROVE  bs[i].manifests[1].file.path[1] # bs[i-1].manifests[1].file.path[1]
        BY DEF RemoteMeetAcross
    <2>0. /\ \A a \in 1..n : \A x \in 1..Len(parts[a]) : bs[at[a] + x] = parts[a][x]
          /\ \A k \in 1..Len(bs) : \E a \in 1..n : \E x \in 1..Len(parts[a]) : k = at[a] + x
          /\ \A a \in 1..n : at[a] \in Nat
        BY <1>12 DEF IsPlacement
    <2>1. i \in 1..Len(bs) /\ i - 1 \in 1..Len(bs)
        BY <1>7, LenProperties
    <2>2. PICK b \in 1..n : \E y \in 1..Len(parts[b]) : i = at[b] + y
        BY <2>0, <2>1
    <2>3. PICK y \in 1..Len(parts[b]) : i = at[b] + y
        BY <2>2
    <2>4. PICK a \in 1..n : \E x \in 1..Len(parts[a]) : i - 1 = at[a] + x
        BY <2>0, <2>1
    <2>5. PICK x \in 1..Len(parts[a]) : i - 1 = at[a] + x
        BY <2>4
    <2>6. bs[i] = parts[b][y] /\ bs[i-1] = parts[a][x]
        BY <2>0, <2>3, <2>5
    <2>7. a # b
        <3> SUFFICES ASSUME a = b PROVE FALSE
            OBVIOUS
        <3>1. Len(parts[b]) \in Nat /\ at[b] \in Nat
            BY <1>9, <2>0, LenProperties
        <3>2. x = y - 1 /\ y \in 2..Len(parts[b])
            BY <2>3, <2>5, <3>1
        <3>3. parts[b][y].isLocal \/ parts[b][y-1].isLocal
            BY <1>9, <3>2 DEF RemoteApart
        <3> QED
            BY <2>6, <3>2, <3>3
    <2>8. dirs[a] # dirs[b]
        <3>1. a < b \/ b < a
            BY <1>8, <2>7
        <3>2. dirs[a] \in Nat /\ dirs[b] \in Nat
            BY <1>8
        <3>3. dirs[a] < dirs[b] \/ dirs[b] < dirs[a]
            BY <1>4, <3>1, Zenon
        <3> QED
            BY <3>2, <3>3
    <2>9. bs[i].manifests[1].file.path[1] = dirs[b] /\ bs[i-1].manifests[1].file.path[1] = dirs[a]
        BY <1>11, <2>6
    <2> QED
        BY <2>8, <2>9
<1> QED
    BY <1>7, <1>13 DEF bs, M

----------------------------------------------------------------------------
(* Synthesizing into a directory: what is there already stays, unless it   *)
(* has the path of a new file.                                             *)
LEMMA OverlayFacts ==
    ASSUME NEW f, IsDirectory(f), NEW g, IsDirectory(g)
    PROVE  /\ IsDirectory(Over(f, g))
           /\ \A p \in DOMAIN f : p \in DOMAIN Over(f, g) /\ Over(f, g)[p] = f[p]
           /\ Over(f, Over(f, g)) = Over(f, g)
           /\ Over(f, NoFiles) = f
<1> DEFINE h == Over(f, g)
<1>1. h = [p \in DOMAIN f \cup DOMAIN g |-> IF p \in DOMAIN f THEN f[p] ELSE g[p]]
    BY DEF Over
<1>2. /\ f = [p \in DOMAIN f |-> f[p]]
      /\ \A p \in DOMAIN f : f[p] \in Files /\ f[p].path = p
      /\ \A p \in DOMAIN g : g[p] \in Files /\ g[p].path = p
    BY DEF IsDirectory
<1>3. IsDirectory(h)
    <2>1. DOMAIN h = DOMAIN f \cup DOMAIN g
        BY <1>1
    <2>2. DOMAIN h \subseteq Nat \X Nat
        BY <2>1 DEF IsDirectory
    <2>5. IsFiniteSet(DOMAIN h)
        <3>1. IsFiniteSet(DOMAIN f) /\ IsFiniteSet(DOMAIN g)
            BY DEF IsDirectory
        <3>2. IsFiniteSet(DOMAIN f \cup DOMAIN g)
            BY <3>1, FS_Union
        <3> QED
            BY <2>1, <3>2
    <2>3. \A p \in DOMAIN f \cup DOMAIN g :
              LET x == IF p \in DOMAIN f THEN f[p] ELSE g[p] IN x \in Files /\ x.path = p
        BY <1>2
    <2> HIDE DEF h
    <2>4. h \in [DOMAIN h -> Files] /\ \A p \in DOMAIN h : h[p].path = p
        BY <1>1, <2>1, <2>3
    <2> QED
        BY <2>2, <2>4, <2>5 DEF IsDirectory
<1>4. \A p \in DOMAIN f : p \in DOMAIN h /\ h[p] = f[p]
    BY <1>1
<1>5. Over(f, h) = h
    <2>1. DOMAIN h = DOMAIN f \cup DOMAIN g
        BY <1>1
    <2>2. Over(f, h) = [p \in DOMAIN f \cup DOMAIN g |-> IF p \in DOMAIN f THEN f[p] ELSE h[p]]
        BY <2>1, DOMAIN f \cup (DOMAIN f \cup DOMAIN g) = DOMAIN f \cup DOMAIN g DEF Over
    <2>3. \A p \in DOMAIN f \cup DOMAIN g :
              (IF p \in DOMAIN f THEN f[p] ELSE h[p]) = (IF p \in DOMAIN f THEN f[p] ELSE g[p])
        BY <1>1
    <2> QED
        BY <1>1, <2>2, <2>3
<1>6. Over(f, NoFiles) = f
    <2>1. DOMAIN NoFiles = {}
        BY DEF NoFiles
    <2>2. Over(f, NoFiles) = [p \in DOMAIN f |-> f[p]]
        BY <2>1 DEF Over
    <2> QED
        BY <1>2, <2>2
<1> QED
    BY <1>3, <1>4, <1>5, <1>6

LEMMA NoFilesIsDirectory == IsDirectory(NoFiles)
BY FS_EmptySet DEF NoFiles, IsDirectory

LEMMA ScriptIsDirectory ==
    ASSUME NEW n \in Nat
    PROVE  IsDirectory(Script(n))
<1> DEFINE p == <<100 + n, 1>>
           f == [yaml |-> TRUE, reads |-> TRUE, csa |-> TRUE, onFailure |-> "abort", path |-> p]
<1>1. p \in Nat \X Nat /\ f \in Files /\ f.path = p
    BY DEF Files
<1>2. Script(n) = [x \in {p} |-> f]
    BY DEF Script
<1>3. IsFiniteSet({p})
    BY FS_Singleton
<1> HIDE DEF p, f
<1> QED
    BY <1>1, <1>2, <1>3 DEF IsDirectory

LEMMA SynthesisFacts ==
    ASSUME plan \in Plans, commands \in Nat, NEW n \in Nat
    PROVE  /\ IsDirectory(Synthesis(n))
           /\ plan.ids = "fixed" => Synthesis(n) = plan.files
<1>1. plan.ids \in {"fixed", "process", "fresh"} /\ IsDirectory(plan.files)
    BY PlansAssumption
<1>2. CASE plan.ids = "fixed"
    <2>1. Synthesis(n) = Over(plan.files, NoFiles)
        BY <1>2 DEF Synthesis
    <2> QED
        BY <1>1, <2>1, NoFilesIsDirectory, OverlayFacts
<1>3. CASE plan.ids = "process"
    <2>1. Synthesis(n) = Over(plan.files, Script(commands))
        BY <1>3 DEF Synthesis
    <2> QED
        BY <1>1, <1>3, <2>1, ScriptIsDirectory, OverlayFacts
<1>4. CASE plan.ids = "fresh"
    <2>1. Synthesis(n) = Over(plan.files, Script(n))
        BY <1>4 DEF Synthesis
    <2> QED
        BY <1>1, <1>4, <2>1, ScriptIsDirectory, OverlayFacts
<1> QED
    BY <1>1, <1>2, <1>3, <1>4

----------------------------------------------------------------------------
(* What every step keeps.                                                  *)
Outcomes == {"ok", "error", "missing"}

Typed ==
    /\ plan \in Plans /\ commands \in Nat /\ synths \in Nat
    /\ command \in [name: {"none", "preview", "apply"}, render: BOOLEAN]
    /\ IsDirectory(disk) /\ IsDirectory(kept) /\ IsDirectory(rendered)
    /\ IsDirectory(shown) /\ IsDirectory(latest)
    /\ applied \in Seq(Outcomes)

(* The bundles are those of the directory; before FindManifests there are  *)
(* none, and never more outcomes than bundles.                             *)
Found ==
    /\ bundles = <<>> \/ bundles = BundlesIn(disk)
    /\ stage = "apply" => bundles = BundlesIn(disk)
    /\ stage \in {"preview", "confirm", "create", "find"} => bundles = <<>>
    /\ Len(applied) <= Len(bundles)

(* The loop goes on, and ends well, only past failures that may be passed. *)
WentOn ==
    stage \in {"apply", "done"} =>
        \A i \in 1..Len(applied) :
            applied[i] = "ok" \/ (applied[i] = "error" /\ OnFailure(bundles[i]) # "abort")

Whole ==
    stage = "done" /\ command.name = "apply" =>
        Len(applied) = Len(bundles) /\ bundles = BundlesIn(disk)

(* What the last synthesis wrote is still there.                           *)
OnDisk == \A p \in DOMAIN latest : p \in DOMAIN disk /\ disk[p] = latest[p]

(* A plan whose ids do not change always writes the same files, over what  *)
(* the directory held when the command began.                              *)
Unchanged ==
    plan.ids = "fixed" =>
        /\ disk \in {kept, Over(plan.files, kept)}
        /\ stage \in {"confirm", "create", "find", "apply"} \/ bundles # <<>> =>
              shown = plan.files /\ disk = Over(plan.files, kept)

CommandInv == Typed /\ Found /\ WentOn /\ Whole /\ OnDisk /\ Unchanged

LEMMA SynthKeeps ==
    ASSUME Typed, Unchanged, Synth, UNCHANGED <<plan, command, commands, kept>>
    PROVE  /\ IsDirectory(disk') /\ IsDirectory(rendered') /\ IsDirectory(latest')
           /\ synths' \in Nat
           /\ OnDisk'
           /\ plan.ids = "fixed" =>
                 latest' = plan.files /\ disk' = Over(plan.files, kept)
<1>1. /\ latest' = Synthesis(synths + 1) /\ disk' = Over(latest', disk)
      /\ rendered' = IF command.render THEN disk' ELSE rendered
      /\ synths' = synths + 1
    BY DEF Synth
<1>2. synths + 1 \in Nat /\ plan \in Plans /\ commands \in Nat
      /\ IsDirectory(disk) /\ IsDirectory(kept) /\ IsDirectory(rendered)
    BY DEF Typed
<1>3. IsDirectory(latest') /\ (plan.ids = "fixed" => latest' = plan.files)
    BY <1>1, <1>2, SynthesisFacts
<1>4. IsDirectory(disk') /\ OnDisk'
    BY <1>1, <1>2, <1>3, OverlayFacts DEF OnDisk
<1>5. IsDirectory(rendered')
    BY <1>1, <1>2, <1>4
<1>6. ASSUME plan.ids = "fixed"
      PROVE  disk' = Over(plan.files, kept)
    <2>1. disk \in {kept, Over(plan.files, kept)}
        BY <1>6 DEF Unchanged
    <2>2. IsDirectory(plan.files) /\ latest' = plan.files
        BY <1>3, <1>6
    <2>3. Over(plan.files, Over(plan.files, kept)) = Over(plan.files, kept)
        BY <1>2, <2>2, OverlayFacts
    <2> QED
        BY <1>1, <2>1, <2>2, <2>3
<1> QED
    BY <1>1, <1>2, <1>3, <1>4, <1>5, <1>6

LEMMA InitCommand == Init => CommandInv
<1> SUFFICES ASSUME Init PROVE CommandInv
    OBVIOUS
<1>1. Typed
    <2>1. command \in [name: {"none", "preview", "apply"}, render: BOOLEAN]
        BY DEF Init, NoCommand
    <2>2. applied \in Seq(Outcomes)
        BY EmptySeq DEF Init
    <2> QED
        BY <2>1, <2>2, NoFilesIsDirectory DEF Init, Typed
<1>2. Found /\ WentOn /\ Whole
    BY EmptySeq DEF Init, Found, WentOn, Whole
<1>3. OnDisk /\ Unchanged
    BY DEF Init, OnDisk, Unchanged, NoFiles
<1> QED
    BY <1>1, <1>2, <1>3 DEF CommandInv

LEMMA StartKeeps ==
    ASSUME CommandInv, NEW name \in {"preview", "apply"}, NEW render \in BOOLEAN,
           Start(name, render)
    PROVE  CommandInv'
<1>1. /\ plan' \in Plans /\ commands' = commands + 1 /\ synths' = synths
      /\ rendered' = rendered
      /\ command' = [name |-> name, render |-> render]
      /\ disk' \in Directories \cup {rendered, NoFiles} /\ kept' = disk'
      /\ stage' = "preview" /\ shown' = NoFiles /\ latest' = NoFiles
      /\ bundles' = <<>> /\ applied' = <<>>
    BY DEF Start
<1>2. <<>> \in Seq(Outcomes) /\ Len(<<>>) = 0
    BY EmptySeq
<1>3. Typed'
    <2>1. IsDirectory(disk')
        BY <1>1, NoFilesIsDirectory, DirectoriesAssumption DEF CommandInv, Typed
    <2> QED
        BY <1>1, <1>2, <2>1, NoFilesIsDirectory DEF CommandInv, Typed
<1>4. Found' /\ WentOn' /\ Whole'
    BY <1>1, <1>2 DEF Found, WentOn, Whole
<1>5. OnDisk'
    BY <1>1 DEF OnDisk, NoFiles
<1>6. Unchanged'
    BY <1>1 DEF Unchanged
<1> QED
    BY <1>3, <1>4, <1>5, <1>6 DEF CommandInv

(* A step that leaves the files, the bundles and the outcomes alone.       *)
LEMMA StageKeeps ==
    ASSUME CommandInv,
           UNCHANGED <<plan, command, commands, synths, disk, kept, rendered, shown,
                       latest, bundles, applied>>,
           \/ stage' \in {"failed", "cancelled"}
              /\ (stage \in {"preview", "confirm", "create"})
           \/ stage = "confirm" /\ stage' = "create"
           \/ stage = "apply" /\ stage' = "done" /\ Len(applied) = Len(bundles)
    PROVE  CommandInv'
<1>1. Typed' /\ OnDisk'
    BY DEF CommandInv, Typed, OnDisk
<1>2. Found' /\ Unchanged'
    BY DEF CommandInv, Found, Unchanged
<1>3. WentOn' /\ Whole'
    BY DEF CommandInv, Found, WentOn, Whole
<1> QED
    BY <1>1, <1>2, <1>3 DEF CommandInv

LEMMA SynthesisKeeps ==
    ASSUME CommandInv, PreviewPlan \/ CreatePlan
    PROVE  CommandInv'
<1>1. /\ Synth /\ UNCHANGED <<plan, command, commands, kept, bundles, applied>>
      /\ stage \in {"preview", "create"}
      /\ stage' \in {"confirm", "done", "find"}
      /\ stage' = "done" => command.name # "apply"
      /\ stage = "preview" => shown' = latest'
      /\ stage = "create" => shown' = shown
    BY DEF PreviewPlan, CreatePlan
<1>2. /\ IsDirectory(disk') /\ IsDirectory(rendered') /\ IsDirectory(latest')
      /\ synths' \in Nat /\ OnDisk'
      /\ plan.ids = "fixed" =>
            latest' = plan.files /\ disk' = Over(plan.files, kept)
    BY <1>1, SynthKeeps DEF CommandInv
<1>3. Typed'
    BY <1>1, <1>2 DEF CommandInv, Typed
<1>4. bundles = <<>> /\ Len(applied) = 0
    <2>1. bundles = <<>> /\ Len(applied) <= Len(bundles) /\ Len(applied) \in Nat
        BY <1>1, LenProperties DEF CommandInv, Found, Typed
    <2>2. Len(<<>>) = 0
        BY EmptySeq
    <2> QED
        BY <2>1, <2>2
<1>5. Found' /\ WentOn' /\ Whole'
    <2>1. Len(applied') = 0 /\ bundles' = <<>> /\ Len(bundles') = 0
        BY <1>1, <1>4, EmptySeq
    <2> QED
        BY <1>1, <2>1 DEF Found, WentOn, Whole
<1>6. Unchanged'
    BY <1>1, <1>2, <1>4 DEF CommandInv, Unchanged
<1> QED
    BY <1>2, <1>3, <1>5, <1>6 DEF CommandInv

LEMMA FindKeeps ==
    ASSUME CommandInv, FindManifests
    PROVE  CommandInv'
<1>1. /\ stage = "find" /\ stage' = "apply" /\ bundles' = BundlesIn(disk)
      /\ UNCHANGED <<plan, command, commands, synths, disk, kept, rendered, shown, latest, applied>>
    BY DEF FindManifests, BundlesIn
<1>2. Typed' /\ OnDisk' /\ Whole'
    BY <1>1 DEF CommandInv, Typed, OnDisk, Whole
<1>3. Len(applied) = 0
    <2>1. bundles = <<>> /\ Len(applied) <= Len(bundles) /\ Len(applied) \in Nat
        BY <1>1, LenProperties DEF CommandInv, Found, Typed
    <2> QED
        BY <2>1, EmptySeq
<1>4. Len(bundles') \in Nat
    BY <1>1, BundlesFacts, LenProperties DEF CommandInv, Typed
<1>5. Found' /\ WentOn'
    BY <1>1, <1>3, <1>4 DEF Found, WentOn
<1>6. Unchanged'
    BY <1>1 DEF CommandInv, Unchanged
<1> QED
    BY <1>2, <1>5, <1>6 DEF CommandInv

LEMMA ApplyBundleKeeps ==
    ASSUME CommandInv, NEW outcome \in Outcomes, ApplyBundle(outcome)
    PROVE  CommandInv'
<1> DEFINE n == Len(applied)
<1>1. /\ stage = "apply" /\ n < Len(bundles) /\ applied' = Append(applied, outcome)
      /\ stage' = IF Aborts(bundles[n + 1], outcome) THEN "failed" ELSE stage
      /\ UNCHANGED <<plan, command, commands, synths, disk, kept, rendered, shown, latest, bundles>>
    BY DEF ApplyBundle
<1>2. /\ applied \in Seq(Outcomes) /\ n \in Nat /\ Len(applied') = n + 1
      /\ applied' \in Seq(Outcomes)
      /\ \A i \in 1..n : applied'[i] = applied[i]
      /\ applied'[n + 1] = outcome
    BY <1>1, AppendProperties, LenProperties DEF CommandInv, Typed
<1>3. bundles = BundlesIn(disk) /\ Len(bundles) \in Nat /\ bundles # <<>>
    <2>1. bundles = BundlesIn(disk)
        BY <1>1 DEF CommandInv, Found
    <2>2. Len(bundles) \in Nat
        BY <2>1, BundlesFacts, LenProperties DEF CommandInv, Typed
    <2> QED
        BY <1>1, <1>2, <2>1, <2>2, EmptySeq
<1> HIDE DEF n
<1>4. Typed' /\ OnDisk' /\ Whole'
    BY <1>1, <1>2 DEF CommandInv, Typed, OnDisk, Whole
<1>5. Found'
    BY <1>1, <1>2, <1>3 DEF Found
<1>6. WentOn'
    <2> SUFFICES ASSUME stage' \in {"apply", "done"}, NEW i \in 1..Len(applied')
                 PROVE  \/ applied'[i] = "ok"
                        \/ applied'[i] = "error" /\ OnFailure(bundles[i]) # "abort"
        BY <1>1 DEF WentOn
    <2>1. CASE i \in 1..n
        BY <1>1, <1>2, <2>1 DEF CommandInv, WentOn, n
    <2>2. CASE i = n + 1
        <3>1. ~Aborts(bundles[i], outcome)
            BY <1>1, <2>2
        <3> QED
            BY <1>2, <2>2, <3>1 DEF Aborts, Outcomes
    <2> QED
        BY <1>2, <2>1, <2>2
<1>7. Unchanged'
    BY <1>1, <1>3 DEF CommandInv, Unchanged
<1> QED
    BY <1>4, <1>5, <1>6, <1>7 DEF CommandInv

(* The invariant of the commands, for any plans, any directories and any   *)
(* number of commands, with and without --render-dir.                      *)
THEOREM CommandInvariant == Spec => []CommandInv
<1>1. CommandInv /\ [Next]_vars => CommandInv'
    <2> SUFFICES ASSUME CommandInv, [Next]_vars PROVE CommandInv'
        OBVIOUS
    <2>1. ASSUME NEW name \in {"preview", "apply"}, NEW render \in BOOLEAN, Start(name, render)
          PROVE  CommandInv'
        BY <2>1, StartKeeps
    <2>2. CASE PreviewPlan \/ CreatePlan
        BY <2>2, SynthesisKeeps
    <2>3. CASE PreviewFails \/ CreateFails
        BY <2>3, StageKeeps DEF PreviewFails, CreateFails, Fails
    <2>4. ASSUME NEW answer \in {"flag", "yes", "no", "error"}, Confirm(answer)
          PROVE  CommandInv'
        BY <2>4, StageKeeps DEF Confirm
    <2>5. CASE FindManifests
        BY <2>5, FindKeeps
    <2>6. CASE Applied
        BY <2>6, StageKeeps DEF Applied
    <2>7. ASSUME NEW outcome \in {"ok", "error", "missing"}, ApplyBundle(outcome)
          PROVE  CommandInv'
        BY <2>7, ApplyBundleKeeps DEF Outcomes
    <2>8. CASE UNCHANGED vars
        BY <2>8 DEF vars, CommandInv, Typed, Found, WentOn, Whole, OnDisk, Unchanged
    <2> QED
        BY <2>1, <2>2, <2>3, <2>4, <2>5, <2>6, <2>7, <2>8 DEF Next, Command
<1> QED
    BY <1>1, InitCommand, PTL DEF Spec

----------------------------------------------------------------------------
(* Normalizing loses, repeats and reorders nothing: what is applied are    *)
(* the YAML files of the directory in their order, for any tree of files   *)
(* (findManifests, normalizeManifests).                                    *)
THEOREM BundlesAreTheFilesHolds == Spec => []BundlesAreTheFiles
<1>1. CommandInv => BundlesAreTheFiles
    BY BundlesAreFiles DEF CommandInv, Typed, Found, BundlesAreTheFiles
<1> QED
    BY <1>1, CommandInvariant, PTL

LEMMA NoBundles == <<>> \in Seq(BundlesWith(ManifestsOf(Files))) /\ Len(<<>>) = 0 /\ DOMAIN <<>> = {}
BY EmptySeq

(* Every bundle is one kubectl call or one local command, and its client   *)
(* does not refuse it (ManifestBundle.Client).                             *)
THEOREM BundlesFitClientsHolds == Spec => []BundlesFitClients
<1>1. CommandInv => BundlesFitClients
    <2> SUFFICES ASSUME CommandInv PROVE BundlesFitClients
        OBVIOUS
    <2>1. CASE bundles = <<>>
        BY <2>1, NoBundles DEF BundlesFitClients
    <2>2. CASE bundles = BundlesIn(disk)
        <3>1. bundles \in Seq(BundlesWith(ManifestsOf(Files))) /\ AllFit(bundles)
            BY <2>2, BundlesFacts DEF CommandInv, Typed
        <3>2. DOMAIN bundles = 1..Len(bundles)
            BY <3>1, LenProperties
        <3> QED
            BY <3>1, <3>2 DEF AllFit, Fits, BundlesFitClients
    <2> QED
        BY <2>1, <2>2 DEF CommandInv, Found
<1> QED
    BY <1>1, CommandInvariant, PTL

(* Two remote bundles in a row come from different directories: kubectl is *)
(* called once for what can be applied together (normalizeManifests).      *)
THEOREM BundlesAreMaximalHolds == Spec => []BundlesAreMaximal
<1>1. CommandInv => BundlesAreMaximal
    <2> SUFFICES ASSUME CommandInv PROVE BundlesAreMaximal
        OBVIOUS
    <2>1. CASE bundles = <<>>
        BY <2>1, NoBundles DEF BundlesAreMaximal
    <2>2. CASE bundles = BundlesIn(disk)
        BY <2>2, BundlesFacts DEF CommandInv, Typed, RemoteMeetAcross, BundlesAreMaximal
    <2> QED
        BY <2>1, <2>2 DEF CommandInv, Found
<1> QED
    BY <1>1, CommandInvariant, PTL

(* What the first n bundles hold is the beginning of what all hold.        *)
LEMMA HandedIsPrefix ==
    ASSUME NEW M, NEW bs \in Seq(BundlesWith(M)), NEW n \in 0..Len(bs)
    PROVE  /\ IsPrefix(PathsOf(SubSeq(bs, 1, n)), PathsOf(bs))
           /\ n = Len(bs) => PathsOf(SubSeq(bs, 1, n)) = PathsOf(bs)
<1> DEFINE a == SubSeq(bs, 1, n)
           b == SubSeq(bs, n + 1, Len(bs))
           p == ManifestsIn(a)
           q == ManifestsIn(b)
           s == PathsOf(a)
           t == PathsOf(bs)
<1>1. Len(bs) \in Nat /\ \A i \in 1..Len(bs) : bs[i] \in BundlesWith(M)
    BY LenProperties, ElementOfSeq
<1>2. a \in Seq(BundlesWith(M)) /\ b \in Seq(BundlesWith(M))
    <2>1. \A i \in 1..n : bs[i] \in BundlesWith(M)
        BY <1>1
    <2>2. \A i \in (n + 1)..Len(bs) : bs[i] \in BundlesWith(M)
        BY <1>1
    <2> QED
        BY <1>1, <2>1, <2>2, SubSeqProperties
<1>3. a \o b = bs
    <2>1. 1 \in 1..Len(bs)+1 /\ n \in 1-1..Len(bs) /\ Len(bs) \in n..Len(bs)
        BY <1>1
    <2> QED
        BY <2>1, ConcatAdjacentSubSeq, SubSeqFull
<1> HIDE DEF a, b
<1>4. p \in Seq(M) /\ q \in Seq(M) /\ ManifestsIn(bs) = p \o q
    BY <1>2, <1>3, ManifestsInFacts
<1> DEFINE k == Len(p)
           l == Len(q)
<1>5. /\ k \in Nat /\ l \in Nat /\ DOMAIN p = 1..k /\ Len(p \o q) = k + l
      /\ DOMAIN (p \o q) = 1..(k + l)
      /\ \A i \in 1..k : (p \o q)[i] = p[i]
    BY <1>4, ConcatProperties, LenProperties
<1>6. s = [i \in 1..k |-> p[i].file.path] /\ t = [i \in 1..(k + l) |-> (p \o q)[i].file.path]
    BY <1>4, <1>5 DEF PathsOf
<1> HIDE DEF k, l, s, t
<1>7. Len(s) = k /\ Len(t) = k + l
    BY <1>5, <1>6
<1>8. SubSeq(s, 1, k) = s /\ SubSeq(t, 1, k) = s
    <2>1. SubSeq(s, 1, k) = [i \in 1..k |-> s[i]]
        BY <1>5
    <2>2. SubSeq(t, 1, k) = [i \in 1..k |-> t[i]]
        BY <1>5
    <2>3. \A i \in 1..k : t[i] = s[i]
        BY <1>5, <1>6
    <2>4. s = [i \in 1..k |-> s[i]]
        BY <1>6
    <2> QED
        BY <2>1, <2>2, <2>3, <2>4
<1>9. IsPrefix(s, t)
    BY <1>5, <1>7, <1>8 DEF IsPrefix
<1>10. n = Len(bs) => a = bs
    BY SubSeqFull DEF a
<1> QED
    BY <1>9, <1>10 DEF s, t, a

(* What was handed to the clients, among the files of the directory.       *)
LEMMA HandedFacts ==
    ASSUME CommandInv
    PROVE  /\ bundles # <<>> => IsPrefix(Handed, InOrder(disk))
           /\ bundles = <<>> => Handed = <<>>
           /\ bundles = BundlesIn(disk) /\ Len(applied) = Len(bundles) => Handed = InOrder(disk)
<1> DEFINE B == Seq(BundlesWith(ManifestsOf(Files)))
<1>1. /\ Len(applied) \in Nat /\ Len(applied) <= Len(bundles)
      /\ bundles = <<>> \/ bundles = BundlesIn(disk)
      /\ IsDirectory(disk)
    BY LenProperties DEF CommandInv, Typed, Found
<1>2. bundles \in B
    BY <1>1, BundlesFacts, NoBundles
<1>3. Len(applied) \in 0..Len(bundles)
    BY <1>1, <1>2, LenProperties
<1>4. /\ IsPrefix(Handed, PathsOf(bundles))
      /\ Len(applied) = Len(bundles) => Handed = PathsOf(bundles)
    BY <1>2, <1>3, HandedIsPrefix DEF Handed
<1>5. bundles = BundlesIn(disk) => PathsOf(bundles) = InOrder(disk)
    BY <1>1, BundlesAreFiles
<1>6. bundles = <<>> => Handed = <<>>
    <2>1. ManifestsIn(<<>>) = <<>>
        BY NoBundles, ManifestsInFacts
    <2>2. PathsOf(<<>>) = <<>>
        BY <2>1, EmptySeq DEF PathsOf
    <2>3. bundles = <<>> => Len(applied) = Len(bundles)
        BY <1>1, NoBundles
    <2> QED
        BY <1>4, <2>2, <2>3
<1> QED
    BY <1>1, <1>4, <1>5, <1>6

(* The user consents to what the preview shows: with ids that do not       *)
(* change, and whatever fails, what is applied are the files shown and     *)
(* those the directory held when the command began, in the order of their  *)
(* paths and from the first one on (apply's prompt, ApplyPlan).            *)
THEOREM ShownIsAppliedHolds == Spec => []ShownIsApplied
<1>1. CommandInv => ShownIsApplied
    <2> DEFINE files == Over(shown, kept)
    <2> SUFFICES ASSUME CommandInv, plan.ids = "fixed"
                 PROVE  IsPrefix(Handed, InOrder(files))
        BY DEF ShownIsApplied
    <2>1. CASE bundles # <<>>
        <3>1. files = disk
            BY <2>1 DEF CommandInv, Unchanged
        <3> QED
            BY <2>1, <3>1, HandedFacts
    <2>2. CASE bundles = <<>>
        <3>1. Handed = <<>>
            BY <2>2, HandedFacts
        <3>2. IsDirectory(files)
            BY OverlayFacts DEF CommandInv, Typed
        <3> HIDE DEF files
        <3>3. InOrder(files) \in Seq(YamlPaths(files))
            BY <3>2, InOrderIsByRank DEF Lists
        <3>4. Len(InOrder(files)) \in Nat /\ Len(<<>>) = 0
            BY <3>3, LenProperties, EmptySeq
        <3>5. SubSeq(<<>>, 1, 0) = <<>> /\ SubSeq(InOrder(files), 1, 0) = <<>>
            BY SubSeqEmpty
        <3> QED
            BY <3>1, <3>4, <3>5 DEF IsPrefix
    <2> QED
        BY <2>1, <2>2
<1> QED
    BY <1>1, CommandInvariant, PTL

(* "Successfully applied plan" is printed only when every file of the      *)
(* command's own synthesis was handed to its client and nothing that       *)
(* aborts a plan failed (AppPlan.Apply, ManifestBundle.Apply).             *)
THEOREM SuccessIsWholeHolds == Spec => []SuccessIsWhole
<1>1. CommandInv => SuccessIsWhole
    <2> SUFFICES ASSUME CommandInv, stage = "done", command.name = "apply"
                 PROVE  /\ ToSet(InOrder(latest)) \subseteq ToSet(Handed)
                        /\ Len(applied) = Len(bundles)
                        /\ \A i \in DOMAIN applied :
                              \/ applied[i] = "ok"
                              \/ applied[i] = "error" /\ OnFailure(bundles[i]) # "abort"
        BY DEF SuccessIsWhole
    <2>1. Len(applied) = Len(bundles) /\ Handed = InOrder(disk)
        BY HandedFacts DEF CommandInv, Whole
    <2>2. DOMAIN applied = 1..Len(applied)
        BY LenProperties DEF CommandInv, Typed
    <2>3. IsDirectory(disk) /\ IsDirectory(latest)
        BY DEF CommandInv, Typed
    <2>4. YamlPaths(latest) \subseteq YamlPaths(disk)
        BY DEF CommandInv, OnDisk, YamlPaths
    <2>5. ASSUME NEW files, IsDirectory(files)
          PROVE  ToSet(InOrder(files)) = YamlPaths(files)
        <3>1. Lists(InOrder(files), YamlPaths(files), PathsBelow(YamlPaths(files)))
            BY <2>5, InOrderIsByRank
        <3>2. /\ DOMAIN InOrder(files) = 1..Len(InOrder(files))
              /\ \A i \in 1..Len(InOrder(files)) : InOrder(files)[i] \in YamlPaths(files)
              /\ \A p \in YamlPaths(files) : \E i \in 1..Len(InOrder(files)) : InOrder(files)[i] = p
            BY <3>1, LenProperties, ElementOfSeq DEF Lists
        <3> QED
            BY <3>2 DEF ToSet
    <2>6. ToSet(InOrder(latest)) \subseteq ToSet(Handed)
        BY <2>1, <2>3, <2>4, <2>5
    <2> QED
        BY <2>1, <2>2, <2>6 DEF CommandInv, WentOn
<1> QED
    BY <1>1, CommandInvariant, PTL
=============================================================================
