----------------------------- MODULE AuthorProofs -----------------------------
(***************************************************************************)
(* The author commands, for every profile and every spec to start from:    *)
(* the files stay well formed, no two nodes share a leaf, no text is lost  *)
(* but with its node, and a report says what validate finds, whatever      *)
(* command dies between two of its file operations.                        *)
(***************************************************************************)
EXTENDS AuthorGuarantees, WellFoundedInduction, TLAPS

Sound(fs) == IsTree(fs) /\ DocsTyped(fs)

-----------------------------------------------------------------------------
(* Sequences and places. *)

\* A set of numbers that is not empty has a least one.
LEMMA LeastNumber ==
    ASSUME NEW S, S \subseteq Nat, S # {}
    PROVE  \E x \in S : \A y \in S : x <= y
<1>1. PICK x \in S : \A y \in S : ~(<<y, x>> \in OpToRel(<, Nat))
  BY NatLessThanWellFounded, WFMin
<1>2. OpToRel(<, Nat) = {ss \in Nat \X Nat : ss[1] < ss[2]}
  BY Zenon DEF OpToRel
<1>3. \A y \in S : x <= y
  <2>1. TAKE y \in S
  <2>2. ~(<<y, x>> \in {ss \in Nat \X Nat : ss[1] < ss[2]})
    BY <1>1, <1>2
  <2> QED
    BY <2>2, SMT
<1> QED
  BY <1>3

\* The filter of removeEntry: a function that takes the elements one by one.
Keeps(s, K, f) ==
    f = [n \in 0 .. Len(s) |->
            IF n = 0 THEN <<>> ELSE IF n \in K THEN Append(f[n - 1], s[n]) ELSE f[n - 1]]

\* Such a function exists, for a sequence of any length.
LEMMA KeepsExists ==
    ASSUME NEW S, NEW s \in Seq(S), NEW K
    PROVE  \E f : Keeps(s, K, f)
<1> DEFINE Upto(m, f) == /\ f[0] = <<>>
                         /\ \A n \in 1 .. m :
                               f[n] = IF n \in K THEN Append(f[n - 1], s[n]) ELSE f[n - 1]
           Reached(m) == \E f : Upto(m, f)
           bad == {m \in Nat : ~Reached(m)}
<1>1. Reached(0)
  <2> DEFINE f == [n \in {0} |-> <<>>]
  <2>1. Upto(0, f)
    OBVIOUS
  <2> QED
    BY <2>1
<1>2. ASSUME NEW m \in Nat, m # 0, Reached(m - 1)
      PROVE  Reached(m)
  <2>1. PICK f : Upto(m - 1, f)
    BY <1>2
  <2> DEFINE last == IF m \in K THEN Append(f[m - 1], s[m]) ELSE f[m - 1]
             g == [n \in 0 .. m |-> IF n = m THEN last ELSE f[n]]
  <2>2. g[0] = <<>>
    BY <1>2, <2>1
  <2>3. ASSUME NEW n \in 1 .. m
        PROVE  g[n] = IF n \in K THEN Append(g[n - 1], s[n]) ELSE g[n - 1]
    <3>1. n \in 0 .. m /\ n - 1 \in 0 .. m /\ n - 1 # m
      BY <1>2
    <3> HIDE DEF last
    <3>2. g[n - 1] = f[n - 1]
      BY <3>1
    <3>3. CASE n = m
      <4>1. g[n] = last
        BY <3>1, <3>3
      <4> QED
        BY <3>2, <3>3, <4>1 DEF last
    <3>4. CASE n # m
      <4>1. g[n] = f[n]
        BY <3>1, <3>4
      <4>2. n \in 1 .. m - 1
        BY <1>2, <3>4
      <4> HIDE DEF g
      <4> QED
        BY <2>1, <3>2, <4>1, <4>2
    <3> QED
      BY <3>3, <3>4
  <2> HIDE DEF g
  <2>4. Upto(m, g)
    BY <2>2, <2>3
  <2> HIDE DEF Upto
  <2> QED
    BY <2>4
<1> HIDE DEF Upto
<1>3. Len(s) \in Nat
  OBVIOUS
<1>4. Reached(Len(s))
  <2> HIDE DEF Reached
  <2> SUFFICES ASSUME bad # {} PROVE FALSE
    BY <1>3
  <2>1. PICK m \in bad : \A y \in bad : m <= y
    BY LeastNumber
  <2>2. m \in Nat /\ ~Reached(m)
    BY <2>1
  <2>3. m # 0
    BY <1>1, <2>2
  <2>4. m - 1 \in Nat /\ ~(m <= m - 1)
    BY <2>2, <2>3
  <2>5. Reached(m - 1)
    BY <2>1, <2>4
  <2> QED
    BY <1>2, <2>2, <2>3, <2>5
<1>5. PICK f : Upto(Len(s), f)
  BY <1>4
<1> DEFINE g == [n \in 0 .. Len(s) |-> f[n]]
<1>6. \A n \in 0 .. Len(s) :
         g[n] = IF n = 0 THEN <<>> ELSE IF n \in K THEN Append(g[n - 1], s[n]) ELSE g[n - 1]
  <2> TAKE n \in 0 .. Len(s)
  <2>1. CASE n = 0
    BY <1>5, <2>1 DEF Upto
  <2>2. CASE n # 0
    <3>1. n \in 1 .. Len(s) /\ n - 1 \in 0 .. Len(s)
      BY <2>2
    <3>2. f[n] = IF n \in K THEN Append(f[n - 1], s[n]) ELSE f[n - 1]
      BY <1>5, <3>1 DEF Upto
    <3>3. g[n] = f[n] /\ g[n - 1] = f[n - 1]
      BY <3>1
    <3> QED
      BY <2>2, <3>2, <3>3
  <2> QED
    BY <2>1, <2>2
<1>7. Keeps(s, K, g)
  <2>1. g = [n \in 0 .. Len(s) |-> g[n]]
    OBVIOUS
  <2> HIDE DEF g
  <2> QED
    BY <1>6, <2>1 DEF Keeps
<1> QED
  BY <1>7

\* t holds elements of s from its first n places, each from a place of its own.
PickedFrom(t, s, n) ==
    \A i, k \in DOMAIN t : \E a, b \in 1 .. n :
        t[i] = s[a] /\ t[k] = s[b] /\ (i # k => a # b)

\* One element more.
LEMMA OneMorePicked ==
    ASSUME NEW S, NEW s \in Seq(S), NEW n \in 1 .. Len(s),
           NEW t \in Seq(S), PickedFrom(t, s, n - 1)
    PROVE  /\ Append(t, s[n]) \in Seq(S) /\ PickedFrom(Append(t, s[n]), s, n)
           /\ PickedFrom(t, s, n)
<1> DEFINE u == Append(t, s[n])
<1>1. u \in Seq(S) /\ DOMAIN u = 1 .. Len(t) + 1 /\ u[Len(t) + 1] = s[n]
  OBVIOUS
<1>2. \A i \in DOMAIN u : i # Len(t) + 1 => i \in DOMAIN t /\ u[i] = t[i]
  OBVIOUS
<1>3. n \in 1 .. n /\ \A a \in 1 .. n - 1 : a \in 1 .. n /\ a # n
  OBVIOUS
<1>4. PickedFrom(t, s, n)
  BY <1>3 DEF PickedFrom
<1> HIDE DEF u
<1>5. ASSUME NEW i \in DOMAIN u, NEW k \in DOMAIN u
      PROVE  \E a, b \in 1 .. n : u[i] = s[a] /\ u[k] = s[b] /\ (i # k => a # b)
  <2>1. CASE i = Len(t) + 1 /\ k = Len(t) + 1
    BY <1>1, <1>3, <2>1
  <2>2. CASE i = Len(t) + 1 /\ k # Len(t) + 1
    <3>1. PICK a \in 1 .. n - 1, b \in 1 .. n - 1 : t[k] = s[a]
      BY <1>2, <2>2 DEF PickedFrom
    <3> QED
      BY <1>1, <1>2, <1>3, <2>2, <3>1
  <2>3. CASE i # Len(t) + 1 /\ k = Len(t) + 1
    <3>1. PICK a \in 1 .. n - 1, b \in 1 .. n - 1 : t[i] = s[a]
      BY <1>2, <2>3 DEF PickedFrom
    <3> QED
      BY <1>1, <1>2, <1>3, <2>3, <3>1
  <2>4. CASE i # Len(t) + 1 /\ k # Len(t) + 1
    <3>1. i \in DOMAIN t /\ k \in DOMAIN t /\ u[i] = t[i] /\ u[k] = t[k]
      BY <1>2, <2>4
    <3>2. PICK a \in 1 .. n - 1, b \in 1 .. n - 1 :
                 t[i] = s[a] /\ t[k] = s[b] /\ (i # k => a # b)
      BY <3>1 DEF PickedFrom
    <3> QED
      BY <1>3, <3>1, <3>2
  <2> QED
    BY <2>1, <2>2, <2>3, <2>4
<1>6. PickedFrom(u, s, n)
  BY <1>5 DEF PickedFrom
<1> QED
  BY <1>1, <1>4, <1>6 DEF u

\* What is kept are elements of the sequence, from places of their own.
LEMMA KeptElements ==
    ASSUME NEW S, NEW s \in Seq(S), NEW K
    PROVE  Kept(s, K) \in Seq(S) /\ PickedFrom(Kept(s, K), s, Len(s))
<1> DEFINE w == CHOOSE f : Keeps(s, K, f)
           Fine(n) == w[n] \in Seq(S) /\ PickedFrom(w[n], s, n)
           bad == {n \in Nat : n <= Len(s) /\ ~Fine(n)}
<1>1. Keeps(s, K, w)
  BY KeepsExists
<1>2. Kept(s, K) = w[Len(s)]
  BY DEF Kept, Keeps
<1> HIDE DEF w
<1>3. w[0] = <<>>
  <2>1. 0 \in 0 .. Len(s)
    OBVIOUS
  <2> QED
    BY <1>1, <2>1 DEF Keeps
<1>4. ASSUME NEW n \in 1 .. Len(s)
      PROVE  w[n] = IF n \in K THEN Append(w[n - 1], s[n]) ELSE w[n - 1]
  <2>1. n \in 0 .. Len(s) /\ n # 0
    OBVIOUS
  <2> QED
    BY <1>1, <2>1 DEF Keeps
<1>5. Fine(0)
  BY <1>3 DEF PickedFrom
<1>6. ASSUME NEW n \in 1 .. Len(s), Fine(n - 1)
      PROVE  Fine(n)
  <2>1. w[n - 1] \in Seq(S) /\ PickedFrom(w[n - 1], s, n - 1)
    BY <1>6
  <2>2. /\ Append(w[n - 1], s[n]) \in Seq(S) /\ PickedFrom(Append(w[n - 1], s[n]), s, n)
        /\ PickedFrom(w[n - 1], s, n)
    BY <2>1, OneMorePicked
  <2>3. CASE n \in K
    BY <1>4, <2>2, <2>3
  <2>4. CASE n \notin K
    BY <1>4, <2>1, <2>2, <2>4
  <2> QED
    BY <2>3, <2>4
<1> HIDE DEF Fine
<1>7. Len(s) \in Nat
  OBVIOUS
<1>8. Fine(Len(s))
  <2> SUFFICES ASSUME bad # {} PROVE FALSE
    BY <1>7
  <2>1. PICK m \in bad : \A y \in bad : m <= y
    BY LeastNumber
  <2>2. m \in Nat /\ m <= Len(s) /\ ~Fine(m)
    BY <2>1
  <2>3. m # 0
    BY <1>5, <2>2
  <2>4. m \in 1 .. Len(s) /\ m - 1 \in Nat /\ m - 1 <= Len(s) /\ ~(m <= m - 1)
    BY <1>7, <2>2, <2>3
  <2>5. Fine(m - 1)
    BY <2>1, <2>4
  <2> QED
    BY <1>6, <2>2, <2>4, <2>5
<1> QED
  BY <1>2, <1>8 DEF Fine

-----------------------------------------------------------------------------
(* Paths, documents and places. *)

AllDirs == Dirs \cup {ProjectDir}

\* The entries a document of d may hold under the type t.
EntriesFor(d, t) ==
    {es \in Seq(NodeEntry) :
        /\ t \notin TypesOf(d) => es = <<>>
        /\ \A i \in DOMAIN es : /\ t = "module" => es[i].name \in Dirs
                                /\ t \in ContentTypes => es[i].slug \in Range(Slug)}

\* A document is one list of entries per type.
LEMMA DocForIs ==
    ASSUME NEW d, NEW doc
    PROVE  doc \in DocFor(d) <=> doc \in Doc /\ \A t \in Types : doc[t] \in EntriesFor(d, t)
<1>1. doc \in Doc => \A t \in Types : doc[t] \in Seq(NodeEntry)
  BY DEF Doc
<1> QED
  BY <1>1 DEF DocFor, EntriesFor

\* No file is both a document and a leaf, and each directory has its document.
LEMMA PathsApart ==
    /\ \A d, e \in AllDirs : DocPath(d) = DocPath(e) => d = e
    /\ \A d \in AllDirs : DocPath(d) \notin LeafPaths /\ DocPath(d) \in DocPaths
    /\ \A p \in LeafPaths : p \notin DocPaths
    /\ DocPath(ProjectDir) = ProjectPath
<1>1. \A d \in Dirs : d # ProjectDir /\ d # ProjectRank
  BY AuthorAssumption
<1>2. \A d, e \in AllDirs : DocPath(d) = DocPath(e) => d = e
  BY <1>1 DEF AllDirs, DocPath, ProjectPath
<1>3. ASSUME NEW d \in AllDirs, NEW p \in LeafPaths
      PROVE  DocPath(d) # p
  <2>1. PICK e \in Dirs, t \in ContentTypes, s \in Range(Slug) : p = <<e, PrefixRank[t], s>>
    BY DEF LeafPaths, LeafPath
  <2>2. PrefixRank[t] # ModuleFileRank
    BY <2>1, AuthorAssumption
  <2> QED
    BY <1>1, <2>1, <2>2 DEF DocPath, ProjectPath
<1>4. DocPaths = {DocPath(d) : d \in AllDirs}
  BY DEF DocPaths, AllDirs
<1>5. DocPath(ProjectDir) = ProjectPath
  BY DEF DocPath
<1> QED
  BY <1>2, <1>3, <1>4, <1>5

\* The module types: "module" is declared in the project document, and only
\* modules' nodes have leaves.
LEMMA TypesApart ==
    /\ "module" \in Types /\ "module" \notin ModuleScoped /\ "module" \notin ContentTypes
    /\ "module" \in TypesOf(ProjectDir)
    /\ \A d, t : t \in TypesOf(d) => t \in Types
    /\ \A t \in ContentTypes : t \in Types /\ t \notin TypesOf(ProjectDir)
BY AuthorAssumption DEF TypesOf, ProjectTypes

\* In a sound tree the documents a command reads are documents of directories.
LEMMA DocOfSound ==
    ASSUME NEW fs, Sound(fs), NEW d \in Docs(fs)
    PROVE  /\ d \in AllDirs /\ DocPath(d) \in DOMAIN fs
           /\ fs[DocPath(d)] \in DocFor(d) /\ fs[DocPath(d)] \in Doc
<1>1. ProjectPath \in DOMAIN fs /\ ProjectDir \in AllDirs /\ DocPath(ProjectDir) = ProjectPath
  BY DEF Sound, IsTree, AllDirs, DocPath
<1>2. \A e \in AllDirs : DocPath(e) \in DOMAIN fs => fs[DocPath(e)] \in DocFor(e) /\ fs[DocPath(e)] \in Doc
  BY DEF Sound, DocsTyped, AllDirs, DocFor
<1>3. d = ProjectDir \/ (d \in Modules(fs) /\ DocPath(d) \in DOMAIN fs)
  BY DEF Docs, Unreadable
<1>4. ASSUME d \in Modules(fs) PROVE d \in Dirs
  <2> DEFINE es == fs[ProjectPath]["module"]
  <2>1. es \in EntriesFor(ProjectDir, "module")
    BY <1>1, <1>2, DocForIs, TypesApart
  <2>2. \A i \in DOMAIN es : es[i].name \in Dirs
    BY <2>1 DEF EntriesFor
  <2>3. PICK i \in DOMAIN es : d = es[i].name
    BY <1>4 DEF Modules, ModuleSeq, Range
  <2> QED
    BY <2>2, <2>3
<1>5. d \in AllDirs /\ DocPath(d) \in DOMAIN fs
  <2>1. CASE d = ProjectDir
    BY <1>1, <2>1
  <2>2. CASE d # ProjectDir
    BY <1>3, <1>4, <2>2 DEF AllDirs
  <2> QED
    BY <2>1, <2>2
<1> QED
  BY <1>2, <1>5

\* A place is a document, one of its types and an index.
LEMMA PlaceIs ==
    ASSUME NEW fs, NEW d, NEW t, NEW i
    PROVE  <<d, t, i>> \in Places(fs) <=>
             d \in Docs(fs) /\ t \in Types /\ i \in DOMAIN Entries(fs, d, t)
<1>2. ASSUME <<d, t, i>> \in Places(fs)
      PROVE  d \in Docs(fs) /\ t \in Types /\ i \in DOMAIN Entries(fs, d, t)
  <2>1. PICK e \in Docs(fs), u \in Types :
           <<d, t, i>> \in {<<e, u, k>> : k \in DOMAIN Entries(fs, e, u)}
    BY <1>2 DEF Places
  <2> QED
    BY <2>1
<1>3. ASSUME d \in Docs(fs), t \in Types, i \in DOMAIN Entries(fs, d, t)
      PROVE  <<d, t, i>> \in Places(fs)
  <2> DEFINE here == {<<d, t, k>> : k \in DOMAIN Entries(fs, d, t)}
             all == {{<<e, u, k>> : k \in DOMAIN Entries(fs, e, u)} : e \in Docs(fs), u \in Types}
  <2>1. <<d, t, i>> \in here
    BY <1>3
  <2>2. here \in all
    BY <1>3
  <2>3. Places(fs) = UNION all
    BY DEF Places
  <2> HIDE DEF here, all
  <2> QED
    BY <2>1, <2>2, <2>3
<1> QED
  BY <1>2, <1>3

\* The entry at a place, and the parts of the place.
LEMMA PlaceParts ==
    ASSUME NEW fs, Sound(fs), NEW pl \in Places(fs)
    PROVE  /\ pl = <<pl[1], pl[2], pl[3]>>
           /\ pl[1] \in Docs(fs) /\ pl[1] \in AllDirs /\ DocPath(pl[1]) \in DOMAIN fs
           /\ pl[2] \in Types /\ pl[2] \in TypesOf(pl[1])
           /\ Entries(fs, pl[1], pl[2]) \in EntriesFor(pl[1], pl[2])
           /\ Entries(fs, pl[1], pl[2]) \in Seq(NodeEntry)
           /\ pl[3] \in DOMAIN Entries(fs, pl[1], pl[2]) /\ pl[3] \in Nat
           /\ At(fs, pl) = Entries(fs, pl[1], pl[2])[pl[3]] /\ At(fs, pl) \in NodeEntry
<1>1. PICK d \in Docs(fs), t \in Types : pl \in {<<d, t, k>> : k \in DOMAIN Entries(fs, d, t)}
  BY DEF Places
<1>2. PICK i \in DOMAIN Entries(fs, d, t) : pl = <<d, t, i>>
  BY <1>1
<1>3. d \in AllDirs /\ DocPath(d) \in DOMAIN fs /\ fs[DocPath(d)] \in DocFor(d)
  BY DocOfSound
<1>4. Entries(fs, d, t) \in EntriesFor(d, t)
  BY <1>3, DocForIs DEF Entries
<1> DEFINE es == Entries(fs, d, t)
<1>5. es \in Seq(NodeEntry) /\ (t \notin TypesOf(d) => es = <<>>)
  BY <1>4 DEF EntriesFor
<1>6. i \in Nat /\ es[i] \in NodeEntry /\ es # <<>>
  <2> HIDE DEF es
  <2>1. i \in DOMAIN es
    BY <1>2 DEF es
  <2> QED
    BY <1>5, <2>1
<1>7. pl[1] = d /\ pl[2] = t /\ pl[3] = i
  BY <1>2
<1>8. t \in TypesOf(d) /\ At(fs, pl) = es[i] /\ es \in EntriesFor(d, t) /\ i \in DOMAIN es
  BY <1>2, <1>4, <1>5, <1>6, <1>7 DEF At
<1> HIDE DEF es
<1>9. Entries(fs, d, t) = es
  BY DEF es
<1> QED
  BY <1>1, <1>2, <1>3, <1>5, <1>6, <1>7, <1>8, <1>9

\* A node with a leaf is a module's, and its leaf has a leaf's path.
LEMMA LeafParts ==
    ASSUME NEW fs, Sound(fs), NEW pl \in WithLeaf(fs)
    PROVE  /\ pl \in Places(fs) /\ pl[2] \in ContentTypes /\ pl[1] \in Dirs
           /\ At(fs, pl).slug \in Range(Slug) /\ LeafOf(fs, pl) \in LeafPaths
           /\ LeafOf(fs, pl) = LeafPath(pl[1], pl[2], At(fs, pl).slug)
<1>1. pl \in Places(fs) /\ pl[2] \in ContentTypes
  BY DEF WithLeaf
<1>2. pl[1] \in Dirs
  BY <1>1, PlaceParts, TypesApart DEF AllDirs
<1>3. At(fs, pl).slug \in Range(Slug)
  <2> DEFINE es == Entries(fs, pl[1], pl[2])
  <2>1. es \in EntriesFor(pl[1], pl[2]) /\ pl[3] \in DOMAIN es /\ At(fs, pl) = es[pl[3]]
    BY <1>1, PlaceParts
  <2> HIDE DEF es
  <2> QED
    BY <1>1, <2>1 DEF EntriesFor
<1> QED
  BY <1>1, <1>2, <1>3 DEF LeafOf, LeafPaths

\* The command finds the node it is asked about.
LEMMA FoundPlace ==
    ASSUME NEW fs, Sound(fs), NEW x, Located(fs, x) # {}
    PROVE  Found(fs, x) \in Places(fs) /\ At(fs, Found(fs, x)).id = x
<1> DEFINE S == {pl[3] : pl \in Located(fs, x)}
<1>1. S \subseteq Nat /\ S # {}
  BY PlaceParts DEF Located
<1>2. PICK m \in S : \A k \in S : m <= k
  BY <1>1, LeastNumber
<1>3. \E pl \in Located(fs, x) : \A q \in Located(fs, x) : pl[3] <= q[3]
  BY <1>2
<1>4. Found(fs, x) \in Located(fs, x)
  BY <1>3 DEF Found
<1> QED
  BY <1>4 DEF Located

\* ... every node of the tree, that is.
LEMMA NodeFound ==
    ASSUME NEW fs, Sound(fs), NEW x \in Nodes(fs)
    PROVE  Found(fs, x) \in Places(fs) /\ At(fs, Found(fs, x)).id = x
<1>1. Located(fs, x) # {}
  BY DEF Nodes, Located
<1> QED
  BY <1>1, FoundPlace

\* Every id a tree holds is an id.
LEMMA NodeIsID ==
    ASSUME NEW fs, Sound(fs)
    PROVE  Nodes(fs) \subseteq IDs /\ NodeIDs(fs) \subseteq IDs
<1>1. ASSUME NEW pl \in Places(fs) PROVE At(fs, pl).id \in IDs
  <2>1. At(fs, pl) \in NodeEntry
    BY PlaceParts
  <2> QED
    BY <2>1 DEF NodeEntry
<1> QED
  BY <1>1 DEF Nodes, NodeIDs

-----------------------------------------------------------------------------
(* Files and entries set, added and taken away. *)

\* No file but a leaf is touched.
SameDocs(fs, after) ==
    \A d \in AllDirs : /\ DocPath(d) \in DOMAIN after <=> DocPath(d) \in DOMAIN fs
                       /\ DocPath(d) \in DOMAIN fs => after[DocPath(d)] = fs[DocPath(d)]

\* A tree with the documents of a sound one is sound when its leaves are leaves.
LEMMA SoundByDocs ==
    ASSUME NEW fs, Sound(fs), NEW after, SameDocs(fs, after),
           DOMAIN after \subseteq DOMAIN fs \cup LeafPaths,
           \A p \in DOMAIN after \cap LeafPaths : after[p] \in Leaf
    PROVE  Sound(after)
<1>1. IsTree(fs) /\ DocsTyped(fs)
  BY DEF Sound
<1>2. ProjectPath \in DOMAIN after
  BY <1>1, PathsApart DEF IsTree, SameDocs, AllDirs
<1>3. DOMAIN after \subseteq DocPaths \cup LeafPaths
  BY <1>1 DEF IsTree
<1>4. ASSUME NEW p \in DOMAIN after
      PROVE  after[p] \in IF p \in DocPaths THEN Doc ELSE Leaf
  <2>1. CASE p \in LeafPaths
    BY <1>4, <2>1, PathsApart
  <2>2. CASE p \notin LeafPaths
    <3>1. p \in DocPaths /\ p \in DOMAIN fs
      BY <1>3, <1>4, <2>2
    <3>2. PICK d \in AllDirs : p = DocPath(d)
      BY <3>1 DEF DocPaths, AllDirs
    <3> QED
      BY <1>1, <3>1, <3>2 DEF SameDocs, IsTree
  <2> QED
    BY <2>1, <2>2
<1>5. DocsTyped(after)
  BY <1>1 DEF DocsTyped, SameDocs, AllDirs
<1> QED
  BY <1>2, <1>3, <1>4, <1>5 DEF Sound, IsTree

\* A leaf written.
LEMMA LeafWritten ==
    ASSUME NEW fs, Sound(fs), NEW path \in LeafPaths, NEW file \in Leaf
    PROVE  /\ Sound(With(fs, path, file)) /\ SameDocs(fs, With(fs, path, file))
           /\ DOMAIN With(fs, path, file) = DOMAIN fs \cup {path}
           /\ With(fs, path, file)[path] = file
           /\ \A p \in DOMAIN fs : p # path => With(fs, path, file)[p] = fs[p]
<1> DEFINE after == With(fs, path, file)
<1>1. /\ DOMAIN after = DOMAIN fs \cup {path} /\ after[path] = file
      /\ \A p \in DOMAIN fs : p # path => after[p] = fs[p]
  BY DEF With
<1> HIDE DEF after
<1>2. SameDocs(fs, after)
  BY <1>1, PathsApart DEF SameDocs
<1>3. \A p \in DOMAIN fs \cap LeafPaths : fs[p] \in Leaf
  BY PathsApart DEF Sound, IsTree
<1>4. Sound(after)
  BY <1>1, <1>2, <1>3, SoundByDocs
<1> QED
  BY <1>1, <1>2, <1>4 DEF after

\* Leaves taken away.
LEMMA LeavesRemoved ==
    ASSUME NEW fs, Sound(fs), NEW paths \in SUBSET LeafPaths
    PROVE  /\ Sound(Without(fs, paths)) /\ SameDocs(fs, Without(fs, paths))
           /\ DOMAIN Without(fs, paths) = DOMAIN fs \ paths
           /\ \A p \in DOMAIN fs \ paths : Without(fs, paths)[p] = fs[p]
<1> DEFINE after == Without(fs, paths)
<1>1. DOMAIN after = DOMAIN fs \ paths /\ \A p \in DOMAIN fs \ paths : after[p] = fs[p]
  BY DEF Without
<1> HIDE DEF after
<1>2. SameDocs(fs, after)
  BY <1>1, PathsApart DEF SameDocs
<1>3. \A p \in DOMAIN fs \cap LeafPaths : fs[p] \in Leaf
  BY PathsApart DEF Sound, IsTree
<1>4. Sound(after)
  BY <1>1, <1>2, <1>3, SoundByDocs
<1> QED
  BY <1>1, <1>2, <1>4 DEF after

\* A document replaced.
LEMMA DocWritten ==
    ASSUME NEW fs, Sound(fs), NEW d \in AllDirs, NEW doc \in DocFor(d)
    PROVE  /\ Sound(With(fs, DocPath(d), doc))
           /\ DOMAIN With(fs, DocPath(d), doc) = DOMAIN fs \cup {DocPath(d)}
           /\ With(fs, DocPath(d), doc)[DocPath(d)] = doc
           /\ \A p \in DOMAIN fs : p # DocPath(d) => With(fs, DocPath(d), doc)[p] = fs[p]
<1> DEFINE after == With(fs, DocPath(d), doc)
<1>1. /\ DOMAIN after = DOMAIN fs \cup {DocPath(d)} /\ after[DocPath(d)] = doc
      /\ \A p \in DOMAIN fs : p # DocPath(d) => after[p] = fs[p]
  BY DEF With
<1> HIDE DEF after
<1>2. DocPath(d) \in DocPaths /\ doc \in Doc
  BY PathsApart DEF DocFor
<1>3. IsTree(fs) /\ DocsTyped(fs)
  BY DEF Sound
<1>4. IsTree(after)
  BY <1>1, <1>2, <1>3 DEF IsTree
<1>5. ASSUME NEW e \in AllDirs, DocPath(e) \in DOMAIN after
      PROVE  after[DocPath(e)] \in DocFor(e)
  <2>1. CASE e = d
    BY <1>1, <2>1
  <2>2. CASE e # d
    <3>1. DocPath(e) # DocPath(d) /\ DocPath(e) \in DOMAIN fs
      BY <1>1, <1>5, <2>2, PathsApart
    <3> QED
      BY <1>1, <1>3, <3>1 DEF DocsTyped, AllDirs
  <2> QED
    BY <2>1, <2>2
<1>6. DocsTyped(after)
  BY <1>5 DEF DocsTyped, AllDirs
<1> QED
  BY <1>1, <1>4, <1>6 DEF Sound, after

\* The document d of after is that of fs but for the entries of t, which are es,
\* and no other file differs.
EntriesSet(fs, after, d, t, es) ==
    /\ DOMAIN after = DOMAIN fs /\ DocPath(d) \in DOMAIN after
    /\ \A p \in DOMAIN fs : p # DocPath(d) => after[p] = fs[p]
    /\ after[DocPath(d)] \in Doc /\ after[DocPath(d)][t] = es
    /\ \A u \in Types : u # t => after[DocPath(d)][u] = fs[DocPath(d)][u]

\* The entries of a type set.
LEMMA EntriesWritten ==
    ASSUME NEW fs, Sound(fs), NEW d \in Docs(fs), NEW t \in Types, NEW es \in EntriesFor(d, t)
    PROVE  /\ Sound(SetEntries(fs, d, t, es))
           /\ EntriesSet(fs, SetEntries(fs, d, t, es), d, t, es)
<1>1. /\ d \in AllDirs /\ DocPath(d) \in DOMAIN fs
      /\ fs[DocPath(d)] \in DocFor(d) /\ fs[DocPath(d)] \in Doc
  BY DocOfSound
<1> DEFINE doc == [u \in Types |-> IF u = t THEN es ELSE Entries(fs, d, u)]
<1>2. /\ \A u \in Types : doc[u] = IF u = t THEN es ELSE fs[DocPath(d)][u]
      /\ DOMAIN doc = Types
  BY DEF Entries
<1>3. \A u \in Types : doc[u] \in EntriesFor(d, u)
  BY <1>1, <1>2, DocForIs
<1>4. doc \in Doc
  BY <1>3 DEF EntriesFor, Doc
<1>5. doc \in DocFor(d)
  BY <1>3, <1>4, DocForIs
<1>6. SetEntries(fs, d, t, es) = With(fs, DocPath(d), doc)
  BY DEF SetEntries
<1> HIDE DEF doc
<1>7. /\ Sound(With(fs, DocPath(d), doc))
      /\ DOMAIN With(fs, DocPath(d), doc) = DOMAIN fs \cup {DocPath(d)}
      /\ With(fs, DocPath(d), doc)[DocPath(d)] = doc
      /\ \A p \in DOMAIN fs : p # DocPath(d) => With(fs, DocPath(d), doc)[p] = fs[p]
  BY <1>1, <1>5, DocWritten
<1>8. EntriesSet(fs, With(fs, DocPath(d), doc), d, t, es)
  BY <1>1, <1>2, <1>4, <1>7 DEF EntriesSet
<1> QED
  BY <1>6, <1>7, <1>8

\* One entry replaced.
Replaced(es, i, e) == [k \in DOMAIN es |-> IF k = i THEN e ELSE es[k]]

\* An entry may take the place of another when it keeps a module's directory and
\* names a leaf where one belongs.
LEMMA EntryWritten ==
    ASSUME NEW fs, Sound(fs), NEW pl \in Places(fs), NEW e \in NodeEntry,
           pl[2] = "module" => e.name \in Dirs,
           pl[2] \in ContentTypes => e.slug \in Range(Slug)
    PROVE  /\ Sound(SetEntry(fs, pl, e))
           /\ EntriesSet(fs, SetEntry(fs, pl, e), pl[1], pl[2],
                         Replaced(Entries(fs, pl[1], pl[2]), pl[3], e))
<1> DEFINE es == Entries(fs, pl[1], pl[2])
           new == Replaced(es, pl[3], e)
<1>1. /\ pl[1] \in Docs(fs) /\ pl[2] \in Types /\ pl[2] \in TypesOf(pl[1])
      /\ es \in EntriesFor(pl[1], pl[2]) /\ es \in Seq(NodeEntry) /\ pl[3] \in DOMAIN es
  BY PlaceParts
<1> HIDE DEF es
<1>2. new \in Seq(NodeEntry)
  BY <1>1 DEF Replaced
<1>3. \A i \in DOMAIN new : i \in DOMAIN es /\ (new[i] = e \/ new[i] = es[i])
  BY DEF Replaced
<1>4. new \in EntriesFor(pl[1], pl[2])
  <2> HIDE DEF new
  <2> QED
    BY <1>1, <1>2, <1>3 DEF EntriesFor
<1>5. SetEntry(fs, pl, e) = SetEntries(fs, pl[1], pl[2], new)
  BY DEF SetEntry, Replaced, es
<1> HIDE DEF new
<1>6. /\ Sound(SetEntries(fs, pl[1], pl[2], new))
      /\ EntriesSet(fs, SetEntries(fs, pl[1], pl[2], new), pl[1], pl[2], new)
  BY <1>1, <1>4, EntriesWritten
<1> QED
  BY <1>5, <1>6 DEF new, es

-----------------------------------------------------------------------------
(* Ids and leaves that stay the nodes' own. *)

OwnDoc(d, doc) == OwnIDs(doc) /\ OwnLeaves(d, doc)

\* The ids and slugs of new are those of entries of old, each of an entry of
\* its own.
Within(old, new) ==
    \A i, k \in DOMAIN new : \E a, b \in DOMAIN old :
        /\ new[i].id = old[a].id /\ new[i].slug = old[a].slug
        /\ new[k].id = old[b].id /\ new[k].slug = old[b].slug
        /\ i # k => a # b

\* Nothing new cannot clash.
LEMMA WithinIsOwn ==
    ASSUME NEW d, NEW old, NEW new, OwnDoc(d, old), \A t \in Types : Within(old[t], new[t])
    PROVE  OwnDoc(d, new)
<1>1. ASSUME NEW t \in Types, NEW i \in DOMAIN new[t], NEW k \in DOMAIN new[t],
             new[t][i].id = new[t][k].id
      PROVE  i = k
  <2>1. PICK a \in DOMAIN old[t], b \in DOMAIN old[t] :
           /\ new[t][i].id = old[t][a].id /\ new[t][k].id = old[t][b].id
           /\ i # k => a # b
    BY DEF Within
  <2> QED
    BY <1>1, <2>1 DEF OwnDoc, OwnIDs
<1>2. ASSUME NEW t \in ContentTypes, NEW u \in ContentTypes,
             NEW i \in DOMAIN new[t], NEW k \in DOMAIN new[u],
             LeafPath(d, t, new[t][i].slug) = LeafPath(d, u, new[u][k].slug)
      PROVE  t = u /\ i = k
  <2>1. t \in Types /\ u \in Types
    BY TypesApart
  <2>2. PICK a \in DOMAIN old[t] : new[t][i].slug = old[t][a].slug
    BY <2>1 DEF Within
  <2>3. PICK b \in DOMAIN old[u] : new[u][k].slug = old[u][b].slug
    BY <2>1 DEF Within
  <2>4. t = u
    BY <1>2, <2>2, <2>3 DEF OwnDoc, OwnLeaves
  <2>5. PICK m \in DOMAIN old[t], n \in DOMAIN old[t] :
           /\ new[t][i].slug = old[t][m].slug /\ new[t][k].slug = old[t][n].slug
           /\ i # k => m # n
    BY <2>1, <2>4 DEF Within
  <2> QED
    BY <1>2, <2>4, <2>5 DEF OwnDoc, OwnLeaves
<1>3. OwnIDs(new)
  BY <1>1 DEF OwnIDs
<1>4. OwnLeaves(d, new)
  BY <1>2 DEF OwnLeaves
<1> QED
  BY <1>3, <1>4 DEF OwnDoc

\* A tree is distinct document by document.
LEMMA DistinctByDoc ==
    ASSUME NEW fs
    PROVE  NodesDistinct(fs) <=>
             \A d \in AllDirs : DocPath(d) \in DOMAIN fs => OwnDoc(d, fs[DocPath(d)])
BY DEF NodesDistinct, OwnDoc, AllDirs

\* A tree with the same documents has the same nodes.
LEMMA DistinctByDocs ==
    ASSUME NEW fs, NEW after, NodesDistinct(fs), SameDocs(fs, after)
    PROVE  NodesDistinct(after)
BY DEF NodesDistinct, SameDocs, AllDirs

\* Only the changed document is in question.
LEMMA DistinctAfterSet ==
    ASSUME NEW fs, NEW after, NEW d \in AllDirs, NEW t, NEW es,
           NodesDistinct(fs), EntriesSet(fs, after, d, t, es),
           OwnDoc(d, after[DocPath(d)])
    PROVE  NodesDistinct(after)
<1>1. ASSUME NEW e \in AllDirs, DocPath(e) \in DOMAIN after
      PROVE  OwnDoc(e, after[DocPath(e)])
  <2>1. CASE e = d
    BY <2>1
  <2>2. CASE e # d
    <3>1. DocPath(e) # DocPath(d)
      BY <2>2, PathsApart
    <3>2. DocPath(e) \in DOMAIN fs /\ after[DocPath(e)] = fs[DocPath(e)]
      BY <1>1, <3>1 DEF EntriesSet
    <3> QED
      BY <3>2, DistinctByDoc
  <2> QED
    BY <2>1, <2>2
<1> QED
  BY <1>1, DistinctByDoc

\* ... and nothing new cannot clash there.
LEMMA DistinctWithin ==
    ASSUME NEW fs, Sound(fs), NodesDistinct(fs), NEW d \in Docs(fs), NEW t \in Types, NEW after,
           NEW es, EntriesSet(fs, after, d, t, es), Within(Entries(fs, d, t), es)
    PROVE  NodesDistinct(after)
<1>1. d \in AllDirs /\ DocPath(d) \in DOMAIN fs /\ fs[DocPath(d)] \in Doc
  BY DocOfSound
<1> DEFINE old == fs[DocPath(d)]
           new == after[DocPath(d)]
<1>2. OwnDoc(d, old)
  BY <1>1, DistinctByDoc
<1>3. ASSUME NEW u \in Types PROVE Within(old[u], new[u])
  <2>1. CASE u = t
    BY <2>1 DEF EntriesSet, Entries
  <2>2. CASE u # t
    <3>1. new[u] = old[u]
      BY <2>2 DEF EntriesSet
    <3> HIDE DEF old, new
    <3> QED
      BY <3>1 DEF Within
  <2> QED
    BY <2>1, <2>2
<1> HIDE DEF old, new
<1>4. OwnDoc(d, new)
  BY <1>2, <1>3, WithinIsOwn
<1> QED
  BY <1>1, <1>4, DistinctAfterSet DEF new

\* An entry that keeps its id and its slug.
LEMMA ReplacedWithin ==
    ASSUME NEW es, NEW i \in DOMAIN es, NEW e, e.id = es[i].id, e.slug = es[i].slug
    PROVE  Within(es, Replaced(es, i, e))
<1> DEFINE new == Replaced(es, i, e)
<1>1. DOMAIN new = DOMAIN es
  BY DEF Replaced
<1>2. \A k \in DOMAIN es : new[k].id = es[k].id /\ new[k].slug = es[k].slug
  BY DEF Replaced
<1> HIDE DEF new
<1>3. Within(es, new)
  BY <1>1, <1>2 DEF Within
<1> QED
  BY <1>3 DEF new

\* Entries left out.
LEMMA KeptWithin ==
    ASSUME NEW es \in Seq(NodeEntry), NEW K
    PROVE  Kept(es, K) \in Seq(NodeEntry) /\ Within(es, Kept(es, K))
<1>1. Kept(es, K) \in Seq(NodeEntry) /\ PickedFrom(Kept(es, K), es, Len(es))
  BY KeptElements
<1>2. DOMAIN es = 1 .. Len(es)
  OBVIOUS
<1> DEFINE new == Kept(es, K)
<1> HIDE DEF new
<1>3. ASSUME NEW i \in DOMAIN new, NEW k \in DOMAIN new
      PROVE  \E a, b \in DOMAIN es :
                /\ new[i].id = es[a].id /\ new[i].slug = es[a].slug
                /\ new[k].id = es[b].id /\ new[k].slug = es[b].slug
                /\ i # k => a # b
  <2>1. PICK a \in 1 .. Len(es), b \in 1 .. Len(es) :
           new[i] = es[a] /\ new[k] = es[b] /\ (i # k => a # b)
    BY <1>1 DEF PickedFrom, new
  <2> QED
    BY <1>2, <2>1
<1>4. Within(es, new)
  BY <1>3 DEF Within
<1> QED
  BY <1>1, <1>4 DEF new

-----------------------------------------------------------------------------
(* What each command makes of a tree. *)

\* No leaf is touched.
LeavesStay(fs, after) ==
    DOMAIN after = DOMAIN fs /\ \A p \in DOMAIN fs \cap LeafPaths : after[p] = fs[p]

\* A set document leaves the leaves alone.
LEMMA SetLeavesStay ==
    ASSUME NEW fs, NEW after, NEW d \in AllDirs, NEW t, NEW es, EntriesSet(fs, after, d, t, es)
    PROVE  LeavesStay(fs, after)
BY PathsApart DEF EntriesSet, LeavesStay

\* An entry changed in its value or its references only.
LEMMA EntryEdited ==
    ASSUME NEW fs, Sound(fs), NEW x \in Nodes(fs), NEW e \in NodeEntry,
           e.id = x, e.name = At(fs, Found(fs, x)).name, e.slug = At(fs, Found(fs, x)).slug
    PROVE  /\ Sound(SetEntry(fs, Found(fs, x), e))
           /\ LeavesStay(fs, SetEntry(fs, Found(fs, x), e))
           /\ NodesDistinct(fs) => NodesDistinct(SetEntry(fs, Found(fs, x), e))
<1> DEFINE pl == Found(fs, x)
           es == Entries(fs, pl[1], pl[2])
           after == SetEntry(fs, pl, e)
<1>1. pl \in Places(fs) /\ At(fs, pl).id = x
  BY NodeFound
<1> HIDE DEF pl
<1>2. /\ pl[1] \in Docs(fs) /\ pl[1] \in AllDirs /\ pl[2] \in Types
      /\ es \in EntriesFor(pl[1], pl[2]) /\ pl[3] \in DOMAIN es /\ At(fs, pl) = es[pl[3]]
  BY <1>1, PlaceParts
<1>3. e.id = es[pl[3]].id /\ e.name = es[pl[3]].name /\ e.slug = es[pl[3]].slug
  BY <1>1, <1>2 DEF pl
<1>4. /\ pl[2] = "module" => e.name \in Dirs
      /\ pl[2] \in ContentTypes => e.slug \in Range(Slug)
  <2> HIDE DEF es
  <2> QED
    BY <1>2, <1>3 DEF EntriesFor
<1>5. Sound(after) /\ EntriesSet(fs, after, pl[1], pl[2], Replaced(es, pl[3], e))
  BY <1>1, <1>4, EntryWritten
<1>6. LeavesStay(fs, after)
  BY <1>2, <1>5, SetLeavesStay
<1>7. Within(es, Replaced(es, pl[3], e))
  BY <1>2, <1>3, ReplacedWithin
<1>8. NodesDistinct(fs) => NodesDistinct(after)
  BY <1>2, <1>5, <1>7, DistinctWithin
<1> QED
  BY <1>5, <1>6, <1>8 DEF pl

\* The fields of the types are fields.
LEMMA FieldOfType ==
    ASSUME NEW t \in Types, NEW f \in Refs[t]
    PROVE  f \in Fields
BY DEF Fields

\* spex node set.
LEMMA SetEdits ==
    ASSUME NEW fs, Sound(fs), NEW x \in Nodes(fs), NEW val \in Vals \cup {None}
    PROVE  /\ Sound(SetTree(fs, x, val)) /\ LeavesStay(fs, SetTree(fs, x, val))
           /\ NodesDistinct(fs) => NodesDistinct(SetTree(fs, x, val))
<1> DEFINE old == At(fs, Found(fs, x))
           e == [old EXCEPT !.val = val]
<1>1. old \in NodeEntry /\ old.id = x
  BY NodeFound, PlaceParts
<1> HIDE DEF old
<1>2. e \in NodeEntry /\ e.id = x /\ e.name = old.name /\ e.slug = old.slug
  BY <1>1 DEF NodeEntry
<1>3. SetTree(fs, x, val) = SetEntry(fs, Found(fs, x), e)
  BY DEF SetTree, old
<1> HIDE DEF e
<1> QED
  BY <1>2, <1>3, EntryEdited DEF old

\* References set.
LEMMA RefsEdits ==
    ASSUME NEW fs, Sound(fs), NEW x \in Nodes(fs), NEW f \in Refs[Found(fs, x)[2]],
           NEW refs \in Seq(IDs)
    PROVE  /\ Sound(SetEntry(fs, Found(fs, x), [At(fs, Found(fs, x)) EXCEPT !.refs[f] = refs]))
           /\ LeavesStay(fs, SetEntry(fs, Found(fs, x),
                                      [At(fs, Found(fs, x)) EXCEPT !.refs[f] = refs]))
           /\ NodesDistinct(fs) =>
                NodesDistinct(SetEntry(fs, Found(fs, x),
                                       [At(fs, Found(fs, x)) EXCEPT !.refs[f] = refs]))
<1> DEFINE old == At(fs, Found(fs, x))
           e == [old EXCEPT !.refs[f] = refs]
<1>1. old \in NodeEntry /\ old.id = x /\ f \in Fields
  BY NodeFound, PlaceParts, FieldOfType
<1> HIDE DEF old
<1>2. e \in NodeEntry /\ e.id = x /\ e.name = old.name /\ e.slug = old.slug
  BY <1>1 DEF NodeEntry
<1>3. e = [At(fs, Found(fs, x)) EXCEPT !.refs[f] = refs]
  BY DEF old
<1>4. e.name = At(fs, Found(fs, x)).name /\ e.slug = At(fs, Found(fs, x)).slug
  BY <1>2 DEF old
<1> HIDE DEF e
<1>5. /\ Sound(SetEntry(fs, Found(fs, x), e)) /\ LeavesStay(fs, SetEntry(fs, Found(fs, x), e))
      /\ NodesDistinct(fs) => NodesDistinct(SetEntry(fs, Found(fs, x), e))
  BY <1>2, <1>4, EntryEdited
<1> QED
  BY <1>3, <1>5, Zenon

\* The references of a node are a sequence of ids.
LEMMA RefsTyped ==
    ASSUME NEW fs, Sound(fs), NEW x \in Nodes(fs), NEW f \in Refs[Found(fs, x)[2]]
    PROVE  At(fs, Found(fs, x)).refs[f] \in Seq(IDs)
<1>1. At(fs, Found(fs, x)) \in NodeEntry /\ f \in Fields
  BY NodeFound, PlaceParts, FieldOfType
<1> QED
  BY <1>1 DEF NodeEntry

\* spex edge add.
LEMMA AddEdgeEdits ==
    ASSUME NEW fs, Sound(fs), NEW x \in Nodes(fs), NEW f \in Refs[Found(fs, x)[2]],
           NEW y \in Nodes(fs)
    PROVE  /\ Sound(AddEdgeTree(fs, x, f, y)) /\ LeavesStay(fs, AddEdgeTree(fs, x, f, y))
           /\ NodesDistinct(fs) => NodesDistinct(AddEdgeTree(fs, x, f, y))
<1> DEFINE old == At(fs, Found(fs, x)).refs[f]
           refs == IF y \in Range(old) THEN old
                   ELSE IF f \in ToOne THEN <<y>> ELSE Append(old, y)
<1>1. old \in Seq(IDs) /\ y \in IDs
  BY RefsTyped, NodeIsID
<1> HIDE DEF old
<1>2. refs \in Seq(IDs)
  BY <1>1
<1>3. AddEdgeTree(fs, x, f, y) =
         SetEntry(fs, Found(fs, x), [At(fs, Found(fs, x)) EXCEPT !.refs[f] = refs])
  BY DEF AddEdgeTree, old
<1> HIDE DEF refs
<1> QED
  BY <1>2, <1>3, RefsEdits

\* spex edge remove.
LEMMA RemoveEdgeEdits ==
    ASSUME NEW fs, Sound(fs), NEW x \in Nodes(fs), NEW f \in Refs[Found(fs, x)[2]], NEW y
    PROVE  /\ Sound(RemoveEdgeTree(fs, x, f, y)) /\ LeavesStay(fs, RemoveEdgeTree(fs, x, f, y))
           /\ NodesDistinct(fs) => NodesDistinct(RemoveEdgeTree(fs, x, f, y))
<1> DEFINE old == At(fs, Found(fs, x)).refs[f]
           refs == Kept(old, {i \in DOMAIN old : old[i] # y})
<1>1. old \in Seq(IDs)
  BY RefsTyped
<1>2. refs \in Seq(IDs)
  <2> HIDE DEF old
  <2> QED
    BY <1>1, KeptElements
<1>3. RemoveEdgeTree(fs, x, f, y) =
         SetEntry(fs, Found(fs, x), [At(fs, Found(fs, x)) EXCEPT !.refs[f] = refs])
  BY DEF RemoveEdgeTree
<1> HIDE DEF refs
<1> QED
  BY <1>2, <1>3, RefsEdits

\* The leaves a removal takes along.
LEMMA RemovedLeaves ==
    ASSUME NEW fs, Sound(fs), NEW x \in Nodes(fs)
    PROVE  /\ LeafPathsOf(fs, x) \subseteq LeafPaths
           /\ Buildable(fs) => LeafPathsOf(fs, x) \subseteq DOMAIN fs
<1>1. \A p \in LeafPathsOf(fs, x) : \E pl \in WithLeaf(fs) : p = LeafOf(fs, pl)
  BY DEF LeafPathsOf
<1>2. \A pl \in WithLeaf(fs) : LeafOf(fs, pl) \in LeafPaths
  BY LeafParts
<1>3. Buildable(fs) => \A pl \in WithLeaf(fs) : LeafOf(fs, pl) \in DOMAIN fs
  BY DEF Buildable, MissingLeaves
<1> QED
  BY <1>1, <1>2, <1>3

\* spex node remove.
LEMMA RemoveEdits ==
    ASSUME NEW fs, Sound(fs), NEW x \in Nodes(fs)
    PROVE  /\ Sound(RemoveTree(fs, x))
           /\ DOMAIN RemoveTree(fs, x) = DOMAIN fs \ LeafPathsOf(fs, x)
           /\ \A p \in DOMAIN RemoveTree(fs, x) \cap LeafPaths : RemoveTree(fs, x)[p] = fs[p]
           /\ NodesDistinct(fs) => NodesDistinct(RemoveTree(fs, x))
<1> DEFINE pl == Found(fs, x)
           es == Entries(fs, pl[1], pl[2])
           others == Kept(es, {i \in DOMAIN es : es[i].id # x})
           mid == SetEntries(fs, pl[1], pl[2], others)
           after == Without(mid, LeafPathsOf(fs, x))
<1>1. pl \in Places(fs)
  BY NodeFound
<1>2. RemoveTree(fs, x) = after
  BY DEF RemoveTree
<1> HIDE DEF pl
<1>3. /\ pl[1] \in Docs(fs) /\ pl[1] \in AllDirs /\ pl[2] \in Types /\ pl[2] \in TypesOf(pl[1])
      /\ es \in EntriesFor(pl[1], pl[2]) /\ es \in Seq(NodeEntry)
  BY <1>1, PlaceParts
<1> HIDE DEF es
<1>4. others \in Seq(NodeEntry) /\ Within(es, others)
  BY <1>3, KeptWithin
<1>5. PickedFrom(others, es, Len(es)) /\ DOMAIN es = 1 .. Len(es)
  BY <1>3, KeptElements
<1> HIDE DEF others
<1>6. \A i \in DOMAIN others : \E a \in DOMAIN es : others[i] = es[a]
  BY <1>5 DEF PickedFrom
<1>7. others \in EntriesFor(pl[1], pl[2])
  BY <1>3, <1>4, <1>6 DEF EntriesFor
<1>8. Sound(mid) /\ EntriesSet(fs, mid, pl[1], pl[2], others)
  BY <1>3, <1>7, EntriesWritten
<1>9. NodesDistinct(fs) => NodesDistinct(mid)
  BY <1>3, <1>4, <1>8, DistinctWithin DEF es
<1>10. LeavesStay(fs, mid)
  BY <1>3, <1>8, SetLeavesStay
<1>11. LeafPathsOf(fs, x) \in SUBSET LeafPaths
  BY RemovedLeaves
<1> HIDE DEF mid
<1>12. /\ Sound(after) /\ SameDocs(mid, after) /\ DOMAIN after = DOMAIN mid \ LeafPathsOf(fs, x)
       /\ \A p \in DOMAIN mid \ LeafPathsOf(fs, x) : after[p] = mid[p]
  BY <1>8, <1>11, LeavesRemoved
<1> HIDE DEF after
<1>13. NodesDistinct(fs) => NodesDistinct(after)
  BY <1>9, <1>12, DistinctByDocs
<1>14. /\ DOMAIN after = DOMAIN fs \ LeafPathsOf(fs, x)
       /\ \A p \in DOMAIN after \cap LeafPaths : after[p] = fs[p]
  BY <1>10, <1>12 DEF LeavesStay
<1> QED
  BY <1>2, <1>12, <1>13, <1>14

-----------------------------------------------------------------------------
(* The gate: a duplicate id is a finding, so a copy that is not refused has *)
(* none.                                                                    *)

\* Every check marks its findings.
LEMMA FindingsMarked ==
    ASSUME NEW fs
    PROVE  /\ \A x \in CheckSchema(fs) : x[1] = "schema"
           /\ \A x \in SharedNames(fs) : x[1] = "global"
           /\ \A x \in BadNames(fs) : x[1] = "name"
           /\ \A x \in Dangling(fs) : x[1] = "dangling"
           /\ \A x \in Missing(fs) : x[1] \in {"missing", "priority"}
           /\ \A x \in CheckIDDerivation(fs) : x[1] = "derivation"
           /\ \A x \in CheckDAG(fs) : x[1] = "cycle"
           /\ \A x \in CheckLinks(fs) : x[1] \in {"tree", "link"}
<1>1. \A x \in CheckSchema(fs) : x[1] = "schema"
  <2> DEFINE absent == UNION {{<<"schema", pl, f>> :
                                 f \in {g \in Refs[pl[2]] \cap ToOne : At(fs, pl).refs[g] = <<>>}} :
                                pl \in Places(fs)}
             bad == {<<"schema", pl, At(fs, pl).val>> :
                       pl \in {p \in Places(fs) : BadValue(p[2], At(fs, p).val)}}
  <2>1. CheckSchema(fs) = absent \cup bad
    BY DEF CheckSchema
  <2>2. \A x \in absent : x[1] = "schema"
    OBVIOUS
  <2>3. \A x \in bad : x[1] = "schema"
    OBVIOUS
  <2> HIDE DEF absent, bad
  <2> QED
    BY <2>1, <2>2, <2>3
<1>2. \A x \in SharedNames(fs) : x[1] = "global"
  <2> DEFINE named(d, t, n) == {i \in DOMAIN Entries(fs, d, t) : Entries(fs, d, t)[i].name = n}
             where(t, n) == [d \in {e \in Docs(fs) : named(e, t, n) # {}} |-> Cardinality(named(d, t, n))]
             shared == {p \in Places(fs) : p[2] \in GlobalNames /\ \E q \in Places(fs) \ {p} :
                          q[2] = p[2] /\ At(fs, q).name = At(fs, p).name}
  <2>1. SharedNames(fs) = {<<"global", pl[2], At(fs, pl).name, where(pl[2], At(fs, pl).name)>> : pl \in shared}
    BY DEF SharedNames
  <2> HIDE DEF where, shared
  <2> QED
    BY <2>1
<1>3. \A x \in BadNames(fs) : x[1] = "name"
  BY DEF BadNames
<1>4. \A x \in Dangling(fs) : x[1] = "dangling"
  BY DEF Dangling
<1>5. \A x \in Missing(fs) : x[1] \in {"missing", "priority"}
  <2> DEFINE absent == UNION {{<<"missing", pl[1], pl[2], At(fs, pl).id, f>> :
                                 f \in {g \in Refs[pl[2]] \cap ToOne : At(fs, pl).refs[g] = <<>>}} :
                                pl \in Places(fs)}
             bad == {<<"priority", At(fs, pl).id, At(fs, pl).val>> :
                       pl \in {p \in Places(fs) : /\ p[2] \in ProjectTypes \cap ValTypes
                                                  /\ BadValue(p[2], At(fs, p).val)}}
  <2>1. Missing(fs) = absent \cup bad
    BY DEF Missing
  <2>2. \A x \in absent : x[1] = "missing"
    OBVIOUS
  <2>3. \A x \in bad : x[1] = "priority"
    OBVIOUS
  <2> HIDE DEF absent, bad
  <2> QED
    BY <2>1, <2>2, <2>3
<1>6. \A x \in CheckIDDerivation(fs) : x[1] = "derivation"
  BY DEF CheckIDDerivation
<1>7. \A x \in CheckDAG(fs) : x[1] = "cycle"
  BY DEF CheckDAG
<1>8. \A x \in CheckLinks(fs) : x[1] \in {"tree", "link"}
  BY DEF CheckLinks
<1> QED
  BY <1>1, <1>2, <1>3, <1>4, <1>5, <1>6, <1>7, <1>8

\* A duplicate is a finding of the readable tree that has it, and of no other.
LEMMA DuplicateIsFinding ==
    ASSUME NEW fs, Unreadable(fs) = {}, NEW x, x[1] = "duplicate"
    PROVE  x \in Findings(fs) <=> x \in Duplicates(fs)
<1>1. x \in Findings(fs) => x \in CheckIDs(fs)
  BY FindingsMarked DEF Findings
<1>2. x \in CheckIDs(fs) => x \in Duplicates(fs)
  BY FindingsMarked DEF CheckIDs
<1>3. x \in Duplicates(fs) => x \in CheckIDs(fs)
  BY DEF CheckIDs
<1>4. x \in CheckIDs(fs) => x \in Findings(fs)
  BY DEF Findings
<1> QED
  BY <1>1, <1>2, <1>3, <1>4

\* What a duplicate says.
LEMMA DuplicateIs ==
    ASSUME NEW fs, NEW d \in Docs(fs), NEW t \in TypesOf(d), NEW i, NEW k,
           i \in DOMAIN Entries(fs, d, t), k \in DOMAIN Entries(fs, d, t), i # k,
           Entries(fs, d, t)[i].id = Entries(fs, d, t)[k].id
    PROVE  <<"duplicate", d, t, Entries(fs, d, t)[i].id>> \in Duplicates(fs)
<1> DEFINE Of(e, u) == LET es == Entries(fs, e, u) IN
                       {<<"duplicate", e, u, es[m].id>> :
                          m \in {n \in DOMAIN es : \E o \in DOMAIN es : o # n /\ es[o].id = es[n].id}}
<1>1. <<"duplicate", d, t, Entries(fs, d, t)[i].id>> \in Of(d, t)
  OBVIOUS
<1>2. Duplicates(fs) = UNION {UNION {Of(e, u) : u \in TypesOf(e)} : e \in Docs(fs)}
  BY DEF Duplicates
<1> HIDE DEF Of
<1> QED
  BY <1>1, <1>2

\* ... and that some document holds an id twice.
LEMMA NoDuplicate ==
    ASSUME NEW fs, Sound(fs), NodesDistinct(fs)
    PROVE  Duplicates(fs) = {}
<1> SUFFICES ASSUME NEW x \in Duplicates(fs) PROVE FALSE
  OBVIOUS
<1>1. PICK d \in Docs(fs) : \E t \in TypesOf(d) :
         \E i, k \in DOMAIN Entries(fs, d, t) :
            k # i /\ Entries(fs, d, t)[k].id = Entries(fs, d, t)[i].id
  BY DEF Duplicates
<1>2. OwnIDs(fs[DocPath(d)])
  BY DocOfSound, DistinctByDoc DEF OwnDoc
<1>3. TypesOf(d) \subseteq Types
  BY TypesApart
<1> QED
  BY <1>1, <1>2, <1>3 DEF OwnIDs, Entries

\* A copy that is not refused has every id once in each document.
LEMMA GateKeepsIDs ==
    ASSUME NEW fs, NEW after, Sound(fs), Sound(after), NodesDistinct(fs),
           ~Refused(fs, after), Buildable(fs), Buildable(after), NEW d \in Docs(after)
    PROVE  OwnIDs(after[DocPath(d)])
<1> SUFFICES ASSUME NEW t \in Types,
                    NEW i \in DOMAIN after[DocPath(d)][t], NEW k \in DOMAIN after[DocPath(d)][t],
                    after[DocPath(d)][t][i].id = after[DocPath(d)][t][k].id, i # k
             PROVE  FALSE
  BY DEF OwnIDs
<1> DEFINE x == <<"duplicate", d, t, Entries(after, d, t)[i].id>>
<1>1. <<d, t, i>> \in Places(after)
  BY PlaceIs DEF Entries
<1>2. t \in TypesOf(d)
  BY <1>1, PlaceParts
<1>3. x \in Duplicates(after)
  BY <1>2, DuplicateIs DEF Entries
<1>4. x[1] = "duplicate"
  OBVIOUS
<1> HIDE DEF x
<1>5. x \in Findings(after)
  BY <1>3, <1>4, DuplicateIsFinding DEF Buildable
<1>6. x \in Findings(fs)
  BY <1>5 DEF Refused, Introduced
<1>7. x \in Duplicates(fs)
  BY <1>4, <1>6, DuplicateIsFinding DEF Buildable
<1> QED
  BY <1>7, NoDuplicate

-----------------------------------------------------------------------------
(* The commands that make a node or a leaf of their own. *)

\* The documents that were there are there still.
LEMMA DocsStay ==
    ASSUME NEW fs, Sound(fs), NEW after,
           \A d \in AllDirs : DocPath(d) \in DOMAIN fs => DocPath(d) \in DOMAIN after,
           \A i \in DOMAIN fs[ProjectPath]["module"] :
              /\ i \in DOMAIN after[ProjectPath]["module"]
              /\ after[ProjectPath]["module"][i].name = fs[ProjectPath]["module"][i].name
    PROVE  Docs(fs) \subseteq Docs(after)
<1> SUFFICES ASSUME NEW d \in Docs(fs), d # ProjectDir PROVE d \in Docs(after)
  BY DEF Docs
<1>1. d \in AllDirs /\ DocPath(d) \in DOMAIN fs
  BY DocOfSound
<1>2. d \in Modules(fs)
  BY DEF Docs
<1>3. PICK i \in DOMAIN fs[ProjectPath]["module"] : d = fs[ProjectPath]["module"][i].name
  BY <1>2 DEF Modules, ModuleSeq, Range
<1>4. d \in Modules(after)
  <2>1. i \in DOMAIN ModuleSeq(after) /\ ModuleSeq(after)[i] = d
    BY <1>3 DEF ModuleSeq
  <2> QED
    BY <2>1 DEF Modules, Range
<1> QED
  BY <1>1, <1>4 DEF Docs, Unreadable

\* Only the node at <<t, i>> has a leaf that is not among the files L.
OnlyLeaf(d, old, new, L, t, i) ==
    /\ \A u \in ContentTypes : \A k \in DOMAIN new[u] :
          \/ u = t /\ k = i
          \/ /\ k \in DOMAIN old[u] /\ new[u][k].slug = old[u][k].slug
             /\ LeafPath(d, u, old[u][k].slug) \in L
    /\ LeafPath(d, t, new[t][i].slug) \notin L

\* One leaf that none of the others has.
LEMMA OneNewLeaf ==
    ASSUME NEW d, NEW old, NEW new, NEW L, NEW t \in ContentTypes, NEW i,
           OwnLeaves(d, old), OnlyLeaf(d, old, new, L, t, i)
    PROVE  OwnLeaves(d, new)
<1> SUFFICES ASSUME NEW u \in ContentTypes, NEW v \in ContentTypes,
                    NEW k \in DOMAIN new[u], NEW m \in DOMAIN new[v],
                    LeafPath(d, u, new[u][k].slug) = LeafPath(d, v, new[v][m].slug)
             PROVE  u = v /\ k = m
  BY DEF OwnLeaves
<1> DEFINE first == u = t /\ k = i
           second == v = t /\ m = i
<1>1. first \/ (/\ k \in DOMAIN old[u] /\ new[u][k].slug = old[u][k].slug
                /\ LeafPath(d, u, old[u][k].slug) \in L)
  BY DEF OnlyLeaf
<1>2. second \/ (/\ m \in DOMAIN old[v] /\ new[v][m].slug = old[v][m].slug
                 /\ LeafPath(d, v, old[v][m].slug) \in L)
  BY DEF OnlyLeaf
<1>3. CASE first /\ second
  BY <1>3
<1>4. CASE first /\ ~second
  BY <1>2, <1>4 DEF OnlyLeaf
<1>5. CASE ~first /\ second
  BY <1>1, <1>5 DEF OnlyLeaf
<1>6. CASE ~first /\ ~second
  BY <1>1, <1>2, <1>6 DEF OwnLeaves
<1> QED
  BY <1>3, <1>4, <1>5, <1>6

\* Every declared leaf of a buildable tree is there.
LEMMA LeavesThere ==
    ASSUME NEW fs, Buildable(fs), NEW d \in Docs(fs), NEW t \in ContentTypes,
           NEW i \in DOMAIN Entries(fs, d, t)
    PROVE  LeafPath(d, t, Entries(fs, d, t)[i].slug) \in DOMAIN fs
<1>1. <<d, t, i>> \in Places(fs)
  BY PlaceIs, TypesApart
<1>2. <<d, t, i>> \in WithLeaf(fs)
  BY <1>1 DEF WithLeaf
<1> QED
  BY <1>2 DEF Buildable, MissingLeaves, LeafOf, At

\* A new entry.
LEMMA NewEntryTyped ==
    ASSUME NEW d \in AllDirs, NEW t \in TypesOf(d), t # "module", NEW n \in Names,
           NEW val \in Vals \cup {None}, NEW refs \in [Fields -> Seq(IDs)]
    PROVE  /\ NewEntry(d, t, n, val, refs) \in NodeEntry
           /\ NewEntry(d, t, n, val, refs).id = ID(d, t, n)
           /\ NewEntry(d, t, n, val, refs).slug = Slug[n] /\ Slug[n] \in Range(Slug)
<1>1. ID(d, t, n) \in IDs
  BY DEF AllDirs, TypesOf, IDs
<1>2. Slug[n] \in Range(Slug)
  BY AuthorAssumption DEF Range
<1> QED
  BY <1>1, <1>2 DEF NewEntry, NodeEntry

\* A skeleton is a leaf.
LEMMA SkeletonTyped ==
    ASSUME NEW fs, Sound(fs), NEW t \in Types, NEW e \in NodeEntry
    PROVE  Skeleton(fs, t, e) \in Leaf
<1>1. \A f \in Refs[t] : Range(e.refs[f]) \subseteq IDs
  <2> TAKE f \in Refs[t]
  <2>1. e.refs[f] \in Seq(IDs)
    BY FieldOfType DEF NodeEntry
  <2> DEFINE s == e.refs[f]
  <2> HIDE DEF s
  <2>2. Range(s) \subseteq IDs
    BY <2>1 DEF Range, s
  <2> QED
    BY <2>2 DEF s
<1>2. \A pl \in Places(fs) : At(fs, pl).id \in IDs
  <2> TAKE pl \in Places(fs)
  <2>1. At(fs, pl) \in NodeEntry
    BY PlaceParts
  <2> QED
    BY <2>1 DEF NodeEntry
<1>3. OwedLinks(fs, t, e) \subseteq IDs
  <2> DEFINE own == UNION {Range(e.refs[f]) : f \in Refs[t]}
             in == {q \in Places(fs) : /\ q[2] \notin ContentTypes \cup {"module"}
                                       /\ \E f \in Refs[q[2]] : /\ Target[f] = t
                                                                /\ e.id \in Range(At(fs, q).refs[f])}
  <2>1. OwedLinks(fs, t, e) = own \cup {At(fs, pl).id : pl \in in}
    BY DEF OwedLinks
  <2>2. own \subseteq IDs
    BY <1>1
  <2>3. in \subseteq Places(fs)
    OBVIOUS
  <2> HIDE DEF own, in
  <2> QED
    BY <1>2, <2>1, <2>2, <2>3
<1> QED
  BY <1>3 DEF Skeleton, Leaf

\* The entry AddTree declares, and the tree that declares it.
AddedEntries(fs, d, t, n, val, refs) == Append(Entries(fs, d, t), NewEntry(d, t, n, val, refs))
Declared(fs, d, t, n, val, refs) == SetEntries(fs, d, t, AddedEntries(fs, d, t, n, val, refs))

\* A node's declaration.
LEMMA NodeDeclared ==
    ASSUME NEW fs, Sound(fs), NEW d \in Docs(fs), NEW t \in TypesOf(d), t # "module", NEW n \in Names,
           NEW val \in Vals \cup {None}, NEW refs \in [Fields -> Seq(IDs)]
    PROVE  /\ Sound(Declared(fs, d, t, n, val, refs))
           /\ EntriesSet(fs, Declared(fs, d, t, n, val, refs), d, t, AddedEntries(fs, d, t, n, val, refs))
<1> DEFINE es == Entries(fs, d, t)
           e == NewEntry(d, t, n, val, refs)
           new == Append(es, e)
<1>1. d \in AllDirs /\ t \in Types /\ es \in EntriesFor(d, t)
  BY DocOfSound, TypesApart, DocForIs DEF Entries
<1>2. e \in NodeEntry /\ e.slug = Slug[n] /\ Slug[n] \in Range(Slug)
  BY <1>1, NewEntryTyped
<1>3. es \in Seq(NodeEntry)
  BY <1>1 DEF EntriesFor
<1> HIDE DEF es, e
<1>4. new \in Seq(NodeEntry) /\ \A i \in DOMAIN new : (i \in DOMAIN es /\ new[i] = es[i]) \/ new[i] = e
  BY <1>2, <1>3
<1> HIDE DEF new
<1>5. new \in EntriesFor(d, t)
  BY <1>1, <1>2, <1>4 DEF EntriesFor
<1>6. Sound(SetEntries(fs, d, t, new)) /\ EntriesSet(fs, SetEntries(fs, d, t, new), d, t, new)
  BY <1>1, <1>5, EntriesWritten
<1> QED
  BY <1>6 DEF Declared, AddedEntries, new, es, e

\* spex node add.
LEMMA AddEdits ==
    ASSUME NEW fs, Sound(fs), NEW d \in Docs(fs), NEW t \in TypesOf(d), t # "module", NEW n \in Names,
           NEW val \in Vals \cup {None}, NEW refs \in [Fields -> Seq(IDs)]
    PROVE  LET after == AddTree(fs, d, t, n, val, refs)
               path == LeafPath(d, t, Slug[n])
           IN  /\ Sound(after)
               /\ SameDocs(Declared(fs, d, t, n, val, refs), after)
               /\ t \notin ContentTypes => LeavesStay(fs, after)
               /\ t \in ContentTypes =>
                     /\ path \in LeafPaths /\ DOMAIN after = DOMAIN fs \cup {path}
                     /\ \A p \in DOMAIN fs \cap LeafPaths : p # path => after[p] = fs[p]
<1> DEFINE e == NewEntry(d, t, n, val, refs)
           mid == Declared(fs, d, t, n, val, refs)
           after == AddTree(fs, d, t, n, val, refs)
           path == LeafPath(d, t, Slug[n])
           file == Skeleton(mid, t, e)
<1>1. Sound(mid) /\ EntriesSet(fs, mid, d, t, AddedEntries(fs, d, t, n, val, refs))
  BY NodeDeclared
<1>2. d \in AllDirs /\ t \in Types
  BY DocOfSound, TypesApart
<1>3. e \in NodeEntry /\ e.slug = Slug[n] /\ Slug[n] \in Range(Slug)
  BY <1>2, NewEntryTyped
<1>4. LeavesStay(fs, mid)
  BY <1>1, <1>2, SetLeavesStay
<1>5. after = IF t \in ContentTypes THEN With(mid, LeafPath(d, t, e.slug), file) ELSE mid
  BY DEF AddTree, Declared, AddedEntries
<1> HIDE DEF mid, after, e
<1>6. CASE t \notin ContentTypes
  <2>1. after = mid
    BY <1>5, <1>6
  <2>2. SameDocs(mid, after)
    BY <2>1 DEF SameDocs
  <2> QED
    BY <1>1, <1>4, <1>6, <2>1, <2>2 DEF mid, after
<1>7. CASE t \in ContentTypes
  <2>1. file \in Leaf
    BY <1>1, <1>2, <1>3, SkeletonTyped
  <2>2. path \in LeafPaths
    <3>1. d \in Dirs
      BY <1>2, <1>7, TypesApart DEF AllDirs
    <3> QED
      BY <1>3, <1>7, <3>1 DEF LeafPaths
  <2>3. after = With(mid, path, file)
    BY <1>3, <1>5, <1>7
  <2> HIDE DEF file, path
  <2>4. /\ Sound(With(mid, path, file)) /\ SameDocs(mid, With(mid, path, file))
        /\ DOMAIN With(mid, path, file) = DOMAIN mid \cup {path}
        /\ \A p \in DOMAIN mid : p # path => With(mid, path, file)[p] = mid[p]
    BY <1>1, <2>1, <2>2, LeafWritten
  <2>5. /\ DOMAIN after = DOMAIN fs \cup {path}
        /\ \A p \in DOMAIN fs \cap LeafPaths : p # path => after[p] = fs[p]
    BY <1>4, <2>3, <2>4 DEF LeavesStay
  <2> QED
    BY <1>7, <2>2, <2>3, <2>4, <2>5 DEF mid, after, path
<1> QED
  BY <1>6, <1>7

\* ... leaves what was unique unique, and no text is written over, when the
\* copy is not refused.
LEMMA AddIsDistinct ==
    ASSUME NEW fs, Sound(fs), NodesDistinct(fs), Buildable(fs),
           NEW d \in Docs(fs), NEW t \in TypesOf(d), t # "module", NEW n \in Names,
           NEW val \in Vals \cup {None}, NEW refs \in [Fields -> Seq(IDs)],
           ~AddRejects(fs, d, t, n),
           ~Refused(fs, AddTree(fs, d, t, n, val, refs)), Buildable(AddTree(fs, d, t, n, val, refs))
    PROVE  /\ NodesDistinct(AddTree(fs, d, t, n, val, refs))
           /\ t \in ContentTypes => LeafPath(d, t, Slug[n]) \notin DOMAIN fs
<1> DEFINE es == Entries(fs, d, t)
           e == NewEntry(d, t, n, val, refs)
           new == Append(es, e)
           mid == Declared(fs, d, t, n, val, refs)
           after == AddTree(fs, d, t, n, val, refs)
           path == LeafPath(d, t, Slug[n])
           doc == after[DocPath(d)]
<1>1. Sound(mid) /\ EntriesSet(fs, mid, d, t, new)
  BY NodeDeclared DEF AddedEntries
<1>2. Sound(after) /\ SameDocs(mid, after)
  BY AddEdits
<1>3. d \in AllDirs /\ t \in Types /\ fs[DocPath(d)] \in Doc /\ DocPath(d) \in DOMAIN fs
  BY DocOfSound, TypesApart
<1>4. e.id = ID(d, t, n) /\ e.slug = Slug[n] /\ e \in NodeEntry
  BY <1>3, NewEntryTyped
<1>5. es \in Seq(NodeEntry)
  BY <1>3 DEF Doc, Entries
<1> HIDE DEF es, e
<1> DEFINE last == Len(es) + 1
<1>6. /\ DOMAIN new = DOMAIN es \cup {last} /\ last \notin DOMAIN es
      /\ new[last] = e /\ \A i \in DOMAIN es : new[i] = es[i]
  BY <1>4, <1>5
<1> HIDE DEF last, new, mid, after, path
<1>7. doc = mid[DocPath(d)] /\ doc[t] = new /\ \A u \in Types : u # t => doc[u] = fs[DocPath(d)][u]
  BY <1>1, <1>2, <1>3 DEF SameDocs, EntriesSet
<1>8. d \in Docs(after)
  <2>1. \A c \in AllDirs : DocPath(c) \in DOMAIN fs => DocPath(c) \in DOMAIN after
    BY <1>1, <1>2 DEF SameDocs, EntriesSet
  <2>2. after[ProjectPath]["module"] = fs[ProjectPath]["module"]
    <3>1. ProjectDir \in AllDirs /\ ProjectPath \in DOMAIN fs /\ ProjectPath = DocPath(ProjectDir)
      BY PathsApart DEF AllDirs, Sound, IsTree
    <3>2. after[ProjectPath] = mid[ProjectPath]
      BY <1>1, <1>2, <3>1 DEF SameDocs, EntriesSet
    <3>3. mid[ProjectPath]["module"] = fs[ProjectPath]["module"]
      BY <1>1, <1>3, <3>1, PathsApart, TypesApart DEF EntriesSet
    <3> QED
      BY <3>2, <3>3
  <2>3. Docs(fs) \subseteq Docs(after)
    BY <2>1, <2>2, DocsStay
  <2> QED
    BY <2>3
<1>9. OwnIDs(doc)
  BY <1>2, <1>8, GateKeepsIDs DEF after
<1> HIDE DEF doc
<1>10. ASSUME t \in ContentTypes
       PROVE  path \notin DOMAIN fs
  <2> SUFFICES ASSUME path \in DOMAIN fs PROVE FALSE
    OBVIOUS
  <2>1. e.id \in {c.id : c \in Range(es)}
    BY <1>4, <1>10 DEF AddRejects, IDsOf, es, path
  <2>2. PICK k \in DOMAIN es : es[k].id = e.id
    BY <2>1 DEF Range
  <2>3. /\ k \in DOMAIN doc[t] /\ last \in DOMAIN doc[t] /\ k # last
        /\ doc[t][k].id = doc[t][last].id
    BY <1>6, <1>7, <2>2
  <2> QED
    BY <1>3, <1>9, <2>3 DEF OwnIDs
<1>11. OwnLeaves(d, fs[DocPath(d)])
  BY <1>3, DistinctByDoc DEF OwnDoc
<1>12. OwnLeaves(d, doc)
  <2>1. CASE t \notin ContentTypes
    <3>1. \A u \in ContentTypes : doc[u] = fs[DocPath(d)][u]
      BY <1>7, <2>1, TypesApart
    <3> QED
      BY <1>11, <3>1 DEF OwnLeaves
  <2>2. CASE t \in ContentTypes
    <3> DEFINE old == fs[DocPath(d)]
               L == DOMAIN fs
    <3>1. \A u \in ContentTypes : \A k \in DOMAIN old[u] : LeafPath(d, u, old[u][k].slug) \in L
      BY LeavesThere DEF Entries
    <3>2. es = old[t]
      BY DEF es, Entries
    <3>3. OwnLeaves(d, old)
      BY <1>11
    <3>4. LeafPath(d, t, doc[t][last].slug) \notin L
      BY <1>4, <1>6, <1>7, <1>10, <2>2 DEF path
    <3>5. \A u \in Types : u # t => doc[u] = old[u]
      BY <1>7
    <3> HIDE DEF old, L
    <3>6. \A u \in ContentTypes : \A k \in DOMAIN doc[u] :
             \/ u = t /\ k = last
             \/ /\ k \in DOMAIN old[u] /\ doc[u][k].slug = old[u][k].slug
                /\ LeafPath(d, u, old[u][k].slug) \in L
      <4> TAKE u \in ContentTypes
      <4> TAKE k \in DOMAIN doc[u]
      <4>1. CASE u = t
        BY <1>6, <1>7, <3>1, <3>2, <4>1
      <4>2. CASE u # t
        BY <3>1, <3>5, <4>2, TypesApart
      <4> QED
        BY <4>1, <4>2
    <3>7. OnlyLeaf(d, old, doc, L, t, last)
      BY <3>4, <3>6 DEF OnlyLeaf
    <3> QED
      BY <2>2, <3>3, <3>7, OneNewLeaf
  <2> QED
    BY <2>1, <2>2
<1>13. OwnDoc(d, mid[DocPath(d)])
  BY <1>7, <1>9, <1>12 DEF OwnDoc
<1>14. NodesDistinct(mid)
  BY <1>1, <1>3, <1>13, DistinctAfterSet
<1>15. NodesDistinct(after)
  BY <1>2, <1>14, DistinctByDocs
<1> QED
  BY <1>10, <1>15 DEF after, path

\* No references.
LEMMA NoRefsTyped == NoRefs \in [Fields -> Seq(IDs)]
BY DEF NoRefs

\* A document without entries.
LEMMA EmptyDocFine ==
    ASSUME NEW d
    PROVE  EmptyDoc \in DocFor(d) /\ OwnDoc(d, EmptyDoc)
<1>1. EmptyDoc \in Doc /\ \A t \in Types : EmptyDoc[t] = <<>>
  BY DEF EmptyDoc, Doc
<1>2. \A t \in Types : EmptyDoc[t] \in EntriesFor(d, t)
  <2>1. \A t : <<>> \in EntriesFor(d, t)
    BY DEF EntriesFor
  <2> QED
    BY <1>1, <2>1
<1>3. OwnDoc(d, EmptyDoc)
  BY <1>1, TypesApart DEF OwnDoc, OwnIDs, OwnLeaves
<1> QED
  BY <1>1, <1>2, <1>3, DocForIs

\* spex node add --type module.
LEMMA AddModuleEdits ==
    ASSUME NEW fs, Sound(fs), NEW d \in Dirs, DocPath(d) \notin DOMAIN fs
    PROVE  LET after == AddModuleTree(fs, d)
           IN  /\ Sound(after)
               /\ DOMAIN after = DOMAIN fs \cup {DocPath(d)}
               /\ \A p \in DOMAIN fs \cap LeafPaths : after[p] = fs[p]
               /\ NodesDistinct(fs) /\ ~Refused(fs, after) /\ Buildable(fs) /\ Buildable(after) =>
                    NodesDistinct(after)
<1> DEFINE es == Entries(fs, ProjectDir, "module")
           e == [id |-> ID(ProjectDir, "module", d), name |-> d, slug |-> 0,
                 val |-> None, refs |-> NoRefs]
           new == Append(es, e)
           mid == SetEntries(fs, ProjectDir, "module", new)
           after == AddModuleTree(fs, d)
<1>1. /\ ProjectDir \in Docs(fs) /\ ProjectDir \in AllDirs /\ "module" \in Types /\ d \in AllDirs
      /\ "module" \in TypesOf(ProjectDir) /\ "module" \notin ContentTypes
  BY TypesApart DEF Docs, AllDirs
<1>2. es \in EntriesFor(ProjectDir, "module") /\ es \in Seq(NodeEntry)
  <2>1. fs[DocPath(ProjectDir)] \in DocFor(ProjectDir)
    BY <1>1, DocOfSound
  <2>2. es \in EntriesFor(ProjectDir, "module")
    BY <1>1, <2>1, DocForIs DEF Entries
  <2> QED
    BY <2>2 DEF EntriesFor
<1>3. e \in NodeEntry /\ e.name = d
  <2>1. ID(ProjectDir, "module", d) \in IDs
    BY TypesApart, AuthorAssumption DEF IDs
  <2> QED
    BY <2>1, NoRefsTyped DEF NodeEntry
<1>4. after = With(mid, DocPath(d), EmptyDoc)
  BY DEF AddModuleTree
<1> HIDE DEF es, e
<1>5. new \in Seq(NodeEntry) /\ \A i \in DOMAIN new : (i \in DOMAIN es /\ new[i] = es[i]) \/ new[i] = e
  BY <1>2, <1>3
<1> HIDE DEF new
<1>6. new \in EntriesFor(ProjectDir, "module")
  BY <1>1, <1>2, <1>3, <1>5 DEF EntriesFor
<1>7. Sound(mid) /\ EntriesSet(fs, mid, ProjectDir, "module", new)
  BY <1>1, <1>6, EntriesWritten
<1>8. LeavesStay(fs, mid)
  BY <1>1, <1>7, SetLeavesStay
<1> HIDE DEF mid, after
<1>9. /\ Sound(after) /\ DOMAIN after = DOMAIN mid \cup {DocPath(d)} /\ after[DocPath(d)] = EmptyDoc
      /\ \A p \in DOMAIN mid : p # DocPath(d) => after[p] = mid[p]
  <2>1. EmptyDoc \in DocFor(d)
    BY EmptyDocFine
  <2> QED
    BY <1>1, <1>4, <1>7, <2>1, DocWritten
<1>10. DOMAIN after = DOMAIN fs \cup {DocPath(d)}
  BY <1>8, <1>9 DEF LeavesStay
<1>11. \A p \in DOMAIN fs \cap LeafPaths : after[p] = fs[p]
  BY <1>1, <1>8, <1>9, PathsApart DEF LeavesStay
<1>12. ASSUME NodesDistinct(fs), ~Refused(fs, after), Buildable(fs), Buildable(after)
       PROVE  NodesDistinct(after)
  <2>1. DocPath(ProjectDir) # DocPath(d) /\ DocPath(ProjectDir) \in DOMAIN fs
    <3>1. d # ProjectDir
      BY AuthorAssumption
    <3> QED
      BY <1>1, <3>1, DocOfSound, PathsApart
  <2> DEFINE doc == after[DocPath(ProjectDir)]
             old == fs[DocPath(ProjectDir)]
  <2>2. doc = mid[DocPath(ProjectDir)] /\ \A u \in Types : u # "module" => doc[u] = old[u]
    BY <1>7, <1>9, <2>1 DEF EntriesSet
  <2>3. OwnIDs(doc)
    <3>1. ProjectDir \in Docs(after)
      BY DEF Docs
    <3> QED
      BY <1>9, <1>12, <3>1, GateKeepsIDs
  <2>4. OwnLeaves(ProjectDir, old)
    BY <1>1, <1>12, <2>1, DistinctByDoc DEF OwnDoc
  <2>5. OwnLeaves(ProjectDir, doc)
    <3>1. \A u \in ContentTypes : doc[u] = old[u]
      BY <2>2, TypesApart
    <3> HIDE DEF doc, old
    <3> QED
      BY <2>4, <3>1 DEF OwnLeaves
  <2>6. ASSUME NEW c \in AllDirs, DocPath(c) \in DOMAIN after
        PROVE  OwnDoc(c, after[DocPath(c)])
    <3>1. CASE c = d
      BY <1>9, <3>1, EmptyDocFine
    <3>2. CASE c = ProjectDir
      BY <2>3, <2>5, <3>2 DEF OwnDoc
    <3>3. CASE c # d /\ c # ProjectDir
      <4>1. DocPath(c) # DocPath(d) /\ DocPath(c) # DocPath(ProjectDir)
        BY <1>1, <3>3, PathsApart
      <4>2. DocPath(c) \in DOMAIN fs /\ after[DocPath(c)] = fs[DocPath(c)]
        BY <1>7, <1>9, <1>10, <2>6, <4>1 DEF EntriesSet
      <4> QED
        BY <1>12, <4>2, DistinctByDoc
    <3> QED
      BY <3>1, <3>2, <3>3
  <2> QED
    BY <2>6, DistinctByDoc
<1> QED
  BY <1>9, <1>10, <1>11, <1>12 DEF after

-----------------------------------------------------------------------------
(* Rename: the sweep over documents and leaves, and the node's new place. *)

\* A reference repointed is an id.
LEMMA PatchEntryTyped ==
    ASSUME NEW e \in NodeEntry, NEW x, NEW y \in IDs
    PROVE  /\ PatchEntry(e, x, y) \in NodeEntry
           /\ PatchEntry(e, x, y).id = e.id /\ PatchEntry(e, x, y).name = e.name
           /\ PatchEntry(e, x, y).slug = e.slug
<1> DEFINE refs == [f \in Fields |-> [i \in DOMAIN e.refs[f] |-> Repoint(x, y, e.refs[f][i])]]
<1>1. ASSUME NEW f \in Fields
      PROVE  [i \in DOMAIN e.refs[f] |-> Repoint(x, y, e.refs[f][i])] \in Seq(IDs)
  <2> DEFINE s == e.refs[f]
  <2>1. s \in Seq(IDs)
    BY DEF NodeEntry
  <2> HIDE DEF s
  <2>2. \A i \in DOMAIN s : Repoint(x, y, s[i]) \in IDs
    BY <2>1 DEF Repoint
  <2>3. DOMAIN s = 1 .. Len(s) /\ Len(s) \in Nat
    BY <2>1
  <2>4. [i \in DOMAIN s |-> Repoint(x, y, s[i])] \in Seq(IDs)
    BY <2>2, <2>3
  <2> QED
    BY <2>4 DEF s
<1>2. refs \in [Fields -> Seq(IDs)]
  BY <1>1
<1>3. PatchEntry(e, x, y) = [e EXCEPT !.refs = refs]
  BY DEF PatchEntry
<1> HIDE DEF refs
<1> QED
  BY <1>2, <1>3 DEF NodeEntry

\* A document repointed has the same nodes.
LEMMA PatchDocIs ==
    ASSUME NEW d, NEW doc \in DocFor(d), NEW x, NEW y \in IDs
    PROVE  /\ PatchDoc(doc, x, y) \in DocFor(d)
           /\ \A t \in Types :
                /\ DOMAIN PatchDoc(doc, x, y)[t] = DOMAIN doc[t]
                /\ \A i \in DOMAIN doc[t] :
                     /\ PatchDoc(doc, x, y)[t][i].id = doc[t][i].id
                     /\ PatchDoc(doc, x, y)[t][i].name = doc[t][i].name
                     /\ PatchDoc(doc, x, y)[t][i].slug = doc[t][i].slug
<1> DEFINE new == PatchDoc(doc, x, y)
<1>1. DOMAIN new = Types
      /\ \A t \in Types : new[t] = [i \in DOMAIN doc[t] |-> PatchEntry(doc[t][i], x, y)]
  BY DEF PatchDoc
<1> HIDE DEF new
<1>2. ASSUME NEW t \in Types
      PROVE  /\ new[t] \in EntriesFor(d, t)
             /\ DOMAIN new[t] = DOMAIN doc[t]
             /\ \A i \in DOMAIN doc[t] :
                  /\ new[t][i].id = doc[t][i].id /\ new[t][i].name = doc[t][i].name
                  /\ new[t][i].slug = doc[t][i].slug
  <2> DEFINE es == doc[t]
             ns == new[t]
  <2>1. es \in EntriesFor(d, t) /\ es \in Seq(NodeEntry)
    BY DocForIs DEF EntriesFor
  <2>2. ns = [i \in DOMAIN es |-> PatchEntry(es[i], x, y)]
    BY <1>1
  <2> HIDE DEF es, ns
  <2>3. \A i \in DOMAIN es : es[i] \in NodeEntry
    BY <2>1
  <2>4. /\ DOMAIN ns = DOMAIN es
        /\ \A i \in DOMAIN es : ns[i] \in NodeEntry /\ ns[i].id = es[i].id
                                /\ ns[i].name = es[i].name /\ ns[i].slug = es[i].slug
    BY <2>2, <2>3, PatchEntryTyped
  <2>5. ns \in Seq(NodeEntry)
    <3>1. DOMAIN es = 1 .. Len(es) /\ Len(es) \in Nat
      BY <2>1
    <3>2. ns = [i \in 1 .. Len(es) |-> ns[i]]
      BY <2>2, <3>1
    <3> QED
      BY <2>4, <3>1, <3>2
  <2>6. t \notin TypesOf(d) => ns = <<>>
    <3> HAVE t \notin TypesOf(d)
    <3>1. es = <<>>
      BY <2>1 DEF EntriesFor
    <3>2. DOMAIN ns = {}
      BY <2>4, <3>1
    <3> QED
      BY <2>5, <3>2
  <2>7. ns \in EntriesFor(d, t)
    BY <2>1, <2>4, <2>5, <2>6 DEF EntriesFor
  <2> QED
    BY <2>4, <2>7 DEF es, ns
<1>3. new \in Doc
  <2>1. \A t \in Types : new[t] \in Seq(NodeEntry)
    BY <1>2 DEF EntriesFor
  <2>2. new = [t \in Types |-> new[t]]
    BY DEF new, PatchDoc
  <2> QED
    BY <2>1, <2>2 DEF Doc
<1>4. new \in DocFor(d)
  BY <1>2, <1>3, DocForIs
<1> QED
  BY <1>2, <1>4 DEF new

\* What the sweep leaves as it was: the files there are, the nodes of every
\* document and the text of every leaf.
Swept(fs, new) ==
    /\ DOMAIN new = DOMAIN fs
    /\ \A d \in AllDirs : DocPath(d) \in DOMAIN fs => \A t \in Types :
          /\ DOMAIN new[DocPath(d)][t] = DOMAIN fs[DocPath(d)][t]
          /\ \A i \in DOMAIN fs[DocPath(d)][t] :
                /\ new[DocPath(d)][t][i].id = fs[DocPath(d)][t][i].id
                /\ new[DocPath(d)][t][i].name = fs[DocPath(d)][t][i].name
                /\ new[DocPath(d)][t][i].slug = fs[DocPath(d)][t][i].slug
    /\ \A p \in DOMAIN fs \cap LeafPaths : new[p].prose = fs[p].prose

\* The sweep.
LEMMA PatchedIs ==
    ASSUME NEW fs, Sound(fs), NEW x, NEW y \in IDs
    PROVE  Sound(Patched(fs, x, y)) /\ Swept(fs, Patched(fs, x, y))
<1> DEFINE new == Patched(fs, x, y)
           docs == {DocPath(d) : d \in Docs(fs)}
           leaves == {LeafOf(fs, pl) : pl \in WithLeaf(fs)}
<1>1. new = [p \in DOMAIN fs |-> CASE p \in docs -> PatchDoc(fs[p], x, y)
                                   [] p \in leaves -> PatchLeaf(fs[p], x, y)
                                   [] OTHER -> fs[p]]
  BY DEF Patched
<1>2. IsTree(fs) /\ DocsTyped(fs)
  BY DEF Sound
<1>3. leaves \subseteq LeafPaths
  BY LeafParts
<1>4. \A d \in Docs(fs) : d \in AllDirs
  BY DocOfSound
<1>5. docs \cap LeafPaths = {}
  BY <1>4, PathsApart
<1> HIDE DEF new, docs, leaves
<1>6. DOMAIN new = DOMAIN fs
  BY <1>1
<1>7. \A p \in DOMAIN fs : p \in docs => new[p] = PatchDoc(fs[p], x, y)
  BY <1>1, <1>3, <1>5
<1>8. \A p \in DOMAIN fs : p \in leaves => new[p] = PatchLeaf(fs[p], x, y)
  BY <1>1, <1>3, <1>5
<1>9. \A p \in DOMAIN fs : p \notin docs /\ p \notin leaves => new[p] = fs[p]
  BY <1>1
<1>10. ASSUME NEW p \in DOMAIN fs \cap LeafPaths
       PROVE  new[p] \in Leaf /\ new[p].prose = fs[p].prose
  <2>1. fs[p] \in Leaf
    BY <1>2, PathsApart DEF IsTree
  <2>2. PatchLeaf(fs[p], x, y) \in Leaf /\ PatchLeaf(fs[p], x, y).prose = fs[p].prose
    <3>1. {Repoint(x, y, z) : z \in fs[p].links} \subseteq IDs
      BY <2>1 DEF Leaf, Repoint
    <3> QED
      BY <2>1, <3>1 DEF PatchLeaf, Leaf
  <2> QED
    BY <1>5, <1>8, <1>9, <2>1, <2>2
<1>11. ASSUME NEW d \in AllDirs, DocPath(d) \in DOMAIN fs
       PROVE  /\ new[DocPath(d)] \in DocFor(d)
              /\ \A t \in Types :
                   /\ DOMAIN new[DocPath(d)][t] = DOMAIN fs[DocPath(d)][t]
                   /\ \A i \in DOMAIN fs[DocPath(d)][t] :
                         /\ new[DocPath(d)][t][i].id = fs[DocPath(d)][t][i].id
                         /\ new[DocPath(d)][t][i].name = fs[DocPath(d)][t][i].name
                         /\ new[DocPath(d)][t][i].slug = fs[DocPath(d)][t][i].slug
  <2> DEFINE doc == fs[DocPath(d)]
  <2>1. doc \in DocFor(d)
    BY <1>2, <1>11 DEF DocsTyped, AllDirs
  <2>2. CASE DocPath(d) \in docs
    <3>1. new[DocPath(d)] = PatchDoc(doc, x, y)
      BY <1>7, <1>11, <2>2
    <3> HIDE DEF doc
    <3>2. /\ PatchDoc(doc, x, y) \in DocFor(d)
          /\ \A t \in Types :
               /\ DOMAIN PatchDoc(doc, x, y)[t] = DOMAIN doc[t]
               /\ \A i \in DOMAIN doc[t] :
                    /\ PatchDoc(doc, x, y)[t][i].id = doc[t][i].id
                    /\ PatchDoc(doc, x, y)[t][i].name = doc[t][i].name
                    /\ PatchDoc(doc, x, y)[t][i].slug = doc[t][i].slug
      BY <2>1, PatchDocIs
    <3> QED
      BY <3>1, <3>2 DEF doc
  <2>3. CASE DocPath(d) \notin docs
    <3>1. new[DocPath(d)] = doc
      BY <1>3, <1>9, <1>11, <2>3, PathsApart
    <3> QED
      BY <2>1, <3>1
  <2> QED
    BY <2>2, <2>3
<1>12. Sound(new)
  <2>1. ProjectPath \in DOMAIN new /\ DOMAIN new \subseteq DocPaths \cup LeafPaths
    BY <1>2, <1>6 DEF IsTree
  <2>2. ASSUME NEW p \in DOMAIN new PROVE new[p] \in IF p \in DocPaths THEN Doc ELSE Leaf
    <3>1. CASE p \in DocPaths
      <4>1. PICK d \in AllDirs : p = DocPath(d)
        BY <3>1 DEF DocPaths, AllDirs
      <4> QED
        BY <1>6, <1>11, <2>2, <3>1, <4>1 DEF DocFor
    <3>2. CASE p \notin DocPaths
      BY <1>6, <1>10, <2>1, <2>2, <3>2
    <3> QED
      BY <3>1, <3>2
  <2>3. DocsTyped(new)
    BY <1>6, <1>11 DEF DocsTyped, AllDirs
  <2> QED
    BY <2>1, <2>2, <2>3 DEF Sound, IsTree
<1>13. Swept(fs, new)
  BY <1>6, <1>10, <1>11 DEF Swept
<1> QED
  BY <1>12, <1>13 DEF new

\* The sweep keeps the documents a command reads and their nodes apart.
LEMMA SweptKeeps ==
    ASSUME NEW fs, Sound(fs), NEW new, Swept(fs, new)
    PROVE  /\ Docs(fs) \subseteq Docs(new)
           /\ NodesDistinct(fs) => NodesDistinct(new)
<1>1. /\ ProjectDir \in AllDirs /\ DocPath(ProjectDir) = ProjectPath /\ ProjectPath \in DOMAIN fs
      /\ "module" \in Types
  BY TypesApart DEF AllDirs, DocPath, Sound, IsTree
<1>2. \A d \in AllDirs : DocPath(d) \in DOMAIN fs => DocPath(d) \in DOMAIN new
  BY DEF Swept
<1>3. \A i \in DOMAIN fs[ProjectPath]["module"] :
         /\ i \in DOMAIN new[ProjectPath]["module"]
         /\ new[ProjectPath]["module"][i].name = fs[ProjectPath]["module"][i].name
  BY <1>1 DEF Swept
<1>4. Docs(fs) \subseteq Docs(new)
  BY <1>2, <1>3, DocsStay
<1>5. ASSUME NodesDistinct(fs) PROVE NodesDistinct(new)
  <2>1. ASSUME NEW d \in AllDirs, DocPath(d) \in DOMAIN new
        PROVE  OwnDoc(d, new[DocPath(d)])
    <3> DEFINE old == fs[DocPath(d)]
               doc == new[DocPath(d)]
    <3>1. DocPath(d) \in DOMAIN fs
      BY <2>1 DEF Swept
    <3>2. OwnDoc(d, old)
      BY <1>5, <3>1, DistinctByDoc
    <3>3. \A t \in Types : DOMAIN doc[t] = DOMAIN old[t]
             /\ \A i \in DOMAIN old[t] : doc[t][i].id = old[t][i].id /\ doc[t][i].slug = old[t][i].slug
      BY <3>1 DEF Swept
    <3> HIDE DEF old, doc
    <3>4. \A t \in Types : Within(old[t], doc[t])
      BY <3>3 DEF Within
    <3>5. OwnDoc(d, doc)
      BY <3>2, <3>4, WithinIsOwn
    <3> QED
      BY <3>5 DEF doc
  <2> QED
    BY <2>1, DistinctByDoc
<1> QED
  BY <1>4, <1>5

\* The tree with the entry renamed and every reference repointed; the leaf has
\* not moved yet.
Renamed(fs, x, n) ==
    LET pl == Found(fs, x)
        y  == ID(pl[1], pl[2], n)
    IN  SetEntry(Patched(fs, x, y), pl,
                 [At(Patched(fs, x, y), pl) EXCEPT !.id = y, !.name = n, !.slug = Slug[n]])

\* A rename moves the leaf when the node has one and the new name another slug.
Moves(fs, x, n) ==
    /\ Found(fs, x)[2] \in ContentTypes
    /\ NewPlace(fs, x, n) # LeafOf(fs, Found(fs, x))

\* The entries of the new document are those of the old one, but for the
\* renamed one.
SameBut(old, new, t, i) ==
    \A u \in Types : /\ DOMAIN new[u] = DOMAIN old[u]
                     /\ \A k \in DOMAIN old[u] : ~(u = t /\ k = i) =>
                           /\ new[u][k].id = old[u][k].id /\ new[u][k].name = old[u][k].name
                           /\ new[u][k].slug = old[u][k].slug

\* The entry renamed.
LEMMA EntryRenamed ==
    ASSUME NEW fs, Sound(fs), NEW x \in Nodes(fs), NEW n \in Names, ~IsModule(Found(fs, x))
    PROVE  LET pl == Found(fs, x)
               new == Renamed(fs, x, n)
               doc == new[DocPath(pl[1])]
           IN  /\ Sound(new) /\ DOMAIN new = DOMAIN fs
               /\ \A p \in DOMAIN fs \cap LeafPaths :
                     new[p] = Patched(fs, x, ID(pl[1], pl[2], n))[p] /\ new[p].prose = fs[p].prose
               /\ SameBut(fs[DocPath(pl[1])], doc, pl[2], pl[3])
               /\ doc[pl[2]][pl[3]].id = ID(pl[1], pl[2], n) /\ doc[pl[2]][pl[3]].slug = Slug[n]
               /\ Docs(fs) \subseteq Docs(new)
               /\ NodesDistinct(fs) /\ OwnDoc(pl[1], doc) => NodesDistinct(new)
<1> DEFINE pl == Found(fs, x)
           y == ID(pl[1], pl[2], n)
           mid == Patched(fs, x, y)
           e == [At(mid, pl) EXCEPT !.id = y, !.name = n, !.slug = Slug[n]]
           new == Renamed(fs, x, n)
           es == Entries(mid, pl[1], pl[2])
           doc == new[DocPath(pl[1])]
<1>1. pl \in Places(fs) /\ pl[2] # "module"
  BY NodeFound DEF IsModule
<1>2. new = SetEntry(mid, pl, e)
  BY DEF Renamed
<1> HIDE DEF pl
<1>3. /\ pl = <<pl[1], pl[2], pl[3]>> /\ pl[1] \in Docs(fs) /\ pl[1] \in AllDirs
      /\ DocPath(pl[1]) \in DOMAIN fs /\ pl[2] \in Types /\ pl[2] \in TypesOf(pl[1])
      /\ pl[3] \in DOMAIN Entries(fs, pl[1], pl[2])
  BY <1>1, PlaceParts
<1>4. y \in IDs /\ Slug[n] \in Range(Slug)
  <2>1. n \in DOMAIN Slug
    BY AuthorAssumption
  <2> QED
    BY <1>1, <1>3, <2>1 DEF IDs, AllDirs, TypesOf, Range
<1> HIDE DEF y
<1>5. Sound(mid) /\ Swept(fs, mid)
  BY <1>4, PatchedIs
<1> HIDE DEF mid
<1>6. Docs(fs) \subseteq Docs(mid) /\ (NodesDistinct(fs) => NodesDistinct(mid))
  BY <1>5, SweptKeeps
<1>7. pl \in Places(mid)
  <2>1. DOMAIN Entries(mid, pl[1], pl[2]) = DOMAIN Entries(fs, pl[1], pl[2])
    BY <1>3, <1>5 DEF Swept, Entries
  <2>2. <<pl[1], pl[2], pl[3]>> \in Places(mid)
    BY <1>3, <1>6, <2>1, PlaceIs
  <2> QED
    BY <1>3, <2>2
<1>8. e \in NodeEntry /\ e.id = y /\ e.slug = Slug[n]
  <2>1. At(mid, pl) \in NodeEntry
    BY <1>5, <1>7, PlaceParts
  <2> QED
    BY <1>4, <2>1 DEF NodeEntry
<1> HIDE DEF e
<1>9. Sound(new) /\ EntriesSet(mid, new, pl[1], pl[2], Replaced(es, pl[3], e))
  BY <1>1, <1>2, <1>4, <1>5, <1>7, <1>8, EntryWritten
<1>10. LeavesStay(mid, new)
  BY <1>3, <1>9, SetLeavesStay
<1> HIDE DEF new
<1>11. /\ DOMAIN new = DOMAIN fs
       /\ \A p \in DOMAIN fs \cap LeafPaths : new[p] = mid[p] /\ new[p].prose = fs[p].prose
  BY <1>5, <1>10 DEF LeavesStay, Swept
<1>12. SameBut(mid[DocPath(pl[1])], doc, pl[2], pl[3]) /\ doc[pl[2]][pl[3]] = e
  <2>1. doc[pl[2]] = Replaced(es, pl[3], e) /\ \A u \in Types : u # pl[2] => doc[u] = mid[DocPath(pl[1])][u]
    BY <1>9 DEF EntriesSet
  <2>2. es = mid[DocPath(pl[1])][pl[2]]
    BY DEF Entries
  <2>3. pl[3] \in DOMAIN es
    BY <1>5, <1>7, PlaceParts
  <2> HIDE DEF es, doc
  <2>4. /\ DOMAIN doc[pl[2]] = DOMAIN es /\ doc[pl[2]][pl[3]] = e
        /\ \A k \in DOMAIN es : k # pl[3] => doc[pl[2]][k] = es[k]
    BY <2>1, <2>3 DEF Replaced
  <2>5. SameBut(mid[DocPath(pl[1])], doc, pl[2], pl[3])
    BY <2>1, <2>2, <2>4 DEF SameBut
  <2> QED
    BY <2>4, <2>5
<1>13. SameBut(fs[DocPath(pl[1])], doc, pl[2], pl[3])
  <2>1. \A u \in Types :
          /\ DOMAIN mid[DocPath(pl[1])][u] = DOMAIN fs[DocPath(pl[1])][u]
          /\ \A i \in DOMAIN fs[DocPath(pl[1])][u] :
                /\ mid[DocPath(pl[1])][u][i].id = fs[DocPath(pl[1])][u][i].id
                /\ mid[DocPath(pl[1])][u][i].name = fs[DocPath(pl[1])][u][i].name
                /\ mid[DocPath(pl[1])][u][i].slug = fs[DocPath(pl[1])][u][i].slug
    BY <1>3, <1>5 DEF Swept
  <2> DEFINE a == fs[DocPath(pl[1])]
             b == mid[DocPath(pl[1])]
  <2> HIDE DEF a, b, doc
  <2> QED
    BY <1>12, <2>1 DEF SameBut, a, b
<1>14. Docs(mid) \subseteq Docs(new)
  <2>1. /\ ProjectDir \in AllDirs /\ DocPath(ProjectDir) = ProjectPath /\ ProjectPath \in DOMAIN mid
        /\ "module" \in Types
    BY <1>5, TypesApart DEF AllDirs, DocPath, Sound, IsTree
  <2>2. new[ProjectPath]["module"] = mid[ProjectPath]["module"]
    <3>1. CASE pl[1] = ProjectDir
      BY <1>1, <1>9, <2>1, <3>1 DEF EntriesSet
    <3>2. CASE pl[1] # ProjectDir
      <4>1. DocPath(pl[1]) # ProjectPath
        BY <1>3, <2>1, <3>2, PathsApart
      <4> QED
        BY <1>9, <2>1, <4>1 DEF EntriesSet
    <3> QED
      BY <3>1, <3>2
  <2>3. \A d \in AllDirs : DocPath(d) \in DOMAIN mid => DocPath(d) \in DOMAIN new
    BY <1>9 DEF EntriesSet
  <2> QED
    BY <1>5, <2>2, <2>3, DocsStay
<1>15. NodesDistinct(fs) /\ OwnDoc(pl[1], doc) => NodesDistinct(new)
  BY <1>3, <1>6, <1>9, DistinctAfterSet
<1> QED
  BY <1>6, <1>8, <1>9, <1>11, <1>12, <1>13, <1>14, <1>15 DEF pl, y, mid, new

\* spex node rename.
LEMMA RenameEdits ==
    ASSUME NEW fs, Sound(fs), NEW x \in Nodes(fs), NEW n \in Names, ~IsModule(Found(fs, x)),
           ~RenameRejects(fs, x, n)
    PROVE  LET after == RenameTree(fs, x, n)
               place == NewPlace(fs, x, n)
               leaf == LeafOf(fs, Found(fs, x))
           IN  /\ Sound(after) /\ SameDocs(Renamed(fs, x, n), after)
               /\ ~Moves(fs, x, n) =>
                     /\ DOMAIN after = DOMAIN fs
                     /\ \A p \in DOMAIN fs \cap LeafPaths : after[p].prose = fs[p].prose
               /\ Moves(fs, x, n) =>
                     /\ leaf \in DOMAIN fs \cap LeafPaths /\ place \in LeafPaths /\ place # leaf
                     /\ DOMAIN after = (DOMAIN fs \ {leaf}) \cup {place}
                     /\ after[place].prose = fs[leaf].prose
                     /\ \A p \in (DOMAIN fs \cap LeafPaths) \ {leaf, place} :
                           after[p].prose = fs[p].prose
<1> DEFINE pl == Found(fs, x)
           y == ID(pl[1], pl[2], n)
           mid == Patched(fs, x, y)
           new == Renamed(fs, x, n)
           after == RenameTree(fs, x, n)
           place == NewPlace(fs, x, n)
           leaf == LeafOf(fs, pl)
<1>1. /\ Sound(new) /\ DOMAIN new = DOMAIN fs
      /\ \A p \in DOMAIN fs \cap LeafPaths : new[p] = mid[p] /\ new[p].prose = fs[p].prose
  BY EntryRenamed
<1>2. after = IF ~Moves(fs, x, n) THEN new
              ELSE With(Without(new, {leaf}), place, mid[leaf])
  BY DEF RenameTree, Renamed, Moves
<1>3. pl \in Places(fs)
  BY NodeFound
<1> HIDE DEF mid, new, after
<1>4. CASE ~Moves(fs, x, n)
  <2>1. after = new
    BY <1>2, <1>4
  <2> QED
    BY <1>1, <1>4, <2>1 DEF SameDocs, after, new
<1>5. CASE Moves(fs, x, n)
  <2>1. pl \in WithLeaf(fs)
    BY <1>3, <1>5 DEF WithLeaf, Moves
  <2>2. leaf \in LeafPaths /\ pl[1] \in Dirs /\ pl[2] \in ContentTypes
    BY <2>1, LeafParts
  <2>3. leaf \in DOMAIN fs /\ place # leaf
    BY <1>5, <2>2 DEF RenameRejects, Moves
  <2>4. place \in LeafPaths
    <3>1. Slug[n] \in Range(Slug)
      BY AuthorAssumption DEF Range
    <3> QED
      BY <2>2, <3>1 DEF NewPlace, LeafPaths
  <2> HIDE DEF place, leaf
  <2> DEFINE less == Without(new, {leaf})
             file == mid[leaf]
  <2>5. {leaf} \in SUBSET LeafPaths
    BY <2>2
  <2>6. /\ Sound(less) /\ SameDocs(new, less) /\ DOMAIN less = DOMAIN new \ {leaf}
        /\ \A p \in DOMAIN new \ {leaf} : less[p] = new[p]
    BY <1>1, <2>5, LeavesRemoved
  <2>7. file = new[leaf] /\ file \in Leaf /\ file.prose = fs[leaf].prose
    <3>1. new[leaf] \in Leaf
      BY <1>1, <2>2, <2>3, PathsApart DEF Sound, IsTree
    <3> QED
      BY <1>1, <2>2, <2>3, <3>1
  <2> HIDE DEF less, file
  <2>8. /\ Sound(With(less, place, file)) /\ SameDocs(less, With(less, place, file))
        /\ DOMAIN With(less, place, file) = DOMAIN less \cup {place}
        /\ With(less, place, file)[place] = file
        /\ \A p \in DOMAIN less : p # place => With(less, place, file)[p] = less[p]
    <3>1. Sound(less) /\ place \in LeafPaths /\ file \in Leaf
      BY <2>4, <2>6, <2>7
    <3> QED
      BY <3>1, LeafWritten, Zenon
  <2>9. after = With(less, place, file)
    BY <1>2, <1>5 DEF less, file
  <2>10. SameDocs(new, after)
    BY <2>6, <2>8, <2>9 DEF SameDocs
  <2>11. DOMAIN after = (DOMAIN fs \ {leaf}) \cup {place} /\ after[place].prose = fs[leaf].prose
    BY <1>1, <2>6, <2>7, <2>8, <2>9
  <2>12. \A p \in (DOMAIN fs \cap LeafPaths) \ {leaf, place} : after[p].prose = fs[p].prose
    BY <1>1, <2>6, <2>8, <2>9
  <2>13. leaf \in DOMAIN fs \cap LeafPaths /\ Sound(after)
    BY <2>2, <2>3, <2>8, <2>9
  <2> HIDE DEF pl
  <2>14. /\ Sound(after) /\ SameDocs(new, after)
         /\ leaf \in DOMAIN fs \cap LeafPaths /\ place \in LeafPaths /\ place # leaf
         /\ DOMAIN after = (DOMAIN fs \ {leaf}) \cup {place}
         /\ after[place].prose = fs[leaf].prose
         /\ \A p \in (DOMAIN fs \cap LeafPaths) \ {leaf, place} : after[p].prose = fs[p].prose
    BY <2>3, <2>4, <2>10, <2>11, <2>12, <2>13
  <2> QED
    BY <1>5, <2>14 DEF after, new, place, leaf, pl
<1> QED
  BY <1>4, <1>5

\* A renamed node keeps its id and its leaf to itself, and no text is written
\* over, when the copy is not refused.
LEMMA RenameIsDistinct ==
    ASSUME NEW fs, Sound(fs), NodesDistinct(fs), Buildable(fs),
           NEW x \in Nodes(fs), NEW n \in Names, ~IsModule(Found(fs, x)),
           ~RenameRejects(fs, x, n),
           ~Refused(fs, RenameTree(fs, x, n)), Buildable(RenameTree(fs, x, n))
    PROVE  /\ NodesDistinct(RenameTree(fs, x, n))
           /\ Moves(fs, x, n) => NewPlace(fs, x, n) \notin DOMAIN fs
<1> DEFINE pl == Found(fs, x)
           d == pl[1]
           t == pl[2]
           i == pl[3]
           y == ID(d, t, n)
           new == Renamed(fs, x, n)
           after == RenameTree(fs, x, n)
           old == fs[DocPath(d)]
           doc == new[DocPath(d)]
           place == NewPlace(fs, x, n)
<1>1. pl \in Places(fs) /\ At(fs, pl).id = x /\ t # "module"
  BY NodeFound DEF IsModule
<1>2. /\ d \in Docs(fs) /\ d \in AllDirs /\ DocPath(d) \in DOMAIN fs /\ t \in Types /\ t \in TypesOf(d)
      /\ i \in DOMAIN old[t] /\ i \in Nat /\ old[t][i].id = x /\ old[t] \in Seq(NodeEntry)
      /\ At(fs, pl) = old[t][i]
  BY <1>1, PlaceParts DEF Entries
<1>3. /\ Sound(new) /\ DOMAIN new = DOMAIN fs
      /\ SameBut(old, doc, t, i)
      /\ doc[t][i].id = y /\ doc[t][i].slug = Slug[n]
      /\ Docs(fs) \subseteq Docs(new)
      /\ OwnDoc(d, doc) => NodesDistinct(new)
  BY EntryRenamed
<1>4. Sound(after) /\ SameDocs(new, after)
  BY RenameEdits
<1>5. place = LeafPath(d, t, Slug[n])
  BY DEF NewPlace
<1>6. LeafOf(fs, pl) = LeafPath(d, t, old[t][i].slug)
  BY <1>2 DEF LeafOf
<1>7. y \in IDs
  BY <1>1, <1>2 DEF IDs, AllDirs, TypesOf
<1>8. OwnDoc(d, old)
  BY <1>2, DistinctByDoc
<1>9. \A u \in ContentTypes : \A k \in DOMAIN old[u] : LeafPath(d, u, old[u][k].slug) \in DOMAIN fs
  BY <1>2, LeavesThere DEF Entries
<1>10. after[DocPath(d)] = doc
  BY <1>2, <1>3, <1>4 DEF SameDocs
<1>11. Moves(fs, x, n) <=> t \in ContentTypes /\ place # LeafOf(fs, pl)
  BY DEF Moves
<1>12. ASSUME Moves(fs, x, n), place \in DOMAIN fs
       PROVE  \E k \in DOMAIN old[t] : k # i /\ old[t][k].id = y
  <2> DEFINE es == Entries(fs, d, t)
             others == {k \in DOMAIN es : es[k].id # x /\ es[k].slug = Slug[n]}
             first == CHOOSE k \in others : \A m \in others : k <= m
  <2>1. Colliding(fs, x, n) = y
    BY <1>11, <1>12 DEF RenameRejects
  <2>2. es = old[t]
    BY DEF Entries
  <2>3. Colliding(fs, x, n) = IF others = {} THEN None ELSE es[first].id
    BY DEF Colliding
  <2>4. others # {}
    <3>1. None # y
      BY <1>7, AuthorAssumption
    <3> HIDE DEF others, first, y
    <3> QED
      BY <2>1, <2>3, <3>1
  <2>5. others \subseteq Nat
    <3> HIDE DEF old
    <3> QED
      BY <1>2, <2>2
  <2> HIDE DEF es
  <2>6. first \in others
    <3>1. \E k \in others : \A m \in others : k <= m
      BY <2>4, <2>5, LeastNumber
    <3> HIDE DEF others
    <3> QED
      BY <3>1
  <2>7. first \in DOMAIN old[t] /\ old[t][first].id # x
    BY <2>2, <2>6
  <2>8. old[t][first].id = y
    <3> HIDE DEF others, first, y, old
    <3> QED
      BY <2>1, <2>2, <2>3, <2>4
  <2> HIDE DEF first, y, old
  <2> QED
    BY <1>2, <2>7, <2>8
<1> HIDE DEF old, doc, new, after, place, d, t, i, y
<1>13. d \in Docs(after)
  <2>1. \A c \in AllDirs : DocPath(c) \in DOMAIN new => DocPath(c) \in DOMAIN after
    BY <1>4 DEF SameDocs
  <2>2. after[ProjectPath]["module"] = new[ProjectPath]["module"]
    <3>1. ProjectDir \in AllDirs /\ ProjectPath \in DOMAIN new /\ DocPath(ProjectDir) = ProjectPath
      BY <1>3 DEF AllDirs, DocPath, Sound, IsTree
    <3> QED
      BY <1>4, <3>1 DEF SameDocs
  <2>3. Docs(new) \subseteq Docs(after)
    BY <1>3, <2>1, <2>2, DocsStay
  <2> QED
    BY <1>2, <1>3, <2>3
<1>14. OwnIDs(doc)
  <2>1. OwnIDs(after[DocPath(d)])
    BY <1>4, <1>13, GateKeepsIDs DEF after
  <2> QED
    BY <1>10, <2>1
<1>15. ASSUME Moves(fs, x, n)
       PROVE  place \notin DOMAIN fs
  <2> SUFFICES ASSUME place \in DOMAIN fs PROVE FALSE
    OBVIOUS
  <2>1. PICK k \in DOMAIN old[t] : k # i /\ old[t][k].id = y
    BY <1>12, <1>15
  <2>2. k \in DOMAIN doc[t] /\ i \in DOMAIN doc[t] /\ doc[t][k].id = doc[t][i].id
    BY <1>2, <1>3, <2>1 DEF SameBut
  <2> QED
    BY <1>2, <1>14, <2>1, <2>2 DEF OwnIDs
<1>16. OwnLeaves(d, doc)
  <2>1. CASE Moves(fs, x, n)
    <3> DEFINE L == DOMAIN fs
    <3>1. LeafPath(d, t, doc[t][i].slug) \notin L
      BY <1>3, <1>5, <1>15, <2>1
    <3>2. \A u \in ContentTypes : \A k \in DOMAIN old[u] : LeafPath(d, u, old[u][k].slug) \in L
      BY <1>9
    <3> HIDE DEF L
    <3>3. \A u \in ContentTypes : \A k \in DOMAIN doc[u] :
             \/ u = t /\ k = i
             \/ /\ k \in DOMAIN old[u] /\ doc[u][k].slug = old[u][k].slug
                /\ LeafPath(d, u, old[u][k].slug) \in L
      BY <1>3, <3>2, TypesApart DEF SameBut
    <3>4. OnlyLeaf(d, old, doc, L, t, i)
      BY <3>1, <3>3 DEF OnlyLeaf
    <3>5. t \in ContentTypes
      BY <1>11, <2>1
    <3> QED
      BY <1>8, <3>4, <3>5, OneNewLeaf DEF OwnDoc
  <2>2. CASE ~Moves(fs, x, n)
    <3>1. t \in ContentTypes => Slug[n] = old[t][i].slug
      <4> HAVE t \in ContentTypes
      <4>1. LeafPath(d, t, Slug[n]) = LeafPath(d, t, old[t][i].slug)
        BY <1>5, <1>6, <1>11, <2>2
      <4> QED
        BY <4>1 DEF LeafPath
    <3>2. \A u \in ContentTypes : /\ DOMAIN doc[u] = DOMAIN old[u]
                                  /\ \A k \in DOMAIN old[u] : doc[u][k].slug = old[u][k].slug
      BY <1>3, <3>1, TypesApart DEF SameBut
    <3>3. OwnLeaves(d, old)
      BY <1>8 DEF OwnDoc
    <3> QED
      BY <3>2, <3>3 DEF OwnLeaves
  <2> QED
    BY <2>1, <2>2
<1>17. NodesDistinct(new)
  BY <1>3, <1>14, <1>16 DEF OwnDoc
<1>18. NodesDistinct(after)
  BY <1>4, <1>17, DistinctByDocs
<1> QED
  BY <1>15, <1>18 DEF after, place

\* spex leaf scaffold.
LEMMA ScaffoldEdits ==
    ASSUME NEW fs, Sound(fs), NEW x \in Nodes(fs), ~ScaffoldRejects(fs, x)
    PROVE  LET path == LeafOf(fs, Found(fs, x))
               real == With(fs, path, ScaffoldFile(fs, x))
           IN  /\ Sound(real) /\ SameDocs(fs, real)
               /\ path \in LeafPaths /\ path \notin DOMAIN fs
               /\ DOMAIN real = DOMAIN fs \cup {path}
               /\ real[path] = ScaffoldFile(fs, x)
               /\ \A p \in DOMAIN fs : real[p] = fs[p]
<1> DEFINE pl == Found(fs, x)
           path == LeafOf(fs, pl)
           file == ScaffoldFile(fs, x)
           real == With(fs, path, file)
<1>1. pl \in Places(fs) /\ pl[2] \in ContentTypes /\ path \notin DOMAIN fs
  BY NodeFound DEF ScaffoldRejects
<1>2. path \in LeafPaths
  BY <1>1, LeafParts DEF WithLeaf
<1>3. file \in Leaf
  BY <1>1, PlaceParts, SkeletonTyped DEF ScaffoldFile
<1> HIDE DEF path, file
<1>4. /\ Sound(real) /\ SameDocs(fs, real)
      /\ DOMAIN real = DOMAIN fs \cup {path} /\ real[path] = file
      /\ \A p \in DOMAIN fs : p # path => real[p] = fs[p]
  BY <1>2, <1>3, LeafWritten, Zenon
<1> QED
  BY <1>1, <1>2, <1>4 DEF path, file

-----------------------------------------------------------------------------
(* The copies commands hand over. *)

IsFunction(fs) == fs = [p \in DOMAIN fs |-> fs[p]]

\* A copy that may be written: drop is what it lacks of the tree, no text is
\* written over, and a text whose leaf goes is carried elsewhere, unless its
\* node goes too.
GoodCopy(op, fs, after, drop) ==
    /\ Sound(after) /\ NodesDistinct(after)
    /\ drop = DOMAIN fs \ DOMAIN after /\ drop \subseteq LeafPaths
    /\ \A p \in LeafPaths : p \in DOMAIN fs /\ p \in DOMAIN after => after[p].prose = fs[p].prose
    /\ op \notin {"remove", "force"} =>
         \A p \in drop : \E q \in DOMAIN after \cap LeafPaths : after[q].prose = fs[p].prose

\* A copy with the same leaves.
LEMMA CopyOfLeavesStay ==
    ASSUME NEW op, NEW fs, NEW after, Sound(after), NodesDistinct(after), LeavesStay(fs, after)
    PROVE  GoodCopy(op, fs, after, {})
BY DEF GoodCopy, LeavesStay

\* Every copy is a map from paths to files.
LEMMA CopiesAreFunctions ==
    /\ \A fs, p, file : IsFunction(With(fs, p, file))
    /\ \A fs, paths : IsFunction(Without(fs, paths))
    /\ \A fs, pl, e : IsFunction(SetEntry(fs, pl, e))
    /\ \A fs, d, t, n, val, refs : IsFunction(AddTree(fs, d, t, n, val, refs))
    /\ \A fs, d : IsFunction(AddModuleTree(fs, d))
    /\ \A fs, x : IsFunction(RemoveTree(fs, x))
    /\ \A fs, x, val : IsFunction(SetTree(fs, x, val))
    /\ \A fs, x, n : IsFunction(RenameTree(fs, x, n))
    /\ \A fs, x, f, y : IsFunction(AddEdgeTree(fs, x, f, y))
    /\ \A fs, x, f, y : IsFunction(RemoveEdgeTree(fs, x, f, y))
<1>1. \A fs, p, file : IsFunction(With(fs, p, file))
  BY DEF With, IsFunction
<1>2. \A fs, paths : IsFunction(Without(fs, paths))
  BY DEF Without, IsFunction
<1>3. \A fs, d, t, es : IsFunction(SetEntries(fs, d, t, es))
  BY <1>1 DEF SetEntries
<1>4. \A fs, pl, e : IsFunction(SetEntry(fs, pl, e))
  BY <1>3 DEF SetEntry
<1>5. \A fs, d, t, n, val, refs : IsFunction(AddTree(fs, d, t, n, val, refs))
  BY <1>1, <1>3 DEF AddTree
<1>6. \A fs, d : IsFunction(AddModuleTree(fs, d))
  BY <1>1 DEF AddModuleTree
<1>7. \A fs, x : IsFunction(RemoveTree(fs, x))
  BY <1>2 DEF RemoveTree
<1>8. \A fs, x, val : IsFunction(SetTree(fs, x, val))
  BY <1>4 DEF SetTree
<1>9. \A fs, x, n : IsFunction(RenameTree(fs, x, n))
  BY <1>1, <1>4 DEF RenameTree
<1>10. \A fs, x, f, y : IsFunction(AddEdgeTree(fs, x, f, y))
  BY <1>4 DEF AddEdgeTree
<1>11. \A fs, x, f, y : IsFunction(RemoveEdgeTree(fs, x, f, y))
  BY <1>4 DEF RemoveEdgeTree
<1> QED
  BY <1>1, <1>2, <1>4, <1>5, <1>6, <1>7, <1>8, <1>9, <1>10, <1>11

\* A copy that lacks the leaves of a node that goes.
LEMMA CopyOfRemove ==
    ASSUME NEW op \in {"remove", "force"}, NEW fs, Sound(fs), NodesDistinct(fs), Buildable(fs),
           NEW x \in Nodes(fs)
    PROVE  GoodCopy(op, fs, RemoveTree(fs, x), LeafPathsOf(fs, x))
<1> DEFINE after == RemoveTree(fs, x)
           drop == LeafPathsOf(fs, x)
<1>1. /\ Sound(after) /\ NodesDistinct(after) /\ DOMAIN after = DOMAIN fs \ drop
      /\ \A p \in DOMAIN after \cap LeafPaths : after[p] = fs[p]
  BY RemoveEdits
<1>2. drop \subseteq LeafPaths /\ drop \subseteq DOMAIN fs
  BY RemovedLeaves
<1> HIDE DEF after, drop
<1>3. GoodCopy(op, fs, after, drop)
  BY <1>1, <1>2 DEF GoodCopy
<1> QED
  BY <1>3 DEF after, drop

\* A copy with a node more.
LEMMA CopyOfAdd ==
    ASSUME NEW fs, Sound(fs), NodesDistinct(fs), Buildable(fs),
           NEW d \in Docs(fs), NEW t \in TypesOf(d), t # "module", NEW n \in Names,
           NEW val \in Vals \cup {None}, NEW refs \in [Fields -> Seq(IDs)],
           ~AddRejects(fs, d, t, n),
           ~Refused(fs, AddTree(fs, d, t, n, val, refs)), Buildable(AddTree(fs, d, t, n, val, refs))
    PROVE  GoodCopy("add", fs, AddTree(fs, d, t, n, val, refs), {})
<1> DEFINE after == AddTree(fs, d, t, n, val, refs)
           path == LeafPath(d, t, Slug[n])
<1>1. /\ Sound(after)
      /\ t \notin ContentTypes => LeavesStay(fs, after)
      /\ t \in ContentTypes =>
            /\ path \in LeafPaths /\ DOMAIN after = DOMAIN fs \cup {path}
            /\ \A p \in DOMAIN fs \cap LeafPaths : p # path => after[p] = fs[p]
  BY AddEdits
<1>2. NodesDistinct(after) /\ (t \in ContentTypes => path \notin DOMAIN fs)
  BY AddIsDistinct
<1> HIDE DEF after, path
<1>3. CASE t \notin ContentTypes
  <2>1. GoodCopy("add", fs, after, {})
    BY <1>1, <1>2, <1>3, CopyOfLeavesStay
  <2> QED
    BY <2>1 DEF after
<1>4. CASE t \in ContentTypes
  <2>1. {} = DOMAIN fs \ DOMAIN after
    BY <1>1, <1>4
  <2>2. \A p \in LeafPaths : p \in DOMAIN fs /\ p \in DOMAIN after => after[p].prose = fs[p].prose
    BY <1>1, <1>2, <1>4
  <2>3. GoodCopy("add", fs, after, {})
    BY <1>1, <1>2, <2>1, <2>2 DEF GoodCopy
  <2> QED
    BY <2>3 DEF after
<1> QED
  BY <1>3, <1>4

\* A copy with a module more.
LEMMA CopyOfAddModule ==
    ASSUME NEW fs, Sound(fs), NodesDistinct(fs), Buildable(fs), NEW d \in Dirs,
           ~AddModuleRejects(fs, d),
           ~Refused(fs, AddModuleTree(fs, d)), Buildable(AddModuleTree(fs, d))
    PROVE  GoodCopy("module", fs, AddModuleTree(fs, d), {})
<1> DEFINE after == AddModuleTree(fs, d)
<1>1. DocPath(d) \notin DOMAIN fs
  BY DEF AddModuleRejects
<1>2. /\ Sound(after) /\ DOMAIN after = DOMAIN fs \cup {DocPath(d)}
      /\ \A p \in DOMAIN fs \cap LeafPaths : after[p] = fs[p]
      /\ NodesDistinct(after)
  BY <1>1, AddModuleEdits
<1> HIDE DEF after
<1>3. {} = DOMAIN fs \ DOMAIN after
  BY <1>2
<1>4. GoodCopy("module", fs, after, {})
  BY <1>2, <1>3 DEF GoodCopy
<1> QED
  BY <1>4 DEF after

\* A copy with a node renamed.
LEMMA CopyOfRename ==
    ASSUME NEW fs, Sound(fs), NodesDistinct(fs), Buildable(fs),
           NEW x \in Nodes(fs), NEW n \in Names, ~IsModule(Found(fs, x)),
           ~RenameRejects(fs, x, n),
           ~Refused(fs, RenameTree(fs, x, n)), Buildable(RenameTree(fs, x, n))
    PROVE  GoodCopy("rename", fs, RenameTree(fs, x, n), DOMAIN fs \ DOMAIN RenameTree(fs, x, n))
<1> DEFINE after == RenameTree(fs, x, n)
           place == NewPlace(fs, x, n)
           leaf == LeafOf(fs, Found(fs, x))
<1>1. /\ Sound(after)
      /\ ~Moves(fs, x, n) =>
            /\ DOMAIN after = DOMAIN fs
            /\ \A p \in DOMAIN fs \cap LeafPaths : after[p].prose = fs[p].prose
      /\ Moves(fs, x, n) =>
            /\ leaf \in DOMAIN fs \cap LeafPaths /\ place \in LeafPaths /\ place # leaf
            /\ DOMAIN after = (DOMAIN fs \ {leaf}) \cup {place}
            /\ after[place].prose = fs[leaf].prose
            /\ \A p \in (DOMAIN fs \cap LeafPaths) \ {leaf, place} : after[p].prose = fs[p].prose
  BY RenameEdits
<1>2. NodesDistinct(after) /\ (Moves(fs, x, n) => place \notin DOMAIN fs)
  BY RenameIsDistinct
<1> HIDE DEF after, place, leaf
<1>3. CASE ~Moves(fs, x, n)
  <2>1. DOMAIN fs \ DOMAIN after = {}
    BY <1>1, <1>3
  <2>2. GoodCopy("rename", fs, after, DOMAIN fs \ DOMAIN after)
    BY <1>1, <1>2, <1>3, <2>1 DEF GoodCopy
  <2> QED
    BY <2>2 DEF after
<1>4. CASE Moves(fs, x, n)
  <2>1. DOMAIN fs \ DOMAIN after = {leaf}
    BY <1>1, <1>4
  <2>2. \A p \in LeafPaths : p \in DOMAIN fs /\ p \in DOMAIN after => after[p].prose = fs[p].prose
    BY <1>1, <1>2, <1>4
  <2>3. \A p \in {leaf} : \E q \in DOMAIN after \cap LeafPaths : after[q].prose = fs[p].prose
    BY <1>1, <1>4
  <2>4. GoodCopy("rename", fs, after, DOMAIN fs \ DOMAIN after)
    BY <1>1, <1>2, <1>4, <2>1, <2>2, <2>3 DEF GoodCopy
  <2> QED
    BY <2>4 DEF after
<1> QED
  BY <1>3, <1>4

\* Trees with the same documents have the same nodes with the same leaves.
LEMMA SamePlaces ==
    ASSUME NEW fs, Sound(fs), NEW after, SameDocs(fs, after)
    PROVE  /\ Docs(after) = Docs(fs) /\ Places(after) = Places(fs) /\ WithLeaf(after) = WithLeaf(fs)
           /\ \A pl \in Places(fs) : At(after, pl) = At(fs, pl) /\ LeafOf(after, pl) = LeafOf(fs, pl)
<1>1. /\ ProjectDir \in AllDirs /\ DocPath(ProjectDir) = ProjectPath /\ ProjectPath \in DOMAIN fs
  BY DEF AllDirs, DocPath, Sound, IsTree
<1>2. after[ProjectPath] = fs[ProjectPath]
  BY <1>1 DEF SameDocs
<1>3. Modules(after) = Modules(fs)
  BY <1>2 DEF Modules, ModuleSeq
<1>4. Modules(fs) \subseteq AllDirs
  <2> DEFINE es == fs[ProjectPath]["module"]
  <2>1. fs[ProjectPath] \in DocFor(ProjectDir)
    BY <1>1, DocOfSound DEF Docs
  <2>2. es \in EntriesFor(ProjectDir, "module")
    BY <2>1, DocForIs, TypesApart
  <2>3. \A i \in DOMAIN es : es[i].name \in Dirs
    BY <2>2 DEF EntriesFor
  <2> QED
    BY <2>3 DEF Modules, ModuleSeq, Range, AllDirs
<1>5. Docs(after) = Docs(fs)
  <2>1. \A d \in Modules(fs) : DocPath(d) \in DOMAIN after <=> DocPath(d) \in DOMAIN fs
    BY <1>4 DEF SameDocs
  <2>2. Unreadable(after) = Unreadable(fs)
    BY <1>3, <2>1 DEF Unreadable
  <2> QED
    BY <1>3, <2>2 DEF Docs
<1>6. \A d \in Docs(fs) : after[DocPath(d)] = fs[DocPath(d)]
  BY DocOfSound DEF SameDocs
<1>7. \A d \in Docs(fs) : \A t : Entries(after, d, t) = Entries(fs, d, t)
  BY <1>6 DEF Entries
<1>8. Places(after) = Places(fs)
  BY <1>5, <1>7 DEF Places
<1>9. \A pl \in Places(fs) : At(after, pl) = At(fs, pl)
  BY <1>7, PlaceParts DEF At
<1>10. WithLeaf(after) = WithLeaf(fs)
  BY <1>8 DEF WithLeaf
<1>11. \A pl \in Places(fs) : LeafOf(after, pl) = LeafOf(fs, pl)
  BY <1>9 DEF LeafOf
<1> QED
  BY <1>5, <1>8, <1>9, <1>10, <1>11

\* When the leaf scaffolded was the only one missing, scaffold judges the very
\* tree it leaves.
LEMMA ScaffoldJudgesResult ==
    ASSUME NEW fs, Sound(fs), NEW x \in Nodes(fs), ~ScaffoldRejects(fs, x),
           Buildable(With(fs, LeafOf(fs, Found(fs, x)), ScaffoldFile(fs, x)))
    PROVE  With(PatchMissing(fs), LeafOf(fs, Found(fs, x)), ScaffoldFile(fs, x))
             = With(fs, LeafOf(fs, Found(fs, x)), ScaffoldFile(fs, x))
<1> DEFINE path == LeafOf(fs, Found(fs, x))
           file == ScaffoldFile(fs, x)
           real == With(fs, path, file)
           absent == {LeafOf(fs, pl) : pl \in MissingLeaves(fs)}
           filled == PatchMissing(fs)
<1>1. SameDocs(fs, real) /\ path \notin DOMAIN fs /\ DOMAIN real = DOMAIN fs \cup {path}
  BY ScaffoldEdits
<1>2. ASSUME NEW pl \in MissingLeaves(fs) PROVE LeafOf(fs, pl) = path
  <2>1. pl \in WithLeaf(fs) /\ LeafOf(fs, pl) \notin DOMAIN fs
    BY DEF MissingLeaves
  <2>2. pl \in WithLeaf(real) /\ LeafOf(real, pl) = LeafOf(fs, pl)
    BY <1>1, <2>1, SamePlaces DEF WithLeaf
  <2>3. LeafOf(real, pl) \in DOMAIN real
    BY <2>2 DEF Buildable, MissingLeaves
  <2> QED
    BY <1>1, <2>1, <2>2, <2>3
<1>3. absent \subseteq {path}
  BY <1>2
<1>4. /\ DOMAIN filled = DOMAIN fs \cup absent
      /\ \A p \in DOMAIN fs \cup absent : p \notin absent => filled[p] = fs[p]
  BY DEF PatchMissing
<1> HIDE DEF path, file, absent, filled
<1>5. With(filled, path, file) = With(fs, path, file)
  <2>1. DOMAIN filled \cup {path} = DOMAIN fs \cup {path}
    BY <1>3, <1>4
  <2>2. \A p \in DOMAIN fs \cup {path} : p # path => filled[p] = fs[p]
    BY <1>3, <1>4
  <2> QED
    BY <2>1, <2>2 DEF With
<1> QED
  BY <1>5 DEF path, file, filled

-----------------------------------------------------------------------------
(* A command that writes: what is on disk is of the tree it found or of the *)
(* copy, file by file.                                                       *)

CommandRecord(c) ==
    c = [op |-> c.op, before |-> c.before, after |-> c.after, owed |-> c.owed,
         refused |-> c.refused, writes |-> c.writes, drop |-> c.drop]

Writing(c) ==
    /\ GoodCopy(c.op, c.before, c.after, c.drop) /\ IsFunction(c.after)
    /\ DOMAIN c.before \subseteq DOMAIN tree
    /\ \A p \in DOMAIN c.after : p \notin c.writes => p \in DOMAIN tree /\ tree[p] = c.after[p]
    /\ \A p \in DOMAIN tree :
          \/ p \in DOMAIN c.after /\ p \notin c.writes
          \/ p \in DOMAIN c.before /\ tree[p] = c.before[p]
    /\ c.op # "force" /\ Buildable(c.after) => c.owed = Validate(c.after)

CommandFine(c) ==
    /\ CommandRecord(c) /\ c.op \in Ops /\ c.refused \in BOOLEAN
    /\ Sound(c.before) /\ Sound(c.after)
    /\ c.writes \subseteq DOMAIN c.after /\ c.drop \subseteq DOMAIN c.before
    /\ c.refused => c.writes = {}
    /\ ~c.refused => Writing(c)

AuthorInv ==
    /\ Sound(tree) /\ NodesDistinct(tree)
    /\ edits \in Nat /\ crashes \in Nat
    /\ cmd # NoCommand => CommandFine(cmd)

\* A command that starts.
LEMMA CommandStarts ==
    ASSUME AuthorInv, NEW op \in Ops, NEW after, Sound(after), IsFunction(after),
           NEW drop, NEW owed, NEW refused \in BOOLEAN,
           ~refused => GoodCopy(op, tree, after, drop),
           ~refused /\ op # "force" /\ Buildable(after) => owed = Validate(after),
           Command(op, after, drop, owed, refused)
    PROVE  AuthorInv'
<1> DEFINE writes == IF refused THEN {} ELSE ChangedPaths(tree, after)
           left == IF refused THEN {} ELSE drop
           c == [op |-> op, before |-> tree, after |-> after, owed |-> owed, refused |-> refused,
                 writes |-> writes, drop |-> left]
<1>1. /\ cmd' = c /\ tree' = tree /\ crashes' = crashes
      /\ edits' = IF refused THEN edits ELSE edits + 1
  BY DEF Command
<1>2. /\ c.op = op /\ c.before = tree /\ c.after = after /\ c.owed = owed /\ c.refused = refused
      /\ c.writes = writes /\ c.drop = left
  OBVIOUS
<1>3. CommandRecord(c)
  BY DEF CommandRecord
<1> HIDE DEF c
<1>4. Sound(tree) /\ NodesDistinct(tree) /\ edits \in Nat /\ crashes \in Nat
  BY DEF AuthorInv
<1>5. /\ writes \subseteq DOMAIN after /\ (refused => writes = {})
      /\ ~refused => \A p \in DOMAIN after : p \notin writes => p \in DOMAIN tree /\ tree[p] = after[p]
  BY DEF ChangedPaths
<1>6. left \subseteq DOMAIN tree
  BY DEF GoodCopy
<1> HIDE DEF writes, left
<1>7. ~refused => Writing(c)
  <2> SUFFICES ASSUME ~refused PROVE Writing(c)
    OBVIOUS
  <2>1. GoodCopy(op, tree, after, left)
    BY DEF left
  <2> QED
    BY <1>2, <1>5, <2>1 DEF Writing
<1>8. CommandFine(c)
  BY <1>2, <1>3, <1>4, <1>5, <1>6, <1>7 DEF CommandFine
<1>9. CommandFine(cmd)'
  BY <1>1, <1>8 DEF CommandFine, Writing, CommandRecord
<1>10. Sound(tree)' /\ NodesDistinct(tree)'
  BY <1>1, <1>4
<1> QED
  BY <1>1, <1>4, <1>9, <1>10 DEF AuthorInv

\* A command Report passes judgement on.
LEMMA SubmitStarts ==
    ASSUME AuthorInv, NEW op \in Ops, NEW after, Sound(after), IsFunction(after), NEW drop,
           ~Refused(tree, after) /\ Buildable(tree) /\ Buildable(after) =>
              GoodCopy(op, tree, after, drop),
           Submit(op, after, drop)
    PROVE  AuthorInv'
<1>1. CASE Refused(tree, after) /\ Command(op, after, drop, {}, TRUE)
  BY <1>1, CommandStarts
<1>2. CASE /\ ~Refused(tree, after) /\ Buildable(tree) /\ Buildable(after)
           /\ Command(op, after, drop, Validate(after), FALSE)
  BY <1>2, CommandStarts
<1> QED
  BY <1>1, <1>2 DEF Submit

\* What an add may be asked to refer to.
LEMMA RefInputsTyped ==
    ASSUME Sound(tree), NEW t \in Types, NEW x \in IDs, NEW refs \in RefInputs(t, x)
    PROVE  refs \in [Fields -> Seq(IDs)]
<1> DEFINE ids(f) == {x} \cup {At(tree, pl).id : pl \in {q \in Places(tree) : q[2] = Target[f]}}
           of(f) == {[NoRefs EXCEPT ![f] = <<y>>] : y \in ids(f)}
<1>1. RefInputs(t, x) = {NoRefs} \cup UNION {of(f) : f \in Refs[t]}
  BY DEF RefInputs
<1>2. \A f : ids(f) \subseteq IDs
  <2> TAKE f
  <2>1. \A pl \in Places(tree) : At(tree, pl).id \in Nodes(tree)
    BY DEF Nodes
  <2>2. Nodes(tree) \subseteq IDs
    BY NodeIsID
  <2> QED
    BY <2>1, <2>2
<1>3. ASSUME NEW f \in Refs[t], NEW r \in of(f)
      PROVE  r \in [Fields -> Seq(IDs)]
  <2>1. PICK y \in ids(f) : r = [NoRefs EXCEPT ![f] = <<y>>]
    BY <1>3
  <2>2. y \in IDs /\ f \in Fields
    BY <1>2, <2>1, FieldOfType
  <2> HIDE DEF ids
  <2>3. <<y>> \in Seq(IDs)
    BY <2>2
  <2> QED
    BY <2>1, <2>2, <2>3, NoRefsTyped
<1> HIDE DEF of, ids
<1>4. refs = NoRefs \/ \E f \in Refs[t] : refs \in of(f)
  BY <1>1
<1> QED
  BY <1>3, <1>4, NoRefsTyped

\* spex node add.
LEMMA AddNodeKeeps ==
    ASSUME AuthorInv, NEW d \in AllDirs, NEW t \in Types, NEW n \in Names, AddNode(d, t, n)
    PROVE  AuthorInv'
<1>1. /\ t \in TypesOf(d) /\ t # "module" /\ ~AddRejects(tree, d, t, n)
  BY DEF AddNode
<1>2. PICK refs \in RefInputs(t, ID(d, t, n)), val \in ValInputs(t) :
         Submit("add", AddTree(tree, d, t, n, val, refs), {})
  BY DEF AddNode
<1>3. Sound(tree) /\ NodesDistinct(tree)
  BY DEF AuthorInv
<1>4. d \in Docs(tree)
  BY <1>1 DEF AddRejects, Docs
<1>5. ID(d, t, n) \in IDs
  BY <1>1 DEF AllDirs, TypesOf, IDs
<1>6. refs \in [Fields -> Seq(IDs)]
  BY <1>2, <1>3, <1>5, RefInputsTyped
<1>7. val \in Vals \cup {None}
  BY <1>2 DEF ValInputs
<1> DEFINE after == AddTree(tree, d, t, n, val, refs)
<1>8. Sound(after)
  BY <1>1, <1>3, <1>4, <1>6, <1>7, AddEdits
<1>9. IsFunction(after)
  BY CopiesAreFunctions
<1>10. ~Refused(tree, after) /\ Buildable(tree) /\ Buildable(after) => GoodCopy("add", tree, after, {})
  BY <1>1, <1>3, <1>4, <1>6, <1>7, CopyOfAdd
<1>11. Submit("add", after, {}) /\ "add" \in Ops
  BY <1>2 DEF Ops
<1> HIDE DEF after
<1> QED
  BY <1>8, <1>9, <1>10, <1>11, SubmitStarts

\* spex node add --type module.
LEMMA AddModuleKeeps ==
    ASSUME AuthorInv, NEW d \in Dirs, AddModule(d)
    PROVE  AuthorInv'
<1> DEFINE after == AddModuleTree(tree, d)
<1>1. ~AddModuleRejects(tree, d) /\ Submit("module", after, {}) /\ "module" \in Ops
  BY DEF AddModule, Ops
<1>2. Sound(tree) /\ NodesDistinct(tree)
  BY DEF AuthorInv
<1>3. DocPath(d) \notin DOMAIN tree
  BY <1>1 DEF AddModuleRejects
<1>4. Sound(after)
  BY <1>2, <1>3, AddModuleEdits
<1>5. IsFunction(after)
  BY CopiesAreFunctions
<1>6. ~Refused(tree, after) /\ Buildable(tree) /\ Buildable(after) => GoodCopy("module", tree, after, {})
  BY <1>1, <1>2, CopyOfAddModule
<1> HIDE DEF after
<1> QED
  BY <1>1, <1>4, <1>5, <1>6, SubmitStarts

\* spex node remove.
LEMMA RemoveNodeKeeps ==
    ASSUME AuthorInv, NEW x \in Nodes(tree), RemoveNode(x)
    PROVE  AuthorInv'
<1> DEFINE after == RemoveTree(tree, x)
           drop == LeafPathsOf(tree, x)
<1>1. Submit("remove", after, drop) /\ "remove" \in Ops
  BY DEF RemoveNode, Ops
<1>2. Sound(tree) /\ NodesDistinct(tree)
  BY DEF AuthorInv
<1>3. Sound(after) /\ IsFunction(after)
  BY <1>2, RemoveEdits, CopiesAreFunctions
<1>4. Buildable(tree) => GoodCopy("remove", tree, after, drop)
  BY <1>2, CopyOfRemove
<1> HIDE DEF after, drop
<1> QED
  BY <1>1, <1>3, <1>4, SubmitStarts

\* ... --force.
LEMMA ForceRemoveKeeps ==
    ASSUME AuthorInv, NEW x \in Nodes(tree), ForceRemove(x)
    PROVE  AuthorInv'
<1> DEFINE after == RemoveTree(tree, x)
           drop == LeafPathsOf(tree, x)
           owed == Introduced(tree, after) \cup Owed(after)
<1>1. Buildable(tree) /\ Command("force", after, drop, owed, FALSE) /\ "force" \in Ops
  BY DEF ForceRemove, Ops
<1>2. Sound(tree) /\ NodesDistinct(tree)
  BY DEF AuthorInv
<1>3. Sound(after) /\ IsFunction(after)
  BY <1>2, RemoveEdits, CopiesAreFunctions
<1>4. GoodCopy("force", tree, after, drop)
  BY <1>1, <1>2, CopyOfRemove
<1> HIDE DEF after, drop, owed
<1> QED
  BY <1>1, <1>3, <1>4, CommandStarts

\* spex node set.
LEMMA SetNodeKeeps ==
    ASSUME AuthorInv, NEW x \in Nodes(tree), SetNode(x)
    PROVE  AuthorInv'
<1>1. PICK val \in Vals \cup {None} : Submit("set", SetTree(tree, x, val), {})
  BY DEF SetNode
<1> DEFINE after == SetTree(tree, x, val)
<1>2. Sound(tree) /\ NodesDistinct(tree) /\ "set" \in Ops
  BY DEF AuthorInv, Ops
<1>3. Sound(after) /\ LeavesStay(tree, after) /\ NodesDistinct(after)
  BY <1>2, SetEdits
<1>4. IsFunction(after)
  BY CopiesAreFunctions
<1> HIDE DEF after
<1>5. GoodCopy("set", tree, after, {})
  BY <1>3, CopyOfLeavesStay
<1>6. Submit("set", after, {})
  BY <1>1 DEF after
<1> QED
  BY <1>2, <1>3, <1>4, <1>5, <1>6, SubmitStarts

\* spex node rename.
LEMMA RenameNodeKeeps ==
    ASSUME AuthorInv, NEW x \in Nodes(tree), NEW n \in Names, RenameNode(x, n)
    PROVE  AuthorInv'
<1> DEFINE after == RenameTree(tree, x, n)
           drop == DOMAIN tree \ DOMAIN after
<1>1. /\ Submit("rename", after, drop) /\ "rename" \in Ops
      /\ ~IsModule(Found(tree, x)) /\ ~RenameRejects(tree, x, n)
  BY DEF RenameNode, Ops
<1>2. Sound(tree) /\ NodesDistinct(tree)
  BY DEF AuthorInv
<1>3. Sound(after) /\ IsFunction(after)
  BY <1>1, <1>2, RenameEdits, CopiesAreFunctions
<1>4. ~Refused(tree, after) /\ Buildable(tree) /\ Buildable(after) => GoodCopy("rename", tree, after, drop)
  BY <1>1, <1>2, CopyOfRename
<1> HIDE DEF after, drop
<1> QED
  BY <1>1, <1>3, <1>4, SubmitStarts

\* spex edge add.
LEMMA AddEdgeKeeps ==
    ASSUME AuthorInv, NEW x \in Nodes(tree), NEW f, NEW y \in Nodes(tree), AddEdge(x, f, y)
    PROVE  AuthorInv'
<1> DEFINE after == AddEdgeTree(tree, x, f, y)
<1>1. Submit("link", after, {}) /\ "link" \in Ops /\ f \in Refs[Found(tree, x)[2]]
  BY DEF AddEdge, AddEdgeRejects, Ops
<1>2. Sound(tree) /\ NodesDistinct(tree)
  BY DEF AuthorInv
<1>3. Sound(after) /\ LeavesStay(tree, after) /\ NodesDistinct(after)
  BY <1>1, <1>2, AddEdgeEdits
<1>4. IsFunction(after)
  BY CopiesAreFunctions
<1> HIDE DEF after
<1>5. GoodCopy("link", tree, after, {})
  BY <1>3, CopyOfLeavesStay
<1> QED
  BY <1>1, <1>3, <1>4, <1>5, SubmitStarts

\* spex edge remove.
LEMMA RemoveEdgeKeeps ==
    ASSUME AuthorInv, NEW x \in Nodes(tree), NEW f, NEW y, RemoveEdge(x, f, y)
    PROVE  AuthorInv'
<1> DEFINE after == RemoveEdgeTree(tree, x, f, y)
<1>1. Submit("unlink", after, {}) /\ "unlink" \in Ops /\ f \in Refs[Found(tree, x)[2]]
  BY DEF RemoveEdge, Ops
<1>2. Sound(tree) /\ NodesDistinct(tree)
  BY DEF AuthorInv
<1>3. Sound(after) /\ LeavesStay(tree, after) /\ NodesDistinct(after)
  BY <1>1, <1>2, RemoveEdgeEdits
<1>4. IsFunction(after)
  BY CopiesAreFunctions
<1> HIDE DEF after
<1>5. GoodCopy("unlink", tree, after, {})
  BY <1>3, CopyOfLeavesStay
<1> QED
  BY <1>1, <1>3, <1>4, <1>5, SubmitStarts

\* spex leaf scaffold.
LEMMA ScaffoldLeafKeeps ==
    ASSUME AuthorInv, NEW x \in Nodes(tree), ScaffoldLeaf(x)
    PROVE  AuthorInv'
<1> DEFINE path == LeafOf(tree, Found(tree, x))
           file == ScaffoldFile(tree, x)
           judged == With(PatchMissing(tree), path, file)
           real == With(tree, path, file)
           owed == Validate(judged) \cup (CheckContentPaths(real) \ CheckContentPaths(judged))
<1>1. ~ScaffoldRejects(tree, x) /\ Command("scaffold", real, {}, owed, FALSE) /\ "scaffold" \in Ops
  BY DEF ScaffoldLeaf, Ops
<1>2. Sound(tree) /\ NodesDistinct(tree)
  BY DEF AuthorInv
<1>3. /\ Sound(real) /\ SameDocs(tree, real)
      /\ DOMAIN real = DOMAIN tree \cup {path}
      /\ \A p \in DOMAIN tree : real[p] = tree[p]
  BY <1>1, <1>2, ScaffoldEdits
<1>4. IsFunction(real)
  BY CopiesAreFunctions
<1>5. Buildable(real) => judged = real
  BY <1>1, <1>2, ScaffoldJudgesResult
<1> HIDE DEF real, judged, path, file
<1>6. Buildable(real) => owed = Validate(real)
  BY <1>5
<1>7. NodesDistinct(real)
  BY <1>2, <1>3, DistinctByDocs
<1>8. {} = DOMAIN tree \ DOMAIN real
  BY <1>3
<1>9. GoodCopy("scaffold", tree, real, {})
  BY <1>3, <1>7, <1>8 DEF GoodCopy
<1> HIDE DEF owed
<1> QED
  BY <1>1, <1>3, <1>4, <1>6, <1>9, CommandStarts

\* A file written: the tree is a mix of the two trees still.
LEMMA WriteFileKeeps ==
    ASSUME AuthorInv, cmd # NoCommand, NEW path \in cmd.writes, WriteFile(path)
    PROVE  /\ AuthorInv'
           /\ cmd' = NoCommand => tree' = cmd.after
<1> DEFINE after == cmd.after
           file == after[path]
           new == With(tree, path, file)
<1>1. CommandFine(cmd) /\ Sound(tree) /\ NodesDistinct(tree) /\ edits \in Nat /\ crashes \in Nat
  BY DEF AuthorInv
<1>2. ~cmd.refused /\ Writing(cmd) /\ cmd.writes \subseteq DOMAIN after /\ Sound(after)
  BY <1>1 DEF CommandFine
<1>3. /\ GoodCopy(cmd.op, cmd.before, after, cmd.drop) /\ IsFunction(after)
      /\ DOMAIN cmd.before \subseteq DOMAIN tree
      /\ \A p \in DOMAIN after : p \notin cmd.writes => p \in DOMAIN tree /\ tree[p] = after[p]
      /\ \A p \in DOMAIN tree : \/ p \in DOMAIN after /\ p \notin cmd.writes
                                \/ p \in DOMAIN cmd.before /\ tree[p] = cmd.before[p]
  BY <1>2 DEF Writing
<1>4. tree' = new /\ edits' = edits /\ crashes' = crashes /\ path \in DOMAIN after
  BY <1>2 DEF WriteFile
<1>5. cmd' = IF cmd.writes = {path} /\ cmd.drop = {} THEN NoCommand ELSE [cmd EXCEPT !.writes = @ \ {path}]
  BY DEF WriteFile
<1> HIDE DEF after
<1>6. DOMAIN new = DOMAIN tree \cup {path} /\ new[path] = file /\ \A p \in DOMAIN tree : p # path => new[p] = tree[p]
  BY DEF With
<1>7. NodesDistinct(after)
  BY <1>3 DEF GoodCopy
<1>8. Sound(new) /\ NodesDistinct(new)
  <2>1. CASE path \in LeafPaths
    <3>1. file \in Leaf
      BY <1>2, <1>4, <2>1, PathsApart DEF Sound, IsTree
    <3> HIDE DEF file
    <3>2. Sound(With(tree, path, file)) /\ SameDocs(tree, With(tree, path, file))
      BY <1>1, <2>1, <3>1, LeafWritten, Zenon
    <3> QED
      BY <1>1, <3>2, DistinctByDocs
  <2>2. CASE path \notin LeafPaths
    <3>1. path \in DocPaths
      BY <1>2, <1>4, <2>2 DEF Sound, IsTree
    <3>2. PICK d \in AllDirs : path = DocPath(d)
      BY <3>1 DEF DocPaths, AllDirs
    <3>3. file \in DocFor(d) /\ OwnDoc(d, file)
      BY <1>2, <1>4, <1>7, <3>2, DistinctByDoc DEF Sound, DocsTyped, AllDirs
    <3> HIDE DEF file
    <3>4. Sound(With(tree, DocPath(d), file))
      BY <1>1, <3>3, DocWritten, Zenon
    <3>5. ASSUME NEW c \in AllDirs, DocPath(c) \in DOMAIN new
          PROVE  OwnDoc(c, new[DocPath(c)])
      <4>1. CASE c = d
        BY <1>6, <3>2, <3>3, <4>1
      <4>2. CASE c # d
        <5>1. DocPath(c) # path
          BY <3>2, <4>2, PathsApart
        <5> QED
          BY <1>1, <1>6, <3>5, <5>1, DistinctByDoc
      <4> QED
        BY <4>1, <4>2
    <3>6. NodesDistinct(new)
      BY <3>5, DistinctByDoc
    <3> QED
      BY <3>2, <3>4, <3>6
  <2> QED
    BY <2>1, <2>2
<1> HIDE DEF file, new
<1>9. CASE cmd.writes = {path} /\ cmd.drop = {}
  <2>1. cmd' = NoCommand
    BY <1>5, <1>9
  <2>2. tree' = after
    <3>1. \A p \in DOMAIN after : p # path => p \in DOMAIN tree /\ tree[p] = after[p]
      BY <1>3, <1>9
    <3>2. DOMAIN cmd.before \subseteq DOMAIN after
      BY <1>3, <1>9 DEF GoodCopy
    <3>3. DOMAIN tree \subseteq DOMAIN after
      BY <1>3, <3>2
    <3>4. DOMAIN tree \cup {path} = DOMAIN after
      BY <1>4, <3>1, <3>3
    <3>5. new = [p \in DOMAIN after |-> after[p]]
      BY <3>1, <3>4 DEF new, With, file
    <3> QED
      BY <1>3, <1>4, <3>5 DEF IsFunction
  <2>3. AuthorInv'
    BY <1>1, <1>4, <1>8, <2>1 DEF AuthorInv, Sound, IsTree, DocsTyped, NodesDistinct
  <2> QED
    BY <2>1, <2>2, <2>3 DEF after
<1>10. CASE ~(cmd.writes = {path} /\ cmd.drop = {})
  <2> DEFINE c == [cmd EXCEPT !.writes = @ \ {path}]
             rest == cmd.writes \ {path}
  <2>1. cmd' = c
    BY <1>5, <1>10
  <2>2. /\ CommandRecord(c) /\ c.op = cmd.op /\ c.before = cmd.before /\ c.after = after
        /\ c.owed = cmd.owed /\ c.refused = cmd.refused /\ c.writes = rest /\ c.drop = cmd.drop
    BY <1>1 DEF CommandFine, CommandRecord, after
  <2> HIDE DEF c
  <2>3. c # NoCommand
    BY <1>1, <2>2 DEF CommandFine, NoCommand, Ops
  <2>4. /\ DOMAIN cmd.before \subseteq DOMAIN new
        /\ \A p \in DOMAIN after : p \notin rest => p \in DOMAIN new /\ new[p] = after[p]
        /\ \A p \in DOMAIN new : \/ p \in DOMAIN after /\ p \notin rest
                                 \/ p \in DOMAIN cmd.before /\ new[p] = cmd.before[p]
    BY <1>3, <1>4, <1>6 DEF file
  <2>5. cmd.op # "force" /\ Buildable(after) => cmd.owed = Validate(after)
    BY <1>2 DEF Writing, after
  <2>6. Writing(cmd)'
    BY <1>3, <1>4, <2>1, <2>2, <2>4, <2>5 DEF Writing
  <2>7. CommandFine(cmd)'
    <3>1. Sound(cmd.before) /\ Sound(after) /\ cmd.op \in Ops /\ cmd.drop \subseteq DOMAIN cmd.before
      BY <1>1 DEF CommandFine, after
    <3>2. CommandRecord(c) /\ c.op \in Ops /\ c.refused \in BOOLEAN
      BY <1>1, <2>2 DEF CommandFine
    <3>3. rest \subseteq DOMAIN after
      BY <1>2
    <3> QED
      BY <1>2, <2>1, <2>2, <2>6, <3>1, <3>2, <3>3 DEF CommandFine, CommandRecord, Sound, IsTree, DocsTyped
  <2>8. AuthorInv'
    BY <1>1, <1>4, <1>8, <2>7 DEF AuthorInv, Sound, IsTree, DocsTyped, NodesDistinct
  <2> QED
    BY <2>1, <2>3, <2>8
<1> QED
  BY <1>9, <1>10

-----------------------------------------------------------------------------
(* The other steps, and the invariant. *)

\* The moved or retired leaf removed: the tree is the copy.
LEMMA RemoveFileKeeps ==
    ASSUME AuthorInv, RemoveFile
    PROVE  AuthorInv' /\ tree' = cmd.after
<1> DEFINE after == cmd.after
           drop == cmd.drop
<1>1. /\ CommandFine(cmd) /\ Sound(tree) /\ NodesDistinct(tree) /\ edits \in Nat /\ crashes \in Nat
      /\ ~cmd.refused /\ cmd.writes = {}
      /\ tree' = Without(tree, drop) /\ cmd' = NoCommand /\ edits' = edits /\ crashes' = crashes
  BY DEF AuthorInv, RemoveFile
<1>2. Writing(cmd)
  BY <1>1 DEF CommandFine
<1>3. /\ IsFunction(after) /\ drop = DOMAIN cmd.before \ DOMAIN after /\ drop \subseteq LeafPaths
      /\ DOMAIN cmd.before \subseteq DOMAIN tree
      /\ \A p \in DOMAIN after : p \in DOMAIN tree /\ tree[p] = after[p]
      /\ \A p \in DOMAIN tree : p \in DOMAIN after \/ p \in DOMAIN cmd.before
  BY <1>1, <1>2 DEF Writing, GoodCopy
<1> HIDE DEF after, drop
<1>4. DOMAIN tree \ drop = DOMAIN after
  BY <1>3
<1>5. Without(tree, drop) = [p \in DOMAIN after |-> after[p]]
  BY <1>3, <1>4 DEF Without
<1>6. tree' = after
  BY <1>1, <1>3, <1>5 DEF IsFunction
<1>7. Sound(Without(tree, drop)) /\ SameDocs(tree, Without(tree, drop))
  BY <1>1, <1>3, LeavesRemoved
<1>8. NodesDistinct(Without(tree, drop))
  BY <1>1, <1>7, DistinctByDocs
<1>9. AuthorInv'
  BY <1>1, <1>7, <1>8 DEF AuthorInv, Sound, IsTree, DocsTyped, NodesDistinct
<1> QED
  BY <1>6, <1>9 DEF after

\* An author writes into a skeleton.
LEMMA WriteProseKeeps ==
    ASSUME AuthorInv, NEW pl \in WithLeaf(tree), WriteProse(pl)
    PROVE  AuthorInv'
<1> DEFINE path == LeafOf(tree, pl)
<1>1. /\ Sound(tree) /\ NodesDistinct(tree) /\ edits \in Nat /\ crashes \in Nat
      /\ cmd = NoCommand /\ path \in DOMAIN tree
      /\ edits' = edits + 1 /\ cmd' = cmd /\ crashes' = crashes
  BY DEF AuthorInv, WriteProse, Idle
<1>2. PICK text \in Proses \ ProseOf(tree), x \in NodeIDs(tree) :
        tree' = [tree EXCEPT ![path] = [prose |-> text, links |-> {x}]]
  BY DEF WriteProse
<1> DEFINE file == [prose |-> text, links |-> {x}]
<1>3. path \in LeafPaths
  BY <1>1, LeafParts
<1>4. x \in IDs
  <2>1. x \in Nodes(tree)
    BY <1>2 DEF NodeIDs, Nodes
  <2> QED
    BY <1>1, <2>1, NodeIsID
<1>5. file \in Leaf
  BY <1>2, <1>4 DEF Leaf
<1> HIDE DEF path, file
<1>6. tree' = With(tree, path, file)
  <2>1. DOMAIN tree \cup {path} = DOMAIN tree
    BY <1>1
  <2>2. tree' = [p \in DOMAIN tree |-> IF p = path THEN file ELSE tree[p]]
    BY <1>2 DEF file
  <2> QED
    BY <2>1, <2>2 DEF With
<1>7. Sound(With(tree, path, file)) /\ SameDocs(tree, With(tree, path, file))
  BY <1>1, <1>3, <1>5, LeafWritten, Zenon
<1>8. NodesDistinct(With(tree, path, file))
  BY <1>1, <1>7, DistinctByDocs
<1> HIDE DEF file
<1> QED
  BY <1>1, <1>6, <1>7, <1>8 DEF AuthorInv, Sound, IsTree, DocsTyped, NodesDistinct

\* A command refused, and one that dies.
LEMMA StopKeeps ==
    ASSUME AuthorInv, Refuse \/ Crash
    PROVE  AuthorInv'
<1>1. /\ Sound(tree) /\ NodesDistinct(tree) /\ edits \in Nat /\ crashes \in Nat
      /\ tree' = tree /\ cmd' = NoCommand /\ edits' = edits
      /\ crashes' = crashes \/ crashes' = crashes + 1
  BY DEF AuthorInv, Refuse, Crash
<1> QED
  BY <1>1 DEF AuthorInv, Sound, IsTree, DocsTyped, NodesDistinct

\* Every step keeps the invariant.
LEMMA AuthorStep == AuthorInv /\ [Next]_vars => AuthorInv'
<1> SUFFICES ASSUME AuthorInv, [Next]_vars PROVE AuthorInv'
  OBVIOUS
<1>1. CASE UNCHANGED vars
  BY <1>1 DEF vars, AuthorInv, CommandFine, CommandRecord, Writing, Sound, IsTree, DocsTyped, NodesDistinct
<1>2. CASE Next
  <2>1. ASSUME NEW d \in Dirs \cup {ProjectDir}, NEW t \in Types, NEW n \in Names, AddNode(d, t, n)
        PROVE  AuthorInv'
    BY <2>1, AddNodeKeeps DEF AllDirs
  <2>2. ASSUME NEW d \in Dirs, AddModule(d) PROVE AuthorInv'
    BY <2>2, AddModuleKeeps
  <2>3. ASSUME NEW x \in Nodes(tree), RemoveNode(x) PROVE AuthorInv'
    BY <2>3, RemoveNodeKeeps
  <2>4. ASSUME NEW x \in Nodes(tree), ForceRemove(x) PROVE AuthorInv'
    BY <2>4, ForceRemoveKeeps
  <2>5. ASSUME NEW x \in Nodes(tree), SetNode(x) PROVE AuthorInv'
    BY <2>5, SetNodeKeeps
  <2>6. ASSUME NEW x \in Nodes(tree), ScaffoldLeaf(x) PROVE AuthorInv'
    BY <2>6, ScaffoldLeafKeeps
  <2>7. ASSUME NEW x \in Nodes(tree), NEW n \in Names, RenameNode(x, n) PROVE AuthorInv'
    BY <2>7, RenameNodeKeeps
  <2>8. ASSUME NEW x \in Nodes(tree), NEW f \in Fields, NEW y \in Nodes(tree), AddEdge(x, f, y)
        PROVE  AuthorInv'
    BY <2>8, AddEdgeKeeps
  <2>9. ASSUME NEW x \in Nodes(tree), NEW f \in Fields,
               NEW y \in Range(At(tree, Found(tree, x)).refs[f]), RemoveEdge(x, f, y)
        PROVE  AuthorInv'
    BY <2>9, RemoveEdgeKeeps
  <2>10. ASSUME Refuse \/ RemoveFile \/ Crash PROVE AuthorInv'
    BY <2>10, StopKeeps, RemoveFileKeeps
  <2>11. ASSUME cmd # NoCommand, NEW path \in cmd.writes, WriteFile(path) PROVE AuthorInv'
    BY <2>11, WriteFileKeeps
  <2>12. ASSUME NEW pl \in WithLeaf(tree), WriteProse(pl) PROVE AuthorInv'
    BY <2>12, WriteProseKeeps
  <2> QED
    BY <1>2, <2>1, <2>2, <2>3, <2>4, <2>5, <2>6, <2>7, <2>8, <2>9, <2>10, <2>11, <2>12 DEF Next
<1> QED
  BY <1>1, <1>2

\* The tree is sound at every step, and half-written it is still made of files
\* of the tree a command found and of the copy it was judged on.
THEOREM SpecStaysSound == Spec => []AuthorInv
<1>1. Init => AuthorInv
  BY InitialAssumption DEF Init, AuthorInv, Sound
<1> QED
  BY <1>1, AuthorStep, PTL DEF Spec

\* Every file of the tree, and of the trees a command holds, is of its type.
THEOREM AuthorTypes == Spec => []TypeOK
<1>1. AuthorInv => TypeOK
  <2> SUFFICES ASSUME AuthorInv PROVE TypeOK
    OBVIOUS
  <2>1. cmd # NoCommand => CommandFine(cmd)
    BY DEF AuthorInv
  <2>2. cmd # NoCommand => /\ cmd.op \in Ops /\ IsTree(cmd.before) /\ IsTree(cmd.after)
                           /\ cmd.writes \subseteq DOMAIN cmd.after
                           /\ cmd.drop \subseteq DOMAIN cmd.before /\ cmd.refused \in BOOLEAN
    BY <2>1 DEF CommandFine, Sound
  <2> QED
    BY <2>2 DEF AuthorInv, Sound, TypeOK
<1> QED
  BY <1>1, SpecStaysSound, PTL

\* A node has its leaf to itself.
LEMMA LeafIsOwn ==
    ASSUME NEW fs, Sound(fs), NodesDistinct(fs), NEW p \in WithLeaf(fs), NEW q \in WithLeaf(fs),
           LeafOf(fs, p) = LeafOf(fs, q)
    PROVE  p = q
<1>1. /\ p \in Places(fs) /\ p[2] \in ContentTypes /\ p[1] \in Dirs
      /\ LeafOf(fs, p) = LeafPath(p[1], p[2], At(fs, p).slug)
  BY LeafParts
<1>2. /\ q \in Places(fs) /\ q[2] \in ContentTypes /\ q[1] \in Dirs
      /\ LeafOf(fs, q) = LeafPath(q[1], q[2], At(fs, q).slug)
  BY LeafParts
<1>3. p[1] = q[1]
  <2>1. \A d, e, t, u, i, k : LeafPath(d, t, i) = LeafPath(e, u, k) => d = e
    BY DEF LeafPath
  <2>2. LeafPath(p[1], p[2], At(fs, p).slug) = LeafPath(q[1], q[2], At(fs, q).slug)
    BY <1>1, <1>2
  <2> QED
    BY <2>1, <2>2, Zenon
<1> DEFINE d == p[1]
           doc == fs[DocPath(d)]
<1>4. OwnLeaves(d, doc)
  <2>1. d \in AllDirs /\ DocPath(d) \in DOMAIN fs
    BY <1>1, PlaceParts
  <2> HIDE DEF d
  <2>2. OwnDoc(d, fs[DocPath(d)])
    BY <2>1, DistinctByDoc
  <2> QED
    BY <2>2 DEF OwnDoc
<1>5. /\ p[3] \in DOMAIN doc[p[2]] /\ At(fs, p) = doc[p[2]][p[3]]
      /\ q[3] \in DOMAIN doc[q[2]] /\ At(fs, q) = doc[q[2]][q[3]]
      /\ p = <<p[1], p[2], p[3]>> /\ q = <<q[1], q[2], q[3]>>
  BY <1>1, <1>2, <1>3, PlaceParts DEF Entries
<1>6. p[2] = q[2] /\ p[3] = q[3]
  <2>1. LeafPath(d, p[2], doc[p[2]][p[3]].slug) = LeafPath(d, q[2], doc[q[2]][q[3]].slug)
    BY <1>1, <1>2, <1>3, <1>5
  <2>2. p[3] \in DOMAIN doc[p[2]] /\ q[3] \in DOMAIN doc[q[2]]
    BY <1>5
  <2> HIDE DEF d, doc
  <2> QED
    BY <1>1, <1>2, <1>4, <2>1, <2>2 DEF OwnLeaves
<1> QED
  BY <1>3, <1>5, <1>6

\* No two nodes own one leaf, crashes and forced removals included: add never
\* takes a leaf's place that is taken, rename neither.
THEOREM LeavesStayApart == Spec => []LeavesNotShared
<1>1. AuthorInv => LeavesNotShared
  BY LeafIsOwn DEF AuthorInv, LeavesNotShared
<1> QED
  BY <1>1, SpecStaysSound, PTL

-----------------------------------------------------------------------------
(* What a step does to the prose, and what a command that ends leaves.      *)

\* A step with no file operation in it starts or ends a command.
LEMMA StepsOf ==
    ASSUME [Next]_vars
    PROVE  \/ tree' = tree /\ (cmd # NoCommand => cmd' # NoCommand \/ cmd.refused \/ crashes' = crashes + 1)
           \/ RemoveFile
           \/ cmd # NoCommand /\ \E path \in cmd.writes : WriteFile(path)
           \/ \E pl \in WithLeaf(tree) : WriteProse(pl)
<1> DEFINE Started == tree' = tree /\ cmd = NoCommand
<1>1. CASE UNCHANGED vars
  BY <1>1 DEF vars
<1>2. ASSUME NEW op, NEW after, NEW drop, Idle, Submit(op, after, drop)
      PROVE  Started
  BY <1>2 DEF Submit, Command, Idle
<1>3. ASSUME NEW op, NEW after, NEW drop, NEW owed, NEW refused, Idle,
             Command(op, after, drop, owed, refused)
      PROVE  Started
  BY <1>3 DEF Command, Idle
<1>4. ASSUME NEW d, NEW t, NEW n, AddNode(d, t, n) PROVE Started
  BY <1>2, <1>4 DEF AddNode
<1>5. ASSUME NEW d, AddModule(d) PROVE Started
  BY <1>2, <1>5 DEF AddModule
<1>6. ASSUME NEW x, RemoveNode(x) PROVE Started
  BY <1>2, <1>6 DEF RemoveNode
<1>7. ASSUME NEW x, ForceRemove(x) PROVE Started
  BY <1>3, <1>7 DEF ForceRemove
<1>8. ASSUME NEW x, SetNode(x) PROVE Started
  BY <1>2, <1>8 DEF SetNode
<1>9. ASSUME NEW x, NEW n, RenameNode(x, n) PROVE Started
  BY <1>2, <1>9 DEF RenameNode
<1>10. ASSUME NEW x, NEW f, NEW y, AddEdge(x, f, y) PROVE Started
  BY <1>2, <1>10 DEF AddEdge
<1>11. ASSUME NEW x, NEW f, NEW y, RemoveEdge(x, f, y) PROVE Started
  BY <1>2, <1>11 DEF RemoveEdge
<1>12. ASSUME NEW x, ScaffoldLeaf(x) PROVE Started
  BY <1>3, <1>12 DEF ScaffoldLeaf
<1>13. CASE Refuse
  BY <1>13 DEF Refuse
<1>14. CASE Crash
  BY <1>14 DEF Crash
<1> HIDE DEF Started
<1>15. CASE Next
  <2>1. \/ Started \/ Refuse \/ Crash \/ RemoveFile
        \/ cmd # NoCommand /\ \E path \in cmd.writes : WriteFile(path)
        \/ \E pl \in WithLeaf(tree) : WriteProse(pl)
    BY <1>4, <1>5, <1>6, <1>7, <1>8, <1>9, <1>10, <1>11, <1>12, <1>15, Zenon DEF Next
  <2>2. Started => tree' = tree /\ cmd = NoCommand
    BY DEF Started
  <2> QED
    BY <1>13, <1>14, <2>1, <2>2
<1> QED
  BY <1>1, <1>15

\* A text in a leaf is among the tree's.
LEMMA ProseIs ==
    ASSUME NEW fs, NEW text
    PROVE  text \in ProseOf(fs) <=>
             text # None /\ \E q \in DOMAIN fs \cap LeafPaths : fs[q].prose = text
BY DEF ProseOf

\* A file written keeps every text there is: a leaf that is on disk already
\* holds the text the copy holds.
LEMMA WriteFileProse ==
    ASSUME AuthorInv, cmd # NoCommand, NEW path \in cmd.writes, WriteFile(path)
    PROVE  ProseOf(tree) \subseteq ProseOf(tree')
<1> DEFINE after == cmd.after
           before == cmd.before
           new == With(tree, path, after[path])
<1>1. CommandFine(cmd) /\ tree' = new
  BY DEF AuthorInv, WriteFile
<1>2. Writing(cmd)
  BY <1>1 DEF CommandFine
<1>3. /\ path \in DOMAIN after
      /\ \A p \in LeafPaths : p \in DOMAIN before /\ p \in DOMAIN after => after[p].prose = before[p].prose
      /\ path \in DOMAIN tree => path \in DOMAIN before /\ tree[path] = before[path]
  BY <1>1, <1>2 DEF CommandFine, Writing, GoodCopy
<1> HIDE DEF after, before
<1>4. DOMAIN new = DOMAIN tree \cup {path} /\ new[path] = after[path] /\ \A p \in DOMAIN tree : p # path => new[p] = tree[p]
  BY DEF With
<1> HIDE DEF new
<1>5. ASSUME NEW q \in DOMAIN tree \cap LeafPaths
      PROVE  q \in DOMAIN new \cap LeafPaths /\ new[q].prose = tree[q].prose
  BY <1>3, <1>4
<1>6. \A text \in ProseOf(tree) : text \in ProseOf(new)
  BY <1>5, ProseIs
<1> QED
  BY <1>1, <1>6

\* The leaf removed last was its node's, or its text is in the leaf's new place.
LEMMA RemoveFileProse ==
    ASSUME AuthorInv, RemoveFile
    PROVE  ProseOf(tree) \subseteq ProseOf(tree') \cup
             (IF cmd # NoCommand /\ cmd.op \in {"remove", "force"}
              THEN ProseOf([p \in cmd.drop |-> cmd.before[p]]) ELSE {})
<1> DEFINE after == cmd.after
           before == cmd.before
           drop == cmd.drop
           new == Without(tree, drop)
           dropped == [p \in drop |-> before[p]]
<1>1. CommandFine(cmd) /\ tree' = new /\ cmd.writes = {} /\ cmd # NoCommand /\ ~cmd.refused
  BY DEF AuthorInv, RemoveFile
<1>2. Writing(cmd)
  BY <1>1 DEF CommandFine
<1>3. /\ drop = DOMAIN before \ DOMAIN after /\ drop \subseteq LeafPaths
      /\ cmd.op \notin {"remove", "force"} =>
           \A p \in drop : \E q \in DOMAIN after \cap LeafPaths : after[q].prose = before[p].prose
      /\ \A p \in DOMAIN after : p \in DOMAIN tree /\ tree[p] = after[p]
      /\ \A p \in DOMAIN tree : p \in DOMAIN after \/ tree[p] = before[p]
  BY <1>1, <1>2 DEF Writing, GoodCopy
<1> HIDE DEF after, before, drop
<1>4. DOMAIN new = DOMAIN tree \ drop /\ \A p \in DOMAIN new : new[p] = tree[p]
  BY DEF Without
<1>5. DOMAIN dropped = drop /\ \A p \in drop : dropped[p] = before[p]
  OBVIOUS
<1> HIDE DEF new, dropped
<1>6. ASSUME NEW text, text # None, NEW q \in DOMAIN tree \cap LeafPaths, tree[q].prose = text
      PROVE  text \in ProseOf(new) \/ (cmd.op \in {"remove", "force"} /\ text \in ProseOf(dropped))
  <2>1. CASE q \notin drop
    BY <1>4, <1>6, <2>1, ProseIs
  <2>2. CASE q \in drop
    <3>1. before[q].prose = text
      BY <1>3, <1>6, <2>2
    <3>2. CASE cmd.op \in {"remove", "force"}
      BY <1>5, <1>6, <2>2, <3>1, <3>2, ProseIs
    <3>3. CASE cmd.op \notin {"remove", "force"}
      <4>1. PICK r \in DOMAIN after \cap LeafPaths : after[r].prose = text
        BY <1>3, <2>2, <3>1, <3>3
      <4>2. r \in DOMAIN new \cap LeafPaths /\ new[r].prose = text
        BY <1>3, <1>4, <4>1
      <4> QED
        BY <1>6, <4>2, ProseIs
    <3> QED
      BY <3>2, <3>3
  <2> QED
    BY <2>1, <2>2
<1>7. \A text \in ProseOf(tree) :
        text \in ProseOf(new) \/ (cmd.op \in {"remove", "force"} /\ text \in ProseOf(dropped))
  BY <1>6, ProseIs
<1>8. [p \in cmd.drop |-> cmd.before[p]] = dropped
  BY DEF dropped, drop, before
<1> QED
  BY <1>1, <1>7, <1>8

\* A text is only written where there is none.
LEMMA WriteProseProse ==
    ASSUME NEW pl \in WithLeaf(tree), WriteProse(pl)
    PROVE  ProseOf(tree) \subseteq ProseOf(tree')
<1> DEFINE path == LeafOf(tree, pl)
<1>1. path \in DOMAIN tree /\ tree[path].prose = None
  BY DEF WriteProse
<1>2. PICK file : tree' = [tree EXCEPT ![path] = file]
  BY DEF WriteProse
<1> HIDE DEF path
<1>3. DOMAIN tree' = DOMAIN tree /\ \A p \in DOMAIN tree : p # path => tree'[p] = tree[p]
  BY <1>2
<1>4. ASSUME NEW text \in ProseOf(tree)
      PROVE  text \in ProseOf(tree')
  <2>1. PICK q \in DOMAIN tree \cap LeafPaths : tree[q].prose = text
    BY ProseIs
  <2>2. text # None /\ q # path
    BY <1>1, <2>1, ProseIs
  <2> DEFINE new == tree'
  <2>3. q \in DOMAIN new \cap LeafPaths /\ new[q].prose = text
    BY <1>3, <2>1, <2>2
  <2> HIDE DEF new
  <2>4. text \in ProseOf(new)
    BY <2>2, <2>3, ProseIs
  <2> QED
    BY <2>4 DEF new
<1> QED
  BY <1>4

\* What an author wrote is only lost with the node it belongs to: no file
\* operation of a command overwrites it, however the command is cut short.
THEOREM ProseIsKept == Spec => ProseSurvives
<1>1. ASSUME AuthorInv, [Next]_vars
      PROVE  [ProseOf(tree) \subseteq ProseOf(tree') \cup
                (IF cmd # NoCommand /\ cmd.op \in {"remove", "force"}
                 THEN ProseOf([p \in cmd.drop |-> cmd.before[p]]) ELSE {})]_vars
  <2>1. CASE tree' = tree
    BY <2>1
  <2>2. CASE RemoveFile
    BY <1>1, <2>2, RemoveFileProse
  <2>3. CASE cmd # NoCommand /\ \E path \in cmd.writes : WriteFile(path)
    BY <1>1, <2>3, WriteFileProse
  <2>4. CASE \E pl \in WithLeaf(tree) : WriteProse(pl)
    BY <2>4, WriteProseProse
  <2> QED
    BY <1>1, <2>1, <2>2, <2>3, <2>4, StepsOf
<1> QED
  BY <1>1, SpecStaysSound, PTL DEF Spec, ProseSurvives

\* A command that runs to its end leaves the copy it was judged on.
LEMMA CompletedIsCopy ==
    ASSUME AuthorInv, [Next]_vars, Completes
    PROVE  tree' = cmd.after
<1>1. cmd # NoCommand /\ ~cmd.refused /\ cmd' = NoCommand /\ crashes' = crashes
  BY DEF Completes
<1>2. crashes' # crashes + 1
  BY <1>1 DEF AuthorInv
<1>3. ~\E pl \in WithLeaf(tree) : WriteProse(pl)
  BY <1>1 DEF WriteProse, Idle
<1>4. RemoveFile \/ \E path \in cmd.writes : WriteFile(path)
  BY <1>1, <1>2, <1>3, StepsOf
<1> QED
  BY <1>1, <1>4, RemoveFileKeeps, WriteFileKeeps

\* What a command that ends reported is what the validator finds on disk.
THEOREM ReportIsTrue == Spec => ReportTellsAll
<1>1. ASSUME AuthorInv, [Next]_vars
      PROVE  [Completes /\ cmd.op # "force" /\ Buildable(tree') => cmd.owed = Validate(tree')]_vars
  <2> SUFFICES ASSUME Completes, cmd.op # "force", Buildable(tree')
               PROVE  cmd.owed = Validate(tree')
    OBVIOUS
  <2>1. cmd # NoCommand /\ ~cmd.refused
    BY DEF Completes
  <2>2. tree' = cmd.after
    BY <1>1, CompletedIsCopy
  <2>3. Buildable(cmd.after) => cmd.owed = Validate(cmd.after)
    BY <1>1, <2>1 DEF AuthorInv, CommandFine, Writing
  <2> QED
    BY <2>2, <2>3
<1> QED
  BY <1>1, SpecStaysSound, PTL DEF Spec, ReportTellsAll
=============================================================================
