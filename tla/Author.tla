------------------------------- MODULE Author -------------------------------
(***************************************************************************)
(* The author package: every command applies its change to a copy of the    *)
(* tree, has the validator judge the copy, and writes the changed files     *)
(* one after the other.  A command that is refused, fails or changes        *)
(* nothing takes no step here: nothing is written.                          *)
(***************************************************************************)
EXTENDS SpecTree

CONSTANTS
    Dirs,               \* the module directories
    Proses,             \* texts an author writes into a leaf
    InitialTrees,
    MaxEdits,           \* bound: commands and hand edits
    MaxCrashes          \* bound: crashes between two file operations

VARIABLES
    tree,               \* the spec directory
    cmd,                \* the command that is writing, or NoCommand
    edits,
    crashes

vars == <<tree, cmd, edits, crashes>>

IDs == {ID(d, t, n) : d \in Dirs, t \in ModuleScoped, n \in Names}
       \cup {ID(ProjectDir, t, n) : t \in ProjectTypes, n \in Names \cup Dirs}

NodeEntry == [id: IDs, name: Names \cup Dirs, slug: Range(Slug) \cup {0},
              val: Vals \cup {None}, refs: [Fields -> Seq(IDs)]]
Doc  == [Types -> Seq(NodeEntry)]
Leaf == [prose: Proses \cup {None}, links: SUBSET IDs]
DocPaths == {DocPath(d) : d \in Dirs \cup {ProjectDir}}
LeafPaths == {LeafPath(d, t, s) : d \in Dirs, t \in ContentTypes, s \in Range(Slug)}

IsTree(fs) ==
    /\ ProjectPath \in DOMAIN fs
    /\ DOMAIN fs \subseteq DocPaths \cup LeafPaths
    /\ \A p \in DOMAIN fs : fs[p] \in IF p \in DocPaths THEN Doc ELSE Leaf

NoCommand == [op |-> "none"]
Ops == {"add", "module", "remove", "force", "set", "rename", "link", "unlink", "scaffold"}

TypeOK ==
    /\ IsTree(tree)
    /\ cmd # NoCommand =>
          /\ cmd.op \in Ops
          /\ IsTree(cmd.before) /\ IsTree(cmd.after)
          /\ cmd.writes \subseteq DOMAIN cmd.after
          /\ cmd.drop \subseteq DOMAIN cmd.before /\ cmd.refused \in BOOLEAN
    /\ edits \in Nat /\ crashes \in Nat

-----------------------------------------------------------------------------
(* What a spec brings along: ids and leaves that are its nodes' own.        *)

\* Entries stand where their type belongs, and those of a type with leaves
\* name one.
DocFor(d) ==
    {doc \in Doc : \A t \in Types :
        /\ t \notin TypesOf(d) => doc[t] = <<>>
        /\ \A i \in DOMAIN doc[t] : /\ t = "module" => doc[t][i].name \in Dirs
                                    /\ t \in ContentTypes => doc[t][i].slug \in Range(Slug)}

DocsTyped(fs) ==
    \A d \in Dirs \cup {ProjectDir} : DocPath(d) \in DOMAIN fs => fs[DocPath(d)] \in DocFor(d)

OwnIDs(doc) ==
    \A t \in Types : \A i, k \in DOMAIN doc[t] : doc[t][i].id = doc[t][k].id => i = k

OwnLeaves(d, doc) ==
    \A t, u \in ContentTypes : \A i \in DOMAIN doc[t], k \in DOMAIN doc[u] :
        LeafPath(d, t, doc[t][i].slug) = LeafPath(d, u, doc[u][k].slug) => t = u /\ i = k

NodesDistinct(fs) ==
    \A d \in Dirs \cup {ProjectDir} : DocPath(d) \in DOMAIN fs =>
        OwnIDs(fs[DocPath(d)]) /\ OwnLeaves(d, fs[DocPath(d)])

\* No path is two files', only modules' nodes have leaves, a reference field
\* points at a type, and an id is a number for the hash's place in the order of
\* the strings.
ASSUME AuthorAssumption ==
    /\ ProjectDir \notin Dirs /\ ProjectRank \notin Dirs
    /\ ModuleScoped \subseteq Types /\ "module" \in ProjectTypes
    /\ ContentTypes \subseteq ModuleScoped
    /\ \A t \in ContentTypes : PrefixRank[t] # ModuleFileRank
    /\ Names \cup Dirs \subseteq DOMAIN Slug
    /\ None \notin IDs /\ IDs \subseteq Nat
    /\ \A t \in Types : \A f \in Refs[t] : Target[f] \in Types
    /\ \A tf \in Acyclic : tf[1] \in Types /\ tf[2] \in Refs[tf[1]]

\* No two nodes' hashes are the same.
ASSUME HashAssumption ==
    \A d, e \in Dirs \cup {ProjectDir}, t, u \in Types, n, m \in Names \cup Dirs :
        ID(d, t, n) = ID(e, u, m) => d = e /\ t = u /\ n = m

ASSUME InitialAssumption == \A fs \in InitialTrees : IsTree(fs) /\ DocsTyped(fs) /\ NodesDistinct(fs)

-----------------------------------------------------------------------------
(* locateNode, and the edits of one document.                              *)
Located(fs, x) == {pl \in Places(fs) : At(fs, pl).id = x}
Found(fs, x) == CHOOSE pl \in Located(fs, x) : \A q \in Located(fs, x) : pl[3] <= q[3]
IsModule(pl) == pl[2] = "module"

With(fs, path, file) == [p \in DOMAIN fs \cup {path} |-> IF p = path THEN file ELSE fs[p]]
Without(fs, paths) == [p \in DOMAIN fs \ paths |-> fs[p]]
SetEntries(fs, d, t, es) ==
    With(fs, DocPath(d), [u \in Types |-> IF u = t THEN es ELSE Entries(fs, d, u)])
SetEntry(fs, pl, e) ==
    LET es == Entries(fs, pl[1], pl[2])
    IN  SetEntries(fs, pl[1], pl[2], [i \in DOMAIN es |-> IF i = pl[3] THEN e ELSE es[i]])

\* The elements of s at the places K, one after the other.
Kept(s, K) ==
    LET kept[n \in 0 .. Len(s)] ==
            IF n = 0 THEN <<>>
            ELSE IF n \in K THEN Append(kept[n - 1], s[n]) ELSE kept[n - 1]
    IN  kept[Len(s)]

\* Report: a finding the copy has and the tree has not is a refusal.
Introduced(fs, after) == {x \in Findings(after) : x \notin Findings(fs)}
Refused(fs, after) == Introduced(fs, after) # {}

-----------------------------------------------------------------------------
(* The commands.  XInput is what X may be asked, XRejects its own refusals  *)
(* and errors ahead of Report, XTree the copy it hands to Report.           *)

\* owedEdges: the entry's own references, and those of contentless types to it.
OwedLinks(fs, t, e) ==
    (UNION {Range(e.refs[f]) : f \in Refs[t]}) \cup
    {At(fs, pl).id : pl \in {q \in Places(fs) : /\ q[2] \notin ContentTypes \cup {"module"}
                                                /\ \E f \in Refs[q[2]] : /\ Target[f] = t
                                                                         /\ e.id \in Range(At(fs, q).refs[f])}}

Skeleton(fs, t, e) == [prose |-> None, links |-> OwedLinks(fs, t, e)]

NewEntry(d, t, n, val, refs) ==
    [id |-> ID(d, t, n), name |-> n, slug |-> Slug[n], val |-> val, refs |-> refs]

\* Fault: an existing leaf is written over.
AddRejectsNoLeafGuard(fs, d, t, n) == d # ProjectDir /\ d \notin Docs(fs)

\* spex node add: a leaf that holds text is never overwritten, unless the id
\* is taken, which Report refuses.
AddRejects(fs, d, t, n) ==
    \/ d # ProjectDir /\ d \notin Docs(fs)
    \/ /\ t \in ContentTypes
       /\ LeafPath(d, t, Slug[n]) \in DOMAIN fs
       /\ ID(d, t, n) \notin IDsOf(fs, d, t)

AddTree(fs, d, t, n, val, refs) ==
    LET e == NewEntry(d, t, n, val, refs)
        declared == SetEntries(fs, d, t, Append(Entries(fs, d, t), e))
    IN  IF t \in ContentTypes
        THEN With(declared, LeafPath(d, t, e.slug), Skeleton(declared, t, e))
        ELSE declared

\* spex node add --type module
AddModuleRejects(fs, d) == d \in Modules(fs) \/ DocPath(d) \in DOMAIN fs

AddModuleTree(fs, d) ==
    With(SetEntries(fs, ProjectDir, "module",
                    Append(Entries(fs, ProjectDir, "module"),
                           [id |-> ID(ProjectDir, "module", d), name |-> d, slug |-> 0,
                            val |-> None, refs |-> NoRefs])),
         DocPath(d), EmptyDoc)

\* spex node remove
LeafPathsOf(fs, x) ==
    {LeafOf(fs, pl) : pl \in {Found(fs, x)} \cap WithLeaf(fs)}

RemoveTree(fs, x) ==
    LET pl == Found(fs, x)
        es == Entries(fs, pl[1], pl[2])
        others == Kept(es, {i \in DOMAIN es : es[i].id # x})
    IN  Without(SetEntries(fs, pl[1], pl[2], others), LeafPathsOf(fs, x))

\* spex node set
SetTree(fs, x, val) == SetEntry(fs, Found(fs, x), [At(fs, Found(fs, x)) EXCEPT !.val = val])

\* spex node rename: the entry, every reference in every document, every link
\* in every declared leaf, and the leaf's new place.
NewPlace(fs, x, n) == LET pl == Found(fs, x) IN LeafPath(pl[1], pl[2], Slug[n])

\* contentPathCollision: the first other entry with the new content path.
Colliding(fs, x, n) ==
    LET pl == Found(fs, x)
        es == Entries(fs, pl[1], pl[2])
        others == {i \in DOMAIN es : es[i].id # x /\ es[i].slug = Slug[n]}
    IN  IF others = {} THEN None ELSE es[CHOOSE i \in others : \A k \in others : i <= k].id

\* Fault: the new content path may be another node's.
RenameRejectsNoCollision(fs, x, n) ==
    \/ Unreadable(fs) # {}
    \/ Found(fs, x)[2] \in ContentTypes /\ LeafOf(fs, Found(fs, x)) \notin DOMAIN fs

RenameRejects(fs, x, n) ==
    LET pl == Found(fs, x) IN
    \/ Unreadable(fs) # {}
    \/ /\ pl[2] \in ContentTypes
       /\ \/ LeafOf(fs, pl) \notin DOMAIN fs
          \/ /\ NewPlace(fs, x, n) # LeafOf(fs, pl)
             /\ NewPlace(fs, x, n) \in DOMAIN fs
             /\ Colliding(fs, x, n) # ID(pl[1], pl[2], n)

Repoint(x, y, z) == IF z = x THEN y ELSE z

PatchEntry(e, x, y) ==
    [e EXCEPT !.refs = [f \in Fields |->
        [i \in DOMAIN e.refs[f] |-> Repoint(x, y, e.refs[f][i])]]]

PatchDoc(doc, x, y) == [t \in Types |-> [i \in DOMAIN doc[t] |-> PatchEntry(doc[t][i], x, y)]]

PatchLeaf(leaf, x, y) == [leaf EXCEPT !.links = {Repoint(x, y, z) : z \in @}]

\* Fault: links in leaves keep the old id.
PatchedDocsOnly(fs, x, y) ==
    [p \in DOMAIN fs |-> IF p \in {DocPath(d) : d \in Docs(fs)} THEN PatchDoc(fs[p], x, y) ELSE fs[p]]

Patched(fs, x, y) ==
    LET swept == {LeafOf(fs, pl) : pl \in WithLeaf(fs)} IN
    [p \in DOMAIN fs |->
        CASE p \in {DocPath(d) : d \in Docs(fs)} -> PatchDoc(fs[p], x, y)
          [] p \in swept -> PatchLeaf(fs[p], x, y)
          [] OTHER -> fs[p]]

RenameTree(fs, x, n) ==
    LET pl == Found(fs, x)
        y  == ID(pl[1], pl[2], n)
        patched == Patched(fs, x, y)
        renamed == SetEntry(patched, pl, [At(patched, pl) EXCEPT !.id = y, !.name = n, !.slug = Slug[n]])
    IN  IF pl[2] \notin ContentTypes \/ NewPlace(fs, x, n) = LeafOf(fs, pl)
        THEN renamed
        ELSE With(Without(renamed, {LeafOf(fs, pl)}), NewPlace(fs, x, n), patched[LeafOf(fs, pl)])

\* spex edge add and remove: the target must exist, be of the field's type and,
\* for a module-local field, of the same module.
AddEdgeRejects(fs, x, f, y) ==
    \/ f \notin Refs[Found(fs, x)[2]]
    \/ Located(fs, y) = {}
    \/ Found(fs, y)[2] # Target[f]
    \/ f \in ModuleLocal /\ Found(fs, y)[1] # Found(fs, x)[1]

AddEdgeTree(fs, x, f, y) ==
    LET e == At(fs, Found(fs, x))
        old == e.refs[f]
        new == IF y \in Range(old) THEN old
               ELSE IF f \in ToOne THEN <<y>> ELSE Append(old, y)
    IN  SetEntry(fs, Found(fs, x), [e EXCEPT !.refs[f] = new])

RemoveEdgeTree(fs, x, f, y) ==
    LET e == At(fs, Found(fs, x))
        old == e.refs[f]
    IN  SetEntry(fs, Found(fs, x), [e EXCEPT !.refs[f] = Kept(old, {i \in DOMAIN old : old[i] # y})])

\* spex leaf scaffold: judged as if no leaf were missing.
PatchMissing(fs) ==
    LET absent == {LeafOf(fs, pl) : pl \in MissingLeaves(fs)} IN
    [p \in DOMAIN fs \cup absent |->
        IF p \in absent THEN [prose |-> None, links |-> {}] ELSE fs[p]]

ScaffoldRejects(fs, x) ==
    LET pl == Found(fs, x) IN pl[2] \notin ContentTypes \/ LeafOf(fs, pl) \in DOMAIN fs

ScaffoldFile(fs, x) == Skeleton(fs, Found(fs, x)[2], At(fs, Found(fs, x)))
-----------------------------------------------------------------------------
(* A command that is accepted writes the changed files in path order and    *)
(* then removes the leaf it has moved or retired.                           *)
\* Fault: a file the command creates is not written.
ChangedPathsOldOnly(fs, after) == {p \in DOMAIN after \cap DOMAIN fs : fs[p] # after[p]}

\* Fault: a removed file counts as a file to write.
ChangedPathsBothWays(fs, after) ==
    {p \in DOMAIN after \cup DOMAIN fs : p \notin DOMAIN fs \cap DOMAIN after \/ fs[p] # after[p]}

ChangedPaths(fs, after) == {p \in DOMAIN after : p \notin DOMAIN fs \/ fs[p] # after[p]}

Validate(fs) == Findings(fs) \cup Owed(fs)

Idle == cmd = NoCommand /\ edits < MaxEdits

\* A command that changes nothing writes nothing, refused or not.
Command(op, after, drop, owed, refused) ==
    /\ ChangedPaths(tree, after) # {}
    /\ cmd' = [op |-> op, before |-> tree, after |-> after, owed |-> owed, refused |-> refused,
               writes |-> IF refused THEN {} ELSE ChangedPaths(tree, after),
               drop |-> IF refused THEN {} ELSE drop]
    /\ edits' = IF refused THEN edits ELSE edits + 1
    /\ UNCHANGED <<tree, crashes>>

\* Fault: the report is drawn up over the tree as it was.
SubmitStale(op, after, drop) ==
    \/ Refused(tree, after) /\ Command(op, after, drop, {}, TRUE)
    \/ /\ ~Refused(tree, after) /\ Buildable(tree) /\ Buildable(after)
       /\ Command(op, after, drop, Validate(tree), FALSE)

\* Report's verdict on a copy: refused, an error when either tree cannot be
\* hashed, or written.
Submit(op, after, drop) ==
    \/ Refused(tree, after) /\ Command(op, after, drop, {}, TRUE)
    \/ /\ ~Refused(tree, after) /\ Buildable(tree) /\ Buildable(after)
       /\ Command(op, after, drop, Validate(after), FALSE)

\* The ids in the tree, modules' included, and the inputs asked of a command.
Nodes(fs) == {At(fs, pl).id : pl \in Places(fs)}
RefInputs(t, x) ==
    {NoRefs} \cup UNION {{[NoRefs EXCEPT ![f] = <<y>>] :
        y \in {x} \cup {At(tree, pl).id : pl \in {q \in Places(tree) : q[2] = Target[f]}}} : f \in Refs[t]}
ValInputs(t) == IF t \in ValTypes THEN Vals \cup {None} ELSE {None}

AddNode(d, t, n) ==
    /\ Idle /\ t \in TypesOf(d) \ {"module"} /\ ~AddRejects(tree, d, t, n)
    /\ \E refs \in RefInputs(t, ID(d, t, n)), val \in ValInputs(t) :
          Submit("add", AddTree(tree, d, t, n, val, refs), {})

AddModule(d) ==
    /\ Idle /\ ~AddModuleRejects(tree, d)
    /\ Submit("module", AddModuleTree(tree, d), {})

RemoveNode(x) ==
    /\ Idle /\ ~IsModule(Found(tree, x))
    /\ Submit("remove", RemoveTree(tree, x), LeafPathsOf(tree, x))

\* --force: no refusal, and only what the removal breaks is reported.
ForceRemove(x) ==
    LET after == RemoveTree(tree, x) IN
    /\ Idle /\ ~IsModule(Found(tree, x))
    /\ Buildable(tree) /\ Buildable(after)
    /\ Command("force", after, LeafPathsOf(tree, x), Introduced(tree, after) \cup Owed(after), FALSE)

SetNode(x) ==
    /\ Idle /\ ~IsModule(Found(tree, x))
    /\ \E val \in Vals \cup {None} : Submit("set", SetTree(tree, x, val), {})

RenameNode(x, n) ==
    /\ Idle /\ ~IsModule(Found(tree, x)) /\ At(tree, Found(tree, x)).name # n
    /\ ~RenameRejects(tree, x, n)
    /\ Submit("rename", RenameTree(tree, x, n), DOMAIN tree \ DOMAIN RenameTree(tree, x, n))

AddEdge(x, f, y) ==
    /\ Idle /\ ~AddEdgeRejects(tree, x, f, y)
    /\ Submit("link", AddEdgeTree(tree, x, f, y), {})

RemoveEdge(x, f, y) ==
    /\ Idle /\ f \in Refs[Found(tree, x)[2]]
    /\ Submit("unlink", RemoveEdgeTree(tree, x, f, y), {})

\* Only the scaffolded leaf is written; the other missing leaves are reported.
ScaffoldLeaf(x) ==
    /\ Idle /\ ~ScaffoldRejects(tree, x)
    /\ LET path == LeafOf(tree, Found(tree, x))
           file == ScaffoldFile(tree, x)
           judged == With(PatchMissing(tree), path, file)
           real == With(tree, path, file)
       IN  /\ ~Refused(PatchMissing(tree), judged)
           /\ Unreadable(tree) = {}
           /\ Command("scaffold", real, {},
                      Validate(judged) \cup (CheckContentPaths(real) \ CheckContentPaths(judged)), FALSE)

Refuse ==
    /\ cmd # NoCommand /\ cmd.refused
    /\ cmd' = NoCommand /\ UNCHANGED <<tree, edits, crashes>>

WriteFile(path) ==
    /\ \A p \in cmd.writes \ {path} : PathLess(path, p)
    /\ tree' = With(tree, path, cmd.after[path])
    /\ cmd' = IF cmd.writes = {path} /\ cmd.drop = {} THEN NoCommand
              ELSE [cmd EXCEPT !.writes = @ \ {path}]
    /\ UNCHANGED <<edits, crashes>>

RemoveFile ==
    /\ cmd # NoCommand /\ ~cmd.refused /\ cmd.writes = {}
    /\ tree' = Without(tree, cmd.drop)
    /\ cmd' = NoCommand
    /\ UNCHANGED <<edits, crashes>>

\* The command dies between two file operations.
Crash ==
    /\ cmd # NoCommand /\ ~cmd.refused /\ crashes < MaxCrashes
    /\ cmd' = NoCommand /\ crashes' = crashes + 1
    /\ UNCHANGED <<tree, edits>>

\* An author replaces a skeleton by text with a link.
ProseOf(fs) == {fs[p].prose : p \in DOMAIN fs \cap LeafPaths} \ {None}

WriteProse(pl) ==
    LET p == LeafOf(tree, pl) IN
    /\ Idle /\ p \in DOMAIN tree /\ tree[p].prose = None
    /\ \E text \in Proses \ ProseOf(tree), x \in NodeIDs(tree) :
          tree' = [tree EXCEPT ![p] = [prose |-> text, links |-> {x}]]
    /\ edits' = edits + 1
    /\ UNCHANGED <<cmd, crashes>>

Init == tree \in InitialTrees /\ cmd = NoCommand /\ edits = 0 /\ crashes = 0

Next ==
    \/ \E d \in Dirs \cup {ProjectDir}, t \in Types, n \in Names : AddNode(d, t, n)
    \/ \E d \in Dirs : AddModule(d)
    \/ \E x \in Nodes(tree) :
          \/ RemoveNode(x) \/ ForceRemove(x) \/ SetNode(x) \/ ScaffoldLeaf(x)
          \/ \E n \in Names : RenameNode(x, n)
          \/ \E f \in Fields, y \in Nodes(tree) : AddEdge(x, f, y)
          \/ \E f \in Fields : \E y \in Range(At(tree, Found(tree, x)).refs[f]) : RemoveEdge(x, f, y)
    \/ Refuse \/ RemoveFile \/ Crash
    \/ cmd # NoCommand /\ \E path \in cmd.writes : WriteFile(path)
    \/ \E pl \in WithLeaf(tree) : WriteProse(pl)

Spec == Init /\ [][Next]_vars
=============================================================================
