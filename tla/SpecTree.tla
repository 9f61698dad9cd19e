------------------------------ MODULE SpecTree ------------------------------
(***************************************************************************)
(* The spec directory as the author commands and the validator see it: a   *)
(* map from paths to files, the project document, one document per module  *)
(* and the content leaves, and the checkers as functions from such a map    *)
(* to a set of findings.                                                    *)
(*                                                                         *)
(* A path is <<directory, rank, slug>>, ordered as the code sorts path      *)
(* strings.  A finding is the tuple of what its check, path and message say, *)
(* because the reporter compares findings by those three.  Left out: the     *)
(* text checks (shape of links, name consistency, coupled sections) and the  *)
(* completeness entries of a report.                                         *)
(***************************************************************************)
EXTENDS Integers, Sequences, FiniteSets, SequencesExt

CONSTANTS
    Types,              \* the profile's node types, "module" included
    ModuleScoped,       \* the types declared in a module document
    Refs,               \* per type, its reference fields
    Target,             \* per reference field, the type it points at
    ToOne,              \* the fields of cardinality one; they are required
    ModuleLocal,        \* the fields the edge editor keeps inside a module
    Acyclic,            \* the cycle-checked <<type, field>> pairs
    ValTypes,           \* the types with the required text field
    Vals,               \* the values its enumeration admits
    NameDeclarable,     \* the types whose names must tokenize to themselves
    Declarable,         \* the names that do
    GlobalNames,        \* the types whose names are unique across modules
    PrefixRank,         \* content-bearing types: the place of their prefix
    ModuleFileRank,     \* ... and that of module.json among the prefixes
    ProjectRank,        \* the place of project.json among the directories
    Chains,             \* coverage chains [covered, covering, field]
    Names,              \* node names
    Slug,               \* the snake-case slug of a name
    IdentityHash(_, _, _),
    None

ProjectTypes == Types \ ModuleScoped
ContentTypes == DOMAIN PrefixRank
Fields == UNION {Refs[t] : t \in Types}
NoRefs == [f \in Fields |-> <<>>]

ProjectDir == 0
ProjectPath == <<ProjectRank, 0, 0>>
DocPath(d) == IF d = ProjectDir THEN ProjectPath ELSE <<d, ModuleFileRank, 0>>
LeafPath(d, t, slug) == <<d, PrefixRank[t], slug>>

PathLess(p, q) ==
    \/ p[1] < q[1]
    \/ p[1] = q[1] /\ p[2] < q[2]
    \/ p[1] = q[1] /\ p[2] = q[2] /\ p[3] < q[3]

EmptyDoc == [t \in Types |-> <<>>]

\* The ids of a directory's nodes.
ID(d, t, n) == IdentityHash(d, t, n)

\* The declared modules, in the order of project.json, and the documents that
\* can be read.
ModuleSeq(tree) ==
    [i \in DOMAIN tree[ProjectPath]["module"] |-> tree[ProjectPath]["module"][i].name]
Modules(tree) == Range(ModuleSeq(tree))
Unreadable(tree) == {d \in Modules(tree) : DocPath(d) \notin DOMAIN tree}
Docs(tree) == {ProjectDir} \cup (Modules(tree) \ Unreadable(tree))

TypesOf(d) == IF d = ProjectDir THEN ProjectTypes ELSE ModuleScoped
Entries(tree, d, t) == tree[DocPath(d)][t]

\* Every entry with its place: <<directory, type, index>>.
Places(tree) ==
    UNION {{<<d, t, i>> : i \in DOMAIN Entries(tree, d, t)} :
             d \in Docs(tree), t \in Types}
At(tree, pl) == Entries(tree, pl[1], pl[2])[pl[3]]
IDsOf(tree, d, t) == {e.id : e \in Range(Entries(tree, d, t))}
NodeIDs(tree) == {At(tree, pl).id : pl \in {q \in Places(tree) : q[2] # "module"}}

-----------------------------------------------------------------------------
(* CheckSchemaFS: a required field is absent, or the text field holds a     *)
(* value it may not.  The path names the entry by its index.                *)
BadValue(t, val) == IF t \in ValTypes THEN val \notin Vals ELSE val # None

CheckSchema(tree) ==
    (UNION {{<<"schema", pl, f>> :
               f \in {g \in Refs[pl[2]] \cap ToOne : At(tree, pl).refs[g] = <<>>}} :
              pl \in Places(tree)})
    \cup {<<"schema", pl, At(tree, pl).val>> :
             pl \in {p \in Places(tree) : BadValue(p[2], At(tree, p).val)}}

(* CheckIDsFS.  References are looked at only when names and ids are in    *)
(* order.                                                                   *)
Duplicates(tree) ==
    UNION {UNION {LET es == Entries(tree, d, t) IN
                  {<<"duplicate", d, t, es[i].id>> :
                     i \in {k \in DOMAIN es : \E m \in DOMAIN es : m # k /\ es[m].id = es[k].id}} :
                    t \in TypesOf(d)} : d \in Docs(tree)}

\* Two places with one name; the finding names every document that has it, once
\* per entry.
SharedNames(tree) ==
    LET named(d, t, n) == {i \in DOMAIN Entries(tree, d, t) : Entries(tree, d, t)[i].name = n}
    IN  {LET t == pl[2] n == At(tree, pl).name
         IN  <<"global", t, n, [d \in {e \in Docs(tree) : named(e, t, n) # {}} |->
                                    Cardinality(named(d, t, n))]>> :
           pl \in {p \in Places(tree) : p[2] \in GlobalNames /\ \E q \in Places(tree) \ {p} :
                     q[2] = p[2] /\ At(tree, q).name = At(tree, p).name}}

BadNames(tree) ==
    {<<"name", pl[1], pl[2], At(tree, pl).id>> :
       pl \in {p \in Places(tree) : p[2] \in NameDeclarable /\ At(tree, p).name \notin Declarable}}

TargetIDs(tree, d, f) ==
    IDsOf(tree, IF Target[f] \in ModuleScoped THEN d ELSE ProjectDir, Target[f])

Dangling(tree) ==
    UNION {UNION {{<<"dangling", pl[1], pl[2], At(tree, pl).id, f, x>> :
                     x \in Range(At(tree, pl).refs[f]) \ TargetIDs(tree, pl[1], f)} :
                    f \in Refs[pl[2]]} : pl \in Places(tree)}

Missing(tree) ==
    (UNION {{<<"missing", pl[1], pl[2], At(tree, pl).id, f>> :
               f \in {g \in Refs[pl[2]] \cap ToOne : At(tree, pl).refs[g] = <<>>}} :
              pl \in Places(tree)})
    \cup {<<"priority", At(tree, pl).id, At(tree, pl).val>> :
             pl \in {p \in Places(tree) : p[2] \in ProjectTypes \cap ValTypes
                                         /\ BadValue(p[2], At(tree, p).val)}}

CheckIDs(tree) ==
    LET unique == Duplicates(tree) \cup SharedNames(tree) \cup BadNames(tree)
    IN  IF unique # {} THEN unique ELSE Dangling(tree) \cup Missing(tree)

CheckIDDerivation(tree) ==
    {<<"derivation", pl[1], pl[2], At(tree, pl).id, At(tree, pl).name>> :
       pl \in {p \in Places(tree) : /\ p[2] \in ModuleScoped
                                    /\ At(tree, p).id # ID(p[1], p[2], At(tree, p).name)}}

(* CheckDAGFS: the walk of detectStringCycles, one step per edge taken,     *)
(* node started or node left.  A cycle is reported as the stack from the    *)
(* node met again.                                                          *)
Adjacent(es, x, f) ==
    LET own == {i \in DOMAIN es : es[i].id = x}
    IN  IF own = {} THEN <<>> ELSE es[CHOOSE i \in own : \A k \in own : k <= i].refs[f]

WalkStep(es, f, s) ==
    IF s.stack = <<>>
    THEN LET fresh == {es[i].id : i \in DOMAIN es} \ (s.gray \cup s.black) IN
         IF fresh = {} THEN s
         ELSE LET x == CHOOSE y \in fresh : \A z \in fresh : y <= z IN
              [s EXCEPT !.stack = <<x>>, !.next = <<1>>, !.gray = {x}]
    ELSE LET x == Last(s.stack) k == Last(s.next) adj == Adjacent(es, x, f) IN
         IF k > Len(adj)
         THEN [s EXCEPT !.stack = Front(@), !.next = Front(@),
                        !.gray = @ \ {x}, !.black = @ \cup {x}]
         ELSE LET y == adj[k] moved == [s.next EXCEPT ![Len(s.next)] = k + 1] IN
              CASE y \in s.black -> [s EXCEPT !.next = moved]
                [] y \in s.gray ->
                     [s EXCEPT !.next = moved,
                       !.found = @ \cup {SubSeq(s.stack, CHOOSE i \in DOMAIN s.stack : s.stack[i] = y,
                                                Len(s.stack))}]
                [] OTHER -> [s EXCEPT !.stack = Append(@, y), !.next = Append(moved, 1),
                                      !.gray = @ \cup {y}]

\* Fault: only a node that names itself is noticed.
CyclesSelfOnly(es, f) ==
    {<<es[i].id>> : i \in {k \in DOMAIN es : es[k].id \in Range(es[k].refs[f])}}

EdgeCount(es, f) ==
    LET count[n \in 0 .. Len(es)] == IF n = 0 THEN 0 ELSE count[n - 1] + Len(es[n].refs[f])
    IN  count[Len(es)]

WalkStart == [stack |-> <<>>, next |-> <<>>, gray |-> {}, black |-> {}, found |-> {}]

\* No walk takes more steps than these.
WalkSteps(es, f) == 2 * Len(es) + 3 * EdgeCount(es, f)

Cycles(es, f) ==
    LET walk[n \in 0 .. WalkSteps(es, f)] ==
            IF n = 0 THEN WalkStart ELSE WalkStep(es, f, walk[n - 1])
    IN  walk[WalkSteps(es, f)].found

CheckDAG(tree) ==
    UNION {UNION {{<<"cycle", d, tf[1], tf[2], c>> : c \in Cycles(Entries(tree, d, tf[1]), tf[2])} :
                    tf \in {x \in Acyclic : x[1] \in TypesOf(d)}} : d \in Docs(tree)}

(* BuildTreeFS stops at the first declared leaf it cannot read.             *)
LeafOf(tree, pl) == LeafPath(pl[1], pl[2], At(tree, pl).slug)
WithLeaf(tree) == {pl \in Places(tree) : pl[2] \in ContentTypes}
MissingLeaves(tree) == {pl \in WithLeaf(tree) : LeafOf(tree, pl) \notin DOMAIN tree}
Buildable(tree) == Unreadable(tree) = {} /\ MissingLeaves(tree) = {}

ReadBefore(tree, p, q) ==
    LET at(d) == CHOOSE i \in DOMAIN ModuleSeq(tree) : ModuleSeq(tree)[i] = d
    IN  PathLess(<<at(p[1]), PrefixRank[p[2]], p[3]>>, <<at(q[1]), PrefixRank[q[2]], q[3]>>)

(* CheckLinksFS. *)
CheckLinks(tree) ==
    LET missing == MissingLeaves(tree) IN
    IF missing # {}
    THEN {<<"tree", LeafOf(tree, CHOOSE p \in missing : \A q \in missing \ {p} : ReadBefore(tree, p, q))>>}
    ELSE UNION {{<<"link", LeafOf(tree, pl), x>> :
                   x \in tree[LeafOf(tree, pl)].links \ NodeIDs(tree)} : pl \in WithLeaf(tree)}

\* refusalCheckers: a module document that cannot be read hides everything but
\* the schema's findings.
Findings(tree) ==
    CheckSchema(tree) \cup
    IF Unreadable(tree) # {} THEN {<<"unreadable", d>> : d \in Unreadable(tree)}
    ELSE CheckIDs(tree) \cup CheckIDDerivation(tree) \cup CheckDAG(tree) \cup CheckLinks(tree)

(* nonRefusalCheckers: leaves and coverage. *)
CheckContentPaths(tree) ==
    {<<"content", pl[1], pl[2], At(tree, pl).name>> : pl \in MissingLeaves(tree)}

Covering(tree, d, c) ==
    {pl \in Places(tree) : pl[2] = c.covering /\ (d # ProjectDir => pl[1] = d)}

CheckCoverage(tree) ==
    UNION {{<<"coverage", pl[1], pl[2], At(tree, pl).id>> :
              pl \in {p \in Places(tree) : p[2] = c.covered /\ \A q \in Covering(tree, p[1], c) :
                        At(tree, p).id \notin Range(At(tree, q).refs[c.field])}} : c \in Chains}

Owed(tree) ==
    IF Unreadable(tree) # {} THEN {<<"unreadable", d>> : d \in Unreadable(tree)}
    ELSE CheckContentPaths(tree) \cup CheckCoverage(tree)
=============================================================================
