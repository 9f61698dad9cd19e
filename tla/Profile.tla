------------------------------ MODULE Profile ------------------------------
(***************************************************************************)
(* spec/profile.json: an author who edits it, or writes over it what spex  *)
(* profile show prints, and its resolution, from the strict decoding       *)
(* through Validate to the views the other components read: conventions,   *)
(* edges, hashed fields and the composed schema of each type's entries.    *)
(*                                                                         *)
(* A document is a record.  Of a field's enumeration and bounds only the   *)
(* presence is kept; comments, descriptions and the two role flags are     *)
(* copied by every step and left out; impact_levels and absorbable are     *)
(* their keys.                                                             *)
(***************************************************************************)
EXTENDS Integers, Sequences, FiniteSets, FiniteSetsExt, Functions

CONSTANTS
    Default,    \* defaultProfile.json, decoded
    TypeNames,  \* node types an author may name
    NewTypes,   \* node type declarations an author may add
    NewFields,  \* field declarations an author may add
    NewChains,  \* coverage chains an author may add
    Editable,   \* the names of the types whose fields an author edits
    Versions,   \* the values of profile_version an author may write
    Prefixes,   \* content prefixes, "" among them
    Headings,   \* lists of leaf headings, the empty one among them
    Absent,     \* no file, or a key that is not in the document
    Null,       \* a JSON null
    Nil,        \* a Go nil
    MaxEdits    \* bound: edits by hand

Scopes == {"project", "module"}

minProfileVersion == 1
maxProfileVersion == 2

\* A field's declaration, in the file as in memory.
Field == [name: STRING, kind: {"text", "integer", "reference", "other"}, required: BOOLEAN,
          hashed: BOOLEAN, enum: BOOLEAN, bounds: BOOLEAN, targets: SUBSET TypeNames,
          many: BOOLEAN, cyclic: BOOLEAN]

NodeType(prefixes, headings) ==
    [name: TypeNames, plural: STRING, scope: STRING, content: BOOLEAN,
     prefix: prefixes, sections: headings, fields: Seq(Field)]

CoverageChain == [covered: STRING, edge: STRING, covering: STRING, coveringScope: STRING]

ProfileOf(nodeTypes, noVersion) ==
    [version: Versions \cup {maxProfileVersion, noVersion}, types: Seq(nodeTypes),
     chains: SUBSET CoverageChain, planRelevant: Seq(TypeNames), keyed: SUBSET TypeNames]

\* In the file and in memory.
Declarations == NodeType(Prefixes \cup {Absent}, Headings \cup {Absent, Null})
NodeTypes == NodeType(Prefixes \cup {Nil}, Headings \cup {Nil})

Documents == ProfileOf(Declarations, Absent)
Profiles == ProfileOf(NodeTypes, Nil)

\* What is missing is told from what is there, and a nil from what is missing;
\* the default document declares its content-bearing types completely.
ASSUME ProfileAssumption ==
    /\ MaxEdits \in Nat /\ Versions \subseteq Nat
    /\ \A x \in {Absent, Null, Nil} :
          /\ x \notin Prefixes \cup {""} /\ x \notin Headings
          /\ x \notin Versions \cup {maxProfileVersion}
    /\ Nil \notin {Absent, Null} /\ Absent \notin Documents
    /\ NewTypes \subseteq Declarations /\ NewFields \subseteq Field /\ NewChains \subseteq CoverageChain
    /\ Default \in Profiles
    /\ \A i \in DOMAIN Default.types :
          Default.types[i].content => Default.types[i].prefix \notin {Nil, ""} /\ Default.types[i].sections # Nil

VARIABLES
    file,  \* spec/profile.json
    edits  \* edits so far

vars == <<file, edits>>

-----------------------------------------------------------------------------
(* The document in the file and the document in memory. *)

\* A sequence element by element; the concatenation makes TLC evaluate it once.
Each(seq, Op(_)) == <<>> \o [i \in DOMAIN seq |-> Op(seq[i])]

DecodeType(t) ==
    [t EXCEPT !.prefix = IF @ = Absent THEN Nil ELSE @,
              !.sections = IF @ \in {Absent, Null} THEN Nil ELSE @]

decodeProfile(d) ==
    [d EXCEPT !.version = IF @ = Absent THEN Nil ELSE @,
              !.types = Each(@, DecodeType)]

\* content_prefix is left out when nil; leaf_sections has no omitempty.
EncodeType(t) ==
    [t EXCEPT !.prefix = IF @ = Nil THEN Absent ELSE @,
              !.sections = IF @ = Nil THEN Null ELSE @]

Encode(p) ==
    [p EXCEPT !.version = IF @ = Nil THEN Absent ELSE @,
              !.types = Each(@, EncodeType)]

-----------------------------------------------------------------------------
(* Validate: the set of defects, each with its place. *)

Declared(p) == {p.types[i].name : i \in DOMAIN p.types} \ {""}

TypeDefects(p) ==
    LET Has(i, what) ==
            LET t == p.types[i]
            IN  CASE what = "name" -> t.name = ""
                  [] what = "module" -> t.name = "module"
                  [] what = "plural_key" -> t.plural = ""
                  [] what = "scope" -> t.scope \notin Scopes
                  [] what = "duplicate" ->
                        \E k \in 1 .. i - 1 : p.types[k].name = t.name /\ p.types[k].scope = t.scope
    IN  {d \in (DOMAIN p.types) \X {"name", "module", "plural_key", "scope", "duplicate"} : Has(d[1], d[2])}

ConventionDefects(p) ==
    LET declaring == {i \in DOMAIN p.types : p.types[i].prefix # Nil \/ p.types[i].sections # Nil}
        Has(t, what) ==
            CASE what = "version" -> p.version \in {Nil, 1}
              [] what = "content" -> ~t.content
              [] what = "prefix" -> t.prefix = ""
    IN  {d \in declaring \X {"version", "content", "prefix"} : Has(p.types[d[1]], d[2])}

envelopeFieldNames == {"id", "name", "description"}

FieldHas(p, t, j, what) ==
    LET f == t.fields[j]
    IN  CASE what = "envelope" -> f.name \in envelopeFieldNames \/ (f.name = "content" /\ t.content)
          [] what = "repeated" -> \E k \in 1 .. j - 1 : t.fields[k].name = f.name
          [] what = "kind" -> f.kind = "other"
          [] what = "enum" -> f.kind \in {"integer", "reference"} /\ f.enum
          [] what = "bounds" -> f.kind \in {"text", "reference"} /\ f.bounds
          [] what = "untargeted" -> f.kind = "reference" /\ f.targets = {}
          [] what = "undeclared" -> f.kind = "reference" /\ ~(f.targets \subseteq Declared(p))
          [] what = "targeted" -> f.kind \in {"text", "integer"} /\ f.targets # {}

\* Fault: a target may name any type.
FaultFieldFaults == {"envelope", "repeated", "kind", "enum", "bounds", "untargeted", "targeted"}

FieldFaults == {"envelope", "repeated", "kind", "enum", "bounds", "untargeted", "undeclared", "targeted"}

FieldDefects(p) ==
    UNION {{<<i, d>> : d \in
                {x \in (DOMAIN p.types[i].fields) \X FieldFaults : FieldHas(p, p.types[i], x[1], x[2])}}
           : i \in DOMAIN p.types}

\* findField: the fields a chain's edge may mean, the first of which is taken;
\* no scope is either scope.
Candidates(p, c) ==
    LET covering == {i \in DOMAIN p.types :
                       p.types[i].name = c.covering /\ c.coveringScope \in {"", p.types[i].scope}}
    IN  UNION {{<<i, j>> : j \in {k \in DOMAIN p.types[i].fields : p.types[i].fields[k].name = c.edge}}
               : i \in covering}

First(pairs) == CHOOSE x \in pairs : \A y \in pairs : x[1] < y[1] \/ (x[1] = y[1] /\ x[2] <= y[2])

ChainSound(p, c) ==
    /\ {c.covered, c.covering} \subseteq Declared(p)
    /\ Candidates(p, c) # {}
    /\ LET x == First(Candidates(p, c))
           f == p.types[x[1]].fields[x[2]]
       IN  f.kind = "reference" /\ c.covered \in f.targets

ListDefects(p) ==
    {i \in DOMAIN p.planRelevant :
        p.planRelevant[i] \notin Declared(p) \/ \E k \in 1 .. i - 1 : p.planRelevant[k] = p.planRelevant[i]}

VersionSupported(p) == p.version = Nil \/ p.version \in minProfileVersion .. maxProfileVersion

\* Fault: impact_levels and absorbable are not looked through.
FaultTableDefects(p) == {}

TableDefects(p) == p.keyed \ Declared(p)

\* An unsupported version is reported alone.
Valid(p) ==
    /\ VersionSupported(p)
    /\ TypeDefects(p) = {} /\ ConventionDefects(p) = {} /\ FieldDefects(p) = {}
    /\ \A c \in p.chains : ChainSound(p, c)
    /\ ListDefects(p) = {} /\ TableDefects(p) = {}

-----------------------------------------------------------------------------
(* finalize. *)

\* The default's declaration of a content-bearing type, by scope and name.
Conventions(t) ==
    {d \in {Default.types[i] : i \in DOMAIN Default.types} :
        t.content /\ d.content /\ d.scope = t.scope /\ d.name = t.name}

FillType(t) ==
    IF Conventions(t) = {} THEN t
    ELSE LET d == CHOOSE x \in Conventions(t) : TRUE
         IN  [t EXCEPT !.prefix = IF @ = Nil THEN d.prefix ELSE @,
                       !.sections = IF @ = Nil THEN d.sections ELSE @]

fillContentConventions(p) == [p EXCEPT !.types = Each(@, FillType)]

\* Fault: the version stays as declared.
FaultStampResolvedVersion(p) == p

stampResolvedVersion(p) == [p EXCEPT !.version = maxProfileVersion]

Finalized(p) ==
    LET filled == fillContentConventions(p)
    IN  IF filled # p THEN stampResolvedVersion(filled) ELSE p

\* resolveProfile: the default where there is no file.
Source == IF file = Absent THEN Default ELSE decodeProfile(file)

Accepted == Valid(Source)

Resolved == Finalized(Source)

-----------------------------------------------------------------------------
(* The derived views. *)

References(t) == {t.fields[j] : j \in {k \in DOMAIN t.fields : t.fields[k].kind = "reference"}}

\* deriveEdges, by field name: who declares it, what it may point at, and the
\* exemption of each declaring name, of which the last declaration counts.
deriveEdges(p) ==
    LET types == {p.types[i] : i \in DOMAIN p.types}
        Declaring(kind) == {i \in DOMAIN p.types : \E f \in References(p.types[i]) : f.name = kind}
        FieldOf(i, kind) == CHOOSE f \in References(p.types[i]) : f.name = kind
        Last(name, kind) == Max({i \in Declaring(kind) : p.types[i].name = name})
    IN  { [kind |-> kind,
           from |-> {p.types[i].name : i \in Declaring(kind)},
           to   |-> UNION {FieldOf(i, kind).targets : i \in Declaring(kind)},
           cyclicFrom |-> {name \in {p.types[i].name : i \in Declaring(kind)} :
                              FieldOf(Last(name, kind), kind).cyclic}]
          : kind \in UNION {{f.name : f \in References(t)} : t \in types} }
        \cup {[kind |-> "requires_module", from |-> {"module"}, to |-> {"module"}, cyclicFrom |-> {}]}

\* CyclicForType.
Exempt(p, name, kind) == \E e \in deriveEdges(p) : e.kind = kind /\ name \in e.cyclicFrom

\* A content-bearing type hashes its leaf and has no list.
deriveHashedFields(t) ==
    IF t.content THEN {}
    ELSE {"id", "name", "description"} \cup {t.fields[j].name : j \in {k \in DOMAIN t.fields : t.fields[k].hashed}}

-----------------------------------------------------------------------------
(* The composed schemas. *)

\* Fault: an edge opens its property on every type.
FaultEdgesSourcedAt(edges, name) == edges

edgesSourcedAt(edges, name) == {e \in edges : name \in e.from}

\* Fault: the project schema takes every edge.
FaultProjectScopedEdges(edges) == edges

projectScopedEdges(edges) == {e \in edges : e.kind # "preq_id"}

Envelope(t) == {"id", "name", "description"} \cup IF t.content THEN {"content"} ELSE {}

composeFieldSchema(f) ==
    [type     |-> CASE f.kind = "integer" -> "integer"
                    [] f.kind = "reference" -> IF f.many THEN "hashes" ELSE "hash"
                    [] OTHER -> "string",
     nonEmpty |-> f.kind = "text" /\ f.required /\ ~f.enum,
     limited  |-> f.enum \/ f.bounds]

EdgeSchema == [type |-> "hashes", nonEmpty |-> FALSE, limited |-> FALSE]

EnvelopeSchema(key) ==
    [type |-> IF key = "id" THEN "hash" ELSE "string", nonEmpty |-> key \in {"name", "content"}, limited |-> FALSE]

\* genericNodeDef and genericProjectNodeDef: the properties an entry may have,
\* a field's shape over an edge's over the envelope's.
Properties(t, edges) ==
    LET names == {t.fields[j].name : j \in DOMAIN t.fields}
        kinds == {e.kind : e \in edges}
    IN  [key \in Envelope(t) \cup kinds \cup names |->
            IF key \in names THEN composeFieldSchema(t.fields[CHOOSE j \in DOMAIN t.fields : t.fields[j].name = key])
            ELSE IF key \in kinds THEN EdgeSchema
            ELSE EnvelopeSchema(key)]

Required(t) ==
    {"id", "name"} \cup {t.fields[j].name : j \in {k \in DOMAIN t.fields : t.fields[k].required}}
    \cup IF t.content THEN {"content"} ELSE {}

\* ComposeModuleSchema and ComposeProjectSchema, one type's entry.
Entry(p, i) ==
    LET t == p.types[i]
        edges == IF t.scope = "project" THEN projectScopedEdges(deriveEdges(p)) ELSE deriveEdges(p)
    IN  [properties |-> Properties(t, edgesSourcedAt(edges, t.name)), required |-> Required(t)]

\* ProjectNodeTypes and ModuleNodeTypes.
TypesAt(p, scope) == {i \in DOMAIN p.types : p.types[i].scope = scope}

\* The root's array properties: the last type declared under a plural key.
Arrays(p, scope) ==
    LET here == TypesAt(p, scope)
    IN  [key \in {p.types[i].plural : i \in here} |->
            p.types[Max({i \in here : p.types[i].plural = key})].name]

-----------------------------------------------------------------------------
(* The author. *)

Init == file = Absent /\ edits = 0

Edit(d) ==
    /\ edits < MaxEdits /\ edits' = edits + 1
    /\ file' = d

Draft == [version |-> Absent, types |-> <<>>, chains |-> {}, planRelevant |-> <<>>, keyed |-> {}]

\* spex profile show > spec/profile.json.
Show ==
    /\ Accepted
    /\ file' = Encode(Resolved)
    /\ UNCHANGED edits

Begin == file = Absent /\ file' = Draft /\ UNCHANGED edits

AddType(t) == file # Absent /\ Edit([file EXCEPT !.types = Append(@, t)])

DropType(i) ==
    Edit([file EXCEPT !.types = SubSeq(@, 1, i - 1) \o SubSeq(@, i + 1, Len(@))])

AddField(i, f) == Edit([file EXCEPT !.types[i].fields = Append(@, f)])

DropField(i, j) ==
    Edit([file EXCEPT !.types[i].fields = SubSeq(@, 1, j - 1) \o SubSeq(@, j + 1, Len(@))])

SetPrefix(i, x) == Edit([file EXCEPT !.types[i].prefix = x])

SetSections(i, x) == Edit([file EXCEPT !.types[i].sections = x])

SetContent(i) == Edit([file EXCEPT !.types[i].content = ~@])

SetVersion(v) == file # Absent /\ Edit([file EXCEPT !.version = v])

AddChain(c) == file # Absent /\ Edit([file EXCEPT !.chains = @ \cup {c}])

ListPlanned(name) == file # Absent /\ Edit([file EXCEPT !.planRelevant = Append(@, name)])

Key(name) == file # Absent /\ Edit([file EXCEPT !.keyed = @ \cup {name}])

Indices == IF file = Absent THEN {} ELSE DOMAIN file.types

EditType(i) ==
    \/ DropType(i) \/ SetContent(i)
    \/ \E x \in Prefixes \cup {Absent} : SetPrefix(i, x)
    \/ \E x \in Headings \cup {Absent} : SetSections(i, x)
    \/ /\ file.types[i].name \in Editable
       /\ \/ \E f \in NewFields : AddField(i, f)
          \/ \E j \in DOMAIN file.types[i].fields : DropField(i, j)

Next ==
    \/ Show \/ Begin
    \/ \E t \in NewTypes : AddType(t)
    \/ \E i \in Indices : EditType(i)
    \/ \E v \in Versions \cup {Absent} : SetVersion(v)
    \/ \E c \in NewChains : AddChain(c)
    \/ \E name \in TypeNames : ListPlanned(name) \/ Key(name)

Spec == Init /\ [][Next]_vars

-----------------------------------------------------------------------------
(***************************************************************************)
(* What profile show prints can be committed as the profile: it is         *)
(* accepted, and every view that is read from it is as before, whatever    *)
(* the source declared, left out or declared empty (profile.go,            *)
(* stampResolvedVersion's comment).                                        *)
(***************************************************************************)
ShowIsNeutral == [][Show => Accepted' /\ Resolved' = Resolved]_vars

(***************************************************************************)
(* In an accepted profile an entry may carry its envelope and its own      *)
(* fields, each in the shape its own declaration gives it, and nothing     *)
(* else; and what it carries is hashed unless it is opted out, so that no  *)
(* edit of a node goes by unseen (genericNodeDef, genericProjectNodeDef,   *)
(* projectScopedEdges, deriveHashedFields).                                *)
(***************************************************************************)
EntryIsDeclared ==
    LET p == Resolved
    IN  Accepted => \A i \in DOMAIN p.types :
        LET t == p.types[i]
            admitted == Entry(p, i).properties
            own == {t.fields[j].name : j \in DOMAIN t.fields}
        IN  /\ DOMAIN admitted = Envelope(t) \cup own
            /\ \A j \in DOMAIN t.fields : admitted[t.fields[j].name] = composeFieldSchema(t.fields[j])
            /\ ~t.content => DOMAIN admitted \ deriveHashedFields(t) =
                                {t.fields[j].name : j \in {k \in DOMAIN t.fields : ~t.fields[k].hashed}}

\* Types declared alike in two documents look alike to every reader.
Unmoved(before, after) ==
    LET p == Finalized(before)
        q == Finalized(after)
    IN  \A i \in DOMAIN before.types, j \in DOMAIN after.types :
            before.types[i] = after.types[j] =>
                /\ p.types[i] = q.types[j] /\ Entry(p, i) = Entry(q, j)
                /\ \A f \in References(before.types[i]) :
                      Exempt(p, p.types[i].name, f.name) = Exempt(q, q.types[j].name, f.name)

(***************************************************************************)
(* A change to one type's declaration changes nothing for the nodes of     *)
(* another: neither what their entries may hold, nor the cycle check of    *)
(* their references, nor where their leaf is and what it is made of        *)
(* (deriveEdges, edgesSourcedAt, fillContentConventions).                  *)
(***************************************************************************)
OthersUnmoved ==
    [][\A before \in {Source}, after \in {Source'} :
          Valid(before) /\ Valid(after) => Unmoved(before, after)]_vars

(***************************************************************************)
(* A profile that was accepted fails nowhere later: an edge points at      *)
(* types that have entries, a coverage chain has an edge from a covering   *)
(* to a covered type, what plan lists is declared and listed once, and so  *)
(* is what diff looks up in impact_levels and refresh in absorbable        *)
(* (Validate before finalize in resolveProfile).                           *)
(***************************************************************************)
NothingDangles ==
    Accepted =>
        LET p == Resolved
            edges == deriveEdges(p)
            held == {"module"} \cup UNION {Range(Arrays(p, scope)) : scope \in Scopes}
        IN  /\ \A e \in edges : e.to \subseteq held
            /\ \A c \in p.chains :
                  \E e \in edges : e.kind = c.edge /\ c.covering \in e.from /\ c.covered \in e.to
            /\ \A i, k \in DOMAIN p.planRelevant :
                  p.planRelevant[i] \in held /\ (p.planRelevant[i] = p.planRelevant[k] => i = k)
            /\ p.keyed \subseteq held
=============================================================================
