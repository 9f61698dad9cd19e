--------------------------- MODULE ProfileProofs ---------------------------
(***************************************************************************)
(* Of every profile an author may write: what spex profile show prints of  *)
(* it can be committed in its place, and once it is accepted no reader     *)
(* meets a name that is not there.                                         *)
(***************************************************************************)
EXTENDS Profile, SequenceTheorems, WellFoundedInduction, TLAPS

-----------------------------------------------------------------------------
(* Documents: what is decoded, encoded and filled in, type by type. *)

\* Two profiles that differ in their version and conventions only.
Alike(p, q) ==
    /\ DOMAIN p.types = DOMAIN q.types
    /\ \A i \in DOMAIN p.types :
          /\ p.types[i].name = q.types[i].name /\ p.types[i].plural = q.types[i].plural
          /\ p.types[i].scope = q.types[i].scope /\ p.types[i].content = q.types[i].content
          /\ p.types[i].fields = q.types[i].fields
    /\ p.chains = q.chains /\ p.planRelevant = q.planRelevant /\ p.keyed = q.keyed

\* A sequence rewritten element by element.
LEMMA Elementwise ==
    ASSUME NEW S, NEW T, NEW s \in Seq(S), NEW f, DOMAIN f = DOMAIN s, f = [i \in DOMAIN s |-> f[i]],
           \A i \in DOMAIN s : f[i] \in T
    PROVE  f \in Seq(T) /\ <<>> \o f = f
<1>1. Len(s) \in Nat /\ DOMAIN s = 1 .. Len(s)
  OBVIOUS
<1>2. f \in [1 .. Len(s) -> T]
  BY <1>1
<1>3. f \in Seq(T)
  BY <1>1, <1>2
<1> QED
  BY <1>3, ConcatEmptySeq

\* A profile with another version and other types.
LEMMA Rewritten ==
    ASSUME NEW d, NEW v, NEW ts,
           d = [version |-> d.version, types |-> d.types, chains |-> d.chains,
                planRelevant |-> d.planRelevant, keyed |-> d.keyed]
    PROVE  [d EXCEPT !.version = v, !.types = ts] =
           [version |-> v, types |-> ts, chains |-> d.chains,
            planRelevant |-> d.planRelevant, keyed |-> d.keyed]
<1>1. PICK a, b, c, e, f : d = [version |-> a, types |-> b, chains |-> c, planRelevant |-> e, keyed |-> f]
  OBVIOUS
<1>2. d.chains = c /\ d.planRelevant = e /\ d.keyed = f
  BY <1>1
<1>3. [[version |-> a, types |-> b, chains |-> c, planRelevant |-> e, keyed |-> f]
          EXCEPT !.version = v, !.types = ts]
        = [version |-> v, types |-> ts, chains |-> c, planRelevant |-> e, keyed |-> f]
  <2>1. [[version |-> a, types |-> b, chains |-> c, planRelevant |-> e, keyed |-> f]
            EXCEPT !.version = v, !.types = ts]
          \in [version: {v}, types: {ts}, chains: {c}, planRelevant: {e}, keyed: {f}]
    OBVIOUS
  <2>2. \A x \in [version: {v}, types: {ts}, chains: {c}, planRelevant: {e}, keyed: {f}] :
           x = [version |-> v, types |-> ts, chains |-> c, planRelevant |-> e, keyed |-> f]
    OBVIOUS
  <2> QED
    BY <2>1, <2>2, Zenon
<1> QED
  BY <1>1, <1>2, <1>3, Zenon

\* What is decoded is a profile in memory with the same types.
LEMMA DecodeTyped ==
    ASSUME NEW d \in Documents
    PROVE  /\ decodeProfile(d) \in Profiles
           /\ decodeProfile(d).version = IF d.version = Absent THEN Nil ELSE d.version
           /\ decodeProfile(d).types = [i \in DOMAIN d.types |-> DecodeType(d.types[i])]
           /\ Alike(d, decodeProfile(d))
<1> DEFINE ts == [i \in DOMAIN d.types |-> DecodeType(d.types[i])]
<1>1. /\ d.version \in Versions \cup {maxProfileVersion, Absent} /\ d.types \in Seq(Declarations)
      /\ d = [version |-> d.version, types |-> d.types, chains |-> d.chains,
              planRelevant |-> d.planRelevant, keyed |-> d.keyed]
      /\ d.chains \in SUBSET CoverageChain /\ d.planRelevant \in Seq(TypeNames) /\ d.keyed \in SUBSET TypeNames
  BY DEF Documents, ProfileOf
<1>2. ASSUME NEW t \in Declarations
      PROVE  /\ DecodeType(t) \in NodeTypes
             /\ DecodeType(t).name = t.name /\ DecodeType(t).plural = t.plural
             /\ DecodeType(t).scope = t.scope /\ DecodeType(t).content = t.content
             /\ DecodeType(t).fields = t.fields
  BY DEF DecodeType, Declarations, NodeTypes, NodeType
<1>3. \A i \in DOMAIN d.types : d.types[i] \in Declarations
  BY <1>1
<1>4. ts \in Seq(NodeTypes) /\ <<>> \o ts = ts
  BY <1>1, <1>2, <1>3, Elementwise
<1>5. decodeProfile(d) =
        [version |-> IF d.version = Absent THEN Nil ELSE d.version, types |-> ts, chains |-> d.chains,
         planRelevant |-> d.planRelevant, keyed |-> d.keyed]
  <2> DEFINE v == IF d.version = Absent THEN Nil ELSE d.version
  <2>1. decodeProfile(d) = [d EXCEPT !.version = v, !.types = <<>> \o ts]
    BY Zenon DEF decodeProfile, Each
  <2>2. decodeProfile(d) = [d EXCEPT !.version = v, !.types = ts]
    BY <1>4, <2>1, Zenon
  <2> HIDE DEF ts, v
  <2>3. [d EXCEPT !.version = v, !.types = ts] =
          [version |-> v, types |-> ts, chains |-> d.chains,
           planRelevant |-> d.planRelevant, keyed |-> d.keyed]
    BY <1>1, Rewritten
  <2> QED
    BY <2>2, <2>3 DEF v
<1> HIDE DEF ts
<1>6. decodeProfile(d) \in Profiles
  BY <1>1, <1>4, <1>5 DEF Profiles, ProfileOf
<1>7. Alike(d, decodeProfile(d))
  <2>1. DOMAIN ts = DOMAIN d.types /\ \A i \in DOMAIN d.types : ts[i] = DecodeType(d.types[i])
    BY Zenon DEF ts
  <2>2. decodeProfile(d).types = ts
    BY <1>5
  <2> QED
    BY <1>2, <1>3, <1>5, <2>1, <2>2 DEF Alike
<1> QED
  BY <1>5, <1>6, <1>7 DEF ts

\* What is encoded is a document with the same types.
LEMMA EncodeTyped ==
    ASSUME NEW p \in Profiles
    PROVE  /\ Encode(p) \in Documents
           /\ Encode(p).version = IF p.version = Nil THEN Absent ELSE p.version
           /\ Encode(p).types = [i \in DOMAIN p.types |-> EncodeType(p.types[i])]
           /\ Alike(p, Encode(p))
<1> DEFINE ts == [i \in DOMAIN p.types |-> EncodeType(p.types[i])]
<1>1. /\ p.version \in Versions \cup {maxProfileVersion, Nil} /\ p.types \in Seq(NodeTypes)
      /\ p = [version |-> p.version, types |-> p.types, chains |-> p.chains,
              planRelevant |-> p.planRelevant, keyed |-> p.keyed]
      /\ p.chains \in SUBSET CoverageChain /\ p.planRelevant \in Seq(TypeNames) /\ p.keyed \in SUBSET TypeNames
  BY DEF Profiles, ProfileOf
<1>2. ASSUME NEW t \in NodeTypes
      PROVE  /\ EncodeType(t) \in Declarations
             /\ EncodeType(t).name = t.name /\ EncodeType(t).plural = t.plural
             /\ EncodeType(t).scope = t.scope /\ EncodeType(t).content = t.content
             /\ EncodeType(t).fields = t.fields
  BY DEF EncodeType, Declarations, NodeTypes, NodeType
<1>3. \A i \in DOMAIN p.types : p.types[i] \in NodeTypes
  BY <1>1
<1>4. ts \in Seq(Declarations) /\ <<>> \o ts = ts
  BY <1>1, <1>2, <1>3, Elementwise
<1>5. Encode(p) =
        [version |-> IF p.version = Nil THEN Absent ELSE p.version, types |-> ts, chains |-> p.chains,
         planRelevant |-> p.planRelevant, keyed |-> p.keyed]
  <2> DEFINE v == IF p.version = Nil THEN Absent ELSE p.version
  <2>1. Encode(p) = [p EXCEPT !.version = v, !.types = <<>> \o ts]
    BY Zenon DEF Encode, Each
  <2>2. Encode(p) = [p EXCEPT !.version = v, !.types = ts]
    BY <1>4, <2>1, Zenon
  <2> HIDE DEF ts, v
  <2>3. [p EXCEPT !.version = v, !.types = ts] =
          [version |-> v, types |-> ts, chains |-> p.chains,
           planRelevant |-> p.planRelevant, keyed |-> p.keyed]
    BY <1>1, Rewritten
  <2> QED
    BY <2>2, <2>3 DEF v
<1> HIDE DEF ts
<1>6. Encode(p) \in Documents
  BY <1>1, <1>4, <1>5 DEF Documents, ProfileOf
<1>7. Alike(p, Encode(p))
  <2>1. DOMAIN ts = DOMAIN p.types /\ \A i \in DOMAIN p.types : ts[i] = EncodeType(p.types[i])
    BY Zenon DEF ts
  <2>2. Encode(p).types = ts
    BY <1>5
  <2> QED
    BY <1>2, <1>3, <1>5, <2>1, <2>2 DEF Alike
<1> QED
  BY <1>5, <1>6, <1>7 DEF ts

\* Decoding undoes encoding.
LEMMA DecodeEncode ==
    ASSUME NEW p \in Profiles
    PROVE  decodeProfile(Encode(p)) = p
<1> DEFINE d == Encode(p)
           q == decodeProfile(d)
<1>1. /\ p.version \in Versions \cup {maxProfileVersion, Nil} /\ p.types \in Seq(NodeTypes)
      /\ \A i \in DOMAIN p.types : p.types[i] \in NodeTypes
  BY DEF Profiles, ProfileOf
<1>2. /\ d \in Documents /\ d.version = IF p.version = Nil THEN Absent ELSE p.version
      /\ d.types = [i \in DOMAIN p.types |-> EncodeType(p.types[i])] /\ Alike(p, d)
  BY EncodeTyped
<1> HIDE DEF d
<1>3. /\ q \in Profiles /\ q.version = IF d.version = Absent THEN Nil ELSE d.version
      /\ q.types = [i \in DOMAIN d.types |-> DecodeType(d.types[i])] /\ Alike(d, q)
  BY <1>2, DecodeTyped
<1> HIDE DEF q
<1>4. q.version = p.version
  BY <1>1, <1>2, <1>3, ProfileAssumption
<1>5. ASSUME NEW t \in NodeTypes PROVE DecodeType(EncodeType(t)) = t
  BY ProfileAssumption DEF DecodeType, EncodeType, NodeTypes, NodeType
<1>6. q.types = p.types
  <2>1. DOMAIN d.types = DOMAIN p.types
    BY <1>2
  <2>2. q.types = [i \in DOMAIN p.types |-> DecodeType(EncodeType(p.types[i]))]
    BY <1>2, <1>3, <2>1
  <2>3. q.types = [i \in DOMAIN p.types |-> p.types[i]]
    BY <1>1, <1>5, <2>2
  <2> QED
    BY <1>1, <2>3
<1>7. q.chains = p.chains /\ q.planRelevant = p.planRelevant /\ q.keyed = p.keyed
  BY <1>2, <1>3 DEF Alike
<1>8. q = p
  BY <1>3, <1>4, <1>6, <1>7 DEF Profiles, ProfileOf
<1> QED
  BY <1>8 DEF q, d

-----------------------------------------------------------------------------
(* finalize. *)

\* The convention of a content-bearing type is complete.
LEMMA ConventionTold ==
    ASSUME NEW t \in NodeTypes, Conventions(t) # {}, NEW d, d = CHOOSE x \in Conventions(t) : TRUE
    PROVE  t.content /\ d.prefix \in Prefixes \ {""} /\ d.sections \in Headings
<1>1. d \in Conventions(t)
  OBVIOUS
<1>2. PICK i \in DOMAIN Default.types : d = Default.types[i] /\ t.content /\ d.content
  BY <1>1 DEF Conventions
<1>3. Default.types \in Seq(NodeTypes)
  BY ProfileAssumption DEF Profiles, ProfileOf
<1>4. d \in NodeTypes
  <2>1. Default.types[i] \in NodeTypes
    BY <1>2, <1>3
  <2> QED
    BY <1>2, <2>1
<1>5. d.prefix \notin {Nil, ""} /\ d.sections # Nil
  BY <1>2, ProfileAssumption
<1> QED
  <2>1. d.prefix \in Prefixes \cup {Nil} /\ d.sections \in Headings \cup {Nil}
    BY <1>4 DEF NodeTypes, NodeType
  <2> QED
    BY <1>2, <1>5, <2>1

\* A type is filled in where it says nothing, once.
LEMMA FillTypeTold ==
    ASSUME NEW t \in NodeTypes
    PROVE  LET u == FillType(t)
           IN  /\ u \in NodeTypes
               /\ u.name = t.name /\ u.plural = t.plural /\ u.scope = t.scope
               /\ u.content = t.content /\ u.fields = t.fields
               /\ u.prefix = t.prefix \/ (u.prefix # "" /\ t.content)
               /\ u.sections = t.sections \/ t.content
               /\ FillType(u) = u
<1> DEFINE u == FillType(t)
           d == CHOOSE x \in Conventions(t) : TRUE
<1>1. CASE Conventions(t) = {}
  <2>1. u = t
    BY <1>1 DEF FillType
  <2> HIDE DEF u
  <2> QED
    BY <2>1 DEF u
<1>2. CASE Conventions(t) # {}
  <2>1. t.content /\ d.prefix \in Prefixes \ {""} /\ d.sections \in Headings
    BY <1>2, ConventionTold
  <2>2. u = [t EXCEPT !.prefix = IF t.prefix = Nil THEN d.prefix ELSE t.prefix,
                      !.sections = IF t.sections = Nil THEN d.sections ELSE t.sections]
    BY <1>2, Zenon DEF FillType
  <2> HIDE DEF u, d
  <2>3. /\ u \in NodeTypes
        /\ u.name = t.name /\ u.plural = t.plural /\ u.scope = t.scope
        /\ u.content = t.content /\ u.fields = t.fields
        /\ u.prefix = IF t.prefix = Nil THEN d.prefix ELSE t.prefix
        /\ u.sections = IF t.sections = Nil THEN d.sections ELSE t.sections
    BY <2>1, <2>2 DEF NodeTypes, NodeType
  <2>4. u.prefix # Nil /\ u.sections # Nil
    BY <2>1, <2>3, ProfileAssumption
  <2>5. FillType(u) = u
    <3> DEFINE e == CHOOSE x \in Conventions(u) : TRUE
    <3>1. Conventions(u) = {} => FillType(u) = u
      BY DEF FillType
    <3>2. Conventions(u) # {} =>
            FillType(u) = [u EXCEPT !.prefix = IF u.prefix = Nil THEN e.prefix ELSE u.prefix,
                                    !.sections = IF u.sections = Nil THEN e.sections ELSE u.sections]
      BY DEF FillType
    <3> HIDE DEF e
    <3>3. [u EXCEPT !.prefix = u.prefix, !.sections = u.sections] = u
      BY <2>3 DEF NodeTypes, NodeType
    <3> QED
      BY <2>4, <3>1, <3>2, <3>3
  <2> QED
    BY <2>1, <2>3, <2>5 DEF u
<1> QED
  BY <1>1, <1>2

\* What is filled in is a profile with the same types, once.
LEMMA FillTyped ==
    ASSUME NEW p \in Profiles
    PROVE  LET q == fillContentConventions(p)
           IN  /\ q \in Profiles /\ q.version = p.version /\ Alike(p, q)
               /\ \A i \in DOMAIN p.types : q.types[i] = FillType(p.types[i])
<1> DEFINE ts == [i \in DOMAIN p.types |-> FillType(p.types[i])]
           q == fillContentConventions(p)
<1>1. p.types \in Seq(NodeTypes) /\ \A i \in DOMAIN p.types : p.types[i] \in NodeTypes
  BY DEF Profiles, ProfileOf
<1>2. \A i \in DOMAIN p.types : ts[i] = FillType(p.types[i])
  BY Zenon
<1>3. \A i \in DOMAIN p.types : FillType(p.types[i]) \in NodeTypes
  BY <1>1, FillTypeTold
<1>4. ts \in Seq(NodeTypes) /\ <<>> \o ts = ts
  BY <1>1, <1>3, Elementwise
<1>5. q = [p EXCEPT !.types = <<>> \o ts]
  BY Zenon DEF fillContentConventions, Each
<1>6. q = [p EXCEPT !.types = ts]
  BY <1>4, <1>5, Zenon
<1>7. DOMAIN ts = DOMAIN p.types
  OBVIOUS
<1> HIDE DEF ts, q
<1>8. /\ q \in Profiles /\ q.version = p.version /\ q.types = ts
      /\ q.chains = p.chains /\ q.planRelevant = p.planRelevant /\ q.keyed = p.keyed
  BY <1>4, <1>6 DEF Profiles, ProfileOf
<1>9. Alike(p, q)
  <2>1. ASSUME NEW i \in DOMAIN p.types
        PROVE  /\ p.types[i].name = ts[i].name /\ p.types[i].plural = ts[i].plural
               /\ p.types[i].scope = ts[i].scope /\ p.types[i].content = ts[i].content
               /\ p.types[i].fields = ts[i].fields
    <3>1. p.types[i] \in NodeTypes /\ ts[i] = FillType(p.types[i])
      BY <1>1, <1>2
    <3> HIDE DEF ts
    <3> QED
      BY <3>1, FillTypeTold
  <2> QED
    BY <1>7, <1>8, <2>1 DEF Alike
<1> QED
  BY <1>2, <1>8, <1>9 DEF q

\* Filling in what was filled in, stamped or not, changes nothing.
LEMMA FillTwice ==
    ASSUME NEW p \in Profiles, NEW q \in Profiles,
           q.types = fillContentConventions(p).types
    PROVE  fillContentConventions(q) = q
<1> DEFINE r == fillContentConventions(q)
<1>1. /\ Alike(p, fillContentConventions(p))
      /\ \A i \in DOMAIN p.types : q.types[i] = FillType(p.types[i]) /\ p.types[i] \in NodeTypes
  <2> DEFINE f == fillContentConventions(p)
  <2>1. Alike(p, f) /\ \A i \in DOMAIN p.types : f.types[i] = FillType(p.types[i])
    BY FillTyped
  <2>2. q.types = f.types
    OBVIOUS
  <2>3. \A i \in DOMAIN p.types : p.types[i] \in NodeTypes
    BY DEF Profiles, ProfileOf
  <2> HIDE DEF f
  <2>4. \A i \in DOMAIN p.types : q.types[i] = FillType(p.types[i])
    BY <2>1, <2>2
  <2> QED
    BY <2>1, <2>3, <2>4 DEF f
<1>2. DOMAIN q.types = DOMAIN p.types
  BY <1>1 DEF Alike
<1>3. \A i \in DOMAIN q.types : FillType(q.types[i]) = q.types[i]
  <2>1. TAKE i \in DOMAIN q.types
  <2>2. p.types[i] \in NodeTypes /\ q.types[i] = FillType(p.types[i])
    BY <1>1, <1>2
  <2> QED
    BY <2>2, FillTypeTold
<1>4. /\ r \in Profiles /\ r.version = q.version /\ Alike(q, r)
      /\ \A i \in DOMAIN q.types : r.types[i] = FillType(q.types[i])
  BY FillTyped
<1> HIDE DEF r
<1>5. r.types = q.types
  <2>1. r.types \in Seq(NodeTypes) /\ q.types \in Seq(NodeTypes) /\ DOMAIN r.types = DOMAIN q.types
    BY <1>4 DEF Profiles, ProfileOf, Alike
  <2> QED
    BY <1>3, <1>4, <2>1
<1>6. r = q
  BY <1>4, <1>5 DEF Alike, Profiles, ProfileOf
<1> QED
  BY <1>6 DEF r

\* A resolved profile is filled in, of a supported version if it had one, and
\* resolves to itself.
LEMMA FinalizedTold ==
    ASSUME NEW p \in Profiles
    PROVE  LET q == Finalized(p)
           IN  /\ q \in Profiles /\ Alike(p, q) /\ Finalized(q) = q
               /\ \A i \in DOMAIN p.types : q.types[i] = FillType(p.types[i])
               /\ q = p \/ q.version = maxProfileVersion
<1> DEFINE f == fillContentConventions(p)
           q == Finalized(p)
<1>1. /\ f \in Profiles /\ f.version = p.version /\ Alike(p, f)
      /\ \A i \in DOMAIN p.types : f.types[i] = FillType(p.types[i])
  BY FillTyped
<1>2. q = IF f # p THEN [f EXCEPT !.version = maxProfileVersion] ELSE p
  BY DEF Finalized, stampResolvedVersion
<1>3. f = fillContentConventions(p)
  OBVIOUS
<1> HIDE DEF f, q
<1>4. CASE f = p
  <2>1. q = p
    BY <1>2, <1>4
  <2>2. Finalized(p) = p
    BY <1>3, <1>4 DEF Finalized
  <2> QED
    BY <1>1, <1>4, <2>1, <2>2 DEF q
<1>5. CASE f # p
  <2>1. q = [f EXCEPT !.version = maxProfileVersion]
    BY <1>2, <1>5
  <2>2. /\ q \in Profiles /\ q.version = maxProfileVersion /\ q.types = f.types
        /\ q.chains = f.chains /\ q.planRelevant = f.planRelevant /\ q.keyed = f.keyed
    BY <1>1, <2>1 DEF Profiles, ProfileOf
  <2>3. Alike(p, q)
    BY <1>1, <2>2 DEF Alike
  <2>4. fillContentConventions(q) = q
    BY <1>3, <2>2, FillTwice
  <2>5. Finalized(q) = q
    BY <2>4 DEF Finalized
  <2> QED
    BY <1>1, <2>2, <2>3, <2>5 DEF q
<1> QED
  BY <1>4, <1>5

-----------------------------------------------------------------------------
(* Validate, place by place. *)

TypeSound(p, i) ==
    /\ p.types[i].name \notin {"", "module"} /\ p.types[i].plural # "" /\ p.types[i].scope \in Scopes
    /\ \A k \in 1 .. i - 1 : ~(p.types[k].name = p.types[i].name /\ p.types[k].scope = p.types[i].scope)

ConventionSound(p, i) ==
    p.types[i].prefix # Nil \/ p.types[i].sections # Nil =>
        p.version \notin {Nil, 1} /\ p.types[i].content /\ p.types[i].prefix # ""

\* No type has a defect of its own.
LEMMA TypesSound ==
    ASSUME NEW p
    PROVE  TypeDefects(p) = {} <=> \A i \in DOMAIN p.types : TypeSound(p, i)
<1> DEFINE kinds == {"name", "module", "plural_key", "scope", "duplicate"}
           Has(i, what) ==
               LET t == p.types[i]
               IN  CASE what = "name" -> t.name = ""
                     [] what = "module" -> t.name = "module"
                     [] what = "plural_key" -> t.plural = ""
                     [] what = "scope" -> t.scope \notin Scopes
                     [] what = "duplicate" ->
                           \E k \in 1 .. i - 1 : p.types[k].name = t.name /\ p.types[k].scope = t.scope
<1>1. TypeDefects(p) = {d \in (DOMAIN p.types) \X kinds : Has(d[1], d[2])}
  BY Zenon DEF TypeDefects
<1>2. ASSUME NEW i \in DOMAIN p.types
      PROVE  (\A what \in kinds : ~Has(i, what)) <=> TypeSound(p, i)
  <2>1. /\ Has(i, "name") <=> p.types[i].name = ""
        /\ Has(i, "module") <=> p.types[i].name = "module"
        /\ Has(i, "plural_key") <=> p.types[i].plural = ""
        /\ Has(i, "scope") <=> p.types[i].scope \notin Scopes
        /\ Has(i, "duplicate") <=>
              \E k \in 1 .. i - 1 : p.types[k].name = p.types[i].name /\ p.types[k].scope = p.types[i].scope
    OBVIOUS
  <2> HIDE DEF Has
  <2> QED
    BY <2>1 DEF TypeSound
<1> HIDE DEF Has
<1>3. TypeDefects(p) = {} <=> \A i \in DOMAIN p.types : \A what \in kinds : ~Has(i, what)
  <2> HIDE DEF kinds
  <2>1. ASSUME NEW i \in DOMAIN p.types, NEW what \in kinds, Has(i, what) PROVE TypeDefects(p) # {}
    <3>1. <<i, what>> \in TypeDefects(p)
      BY <1>1, <2>1
    <3> QED
      BY <3>1
  <2>2. ASSUME NEW d \in TypeDefects(p) PROVE \E i \in DOMAIN p.types : \E what \in kinds : Has(i, what)
    BY <1>1, <2>2
  <2> QED
    BY <2>1, <2>2
<1> QED
  BY <1>2, <1>3

\* No type has a convention it may not have.
LEMMA ConventionsSound ==
    ASSUME NEW p
    PROVE  ConventionDefects(p) = {} <=> \A i \in DOMAIN p.types : ConventionSound(p, i)
<1> DEFINE kinds == {"version", "content", "prefix"}
           declaring == {i \in DOMAIN p.types : p.types[i].prefix # Nil \/ p.types[i].sections # Nil}
           Has(t, what) ==
               CASE what = "version" -> p.version \in {Nil, 1}
                 [] what = "content" -> ~t.content
                 [] what = "prefix" -> t.prefix = ""
<1>1. ConventionDefects(p) = {d \in declaring \X kinds : Has(p.types[d[1]], d[2])}
  BY Zenon DEF ConventionDefects
<1>2. ASSUME NEW i \in DOMAIN p.types
      PROVE  (i \in declaring => \A what \in kinds : ~Has(p.types[i], what)) <=> ConventionSound(p, i)
  <2>1. /\ Has(p.types[i], "version") <=> p.version \in {Nil, 1}
        /\ Has(p.types[i], "content") <=> ~p.types[i].content
        /\ Has(p.types[i], "prefix") <=> p.types[i].prefix = ""
    OBVIOUS
  <2> HIDE DEF Has
  <2> QED
    BY <2>1 DEF ConventionSound
<1> HIDE DEF Has
<1>3. ConventionDefects(p) = {} <=> \A i \in declaring : \A what \in kinds : ~Has(p.types[i], what)
  <2> HIDE DEF kinds, declaring
  <2>1. ASSUME NEW i \in declaring, NEW what \in kinds, Has(p.types[i], what) PROVE ConventionDefects(p) # {}
    <3>1. <<i, what>> \in ConventionDefects(p)
      BY <1>1, <2>1
    <3> QED
      BY <3>1
  <2>2. ASSUME NEW d \in ConventionDefects(p) PROVE \E i \in declaring : \E what \in kinds : Has(p.types[i], what)
    BY <1>1, <2>2
  <2> QED
    BY <2>1, <2>2
<1> QED
  BY <1>2, <1>3

\* No field has a defect.
LEMMA FieldsSound ==
    ASSUME NEW p
    PROVE  FieldDefects(p) = {} <=>
             \A i \in DOMAIN p.types : \A j \in DOMAIN p.types[i].fields : \A what \in FieldFaults :
                 ~FieldHas(p, p.types[i], j, what)
<1> DEFINE Of(i) == {x \in (DOMAIN p.types[i].fields) \X FieldFaults : FieldHas(p, p.types[i], x[1], x[2])}
<1>1. FieldDefects(p) = UNION {{<<i, d>> : d \in Of(i)} : i \in DOMAIN p.types}
  BY Zenon DEF FieldDefects
<1>2. ASSUME NEW i \in DOMAIN p.types, NEW j \in DOMAIN p.types[i].fields, NEW what \in FieldFaults,
             FieldHas(p, p.types[i], j, what)
      PROVE  FieldDefects(p) # {}
  <2>1. <<j, what>> \in Of(i)
    BY <1>2
  <2> HIDE DEF Of
  <2>2. <<i, <<j, what>>>> \in FieldDefects(p)
    BY <1>1, <2>1
  <2> QED
    BY <2>2
<1>3. ASSUME NEW x \in FieldDefects(p)
      PROVE  \E i \in DOMAIN p.types : \E j \in DOMAIN p.types[i].fields : \E what \in FieldFaults :
                 FieldHas(p, p.types[i], j, what)
  <2>1. PICK i \in DOMAIN p.types : \E d \in Of(i) : x = <<i, d>>
    BY <1>1, <1>3
  <2>2. PICK d \in Of(i) : x = <<i, d>>
    BY <2>1
  <2> QED
    BY <2>1, <2>2
<1> QED
  BY <1>2, <1>3

\* The names declared are those of the types.
LEMMA AlikeDeclared ==
    ASSUME NEW p, NEW q, Alike(p, q)
    PROVE  Declared(q) = Declared(p)
<1>1. {q.types[i].name : i \in DOMAIN q.types} = {p.types[i].name : i \in DOMAIN p.types}
  BY DEF Alike
<1> QED
  BY <1>1 DEF Declared

\* Profiles that are alike have the same sound types,
LEMMA AlikeTypes ==
    ASSUME NEW p \in Profiles, NEW q \in Profiles, Alike(p, q), TypeDefects(p) = {}
    PROVE  TypeDefects(q) = {}
<1>1. ASSUME NEW i \in DOMAIN q.types
      PROVE  TypeSound(q, i)
  <2>1. i \in DOMAIN p.types /\ TypeSound(p, i)
    BY TypesSound DEF Alike
  <2>2. \A k \in 1 .. i - 1 : k \in DOMAIN p.types
    BY <2>1 DEF Profiles, ProfileOf
  <2> QED
    BY <2>1, <2>2 DEF TypeSound, Alike
<1> QED
  BY <1>1, TypesSound

\* the same sound fields,
LEMMA AlikeFields ==
    ASSUME NEW p, NEW q, Alike(p, q), FieldDefects(p) = {}
    PROVE  FieldDefects(q) = {}
<1>1. ASSUME NEW i \in DOMAIN q.types, NEW j \in DOMAIN q.types[i].fields, NEW what \in FieldFaults
      PROVE  ~FieldHas(q, q.types[i], j, what)
  <2> DEFINE t == p.types[i]
             u == q.types[i]
  <2>1. i \in DOMAIN p.types /\ u.fields = t.fields /\ u.content = t.content
    BY DEF Alike
  <2>2. ~FieldHas(p, t, j, what)
    BY <2>1, FieldsSound
  <2>3. Declared(q) = Declared(p)
    BY AlikeDeclared
  <2> HIDE DEF t, u
  <2>4. FieldHas(q, u, j, what) = FieldHas(p, t, j, what)
    BY <2>1, <2>3, Zenon DEF FieldHas
  <2> QED
    BY <2>2, <2>4 DEF t, u
<1> QED
  BY <1>1, FieldsSound

\* and the same sound chains.
LEMMA AlikeChains ==
    ASSUME NEW p, NEW q, Alike(p, q), NEW c, ChainSound(p, c),
           \A x \in Candidates(p, c) : x[1] \in DOMAIN p.types,
           Candidates(p, c) # {} => First(Candidates(p, c)) \in Candidates(p, c)
    PROVE  ChainSound(q, c)
<1>1. Declared(q) = Declared(p)
  BY AlikeDeclared
<1>2. Candidates(q, c) = Candidates(p, c)
  <2> DEFINE Covering(r) == {i \in DOMAIN r.types :
                               r.types[i].name = c.covering /\ c.coveringScope \in {"", r.types[i].scope}}
             Of(r, i) == {<<i, j>> : j \in {k \in DOMAIN r.types[i].fields : r.types[i].fields[k].name = c.edge}}
  <2>1. Covering(q) = Covering(p) /\ Covering(p) \subseteq DOMAIN p.types
    BY DEF Alike
  <2>2. \A i \in Covering(p) : Of(q, i) = Of(p, i)
    BY <2>1 DEF Alike
  <2>3. \A r : Candidates(r, c) = UNION {Of(r, i) : i \in Covering(r)}
    BY Zenon DEF Candidates
  <2> HIDE DEF Covering, Of
  <2>4. Candidates(q, c) = UNION {Of(q, i) : i \in Covering(p)} /\ Candidates(p, c) = UNION {Of(p, i) : i \in Covering(p)}
    BY <2>1, <2>3
  <2>5. UNION {Of(q, i) : i \in Covering(p)} = UNION {Of(p, i) : i \in Covering(p)}
    BY <2>2
  <2> QED
    BY <2>4, <2>5
<1>3. PICK x : x = First(Candidates(p, c)) /\ x = First(Candidates(q, c)) /\ x[1] \in DOMAIN p.types
  BY <1>2 DEF ChainSound
<1>4. q.types[x[1]].fields = p.types[x[1]].fields
  BY <1>3 DEF Alike
<1>5. /\ {c.covered, c.covering} \subseteq Declared(p) /\ Candidates(p, c) # {}
      /\ p.types[x[1]].fields[x[2]].kind = "reference" /\ c.covered \in p.types[x[1]].fields[x[2]].targets
  BY <1>3 DEF ChainSound
<1> QED
  BY <1>1, <1>2, <1>3, <1>4, <1>5 DEF ChainSound

\* A set of indices that is not empty has a least one.
LEMMA LeastIndex ==
    ASSUME NEW S, S \subseteq Nat, S # {}
    PROVE  \E x \in S : \A y \in S : x <= y
<1>1. PICK x \in S : \A y \in S : ~(<<y, x>> \in OpToRel(<, Nat))
  BY NatLessThanWellFounded, WFMin
<1>2. OpToRel(<, Nat) = {ss \in Nat \X Nat : ss[1] < ss[2]}
  BY Zenon DEF OpToRel
<1>3. \A y \in S : x <= y
  <2>1. TAKE y \in S
  <2>2. ~(<<y, x>> \in {ss \in Nat \X Nat : ss[1] < ss[2]})
    BY <1>1, <1>2
  <2> QED
    BY <2>2, SMT
<1> QED
  BY <1>3

\* A set of indices of a sequence that is not empty has a greatest one.
LEMMA LastIndex ==
    ASSUME NEW n \in Nat, NEW S, S \subseteq 1 .. n, S # {}
    PROVE  Max(S) \in S
<1> DEFINE T == {n - i : i \in S}
<1>1. T \subseteq Nat
  BY SMT
<1>2. T # {}
  BY Zenon
<1>3. PICK m \in T : \A y \in T : m <= y
  BY <1>1, <1>2, LeastIndex
<1>4. PICK x \in S : m = n - x
  BY <1>3
<1>5. \A y \in S : x >= y
  <2>1. TAKE y \in S
  <2>2. n - y \in T
    OBVIOUS
  <2> QED
    BY <1>3, <1>4, <2>2
<1> QED
  BY <1>5 DEF Max

\* findField finds the first of the candidates.
LEMMA FirstFound ==
    ASSUME NEW S, S \subseteq Nat \X Nat, S # {}
    PROVE  First(S) \in S
<1> DEFINE I == {x[1] : x \in S}
<1>1. I \subseteq Nat /\ I # {}
  BY SMT
<1>2. PICK i \in I : \A k \in I : i <= k
  BY <1>1, LeastIndex
<1> DEFINE J == {j \in Nat : <<i, j>> \in S}
<1>3. J \subseteq Nat /\ J # {}
  <2>1. PICK x \in S : i = x[1]
    BY <1>2
  <2>2. x = <<i, x[2]>> /\ x[2] \in Nat
    BY <2>1
  <2> QED
    BY <2>2
<1>4. PICK j \in J : \A k \in J : j <= k
  BY <1>3, LeastIndex
<1>5. <<i, j>> \in S
  BY <1>4
<1>6. ASSUME NEW y \in S
      PROVE  i < y[1] \/ (i = y[1] /\ j <= y[2])
  <2>1. y \in Nat \X Nat /\ y[1] \in I /\ i \in Nat
    BY <1>1, <1>2
  <2>2. i <= y[1] /\ y[1] \in Nat /\ y[2] \in Nat /\ y = <<y[1], y[2]>>
    BY <1>2, <2>1
  <2>3. CASE i = y[1]
    <3>1. y[2] \in J
      BY <2>2, <2>3
    <3> QED
      BY <1>4, <2>3, <3>1
  <2> QED
    BY <2>1, <2>2, <2>3
<1>7. \E x \in S : \A y \in S : x[1] < y[1] \/ (x[1] = y[1] /\ x[2] <= y[2])
  <2>1. <<i, j>>[1] = i /\ <<i, j>>[2] = j
    OBVIOUS
  <2> QED
    BY <1>5, <1>6, <2>1
<1> QED
  BY <1>7 DEF First

\* The candidates of a chain are fields of the name it asks for.
LEMMA CandidatesTold ==
    ASSUME NEW p \in Profiles, NEW c
    PROVE  /\ \A x \in Candidates(p, c) :
                 /\ x[1] \in DOMAIN p.types /\ x[2] \in DOMAIN p.types[x[1]].fields
                 /\ p.types[x[1]].name = c.covering /\ p.types[x[1]].fields[x[2]].name = c.edge
           /\ Candidates(p, c) # {} => First(Candidates(p, c)) \in Candidates(p, c)
<1>1. ASSUME NEW x \in Candidates(p, c)
      PROVE  /\ x \in Nat \X Nat
             /\ x[1] \in DOMAIN p.types /\ x[2] \in DOMAIN p.types[x[1]].fields
             /\ p.types[x[1]].name = c.covering /\ p.types[x[1]].fields[x[2]].name = c.edge
  <2>1. PICK i \in DOMAIN p.types :
           /\ p.types[i].name = c.covering
           /\ x \in {<<i, j>> : j \in {k \in DOMAIN p.types[i].fields : p.types[i].fields[k].name = c.edge}}
    BY <1>1 DEF Candidates
  <2>2. PICK j \in DOMAIN p.types[i].fields : x = <<i, j>> /\ p.types[i].fields[j].name = c.edge
    BY <2>1
  <2>3. i \in Nat /\ p.types[i] \in NodeTypes
    BY DEF Profiles, ProfileOf
  <2>4. j \in Nat
    BY <2>3 DEF NodeTypes, NodeType
  <2> QED
    BY <2>1, <2>2, <2>3, <2>4
<1>2. Candidates(p, c) # {} => First(Candidates(p, c)) \in Candidates(p, c)
  BY <1>1, FirstFound
<1> QED
  BY <1>1, <1>2

\* A valid profile is as valid when it is resolved.
LEMMA FinalizedValid ==
    ASSUME NEW p \in Profiles, Valid(p)
    PROVE  Valid(Finalized(p))
<1> DEFINE q == Finalized(p)
<1>1. /\ q \in Profiles /\ Alike(p, q)
      /\ \A i \in DOMAIN p.types : q.types[i] = FillType(p.types[i])
      /\ q = p \/ q.version = maxProfileVersion
  BY FinalizedTold
<1> HIDE DEF q
<1>2. CASE q = p
  BY <1>2 DEF q
<1>3. CASE q.version = maxProfileVersion
  <2>1. VersionSupported(q)
    BY <1>3 DEF VersionSupported, minProfileVersion, maxProfileVersion
  <2>2. TypeDefects(q) = {} /\ FieldDefects(q) = {}
    BY <1>1, AlikeTypes, AlikeFields DEF Valid
  <2>3. ConventionDefects(q) = {}
    <3>1. ASSUME NEW i \in DOMAIN q.types PROVE ConventionSound(q, i)
      <4>1. i \in DOMAIN p.types /\ p.types[i] \in NodeTypes
        BY <1>1 DEF Alike, Profiles, ProfileOf
      <4> DEFINE t == p.types[i]
                 u == FillType(t)
      <4>2. ConventionSound(p, i)
        BY <4>1, ConventionsSound DEF Valid
      <4>3. t \in NodeTypes
        BY <4>1
      <4>4. /\ u.content = t.content /\ (u.prefix = t.prefix \/ (u.prefix # "" /\ t.content))
            /\ (u.sections = t.sections \/ t.content)
        BY <4>3, FillTypeTold
      <4>5. q.types[i] = u
        BY <1>1, <4>1
      <4>6. q.version \notin {Nil, 1}
        <5>1. Nil # maxProfileVersion
          BY ProfileAssumption
        <5> QED
          BY <1>3, <5>1 DEF maxProfileVersion
      <4>7. t.prefix # Nil \/ t.sections # Nil => t.content /\ t.prefix # ""
        BY <4>2 DEF ConventionSound
      <4>8. Nil # ""
        BY ProfileAssumption
      <4> HIDE DEF t, u
      <4> QED
        BY <4>4, <4>5, <4>6, <4>7, <4>8 DEF ConventionSound
    <3> QED
      BY <3>1, ConventionsSound
  <2>4. \A c \in q.chains : ChainSound(q, c)
    <3>1. TAKE c \in q.chains
    <3>2. ChainSound(p, c)
      BY <1>1 DEF Alike, Valid
    <3> QED
      BY <1>1, <3>2, CandidatesTold, AlikeChains
  <2>5. ListDefects(q) = {} /\ TableDefects(q) = {}
    BY <1>1, AlikeDeclared DEF Alike, Valid, ListDefects, TableDefects
  <2> QED
    BY <2>1, <2>2, <2>3, <2>4, <2>5 DEF Valid, q
<1> QED
  BY <1>1, <1>2, <1>3

-----------------------------------------------------------------------------
(* The file an author writes. *)

Known == NewTypes \cup Range(Default.types)

\* Every type goes by the names of one the author may add, or of the default's,
\* and has its fields if no one edits them.
KnownType(u) ==
    \E t \in Known :
        /\ t.name = u.name /\ t.plural = u.plural /\ t.scope = u.scope
        /\ t.name \notin Editable => t.fields = u.fields

KnownTypes(p) == \A i \in DOMAIN p.types : KnownType(p.types[i])

FileInv == file = Absent \/ (file \in Documents /\ KnownTypes(file))

\* Profiles that are alike have the same known types.
LEMMA AlikeKnown ==
    ASSUME NEW p, NEW q, Alike(p, q), KnownTypes(p)
    PROVE  KnownTypes(q)
BY DEF Alike, KnownTypes, KnownType

\* What is resolved is a profile of known types.
LEMMA SourceTyped ==
    ASSUME FileInv
    PROVE  /\ Source \in Profiles /\ KnownTypes(Source)
           /\ Resolved \in Profiles /\ KnownTypes(Resolved) /\ Finalized(Resolved) = Resolved
<1>1. Source \in Profiles /\ KnownTypes(Source)
  <2>1. CASE file = Absent
    <3>1. Source = Default /\ Default \in Profiles
      BY <2>1, ProfileAssumption DEF Source
    <3>2. \A i \in DOMAIN Default.types : Default.types[i] \in Known
      BY DEF Known, Range
    <3> QED
      BY <3>1, <3>2 DEF KnownTypes, KnownType
  <2>2. CASE file # Absent
    <3>1. Source = decodeProfile(file) /\ file \in Documents /\ KnownTypes(file)
      BY <2>2 DEF Source, FileInv
    <3> QED
      BY <3>1, DecodeTyped, AlikeKnown
  <2> QED
    BY <2>1, <2>2
<1>2. Resolved \in Profiles /\ Alike(Source, Resolved) /\ Finalized(Resolved) = Resolved
  BY <1>1, FinalizedTold DEF Resolved
<1> QED
  BY <1>1, <1>2, AlikeKnown

\* One type's declaration is edited.
LEMMA TypeEdited ==
    ASSUME NEW d \in Documents, KnownTypes(d), NEW i \in DOMAIN d.types, NEW u \in Declarations,
           u.name = d.types[i].name, u.plural = d.types[i].plural, u.scope = d.types[i].scope,
           u.name \in Editable \/ u.fields = d.types[i].fields
    PROVE  LET e == [d EXCEPT !.types = [d.types EXCEPT ![i] = u]]
           IN  e \in Documents /\ KnownTypes(e)
<1> DEFINE ts == [d.types EXCEPT ![i] = u]
           e == [d EXCEPT !.types = ts]
<1>1. d.types \in Seq(Declarations)
  BY DEF Documents, ProfileOf
<1>2. ts \in Seq(Declarations) /\ DOMAIN ts = DOMAIN d.types
      /\ \A k \in DOMAIN d.types : ts[k] = IF k = i THEN u ELSE d.types[k]
  BY <1>1
<1> HIDE DEF ts
<1>3. e \in Documents /\ e.types = ts
  BY <1>2 DEF Documents, ProfileOf
<1>4. KnownTypes(e)
  <2>1. KnownType(u)
    BY DEF KnownTypes, KnownType
  <2> QED
    BY <1>2, <1>3, <2>1 DEF KnownTypes
<1> QED
  BY <1>3, <1>4 DEF ts

\* The types are those of two documents, or of one that is known.
LEMMA TypesReplaced ==
    ASSUME NEW d \in Documents, NEW ts \in Seq(Declarations),
           \A k \in DOMAIN ts : KnownType(ts[k])
    PROVE  LET e == [d EXCEPT !.types = ts] IN e \in Documents /\ KnownTypes(e)
<1> DEFINE e == [d EXCEPT !.types = ts]
<1>1. e \in Documents /\ e.types = ts
  BY DEF Documents, ProfileOf
<1> HIDE DEF e
<1>2. KnownTypes(e)
  BY <1>1 DEF KnownTypes
<1> QED
  BY <1>1, <1>2 DEF e

\* The file stays a document, whatever the author does to one of its types.
LEMMA EditsTyped ==
    ASSUME file \in Documents, KnownTypes(file), NEW i \in DOMAIN file.types, EditType(i)
    PROVE  file' \in Documents /\ KnownTypes(file')
<1> DEFINE t == file.types[i]
<1>1. file.types \in Seq(Declarations) /\ t \in Declarations /\ i \in 1 .. Len(file.types) /\ Len(file.types) \in Nat
  BY DEF Documents, ProfileOf
<1>2. CASE DropType(i)
  <2> DEFINE a == SubSeq(file.types, 1, i - 1)
             b == SubSeq(file.types, i + 1, Len(file.types))
  <2>1. /\ a \in Seq(Declarations) /\ Len(a) = i - 1
        /\ \A k \in 1 .. i - 1 : a[k] = file.types[k]
    BY <1>1
  <2>2. /\ b \in Seq(Declarations) /\ Len(b) = Len(file.types) - i
        /\ \A k \in 1 .. Len(file.types) - i : b[k] = file.types[k + i]
    BY <1>1
  <2>3. file' = [file EXCEPT !.types = a \o b]
    BY <1>2 DEF DropType, Edit
  <2> HIDE DEF a, b, t
  <2>4. a \o b \in Seq(Declarations) /\ \A k \in DOMAIN (a \o b) : \E m \in DOMAIN file.types : (a \o b)[k] = file.types[m]
    <3>1. /\ a \o b \in Seq(Declarations) /\ Len(a \o b) = Len(file.types) - 1
          /\ \A k \in 1 .. Len(file.types) - 1 : (a \o b)[k] = IF k <= i - 1 THEN a[k] ELSE b[k - (i - 1)]
      <4>1. /\ a \o b \in Seq(Declarations) /\ Len(a \o b) = Len(a) + Len(b)
            /\ \A k \in 1 .. Len(a) + Len(b) : (a \o b)[k] = IF k <= Len(a) THEN a[k] ELSE b[k - Len(a)]
        BY <2>1, <2>2, ConcatProperties
      <4>2. Len(a) + Len(b) = Len(file.types) - 1
        BY <1>1, <2>1, <2>2
      <4> QED
        BY <2>1, <4>1, <4>2
    <3>2. ASSUME NEW k \in 1 .. Len(file.types) - 1 PROVE \E m \in DOMAIN file.types : (a \o b)[k] = file.types[m]
      <4>1. CASE k <= i - 1
        <5>1. (a \o b)[k] = file.types[k] /\ k \in 1 .. Len(file.types)
          BY <1>1, <2>1, <3>1, <4>1
        <5> QED
          BY <1>1, <5>1
      <4>2. CASE ~(k <= i - 1)
        <5>1. k - (i - 1) \in 1 .. Len(file.types) - i /\ k + 1 = (k - (i - 1)) + i /\ k + 1 \in 1 .. Len(file.types)
          BY <1>1, <4>2
        <5>2. (a \o b)[k] = file.types[k + 1]
          BY <2>2, <3>1, <4>2, <5>1
        <5> QED
          BY <1>1, <5>1, <5>2
      <4> QED
        BY <4>1, <4>2
    <3>3. DOMAIN (a \o b) = 1 .. Len(file.types) - 1
      BY <3>1
    <3> QED
      BY <3>1, <3>2, <3>3
  <2> DEFINE ts == a \o b
  <2>5. ts \in Seq(Declarations) /\ \A k \in DOMAIN ts : KnownType(ts[k])
    BY <2>4 DEF KnownTypes
  <2>6. file' = [file EXCEPT !.types = ts]
    BY <2>3
  <2> HIDE DEF ts
  <2> QED
    BY <2>5, <2>6, TypesReplaced
<1>3. ASSUME NEW u \in Declarations, u.name = t.name, u.plural = t.plural, u.scope = t.scope,
             u.name \in Editable \/ u.fields = t.fields,
             file' = [file EXCEPT !.types = [file.types EXCEPT ![i] = u]]
      PROVE  file' \in Documents /\ KnownTypes(file')
  BY <1>3, TypeEdited
<1>4. CASE SetContent(i)
  <2> DEFINE u == [t EXCEPT !.content = ~t.content]
  <2>1. u \in Declarations /\ u.name = t.name /\ u.plural = t.plural /\ u.scope = t.scope
        /\ u.fields = t.fields
    BY <1>1 DEF Declarations, NodeType
  <2>2. file' = [file EXCEPT !.types = [file.types EXCEPT ![i] = u]]
    BY <1>4 DEF SetContent, Edit
  <2> QED
    BY <1>3, <2>1, <2>2
<1>5. ASSUME NEW x \in Prefixes \cup {Absent}, SetPrefix(i, x)
      PROVE  file' \in Documents /\ KnownTypes(file')
  <2> DEFINE u == [t EXCEPT !.prefix = x]
  <2>1. u \in Declarations /\ u.name = t.name /\ u.plural = t.plural /\ u.scope = t.scope
        /\ u.fields = t.fields
    BY <1>1 DEF Declarations, NodeType
  <2>2. file' = [file EXCEPT !.types = [file.types EXCEPT ![i] = u]]
    BY <1>5 DEF SetPrefix, Edit
  <2> QED
    BY <1>3, <2>1, <2>2
<1>6. ASSUME NEW x \in Headings \cup {Absent}, SetSections(i, x)
      PROVE  file' \in Documents /\ KnownTypes(file')
  <2> DEFINE u == [t EXCEPT !.sections = x]
  <2>1. u \in Declarations /\ u.name = t.name /\ u.plural = t.plural /\ u.scope = t.scope
        /\ u.fields = t.fields
    BY <1>1 DEF Declarations, NodeType
  <2>2. file' = [file EXCEPT !.types = [file.types EXCEPT ![i] = u]]
    BY <1>6 DEF SetSections, Edit
  <2> QED
    BY <1>3, <2>1, <2>2
<1>7. ASSUME NEW fs \in Seq(Field), t.name \in Editable,
             file' = [file EXCEPT !.types = [file.types EXCEPT ![i] = [t EXCEPT !.fields = fs]]]
      PROVE  file' \in Documents /\ KnownTypes(file')
  <2> DEFINE u == [t EXCEPT !.fields = fs]
  <2>1. u \in Declarations /\ u.name = t.name /\ u.plural = t.plural /\ u.scope = t.scope
    BY <1>1 DEF Declarations, NodeType
  <2> QED
    BY <1>3, <1>7, <2>1
<1>8. t.fields \in Seq(Field) /\ Len(t.fields) \in Nat
  BY <1>1 DEF Declarations, NodeType
<1>9. ASSUME NEW f \in NewFields, t.name \in Editable, AddField(i, f)
      PROVE  file' \in Documents /\ KnownTypes(file')
  <2>1. Append(t.fields, f) \in Seq(Field)
    BY <1>8, ProfileAssumption, AppendProperties
  <2>2. file' = [file EXCEPT !.types = [file.types EXCEPT ![i] = [t EXCEPT !.fields = Append(t.fields, f)]]]
    BY <1>9 DEF AddField, Edit
  <2> QED
    BY <1>7, <1>9, <2>1, <2>2
<1>10. ASSUME NEW j \in DOMAIN t.fields, t.name \in Editable, DropField(i, j)
       PROVE  file' \in Documents /\ KnownTypes(file')
  <2> DEFINE fs == SubSeq(t.fields, 1, j - 1) \o SubSeq(t.fields, j + 1, Len(t.fields))
  <2>1. j \in 1 .. Len(t.fields) /\ j \in Nat
    BY <1>8
  <2>2. SubSeq(t.fields, 1, j - 1) \in Seq(Field) /\ SubSeq(t.fields, j + 1, Len(t.fields)) \in Seq(Field)
    BY <1>8, <2>1
  <2>3. fs \in Seq(Field)
    BY <2>2, ConcatProperties
  <2>4. file' = [file EXCEPT !.types = [file.types EXCEPT ![i] = [t EXCEPT !.fields = fs]]]
    BY <1>10 DEF DropField, Edit
  <2> HIDE DEF fs
  <2> QED
    BY <1>7, <1>10, <2>3, <2>4
<1> QED
  BY <1>2, <1>4, <1>5, <1>6, <1>9, <1>10 DEF EditType

\* The file is none, or a document of known types.
LEMMA FileInvariant == Spec => []FileInv
<1>1. Init => FileInv
  BY DEF Init, FileInv
<1>2. FileInv /\ [Next]_vars => FileInv'
  <2> SUFFICES ASSUME FileInv, [Next]_vars PROVE FileInv'
    OBVIOUS
  <2> USE DEF FileInv
  <2>1. CASE Show
    <3>1. Resolved \in Profiles /\ KnownTypes(Resolved) /\ file' = Encode(Resolved)
      BY <2>1, SourceTyped DEF Show
    <3> QED
      BY <3>1, EncodeTyped, AlikeKnown
  <2>2. CASE Begin
    <3>1. file' = Draft /\ Draft \in Documents
      BY <2>2 DEF Begin, Draft, Documents, ProfileOf
    <3>2. DOMAIN Draft.types = {}
      BY DEF Draft
    <3> QED
      BY <3>1, <3>2 DEF KnownTypes
  <2>3. ASSUME NEW t \in NewTypes, AddType(t) PROVE FileInv'
    <3> DEFINE ts == Append(file.types, t)
    <3>1. file \in Documents /\ KnownTypes(file) /\ file' = [file EXCEPT !.types = ts]
      BY <2>3 DEF AddType, Edit
    <3>2. t \in Declarations /\ file.types \in Seq(Declarations)
      BY <3>1, ProfileAssumption DEF Documents, ProfileOf
    <3>3. /\ ts \in Seq(Declarations) /\ DOMAIN ts = 1 .. Len(file.types) + 1
          /\ \A k \in 1 .. Len(file.types) : ts[k] = file.types[k]
          /\ ts[Len(file.types) + 1] = t
      BY <3>2
    <3>4. DOMAIN file.types = 1 .. Len(file.types) /\ Len(file.types) \in Nat
      BY <3>2
    <3> HIDE DEF ts
    <3>5. ASSUME NEW k \in DOMAIN ts
          PROVE  KnownType(ts[k])
      <4>1. CASE k = Len(file.types) + 1
        BY <3>3, <4>1 DEF Known, KnownType
      <4>2. CASE k # Len(file.types) + 1
        <5>1. k \in 1 .. Len(file.types)
          BY <3>3, <3>4, <4>2
        <5>2. ts[k] = file.types[k] /\ k \in DOMAIN file.types
          BY <3>3, <3>4, <5>1
        <5> QED
          BY <3>1, <5>2 DEF KnownTypes
      <4> QED
        BY <4>1, <4>2
    <3> QED
      BY <3>1, <3>3, <3>5, TypesReplaced
  <2>4. ASSUME NEW i \in Indices, EditType(i) PROVE FileInv'
    <3>1. file \in Documents /\ KnownTypes(file) /\ i \in DOMAIN file.types
      BY <2>4 DEF Indices
    <3> QED
      BY <2>4, <3>1, EditsTyped
  <2>5. ASSUME file # Absent, file' \in Documents, file'.types = file.types PROVE FileInv'
    BY <2>5 DEF KnownTypes
  <2>6. ASSUME NEW v \in Versions \cup {Absent}, SetVersion(v) PROVE FileInv'
    <3>1. file # Absent /\ file' = [file EXCEPT !.version = v]
      BY <2>6 DEF SetVersion, Edit
    <3>2. file' \in Documents /\ file'.types = file.types
      BY <3>1 DEF Documents, ProfileOf
    <3> QED
      BY <2>5, <3>1, <3>2
  <2>7. ASSUME NEW c \in NewChains, AddChain(c) PROVE FileInv'
    <3>1. file # Absent /\ file' = [file EXCEPT !.chains = file.chains \cup {c}]
      BY <2>7 DEF AddChain, Edit
    <3>2. file' \in Documents /\ file'.types = file.types
      BY <3>1, ProfileAssumption DEF Documents, ProfileOf
    <3> QED
      BY <2>5, <3>1, <3>2
  <2>8. ASSUME NEW name \in TypeNames, ListPlanned(name) PROVE FileInv'
    <3>1. file # Absent /\ file' = [file EXCEPT !.planRelevant = Append(file.planRelevant, name)]
      BY <2>8 DEF ListPlanned, Edit
    <3> DEFINE planned == Append(file.planRelevant, name)
    <3>2. file' \in Documents /\ file'.types = file.types
      <4>1. file \in Documents /\ file.planRelevant \in Seq(TypeNames)
        BY <3>1 DEF Documents, ProfileOf
      <4>2. planned \in Seq(TypeNames)
        BY <4>1, AppendProperties
      <4>3. file' = [file EXCEPT !.planRelevant = planned]
        BY <3>1
      <4> HIDE DEF planned
      <4> QED
        BY <4>1, <4>2, <4>3 DEF Documents, ProfileOf
    <3> QED
      BY <2>5, <3>1, <3>2
  <2>9. ASSUME NEW name \in TypeNames, Key(name) PROVE FileInv'
    <3>1. file # Absent /\ file' = [file EXCEPT !.keyed = file.keyed \cup {name}]
      BY <2>9 DEF Key, Edit
    <3>2. file' \in Documents /\ file'.types = file.types
      BY <3>1 DEF Documents, ProfileOf
    <3> QED
      BY <2>5, <3>1, <3>2
  <2>10. CASE UNCHANGED vars
    BY <2>10 DEF vars, KnownTypes
  <2> QED
    BY <2>1, <2>2, <2>3, <2>4, <2>6, <2>7, <2>8, <2>9, <2>10 DEF Next
<1> QED
  BY <1>1, <1>2, PTL DEF Spec

(***************************************************************************)
(* Whatever profile an author wrote, or none: where profile show prints    *)
(* one, committing what it prints is accepted and resolves to the very     *)
(* same profile, as the conventions it fills in are complete and the       *)
(* version it stamps admits them (profile.go, stampResolvedVersion).       *)
(***************************************************************************)
THEOREM ShownProfileIsTheProfile == Spec => ShowIsNeutral
<1>1. FileInv /\ FileInv' /\ [Next]_vars => [Show => Accepted' /\ Resolved' = Resolved]_vars
  <2> SUFFICES ASSUME FileInv, Show PROVE Accepted' /\ Resolved' = Resolved
    OBVIOUS
  <2>1. /\ Source \in Profiles /\ Valid(Source) /\ Resolved \in Profiles
        /\ Resolved = Finalized(Source) /\ Finalized(Resolved) = Resolved
        /\ file' = Encode(Resolved)
    BY SourceTyped DEF Show, Accepted, Resolved
  <2>2. Encode(Resolved) # Absent
    BY <2>1, EncodeTyped, ProfileAssumption
  <2>3. Source' = decodeProfile(Encode(Resolved))
    BY <2>1, <2>2 DEF Source
  <2>4. Source' = Resolved
    BY <2>1, <2>3, DecodeEncode
  <2>5. Valid(Resolved)
    BY <2>1, FinalizedValid
  <2>6. Accepted' <=> Valid(Source')
    BY DEF Accepted
  <2>7. Resolved' = Finalized(Source')
    BY DEF Resolved
  <2> QED
    BY <2>1, <2>4, <2>5, <2>6, <2>7
<1> QED
  BY <1>1, FileInvariant, PTL DEF Spec, ShowIsNeutral

-----------------------------------------------------------------------------
(* Names that are there. *)

\* No two types of a scope share a plural key, unless they share a name.
PluralsApart ==
    \A t, u \in Known : t.scope = u.scope /\ t.plural = u.plural => t.name = u.name

Held(p) == {"module"} \cup UNION {Range(Arrays(p, scope)) : scope \in Scopes}

\* A declared type has entries.
LEMMA DeclaredHeld ==
    ASSUME PluralsApart, NEW p \in Profiles, KnownTypes(p), TypeDefects(p) = {}
    PROVE  Declared(p) \subseteq Held(p)
<1> SUFFICES ASSUME NEW name \in Declared(p) PROVE name \in Held(p)
  OBVIOUS
<1>1. PICK i \in DOMAIN p.types : name = p.types[i].name
  BY DEF Declared
<1> DEFINE scope == p.types[i].scope
           key == p.types[i].plural
           here == TypesAt(p, scope)
           S == {k \in here : p.types[k].plural = key}
<1>2. scope \in Scopes
  BY TypesSound DEF TypeSound
<1>3. p.types \in Seq(NodeTypes) /\ i \in S /\ S \subseteq DOMAIN p.types
  BY DEF Profiles, ProfileOf, TypesAt
<1>4. Len(p.types) \in Nat /\ S \subseteq 1 .. Len(p.types)
  BY <1>3
<1> DEFINE m == Max(S)
<1>5. m \in S
  BY <1>3, <1>4, LastIndex
<1>6. m \in DOMAIN p.types /\ p.types[m].plural = key /\ p.types[m].scope = scope
  BY <1>5 DEF TypesAt
<1>7. p.types[m].name = name
  <2> HIDE DEF m, S, here
  <2>1. PICK t \in Known : t.name = p.types[i].name /\ t.plural = key /\ t.scope = scope
    BY DEF KnownTypes, KnownType
  <2>2. PICK u \in Known : u.name = p.types[m].name /\ u.plural = key /\ u.scope = scope
    BY <1>6 DEF KnownTypes, KnownType
  <2> QED
    BY <1>1, <2>1, <2>2 DEF PluralsApart
<1>8. /\ key \in DOMAIN Arrays(p, scope)
      /\ Arrays(p, scope)[key] = p.types[m].name
  <2>1. Arrays(p, scope) = [k \in {p.types[x].plural : x \in here} |->
                              p.types[Max({x \in here : p.types[x].plural = k})].name]
    BY Zenon DEF Arrays
  <2>2. key \in {p.types[x].plural : x \in here}
    BY <1>3
  <2> QED
    BY <2>1, <2>2, Zenon
<1>9. name \in Range(Arrays(p, scope))
  BY <1>7, <1>8 DEF Range
<1> QED
  BY <1>2, <1>9 DEF Held

\* A reference field of an accepted profile points at declared types.
LEMMA ReferencesDeclared ==
    ASSUME NEW p, FieldDefects(p) = {}, NEW i \in DOMAIN p.types, NEW f \in References(p.types[i])
    PROVE  f.targets \subseteq Declared(p)
<1>1. PICK j \in DOMAIN p.types[i].fields : f = p.types[i].fields[j] /\ f.kind = "reference"
  BY DEF References
<1>2. "undeclared" \in FieldFaults
  BY DEF FieldFaults
<1>3. ~FieldHas(p, p.types[i], j, "undeclared")
  BY <1>1, <1>2, FieldsSound
<1> QED
  BY <1>1, <1>3 DEF FieldHas

\* and is the only field of its type with its name.
LEMMA ReferencesApart ==
    ASSUME NEW p \in Profiles, FieldDefects(p) = {}, NEW i \in DOMAIN p.types,
           NEW j \in DOMAIN p.types[i].fields, NEW f \in References(p.types[i]),
           f.name = p.types[i].fields[j].name
    PROVE  f = p.types[i].fields[j]
<1>1. PICK k \in DOMAIN p.types[i].fields : f = p.types[i].fields[k]
  BY DEF References
<1>2. p.types[i].fields \in Seq(Field)
  <2>1. p.types[i] \in NodeTypes
    BY DEF Profiles, ProfileOf
  <2> QED
    BY <2>1 DEF NodeTypes, NodeType
<1>3. j \in Nat /\ k \in Nat /\ j >= 1 /\ k >= 1
  BY <1>2
<1>4. \A m \in DOMAIN p.types[i].fields : ~FieldHas(p, p.types[i], m, "repeated")
  BY FieldsSound DEF FieldFaults
<1>5. \A m \in DOMAIN p.types[i].fields : \A l \in 1 .. m - 1 : p.types[i].fields[l].name # p.types[i].fields[m].name
  BY <1>4 DEF FieldHas
<1>6. ~(j < k)
  <2>1. j < k => j \in 1 .. k - 1
    BY <1>3
  <2> QED
    BY <1>1, <1>5, <2>1
<1>7. ~(k < j)
  <2>1. k < j => k \in 1 .. j - 1
    BY <1>3
  <2> QED
    BY <1>1, <1>5, <2>1
<1> QED
  BY <1>1, <1>3, <1>6, <1>7

\* What the chain's own edge is.
LEMMA ChainEdge ==
    ASSUME NEW p \in Profiles, FieldDefects(p) = {}, NEW c, ChainSound(p, c)
    PROVE  \E e \in deriveEdges(p) : e.kind = c.edge /\ c.covering \in e.from /\ c.covered \in e.to
<1> DEFINE x == First(Candidates(p, c))
           i == x[1]
           f == p.types[i].fields[x[2]]
           kind == c.edge
           Declaring(k) == {m \in DOMAIN p.types : \E g \in References(p.types[m]) : g.name = k}
           FieldOf(m, k) == CHOOSE g \in References(p.types[m]) : g.name = k
           Last(name, k) == Max({m \in Declaring(k) : p.types[m].name = name})
           EdgeOf(k) == [kind |-> k,
                         from |-> {p.types[m].name : m \in Declaring(k)},
                         to   |-> UNION {FieldOf(m, k).targets : m \in Declaring(k)},
                         cyclicFrom |-> {name \in {p.types[m].name : m \in Declaring(k)} :
                                            FieldOf(Last(name, k), k).cyclic}]
           kinds == UNION {{g.name : g \in References(t)} : t \in {p.types[m] : m \in DOMAIN p.types}}
<1>1. /\ Candidates(p, c) # {} /\ f.kind = "reference" /\ c.covered \in f.targets
  BY DEF ChainSound
<1>2. /\ i \in DOMAIN p.types /\ x[2] \in DOMAIN p.types[i].fields
      /\ p.types[i].name = c.covering /\ f.name = kind
  <2> HIDE DEF x
  <2>1. x \in Candidates(p, c)
    BY <1>1, CandidatesTold DEF x
  <2> QED
    BY <2>1, CandidatesTold
<1> HIDE DEF x
<1>3. f \in References(p.types[i])
  BY <1>1, <1>2 DEF References
<1>4. i \in Declaring(kind)
  BY <1>2, <1>3
<1>5. FieldOf(i, kind) = f
  <2>1. FieldOf(i, kind) \in References(p.types[i]) /\ FieldOf(i, kind).name = kind
    BY <1>2, <1>3
  <2> HIDE DEF FieldOf
  <2> QED
    BY <1>2, <2>1, ReferencesApart
<1>6. kind \in kinds
  BY <1>2, <1>3
<1>7. deriveEdges(p) = {EdgeOf(k) : k \in kinds}
        \cup {[kind |-> "requires_module", from |-> {"module"}, to |-> {"module"}, cyclicFrom |-> {}]}
  BY Zenon DEF deriveEdges
<1>8. EdgeOf(kind) \in deriveEdges(p)
  <2> HIDE DEF EdgeOf, kinds
  <2> QED
    BY <1>6, <1>7
<1>9. /\ EdgeOf(kind).kind = kind
      /\ EdgeOf(kind).from = {p.types[m].name : m \in Declaring(kind)}
      /\ EdgeOf(kind).to = UNION {FieldOf(m, kind).targets : m \in Declaring(kind)}
  BY Zenon
<1> HIDE DEF EdgeOf, FieldOf, Declaring
<1>10. c.covering \in EdgeOf(kind).from /\ c.covered \in EdgeOf(kind).to
  BY <1>1, <1>2, <1>4, <1>5, <1>9
<1> QED
  BY <1>8, <1>9, <1>10

\* An edge points at declared types or at modules.
LEMMA EdgesDeclared ==
    ASSUME NEW p, FieldDefects(p) = {}, NEW e \in deriveEdges(p)
    PROVE  e.to \subseteq Declared(p) \cup {"module"}
<1> DEFINE Declaring(k) == {m \in DOMAIN p.types : \E g \in References(p.types[m]) : g.name = k}
           FieldOf(m, k) == CHOOSE g \in References(p.types[m]) : g.name = k
           Last(name, k) == Max({m \in Declaring(k) : p.types[m].name = name})
           EdgeOf(k) == [kind |-> k,
                         from |-> {p.types[m].name : m \in Declaring(k)},
                         to   |-> UNION {FieldOf(m, k).targets : m \in Declaring(k)},
                         cyclicFrom |-> {name \in {p.types[m].name : m \in Declaring(k)} :
                                            FieldOf(Last(name, k), k).cyclic}]
           kinds == UNION {{g.name : g \in References(t)} : t \in {p.types[m] : m \in DOMAIN p.types}}
<1>1. deriveEdges(p) = {EdgeOf(k) : k \in kinds}
        \cup {[kind |-> "requires_module", from |-> {"module"}, to |-> {"module"}, cyclicFrom |-> {}]}
  BY Zenon DEF deriveEdges
<1>2. ASSUME NEW k, e = EdgeOf(k) PROVE e.to \subseteq Declared(p)
  <2>1. e.to = UNION {FieldOf(m, k).targets : m \in Declaring(k)}
    BY <1>2
  <2>2. ASSUME NEW m \in Declaring(k) PROVE FieldOf(m, k).targets \subseteq Declared(p)
    <3>1. m \in DOMAIN p.types /\ FieldOf(m, k) \in References(p.types[m])
      BY <2>2
    <3> HIDE DEF FieldOf
    <3> QED
      BY <3>1, ReferencesDeclared
  <2> HIDE DEF FieldOf, Declaring
  <2> QED
    BY <2>1, <2>2
<1>3. ASSUME e = [kind |-> "requires_module", from |-> {"module"}, to |-> {"module"}, cyclicFrom |-> {}]
      PROVE  e.to = {"module"}
  BY <1>3
<1> HIDE DEF EdgeOf, kinds
<1> QED
  BY <1>1, <1>2, <1>3

(***************************************************************************)
(* If the types an author may add, and the default's, have plural keys of  *)
(* their own within a scope, then in every accepted profile an edge points *)
(* at types that have entries, every coverage chain has its edge, what     *)
(* plan lists is declared, once, and so is what diff and refresh look up   *)
(* (profile.go, Validate).                                                 *)
(***************************************************************************)
THEOREM AcceptedProfileIsWhole ==
    ASSUME PluralsApart
    PROVE  Spec => []NothingDangles
<1>1. FileInv => NothingDangles
  <2> SUFFICES ASSUME FileInv, Accepted PROVE NothingDangles
    BY DEF NothingDangles
  <2> DEFINE p == Resolved
  <2>1. /\ p \in Profiles /\ KnownTypes(p) /\ Valid(p)
    BY SourceTyped, FinalizedValid DEF Accepted, Resolved
  <2> HIDE DEF p
  <2>2. TypeDefects(p) = {} /\ FieldDefects(p) = {} /\ ListDefects(p) = {} /\ \A c \in p.chains : ChainSound(p, c)
    BY <2>1 DEF Valid
  <2>3. Declared(p) \subseteq Held(p) /\ "module" \in Held(p)
    BY <2>1, <2>2, DeclaredHeld DEF Held
  <2>4. \A e \in deriveEdges(p) : e.to \subseteq Held(p)
    BY <2>2, <2>3, EdgesDeclared
  <2>5. \A c \in p.chains :
            \E e \in deriveEdges(p) : e.kind = c.edge /\ c.covering \in e.from /\ c.covered \in e.to
    BY <2>1, <2>2, ChainEdge
  <2>6. ASSUME NEW i \in DOMAIN p.planRelevant, NEW k \in DOMAIN p.planRelevant
        PROVE  p.planRelevant[i] \in Held(p) /\ (p.planRelevant[i] = p.planRelevant[k] => i = k)
    <3>1. \A m \in DOMAIN p.planRelevant :
             /\ p.planRelevant[m] \in Declared(p)
             /\ \A l \in 1 .. m - 1 : p.planRelevant[l] # p.planRelevant[m]
      BY <2>2 DEF ListDefects
    <3>2. p.planRelevant \in Seq(TypeNames)
      BY <2>1 DEF Profiles, ProfileOf
    <3>3. i \in Nat /\ k \in Nat /\ i >= 1 /\ k >= 1
      BY <3>2
    <3>4. i < k => i \in 1 .. k - 1
      BY <3>3
    <3>5. k < i => k \in 1 .. i - 1
      BY <3>3
    <3>6. p.planRelevant[i] = p.planRelevant[k] => ~(i < k) /\ ~(k < i)
      BY <3>1, <3>4, <3>5
    <3> QED
      BY <2>3, <3>1, <3>3, <3>6
  <2>7. p.keyed \subseteq Held(p)
    BY <2>1, <2>3 DEF Valid, TableDefects
  <2> QED
    BY <2>4, <2>5, <2>6, <2>7 DEF NothingDangles, Held, p
<1> QED
  BY <1>1, FileInvariant, PTL

-----------------------------------------------------------------------------
(* What a type's entries look like is its own affair. *)

\* Types of one name in two scopes are no one's to edit, and their references
\* go by the same names with the same exemptions, but for preq_id at the project.
ScopesAgree ==
    \A t, u \in Known : t.name = u.name /\ t.scope # u.scope =>
        /\ t.name \notin Editable
        /\ \A f \in References(t) :
              \/ f.name = "preq_id" /\ u.scope = "project"
              \/ \E g \in References(u) : g.name = f.name /\ g.cyclic = f.cyclic

Sound(p) == p \in Profiles /\ KnownTypes(p) /\ TypeDefects(p) = {} /\ FieldDefects(p) = {}

\* Two types of one name differ in their scope.
LEMMA NamesApart ==
    ASSUME NEW p, Sound(p), NEW i \in DOMAIN p.types, NEW m \in DOMAIN p.types,
           i # m, p.types[i].name = p.types[m].name
    PROVE  p.types[i].scope # p.types[m].scope
<1>1. i \in Nat /\ m \in Nat /\ i >= 1 /\ m >= 1
  BY DEF Sound, Profiles, ProfileOf
<1>2. TypeSound(p, i) /\ TypeSound(p, m)
  BY TypesSound DEF Sound
<1>3. i \in 1 .. m - 1 \/ m \in 1 .. i - 1
  BY <1>1
<1> QED
  BY <1>2, <1>3 DEF TypeSound

\* A reference of a type is one of every type of its name.
LEMMA ReferencesShared ==
    ASSUME ScopesAgree, NEW p, Sound(p), NEW i \in DOMAIN p.types, NEW m \in DOMAIN p.types,
           p.types[i].name = p.types[m].name, NEW g \in References(p.types[m])
    PROVE  \/ g.name = "preq_id" /\ p.types[i].scope = "project" /\ i # m
           \/ \E f \in References(p.types[i]) : f.name = g.name /\ f.cyclic = g.cyclic
<1>1. CASE i = m
  BY <1>1
<1>2. CASE i # m
  <2>1. PICK t \in Known :
           t.name = p.types[m].name /\ t.scope = p.types[m].scope
           /\ (t.name \notin Editable => t.fields = p.types[m].fields)
    BY DEF Sound, KnownTypes, KnownType
  <2>2. PICK u \in Known :
           u.name = p.types[i].name /\ u.scope = p.types[i].scope
           /\ (u.name \notin Editable => u.fields = p.types[i].fields)
    BY DEF Sound, KnownTypes, KnownType
  <2>3. t.scope # u.scope /\ t.name = u.name
    BY <1>2, <2>1, <2>2, NamesApart
  <2>4. t.fields = p.types[m].fields /\ u.fields = p.types[i].fields
    BY <2>1, <2>2, <2>3 DEF ScopesAgree
  <2>5. References(t) = References(p.types[m]) /\ References(u) = References(p.types[i])
    BY <2>4 DEF References
  <2> QED
    BY <1>2, <2>2, <2>3, <2>5 DEF ScopesAgree
<1> QED
  BY <1>1, <1>2

\* References of one type with one name are one.
LEMMA ReferencesUnique ==
    ASSUME NEW p, Sound(p), NEW i \in DOMAIN p.types,
           NEW f \in References(p.types[i]), NEW g \in References(p.types[i]), f.name = g.name
    PROVE  f = g
<1>1. PICK j \in DOMAIN p.types[i].fields : g = p.types[i].fields[j]
  BY DEF References
<1> QED
  BY <1>1, ReferencesApart DEF Sound

\* What the edges of a name are.
LEMMA EdgesTold ==
    ASSUME NEW p, NEW e \in deriveEdges(p), NEW name \in e.from, name # "module"
    PROVE  \E m \in DOMAIN p.types : p.types[m].name = name /\ \E g \in References(p.types[m]) : g.name = e.kind
<1> DEFINE Declaring(k) == {m \in DOMAIN p.types : \E g \in References(p.types[m]) : g.name = k}
           FieldOf(m, k) == CHOOSE g \in References(p.types[m]) : g.name = k
           Last(nm, k) == Max({m \in Declaring(k) : p.types[m].name = nm})
           EdgeOf(k) == [kind |-> k,
                         from |-> {p.types[m].name : m \in Declaring(k)},
                         to   |-> UNION {FieldOf(m, k).targets : m \in Declaring(k)},
                         cyclicFrom |-> {nm \in {p.types[m].name : m \in Declaring(k)} :
                                            FieldOf(Last(nm, k), k).cyclic}]
           kinds == UNION {{g.name : g \in References(t)} : t \in {p.types[m] : m \in DOMAIN p.types}}
<1>1. deriveEdges(p) = {EdgeOf(k) : k \in kinds}
        \cup {[kind |-> "requires_module", from |-> {"module"}, to |-> {"module"}, cyclicFrom |-> {}]}
  BY Zenon DEF deriveEdges
<1>2. ASSUME NEW k, e = EdgeOf(k)
      PROVE  \E m \in DOMAIN p.types : p.types[m].name = name /\ \E g \in References(p.types[m]) : g.name = e.kind
  <2>1. e.from = {p.types[m].name : m \in Declaring(k)} /\ e.kind = k
    BY <1>2, Zenon
  <2>2. PICK m \in Declaring(k) : p.types[m].name = name
    BY <2>1
  <2> QED
    BY <2>1, <2>2
<1>3. ASSUME e = [kind |-> "requires_module", from |-> {"module"}, to |-> {"module"}, cyclicFrom |-> {}]
      PROVE  FALSE
  BY <1>3
<1> HIDE DEF EdgeOf, kinds
<1> QED
  BY <1>1, <1>2, <1>3

\* A name is exempt from the cycle check of an edge by its own declaration.
LEMMA ExemptIsOwn ==
    ASSUME ScopesAgree, NEW p, Sound(p), NEW i \in DOMAIN p.types, NEW f \in References(p.types[i])
    PROVE  Exempt(p, p.types[i].name, f.name) <=> f.cyclic
<1> DEFINE name == p.types[i].name
           kind == f.name
           Declaring(k) == {m \in DOMAIN p.types : \E g \in References(p.types[m]) : g.name = k}
           FieldOf(m, k) == CHOOSE g \in References(p.types[m]) : g.name = k
           Named(nm, k) == {m \in Declaring(k) : p.types[m].name = nm}
           Last(nm, k) == Max(Named(nm, k))
           EdgeOf(k) == [kind |-> k,
                         from |-> {p.types[m].name : m \in Declaring(k)},
                         to   |-> UNION {FieldOf(m, k).targets : m \in Declaring(k)},
                         cyclicFrom |-> {nm \in {p.types[m].name : m \in Declaring(k)} :
                                            FieldOf(Last(nm, k), k).cyclic}]
           kinds == UNION {{g.name : g \in References(t)} : t \in {p.types[m] : m \in DOMAIN p.types}}
           last == Last(name, kind)
<1>1. i \in Named(name, kind) /\ Named(name, kind) \subseteq DOMAIN p.types
  OBVIOUS
<1>2. last \in Named(name, kind)
  <2>1. p.types \in Seq(NodeTypes)
    BY DEF Sound, Profiles, ProfileOf
  <2>2. Len(p.types) \in Nat /\ DOMAIN p.types = 1 .. Len(p.types)
    BY <2>1
  <2> HIDE DEF Named
  <2> QED
    BY <1>1, <2>2, LastIndex
<1> HIDE DEF last
<1>3. last \in DOMAIN p.types /\ p.types[last].name = name /\ \E g \in References(p.types[last]) : g.name = kind
  BY <1>2
<1> DEFINE g == FieldOf(last, kind)
<1>4. g \in References(p.types[last]) /\ g.name = kind
  BY <1>3
<1> HIDE DEF g
<1>5. g.cyclic = f.cyclic
  <2>1. \/ kind = "preq_id" /\ p.types[i].scope = "project" /\ i # last
        \/ \E h \in References(p.types[i]) : h.name = kind /\ h.cyclic = g.cyclic
    BY <1>3, <1>4, ReferencesShared
  <2>2. CASE \E h \in References(p.types[i]) : h.name = kind /\ h.cyclic = g.cyclic
    BY <2>2, ReferencesUnique
  <2>3. CASE kind = "preq_id" /\ p.types[i].scope = "project" /\ i # last
    <3>1. p.types[last].scope # "project"
      BY <1>3, <2>3, NamesApart
    <3>2. \E h \in References(p.types[last]) : h.name = kind /\ h.cyclic = f.cyclic
      BY <1>3, <3>1, ReferencesShared
    <3> QED
      BY <1>3, <1>4, <3>2, ReferencesUnique
  <2> QED
    BY <2>1, <2>2, <2>3
<1>6. name \in EdgeOf(kind).cyclicFrom <=> g.cyclic
  <2>1. EdgeOf(kind).cyclicFrom = {nm \in {p.types[m].name : m \in Declaring(kind)} : FieldOf(Last(nm, kind), kind).cyclic}
    BY Zenon
  <2>2. name \in {p.types[m].name : m \in Declaring(kind)}
    BY <1>1
  <2>3. g = FieldOf(Last(name, kind), kind)
    BY DEF g, last
  <2> HIDE DEF FieldOf, Last, Declaring, EdgeOf
  <2> QED
    BY <2>1, <2>2, <2>3
<1>7. deriveEdges(p) = {EdgeOf(k) : k \in kinds}
        \cup {[kind |-> "requires_module", from |-> {"module"}, to |-> {"module"}, cyclicFrom |-> {}]}
  BY Zenon DEF deriveEdges
<1>8. kind \in kinds /\ EdgeOf(kind).kind = kind
  OBVIOUS
<1>9. \A k : EdgeOf(k).kind = k
  BY Zenon
<1> HIDE DEF EdgeOf, kinds
<1>10. ASSUME NEW e \in deriveEdges(p), e.kind = kind, name \in e.cyclicFrom
       PROVE  name \in EdgeOf(kind).cyclicFrom
  <2>1. e # [kind |-> "requires_module", from |-> {"module"}, to |-> {"module"}, cyclicFrom |-> {}]
    BY <1>10
  <2>2. PICK k \in kinds : e = EdgeOf(k)
    BY <1>7, <2>1
  <2>3. k = kind
    BY <1>9, <1>10, <2>2
  <2> QED
    BY <1>10, <2>2, <2>3
<1>11. EdgeOf(kind) \in deriveEdges(p)
  BY <1>7, <1>8
<1> QED
  BY <1>5, <1>6, <1>8, <1>10, <1>11 DEF Exempt

\* The entry a type's own declaration asks for.
OwnEntry(t) ==
    LET names == {t.fields[j].name : j \in DOMAIN t.fields}
    IN  [properties |->
            [key \in Envelope(t) \cup names |->
                IF key \in names THEN composeFieldSchema(t.fields[CHOOSE j \in DOMAIN t.fields : t.fields[j].name = key])
                ELSE EnvelopeSchema(key)],
         required |-> Required(t)]

\* No edge adds to it.
LEMMA EntryIsOwn ==
    ASSUME ScopesAgree, NEW p, Sound(p), NEW i \in DOMAIN p.types
    PROVE  Entry(p, i) = OwnEntry(p.types[i])
<1> DEFINE t == p.types[i]
           names == {t.fields[j].name : j \in DOMAIN t.fields}
           all == IF t.scope = "project" THEN projectScopedEdges(deriveEdges(p)) ELSE deriveEdges(p)
           edges == edgesSourcedAt(all, t.name)
           kinds == {e.kind : e \in edges}
<1>1. kinds \subseteq names
  <2> SUFFICES ASSUME NEW e \in edges PROVE e.kind \in names
    OBVIOUS
  <2>1. e \in deriveEdges(p) /\ t.name \in e.from /\ (t.scope = "project" => e.kind # "preq_id")
    BY DEF edgesSourcedAt, projectScopedEdges
  <2>2. t.name # "module"
    BY TypesSound DEF Sound, TypeSound
  <2>3. PICK m \in DOMAIN p.types : p.types[m].name = t.name /\ \E g \in References(p.types[m]) : g.name = e.kind
    BY <2>1, <2>2, EdgesTold
  <2>4. PICK g \in References(p.types[m]) : g.name = e.kind
    BY <2>3
  <2>5. \E f \in References(p.types[i]) : f.name = e.kind
    BY <2>1, <2>3, <2>4, ReferencesShared
  <2> QED
    BY <2>5 DEF References
<1>2. Entry(p, i) = [properties |-> Properties(t, edges), required |-> Required(t)]
  BY Zenon DEF Entry
<1>3. Properties(t, edges) =
        [key \in Envelope(t) \cup kinds \cup names |->
            IF key \in names THEN composeFieldSchema(t.fields[CHOOSE j \in DOMAIN t.fields : t.fields[j].name = key])
            ELSE IF key \in kinds THEN EdgeSchema
            ELSE EnvelopeSchema(key)]
  BY Zenon DEF Properties
<1> DEFINE Shape(key) == composeFieldSchema(t.fields[CHOOSE j \in DOMAIN t.fields : t.fields[j].name = key])
<1>4. Properties(t, edges) = [key \in Envelope(t) \cup names |-> IF key \in names THEN Shape(key) ELSE EnvelopeSchema(key)]
  <2>1. Envelope(t) \cup kinds \cup names = Envelope(t) \cup names
    BY <1>1
  <2>2. Properties(t, edges) =
          [key \in Envelope(t) \cup kinds \cup names |->
              IF key \in names THEN Shape(key) ELSE IF key \in kinds THEN EdgeSchema ELSE EnvelopeSchema(key)]
    BY <1>3
  <2> HIDE DEF kinds, names, edges, Shape
  <2> QED
    BY <1>1, <2>1, <2>2
<1>5. OwnEntry(t) =
        [properties |-> [key \in Envelope(t) \cup names |-> IF key \in names THEN Shape(key) ELSE EnvelopeSchema(key)],
         required |-> Required(t)]
  BY Zenon DEF OwnEntry
<1> QED
  BY <1>2, <1>4, <1>5, Zenon

\* The fields of a type have names of their own, none of them the envelope's.
LEMMA FieldsApart ==
    ASSUME NEW p, Sound(p), NEW i \in DOMAIN p.types, NEW j \in DOMAIN p.types[i].fields
    PROVE  /\ \A k \in DOMAIN p.types[i].fields : p.types[i].fields[k].name = p.types[i].fields[j].name => k = j
           /\ p.types[i].fields[j].name \notin envelopeFieldNames
<1>1. p.types[i].fields \in Seq(Field)
  <2>1. p.types[i] \in NodeTypes
    BY DEF Sound, Profiles, ProfileOf
  <2> QED
    BY <2>1 DEF NodeTypes, NodeType
<1>2. \A m \in DOMAIN p.types[i].fields :
         ~FieldHas(p, p.types[i], m, "repeated") /\ ~FieldHas(p, p.types[i], m, "envelope")
  BY FieldsSound DEF FieldFaults, Sound
<1>3. \A m \in DOMAIN p.types[i].fields : \A l \in 1 .. m - 1 : p.types[i].fields[l].name # p.types[i].fields[m].name
  BY <1>2 DEF FieldHas
<1>4. ASSUME NEW k \in DOMAIN p.types[i].fields, p.types[i].fields[k].name = p.types[i].fields[j].name PROVE k = j
  <2>1. j \in Nat /\ k \in Nat /\ j >= 1 /\ k >= 1
    BY <1>1
  <2>2. ~(j \in 1 .. k - 1) /\ ~(k \in 1 .. j - 1)
    BY <1>3, <1>4
  <2> QED
    BY <2>1, <2>2
<1>5. p.types[i].fields[j].name \notin envelopeFieldNames
  BY <1>2 DEF FieldHas
<1> QED
  BY <1>4, <1>5

\* What is accepted is sound when it is resolved.
LEMMA ResolvedSound ==
    ASSUME FileInv, Accepted
    PROVE  Sound(Resolved)
<1>1. Source \in Profiles /\ Valid(Source) /\ Resolved = Finalized(Source) /\ Resolved \in Profiles /\ KnownTypes(Resolved)
  BY SourceTyped DEF Accepted, Resolved
<1>2. Valid(Resolved)
  BY <1>1, FinalizedValid
<1> QED
  BY <1>1, <1>2 DEF Sound, Valid

(***************************************************************************)
(* If a name is used in two scopes only by types that nobody edits and     *)
(* that have the same references, then in every accepted profile an entry  *)
(* holds its envelope and its own fields as they are declared, and all of  *)
(* it is hashed but what is opted out (module_compose.go, genericNodeDef;  *)
(* project_compose.go, projectScopedEdges; profile.go,                     *)
(* deriveHashedFields).                                                    *)
(***************************************************************************)
THEOREM EntriesAreDeclared ==
    ASSUME ScopesAgree
    PROVE  Spec => []EntryIsDeclared
<1>1. FileInv => EntryIsDeclared
  <2> SUFFICES ASSUME FileInv, Accepted PROVE EntryIsDeclared
    BY DEF EntryIsDeclared
  <2> DEFINE p == Resolved
  <2>1. Sound(p)
    BY ResolvedSound
  <2> HIDE DEF p
  <2>2. ASSUME NEW i \in DOMAIN p.types
        PROVE  LET t == p.types[i]
                   admitted == Entry(p, i).properties
                   own == {t.fields[j].name : j \in DOMAIN t.fields}
               IN  /\ DOMAIN admitted = Envelope(t) \cup own
                   /\ \A j \in DOMAIN t.fields : admitted[t.fields[j].name] = composeFieldSchema(t.fields[j])
                   /\ ~t.content => DOMAIN admitted \ deriveHashedFields(t) =
                                       {t.fields[j].name : j \in {k \in DOMAIN t.fields : ~t.fields[k].hashed}}
    <3> DEFINE t == p.types[i]
               names == {t.fields[j].name : j \in DOMAIN t.fields}
               admitted == Entry(p, i).properties
               Place(key) == CHOOSE j \in DOMAIN t.fields : t.fields[j].name = key
    <3>1. admitted = [key \in Envelope(t) \cup names |->
                        IF key \in names THEN composeFieldSchema(t.fields[Place(key)]) ELSE EnvelopeSchema(key)]
      <4> DEFINE shapes == [key \in Envelope(t) \cup names |->
                        IF key \in names THEN composeFieldSchema(t.fields[Place(key)]) ELSE EnvelopeSchema(key)]
      <4>1. Entry(p, i) = OwnEntry(t)
        BY <2>1, EntryIsOwn
      <4>2. OwnEntry(t) = [properties |-> shapes, required |-> Required(t)]
        BY Zenon DEF OwnEntry
      <4> HIDE DEF shapes
      <4>3. [properties |-> shapes, required |-> Required(t)].properties = shapes
        OBVIOUS
      <4> QED
        BY <4>1, <4>2, <4>3 DEF shapes
    <3>2. /\ \A j \in DOMAIN t.fields : \A k \in DOMAIN t.fields : t.fields[k].name = t.fields[j].name => k = j
          /\ \A j \in DOMAIN t.fields : t.fields[j].name \notin envelopeFieldNames
      BY <2>1, FieldsApart
    <3> HIDE DEF admitted
    <3>3. ASSUME NEW j \in DOMAIN t.fields PROVE admitted[t.fields[j].name] = composeFieldSchema(t.fields[j])
      <4>1. Place(t.fields[j].name) \in DOMAIN t.fields /\ t.fields[Place(t.fields[j].name)].name = t.fields[j].name
        OBVIOUS
      <4> HIDE DEF Place
      <4>2. Place(t.fields[j].name) = j
        BY <3>2, <4>1
      <4>3. t.fields[j].name \in names
        OBVIOUS
      <4> HIDE DEF names, t
      <4> QED
        BY <3>1, <4>2, <4>3
    <3>4. DOMAIN admitted = Envelope(t) \cup names
      BY <3>1
    <3>5. ASSUME ~t.content
          PROVE  DOMAIN admitted \ deriveHashedFields(t) =
                    {t.fields[j].name : j \in {k \in DOMAIN t.fields : ~t.fields[k].hashed}}
      <4>1. Envelope(t) = envelopeFieldNames
        BY <3>5 DEF Envelope, envelopeFieldNames
      <4>2. deriveHashedFields(t) =
              envelopeFieldNames \cup {t.fields[j].name : j \in {k \in DOMAIN t.fields : t.fields[k].hashed}}
        BY <3>5 DEF deriveHashedFields, envelopeFieldNames
      <4> HIDE DEF t
      <4> QED
        BY <3>2, <3>4, <4>1, <4>2
    <3> QED
      BY <3>3, <3>4, <3>5 DEF admitted
  <2> QED
    BY <2>2, Zenon DEF EntryIsDeclared, p
<1> QED
  BY <1>1, FileInvariant, PTL

(***************************************************************************)
(* Under the same hypothesis no edit of one type's declaration changes     *)
(* what another type's entries hold, the cycle check of its references or  *)
(* its conventions (profile.go, deriveEdges and fillContentConventions;    *)
(* module_compose.go, edgesSourcedAt).                                     *)
(***************************************************************************)
THEOREM OtherTypesUnmoved ==
    ASSUME ScopesAgree
    PROVE  Spec => OthersUnmoved
<1>1. FileInv => Source \in Profiles /\ KnownTypes(Source)
  BY SourceTyped
<1>2. ASSUME NEW p \in Profiles, KnownTypes(p), Valid(p)
      PROVE  /\ Sound(Finalized(p)) /\ DOMAIN Finalized(p).types = DOMAIN p.types
             /\ \A i \in DOMAIN p.types :
                   /\ Finalized(p).types[i] = FillType(p.types[i])
                   /\ References(Finalized(p).types[i]) = References(p.types[i])
  <2>1. /\ Finalized(p) \in Profiles /\ Alike(p, Finalized(p)) /\ Valid(Finalized(p))
        /\ \A i \in DOMAIN p.types : Finalized(p).types[i] = FillType(p.types[i])
    BY <1>2, FinalizedTold, FinalizedValid
  <2>2. KnownTypes(Finalized(p))
    BY <1>2, <2>1, AlikeKnown
  <2>3. \A i \in DOMAIN p.types : References(Finalized(p).types[i]) = References(p.types[i])
    BY <2>1 DEF Alike, References
  <2> QED
    BY <2>1, <2>2, <2>3 DEF Sound, Valid, Alike
<1>3. ASSUME NEW before \in Profiles, KnownTypes(before), Valid(before),
             NEW after \in Profiles, KnownTypes(after), Valid(after)
      PROVE  Unmoved(before, after)
  <2> DEFINE p == Finalized(before)
             q == Finalized(after)
  <2>1. /\ Sound(p) /\ DOMAIN p.types = DOMAIN before.types
        /\ \A i \in DOMAIN before.types :
              p.types[i] = FillType(before.types[i]) /\ References(p.types[i]) = References(before.types[i])
    BY <1>2, <1>3
  <2>2. /\ Sound(q) /\ DOMAIN q.types = DOMAIN after.types
        /\ \A i \in DOMAIN after.types :
              q.types[i] = FillType(after.types[i]) /\ References(q.types[i]) = References(after.types[i])
    BY <1>2, <1>3
  <2> HIDE DEF p, q
  <2>3. ASSUME NEW i \in DOMAIN before.types, NEW j \in DOMAIN after.types, before.types[i] = after.types[j]
        PROVE  /\ p.types[i] = q.types[j] /\ Entry(p, i) = Entry(q, j)
               /\ \A f \in References(before.types[i]) :
                     Exempt(p, p.types[i].name, f.name) = Exempt(q, q.types[j].name, f.name)
    <3>1. p.types[i] = q.types[j]
      BY <2>1, <2>2, <2>3
    <3>2. Entry(p, i) = OwnEntry(p.types[i]) /\ Entry(q, j) = OwnEntry(q.types[j])
      BY <2>1, <2>2, EntryIsOwn
    <3>3. ASSUME NEW f \in References(before.types[i])
          PROVE  Exempt(p, p.types[i].name, f.name) = Exempt(q, q.types[j].name, f.name)
      <4>1. f \in References(p.types[i]) /\ f \in References(q.types[j])
        BY <2>1, <2>2, <2>3, <3>3
      <4>2. /\ Exempt(p, p.types[i].name, f.name) <=> f.cyclic
            /\ Exempt(q, q.types[j].name, f.name) <=> f.cyclic
        BY <2>1, <2>2, <4>1, ExemptIsOwn
      <4>3. /\ Exempt(p, p.types[i].name, f.name) \in BOOLEAN
            /\ Exempt(q, q.types[j].name, f.name) \in BOOLEAN
        BY Zenon DEF Exempt
      <4> QED
        BY <4>2, <4>3
    <3> QED
      BY <3>1, <3>2, <3>3, Zenon
  <2> QED
    BY <2>3, Zenon DEF Unmoved, p, q
<1>4. /\ Source \in Profiles /\ KnownTypes(Source)
      /\ Source' \in Profiles /\ KnownTypes(Source')
      => [\A before \in {Source}, after \in {Source'} :
              Valid(before) /\ Valid(after) => Unmoved(before, after)]_vars
  BY <1>3
<1>5. (Source \in Profiles /\ KnownTypes(Source))' <=> Source' \in Profiles /\ KnownTypes(Source')
  BY DEF Profiles, ProfileOf, NodeTypes, NodeType, KnownTypes, KnownType, Known, Field, CoverageChain
<1> QED
  BY <1>1, <1>4, <1>5, FileInvariant, PTL DEF Spec, OthersUnmoved
=============================================================================
