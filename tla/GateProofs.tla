----------------------------- MODULE GateProofs -----------------------------
(***************************************************************************)
(* The gate of the author commands.  The walk of detectStringCycles finds  *)
(* a cycle exactly when nodes depend on one another; the checkers find     *)
(* nothing exactly when the spec is valid as a graph; and so a command on  *)
(* a valid spec is refused exactly when it would make it invalid.  A       *)
(* rename to a free name relabels the graph, and is never refused.         *)
(***************************************************************************)
EXTENDS AuthorProofs, SequenceTheorems, FiniteSetTheorems

-----------------------------------------------------------------------------
(* Counting up, and values defined one from the one before. *)

\* What holds of 0 and is carried to the next number holds of all up to m.
LEMMA CountUp ==
    ASSUME NEW m \in Nat, NEW D, 0 \in D, \A n \in 1 .. m : n - 1 \in D => n \in D
    PROVE  \A n \in 0 .. m : n \in D
<1> DEFINE bad == {n \in 0 .. m : n \notin D}
<1> SUFFICES ASSUME bad # {} PROVE FALSE
  OBVIOUS
<1>1. bad \subseteq Nat
  OBVIOUS
<1>2. PICK n \in bad : \A k \in bad : n <= k
  BY <1>1, LeastNumber
<1>3. n \in 1 .. m /\ n - 1 \in 0 .. m /\ ~(n <= n - 1)
  <2>1. n # 0
    BY <1>2
  <2> QED
    BY <1>1, <1>2, <2>1
<1>4. n - 1 \in D
  BY <1>2, <1>3
<1> QED
  BY <1>2, <1>3, <1>4

\* One value after the other, each made of the one before.
Values(m, V, first, G, w) ==
    /\ w \in [0 .. m -> V] /\ w[0] = first
    /\ \A n \in 1 .. m : w[n] = G[<<n, w[n - 1]>>]

\* Such values exist, whatever the rule.
LEMMA ValuesExist ==
    ASSUME NEW m \in Nat, NEW V, NEW first \in V, NEW G \in [(1 .. m) \X V -> V]
    PROVE  \E w : Values(m, V, first, G, w)
<1> USE DEF Values
<1> DEFINE Upto(k, w) == Values(k, V, first, G, w)
           D == {k \in 0 .. m : \E w : Upto(k, w)}
<1>1. 0 \in D
  <2> DEFINE w == [n \in 0 .. 0 |-> first]
  <2>1. w \in [0 .. 0 -> V] /\ w[0] = first /\ 1 .. 0 = {}
    OBVIOUS
  <2> HIDE DEF w
  <2>2. Upto(0, w)
    BY <2>1
  <2> QED
    BY <2>2
<1>2. ASSUME NEW k \in 1 .. m, k - 1 \in D
      PROVE  k \in D
  <2>1. PICK v : Upto(k - 1, v)
    BY <1>2
  <2> DEFINE next == G[<<k, v[k - 1]>>]
             w == [n \in 0 .. k |-> IF n = k THEN next ELSE v[n]]
  <2>2. k - 1 \in 0 .. k - 1
    OBVIOUS
  <2>3. v[k - 1] \in V
    BY <2>1, <2>2
  <2>4. next \in V
    BY <2>3
  <2> HIDE DEF next
  <2>5. \A n \in 0 .. k - 1 : v[n] \in V /\ w[n] = v[n]
    BY <2>1
  <2>6. w \in [0 .. k -> V] /\ w[k] = next
    <3>1. \A n \in 0 .. k : n # k => n \in 0 .. k - 1
      OBVIOUS
    <3>2. \A n \in 0 .. k : (IF n = k THEN next ELSE v[n]) \in V
      BY <2>4, <2>5, <3>1
    <3>3. k \in 0 .. k
      OBVIOUS
    <3> QED
      BY <3>2, <3>3
  <2>7. w[0] = first
    BY <2>1, <2>5
  <2> HIDE DEF w
  <2>8. ASSUME NEW n \in 1 .. k PROVE w[n] = G[<<n, w[n - 1]>>]
    <3>1. n - 1 \in 0 .. k - 1
      OBVIOUS
    <3>2. w[n - 1] = v[n - 1]
      BY <2>5, <3>1
    <3>3. CASE n = k
      BY <2>6, <3>2, <3>3 DEF next
    <3>4. CASE n # k
      <4>1. n \in 1 .. k - 1 /\ n \in 0 .. k - 1
        BY <3>4
      <4>2. w[n] = v[n] /\ v[n] = G[<<n, v[n - 1]>>]
        BY <2>1, <2>5, <4>1
      <4> QED
        BY <3>2, <4>2
    <3> QED
      BY <3>3, <3>4
  <2>9. Upto(k, w)
    BY <2>6, <2>7, <2>8
  <2> QED
    BY <2>9
<1> HIDE DEF D
<1>3. m \in D
  <2>1. \A k \in 0 .. m : k \in D
    BY <1>1, <1>2, CountUp
  <2> QED
    BY <2>1
<1> QED
  BY <1>3 DEF D

\* The sizes of an interval and of two sets that share nothing.
LEMMA UpToIs ==
    ASSUME NEW n \in Nat
    PROVE  IsFiniteSet(1 .. n) /\ Cardinality(1 .. n) = n
<1>1. IsFiniteSet(1 .. n) /\ Cardinality(1 .. n) = IF 1 > n THEN 0 ELSE n - 1 + 1
  BY FS_Interval
<1> QED
  BY <1>1

\* Two sets that share nothing.
LEMMA DisjointUnion ==
    ASSUME NEW S, IsFiniteSet(S), NEW T, IsFiniteSet(T), S \cap T = {}
    PROVE  IsFiniteSet(S \cup T) /\ Cardinality(S \cup T) = Cardinality(S) + Cardinality(T)
<1>1. Cardinality(S) \in Nat /\ Cardinality(T) \in Nat
  BY FS_CardinalityType
<1>2. /\ IsFiniteSet(S \cup T)
      /\ Cardinality(S \cup T) = Cardinality(S) + Cardinality(T) - Cardinality(S \cap T)
  BY FS_Union
<1> QED
  BY <1>1, <1>2, FS_EmptySet

-----------------------------------------------------------------------------
(* The references of a list of entries. *)

\* A list of entries with ids and references.
Edged(es, f) == es \in Seq(NodeEntry) /\ f \in Fields

\* Its parts.
LEMMA EdgedIs ==
    ASSUME NEW es, NEW f, Edged(es, f)
    PROVE  /\ Len(es) \in Nat /\ DOMAIN es = 1 .. Len(es)
           /\ \A i \in 1 .. Len(es) : es[i].id \in IDs /\ es[i].refs[f] \in Seq(IDs)
<1>1. /\ Len(es) \in Nat /\ DOMAIN es = 1 .. Len(es)
      /\ \A i \in 1 .. Len(es) : es[i] \in NodeEntry
  BY DEF Edged
<1>2. \A e \in NodeEntry : e.id \in IDs /\ e.refs \in [Fields -> Seq(IDs)]
  BY DEF NodeEntry
<1> QED
  BY <1>1, <1>2 DEF Edged

\* The places of the references in the first n entries.
Slots(es, f, n) == UNION {{<<i, k>> : k \in 1 .. Len(es[i].refs[f])} : i \in 1 .. n}

\* EdgeCount's function.
Counts(es, f, w) ==
    w = [n \in 0 .. Len(es) |-> IF n = 0 THEN 0 ELSE w[n - 1] + Len(es[n].refs[f])]

\* An edge is counted once.
LEMMA EdgesCounted ==
    ASSUME NEW es, NEW f, Edged(es, f)
    PROVE  /\ EdgeCount(es, f) \in Nat
           /\ IsFiniteSet(Slots(es, f, Len(es)))
           /\ Cardinality(Slots(es, f, Len(es))) = EdgeCount(es, f)
<1>1. /\ Len(es) \in Nat /\ DOMAIN es = 1 .. Len(es)
      /\ \A i \in 1 .. Len(es) : es[i].id \in IDs /\ es[i].refs[f] \in Seq(IDs)
  BY EdgedIs
<1> DEFINE size(n) == Len(es[n].refs[f])
<1>2. \A n \in 1 .. Len(es) : size(n) \in Nat
  BY <1>1
<1>3. \E w : Counts(es, f, w)
  <2> DEFINE G == [p \in (1 .. Len(es)) \X Nat |-> p[2] + size(p[1])]
  <2>1. G \in [(1 .. Len(es)) \X Nat -> Nat]
    BY <1>2
  <2>2. \A n \in 1 .. Len(es), c \in Nat : G[<<n, c>>] = c + size(n)
    OBVIOUS
  <2> HIDE DEF G
  <2>3. PICK w \in [0 .. Len(es) -> Nat] : /\ w[0] = 0
                                           /\ \A n \in 1 .. Len(es) : w[n] = G[<<n, w[n - 1]>>]
    <3> DEFINE m == Len(es)
               V == Nat
               zero == 0
    <3>1. m \in Nat /\ zero \in V /\ G \in [(1 .. m) \X V -> V]
      BY <1>1, <2>1
    <3> HIDE DEF m, V, zero
    <3>2. \E v : Values(m, V, zero, G, v)
      BY <3>1, ValuesExist
    <3> QED
      BY <3>2 DEF m, V, zero, Values
  <2>4. ASSUME NEW n \in 0 .. Len(es)
        PROVE  w[n] = IF n = 0 THEN 0 ELSE w[n - 1] + size(n)
    <3>1. CASE n = 0
      BY <2>3, <3>1
    <3>2. CASE n # 0
      <4>1. n \in 1 .. Len(es) /\ n - 1 \in 0 .. Len(es)
        BY <1>1, <3>2
      <4>2. w[n - 1] \in Nat
        BY <2>3, <4>1
      <4> QED
        BY <2>2, <2>3, <3>2, <4>1, <4>2
    <3> QED
      BY <3>1, <3>2
  <2>5. w = [n \in 0 .. Len(es) |-> w[n]]
    BY <2>3
  <2> QED
    BY <2>4, <2>5 DEF Counts
<1> DEFINE w == CHOOSE v : Counts(es, f, v)
<1>4. Counts(es, f, w)
  BY <1>3
<1>5. EdgeCount(es, f) = w[Len(es)]
  BY DEF EdgeCount, Counts
<1> HIDE DEF w
<1>6. \A n \in 0 .. Len(es) : w[n] = IF n = 0 THEN 0 ELSE w[n - 1] + size(n)
  BY <1>4 DEF Counts
<1> HIDE DEF size
<1> DEFINE S(n) == Slots(es, f, n)
           Good(n) == w[n] \in Nat /\ IsFiniteSet(S(n)) /\ Cardinality(S(n)) = w[n]
           D == {n \in 0 .. Len(es) : Good(n)}
<1>7. 0 \in D
  <2>1. S(0) = {}
    BY DEF Slots
  <2>2. w[0] = 0
    BY <1>1, <1>6
  <2>3. Good(0)
    BY <2>1, <2>2, FS_EmptySet
  <2> HIDE DEF Good
  <2>4. 0 \in 0 .. Len(es)
    BY <1>1
  <2> QED
    BY <2>3, <2>4
<1>8. ASSUME NEW n \in 1 .. Len(es), n - 1 \in D
      PROVE  n \in D
  <2>1. Good(n - 1)
    BY <1>8
  <2> DEFINE own == {<<n, k>> : k \in 1 .. size(n)}
  <2>2. S(n) = S(n - 1) \cup own
    <3>1. \A p : p \in S(n) <=> \E i \in 1 .. n : p \in {<<i, k>> : k \in 1 .. size(i)}
      BY DEF Slots, size
    <3>2. \A p : p \in S(n - 1) <=> \E i \in 1 .. n - 1 : p \in {<<i, k>> : k \in 1 .. size(i)}
      BY DEF Slots, size
    <3>3. \A i : i \in 1 .. n <=> i \in 1 .. n - 1 \/ i = n
      BY <1>1
    <3> HIDE DEF S
    <3> QED
      BY <3>1, <3>2, <3>3
  <2>3. S(n - 1) \cap own = {}
    <3>1. \A p \in S(n - 1) : p[1] \in 1 .. n - 1
      BY DEF Slots
    <3>2. \A p \in own : p[1] = n
      OBVIOUS
    <3> HIDE DEF S, own
    <3> QED
      BY <1>1, <3>1, <3>2
  <2>4. IsFiniteSet(own) /\ Cardinality(own) = size(n)
    <3> DEFINE g == [k \in 1 .. size(n) |-> <<n, k>>]
    <3>1. g \in Bijection(1 .. size(n), own)
      <4>1. g \in [1 .. size(n) -> own]
        OBVIOUS
      <4>2. \A a, b \in 1 .. size(n) : g[a] = g[b] => a = b
        OBVIOUS
      <4>3. \A p \in own : \E k \in 1 .. size(n) : g[k] = p
        OBVIOUS
      <4> HIDE DEF g, own
      <4> DEFINE A == 1 .. size(n)
      <4>4. g \in [A -> own] /\ (\A a, b \in A : g[a] = g[b] => a = b) /\ \A p \in own : \E k \in A : g[k] = p
        BY <4>1, <4>2, <4>3
      <4> HIDE DEF A
      <4>5. g \in Bijection(A, own)
        BY <4>4 DEF Bijection, Injection, Surjection, IsInjective
      <4> QED
        BY <4>5 DEF A
    <3>2. ExistsBijection(1 .. size(n), own)
      BY <3>1 DEF ExistsBijection
    <3>3. IsFiniteSet(1 .. size(n)) /\ Cardinality(1 .. size(n)) = size(n)
      <4>1. size(n) \in Nat
        BY <1>2
      <4> HIDE DEF size
      <4> QED
        BY <4>1, UpToIs
    <3> HIDE DEF own
    <3> QED
      BY <3>2, <3>3, FS_Bijection
  <2> HIDE DEF S, own
  <2>5. /\ IsFiniteSet(S(n - 1) \cup own)
        /\ Cardinality(S(n - 1) \cup own) = Cardinality(S(n - 1)) + Cardinality(own)
    BY <2>1, <2>3, <2>4, DisjointUnion
  <2>6. w[n] = w[n - 1] + size(n)
    BY <1>1, <1>6
  <2>7. size(n) \in Nat
    BY <1>2 DEF size
  <2>8. Good(n)
    BY <2>1, <2>2, <2>4, <2>5, <2>6, <2>7
  <2> HIDE DEF Good
  <2>9. n \in 0 .. Len(es)
    BY <1>1
  <2> QED
    BY <2>8, <2>9
<1>9. Len(es) \in D
  <2> HIDE DEF D
  <2>1. \A n \in 0 .. Len(es) : n \in D
    BY <1>1, <1>7, <1>8, CountUp
  <2> QED
    BY <1>1, <2>1
<1> QED
  BY <1>5, <1>9

\* A set of numbers up to a bound has a greatest one.
LEMMA GreatestNumber ==
    ASSUME NEW m \in Nat, NEW S, S \subseteq 1 .. m, S # {}
    PROVE  \E x \in S : \A y \in S : y <= x
<1> DEFINE T == {k \in Nat : m - k \in S}
<1>1. \A x \in S : x \in Int /\ m - x \in Nat /\ m - (m - x) = x
  OBVIOUS
<1>2. T \subseteq Nat /\ T # {}
  BY <1>1
<1>3. PICK u \in T : \A z \in T : u <= z
  <2> HIDE DEF T
  <2> QED
    BY <1>2, LeastNumber
<1>4. ASSUME NEW y \in S PROVE y <= m - u
  <2>1. m - y \in T
    BY <1>1
  <2>2. u \in Int /\ y \in Int
    BY <1>1
  <2> HIDE DEF T
  <2>3. u <= m - y
    BY <1>3, <2>1
  <2> QED
    BY <2>2, <2>3
<1> QED
  BY <1>3, <1>4

\* The references followed from a node are those of an entry of its own.
LEMMA AdjacentIs ==
    ASSUME NEW es, NEW f, Edged(es, f), NEW x
    PROVE  /\ Adjacent(es, x, f) \in Seq(IDs)
           /\ \/ Adjacent(es, x, f) = <<>> /\ \A i \in DOMAIN es : es[i].id # x
              \/ \E i \in DOMAIN es : es[i].id = x /\ Adjacent(es, x, f) = es[i].refs[f]
<1> DEFINE own == {i \in DOMAIN es : es[i].id = x}
<1>1. /\ Len(es) \in Nat /\ DOMAIN es = 1 .. Len(es)
      /\ \A i \in 1 .. Len(es) : es[i].id \in IDs /\ es[i].refs[f] \in Seq(IDs)
  BY EdgedIs
<1>2. CASE own = {}
  BY <1>2 DEF Adjacent
<1>3. CASE own # {}
  <2> DEFINE i == CHOOSE i \in own : \A k \in own : k <= i
  <2>1. own \subseteq 1 .. Len(es)
    BY <1>1
  <2>2. Adjacent(es, x, f) = es[i].refs[f]
    BY <1>3 DEF Adjacent
  <2>3. i \in own
    <3> HIDE DEF own
    <3>1. \E k \in own : \A m \in own : m <= k
      BY <1>1, <1>3, <2>1, GreatestNumber
    <3> QED
      BY <3>1
  <2> HIDE DEF i
  <2> QED
    BY <1>1, <2>2, <2>3
<1> QED
  BY <1>2, <1>3

\* The nodes a walk may meet, and the references it may follow.
Met(es, f) == {es[i].id : i \in DOMAIN es}
              \cup {es[p[1]].refs[f][p[2]] : p \in Slots(es, f, Len(es))}

\* The references of the nodes met: a node and a place in its list.
Ways(es, f) ==
    UNION {{<<x, k>> : k \in 1 .. Len(Adjacent(es, x, f))} : x \in Met(es, f)}

\* A slot is an entry and a place in its references.
LEMMA SlotIs ==
    ASSUME NEW es, NEW f, NEW n, NEW i, NEW k
    PROVE  <<i, k>> \in Slots(es, f, n) <=> i \in 1 .. n /\ k \in 1 .. Len(es[i].refs[f])
<1>1. ASSUME <<i, k>> \in Slots(es, f, n)
      PROVE  i \in 1 .. n /\ k \in 1 .. Len(es[i].refs[f])
  <2>1. PICK a \in 1 .. n : <<i, k>> \in {<<a, b>> : b \in 1 .. Len(es[a].refs[f])}
    BY <1>1 DEF Slots
  <2> QED
    BY <2>1
<1>2. ASSUME i \in 1 .. n, k \in 1 .. Len(es[i].refs[f])
      PROVE  <<i, k>> \in Slots(es, f, n)
  <2>1. <<i, k>> \in {<<i, b>> : b \in 1 .. Len(es[i].refs[f])}
    BY <1>2
  <2> QED
    BY <1>2, <2>1 DEF Slots
<1> QED
  BY <1>1, <1>2

\* The parts of a slot.
LEMMA SlotParts ==
    ASSUME NEW es, NEW f, NEW n, NEW p \in Slots(es, f, n)
    PROVE  p = <<p[1], p[2]>> /\ p[1] \in 1 .. n /\ p[2] \in 1 .. Len(es[p[1]].refs[f])
<1>1. PICK a \in 1 .. n : p \in {<<a, b>> : b \in 1 .. Len(es[a].refs[f])}
  BY DEF Slots
<1> QED
  BY <1>1

\* A way is a node met and a place in the references followed from it.
LEMMA WayIs ==
    ASSUME NEW es, NEW f, NEW x, NEW k
    PROVE  <<x, k>> \in Ways(es, f) <=> x \in Met(es, f) /\ k \in 1 .. Len(Adjacent(es, x, f))
<1>1. ASSUME <<x, k>> \in Ways(es, f)
      PROVE  x \in Met(es, f) /\ k \in 1 .. Len(Adjacent(es, x, f))
  <2>1. PICK a \in Met(es, f) : <<x, k>> \in {<<a, b>> : b \in 1 .. Len(Adjacent(es, a, f))}
    BY <1>1 DEF Ways
  <2> QED
    BY <2>1
<1>2. ASSUME x \in Met(es, f), k \in 1 .. Len(Adjacent(es, x, f))
      PROVE  <<x, k>> \in Ways(es, f)
  <2>1. <<x, k>> \in {<<x, b>> : b \in 1 .. Len(Adjacent(es, x, f))}
    BY <1>2
  <2> QED
    BY <1>2, <2>1 DEF Ways
<1> QED
  BY <1>1, <1>2

\* The parts of a way.
LEMMA WayParts ==
    ASSUME NEW es, NEW f, NEW p \in Ways(es, f)
    PROVE  /\ p = <<p[1], p[2]>> /\ p[1] \in Met(es, f)
           /\ p[2] \in 1 .. Len(Adjacent(es, p[1], f))
<1>1. PICK a \in Met(es, f) : p \in {<<a, b>> : b \in 1 .. Len(Adjacent(es, a, f))}
  BY DEF Ways
<1> QED
  BY <1>1

\* What a walk meets are ids, and what is referred to is met.
LEMMA MetIs ==
    ASSUME NEW es, NEW f, Edged(es, f)
    PROVE  /\ Met(es, f) \subseteq IDs
           /\ \A i \in DOMAIN es : es[i].id \in Met(es, f)
           /\ \A x : \A k \in 1 .. Len(Adjacent(es, x, f)) :
                 /\ Adjacent(es, x, f)[k] \in Met(es, f)
                 /\ x \in Met(es, f)
<1>1. /\ Len(es) \in Nat /\ DOMAIN es = 1 .. Len(es)
      /\ \A i \in 1 .. Len(es) : es[i].id \in IDs /\ es[i].refs[f] \in Seq(IDs)
  BY EdgedIs
<1>2. ASSUME NEW p \in Slots(es, f, Len(es)) PROVE es[p[1]].refs[f][p[2]] \in IDs
  <2>1. p[1] \in 1 .. Len(es) /\ p[2] \in 1 .. Len(es[p[1]].refs[f])
    BY SlotParts
  <2> QED
    BY <1>1, <2>1
<1>3. ASSUME NEW x, NEW k \in 1 .. Len(Adjacent(es, x, f))
      PROVE  Adjacent(es, x, f)[k] \in Met(es, f) /\ x \in Met(es, f)
  <2>1. PICK i \in DOMAIN es : es[i].id = x /\ Adjacent(es, x, f) = es[i].refs[f]
    <3>1. Adjacent(es, x, f) # <<>>
      OBVIOUS
    <3> QED
      BY <3>1, AdjacentIs
  <2>2. <<i, k>> \in Slots(es, f, Len(es))
    BY <1>1, <1>3, <2>1, SlotIs
  <2>3. <<i, k>>[1] = i /\ <<i, k>>[2] = k
    OBVIOUS
  <2> QED
    BY <2>1, <2>2, <2>3 DEF Met
<1> QED
  BY <1>1, <1>2, <1>3 DEF Met

\* A walk meets no more nodes than there are entries and references, and has no
\* more references to follow.
LEMMA WalkIsBounded ==
    ASSUME NEW es, NEW f, Edged(es, f)
    PROVE  /\ IsFiniteSet(Met(es, f)) /\ Cardinality(Met(es, f)) <= Len(es) + EdgeCount(es, f)
           /\ IsFiniteSet(Ways(es, f)) /\ Cardinality(Ways(es, f)) <= EdgeCount(es, f)
<1> DEFINE I == 1 .. Len(es)
           S == Slots(es, f, Len(es))
           A == {es[i].id : i \in I}
           B == {es[p[1]].refs[f][p[2]] : p \in S}
<1>1. Len(es) \in Nat /\ DOMAIN es = I
  BY EdgedIs
<1>2. IsFiniteSet(I) /\ Cardinality(I) = Len(es)
  BY <1>1, UpToIs
<1>3. EdgeCount(es, f) \in Nat /\ IsFiniteSet(S) /\ Cardinality(S) = EdgeCount(es, f)
  BY EdgesCounted
<1>4. IsFiniteSet(A) /\ Cardinality(A) <= Len(es)
  <2> DEFINE g == [i \in I |-> es[i].id]
  <2>1. g \in [I -> A] /\ \A a \in A : \E i \in I : g[i] = a
    OBVIOUS
  <2> HIDE DEF g, A, I
  <2>2. g \in Surjection(I, A)
    BY <2>1 DEF Surjection
  <2> QED
    BY <1>2, <2>2, FS_Surjection
<1>5. IsFiniteSet(B) /\ Cardinality(B) <= EdgeCount(es, f)
  <2> DEFINE g == [p \in S |-> es[p[1]].refs[f][p[2]]]
  <2>1. g \in [S -> B] /\ \A b \in B : \E p \in S : g[p] = b
    OBVIOUS
  <2> HIDE DEF g, B, S
  <2>2. g \in Surjection(S, B)
    BY <2>1 DEF Surjection
  <2> QED
    BY <1>3, <2>2, FS_Surjection
<1>6. Met(es, f) = A \cup B
  BY <1>1 DEF Met
<1>7. IsFiniteSet(Met(es, f)) /\ Cardinality(Met(es, f)) <= Len(es) + EdgeCount(es, f)
  <2> HIDE DEF A, B
  <2>1. /\ IsFiniteSet(A \cup B)
        /\ Cardinality(A \cup B) = Cardinality(A) + Cardinality(B) - Cardinality(A \cap B)
    BY <1>4, <1>5, FS_Union
  <2>2. Cardinality(A \cap B) \in Nat /\ Cardinality(A) \in Nat /\ Cardinality(B) \in Nat
    BY <1>4, <1>5, FS_Intersection, FS_CardinalityType
  <2> QED
    BY <1>1, <1>3, <1>4, <1>5, <1>6, <2>1, <2>2
<1>8. IsFiniteSet(Ways(es, f)) /\ Cardinality(Ways(es, f)) <= EdgeCount(es, f)
  <2> DEFINE W == Ways(es, f)
             Own(x, i) == es[i].id = x /\ Adjacent(es, x, f) = es[i].refs[f]
             entry(x) == CHOOSE i \in I : Own(x, i)
             h == [p \in W |-> <<entry(p[1]), p[2]>>]
  <2>1. ASSUME NEW p \in W
        PROVE  /\ p = <<p[1], p[2]>> /\ entry(p[1]) \in I /\ Own(p[1], entry(p[1]))
               /\ h[p] \in S /\ h[p][1] = entry(p[1]) /\ h[p][2] = p[2]
    <3>1. p = <<p[1], p[2]>> /\ p[2] \in 1 .. Len(Adjacent(es, p[1], f))
      BY WayParts
    <3>2. \E i \in I : Own(p[1], i)
      <4>1. Adjacent(es, p[1], f) # <<>>
        BY <3>1
      <4> QED
        BY <1>1, <4>1, AdjacentIs
    <3>3. entry(p[1]) \in I /\ Own(p[1], entry(p[1]))
      BY <3>2
    <3> HIDE DEF entry
    <3>4. <<entry(p[1]), p[2]>> \in S
      BY <3>1, <3>3, SlotIs
    <3>5. h[p] = <<entry(p[1]), p[2]>>
      OBVIOUS
    <3> QED
      BY <3>1, <3>3, <3>4, <3>5
  <2>2. h \in [W -> S]
    <3> HIDE DEF W, S, entry
    <3>1. \A p \in W : h[p] \in S
      BY <2>1
    <3> QED
      BY <3>1
  <2>3. ASSUME NEW p \in W, NEW q \in W, h[p] = h[q] PROVE p = q
    <3> HIDE DEF h, entry, W
    <3>1. entry(p[1]) = entry(q[1]) /\ p[2] = q[2]
      BY <2>1, <2>3
    <3>2. p[1] = q[1]
      BY <2>1, <3>1
    <3> QED
      BY <2>1, <3>1, <3>2
  <2> HIDE DEF h, W, S
  <2>4. h \in Injection(W, S)
    BY <2>2, <2>3 DEF Injection, IsInjective
  <2> QED
    BY <1>3, <2>4, FS_Injection DEF W
<1> QED
  BY <1>7, <1>8

-----------------------------------------------------------------------------
(* One step of the walk. *)

\* The states of a walk.
States == [stack : Seq(IDs), next : Seq(Nat \ {0}), gray : SUBSET IDs, black : SUBSET IDs,
           found : SUBSET Seq(IDs)]

\* The nodes a walk may start from.
EntryIDs(es) == {es[i].id : i \in DOMAIN es}

\* Nothing is left to walk.
WalkDone(es, s) == s.stack = <<>> /\ EntryIDs(es) \subseteq s.gray \cup s.black

\* A node nobody has met is started.
Started(es, s, t) ==
    /\ s.stack = <<>>
    /\ \E x \in EntryIDs(es) \ (s.gray \cup s.black) :
          t.stack = <<x>> /\ t.next = <<1>> /\ t.gray = {x}
    /\ t.black = s.black /\ t.found = s.found

\* The node on top is left.
Left(es, f, s, t, n) ==
    /\ s.next[n] > Len(Adjacent(es, s.stack[n], f))
    /\ t.stack = SubSeq(s.stack, 1, n - 1) /\ t.next = SubSeq(s.next, 1, n - 1)
    /\ t.gray = s.gray \ {s.stack[n]} /\ t.black = s.black \cup {s.stack[n]}
    /\ t.found = s.found

\* A reference of the node on top is looked at.
Follows(es, f, s, n) == s.next[n] <= Len(Adjacent(es, s.stack[n], f))
Ahead(es, f, s, n) == Adjacent(es, s.stack[n], f)[s.next[n]]

\* It leads to a node that was left.
Passed(es, f, s, t, n) ==
    /\ Follows(es, f, s, n) /\ Ahead(es, f, s, n) \in s.black
    /\ t.stack = s.stack /\ t.next = [s.next EXCEPT ![n] = s.next[n] + 1]
    /\ t.gray = s.gray /\ t.black = s.black /\ t.found = s.found

\* It leads back into the stack.
Closed(es, f, s, t, n) ==
    /\ Follows(es, f, s, n) /\ Ahead(es, f, s, n) \in s.gray
    /\ t.stack = s.stack /\ t.next = [s.next EXCEPT ![n] = s.next[n] + 1]
    /\ t.gray = s.gray /\ t.black = s.black /\ t.found # {}

\* It leads to a node nobody has met.
Entered(es, f, s, t, n) ==
    /\ Follows(es, f, s, n) /\ Ahead(es, f, s, n) \notin s.gray \cup s.black
    /\ t.stack = Append(s.stack, Ahead(es, f, s, n))
    /\ t.next = Append([s.next EXCEPT ![n] = s.next[n] + 1], 1)
    /\ t.gray = s.gray \cup {Ahead(es, f, s, n)} /\ t.black = s.black /\ t.found = s.found

\* The stack and the places in it.
Stacked(s) ==
    /\ s \in States /\ Len(s.next) = Len(s.stack)
    /\ s.gray = {s.stack[j] : j \in 1 .. Len(s.stack)} /\ s.gray \cap s.black = {}

\* A set of numbers that is finite and not empty has a least one: ids are
\* numbers, and some entry is left to start from.
LEMMA StartStep ==
    ASSUME NEW es, NEW f, Edged(es, f), NEW s, Stacked(s), s.stack = <<>>
    PROVE  LET t == WalkStep(es, f, s) IN
           \/ WalkDone(es, s) /\ t = s
           \/ t \in States /\ Started(es, s, t)
<1> DEFINE fresh == {es[i].id : i \in DOMAIN es} \ (s.gray \cup s.black)
           x == CHOOSE y \in fresh : \A z \in fresh : y <= z
           t == WalkStep(es, f, s)
<1>1. t = IF fresh = {} THEN s
          ELSE [s EXCEPT !.stack = <<x>>, !.next = <<1>>, !.gray = {x}]
  BY DEF WalkStep
<1>2. CASE fresh = {}
  BY <1>1, <1>2 DEF WalkDone, EntryIDs
<1>3. CASE fresh # {}
  <2>1. fresh \subseteq IDs
    BY EdgedIs
  <2>2. x \in fresh
    <3>1. IDs \subseteq Nat
      BY AuthorAssumption
    <3> HIDE DEF fresh
    <3>2. \E y \in fresh : \A z \in fresh : y <= z
      BY <1>3, <2>1, <3>1, LeastNumber
    <3> QED
      BY <3>2
  <2>3. t = [s EXCEPT !.stack = <<x>>, !.next = <<1>>, !.gray = {x}]
    BY <1>1, <1>3
  <2>4. x \in EntryIDs(es) \ (s.gray \cup s.black) /\ x \in IDs
    BY <2>1, <2>2 DEF EntryIDs
  <2> DEFINE u == <<x>>
             v == <<1>>
  <2> HIDE DEF x, t
  <2>6. u \in Seq(IDs) /\ v \in Seq(Nat \ {0})
    BY <2>4
  <2> HIDE DEF u, v
  <2>7. t = [s EXCEPT !.stack = u, !.next = v, !.gray = {x}]
    BY <2>3 DEF u, v
  <2>8. /\ t.stack = u /\ t.next = v /\ t.gray = {x} /\ t.black = s.black /\ t.found = s.found
        /\ t \in States
    BY <2>4, <2>6, <2>7 DEF Stacked, States
  <2>5. /\ t.stack = <<x>> /\ t.next = <<1>> /\ t.gray = {x} /\ t.black = s.black /\ t.found = s.found
        /\ t \in States
    BY <2>8 DEF u, v
  <2> QED
    BY <2>4, <2>5 DEF Started, t
<1> QED
  BY <1>2, <1>3

\* A step with a node on the stack leaves it or follows its next reference.
LEMMA FollowStep ==
    ASSUME NEW es, NEW f, Edged(es, f), NEW s, Stacked(s), s.stack # <<>>
    PROVE  LET t == WalkStep(es, f, s)
               n == Len(s.stack)
           IN  /\ t \in States /\ n \in Nat \ {0}
               /\ \/ Left(es, f, s, t, n) \/ Passed(es, f, s, t, n)
                  \/ Closed(es, f, s, t, n) \/ Entered(es, f, s, t, n)
<1> DEFINE t == WalkStep(es, f, s)
           n == Len(s.stack)
           x == s.stack[n]
           k == s.next[n]
           adj == Adjacent(es, x, f)
           y == adj[k]
           moved == [s.next EXCEPT ![n] = k + 1]
           from == CHOOSE i \in DOMAIN s.stack : s.stack[i] = y
<1>1. /\ s.stack \in Seq(IDs) /\ s.next \in Seq(Nat \ {0}) /\ Len(s.next) = n
      /\ s.gray \subseteq IDs /\ s.black \subseteq IDs /\ s.found \subseteq Seq(IDs)
      /\ s = [stack |-> s.stack, next |-> s.next, gray |-> s.gray, black |-> s.black, found |-> s.found]
  BY DEF Stacked, States
<1>2. n \in Nat \ {0}
  BY <1>1
<1>3. x \in IDs /\ k \in Nat \ {0} /\ adj \in Seq(IDs)
  BY <1>1, <1>2, AdjacentIs
<1>4. t = IF k > Len(adj)
          THEN [s EXCEPT !.stack = SubSeq(s.stack, 1, n - 1), !.next = SubSeq(s.next, 1, n - 1),
                         !.gray = s.gray \ {x}, !.black = s.black \cup {x}]
          ELSE CASE y \in s.black -> [s EXCEPT !.next = moved]
                 [] y \in s.gray ->
                      [s EXCEPT !.next = moved,
                                !.found = s.found \cup {SubSeq(s.stack, from, n)}]
                 [] OTHER -> [s EXCEPT !.stack = Append(s.stack, y), !.next = Append(moved, 1),
                                       !.gray = s.gray \cup {y}]
  BY <1>1 DEF WalkStep, Last, Front
<1> HIDE DEF t
<1>5. CASE k > Len(adj)
  <2> DEFINE u == SubSeq(s.stack, 1, n - 1)
             v == SubSeq(s.next, 1, n - 1)
  <2>1. u \in Seq(IDs) /\ v \in Seq(Nat \ {0})
    <3>1. \A i \in 1 .. n - 1 : s.stack[i] \in IDs /\ s.next[i] \in Nat \ {0}
      BY <1>1, <1>2
    <3>2. 1 \in Int /\ n - 1 \in Int
      BY <1>2
    <3> HIDE DEF n
    <3> QED
      BY <3>1, <3>2, SubSeqProperties
  <2>2. t = [s EXCEPT !.stack = u, !.next = v, !.gray = s.gray \ {x}, !.black = s.black \cup {x}]
    BY <1>4, <1>5
  <2> HIDE DEF u, v, x, k, adj, n
  <2>3. /\ t.stack = u /\ t.next = v /\ t.gray = s.gray \ {x} /\ t.black = s.black \cup {x}
        /\ t.found = s.found /\ t \in States
    BY <1>1, <1>3, <2>1, <2>2 DEF States
  <2>4. Left(es, f, s, t, n)
    BY <1>5, <2>3 DEF Left, u, v, x, k, adj
  <2> QED
    BY <1>2, <2>3, <2>4 DEF n, t
<1>6. CASE ~(k > Len(adj))
  <2>1. k <= Len(adj) /\ Len(adj) \in Nat
    BY <1>3, <1>6
  <2>2. moved \in Seq(Nat \ {0})
    BY <1>1, <1>2, <1>3, ExceptSeq
  <2>3. CASE y \in s.black
    <3> HIDE DEF y, moved, from
    <3>1. t = [s EXCEPT !.next = moved]
      <4> DEFINE a == [s EXCEPT !.next = moved]
      <4> HIDE DEF a, k, adj
      <4>1. y \notin s.gray
        BY <2>3 DEF Stacked
      <4>2. t = a
        BY <1>4, <1>6, <2>3, <4>1 DEF a
      <4> QED
        BY <4>2 DEF a
    <3> HIDE DEF x, k, adj, n
    <3>2. /\ t.stack = s.stack /\ t.next = moved /\ t.gray = s.gray /\ t.black = s.black
          /\ t.found = s.found /\ t \in States
      BY <1>1, <2>2, <3>1 DEF States
    <3>3. Passed(es, f, s, t, n)
      BY <2>1, <2>3, <3>2 DEF Passed, Follows, Ahead, moved, x, k, adj, y
    <3> QED
      BY <1>2, <3>2, <3>3 DEF n, t
  <2>4. CASE y \notin s.black /\ y \in s.gray
    <3> DEFINE c == SubSeq(s.stack, from, n)
    <3>1. t = [s EXCEPT !.next = moved, !.found = s.found \cup {c}]
      BY <1>4, <1>6, <2>4
    <3>2. c \in Seq(IDs)
      <4>1. \E i \in DOMAIN s.stack : s.stack[i] = y
        BY <1>1, <2>4 DEF Stacked
      <4>2. from \in DOMAIN s.stack
        BY <4>1
      <4>3. from \in Int /\ n \in Int /\ \A i \in from .. n : s.stack[i] \in IDs
        <5> HIDE DEF from
        <5> QED
          BY <1>1, <1>2, <4>2
      <4> HIDE DEF from, n
      <4> QED
        BY <4>3, SubSeqProperties
    <3> HIDE DEF moved, x, k, adj, n, c
    <3>3. /\ t.stack = s.stack /\ t.next = moved /\ t.gray = s.gray /\ t.black = s.black
          /\ t.found # {} /\ t \in States
      BY <1>1, <2>2, <3>1, <3>2 DEF States
    <3>4. Closed(es, f, s, t, n)
      BY <2>1, <2>4, <3>3 DEF Closed, Follows, Ahead, moved, x, k, adj
    <3> QED
      BY <1>2, <3>3, <3>4 DEF n, t
  <2>5. CASE y \notin s.black /\ y \notin s.gray
    <3> DEFINE u == Append(s.stack, y)
               v == Append(moved, 1)
    <3>1. t = [s EXCEPT !.stack = u, !.next = v, !.gray = s.gray \cup {y}]
      BY <1>4, <1>6, <2>5
    <3>2. y \in IDs
      <4>1. k \in 1 .. Len(adj)
        BY <1>3, <2>1
      <4> HIDE DEF adj, k
      <4> QED
        BY <1>3, <4>1
    <3>3. u \in Seq(IDs) /\ v \in Seq(Nat \ {0})
      <4> HIDE DEF moved
      <4> QED
        BY <1>1, <2>2, <3>2
    <3> HIDE DEF moved, x, k, adj, n, u, v
    <3>4. /\ t.stack = u /\ t.next = v /\ t.gray = s.gray \cup {y} /\ t.black = s.black
          /\ t.found = s.found /\ t \in States
      BY <1>1, <3>1, <3>2, <3>3 DEF States
    <3>5. Entered(es, f, s, t, n)
      BY <2>1, <2>5, <3>4 DEF Entered, Follows, Ahead, moved, x, k, adj, u, v
    <3> QED
      BY <1>2, <3>4, <3>5 DEF n, t
  <2> QED
    BY <2>3, <2>4, <2>5
<1> QED
  BY <1>5, <1>6

-----------------------------------------------------------------------------
(* What every step of the walk keeps. *)

\* One of x's references is y.
Leads(es, f, x, y) ==
    \E k \in 1 .. Len(Adjacent(es, x, f)) : Adjacent(es, x, f)[k] = y

\* Nodes that depend on one another: from each of them one is led to another.
Knot(es, f, S) == S # {} /\ \A x \in S : \E y \in S : Leads(es, f, x, y)

\* The stack is a path.
OnPath(es, f, s) ==
    /\ Stacked(s) /\ s.gray \cup s.black \subseteq Met(es, f)
    /\ \A i, j \in 1 .. Len(s.stack) : s.stack[i] = s.stack[j] => i = j
    /\ \A j \in 1 .. Len(s.stack) : s.next[j] <= Len(Adjacent(es, s.stack[j], f)) + 1
    /\ \A j \in 1 .. Len(s.stack) - 1 :
          s.next[j] > 1 /\ Adjacent(es, s.stack[j], f)[s.next[j] - 1] = s.stack[j + 1]

\* From nodes that were left only such nodes are reached, none of them part of
\* a knot, and so it is with the references looked at so far.
NoKnotYet(es, f, s) ==
    /\ \A x \in s.black : \A y : Leads(es, f, x, y) => y \in s.black
    /\ \A j \in 1 .. Len(s.stack) : \A k \in 1 .. s.next[j] - 1 :
          \/ Adjacent(es, s.stack[j], f)[k] \in s.black
          \/ j < Len(s.stack) /\ k = s.next[j] - 1
    /\ \A S : S \subseteq s.black => ~Knot(es, f, S)

\* What a walk knows: a cycle it has found is a knot, and while it has found
\* none there is none among the nodes it has left.
WalkFine(es, f, s) ==
    /\ OnPath(es, f, s)
    /\ s.found # {} => \E S : Knot(es, f, S)
    /\ s.found = {} => NoKnotYet(es, f, s)

\* The parts of a state.
LEMMA StackParts ==
    ASSUME NEW es, NEW f, NEW s, OnPath(es, f, s)
    PROVE  /\ s.stack \in Seq(IDs) /\ s.next \in Seq(Nat \ {0}) /\ Len(s.next) = Len(s.stack)
           /\ Len(s.stack) \in Nat
           /\ \A j \in 1 .. Len(s.stack) : s.next[j] \in Nat \ {0} /\ s.stack[j] \in IDs /\ s.stack[j] \in s.gray
           /\ \A x \in s.gray : \E j \in 1 .. Len(s.stack) : x = s.stack[j]
           /\ s.gray \cap s.black = {} /\ s.gray \cup s.black \subseteq Met(es, f)
<1>1. s.stack \in Seq(IDs) /\ s.next \in Seq(Nat \ {0}) /\ Len(s.next) = Len(s.stack)
  BY DEF OnPath, Stacked, States
<1> QED
  BY <1>1 DEF OnPath, Stacked

\* A sequence without its last element.
LEMMA FrontIs ==
    ASSUME NEW S, NEW q \in Seq(S), NEW n \in Nat \ {0}, Len(q) = n
    PROVE  /\ Len(SubSeq(q, 1, n - 1)) = n - 1
           /\ \A j \in 1 .. n - 1 : SubSeq(q, 1, n - 1)[j] = q[j]
<1>1. 1 \in Int /\ n - 1 \in Int /\ \A j \in 1 .. n - 1 : q[j] \in S
  OBVIOUS
<1> DEFINE r == SubSeq(q, 1, n - 1)
<1>2. /\ Len(r) = IF 1 <= n - 1 THEN n - 1 - 1 + 1 ELSE 0
      /\ \A j \in 1 .. n - 1 - 1 + 1 : r[j] = q[1 + j - 1]
  BY <1>1, SubSeqProperties
<1> HIDE DEF r
<1>3. \A j \in 1 .. n - 1 : j \in 1 .. n - 1 - 1 + 1 /\ 1 + j - 1 = j
  OBVIOUS
<1>4. \A j \in 1 .. n - 1 : r[j] = q[j]
  BY <1>2, <1>3
<1>5. Len(r) = n - 1
  BY <1>2
<1> QED
  BY <1>4, <1>5 DEF r

\* A node started is a path of one.
LEMMA StartedFine ==
    ASSUME NEW es, NEW f, Edged(es, f), NEW s, WalkFine(es, f, s), NEW t \in States, Started(es, s, t)
    PROVE  WalkFine(es, f, t)
<1>1. PICK x \in EntryIDs(es) \ (s.gray \cup s.black) : t.stack = <<x>> /\ t.next = <<1>> /\ t.gray = {x}
  BY DEF Started
<1>2. t.black = s.black /\ t.found = s.found
  BY DEF Started
<1>3. /\ Len(t.stack) = 1 /\ Len(t.next) = 1 /\ t.stack[1] = x /\ t.next[1] = 1
      /\ 1 .. Len(t.stack) = {1} /\ \A j \in 1 .. Len(t.stack) - 1 : FALSE
  BY <1>1
<1>4. x \in Met(es, f)
  BY MetIs DEF EntryIDs
<1>5. Adjacent(es, x, f) \in Seq(IDs)
  BY AdjacentIs
<1>6. OnPath(es, f, t)
  <2>1. t.gray = {t.stack[j] : j \in 1 .. Len(t.stack)} /\ t.gray \cap t.black = {}
    BY <1>1, <1>2, <1>3
  <2>2. Stacked(t)
    BY <1>3, <2>1 DEF Stacked
  <2>3. t.gray \cup t.black \subseteq Met(es, f)
    BY <1>1, <1>2, <1>4 DEF WalkFine, OnPath
  <2>4. 1 <= Len(Adjacent(es, x, f)) + 1
    BY <1>5
  <2> QED
    BY <1>3, <2>2, <2>3, <2>4 DEF OnPath
<1>7. NoKnotYet(es, f, s) => NoKnotYet(es, f, t)
  <2>1. \A j \in 1 .. Len(t.stack) : \A k \in 1 .. t.next[j] - 1 : FALSE
    BY <1>3
  <2> QED
    BY <1>2, <2>1 DEF NoKnotYet
<1> QED
  BY <1>2, <1>6, <1>7 DEF WalkFine

\* The node left joins no knot: all it refers to was left before.
LEMMA LeftFine ==
    ASSUME NEW es, NEW f, Edged(es, f), NEW s, WalkFine(es, f, s), NEW t \in States,
           NEW n \in Nat \ {0}, n = Len(s.stack), Left(es, f, s, t, n)
    PROVE  WalkFine(es, f, t)
<1> DEFINE x == s.stack[n]
<1>1. /\ t.stack = SubSeq(s.stack, 1, n - 1) /\ t.next = SubSeq(s.next, 1, n - 1)
      /\ t.gray = s.gray \ {x} /\ t.black = s.black \cup {x} /\ t.found = s.found
      /\ s.next[n] > Len(Adjacent(es, x, f))
  BY DEF Left
<1>2. OnPath(es, f, s)
  BY DEF WalkFine
<1>3. /\ \A j \in 1 .. n : s.next[j] \in Nat \ {0} /\ s.stack[j] \in IDs /\ s.stack[j] \in s.gray
      /\ \A z \in s.gray : \E j \in 1 .. n : z = s.stack[j]
      /\ s.gray \cap s.black = {} /\ s.gray \cup s.black \subseteq Met(es, f)
      /\ n \in 1 .. n
  BY <1>2, StackParts
<1>4. /\ Len(t.stack) = n - 1 /\ Len(t.next) = n - 1
      /\ \A j \in 1 .. n - 1 : t.stack[j] = s.stack[j] /\ t.next[j] = s.next[j]
  <2>1. s.stack \in Seq(IDs) /\ s.next \in Seq(Nat \ {0}) /\ Len(s.next) = n
    BY <1>2, StackParts
  <2> QED
    BY <1>1, <2>1, FrontIs
<1>5. /\ \A i, j \in 1 .. n : s.stack[i] = s.stack[j] => i = j
      /\ \A j \in 1 .. n : s.next[j] <= Len(Adjacent(es, s.stack[j], f)) + 1
      /\ \A j \in 1 .. n - 1 : /\ s.next[j] > 1
                              /\ Adjacent(es, s.stack[j], f)[s.next[j] - 1] = s.stack[j + 1]
  BY <1>2 DEF OnPath
<1>6. \A j \in 1 .. n - 1 : j \in 1 .. n /\ j # n
  OBVIOUS
<1> HIDE DEF x
<1>7. OnPath(es, f, t)
  <2>1. t.gray = {t.stack[j] : j \in 1 .. Len(t.stack)}
    <3>1. \A z : z \in t.gray <=> z \in s.gray /\ z # s.stack[n]
      BY <1>1 DEF x
    <3>2. \A z : z \in s.gray <=> \E j \in 1 .. n : z = s.stack[j]
      BY <1>3
    <3>3. \A j \in 1 .. n : j \in 1 .. n - 1 \/ j = n
      OBVIOUS
    <3>4. \A j \in 1 .. n - 1 : s.stack[j] # s.stack[n]
      BY <1>3, <1>5, <1>6
    <3>5. \A z : z \in t.gray <=> \E j \in 1 .. n - 1 : z = s.stack[j]
      BY <1>6, <3>1, <3>2, <3>3, <3>4
    <3> QED
      BY <1>4, <3>5
  <2>2. t.gray \cap t.black = {} /\ t.gray \cup t.black \subseteq Met(es, f)
    BY <1>1, <1>3 DEF x
  <2>3. Stacked(t)
    BY <1>4, <2>1, <2>2 DEF Stacked
  <2>4. \A i, j \in 1 .. Len(t.stack) : t.stack[i] = t.stack[j] => i = j
    BY <1>4, <1>5, <1>6
  <2>5. \A j \in 1 .. Len(t.stack) : t.next[j] <= Len(Adjacent(es, t.stack[j], f)) + 1
    BY <1>4, <1>5, <1>6
  <2>6. \A j \in 1 .. Len(t.stack) - 1 :
           t.next[j] > 1 /\ Adjacent(es, t.stack[j], f)[t.next[j] - 1] = t.stack[j + 1]
    <3>1. \A j \in 1 .. n - 1 - 1 : j \in 1 .. n - 1 /\ j + 1 \in 1 .. n - 1
      OBVIOUS
    <3> QED
      BY <1>4, <1>5, <3>1
  <2> QED
    BY <2>2, <2>3, <2>4, <2>5, <2>6 DEF OnPath
<1>8. ASSUME NoKnotYet(es, f, s) PROVE NoKnotYet(es, f, t)
  <2>1. /\ \A z \in s.black : \A y : Leads(es, f, z, y) => y \in s.black
        /\ \A j \in 1 .. n : \A k \in 1 .. s.next[j] - 1 :
             Adjacent(es, s.stack[j], f)[k] \in s.black \/ (j < n /\ k = s.next[j] - 1)
        /\ \A S : S \subseteq s.black => ~Knot(es, f, S)
    BY <1>8 DEF NoKnotYet
  <2>2. \A y : Leads(es, f, x, y) => y \in s.black
    <3>1. Adjacent(es, x, f) \in Seq(IDs)
      BY AdjacentIs
    <3>2. \A k \in 1 .. Len(Adjacent(es, x, f)) : k \in 1 .. s.next[n] - 1
      <4> DEFINE m == Len(Adjacent(es, x, f))
                 a == s.next[n]
      <4>1. m \in Nat /\ a \in Nat /\ a > m
        BY <1>1, <1>3, <3>1 DEF x
      <4> HIDE DEF m, a
      <4>2. \A k \in 1 .. m : k \in 1 .. a - 1
        BY <4>1
      <4> QED
        BY <4>2 DEF m, a
    <3>3. \A k \in 1 .. Len(Adjacent(es, x, f)) : Adjacent(es, x, f)[k] \in s.black
      BY <1>3, <2>1, <3>2 DEF x
    <3> QED
      BY <3>3 DEF Leads
  <2>3. x \notin s.black
    BY <1>3 DEF x
  <2>4. \A z \in t.black : \A y : Leads(es, f, z, y) => y \in s.black
    BY <1>1, <2>1, <2>2
  <2>5. ASSUME NEW S, S \subseteq t.black, Knot(es, f, S)
        PROVE  FALSE
    <3>1. S # {} /\ \A z \in S : \E y \in S : Leads(es, f, z, y)
      BY <2>5 DEF Knot
    <3> DEFINE R == S \ {x}
    <3>2. R \subseteq s.black
      BY <1>1, <2>5
    <3>3. \A z \in S : \E y \in R : Leads(es, f, z, y)
      BY <2>3, <2>4, <2>5, <3>1
    <3>4. Knot(es, f, R)
      BY <3>1, <3>3 DEF Knot
    <3> QED
      BY <2>1, <3>2, <3>4
  <2>6. \A j \in 1 .. n - 1 : \A k \in 1 .. s.next[j] - 1 :
          \/ Adjacent(es, s.stack[j], f)[k] \in t.black
          \/ j < n - 1 /\ k = s.next[j] - 1
    <3> SUFFICES ASSUME NEW j \in 1 .. n - 1, NEW k \in 1 .. s.next[j] - 1
                 PROVE  \/ Adjacent(es, s.stack[j], f)[k] \in t.black
                        \/ j < n - 1 /\ k = s.next[j] - 1
      OBVIOUS
    <3>1. Adjacent(es, s.stack[j], f)[k] \in s.black \/ k = s.next[j] - 1
      BY <1>6, <2>1
    <3>2. CASE k = s.next[j] - 1 /\ j = n - 1
      <4>1. Adjacent(es, s.stack[j], f)[k] = s.stack[j + 1] /\ j + 1 = n
        BY <1>5, <3>2
      <4> QED
        BY <1>1, <4>1 DEF x
    <3>3. CASE k = s.next[j] - 1 /\ j # n - 1
      BY <3>3
    <3> QED
      BY <1>1, <3>1, <3>2, <3>3
  <2>7. \A j \in 1 .. Len(t.stack) : \A k \in 1 .. t.next[j] - 1 :
          \/ Adjacent(es, t.stack[j], f)[k] \in t.black
          \/ j < Len(t.stack) /\ k = t.next[j] - 1
    BY <1>4, <2>6
  <2>8. \A z \in t.black : \A y : Leads(es, f, z, y) => y \in t.black
    BY <1>1, <2>4
  <2> QED
    BY <2>5, <2>7, <2>8 DEF NoKnotYet
<1> QED
  BY <1>1, <1>7, <1>8 DEF WalkFine

\* The place after the one looked at.
LEMMA MovedIs ==
    ASSUME NEW es, NEW f, NEW s, OnPath(es, f, s), NEW n \in Nat \ {0}, n = Len(s.stack)
    PROVE  LET moved == [s.next EXCEPT ![n] = s.next[n] + 1] IN
           /\ moved \in Seq(Nat \ {0}) /\ Len(moved) = n /\ moved[n] = s.next[n] + 1
           /\ \A j \in 1 .. n - 1 : moved[j] = s.next[j]
<1> DEFINE e == s.next[n] + 1
           q == s.next
<1>1. q \in Seq(Nat \ {0}) /\ Len(q) = n
  BY StackParts
<1>2. n \in 1 .. Len(q)
  BY <1>1
<1>3. q[n] \in Nat \ {0}
  BY <1>1, <1>2
<1>4. e \in Nat \ {0}
  BY <1>3
<1> HIDE DEF e
<1>5. /\ [q EXCEPT ![n] = e] \in Seq(Nat \ {0}) /\ Len([q EXCEPT ![n] = e]) = Len(q)
      /\ \A j \in 1 .. Len(q) : [q EXCEPT ![n] = e][j] = IF j = n THEN e ELSE q[j]
  BY <1>1, <1>2, <1>4, ExceptSeq
<1> DEFINE r == [q EXCEPT ![n] = e]
<1> HIDE DEF r, q
<1>6. r \in Seq(Nat \ {0}) /\ Len(r) = n /\ \A j \in 1 .. n : r[j] = IF j = n THEN e ELSE q[j]
  BY <1>1, <1>5 DEF r
<1>7. r[n] = e /\ \A j \in 1 .. n - 1 : r[j] = q[j]
  BY <1>6
<1> QED
  BY <1>6, <1>7 DEF r, q, e

\* The stack stays, and its last reference counts as looked at.
LEMMA FollowedOnPath ==
    ASSUME NEW es, NEW f, Edged(es, f), NEW s, OnPath(es, f, s), NEW t \in States,
           NEW n \in Nat \ {0}, n = Len(s.stack), Follows(es, f, s, n),
           t.stack = s.stack, t.next = [s.next EXCEPT ![n] = s.next[n] + 1],
           t.gray = s.gray, t.black = s.black
    PROVE  OnPath(es, f, t)
<1>1. /\ Len(t.next) = n /\ t.next[n] = s.next[n] + 1
      /\ \A j \in 1 .. n - 1 : t.next[j] = s.next[j]
  BY MovedIs
<1>2. /\ \A j \in 1 .. n - 1 : /\ s.next[j] > 1
                               /\ Adjacent(es, s.stack[j], f)[s.next[j] - 1] = s.stack[j + 1]
      /\ \A j \in 1 .. n : s.next[j] <= Len(Adjacent(es, s.stack[j], f)) + 1
      /\ \A i, j \in 1 .. n : s.stack[i] = s.stack[j] => i = j
      /\ s.gray = {s.stack[j] : j \in 1 .. n} /\ s.gray \cap s.black = {}
      /\ s.gray \cup s.black \subseteq Met(es, f)
  BY DEF OnPath, Stacked
<1>3. Stacked(t)
  BY <1>1, <1>2 DEF Stacked
<1>4. \A j \in 1 .. n : t.next[j] <= Len(Adjacent(es, t.stack[j], f)) + 1
  <2> DEFINE m == Len(Adjacent(es, s.stack[n], f))
             a == s.next[n]
  <2>1. m \in Nat /\ a \in Nat /\ a <= m
    BY AdjacentIs, StackParts DEF Follows
  <2> HIDE DEF m, a
  <2>2. a + 1 <= m + 1
    BY <2>1
  <2>3. t.next[n] <= Len(Adjacent(es, t.stack[n], f)) + 1
    BY <1>1, <2>2 DEF m, a
  <2>4. \A j \in 1 .. n : j \in 1 .. n - 1 \/ j = n
    OBVIOUS
  <2> QED
    BY <1>1, <1>2, <2>3, <2>4
<1> QED
  BY <1>1, <1>2, <1>3, <1>4 DEF OnPath

\* A reference to a node that was left.
LEMMA PassedFine ==
    ASSUME NEW es, NEW f, Edged(es, f), NEW s, WalkFine(es, f, s), NEW t \in States,
           NEW n \in Nat \ {0}, n = Len(s.stack), Passed(es, f, s, t, n)
    PROVE  WalkFine(es, f, t)
<1>1. /\ OnPath(es, f, s) /\ OnPath(es, f, t)
      /\ t.stack = s.stack /\ t.black = s.black /\ t.found = s.found
      /\ Ahead(es, f, s, n) \in s.black
  BY FollowedOnPath DEF WalkFine, Passed
<1>2. /\ t.next[n] = s.next[n] + 1 /\ \A j \in 1 .. n - 1 : t.next[j] = s.next[j]
  BY <1>1, MovedIs DEF Passed
<1>3. ASSUME NoKnotYet(es, f, s) PROVE NoKnotYet(es, f, t)
  <2>1. \A j \in 1 .. n : \A k \in 1 .. s.next[j] - 1 :
           Adjacent(es, s.stack[j], f)[k] \in s.black \/ (j < n /\ k = s.next[j] - 1)
    BY <1>3 DEF NoKnotYet
  <2>2. ASSUME NEW j \in 1 .. n, NEW k \in 1 .. t.next[j] - 1
        PROVE  Adjacent(es, s.stack[j], f)[k] \in s.black \/ (j < n /\ k = t.next[j] - 1)
    <3>1. CASE j = n
      <4>1. s.next[n] \in Nat
        BY <1>1, <3>1, StackParts
      <4>2. k \in 1 .. s.next[n] - 1 \/ k = s.next[n]
        BY <1>2, <2>2, <3>1, <4>1
      <4> QED
        BY <1>1, <2>1, <3>1, <4>2 DEF Ahead
    <3>2. CASE j # n
      <4>1. j \in 1 .. n - 1
        BY <3>2
      <4> QED
        BY <1>2, <2>1, <2>2, <4>1
    <3> QED
      BY <3>1, <3>2
  <2> QED
    BY <1>1, <1>3, <2>2 DEF NoKnotYet
<1> QED
  BY <1>1, <1>3 DEF WalkFine

\* A reference back into the stack closes a knot.
LEMMA ClosedFine ==
    ASSUME NEW es, NEW f, Edged(es, f), NEW s, WalkFine(es, f, s), NEW t \in States,
           NEW n \in Nat \ {0}, n = Len(s.stack), Closed(es, f, s, t, n)
    PROVE  WalkFine(es, f, t)
<1>1. /\ OnPath(es, f, s) /\ OnPath(es, f, t) /\ t.found # {}
      /\ Ahead(es, f, s, n) \in s.gray /\ Follows(es, f, s, n)
  BY FollowedOnPath DEF WalkFine, Closed
<1>2. PICK i \in 1 .. n : Ahead(es, f, s, n) = s.stack[i]
  BY <1>1, StackParts
<1> DEFINE S == {s.stack[j] : j \in i .. n}
<1>3. ASSUME NEW j \in i .. n
      PROVE  \E y \in S : Leads(es, f, s.stack[j], y)
  <2>1. s.next[j] \in Nat \ {0} /\ j \in 1 .. n
    BY <1>1, StackParts
  <2> DEFINE m == Len(Adjacent(es, s.stack[j], f))
             a == s.next[j]
  <2>2. m \in Nat /\ a \in Nat \ {0}
    BY <2>1, AdjacentIs
  <2>3. CASE j = n
    <3>1. s.stack[i] \in S
      OBVIOUS
    <3>2. a <= m
      BY <1>1, <2>3 DEF Follows
    <3> HIDE DEF a, m
    <3>3. a \in 1 .. m
      BY <2>2, <3>2
    <3> HIDE DEF S
    <3>4. Adjacent(es, s.stack[j], f)[a] = s.stack[i]
      BY <1>2, <2>3 DEF Ahead, a
    <3> QED
      BY <3>1, <3>3, <3>4 DEF Leads, m
  <2>4. CASE j # n
    <3>1. j \in 1 .. n - 1 /\ j + 1 \in i .. n
      BY <2>4
    <3>2. s.stack[j + 1] \in S
      BY <3>1
    <3>3. a > 1 /\ Adjacent(es, s.stack[j], f)[a - 1] = s.stack[j + 1] /\ a <= m + 1
      BY <1>1, <2>1, <3>1 DEF OnPath
    <3> HIDE DEF a, m
    <3>4. a - 1 \in 1 .. m
      BY <2>2, <3>3
    <3> HIDE DEF S
    <3> QED
      BY <3>2, <3>3, <3>4 DEF Leads, m
  <2> QED
    BY <2>3, <2>4
<1>4. S # {}
  <2>1. n \in i .. n
    OBVIOUS
  <2> QED
    BY <2>1
<1>5. \A x \in S : \E j \in i .. n : x = s.stack[j]
  OBVIOUS
<1> HIDE DEF S
<1>6. Knot(es, f, S)
  BY <1>3, <1>4, <1>5 DEF Knot
<1> QED
  BY <1>1, <1>6 DEF WalkFine

\* A node entered makes the path longer.
LEMMA EnteredFine ==
    ASSUME NEW es, NEW f, Edged(es, f), NEW s, WalkFine(es, f, s), NEW t \in States,
           NEW n \in Nat \ {0}, n = Len(s.stack), Entered(es, f, s, t, n)
    PROVE  WalkFine(es, f, t)
<1> DEFINE y == Ahead(es, f, s, n)
           moved == [s.next EXCEPT ![n] = s.next[n] + 1]
<1>1. /\ OnPath(es, f, s) /\ Follows(es, f, s, n)
      /\ y \notin s.gray /\ y \notin s.black
      /\ t.stack = Append(s.stack, y) /\ t.next = Append(moved, 1)
      /\ t.gray = s.gray \cup {y} /\ t.black = s.black /\ t.found = s.found
  BY DEF WalkFine, Entered
<1>2. /\ moved \in Seq(Nat \ {0}) /\ Len(moved) = n /\ moved[n] = s.next[n] + 1
      /\ \A j \in 1 .. n - 1 : moved[j] = s.next[j]
  BY <1>1, MovedIs
<1>3. /\ s.stack \in Seq(IDs)
      /\ \A j \in 1 .. n : s.next[j] \in Nat \ {0} /\ s.stack[j] \in s.gray
      /\ \A x \in s.gray : \E j \in 1 .. n : x = s.stack[j]
      /\ s.gray \cap s.black = {} /\ s.gray \cup s.black \subseteq Met(es, f)
  BY <1>1, StackParts
<1> DEFINE m == Len(Adjacent(es, s.stack[n], f))
           a == s.next[n]
<1>4. m \in Nat /\ a \in Nat \ {0} /\ a <= m /\ n \in 1 .. n
  BY <1>1, <1>3, AdjacentIs DEF Follows
<1>5. y \in Met(es, f) /\ y \in IDs
  <2>1. a \in 1 .. m
    <3> HIDE DEF a, m
    <3> QED
      BY <1>4
  <2> QED
    BY <2>1, MetIs DEF Ahead
<1> HIDE DEF y, moved
<1>6. /\ Len(t.stack) = n + 1 /\ Len(t.next) = n + 1
      /\ t.stack[n + 1] = y /\ t.next[n + 1] = 1 /\ t.next[n] = s.next[n] + 1
      /\ \A j \in 1 .. n : t.stack[j] = s.stack[j]
      /\ \A j \in 1 .. n - 1 : t.next[j] = s.next[j]
  <2>1. /\ Len(t.stack) = Len(s.stack) + 1 /\ \A j \in 1 .. Len(s.stack) : t.stack[j] = s.stack[j]
        /\ t.stack[Len(s.stack) + 1] = y
    BY <1>1, <1>3, <1>5, AppendProperties
  <2>2. /\ Len(t.next) = Len(moved) + 1 /\ \A j \in 1 .. Len(moved) : t.next[j] = moved[j]
        /\ t.next[Len(moved) + 1] = 1
    BY <1>1, <1>2, AppendProperties
  <2>3. \A j \in 1 .. n - 1 : j \in 1 .. n
    OBVIOUS
  <2> QED
    BY <1>2, <1>4, <2>1, <2>2, <2>3
<1>7. /\ \A i, j \in 1 .. n : s.stack[i] = s.stack[j] => i = j
      /\ \A j \in 1 .. n : s.next[j] <= Len(Adjacent(es, s.stack[j], f)) + 1
      /\ \A j \in 1 .. n - 1 : /\ s.next[j] > 1
                               /\ Adjacent(es, s.stack[j], f)[s.next[j] - 1] = s.stack[j + 1]
  BY <1>1 DEF OnPath
<1>8. \A j \in 1 .. n + 1 : j = n + 1 \/ (j \in 1 .. n /\ (j = n \/ j \in 1 .. n - 1))
  OBVIOUS
<1>9. OnPath(es, f, t)
  <2>1. t.gray = {t.stack[j] : j \in 1 .. Len(t.stack)}
    <3>1. \A z : z \in t.gray <=> \E j \in 1 .. n + 1 : z = t.stack[j]
      <4>1. ASSUME NEW z \in t.gray PROVE \E j \in 1 .. n + 1 : z = t.stack[j]
        <5>1. \A j \in 1 .. n : j \in 1 .. n + 1
          OBVIOUS
        <5>2. n + 1 \in 1 .. n + 1
          OBVIOUS
        <5> QED
          BY <1>1, <1>3, <1>6, <5>1, <5>2
      <4>2. ASSUME NEW j \in 1 .. n + 1 PROVE t.stack[j] \in t.gray
        BY <1>1, <1>3, <1>6, <1>8
      <4> QED
        BY <4>1, <4>2
    <3> QED
      BY <1>6, <3>1
  <2>2. t.gray \cap t.black = {} /\ t.gray \cup t.black \subseteq Met(es, f)
    BY <1>1, <1>3, <1>5
  <2>3. Stacked(t)
    BY <1>6, <2>1, <2>2 DEF Stacked
  <2>4. ASSUME NEW i \in 1 .. n + 1, NEW j \in 1 .. n + 1, t.stack[i] = t.stack[j]
        PROVE  i = j
    <3>1. \A k \in 1 .. n : t.stack[k] # y
      BY <1>1, <1>3, <1>6
    <3> QED
      BY <1>6, <1>7, <1>8, <2>4, <3>1
  <2>5. ASSUME NEW j \in 1 .. n + 1
        PROVE  t.next[j] <= Len(Adjacent(es, t.stack[j], f)) + 1
    <3>1. CASE j = n + 1
      <4>1. Len(Adjacent(es, y, f)) \in Nat
        BY AdjacentIs
      <4> QED
        BY <1>6, <3>1, <4>1
    <3>2. CASE j = n
      <4>1. t.next[j] = a + 1 /\ Len(Adjacent(es, t.stack[j], f)) = m
        BY <1>4, <1>6, <3>2
      <4> HIDE DEF a, m
      <4> QED
        BY <1>4, <4>1
    <3>3. CASE j \in 1 .. n - 1
      <4>1. j \in 1 .. n
        BY <3>3
      <4>2. t.next[j] = s.next[j] /\ t.stack[j] = s.stack[j]
        BY <1>6, <3>3, <4>1
      <4> QED
        BY <1>7, <4>1, <4>2
    <3> QED
      BY <1>8, <3>1, <3>2, <3>3
  <2>6. ASSUME NEW j \in 1 .. n
        PROVE  t.next[j] > 1 /\ Adjacent(es, t.stack[j], f)[t.next[j] - 1] = t.stack[j + 1]
    <3>1. CASE j = n
      <4>1. t.next[j] = a + 1 /\ t.stack[j + 1] = y /\ t.stack[j] = s.stack[n]
        BY <1>4, <1>6, <3>1
      <4>2. y = Adjacent(es, s.stack[n], f)[a]
        BY DEF y, Ahead
      <4> HIDE DEF a
      <4>3. t.next[j] > 1 /\ t.next[j] - 1 = a
        BY <1>4, <4>1
      <4> QED
        BY <4>1, <4>2, <4>3
    <3>2. CASE j # n
      <4>1. j \in 1 .. n - 1 /\ j + 1 \in 1 .. n
        BY <3>2
      <4> QED
        BY <1>6, <1>7, <4>1
    <3> QED
      BY <3>1, <3>2
  <2>7. Len(t.stack) = n + 1 /\ Len(t.stack) - 1 = n
    BY <1>6
  <2> QED
    BY <2>2, <2>3, <2>4, <2>5, <2>6, <2>7 DEF OnPath
<1>10. ASSUME NoKnotYet(es, f, s) PROVE NoKnotYet(es, f, t)
  <2>1. \A j \in 1 .. n : \A k \in 1 .. s.next[j] - 1 :
           Adjacent(es, s.stack[j], f)[k] \in s.black \/ (j < n /\ k = s.next[j] - 1)
    BY <1>10 DEF NoKnotYet
  <2>2. ASSUME NEW j \in 1 .. n, NEW k \in 1 .. s.next[j] - 1, j = n \/ k # s.next[j] - 1
        PROVE  Adjacent(es, s.stack[j], f)[k] \in s.black
    BY <2>1, <2>2
  <2>3. ASSUME NEW j \in 1 .. n + 1, NEW k \in 1 .. t.next[j] - 1
        PROVE  Adjacent(es, t.stack[j], f)[k] \in s.black \/ (j < n + 1 /\ k = t.next[j] - 1)
    <3>1. CASE j = n + 1
      BY <1>6, <2>3, <3>1
    <3>2. CASE j = n
      <4>1. t.next[j] = a + 1 /\ t.stack[j] = s.stack[n]
        BY <1>4, <1>6, <3>2
      <4> HIDE DEF a
      <4>2. k \in 1 .. a - 1 \/ (k = a /\ k = t.next[j] - 1)
        BY <1>4, <2>3, <4>1
      <4>3. j < n + 1
        BY <3>2
      <4>4. CASE k \in 1 .. a - 1
        BY <1>4, <2>2, <3>2, <4>1, <4>4 DEF a
      <4> QED
        BY <4>2, <4>3, <4>4
    <3>3. CASE j \in 1 .. n - 1
      <4>1. j \in 1 .. n /\ j < n + 1
        BY <3>3
      <4> QED
        BY <1>6, <2>1, <2>3, <3>3, <4>1
    <3> QED
      BY <1>8, <3>1, <3>2, <3>3
  <2> QED
    BY <1>1, <1>6, <1>10, <2>3 DEF NoKnotYet
<1> QED
  BY <1>1, <1>9, <1>10 DEF WalkFine

-----------------------------------------------------------------------------
(* The walk comes to an end.                                                *)

\* The references not looked at, and the nodes not met.
Unseen(es, f, s) ==
    {w \in Ways(es, f) : /\ w[1] \notin s.black
                         /\ \A j \in 1 .. Len(s.stack) : s.stack[j] = w[1] => w[2] >= s.next[j]}
Unmet(es, f, s) == Met(es, f) \ (s.gray \cup s.black)

\* The steps that are left, at the most.
ToGo(es, f, s) ==
    Cardinality(Unseen(es, f, s)) + 2 * Cardinality(Unmet(es, f, s)) + Len(s.stack)

\* The size of a part of a finite set.
LEMMA FewerElements ==
    ASSUME NEW S, IsFiniteSet(S), NEW T, T \subseteq S
    PROVE  /\ IsFiniteSet(T) /\ Cardinality(S) \in Nat /\ Cardinality(T) \in Nat
           /\ Cardinality(T) <= Cardinality(S)
           /\ \A x \in S : x \notin T => Cardinality(T) <= Cardinality(S) - 1
<1>1. IsFiniteSet(T) /\ Cardinality(T) <= Cardinality(S) /\ (Cardinality(S) = Cardinality(T) => S = T)
  BY FS_Subset
<1>2. Cardinality(S) \in Nat /\ Cardinality(T) \in Nat
  BY <1>1, FS_CardinalityType
<1> QED
  BY <1>1, <1>2

\* The numbers are numbers.
LEMMA ToGoIs ==
    ASSUME NEW es, NEW f, Edged(es, f), NEW s, OnPath(es, f, s)
    PROVE  /\ IsFiniteSet(Unseen(es, f, s)) /\ Cardinality(Unseen(es, f, s)) \in Nat
           /\ IsFiniteSet(Unmet(es, f, s)) /\ Cardinality(Unmet(es, f, s)) \in Nat
           /\ Len(s.stack) \in Nat /\ ToGo(es, f, s) \in Nat
<1>1. Unseen(es, f, s) \subseteq Ways(es, f) /\ Unmet(es, f, s) \subseteq Met(es, f)
  BY DEF Unseen, Unmet
<1>2. IsFiniteSet(Ways(es, f)) /\ IsFiniteSet(Met(es, f))
  BY WalkIsBounded
<1>3. /\ IsFiniteSet(Unseen(es, f, s)) /\ Cardinality(Unseen(es, f, s)) \in Nat
      /\ IsFiniteSet(Unmet(es, f, s)) /\ Cardinality(Unmet(es, f, s)) \in Nat
  BY <1>1, <1>2, FewerElements
<1>4. Len(s.stack) \in Nat
  BY StackParts
<1> QED
  BY <1>3, <1>4 DEF ToGo

\* What makes a state nearer to the end.
LEMMA Nearer ==
    ASSUME NEW es, NEW f, Edged(es, f), NEW s, OnPath(es, f, s), NEW t, OnPath(es, f, t),
           Cardinality(Unseen(es, f, t)) <= Cardinality(Unseen(es, f, s)),
           Cardinality(Unmet(es, f, t)) <= Cardinality(Unmet(es, f, s)),
           \/ Len(t.stack) <= Len(s.stack) - 1
           \/ /\ Cardinality(Unseen(es, f, t)) <= Cardinality(Unseen(es, f, s)) - 1
              /\ Len(t.stack) <= Len(s.stack)
           \/ /\ Cardinality(Unmet(es, f, t)) <= Cardinality(Unmet(es, f, s)) - 1
              /\ Len(t.stack) <= Len(s.stack) + 1
    PROVE  ToGo(es, f, t) <= ToGo(es, f, s) - 1
<1>1. /\ Cardinality(Unseen(es, f, s)) \in Nat /\ Cardinality(Unmet(es, f, s)) \in Nat
      /\ Len(s.stack) \in Nat
  BY ToGoIs
<1>2. /\ Cardinality(Unseen(es, f, t)) \in Nat /\ Cardinality(Unmet(es, f, t)) \in Nat
      /\ Len(t.stack) \in Nat
  BY ToGoIs
<1> DEFINE u == Cardinality(Unseen(es, f, s))
           m == Cardinality(Unmet(es, f, s))
           n == Len(s.stack)
           v == Cardinality(Unseen(es, f, t))
           k == Cardinality(Unmet(es, f, t))
           p == Len(t.stack)
<1>3. u \in Nat /\ m \in Nat /\ n \in Nat /\ v \in Nat /\ k \in Nat /\ p \in Nat
  BY <1>1, <1>2
<1>4. ToGo(es, f, s) = u + 2 * m + n /\ ToGo(es, f, t) = v + 2 * k + p
  BY DEF ToGo
<1>5. /\ v <= u /\ k <= m
      /\ \/ p <= n - 1
         \/ v <= u - 1 /\ p <= n
         \/ k <= m - 1 /\ p <= n + 1
  OBVIOUS
<1> HIDE DEF u, m, n, v, k, p
<1>6. v + 2 * k + p <= u + 2 * m + n - 1
  BY <1>3, <1>5
<1> QED
  BY <1>3, <1>4, <1>6

\* A node started is a node met.
LEMMA StartedNearer ==
    ASSUME NEW es, NEW f, Edged(es, f), NEW s, OnPath(es, f, s), NEW t, OnPath(es, f, t),
           Started(es, s, t)
    PROVE  ToGo(es, f, t) <= ToGo(es, f, s) - 1
<1>1. PICK x \in EntryIDs(es) \ (s.gray \cup s.black) : t.stack = <<x>> /\ t.next = <<1>> /\ t.gray = {x}
  BY DEF Started
<1>2. t.black = s.black /\ s.stack = <<>> /\ s.gray = {}
  <2>1. s.stack = <<>> /\ t.black = s.black
    BY DEF Started
  <2>2. \A j \in 1 .. Len(s.stack) : FALSE
    BY <2>1
  <2> QED
    BY <2>1, <2>2, StackParts
<1>3. Len(s.stack) = 0 /\ Len(t.stack) = 1
  BY <1>1, <1>2
<1>4. x \in Met(es, f)
  BY MetIs DEF EntryIDs
<1>5. Unseen(es, f, t) \subseteq Unseen(es, f, s)
  <2>1. \A j \in 1 .. Len(s.stack) : FALSE
    BY <1>3
  <2> QED
    BY <1>2, <2>1 DEF Unseen
<1>6. Unmet(es, f, t) \subseteq Unmet(es, f, s) /\ x \in Unmet(es, f, s) /\ x \notin Unmet(es, f, t)
  BY <1>1, <1>2, <1>4 DEF Unmet
<1>7. Cardinality(Unseen(es, f, t)) <= Cardinality(Unseen(es, f, s))
  BY <1>5, ToGoIs, FewerElements
<1>8. Cardinality(Unmet(es, f, t)) <= Cardinality(Unmet(es, f, s)) - 1
  BY <1>6, ToGoIs, FewerElements
<1> QED
  <2>1. Cardinality(Unmet(es, f, t)) <= Cardinality(Unmet(es, f, s))
    BY <1>8, ToGoIs
  <2>2. Len(t.stack) <= Len(s.stack) + 1
    BY <1>3
  <2> QED
    BY <1>7, <1>8, <2>1, <2>2, Nearer

\* A node left makes the stack shorter.
LEMMA LeftNearer ==
    ASSUME NEW es, NEW f, Edged(es, f), NEW s, OnPath(es, f, s), NEW t, OnPath(es, f, t),
           NEW n \in Nat \ {0}, n = Len(s.stack), Left(es, f, s, t, n)
    PROVE  ToGo(es, f, t) <= ToGo(es, f, s) - 1
<1> DEFINE x == s.stack[n]
<1>1. /\ t.stack = SubSeq(s.stack, 1, n - 1) /\ t.next = SubSeq(s.next, 1, n - 1)
      /\ t.gray = s.gray \ {x} /\ t.black = s.black \cup {x}
  BY DEF Left
<1>2. /\ s.stack \in Seq(IDs) /\ s.next \in Seq(Nat \ {0}) /\ Len(s.next) = n /\ x \in s.gray
  BY StackParts
<1>3. /\ Len(t.stack) = n - 1
      /\ \A j \in 1 .. n - 1 : t.stack[j] = s.stack[j] /\ t.next[j] = s.next[j]
  BY <1>1, <1>2, FrontIs
<1>4. ASSUME NEW w \in Unseen(es, f, t) PROVE w \in Unseen(es, f, s)
  <2>1. /\ w \in Ways(es, f) /\ w[1] \notin t.black
        /\ \A j \in 1 .. n - 1 : t.stack[j] = w[1] => w[2] >= t.next[j]
    BY <1>3 DEF Unseen
  <2>2. w[1] # x /\ w[1] \notin s.black
    BY <1>1, <2>1
  <2>3. \A j \in 1 .. n : j = n \/ j \in 1 .. n - 1
    OBVIOUS
  <2>4. \A j \in 1 .. n : s.stack[j] = w[1] => w[2] >= s.next[j]
    BY <1>3, <2>1, <2>2, <2>3
  <2> QED
    BY <2>1, <2>2, <2>4 DEF Unseen
<1>5. Cardinality(Unseen(es, f, t)) <= Cardinality(Unseen(es, f, s))
  BY <1>4, ToGoIs, FewerElements
<1>6. Unmet(es, f, t) = Unmet(es, f, s)
  BY <1>1, <1>2 DEF Unmet
<1> QED
  <2>1. Cardinality(Unmet(es, f, t)) <= Cardinality(Unmet(es, f, s))
    BY <1>6, ToGoIs
  <2>2. Len(t.stack) <= Len(s.stack) - 1
    BY <1>3
  <2> QED
    BY <1>5, <2>1, <2>2, Nearer

\* A reference looked at is looked at once.
LEMMA FollowedOnce ==
    ASSUME NEW es, NEW f, Edged(es, f), NEW s, OnPath(es, f, s), NEW t, OnPath(es, f, t),
           NEW n \in Nat \ {0}, n = Len(s.stack), Follows(es, f, s, n),
           t.black = s.black, Len(t.stack) >= n, t.next[n] = s.next[n] + 1,
           \A j \in 1 .. n : t.stack[j] = s.stack[j],
           \A j \in 1 .. n - 1 : t.next[j] = s.next[j]
    PROVE  Cardinality(Unseen(es, f, t)) <= Cardinality(Unseen(es, f, s)) - 1
<1> DEFINE x == s.stack[n]
           k == s.next[n]
           way == <<x, k>>
<1>1. /\ k \in Nat \ {0} /\ x \in s.gray /\ x \notin s.black /\ x \in Met(es, f) /\ n \in 1 .. n
      /\ \A j \in 1 .. n : s.next[j] \in Nat
  <2>1. /\ \A j \in 1 .. n : s.next[j] \in Nat \ {0} /\ s.stack[j] \in s.gray
        /\ s.gray \cap s.black = {} /\ s.gray \cup s.black \subseteq Met(es, f)
    BY StackParts
  <2>2. n \in 1 .. n
    OBVIOUS
  <2>3. k \in Nat \ {0} /\ x \in s.gray
    BY <2>1, <2>2
  <2> HIDE DEF k, x
  <2> QED
    BY <2>1, <2>2, <2>3
<1>2. \A i, j \in 1 .. n : s.stack[i] = s.stack[j] => i = j
  BY DEF OnPath
<1>3. Len(t.stack) \in Nat /\ \A j \in 1 .. n : j \in 1 .. Len(t.stack)
  <2>1. Len(t.stack) \in Nat
    BY StackParts
  <2> QED
    BY <2>1
<1>4. way \in Unseen(es, f, s)
  <2>1. k \in 1 .. Len(Adjacent(es, x, f))
    <3> DEFINE m == Len(Adjacent(es, x, f))
    <3>1. m \in Nat /\ k <= m
      BY AdjacentIs DEF Follows
    <3> HIDE DEF m, k, x
    <3> QED
      BY <1>1, <3>1 DEF m
  <2> HIDE DEF k, x
  <2>2. way \in Ways(es, f)
    BY <1>1, <2>1, WayIs
  <2>3. way[1] = x /\ way[2] = k
    OBVIOUS
  <2> HIDE DEF way
  <2>4. \A j \in 1 .. n : s.stack[j] = x => k >= s.next[j]
    <3>1. \A j \in 1 .. n : s.stack[j] = x => j = n
      BY <1>1, <1>2 DEF x
    <3>2. k >= s.next[n]
      BY <1>1 DEF k
    <3> QED
      BY <3>1, <3>2
  <2> QED
    BY <1>1, <2>2, <2>3, <2>4 DEF Unseen
<1>5. way \notin Unseen(es, f, t)
  <2>1. way[1] = x /\ way[2] = k
    OBVIOUS
  <2>2. ~(k >= t.next[n]) /\ t.stack[n] = x
    <3>1. k \in Nat /\ t.next[n] = k + 1 /\ t.stack[n] = x
      BY <1>1
    <3> HIDE DEF k, x
    <3> QED
      BY <3>1
  <2>3. n \in 1 .. Len(t.stack)
    BY <1>1, <1>3
  <2> HIDE DEF k, x, way
  <2> QED
    BY <2>1, <2>2, <2>3 DEF Unseen
<1>6. ASSUME NEW w \in Unseen(es, f, t) PROVE w \in Unseen(es, f, s)
  <2>1. /\ w \in Ways(es, f) /\ w[1] \notin s.black
        /\ \A j \in 1 .. n : s.stack[j] = w[1] => w[2] >= t.next[j]
    BY <1>3 DEF Unseen
  <2>2. w[2] \in Int
    <3>1. w[2] \in 1 .. Len(Adjacent(es, w[1], f))
      BY <2>1, WayParts
    <3> QED
      BY <3>1
  <2>3. ASSUME NEW j \in 1 .. n, s.stack[j] = w[1] PROVE w[2] >= s.next[j]
    <3>1. w[2] >= t.next[j]
      BY <2>1, <2>3
    <3>2. j = n \/ j \in 1 .. n - 1
      OBVIOUS
    <3>3. CASE j = n
      <4>1. w[2] >= k + 1
        BY <3>1, <3>3
      <4> HIDE DEF k
      <4>2. w[2] >= k
        BY <1>1, <2>2, <4>1
      <4> QED
        BY <3>3, <4>2 DEF k
    <3>4. CASE j \in 1 .. n - 1
      BY <3>1, <3>4
    <3> QED
      BY <3>2, <3>3, <3>4
  <2> QED
    BY <2>1, <2>3 DEF Unseen
<1> HIDE DEF way
<1>7. Unseen(es, f, t) \subseteq Unseen(es, f, s)
  BY <1>6
<1>8. IsFiniteSet(Unseen(es, f, s))
  BY ToGoIs
<1> QED
  BY <1>4, <1>5, <1>7, <1>8, FewerElements

\* A reference that leads to no new node.
LEMMA FollowedNearer ==
    ASSUME NEW es, NEW f, Edged(es, f), NEW s, OnPath(es, f, s), NEW t, OnPath(es, f, t),
           NEW n \in Nat \ {0}, n = Len(s.stack),
           Passed(es, f, s, t, n) \/ Closed(es, f, s, t, n)
    PROVE  ToGo(es, f, t) <= ToGo(es, f, s) - 1
<1>1. /\ Follows(es, f, s, n) /\ t.stack = s.stack /\ t.next = [s.next EXCEPT ![n] = s.next[n] + 1]
      /\ t.gray = s.gray /\ t.black = s.black
  BY DEF Passed, Closed
<1>2. /\ t.next[n] = s.next[n] + 1 /\ \A j \in 1 .. n - 1 : t.next[j] = s.next[j]
  BY <1>1, MovedIs
<1>3. Cardinality(Unseen(es, f, t)) <= Cardinality(Unseen(es, f, s)) - 1
  <2>1. Len(t.stack) >= n /\ \A j \in 1 .. n : t.stack[j] = s.stack[j]
    BY <1>1
  <2> QED
    BY <1>1, <1>2, <2>1, FollowedOnce
<1>4. Unmet(es, f, t) = Unmet(es, f, s)
  BY <1>1 DEF Unmet
<1> QED
  <2>1. Cardinality(Unmet(es, f, t)) <= Cardinality(Unmet(es, f, s))
    BY <1>4, ToGoIs
  <2>2. Len(t.stack) <= Len(s.stack)
    BY <1>1
  <2>3. Cardinality(Unseen(es, f, t)) <= Cardinality(Unseen(es, f, s))
    BY <1>3, ToGoIs
  <2> QED
    BY <1>3, <2>1, <2>2, <2>3, Nearer

\* A node entered is a reference and a node the less.
LEMMA EnteredNearer ==
    ASSUME NEW es, NEW f, Edged(es, f), NEW s, OnPath(es, f, s), NEW t, OnPath(es, f, t),
           NEW n \in Nat \ {0}, n = Len(s.stack), Entered(es, f, s, t, n)
    PROVE  ToGo(es, f, t) <= ToGo(es, f, s) - 1
<1> DEFINE y == Ahead(es, f, s, n)
           moved == [s.next EXCEPT ![n] = s.next[n] + 1]
<1>1. /\ Follows(es, f, s, n) /\ y \notin s.gray /\ y \notin s.black
      /\ t.stack = Append(s.stack, y) /\ t.next = Append(moved, 1)
      /\ t.gray = s.gray \cup {y} /\ t.black = s.black
  BY DEF Entered
<1>2. /\ moved \in Seq(Nat \ {0}) /\ Len(moved) = n /\ moved[n] = s.next[n] + 1
      /\ \A j \in 1 .. n - 1 : moved[j] = s.next[j]
  BY MovedIs
<1>3. y \in Met(es, f) /\ y \in IDs
  <2> DEFINE m == Len(Adjacent(es, s.stack[n], f))
             a == s.next[n]
  <2>1. m \in Nat /\ a \in Nat \ {0} /\ a <= m
    BY <1>1, AdjacentIs, StackParts DEF Follows
  <2>2. a \in 1 .. m
    <3> HIDE DEF a, m
    <3> QED
      BY <2>1
  <2> QED
    BY <2>2, MetIs DEF Ahead
<1> HIDE DEF y, moved
<1>4. s.stack \in Seq(IDs) /\ n \in 1 .. n
  BY StackParts
<1>5. /\ Len(t.stack) = Len(s.stack) + 1 /\ \A j \in 1 .. Len(s.stack) : t.stack[j] = s.stack[j]
  BY <1>1, <1>3, <1>4, AppendProperties
<1>6. \A j \in 1 .. Len(moved) : t.next[j] = moved[j]
  BY <1>1, <1>2, AppendProperties
<1>7. t.next[n] = s.next[n] + 1 /\ \A j \in 1 .. n - 1 : t.next[j] = s.next[j]
  <2>1. \A j \in 1 .. n - 1 : j \in 1 .. n
    OBVIOUS
  <2> QED
    BY <1>2, <1>4, <1>6, <2>1
<1>8. Cardinality(Unseen(es, f, t)) <= Cardinality(Unseen(es, f, s)) - 1
  <2>1. Len(t.stack) >= n
    BY <1>5
  <2> QED
    BY <1>1, <1>5, <1>7, <2>1, FollowedOnce
<1>9. Unmet(es, f, t) \subseteq Unmet(es, f, s) /\ y \in Unmet(es, f, s) /\ y \notin Unmet(es, f, t)
  BY <1>1, <1>3 DEF Unmet
<1>10. Cardinality(Unmet(es, f, t)) <= Cardinality(Unmet(es, f, s)) - 1
  BY <1>9, ToGoIs, FewerElements
<1> QED
  <2>1. Cardinality(Unseen(es, f, t)) <= Cardinality(Unseen(es, f, s))
    BY <1>8, ToGoIs
  <2>2. Cardinality(Unmet(es, f, t)) <= Cardinality(Unmet(es, f, s))
    BY <1>10, ToGoIs
  <2>3. Len(t.stack) <= Len(s.stack) + 1
    BY <1>5
  <2> QED
    BY <1>10, <2>1, <2>2, <2>3, Nearer

\* A step keeps what the walk knows, and it is one step less to go.
LEMMA WalkStepFine ==
    ASSUME NEW es, NEW f, Edged(es, f), NEW s, WalkFine(es, f, s)
    PROVE  LET t == WalkStep(es, f, s) IN
           /\ WalkFine(es, f, t)
           /\ \/ WalkDone(es, s) /\ t = s
              \/ ToGo(es, f, t) <= ToGo(es, f, s) - 1
<1> DEFINE t == WalkStep(es, f, s)
<1>1. OnPath(es, f, s) /\ Stacked(s)
  BY DEF WalkFine, OnPath
<1>2. CASE s.stack = <<>>
  <2>1. (WalkDone(es, s) /\ t = s) \/ (t \in States /\ Started(es, s, t))
    BY <1>1, <1>2, StartStep
  <2> HIDE DEF t
  <2>2. CASE WalkDone(es, s) /\ t = s
    BY <2>2 DEF t
  <2>3. CASE t \in States /\ Started(es, s, t)
    <3>1. WalkFine(es, f, t)
      BY <2>3, StartedFine
    <3>2. OnPath(es, f, t)
      BY <3>1 DEF WalkFine
    <3> QED
      BY <1>1, <2>3, <3>1, <3>2, StartedNearer DEF t
  <2> QED
    BY <2>1, <2>2, <2>3
<1>3. CASE s.stack # <<>>
  <2> DEFINE n == Len(s.stack)
  <2>1. /\ t \in States /\ n \in Nat \ {0}
        /\ \/ Left(es, f, s, t, n) \/ Passed(es, f, s, t, n)
           \/ Closed(es, f, s, t, n) \/ Entered(es, f, s, t, n)
    BY <1>1, <1>3, FollowStep
  <2>2. n = Len(s.stack)
    OBVIOUS
  <2> HIDE DEF t, n
  <2>3. WalkFine(es, f, t)
    BY <2>1, <2>2, LeftFine, PassedFine, ClosedFine, EnteredFine
  <2>4. OnPath(es, f, t)
    BY <2>3 DEF WalkFine
  <2>5. ToGo(es, f, t) <= ToGo(es, f, s) - 1
    BY <1>1, <2>1, <2>2, <2>4, LeftNearer, FollowedNearer, EnteredNearer
  <2> QED
    BY <2>3, <2>5 DEF t
<1> QED
  BY <1>2, <1>3

-----------------------------------------------------------------------------
(* The whole walk.                                                          *)

\* At the start there are as many steps to go as the walk has.
LEMMA StartFine ==
    ASSUME NEW es, NEW f, Edged(es, f)
    PROVE  /\ WalkStart \in States /\ WalkFine(es, f, WalkStart)
           /\ WalkSteps(es, f) \in Nat /\ ToGo(es, f, WalkStart) <= WalkSteps(es, f)
<1> DEFINE s == WalkStart
<1>1. /\ s.stack = <<>> /\ s.next = <<>> /\ s.gray = {} /\ s.black = {} /\ s.found = {}
      /\ s \in States
  <2>1. <<>> \in Seq(IDs) /\ <<>> \in Seq(Nat \ {0})
    OBVIOUS
  <2> QED
    BY <2>1 DEF WalkStart, States
<1> HIDE DEF s
<1>2. Len(s.stack) = 0 /\ Len(s.next) = 0 /\ \A j \in 1 .. Len(s.stack) : FALSE
  BY <1>1
<1>3. OnPath(es, f, s)
  <2>1. Stacked(s)
    BY <1>1, <1>2 DEF Stacked
  <2>2. \A j \in 1 .. Len(s.stack) - 1 : FALSE
    BY <1>2
  <2> QED
    BY <1>1, <1>2, <2>1, <2>2 DEF OnPath
<1>4. NoKnotYet(es, f, s)
  <2>1. \A S : S \subseteq s.black => ~Knot(es, f, S)
    BY <1>1 DEF Knot
  <2> QED
    BY <1>1, <1>2, <2>1 DEF NoKnotYet
<1>5. WalkFine(es, f, s)
  BY <1>1, <1>3, <1>4 DEF WalkFine
<1> DEFINE u == Cardinality(Unseen(es, f, s))
           m == Cardinality(Unmet(es, f, s))
           n == Len(es)
           e == EdgeCount(es, f)
           a == Cardinality(Ways(es, f))
           b == Cardinality(Met(es, f))
<1>6. n \in Nat /\ e \in Nat
  BY EdgedIs, EdgesCounted
<1>7. u \in Nat /\ m \in Nat
  BY <1>3, ToGoIs
<1>8. a <= e /\ b <= n + e /\ a \in Nat /\ b \in Nat
  BY WalkIsBounded, FS_CardinalityType
<1>9. u <= a /\ m <= b
  <2>1. Unseen(es, f, s) \subseteq Ways(es, f) /\ Unmet(es, f, s) \subseteq Met(es, f)
    BY DEF Unseen, Unmet
  <2> QED
    BY <2>1, WalkIsBounded, FewerElements
<1>10. ToGo(es, f, s) = u + 2 * m + 0 /\ WalkSteps(es, f) = 2 * n + 3 * e
  BY <1>2 DEF ToGo, WalkSteps
<1> HIDE DEF u, m, n, e, a, b
<1>11. u + 2 * m + 0 <= 2 * n + 3 * e /\ 2 * n + 3 * e \in Nat
  BY <1>6, <1>7, <1>8, <1>9
<1> QED
  BY <1>1, <1>5, <1>10, <1>11 DEF s

\* The function Cycles walks by.
Walks(es, f, w) ==
    w = [n \in 0 .. WalkSteps(es, f) |-> IF n = 0 THEN WalkStart ELSE WalkStep(es, f, w[n - 1])]

\* The states of a walk.
FineStates(es, f) == {s \in States : WalkFine(es, f, s)}

\* There is such a function, of states that know what a walk knows.
LEMMA WalkExists ==
    ASSUME NEW es, NEW f, Edged(es, f)
    PROVE  \E w : Walks(es, f, w)
<1> DEFINE V == FineStates(es, f)
           m == WalkSteps(es, f)
           G == [p \in (1 .. m) \X V |-> WalkStep(es, f, p[2])]
<1>1. m \in Nat /\ WalkStart \in V
  BY StartFine DEF FineStates
<1>2. ASSUME NEW s \in V PROVE WalkStep(es, f, s) \in V
  <2>1. WalkFine(es, f, s)
    BY DEF FineStates
  <2>2. WalkFine(es, f, WalkStep(es, f, s))
    BY <2>1, WalkStepFine
  <2> QED
    BY <2>2 DEF FineStates, WalkFine, OnPath, Stacked
<1> HIDE DEF V, m
<1>3. G \in [(1 .. m) \X V -> V] /\ \A n \in 1 .. m, s \in V : G[<<n, s>>] = WalkStep(es, f, s)
  BY <1>2
<1> HIDE DEF G
<1>4. PICK w : Values(m, V, WalkStart, G, w)
  BY <1>1, <1>3, ValuesExist
<1>5. w \in [0 .. m -> V] /\ w[0] = WalkStart /\ \A n \in 1 .. m : w[n] = G[<<n, w[n - 1]>>]
  BY <1>4 DEF Values
<1>6. ASSUME NEW n \in 0 .. m
      PROVE  w[n] = IF n = 0 THEN WalkStart ELSE WalkStep(es, f, w[n - 1])
  <2>1. CASE n = 0
    BY <1>5, <2>1
  <2>2. CASE n # 0
    <3>1. n \in 1 .. m /\ n - 1 \in 0 .. m
      BY <1>1, <2>2
    <3>2. w[n - 1] \in V
      BY <1>5, <3>1
    <3> QED
      BY <1>3, <1>5, <2>2, <3>1, <3>2
  <2> QED
    BY <2>1, <2>2
<1>7. w = [n \in 0 .. m |-> w[n]]
  BY <1>5
<1> QED
  BY <1>6, <1>7 DEF Walks, m

\* At its last step the walk has ended, whatever it has met.
LEMMA WalkEnds ==
    ASSUME NEW es, NEW f, Edged(es, f)
    PROVE  \E s : WalkFine(es, f, s) /\ WalkDone(es, s) /\ Cycles(es, f) = s.found
<1> DEFINE m == WalkSteps(es, f)
           w == CHOOSE v : Walks(es, f, v)
<1>1. Walks(es, f, w)
  BY WalkExists
<1>2. Cycles(es, f) = w[m].found
  BY DEF Cycles, Walks
<1>3. m \in Nat /\ WalkFine(es, f, WalkStart) /\ ToGo(es, f, WalkStart) <= m
  BY StartFine
<1> HIDE DEF w, m
<1>4. \A n \in 0 .. m : w[n] = IF n = 0 THEN WalkStart ELSE WalkStep(es, f, w[n - 1])
  BY <1>1 DEF Walks, m
<1> DEFINE Near(n) == /\ WalkFine(es, f, w[n]) /\ ToGo(es, f, w[n]) \in Nat
                      /\ WalkDone(es, w[n]) \/ ToGo(es, f, w[n]) <= m - n
           D == {n \in 0 .. m : Near(n)}
<1>5. \A s : WalkFine(es, f, s) => ToGo(es, f, s) \in Nat
  BY ToGoIs DEF WalkFine
<1>6. 0 \in D
  <2>1. 0 \in 0 .. m /\ w[0] = WalkStart
    BY <1>3, <1>4
  <2>2. ToGo(es, f, WalkStart) <= m - 0
    BY <1>3
  <2> QED
    BY <1>3, <1>5, <2>1, <2>2
<1>7. ASSUME NEW n \in 1 .. m, n - 1 \in D
      PROVE  n \in D
  <2> DEFINE s == w[n - 1]
             t == w[n]
  <2>1. WalkFine(es, f, s) /\ ToGo(es, f, s) \in Nat /\ (WalkDone(es, s) \/ ToGo(es, f, s) <= m - (n - 1))
    BY <1>7
  <2>2. t = WalkStep(es, f, s) /\ n \in 0 .. m
    <3>1. n \in 0 .. m /\ n # 0
      BY <1>3
    <3> QED
      BY <1>4, <3>1
  <2> HIDE DEF s, t
  <2>3. /\ WalkFine(es, f, t)
        /\ (WalkDone(es, s) /\ t = s) \/ ToGo(es, f, t) <= ToGo(es, f, s) - 1
    BY <2>1, <2>2, WalkStepFine
  <2>4. ToGo(es, f, t) \in Nat
    BY <1>5, <2>3
  <2>5. WalkDone(es, t) \/ ToGo(es, f, t) <= m - n
    <3>1. CASE WalkDone(es, s) /\ t = s
      BY <3>1
    <3>2. CASE ToGo(es, f, t) <= ToGo(es, f, s) - 1 /\ ToGo(es, f, s) <= m - (n - 1)
      BY <1>3, <2>1, <2>4, <3>2
    <3>3. CASE ToGo(es, f, t) <= ToGo(es, f, s) - 1 /\ WalkDone(es, s)
      <4>1. s.stack = <<>> /\ OnPath(es, f, s)
        BY <2>1, <3>3 DEF WalkDone, WalkFine
      <4>2. (WalkDone(es, s) /\ t = s) \/ Started(es, s, t)
        BY <2>2, <4>1, StartStep DEF OnPath
      <4>3. ~Started(es, s, t)
        BY <3>3 DEF Started, WalkDone
      <4> QED
        BY <4>2, <4>3
    <3> QED
      BY <2>1, <2>3, <3>1, <3>2, <3>3
  <2> QED
    BY <2>2, <2>3, <2>4, <2>5 DEF t
<1>8. m \in D
  <2> HIDE DEF D
  <2>1. \A n \in 0 .. m : n \in D
    BY <1>3, <1>6, <1>7, CountUp
  <2> QED
    BY <1>3, <2>1
<1> DEFINE s == w[m]
<1>9. WalkFine(es, f, s) /\ ToGo(es, f, s) \in Nat /\ (WalkDone(es, s) \/ ToGo(es, f, s) <= m - m)
  BY <1>8
<1> HIDE DEF s
<1>10. WalkDone(es, s)
  <2> SUFFICES ASSUME ~WalkDone(es, s) PROVE FALSE
    OBVIOUS
  <2>1. /\ WalkFine(es, f, WalkStep(es, f, s))
        /\ ToGo(es, f, WalkStep(es, f, s)) <= ToGo(es, f, s) - 1
    BY <1>9, WalkStepFine
  <2>2. ToGo(es, f, WalkStep(es, f, s)) \in Nat
    BY <1>5, <2>1
  <2> QED
    BY <1>3, <1>9, <2>1, <2>2
<1> QED
  BY <1>2, <1>9, <1>10 DEF s

\* A cycle is found exactly when there are nodes that depend on one another.
LEMMA CyclesAreKnots ==
    ASSUME NEW es, NEW f, Edged(es, f)
    PROVE  Cycles(es, f) # {} <=> \E S : Knot(es, f, S)
<1>1. PICK s : WalkFine(es, f, s) /\ WalkDone(es, s) /\ Cycles(es, f) = s.found
  BY WalkEnds
<1>2. s.found # {} => \E S : Knot(es, f, S)
  BY <1>1 DEF WalkFine
<1>3. ASSUME s.found = {}, NEW S, Knot(es, f, S)
      PROVE  FALSE
  <2>1. NoKnotYet(es, f, s) /\ OnPath(es, f, s)
    BY <1>1, <1>3 DEF WalkFine
  <2>2. s.gray = {}
    <3>1. s.stack = <<>>
      BY <1>1 DEF WalkDone
    <3>2. \A j \in 1 .. Len(s.stack) : FALSE
      BY <3>1
    <3> QED
      BY <2>1, <3>2, StackParts
  <2>3. EntryIDs(es) \subseteq s.black
    BY <1>1, <2>2 DEF WalkDone
  <2>4. ASSUME NEW x \in S PROVE x \in s.black
    <3>1. PICK k \in 1 .. Len(Adjacent(es, x, f)) : TRUE
      BY <1>3 DEF Knot, Leads
    <3>2. Adjacent(es, x, f) # <<>>
      BY <3>1
    <3>3. PICK i \in DOMAIN es : es[i].id = x
      BY <3>2, AdjacentIs
    <3> QED
      BY <2>3, <3>3 DEF EntryIDs
  <2> QED
    BY <1>3, <2>1, <2>4 DEF NoKnotYet
<1> QED
  BY <1>1, <1>2, <1>3

\* With ids of their own, the walk of detectStringCycles reports a cycle exactly
\* when there are nodes each of which depends on another of them, for lists of any
\* length (validator/dag_checker.go).
THEOREM CycleIsDependence ==
    ASSUME NEW es, NEW f, Edged(es, f), \A i, k \in DOMAIN es : es[i].id = es[k].id => i = k,
           NEW edges,
           edges = UNION {{<<e.id, x>> : x \in Range(e.refs[f])} : e \in Range(es)}
    PROVE  Cycles(es, f) # {} <=> DependsOnItself(edges)
<1>1. ASSUME NEW x, NEW y PROVE Leads(es, f, x, y) <=> <<x, y>> \in edges
  <2>1. ASSUME Leads(es, f, x, y) PROVE <<x, y>> \in edges
    <3>1. PICK k \in 1 .. Len(Adjacent(es, x, f)) : Adjacent(es, x, f)[k] = y
      BY <2>1 DEF Leads
    <3>2. Adjacent(es, x, f) # <<>>
      BY <3>1
    <3>3. PICK i \in DOMAIN es : es[i].id = x /\ Adjacent(es, x, f) = es[i].refs[f]
      BY <3>2, AdjacentIs
    <3>4. DOMAIN (es[i].refs[f]) = 1 .. Len(es[i].refs[f])
      BY <3>3, AdjacentIs
    <3>5. y \in Range(es[i].refs[f]) /\ es[i] \in Range(es)
      BY <3>1, <3>3, <3>4 DEF Range
    <3> QED
      BY <3>3, <3>5
  <2>2. ASSUME <<x, y>> \in edges PROVE Leads(es, f, x, y)
    <3>1. PICK i \in DOMAIN es : <<x, y>> \in {<<es[i].id, z>> : z \in Range(es[i].refs[f])}
      BY <2>2 DEF Range
    <3>2. x = es[i].id /\ y \in Range(es[i].refs[f])
      BY <3>1
    <3>3. Adjacent(es, x, f) = es[i].refs[f]
      BY <3>2, AdjacentIs
    <3>4. DOMAIN (es[i].refs[f]) = 1 .. Len(es[i].refs[f])
      BY <3>3, AdjacentIs
    <3> QED
      BY <3>2, <3>3, <3>4 DEF Range, Leads
  <2> QED
    BY <2>1, <2>2
<1>2. ASSUME NEW S, Knot(es, f, S) PROVE DependsOnItself(edges)
  <2>1. S # {} /\ \A x \in S : \E y \in S : <<x, y>> \in edges
    BY <1>1, <1>2 DEF Knot
  <2>2. S \subseteq {e[1] : e \in edges}
    <3>1. ASSUME NEW x \in S PROVE \E e \in edges : x = e[1]
      <4>1. PICK y \in S : <<x, y>> \in edges
        BY <2>1
      <4>2. <<x, y>>[1] = x
        OBVIOUS
      <4> QED
        BY <4>1, <4>2
    <3> QED
      BY <3>1
  <2> QED
    BY <2>1, <2>2 DEF DependsOnItself
<1>3. DependsOnItself(edges) => \E S : Knot(es, f, S)
  BY <1>1 DEF DependsOnItself, Knot
<1> QED
  BY <1>2, <1>3, CyclesAreKnots

-----------------------------------------------------------------------------
(* What each check finds nothing wrong with.                                *)

\* The parts of an entry.
LEMMA EntryAt ==
    ASSUME NEW fs, Sound(fs), NEW pl \in Places(fs)
    PROVE  /\ At(fs, pl).id \in IDs /\ At(fs, pl).name \in Names \cup Dirs
           /\ \A f \in Refs[pl[2]] : f \in Fields /\ At(fs, pl).refs[f] \in Seq(IDs)
<1>1. At(fs, pl) \in NodeEntry /\ pl[2] \in Types
  BY PlaceParts
<1>2. \A e \in NodeEntry : /\ e.id \in IDs /\ e.name \in Names \cup Dirs
                           /\ e.refs \in [Fields -> Seq(IDs)]
  BY DEF NodeEntry
<1> QED
  BY <1>1, <1>2, FieldOfType

\* Required fields are given, and values are what they may be.
RequiredGiven(fs) == \A p \in Places(fs) : \A f \in Refs[p[2]] \cap ToOne : At(fs, p).refs[f] # <<>>
ValuesGood(fs) == \A p \in Places(fs) : ~BadValue(p[2], At(fs, p).val)

\* CheckSchemaFS.
LEMMA SchemaIsFine ==
    ASSUME NEW fs
    PROVE  CheckSchema(fs) = {} <=> RequiredGiven(fs) /\ ValuesGood(fs)
<1> DEFINE absent(pl) == {<<"schema", pl, f>> :
                             f \in {g \in Refs[pl[2]] \cap ToOne : At(fs, pl).refs[g] = <<>>}}
           bad == {<<"schema", pl, At(fs, pl).val>> :
                      pl \in {p \in Places(fs) : BadValue(p[2], At(fs, p).val)}}
<1>1. CheckSchema(fs) = {} <=> (\A pl \in Places(fs) : absent(pl) = {}) /\ bad = {}
  <2> HIDE DEF bad
  <2>1. CheckSchema(fs) = (UNION {absent(pl) : pl \in Places(fs)}) \cup bad
    BY DEF CheckSchema, bad
  <2> HIDE DEF absent
  <2> QED
    BY <2>1
<1>2. \A pl \in Places(fs) : absent(pl) = {} <=> \A f \in Refs[pl[2]] \cap ToOne : At(fs, pl).refs[f] # <<>>
  OBVIOUS
<1>3. bad = {} <=> ValuesGood(fs)
  BY DEF ValuesGood
<1> QED
  BY <1>1, <1>2, <1>3 DEF RequiredGiven

\* What the schema admits has nothing missing.
LEMMA MissingIsFine ==
    ASSUME NEW fs, RequiredGiven(fs), ValuesGood(fs)
    PROVE  Missing(fs) = {}
<1> DEFINE absent(pl) == {<<"missing", pl[1], pl[2], At(fs, pl).id, f>> :
                             f \in {g \in Refs[pl[2]] \cap ToOne : At(fs, pl).refs[g] = <<>>}}
           bad == {<<"priority", At(fs, pl).id, At(fs, pl).val>> :
                      pl \in {p \in Places(fs) : p[2] \in ProjectTypes \cap ValTypes
                                                /\ BadValue(p[2], At(fs, p).val)}}
<1>1. \A pl \in Places(fs) : absent(pl) = {}
  BY DEF RequiredGiven
<1>2. bad = {}
  BY DEF ValuesGood
<1>3. Missing(fs) = (UNION {absent(pl) : pl \in Places(fs)}) \cup bad
  BY DEF Missing
<1> HIDE DEF absent, bad
<1> QED
  BY <1>1, <1>2, <1>3

\* Ids are unique in a list of entries.
OwnWithin(fs) ==
    \A d \in Docs(fs) : \A t \in TypesOf(d) : \A i, k \in DOMAIN Entries(fs, d, t) :
        Entries(fs, d, t)[i].id = Entries(fs, d, t)[k].id => i = k

\* The duplicates of CheckIDsFS.
LEMMA IDsAreOwn ==
    ASSUME NEW fs
    PROVE  Duplicates(fs) = {} <=> OwnWithin(fs)
<1>1. Duplicates(fs) = {} => OwnWithin(fs)
  BY DuplicateIs DEF OwnWithin
<1>2. ASSUME OwnWithin(fs), NEW x \in Duplicates(fs) PROVE FALSE
  <2> DEFINE twice(d, t) ==
               {<<"duplicate", d, t, Entries(fs, d, t)[i].id>> :
                  i \in {k \in DOMAIN Entries(fs, d, t) :
                           \E m \in DOMAIN Entries(fs, d, t) :
                             m # k /\ Entries(fs, d, t)[m].id = Entries(fs, d, t)[k].id}}
  <2>1. Duplicates(fs) = UNION {UNION {twice(d, t) : t \in TypesOf(d)} : d \in Docs(fs)}
    BY DEF Duplicates
  <2>2. PICK d \in Docs(fs) : \E t \in TypesOf(d) : x \in twice(d, t)
    <3> HIDE DEF twice
    <3> QED
      BY <1>2, <2>1
  <2> PICK t \in TypesOf(d) : x \in twice(d, t)
    BY <2>2
  <2>3. \E k, m \in DOMAIN Entries(fs, d, t) :
           m # k /\ Entries(fs, d, t)[m].id = Entries(fs, d, t)[k].id
    BY <2>2
  <2> QED
    BY <1>2, <2>3 DEF OwnWithin
<1> QED
  BY <1>1, <1>2

\* Names that must be unique are, and names tokenize to themselves.
NamesAlone(fs) ==
    \A p, q \in Places(fs) :
        p[2] \in GlobalNames /\ q[2] = p[2] /\ p # q => At(fs, p).name # At(fs, q).name
NamesInOrder(fs) == \A p \in Places(fs) : p[2] \in NameDeclarable => At(fs, p).name \in Declarable

\* The names of CheckIDsFS.
LEMMA NamesAreFine ==
    ASSUME NEW fs
    PROVE  /\ SharedNames(fs) = {} <=> NamesAlone(fs)
           /\ BadNames(fs) = {} <=> NamesInOrder(fs)
<1> DEFINE shared == {p \in Places(fs) : p[2] \in GlobalNames /\ \E q \in Places(fs) \ {p} :
                        q[2] = p[2] /\ At(fs, q).name = At(fs, p).name}
<1>1. SharedNames(fs) = {} <=> shared = {}
  <2> DEFINE named(d, t, n) == {i \in DOMAIN Entries(fs, d, t) : Entries(fs, d, t)[i].name = n}
             told(pl) == <<"global", pl[2], At(fs, pl).name,
                           [d \in {e \in Docs(fs) : named(e, pl[2], At(fs, pl).name) # {}} |->
                               Cardinality(named(d, pl[2], At(fs, pl).name))]>>
  <2>1. SharedNames(fs) = {told(pl) : pl \in shared}
    BY DEF SharedNames
  <2> HIDE DEF told, shared
  <2> QED
    BY <2>1
<1>2. shared = {} <=> NamesAlone(fs)
  BY DEF NamesAlone
<1>3. BadNames(fs) = {} <=> NamesInOrder(fs)
  BY DEF BadNames, NamesInOrder
<1> QED
  BY <1>1, <1>2, <1>3

\* References lead to the nodes they may.
Pointed(fs) ==
    \A p \in Places(fs) : \A f \in Refs[p[2]] : \A x \in Range(At(fs, p).refs[f]) :
        x \in TargetIDs(fs, p[1], f)

\* The references of CheckIDsFS.
LEMMA NothingDangling ==
    ASSUME NEW fs
    PROVE  Dangling(fs) = {} <=> Pointed(fs)
<1> DEFINE lost(pl, f) == {<<"dangling", pl[1], pl[2], At(fs, pl).id, f, x>> :
                             x \in Range(At(fs, pl).refs[f]) \ TargetIDs(fs, pl[1], f)}
<1>1. Dangling(fs) = UNION {UNION {lost(pl, f) : f \in Refs[pl[2]]} : pl \in Places(fs)}
  BY DEF Dangling
<1>2. \A pl, f : lost(pl, f) = {} <=> \A x \in Range(At(fs, pl).refs[f]) : x \in TargetIDs(fs, pl[1], f)
  OBVIOUS
<1> HIDE DEF lost
<1>3. Dangling(fs) = {} <=> \A pl \in Places(fs) : \A f \in Refs[pl[2]] : lost(pl, f) = {}
  BY <1>1
<1> QED
  BY <1>2, <1>3 DEF Pointed

\* The ids of nodes of these types are derived.
DerivedIn(fs, types) ==
    \A p \in Places(fs) : p[2] \in types => At(fs, p).id = ID(p[1], p[2], At(fs, p).name)

\* CheckIDDerivationFS.
LEMMA DerivationIsFine ==
    ASSUME NEW fs
    PROVE  CheckIDDerivation(fs) = {} <=> DerivedIn(fs, ModuleScoped)
BY DEF CheckIDDerivation, DerivedIn

\* No walk finds a cycle.
CycleFree(fs) ==
    \A d \in Docs(fs) : \A tf \in Acyclic :
        tf[1] \in TypesOf(d) => Cycles(Entries(fs, d, tf[1]), tf[2]) = {}

\* CheckDAGFS.
LEMMA NoCycleFound ==
    ASSUME NEW fs
    PROVE  CheckDAG(fs) = {} <=> CycleFree(fs)
<1> DEFINE met(d, tf) == {<<"cycle", d, tf[1], tf[2], c>> : c \in Cycles(Entries(fs, d, tf[1]), tf[2])}
           checked(d) == {x \in Acyclic : x[1] \in TypesOf(d)}
<1>1. CheckDAG(fs) = UNION {UNION {met(d, tf) : tf \in checked(d)} : d \in Docs(fs)}
  BY DEF CheckDAG
<1>2. \A d, tf : met(d, tf) = {} <=> Cycles(Entries(fs, d, tf[1]), tf[2]) = {}
  OBVIOUS
<1> HIDE DEF met
<1>3. CheckDAG(fs) = {} <=> \A d \in Docs(fs) : \A tf \in checked(d) : met(d, tf) = {}
  <2> HIDE DEF checked
  <2> QED
    BY <1>1
<1> QED
  BY <1>2, <1>3 DEF CycleFree

\* Links lead to nodes.
LinksLead(fs) == \A p \in WithLeaf(fs) : fs[LeafOf(fs, p)].links \subseteq NodeIDs(fs)

\* CheckLinksFS.
LEMMA LinksAreFine ==
    ASSUME NEW fs
    PROVE  CheckLinks(fs) = {} <=> MissingLeaves(fs) = {} /\ LinksLead(fs)
<1> DEFINE lost(pl) == {<<"link", LeafOf(fs, pl), x>> : x \in fs[LeafOf(fs, pl)].links \ NodeIDs(fs)}
<1>1. \A pl : lost(pl) = {} <=> fs[LeafOf(fs, pl)].links \subseteq NodeIDs(fs)
  OBVIOUS
<1>2. CASE MissingLeaves(fs) # {}
  <2>1. \E y : CheckLinks(fs) = {y}
    BY <1>2 DEF CheckLinks
  <2> QED
    BY <1>2, <2>1
<1>3. CASE MissingLeaves(fs) = {}
  <2>1. CheckLinks(fs) = UNION {lost(pl) : pl \in WithLeaf(fs)}
    BY <1>3 DEF CheckLinks
  <2> HIDE DEF lost
  <2> QED
    BY <1>1, <1>3, <2>1 DEF LinksLead
<1> QED
  BY <1>2, <1>3

\* A tree without findings, check by check.
LEMMA NoFinding ==
    ASSUME NEW fs
    PROVE  Findings(fs) = {} <=>
             /\ Buildable(fs)
             /\ RequiredGiven(fs) /\ ValuesGood(fs)
             /\ OwnWithin(fs) /\ NamesAlone(fs) /\ NamesInOrder(fs) /\ Pointed(fs)
             /\ DerivedIn(fs, ModuleScoped) /\ CycleFree(fs) /\ LinksLead(fs)
<1>1. CASE Unreadable(fs) # {}
  <2>1. Findings(fs) # {}
    BY <1>1 DEF Findings
  <2> QED
    BY <1>1, <2>1 DEF Buildable
<1>2. CASE Unreadable(fs) = {}
  <2>1. Findings(fs) = CheckSchema(fs) \cup CheckIDs(fs) \cup CheckIDDerivation(fs)
                       \cup CheckDAG(fs) \cup CheckLinks(fs)
    BY <1>2 DEF Findings
  <2>2. CheckIDs(fs) = {} <=>
          /\ Duplicates(fs) = {} /\ SharedNames(fs) = {} /\ BadNames(fs) = {}
          /\ Dangling(fs) = {} /\ Missing(fs) = {}
    <3> DEFINE unique == Duplicates(fs) \cup SharedNames(fs) \cup BadNames(fs)
    <3>1. CheckIDs(fs) = IF unique # {} THEN unique ELSE Dangling(fs) \cup Missing(fs)
      BY DEF CheckIDs
    <3> HIDE DEF unique
    <3>2. unique = {} <=> Duplicates(fs) = {} /\ SharedNames(fs) = {} /\ BadNames(fs) = {}
      BY DEF unique
    <3> QED
      BY <3>1, <3>2
  <2>3. Buildable(fs) <=> MissingLeaves(fs) = {}
    BY <1>2 DEF Buildable
  <2> QED
    BY <2>1, <2>2, <2>3, SchemaIsFine, MissingIsFine, IDsAreOwn, NamesAreFine, NothingDangling,
       DerivationIsFine, NoCycleFound, LinksAreFine
<1> QED
  BY <1>1, <1>2

-----------------------------------------------------------------------------
(* A valid spec is one without findings whose project nodes' ids are derived. *)

\* Derived ids are ids of one node.
LEMMA DerivedApart ==
    ASSUME NEW fs, Sound(fs), DerivedIn(fs, Types), OwnWithin(fs),
           NEW p \in Places(fs), NEW q \in Places(fs), At(fs, p).id = At(fs, q).id
    PROVE  p = q
<1>1. /\ p = <<p[1], p[2], p[3]>> /\ p[1] \in Docs(fs) /\ p[1] \in AllDirs
      /\ p[2] \in Types /\ p[2] \in TypesOf(p[1]) /\ p[3] \in DOMAIN Entries(fs, p[1], p[2])
      /\ At(fs, p) = Entries(fs, p[1], p[2])[p[3]]
  BY PlaceParts
<1>2. /\ q = <<q[1], q[2], q[3]>> /\ q[1] \in AllDirs /\ q[2] \in Types
      /\ q[3] \in DOMAIN Entries(fs, q[1], q[2])
      /\ At(fs, q) = Entries(fs, q[1], q[2])[q[3]]
  BY PlaceParts
<1>3. At(fs, p).name \in Names \cup Dirs /\ At(fs, q).name \in Names \cup Dirs
  BY EntryAt
<1>4. ID(p[1], p[2], At(fs, p).name) = ID(q[1], q[2], At(fs, q).name)
  BY <1>1, <1>2 DEF DerivedIn
<1>5. p[1] = q[1] /\ p[2] = q[2]
  BY <1>1, <1>2, <1>3, <1>4, HashAssumption DEF AllDirs
<1>6. p[3] = q[3]
  BY <1>1, <1>2, <1>5 DEF OwnWithin
<1> QED
  BY <1>1, <1>2, <1>5, <1>6

\* No two nodes of a type have one id.
IDsOfTypesApart(fs) ==
    \A p, q \in Places(fs) : p[2] = q[2] /\ p # q => At(fs, p).id # At(fs, q).id

\* Places of one list of entries.
LEMMA ApartIsOwn ==
    ASSUME NEW fs, Sound(fs), IDsOfTypesApart(fs)
    PROVE  OwnWithin(fs)
<1> SUFFICES ASSUME NEW d \in Docs(fs), NEW t \in TypesOf(d),
                    NEW i \in DOMAIN Entries(fs, d, t), NEW k \in DOMAIN Entries(fs, d, t),
                    Entries(fs, d, t)[i].id = Entries(fs, d, t)[k].id
             PROVE  i = k
  BY DEF OwnWithin
<1> DEFINE p == <<d, t, i>>
           q == <<d, t, k>>
<1>1. t \in Types
  BY TypesApart
<1>2. p \in Places(fs) /\ q \in Places(fs)
  BY <1>1, PlaceIs
<1>3. /\ p[1] = d /\ p[2] = t /\ p[3] = i /\ q[1] = d /\ q[2] = t /\ q[3] = k
      /\ (p = q => i = k)
  OBVIOUS
<1> HIDE DEF p, q
<1>4. At(fs, p).id = At(fs, q).id
  BY <1>3 DEF At
<1> QED
  BY <1>2, <1>3, <1>4 DEF IDsOfTypesApart

\* A reference leads to a node of the field's type, of the module's own or of the
\* project.
Answered(fs, p, f, x) ==
    \E q \in Places(fs) : /\ At(fs, q).id = x /\ q[2] = Target[f]
                          /\ q[1] \in {p[1], ProjectDir}

\* A reference is answered when its id is among those it may point at.
LEMMA TargetsAreNodes ==
    ASSUME NEW fs, Sound(fs), NEW p \in Places(fs), NEW f \in Refs[p[2]], NEW x
    PROVE  x \in TargetIDs(fs, p[1], f) <=> Answered(fs, p, f, x)
<1> DEFINE u == Target[f]
           d == IF u \in ModuleScoped THEN p[1] ELSE ProjectDir
<1>1. /\ p[1] \in Docs(fs) /\ p[2] \in Types
  BY PlaceParts
<1>2. u \in Types /\ d \in Docs(fs) /\ d \in {p[1], ProjectDir}
  BY <1>1, AuthorAssumption DEF Docs
<1>3. TargetIDs(fs, p[1], f) = IDsOf(fs, d, u)
  BY DEF TargetIDs
<1> HIDE DEF d, u
<1>4. ASSUME x \in IDsOf(fs, d, u) PROVE Answered(fs, p, f, x)
  <2>1. PICK i \in DOMAIN Entries(fs, d, u) : x = Entries(fs, d, u)[i].id
    BY <1>4 DEF IDsOf, Range
  <2> DEFINE q == <<d, u, i>>
  <2>2. q \in Places(fs)
    BY <1>2, <2>1, PlaceIs
  <2>3. q[1] = d /\ q[2] = u /\ q[3] = i
    OBVIOUS
  <2> HIDE DEF q
  <2>4. At(fs, q).id = x
    BY <2>1, <2>3 DEF At
  <2> QED
    BY <1>2, <2>2, <2>3, <2>4 DEF Answered, u
<1>5. ASSUME Answered(fs, p, f, x) PROVE x \in IDsOf(fs, d, u)
  <2>1. PICK q \in Places(fs) : At(fs, q).id = x /\ q[2] = u /\ q[1] \in {p[1], ProjectDir}
    BY <1>5 DEF Answered, u
  <2>2. /\ u \in TypesOf(q[1]) /\ q[3] \in DOMAIN Entries(fs, q[1], u)
        /\ At(fs, q) = Entries(fs, q[1], u)[q[3]]
    BY <2>1, PlaceParts
  <2>3. q[1] = d
    BY <2>1, <2>2 DEF TypesOf, ProjectTypes, d
  <2> QED
    BY <2>1, <2>2, <2>3 DEF IDsOf, Range
<1> QED
  BY <1>3, <1>4, <1>5

\* What depends on itself is found as a cycle.
LEMMA CycleIsFound ==
    ASSUME NEW fs, Sound(fs), OwnWithin(fs), NEW d \in Docs(fs), NEW tf \in Acyclic
    PROVE  DependsOnItself(EdgesOf(fs, d, tf[1], tf[2])) <=>
             tf[1] \in TypesOf(d) /\ Cycles(Entries(fs, d, tf[1]), tf[2]) # {}
<1> DEFINE t == tf[1]
           f == tf[2]
           es == Entries(fs, d, t)
           edges == EdgesOf(fs, d, t, f)
<1>1. t \in Types /\ f \in Refs[t]
  BY AuthorAssumption
<1>2. f \in Fields
  BY <1>1, FieldOfType
<1>3. es \in EntriesFor(d, t)
  <2>1. fs[DocPath(d)] \in DocFor(d)
    BY DocOfSound
  <2> QED
    BY <1>1, <2>1, DocForIs DEF Entries
<1>4. es \in Seq(NodeEntry) /\ (t \notin TypesOf(d) => es = <<>>)
  BY <1>3 DEF EntriesFor
<1>5. edges = UNION {{<<e.id, x>> : x \in Range(e.refs[f])} : e \in Range(es)}
  BY DEF EdgesOf
<1>6. CASE t \in TypesOf(d)
  <2>1. \A i, k \in DOMAIN es : es[i].id = es[k].id => i = k
    BY <1>6 DEF OwnWithin
  <2> HIDE DEF es, edges, t, f
  <2>2. Cycles(es, f) # {} <=> DependsOnItself(edges)
    BY <1>2, <1>4, <1>5, <2>1, CycleIsDependence DEF Edged
  <2> QED
    BY <1>6, <2>2 DEF es, edges, t, f
<1>7. CASE t \notin TypesOf(d)
  <2>1. Range(es) = {}
    BY <1>4, <1>7 DEF Range
  <2> HIDE DEF es, t, f, edges
  <2>2. edges = {}
    BY <1>5, <2>1
  <2>3. ~DependsOnItself(edges)
    BY <2>2 DEF DependsOnItself
  <2> QED
    BY <1>7, <2>3 DEF edges, t, f
<1> QED
  BY <1>6, <1>7

\* Every reference is answered, and nothing depends on itself.
AllAnswered(fs) ==
    \A p \in Places(fs) : \A f \in Refs[p[2]] : \A x \in Range(At(fs, p).refs[f]) : Answered(fs, p, f, x)
NoneDependent(fs) ==
    \A d \in Docs(fs) : \A tf \in Acyclic : ~DependsOnItself(EdgesOf(fs, d, tf[1], tf[2]))

\* Validity, part by part.
LEMMA ValidIs ==
    ASSUME NEW fs, Sound(fs)
    PROVE  Valid(fs) <=>
             /\ Buildable(fs) /\ IDsOfTypesApart(fs) /\ NamesAlone(fs)
             /\ DerivedIn(fs, Types) /\ NamesInOrder(fs) /\ ValuesGood(fs) /\ RequiredGiven(fs)
             /\ AllAnswered(fs) /\ NoneDependent(fs) /\ LinksLead(fs)
<1>1. (\A p, q \in Places(fs) :
          p[2] = q[2] /\ p # q => /\ At(fs, p).id # At(fs, q).id
                                  /\ p[2] \in GlobalNames => At(fs, p).name # At(fs, q).name)
      <=> IDsOfTypesApart(fs) /\ NamesAlone(fs)
  BY DEF IDsOfTypesApart, NamesAlone
<1>2. (\A p \in Places(fs) :
          LET e == At(fs, p) IN
          /\ e.id = ID(p[1], p[2], e.name)
          /\ p[2] \in NameDeclarable => e.name \in Declarable
          /\ ~BadValue(p[2], e.val)
          /\ \A f \in Refs[p[2]] :
                /\ f \in ToOne => e.refs[f] # <<>>
                /\ \A x \in Range(e.refs[f]) : \E q \in Places(fs) :
                      /\ At(fs, q).id = x /\ q[2] = Target[f]
                      /\ q[1] \in {p[1], ProjectDir})
      <=> /\ DerivedIn(fs, Types) /\ NamesInOrder(fs) /\ ValuesGood(fs) /\ RequiredGiven(fs)
          /\ AllAnswered(fs)
  <2> DEFINE Sources(p) == \A f \in Refs[p[2]] :
                             /\ f \in ToOne => At(fs, p).refs[f] # <<>>
                             /\ \A x \in Range(At(fs, p).refs[f]) : Answered(fs, p, f, x)
  <2>1. \A p \in Places(fs) : p[2] \in Types
    BY PlaceParts
  <2>2. (\A p \in Places(fs) : Sources(p)) <=>
          RequiredGiven(fs) /\ AllAnswered(fs)
    BY DEF RequiredGiven, AllAnswered
  <2>3. ASSUME NEW p \in Places(fs)
        PROVE  Sources(p) <=>
                 \A f \in Refs[p[2]] :
                    /\ f \in ToOne => At(fs, p).refs[f] # <<>>
                    /\ \A x \in Range(At(fs, p).refs[f]) : \E q \in Places(fs) :
                          /\ At(fs, q).id = x /\ q[2] = Target[f]
                          /\ q[1] \in {p[1], ProjectDir}
    BY DEF Answered
  <2> HIDE DEF Sources
  <2> QED
    BY <2>1, <2>2, <2>3 DEF DerivedIn, NamesInOrder, ValuesGood
<1> QED
  BY <1>1, <1>2 DEF Valid, LinksLead, NoneDependent

\* A spec is valid as a graph exactly when no checker finds anything and the ids
\* the checkers do not look at, those of project.json's nodes, are derived: what one
\* check leaves out because another has reported is no way for a defect to slip
\* through (validator/id_validator.go CheckIDsFS, author/obligation_reporter.go
\* refusalCheckers).
THEOREM ValidIsFindingFree ==
    ASSUME NEW fs, Sound(fs)
    PROVE  Valid(fs) <=> Findings(fs) = {} /\ DerivedIn(fs, ProjectTypes)
<1>1. AllAnswered(fs) <=> Pointed(fs)
  BY TargetsAreNodes DEF AllAnswered, Pointed
<1>2. DerivedIn(fs, Types) <=> DerivedIn(fs, ModuleScoped) /\ DerivedIn(fs, ProjectTypes)
  <2>1. \A p \in Places(fs) : p[2] \in Types /\ (p[2] \in ModuleScoped \/ p[2] \in ProjectTypes)
    BY PlaceParts DEF ProjectTypes
  <2> QED
    BY <2>1 DEF DerivedIn
<1>3. IDsOfTypesApart(fs) => OwnWithin(fs)
  BY ApartIsOwn
<1>4. DerivedIn(fs, Types) /\ OwnWithin(fs) => IDsOfTypesApart(fs)
  BY DerivedApart DEF IDsOfTypesApart
<1>5. OwnWithin(fs) => (NoneDependent(fs) <=> CycleFree(fs))
  BY CycleIsFound DEF CycleFree, NoneDependent
<1> QED
  BY <1>1, <1>2, <1>3, <1>4, <1>5, ValidIs, NoFinding

-----------------------------------------------------------------------------
(* No command gives a node of the project document an id that is not derived: *)
(* the validator does not look at those.                                     *)

\* The ids of the project document's entries are derived.
ProjectDerived(fs) ==
    \A t \in ProjectTypes : \A i \in DOMAIN fs[ProjectPath][t] :
        fs[ProjectPath][t][i].id = ID(ProjectDir, t, fs[ProjectPath][t][i].name)

\* The project document's nodes are those of the project's types.
LEMMA ProjectIsDerived ==
    ASSUME NEW fs, Sound(fs)
    PROVE  ProjectDerived(fs) <=> DerivedIn(fs, ProjectTypes)
<1>1. ASSUME ProjectDerived(fs), NEW p \in Places(fs), p[2] \in ProjectTypes
      PROVE  At(fs, p).id = ID(p[1], p[2], At(fs, p).name)
  <2>1. /\ p[2] \in TypesOf(p[1]) /\ p[3] \in DOMAIN Entries(fs, p[1], p[2])
        /\ At(fs, p) = Entries(fs, p[1], p[2])[p[3]]
    BY PlaceParts
  <2>2. p[1] = ProjectDir
    BY <1>1, <2>1 DEF TypesOf, ProjectTypes
  <2> QED
    BY <1>1, <2>1, <2>2 DEF ProjectDerived, Entries, DocPath
<1>2. ASSUME DerivedIn(fs, ProjectTypes), NEW t \in ProjectTypes, NEW i \in DOMAIN fs[ProjectPath][t]
      PROVE  fs[ProjectPath][t][i].id = ID(ProjectDir, t, fs[ProjectPath][t][i].name)
  <2> DEFINE p == <<ProjectDir, t, i>>
  <2>1. Entries(fs, ProjectDir, t) = fs[ProjectPath][t]
    BY DEF Entries, DocPath
  <2>2. p \in Places(fs)
    BY <2>1, PlaceIs DEF Docs, ProjectTypes
  <2>3. p[1] = ProjectDir /\ p[2] = t /\ p[3] = i
    OBVIOUS
  <2> HIDE DEF p
  <2>4. At(fs, p) = fs[ProjectPath][t][i]
    BY <2>1, <2>3 DEF At
  <2> QED
    BY <1>2, <2>2, <2>3, <2>4 DEF DerivedIn
<1> QED
  BY <1>1, <1>2 DEF ProjectDerived, DerivedIn

\* So are those of a list of entries.
DerivedEntries(t, es) == \A i \in DOMAIN es : es[i].id = ID(ProjectDir, t, es[i].name)

\* A new list of entries.
LEMMA SetDerived ==
    ASSUME NEW fs, NEW d \in AllDirs, NEW t, NEW es, ProjectPath \in DOMAIN fs, ProjectDerived(fs),
           d = ProjectDir /\ t \in ProjectTypes => DerivedEntries(t, es)
    PROVE  /\ ProjectDerived(SetEntries(fs, d, t, es))
           /\ ProjectPath \in DOMAIN SetEntries(fs, d, t, es)
<1> DEFINE new == SetEntries(fs, d, t, es)
           doc == [u \in Types |-> IF u = t THEN es ELSE Entries(fs, d, u)]
<1>1. /\ \A p \in DOMAIN fs \cup {DocPath(d)} : new[p] = IF p = DocPath(d) THEN doc ELSE fs[p]
      /\ DOMAIN new = DOMAIN fs \cup {DocPath(d)}
  BY DEF SetEntries, With
<1>2. ProjectDerived(fs) <=> \A u \in ProjectTypes : DerivedEntries(u, fs[ProjectPath][u])
  BY DEF ProjectDerived, DerivedEntries
<1>3. ProjectDerived(new) <=> \A u \in ProjectTypes : DerivedEntries(u, new[ProjectPath][u])
  BY DEF ProjectDerived, DerivedEntries
<1>4. \A u \in ProjectTypes : u \in Types
  BY DEF ProjectTypes
<1>5. CASE d = ProjectDir
  <2>1. DocPath(d) = ProjectPath
    BY <1>5 DEF DocPath
  <2>2. \A u \in ProjectTypes : doc[u] = IF u = t THEN es ELSE fs[ProjectPath][u]
    BY <1>4, <2>1 DEF Entries
  <2> HIDE DEF doc, new
  <2>3. new[ProjectPath] = doc
    BY <1>1, <2>1
  <2> QED
    BY <1>1, <1>2, <1>3, <1>5, <2>2, <2>3 DEF new
<1>6. CASE d # ProjectDir
  <2>1. DocPath(d) # ProjectPath
    BY <1>6, PathsApart DEF AllDirs
  <2> HIDE DEF new, doc
  <2>2. new[ProjectPath] = fs[ProjectPath]
    BY <1>1, <2>1
  <2> QED
    BY <1>1, <1>2, <1>3, <2>2 DEF new
<1> QED
  BY <1>5, <1>6

\* A file that is not the project document.
LEMMA FileDerived ==
    ASSUME NEW fs, NEW after, ProjectDerived(fs), after[ProjectPath] = fs[ProjectPath]
    PROVE  ProjectDerived(after)
BY DEF ProjectDerived

\* An entry that keeps its id and its name.
LEMMA EntryDerived ==
    ASSUME NEW fs, Sound(fs), ProjectDerived(fs), NEW pl \in Places(fs),
           NEW e, e.id = At(fs, pl).id, e.name = At(fs, pl).name
    PROVE  ProjectDerived(SetEntry(fs, pl, e))
<1> DEFINE d == pl[1]
           t == pl[2]
           es == Entries(fs, d, t)
           new == [i \in DOMAIN es |-> IF i = pl[3] THEN e ELSE es[i]]
<1>1. d \in AllDirs /\ At(fs, pl) = es[pl[3]] /\ ProjectPath \in DOMAIN fs
  BY PlaceParts DEF Sound, IsTree
<1>2. SetEntry(fs, pl, e) = SetEntries(fs, d, t, new)
  BY DEF SetEntry
<1>3. d = ProjectDir /\ t \in ProjectTypes => DerivedEntries(t, es)
  BY DEF ProjectDerived, DerivedEntries, Entries, DocPath
<1>4. DOMAIN new = DOMAIN es /\ \A i \in DOMAIN es : new[i].id = es[i].id /\ new[i].name = es[i].name
  BY <1>1
<1> HIDE DEF new, es, d, t
<1>5. d = ProjectDir /\ t \in ProjectTypes => DerivedEntries(t, new)
  BY <1>3, <1>4 DEF DerivedEntries
<1> QED
  BY <1>1, <1>2, <1>5, SetDerived

\* spex node set, edge add and edge remove.
LEMMA SetsDerived ==
    ASSUME NEW fs, Sound(fs), ProjectDerived(fs), NEW x \in Nodes(fs)
    PROVE  /\ \A val : ProjectDerived(SetTree(fs, x, val))
           /\ \A f, y : ProjectDerived(AddEdgeTree(fs, x, f, y))
           /\ \A f, y : ProjectDerived(RemoveEdgeTree(fs, x, f, y))
<1> DEFINE pl == Found(fs, x)
           e == At(fs, pl)
<1>1. pl \in Places(fs) /\ e \in NodeEntry
  BY NodeFound, PlaceParts
<1>2. /\ \A val : [e EXCEPT !.val = val].id = e.id /\ [e EXCEPT !.val = val].name = e.name
      /\ \A f, refs : [e EXCEPT !.refs[f] = refs].id = e.id /\ [e EXCEPT !.refs[f] = refs].name = e.name
  <2> HIDE DEF e
  <2> QED
    BY <1>1 DEF NodeEntry
<1>3. \A val : ProjectDerived(SetEntry(fs, pl, [e EXCEPT !.val = val]))
  BY <1>1, <1>2, EntryDerived
<1>4. \A f, refs : ProjectDerived(SetEntry(fs, pl, [e EXCEPT !.refs[f] = refs]))
  BY <1>1, <1>2, EntryDerived
<1> QED
  BY <1>3, <1>4 DEF SetTree, AddEdgeTree, RemoveEdgeTree

\* spex node remove.
LEMMA RemoveDerived ==
    ASSUME NEW fs, Sound(fs), ProjectDerived(fs), NEW x \in Nodes(fs)
    PROVE  ProjectDerived(RemoveTree(fs, x))
<1> DEFINE pl == Found(fs, x)
           d == pl[1]
           t == pl[2]
           es == Entries(fs, d, t)
           K == {i \in DOMAIN es : es[i].id # x}
           others == Kept(es, K)
           set == SetEntries(fs, d, t, others)
<1>1. /\ pl \in Places(fs) /\ d \in AllDirs /\ es \in Seq(NodeEntry) /\ ProjectPath \in DOMAIN fs
  BY NodeFound, PlaceParts DEF Sound, IsTree
<1>2. d = ProjectDir /\ t \in ProjectTypes => DerivedEntries(t, es)
  BY DEF ProjectDerived, DerivedEntries, Entries, DocPath
<1>3. RemoveTree(fs, x) = Without(set, LeafPathsOf(fs, x))
  BY DEF RemoveTree
<1>4. ProjectPath \notin LeafPathsOf(fs, x)
  BY RemovedLeaves, PathsApart DEF AllDirs
<1> HIDE DEF es, K, d, t, pl
<1>5. PickedFrom(others, es, Len(es)) /\ DOMAIN es = 1 .. Len(es)
  BY <1>1, KeptElements
<1> HIDE DEF others
<1>6. d = ProjectDir /\ t \in ProjectTypes => DerivedEntries(t, others)
  BY <1>2, <1>5 DEF DerivedEntries, PickedFrom
<1>7. ProjectDerived(set) /\ ProjectPath \in DOMAIN set
  BY <1>1, <1>6, SetDerived
<1> HIDE DEF set
<1>8. Without(set, LeafPathsOf(fs, x))[ProjectPath] = set[ProjectPath]
  BY <1>4, <1>7 DEF Without
<1> QED
  BY <1>3, <1>7, <1>8, FileDerived

\* A node more.
LEMMA AppendDerived ==
    ASSUME NEW fs, Sound(fs), ProjectDerived(fs), NEW d \in Docs(fs), NEW t \in Types,
           NEW e, e.id = ID(d, t, e.name)
    PROVE  /\ ProjectDerived(SetEntries(fs, d, t, Append(Entries(fs, d, t), e)))
           /\ ProjectPath \in DOMAIN SetEntries(fs, d, t, Append(Entries(fs, d, t), e))
<1> DEFINE es == Entries(fs, d, t)
           new == Append(es, e)
<1>1. d \in AllDirs /\ ProjectPath \in DOMAIN fs
  BY DocOfSound DEF Sound, IsTree
<1>2. es \in Seq(NodeEntry)
  BY DocOfSound, DocForIs DEF Entries, EntriesFor
<1>3. d = ProjectDir /\ t \in ProjectTypes => DerivedEntries(t, es)
  BY DEF ProjectDerived, DerivedEntries, Entries, DocPath
<1> HIDE DEF es
<1>4. \A i \in DOMAIN new : (i \in DOMAIN es /\ new[i] = es[i]) \/ new[i] = e
  BY <1>2
<1> HIDE DEF new
<1>5. d = ProjectDir /\ t \in ProjectTypes => DerivedEntries(t, new)
  BY <1>3, <1>4 DEF DerivedEntries
<1>6. ProjectDerived(SetEntries(fs, d, t, new)) /\ ProjectPath \in DOMAIN SetEntries(fs, d, t, new)
  BY <1>1, <1>5, SetDerived
<1> QED
  BY <1>6 DEF new, es

\* spex node add, of a node and of a module.
LEMMA AddsDerived ==
    ASSUME NEW fs, Sound(fs), ProjectDerived(fs)
    PROVE  /\ \A d \in Docs(fs) : \A t \in TypesOf(d) : \A n, val, refs :
              ProjectDerived(AddTree(fs, d, t, n, val, refs))
           /\ \A d \in Dirs : ProjectDerived(AddModuleTree(fs, d))
<1>1. ASSUME NEW d \in Docs(fs), NEW t \in TypesOf(d), NEW n, NEW val, NEW refs
      PROVE  ProjectDerived(AddTree(fs, d, t, n, val, refs))
  <2> DEFINE e == NewEntry(d, t, n, val, refs)
             declared == SetEntries(fs, d, t, Append(Entries(fs, d, t), e))
             path == LeafPath(d, t, e.slug)
  <2>1. e.id = ID(d, t, e.name) /\ t \in Types
    BY TypesApart DEF NewEntry
  <2> HIDE DEF e
  <2>2. ProjectDerived(declared) /\ ProjectPath \in DOMAIN declared
    BY <2>1, AppendDerived
  <2>3. AddTree(fs, d, t, n, val, refs) =
          IF t \in ContentTypes THEN With(declared, path, Skeleton(declared, t, e)) ELSE declared
    BY DEF AddTree, e
  <2> HIDE DEF declared
  <2>4. t \in ContentTypes => path # ProjectPath
    <3>1. t \in ContentTypes => d \in Dirs /\ d # ProjectRank
      BY TypesApart, DocOfSound, AuthorAssumption DEF AllDirs
    <3> QED
      BY <3>1 DEF LeafPath, ProjectPath
  <2> HIDE DEF path
  <2>5. t \in ContentTypes =>
          With(declared, path, Skeleton(declared, t, e))[ProjectPath] = declared[ProjectPath]
    BY <2>2, <2>4 DEF With
  <2> QED
    BY <2>2, <2>3, <2>5, FileDerived
<1>2. ASSUME NEW d \in Dirs
      PROVE  ProjectDerived(AddModuleTree(fs, d))
  <2> DEFINE e == [id |-> ID(ProjectDir, "module", d), name |-> d, slug |-> 0,
                   val |-> None, refs |-> NoRefs]
             declared == SetEntries(fs, ProjectDir, "module", Append(Entries(fs, ProjectDir, "module"), e))
  <2>1. ProjectDir \in Docs(fs) /\ "module" \in Types /\ e.id = ID(ProjectDir, "module", e.name)
    BY TypesApart DEF Docs
  <2> HIDE DEF e
  <2>2. ProjectDerived(declared) /\ ProjectPath \in DOMAIN declared
    BY <2>1, AppendDerived
  <2>3. AddModuleTree(fs, d) = With(declared, DocPath(d), EmptyDoc)
    BY DEF AddModuleTree, e
  <2> HIDE DEF declared
  <2>4. DocPath(d) # ProjectPath
    BY AuthorAssumption, PathsApart DEF AllDirs
  <2>5. With(declared, DocPath(d), EmptyDoc)[ProjectPath] = declared[ProjectPath]
    BY <2>2, <2>4 DEF With
  <2> QED
    BY <2>2, <2>3, <2>5, FileDerived
<1> QED
  BY <1>1, <1>2

\* spex node rename.
LEMMA RenameDerived ==
    ASSUME NEW fs, Sound(fs), ProjectDerived(fs), NEW x \in Nodes(fs), NEW n \in Names,
           ~IsModule(Found(fs, x)), ~RenameRejects(fs, x, n)
    PROVE  ProjectDerived(RenameTree(fs, x, n))
<1> DEFINE pl == Found(fs, x)
           d == pl[1]
           t == pl[2]
           y == ID(d, t, n)
           patched == Patched(fs, x, y)
           e == [At(patched, pl) EXCEPT !.id = y, !.name = n, !.slug = Slug[n]]
           es == Entries(patched, d, t)
           new == [i \in DOMAIN es |-> IF i = pl[3] THEN e ELSE es[i]]
           renamed == SetEntries(patched, d, t, new)
<1>1. /\ pl \in Places(fs) /\ d \in AllDirs /\ t \in Types /\ t \in TypesOf(d) /\ t # "module"
      /\ DocPath(d) \in DOMAIN fs
  BY NodeFound, PlaceParts DEF IsModule
<1>2. y \in IDs
  BY <1>1 DEF IDs, TypesOf, AllDirs
<1>3. Sound(patched) /\ Swept(fs, patched)
  BY <1>2, PatchedIs
<1>4. ProjectPath \in DOMAIN fs /\ ProjectDir \in AllDirs /\ DocPath(ProjectDir) = ProjectPath
  BY DEF Sound, IsTree, AllDirs, DocPath
<1>5. ProjectDerived(patched)
  <2>1. \A u \in ProjectTypes : u \in Types
    BY DEF ProjectTypes
  <2> HIDE DEF patched
  <2> QED
    BY <1>3, <1>4, <2>1 DEF Swept, ProjectDerived
<1>6. pl \in Places(patched)
  <2>1. Docs(fs) \subseteq Docs(patched)
    BY <1>3, SweptKeeps
  <2>2. pl = <<d, t, pl[3]>> /\ d \in Docs(fs) /\ pl[3] \in DOMAIN Entries(fs, d, t)
    BY <1>1, PlaceParts
  <2> HIDE DEF patched
  <2>3. DOMAIN Entries(patched, d, t) = DOMAIN Entries(fs, d, t)
    BY <1>1, <1>3 DEF Swept, Entries
  <2> QED
    BY <1>1, <2>1, <2>2, <2>3, PlaceIs
<1>7. At(patched, pl) \in NodeEntry
  BY <1>3, <1>6, PlaceParts
<1>8. e.id = y /\ e.name = n
  BY <1>7 DEF NodeEntry
<1>9. d = ProjectDir /\ t \in ProjectTypes => DerivedEntries(t, es)
  BY <1>5 DEF ProjectDerived, DerivedEntries, Entries, DocPath
<1> HIDE DEF e, es
<1>10. d = ProjectDir /\ t \in ProjectTypes => DerivedEntries(t, new)
  BY <1>8, <1>9 DEF DerivedEntries
<1>11. ProjectPath \in DOMAIN patched
  BY <1>3 DEF Sound, IsTree
<1> HIDE DEF new
<1>12. ProjectDerived(renamed) /\ ProjectPath \in DOMAIN renamed
  BY <1>1, <1>5, <1>10, <1>11, SetDerived
<1>13. Renamed(fs, x, n) = renamed
  BY DEF Renamed, SetEntry, e, es, new
<1> HIDE DEF renamed
<1>14. SameDocs(renamed, RenameTree(fs, x, n))
  BY <1>13, RenameEdits
<1>15. RenameTree(fs, x, n)[ProjectPath] = renamed[ProjectPath]
  BY <1>4, <1>12, <1>14 DEF SameDocs
<1> QED
  BY <1>12, <1>15, FileDerived

-----------------------------------------------------------------------------
(* What Report makes of a command's copy. *)

\* A command other than a forced one is refused exactly when its copy has a
\* finding the tree had not; only a missing leaf is scaffolded; and none gives a
\* project node an id that is not derived.
JudgedWell(c) ==
    /\ c.op \notin {"force", "scaffold"} => (c.refused <=> Refused(c.before, c.after))
    /\ c.op = "scaffold" => ~Buildable(c.before)
    /\ ProjectDerived(c.before) => ProjectDerived(c.after)

GateInv == cmd # NoCommand => JudgedWell(cmd)

\* A command that starts.
LEMMA JudgedAtStart ==
    ASSUME NEW op, NEW after, NEW drop, NEW owed, NEW refused,
           op \notin {"force", "scaffold"} => (refused <=> Refused(tree, after)),
           op = "scaffold" => ~Buildable(tree),
           ProjectDerived(tree) => ProjectDerived(after),
           Command(op, after, drop, owed, refused)
    PROVE  GateInv'
<1> DEFINE c == [op |-> op, before |-> tree, after |-> after, owed |-> owed, refused |-> refused,
                 writes |-> IF refused THEN {} ELSE ChangedPaths(tree, after),
                 drop |-> IF refused THEN {} ELSE drop]
<1>1. cmd' = c
  BY DEF Command
<1>2. c.op = op /\ c.before = tree /\ c.after = after /\ c.refused = refused
  OBVIOUS
<1> HIDE DEF c
<1>3. JudgedWell(c)
  BY <1>2 DEF JudgedWell
<1>4. JudgedWell(cmd)'
  BY <1>1, <1>3 DEF JudgedWell
<1> QED
  BY <1>4 DEF GateInv

\* A command Report judges.
LEMMA JudgedOnSubmit ==
    ASSUME NEW op, op \notin {"force", "scaffold"}, NEW after, NEW drop,
           ProjectDerived(tree) => ProjectDerived(after), Submit(op, after, drop)
    PROVE  GateInv'
<1>1. CASE Refused(tree, after) /\ Command(op, after, drop, {}, TRUE)
  BY <1>1, JudgedAtStart
<1>2. CASE ~Refused(tree, after) /\ Command(op, after, drop, Validate(after), FALSE)
  BY <1>2, JudgedAtStart
<1> QED
  BY <1>1, <1>2 DEF Submit

\* The commands that change one entry, and the ones that take one away.
LEMMA EditsJudged ==
    ASSUME Sound(tree), NEW x \in Nodes(tree)
    PROVE  /\ RemoveNode(x) \/ ForceRemove(x) \/ SetNode(x) => GateInv'
           /\ \A f, y : AddEdge(x, f, y) \/ RemoveEdge(x, f, y) => GateInv'
           /\ \A n \in Names : RenameNode(x, n) => GateInv'
<1>1. ASSUME RemoveNode(x) PROVE GateInv'
  <2>1. Submit("remove", RemoveTree(tree, x), LeafPathsOf(tree, x))
    BY <1>1 DEF RemoveNode
  <2> QED
    BY <2>1, RemoveDerived, JudgedOnSubmit
<1>2. ASSUME ForceRemove(x) PROVE GateInv'
  <2> DEFINE after == RemoveTree(tree, x)
             owed == Introduced(tree, after) \cup Owed(after)
  <2>1. Command("force", after, LeafPathsOf(tree, x), owed, FALSE)
    BY <1>2 DEF ForceRemove
  <2>2. ProjectDerived(tree) => ProjectDerived(after)
    BY RemoveDerived
  <2> HIDE DEF after, owed
  <2> QED
    BY <2>1, <2>2, JudgedAtStart
<1>3. ASSUME SetNode(x) PROVE GateInv'
  <2>1. PICK val : Submit("set", SetTree(tree, x, val), {})
    BY <1>3 DEF SetNode
  <2> QED
    BY <2>1, SetsDerived, JudgedOnSubmit
<1>4. ASSUME NEW f, NEW y, AddEdge(x, f, y) PROVE GateInv'
  <2>1. Submit("link", AddEdgeTree(tree, x, f, y), {})
    BY <1>4 DEF AddEdge
  <2> QED
    BY <2>1, SetsDerived, JudgedOnSubmit
<1>5. ASSUME NEW f, NEW y, RemoveEdge(x, f, y) PROVE GateInv'
  <2>1. Submit("unlink", RemoveEdgeTree(tree, x, f, y), {})
    BY <1>5 DEF RemoveEdge
  <2> QED
    BY <2>1, SetsDerived, JudgedOnSubmit
<1>6. ASSUME NEW n \in Names, RenameNode(x, n) PROVE GateInv'
  <2>1. /\ Submit("rename", RenameTree(tree, x, n), DOMAIN tree \ DOMAIN RenameTree(tree, x, n))
        /\ ~IsModule(Found(tree, x)) /\ ~RenameRejects(tree, x, n)
    BY <1>6 DEF RenameNode
  <2> QED
    BY <2>1, RenameDerived, JudgedOnSubmit
<1> QED
  BY <1>1, <1>2, <1>3, <1>4, <1>5, <1>6

\* The commands that add.
LEMMA AddsJudged ==
    ASSUME Sound(tree)
    PROVE  /\ \A d \in AllDirs, t \in Types : \A n : AddNode(d, t, n) => GateInv'
           /\ \A d \in Dirs : AddModule(d) => GateInv'
<1>1. ASSUME NEW d \in AllDirs, NEW t \in Types, NEW n, AddNode(d, t, n) PROVE GateInv'
  <2>1. t \in TypesOf(d) /\ d \in Docs(tree)
    BY <1>1 DEF AddNode, AddRejects, Docs
  <2>2. PICK val, refs : Submit("add", AddTree(tree, d, t, n, val, refs), {})
    BY <1>1 DEF AddNode
  <2> QED
    BY <2>1, <2>2, AddsDerived, JudgedOnSubmit
<1>2. ASSUME NEW d \in Dirs, AddModule(d) PROVE GateInv'
  <2>1. Submit("module", AddModuleTree(tree, d), {})
    BY <1>2 DEF AddModule
  <2> QED
    BY <2>1, AddsDerived, JudgedOnSubmit
<1> QED
  BY <1>1, <1>2

\* spex leaf scaffold.
LEMMA ScaffoldJudged ==
    ASSUME Sound(tree), NEW x \in Nodes(tree), ScaffoldLeaf(x)
    PROVE  GateInv'
<1> DEFINE pl == Found(tree, x)
           path == LeafOf(tree, pl)
           file == ScaffoldFile(tree, x)
           judged == With(PatchMissing(tree), path, file)
           real == With(tree, path, file)
           owed == Validate(judged) \cup (CheckContentPaths(real) \ CheckContentPaths(judged))
<1>1. ~ScaffoldRejects(tree, x) /\ Command("scaffold", real, {}, owed, FALSE)
  BY DEF ScaffoldLeaf
<1>2. ~Buildable(tree)
  <2>1. pl \in Places(tree) /\ pl[2] \in ContentTypes /\ path \notin DOMAIN tree
    BY <1>1, NodeFound DEF ScaffoldRejects
  <2> QED
    BY <2>1 DEF Buildable, MissingLeaves, WithLeaf
<1>3. SameDocs(tree, real)
  BY <1>1, ScaffoldEdits
<1>4. ProjectDir \in AllDirs /\ DocPath(ProjectDir) = ProjectPath /\ ProjectPath \in DOMAIN tree
  BY DEF AllDirs, DocPath, Sound, IsTree
<1> HIDE DEF real, owed
<1>5. real[ProjectPath] = tree[ProjectPath]
  BY <1>3, <1>4 DEF SameDocs
<1> QED
  BY <1>1, <1>2, <1>5, FileDerived, JudgedAtStart

\* A file written changes nothing of what was judged.
LEMMA WriteStaysJudged ==
    ASSUME AuthorInv, GateInv, cmd # NoCommand, NEW path \in cmd.writes, WriteFile(path)
    PROVE  GateInv'
<1>1. CommandRecord(cmd) /\ JudgedWell(cmd)
  BY DEF AuthorInv, CommandFine, GateInv
<1> DEFINE c == [cmd EXCEPT !.writes = @ \ {path}]
<1>2. /\ c.op = cmd.op /\ c.before = cmd.before /\ c.after = cmd.after /\ c.refused = cmd.refused
  BY <1>1 DEF CommandRecord
<1>3. cmd' = NoCommand \/ cmd' = c
  BY DEF WriteFile
<1> HIDE DEF c
<1>4. JudgedWell(c)
  BY <1>1, <1>2 DEF JudgedWell
<1>5. CASE cmd' = c
  <2>1. JudgedWell(cmd)'
    BY <1>4, <1>5 DEF JudgedWell
  <2> QED
    BY <2>1 DEF GateInv
<1>6. CASE cmd' = NoCommand
  BY <1>6 DEF GateInv
<1> QED
  BY <1>3, <1>5, <1>6

\* Every step.
LEMMA GateStep == AuthorInv /\ GateInv /\ [Next]_vars => GateInv'
<1> SUFFICES ASSUME AuthorInv, GateInv, [Next]_vars PROVE GateInv'
  OBVIOUS
<1>1. Sound(tree)
  BY DEF AuthorInv
<1>2. ASSUME cmd' = cmd \/ cmd' = NoCommand PROVE GateInv'
  <2>1. CASE cmd' = cmd
    BY <2>1 DEF GateInv, JudgedWell
  <2>2. CASE cmd' = NoCommand
    BY <2>2 DEF GateInv
  <2> QED
    BY <1>2, <2>1, <2>2
<1>3. CASE UNCHANGED vars
  BY <1>2, <1>3 DEF vars
<1>4. CASE Next
  <2>1. ASSUME NEW d \in Dirs \cup {ProjectDir}, NEW t \in Types, NEW n \in Names, AddNode(d, t, n)
        PROVE  GateInv'
    BY <1>1, <2>1, AddsJudged DEF AllDirs
  <2>2. ASSUME NEW d \in Dirs, AddModule(d) PROVE GateInv'
    BY <1>1, <2>2, AddsJudged
  <2>3. ASSUME NEW x \in Nodes(tree), RemoveNode(x) \/ ForceRemove(x) \/ SetNode(x) PROVE GateInv'
    BY <1>1, <2>3, EditsJudged
  <2>4. ASSUME NEW x \in Nodes(tree), ScaffoldLeaf(x) PROVE GateInv'
    BY <1>1, <2>4, ScaffoldJudged
  <2>5. ASSUME NEW x \in Nodes(tree), NEW n \in Names, RenameNode(x, n) PROVE GateInv'
    BY <1>1, <2>5, EditsJudged
  <2>6. ASSUME NEW x \in Nodes(tree), NEW f, NEW y, AddEdge(x, f, y) \/ RemoveEdge(x, f, y) PROVE GateInv'
    BY <1>1, <2>6, EditsJudged
  <2>7. ASSUME Refuse \/ RemoveFile \/ Crash PROVE GateInv'
    BY <1>2, <2>7 DEF Refuse, RemoveFile, Crash
  <2>8. ASSUME cmd # NoCommand, NEW path \in cmd.writes, WriteFile(path) PROVE GateInv'
    BY <2>8, WriteStaysJudged
  <2>9. ASSUME NEW pl \in WithLeaf(tree), WriteProse(pl) PROVE GateInv'
    BY <1>2, <2>9 DEF WriteProse
  <2> QED
    BY <1>4, <2>1, <2>2, <2>3, <2>4, <2>5, <2>6, <2>7, <2>8, <2>9, Zenon DEF Next
<1> QED
  BY <1>3, <1>4

\* A copy of a valid tree is refused when it is not valid, and only then.
LEMMA JudgedIsValid ==
    ASSUME NEW c, CommandFine(c), JudgedWell(c), c.op # "force", Valid(c.before)
    PROVE  c.refused <=> ~Valid(c.after)
<1>1. Sound(c.before) /\ Sound(c.after)
  BY DEF CommandFine
<1>2. Findings(c.before) = {} /\ DerivedIn(c.before, ProjectTypes)
  BY <1>1, ValidIsFindingFree
<1>3. c.op # "scaffold"
  BY DEF JudgedWell, Valid
<1>4. c.refused <=> Refused(c.before, c.after)
  BY <1>3 DEF JudgedWell
<1>5. DerivedIn(c.after, ProjectTypes)
  BY <1>1, <1>2, ProjectIsDerived DEF JudgedWell
<1>6. Refused(c.before, c.after) <=> Findings(c.after) # {}
  BY <1>2 DEF Refused, Introduced
<1>7. Valid(c.after) <=> Findings(c.after) = {}
  BY <1>1, <1>5, ValidIsFindingFree
<1> QED
  BY <1>4, <1>6, <1>7

\* Whatever is asked of a valid spec, Report refuses it exactly when the copy
\* would not be valid: no defect is missed, none is made up, and none hides
\* another (author/obligation_reporter.go Report, the validator's checkers).
THEOREM GateMissesNothing == Spec => []GateIsExact
<1>1. Init => GateInv
  BY DEF Init, GateInv
<1>2. AuthorInv /\ GateInv => GateIsExact
  <2> SUFFICES ASSUME AuthorInv, GateInv, cmd # NoCommand, cmd.op # "force", Valid(cmd.before)
               PROVE  cmd.refused <=> ~Valid(cmd.after)
    BY DEF GateIsExact
  <2>1. CommandFine(cmd) /\ JudgedWell(cmd)
    BY DEF AuthorInv, GateInv
  <2> QED
    BY <2>1, JudgedIsValid
<1> QED
  BY <1>1, <1>2, GateStep, SpecStaysSound, PTL DEF Spec

\* A command without --force that runs to its end leaves a valid spec valid:
\* the files on disk are the copy Report let through.
THEOREM ValidityIsKept == Spec => ValidStaysValid
<1>1. Spec => []GateInv
  <2>1. Init => GateInv
    BY DEF Init, GateInv
  <2> QED
    BY <2>1, GateStep, SpecStaysSound, PTL DEF Spec
<1>2. ASSUME AuthorInv, GateInv, [Next]_vars
      PROVE  [Completes /\ cmd.op # "force" /\ Valid(cmd.before) => Valid(tree')]_vars
  <2> SUFFICES ASSUME Completes, cmd.op # "force", Valid(cmd.before)
               PROVE  Valid(tree')
    OBVIOUS
  <2>1. cmd # NoCommand /\ ~cmd.refused /\ cmd' = NoCommand /\ crashes' = crashes
    BY DEF Completes
  <2>2. tree' = cmd.after
    BY <1>2, CompletedIsCopy
  <2>3. Valid(cmd.after)
    BY <1>2, <2>1, JudgedIsValid DEF AuthorInv, GateInv
  <2> QED
    BY <2>2, <2>3
<1> QED
  BY <1>1, <1>2, SpecStaysSound, PTL DEF Spec, ValidStaysValid

-----------------------------------------------------------------------------
(* A rename is a relabelling of the graph. *)

\* The entry at a place after a rename.
RenamedAt(fs, pl, x, y, n, p) ==
    IF p = pl THEN [PatchEntry(At(fs, p), x, y) EXCEPT !.id = y, !.name = n, !.slug = Slug[n]]
              ELSE PatchEntry(At(fs, p), x, y)

\* The entries of the documents that are read.
LEMMA EntriesRenamed ==
    ASSUME NEW fs, Sound(fs), NEW x \in Nodes(fs), NEW n \in Names, ~IsModule(Found(fs, x))
    PROVE  LET pl == Found(fs, x)
               y == ID(pl[1], pl[2], n)
               new == Renamed(fs, x, n)
           IN  \A d \in Docs(fs), t \in Types :
                  /\ DOMAIN Entries(new, d, t) = DOMAIN Entries(fs, d, t)
                  /\ \A i \in DOMAIN Entries(fs, d, t) :
                        Entries(new, d, t)[i] = RenamedAt(fs, pl, x, y, n, <<d, t, i>>)
<1> DEFINE pl == Found(fs, x)
           y == ID(pl[1], pl[2], n)
           mid == Patched(fs, x, y)
           new == Renamed(fs, x, n)
           docs == {DocPath(d) : d \in Docs(fs)}
<1>1. pl \in Places(fs)
  BY NodeFound
<1>2. /\ pl = <<pl[1], pl[2], pl[3]>> /\ pl[1] \in Docs(fs) /\ pl[1] \in AllDirs /\ pl[2] \in Types
      /\ pl[3] \in DOMAIN Entries(fs, pl[1], pl[2])
  BY <1>1, PlaceParts
<1> HIDE DEF pl
<1>3. \A d \in Docs(fs) : mid[DocPath(d)] = PatchDoc(fs[DocPath(d)], x, y)
  <2> DEFINE leaves == {LeafOf(fs, p) : p \in WithLeaf(fs)}
  <2>1. mid = [p \in DOMAIN fs |-> CASE p \in docs -> PatchDoc(fs[p], x, y)
                                     [] p \in leaves -> PatchLeaf(fs[p], x, y)
                                     [] OTHER -> fs[p]]
    BY DEF Patched
  <2>2. \A d \in Docs(fs) : DocPath(d) \in DOMAIN fs /\ DocPath(d) \in docs /\ DocPath(d) \notin LeafPaths
    BY DocOfSound, PathsApart
  <2>3. leaves \subseteq LeafPaths
    BY LeafParts
  <2> HIDE DEF leaves, docs, mid
  <2> QED
    BY <2>1, <2>2, <2>3
<1>4. \A d \in Docs(fs), t \in Types :
         Entries(mid, d, t) = [i \in DOMAIN Entries(fs, d, t) |-> PatchEntry(Entries(fs, d, t)[i], x, y)]
  BY <1>3 DEF PatchDoc, Entries
<1> HIDE DEF mid
<1> DEFINE es == Entries(mid, pl[1], pl[2])
           e == [At(mid, pl) EXCEPT !.id = y, !.name = n, !.slug = Slug[n]]
           ns == [i \in DOMAIN es |-> IF i = pl[3] THEN e ELSE es[i]]
           doc == [u \in Types |-> IF u = pl[2] THEN ns ELSE Entries(mid, pl[1], u)]
<1>5. new = [p \in DOMAIN mid \cup {DocPath(pl[1])} |-> IF p = DocPath(pl[1]) THEN doc ELSE mid[p]]
  BY DEF Renamed, SetEntry, SetEntries, With, mid, pl
<1>6. DOMAIN mid = DOMAIN fs
  BY DEF Patched, mid
<1> HIDE DEF new, doc
<1>7. \A d \in Docs(fs) : d \in AllDirs /\ DocPath(d) \in DOMAIN fs
  BY DocOfSound
<1>8. \A d \in Docs(fs) : new[DocPath(d)] = IF d = pl[1] THEN doc ELSE mid[DocPath(d)]
  BY <1>2, <1>5, <1>6, <1>7, PathsApart
<1>9. \A d \in Docs(fs), t \in Types :
         Entries(new, d, t) = IF d = pl[1] /\ t = pl[2] THEN ns ELSE Entries(mid, d, t)
  <2> HIDE DEF ns
  <2>1. \A t \in Types : doc[t] = IF t = pl[2] THEN ns ELSE Entries(mid, pl[1], t)
    BY DEF doc
  <2> QED
    BY <1>8, <2>1 DEF Entries
<1>10. e = [PatchEntry(At(fs, pl), x, y) EXCEPT !.id = y, !.name = n, !.slug = Slug[n]]
  <2>1. At(mid, pl) = PatchEntry(At(fs, pl), x, y)
    BY <1>2, <1>4 DEF At
  <2> QED
    BY <2>1
<1> HIDE DEF e, es
<1>11. ASSUME NEW d \in Docs(fs), NEW t \in Types
       PROVE  /\ DOMAIN Entries(new, d, t) = DOMAIN Entries(fs, d, t)
              /\ \A i \in DOMAIN Entries(fs, d, t) :
                    Entries(new, d, t)[i] = RenamedAt(fs, pl, x, y, n, <<d, t, i>>)
  <2>1. /\ DOMAIN Entries(mid, d, t) = DOMAIN Entries(fs, d, t)
        /\ \A i \in DOMAIN Entries(fs, d, t) :
              Entries(mid, d, t)[i] = PatchEntry(At(fs, <<d, t, i>>), x, y)
    BY <1>4 DEF At
  <2>2. CASE d = pl[1] /\ t = pl[2]
    <3>1. es = Entries(mid, d, t)
      BY <2>2 DEF es
    <3>2. Entries(new, d, t) = ns
      BY <1>9, <2>2
    <3>3. ASSUME NEW i \in DOMAIN Entries(fs, d, t)
          PROVE  ns[i] = RenamedAt(fs, pl, x, y, n, <<d, t, i>>)
      <4>1. ns[i] = IF i = pl[3] THEN e ELSE es[i]
        BY <2>1, <3>1
      <4>2. es[i] = PatchEntry(At(fs, <<d, t, i>>), x, y)
        BY <2>1, <3>1
      <4> DEFINE p == <<d, t, i>>
      <4>3. p = pl <=> i = pl[3]
        BY <1>2, <2>2
      <4> HIDE DEF p, ns
      <4> QED
        BY <1>10, <4>1, <4>2, <4>3 DEF RenamedAt, p
    <3> QED
      BY <2>1, <3>1, <3>2, <3>3
  <2>3. CASE ~(d = pl[1] /\ t = pl[2])
    <3>1. Entries(new, d, t) = Entries(mid, d, t)
      BY <1>9, <2>3
    <3>2. \A i : <<d, t, i>> # pl
      BY <1>2, <2>3
    <3> QED
      BY <2>1, <3>1, <3>2 DEF RenamedAt
  <2> QED
    BY <2>2, <2>3
<1> QED
  BY <1>11 DEF pl, new

\* The places after a rename, and what stands there.
LEMMA PlacesRenamed ==
    ASSUME NEW fs, Sound(fs), NEW x \in Nodes(fs), NEW n \in Names, ~IsModule(Found(fs, x)),
           ~RenameRejects(fs, x, n)
    PROVE  LET pl == Found(fs, x)
               y == ID(pl[1], pl[2], n)
               after == RenameTree(fs, x, n)
           IN  /\ Docs(after) = Docs(fs) /\ Unreadable(after) = Unreadable(fs)
               /\ Places(after) = Places(fs)
               /\ \A p \in Places(fs) : At(after, p) = RenamedAt(fs, pl, x, y, n, p)
<1> DEFINE pl == Found(fs, x)
           y == ID(pl[1], pl[2], n)
           new == Renamed(fs, x, n)
           after == RenameTree(fs, x, n)
<1>1. pl \in Places(fs) /\ pl[2] # "module"
  BY NodeFound DEF IsModule
<1>2. /\ Sound(new) /\ DOMAIN new = DOMAIN fs
  BY EntryRenamed
<1>3. SameDocs(new, after) /\ Sound(after)
  BY RenameEdits
<1>4. \A d \in Docs(fs), t \in Types :
         /\ DOMAIN Entries(new, d, t) = DOMAIN Entries(fs, d, t)
         /\ \A i \in DOMAIN Entries(fs, d, t) :
               Entries(new, d, t)[i] = RenamedAt(fs, pl, x, y, n, <<d, t, i>>)
  BY EntriesRenamed
<1> HIDE DEF pl, y, new, after
<1>5. ModuleSeq(new) = ModuleSeq(fs)
  <2>1. ProjectDir \in Docs(fs) /\ "module" \in Types /\ DocPath(ProjectDir) = ProjectPath
    BY TypesApart DEF Docs, DocPath
  <2> DEFINE es == Entries(fs, ProjectDir, "module")
             ns == Entries(new, ProjectDir, "module")
  <2>2. DOMAIN ns = DOMAIN es
    BY <1>4, <2>1
  <2>3. ASSUME NEW i \in DOMAIN es PROVE ns[i].name = es[i].name
    <3> DEFINE p == <<ProjectDir, "module", i>>
    <3>1. p \in Places(fs) /\ p[2] = "module"
      BY <2>1, PlaceIs
    <3>2. At(fs, p) = es[i]
      BY DEF At
    <3>3. ns[i] = RenamedAt(fs, pl, x, y, n, p)
      BY <1>4, <2>1
    <3>4. At(fs, p) \in NodeEntry
      BY <3>1, PlaceParts
    <3> HIDE DEF p
    <3>5. ns[i] = PatchEntry(es[i], x, y)
      BY <1>1, <3>1, <3>2, <3>3 DEF RenamedAt
    <3> HIDE DEF es, ns
    <3> QED
      BY <3>2, <3>4, <3>5 DEF PatchEntry, NodeEntry
  <2>4. es = fs[ProjectPath]["module"] /\ ns = new[ProjectPath]["module"]
    BY <2>1 DEF Entries
  <2> HIDE DEF es, ns
  <2> QED
    BY <2>2, <2>3, <2>4 DEF ModuleSeq
<1>6. Docs(new) = Docs(fs) /\ Unreadable(new) = Unreadable(fs)
  BY <1>2, <1>5 DEF Docs, Unreadable, Modules
<1>7. Places(new) = Places(fs)
  BY <1>4, <1>6 DEF Places
<1>8. ASSUME NEW p \in Places(fs) PROVE At(new, p) = RenamedAt(fs, pl, x, y, n, p)
  <2>1. /\ p = <<p[1], p[2], p[3]>> /\ p[1] \in Docs(fs) /\ p[2] \in Types
        /\ p[3] \in DOMAIN Entries(fs, p[1], p[2])
    BY PlaceParts
  <2> QED
    BY <1>4, <2>1 DEF At
<1>9. /\ Docs(after) = Docs(new) /\ Places(after) = Places(new)
      /\ \A p \in Places(new) : At(after, p) = At(new, p)
  BY <1>2, <1>3, SamePlaces
<1>10. Unreadable(after) = Unreadable(new)
  <2>1. ProjectDir \in AllDirs /\ DocPath(ProjectDir) = ProjectPath /\ ProjectPath \in DOMAIN new
    BY <1>2 DEF AllDirs, DocPath, Sound, IsTree
  <2>2. Modules(after) = Modules(new)
    BY <1>3, <2>1 DEF SameDocs, Modules, ModuleSeq
  <2>3. Docs(new) = {ProjectDir} \cup (Modules(new) \ Unreadable(new))
        /\ Docs(after) = {ProjectDir} \cup (Modules(after) \ Unreadable(after))
        /\ Unreadable(new) \subseteq Modules(new) /\ Unreadable(after) \subseteq Modules(after)
    BY DEF Docs, Unreadable
  <2>4. DocPath(ProjectDir) \in DOMAIN after
    BY <1>3, <2>1 DEF SameDocs
  <2>5. ProjectDir \notin Unreadable(new) /\ ProjectDir \notin Unreadable(after)
    BY <2>1, <2>4 DEF Unreadable
  <2> QED
    BY <1>9, <2>2, <2>3, <2>5
<1> QED
  BY <1>6, <1>7, <1>8, <1>9, <1>10 DEF pl, y, after

\* The leaves after a rename to a place that is free.
LEMMA LeavesRenamed ==
    ASSUME NEW fs, Sound(fs), NodesDistinct(fs), Buildable(fs),
           NEW x \in Nodes(fs), NEW n \in Names, ~IsModule(Found(fs, x)),
           ~RenameRejects(fs, x, n),
           Found(fs, x)[2] \in ContentTypes =>
              NewPlace(fs, x, n) \notin DOMAIN fs \ {LeafOf(fs, Found(fs, x))},
           NEW p \in WithLeaf(fs)
    PROVE  LET pl == Found(fs, x)
               y == ID(pl[1], pl[2], n)
               after == RenameTree(fs, x, n)
           IN  /\ LeafOf(after, p) \in DOMAIN after
               /\ after[LeafOf(after, p)] = PatchLeaf(fs[LeafOf(fs, p)], x, y)
<1> DEFINE pl == Found(fs, x)
           y == ID(pl[1], pl[2], n)
           mid == Patched(fs, x, y)
           new == Renamed(fs, x, n)
           after == RenameTree(fs, x, n)
           place == NewPlace(fs, x, n)
           leaf == LeafOf(fs, pl)
           own == LeafOf(fs, p)
           path == LeafOf(after, p)
<1>1. pl \in Places(fs)
  BY NodeFound
<1>2. /\ p \in Places(fs) /\ p[2] \in ContentTypes /\ own \in LeafPaths
      /\ own = LeafPath(p[1], p[2], At(fs, p).slug)
  BY LeafParts
<1>3. own \in DOMAIN fs
  BY DEF Buildable, MissingLeaves
<1>4. mid[own] = PatchLeaf(fs[own], x, y)
  <2> DEFINE leaves == {LeafOf(fs, q) : q \in WithLeaf(fs)}
             docs == {DocPath(d) : d \in Docs(fs)}
  <2>1. mid = [q \in DOMAIN fs |-> CASE q \in docs -> PatchDoc(fs[q], x, y)
                                     [] q \in leaves -> PatchLeaf(fs[q], x, y)
                                     [] OTHER -> fs[q]]
    BY DEF Patched
  <2>2. own \notin docs
    BY <1>2, DocOfSound, PathsApart
  <2>3. own \in leaves
    OBVIOUS
  <2> HIDE DEF leaves, docs, mid, own
  <2> QED
    BY <1>3, <2>1, <2>2, <2>3
<1>5. DOMAIN new = DOMAIN fs /\ \A q \in DOMAIN fs \cap LeafPaths : new[q] = mid[q]
  BY EntryRenamed
<1>6. after = IF ~Moves(fs, x, n) THEN new
              ELSE With(Without(new, {leaf}), place, mid[leaf])
  BY DEF RenameTree, Renamed, Moves
<1>7. path = IF p = pl THEN place ELSE own
  <2>1. At(after, p) = RenamedAt(fs, pl, x, y, n, p)
    BY <1>2, PlacesRenamed
  <2>2. At(fs, p) \in NodeEntry
    BY <1>2, PlaceParts
  <2> HIDE DEF after, y, pl
  <2>3. At(after, p).slug = IF p = pl THEN Slug[n] ELSE At(fs, p).slug
    BY <2>1, <2>2 DEF RenamedAt, PatchEntry, NodeEntry
  <2> QED
    BY <1>2, <2>3 DEF LeafOf, NewPlace, pl
<1>8. p # pl => own # leaf \/ pl \notin WithLeaf(fs)
  BY LeafIsOwn
<1>9. Moves(fs, x, n) => pl \in WithLeaf(fs) /\ place # leaf /\ place \notin DOMAIN fs \ {leaf}
  BY <1>1 DEF Moves, WithLeaf
<1>10. p = pl /\ ~Moves(fs, x, n) => place = own
  BY <1>2 DEF Moves
<1> HIDE DEF pl, mid, new, after, place, leaf, path, own
<1>11. CASE ~Moves(fs, x, n)
  <2>1. path = own /\ after = new
    BY <1>6, <1>7, <1>10, <1>11
  <2> QED
    BY <1>2, <1>3, <1>4, <1>5, <2>1 DEF path, after, own, y, pl
<1>12. CASE Moves(fs, x, n)
  <2> DEFINE less == Without(new, {leaf})
  <2>1. /\ DOMAIN less = DOMAIN fs \ {leaf}
        /\ \A q \in DOMAIN fs \ {leaf} : less[q] = new[q]
    BY <1>5 DEF Without
  <2> HIDE DEF less
  <2>2. /\ DOMAIN after = DOMAIN less \cup {place} /\ after[place] = mid[leaf]
        /\ \A q \in DOMAIN less : q # place => after[q] = less[q]
    BY <1>6, <1>12 DEF With, less
  <2>3. path \in DOMAIN after /\ after[path] = mid[own]
    <3>1. CASE p = pl
      <4>1. own = leaf /\ path = place
        BY <1>7, <3>1 DEF own, leaf
      <4> QED
        BY <2>2, <4>1
    <3>2. CASE p # pl
      <4>1. own # leaf /\ path = own /\ own # place
        BY <1>3, <1>7, <1>8, <1>9, <1>12, <3>2
      <4> QED
        BY <1>2, <1>3, <1>5, <2>1, <2>2, <4>1
    <3> QED
      BY <3>1, <3>2
  <2> QED
    BY <1>4, <2>3 DEF path, after, own, y, pl
<1> QED
  BY <1>11, <1>12

\* One tree is another with the node x called y: in its entry, in every
\* reference and in every link.
Relabels(fs, after, x, y) ==
    /\ Docs(after) = Docs(fs) /\ Unreadable(after) = Unreadable(fs) /\ Places(after) = Places(fs)
    /\ \A p \in Places(fs) :
          /\ At(after, p).id = Repoint(x, y, At(fs, p).id)
          /\ At(after, p).val = At(fs, p).val
          /\ \A f \in Refs[p[2]] :
                /\ DOMAIN At(after, p).refs[f] = DOMAIN At(fs, p).refs[f]
                /\ \A i \in DOMAIN At(fs, p).refs[f] :
                      At(after, p).refs[f][i] = Repoint(x, y, At(fs, p).refs[f][i])
    /\ \A p \in WithLeaf(fs) :
          /\ LeafOf(after, p) \in DOMAIN after
          /\ after[LeafOf(after, p)].links = {Repoint(x, y, z) : z \in fs[LeafOf(fs, p)].links}

\* A rename, of a node whose id is no other's.
LEMMA RenameRelabels ==
    ASSUME NEW fs, Sound(fs), NodesDistinct(fs), Buildable(fs),
           NEW x \in Nodes(fs), NEW n \in Names, ~IsModule(Found(fs, x)),
           ~RenameRejects(fs, x, n),
           Found(fs, x)[2] \in ContentTypes =>
              NewPlace(fs, x, n) \notin DOMAIN fs \ {LeafOf(fs, Found(fs, x))},
           \A p \in Places(fs) : At(fs, p).id = x => p = Found(fs, x)
    PROVE  LET pl == Found(fs, x)
               after == RenameTree(fs, x, n)
           IN  /\ Relabels(fs, after, x, ID(pl[1], pl[2], n))
               /\ At(after, pl).name = n
               /\ \A p \in Places(fs) : p # pl => At(after, p).name = At(fs, p).name
<1> DEFINE pl == Found(fs, x)
           y == ID(pl[1], pl[2], n)
           after == RenameTree(fs, x, n)
<1>1. pl \in Places(fs) /\ At(fs, pl).id = x
  BY NodeFound
<1>2. /\ Docs(after) = Docs(fs) /\ Unreadable(after) = Unreadable(fs) /\ Places(after) = Places(fs)
      /\ \A p \in Places(fs) : At(after, p) = RenamedAt(fs, pl, x, y, n, p)
  BY PlacesRenamed
<1>3. \A p \in WithLeaf(fs) : /\ LeafOf(after, p) \in DOMAIN after
                              /\ after[LeafOf(after, p)] = PatchLeaf(fs[LeafOf(fs, p)], x, y)
  BY LeavesRenamed
<1>4. ASSUME NEW p \in WithLeaf(fs)
      PROVE  after[LeafOf(after, p)].links = {Repoint(x, y, z) : z \in fs[LeafOf(fs, p)].links}
  <2>1. fs[LeafOf(fs, p)] \in Leaf
    <3>1. LeafOf(fs, p) \in LeafPaths /\ LeafOf(fs, p) \in DOMAIN fs
      BY LeafParts DEF Buildable, MissingLeaves
    <3> QED
      BY <3>1, PathsApart DEF Sound, IsTree
  <2> DEFINE file == fs[LeafOf(fs, p)]
  <2>2. PatchLeaf(file, x, y).links = {Repoint(x, y, z) : z \in file.links}
    <3> HIDE DEF file, y
    <3> QED
      BY <2>1 DEF PatchLeaf, Leaf, file
  <2> HIDE DEF file, after, y
  <2> QED
    BY <1>3, <2>2 DEF file
<1> HIDE DEF pl, y, after
<1>5. ASSUME NEW p \in Places(fs)
      PROVE  /\ At(after, p).id = Repoint(x, y, At(fs, p).id)
             /\ At(after, p).val = At(fs, p).val
             /\ At(after, p).name = IF p = pl THEN n ELSE At(fs, p).name
             /\ \A f \in Refs[p[2]] :
                   /\ DOMAIN At(after, p).refs[f] = DOMAIN At(fs, p).refs[f]
                   /\ \A i \in DOMAIN At(fs, p).refs[f] :
                         At(after, p).refs[f][i] = Repoint(x, y, At(fs, p).refs[f][i])
  <2> DEFINE e == At(fs, p)
             b == PatchEntry(e, x, y)
  <2>1. e \in NodeEntry /\ p[2] \in Types
    BY PlaceParts
  <2> HIDE DEF e
  <2>2. /\ b.id = e.id /\ b.val = e.val /\ b.name = e.name
        /\ \A f \in Fields : b.refs[f] = [i \in DOMAIN e.refs[f] |-> Repoint(x, y, e.refs[f][i])]
        /\ DOMAIN b = DOMAIN e
    BY <2>1 DEF PatchEntry, NodeEntry
  <2>3. DOMAIN e = {"id", "name", "slug", "val", "refs"}
    BY <2>1 DEF NodeEntry
  <2> HIDE DEF b
  <2>4. At(after, p) = IF p = pl THEN [b EXCEPT !.id = y, !.name = n, !.slug = Slug[n]] ELSE b
    BY <1>2 DEF RenamedAt, b, e
  <2>5. /\ At(after, p).id = IF p = pl THEN y ELSE e.id
        /\ At(after, p).val = e.val /\ At(after, p).refs = b.refs
        /\ At(after, p).name = IF p = pl THEN n ELSE e.name
    BY <2>2, <2>3, <2>4
  <2>6. At(after, p).id = Repoint(x, y, e.id)
    BY <1>1, <2>5 DEF Repoint, e, pl
  <2>7. \A f \in Refs[p[2]] : f \in Fields
    BY <2>1, FieldOfType
  <2>8. ASSUME NEW f \in Refs[p[2]]
        PROVE  /\ DOMAIN At(after, p).refs[f] = DOMAIN e.refs[f]
               /\ \A i \in DOMAIN e.refs[f] : At(after, p).refs[f][i] = Repoint(x, y, e.refs[f][i])
    <3>1. At(after, p).refs[f] = [i \in DOMAIN e.refs[f] |-> Repoint(x, y, e.refs[f][i])]
      BY <2>2, <2>5, <2>7
    <3> QED
      BY <3>1
  <2> QED
    BY <2>5, <2>6, <2>8 DEF e
<1> QED
  BY <1>1, <1>2, <1>3, <1>4, <1>5 DEF Relabels, pl, y, after

\* Other ids stay apart from the new one.
LEMMA RepointApart ==
    ASSUME NEW x, NEW y, NEW a, NEW b, a # y, b # y, Repoint(x, y, a) = Repoint(x, y, b)
    PROVE  a = b
BY DEF Repoint

\* Ids, repointed.
Repointed(S, x, y) == {Repoint(x, y, z) : z \in S}

\* The references and the nodes of a relabelled tree.
LEMMA RefsRelabelled ==
    ASSUME NEW fs, NEW after, Sound(fs), Sound(after), NEW x, NEW y, Relabels(fs, after, x, y),
           NEW p \in Places(fs), NEW f \in Refs[p[2]]
    PROVE  /\ Range(At(after, p).refs[f]) = Repointed(Range(At(fs, p).refs[f]), x, y)
           /\ At(after, p).refs[f] = <<>> <=> At(fs, p).refs[f] = <<>>
<1> DEFINE old == At(fs, p).refs[f]
           new == At(after, p).refs[f]
<1>1. DOMAIN new = DOMAIN old /\ \A i \in DOMAIN old : new[i] = Repoint(x, y, old[i])
  BY DEF Relabels
<1>2. old \in Seq(IDs) /\ new \in Seq(IDs)
  BY EntryAt DEF Relabels
<1> HIDE DEF old, new
<1>3. Range(new) = Repointed(Range(old), x, y)
  BY <1>1 DEF Range, Repointed
<1>4. new = <<>> <=> old = <<>>
  BY <1>1, <1>2
<1> QED
  BY <1>3, <1>4 DEF old, new

LEMMA NodesRelabelled ==
    ASSUME NEW fs, NEW after, NEW x, NEW y, Relabels(fs, after, x, y)
    PROVE  /\ NodeIDs(after) = {Repoint(x, y, z) : z \in NodeIDs(fs)}
           /\ WithLeaf(after) = WithLeaf(fs)
BY DEF Relabels, NodeIDs, WithLeaf

\* The edges of a type's field, by the places they are at.
LEMMA EdgeIs ==
    ASSUME NEW fs, Sound(fs), NEW d \in Docs(fs), NEW t \in Types, NEW f, NEW a, NEW b
    PROVE  <<a, b>> \in EdgesOf(fs, d, t, f) <=>
             \E p \in Places(fs) : /\ p[1] = d /\ p[2] = t /\ At(fs, p).id = a
                                   /\ b \in Range(At(fs, p).refs[f])
<1> DEFINE es == Entries(fs, d, t)
           of(e) == {<<e.id, z>> : z \in Range(e.refs[f])}
<1>1. EdgesOf(fs, d, t, f) = UNION {of(e) : e \in Range(es)}
  BY DEF EdgesOf
<1>2. \A e : <<a, b>> \in of(e) <=> a = e.id /\ b \in Range(e.refs[f])
  OBVIOUS
<1> HIDE DEF of
<1>3. <<a, b>> \in EdgesOf(fs, d, t, f) <=>
        \E i \in DOMAIN es : a = es[i].id /\ b \in Range(es[i].refs[f])
  <2>1. <<a, b>> \in EdgesOf(fs, d, t, f) <=> \E e \in Range(es) : <<a, b>> \in of(e)
    BY <1>1
  <2>2. \A e : e \in Range(es) <=> \E i \in DOMAIN es : e = es[i]
    BY DEF Range
  <2> HIDE DEF es
  <2> QED
    BY <1>2, <2>1, <2>2
<1>4. ASSUME NEW i \in DOMAIN es
      PROVE  LET p == <<d, t, i>>
             IN  p \in Places(fs) /\ p[1] = d /\ p[2] = t /\ At(fs, p) = es[i]
  BY PlaceIs DEF At
<1>5. ASSUME NEW p \in Places(fs), p[1] = d, p[2] = t
      PROVE  p[3] \in DOMAIN es /\ At(fs, p) = es[p[3]]
  BY <1>5, PlaceParts
<1> HIDE DEF es
<1> QED
  BY <1>3, <1>4, <1>5

\* Nodes that depend on one another did so before they were relabelled.
LEMMA DependenceRelabelled ==
    ASSUME NEW fs, NEW after, Sound(fs), Sound(after), NEW x, NEW y, Relabels(fs, after, x, y),
           \A p \in Places(fs) : At(fs, p).id # y, AllAnswered(fs),
           NEW d \in Docs(fs), NEW tf \in Acyclic,
           DependsOnItself(EdgesOf(after, d, tf[1], tf[2]))
    PROVE  DependsOnItself(EdgesOf(fs, d, tf[1], tf[2]))
<1> DEFINE t == tf[1]
           f == tf[2]
           Old(u, v) == <<u, v>> \in EdgesOf(fs, d, t, f)
           New(u, v) == <<u, v>> \in EdgesOf(after, d, t, f)
<1>1. t \in Types /\ f \in Refs[t]
  BY AuthorAssumption
<1>2. Docs(after) = Docs(fs) /\ Places(after) = Places(fs)
  BY DEF Relabels
<1>3. DependsOnItself(EdgesOf(after, d, t, f))
  OBVIOUS
<1> HIDE DEF t, f, Old, New
<1>4. ASSUME NEW a, NEW b, New(a, b)
      PROVE  \E u, v : Old(u, v) /\ a = Repoint(x, y, u) /\ b = Repoint(x, y, v)
  <2>1. PICK p \in Places(after) : /\ p[1] = d /\ p[2] = t /\ At(after, p).id = a
                                   /\ b \in Range(At(after, p).refs[f])
    BY <1>1, <1>2, <1>4, EdgeIs DEF New
  <2>2. a = Repoint(x, y, At(fs, p).id)
    BY <1>2, <2>1 DEF Relabels
  <2>3. PICK v \in Range(At(fs, p).refs[f]) : b = Repoint(x, y, v)
    <3>1. p \in Places(fs) /\ f \in Refs[p[2]]
      BY <1>1, <1>2, <2>1
    <3>2. Range(At(after, p).refs[f]) = Repointed(Range(At(fs, p).refs[f]), x, y)
      BY <3>1, RefsRelabelled
    <3> QED
      BY <2>1, <3>2 DEF Repointed
  <2>4. Old(At(fs, p).id, v)
    BY <1>1, <1>2, <2>1, EdgeIs DEF Old
  <2> QED
    BY <2>2, <2>3, <2>4
<1>5. ASSUME NEW u, NEW v, Old(u, v) PROVE u # y /\ v # y
  <2>1. PICK p \in Places(fs) : /\ p[1] = d /\ p[2] = t /\ At(fs, p).id = u
                                /\ v \in Range(At(fs, p).refs[f])
    BY <1>1, <1>5, EdgeIs DEF Old
  <2>2. Answered(fs, p, f, v)
    BY <1>1, <2>1 DEF AllAnswered
  <2> QED
    BY <2>1, <2>2 DEF Answered
<1>6. PICK S : /\ S \subseteq {e[1] : e \in EdgesOf(after, d, t, f)} /\ S # {}
               /\ \A a \in S : \E b \in S : New(a, b)
  BY <1>3 DEF DependsOnItself, New
<1> DEFINE sources == {e[1] : e \in EdgesOf(fs, d, t, f)}
           T == {u \in sources : Repoint(x, y, u) \in S}
<1>7. ASSUME NEW a \in S
      PROVE  \E u, v \in T : Old(u, v) /\ a = Repoint(x, y, u)
  <2>1. PICK b \in S : New(a, b)
    BY <1>6
  <2>2. PICK u, v : Old(u, v) /\ a = Repoint(x, y, u) /\ b = Repoint(x, y, v)
    BY <1>4, <2>1
  <2>3. PICK c \in S : New(b, c)
    BY <1>6
  <2>4. PICK v2, w : Old(v2, w) /\ b = Repoint(x, y, v2) /\ c = Repoint(x, y, w)
    BY <1>4, <2>3
  <2>5. v = v2
    BY <1>5, <2>2, <2>4, RepointApart
  <2>6. \A i, k : Old(i, k) => i \in sources
    <3>1. \A i, k : <<i, k>>[1] = i
      OBVIOUS
    <3> QED
      BY <3>1 DEF Old
  <2>7. u \in T /\ v \in T
    BY <2>2, <2>4, <2>5, <2>6
  <2> QED
    BY <2>2, <2>7
<1>8. ASSUME NEW u \in T PROVE \E v \in T : Old(u, v)
  <2>1. PICK u2 \in T, v \in T : Old(u2, v) /\ Repoint(x, y, u) = Repoint(x, y, u2)
    BY <1>7
  <2>2. PICK w : Old(u, w)
    <3>1. PICK e \in EdgesOf(fs, d, t, f) : u = e[1]
      OBVIOUS
    <3>2. PICK n \in Range(Entries(fs, d, t)) : e \in {<<n.id, z>> : z \in Range(n.refs[f])}
      BY DEF EdgesOf
    <3>3. e = <<e[1], e[2]>>
      BY <3>2
    <3> QED
      BY <3>1, <3>3 DEF Old
  <2>3. u # y
    BY <1>5, <2>2
  <2>4. u = u2
    BY <1>5, <2>1, <2>3, RepointApart
  <2> QED
    BY <2>1, <2>4
<1>9. T # {} /\ T \subseteq sources
  BY <1>6, <1>7
<1> HIDE DEF T
<1>10. DependsOnItself(EdgesOf(fs, d, t, f))
  BY <1>8, <1>9 DEF DependsOnItself, Old
<1> QED
  BY <1>10 DEF t, f

\* A valid tree relabelled is valid when the new name is in order.
LEMMA RelabelledIsValid ==
    ASSUME NEW fs, NEW after, Sound(fs), Sound(after), Valid(fs), NEW x, NEW y,
           Relabels(fs, after, x, y), \A p \in Places(fs) : At(fs, p).id # y,
           NamesAlone(after), NamesInOrder(after), DerivedIn(after, Types)
    PROVE  Valid(after)
<1>1. /\ Buildable(fs) /\ IDsOfTypesApart(fs) /\ ValuesGood(fs) /\ RequiredGiven(fs)
      /\ AllAnswered(fs) /\ NoneDependent(fs) /\ LinksLead(fs)
  BY ValidIs
<1>2. Docs(after) = Docs(fs) /\ Unreadable(after) = Unreadable(fs) /\ Places(after) = Places(fs)
  BY DEF Relabels
<1>3. /\ NodeIDs(after) = {Repoint(x, y, z) : z \in NodeIDs(fs)}
      /\ WithLeaf(after) = WithLeaf(fs)
  BY NodesRelabelled
<1>4. Buildable(after)
  <2>1. MissingLeaves(after) = {}
    BY <1>3 DEF MissingLeaves, Relabels
  <2> QED
    BY <1>1, <1>2, <2>1 DEF Buildable
<1>5. IDsOfTypesApart(after)
  <2> SUFFICES ASSUME NEW p \in Places(fs), NEW q \in Places(fs), p[2] = q[2], p # q
               PROVE  At(after, p).id # At(after, q).id
    BY <1>2 DEF IDsOfTypesApart
  <2>1. At(fs, p).id # At(fs, q).id
    BY <1>1 DEF IDsOfTypesApart
  <2>2. At(after, p).id = Repoint(x, y, At(fs, p).id) /\ At(after, q).id = Repoint(x, y, At(fs, q).id)
    BY DEF Relabels
  <2> QED
    BY <2>1, <2>2, RepointApart
<1>6. ValuesGood(after)
  BY <1>1, <1>2 DEF ValuesGood, Relabels
<1>7. RequiredGiven(after)
  BY <1>1, <1>2, RefsRelabelled DEF RequiredGiven
<1>8. AllAnswered(after)
  <2> SUFFICES ASSUME NEW p \in Places(fs), NEW f \in Refs[p[2]], NEW b \in Range(At(after, p).refs[f])
               PROVE  Answered(after, p, f, b)
    BY <1>2 DEF AllAnswered
  <2>1. Range(At(after, p).refs[f]) = Repointed(Range(At(fs, p).refs[f]), x, y)
    BY RefsRelabelled
  <2>2. PICK z \in Range(At(fs, p).refs[f]) : b = Repoint(x, y, z)
    BY <2>1 DEF Repointed
  <2>3. Answered(fs, p, f, z)
    BY <1>1 DEF AllAnswered
  <2>4. PICK q \in Places(fs) : /\ At(fs, q).id = z /\ q[2] = Target[f]
                                /\ q[1] \in {p[1], ProjectDir}
    BY <2>3 DEF Answered
  <2>5. At(after, q).id = b
    BY <2>2, <2>4 DEF Relabels
  <2> QED
    BY <1>2, <2>4, <2>5 DEF Answered
<1>9. NoneDependent(after)
  <2> SUFFICES ASSUME NEW d \in Docs(fs), NEW tf \in Acyclic,
                      DependsOnItself(EdgesOf(after, d, tf[1], tf[2]))
               PROVE  FALSE
    BY <1>2 DEF NoneDependent
  <2>1. DependsOnItself(EdgesOf(fs, d, tf[1], tf[2]))
    BY <1>1, DependenceRelabelled
  <2> QED
    BY <1>1, <2>1 DEF NoneDependent
<1>10. LinksLead(after)
  <2> SUFFICES ASSUME NEW p \in WithLeaf(fs), NEW b \in after[LeafOf(after, p)].links
               PROVE  b \in NodeIDs(after)
    BY <1>3 DEF LinksLead
  <2>1. PICK z \in fs[LeafOf(fs, p)].links : b = Repoint(x, y, z)
    BY DEF Relabels
  <2> QED
    BY <1>1, <1>3, <2>1 DEF LinksLead
<1> QED
  BY <1>4, <1>5, <1>6, <1>7, <1>8, <1>9, <1>10, ValidIs

\* The edges of a spec are the references and links of its nodes.
LEMMA GraphIs ==
    ASSUME NEW fs, NEW e
    PROVE  e \in Graph(fs) <=>
             \/ \E p \in Places(fs) : \E f \in Refs[p[2]] : \E z \in Range(At(fs, p).refs[f]) :
                   e = <<At(fs, p).id, f, z>>
             \/ \E p \in WithLeaf(fs) : \E z \in fs[LeafOf(fs, p)].links :
                   e = <<At(fs, p).id, "link", z>>
<1> DEFINE of(p, f) == {<<At(fs, p).id, f, z>> : z \in Range(At(fs, p).refs[f])}
           refs(p) == UNION {of(p, f) : f \in Refs[p[2]]}
           links(p) == {<<At(fs, p).id, "link", z>> : z \in fs[LeafOf(fs, p)].links}
<1>1. Graph(fs) = (UNION {refs(p) : p \in Places(fs)}) \cup UNION {links(p) : p \in WithLeaf(fs)}
  BY DEF Graph
<1>2. \A p, f : e \in of(p, f) <=> \E z \in Range(At(fs, p).refs[f]) : e = <<At(fs, p).id, f, z>>
  OBVIOUS
<1>3. \A p : e \in links(p) <=> \E z \in fs[LeafOf(fs, p)].links : e = <<At(fs, p).id, "link", z>>
  OBVIOUS
<1> HIDE DEF of, links
<1>4. \A p : e \in refs(p) <=> \E f \in Refs[p[2]] : e \in of(p, f)
  OBVIOUS
<1> HIDE DEF refs
<1>5. e \in Graph(fs) <=> \/ \E p \in Places(fs) : e \in refs(p)
                          \/ \E p \in WithLeaf(fs) : e \in links(p)
  BY <1>1
<1> QED
  BY <1>2, <1>3, <1>4, <1>5

\* The graph of a relabelled tree is the graph relabelled.
LEMMA GraphRelabelled ==
    ASSUME NEW fs, NEW after, Sound(fs), Sound(after), NEW x, NEW y, Relabels(fs, after, x, y)
    PROVE  Graph(after) = {<<Repoint(x, y, e[1]), e[2], Repoint(x, y, e[3])>> : e \in Graph(fs)}
<1> DEFINE moved(e) == <<Repoint(x, y, e[1]), e[2], Repoint(x, y, e[3])>>
           image == {moved(e) : e \in Graph(fs)}
<1>1. Places(after) = Places(fs) /\ WithLeaf(after) = WithLeaf(fs)
  BY DEF Relabels, WithLeaf
<1>2. \A p \in Places(fs) : At(after, p).id = Repoint(x, y, At(fs, p).id)
  BY DEF Relabels
<1>3. \A p \in WithLeaf(fs) : p \in Places(fs)
  BY DEF WithLeaf
<1>4. \A a, f, b : moved(<<a, f, b>>) = <<Repoint(x, y, a), f, Repoint(x, y, b)>>
  OBVIOUS
<1> HIDE DEF moved
<1>5. ASSUME NEW e \in Graph(after) PROVE e \in image
  <2>1. CASE \E p \in Places(after) : \E f \in Refs[p[2]] : \E z \in Range(At(after, p).refs[f]) :
                e = <<At(after, p).id, f, z>>
    <3> PICK p \in Places(fs) : \E f \in Refs[p[2]] :
           \E b \in Range(At(after, p).refs[f]) : e = <<At(after, p).id, f, b>>
      BY <1>1, <2>1
    <3>1. PICK f \in Refs[p[2]] : \E b \in Range(At(after, p).refs[f]) : e = <<At(after, p).id, f, b>>
      OBVIOUS
    <3>2. PICK b \in Range(At(after, p).refs[f]) : e = <<At(after, p).id, f, b>>
      BY <3>1
    <3>3. Range(At(after, p).refs[f]) = Repointed(Range(At(fs, p).refs[f]), x, y)
      BY RefsRelabelled
    <3>4. PICK z \in Range(At(fs, p).refs[f]) : b = Repoint(x, y, z)
      BY <3>2, <3>3 DEF Repointed
    <3>5. <<At(fs, p).id, f, z>> \in Graph(fs)
      BY GraphIs
    <3>6. e = moved(<<At(fs, p).id, f, z>>)
      BY <1>2, <1>4, <3>2, <3>4
    <3> QED
      BY <3>5, <3>6
  <2>2. CASE \E p \in WithLeaf(after) : \E z \in after[LeafOf(after, p)].links :
                e = <<At(after, p).id, "link", z>>
    <3>1. PICK p \in WithLeaf(fs) : \E b \in after[LeafOf(after, p)].links : e = <<At(after, p).id, "link", b>>
      BY <1>1, <2>2
    <3>2. PICK b \in after[LeafOf(after, p)].links : e = <<At(after, p).id, "link", b>>
      BY <3>1
    <3>3. PICK z \in fs[LeafOf(fs, p)].links : b = Repoint(x, y, z)
      BY <3>2 DEF Relabels
    <3>4. <<At(fs, p).id, "link", z>> \in Graph(fs)
      BY GraphIs
    <3>5. e = moved(<<At(fs, p).id, "link", z>>)
      BY <1>2, <1>3, <1>4, <3>2, <3>3
    <3> QED
      BY <3>4, <3>5
  <2> QED
    BY <2>1, <2>2, GraphIs
<1>6. ASSUME NEW e \in Graph(fs) PROVE moved(e) \in Graph(after)
  <2>1. CASE \E p \in Places(fs) : \E f \in Refs[p[2]] : \E z \in Range(At(fs, p).refs[f]) :
                e = <<At(fs, p).id, f, z>>
    <3> PICK p \in Places(fs) : \E f \in Refs[p[2]] :
           \E z \in Range(At(fs, p).refs[f]) : e = <<At(fs, p).id, f, z>>
      BY <2>1
    <3>1. PICK f \in Refs[p[2]] : \E z \in Range(At(fs, p).refs[f]) : e = <<At(fs, p).id, f, z>>
      OBVIOUS
    <3>2. PICK z \in Range(At(fs, p).refs[f]) : e = <<At(fs, p).id, f, z>>
      BY <3>1
    <3>3. Range(At(after, p).refs[f]) = Repointed(Range(At(fs, p).refs[f]), x, y)
      BY RefsRelabelled
    <3>4. Repoint(x, y, z) \in Range(At(after, p).refs[f])
      BY <3>3 DEF Repointed
    <3>5. moved(e) = <<At(after, p).id, f, Repoint(x, y, z)>>
      BY <1>2, <1>4, <3>2
    <3> QED
      BY <1>1, <3>4, <3>5, GraphIs
  <2>2. CASE \E p \in WithLeaf(fs) : \E z \in fs[LeafOf(fs, p)].links : e = <<At(fs, p).id, "link", z>>
    <3>1. PICK p \in WithLeaf(fs) : \E z \in fs[LeafOf(fs, p)].links : e = <<At(fs, p).id, "link", z>>
      BY <2>2
    <3>2. PICK z \in fs[LeafOf(fs, p)].links : e = <<At(fs, p).id, "link", z>>
      BY <3>1
    <3>3. Repoint(x, y, z) \in after[LeafOf(after, p)].links
      BY DEF Relabels
    <3>4. moved(e) = <<At(after, p).id, "link", Repoint(x, y, z)>>
      BY <1>2, <1>3, <1>4, <3>2
    <3> QED
      BY <1>1, <3>3, <3>4, GraphIs
  <2> QED
    BY <2>1, <2>2, GraphIs
<1>7. Graph(after) = image
  BY <1>5, <1>6
<1> QED
  BY <1>7 DEF moved

\* Ids of a valid spec are ids of one node.
LEMMA ValidApart ==
    ASSUME NEW fs, Sound(fs), Valid(fs), NEW p \in Places(fs), NEW q \in Places(fs),
           At(fs, p).id = At(fs, q).id
    PROVE  p = q
<1>1. DerivedIn(fs, Types) /\ IDsOfTypesApart(fs)
  BY ValidIs
<1> QED
  BY <1>1, ApartIsOwn, DerivedApart

\* An id tells the type it was derived for.
LEMMA IDTellsType ==
    ASSUME NEW d \in AllDirs, NEW e \in AllDirs, NEW t \in Types, NEW u \in Types,
           NEW n \in Names \cup Dirs, NEW m \in Names \cup Dirs, ID(d, t, n) = ID(e, u, m)
    PROVE  t = u
  BY HashAssumption DEF AllDirs

\* The new name of a node is free and in order.
NameIsFree(fs, x, n) ==
    LET pl == Found(fs, x) IN
    /\ ID(pl[1], pl[2], n) \notin NodeIDs(fs)
    /\ pl[2] \in NameDeclarable => n \in Declarable
    /\ pl[2] \in GlobalNames => \A q \in Places(fs) : q[2] = pl[2] => At(fs, q).name # n
    /\ pl[2] \in ContentTypes => NewPlace(fs, x, n) \notin DOMAIN fs \ {LeafOf(fs, pl)}

\* A rename to such a name.
LEMMA FreeRename ==
    ASSUME NEW fs, Sound(fs), NodesDistinct(fs), Valid(fs), NEW x \in NodeIDs(fs), NEW n \in Names,
           NameIsFree(fs, x, n)
    PROVE  LET pl == Found(fs, x)
               after == RenameTree(fs, x, n)
           IN  /\ ~RenameRejects(fs, x, n)
               /\ Sound(after) /\ Valid(after) /\ Relabels(fs, after, x, ID(pl[1], pl[2], n))
<1> DEFINE pl == Found(fs, x)
           y == ID(pl[1], pl[2], n)
           after == RenameTree(fs, x, n)
<1>1. /\ Buildable(fs) /\ NamesAlone(fs) /\ NamesInOrder(fs) /\ DerivedIn(fs, Types)
  BY ValidIs
<1>2. x \in Nodes(fs)
  BY DEF Nodes, NodeIDs
<1>3. pl \in Places(fs) /\ At(fs, pl).id = x
  BY <1>2, NodeFound
<1>4. \A p \in Places(fs) : At(fs, p).id = x => p = pl
  BY <1>3, ValidApart
<1>5. pl[2] # "module" /\ ~IsModule(pl)
  <2>1. PICK p \in Places(fs) : p[2] # "module" /\ At(fs, p).id = x
    BY DEF NodeIDs
  <2> QED
    BY <1>4, <2>1 DEF IsModule
<1>6. pl[2] \in ContentTypes => LeafOf(fs, pl) \in DOMAIN fs
  BY <1>1, <1>3 DEF Buildable, MissingLeaves, WithLeaf
<1>7. ~RenameRejects(fs, x, n)
  BY <1>1, <1>6 DEF RenameRejects, NameIsFree, Buildable
<1>8. Sound(after)
  BY <1>2, <1>5, <1>7, RenameEdits
<1>9. /\ Relabels(fs, after, x, y)
      /\ At(after, pl).name = n
      /\ \A p \in Places(fs) : p # pl => At(after, p).name = At(fs, p).name
  BY <1>1, <1>2, <1>4, <1>5, <1>7, RenameRelabels DEF NameIsFree
<1>10. ASSUME NEW p \in Places(fs) PROVE At(fs, p).id # y
  <2>1. CASE p[2] = "module"
    <3>1. At(fs, p).id = ID(p[1], p[2], At(fs, p).name)
      BY <1>1, PlaceParts DEF DerivedIn
    <3>2. /\ p[1] \in AllDirs /\ p[2] \in Types /\ At(fs, p).name \in Names \cup Dirs
          /\ pl[1] \in AllDirs /\ pl[2] \in Types
      BY <1>3, PlaceParts, EntryAt
    <3> HIDE DEF pl
    <3>3. ID(p[1], p[2], At(fs, p).name) = ID(pl[1], pl[2], n) => p[2] = pl[2]
      BY ONLY <3>2, n \in Names, IDTellsType
    <3> QED
      BY <1>5, <2>1, <3>1, <3>3
  <2>2. CASE p[2] # "module"
    BY <2>2 DEF NameIsFree, NodeIDs
  <2> QED
    BY <2>1, <2>2
<1>11. \A p \in Places(fs) : At(after, p).id = Repoint(x, y, At(fs, p).id)
  BY <1>9 DEF Relabels
<1>12. Places(after) = Places(fs)
  BY <1>9 DEF Relabels
<1>13. /\ pl[2] \in NameDeclarable => n \in Declarable
       /\ pl[2] \in GlobalNames => \A q \in Places(fs) : q[2] = pl[2] => At(fs, q).name # n
  BY DEF NameIsFree
<1> HIDE DEF pl, y, after
<1>14. NamesAlone(after)
  BY <1>1, <1>9, <1>12, <1>13 DEF NamesAlone
<1>15. NamesInOrder(after)
  BY <1>1, <1>9, <1>12, <1>13 DEF NamesInOrder
<1>16. DerivedIn(after, Types)
  <2> SUFFICES ASSUME NEW p \in Places(fs), p[2] \in Types
               PROVE  At(after, p).id = ID(p[1], p[2], At(after, p).name)
    BY <1>12 DEF DerivedIn
  <2>1. CASE p = pl
    <3>1. At(after, p).id = y
      BY <1>3, <1>11, <2>1 DEF Repoint
    <3> QED
      BY <1>9, <2>1, <3>1 DEF y
  <2>2. CASE p # pl
    <3>1. At(after, p).id = At(fs, p).id
      BY <1>4, <1>11, <2>2 DEF Repoint
    <3> QED
      BY <1>1, <1>9, <2>2, <3>1 DEF DerivedIn
  <2> QED
    BY <2>1, <2>2
<1>17. Valid(after)
  BY <1>8, <1>9, <1>10, <1>14, <1>15, <1>16, RelabelledIsValid
<1> QED
  BY <1>7, <1>8, <1>9, <1>17 DEF pl, y, after

\* On every spec an author can reach and that is valid, a rename to a free name is not
\* refused, and its copy has the old graph with the one id replaced: the sweep of
\* sweepLeafLinks and patchIDs leaves no document and no leaf out
\* (author/node_renamer.go).
THEOREM RenamesGoThrough == Spec => []RenameGoesThrough
<1>1. ASSUME AuthorInv, Valid(tree), NEW x \in NodeIDs(tree), NEW n \in Names, NameIsFree(tree, x, n)
      PROVE  LET pl == Found(tree, x)
                 y == ID(pl[1], pl[2], n)
                 after == RenameTree(tree, x, n)
             IN  /\ ~RenameRejects(tree, x, n) /\ ~Refused(tree, after) /\ Buildable(after)
                 /\ Graph(after) = {<<Repoint(x, y, e[1]), e[2], Repoint(x, y, e[3])>> : e \in Graph(tree)}
  <2> DEFINE pl == Found(tree, x)
             y == ID(pl[1], pl[2], n)
             after == RenameTree(tree, x, n)
  <2>1. Sound(tree) /\ NodesDistinct(tree)
    BY <1>1 DEF AuthorInv
  <2>2. /\ ~RenameRejects(tree, x, n)
        /\ Sound(after) /\ Valid(after) /\ Relabels(tree, after, x, y)
    BY <1>1, <2>1, FreeRename
  <2> HIDE DEF y, after
  <2>3. Findings(after) = {} /\ Buildable(after)
    BY <2>2, ValidIsFindingFree, ValidIs
  <2>4. ~Refused(tree, after)
    BY <2>3 DEF Refused, Introduced
  <2>5. Graph(after) = {<<Repoint(x, y, e[1]), e[2], Repoint(x, y, e[3])>> : e \in Graph(tree)}
    BY <2>1, <2>2, GraphRelabelled
  <2> QED
    BY <2>2, <2>3, <2>4, <2>5 DEF y, after
<1>2. AuthorInv => RenameGoesThrough
  BY <1>1, Zenon DEF RenameGoesThrough, NameIsFree
<1> QED
  BY <1>2, SpecStaysSound, PTL
=============================================================================
