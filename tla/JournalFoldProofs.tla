------------------------- MODULE JournalFoldProofs -------------------------
(***************************************************************************)
(* The fold of every journal, of any length and whoever wrote its lines:   *)
(* the declarative Fold is what fold() computes line by line, the position *)
(* of a receipt next to its event does not matter, and the history of a    *)
(* node accounts for its entry.                                            *)
(***************************************************************************)
EXTENDS JournalFold, WellFoundedInduction, TLAPS

-----------------------------------------------------------------------------
(* The last and the first of a set of line numbers. *)

\* A set of line numbers that is not empty has a least one.
LEMMA FirstLine ==
    ASSUME NEW S, S \subseteq Nat, S # {}
    PROVE  Min(S) \in S /\ \A y \in S : Min(S) <= y
<1>1. PICK x \in S : \A y \in S : ~(<<y, x>> \in OpToRel(<, Nat))
  BY NatLessThanWellFounded, WFMin
<1>2. OpToRel(<, Nat) = {ss \in Nat \X Nat : ss[1] < ss[2]}
  BY Zenon DEF OpToRel
<1>3. \A y \in S : x <= y
  <2>1. TAKE y \in S
  <2>2. ~(<<y, x>> \in {ss \in Nat \X Nat : ss[1] < ss[2]})
    BY <1>1, <1>2
  <2> QED
    BY <2>2, SMT
<1> QED
  BY <1>3 DEF Min

\* A set of lines of a journal that is not empty has a greatest one.
LEMMA LastLine ==
    ASSUME NEW n \in Nat, NEW S, S \subseteq 1..n, S # {}
    PROVE  Max(S) \in S /\ \A y \in S : Max(S) >= y
<1> DEFINE T == {n - i : i \in S}
<1>1. T \subseteq Nat
  BY SMT
<1>5. T # {}
  BY Zenon
<1>2. PICK m \in T : \A y \in T : m <= y
  BY <1>1, <1>5, FirstLine
<1>3. PICK x \in S : m = n - x
  BY <1>2
<1>4. \A y \in S : x >= y
  <2>1. TAKE y \in S
  <2>2. n - y \in T
    OBVIOUS
  <2> QED
    BY <1>2, <1>3, <2>2
<1> QED
  BY <1>4 DEF Max
-----------------------------------------------------------------------------
(* The events and the entries a reader finds. *)

\* An indexed event is a line of the journal, and carries the id looked up.
LEMMA ReferentTyped ==
    ASSUME NEW j \in Seq(Event), NEW e, ReferentLines(j, e) # {}
    PROVE  /\ Referent(j, e) \in Event
           /\ Referent(j, e).event \in ReferentKinds
           /\ Referent(j, e).eid = e
<1>1. ReferentLines(j, e) \subseteq 1..Len(j)
  BY DEF ReferentLines
<1>2. Max(ReferentLines(j, e)) \in ReferentLines(j, e)
  BY <1>1, LastLine
<1> QED
  BY <1>2 DEF Referent, ReferentLines

\* The line that decides an entry is one of the lines that write it.
LEMMA DecidingLineWritesEntry ==
    ASSUME NEW j \in Seq(Event), NEW k, EntryLines(j, k) # {}
    PROVE  DecidingLine(j, k) \in EntryLines(j, k)
<1> DEFINE all == EntryLines(j, k)
           final == {i \in all : \A r \in all : r >= i => SourceEID(j, r) = SourceEID(j, Max(all))}
           receipts == {i \in final : j[i].event \in TaskBearing}
<1>1. all \subseteq 1..Len(j)
  BY DEF EntryLines
<1>2. Max(all) \in all /\ \A y \in all : Max(all) >= y
  BY <1>1, LastLine
<1>3. Max(all) \in final
  <2>1. \A r \in all : r >= Max(all) => r = Max(all)
    BY <1>1, <1>2
  <2> QED
    BY <1>2, <2>1
<1>4. DecidingLine(j, k) = IF receipts # {} THEN Max(receipts) ELSE Min(final)
  BY DEF DecidingLine
<1>5. final \subseteq all /\ receipts \subseteq final
  OBVIOUS
<1> HIDE DEF final, receipts
<1>6. Len(j) \in Nat /\ final \subseteq Nat /\ receipts \subseteq 1..Len(j)
  BY <1>1, <1>5
<1>7. Min(final) \in final
  BY <1>3, <1>6, FirstLine
<1>8. receipts # {} => Max(receipts) \in receipts
  BY <1>6, LastLine
<1> QED
  BY <1>4, <1>5, <1>7, <1>8

-----------------------------------------------------------------------------
(* What the fold of the first i lines is. *)

\* The line that decides an entry written by the lines S.
Decider(j, S) ==
    LET final    == {i \in S : \A r \in S : r >= i => SourceEID(j, r) = SourceEID(j, Max(S))}
        receipts == {i \in final : j[i].event \in TaskBearing}
    IN  IF receipts # {} THEN Max(receipts) ELSE Min(final)

LinesUpTo(j, k, i) == {r \in EntryLines(j, k) : r <= i}

FoldUpTo(j, i) == [k \in {k \in Nodes \cup Stems : LinesUpTo(j, k, i) # {}} |->
                      EntryOf(j, Decider(j, LinesUpTo(j, k, i)))]

Journals == {j \in Seq(Event) : \A i \in DOMAIN j : ValidLine(j[i])}

\* The greatest of a set of lines is the one no other exceeds.
LEMMA GreatestLine ==
    ASSUME NEW S, S \subseteq Nat, NEW m \in S, \A y \in S : m >= y
    PROVE  Max(S) = m
<1> DEFINE P(x) == x \in S /\ \A y \in S : x >= y
<1>1. \A x : P(x) => x = m
  BY SMT
<1>2. P(m)
  OBVIOUS
<1>3. Max(S) = CHOOSE x \in S : \A y \in S : x >= y
  BY DEF Max
<1> QED
  BY <1>1, <1>2, <1>3

\* The least likewise.
LEMMA LeastLine ==
    ASSUME NEW S, S \subseteq Nat, NEW m \in S, \A y \in S : m <= y
    PROVE  Min(S) = m
<1> DEFINE P(x) == x \in S /\ \A y \in S : x <= y
<1>1. \A x : P(x) => x = m
  BY SMT
<1>2. P(m)
  OBVIOUS
<1>3. Min(S) = CHOOSE x \in S : \A y \in S : x <= y
  BY DEF Min
<1> QED
  BY <1>1, <1>2, <1>3

\* The deciding line is one of the lines, and shares the last one's source.
LEMMA DeciderSource ==
    ASSUME NEW j \in Seq(Event), NEW S, S \subseteq DOMAIN j, S # {}
    PROVE  Decider(j, S) \in S /\ SourceEID(j, Decider(j, S)) = SourceEID(j, Max(S))
<1> DEFINE final == {i \in S : \A r \in S : r >= i => SourceEID(j, r) = SourceEID(j, Max(S))}
           receipts == {i \in final : j[i].event \in TaskBearing}
<1>1. S \subseteq 1..Len(j) /\ Len(j) \in Nat
  OBVIOUS
<1>2. Max(S) \in S /\ \A y \in S : Max(S) >= y
  BY <1>1, LastLine
<1>3. Max(S) \in final
  <2>1. \A r \in S : r >= Max(S) => r = Max(S)
    BY <1>1, <1>2
  <2> QED
    BY <1>2, <2>1
<1>4. Decider(j, S) = IF receipts # {} THEN Max(receipts) ELSE Min(final)
  BY DEF Decider
<1>5. /\ final \subseteq S /\ receipts \subseteq final
      /\ \A i \in final : SourceEID(j, i) = SourceEID(j, Max(S))
  BY <1>1, <1>2
<1> HIDE DEF final, receipts
<1>6. final \subseteq Nat /\ receipts \subseteq 1..Len(j)
  BY <1>1, <1>5
<1>7. Min(final) \in final
  BY <1>3, <1>6, FirstLine
<1>8. receipts # {} => Max(receipts) \in receipts
  BY <1>1, <1>6, LastLine
<1> QED
  BY <1>4, <1>5, <1>7, <1>8

\* A receipt decides the entry it is the last to write.
LEMMA ReceiptDecides ==
    ASSUME NEW j \in Seq(Event), NEW S, S \subseteq DOMAIN j, NEW i \in S,
           \A r \in S : i >= r, j[i].event \in TaskBearing
    PROVE  Decider(j, S) = i
<1> DEFINE final == {x \in S : \A r \in S : r >= x => SourceEID(j, r) = SourceEID(j, Max(S))}
           receipts == {x \in final : j[x].event \in TaskBearing}
<1>1. S \subseteq Nat
  OBVIOUS
<1>2. Max(S) = i
  BY <1>1, GreatestLine
<1>3. i \in final
  <2>1. \A r \in S : r >= i => r = i
    BY <1>1
  <2> QED
    BY <1>2, <2>1
<1>4. i \in receipts /\ receipts \subseteq S
  BY <1>3
<1>5. Decider(j, S) = IF receipts # {} THEN Max(receipts) ELSE Min(final)
  BY DEF Decider
<1> HIDE DEF final, receipts
<1>6. Max(receipts) = i
  BY <1>1, <1>4, GreatestLine
<1> QED
  BY <1>4, <1>5, <1>6

\* So does a removal whose source is not the source of the line before it.
LEMMA RemovalDecides ==
    ASSUME NEW j \in Seq(Event), NEW S, S \subseteq DOMAIN j, NEW i \in DOMAIN j,
           \A r \in S : r < i, j[i].event = "removed",
           S # {} => SourceEID(j, Max(S)) # SourceEID(j, i)
    PROVE  Decider(j, S \cup {i}) = i
<1> DEFINE T == S \cup {i}
           final == {x \in T : \A r \in T : r >= x => SourceEID(j, r) = SourceEID(j, Max(T))}
           receipts == {x \in final : j[x].event \in TaskBearing}
<1>1. T \subseteq Nat /\ i \in T /\ \A r \in T : i >= r
  OBVIOUS
<1>2. Max(T) = i
  BY <1>1, GreatestLine
<1>3. i \in final
  <2>1. \A r \in T : r >= i => r = i
    BY <1>1
  <2> QED
    BY <1>2, <2>1
<1>4. \A x \in S : x \notin final
  <2>1. TAKE x \in S
  <2>2. S \subseteq 1..Len(j) /\ Len(j) \in Nat
    OBVIOUS
  <2>3. Max(S) \in T /\ Max(S) >= x
    BY <2>2, LastLine
  <2> QED
    BY <1>2, <2>3
<1>5. final = {i}
  BY <1>3, <1>4
<1>6. receipts = {}
  <2>1. "removed" \notin TaskBearing
    BY DEF TaskBearing
  <2> QED
    BY <1>5, <2>1
<1>7. Decider(j, T) = IF receipts # {} THEN Max(receipts) ELSE Min(final)
  BY DEF Decider
<1> HIDE DEF final, receipts
<1>8. Min(final) = i
  BY <1>1, <1>5, LeastLine
<1> QED
  BY <1>6, <1>7, <1>8

\* And a removal with the source of the line before it decides nothing.
LEMMA RemovalKeepsReceipt ==
    ASSUME NEW j \in Seq(Event), NEW S, S \subseteq DOMAIN j, S # {}, NEW i \in DOMAIN j,
           \A r \in S : r < i, j[i].event = "removed",
           SourceEID(j, Max(S)) = SourceEID(j, i)
    PROVE  Decider(j, S \cup {i}) = Decider(j, S)
<1> DEFINE T == S \cup {i}
           final(U) == {x \in U : \A r \in U : r >= x => SourceEID(j, r) = SourceEID(j, Max(U))}
           receipts(U) == {x \in final(U) : j[x].event \in TaskBearing}
<1>1. T \subseteq Nat /\ i \in T /\ \A r \in T : i >= r
  OBVIOUS
<1>2. Max(T) = i
  BY <1>1, GreatestLine
<1>3. final(T) = final(S) \cup {i}
  <2>1. \A r \in S : r >= i => r = i
    BY <1>1
  <2> QED
    BY <1>1, <1>2, <2>1
<1>4. receipts(T) = receipts(S)
  <2>1. "removed" \notin TaskBearing
    BY DEF TaskBearing
  <2> QED
    BY <1>3, <2>1, ZenonT(60)
<1>5. /\ Decider(j, T) = IF receipts(T) # {} THEN Max(receipts(T)) ELSE Min(final(T))
      /\ Decider(j, S) = IF receipts(S) # {} THEN Max(receipts(S)) ELSE Min(final(S))
  BY DEF Decider
<1>6. Max(S) \in final(S)
  <2>1. S \subseteq 1..Len(j) /\ Len(j) \in Nat
    OBVIOUS
  <2>2. Max(S) \in S /\ \A y \in S : Max(S) >= y
    BY <2>1, LastLine
  <2>3. \A r \in S : r >= Max(S) => r = Max(S)
    BY <1>1, <2>2
  <2> QED
    BY <2>2, <2>3
<1>7. final(S) \subseteq Nat /\ \A x \in final(S) : x < i
  BY <1>1
<1>8. Min(final(S)) \in final(S) /\ \A y \in final(S) : Min(final(S)) <= y
  BY <1>6, <1>7, FirstLine
<1>9. Min(final(T)) = Min(final(S))
  <2> DEFINE m == Min(final(S))
  <2>1. m \in final(T) /\ final(T) \subseteq Nat
    BY <1>1, <1>3, <1>7, <1>8
  <2>2. \A y \in final(T) : m <= y
    BY <1>1, <1>3, <1>7, <1>8
  <2> QED
    BY <2>1, <2>2, LeastLine
<1> HIDE DEF final, receipts, T
<1>10. Decider(j, T) = Decider(j, S)
  <2>1. CASE receipts(S) = {}
    BY <1>4, <1>5, <1>9, <2>1
  <2>2. CASE receipts(S) # {}
    BY <1>4, <1>5, <2>2
  <2> QED
    BY <2>1, <2>2
<1> QED
  BY <1>10 DEF T

-----------------------------------------------------------------------------
(* fold(), line by line. *)

\* What line i writes and under which key, as the walk and as the fold say it.
LEMMA WalkLineWrites ==
    ASSUME NEW j \in Journals, NEW i \in DOMAIN j, NEW entries
    PROVE  /\ EntryKey(j, i) \in Nodes \cup Stems =>
                 WalkLine(j, entries, j[i]) =
                    IF /\ j[i].event = "removed" /\ j[i].key \in DOMAIN entries
                       /\ entries[j[i].key].eid = j[i].eid
                    THEN entries
                    ELSE Put(entries, EntryKey(j, i), EntryOf(j, i))
           /\ EntryKey(j, i) \notin Nodes \cup Stems => WalkLine(j, entries, j[i]) = entries
<1>0. /\ j \in Seq(Event) /\ j[i] \in Event /\ ValidLine(j[i])
      /\ \A r \in DOMAIN j : j[r] \in Event /\ ValidLine(j[r])
  BY DEF Journals
<1>1. None \notin Nodes \cup Stems
  BY JournalAssumption
<1>k. "removed" \notin TaskBearing /\ "removed" \in ChangeKinds
  BY DEF TaskBearing, ChangeKinds
<1>2. CASE j[i].event = "removed"
  <2>1. EntryKey(j, i) = j[i].key /\ j[i].key \in Nodes
    BY <1>0, <1>2, <1>k DEF EntryKey, ValidLine
  <2>2. WalkLine(j, entries, j[i]) = WalkRemoved(j, entries, j[i])
    BY <1>2, <1>k DEF WalkLine
  <2>3. EntryOf(j, i) = [task |-> NoTask, removed |-> TRUE, eid |-> j[i].eid, after |-> j[i].after]
    BY <1>2 DEF EntryOf
  <2> QED
    BY <1>2, <2>1, <2>2, <2>3 DEF WalkRemoved
<1>3. CASE j[i].event \in TaskBearing
  <2>0. j[i].event # "removed"
    BY <1>3, <1>k
  <2>1. WalkLine(j, entries, j[i]) = WalkReceipt(j, entries, j[i])
    BY <1>3, <2>0 DEF WalkLine
  <2>2. CASE j[i].key # None
    <3>1. EntryKey(j, i) = j[i].key /\ j[i].key \in Stems
      BY <1>0, <1>3, <2>0, <2>2 DEF EntryKey, ValidLine
    <3>2. EntryOf(j, i) = [task |-> j[i].task, removed |-> FALSE, eid |-> None, after |-> None]
      BY <2>0, <2>2 DEF EntryOf
    <3>3. WalkReceipt(j, entries, j[i]) = Put(entries, j[i].key, EntryOf(j, i))
      BY <2>2, <3>2 DEF WalkReceipt
    <3> QED
      BY <2>0, <2>1, <3>1, <3>3
  <2>3. CASE j[i].key = None /\ ReferentLines(j, j[i].for) = {}
    <3>1. EntryKey(j, i) = None
      BY <1>3, <2>0, <2>3 DEF EntryKey, IsDangling
    <3>2. WalkReceipt(j, entries, j[i]) = entries
      BY <2>3 DEF WalkReceipt
    <3> QED
      BY <1>1, <2>1, <3>1, <3>2
  <2>4. CASE j[i].key = None /\ ReferentLines(j, j[i].for) # {}
    <3> DEFINE ref == Referent(j, j[i].for)
    <3>1. ref.eid = j[i].for
      BY <1>0, <2>4, ReferentTyped
    <3>2. EntryKey(j, i) = ref.key
      BY <1>3, <2>0, <2>4 DEF EntryKey, IsDangling
    <3>3. EntryOf(j, i) = [task |-> j[i].task, removed |-> ref.event = "removed",
                           eid |-> j[i].for, after |-> ref.after]
      BY <2>0, <2>4 DEF EntryOf
    <3>4. WalkReceipt(j, entries, j[i]) =
             Put(entries, ref.key, [task |-> j[i].task, removed |-> ref.event = "removed",
                                    eid |-> ref.eid, after |-> ref.after])
      BY <2>4 DEF WalkReceipt
    <3>5. ref.key \in Nodes \cup Stems
      <4>1. ReferentLines(j, j[i].for) \subseteq 1..Len(j)
        BY <1>0 DEF ReferentLines
      <4>2. Max(ReferentLines(j, j[i].for)) \in ReferentLines(j, j[i].for)
        BY <1>0, <2>4, <4>1, LastLine
      <4>3. PICK r \in DOMAIN j : ref = j[r] /\ j[r].event \in ReferentKinds
        BY <4>2 DEF Referent, ReferentLines
      <4> QED
        BY <1>0, <4>3 DEF ValidLine, ReferentKinds
    <3> HIDE DEF ref
    <3> QED
      BY <2>0, <2>1, <3>1, <3>2, <3>3, <3>4, <3>5
  <2> QED
    BY <2>2, <2>3, <2>4
<1>4. CASE j[i].event # "removed" /\ j[i].event \notin TaskBearing
  <2>1. EntryKey(j, i) = None
    BY <1>4 DEF EntryKey
  <2>2. WalkLine(j, entries, j[i]) = entries
    BY <1>4 DEF WalkLine
  <2> QED
    BY <1>1, <2>1, <2>2
<1> QED
  BY <1>2, <1>3, <1>4

\* The source a fold entry shows is the source of the line that wrote it.
LEMMA EntryShowsSource ==
    ASSUME NEW j \in Journals, NEW i \in DOMAIN j, EntryKey(j, i) \in Nodes
    PROVE  EntryOf(j, i).eid = SourceEID(j, i)
<1>0. j[i] \in Event /\ ValidLine(j[i])
  BY DEF Journals
<1>1. Nodes \cap Stems = {} /\ None \notin Nodes
  BY JournalAssumption
<1>2. CASE j[i].event = "removed"
  BY <1>2 DEF EntryOf, SourceEID
<1>3. CASE j[i].event # "removed"
  <2>1. j[i].event \in TaskBearing
    BY <1>1, <1>3 DEF EntryKey
  <2>2. j[i].key = None
    BY <1>0, <1>1, <1>3, <2>1 DEF EntryKey, ValidLine
  <2> QED
    BY <1>3, <2>2 DEF EntryOf, SourceEID
<1> QED
  BY <1>2, <1>3

\* One more line: the fold of the first i lines is the walk's next value.
LEMMA FoldOneMore ==
    ASSUME NEW j \in Journals, NEW i \in DOMAIN j
    PROVE  FoldUpTo(j, i) = WalkLine(j, FoldUpTo(j, i - 1), j[i])
<1> DEFINE K == Nodes \cup Stems
           old == FoldUpTo(j, i - 1)
           key == EntryKey(j, i)
           before(k) == LinesUpTo(j, k, i - 1)
<1>0. j \in Seq(Event) /\ i \in Nat \ {0} /\ DOMAIN j \subseteq Nat
  BY DEF Journals
<1>1. \A k : LinesUpTo(j, k, i) = IF key = k THEN before(k) \cup {i} ELSE before(k)
  <2>1. \A r \in DOMAIN j : r <= i <=> r <= i - 1 \/ r = i
    BY <1>0
  <2> QED
    BY <1>0, <2>1 DEF LinesUpTo, EntryLines
<1>2. \A k : before(k) \subseteq DOMAIN j /\ \A r \in before(k) : r < i
  BY <1>0 DEF LinesUpTo, EntryLines
<1>3. /\ DOMAIN old = {k \in K : before(k) # {}}
      /\ \A k \in DOMAIN old : old[k] = EntryOf(j, Decider(j, before(k)))
  BY DEF FoldUpTo
<1>4. FoldUpTo(j, i) = [k \in {k \in K : LinesUpTo(j, k, i) # {}} |->
                           EntryOf(j, Decider(j, LinesUpTo(j, k, i)))]
  BY DEF FoldUpTo
<1>5. old = [k \in DOMAIN old |-> old[k]]
  BY DEF FoldUpTo
<1> HIDE DEF old, before, key
<1>6. CASE key \notin K
  <2>1. WalkLine(j, old, j[i]) = old
    BY <1>6, WalkLineWrites DEF key
  <2>2. \A k \in K : LinesUpTo(j, k, i) = before(k)
    BY <1>1, <1>6
  <2>3. {k \in K : LinesUpTo(j, k, i) # {}} = DOMAIN old
    BY <1>3, <2>2
  <2>4. \A k \in DOMAIN old : EntryOf(j, Decider(j, LinesUpTo(j, k, i))) = old[k]
    BY <1>3, <2>2
  <2> QED
    BY <1>4, <1>5, <2>1, <2>3, <2>4 DEF old
<1>7. CASE key \in K
  <2>1. {k \in K : LinesUpTo(j, k, i) # {}} = DOMAIN old \cup {key}
    BY <1>1, <1>3, <1>7
  <2>2. \A k \in DOMAIN old : k # key => EntryOf(j, Decider(j, LinesUpTo(j, k, i))) = old[k]
    BY <1>1, <1>3
  <2>3. LinesUpTo(j, key, i) = before(key) \cup {i}
    BY <1>1
  <2>4. before(key) \subseteq DOMAIN j /\ \A r \in before(key) : r < i
    BY <1>2
  <2>5. CASE /\ j[i].event = "removed" /\ j[i].key \in DOMAIN old
             /\ old[j[i].key].eid = j[i].eid
    <3>1. WalkLine(j, old, j[i]) = old
      BY <1>7, <2>5, WalkLineWrites DEF key
    <3>2. j[i].key = key
      BY <2>5 DEF key, EntryKey, TaskBearing
    <3>3. key \in Nodes
      <4>1. ValidLine(j[i])
        BY DEF Journals
      <4> QED
        BY <2>5, <3>2, <4>1 DEF ValidLine, ChangeKinds
    <3>4. before(key) # {} /\ old[key] = EntryOf(j, Decider(j, before(key)))
      BY <1>3, <2>5, <3>2
    <3>5. /\ Decider(j, before(key)) \in before(key)
          /\ SourceEID(j, Decider(j, before(key))) = SourceEID(j, Max(before(key)))
      BY <1>0, <2>4, <3>4, DeciderSource
    <3>6. EntryKey(j, Decider(j, before(key))) = key
      BY <3>5 DEF before, LinesUpTo, EntryLines
    <3>7. old[key].eid = SourceEID(j, Max(before(key)))
      BY <2>4, <3>3, <3>4, <3>5, <3>6, EntryShowsSource
    <3>8. SourceEID(j, Max(before(key))) = SourceEID(j, i)
      BY <2>5, <3>2, <3>7 DEF SourceEID
    <3>9. Decider(j, before(key) \cup {i}) = Decider(j, before(key))
      BY <1>0, <2>4, <2>5, <3>4, <3>8, RemovalKeepsReceipt
    <3>10. DOMAIN old \cup {key} = DOMAIN old
      BY <2>5, <3>2
    <3>11. \A k \in DOMAIN old : EntryOf(j, Decider(j, LinesUpTo(j, k, i))) = old[k]
      BY <2>2, <2>3, <3>4, <3>9
    <3> QED
      BY <1>4, <1>5, <2>1, <3>1, <3>10, <3>11 DEF old
  <2>6. CASE ~(/\ j[i].event = "removed" /\ j[i].key \in DOMAIN old
               /\ old[j[i].key].eid = j[i].eid)
    <3>1. WalkLine(j, old, j[i]) = Put(old, key, EntryOf(j, i))
      BY <1>7, <2>6, WalkLineWrites DEF key
    <3>2. Decider(j, before(key) \cup {i}) = i
      <4>1. CASE j[i].event \in TaskBearing
        <5>1. /\ before(key) \cup {i} \subseteq DOMAIN j /\ i \in before(key) \cup {i}
              /\ \A r \in before(key) \cup {i} : i >= r
          BY <1>0, <2>4
        <5> QED
          BY <1>0, <4>1, <5>1, ReceiptDecides
      <4>2. CASE j[i].event \notin TaskBearing
        <5>1. j[i].event = "removed" /\ j[i].key = key
          BY <1>7, <4>2, JournalAssumption DEF key, EntryKey
        <5>2. key \in Nodes
          <6>1. ValidLine(j[i])
            BY DEF Journals
          <6> QED
            BY <5>1, <6>1 DEF ValidLine, ChangeKinds
        <5>3. before(key) # {} => SourceEID(j, Max(before(key))) # SourceEID(j, i)
          <6> SUFFICES ASSUME before(key) # {}
                       PROVE  SourceEID(j, Max(before(key))) # SourceEID(j, i)
            OBVIOUS
          <6>1. key \in DOMAIN old /\ old[key] = EntryOf(j, Decider(j, before(key)))
            BY <1>3, <1>7
          <6>2. /\ Decider(j, before(key)) \in before(key)
                /\ SourceEID(j, Decider(j, before(key))) = SourceEID(j, Max(before(key)))
            BY <1>0, <2>4, DeciderSource
          <6>3. EntryKey(j, Decider(j, before(key))) = key
            BY <6>2 DEF before, LinesUpTo, EntryLines
          <6>4. old[key].eid = SourceEID(j, Max(before(key)))
            BY <2>4, <5>2, <6>1, <6>2, <6>3, EntryShowsSource
          <6> QED
            BY <2>6, <5>1, <6>1, <6>4 DEF SourceEID
        <5> QED
          BY <1>0, <2>4, <5>1, <5>3, RemovalDecides
      <4> QED
        BY <4>1, <4>2
    <3>3. EntryOf(j, Decider(j, LinesUpTo(j, key, i))) = EntryOf(j, i)
      BY <2>3, <3>2
    <3>4. \A k \in DOMAIN old \cup {key} : EntryOf(j, Decider(j, LinesUpTo(j, k, i))) =
                                           (IF k = key THEN EntryOf(j, i) ELSE old[k])
      BY <2>2, <3>3
    <3>5. Put(old, key, EntryOf(j, i)) =
             [k \in DOMAIN old \cup {key} |-> IF k = key THEN EntryOf(j, i) ELSE old[k]]
      BY DEF Put
    <3> QED
      BY <1>4, <2>1, <3>1, <3>4, <3>5 DEF old
  <2> QED
    BY <2>5, <2>6
<1> QED
  BY <1>6, <1>7

\* Walk computes the fold: it is the walk's value after the last line.
LEMMA WalkComputesFold ==
    ASSUME NEW j \in Journals
    PROVE  Walk(j) = Fold(j)
<1> DEFINE n == Len(j)
           IsWalk(f) == f = [i \in 0..n |-> IF i = 0 THEN [k \in {} |-> None]
                                            ELSE WalkLine(j, f[i - 1], j[i])]
           w == CHOOSE f : IsWalk(f)
           g == [i \in 0..n |-> FoldUpTo(j, i)]
<1>1. j \in Seq(Event) /\ n \in Nat /\ DOMAIN j = 1..n
  BY DEF Journals
<1>2. FoldUpTo(j, 0) = [k \in {} |-> None]
  <2>1. \A k : LinesUpTo(j, k, 0) = {}
    BY <1>1 DEF LinesUpTo, EntryLines
  <2>2. {k \in Nodes \cup Stems : LinesUpTo(j, k, 0) # {}} = {}
    BY <2>1
  <2> QED
    BY <2>2 DEF FoldUpTo
<1>3. IsWalk(g)
  <2>1. \A i \in 0..n : i # 0 => /\ i \in DOMAIN j /\ i - 1 \in 0..n
                                 /\ FoldUpTo(j, i) = WalkLine(j, FoldUpTo(j, i - 1), j[i])
    BY <1>1, FoldOneMore
  <2> HIDE DEF n
  <2> QED
    BY <1>2, <2>1
<1>4. IsWalk(w)
  BY <1>3
<1>5. \A i \in 0..n : w[i] = FoldUpTo(j, i)
  <2> DEFINE bad == {i \in 0..n : w[i] # FoldUpTo(j, i)}
  <2> SUFFICES ASSUME bad # {}
               PROVE  FALSE
    OBVIOUS
  <2>1. bad \subseteq Nat
    BY <1>1
  <2> DEFINE m == Min(bad)
  <2>2. m \in bad /\ \A y \in bad : m <= y
    BY <2>1, FirstLine
  <2> HIDE DEF m, w, n
  <2>3. m \in 0..n /\ w[m] # FoldUpTo(j, m)
    BY <2>2
  <2>4. m # 0
    BY <1>2, <1>4, <2>3
  <2>5. m - 1 \in 0..n /\ m - 1 \notin bad /\ m \in DOMAIN j
    BY <1>1, <2>2, <2>3, <2>4
  <2>6. w[m - 1] = FoldUpTo(j, m - 1)
    BY <2>5
  <2>7. w[m] = WalkLine(j, w[m - 1], j[m])
    BY <1>4, <2>3, <2>4
  <2> QED
    BY <2>3, <2>5, <2>6, <2>7, FoldOneMore
<1>6. Walk(j) = w[n]
  BY DEF Walk
<1>7. FoldUpTo(j, n) = Fold(j)
  <2>1. \A k : LinesUpTo(j, k, n) = EntryLines(j, k)
    BY <1>1 DEF LinesUpTo, EntryLines
  <2>2. \A k : Decider(j, EntryLines(j, k)) = DecidingLine(j, k)
    BY DEF Decider, DecidingLine
  <2> QED
    BY <2>1, <2>2 DEF FoldUpTo, Fold
<1> QED
  BY <1>1, <1>5, <1>6, <1>7

-----------------------------------------------------------------------------
(* The theorems about every journal a writer may append to. *)

\* The journal only ever holds lines its schema admits.
LEMMA LogIsJournal == LogSpec => [](log \in Journals)
<1>1. LogInit => log \in Journals
  BY DEF LogInit, Journals
<1>2. log \in Journals /\ [LogNext]_log => (log \in Journals)'
  <2> SUFFICES ASSUME log \in Journals, [LogNext]_log
               PROVE  (log \in Journals)'
    OBVIOUS
  <2>1. CASE LogNext
    <3>1. PICK ev \in Written : log' = Append(log, ev)
      BY <2>1 DEF LogNext, AppendLine
    <3>2. ev \in Event /\ ValidLine(ev)
      BY JournalFoldAssumption
    <3>3. log \in Seq(Event) /\ \A i \in DOMAIN log : ValidLine(log[i])
      BY DEF Journals
    <3>4. log' \in Seq(Event) /\ \A i \in DOMAIN log' : log'[i] \in {ev} \cup {log[r] : r \in DOMAIN log}
      BY <3>1, <3>2, <3>3
    <3> QED
      BY <3>2, <3>3, <3>4 DEF Journals
  <2>2. CASE UNCHANGED log
    BY <2>2 DEF Journals
  <2> QED
    BY <2>1, <2>2
<1> QED
  BY <1>1, <1>2, PTL DEF LogSpec

(***************************************************************************)
(* The declarative fold is the fold mapping/mapping_store.go computes, on  *)
(* journals of every length: the argument is an induction over the lines,  *)
(* by the least line after which the two would differ.                     *)
(***************************************************************************)
THEOREM FoldIsComputed == LogSpec => []FoldIsWalk
<1>1. log \in Journals => FoldIsWalk
  BY WalkComputesFold DEF FoldIsWalk
<1> QED
  BY <1>1, LogIsJournal, PTL

(***************************************************************************)
(* List and History agree: the history of a node has the line that decides *)
(* its fold entry and the event that entry is sourced from                 *)
(* (mapping/mapping_store.go, List and History).                           *)
(***************************************************************************)
THEOREM HistoryAccountsForFold == LogSpec => []HistoryTellsTheFold
<1>1. ASSUME log \in Journals, NEW n \in Nodes \cap DOMAIN Fold(log)
      PROVE  /\ DecidingLine(log, n) \in HistoryLines(log, n)
             /\ \E i \in HistoryLines(log, n) : log[i].eid = Fold(log)[n].eid
  <2> DEFINE d == DecidingLine(log, n)
             own == {i \in DOMAIN log : log[i].event \in ChangeKinds /\ log[i].key = n}
  <2>1. log \in Seq(Event) /\ \A i \in DOMAIN log : ValidLine(log[i])
    BY <1>1 DEF Journals
  <2>2. EntryLines(log, n) # {} /\ Fold(log)[n] = EntryOf(log, d)
    BY DEF Fold
  <2>3. d \in DOMAIN log /\ EntryKey(log, d) = n
    BY <2>1, <2>2, DecidingLineWritesEntry DEF EntryLines
  <2>4. None \notin Nodes /\ Nodes \cap Stems = {}
    BY JournalAssumption
  <2>5. Fold(log)[n].eid = SourceEID(log, d)
    BY <1>1, <2>2, <2>3, EntryShowsSource
  <2>6. HistoryLines(log, n) = own \cup {i \in DOMAIN log : /\ log[i].event \in ReceiptKinds
                                                            /\ log[i].for \in {log[o].eid : o \in own}}
    BY DEF HistoryLines
  <2> HIDE DEF d
  <2>7. CASE log[d].event = "removed"
    <3>1. d \in own
      BY <2>3, <2>7 DEF EntryKey, ChangeKinds, TaskBearing
    <3> QED
      BY <2>5, <2>6, <2>7, <3>1 DEF SourceEID, d
  <2>8. CASE log[d].event # "removed"
    <3>1. log[d].event \in TaskBearing
      BY <2>3, <2>4, <2>8 DEF EntryKey
    <3>2. log[d].key = None
      BY <2>1, <2>3, <2>4, <2>8, <3>1 DEF EntryKey, ValidLine
    <3> DEFINE e == log[d].for
    <3>3. ReferentLines(log, e) # {} /\ Referent(log, e).key = n
      BY <2>3, <2>4, <2>8, <3>1, <3>2 DEF EntryKey, IsDangling
    <3>4. ReferentLines(log, e) \subseteq 1..Len(log) /\ Len(log) \in Nat
      BY <2>1 DEF ReferentLines
    <3>5. Max(ReferentLines(log, e)) \in ReferentLines(log, e)
      BY <3>3, <3>4, LastLine
    <3>6. PICK r \in DOMAIN log : /\ log[r].event \in ReferentKinds /\ log[r].eid = e
                                  /\ log[r].key = n
      BY <3>3, <3>5 DEF Referent, ReferentLines
    <3>7. r \in own
      BY <2>1, <2>4, <3>6 DEF ValidLine, ReferentKinds
    <3>8. d \in HistoryLines(log, n)
      BY <2>3, <2>6, <3>1, <3>6, <3>7 DEF ReceiptKinds
    <3>9. r \in HistoryLines(log, n) /\ log[r].eid = SourceEID(log, d)
      BY <2>6, <2>8, <3>6, <3>7 DEF SourceEID
    <3> QED
      BY <2>5, <3>8, <3>9 DEF d
  <2> QED
    BY <2>7, <2>8
<1>2. log \in Journals => HistoryTellsTheFold
  BY <1>1 DEF HistoryTellsTheFold
<1> QED
  BY <1>2, LogIsJournal, PTL

-----------------------------------------------------------------------------
(* Exchanging an event and a receipt for it. *)

\* Where line r of a journal is after lines i and i + 1 are exchanged.
Moved(i, r) == IF r = i THEN i + 1 ELSE IF r = i + 1 THEN i ELSE r

\* Line i is an event and line i + 1 a task-bearing receipt for it.
EventThenReceipt(j, i) ==
    /\ i \in DOMAIN j /\ i + 1 \in DOMAIN j
    /\ j[i].event \in ReferentKinds
    /\ j[i + 1].event \in TaskBearing /\ j[i + 1].for = j[i].eid

\* Every line is found where it moved to.
LEMMA SwapMoves ==
    ASSUME NEW j \in Seq(Event), NEW i \in DOMAIN j, i + 1 \in DOMAIN j
    PROVE  /\ Swapped(j, i) \in Seq(Event) /\ DOMAIN Swapped(j, i) = DOMAIN j
           /\ \A r \in DOMAIN j : /\ Moved(i, r) \in DOMAIN j /\ Moved(i, Moved(i, r)) = r
                                  /\ Swapped(j, i)[Moved(i, r)] = j[r]
<1>1. j \in [1..Len(j) -> Event] /\ Len(j) \in Nat /\ DOMAIN j = 1..Len(j)
  OBVIOUS
<1>2. j[i] \in Event /\ j[i + 1] \in Event
  BY <1>1
<1>3. Swapped(j, i) \in [1..Len(j) -> Event]
  BY <1>1, <1>2 DEF Swapped
<1>4. Swapped(j, i) \in Seq(Event) /\ DOMAIN Swapped(j, i) = DOMAIN j
  BY <1>1, <1>3
<1>5. ASSUME NEW r \in DOMAIN j
      PROVE  /\ Moved(i, r) \in DOMAIN j /\ Moved(i, Moved(i, r)) = r
             /\ Swapped(j, i)[Moved(i, r)] = j[r]
  BY <1>1 DEF Moved, Swapped
<1> QED
  BY <1>4, <1>5

\* The last of lines that lack one of the two exchanged is still the last.
LEMMA MovedMax ==
    ASSUME NEW n \in Nat, NEW S, S \subseteq 1..n, S # {}, NEW i \in 1..n,
           i \notin S \/ i + 1 \notin S
    PROVE  Max({Moved(i, r) : r \in S}) = Moved(i, Max(S))
<1>1. Max(S) \in S /\ \A y \in S : Max(S) >= y
  BY LastLine
<1> DEFINE m == Max(S)
           T == {Moved(i, r) : r \in S}
<1>2. m \in S /\ \A y \in S : m >= y
  BY <1>1
<1> HIDE DEF m
<1>3. T \subseteq Nat /\ Moved(i, m) \in T
  BY <1>2 DEF Moved
<1>4. \A r \in S : Moved(i, m) >= Moved(i, r)
  BY <1>2, SMT DEF Moved
<1>5. \A y \in T : Moved(i, m) >= y
  BY <1>4
<1> HIDE DEF T
<1>6. Max(T) = Moved(i, m)
  BY <1>3, <1>5, GreatestLine
<1> QED
  BY <1>6 DEF T, m

\* And the first is still the first.
LEMMA MovedMin ==
    ASSUME NEW S, S \subseteq Nat, S # {}, NEW i \in Nat, i \notin S \/ i + 1 \notin S
    PROVE  Min({Moved(i, r) : r \in S}) = Moved(i, Min(S))
<1>1. Min(S) \in S /\ \A y \in S : Min(S) <= y
  BY FirstLine
<1> DEFINE m == Min(S)
           T == {Moved(i, r) : r \in S}
<1>2. m \in S /\ \A y \in S : m <= y
  BY <1>1
<1> HIDE DEF m
<1>3. T \subseteq Nat /\ Moved(i, m) \in T
  BY <1>2 DEF Moved
<1>4. \A r \in S : Moved(i, m) <= Moved(i, r)
  BY <1>2, SMT DEF Moved
<1>5. \A y \in T : Moved(i, m) <= y
  BY <1>4
<1> HIDE DEF T
<1>6. Min(T) = Moved(i, m)
  BY <1>3, <1>5, LeastLine
<1> QED
  BY <1>6 DEF T, m

\* Every event id finds the same event.
LEMMA SwapKeepsReferents ==
    ASSUME NEW j \in Seq(Event), NEW i, EventThenReceipt(j, i), NEW e
    PROVE  /\ (ReferentLines(Swapped(j, i), e) = {}) = (ReferentLines(j, e) = {})
           /\ ReferentLines(j, e) # {} => Referent(Swapped(j, i), e) = Referent(j, e)
<1> DEFINE q == Swapped(j, i)
           S == ReferentLines(j, e)
           T == ReferentLines(q, e)
<1>1. i \in DOMAIN j /\ i + 1 \in DOMAIN j
  BY DEF EventThenReceipt
<1>2. /\ DOMAIN q = DOMAIN j
      /\ \A r \in DOMAIN j : Moved(i, r) \in DOMAIN j /\ Moved(i, Moved(i, r)) = r
                             /\ q[Moved(i, r)] = j[r]
  BY <1>1, SwapMoves
<1>3. T = {Moved(i, r) : r \in S}
  BY <1>2 DEF ReferentLines
<1>4. S \subseteq 1..Len(j) /\ Len(j) \in Nat /\ DOMAIN j = 1..Len(j)
  BY DEF ReferentLines
<1>5. i + 1 \notin S
  BY DEF ReferentLines, EventThenReceipt, ReferentKinds, ChangeKinds, TaskBearing
<1> HIDE DEF S, T, q
<1>6. (T = {}) = (S = {})
  BY <1>3
<1>7. ASSUME S # {}
      PROVE  q[Max(T)] = j[Max(S)]
  <2>1. Max(T) = Moved(i, Max(S))
    BY <1>1, <1>3, <1>4, <1>5, <1>7, MovedMax
  <2>2. Max(S) \in S
    BY <1>4, <1>7, LastLine
  <2> QED
    BY <1>2, <1>4, <2>1, <2>2
<1> QED
  BY <1>6, <1>7 DEF S, T, q, Referent

\* Every line writes, from its new place, what it wrote.
LEMMA SwapKeepsWrites ==
    ASSUME NEW j \in Seq(Event), NEW i, EventThenReceipt(j, i), NEW r \in DOMAIN j
    PROVE  /\ EntryKey(Swapped(j, i), Moved(i, r)) = EntryKey(j, r)
           /\ SourceEID(Swapped(j, i), Moved(i, r)) = SourceEID(j, r)
           /\ EntryKey(j, r) \in Nodes \cup Stems =>
                 EntryOf(Swapped(j, i), Moved(i, r)) = EntryOf(j, r)
<1> DEFINE q == Swapped(j, i)
           x == Moved(i, r)
<1>1. i \in DOMAIN j /\ i + 1 \in DOMAIN j
  BY DEF EventThenReceipt
<1>2. q[x] = j[r]
  BY <1>1, SwapMoves
<1>3. /\ (ReferentLines(q, j[r].for) = {}) = (ReferentLines(j, j[r].for) = {})
      /\ ReferentLines(j, j[r].for) # {} => Referent(q, j[r].for) = Referent(j, j[r].for)
  BY SwapKeepsReferents
<1> HIDE DEF q, x
<1>4. IsDangling(q, x) = IsDangling(j, r)
  BY <1>2, <1>3 DEF IsDangling
<1>5. EntryKey(q, x) = EntryKey(j, r)
  BY <1>2, <1>3, <1>4 DEF EntryKey, IsDangling
<1>6. SourceEID(q, x) = SourceEID(j, r)
  BY <1>2 DEF SourceEID
<1>7. ASSUME EntryKey(j, r) \in Nodes \cup Stems
      PROVE  EntryOf(q, x) = EntryOf(j, r)
  <2>1. EntryKey(j, r) # None
    BY <1>7, JournalAssumption
  <2>2. j[r].event = "removed" \/ j[r].key # None \/ ReferentLines(j, j[r].for) # {}
    BY <2>1 DEF EntryKey, IsDangling
  <2> QED
    BY <1>2, <1>3, <2>2 DEF EntryOf
<1> QED
  BY <1>5, <1>6, <1>7 DEF q, x

\* The line that decides an entry is the same line, wherever it is.
LEMMA SwapKeepsDecider ==
    ASSUME NEW j \in Seq(Event), NEW i, EventThenReceipt(j, i),
           NEW S, S \subseteq DOMAIN j, S # {}, i \in S => j[i].event = "removed"
    PROVE  Decider(Swapped(j, i), {Moved(i, r) : r \in S}) = Moved(i, Decider(j, S))
<1> DEFINE q == Swapped(j, i)
           T == {Moved(i, r) : r \in S}
           source == SourceEID(j, Max(S))
           final == {x \in S : \A r \in S : r >= x => SourceEID(j, r) = source}
           finalT == {x \in T : \A r \in T : r >= x => SourceEID(q, r) = SourceEID(q, Max(T))}
           receipts == {x \in final : j[x].event \in TaskBearing}
           receiptsT == {x \in finalT : q[x].event \in TaskBearing}
<1>1. /\ i \in DOMAIN j /\ i + 1 \in DOMAIN j
      /\ j[i].event \in ReferentKinds /\ j[i + 1].event \in TaskBearing /\ j[i + 1].for = j[i].eid
  BY DEF EventThenReceipt
<1>2. /\ DOMAIN q = DOMAIN j
      /\ \A r \in DOMAIN j : Moved(i, r) \in DOMAIN j /\ Moved(i, Moved(i, r)) = r
                             /\ q[Moved(i, r)] = j[r]
  BY <1>1, SwapMoves
<1>3. S \subseteq 1..Len(j) /\ Len(j) \in Nat /\ DOMAIN j = 1..Len(j) /\ i \in 1..Len(j)
  BY <1>1
<1>4. Max(S) \in S /\ \A y \in S : Max(S) >= y
  BY <1>3, LastLine
<1>5. \A r \in S : SourceEID(q, Moved(i, r)) = SourceEID(j, r)
  BY SwapKeepsWrites
<1>6. j[i].event \notin TaskBearing /\ j[i + 1].event # "removed"
  BY <1>1 DEF ReferentKinds, ChangeKinds, TaskBearing
<1>7. i \in S => SourceEID(j, i) = SourceEID(j, i + 1)
  BY <1>1, <1>6 DEF SourceEID
<1>a. /\ Decider(j, S) = IF receipts # {} THEN Max(receipts) ELSE Min(final)
      /\ Decider(q, T) = IF receiptsT # {} THEN Max(receiptsT) ELSE Min(finalT)
  BY DEF Decider
<1> HIDE DEF q
<1>8. SourceEID(q, Max(T)) = source
  <2>1. CASE i \notin S \/ i + 1 \notin S
    <3>1. Max(T) = Moved(i, Max(S))
      BY <1>3, <2>1, MovedMax
    <3> QED
      BY <1>4, <1>5, <3>1
  <2>2. CASE i \in S /\ i + 1 \in S /\ Max(S) # i + 1
    <3> DEFINE m == Max(S)
    <3>1. m \in S /\ \A y \in S : m >= y
      BY <1>4
    <3>2. m # i + 1
      BY <2>2
    <3> HIDE DEF m
    <3>3. m \in T /\ m = Moved(i, m) /\ T \subseteq Nat
      BY <1>3, <2>2, <3>1, <3>2 DEF Moved
    <3>4. \A r \in S : m >= Moved(i, r)
      BY <1>3, <2>2, <3>1, <3>2 DEF Moved
    <3>5. Max(T) = m
      BY <3>3, <3>4, GreatestLine
    <3> QED
      BY <1>4, <1>5, <3>1, <3>3, <3>5 DEF m
  <2>3. CASE i \in S /\ i + 1 \in S /\ Max(S) = i + 1
    <3>1. \A r \in S : i + 1 >= r
      BY <1>4, <2>3
    <3>2. i + 1 \in T /\ T \subseteq Nat /\ Moved(i, i) = i + 1
      BY <1>3, <2>3 DEF Moved
    <3>3. ASSUME NEW r \in S
          PROVE  i + 1 >= Moved(i, r)
      <4>1. r \in Nat /\ i \in Nat /\ i + 1 >= r
        BY <1>3, <3>1
      <4> QED
        BY <4>1 DEF Moved
    <3>4. Max(T) = i + 1
      BY <3>2, <3>3, GreatestLine
    <3> QED
      BY <1>5, <1>7, <2>3, <3>2, <3>4
  <2> QED
    BY <2>1, <2>2, <2>3
<1> HIDE DEF source
<1>9. finalT = {Moved(i, x) : x \in final}
  <2>1. ASSUME NEW x \in S
        PROVE  Moved(i, x) \in finalT <=> x \in final
    <3>1. Moved(i, x) \in finalT <=>
             \A r \in S : Moved(i, r) >= Moved(i, x) => SourceEID(j, r) = source
      <4>1. \A r \in S : Moved(i, r) \in T /\ SourceEID(q, Moved(i, r)) = SourceEID(j, r)
        BY <1>5
      <4>2. \A y \in T : \E r \in S : y = Moved(i, r)
        OBVIOUS
      <4> HIDE DEF T
      <4> QED
        BY <1>8, <4>1, <4>2
    <3>2. ASSUME NEW r \in S
          PROVE  \/ Moved(i, r) >= Moved(i, x) <=> r >= x
                 \/ r = i /\ x = i + 1
                 \/ r = i + 1 /\ x = i
      <4>1. r \in Nat /\ x \in Nat /\ i \in Nat
        BY <1>3
      <4> QED
        BY <4>1, SMT DEF Moved
    <3>3. Moved(i, x) >= Moved(i, x) /\ x >= x
      BY <1>3 DEF Moved
    <3>4. CASE x \notin {i, i + 1}
      BY <3>1, <3>2, <3>4
    <3>5. CASE x \in {i, i + 1}
      BY <1>7, <3>1, <3>2, <3>3, <3>5
    <3> QED
      BY <3>4, <3>5
  <2>2. final \subseteq S /\ finalT \subseteq T
    OBVIOUS
  <2> HIDE DEF final, finalT
  <2> QED
    BY <2>1, <2>2
<1>10. receiptsT = {Moved(i, x) : x \in receipts}
  <2>1. \A x \in final : q[Moved(i, x)] = j[x]
    BY <1>2
  <2> HIDE DEF final, finalT
  <2> QED
    BY <1>9, <2>1
<1>11. /\ receipts \subseteq 1..Len(j) /\ i \notin receipts
       /\ final \subseteq Nat /\ final # {}
  <2>1. Max(S) \in final
    <3>1. \A r \in S : r >= Max(S) => r = Max(S)
      BY <1>3, <1>4
    <3> QED
      BY <1>4, <3>1 DEF source
  <2> QED
    BY <1>3, <1>6, <2>1
<1>12. i + 1 \in final => i + 1 \in receipts
  BY <1>1
<1> HIDE DEF final, finalT, receipts, receiptsT
<1>13. CASE receipts # {}
  <2>1. Max(receiptsT) = Moved(i, Max(receipts))
    BY <1>3, <1>10, <1>11, <1>13, MovedMax
  <2>2. receiptsT # {}
    BY <1>10, <1>13
  <2> QED
    BY <1>a, <1>13, <2>1, <2>2 DEF q
<1>14. CASE receipts = {}
  <2>0. i \in Nat /\ i + 1 \notin final
    BY <1>3, <1>12, <1>14
  <2>1. Min(finalT) = Moved(i, Min(final))
    BY <1>9, <1>11, <2>0, MovedMin
  <2>2. receiptsT = {}
    BY <1>10, <1>14
  <2> QED
    BY <1>a, <1>14, <2>1, <2>2 DEF q
<1> QED
  BY <1>13, <1>14

\* Exchanging an event and a receipt for it leaves the fold as it is.
LEMMA SwapKeepsFold ==
    ASSUME NEW j \in Seq(Event), NEW i, EventThenReceipt(j, i)
    PROVE  Fold(Swapped(j, i)) = Fold(j)
<1> DEFINE q == Swapped(j, i)
           K == Nodes \cup Stems
<1>1. i \in DOMAIN j /\ i + 1 \in DOMAIN j /\ j[i].event \notin TaskBearing
  BY DEF EventThenReceipt, ReferentKinds, ChangeKinds, TaskBearing
<1>2. /\ DOMAIN q = DOMAIN j
      /\ \A r \in DOMAIN j : Moved(i, r) \in DOMAIN j /\ Moved(i, Moved(i, r)) = r
  BY <1>1, SwapMoves
<1>3. \A r \in DOMAIN j : EntryKey(q, Moved(i, r)) = EntryKey(j, r)
  BY SwapKeepsWrites
<1>4. \A k : EntryLines(q, k) = {Moved(i, r) : r \in EntryLines(j, k)}
  BY <1>2, <1>3 DEF EntryLines
<1>5. \A k : /\ DecidingLine(j, k) = Decider(j, EntryLines(j, k))
             /\ DecidingLine(q, k) = Decider(q, EntryLines(q, k))
  BY DEF Decider, DecidingLine
<1>6. ASSUME NEW k \in K, EntryLines(j, k) # {}
      PROVE  EntryOf(q, DecidingLine(q, k)) = EntryOf(j, DecidingLine(j, k))
  <2>1. EntryLines(j, k) \subseteq DOMAIN j
    BY DEF EntryLines
  <2>2. i \in EntryLines(j, k) => j[i].event = "removed"
    BY <1>1, JournalAssumption DEF EntryLines, EntryKey
  <2>3. DecidingLine(q, k) = Moved(i, DecidingLine(j, k))
    BY <1>4, <1>5, <1>6, <2>1, <2>2, SwapKeepsDecider
  <2>4. DecidingLine(j, k) \in DOMAIN j /\ EntryKey(j, DecidingLine(j, k)) = k
    BY <1>6, DecidingLineWritesEntry DEF EntryLines
  <2> QED
    BY <2>3, <2>4, SwapKeepsWrites
<1> HIDE DEF q
<1>7. ASSUME NEW k
      PROVE  EntryLines(q, k) = {} <=> EntryLines(j, k) = {}
  <2> DEFINE S == EntryLines(j, k)
  <2>1. EntryLines(q, k) = {Moved(i, r) : r \in S}
    BY <1>4
  <2> HIDE DEF S
  <2>2. EntryLines(q, k) = {} <=> S = {}
    BY <2>1
  <2> QED
    BY <2>2 DEF S
<1>8. {k \in K : EntryLines(q, k) # {}} = {k \in K : EntryLines(j, k) # {}}
  BY <1>7
<1>9. Fold(q) = Fold(j)
  BY <1>6, <1>8 DEF Fold
<1> QED
  BY <1>9 DEF q

(***************************************************************************)
(* A receipt may sit on either side of the event it answers: the fold of a *)
(* journal of any length does not tell (the comment on fold(),             *)
(* mapping/mapping_store.go).                                              *)
(***************************************************************************)
THEOREM ReceiptsMayPrecede == LogSpec => []ReceiptPositionIsImmaterial
<1>1. ASSUME log \in Journals
      PROVE  ReceiptPositionIsImmaterial
  <2>1. log \in Seq(Event)
    BY <1>1 DEF Journals
  <2>2. \A i \in 1..(Len(log) - 1) : i \in DOMAIN log /\ i + 1 \in DOMAIN log
    BY <2>1
  <2> QED
    BY <2>1, <2>2, SwapKeepsFold DEF ReceiptPositionIsImmaterial, EventThenReceipt
<1> QED
  BY <1>1, LogIsJournal, PTL
=============================================================================
