--------------------------- MODULE PipelineProofs ---------------------------
(***************************************************************************)
(* Invariants of the pipeline, for any number of nodes, proposals, commits *)
(* and faults, and whatever the phases in which people edit, plan, refresh *)
(* and work: what plan hands over and what ingest makes of it (complete    *)
(* ops, journal lines whose event ids are new), and what links changeset,  *)
(* tracker and journal (creates in layers, claims plan knew left alone, a  *)
(* pairing that names a task made for its node).                           *)
(***************************************************************************)
EXTENDS Claims, WellFoundedInduction, FiniteSetTheorems, TLAPS

-----------------------------------------------------------------------------
(* The last and the first of a set of line numbers. *)

\* A set of line numbers that is not empty has a least one.
LEMMA FirstLine ==
    ASSUME NEW S, S \subseteq Nat, S # {}
    PROVE  Min(S) \in S /\ \A y \in S : Min(S) <= y
<1>1. PICK x \in S : \A y \in S : ~(<<y, x>> \in OpToRel(<, Nat))
  BY NatLessThanWellFounded, WFMin
<1>2. OpToRel(<, Nat) = {ss \in Nat \X Nat : ss[1] < ss[2]}
  BY Zenon DEF OpToRel
<1>3. \A y \in S : x <= y
  <2>1. TAKE y \in S
  <2>2. ~(<<y, x>> \in {ss \in Nat \X Nat : ss[1] < ss[2]})
    BY <1>1, <1>2
  <2> QED
    BY <2>2, SMT
<1> QED
  BY <1>3 DEF Min

\* A set of lines of a journal that is not empty has a greatest one.
LEMMA LastLine ==
    ASSUME NEW n \in Nat, NEW S, S \subseteq 1..n, S # {}
    PROVE  Max(S) \in S /\ \A y \in S : Max(S) >= y
<1> DEFINE T == {n - i : i \in S}
<1>1. T \subseteq Nat
  BY SMT
<1>5. T # {}
  BY Zenon
<1>2. PICK m \in T : \A y \in T : m <= y
  BY <1>1, <1>5, FirstLine
<1>3. PICK x \in S : m = n - x
  BY <1>2
<1>4. \A y \in S : x >= y
  <2>1. TAKE y \in S
  <2>2. n - y \in T
    OBVIOUS
  <2> QED
    BY <1>2, <1>3, <2>2
<1> QED
  BY <1>4 DEF Max
-----------------------------------------------------------------------------
(* The events and the entries a reader finds. *)

\* An indexed event is a line of the journal, and carries the id looked up.
LEMMA ReferentTyped ==
    ASSUME NEW j \in Seq(Event), NEW e, ReferentLines(j, e) # {}
    PROVE  /\ Referent(j, e) \in Event
           /\ Referent(j, e).event \in ReferentKinds
           /\ Referent(j, e).eid = e
<1>1. ReferentLines(j, e) \subseteq 1..Len(j)
  BY DEF ReferentLines
<1>2. Max(ReferentLines(j, e)) \in ReferentLines(j, e)
  BY <1>1, LastLine
<1> QED
  BY <1>2 DEF Referent, ReferentLines

\* The line that decides an entry is one of the lines that write it.
LEMMA DecidingLineWritesEntry ==
    ASSUME NEW j \in Seq(Event), NEW k, EntryLines(j, k) # {}
    PROVE  DecidingLine(j, k) \in EntryLines(j, k)
<1> DEFINE all == EntryLines(j, k)
           final == {i \in all : \A r \in all : r >= i => SourceEID(j, r) = SourceEID(j, Max(all))}
           answers == {i \in final : j[i].event \in TaskBearing}
<1>1. all \subseteq 1..Len(j)
  BY DEF EntryLines
<1>2. Max(all) \in all /\ \A y \in all : Max(all) >= y
  BY <1>1, LastLine
<1>3. Max(all) \in final
  <2>1. \A r \in all : r >= Max(all) => r = Max(all)
    BY <1>1, <1>2
  <2> QED
    BY <1>2, <2>1
<1>4. DecidingLine(j, k) = IF answers # {} THEN Max(answers) ELSE Min(final)
  BY DEF DecidingLine
<1>5. final \subseteq all /\ answers \subseteq final
  OBVIOUS
<1> HIDE DEF final, answers
<1>6. Len(j) \in Nat /\ final \subseteq Nat /\ answers \subseteq 1..Len(j)
  BY <1>1, <1>5
<1>7. Min(final) \in final
  BY <1>3, <1>6, FirstLine
<1>8. answers # {} => Max(answers) \in answers
  BY <1>6, LastLine
<1> QED
  BY <1>4, <1>5, <1>7, <1>8

\* Every entry of the fold has a task id, a flag, a source and a hash.
LEMMA FoldTyped ==
    ASSUME NEW j \in Seq(Event)
    PROVE  /\ DOMAIN Fold(j) \subseteq Nodes \cup Stems
           /\ \A k \in DOMAIN Fold(j) : Fold(j)[k] \in FoldEntries
<1>1. DOMAIN Fold(j) = {k \in Nodes \cup Stems : EntryLines(j, k) # {}}
  BY DEF Fold
<1>2. ASSUME NEW k \in Nodes \cup Stems, EntryLines(j, k) # {}
      PROVE  EntryOf(j, DecidingLine(j, k)) \in FoldEntries
  <2> DEFINE i == DecidingLine(j, k)
  <2>1. i \in DOMAIN j /\ EntryKey(j, i) = k
    BY <1>2, DecidingLineWritesEntry DEF EntryLines
  <2>2. k # None
    BY JournalAssumption
  <2>3. j[i] \in Event
    BY <2>1
  <2> HIDE DEF i
  <2>4. CASE j[i].event = "removed"
    <3>1. EntryOf(j, i) = [task |-> NoTask, removed |-> TRUE, eid |-> j[i].eid, after |-> j[i].after]
      BY <2>4 DEF EntryOf
    <3> QED
      BY <2>3, <3>1 DEF FoldEntries, Event, NoTask, i
  <2>5. CASE j[i].event # "removed" /\ j[i].key # None
    <3>1. EntryOf(j, i) = [task |-> j[i].task, removed |-> FALSE, eid |-> None, after |-> None]
      BY <2>5 DEF EntryOf
    <3> QED
      BY <2>3, <3>1 DEF FoldEntries, Event, MaybeHash, i
  <2>6. CASE j[i].event # "removed" /\ j[i].key = None
    <3>1. j[i].event \in TaskBearing /\ ~IsDangling(j, i)
      BY <2>1, <2>2, <2>6 DEF EntryKey
    <3>2. ReferentLines(j, j[i].for) # {}
      BY <2>6, <3>1 DEF IsDangling
    <3>3. Referent(j, j[i].for) \in Event
      BY <3>2, ReferentTyped
    <3>4. EntryOf(j, i) =
            [task |-> j[i].task, removed |-> Referent(j, j[i].for).event = "removed",
             eid |-> j[i].for, after |-> Referent(j, j[i].for).after]
      BY <2>6 DEF EntryOf
    <3> QED
      BY <2>3, <3>3, <3>4 DEF FoldEntries, Event, i
  <2> QED
    BY <2>4, <2>5, <2>6
<1>3. \A k \in DOMAIN Fold(j) : Fold(j)[k] = EntryOf(j, DecidingLine(j, k))
  BY DEF Fold
<1> QED
  BY <1>1, <1>2, <1>3

\* FoldHas says that the fold has an entry.
LEMMA FoldHasDomain ==
    ASSUME NEW j, NEW k \in Nodes \cup Stems
    PROVE  FoldHas(j, k) <=> k \in DOMAIN Fold(j)
BY DEF FoldHas, Fold

\* The registration a stem resolves to is an event id or None.
LEMMA RegistrationTyped ==
    ASSUME NEW j \in Seq(Event), NEW stem
    PROVE  Registration(j, stem) \in EIDs \cup {None}
<1> DEFINE regs == {i \in DOMAIN j : j[i].event = "registered" /\ j[i].key = stem}
<1>1. CASE regs = {}
  BY <1>1 DEF Registration
<1>2. CASE regs # {}
  <2>1. regs \subseteq 1..Len(j)
    OBVIOUS
  <2>2. Max(regs) \in regs
    BY <1>2, <2>1, LastLine, SMTT(40)
  <2> DEFINE last == Max(regs)
  <2>3. last \in DOMAIN j
    BY <2>2
  <2> HIDE DEF last
  <2>5. j[last] \in Event
    BY <2>3
  <2>4. Registration(j, stem) = j[Max(regs)].eid
    BY <1>2 DEF Registration
  <2> QED
    BY <2>4, <2>5 DEF Event, last
<1> QED
  BY <1>1, <1>2

-----------------------------------------------------------------------------
(* What plan hands over, and what ingest makes of it. *)

CompleteOp(op) ==
    /\ op \in Op
    /\ op.act = "epic" => op.key \in Stems
    /\ op.act \in {"create", "cleanup", "retarget"} => op.key \in Nodes
    /\ op.act # "close" => op.label \in EIDs
    /\ op.act = "close" => op.why \in {"removed", "modified"}

\* An event id derived from an op of the model is an event id.
LEMMA DeriveEIDTyped ==
    ASSUME NEW head0 \in Nat, NEW act \in EIDSources, NEW key \in Nat \cup Stems
    PROVE  DeriveEID(head0, act, key) \in EIDs
BY DEF DeriveEID, EIDs, MaybeHash

\* The ids of the creates and cleanups of a batch are op ids.
LEMMA CreateIDsTyped ==
    ASSUME NEW creates \in SUBSET Nodes, NEW cleanups \in SUBSET Nodes
    PROVE  /\ DOMAIN CreateIDs(creates, cleanups) = creates \cup cleanups
           /\ \A n \in creates \cup cleanups : CreateIDs(creates, cleanups)[n] \in OpIDs
<1>1. ASSUME NEW n \in creates \cup cleanups
      PROVE  <<IF n \in creates THEN "create" ELSE "cleanup", n>> \in OpIDs
  BY JournalAssumption DEF OpIDs, OpActs
<1> QED
  BY <1>1 DEF CreateIDs

\* References into the batch are op ids.
LEMMA OpRefsTyped ==
    ASSUME NEW ids, NEW deps, \A n \in DOMAIN ids : ids[n] \in OpIDs
    PROVE  OpRefs(deps, ids) \subseteq OpIDs
BY DEF OpRefs

\* References to earlier work are task ids.
LEMMA TaskRefsTyped ==
    ASSUME NEW j \in Seq(Event), NEW ids, NEW deps, NEW tasks
    PROVE  TaskRefs(deps, ids, Fold(j), tasks) \subseteq Nat
BY FoldTyped DEF TaskRefs, Paired, FoldEntries

-----------------------------------------------------------------------------
(* Op by op. *)

\* The op that creates a proposal epic, once the proposal is registered.
LEMMA EpicOpComplete ==
    ASSUME NEW j \in Seq(Event), NEW stem \in Stems, Registration(j, stem) # None
    PROVE  CompleteOp(EpicOp(j, stem))
<1>1. Registration(j, stem) \in EIDs
  BY RegistrationTyped
<1> QED
  BY <1>1 DEF CompleteOp, EpicOp, Op, OpActs, NoTask, MaybeHash

\* The parent of a create is the epic of its batch or none.
LEMMA ParentTyped ==
    ASSUME NEW fold, NEW stem \in Stems
    PROVE  Parent(fold, stem) \subseteq OpIDs
BY DEF Parent, EpicID, OpIDs, OpActs

\* The op that creates a node's task.
LEMMA CreateOpComplete ==
    ASSUME NEW j \in Seq(Event), NEW tasks, NEW head0 \in Nat, NEW stem \in Stems,
           NEW ids, \A n \in DOMAIN ids : ids[n] \in OpIDs,
           NEW layerEdges, layerEdges \subseteq DOMAIN ids, NEW deps, NEW n \in Nodes
    PROVE  CompleteOp(CreateOp(Fold(j), tasks, head0, stem, ids, layerEdges, deps, n))
<1>1. DeriveEID(head0, "create", n) \in EIDs
  BY DeriveEIDTyped, JournalAssumption DEF EIDSources
<1>2. OpRefs(deps, ids) \cup {ids[m] : m \in layerEdges} \subseteq OpIDs
  BY OpRefsTyped
<1>3. TaskRefs(deps, ids, Fold(j), tasks) \subseteq Nat
  BY TaskRefsTyped
<1>4. Parent(Fold(j), stem) \subseteq OpIDs
  BY ParentTyped
<1> QED
  BY <1>1, <1>2, <1>3, <1>4, JournalAssumption
  DEF CompleteOp, CreateOp, Op, OpActs, NoTask, MaybeHash

\* A cleanup is planned for a node the fold pairs, so its label is this run's.
LEMMA CleanupOpComplete ==
    ASSUME NEW j \in Seq(Event), NEW head0 \in Nat, NEW stem \in Stems,
           NEW ids, \A n \in DOMAIN ids : ids[n] \in OpIDs,
           NEW layerEdges, layerEdges \subseteq DOMAIN ids,
           NEW retargetTasks, retargetTasks \subseteq Nat,
           NEW n \in Nodes, Paired(Fold(j), n)
    PROVE  CompleteOp(CleanupOp(Fold(j), head0, stem, ids, layerEdges, retargetTasks, n))
<1>1. DeriveEID(head0, "cleanup", n) \in EIDs
  BY DeriveEIDTyped, JournalAssumption DEF EIDSources
<1>2. {ids[m] : m \in layerEdges} \subseteq OpIDs
  OBVIOUS
<1>3. Parent(Fold(j), stem) \subseteq OpIDs
  BY ParentTyped
<1>4. ~Fold(j)[n].removed
  BY DEF Paired
<1> QED
  BY <1>1, <1>2, <1>3, <1>4, JournalAssumption
  DEF CompleteOp, CleanupOp, Op, OpActs, NoTask, MaybeHash

\* The op that retargets an open task.
LEMMA RetargetOpComplete ==
    ASSUME NEW j \in Seq(Event), NEW cur \in [Nodes -> MaybeHash], NEW edges0, NEW tasks,
           NEW head0 \in Nat, NEW ids, \A n \in DOMAIN ids : ids[n] \in OpIDs,
           NEW n \in Nodes, Paired(Fold(j), n)
    PROVE  CompleteOp(RetargetOp(Fold(j), cur, edges0, tasks, head0, ids, n))
<1>1. DeriveEID(head0, "retarget", n) \in EIDs
  BY DeriveEIDTyped, JournalAssumption DEF EIDSources
<1>2. OpRefs(DepsFor(cur, edges0, n), ids) \subseteq OpIDs
  BY OpRefsTyped
<1>3. TaskRefs(DepsFor(cur, edges0, n), ids, Fold(j), tasks) \subseteq Nat
  BY TaskRefsTyped
<1>4. Fold(j)[n].task \in Nat
  BY FoldTyped DEF Paired, FoldEntries
<1> QED
  BY <1>1, <1>2, <1>3, <1>4, JournalAssumption
  DEF CompleteOp, RetargetOp, Op, OpActs, MaybeHash

\* The op that closes the task of a node that left or folded back.
LEMMA CloseOpComplete ==
    ASSUME NEW j \in Seq(Event), NEW cur, NEW n \in Nodes, Paired(Fold(j), n)
    PROVE  CompleteOp(CloseOp(Fold(j), cur, n))
<1>1. Fold(j)[n].task \in Nat
  BY FoldTyped DEF Paired, FoldEntries
<1> QED
  BY <1>1 DEF CompleteOp, CloseOp, Op, OpActs, MaybeHash

-----------------------------------------------------------------------------
(***************************************************************************)
(* A changeset plan writes is well formed: plan/builder.go Build has no op *)
(* without its label, its node or a resolvable reference once the refusals *)
(* of the classifier, the sorter and the resolvers have passed.            *)
(***************************************************************************)
THEOREM PlanWritesCompleteOps ==
    ASSUME NEW j \in Seq(Event), NEW cur \in [Nodes -> MaybeHash],
           NEW edges0 \in [Nodes -> SUBSET Nodes], NEW base \in [Nodes -> MaybeHash], NEW tasks,
           NEW head0 \in Nat, NEW stem \in Stems, NEW marks \in SUBSET Nodes,
           ~PlanRefused(j, cur, edges0, tasks, stem, Diff(cur, base) \ marks)
    PROVE  /\ Build(j, cur, edges0, base, tasks, head0, stem, marks) \in Changeset
           /\ \A op \in Build(j, cur, edges0, base, tasks, head0, stem, marks).ops : CompleteOp(op)
<1> DEFINE changes == Diff(cur, base) \ marks
           fold == Fold(j)
           creates == ToCreate(changes, cur, edges0, fold, tasks)
           cleanups == ToCleanUp(changes, cur, fold, tasks)
           retargets == ToRetarget(changes, cur, edges0, fold, tasks)
           closes == ToClose(changes, cur, edges0, fold, tasks)
           ids == CreateIDs(creates, cleanups)
           epic == IF NeedsEpic(fold, stem) THEN {EpicOp(j, stem)} ELSE {}
           createOps == {CreateOp(fold, tasks, head0, stem, ids, LayerEdges(creates, cleanups, n),
                                  CreateDeps(changes, cur, edges0, n), n) : n \in creates}
           cleanupOps == {CleanupOp(fold, head0, stem, ids, LayerEdges(creates, cleanups, n),
                                    {fold[m].task : m \in retargets}, n) : n \in cleanups}
           retargetOps == {RetargetOp(fold, cur, edges0, tasks, head0, ids, n) : n \in retargets}
           closeOps == {CloseOp(fold, cur, n) : n \in closes}
           ops == BuildOps(j, cur, edges0, tasks, head0, stem, changes)
<1>1. ops = epic \cup createOps \cup cleanupOps \cup retargetOps \cup closeOps
  BY DEF BuildOps
<1>2. changes \subseteq Nodes
  BY DEF Diff
<1>3. /\ creates \subseteq Nodes
      /\ \A n \in cleanups \cup retargets \cup closes : n \in Nodes /\ Paired(fold, n)
  BY <1>2 DEF ToCreate, ToCleanUp, ToRetarget, ToClose, Tracked, FoldedBack,
              Matched, Unmatched, Orphaned
<1>4. /\ DOMAIN ids = creates \cup cleanups
      /\ \A n \in DOMAIN ids : ids[n] \in OpIDs
  BY <1>3, CreateIDsTyped
<1>5. \A n \in Nodes : LayerEdges(creates, cleanups, n) \subseteq DOMAIN ids
  BY <1>4 DEF LayerEdges
<1>6. {fold[m].task : m \in retargets} \subseteq Nat
  <2>1. \A k \in DOMAIN fold : fold[k].task \in Nat
    BY FoldTyped DEF FoldEntries
  <2>2. retargets \subseteq DOMAIN fold
    BY <1>3 DEF Paired
  <2> HIDE DEF fold, retargets
  <2> QED
    BY <2>1, <2>2
<1>7. NeedsEpic(fold, stem) => Registration(j, stem) # None
  BY DEF PlanRefused
<1> HIDE DEF changes, fold, creates, cleanups, retargets, closes, ids
<1>8. \A op \in ops : CompleteOp(op)
  <2>1. \A op \in epic : CompleteOp(op)
    BY <1>7, EpicOpComplete
  <2>2. \A op \in createOps : CompleteOp(op)
    BY <1>3, <1>4, <1>5, CreateOpComplete DEF fold
  <2>3. \A op \in cleanupOps : CompleteOp(op)
    BY <1>3, <1>4, <1>5, <1>6, CleanupOpComplete DEF fold
  <2>4. \A op \in retargetOps : CompleteOp(op)
    BY <1>3, <1>4, RetargetOpComplete DEF fold
  <2>5. \A op \in closeOps : CompleteOp(op)
    BY <1>3, CloseOpComplete DEF fold
  <2> HIDE DEF epic, createOps, cleanupOps, retargetOps, closeOps, ops
  <2> QED
    BY <1>1, <2>1, <2>2, <2>3, <2>4, <2>5
<1> DEFINE marked == {[node |-> n, before |-> base[n], after |-> cur[n]] : n \in marks}
<1>9. marked \subseteq AbsorbedEntry
  BY DEF AbsorbedEntry
<1>10. Build(j, cur, edges0, base, tasks, head0, stem, marks) =
          [head |-> head0, stem |-> stem, ops |-> ops, absorbed |-> marked]
  BY DEF Build, changes
<1> HIDE DEF ops, marked
<1> QED
  BY <1>8, <1>9, <1>10 DEF Changeset, CompleteOp

-----------------------------------------------------------------------------
UniqueEIDs(s) ==
    \A i, k \in DOMAIN s : s[i].eid = s[k].eid /\ s[i].eid # None => i = k

\* Lines that repeat no event id, neither among themselves nor one of known.
FreshLines(s, known) == UniqueEIDs(s) /\ KnownEIDs(s) \cap known = {}

-----------------------------------------------------------------------------
(* Sequences of lines. *)

\* The event ids of two journals put end to end.
LEMMA KnownEIDsConcat ==
    ASSUME NEW s \in Seq(Event), NEW t \in Seq(Event)
    PROVE  KnownEIDs(s \o t) = KnownEIDs(s) \cup KnownEIDs(t)
<1>1. DOMAIN (s \o t) = 1..(Len(s) + Len(t)) /\ DOMAIN s = 1..Len(s) /\ DOMAIN t = 1..Len(t)
  OBVIOUS
<1>2. \A i \in DOMAIN s : i \in DOMAIN (s \o t) /\ (s \o t)[i] = s[i]
  OBVIOUS
<1>3. \A i \in DOMAIN t : Len(s) + i \in DOMAIN (s \o t) /\ (s \o t)[Len(s) + i] = t[i]
  OBVIOUS
<1>4. \A i \in DOMAIN (s \o t) :
         \/ i \in DOMAIN s /\ (s \o t)[i] = s[i]
         \/ i - Len(s) \in DOMAIN t /\ (s \o t)[i] = t[i - Len(s)]
  OBVIOUS
<1> DEFINE st == s \o t
<1> HIDE DEF st
<1>5. ASSUME NEW e \in KnownEIDs(st) PROVE e \in KnownEIDs(s) \cup KnownEIDs(t)
  <2>1. PICK i \in DOMAIN st : st[i].eid = e /\ e # None
    BY <1>5 DEF KnownEIDs
  <2> QED
    BY <1>4, <2>1 DEF KnownEIDs, st
<1>6. ASSUME NEW e \in KnownEIDs(s) \cup KnownEIDs(t) PROVE e \in KnownEIDs(st)
  BY <1>2, <1>3, <1>6 DEF KnownEIDs, st
<1> QED
  BY <1>5, <1>6 DEF st

\* New lines appended to a journal without repeats leave it without repeats.
LEMMA FreshLinesConcat ==
    ASSUME NEW s \in Seq(Event), NEW t \in Seq(Event), UniqueEIDs(s), FreshLines(t, KnownEIDs(s))
    PROVE  UniqueEIDs(s \o t)
<1> DEFINE st == s \o t
<1> SUFFICES ASSUME NEW i \in DOMAIN st, NEW k \in DOMAIN st,
                    st[i].eid = st[k].eid, st[i].eid # None
             PROVE  i = k
  BY DEF UniqueEIDs
<1>1. \A x \in DOMAIN st :
         \/ x \in DOMAIN s /\ st[x] = s[x]
         \/ x - Len(s) \in DOMAIN t /\ st[x] = t[x - Len(s)]
  OBVIOUS
<1>2. i \in Nat /\ k \in Nat /\ Len(s) \in Nat
  OBVIOUS
<1> HIDE DEF st
<1>3. \A x \in DOMAIN s, y \in DOMAIN t : s[x].eid = t[y].eid => s[x].eid = None
  BY DEF FreshLines, KnownEIDs
<1>4. CASE i \in DOMAIN s /\ st[i] = s[i]
  BY <1>1, <1>3, <1>4 DEF UniqueEIDs
<1>5. CASE i - Len(s) \in DOMAIN t /\ st[i] = t[i - Len(s)]
  <2>1. CASE k \in DOMAIN s /\ st[k] = s[k]
    BY <1>3, <1>5, <2>1
  <2>2. CASE k - Len(s) \in DOMAIN t /\ st[k] = t[k - Len(s)]
    <3>1. i - Len(s) = k - Len(s)
      BY <1>5, <2>2 DEF FreshLines, UniqueEIDs
    <3> QED
      BY <1>2, <3>1
  <2> QED
    BY <1>1, <2>1, <2>2
<1> QED
  BY <1>1, <1>4, <1>5

\* A batch of at most one event, followed by a receipt.
LEMMA EventAndReceiptFresh ==
    ASSUME NEW ev \in Event, NEW rc \in Event, rc.eid = None, NEW known, ev.eid \notin known
    PROVE  <<ev, rc>> \in Seq(Event) /\ FreshLines(<<ev, rc>>, known)
<1>1. DOMAIN <<ev, rc>> = {1, 2} /\ <<ev, rc>>[1] = ev /\ <<ev, rc>>[2] = rc
  OBVIOUS
<1>2. <<ev, rc>> \in Seq(Event)
  OBVIOUS
<1> DEFINE s == <<ev, rc>>
<1> HIDE DEF s
<1>3. \A i, k \in DOMAIN s : s[i].eid = s[k].eid /\ s[i].eid # None => i = k
  BY <1>1 DEF s
<1>4. KnownEIDs(s) \subseteq {ev.eid}
  BY <1>1 DEF KnownEIDs, s
<1> QED
  BY <1>2, <1>3, <1>4 DEF FreshLines, UniqueEIDs, s

\* A single line whose event id is new, or that has none.
LEMMA OneLineFresh ==
    ASSUME NEW ev \in Event, NEW known, ev.eid = None \/ ev.eid \notin known
    PROVE  <<ev>> \in Seq(Event) /\ FreshLines(<<ev>>, known)
<1>1. DOMAIN <<ev>> = {1} /\ <<ev>>[1] = ev /\ <<ev>> \in Seq(Event)
  OBVIOUS
<1> DEFINE s == <<ev>>
<1> HIDE DEF s
<1>2. KnownEIDs(s) \subseteq {ev.eid} \ {None}
  BY <1>1 DEF KnownEIDs, s
<1> QED
  BY <1>1, <1>2 DEF FreshLines, UniqueEIDs, s

\* An op that adds nothing repeats nothing.
LEMMA NoLinesFresh ==
    ASSUME NEW known
    PROVE  <<>> \in Seq(Event) /\ FreshLines(<<>>, known)
BY DEF FreshLines, UniqueEIDs, KnownEIDs

-----------------------------------------------------------------------------
(* The builders. *)

\* A change event is a journal line with the event id it was given.
LEMMA ChangeEventTyped ==
    ASSUME NEW kind \in ChangeKinds, NEW eid \in EIDs, NEW n \in Nodes \cup Stems,
           NEW before \in MaybeHash, NEW after \in MaybeHash
    PROVE  /\ ChangeEvent(kind, eid, n, before, after) \in Event
           /\ ChangeEvent(kind, eid, n, before, after).eid = eid
BY DEF ChangeEvent, Event, EventKinds, ReferentKinds, NoTask

\* A task receipt is a journal line without an event id.
LEMMA TaskReceiptTyped ==
    ASSUME NEW kind \in ReceiptKinds, NEW for \in EIDs \cup {None}, NEW task \in Nat
    PROVE  /\ TaskReceipt(kind, for, task) \in Event
           /\ TaskReceipt(kind, for, task).eid = None
BY DEF TaskReceipt, Event, EventKinds, MaybeHash

\* The before hash the fold yields is a hash or null (priorHash).
LEMMA PriorHashTyped ==
    ASSUME NEW j \in Seq(Event), NEW n \in Nodes
    PROVE  PriorHash(j, n) \in MaybeHash
BY FoldTyped, FoldHasDomain DEF PriorHash, FoldEntries, MaybeHash

\* The lines of a create (buildNodeCreate).
LEMMA BuildNodeCreateFresh ==
    ASSUME NEW j \in Seq(Event), NEW b \in Seq(Event), NEW cur \in [Nodes -> MaybeHash],
           NEW head0 \in Nat, NEW op, op.key \in Nodes, NEW t \in Nat
    PROVE  /\ BuildNodeCreate(j, b, cur, head0, op, t) \in Seq(Event)
           /\ FreshLines(BuildNodeCreate(j, b, cur, head0, op, t), KnownEIDs(j) \cup KnownEIDs(b))
<1> DEFINE eid == DeriveEID(head0, "create", op.key)
           prior == PriorHash(j, op.key)
           kind == IF prior = None THEN "added" ELSE "modified"
<1>1. eid \in EIDs
  BY DeriveEIDTyped, JournalAssumption DEF EIDSources
<1>2. prior \in MaybeHash /\ cur[op.key] \in MaybeHash
  BY PriorHashTyped
<1>3. kind \in ChangeKinds
  BY DEF ChangeKinds
<1>4. CASE HasEID(j, b, eid)
  BY <1>4, NoLinesFresh DEF BuildNodeCreate
<1>5. CASE ~HasEID(j, b, eid)
  <2>1. BuildNodeCreate(j, b, cur, head0, op, t) =
          <<ChangeEvent(kind, eid, op.key, prior, cur[op.key]), TaskReceipt("task_created", eid, t)>>
    BY <1>5 DEF BuildNodeCreate
  <2>2. eid \notin KnownEIDs(j) \cup KnownEIDs(b)
    BY <1>5 DEF HasEID
  <2> HIDE DEF eid, prior, kind
  <2>3. /\ ChangeEvent(kind, eid, op.key, prior, cur[op.key]) \in Event
        /\ ChangeEvent(kind, eid, op.key, prior, cur[op.key]).eid = eid
    BY <1>1, <1>2, <1>3, ChangeEventTyped
  <2>4. TaskReceipt("task_created", eid, t) \in Event /\ TaskReceipt("task_created", eid, t).eid = None
    BY <1>1, TaskReceiptTyped DEF ReceiptKinds, TaskBearing
  <2> QED
    BY <2>1, <2>2, <2>3, <2>4, EventAndReceiptFresh
<1> QED
  BY <1>4, <1>5

\* The line of a proposal epic (buildEpicCreate).
LEMMA BuildEpicCreateFresh ==
    ASSUME NEW j \in Seq(Event), NEW known, NEW op, NEW t \in Nat
    PROVE  /\ BuildEpicCreate(j, op, t) \in Seq(Event)
           /\ FreshLines(BuildEpicCreate(j, op, t), known)
<1> DEFINE rc == TaskReceipt("task_created", Registration(j, op.key), t)
<1>1. rc \in Event /\ rc.eid = None
  BY RegistrationTyped, TaskReceiptTyped DEF ReceiptKinds, TaskBearing
<1>2. BuildEpicCreate(j, op, t) = <<>> \/ BuildEpicCreate(j, op, t) = <<rc>>
  BY DEF BuildEpicCreate
<1> HIDE DEF rc
<1> QED
  BY <1>1, <1>2, NoLinesFresh, OneLineFresh

\* The lines of a cleanup, wherever its removal was journaled (buildCleanupCreate).
LEMMA BuildCleanupCreateFresh ==
    ASSUME NEW j \in Seq(Event), NEW b \in Seq(Event),
           NEW head0 \in Nat, NEW op, op.key \in Nodes, FoldHas(j, op.key), NEW t \in Nat
    PROVE  /\ BuildCleanupCreate(j, b, head0, op, t) \in Seq(Event)
           /\ FreshLines(BuildCleanupCreate(j, b, head0, op, t), KnownEIDs(j) \cup KnownEIDs(b))
<1> DEFINE entry == Fold(j)[op.key]
           eid == DeriveEID(head0, "cleanup", op.key)
           lines == BuildCleanupCreate(j, b, head0, op, t)
<1>1. eid \in EIDs
  BY DeriveEIDTyped, JournalAssumption DEF EIDSources
<1>2. entry \in FoldEntries
  BY FoldTyped, FoldHasDomain
<1>3. \/ lines = <<>>
      \/ lines = <<TaskReceipt("task_created", entry.eid, t)>>
      \/ /\ ~HasEID(j, b, eid)
         /\ lines = <<ChangeEvent("removed", eid, op.key, entry.after, None),
                      TaskReceipt("task_created", eid, t)>>
  <2> HIDE DEF eid, entry
  <2>1. entry.removed \in BOOLEAN
    BY <1>2 DEF FoldEntries
  <2>2. lines = CASE entry.removed /\ entry.task # NoTask -> <<>>
          [] entry.removed /\ entry.task = NoTask -> <<TaskReceipt("task_created", entry.eid, t)>>
          [] ~entry.removed /\ HasEID(j, b, eid) -> <<>>
          [] OTHER -> <<ChangeEvent("removed", eid, op.key, entry.after, None),
                        TaskReceipt("task_created", eid, t)>>
    BY DEF BuildCleanupCreate, eid, entry
  <2> QED
    BY <2>1, <2>2
<1> HIDE DEF eid, entry, lines
<1>4. CASE lines = <<>>
  BY <1>4, NoLinesFresh DEF lines
<1>5. CASE lines = <<TaskReceipt("task_created", entry.eid, t)>>
  <2>1. /\ TaskReceipt("task_created", entry.eid, t) \in Event
        /\ TaskReceipt("task_created", entry.eid, t).eid = None
    BY <1>2, TaskReceiptTyped DEF ReceiptKinds, TaskBearing, FoldEntries
  <2> QED
    BY <1>5, <2>1, OneLineFresh DEF lines
<1>6. CASE /\ ~HasEID(j, b, eid)
           /\ lines = <<ChangeEvent("removed", eid, op.key, entry.after, None),
                        TaskReceipt("task_created", eid, t)>>
  <2>1. /\ ChangeEvent("removed", eid, op.key, entry.after, None) \in Event
        /\ ChangeEvent("removed", eid, op.key, entry.after, None).eid = eid
    BY <1>1, <1>2, ChangeEventTyped DEF ChangeKinds, FoldEntries, MaybeHash
  <2>2. TaskReceipt("task_created", eid, t) \in Event /\ TaskReceipt("task_created", eid, t).eid = None
    BY <1>1, TaskReceiptTyped DEF ReceiptKinds, TaskBearing
  <2>3. eid \notin KnownEIDs(j) \cup KnownEIDs(b)
    BY <1>6 DEF HasEID
  <2> QED
    BY <1>6, <2>1, <2>2, <2>3, EventAndReceiptFresh DEF lines
<1> QED
  BY <1>3, <1>4, <1>5, <1>6

\* The lines of a retarget (BuildRetarget).
LEMMA BuildRetargetFresh ==
    ASSUME NEW j \in Seq(Event), NEW b \in Seq(Event),
           NEW head0 \in Nat, NEW op \in Op, op.key \in Nodes
    PROVE  /\ BuildRetarget(j, b, head0, op) \in Seq(Event)
           /\ FreshLines(BuildRetarget(j, b, head0, op), KnownEIDs(j) \cup KnownEIDs(b))
<1> DEFINE eid == DeriveEID(head0, "retarget", op.key)
           ev == ChangeEvent("modified", eid, op.key, PriorHash(j, op.key), op.hash)
           rc == TaskReceipt("task_retargeted", eid, op.task)
<1>1. eid \in EIDs
  BY DeriveEIDTyped, JournalAssumption DEF EIDSources
<1>2. ev \in Event /\ ev.eid = eid
  <2>1. PriorHash(j, op.key) \in MaybeHash /\ op.hash \in MaybeHash
    BY PriorHashTyped DEF Op
  <2> QED
    BY <1>1, <2>1, ChangeEventTyped DEF ChangeKinds
<1>3. rc \in Event /\ rc.eid = None
  <2>1. op.task \in Nat
    BY DEF Op
  <2> QED
    BY <1>1, <2>1, TaskReceiptTyped DEF ReceiptKinds, TaskBearing
<1>4. \/ BuildRetarget(j, b, head0, op) = <<>>
      \/ ~HasEID(j, b, eid) /\ BuildRetarget(j, b, head0, op) = <<ev, rc>>
  BY DEF BuildRetarget
<1> HIDE DEF eid, ev, rc
<1> QED
  BY <1>2, <1>3, <1>4, NoLinesFresh, EventAndReceiptFresh DEF HasEID

\* The lines of a close, whether the node left the spec or folded back (BuildClose).
LEMMA BuildCloseFresh ==
    ASSUME NEW j \in Seq(Event), NEW b \in Seq(Event), NEW cur \in [Nodes -> MaybeHash],
           NEW head0 \in Nat, NEW op \in Op, NEW t \in Nat, op.act = "close",
           op.why \in {"removed", "modified"}, ~OpRefused(j, b, cur, head0, op)
    PROVE  /\ BuildClose(j, b, cur, head0, op, t) \in Seq(Event)
           /\ FreshLines(BuildClose(j, b, cur, head0, op, t), KnownEIDs(j) \cup KnownEIDs(b))
<1> DEFINE eid == DeriveEID(head0, "close", op.key)
           n == ClosedNode(j, op)
           ev == IF op.why = "removed"
                 THEN ChangeEvent("removed", eid, n, Fold(j)[n].after, None)
                 ELSE ChangeEvent("modified", eid, n, Fold(j)[n].after, cur[n])
           rc == TaskReceipt("task_closed", eid, t)
<1>1. CASE HasEID(j, b, eid)
  BY <1>1, NoLinesFresh DEF BuildClose
<1>2. CASE ~HasEID(j, b, eid)
  <2>1. eid \in EIDs
    BY DeriveEIDTyped DEF EIDSources, Op
  <2>2. /\ EntriesByTask(j, op.task) # {}
        /\ op.why = "modified" => InGraph(cur, n)
    BY <1>2 DEF OpRefused
  <2>3. n \in EntriesByTask(j, op.task)
    BY <2>2 DEF ClosedNode
  <2>4. n \in Nodes \cup Stems /\ Fold(j)[n] \in FoldEntries
    BY <2>3, FoldTyped DEF EntriesByTask
  <2>5. BuildClose(j, b, cur, head0, op, t) = <<ev, rc>>
    BY <1>2 DEF BuildClose
  <2>6. eid \notin KnownEIDs(j) \cup KnownEIDs(b)
    BY <1>2 DEF HasEID
  <2>7. rc \in Event /\ rc.eid = None
    BY <2>1, TaskReceiptTyped DEF ReceiptKinds
  <2> HIDE DEF eid, n, rc
  <2>8. Fold(j)[n].after \in MaybeHash
    BY <2>4 DEF FoldEntries
  <2>9. ev \in Event /\ ev.eid = eid
    <3>1. CASE op.why = "removed"
      <4>1. ev = ChangeEvent("removed", eid, n, Fold(j)[n].after, None)
        BY <3>1
      <4>2. None \in MaybeHash /\ "removed" \in ChangeKinds
        BY DEF ChangeKinds, MaybeHash
      <4> HIDE DEF ev
      <4> QED
        BY <2>1, <2>4, <2>8, <4>1, <4>2, ChangeEventTyped
    <3>2. CASE op.why # "removed" /\ InGraph(cur, n)
      <4>1. cur[n] \in MaybeHash /\ "modified" \in ChangeKinds
        BY <3>2 DEF InGraph, ChangeKinds
      <4>2. ev = ChangeEvent("modified", eid, n, Fold(j)[n].after, cur[n])
        BY <3>2
      <4> HIDE DEF ev
      <4> QED
        BY <2>1, <2>4, <2>8, <4>1, <4>2, ChangeEventTyped
    <3> HIDE DEF ev
    <3> QED
      BY <2>2, <3>1, <3>2
  <2> HIDE DEF ev
  <2> QED
    BY <2>5, <2>6, <2>7, <2>9, EventAndReceiptFresh
<1> QED
  BY <1>1, <1>2

(***************************************************************************)
(* The lines ingest builds for an op are journal lines whose event ids are *)
(* new to the journal and to the batch, whichever run built the batch so   *)
(* far: the hasEID and fold checks of ingest/event_builder.go together     *)
(* cover every kind of op.                                                 *)
(***************************************************************************)
THEOREM BuiltLinesAreFresh ==
    ASSUME NEW j \in Seq(Event), NEW b \in Seq(Event), NEW cur \in [Nodes -> MaybeHash],
           NEW head0 \in Nat, NEW op, CompleteOp(op), NEW t \in Nat,
           ~OpRefused(j, b, cur, head0, op)
    PROVE  /\ BuildOp(j, b, cur, head0, op, t) \in Seq(Event)
           /\ FreshLines(BuildOp(j, b, cur, head0, op, t), KnownEIDs(j) \cup KnownEIDs(b))
<1>1. op \in Op /\ op.act \in OpActs
  BY DEF CompleteOp, Op
<1>2. CASE op.act = "epic"
  BY <1>2, BuildEpicCreateFresh DEF BuildOp
<1>3. CASE op.act = "create"
  BY <1>3, BuildNodeCreateFresh DEF BuildOp, CompleteOp
<1>4. CASE op.act = "cleanup"
  <2>1. FoldHas(j, op.key)
    BY <1>4 DEF OpRefused
  <2> QED
    BY <1>4, <2>1, BuildCleanupCreateFresh DEF BuildOp, CompleteOp
<1>5. CASE op.act = "retarget"
  BY <1>1, <1>5, BuildRetargetFresh DEF BuildOp, CompleteOp
<1>6. CASE op.act = "close"
  BY <1>1, <1>6, BuildCloseFresh DEF BuildOp, CompleteOp
<1> QED
  BY <1>1, <1>2, <1>3, <1>4, <1>5, <1>6 DEF OpActs

\* The event of an absorbed entry is a line with a new id.
LEMMA AbsorbedLinesAreFresh ==
    ASSUME NEW j \in Seq(Event), NEW b \in Seq(Event), NEW entry \in AbsorbedEntry
    PROVE  /\ BuildAbsorbed(j, b, entry) \in Seq(Event)
           /\ FreshLines(BuildAbsorbed(j, b, entry), KnownEIDs(j) \cup KnownEIDs(b))
<1> DEFINE eid == AbsorbedEID(entry)
           ev == ChangeEvent("modified", eid, entry.node, entry.before, entry.after)
<1>1. entry.node \in Nodes /\ entry.before \in MaybeHash /\ entry.after \in MaybeHash
  BY DEF AbsorbedEntry
<1>2. eid \in EIDs
  BY <1>1, JournalAssumption DEF AbsorbedEID, DeriveRefreshEID, EIDs, EIDSources
<1>3. ev \in Event /\ ev.eid = eid
  BY <1>1, <1>2, ChangeEventTyped DEF ChangeKinds
<1>4. \/ BuildAbsorbed(j, b, entry) = <<>>
      \/ ~HasEID(j, b, eid) /\ BuildAbsorbed(j, b, entry) = <<ev>>
  BY DEF BuildAbsorbed
<1> HIDE DEF eid, ev
<1> QED
  BY <1>3, <1>4, NoLinesFresh, OneLineFresh DEF HasEID

\* The event of a refreshed leaf is a line whose id names the leaf.
LEMMA RefreshLineTyped ==
    ASSUME NEW cur \in [Nodes -> MaybeHash], NEW base \in [Nodes -> MaybeHash],
           NEW n \in Nodes, NEW nth \in Nat
    PROVE  /\ RefreshLine(cur, base, n, nth) \in Event
           /\ RefreshLine(cur, base, n, nth).eid = RefreshEID(n, base[n], cur[n], nth)
           /\ RefreshEID(n, base[n], cur[n], nth) \in EIDs
           /\ RefreshEID(n, base[n], cur[n], nth).key = n
<1>1. base[n] \in MaybeHash /\ cur[n] \in MaybeHash
  OBVIOUS
<1>2. /\ RefreshEID(n, base[n], cur[n], nth) \in EIDs
      /\ RefreshEID(n, base[n], cur[n], nth).key = n
  BY <1>1, JournalAssumption DEF RefreshEID, DeriveRefreshEID, EIDs, EIDSources
<1>3. ChangeType(cur, base, n) \in ChangeKinds
  BY DEF ChangeType, ChangeKinds
<1> QED
  BY <1>1, <1>2, <1>3, ChangeEventTyped DEF RefreshLine

-----------------------------------------------------------------------------
(* Sequences and record updates. *)

\* Updating one element of a sequence, in its domain or not.
LEMMA SeqUpdate ==
    ASSUME NEW S, NEW s \in Seq(S), NEW i, NEW e, i \in DOMAIN s => e \in S
    PROVE  [s EXCEPT ![i] = e] \in Seq(S)
<1>1. s \in [1..Len(s) -> S] /\ Len(s) \in Nat
  OBVIOUS
<1>2. [s EXCEPT ![i] = e] \in [1..Len(s) -> S]
  BY <1>1
<1> QED
  BY <1>1, <1>2

\* What an implementer and a close do to a task leaves it a task.
LEMMA TaskStatusTyped ==
    ASSUME NEW task \in Task, NEW st \in {"open", "in_progress", "closed"}
    PROVE  /\ [task EXCEPT !.status = st] \in Task
           /\ [task EXCEPT !.status = st, !.built = task.labels] \in Task
BY DEF Task

\* And so does a retarget.
LEMMA RetargetedTyped ==
    ASSUME NEW task \in Task, NEW op, op.label \in EIDs, NEW D, D \subseteq Nat
    PROVE  Retargeted(task, op, D) \in Task
BY DEF Task, Retargeted

-----------------------------------------------------------------------------
(***************************************************************************)
(* Type correctness needs to know where a changeset is present.  While one *)
(* is outstanding it is a changeset of complete ops; the adapter and       *)
(* ingest only run on an outstanding one; and ingest only reads receipts   *)
(* it has paired with the ops.                                             *)
(***************************************************************************)
Outstanding ==
    phase \in {"planned", "dead", "applied"} =>
        cs \in Changeset /\ \A op \in cs.ops : CompleteOp(op)

CommandsHaveInput ==
    /\ proc = "adapter" => phase \in {"planned", "dead"}
    /\ proc \in {"reconcile", "save"} => phase = "applied"
    /\ proc = "reconcile" => DOMAIN receipts = {OpID(op) : op \in cs.ops}

TypeInv == TypeOK /\ Outstanding /\ CommandsHaveInput

\* spex init leaves a well-typed project with nothing outstanding.
LEMMA InitTypeInv == Init => TypeInv
BY DEF Init, TypeInv, TypeOK, Outstanding, CommandsHaveInput, Specs, MaybeHash, NoReceipts,
       Phases, Procs

-----------------------------------------------------------------------------
(* The steps, part by part: each keeps TypeInv. *)

\* The author's commits and the implementers' work.
LEMMA WorkTyped ==
    ASSUME TypeInv, EditSpec \/ Work
    PROVE  TypeInv'
<1>1. CASE EditSpec
  <2>1. PICK d \in Drafts : spec' = d.hash /\ edges' = d.edges /\ head' = head + 1
    BY <1>1 DEF EditSpec
  <2>2. spec' \in Specs /\ edges' \in [Nodes -> SUBSET Nodes] /\ head' \in Nat
    BY <2>1, PipelineAssumption DEF TypeInv, TypeOK
  <2> QED
    BY <1>1, <2>2 DEF EditSpec, TypeInv, TypeOK, Outstanding, CommandsHaveInput,
                      journalVars, runVars, memVars
<1>2. CASE Work
  <2>1. PICK t \in DOMAIN tracker : Claim(t) \/ Finish(t)
    BY <1>2 DEF Work
  <2>2. tracker \in Seq(Task) /\ tracker[t] \in Task
    BY <2>1 DEF TypeInv, TypeOK
  <2>3. PICK task \in Task : tracker' = [tracker EXCEPT ![t] = task]
    <3>1. CASE Claim(t)
      <4>1. tracker' = [tracker EXCEPT ![t] = [tracker[t] EXCEPT !.status = "in_progress"]]
        BY <3>1 DEF Claim
      <4> QED
        BY <2>2, <4>1, TaskStatusTyped
    <3>2. CASE Finish(t)
      <4>1. tracker' = [tracker EXCEPT ![t] =
                          [tracker[t] EXCEPT !.status = "closed", !.built = tracker[t].labels]]
        BY <3>2 DEF Finish
      <4> QED
        BY <2>2, <4>1, TaskStatusTyped
    <3> QED
      BY <2>1, <3>1, <3>2
  <2>4. tracker' \in Seq(Task)
    BY <2>2, <2>3, SeqUpdate
  <2> QED
    BY <2>1, <2>4 DEF Claim, Finish, TypeInv, TypeOK, Outstanding, CommandsHaveInput,
                      specVars, journalVars, runVars, memVars
<1> QED
  BY <1>1, <1>2

\* Registration, complete or cut short after the journal line.
LEMMA RegisteringTyped ==
    ASSUME TypeInv, Registering
    PROVE  TypeInv'
<1>1. PICK stem \in Stems : Register(stem) \/ RegisterCrash(stem)
  BY DEF Registering
<1>2. RegisteredEvent(head, stem) \in Event
  BY DeriveEIDTyped, JournalAssumption
  DEF TypeInv, TypeOK, RegisteredEvent, RegisteredEID, Event, EventKinds, ReferentKinds,
      EIDSources, MaybeHash, NoTask
<1>3. journal' \in Seq(Event)
  <2>1. journal' = journal \/ journal' = Append(journal, RegisteredEvent(head, stem))
    BY <1>1 DEF Register, RegisterCrash, AppendRegistered
  <2>2. journal \in Seq(Event)
    BY DEF TypeInv, TypeOK
  <2> QED
    BY <1>2, <2>1, <2>2
<1> QED
  BY <1>1, <1>3 DEF Register, RegisterCrash, Fault, TypeInv, TypeOK, Outstanding,
                    CommandsHaveInput, specVars, runVars, memVars

\* Plan writes a changeset of complete ops.
LEMMA PlanningTyped ==
    ASSUME TypeInv, Planning
    PROVE  TypeInv'
<1>1. PICK stem \in Stems, marks \in SUBSET Absorbable(spec, snapshot) : Plan(stem, marks)
  BY DEF Planning
<1>2. marks \in SUBSET Nodes
  BY DEF Absorbable, Diff
<1>3. cs' \in Changeset /\ \A op \in cs'.ops : CompleteOp(op)
  BY <1>1, <1>2, PlanWritesCompleteOps DEF Plan, TypeInv, TypeOK, Specs
<1> QED
  BY <1>1, <1>3 DEF Plan, NoReceipts, Phases, TypeInv, TypeOK, Outstanding, CommandsHaveInput,
                    specVars, journalVars, memVars

\* What an op of a changeset refers to, once its refs resolve.
LEMMA DepTasksTyped ==
    ASSUME TypeInv, NEW op \in Op, RefsResolve(op)
    PROVE  DepTasks(op) \subseteq Nat
<1>1. op.taskDeps \subseteq Nat
  BY DEF Op
<1>2. \A r \in op.opDeps : results[r].task \in Nat
  BY DEF RefsResolve, TypeInv, TypeOK, Receipt
<1> QED
  BY <1>1, <1>2 DEF DepTasks

\* The task a create adds.
LEMMA NewTaskTyped ==
    ASSUME TypeInv, NEW op, CompleteOp(op), IsCreate(op), RefsResolve(op)
    PROVE  NewTask(op) \in Task
<1>1. DepTasks(op) \subseteq Nat
  BY DepTasksTyped DEF CompleteOp
<1>2. /\ op.act \in {"epic", "create", "cleanup"}
      /\ op.key \in Nodes \cup Stems
      /\ op.label \in EIDs
  BY DEF CompleteOp, IsCreate
<1> QED
  BY <1>1, <1>2 DEF NewTask, Task

\* The receipt of an op is a receipt.
LEMMA RespondTyped ==
    ASSUME TypeInv, NEW op \in Op, NEW status \in {"ok", "error"}, NEW t \in Nat,
           Respond(op, status, t)
    PROVE  /\ DOMAIN results' \subseteq OpIDs
           /\ \A id \in DOMAIN results' : results'[id] \in Receipt
<1>1. OpID(op) \in OpIDs
  BY DEF Op, OpID, OpIDs
<1>2. [status |-> status, task |-> t] \in Receipt
  BY DEF Receipt
<1>3. /\ DOMAIN results' = DOMAIN results \cup {OpID(op)}
      /\ \A id \in DOMAIN results' :
            results'[id] = IF id = OpID(op) THEN [status |-> status, task |-> t] ELSE results[id]
  BY DEF Respond
<1> QED
  BY <1>1, <1>2, <1>3 DEF TypeInv, TypeOK

\* A retarget that stops half-way leaves a well-formed tracker.
LEMMA PartlyRetargetedTyped ==
    ASSUME TypeInv, proc = "adapter", NEW op \in cs.ops, PartlyRetargeted(op)
    PROVE  tracker' \in Seq(Task)
<1>1. CompleteOp(op) /\ op \in Op /\ op.act = "retarget"
  BY DEF TypeInv, CommandsHaveInput, Outstanding, CompleteOp, PartlyRetargeted
<1>2. tracker \in Seq(Task) /\ \A t \in DOMAIN tracker : tracker[t] \in Task
  BY DEF TypeInv, TypeOK
<1>3. PICK D \in SUBSET DepTasks(op) :
         tracker' = [tracker EXCEPT ![op.task] = Retargeted(tracker[op.task], op, D)]
  BY DEF PartlyRetargeted
<1>4. D \subseteq Nat /\ op.label \in EIDs
  BY <1>1, <1>3, DepTasksTyped DEF CompleteOp, PartlyRetargeted
<1>5. op.task \in DOMAIN tracker => Retargeted(tracker[op.task], op, D) \in Task
  BY <1>2, <1>4, RetargetedTyped
<1> QED
  BY <1>2, <1>3, <1>5, SeqUpdate

\* One op of the adapter, whatever becomes of it.
LEMMA AdapterStepTyped ==
    ASSUME TypeInv, proc = "adapter", AdapterStep
    PROVE  TypeInv'
<1>1. PICK op \in cs.ops :
         AdapterMatch(op) \/ AdapterCreate(op) \/ AdapterRetarget(op)
            \/ AdapterClose(op) \/ AdapterRefError(op) \/ AdapterOpFails(op)
  BY DEF AdapterStep
<1>2. CompleteOp(op) /\ op \in Op
  BY DEF TypeInv, CommandsHaveInput, Outstanding, CompleteOp
<1>3. tracker \in Seq(Task)
  BY DEF TypeInv, TypeOK
<1>4. op.task \in Nat
  BY <1>2 DEF Op
<1>0. \A t \in DOMAIN tracker : tracker[t] \in Task
  BY <1>3
<1> DEFINE created == Append(tracker, NewTask(op))
           retargeted(D) == [tracker EXCEPT ![op.task] = Retargeted(tracker[op.task], op, D)]
<1>5. IsCreate(op) /\ RefsResolve(op) => created \in Seq(Task)
  BY <1>2, <1>3, NewTaskTyped
<1>6. ASSUME op.act = "retarget", RefsResolve(op), NEW D, D \subseteq DepTasks(op)
      PROVE  retargeted(D) \in Seq(Task)
  <2>1. D \subseteq Nat /\ op.label \in EIDs
    BY <1>2, <1>6, DepTasksTyped DEF CompleteOp
  <2>2. op.task \in DOMAIN tracker => Retargeted(tracker[op.task], op, D) \in Task
    BY <1>0, <2>1, RetargetedTyped
  <2> QED
    BY <1>3, <2>2, SeqUpdate
<1>7. ASSUME op.act = "close"
      PROVE  [tracker EXCEPT ![op.task] = [tracker[op.task] EXCEPT !.status = "closed"]] \in Seq(Task)
  <2>1. op.task \in DOMAIN tracker =>
           [tracker[op.task] EXCEPT !.status = "closed"] \in Task
    BY <1>0, TaskStatusTyped
  <2> QED
    BY <1>3, <2>1, SeqUpdate
<1>8. tracker' \in Seq(Task)
  <2>1. CASE AdapterMatch(op) \/ AdapterRefError(op)
    BY <1>3, <2>1 DEF AdapterMatch, AdapterRefError
  <2>2. CASE AdapterCreate(op)
    BY <1>5, <2>2 DEF AdapterCreate
  <2>3. CASE AdapterRetarget(op)
    <3>1. tracker' = retargeted(DepTasks(op)) /\ op.act = "retarget" /\ RefsResolve(op)
      BY <2>3 DEF AdapterRetarget
    <3> QED
      BY <1>6, <3>1
  <2>4. CASE AdapterClose(op)
    <3>1. tracker' = [tracker EXCEPT ![op.task] = [tracker[op.task] EXCEPT !.status = "closed"]]
      BY <2>4 DEF AdapterClose
    <3> QED
      BY <1>7, <2>4, <3>1 DEF AdapterClose
  <2>5. CASE AdapterOpFails(op)
    <3>1. CASE UNCHANGED tracker
      BY <1>3, <3>1
    <3>2. CASE IsCreate(op) /\ RefsResolve(op) /\ tracker' = created
      BY <1>5, <3>2
    <3>3. CASE PartlyRetargeted(op)
      BY <3>3, PartlyRetargetedTyped
    <3> QED
      BY <2>5, <3>1, <3>2, <3>3 DEF AdapterOpFails
  <2> QED
    BY <1>1, <2>1, <2>2, <2>3, <2>4, <2>5
<1>9. \E status \in {"ok", "error"}, t \in Nat : Respond(op, status, t)
  <2>1. DOMAIN tracker \subseteq Nat /\ Len(tracker) + 1 \in Nat
    BY <1>3
  <2>2. Labelled(op.label) \subseteq Nat
    BY <2>1 DEF Labelled
  <2>3. CASE AdapterMatch(op)
    BY <2>2, <2>3 DEF AdapterMatch
  <2>4. CASE AdapterCreate(op)
    BY <2>1, <2>4 DEF AdapterCreate
  <2>5. CASE AdapterRetarget(op) \/ AdapterClose(op)
    BY <1>4, <2>5 DEF AdapterRetarget, AdapterClose
  <2>6. CASE AdapterRefError(op) \/ AdapterOpFails(op)
    BY <2>6 DEF AdapterRefError, AdapterOpFails, NoTask
  <2> QED
    BY <1>1, <2>3, <2>4, <2>5, <2>6
<1>10. DOMAIN results' \subseteq OpIDs /\ \A id \in DOMAIN results' : results'[id] \in Receipt
  BY <1>2, <1>9, RespondTyped
<1>11. /\ UNCHANGED <<specVars, journalVars, runVars, proc, batch, done>>
       /\ faults' \in Nat
  BY <1>1 DEF AdapterMatch, AdapterCreate, AdapterRetarget, AdapterClose, AdapterRefError,
              AdapterOpFails, adapterFrame, Fault, TypeInv, TypeOK
<1> QED
  BY <1>8, <1>10, <1>11 DEF TypeInv, TypeOK, Outstanding, CommandsHaveInput,
                            specVars, journalVars, runVars

\* The adapter.
LEMMA ApplyingTyped ==
    ASSUME TypeInv, Applying
    PROVE  TypeInv'
<1>1. CASE AdapterStart
  BY <1>1 DEF AdapterStart, Procs, TypeInv, TypeOK, Outstanding, CommandsHaveInput,
              specVars, journalVars, runVars
<1>2. CASE AdapterFinish
  BY <1>2 DEF AdapterFinish, Stop, NoReceipts, Procs, Phases, TypeInv, TypeOK, Outstanding,
              CommandsHaveInput, specVars, journalVars
<1>3. CASE AdapterCrash
  <2>1. tracker' \in Seq(Task)
    BY <1>3, PartlyRetargetedTyped DEF AdapterCrash, TypeInv, TypeOK
  <2> QED
    BY <1>3, <2>1 DEF AdapterCrash, Stop, Fault, NoReceipts, Procs, Phases, TypeInv, TypeOK,
                      Outstanding, CommandsHaveInput, specVars, journalVars
<1> QED
  BY <1>1, <1>2, <1>3, AdapterStepTyped DEF Applying

\* A refresh receipt over the events of a batch, at its end.
LEMMA ReceiptAppended ==
    ASSUME NEW s \in Seq(Event), NEW eids \in SUBSET KnownEIDs(s)
    PROVE  /\ Append(s, RefreshReceipt(eids)) \in Seq(Event)
           /\ KnownEIDs(Append(s, RefreshReceipt(eids))) = KnownEIDs(s)
           /\ UniqueEIDs(s) => UniqueEIDs(Append(s, RefreshReceipt(eids)))
<1> DEFINE rc == RefreshReceipt(eids)
<1>1. KnownEIDs(s) \subseteq EIDs
  <2>1. \A i \in DOMAIN s : s[i] \in Event
    OBVIOUS
  <2>2. \A ev \in Event : ev.eid \in EIDs \cup {None}
    BY DEF Event
  <2> QED
    BY <2>1, <2>2 DEF KnownEIDs
<1>2. rc \in Event /\ rc.eid = None
  BY <1>1 DEF RefreshReceipt, Event, EventKinds, MaybeHash, NoTask
<1> HIDE DEF rc
<1>3. <<rc>> \in Seq(Event) /\ Append(s, rc) = s \o <<rc>>
  BY <1>2
<1>4. FreshLines(<<rc>>, KnownEIDs(s))
  BY <1>2, OneLineFresh
<1>5. KnownEIDs(<<rc>>) = {}
  BY <1>2 DEF KnownEIDs
<1>6. KnownEIDs(s \o <<rc>>) = KnownEIDs(s)
  <2>1. KnownEIDs(s \o <<rc>>) = KnownEIDs(s) \cup KnownEIDs(<<rc>>)
    BY <1>3, KnownEIDsConcat, Zenon
  <2> QED
    BY <1>5, <2>1
<1>7. s \o <<rc>> \in Seq(Event)
  BY <1>3
<1>8. UniqueEIDs(s) => UniqueEIDs(s \o <<rc>>)
  BY <1>3, <1>4, FreshLinesConcat
<1> QED
  BY <1>3, <1>6, <1>7, <1>8 DEF rc

\* The batch ingest commits repeats no event id that the batch before it did not.
LEMMA FinalBatchTyped ==
    ASSUME TypeInv
    PROVE  /\ FinalBatch \in Seq(Event)
           /\ KnownEIDs(FinalBatch) = KnownEIDs(batch)
           /\ UniqueEIDs(batch) => UniqueEIDs(FinalBatch)
<1>1. batch \in Seq(Event) /\ AbsorbedEIDs \subseteq KnownEIDs(batch)
  BY DEF TypeInv, TypeOK, AbsorbedEIDs
<1>2. FinalBatch = batch \/ FinalBatch = Append(batch, RefreshReceipt(AbsorbedEIDs))
  BY DEF FinalBatch
<1> QED
  BY <1>1, <1>2, ReceiptAppended

\* What one turn of the reconcile loop adds to the batch.
LEMMA ReconciledLines ==
    ASSUME TypeInv, proc = "reconcile", ReconcileStep
    PROVE  /\ \E lines \in Seq(Event) :
                 /\ batch' = batch \o lines
                 /\ FreshLines(lines, KnownEIDs(journal) \cup KnownEIDs(batch))
           /\ done' \in SUBSET LoopIDs
           /\ UNCHANGED <<specVars, journalVars, tracker, runVars, proc, results, faults>>
<1>1. /\ cs \in Changeset /\ \A op \in cs.ops : CompleteOp(op)
      /\ journal \in Seq(Event) /\ batch \in Seq(Event) /\ spec \in [Nodes -> MaybeHash]
      /\ done \in SUBSET LoopIDs
  BY DEF TypeInv, CommandsHaveInput, Outstanding, TypeOK, Specs
<1>2. cs.head \in Nat /\ cs.absorbed \subseteq AbsorbedEntry /\ cs.ops \subseteq Op
  BY <1>1 DEF Changeset
<1>3. batch = batch \o <<>>
  BY <1>1
<1>4. ASSUME NEW op \in cs.ops, ReconcileOp(op)
      PROVE  /\ \E lines \in Seq(Event) :
                   /\ batch' = batch \o lines
                   /\ FreshLines(lines, KnownEIDs(journal) \cup KnownEIDs(batch))
             /\ done' \in SUBSET LoopIDs
             /\ UNCHANGED <<specVars, journalVars, tracker, runVars, proc, results, faults>>
  <2>1. OpID(op) \in OpIDs
    BY <1>2 DEF Op, OpID, OpIDs
  <2>2. receipts[OpID(op)].task \in Nat
    BY DEF TypeInv, CommandsHaveInput, TypeOK, Receipt
  <2>3. CASE batch' = batch
    BY <1>3, <2>3, NoLinesFresh, <2>1, <1>1, <1>4 DEF ReconcileOp, LoopIDs
  <2>4. CASE /\ ~OpRefused(journal, batch, spec, cs.head, op)
             /\ batch' = batch \o BuildOp(journal, batch, spec, cs.head, op, receipts[OpID(op)].task)
    <3> DEFINE lines == BuildOp(journal, batch, spec, cs.head, op, receipts[OpID(op)].task)
    <3>1. /\ lines \in Seq(Event)
          /\ FreshLines(lines, KnownEIDs(journal) \cup KnownEIDs(batch))
      BY <1>1, <1>2, <2>2, <2>4, BuiltLinesAreFresh
    <3>2. batch' = batch \o lines
      BY <2>4
    <3> HIDE DEF lines
    <3> QED
      BY <3>1, <3>2, <2>1, <1>1, <1>4 DEF ReconcileOp, LoopIDs
  <2> QED
    BY <1>4, <2>3, <2>4 DEF ReconcileOp
<1>5. ASSUME NEW entry \in cs.absorbed, AbsorbEntry(entry)
      PROVE  /\ \E lines \in Seq(Event) :
                   /\ batch' = batch \o lines
                   /\ FreshLines(lines, KnownEIDs(journal) \cup KnownEIDs(batch))
             /\ done' \in SUBSET LoopIDs
             /\ UNCHANGED <<specVars, journalVars, tracker, runVars, proc, results, faults>>
  <2>1. entry \in AbsorbedEntry
    BY <1>2
  <2>2. <<"absorb", entry.node>> \in LoopIDs
    BY <2>1 DEF AbsorbedEntry, LoopIDs
  <2> DEFINE lines == BuildAbsorbed(journal, batch, entry)
  <2>3. lines \in Seq(Event) /\ FreshLines(lines, KnownEIDs(journal) \cup KnownEIDs(batch))
    BY <1>1, <2>1, AbsorbedLinesAreFresh
  <2>4. batch' = batch \o lines
    BY <1>5 DEF AbsorbEntry
  <2> HIDE DEF lines
  <2> QED
    BY <1>1, <1>5, <2>2, <2>3, <2>4 DEF AbsorbEntry
<1> QED
  BY <1>4, <1>5 DEF ReconcileStep

\* Ingest.
LEMMA IngestingTyped ==
    ASSUME TypeInv, Ingesting
    PROVE  TypeInv'
<1>1. CASE IngestStart
  BY <1>1 DEF IngestStart, Procs, TypeInv, TypeOK, Outstanding, CommandsHaveInput,
              specVars, journalVars, runVars
<1>2. CASE IngestCommit
  <2>1. journal' \in Seq(Event)
    BY <1>2, FinalBatchTyped DEF IngestCommit, TypeInv, TypeOK
  <2>2. batch' \in Seq(Event) /\ phase = "applied"
    BY <1>2 DEF IngestCommit, Committable, TypeInv, CommandsHaveInput
  <2> QED
    BY <1>2, <2>1, <2>2 DEF IngestCommit, Procs, TypeInv, TypeOK, Outstanding,
                            CommandsHaveInput, specVars, runVars
<1>3. CASE IngestRefuse
  BY <1>3 DEF IngestRefuse, Stop, NoReceipts, Procs, TypeInv, TypeOK, Outstanding,
              CommandsHaveInput, specVars, journalVars, runVars
<1>4. CASE IngestSave
  BY <1>4 DEF IngestSave, Stop, NoReceipts, Procs, Phases, TypeInv, TypeOK, Outstanding,
              CommandsHaveInput, specVars
<1>5. CASE IngestCrash
  BY <1>5 DEF IngestCrash, Stop, Fault, NoReceipts, Procs, TypeInv, TypeOK, Outstanding,
              CommandsHaveInput, specVars, journalVars, runVars
<1>6. CASE proc = "reconcile" /\ ReconcileStep
  <2>1. batch' \in Seq(Event)
    <3>1. PICK lines \in Seq(Event) : batch' = batch \o lines
      BY <1>6, ReconciledLines
    <3> QED
      BY <3>1 DEF TypeInv, TypeOK
  <2>2. /\ done' \in SUBSET LoopIDs
        /\ UNCHANGED <<specVars, journalVars, tracker, runVars, proc, results, faults>>
    BY <1>6, ReconciledLines
  <2> QED
    BY <2>1, <2>2 DEF TypeInv, TypeOK, Outstanding, CommandsHaveInput,
                      specVars, journalVars, runVars
<1> QED
  BY <1>1, <1>2, <1>3, <1>4, <1>5, <1>6 DEF Ingesting

\* What one turn of the refresh loop adds to the batch: nothing, or the event
\* of a leaf no earlier turn has handled, under an id the journal has not used.
LEMMA RefreshedLine ==
    ASSUME TypeInv, NEW n \in Nodes, RefreshEntry(n)
    PROVE  \/ batch' = batch
           \/ \E line \in Event : /\ batch' = Append(batch, line)
                                  /\ line.eid \in EIDs \ KnownEIDs(journal)
                                  /\ line.eid.key = n
<1>1. CASE batch' = batch
  BY <1>1
<1>2. ASSUME NEW nth \in 1..(Len(journal) + 1),
             FirstFree(journal, n, snapshot[n], spec[n], nth),
             batch' = Append(batch, RefreshLine(spec, snapshot, n, nth))
      PROVE  \E line \in Event : /\ batch' = Append(batch, line)
                                 /\ line.eid \in EIDs \ KnownEIDs(journal)
                                 /\ line.eid.key = n
  <2> DEFINE line == RefreshLine(spec, snapshot, n, nth)
             eid == RefreshEID(n, snapshot[n], spec[n], nth)
  <2>0. journal \in Seq(Event) /\ nth \in 1..(Len(journal) + 1)
    BY <1>2 DEF TypeInv, TypeOK
  <2>1. nth \in Nat /\ spec \in [Nodes -> MaybeHash] /\ snapshot \in [Nodes -> MaybeHash]
    <3>1. nth \in Nat
      BY <2>0
    <3> QED
      BY <3>1 DEF TypeInv, TypeOK, Specs
  <2>2. line \in Event /\ line.eid = eid /\ eid \in EIDs /\ eid.key = n
    BY <2>1, RefreshLineTyped, ZenonT(60)
  <2>3. eid \notin KnownEIDs(journal)
    BY <1>2 DEF FirstFree
  <2>4. batch' = Append(batch, line)
    BY <1>2
  <2> HIDE DEF line, eid
  <2> QED
    BY <2>2, <2>3, <2>4
<1> QED
  BY <1>1, <1>2 DEF RefreshEntry

\* Refresh.
LEMMA RefreshingTyped ==
    ASSUME TypeInv, Refreshing
    PROVE  TypeInv'
<1>1. CASE RefreshStart
  BY <1>1 DEF RefreshStart, Procs, TypeInv, TypeOK, Outstanding, CommandsHaveInput,
              specVars, journalVars, runVars
<1>2. ASSUME NEW n \in Nodes, RefreshEntry(n) PROVE TypeInv'
  <2>1. batch' \in Seq(Event)
    <3>1. batch' = batch \/ \E line \in Event : batch' = Append(batch, line)
      BY <1>2, RefreshedLine
    <3>2. batch \in Seq(Event)
      BY DEF TypeInv, TypeOK
    <3> QED
      BY <3>1, <3>2
  <2>2. done' \in SUBSET LoopIDs
    BY <1>2 DEF RefreshEntry, LoopIDs, TypeInv, TypeOK
  <2> QED
    BY <1>2, <2>1, <2>2 DEF RefreshEntry, TypeInv, TypeOK, Outstanding, CommandsHaveInput,
                            specVars, journalVars, runVars
<1>3. CASE RefreshAppend
  <2>1. batch' \in Seq(Event)
    BY <1>3, ReceiptAppended DEF RefreshAppend, TypeInv, TypeOK
  <2>2. journal' \in Seq(Event)
    BY <1>3, <2>1 DEF RefreshAppend, TypeInv, TypeOK
  <2> QED
    BY <1>3, <2>1, <2>2 DEF RefreshAppend, Procs, TypeInv, TypeOK, Outstanding,
                            CommandsHaveInput, specVars, runVars
<1>4. CASE RefreshSave
  BY <1>4 DEF RefreshSave, Stop, NoReceipts, Procs, TypeInv, TypeOK, Outstanding,
              CommandsHaveInput, specVars, runVars
<1>5. CASE RefreshSaveFails
  <2>1. journal' \in Seq(Event)
    BY <1>5 DEF RefreshSaveFails, TypeInv, TypeOK
  <2> QED
    BY <1>5, <2>1 DEF RefreshSaveFails, Stop, Fault, NoReceipts, Procs, TypeInv, TypeOK,
                      Outstanding, CommandsHaveInput, specVars, runVars
<1>6. CASE RefreshCrash
  BY <1>6 DEF RefreshCrash, Stop, Fault, NoReceipts, Procs, TypeInv, TypeOK, Outstanding,
              CommandsHaveInput, specVars, journalVars, runVars
<1> QED
  BY <1>1, <1>2, <1>3, <1>4, <1>5, <1>6 DEF Refreshing

\* Every step keeps TypeInv.
LEMMA NextTypeInv == TypeInv /\ [Next]_vars => TypeInv'
<1> SUFFICES ASSUME TypeInv, [Next]_vars PROVE TypeInv'
  OBVIOUS
<1>1. CASE UNCHANGED vars
  BY <1>1 DEF vars, specVars, journalVars, runVars, memVars, TypeInv, TypeOK, Outstanding,
              CommandsHaveInput
<1> QED
  BY <1>1, WorkTyped, RegisteringTyped, PlanningTyped, ApplyingTyped, IngestingTyped,
     RefreshingTyped DEF Next

(***************************************************************************)
(* The pipeline is type correct: in particular no task ever depends on     *)
(* anything but a task, and the adapter and ingest always have a complete  *)
(* changeset to run on (scripts/apply-br.sh, cmd/spex/ingest.go).          *)
(***************************************************************************)
THEOREM TypeCorrect == Spec => [](TypeOK /\ Outstanding /\ CommandsHaveInput)
<1>1. Spec => []TypeInv
  BY InitTypeInv, NextTypeInv, PTL DEF Spec
<1> QED
  BY <1>1, PTL DEF TypeInv

-----------------------------------------------------------------------------
(***************************************************************************)
(* Event ids.  That the journal repeats no id depends on what the running  *)
(* command holds in memory: nothing between commands; while a batch grows, *)
(* ids that are new to the journal and to the batch; while a refresh has   *)
(* appended but not saved, lines it can take back.                         *)
(***************************************************************************)
BatchIsNew ==
    /\ proc \in {"idle", "adapter", "save"} => batch = <<>>
    /\ proc \in {"reconcile", "refresh"} => FreshLines(batch, KnownEIDs(journal))

\* Each refreshed leaf has one event, so its id tells it from the others.
RefreshedOnce ==
    proc = "refresh" => \A e \in KnownEIDs(batch) : <<"refresh", e.key>> \in done

Revocable == proc = "refreshSave" => \E old \in Seq(Event) : journal = old \o batch

IDInv == UniqueEIDs(journal) /\ BatchIsNew /\ RefreshedOnce /\ Revocable

\* An event id of a batch that grows by one new line is old or the line's.
LEMMA OneLineAppended ==
    ASSUME NEW s \in Seq(Event), NEW line \in Event, NEW known,
           FreshLines(s, known), line.eid \notin known \cup KnownEIDs(s)
    PROVE  /\ FreshLines(Append(s, line), known)
           /\ KnownEIDs(Append(s, line)) \subseteq KnownEIDs(s) \cup {line.eid}
<1>1. <<line>> \in Seq(Event) /\ FreshLines(<<line>>, KnownEIDs(s))
  BY OneLineFresh
<1>2. Append(s, line) = s \o <<line>>
  OBVIOUS
<1>3. UniqueEIDs(s \o <<line>>)
  BY <1>1, FreshLinesConcat DEF FreshLines
<1>4. KnownEIDs(s \o <<line>>) = KnownEIDs(s) \cup KnownEIDs(<<line>>)
  BY <1>1, KnownEIDsConcat, Zenon
<1>5. KnownEIDs(<<line>>) \subseteq {line.eid}
  BY DEF KnownEIDs
<1> QED
  BY <1>2, <1>3, <1>4, <1>5 DEF FreshLines

\* A batch stays new when it grows by lines that are.
LEMMA FreshLinesAppended ==
    ASSUME NEW s \in Seq(Event), NEW t \in Seq(Event), NEW known,
           FreshLines(s, known), FreshLines(t, known \cup KnownEIDs(s))
    PROVE  FreshLines(s \o t, known)
<1>1. FreshLines(t, KnownEIDs(s))
  BY DEF FreshLines
<1>2. UniqueEIDs(s \o t)
  BY <1>1, FreshLinesConcat DEF FreshLines
<1>3. KnownEIDs(s \o t) = KnownEIDs(s) \cup KnownEIDs(t)
  BY KnownEIDsConcat, Zenon
<1> QED
  BY <1>2, <1>3 DEF FreshLines

\* What is left of a journal without its tail repeats no id either.
LEMMA UniquePrefix ==
    ASSUME NEW s \in Seq(Event), NEW t \in Seq(Event), UniqueEIDs(s \o t)
    PROVE  UniqueEIDs(s)
<1>1. \A i \in DOMAIN s : i \in DOMAIN (s \o t) /\ (s \o t)[i] = s[i]
  OBVIOUS
<1> DEFINE st == s \o t
<1> HIDE DEF st
<1>2. \A i \in DOMAIN s : i \in DOMAIN st /\ st[i] = s[i]
  BY <1>1 DEF st
<1>3. UniqueEIDs(st)
  BY DEF st
<1> QED
  BY <1>2, <1>3 DEF UniqueEIDs

\* The empty project repeats no id.
LEMMA InitIDInv == Init => IDInv
BY DEF Init, IDInv, BatchIsNew, RefreshedOnce, Revocable, UniqueEIDs

\* A step that leaves the journal and the running command's batch alone, and
\* one that ends a command without touching the journal.
LEMMA QuietStepIDInv ==
    ASSUME IDInv, UNCHANGED journal,
           \/ UNCHANGED <<batch, proc, done>>
           \/ proc' = "idle" /\ batch' = <<>>
    PROVE  IDInv'
<1>1. CASE UNCHANGED <<batch, proc, done>>
  BY <1>1 DEF IDInv, BatchIsNew, RefreshedOnce, Revocable, UniqueEIDs, FreshLines, KnownEIDs
<1>2. CASE proc' = "idle" /\ batch' = <<>>
  BY <1>2 DEF IDInv, BatchIsNew, RefreshedOnce, Revocable, UniqueEIDs
<1> QED
  BY <1>1, <1>2

\* Every step keeps IDInv.
LEMMA NextIDInv == TypeInv /\ IDInv /\ [Next]_vars => IDInv'
<1> SUFFICES ASSUME TypeInv, IDInv, [Next]_vars PROVE IDInv'
  OBVIOUS
<1> USE DEF vars, specVars, journalVars, runVars, memVars
<1>t. journal \in Seq(Event) /\ batch \in Seq(Event)
  BY DEF TypeInv, TypeOK
<1>1. CASE UNCHANGED vars
  BY <1>1, QuietStepIDInv
<1>2. CASE EditSpec \/ Work \/ Planning
  BY <1>2, QuietStepIDInv DEF EditSpec, Work, Claim, Finish, Planning, Plan
<1>3. CASE Registering
  <2>1. PICK stem \in Stems : Register(stem) \/ RegisterCrash(stem)
    BY <1>3 DEF Registering
  <2>2. /\ AppendRegistered(stem)
        /\ UNCHANGED <<batch, proc, done>> /\ proc = "idle" /\ batch = <<>>
    BY <2>1 DEF Register, RegisterCrash, IDInv, BatchIsNew
  <2>3. CASE UNCHANGED journal
    BY <2>2, <2>3, QuietStepIDInv
  <2>4. CASE RegisteredEID(head, stem) \notin KnownEIDs(journal)
    <3> DEFINE line == RegisteredEvent(head, stem)
    <3>1. journal' = Append(journal, line)
      BY <2>2, <2>4 DEF AppendRegistered
    <3>2. line \in Event
      BY DeriveEIDTyped, JournalAssumption
      DEF TypeInv, TypeOK, RegisteredEvent, RegisteredEID, Event, EventKinds, ReferentKinds,
          EIDSources, MaybeHash, NoTask
    <3>3. line.eid \notin KnownEIDs(journal)
      BY <2>4 DEF RegisteredEvent
    <3> HIDE DEF line
    <3>4. FreshLines(journal, {})
      BY DEF IDInv, FreshLines
    <3>5. UniqueEIDs(journal')
      BY <1>t, <3>1, <3>2, <3>3, <3>4, OneLineAppended DEF FreshLines
    <3> QED
      BY <2>2, <3>5 DEF IDInv, BatchIsNew, RefreshedOnce, Revocable
  <2> QED
    BY <2>2, <2>3, <2>4 DEF AppendRegistered
<1>4. CASE Applying
  <2>1. CASE AdapterStart
    BY <2>1 DEF AdapterStart, IDInv, BatchIsNew, RefreshedOnce, Revocable, UniqueEIDs
  <2>2. CASE AdapterFinish \/ AdapterCrash
    BY <2>2, QuietStepIDInv DEF AdapterFinish, AdapterCrash, Stop
  <2>3. CASE AdapterStep
    BY <2>3, QuietStepIDInv DEF AdapterStep, AdapterMatch, AdapterCreate, AdapterRetarget,
       AdapterClose, AdapterRefError, AdapterOpFails, adapterFrame
  <2> QED
    BY <1>4, <2>1, <2>2, <2>3 DEF Applying
<1>5. CASE Ingesting
  <2>1. CASE IngestStart
    BY <2>1, NoLinesFresh DEF IngestStart, IDInv, BatchIsNew, RefreshedOnce, Revocable, UniqueEIDs
  <2>2. CASE IngestRefuse \/ IngestSave \/ IngestCrash
    BY <2>2, QuietStepIDInv DEF IngestRefuse, IngestSave, IngestCrash, Stop
  <2>3. CASE proc = "reconcile" /\ ReconcileStep
    <3>1. PICK lines \in Seq(Event) :
             /\ batch' = batch \o lines
             /\ FreshLines(lines, KnownEIDs(journal) \cup KnownEIDs(batch))
      BY <2>3, ReconciledLines
    <3>2. UNCHANGED <<journal, proc>>
      BY <2>3, ReconciledLines
    <3>3. FreshLines(batch', KnownEIDs(journal))
      BY <1>t, <2>3, <3>1, FreshLinesAppended DEF IDInv, BatchIsNew
    <3>4. KnownEIDs(journal') = KnownEIDs(journal)
      BY <3>2
    <3> QED
      BY <2>3, <3>2, <3>3, <3>4 DEF IDInv, BatchIsNew, RefreshedOnce, Revocable, UniqueEIDs
  <2>4. CASE IngestCommit
    <3>1. /\ journal' = journal \o FinalBatch
          /\ proc = "reconcile" /\ proc' = "save" /\ batch' = <<>>
      BY <2>4 DEF IngestCommit, Committable
    <3>2. FinalBatch \in Seq(Event) /\ FreshLines(FinalBatch, KnownEIDs(journal))
      BY <3>1, FinalBatchTyped DEF IDInv, BatchIsNew, FreshLines
    <3>3. UniqueEIDs(journal')
      BY <1>t, <3>1, <3>2, FreshLinesConcat DEF IDInv
    <3> QED
      BY <3>1, <3>3 DEF IDInv, BatchIsNew, RefreshedOnce, Revocable
  <2> QED
    BY <1>5, <2>1, <2>2, <2>3, <2>4 DEF Ingesting
<1>6. CASE Refreshing
  <2>1. CASE RefreshStart
    <3>1. /\ UNCHANGED <<journal, batch>> /\ batch = <<>> /\ proc' = "refresh"
      BY <2>1 DEF RefreshStart, IDInv, BatchIsNew
    <3>2. KnownEIDs(batch') = {} /\ FreshLines(batch', KnownEIDs(journal'))
      BY <3>1, NoLinesFresh DEF KnownEIDs
    <3> QED
      BY <3>1, <3>2 DEF IDInv, BatchIsNew, RefreshedOnce, Revocable, UniqueEIDs
  <2>2. ASSUME NEW n \in Nodes, RefreshEntry(n) PROVE IDInv'
    <3>1. /\ proc = "refresh" /\ UNCHANGED <<journal, proc>>
          /\ <<"refresh", n>> \notin done /\ done' = done \cup {<<"refresh", n>>}
      BY <2>2 DEF RefreshEntry, Left
    <3>2. /\ FreshLines(batch, KnownEIDs(journal))
          /\ \A e \in KnownEIDs(batch) : <<"refresh", e.key>> \in done
      BY <3>1 DEF IDInv, BatchIsNew, RefreshedOnce
    <3>3. /\ FreshLines(batch', KnownEIDs(journal))
          /\ \A e \in KnownEIDs(batch') : <<"refresh", e.key>> \in done'
      <4>1. CASE batch' = batch
        BY <3>1, <3>2, <4>1
      <4>2. ASSUME NEW line \in Event, batch' = Append(batch, line),
                   line.eid \in EIDs \ KnownEIDs(journal), line.eid.key = n
            PROVE  /\ FreshLines(batch', KnownEIDs(journal))
                   /\ \A e \in KnownEIDs(batch') : <<"refresh", e.key>> \in done'
        <5>1. line.eid \notin KnownEIDs(journal) \cup KnownEIDs(batch)
          BY <3>1, <3>2, <4>2
        <5>2. /\ FreshLines(batch', KnownEIDs(journal))
              /\ KnownEIDs(batch') \subseteq KnownEIDs(batch) \cup {line.eid}
          BY <1>t, <3>2, <4>2, <5>1, OneLineAppended
        <5> QED
          BY <3>1, <3>2, <4>2, <5>2
      <4> QED
        BY <2>2, <4>1, <4>2, RefreshedLine
    <3>4. KnownEIDs(journal') = KnownEIDs(journal)
      BY <3>1
    <3> QED
      BY <3>1, <3>3, <3>4 DEF IDInv, BatchIsNew, RefreshedOnce, Revocable, UniqueEIDs
  <2>3. CASE RefreshAppend
    <3>1. /\ proc = "refresh" /\ proc' = "refreshSave"
          /\ batch' = Append(batch, RefreshReceipt(KnownEIDs(batch)))
          /\ journal' = journal \o batch'
      BY <2>3 DEF RefreshAppend
    <3>2. batch' \in Seq(Event) /\ FreshLines(batch', KnownEIDs(journal))
      BY <1>t, <3>1, ReceiptAppended DEF IDInv, BatchIsNew, FreshLines
    <3>3. UniqueEIDs(journal')
      BY <1>t, <3>1, <3>2, FreshLinesConcat DEF IDInv
    <3> QED
      BY <1>t, <3>1, <3>3 DEF IDInv, BatchIsNew, RefreshedOnce, Revocable
  <2>4. CASE RefreshSave \/ RefreshCrash
    BY <2>4, QuietStepIDInv DEF RefreshSave, RefreshCrash, Stop
  <2>5. CASE RefreshSaveFails
    <3>1. PICK old \in Seq(Event) : journal = old \o batch
      BY <2>5 DEF RefreshSaveFails, IDInv, Revocable
    <3>2. SubSeq(journal, 1, Len(journal) - Len(batch)) = old
      BY <1>t, <3>1
    <3>3. journal' = old /\ proc' = "idle" /\ batch' = <<>>
      BY <2>5, <3>2 DEF RefreshSaveFails, Stop
    <3>4. UniqueEIDs(old)
      BY <1>t, <3>1, UniquePrefix DEF IDInv
    <3> QED
      BY <3>3, <3>4 DEF IDInv, BatchIsNew, RefreshedOnce, Revocable
  <2> QED
    BY <1>6, <2>1, <2>2, <2>3, <2>4, <2>5 DEF Refreshing
<1> QED
  BY <1>1, <1>2, <1>3, <1>4, <1>5, <1>6 DEF Next

\* The two invariants hold together.
LEMMA PipelineInvariant == Spec => [](TypeInv /\ IDInv)
<1>1. Init => TypeInv /\ IDInv
  BY InitTypeInv, InitIDInv
<1>2. TypeInv /\ IDInv /\ [Next]_vars => (TypeInv /\ IDInv)'
  BY NextTypeInv, NextIDInv
<1> QED
  BY <1>1, <1>2, PTL DEF Spec

(***************************************************************************)
(* No event id is journaled twice, whatever was crashed, re-run, planned   *)
(* again or refreshed, for any number of nodes, proposals and commits:     *)
(* the reconciler's hasEID, the registrar's eid check and uniqueRefreshEID *)
(* together suffice (ingest/reconciler.go, proposal/register.go,           *)
(* ingest/refresh.go).                                                     *)
(***************************************************************************)
THEOREM EventIDsStayUnique == Spec => []EventIDsUnique
<1>1. IDInv => EventIDsUnique
  BY DEF IDInv, UniqueEIDs, EventIDsUnique
<1> QED
  BY <1>1, PipelineInvariant, PTL

(***************************************************************************)
(* The journal is append only, but for a refresh that takes back exactly   *)
(* the lines it added: the roll-back never eats a line of an earlier run   *)
(* (mapping.Append, restoreJournalBytes of ingest/refresh.go).             *)
(***************************************************************************)
THEOREM JournalIsAppendOnly == Spec => JournalOnlyGrows
<1> DEFINE Grows == \/ Len(journal') >= Len(journal) /\ SubSeq(journal', 1, Len(journal)) = journal
                    \/ proc = "refreshSave" /\ journal = journal' \o batch /\ snapshot' = snapshot
<1>a. ASSUME NEW s \in Seq(Event), NEW t \in Seq(Event)
      PROVE  Len(s \o t) >= Len(s) /\ SubSeq(s \o t, 1, Len(s)) = s
  OBVIOUS
<1>b. ASSUME NEW s \in Seq(Event)
      PROVE  Len(s) >= Len(s) /\ SubSeq(s, 1, Len(s)) = s
  OBVIOUS
<1>1. ASSUME TypeInv, IDInv, Next PROVE Grows
  <2>1. journal \in Seq(Event) /\ batch \in Seq(Event)
    BY <1>1 DEF TypeInv, TypeOK
  <2>2. CASE UNCHANGED journal
    BY <1>b, <2>1, <2>2
  <2>3. CASE Registering
    <3>1. PICK stem \in Stems : AppendRegistered(stem)
      BY <2>3 DEF Registering, Register, RegisterCrash
    <3>2. journal' = Append(journal, RegisteredEvent(head, stem))  \/ UNCHANGED journal
      BY <3>1 DEF AppendRegistered
    <3> QED
      BY <2>1, <2>2, <3>2
  <2>4. CASE IngestCommit
    BY <1>1, <1>a, <2>1, <2>4, FinalBatchTyped DEF IngestCommit
  <2>5. CASE RefreshAppend
    <3>1. batch' \in Seq(Event) /\ journal' = journal \o batch'
      BY <2>1, <2>5, ReceiptAppended DEF RefreshAppend
    <3> QED
      BY <1>a, <2>1, <3>1
  <2>6. CASE RefreshSaveFails
    <3>1. PICK old \in Seq(Event) : journal = old \o batch
      BY <1>1, <2>6 DEF RefreshSaveFails, IDInv, Revocable
    <3>2. SubSeq(journal, 1, Len(journal) - Len(batch)) = old
      BY <2>1, <3>1
    <3> QED
      BY <2>6, <3>1, <3>2 DEF RefreshSaveFails
  <2>7. \/ UNCHANGED journal \/ Registering \/ IngestCommit \/ RefreshAppend \/ RefreshSaveFails
    <3> USE DEF journalVars, runVars
    <3>1. CASE EditSpec \/ Work \/ Planning
      BY <3>1 DEF EditSpec, Work, Claim, Finish, Planning, Plan
    <3>2. CASE Applying
      BY <3>2 DEF Applying, AdapterStart, AdapterFinish, AdapterCrash, AdapterStep, AdapterMatch,
         AdapterCreate, AdapterRetarget, AdapterClose, AdapterRefError, AdapterOpFails, adapterFrame
    <3>3. CASE Ingesting
      BY <3>3 DEF Ingesting, IngestStart, IngestRefuse, IngestSave, IngestCrash, ReconcileStep,
         ReconcileOp, AbsorbEntry
    <3>4. CASE Refreshing
      BY <3>4 DEF Refreshing, RefreshStart, RefreshSave, RefreshCrash, RefreshEntry
    <3> QED
      BY <1>1, <3>1, <3>2, <3>3, <3>4 DEF Next
  <2> QED
    BY <2>2, <2>3, <2>4, <2>5, <2>6, <2>7
<1>2. TypeInv /\ IDInv /\ [Next]_vars => [Grows]_vars
  BY <1>1
<1> QED
  BY <1>2, PipelineInvariant, PTL DEF Spec, JournalOnlyGrows

-----------------------------------------------------------------------------
(***************************************************************************)
(* Refresh receipts.  A journal is accounted for when its events have ids, *)
(* each refresh-born id is named by one receipt, and receipts name nothing *)
(* else.  A batch under construction has no refresh receipt yet; one that  *)
(* may still be taken back was put on a journal that was accounted for.    *)
(***************************************************************************)
Accounted(s) ==
    /\ \A i \in DOMAIN s : s[i].event \in ReferentKinds => s[i].eid \in EIDs
    /\ \A e \in KnownEIDs(s) : e.src = "refresh" =>
          \E i \in DOMAIN s : \A k \in DOMAIN s : e \in s[k].absorbed <=> k = i
    /\ \A i \in DOMAIN s : \A e \in s[i].absorbed : e \in KnownEIDs(s) /\ e.src = "refresh"

\* A line that is no refresh receipt, and has an id if it is an event.
Plain(line) == line.absorbed = {} /\ (line.event \in ReferentKinds => line.eid \in EIDs)

AllPlain(s) == \A i \in DOMAIN s : Plain(s[i])

AccountInv ==
    /\ Accounted(journal)
    /\ proc \in {"reconcile", "refresh"} => AllPlain(batch)
    /\ proc = "refresh" => \A e \in KnownEIDs(batch) : e.src = "refresh"
    /\ proc = "refreshSave" =>
          \E old \in Seq(Event) : journal = old \o batch /\ Accounted(old)

\* Where the lines of two sequences put end to end are.
LEMMA ConcatLines ==
    ASSUME NEW s \in Seq(Event), NEW t \in Seq(Event)
    PROVE  /\ s \o t \in Seq(Event) /\ Len(s \o t) = Len(s) + Len(t)
           /\ \A i \in DOMAIN s : i \in DOMAIN (s \o t) /\ (s \o t)[i] = s[i]
           /\ \A i \in DOMAIN t : Len(s) + i \in DOMAIN (s \o t) /\ (s \o t)[Len(s) + i] = t[i]
           /\ \A i \in DOMAIN (s \o t) :
                 \/ i \in DOMAIN s /\ (s \o t)[i] = s[i]
                 \/ /\ i \notin DOMAIN s /\ i - Len(s) \in DOMAIN t
                    /\ (s \o t)[i] = t[i - Len(s)]
OBVIOUS

\* A line appended to a journal is the last, and the others are where they were.
LEMMA AppendedLine ==
    ASSUME NEW s \in Seq(Event), NEW line
    PROVE  /\ Len(s) + 1 \in DOMAIN Append(s, line) /\ Append(s, line)[Len(s) + 1] = line
           /\ \A i \in DOMAIN Append(s, line) :
                 \/ i = Len(s) + 1 /\ Append(s, line)[i] = line
                 \/ i \in DOMAIN s /\ Append(s, line)[i] = s[i]
           /\ \A i \in DOMAIN s : i \in DOMAIN Append(s, line) /\ i # Len(s) + 1
                                  /\ Append(s, line)[i] = s[i]
<1> DEFINE c == Append(s, line)
           N == Len(s) + 1
<1>1. Len(s) \in Nat /\ DOMAIN s = 1..Len(s) /\ Len(c) = N /\ DOMAIN c = 1..N
  OBVIOUS
<1>2. c[N] = line /\ \A i \in 1..Len(s) : c[i] = s[i]
  OBVIOUS
<1>3. \A i \in 1..N : i = N \/ i \in 1..Len(s)
  BY <1>1
<1>4. N \in 1..N /\ N \notin 1..Len(s) /\ 1..Len(s) \subseteq 1..N
  BY <1>1
<1> HIDE DEF c, N
<1>5. N \in DOMAIN c /\ c[N] = line
  BY <1>1, <1>2, <1>4
<1>6. \A i \in DOMAIN c : (i = N /\ c[i] = line) \/ (i \in DOMAIN s /\ c[i] = s[i])
  BY <1>1, <1>2, <1>3, Zenon
<1>7. \A i \in DOMAIN s : i \in DOMAIN c /\ i # N /\ c[i] = s[i]
  <2>1. \A i \in 1..Len(s) : i \in 1..N /\ i # N
    BY <1>4
  <2> QED
    BY <1>1, <1>2, <2>1, Zenon
<1> QED
  BY <1>5, <1>6, <1>7, Zenon DEF c, N

\* Two accounted journals with different ids make one.
LEMMA AccountedConcat ==
    ASSUME NEW s \in Seq(Event), NEW t \in Seq(Event), Accounted(s), Accounted(t),
           KnownEIDs(s) \cap KnownEIDs(t) = {}
    PROVE  Accounted(s \o t)
<1> DEFINE st == s \o t
           L == Len(s)
<1>1. /\ \A i \in DOMAIN s : i \in DOMAIN st /\ st[i] = s[i]
      /\ \A i \in DOMAIN t : L + i \in DOMAIN st /\ st[L + i] = t[i]
      /\ \A i \in DOMAIN st :
            \/ i \in DOMAIN s /\ st[i] = s[i]
            \/ i \notin DOMAIN s /\ i - L \in DOMAIN t /\ st[i] = t[i - L]
  BY ConcatLines, Zenon
<1>2. KnownEIDs(st) = KnownEIDs(s) \cup KnownEIDs(t)
  BY KnownEIDsConcat, Zenon
<1>3. L \in Nat /\ DOMAIN s \subseteq Nat /\ DOMAIN t \subseteq Nat /\ DOMAIN st \subseteq Nat
      /\ \A i \in DOMAIN t : L + i \notin DOMAIN s
  BY ConcatLines
<1> HIDE DEF st, L
<1>4. \A i \in DOMAIN st : st[i].event \in ReferentKinds => st[i].eid \in EIDs
  BY <1>1 DEF Accounted
<1>5. \A i \in DOMAIN st : \A e \in st[i].absorbed : e \in KnownEIDs(st) /\ e.src = "refresh"
  BY <1>1, <1>2 DEF Accounted
<1>6. ASSUME NEW e \in KnownEIDs(st), e.src = "refresh"
      PROVE  \E i \in DOMAIN st : \A k \in DOMAIN st : e \in st[k].absorbed <=> k = i
  <2>1. CASE e \in KnownEIDs(s)
    <3>1. PICK i \in DOMAIN s : \A k \in DOMAIN s : e \in s[k].absorbed <=> k = i
      BY <1>6, <2>1 DEF Accounted
    <3>2. \A k \in DOMAIN t : e \notin t[k].absorbed
      BY <2>1 DEF Accounted
    <3>3. \A k \in DOMAIN st : e \in st[k].absorbed <=> k = i
      BY <1>1, <3>1, <3>2
    <3> QED
      BY <1>1, <3>3
  <2>2. CASE e \in KnownEIDs(t)
    <3>1. PICK i \in DOMAIN t : \A k \in DOMAIN t : e \in t[k].absorbed <=> k = i
      BY <1>6, <2>2 DEF Accounted
    <3>2. \A k \in DOMAIN s : e \notin s[k].absorbed
      BY <2>2 DEF Accounted
    <3>3. ASSUME NEW k \in DOMAIN st
          PROVE  e \in st[k].absorbed <=> k = L + i
      <4>1. CASE k \in DOMAIN s /\ st[k] = s[k]
        BY <1>3, <3>2, <4>1
      <4>2. CASE k - L \in DOMAIN t /\ st[k] = t[k - L]
        <5>1. k - L = i <=> k = L + i
          BY <1>3
        <5> QED
          BY <3>1, <4>2, <5>1
      <4> QED
        BY <1>1, <4>1, <4>2
    <3> QED
      BY <1>1, <3>3
  <2> QED
    BY <1>2, <1>6, <2>1, <2>2
<1>7. Accounted(st)
  BY <1>4, <1>5, <1>6 DEF Accounted
<1> QED
  BY <1>7 DEF st

\* A batch closed by a receipt for its refresh-born events is accounted for,
\* and so is a batch that has none.
LEMMA AccountedBatch ==
    ASSUME NEW b \in Seq(Event), AllPlain(b), NEW E,
           E = {e \in KnownEIDs(b) : e.src = "refresh"}
    PROVE  Accounted(Append(b, RefreshReceipt(E))) /\ (E = {} => Accounted(b))
<1> DEFINE rc == RefreshReceipt(E)
           c == Append(b, rc)
           N == Len(b) + 1
<1>1. rc.event = "refresh" /\ rc.absorbed = E /\ "refresh" \notin ReferentKinds
  BY DEF RefreshReceipt, ReferentKinds, ChangeKinds
<1>2. \A e \in {e \in KnownEIDs(b) : e.src = "refresh"} : e \in KnownEIDs(b)
  OBVIOUS
<1>3. KnownEIDs(c) = KnownEIDs(b)
  BY ReceiptAppended
<1> HIDE DEF rc
<1>4. /\ N \in DOMAIN c /\ c[N] = rc /\ N \notin DOMAIN b
      /\ \A i \in DOMAIN c : i = N \/ (i \in DOMAIN b /\ c[i] = b[i])
  <2>1. /\ N \in DOMAIN c /\ c[N] = rc
        /\ \A i \in DOMAIN c : (i = N /\ c[i] = rc) \/ (i \in DOMAIN b /\ c[i] = b[i])
        /\ \A i \in DOMAIN b : i \in DOMAIN c /\ i # N /\ c[i] = b[i]
    BY AppendedLine
  <2> QED
    BY <2>1, Zenon
<1> HIDE DEF c, N
<1>5. \A i \in DOMAIN c : c[i].event \in ReferentKinds => c[i].eid \in EIDs
  BY <1>1, <1>4 DEF AllPlain, Plain
<1>6. \A i \in DOMAIN c : \A e \in c[i].absorbed : e \in KnownEIDs(c) /\ e.src = "refresh"
  BY <1>1, <1>3, <1>4 DEF AllPlain, Plain
<1>7. \A e \in KnownEIDs(c) : e.src = "refresh" =>
         \A k \in DOMAIN c : e \in c[k].absorbed <=> k = N
  BY <1>1, <1>3, <1>4 DEF AllPlain, Plain
<1>8. Accounted(c)
  BY <1>4, <1>5, <1>6, <1>7 DEF Accounted
<1>9. E = {} => Accounted(b)
  BY DEF Accounted, AllPlain, Plain
<1> QED
  BY <1>8, <1>9 DEF c, rc

\* The lines the event builder makes for an op are plain.
LEMMA BuiltLinesPlain ==
    ASSUME NEW j \in Seq(Event), NEW b \in Seq(Event), NEW cur \in [Nodes -> MaybeHash],
           NEW head0 \in Nat, NEW op, CompleteOp(op), NEW t \in Nat
    PROVE  AllPlain(BuildOp(j, b, cur, head0, op, t))
<1>1. \A kind, eid, n, before, after : eid \in EIDs => Plain(ChangeEvent(kind, eid, n, before, after))
  BY DEF Plain, ChangeEvent
<1>2. \A kind \in ReceiptKinds : \A for, task : Plain(TaskReceipt(kind, for, task))
  BY DEF Plain, TaskReceipt, ReceiptKinds, TaskBearing, ReferentKinds, ChangeKinds
<1>3. \A x, y : Plain(x) /\ Plain(y) => AllPlain(<<x, y>>) /\ AllPlain(<<x>>) /\ AllPlain(<<>>)
  <2>1. \A x, y : DOMAIN <<x, y>> = {1, 2} /\ <<x, y>>[1] = x /\ <<x, y>>[2] = y
                  /\ DOMAIN <<x>> = {1} /\ <<x>>[1] = x
    OBVIOUS
  <2> QED
    BY <2>1 DEF AllPlain
<1>4. op \in Op /\ op.act \in OpActs /\ op.key \in Nat \cup Stems
  BY DEF CompleteOp, Op
<1>5. \A act \in EIDSources : DeriveEID(head0, act, op.key) \in EIDs
  BY <1>4, DeriveEIDTyped
<1>6. "task_created" \in ReceiptKinds /\ "task_retargeted" \in ReceiptKinds /\ "task_closed" \in ReceiptKinds
  BY DEF ReceiptKinds, TaskBearing
<1>7. {"create", "cleanup", "retarget", "close"} \subseteq EIDSources
  BY DEF EIDSources
<1>n. AllPlain(<<>>)
  BY DEF AllPlain
<1> HIDE DEF AllPlain, Plain
<1>8. CASE op.act = "epic"
  BY <1>2, <1>3, <1>6, <1>8, <1>n DEF BuildOp, BuildEpicCreate
<1>9. CASE op.act = "create"
  BY <1>1, <1>2, <1>3, <1>5, <1>6, <1>7, <1>9, <1>n DEF BuildOp, BuildNodeCreate
<1>10. CASE op.act = "cleanup"
  <2> DEFINE entry == Fold(j)[op.key]
             eid == DeriveEID(head0, "cleanup", op.key)
             ev == ChangeEvent("removed", eid, op.key, entry.after, None)
  <2>1. BuildOp(j, b, cur, head0, op, t) \in
           {<<>>, <<TaskReceipt("task_created", entry.eid, t)>>, <<ev, TaskReceipt("task_created", eid, t)>>}
    BY <1>10 DEF BuildOp, BuildCleanupCreate
  <2>2. Plain(ev)
    BY <1>1, <1>5, <1>7
  <2> HIDE DEF ev
  <2> QED
    BY <1>2, <1>3, <1>6, <1>n, <2>1, <2>2
<1>11. CASE op.act = "retarget"
  BY <1>1, <1>2, <1>3, <1>5, <1>6, <1>7, <1>11, <1>n DEF BuildOp, BuildRetarget
<1>12. CASE op.act = "close"
  BY <1>1, <1>2, <1>3, <1>5, <1>6, <1>7, <1>12, <1>n DEF BuildOp, BuildClose
<1> QED
  BY <1>4, <1>8, <1>9, <1>10, <1>11, <1>12 DEF OpActs

\* One turn of the reconcile loop adds plain lines.
LEMMA ReconciledPlain ==
    ASSUME TypeInv, AllPlain(batch), proc = "reconcile", ReconcileStep
    PROVE  AllPlain(batch')
<1>1. /\ cs \in Changeset /\ \A op \in cs.ops : CompleteOp(op)
      /\ journal \in Seq(Event) /\ batch \in Seq(Event) /\ spec \in [Nodes -> MaybeHash]
  BY DEF TypeInv, CommandsHaveInput, Outstanding, TypeOK, Specs
<1>2. cs.head \in Nat /\ cs.absorbed \subseteq AbsorbedEntry
  BY <1>1 DEF Changeset
<1>3. ASSUME NEW lines \in Seq(Event), AllPlain(lines)
      PROVE  AllPlain(batch \o lines)
  BY <1>1, <1>3, ConcatLines DEF AllPlain
<1>4. ASSUME NEW op \in cs.ops, ReconcileOp(op)
      PROVE  AllPlain(batch')
  <2>1. receipts[OpID(op)].task \in Nat
    BY DEF TypeInv, CommandsHaveInput, TypeOK, Receipt
  <2>2. CASE batch' = batch
    BY <2>2
  <2>3. CASE /\ ~OpRefused(journal, batch, spec, cs.head, op)
             /\ batch' = batch \o BuildOp(journal, batch, spec, cs.head, op, receipts[OpID(op)].task)
    <3> DEFINE lines == BuildOp(journal, batch, spec, cs.head, op, receipts[OpID(op)].task)
    <3>1. lines \in Seq(Event) /\ AllPlain(lines)
      BY <1>1, <1>2, <2>1, <2>3, BuiltLinesAreFresh, BuiltLinesPlain
    <3>2. batch' = batch \o lines
      BY <2>3
    <3> HIDE DEF lines
    <3> QED
      BY <1>3, <3>1, <3>2
  <2> QED
    BY <1>4, <2>2, <2>3 DEF ReconcileOp
<1>5. ASSUME NEW entry \in cs.absorbed, AbsorbEntry(entry)
      PROVE  AllPlain(batch')
  <2>1. entry \in AbsorbedEntry
    BY <1>2
  <2> DEFINE eid == AbsorbedEID(entry)
             ev == ChangeEvent("modified", eid, entry.node, entry.before, entry.after)
             lines == BuildAbsorbed(journal, batch, entry)
  <2>2. eid \in EIDs
    BY <2>1, JournalAssumption DEF AbsorbedEntry, AbsorbedEID, DeriveRefreshEID, EIDs, EIDSources
  <2>3. Plain(ev)
    BY <2>2 DEF Plain, ChangeEvent
  <2>4. lines \in {<<>>, <<ev>>}
    BY DEF BuildAbsorbed
  <2>5. lines \in Seq(Event)
    BY <1>1, <2>1, AbsorbedLinesAreFresh
  <2> HIDE DEF ev
  <2>6. AllPlain(<<>>) /\ AllPlain(<<ev>>)
    BY <2>3 DEF AllPlain
  <2>7. batch' = batch \o lines
    BY <1>5 DEF AbsorbEntry
  <2> HIDE DEF lines
  <2> QED
    BY <1>3, <2>4, <2>5, <2>6, <2>7
<1> QED
  BY <1>4, <1>5 DEF ReconcileStep

\* One turn of the refresh loop adds a plain line with a refresh-born id, or none.
LEMMA RefreshedPlain ==
    ASSUME TypeInv, NEW n \in Nodes, RefreshEntry(n), AllPlain(batch),
           \A e \in KnownEIDs(batch) : e.src = "refresh"
    PROVE  AllPlain(batch') /\ \A e \in KnownEIDs(batch') : e.src = "refresh"
<1>1. CASE batch' = batch
  BY <1>1
<1>2. ASSUME NEW nth \in 1..(Len(journal) + 1),
             batch' = Append(batch, RefreshLine(spec, snapshot, n, nth))
      PROVE  AllPlain(batch') /\ \A e \in KnownEIDs(batch') : e.src = "refresh"
  <2> DEFINE line == RefreshLine(spec, snapshot, n, nth)
  <2>1. journal \in Seq(Event) /\ batch \in Seq(Event)
        /\ spec \in [Nodes -> MaybeHash] /\ snapshot \in [Nodes -> MaybeHash]
    BY DEF TypeInv, TypeOK, Specs
  <2>2. nth \in Nat
    BY <1>2, <2>1
  <2>3. line \in Event /\ line.eid = RefreshEID(n, snapshot[n], spec[n], nth) /\ line.eid \in EIDs
    <3>1. /\ line \in Event /\ line.eid = RefreshEID(n, snapshot[n], spec[n], nth)
          /\ RefreshEID(n, snapshot[n], spec[n], nth) \in EIDs
      BY <2>1, <2>2, RefreshLineTyped, Zenon
    <3> HIDE DEF line
    <3> QED
      BY <3>1
  <2>4. line.eid.src = "refresh"
    BY <2>3 DEF RefreshEID, DeriveRefreshEID
  <2>5. Plain(line)
    BY <2>3 DEF Plain, RefreshLine, ChangeEvent
  <2>6. batch' = Append(batch, line)
    BY <1>2
  <2> HIDE DEF line
  <2>7. \A i \in DOMAIN batch' : batch'[i] = line \/ (i \in DOMAIN batch /\ batch'[i] = batch[i])
    <3>1. \A i \in DOMAIN Append(batch, line) :
             \/ i = Len(batch) + 1 /\ Append(batch, line)[i] = line
             \/ i \in DOMAIN batch /\ Append(batch, line)[i] = batch[i]
      BY <2>1, AppendedLine
    <3> QED
      BY <2>6, <3>1, Zenon
  <2> QED
    BY <2>4, <2>5, <2>7 DEF AllPlain, KnownEIDs
<1> QED
  BY <1>1, <1>2 DEF RefreshEntry

\* A step that leaves the journal alone and ends the command, starts one, or
\* leaves the running command's batch alone.
LEMMA QuietStepAccountInv ==
    ASSUME AccountInv, UNCHANGED journal,
           UNCHANGED <<batch, proc>> \/ proc' \in {"idle", "adapter", "save"}
    PROVE  AccountInv'
<1>1. Accounted(journal') <=> Accounted(journal)
  BY Zenon
<1>2. CASE UNCHANGED <<batch, proc>>
  BY <1>1, <1>2 DEF AccountInv
<1>3. CASE proc' \in {"idle", "adapter", "save"}
  BY <1>1, <1>3 DEF AccountInv
<1> QED
  BY <1>2, <1>3

\* Every step keeps the account.
LEMMA NextAccountInv == TypeInv /\ IDInv /\ AccountInv /\ [Next]_vars => AccountInv'
<1> SUFFICES ASSUME TypeInv, IDInv, AccountInv, [Next]_vars PROVE AccountInv'
  OBVIOUS
<1> USE DEF vars, specVars, journalVars, runVars, memVars
<1>t. journal \in Seq(Event) /\ batch \in Seq(Event)
  BY DEF TypeInv, TypeOK
<1>a. Accounted(journal)
  BY DEF AccountInv
<1>n. AllPlain(<<>>) /\ KnownEIDs(<<>>) = {}
  BY DEF AllPlain, KnownEIDs
<1>1. CASE UNCHANGED vars
  BY <1>1, QuietStepAccountInv
<1>2. CASE EditSpec \/ Work \/ Planning
  BY <1>2, QuietStepAccountInv DEF EditSpec, Work, Claim, Finish, Planning, Plan
<1>3. CASE Registering
  <2>1. PICK stem \in Stems : Register(stem) \/ RegisterCrash(stem)
    BY <1>3 DEF Registering
  <2>2. AppendRegistered(stem) /\ UNCHANGED <<batch, proc>> /\ proc = "idle"
    BY <2>1 DEF Register, RegisterCrash
  <2>3. CASE UNCHANGED journal
    BY <2>2, <2>3, QuietStepAccountInv
  <2>4. CASE RegisteredEID(head, stem) \notin KnownEIDs(journal)
    <3> DEFINE line == RegisteredEvent(head, stem)
    <3>1. journal' = Append(journal, line)
      BY <2>2, <2>4 DEF AppendRegistered
    <3>2. line \in Event /\ line.eid \in EIDs /\ line.eid.src # "refresh" /\ line.absorbed = {}
      BY DeriveEIDTyped, JournalAssumption
      DEF TypeInv, TypeOK, RegisteredEvent, RegisteredEID, DeriveEID, Event, EventKinds,
          ReferentKinds, EIDSources, MaybeHash, NoTask
    <3>3. line.eid \notin KnownEIDs(journal)
      BY <2>4 DEF RegisteredEvent
    <3> HIDE DEF line
    <3>4. <<line>> \in Seq(Event) /\ journal' = journal \o <<line>>
      BY <1>t, <3>1, <3>2
    <3>5. DOMAIN <<line>> = {1} /\ <<line>>[1] = line
      OBVIOUS
    <3>6. KnownEIDs(<<line>>) = {line.eid} \ {None}
      BY <3>5 DEF KnownEIDs
    <3>7. Accounted(<<line>>)
      BY <3>2, <3>5, <3>6 DEF Accounted
    <3>8. Accounted(journal \o <<line>>)
      BY <1>a, <1>t, <3>3, <3>4, <3>6, <3>7, AccountedConcat
    <3> QED
      BY <2>2, <3>4, <3>8 DEF AccountInv
  <2> QED
    BY <2>2, <2>3, <2>4 DEF AppendRegistered
<1>4. CASE Applying
  <2>1. CASE AdapterStart \/ AdapterFinish \/ AdapterCrash
    BY <2>1, QuietStepAccountInv DEF AdapterStart, AdapterFinish, AdapterCrash, Stop
  <2>2. CASE AdapterStep
    BY <2>2, QuietStepAccountInv DEF AdapterStep, AdapterMatch, AdapterCreate, AdapterRetarget,
       AdapterClose, AdapterRefError, AdapterOpFails, adapterFrame
  <2> QED
    BY <1>4, <2>1, <2>2 DEF Applying
<1>5. CASE Ingesting
  <2>1. CASE IngestStart
    <3>1. batch = <<>> /\ UNCHANGED <<journal, batch>> /\ proc' = "reconcile"
      BY <2>1 DEF IngestStart, IDInv, BatchIsNew
    <3> QED
      BY <1>a, <1>n, <3>1 DEF AccountInv
  <2>2. CASE IngestRefuse \/ IngestSave \/ IngestCrash
    BY <2>2, QuietStepAccountInv DEF IngestRefuse, IngestSave, IngestCrash, Stop
  <2>3. CASE proc = "reconcile" /\ ReconcileStep
    <3>1. UNCHANGED <<journal, proc>>
      BY <2>3, ReconciledLines
    <3>2. AllPlain(batch')
      BY <2>3, ReconciledPlain DEF AccountInv
    <3> QED
      BY <1>a, <2>3, <3>1, <3>2 DEF AccountInv
  <2>4. CASE IngestCommit
    <3>1. journal' = journal \o FinalBatch /\ proc = "reconcile" /\ proc' = "save"
      BY <2>4 DEF IngestCommit, Committable
    <3>2. AllPlain(batch) /\ KnownEIDs(batch) \cap KnownEIDs(journal) = {}
      BY <3>1 DEF AccountInv, IDInv, BatchIsNew, FreshLines
    <3>3. FinalBatch \in Seq(Event) /\ KnownEIDs(FinalBatch) = KnownEIDs(batch)
      BY FinalBatchTyped
    <3>4. Accounted(FinalBatch)
      BY <1>t, <3>2, AccountedBatch DEF FinalBatch, AbsorbedEIDs
    <3>5. Accounted(journal')
      BY <1>a, <1>t, <3>1, <3>2, <3>3, <3>4, AccountedConcat
    <3> QED
      BY <3>1, <3>5 DEF AccountInv
  <2> QED
    BY <1>5, <2>1, <2>2, <2>3, <2>4 DEF Ingesting
<1>6. CASE Refreshing
  <2>1. CASE RefreshStart
    <3>1. batch = <<>> /\ UNCHANGED <<journal, batch>> /\ proc' = "refresh"
      BY <2>1 DEF RefreshStart, IDInv, BatchIsNew
    <3> QED
      BY <1>a, <1>n, <3>1 DEF AccountInv
  <2>2. ASSUME NEW n \in Nodes, RefreshEntry(n) PROVE AccountInv'
    <3>1. proc = "refresh" /\ UNCHANGED <<journal, proc>>
      BY <2>2 DEF RefreshEntry
    <3>2. AllPlain(batch) /\ \A e \in KnownEIDs(batch) : e.src = "refresh"
      BY <3>1 DEF AccountInv
    <3>3. AllPlain(batch') /\ \A e \in KnownEIDs(batch') : e.src = "refresh"
      BY <2>2, <3>2, RefreshedPlain
    <3> QED
      BY <1>a, <3>1, <3>3 DEF AccountInv
  <2>3. CASE RefreshAppend
    <3> DEFINE E == KnownEIDs(batch)
    <3>1. /\ proc = "refresh" /\ proc' = "refreshSave"
          /\ batch' = Append(batch, RefreshReceipt(E))
          /\ journal' = journal \o batch'
      BY <2>3 DEF RefreshAppend
    <3>2. /\ AllPlain(batch) /\ E \cap KnownEIDs(journal) = {}
          /\ E = {e \in E : e.src = "refresh"}
      BY <3>1 DEF AccountInv, IDInv, BatchIsNew, FreshLines
    <3>3. batch' \in Seq(Event) /\ KnownEIDs(batch') = E
      BY <1>t, <3>1, ReceiptAppended
    <3>4. Accounted(batch')
      BY <1>t, <3>1, <3>2, AccountedBatch
    <3>5. Accounted(journal \o batch')
      BY <1>a, <1>t, <3>2, <3>3, <3>4, AccountedConcat
    <3> QED
      BY <1>a, <1>t, <3>1, <3>5 DEF AccountInv
  <2>4. CASE RefreshSave \/ RefreshCrash
    BY <2>4, QuietStepAccountInv DEF RefreshSave, RefreshCrash, Stop
  <2>5. CASE RefreshSaveFails
    <3>1. PICK old \in Seq(Event) : journal = old \o batch /\ Accounted(old)
      BY <2>5 DEF RefreshSaveFails, AccountInv
    <3>2. SubSeq(journal, 1, Len(journal) - Len(batch)) = old
      BY <1>t, <3>1
    <3>3. journal' = old /\ proc' = "idle"
      BY <2>5, <3>2 DEF RefreshSaveFails, Stop
    <3> QED
      BY <3>1, <3>3 DEF AccountInv
  <2> QED
    BY <1>6, <2>1, <2>2, <2>3, <2>4, <2>5 DEF Refreshing
<1> QED
  BY <1>1, <1>2, <1>3, <1>4, <1>5, <1>6 DEF Next

(***************************************************************************)
(* Absorbed drift is always accounted for: every refresh-born event has    *)
(* exactly one refresh receipt and a receipt names nothing else, whatever  *)
(* crashed, was rolled back or was run again, and in whatever phases       *)
(* refresh and absorb marks are used (ingest/refresh.go,                   *)
(* ingest/reconciler.go, the receipt at the end of each batch).            *)
(***************************************************************************)
THEOREM AbsorbedDriftIsReceipted == Spec => []AbsorbedEventsReceipted
<1>1. Init => AccountInv
  BY DEF Init, AccountInv, Accounted, KnownEIDs
<1>2. Spec => []AccountInv
  BY <1>1, NextAccountInv, PipelineInvariant, PTL DEF Spec
<1>3. AccountInv => AbsorbedEventsReceipted
  <2> SUFFICES ASSUME AccountInv PROVE AbsorbedEventsReceipted
    OBVIOUS
  <2> DEFINE named(e) == {i \in DOMAIN journal : e \in journal[i].absorbed}
  <2>1. Accounted(journal)
    BY DEF AccountInv
  <2>2. ASSUME NEW i \in DOMAIN journal, journal[i].event \in ChangeKinds,
               journal[i].eid.src = "refresh"
        PROVE  Cardinality(named(journal[i].eid)) = 1
    <3> DEFINE e == journal[i].eid
    <3>1. e \in KnownEIDs(journal)
      BY <2>1, <2>2, EIDAssumption DEF Accounted, KnownEIDs, ReferentKinds
    <3>2. PICK r \in DOMAIN journal : \A k \in DOMAIN journal : e \in journal[k].absorbed <=> k = r
      BY <2>1, <2>2, <3>1 DEF Accounted
    <3>3. named(e) = {r}
      BY <3>2
    <3> QED
      BY <3>3, FS_Singleton
  <2> QED
    BY <2>1, <2>2 DEF AbsorbedEventsReceipted, Accounted
<1> QED
  BY <1>2, <1>3, PTL

-----------------------------------------------------------------------------
(* Layers: what plan puts into one changeset. *)

\* The order plan's layer edges make, on the nodes alone: a set of nodes that
\* holds the layer edges of each of its members holds every earlier layer.
LEMMA LayerEdgesReachDown ==
    ASSUME NEW creates \in SUBSET Nodes, NEW cleanups \in SUBSET Nodes,
           \A n \in creates : Kind[n] \in PlanRelevant,
           NEW T, T \subseteq creates \cup cleanups,
           \A n \in T : LayerEdges(creates, cleanups, n) \subseteq T,
           NEW o \in T, NEW p \in creates \cup cleanups, LayerOf(creates, p) < LayerOf(creates, o)
    PROVE  p \in T
<1> DEFINE all == creates \cup cleanups
           L(n) == LayerOf(creates, n)
           above == {L(n) : n \in {n \in T : L(p) < L(n)}}
<1>1. \A n \in all : L(n) \in 1..4
  BY DEF LayerOf, KindLayer, CleanupLayer, PlanRelevant
<1>2. above \subseteq Nat /\ above # {}
  BY <1>1
<1>3. PICK n \in T : /\ L(p) < L(n)
                     /\ \A m \in T : L(p) < L(m) => L(n) <= L(m)
  <2>1. Min(above) \in above /\ \A y \in above : Min(above) <= y
    BY <1>2, FirstLine
  <2> QED
    BY <2>1
<1> DEFINE earlier == {m \in all : L(m) < L(n)}
           layers == {L(m) : m \in earlier}
<1>4. p \in earlier
  BY <1>3
<1>5. layers \subseteq 1..4 /\ layers # {}
  BY <1>1, <1>4
<1>6. PICK m \in earlier : \A k \in earlier : L(k) <= L(m)
  <2>1. Max(layers) \in layers /\ \A y \in layers : Max(layers) >= y
    BY <1>5, LastLine
  <2>2. PICK m \in earlier : Max(layers) = L(m)
    BY <2>1
  <2> QED
    BY <1>1, <2>1, <2>2
<1>7. LayerEdges(creates, cleanups, n) = {k \in earlier : \A i \in earlier : L(i) <= L(k)}
  BY DEF LayerEdges
<1>8. m \in T
  BY <1>6, <1>7
<1>9. L(m) = L(p)
  BY <1>1, <1>3, <1>4, <1>6, <1>8
<1>10. p \in LayerEdges(creates, cleanups, n)
  BY <1>4, <1>6, <1>7, <1>9
<1> QED
  BY <1>3, <1>10

\* What LayersAreOrdered says of the ops of a changeset.
OrderedOps(ops) ==
    \A o, p \in {op \in ops : op.act \in {"create", "cleanup"}} :
        OpLayer(p) < OpLayer(o) =>
            \A S \in SUBSET {OpID(op) : op \in ops} :
                /\ OpID(o) \in S
                /\ \A op \in ops : OpID(op) \in S => op.opDeps \subseteq S
                => OpID(p) \in S

\* Creates and retargets are for plan-relevant nodes.
RelevantOps(ops) ==
    \A op \in ops : op.act \in {"create", "retarget"} => Kind[op.key] \in PlanRelevant

\* Plan's creates wait for every earlier layer, as long as the nodes the fold
\* pairs are plan-relevant.
LEMMA PlanOrdersLayers ==
    ASSUME NEW j, NEW cur, NEW edges0, NEW tasks, NEW head0, NEW stem,
           NEW changes \in SUBSET Nodes,
           \A n \in Nodes : Paired(Fold(j), n) => Kind[n] \in PlanRelevant
    PROVE  /\ OrderedOps(BuildOps(j, cur, edges0, tasks, head0, stem, changes))
           /\ RelevantOps(BuildOps(j, cur, edges0, tasks, head0, stem, changes))
<1> DEFINE fold == Fold(j)
           creates == ToCreate(changes, cur, edges0, fold, tasks)
           cleanups == ToCleanUp(changes, cur, fold, tasks)
           retargets == ToRetarget(changes, cur, edges0, fold, tasks)
           closes == ToClose(changes, cur, edges0, fold, tasks)
           ids == CreateIDs(creates, cleanups)
           epic == IF NeedsEpic(fold, stem) THEN {EpicOp(j, stem)} ELSE {}
           edgesOf(n) == LayerEdges(creates, cleanups, n)
           createOp(n) == CreateOp(fold, tasks, head0, stem, ids, edgesOf(n),
                                   CreateDeps(changes, cur, edges0, n), n)
           cleanupOp(n) == CleanupOp(fold, head0, stem, ids, edgesOf(n),
                                     {fold[m].task : m \in retargets}, n)
           retargetOp(n) == RetargetOp(fold, cur, edges0, tasks, head0, ids, n)
           closeOp(n) == CloseOp(fold, cur, n)
           ops == BuildOps(j, cur, edges0, tasks, head0, stem, changes)
<1>1. ops = epic \cup {createOp(n) : n \in creates} \cup {cleanupOp(n) : n \in cleanups}
              \cup {retargetOp(n) : n \in retargets} \cup {closeOp(n) : n \in closes}
  BY DEF BuildOps
<1>2. /\ creates \in SUBSET Nodes /\ cleanups \in SUBSET Nodes /\ creates \cap cleanups = {}
      /\ \A n \in creates \cup retargets : Kind[n] \in PlanRelevant
  BY DEF ToCreate, ToCleanUp, ToRetarget, Tracked, Matched, Unmatched, Orphaned, GateAdmits
<1>3. /\ \A n \in creates : ids[n] = <<"create", n>>
      /\ \A n \in cleanups : ids[n] = <<"cleanup", n>>
  BY <1>2 DEF CreateIDs
<1> HIDE DEF fold, creates, cleanups, retargets, closes, ids
<1>4. /\ \A n \in creates :
            /\ createOp(n).act = "create" /\ createOp(n).key = n
            /\ {ids[m] : m \in edgesOf(n)} \subseteq createOp(n).opDeps
      /\ \A n \in cleanups :
            /\ cleanupOp(n).act = "cleanup" /\ cleanupOp(n).key = n
            /\ {ids[m] : m \in edgesOf(n)} \subseteq cleanupOp(n).opDeps
      /\ \A n \in retargets : retargetOp(n).act = "retarget" /\ retargetOp(n).key = n
      /\ \A n \in closes : closeOp(n).act = "close"
      /\ \A op \in epic : op.act = "epic"
  BY DEF CreateOp, CleanupOp, RetargetOp, CloseOp, EpicOp
<1>e. \A n \in creates \cup cleanups : edgesOf(n) \subseteq creates \cup cleanups
  BY DEF LayerEdges
<1> HIDE DEF createOp, cleanupOp, retargetOp, closeOp, epic, edgesOf, ops
<1>5. RelevantOps(ops)
  BY <1>1, <1>2, <1>4 DEF RelevantOps
<1>6. ASSUME NEW op \in ops, op.act \in {"create", "cleanup"}
      PROVE  \E n \in creates \cup cleanups :
                /\ OpID(op) = ids[n] /\ OpLayer(op) = LayerOf(creates, n)
  <2>1. CASE op.act = "create"
    <3>1. PICK n \in creates : op = createOp(n)
      BY <1>1, <1>4, <2>1
    <3>2. OpID(op) = ids[n] /\ OpLayer(op) = LayerOf(creates, n)
      BY <1>3, <1>4, <3>1 DEF OpID, OpLayer, LayerOf
    <3> QED
      BY <3>2
  <2>2. CASE op.act = "cleanup"
    <3>1. PICK n \in cleanups : op = cleanupOp(n)
      BY <1>1, <1>4, <2>2
    <3>2. OpID(op) = ids[n] /\ OpLayer(op) = LayerOf(creates, n)
      BY <1>2, <1>3, <1>4, <3>1 DEF OpID, OpLayer, LayerOf
    <3> QED
      BY <3>2
  <2> QED
    BY <1>6, <2>1, <2>2
<1>7. \A n \in creates \cup cleanups : \E op \in ops :
         OpID(op) = ids[n] /\ {ids[m] : m \in edgesOf(n)} \subseteq op.opDeps
  <2>1. TAKE n \in creates \cup cleanups
  <2>2. CASE n \in creates
    <3>1. createOp(n) \in ops /\ OpID(createOp(n)) = ids[n]
      BY <1>1, <1>3, <1>4, <2>2 DEF OpID
    <3> QED
      BY <1>4, <2>2, <3>1
  <2>3. CASE n \in cleanups
    <3>1. cleanupOp(n) \in ops /\ OpID(cleanupOp(n)) = ids[n]
      BY <1>1, <1>3, <1>4, <2>3 DEF OpID
    <3> QED
      BY <1>4, <2>3, <3>1
  <2> QED
    BY <2>2, <2>3
<1>8. ASSUME NEW o \in ops, NEW p \in ops, o.act \in {"create", "cleanup"},
             p.act \in {"create", "cleanup"}, OpLayer(p) < OpLayer(o),
             NEW S, OpID(o) \in S,
             \A op \in ops : OpID(op) \in S => op.opDeps \subseteq S
      PROVE  OpID(p) \in S
  <2> DEFINE T == {n \in creates \cup cleanups : ids[n] \in S}
  <2>1. PICK n \in creates \cup cleanups : OpID(o) = ids[n] /\ OpLayer(o) = LayerOf(creates, n)
    BY <1>6, <1>8
  <2>2. PICK m \in creates \cup cleanups : OpID(p) = ids[m] /\ OpLayer(p) = LayerOf(creates, m)
    BY <1>6, <1>8
  <2>3. \A k \in T : edgesOf(k) \subseteq T
    BY <1>7, <1>8, <1>e
  <2>4. n \in T
    BY <1>8, <2>1
  <2>5. \A k \in T : LayerEdges(creates, cleanups, k) \subseteq T
    BY <2>3 DEF edgesOf
  <2>6. LayerOf(creates, m) < LayerOf(creates, n)
    BY <1>8, <2>1, <2>2
  <2>7. T \subseteq creates \cup cleanups
    OBVIOUS
  <2> HIDE DEF T
  <2>8. m \in T
    BY <1>2, <2>4, <2>5, <2>6, <2>7, LayerEdgesReachDown
  <2> QED
    BY <2>2, <2>8 DEF T
<1>9. OrderedOps(ops)
  BY <1>8 DEF OrderedOps
<1> QED
  BY <1>5, <1>9 DEF ops

-----------------------------------------------------------------------------
(***************************************************************************)
(* Steps as the journal sees them.  Every invariant about lines is kept by *)
(* looking at these: a step either leaves the journal alone (and goes on   *)
(* with its batch, drops it or starts with none), or registers, or is one  *)
(* of the steps that build a batch, append it or take it back.             *)
(***************************************************************************)
QuietStep ==
    /\ UNCHANGED journal
    /\ \/ UNCHANGED <<batch, proc>>
       \/ proc' \in {"idle", "adapter", "save"} /\ batch' = <<>>
       \/ proc' \in {"reconcile", "refresh"} /\ batch' = <<>>

RegisterStep ==
    /\ proc = "idle" /\ phase \in {"clean", "partial"} /\ UNCHANGED <<batch, proc, runVars>>
    /\ \E stem \in Stems : /\ RegisteredEID(head, stem) \notin KnownEIDs(journal)
                           /\ journal' = Append(journal, RegisteredEvent(head, stem))

JournalStep ==
    \/ QuietStep
    \/ RegisterStep
    \/ proc = "reconcile" /\ ReconcileStep
    \/ IngestCommit
    \/ \E n \in Nodes : RefreshEntry(n)
    \/ RefreshAppend
    \/ RefreshSaveFails

\* There are no other steps.
LEMMA JournalSteps == TypeInv /\ IDInv /\ [Next]_vars => JournalStep
<1> SUFFICES ASSUME TypeInv, IDInv, [Next]_vars PROVE JournalStep
  OBVIOUS
<1> USE DEF vars, specVars, journalVars, runVars, memVars
<1>1. CASE UNCHANGED vars \/ EditSpec \/ Work \/ Planning
  <2>1. UNCHANGED <<journal, batch, proc>>
    BY <1>1 DEF EditSpec, Work, Claim, Finish, Planning, Plan
  <2> QED
    BY <2>1 DEF JournalStep, QuietStep
<1>2. CASE Registering
  <2>1. PICK stem \in Stems : Register(stem) \/ RegisterCrash(stem)
    BY <1>2 DEF Registering
  <2>2. /\ AppendRegistered(stem) /\ UNCHANGED <<batch, proc, runVars>> /\ proc = "idle"
        /\ phase \in {"clean", "partial"}
    BY <2>1 DEF Register, RegisterCrash
  <2>3. \/ UNCHANGED journal
        \/ /\ RegisteredEID(head, stem) \notin KnownEIDs(journal)
           /\ journal' = Append(journal, RegisteredEvent(head, stem))
    BY <2>2 DEF AppendRegistered
  <2> QED
    BY <2>2, <2>3 DEF JournalStep, QuietStep, RegisterStep
<1>3. CASE Applying
  <2>1. CASE AdapterStart
    BY <2>1 DEF AdapterStart, JournalStep, QuietStep, IDInv, BatchIsNew
  <2>2. CASE AdapterFinish \/ AdapterCrash
    BY <2>2 DEF AdapterFinish, AdapterCrash, Stop, JournalStep, QuietStep
  <2>3. CASE AdapterStep
    <3>1. UNCHANGED <<journal, batch, proc>>
      BY <2>3 DEF AdapterStep, AdapterMatch, AdapterCreate, AdapterRetarget,
         AdapterClose, AdapterRefError, AdapterOpFails, adapterFrame
    <3> QED
      BY <3>1 DEF JournalStep, QuietStep
  <2> QED
    BY <1>3, <2>1, <2>2, <2>3 DEF Applying
<1>4. CASE Ingesting
  <2>1. CASE IngestStart
    BY <2>1 DEF IngestStart, JournalStep, QuietStep, IDInv, BatchIsNew
  <2>2. CASE IngestRefuse \/ IngestSave \/ IngestCrash
    BY <2>2 DEF IngestRefuse, IngestSave, IngestCrash, Stop, JournalStep, QuietStep
  <2> QED
    BY <1>4, <2>1, <2>2 DEF Ingesting, JournalStep
<1>5. CASE Refreshing
  <2>1. CASE RefreshStart
    BY <2>1 DEF RefreshStart, JournalStep, QuietStep, IDInv, BatchIsNew
  <2>2. CASE RefreshSave \/ RefreshCrash
    BY <2>2 DEF RefreshSave, RefreshCrash, Stop, JournalStep, QuietStep
  <2> QED
    BY <1>5, <2>1, <2>2 DEF Refreshing, JournalStep
<1> QED
  BY <1>1, <1>2, <1>3, <1>4, <1>5 DEF Next

-----------------------------------------------------------------------------
(***************************************************************************)
(* Which nodes the fold pairs.  Every receipt of a task answers an event   *)
(* of the journal: a removal, a registration, or the change of a plan-     *)
(* relevant node, because only those get ops.  So a pairing that is not a  *)
(* tombstone is of a plan-relevant node or of a proposal.                  *)
(***************************************************************************)
Workable == Stems \cup {n \in Nodes : Kind[n] \in PlanRelevant}

Answers(s, e) ==
    \E i \in DOMAIN s : /\ s[i].event \in ReferentKinds /\ s[i].eid = e
                        /\ s[i].event = "removed" \/ s[i].key \in Workable

Answered(s) ==
    \A r \in DOMAIN s : s[r].event \in TaskBearing =>
        s[r].key = None /\ Answers(s, s[r].for)

\* What is answered stays answered when lines are added.
LEMMA AnswersConcat ==
    ASSUME NEW s \in Seq(Event), NEW t \in Seq(Event), NEW e, Answers(s, e) \/ Answers(t, e)
    PROVE  Answers(s \o t, e)
<1> DEFINE st == s \o t
<1>1. /\ \A i \in DOMAIN s : i \in DOMAIN st /\ st[i] = s[i]
      /\ \A i \in DOMAIN t : Len(s) + i \in DOMAIN st /\ st[Len(s) + i] = t[i]
  BY ConcatLines, Zenon
<1> HIDE DEF st
<1>2. Answers(st, e)
  BY <1>1 DEF Answers
<1> QED
  BY <1>2 DEF st

\* New lines keep a journal answered when their own receipts are.
LEMMA AnsweredConcat ==
    ASSUME NEW s \in Seq(Event), NEW t \in Seq(Event), Answered(s),
           \A r \in DOMAIN t : t[r].event \in TaskBearing =>
               t[r].key = None /\ Answers(s \o t, t[r].for)
    PROVE  Answered(s \o t)
<1> DEFINE st == s \o t
<1>1. \A r \in DOMAIN st :
         \/ r \in DOMAIN s /\ st[r] = s[r]
         \/ r \notin DOMAIN s /\ r - Len(s) \in DOMAIN t /\ st[r] = t[r - Len(s)]
  BY ConcatLines, Zenon
<1>2. \A r \in DOMAIN s : s[r].event \in TaskBearing => s[r].key = None /\ Answers(st, s[r].for)
  BY AnswersConcat DEF Answered
<1>3. \A r \in DOMAIN t : t[r].event \in TaskBearing => t[r].key = None /\ Answers(st, t[r].for)
  OBVIOUS
<1> HIDE DEF st
<1>4. Answered(st)
  BY <1>1, <1>2, <1>3 DEF Answered
<1> QED
  BY <1>4 DEF st

\* The id of an entry is the id of an event that answers for it.
LEMMA EntryIsAnswered ==
    ASSUME NEW j \in Seq(Event), Answered(j), NEW k \in Nodes \cup Stems, FoldHas(j, k)
    PROVE  /\ Fold(j)[k].eid # None => Answers(j, Fold(j)[k].eid)
           /\ Fold(j)[k].removed => Answers(j, Fold(j)[k].eid)
<1> DEFINE i == DecidingLine(j, k)
<1>1. i \in DOMAIN j /\ EntryKey(j, i) = k /\ k # None
  BY DecidingLineWritesEntry, JournalAssumption DEF FoldHas, EntryLines
<1>2. Fold(j)[k] = EntryOf(j, i)
  BY DEF FoldHas, Fold
<1> HIDE DEF i
<1>3. CASE j[i].event = "removed"
  <2>1. EntryOf(j, i).eid = j[i].eid
    BY <1>3 DEF EntryOf
  <2> QED
    BY <1>1, <1>2, <1>3, <2>1 DEF Answers, ReferentKinds, ChangeKinds
<1>4. CASE j[i].event # "removed"
  <2>1. j[i].event \in TaskBearing
    BY <1>1, <1>4 DEF EntryKey
  <2>2. j[i].key = None /\ Answers(j, j[i].for)
    BY <1>1, <2>1 DEF Answered
  <2>3. EntryOf(j, i).eid = j[i].for
    BY <1>4, <2>2 DEF EntryOf
  <2> QED
    BY <1>2, <2>2, <2>3
<1> QED
  BY <1>3, <1>4

\* A pairing that is no tombstone is of a plan-relevant node or a proposal.
LEMMA PairedIsWorkable ==
    ASSUME NEW j \in Seq(Event), Answered(j), UniqueEIDs(j), Accounted(j),
           NEW k \in Nodes \cup Stems, Paired(Fold(j), k)
    PROVE  k \in Workable
<1> DEFINE i == DecidingLine(j, k)
<1>0. k \in DOMAIN Fold(j) /\ ~Fold(j)[k].removed
  BY DEF Paired
<1>1. i \in DOMAIN j /\ EntryKey(j, i) = k /\ k # None
  BY <1>0, DecidingLineWritesEntry, JournalAssumption DEF Fold, EntryLines
<1>2. Fold(j)[k] = EntryOf(j, i)
  BY <1>0 DEF Fold
<1> HIDE DEF i
<1>3. j[i].event # "removed"
  BY <1>0, <1>2 DEF EntryOf
<1>4. j[i].event \in TaskBearing
  BY <1>1, <1>3 DEF EntryKey
<1> DEFINE e == j[i].for
<1>5. j[i].key = None /\ Answers(j, e)
  BY <1>1, <1>4 DEF Answered
<1>6. PICK m \in DOMAIN j : /\ j[m].event \in ReferentKinds /\ j[m].eid = e
                            /\ j[m].event = "removed" \/ j[m].key \in Workable
  BY <1>5 DEF Answers
<1>7. ReferentLines(j, e) = {m}
  <2>1. e # None
    BY <1>6, EIDAssumption DEF Accounted
  <2>2. \A l \in ReferentLines(j, e) : l = m
    BY <1>6, <2>1 DEF UniqueEIDs, ReferentLines
  <2> QED
    BY <1>6, <2>2 DEF ReferentLines
<1>8. Referent(j, e) = j[m]
  <2>1. {m} \subseteq 1..Len(j) /\ {m} # {}
    OBVIOUS
  <2>2. Max({m}) = m
    BY <2>1, LastLine
  <2> QED
    BY <1>7, <2>2 DEF Referent
<1>9. EntryKey(j, i) = j[m].key
  BY <1>4, <1>5, <1>7, <1>8 DEF EntryKey, IsDangling, TaskBearing
<1>10. EntryOf(j, i).removed <=> j[m].event = "removed"
  BY <1>3, <1>5, <1>8 DEF EntryOf
<1> QED
  BY <1>0, <1>1, <1>2, <1>6, <1>9, <1>10

\* An event and the receipt that names it.
LEMMA EventAndReceiptAnswered ==
    ASSUME NEW s \in Seq(Event), NEW ev \in Event, NEW rc \in Event,
           ev.event \in ReferentKinds, ev.event = "removed" \/ ev.key \in Workable,
           rc.key = None, rc.for = ev.eid, NEW r \in DOMAIN <<ev, rc>>,
           <<ev, rc>>[r].event \in TaskBearing
    PROVE  <<ev, rc>>[r].key = None /\ Answers(s \o <<ev, rc>>, <<ev, rc>>[r].for)
<1> DEFINE t == <<ev, rc>>
<1>1. DOMAIN t = {1, 2} /\ t[1] = ev /\ t[2] = rc /\ t \in Seq(Event)
  OBVIOUS
<1> HIDE DEF t
<1>2. t[r] = rc
  BY <1>1 DEF t, TaskBearing, ReferentKinds, ChangeKinds
<1>3. Answers(t, rc.for)
  BY <1>1 DEF Answers
<1> QED
  BY <1>1, <1>2, <1>3, AnswersConcat DEF t

\* One receipt for an event that is already there.
LEMMA ReceiptAnswered ==
    ASSUME NEW s \in Seq(Event), NEW rc \in Event, rc.key = None, Answers(s, rc.for),
           NEW r \in DOMAIN <<rc>>
    PROVE  <<rc>>[r].key = None /\ Answers(s \o <<rc>>, <<rc>>[r].for)
<1>1. <<rc>>[r] = rc /\ <<rc>> \in Seq(Event)
  OBVIOUS
<1> QED
  BY <1>1, AnswersConcat

\* What the registration of a stem resolves to answers for it.
LEMMA RegistrationAnswers ==
    ASSUME NEW j \in Seq(Event), NEW stem \in Stems, Registration(j, stem) # None
    PROVE  Answers(j, Registration(j, stem))
<1> DEFINE regs == {i \in DOMAIN j : j[i].event = "registered" /\ j[i].key = stem}
<1>1. regs # {} /\ Registration(j, stem) = j[Max(regs)].eid
  BY DEF Registration
<1>2. regs \subseteq 1..Len(j) /\ Len(j) \in Nat
  OBVIOUS
<1>3. Max(regs) \in regs
  <2> HIDE DEF regs
  <2> QED
    BY <1>1, <1>2, LastLine
<1> DEFINE i == Max(regs)
<1>4. i \in DOMAIN j /\ j[i].event = "registered" /\ j[i].key = stem
  BY <1>3
<1>5. Registration(j, stem) = j[i].eid
  BY <1>1
<1> HIDE DEF i, regs
<1>6. j[i].event \in ReferentKinds /\ j[i].key \in Workable
  BY <1>4 DEF ReferentKinds, Workable
<1> QED
  BY <1>4, <1>5, <1>6 DEF Answers

\* Every receipt the event builder makes answers an event.
LEMMA BuiltLinesAnswered ==
    ASSUME NEW j \in Seq(Event), NEW b \in Seq(Event), Answered(j),
           NEW cur \in [Nodes -> MaybeHash], NEW head0 \in Nat, NEW op, CompleteOp(op),
           op.act \in {"create", "retarget"} => Kind[op.key] \in PlanRelevant,
           NEW t \in Nat, ~OpRefused(j, b, cur, head0, op),
           NEW r \in DOMAIN BuildOp(j, b, cur, head0, op, t),
           BuildOp(j, b, cur, head0, op, t)[r].event \in TaskBearing
    PROVE  /\ BuildOp(j, b, cur, head0, op, t)[r].key = None
           /\ Answers((j \o b) \o BuildOp(j, b, cur, head0, op, t),
                      BuildOp(j, b, cur, head0, op, t)[r].for)
<1> DEFINE lines == BuildOp(j, b, cur, head0, op, t)
<1>0. lines \in Seq(Event) /\ j \o b \in Seq(Event)
  <2>1. lines \in Seq(Event)
    BY BuiltLinesAreFresh
  <2>2. j \o b \in Seq(Event)
    BY ConcatLines
  <2> QED
    BY <2>1, <2>2
<1>1. \A kind, eid, n, before, after : LET ev == ChangeEvent(kind, eid, n, before, after) IN
         ev.event = kind /\ ev.eid = eid /\ ev.key = n
  BY DEF ChangeEvent
<1>2. \A kind, for, task : LET rc == TaskReceipt(kind, for, task) IN
         rc.event = kind /\ rc.key = None /\ rc.for = for
  BY DEF TaskReceipt
<1>3. op \in Op /\ op.act \in OpActs
  BY DEF CompleteOp, Op
<1>p. ASSUME NEW ev, NEW rc, lines = <<ev, rc>>, ev.event \in ReferentKinds,
             ev.event = "removed" \/ ev.key \in Workable, rc.key = None, rc.for = ev.eid
      PROVE  lines[r].key = None /\ Answers((j \o b) \o lines, lines[r].for)
  <2>1. ev \in Event /\ rc \in Event
    <3>1. lines[1] = ev /\ lines[2] = rc /\ 1 \in DOMAIN lines /\ 2 \in DOMAIN lines
      BY <1>p
    <3>2. \A i \in DOMAIN lines : lines[i] \in Event
      BY <1>0
    <3> QED
      BY <3>1, <3>2
  <2>2. r \in DOMAIN <<ev, rc>> /\ <<ev, rc>>[r].event \in TaskBearing
    BY <1>p
  <2>3. <<ev, rc>>[r].key = None /\ Answers((j \o b) \o <<ev, rc>>, <<ev, rc>>[r].for)
    BY <1>0, <1>p, <2>1, <2>2, EventAndReceiptAnswered
  <2> QED
    BY <1>p, <2>3
<1>s. ASSUME NEW rc, lines = <<rc>>, rc.key = None, Answers(j, rc.for)
      PROVE  lines[r].key = None /\ Answers((j \o b) \o lines, lines[r].for)
  <2>1. rc \in Event
    <3>1. lines[1] = rc /\ 1 \in DOMAIN lines
      BY <1>s
    <3>2. \A i \in DOMAIN lines : lines[i] \in Event
      BY <1>0
    <3> QED
      BY <3>1, <3>2
  <2>2. Answers(j \o b, rc.for)
    BY <1>s, AnswersConcat
  <2> QED
    BY <1>0, <1>s, <2>1, <2>2, ReceiptAnswered
<1>n. lines # <<>>
  OBVIOUS
<1>k. {"added", "modified", "removed"} \subseteq ReferentKinds
  BY DEF ReferentKinds, ChangeKinds
<1>4. CASE op.act = "epic"
  <2>1. op.key \in Stems
    BY <1>4 DEF CompleteOp
  <2>2. lines = <<TaskReceipt("task_created", Registration(j, op.key), t)>> /\ ~FoldHas(j, op.key)
    BY <1>4, <1>n DEF BuildOp, BuildEpicCreate
  <2>3. Registration(j, op.key) # None
    BY <1>4, <2>2 DEF OpRefused
  <2> QED
    BY <1>2, <1>s, <2>1, <2>2, <2>3, RegistrationAnswers, SMTT(40)
<1>5. CASE op.act = "create"
  <2>1. op.key \in Workable
    BY <1>5 DEF CompleteOp, Workable
  <2> DEFINE eid == DeriveEID(head0, "create", op.key)
             prior == PriorHash(j, op.key)
             ev == ChangeEvent(IF prior = None THEN "added" ELSE "modified",
                               eid, op.key, prior, cur[op.key])
             rc == TaskReceipt("task_created", eid, t)
  <2>2. lines = <<ev, rc>>
    BY <1>5, <1>n DEF BuildOp, BuildNodeCreate
  <2>3. ev.event \in ReferentKinds /\ ev.key \in Workable /\ rc.key = None /\ rc.for = ev.eid
    BY <1>1, <1>2, <1>k, <2>1
  <2> HIDE DEF ev, rc
  <2> QED
    BY <1>p, <2>2, <2>3
<1>6. CASE op.act = "cleanup"
  <2>1. op.key \in Nodes /\ FoldHas(j, op.key)
    BY <1>6 DEF CompleteOp, OpRefused
  <2> DEFINE entry == Fold(j)[op.key]
             eid == DeriveEID(head0, "cleanup", op.key)
             ev == ChangeEvent("removed", eid, op.key, entry.after, None)
             rc == TaskReceipt("task_created", eid, t)
  <2>2. CASE entry.removed
    <3>1. lines = <<TaskReceipt("task_created", entry.eid, t)>>
      BY <1>6, <1>n, <2>2 DEF BuildOp, BuildCleanupCreate
    <3>2. Answers(j, entry.eid)
      BY <2>1, <2>2, EntryIsAnswered
    <3> QED
      BY <1>2, <1>s, <3>1, <3>2
  <2>3. CASE ~entry.removed
    <3>1. lines = <<ev, rc>>
      BY <1>6, <1>n, <2>3 DEF BuildOp, BuildCleanupCreate
    <3>2. ev.event \in ReferentKinds /\ ev.event = "removed" /\ rc.key = None /\ rc.for = ev.eid
      BY <1>1, <1>2, <1>k
    <3> HIDE DEF ev, rc
    <3> QED
      BY <1>p, <3>1, <3>2
  <2> QED
    BY <2>2, <2>3
<1>7. CASE op.act = "retarget"
  <2>1. op.key \in Workable
    BY <1>7 DEF CompleteOp, Workable
  <2> DEFINE eid == DeriveEID(head0, "retarget", op.key)
             ev == ChangeEvent("modified", eid, op.key, PriorHash(j, op.key), op.hash)
             rc == TaskReceipt("task_retargeted", eid, op.task)
  <2>2. lines = <<ev, rc>>
    BY <1>7, <1>n DEF BuildOp, BuildRetarget
  <2>3. ev.event \in ReferentKinds /\ ev.key \in Workable /\ rc.key = None /\ rc.for = ev.eid
    BY <1>1, <1>2, <1>k, <2>1
  <2> HIDE DEF ev, rc
  <2> QED
    BY <1>p, <2>2, <2>3
<1>8. CASE op.act = "close"
  <2> DEFINE eid == DeriveEID(head0, "close", op.key)
             n == ClosedNode(j, op)
             ev == IF op.why = "removed"
                   THEN ChangeEvent("removed", eid, n, Fold(j)[n].after, None)
                   ELSE ChangeEvent("modified", eid, n, Fold(j)[n].after, cur[n])
             rc == TaskReceipt("task_closed", eid, t)
  <2>1. lines = <<ev, rc>>
    BY <1>8, <1>n DEF BuildOp, BuildClose
  <2>2. ev.event \notin TaskBearing /\ rc.event \notin TaskBearing
    BY <1>1, <1>2 DEF TaskBearing
  <2> HIDE DEF ev, rc
  <2>3. DOMAIN lines = {1, 2} /\ lines[1] = ev /\ lines[2] = rc
    BY <2>1
  <2> QED
    BY <2>2, <2>3
<1> QED
  BY <1>3, <1>4, <1>5, <1>6, <1>7, <1>8 DEF OpActs

WorkInv ==
    /\ Answered(journal)
    /\ proc = "reconcile" => Answered(journal \o batch)
    /\ proc = "refresh" => \A i \in DOMAIN batch : batch[i].event \in ChangeKinds
    /\ proc = "refreshSave" =>
          \E old \in Seq(Event) : journal = old \o batch /\ Answered(old)
    /\ cs # None \/ phase \in {"planned", "dead", "applied"} =>
          OrderedOps(cs.ops) /\ RelevantOps(cs.ops)

\* One turn of the refresh loop adds a change event or nothing.
LEMMA RefreshedChange ==
    ASSUME TypeInv, NEW n \in Nodes, RefreshEntry(n),
           \A i \in DOMAIN batch : batch[i].event \in ChangeKinds
    PROVE  \A i \in DOMAIN batch' : batch'[i].event \in ChangeKinds
<1>1. CASE batch' = batch
  BY <1>1
<1>2. ASSUME NEW nth, batch' = Append(batch, RefreshLine(spec, snapshot, n, nth))
      PROVE  \A i \in DOMAIN batch' : batch'[i].event \in ChangeKinds
  <2> DEFINE line == RefreshLine(spec, snapshot, n, nth)
  <2>1. line.event \in ChangeKinds
    BY DEF RefreshLine, ChangeEvent, ChangeType, ChangeKinds
  <2>2. batch' = Append(batch, line) /\ batch \in Seq(Event)
    BY <1>2 DEF TypeInv, TypeOK
  <2> HIDE DEF line
  <2>3. \A i \in DOMAIN Append(batch, line) :
           \/ i = Len(batch) + 1 /\ Append(batch, line)[i] = line
           \/ i \in DOMAIN batch /\ Append(batch, line)[i] = batch[i]
    BY <2>2, AppendedLine
  <2>4. \A i \in DOMAIN batch' : batch'[i] = line \/ (i \in DOMAIN batch /\ batch'[i] = batch[i])
    BY <2>2, <2>3, Zenon
  <2> QED
    BY <2>1, <2>4
<1> QED
  BY <1>1, <1>2 DEF RefreshEntry

\* Lines that pair nothing keep a journal answered.
LEMMA AnsweredByOthers ==
    ASSUME NEW s \in Seq(Event), NEW t \in Seq(Event), Answered(s),
           \A i \in DOMAIN t : t[i].event \notin TaskBearing
    PROVE  Answered(s \o t)
BY AnsweredConcat

\* A step that changes no line and no changeset.
LEMMA JournalStepAnswered ==
    ASSUME TypeInv, IDInv, AccountInv, WorkInv, JournalStep
    PROVE  /\ Answered(journal')
           /\ proc' = "reconcile" => Answered(journal' \o batch')
           /\ proc' = "refresh" => \A i \in DOMAIN batch' : batch'[i].event \in ChangeKinds
           /\ proc' = "refreshSave" =>
                 \E old \in Seq(Event) : journal' = old \o batch' /\ Answered(old)
<1> USE DEF specVars, journalVars, runVars, memVars
<1>t. journal \in Seq(Event) /\ batch \in Seq(Event)
  BY DEF TypeInv, TypeOK
<1>a. Answered(journal)
  BY DEF WorkInv
<1>c. \A k \in ChangeKinds \cup {"refresh", "registered"} : k \notin TaskBearing
  BY DEF ChangeKinds, TaskBearing
<1>1. CASE QuietStep
  <2>1. CASE UNCHANGED <<journal, batch, proc>>
    BY <2>1 DEF WorkInv
  <2>2. CASE UNCHANGED journal /\ proc' \in {"idle", "adapter", "save"}
    BY <1>a, <2>2
  <2>3. CASE UNCHANGED journal /\ proc' \in {"reconcile", "refresh"} /\ batch' = <<>>
    <3>1. journal' \o batch' = journal
      BY <1>t, <2>3
    <3> QED
      BY <1>a, <2>3, <3>1
  <2> QED
    BY <1>1, <2>1, <2>2, <2>3 DEF QuietStep
<1>2. CASE RegisterStep
  <2>1. PICK stem \in Stems : journal' = Append(journal, RegisteredEvent(head, stem))
    BY <1>2 DEF RegisterStep
  <2> DEFINE line == RegisteredEvent(head, stem)
  <2>2. line \in Event /\ line.event = "registered"
    BY DeriveEIDTyped, JournalAssumption
    DEF TypeInv, TypeOK, RegisteredEvent, RegisteredEID, Event, EventKinds, ReferentKinds,
        EIDSources, MaybeHash, NoTask
  <2> HIDE DEF line
  <2>3. journal' = journal \o <<line>> /\ <<line>> \in Seq(Event)
    BY <1>t, <2>1, <2>2 DEF line
  <2>4. \A i \in DOMAIN <<line>> : <<line>>[i].event \notin TaskBearing
    BY <1>c, <2>2
  <2>5. Answered(journal')
    BY <1>a, <1>t, <2>3, <2>4, AnsweredByOthers
  <2>6. proc' = "idle"
    BY <1>2 DEF RegisterStep
  <2> QED
    BY <2>5, <2>6
<1>3. CASE proc = "reconcile" /\ ReconcileStep
  <2>1. /\ cs \in Changeset /\ \A op \in cs.ops : CompleteOp(op)
        /\ spec \in [Nodes -> MaybeHash] /\ cs.head \in Nat /\ cs.absorbed \subseteq AbsorbedEntry
        /\ phase = "applied"
    BY <1>3 DEF TypeInv, CommandsHaveInput, Outstanding, TypeOK, Specs, Changeset
  <2>2. UNCHANGED <<journal, proc>>
    BY <1>3, ReconciledLines
  <2>3. Answered(journal \o batch)
    BY <1>3 DEF WorkInv
  <2>4. ASSUME NEW lines \in Seq(Event), batch' = batch \o lines,
               \A r \in DOMAIN lines : lines[r].event \in TaskBearing =>
                   lines[r].key = None /\ Answers((journal \o batch) \o lines, lines[r].for)
        PROVE  Answered(journal \o batch')
    <3>1. journal \o batch' = (journal \o batch) \o lines /\ journal \o batch \in Seq(Event)
      BY <1>t, <2>4
    <3>2. Answered((journal \o batch) \o lines)
      BY <2>3, <2>4, <3>1, AnsweredConcat
    <3> QED
      BY <3>1, <3>2
  <2>5. Answered(journal \o batch')
    <3>1. CASE batch' = batch
      BY <2>3, <3>1
    <3>2. ASSUME NEW op \in cs.ops, ~OpRefused(journal, batch, spec, cs.head, op),
                 batch' = batch \o BuildOp(journal, batch, spec, cs.head, op,
                                           receipts[OpID(op)].task)
          PROVE  Answered(journal \o batch')
      <4> DEFINE t == receipts[OpID(op)].task
                 lines == BuildOp(journal, batch, spec, cs.head, op, t)
      <4>1. t \in Nat
        BY <1>3 DEF TypeInv, CommandsHaveInput, TypeOK, Receipt
      <4>2. op.act \in {"create", "retarget"} => Kind[op.key] \in PlanRelevant
        BY <2>1 DEF WorkInv, RelevantOps
      <4> HIDE DEF t
      <4>3. lines \in Seq(Event)
        BY <1>t, <2>1, <3>2, <4>1, BuiltLinesAreFresh
      <4>4. \A r \in DOMAIN lines : lines[r].event \in TaskBearing =>
               lines[r].key = None /\ Answers((journal \o batch) \o lines, lines[r].for)
        BY <1>a, <1>t, <2>1, <3>2, <4>1, <4>2, BuiltLinesAnswered
      <4>5. batch' = batch \o lines
        BY <3>2 DEF t
      <4> HIDE DEF lines
      <4> QED
        BY <2>4, <4>3, <4>4, <4>5
    <3>3. ASSUME NEW entry \in cs.absorbed, batch' = batch \o BuildAbsorbed(journal, batch, entry)
          PROVE  Answered(journal \o batch')
      <4> DEFINE lines == BuildAbsorbed(journal, batch, entry)
      <4>1. lines \in Seq(Event)
        BY <1>t, <2>1, AbsorbedLinesAreFresh
      <4>2. \A r \in DOMAIN lines : lines[r].event = "modified"
        BY DEF BuildAbsorbed, ChangeEvent
      <4>3. batch' = batch \o lines
        BY <3>3
      <4> HIDE DEF lines
      <4> QED
        BY <1>c, <2>4, <4>1, <4>2, <4>3 DEF ChangeKinds
    <3> QED
      BY <1>3, <3>1, <3>2, <3>3 DEF ReconcileStep, ReconcileOp, AbsorbEntry
  <2> QED
    BY <1>3, <1>a, <2>2, <2>5
<1>4. CASE IngestCommit
  <2>1. journal' = journal \o FinalBatch /\ proc = "reconcile" /\ proc' = "save"
    BY <1>4 DEF IngestCommit, Committable
  <2>2. Answered(journal \o batch) /\ journal \o batch \in Seq(Event)
    BY <1>t, <2>1, ConcatLines DEF WorkInv
  <2>3. CASE FinalBatch = batch
    BY <2>1, <2>2, <2>3
  <2>4. CASE FinalBatch = Append(batch, RefreshReceipt(AbsorbedEIDs))
    <3> DEFINE rc == RefreshReceipt(AbsorbedEIDs)
    <3>1. rc \in Event /\ rc.event = "refresh"
      <4>1. AbsorbedEIDs \subseteq EIDs
        <5>1. \A i \in DOMAIN batch : batch[i].eid \in EIDs \cup {None}
          <6>1. \A i \in DOMAIN batch : batch[i] \in Event
            BY <1>t
          <6> QED
            BY <6>1 DEF Event
        <5> QED
          BY <5>1 DEF AbsorbedEIDs, KnownEIDs
      <4> QED
        BY <4>1 DEF RefreshReceipt, Event, EventKinds, MaybeHash, NoTask
    <3> HIDE DEF rc
    <3>2. journal' = (journal \o batch) \o <<rc>> /\ <<rc>> \in Seq(Event)
      BY <1>t, <2>1, <2>4, <3>1 DEF rc
    <3>3. \A i \in DOMAIN <<rc>> : <<rc>>[i].event \notin TaskBearing
      BY <1>c, <3>1
    <3>4. Answered(journal')
      BY <2>2, <3>2, <3>3, AnsweredByOthers
    <3> QED
      BY <2>1, <3>4
  <2> QED
    BY <2>3, <2>4 DEF FinalBatch
<1>5. ASSUME NEW n \in Nodes, RefreshEntry(n)
      PROVE  Answered(journal') /\ proc' = "refresh"
             /\ \A i \in DOMAIN batch' : batch'[i].event \in ChangeKinds
  <2>1. UNCHANGED <<journal, proc>> /\ proc = "refresh"
    BY <1>5 DEF RefreshEntry
  <2>2. \A i \in DOMAIN batch' : batch'[i].event \in ChangeKinds
    BY <1>5, <2>1, RefreshedChange DEF WorkInv
  <2> QED
    BY <1>a, <2>1, <2>2
<1>6. CASE RefreshAppend
  <2> DEFINE rc == RefreshReceipt(KnownEIDs(batch))
  <2>1. /\ proc = "refresh" /\ proc' = "refreshSave"
        /\ batch' = Append(batch, rc) /\ journal' = journal \o batch'
    BY <1>6 DEF RefreshAppend
  <2>2. batch' \in Seq(Event)
    BY <1>t, <2>1, ReceiptAppended
  <2>3. rc.event = "refresh"
    BY DEF RefreshReceipt
  <2> HIDE DEF rc
  <2>4. \A i \in DOMAIN Append(batch, rc) :
           \/ i = Len(batch) + 1 /\ Append(batch, rc)[i] = rc
           \/ i \in DOMAIN batch /\ Append(batch, rc)[i] = batch[i]
    BY <1>t, AppendedLine
  <2>5. \A i \in DOMAIN batch' : batch'[i] = rc \/ (i \in DOMAIN batch /\ batch'[i] = batch[i])
    BY <2>1, <2>4, Zenon
  <2>6. \A i \in DOMAIN batch' : batch'[i].event \notin TaskBearing
    BY <1>c, <2>1, <2>3, <2>5 DEF WorkInv
  <2>7. Answered(journal')
    BY <1>a, <1>t, <2>1, <2>2, <2>6, AnsweredByOthers
  <2> QED
    BY <1>a, <1>t, <2>1, <2>7
<1>7. CASE RefreshSaveFails
  <2>1. PICK old \in Seq(Event) : journal = old \o batch /\ Answered(old)
    BY <1>7 DEF RefreshSaveFails, WorkInv
  <2>2. SubSeq(journal, 1, Len(journal) - Len(batch)) = old
    BY <1>t, <2>1
  <2>3. journal' = old /\ proc' = "idle"
    BY <1>7, <2>2 DEF RefreshSaveFails, Stop
  <2> QED
    BY <2>1, <2>3
<1> QED
  BY <1>1, <1>2, <1>3, <1>4, <1>5, <1>6, <1>7 DEF JournalStep

\* But for plan, everybody keeps the changeset or drops it.
LEMMA OthersKeepChangeset ==
    ASSUME TypeInv,
           \/ UNCHANGED vars
           \/ EditSpec \/ Work \/ Registering \/ Applying \/ Ingesting \/ Refreshing
    PROVE  \/ UNCHANGED cs /\ (phase' = phase \/ phase \in {"planned", "dead", "applied"})
           \/ cs' = None /\ phase' \in {"clean", "partial"} /\ proc' = "idle"
<1> USE DEF vars, specVars, journalVars, runVars, memVars
<1>1. CASE UNCHANGED vars \/ EditSpec \/ Work \/ Registering
  BY <1>1 DEF EditSpec, Work, Claim, Finish, Registering, Register, RegisterCrash
<1>2. CASE Applying
  <2>1. CASE AdapterStart \/ AdapterStep
    BY <2>1 DEF AdapterStart, AdapterStep, AdapterMatch, AdapterCreate, AdapterRetarget,
       AdapterClose, AdapterRefError, AdapterOpFails, adapterFrame
  <2>2. CASE AdapterFinish \/ AdapterCrash
    BY <2>2 DEF AdapterFinish, AdapterCrash, TypeInv, CommandsHaveInput
  <2> QED
    BY <1>2, <2>1, <2>2 DEF Applying
<1>3. CASE Ingesting
  BY <1>3 DEF Ingesting, IngestStart, IngestCommit, IngestRefuse, IngestSave, IngestCrash,
     ReconcileStep, ReconcileOp, AbsorbEntry, Stop
<1>4. CASE Refreshing
  BY <1>4 DEF Refreshing, RefreshStart, RefreshAppend, RefreshSave, RefreshSaveFails,
     RefreshCrash, RefreshEntry
<1> QED
  BY <1>1, <1>2, <1>3, <1>4

\* The changeset changes only when plan writes one and ingest drops one.
LEMMA ChangesetSteps ==
    ASSUME TypeInv, [Next]_vars
    PROVE  \/ UNCHANGED cs /\ (phase' = phase \/ phase \in {"planned", "dead", "applied"})
           \/ cs' = None /\ phase' \in {"clean", "partial"} /\ proc' = "idle"
           \/ Planning
  BY OthersKeepChangeset DEF Next

\* Plan builds the changeset from the journal's own pairings.
LEMMA PlannedOps ==
    ASSUME TypeInv, IDInv, AccountInv, WorkInv, Planning
    PROVE  OrderedOps(cs'.ops) /\ RelevantOps(cs'.ops)
<1>1. PICK stem \in Stems, marks \in SUBSET Absorbable(spec, snapshot) : Plan(stem, marks)
  BY DEF Planning
<1> DEFINE changes == Diff(spec, snapshot) \ marks
<1>2. changes \in SUBSET Nodes
  BY DEF Diff
<1>3. journal \in Seq(Event)
  BY DEF TypeInv, TypeOK
<1>4. \A n \in Nodes : Paired(Fold(journal), n) => Kind[n] \in PlanRelevant
  BY <1>3, PairedIsWorkable, JournalAssumption DEF IDInv, AccountInv, WorkInv, Workable
<1> HIDE DEF changes
<1>5. cs'.ops = BuildOps(journal, spec, edges, ExportTasks, head, stem, changes)
  BY <1>1 DEF Plan, Build, changes
<1> QED
  BY <1>2, <1>4, <1>5, PlanOrdersLayers

\* Every step keeps WorkInv.
LEMMA NextWorkInv == TypeInv /\ IDInv /\ AccountInv /\ WorkInv /\ [Next]_vars => WorkInv'
<1> SUFFICES ASSUME TypeInv, IDInv, AccountInv, WorkInv, [Next]_vars PROVE WorkInv'
  OBVIOUS
<1>1. /\ Answered(journal')
      /\ proc' = "reconcile" => Answered(journal' \o batch')
      /\ proc' = "refresh" => \A i \in DOMAIN batch' : batch'[i].event \in ChangeKinds
      /\ proc' = "refreshSave" =>
            \E old \in Seq(Event) : journal' = old \o batch' /\ Answered(old)
  BY JournalSteps, JournalStepAnswered
<1>2. cs' # None \/ phase' \in {"planned", "dead", "applied"} =>
         OrderedOps(cs'.ops) /\ RelevantOps(cs'.ops)
  <2>1. CASE UNCHANGED cs /\ (phase' = phase \/ phase \in {"planned", "dead", "applied"})
    BY <2>1 DEF WorkInv
  <2>2. CASE cs' = None /\ phase' \in {"clean", "partial"}
    BY <2>2
  <2>3. CASE Planning
    BY <2>3, PlannedOps
  <2> QED
    BY <2>1, <2>2, <2>3, ChangesetSteps
<1> QED
  BY <1>1, <1>2 DEF WorkInv

\* The pipeline's journal invariants, together.
LEMMA WorkInvariant == Spec => [](TypeInv /\ IDInv /\ AccountInv /\ WorkInv)
<1>1. Init => AccountInv /\ WorkInv
  <2>1. Init => AccountInv
    BY DEF Init, AccountInv, Accounted, KnownEIDs
  <2>2. Init => WorkInv
    BY DEF Init, WorkInv, Answered
  <2> QED
    BY <2>1, <2>2
<1>2. Spec => []AccountInv
  BY <1>1, NextAccountInv, PipelineInvariant, PTL DEF Spec
<1> QED
  BY <1>1, <1>2, NextWorkInv, PipelineInvariant, PTL DEF Spec

(***************************************************************************)
(* Whatever the history of the project, and whatever else the batch holds, *)
(* a create or a cleanup of a changeset waits for every create of every    *)
(* earlier layer: edges to the nearest earlier layer suffice, because the  *)
(* journal only ever pairs plan-relevant nodes (plan/builder.go            *)
(* layerEdgesFor, plan/action_classifier.go).                              *)
(***************************************************************************)
THEOREM LayersStayOrdered == Spec => []LayersAreOrdered
<1>1. WorkInv => LayersAreOrdered
  BY DEF WorkInv, OrderedOps, LayersAreOrdered
<1> QED
  BY <1>1, WorkInvariant, PTL

-----------------------------------------------------------------------------
(***************************************************************************)
(* Steps as the tracker sees them: implementers move a status, and the     *)
(* adapter, while it runs, adds a task nobody has the label of, adds a     *)
(* label and deps to the task of a retarget, or closes one.                *)
(***************************************************************************)
WorkStep ==
    /\ phase \in WorkPhases
    /\ UNCHANGED <<runVars, memVars, journalVars>>
    /\ \E t \in DOMAIN tracker :
          /\ tracker[t].status # "closed"
          /\ \/ tracker' = [tracker EXCEPT ![t] = [@ EXCEPT !.status = "in_progress"]]
             \/ tracker' = [tracker EXCEPT ![t] = [@ EXCEPT !.status = "closed", !.built = tracker[t].labels]]

CreateStep(op) ==
    IsCreate(op) /\ Labelled(op.label) = {} /\ tracker' = Append(tracker, NewTask(op))

RetargetStep(op) ==
    /\ op.act = "retarget"
    /\ \E D : tracker' = [tracker EXCEPT ![op.task] = Retargeted(@, op, D)]

CloseStep(op) ==
    /\ op.act = "close"
    /\ tracker' = [tracker EXCEPT ![op.task] = [@ EXCEPT !.status = "closed"]]

TrackerStep ==
    \/ UNCHANGED tracker
    \/ WorkStep
    \/ /\ proc = "adapter" /\ UNCHANGED <<journalVars, cs>> /\ phase' \in {phase, "dead"}
       /\ \E op \in cs.ops : CreateStep(op) \/ RetargetStep(op) \/ CloseStep(op)

AdapterMove ==
    /\ proc = "adapter" /\ UNCHANGED <<journalVars, cs>> /\ phase' \in {phase, "dead"}
    /\ \E op \in cs.ops : CreateStep(op) \/ RetargetStep(op) \/ CloseStep(op)

\* Nobody but implementers and the adapter changes the tracker.
LEMMA WhoMovesTracker == [Next]_vars => UNCHANGED tracker \/ Work \/ AdapterMove
<1> SUFFICES ASSUME [Next]_vars PROVE UNCHANGED tracker \/ Work \/ AdapterMove
  OBVIOUS
<1> USE DEF vars, specVars, journalVars, runVars, memVars
<1>1. CASE UNCHANGED vars \/ EditSpec \/ Registering \/ Planning
  BY <1>1 DEF EditSpec, Registering, Register, RegisterCrash, Planning, Plan
<1>2. CASE Work
  BY <1>2
<1>3. CASE Applying
  <2>1. CASE AdapterStart \/ AdapterFinish
    BY <2>1 DEF AdapterStart, AdapterFinish
  <2>2. CASE AdapterCrash
    BY <2>2 DEF AdapterCrash, PartlyRetargeted, AdapterMove, RetargetStep
  <2>3. CASE proc = "adapter" /\ AdapterStep
    <3>1. PICK op \in cs.ops :
             AdapterMatch(op) \/ AdapterCreate(op) \/ AdapterRetarget(op)
                 \/ AdapterClose(op) \/ AdapterRefError(op) \/ AdapterOpFails(op)
      BY <2>3 DEF AdapterStep
    <3>2. CASE AdapterMatch(op) \/ AdapterRefError(op)
      BY <3>2 DEF AdapterMatch, AdapterRefError
    <3>3. CASE AdapterCreate(op)
      BY <2>3, <3>3 DEF AdapterCreate, adapterFrame, AdapterMove, CreateStep
    <3>4. CASE AdapterRetarget(op)
      BY <2>3, <3>4 DEF AdapterRetarget, adapterFrame, AdapterMove, RetargetStep
    <3>5. CASE AdapterClose(op)
      BY <2>3, <3>5 DEF AdapterClose, adapterFrame, AdapterMove, CloseStep
    <3>6. CASE AdapterOpFails(op)
      BY <2>3, <3>6 DEF AdapterOpFails, adapterFrame, PartlyRetargeted, AdapterMove,
                        CreateStep, RetargetStep
    <3> QED
      BY <3>1, <3>2, <3>3, <3>4, <3>5, <3>6
  <2> QED
    BY <1>3, <2>1, <2>2, <2>3 DEF Applying
<1>4. CASE Ingesting
  BY <1>4 DEF Ingesting, IngestStart, IngestCommit, IngestRefuse, IngestSave, IngestCrash,
     ReconcileStep, ReconcileOp, AbsorbEntry
<1>5. CASE Refreshing
  BY <1>5 DEF Refreshing, RefreshStart, RefreshAppend, RefreshSave, RefreshSaveFails,
     RefreshCrash, RefreshEntry
<1> QED
  BY <1>1, <1>2, <1>3, <1>4, <1>5 DEF Next

\* The same with what an implementer's step does written out.
LEMMA TrackerSteps == [Next]_vars => TrackerStep
<1>1. ASSUME Work PROVE WorkStep
  <2>1. PICK t \in DOMAIN tracker : Claim(t) \/ Finish(t)
    BY <1>1 DEF Work
  <2>2. CASE Claim(t)
    BY <2>2 DEF Claim, WorkStep
  <2>3. CASE Finish(t)
    BY <2>3 DEF Finish, WorkStep
  <2> QED
    BY <2>1, <2>2, <2>3
<1> QED
  BY <1>1, WhoMovesTracker DEF AdapterMove, TrackerStep

-----------------------------------------------------------------------------
(***************************************************************************)
(* Claims.  Plan only retargets and closes tasks the export shows as open, *)
(* and the adapter reaches no task its changeset does not name: a task     *)
(* claimed when plan ran is its implementer's, whoever works when.         *)
(***************************************************************************)
HeldInv ==
    /\ held \subseteq DOMAIN tracker
    /\ \A t \in held : tracker[t].status \in {"in_progress", "closed"}
    /\ phase \in {"planned", "dead", "applied"} =>
          \A op \in cs.ops : op.act \in {"retarget", "close"} => op.task \notin held

\* What plan retargets and closes is open and in the tracker.
LEMMA PlanTouchesOpenTasks ==
    ASSUME NEW j \in Seq(Event), NEW cur, NEW edges0, NEW head0, NEW stem, NEW changes,
           NEW op \in BuildOps(j, cur, edges0, ExportTasks, head0, stem, changes),
           op.act \in {"retarget", "close"}
    PROVE  op.task \in DOMAIN tracker /\ tracker[op.task].status = "open"
<1> DEFINE fold == Fold(j)
           creates == ToCreate(changes, cur, edges0, fold, ExportTasks)
           cleanups == ToCleanUp(changes, cur, fold, ExportTasks)
           retargets == ToRetarget(changes, cur, edges0, fold, ExportTasks)
           closes == ToClose(changes, cur, edges0, fold, ExportTasks)
           ids == CreateIDs(creates, cleanups)
           createOp(n) == CreateOp(fold, ExportTasks, head0, stem, ids,
                                   LayerEdges(creates, cleanups, n),
                                   CreateDeps(changes, cur, edges0, n), n)
           cleanupOp(n) == CleanupOp(fold, head0, stem, ids, LayerEdges(creates, cleanups, n),
                                     {fold[m].task : m \in retargets}, n)
           retargetOp(n) == RetargetOp(fold, cur, edges0, ExportTasks, head0, ids, n)
           closeOp(n) == CloseOp(fold, cur, n)
           epic == IF NeedsEpic(fold, stem) THEN {EpicOp(j, stem)} ELSE {}
<1>1. op \in epic \cup {createOp(n) : n \in creates} \cup {cleanupOp(n) : n \in cleanups}
              \cup {retargetOp(n) : n \in retargets} \cup {closeOp(n) : n \in closes}
  BY DEF BuildOps
<1>2. \A n \in retargets \cup closes : Status(ExportTasks, fold[n].task) = "open"
  BY DEF ToRetarget, ToClose
<1> HIDE DEF fold, creates, cleanups, retargets, closes, ids
<1>3. /\ \A n : createOp(n).act = "create" /\ cleanupOp(n).act = "cleanup"
                /\ retargetOp(n).task = fold[n].task /\ closeOp(n).task = fold[n].task
      /\ \A o \in epic : o.act = "epic"
  BY DEF CreateOp, CleanupOp, RetargetOp, CloseOp, EpicOp
<1> HIDE DEF createOp, cleanupOp, retargetOp, closeOp, epic
<1>4. PICK n \in retargets \cup closes : op.task = fold[n].task
  BY <1>1, <1>3
<1>5. Status(ExportTasks, op.task) = "open"
  BY <1>2, <1>4
<1> QED
  BY <1>5 DEF Status, ExportTasks

\* The pipeline's step of a step that remembers claims.
LEMMA StepUnderClaims == [ClaimNext]_claimVars => [Next]_vars
  BY DEF ClaimNext, claimVars, Next

\* A held task is changed by its implementer alone.
LEMMA OnlyTheHolder ==
    ASSUME TypeInv, HeldInv, [Next]_vars, NEW t \in held
    PROVE  tracker'[t] = tracker[t] \/ Finish(t)
<1>t. tracker \in Seq(Task) /\ t \in DOMAIN tracker
  BY DEF TypeInv, TypeOK, HeldInv
<1>1. CASE UNCHANGED tracker
  BY <1>1
<1>2. CASE Work
  <2>1. PICK u \in DOMAIN tracker : Claim(u) \/ Finish(u)
    BY <1>2 DEF Work
  <2>2. CASE u = t
    BY <2>1, <2>2 DEF HeldInv, Claim
  <2>3. CASE u # t
    BY <1>t, <2>1, <2>3 DEF Claim, Finish
  <2> QED
    BY <2>2, <2>3
<1>3. CASE AdapterMove
  <2>1. PICK op \in cs.ops : CreateStep(op) \/ RetargetStep(op) \/ CloseStep(op)
    BY <1>3 DEF AdapterMove
  <2>2. CASE CreateStep(op)
    <3> DEFINE task == NewTask(op)
    <3>1. tracker' = Append(tracker, task)
      BY <2>2 DEF CreateStep
    <3> HIDE DEF task
    <3> QED
      BY <1>t, <3>1
  <2>3. CASE RetargetStep(op) \/ CloseStep(op)
    <3>1. phase \in {"planned", "dead"}
      BY <1>3 DEF AdapterMove, TypeInv, CommandsHaveInput
    <3>2. op.task # t
      BY <2>3, <3>1 DEF HeldInv, RetargetStep, CloseStep
    <3> QED
      BY <1>t, <2>3, <3>2 DEF RetargetStep, CloseStep
  <2> QED
    BY <2>1, <2>2, <2>3
<1> QED
  BY <1>1, <1>2, <1>3, WhoMovesTracker

\* No task leaves the tracker.
LEMMA TasksStay == TypeInv /\ [Next]_vars => DOMAIN tracker \subseteq DOMAIN tracker'
<1> SUFFICES ASSUME TypeInv, [Next]_vars PROVE DOMAIN tracker \subseteq DOMAIN tracker'
  OBVIOUS
<1>t. tracker \in Seq(Task)
  BY DEF TypeInv, TypeOK
<1>1. CASE UNCHANGED tracker
  BY <1>1
<1>2. CASE Work
  BY <1>2 DEF Work, Claim, Finish
<1>3. CASE AdapterMove
  <2>1. PICK op \in cs.ops : CreateStep(op) \/ RetargetStep(op) \/ CloseStep(op)
    BY <1>3 DEF AdapterMove
  <2>2. CASE CreateStep(op)
    <3> DEFINE task == NewTask(op)
    <3>1. tracker' = Append(tracker, task)
      BY <2>2 DEF CreateStep
    <3> HIDE DEF task
    <3> QED
      BY <1>t, <3>1
  <2>3. CASE RetargetStep(op) \/ CloseStep(op)
    BY <2>3 DEF RetargetStep, CloseStep
  <2> QED
    BY <2>1, <2>2, <2>3
<1> QED
  BY <1>1, <1>2, <1>3, WhoMovesTracker

\* Plan takes note of the claims, and names none of them.
LEMMA PlanSparesClaims ==
    ASSUME TypeInv, Planning, held' = {t \in DOMAIN tracker : tracker[t].status = "in_progress"}
    PROVE  HeldInv'
<1>1. PICK stem \in Stems, marks \in SUBSET Absorbable(spec, snapshot) : Plan(stem, marks)
  BY DEF Planning
<1>2. /\ UNCHANGED tracker
      /\ cs'.ops = BuildOps(journal, spec, edges, ExportTasks, head, stem,
                            Diff(spec, snapshot) \ marks)
  BY <1>1 DEF Plan, Build
<1>3. ASSUME NEW op \in cs'.ops, op.act \in {"retarget", "close"} PROVE op.task \notin held'
  <2>1. tracker[op.task].status = "open"
    BY <1>2, <1>3, PlanTouchesOpenTasks DEF TypeInv, TypeOK
  <2> QED
    BY <2>1
<1> QED
  BY <1>2, <1>3 DEF HeldInv

\* Every step keeps HeldInv.
LEMMA NextHeldInv == TypeInv /\ HeldInv /\ [ClaimNext]_claimVars => HeldInv'
<1> SUFFICES ASSUME TypeInv, HeldInv, [ClaimNext]_claimVars PROVE HeldInv'
  OBVIOUS
<1>1. CASE Planning /\ held' = {t \in DOMAIN tracker : tracker[t].status = "in_progress"}
  BY <1>1, PlanSparesClaims
<1>2. CASE /\ \/ UNCHANGED vars
              \/ EditSpec \/ Work \/ Registering \/ Applying \/ Ingesting \/ Refreshing
           /\ held' = held
  <2>1. [Next]_vars
    BY StepUnderClaims
  <2>2. held' \subseteq DOMAIN tracker'
    BY <1>2, <2>1, TasksStay DEF HeldInv
  <2>3. ASSUME NEW t \in held' PROVE tracker'[t].status \in {"in_progress", "closed"}
    <3>1. t \in held /\ t \in DOMAIN tracker /\ tracker[t].status \in {"in_progress", "closed"}
      BY <1>2 DEF HeldInv
    <3>2. tracker'[t] = tracker[t] \/ Finish(t)
      BY <2>1, <3>1, OnlyTheHolder
    <3>3. Finish(t) => tracker'[t].status = "closed"
      <4>1. tracker[t] \in Task
        BY <3>1 DEF TypeInv, TypeOK
      <4>2. [tracker[t] EXCEPT !.status = "closed", !.built = tracker[t].labels].status = "closed"
        BY <4>1 DEF Task
      <4> QED
        BY <3>1, <4>2 DEF Finish
    <3> QED
      BY <3>1, <3>2, <3>3
  <2>4. phase' \in {"planned", "dead", "applied"} =>
           \A op \in cs'.ops : op.act \in {"retarget", "close"} => op.task \notin held'
    BY <1>2, OthersKeepChangeset DEF HeldInv
  <2> QED
    BY <2>2, <2>3, <2>4 DEF HeldInv
<1>3. CASE held' = {}
  BY <1>3 DEF HeldInv
<1> QED
  BY <1>1, <1>2, <1>3 DEF ClaimNext, claimVars

(***************************************************************************)
(* Whatever people do between plan and the end of the adapter run, claims  *)
(* of other tasks included, and however often the adapter fails and is run *)
(* again: a task that was claimed when plan ran is changed by its          *)
(* implementer alone (plan/action_classifier.go ClassifyActions,           *)
(* scripts/apply-br.sh, which closes with --force).                        *)
(***************************************************************************)
THEOREM ClaimsAreRespected == ClaimSpec => HeldTasksUntouched
<1>1. ClaimInit => Init /\ HeldInv
  BY DEF ClaimInit, Init, HeldInv
<1>2. [ClaimNext]_claimVars => [Next]_vars
  BY StepUnderClaims
<1>3. ClaimSpec => Spec
  BY <1>1, <1>2, PTL DEF ClaimSpec, Spec
<1>4. TypeInv /\ HeldInv /\ [ClaimNext]_claimVars => HeldInv'
  BY NextHeldInv
<1>5. TypeInv /\ HeldInv /\ [ClaimNext]_claimVars =>
         [\A t \in held : tracker'[t] = tracker[t] \/ Finish(t)]_claimVars
  BY <1>2, OnlyTheHolder
<1> QED
  BY <1>1, <1>3, <1>4, <1>5, PipelineInvariant, PTL DEF ClaimSpec, HeldTasksUntouched

-----------------------------------------------------------------------------
(***************************************************************************)
(* Pairings.  A task carries the ids of the events it was made or moved    *)
(* for, and an id tells the node or proposal it is about (the id of a      *)
(* close names the closed task instead, and pairs nothing).  So a receipt  *)
(* is good when its task carries the id the receipt names: then the node   *)
(* the fold finds through the id is the node the task was made for.        *)
(***************************************************************************)
GoodLine(tr, line) ==
    /\ line.event \in ReferentKinds /\ line.eid.src # "close" => line.eid.key = line.key
    /\ line.event = "registered" => line.eid.src = "registered"
    /\ line.event \in TaskBearing =>
          /\ line.for.src # "close"
          /\ line.task \in DOMAIN tr /\ line.for \in tr[line.task].labels

GoodLines(tr, s) == \A i \in DOMAIN s : GoodLine(tr, s[i])

LabelsTell(tr) == \A t \in DOMAIN tr : \A e \in tr[t].labels : e.key = tr[t].key

\* Every removal of n is followed by a receipt about n, so n is no bare tombstone.
LastWord(s, n) ==
    \A i \in DOMAIN s : s[i].event = "removed" /\ s[i].key = n =>
        \E r \in DOMAIN s : r > i /\ s[r].event \in TaskBearing /\ s[r].for.key = n

\* A tracker that only got more tasks, and tasks more labels.
Grown(tr, tr2) ==
    \A t \in DOMAIN tr : /\ t \in DOMAIN tr2 /\ tr2[t].key = tr[t].key
                         /\ tr[t].labels \subseteq tr2[t].labels

\* What is good stays good as the tracker grows.
LEMMA GoodLinesGrow ==
    ASSUME NEW tr, NEW tr2, Grown(tr, tr2), NEW s, GoodLines(tr, s)
    PROVE  GoodLines(tr2, s)
BY DEF GoodLines, GoodLine, Grown

\* Good lines put end to end are good.
LEMMA GoodLinesConcat ==
    ASSUME NEW tr, NEW s \in Seq(Event), NEW t \in Seq(Event)
    PROVE  GoodLines(tr, s \o t) <=> GoodLines(tr, s) /\ GoodLines(tr, t)
<1> DEFINE st == s \o t
<1>1. /\ \A i \in DOMAIN s : i \in DOMAIN st /\ st[i] = s[i]
      /\ \A i \in DOMAIN t : Len(s) + i \in DOMAIN st /\ st[Len(s) + i] = t[i]
      /\ \A i \in DOMAIN st :
            \/ i \in DOMAIN s /\ st[i] = s[i]
            \/ i \notin DOMAIN s /\ i - Len(s) \in DOMAIN t /\ st[i] = t[i - Len(s)]
  BY ConcatLines, Zenon
<1> HIDE DEF st
<1>2. GoodLines(tr, st) => GoodLines(tr, s) /\ GoodLines(tr, t)
  <2>1. ASSUME GoodLines(tr, st), NEW i \in DOMAIN s PROVE GoodLine(tr, s[i])
    BY <1>1, <2>1 DEF GoodLines
  <2>2. ASSUME GoodLines(tr, st), NEW i \in DOMAIN t PROVE GoodLine(tr, t[i])
    BY <1>1, <2>2 DEF GoodLines
  <2> QED
    BY <2>1, <2>2 DEF GoodLines
<1>3. GoodLines(tr, s) /\ GoodLines(tr, t) => GoodLines(tr, st)
  BY <1>1 DEF GoodLines
<1> QED
  BY <1>2, <1>3 DEF st

\* And so are removals that are each followed by a receipt.
LEMMA LastWordConcat ==
    ASSUME NEW s \in Seq(Event), NEW t \in Seq(Event), NEW n, LastWord(s, n), LastWord(t, n)
    PROVE  LastWord(s \o t, n)
<1> DEFINE st == s \o t
<1>1. /\ \A i \in DOMAIN s : i \in DOMAIN st /\ st[i] = s[i]
      /\ \A i \in DOMAIN t : Len(s) + i \in DOMAIN st /\ st[Len(s) + i] = t[i]
      /\ \A i \in DOMAIN st :
            \/ i \in DOMAIN s /\ st[i] = s[i]
            \/ i \notin DOMAIN s /\ i - Len(s) \in DOMAIN t /\ st[i] = t[i - Len(s)]
  BY ConcatLines, Zenon
<1>2. Len(s) \in Nat /\ DOMAIN t \subseteq Nat /\ DOMAIN st \subseteq Nat
  BY ConcatLines
<1> HIDE DEF st
<1>3. ASSUME NEW i \in DOMAIN st, st[i].event = "removed", st[i].key = n
      PROVE  \E r \in DOMAIN st : r > i /\ st[r].event \in TaskBearing /\ st[r].for.key = n
  <2>1. CASE i \in DOMAIN s /\ st[i] = s[i]
    <3>1. PICK r \in DOMAIN s : r > i /\ s[r].event \in TaskBearing /\ s[r].for.key = n
      BY <1>3, <2>1 DEF LastWord
    <3> QED
      BY <1>1, <3>1
  <2>2. CASE i - Len(s) \in DOMAIN t /\ st[i] = t[i - Len(s)]
    <3>1. PICK r \in DOMAIN t : r > i - Len(s) /\ t[r].event \in TaskBearing /\ t[r].for.key = n
      BY <1>3, <2>2 DEF LastWord
    <3>2. Len(s) + r > i
      BY <1>2, <3>1
    <3> QED
      BY <1>1, <3>1, <3>2
  <2> QED
    BY <1>1, <2>1, <2>2
<1>4. LastWord(st, n)
  BY <1>3 DEF LastWord
<1> QED
  BY <1>4 DEF st

\* The registration a stem resolves to is the same when no proposal registers.
LEMMA RegistrationKept ==
    ASSUME NEW s \in Seq(Event), NEW t \in Seq(Event), NEW stem,
           \A i \in DOMAIN t : t[i].event # "registered"
    PROVE  Registration(s \o t, stem) = Registration(s, stem)
<1> DEFINE st == s \o t
           regs(x) == {i \in DOMAIN x : x[i].event = "registered" /\ x[i].key = stem}
<1>1. /\ \A i \in DOMAIN s : i \in DOMAIN st /\ st[i] = s[i]
      /\ \A i \in DOMAIN st :
            \/ i \in DOMAIN s /\ st[i] = s[i]
            \/ i \notin DOMAIN s /\ i - Len(s) \in DOMAIN t /\ st[i] = t[i - Len(s)]
  BY ConcatLines, Zenon
<1> HIDE DEF st
<1>2. regs(st) = regs(s)
  BY <1>1
<1>3. regs(s) # {} => Max(regs(s)) \in regs(s)
  <2>1. regs(s) \subseteq 1..Len(s) /\ Len(s) \in Nat
    OBVIOUS
  <2> DEFINE R == regs(s)
  <2> HIDE DEF regs, R
  <2> QED
    BY <2>1, LastLine DEF R
<1>4. regs(s) # {} => st[Max(regs(s))] = s[Max(regs(s))]
  BY <1>1, <1>3
<1>5. /\ Registration(st, stem) = IF regs(st) = {} THEN None ELSE st[Max(regs(st))].eid
      /\ Registration(s, stem) = IF regs(s) = {} THEN None ELSE s[Max(regs(s))].eid
  BY DEF Registration
<1>6. Registration(st, stem) = Registration(s, stem)
  <2> DEFINE R == regs(s)
             m == Max(R)
  <2>1. R # {} => st[m] = s[m]
    BY <1>4
  <2>2. /\ Registration(st, stem) = IF R = {} THEN None ELSE st[m].eid
        /\ Registration(s, stem) = IF R = {} THEN None ELSE s[m].eid
    BY <1>2, <1>5, Zenon
  <2> HIDE DEF R, m
  <2>3. CASE R = {}
    BY <2>2, <2>3
  <2>4. CASE R # {}
    BY <2>1, <2>2, <2>4
  <2> QED
    BY <2>3, <2>4
<1> QED
  BY <1>6 DEF st

\* A receipt writes the entry of the node its id tells.
LEMMA ReceiptWrites ==
    ASSUME NEW tr, NEW j \in Seq(Event), Answered(j), GoodLines(tr, j),
           NEW i \in DOMAIN j, j[i].event \in TaskBearing
    PROVE  /\ EntryKey(j, i) = j[i].for.key
           /\ EntryOf(j, i).task = j[i].task /\ EntryOf(j, i).eid = j[i].for
           /\ \E m \in DOMAIN j : /\ j[m].event \in ReferentKinds /\ j[m].eid = j[i].for
                                  /\ EntryOf(j, i).removed <=> j[m].event = "removed"
                                  /\ EntryOf(j, i).after = j[m].after
<1> DEFINE e == j[i].for
           m == Max(ReferentLines(j, e))
<1>1. j[i].key = None /\ Answers(j, e)
  BY DEF Answered
<1>2. ReferentLines(j, e) # {} /\ ReferentLines(j, e) \subseteq 1..Len(j) /\ Len(j) \in Nat
  BY <1>1 DEF Answers, ReferentLines
<1>3. m \in ReferentLines(j, e)
  BY <1>2, LastLine
<1>4. m \in DOMAIN j /\ j[m].event \in ReferentKinds /\ j[m].eid = e /\ Referent(j, e) = j[m]
  BY <1>3 DEF ReferentLines, Referent
<1> HIDE DEF m
<1>5. j[m].key = e.key
  BY <1>4 DEF GoodLines, GoodLine
<1>6. j[i].event # "removed" /\ ~IsDangling(j, i)
  BY <1>2 DEF TaskBearing, IsDangling
<1>7. EntryKey(j, i) = e.key
  BY <1>1, <1>4, <1>5, <1>6 DEF EntryKey
<1>8. EntryOf(j, i) = [task |-> j[i].task, removed |-> j[m].event = "removed",
                       eid |-> e, after |-> j[m].after]
  BY <1>1, <1>4, <1>6 DEF EntryOf
<1>9. /\ EntryOf(j, i).task = j[i].task /\ EntryOf(j, i).eid = e
      /\ EntryOf(j, i).removed <=> j[m].event = "removed"
      /\ EntryOf(j, i).after = j[m].after
  <2>1. /\ EntryOf(j, i).task = j[i].task /\ EntryOf(j, i).eid = e
        /\ EntryOf(j, i).after = j[m].after
    BY <1>8
  <2>2. EntryOf(j, i).removed <=> j[m].event = "removed"
    BY <1>1, <1>4, <1>6 DEF EntryOf
  <2> QED
    BY <2>1, <2>2
<1> QED
  BY <1>4, <1>7, <1>9, Zenon

\* The lines that write an entry are receipts about the node and its removals.
LEMMA EntryLineKinds ==
    ASSUME NEW j, NEW k \in Nodes \cup Stems, NEW i \in EntryLines(j, k)
    PROVE  /\ i \in DOMAIN j
           /\ j[i].event \in TaskBearing \/ (j[i].event = "removed" /\ j[i].key = k)
BY JournalAssumption DEF EntryLines, EntryKey

\* The pairing property, of any journal of good lines.
LEMMA FoldNamesTask ==
    ASSUME NEW tr, NEW j \in Seq(Event), Answered(j), GoodLines(tr, j), LabelsTell(tr),
           NEW k \in DOMAIN Fold(j), Fold(j)[k].task # NoTask
    PROVE  /\ Fold(j)[k].task \in DOMAIN tr
           /\ tr[Fold(j)[k].task].key = k
           /\ Fold(j)[k].eid \in tr[Fold(j)[k].task].labels
<1> DEFINE i == DecidingLine(j, k)
<1>1. k \in Nodes \cup Stems /\ i \in EntryLines(j, k) /\ Fold(j)[k] = EntryOf(j, i)
  BY DecidingLineWritesEntry DEF Fold
<1> HIDE DEF i
<1>2. i \in DOMAIN j /\ EntryKey(j, i) = k
  BY <1>1 DEF EntryLines
<1>3. j[i].event # "removed"
  <2>1. j[i].event = "removed" => EntryOf(j, i).task = NoTask
    BY DEF EntryOf
  <2> QED
    BY <1>1, <2>1
<1>4. j[i].event \in TaskBearing
  BY <1>1, <1>3, EntryLineKinds
<1>5. /\ j[i].for.key = k /\ Fold(j)[k].task = j[i].task /\ Fold(j)[k].eid = j[i].for
  BY <1>1, <1>2, <1>4, ReceiptWrites
<1>6. j[i].task \in DOMAIN tr /\ j[i].for \in tr[j[i].task].labels
  BY <1>2, <1>4 DEF GoodLines, GoodLine
<1>7. tr[j[i].task].key = j[i].for.key
  BY <1>6 DEF LabelsTell
<1> QED
  BY <1>5, <1>6, <1>7

\* The last line of an entry is in its final run, whose lines share a source.
LEMMA FinalRun ==
    ASSUME NEW j \in Seq(Event), NEW k, EntryLines(j, k) # {}
    PROVE  LET all == EntryLines(j, k)
               d   == DecidingLine(j, k)
           IN  /\ Max(all) \in all /\ \A i \in all : i <= Max(all)
               /\ d \in all /\ SourceEID(j, d) = SourceEID(j, Max(all))
               /\ j[Max(all)].event \in TaskBearing => j[d].event \in TaskBearing
<1> DEFINE all == EntryLines(j, k)
           final == {i \in all : \A r \in all : r >= i => SourceEID(j, r) = SourceEID(j, Max(all))}
           rcs == {i \in final : j[i].event \in TaskBearing}
           d == DecidingLine(j, k)
<1>1. all \subseteq 1..Len(j) /\ Len(j) \in Nat
  BY DEF EntryLines
<1>2. Max(all) \in all /\ \A y \in all : Max(all) >= y
  BY <1>1, LastLine
<1>3. Max(all) \in final
  <2>1. \A r \in all : r >= Max(all) => r = Max(all)
    BY <1>1, <1>2
  <2> QED
    BY <1>2, <2>1
<1>4. d = IF rcs # {} THEN Max(rcs) ELSE Min(final)
  BY DEF DecidingLine
<1>5. final \subseteq all /\ rcs \subseteq final
  OBVIOUS
<1>6. \A i \in final : SourceEID(j, i) = SourceEID(j, Max(all))
  <2>1. \A i \in all : i >= i
    BY <1>1
  <2> QED
    BY <2>1
<1>7. \A i \in rcs : j[i].event \in TaskBearing
  OBVIOUS
<1>7a. j[Max(all)].event \in TaskBearing => Max(all) \in rcs
  BY <1>3
<1> HIDE DEF final, rcs, d
<1>8. final \subseteq Nat /\ rcs \subseteq 1..Len(j)
  BY <1>1, <1>5
<1>9. Min(final) \in final
  BY <1>3, <1>8, FirstLine
<1>10. rcs # {} => Max(rcs) \in rcs
  BY <1>1, <1>8, LastLine
<1>11. d \in final /\ (rcs # {} => d \in rcs)
  BY <1>4, <1>5, <1>9, <1>10
<1>12. \A i \in all : i <= Max(all)
  BY <1>1, <1>2
<1> QED
  BY <1>2, <1>5, <1>6, <1>7, <1>7a, <1>11, <1>12 DEF d

\* A pairing that is no tombstone came after every removal of its node.
LEMMA PairedLastWord ==
    ASSUME NEW tr, NEW j \in Seq(Event), Answered(j), GoodLines(tr, j), UniqueEIDs(j),
           Accounted(j), NEW n \in Nodes, Paired(Fold(j), n)
    PROVE  LastWord(j, n)
<1> DEFINE all == EntryLines(j, n)
           l == Max(all)
           d == DecidingLine(j, n)
<1>0. all # {} /\ Fold(j)[n] = EntryOf(j, d) /\ ~Fold(j)[n].removed
  BY DEF Paired, Fold
<1>1. /\ l \in all /\ \A i \in all : i <= l
      /\ d \in all /\ SourceEID(j, d) = SourceEID(j, l)
  BY <1>0, FinalRun
<1> HIDE DEF l, d
<1>2. d \in DOMAIN j /\ l \in DOMAIN j /\ EntryKey(j, l) = n
  BY <1>1 DEF EntryLines
<1>3. j[d].event # "removed"
  <2>1. j[d].event = "removed" => EntryOf(j, d).removed
    BY DEF EntryOf
  <2> QED
    BY <1>0, <2>1
<1>4. j[d].event \in TaskBearing
  BY <1>1, <1>3, EntryLineKinds
<1>5. PICK m \in DOMAIN j : /\ j[m].event \in ReferentKinds /\ j[m].eid = j[d].for
                            /\ EntryOf(j, d).removed <=> j[m].event = "removed"
  BY <1>2, <1>4, ReceiptWrites
<1>6. j[l].event # "removed"
  <2> SUFFICES ASSUME j[l].event = "removed" PROVE FALSE
    OBVIOUS
  <2>1. j[l].eid = j[d].for
    BY <1>1, <1>3 DEF SourceEID
  <2>2. j[l].eid # None
    BY <1>2, EIDAssumption DEF Accounted, ReferentKinds, ChangeKinds
  <2>3. l = m
    BY <1>2, <1>5, <2>1, <2>2 DEF UniqueEIDs
  <2> QED
    BY <1>0, <1>5, <2>3
<1>7. j[l].event \in TaskBearing
  BY <1>1, <1>6, EntryLineKinds
<1>8. j[l].for.key = n
  BY <1>2, <1>7, ReceiptWrites
<1>9. ASSUME NEW i \in DOMAIN j, j[i].event = "removed", j[i].key = n
      PROVE  l > i
  <2>1. EntryKey(j, i) = n
    BY <1>9 DEF EntryKey, TaskBearing
  <2>2. i \in all
    BY <2>1 DEF EntryLines
  <2>3. i <= l /\ i # l
    BY <1>1, <1>6, <1>9, <2>2
  <2> QED
    BY <1>2, <2>3
<1> QED
  BY <1>2, <1>7, <1>8, <1>9 DEF LastWord

\* A node whose removals were all followed by receipts has a task.
LEMMA NoBareTombstone ==
    ASSUME NEW tr \in Seq(Task), NEW j \in Seq(Event), Answered(j), GoodLines(tr, j),
           NEW n \in Nodes, LastWord(j, n), FoldHas(j, n)
    PROVE  Fold(j)[n].task # NoTask
<1> DEFINE all == EntryLines(j, n)
           l == Max(all)
           d == DecidingLine(j, n)
<1>0. all # {} /\ Fold(j)[n] = EntryOf(j, d)
  BY DEF FoldHas, Fold
<1>1. /\ l \in all /\ \A i \in all : i <= l /\ d \in all
      /\ j[l].event \in TaskBearing => j[d].event \in TaskBearing
  BY <1>0, FinalRun
<1> HIDE DEF l, d
<1>2. d \in DOMAIN j /\ l \in DOMAIN j
  BY <1>1 DEF EntryLines
<1>3. j[l].event \in TaskBearing
  <2> SUFFICES ASSUME j[l].event \notin TaskBearing PROVE FALSE
    OBVIOUS
  <2>1. j[l].event = "removed" /\ j[l].key = n
    BY <1>1, EntryLineKinds
  <2>2. PICK r \in DOMAIN j : r > l /\ j[r].event \in TaskBearing /\ j[r].for.key = n
    BY <1>2, <2>1 DEF LastWord
  <2>3. EntryKey(j, r) = n
    BY <2>2, ReceiptWrites
  <2>4. r \in all
    BY <2>3 DEF EntryLines
  <2>5. r <= l /\ r \in Int /\ l \in Int
    BY <1>1, <1>2, <2>4
  <2> QED
    BY <2>2, <2>5
<1>4. EntryOf(j, d).task = j[d].task
  BY <1>1, <1>2, <1>3, ReceiptWrites
<1>5. j[d].task \in DOMAIN tr
  BY <1>1, <1>2, <1>3 DEF GoodLines, GoodLine
<1> QED
  BY <1>0, <1>4, <1>5 DEF NoTask

(***************************************************************************)
(* What ties an outstanding changeset to the journal and the tracker: the  *)
(* label of an op is the id ingest will derive for it, a retarget is of    *)
(* the node's own task, the node of a closed task is not cleaned up in the *)
(* same batch, and a node to clean up is no bare tombstone.                *)
(***************************************************************************)
LinkedOp(j, tr, c, op) ==
    /\ op.act \in {"create", "cleanup", "retarget"} => op.label = DeriveEID(c.head, op.act, op.key)
    /\ op.act = "epic" => op.label = Registration(j, op.key)
    /\ op.act # "close" =>
          op.label.key = op.key /\ \A p \in c.ops : OpID(p) = OpID(op) => p = op
    /\ op.act = "retarget" => op.task \in DOMAIN tr /\ tr[op.task].key = op.key
    /\ op.act = "cleanup" => LastWord(j, op.key)
    /\ op.act = "close" =>
          op.task \in DOMAIN tr
          /\ \A p \in c.ops : p.act = "cleanup" => p.key # tr[op.task].key

\* Every op that was answered ok has a task that carries its label.
TaskAnswers(tr, c, rs) ==
    \A op \in c.ops :
        op.act # "close" /\ OpID(op) \in DOMAIN rs /\ rs[OpID(op)].status = "ok" =>
            /\ rs[OpID(op)].task \in DOMAIN tr
            /\ op.label \in tr[rs[OpID(op)].task].labels
            /\ op.act = "retarget" => rs[OpID(op)].task = op.task

Underway == phase \in {"planned", "dead", "applied"}

BatchLinked ==
    /\ proc \in {"reconcile", "refresh"} => GoodLines(tracker, batch)
    /\ proc = "reconcile" =>
          /\ \A i \in DOMAIN batch : batch[i].event # "registered"
          /\ \A op \in cs.ops : op.act = "cleanup" => LastWord(batch, op.key)

OpsLinked ==
    Underway => /\ \A op \in cs.ops : LinkedOp(journal, tracker, cs, op)
                /\ TaskAnswers(tracker, cs, results) /\ TaskAnswers(tracker, cs, receipts)

CommandsInPhase ==
    /\ proc \in {"refresh", "refreshSave"} => phase \in {"clean", "partial"}
    /\ proc # "adapter" => results = NoReceipts

LinkInv ==
    /\ GoodLines(tracker, journal) /\ LabelsTell(tracker)
    /\ BatchLinked /\ OpsLinked /\ CommandsInPhase

\* The id a stem's registration resolves to is a registered one, and tells the stem.
LEMMA RegistrationTells ==
    ASSUME NEW tr, NEW j \in Seq(Event), GoodLines(tr, j), NEW stem, Registration(j, stem) # None
    PROVE  /\ Registration(j, stem).src = "registered"
           /\ Registration(j, stem).key = stem
<1> DEFINE regs == {i \in DOMAIN j : j[i].event = "registered" /\ j[i].key = stem}
           m == Max(regs)
<1>1. regs # {} /\ Registration(j, stem) = j[m].eid
  BY DEF Registration
<1>2. regs \subseteq 1..Len(j) /\ Len(j) \in Nat
  OBVIOUS
<1>3. m \in regs
  <2> HIDE DEF regs
  <2> QED
    BY <1>1, <1>2, LastLine
<1>4. m \in DOMAIN j /\ j[m].event = "registered" /\ j[m].key = stem
  BY <1>3
<1> HIDE DEF m, regs
<1> QED
  BY <1>1, <1>4 DEF GoodLines, GoodLine, ReferentKinds

\* Plan ties every op it writes.
LEMMA PlanLinksOps ==
    ASSUME NEW j \in Seq(Event), tracker \in Seq(Task), Answered(j), UniqueEIDs(j), Accounted(j),
           GoodLines(tracker, j), LabelsTell(tracker),
           NEW cur, NEW edges0, NEW head0, NEW stem, NEW changes \in SUBSET Nodes,
           ~PlanRefused(j, cur, edges0, ExportTasks, stem, changes),
           NEW c, c.head = head0,
           c.ops = BuildOps(j, cur, edges0, ExportTasks, head0, stem, changes),
           NEW op \in c.ops
    PROVE  LinkedOp(j, tracker, c, op)
<1> DEFINE fold == Fold(j)
           creates == ToCreate(changes, cur, edges0, fold, ExportTasks)
           cleanups == ToCleanUp(changes, cur, fold, ExportTasks)
           retargets == ToRetarget(changes, cur, edges0, fold, ExportTasks)
           closes == ToClose(changes, cur, edges0, fold, ExportTasks)
           ids == CreateIDs(creates, cleanups)
           createOp(n) == CreateOp(fold, ExportTasks, head0, stem, ids,
                                   LayerEdges(creates, cleanups, n),
                                   CreateDeps(changes, cur, edges0, n), n)
           cleanupOp(n) == CleanupOp(fold, head0, stem, ids, LayerEdges(creates, cleanups, n),
                                     {fold[m].task : m \in retargets}, n)
           retargetOp(n) == RetargetOp(fold, cur, edges0, ExportTasks, head0, ids, n)
           closeOp(n) == CloseOp(fold, cur, n)
           epic == IF NeedsEpic(fold, stem) THEN {EpicOp(j, stem)} ELSE {}
           ops == c.ops
<1>1. ops = epic \cup {createOp(n) : n \in creates} \cup {cleanupOp(n) : n \in cleanups}
              \cup {retargetOp(n) : n \in retargets} \cup {closeOp(n) : n \in closes}
  BY DEF BuildOps
<1>2. /\ \A n \in cleanups \cup retargets \cup closes : n \in Nodes /\ Paired(fold, n)
      /\ \A n \in retargets \cup closes : Status(ExportTasks, fold[n].task) = "open"
      /\ \A n \in cleanups : Status(ExportTasks, fold[n].task) = "absent"
  BY DEF ToCleanUp, ToRetarget, ToClose, Tracked, FoldedBack, Matched, Orphaned
<1>3. \A n \in retargets \cup closes :
         fold[n].task \in DOMAIN tracker /\ tracker[fold[n].task].key = n
  <2>1. TAKE n \in retargets \cup closes
  <2>2. fold[n].task \in DOMAIN tracker
    BY <1>2 DEF Status, ExportTasks
  <2>3. fold[n].task # NoTask /\ n \in DOMAIN fold
    BY <1>2, <2>2 DEF NoTask, Paired
  <2> QED
    BY <2>2, <2>3, FoldNamesTask
<1>4. \A n \in cleanups : LastWord(j, n) /\ ~fold[n].removed
  BY <1>2, PairedLastWord DEF Paired
<1>5. NeedsEpic(fold, stem) => Registration(j, stem) # None
  BY DEF PlanRefused
<1>6. NeedsEpic(fold, stem) => Registration(j, stem).key = stem
  BY <1>5, RegistrationTells
<1>7. \A act, key : DeriveEID(head0, act, key).key = key
  BY DEF DeriveEID
<1> HIDE DEF fold, creates, cleanups, retargets, closes, ids
<1>8. /\ \A n : /\ createOp(n).act = "create" /\ createOp(n).key = n
                /\ createOp(n).label = DeriveEID(head0, "create", n)
                /\ cleanupOp(n).act = "cleanup" /\ cleanupOp(n).key = n
                /\ ~fold[n].removed => cleanupOp(n).label = DeriveEID(head0, "cleanup", n)
                /\ retargetOp(n).act = "retarget" /\ retargetOp(n).key = n
                /\ retargetOp(n).task = fold[n].task
                /\ retargetOp(n).label = DeriveEID(head0, "retarget", n)
                /\ closeOp(n).act = "close" /\ closeOp(n).task = fold[n].task
      /\ \A o \in epic : /\ NeedsEpic(fold, stem) /\ o = EpicOp(j, stem)
                         /\ o.act = "epic" /\ o.key = stem /\ o.label = Registration(j, stem)
  BY DEF CreateOp, CleanupOp, RetargetOp, CloseOp, EpicOp
<1> HIDE DEF createOp, cleanupOp, retargetOp, closeOp, epic, ops
<1>9. ASSUME op.act # "close", NEW p \in ops, OpID(p) = OpID(op)
      PROVE  p = op
  <2>1. p.act = op.act /\ p.key = op.key /\ op \in ops
    BY <1>9 DEF OpID, ops
  <2> QED
    BY <1>1, <1>8, <1>9, <2>1
<1>10. CASE op \in epic
  BY <1>6, <1>8, <1>9, <1>10 DEF LinkedOp, ops
<1>11. ASSUME NEW n \in creates, op = createOp(n) PROVE LinkedOp(j, tracker, c, op)
  BY <1>7, <1>8, <1>9, <1>11 DEF LinkedOp, ops
<1>12. ASSUME NEW n \in cleanups, op = cleanupOp(n) PROVE LinkedOp(j, tracker, c, op)
  BY <1>4, <1>7, <1>8, <1>9, <1>12 DEF LinkedOp, ops
<1>13. ASSUME NEW n \in retargets, op = retargetOp(n) PROVE LinkedOp(j, tracker, c, op)
  BY <1>3, <1>7, <1>8, <1>9, <1>13 DEF LinkedOp, ops
<1>14. ASSUME NEW n \in closes, op = closeOp(n) PROVE LinkedOp(j, tracker, c, op)
  <2>1. op.task \in DOMAIN tracker /\ tracker[op.task].key = n /\ op.act = "close"
    BY <1>3, <1>8, <1>14
  <2>2. ASSUME NEW p \in ops, p.act = "cleanup" PROVE p.key # n
    <3>1. PICK m \in cleanups : p = cleanupOp(m)
      BY <1>1, <1>8, <2>2
    <3>2. p.key = m
      BY <1>8, <3>1
    <3> QED
      BY <1>2, <3>2
  <2> QED
    BY <2>1, <2>2 DEF LinkedOp, ops
<1> QED
  BY <1>1, <1>10, <1>11, <1>12, <1>13, <1>14 DEF ops

-----------------------------------------------------------------------------
(* Every step keeps the links. *)

\* Tasks are never dropped or re-keyed, and labels never taken off.
LEMMA TrackerGrows ==
    ASSUME TypeInv, [Next]_vars
    PROVE  Grown(tracker, tracker')
<1>t. tracker \in Seq(Task)
  BY DEF TypeInv, TypeOK
<1>1. CASE UNCHANGED tracker
  BY <1>1 DEF Grown
<1>2. ASSUME NEW u \in DOMAIN tracker, NEW task, tracker' = [tracker EXCEPT ![u] = task],
             task.key = tracker[u].key, tracker[u].labels \subseteq task.labels
      PROVE  Grown(tracker, tracker')
  BY <1>t, <1>2 DEF Grown
<1>3. CASE WorkStep
  <2>1. PICK u \in DOMAIN tracker :
          \/ tracker' = [tracker EXCEPT ![u] = [@ EXCEPT !.status = "in_progress"]]
          \/ tracker' = [tracker EXCEPT ![u] = [@ EXCEPT !.status = "closed", !.built = tracker[u].labels]]
    BY <1>3 DEF WorkStep
  <2> DEFINE x == [tracker[u] EXCEPT !.status = "in_progress"]
             y == [tracker[u] EXCEPT !.status = "closed", !.built = tracker[u].labels]
  <2>2. /\ x.key = tracker[u].key /\ x.labels = tracker[u].labels
        /\ y.key = tracker[u].key /\ y.labels = tracker[u].labels
    BY <1>t DEF Task
  <2>3. tracker' = [tracker EXCEPT ![u] = x] \/ tracker' = [tracker EXCEPT ![u] = y]
    BY <2>1
  <2> HIDE DEF x, y
  <2> QED
    BY <1>2, <2>2, <2>3
<1>4. ASSUME NEW op \in cs.ops, CreateStep(op) PROVE Grown(tracker, tracker')
  <2> DEFINE task == NewTask(op)
  <2>1. tracker' = Append(tracker, task)
    BY <1>4 DEF CreateStep
  <2> HIDE DEF task
  <2>2. \A t \in DOMAIN tracker : t \in DOMAIN tracker' /\ tracker'[t] = tracker[t]
    BY <1>t, <2>1
  <2> QED
    BY <2>2 DEF Grown
<1>5. ASSUME NEW op \in cs.ops, RetargetStep(op) PROVE Grown(tracker, tracker')
  <2>1. PICK D : tracker' = [tracker EXCEPT ![op.task] = Retargeted(@, op, D)]
    BY <1>5 DEF RetargetStep
  <2>2. CASE op.task \notin DOMAIN tracker
    <3>1. tracker' = tracker
      BY <1>t, <2>1, <2>2
    <3> QED
      BY <1>1, <3>1
  <2>3. CASE op.task \in DOMAIN tracker
    <3> DEFINE x == Retargeted(tracker[op.task], op, D)
    <3>1. x.key = tracker[op.task].key /\ tracker[op.task].labels \subseteq x.labels
      BY <1>t, <2>3 DEF Retargeted, Task
    <3>2. tracker' = [tracker EXCEPT ![op.task] = x]
      BY <2>1
    <3> HIDE DEF x
    <3> QED
      BY <1>2, <2>3, <3>1, <3>2
  <2> QED
    BY <2>2, <2>3
<1>6. ASSUME NEW op \in cs.ops, CloseStep(op) PROVE Grown(tracker, tracker')
  <2>2. CASE op.task \notin DOMAIN tracker
    <3>1. tracker' = tracker
      BY <1>t, <1>6, <2>2 DEF CloseStep
    <3> QED
      BY <1>1, <3>1
  <2>3. CASE op.task \in DOMAIN tracker
    <3> DEFINE x == [tracker[op.task] EXCEPT !.status = "closed"]
    <3>1. x.key = tracker[op.task].key /\ tracker[op.task].labels = x.labels
      BY <1>t, <2>3 DEF Task
    <3>2. tracker' = [tracker EXCEPT ![op.task] = x]
      BY <1>6 DEF CloseStep
    <3> HIDE DEF x
    <3> QED
      BY <1>2, <2>3, <3>1, <3>2
  <2> QED
    BY <2>2, <2>3
<1> QED
  BY <1>1, <1>3, <1>4, <1>5, <1>6, TrackerSteps DEF TrackerStep

\* The labels of a task keep telling its key.
LEMMA LabelsKeepTelling ==
    ASSUME TypeInv, LinkInv, [Next]_vars
    PROVE  LabelsTell(tracker')
<1>t. tracker \in Seq(Task) /\ LabelsTell(tracker)
  BY DEF TypeInv, TypeOK, LinkInv
<1>1. CASE UNCHANGED tracker
  BY <1>t, <1>1
<1>2. ASSUME NEW u, NEW task, tracker' = [tracker EXCEPT ![u] = task],
             u \in DOMAIN tracker => \A e \in task.labels : e.key = task.key
      PROVE  LabelsTell(tracker')
  <2>1. \A t \in DOMAIN tracker' :
           (t = u /\ t \in DOMAIN tracker /\ tracker'[t] = task)
           \/ (t \in DOMAIN tracker /\ tracker'[t] = tracker[t])
    BY <1>t, <1>2
  <2> QED
    BY <1>2, <1>t, <2>1 DEF LabelsTell
<1>3. CASE WorkStep
  <2>1. PICK u \in DOMAIN tracker :
          \/ tracker' = [tracker EXCEPT ![u] = [@ EXCEPT !.status = "in_progress"]]
          \/ tracker' = [tracker EXCEPT ![u] = [@ EXCEPT !.status = "closed", !.built = tracker[u].labels]]
    BY <1>3 DEF WorkStep
  <2> DEFINE x == [tracker[u] EXCEPT !.status = "in_progress"]
             y == [tracker[u] EXCEPT !.status = "closed", !.built = tracker[u].labels]
  <2>2. /\ x.key = tracker[u].key /\ x.labels = tracker[u].labels
        /\ y.key = tracker[u].key /\ y.labels = tracker[u].labels
    BY <1>t DEF Task
  <2>3. tracker' = [tracker EXCEPT ![u] = x] \/ tracker' = [tracker EXCEPT ![u] = y]
    BY <2>1
  <2> HIDE DEF x, y
  <2>4. (\A e \in x.labels : e.key = x.key) /\ (\A e \in y.labels : e.key = y.key)
    BY <1>t, <2>2 DEF LabelsTell
  <2> QED
    BY <1>2, <2>3, <2>4
<1>4. ASSUME proc = "adapter", NEW op \in cs.ops
      PROVE  LinkedOp(journal, tracker, cs, op)
  BY <1>4 DEF TypeInv, CommandsHaveInput, LinkInv, OpsLinked, Underway
<1>5. ASSUME proc = "adapter", NEW op \in cs.ops, CreateStep(op) PROVE LabelsTell(tracker')
  <2> DEFINE task == NewTask(op)
  <2>1. op.act # "close"
    BY <1>5 DEF CreateStep, IsCreate
  <2>2. task.labels = {op.label} /\ task.key = op.key /\ op.label.key = op.key
    BY <1>4, <1>5, <2>1 DEF NewTask, LinkedOp
  <2>3. tracker' = Append(tracker, task)
    BY <1>5 DEF CreateStep
  <2> HIDE DEF task
  <2>4. \A t \in DOMAIN tracker' :
           tracker'[t] = task \/ (t \in DOMAIN tracker /\ tracker'[t] = tracker[t])
    BY <1>t, <2>3
  <2> QED
    BY <1>t, <2>2, <2>4 DEF LabelsTell
<1>6. ASSUME proc = "adapter", NEW op \in cs.ops, RetargetStep(op) PROVE LabelsTell(tracker')
  <2>1. PICK D : tracker' = [tracker EXCEPT ![op.task] = Retargeted(@, op, D)]
    BY <1>6 DEF RetargetStep
  <2>2. /\ op.task \in DOMAIN tracker /\ tracker[op.task].key = op.key
        /\ op.label.key = op.key
    BY <1>4, <1>6 DEF RetargetStep, LinkedOp
  <2> DEFINE x == Retargeted(tracker[op.task], op, D)
  <2>3. x.key = op.key /\ x.labels = tracker[op.task].labels \cup {op.label}
    BY <1>t, <2>2 DEF Retargeted, Task
  <2>4. tracker' = [tracker EXCEPT ![op.task] = x]
    BY <2>1
  <2> HIDE DEF x
  <2>5. \A e \in x.labels : e.key = x.key
    BY <1>t, <2>2, <2>3 DEF LabelsTell
  <2> QED
    BY <1>2, <2>4, <2>5
<1>7. ASSUME NEW op \in cs.ops, CloseStep(op) PROVE LabelsTell(tracker')
  <2> DEFINE x == [tracker[op.task] EXCEPT !.status = "closed"]
  <2>1. op.task \in DOMAIN tracker =>
           x.key = tracker[op.task].key /\ x.labels = tracker[op.task].labels
    BY <1>t DEF Task
  <2>2. tracker' = [tracker EXCEPT ![op.task] = x]
    BY <1>7 DEF CloseStep
  <2> HIDE DEF x
  <2>3. op.task \in DOMAIN tracker => \A e \in x.labels : e.key = x.key
    BY <1>t, <2>1 DEF LabelsTell
  <2> QED
    BY <1>2, <2>2, <2>3
<1> QED
  BY <1>1, <1>3, <1>5, <1>6, <1>7, TrackerSteps DEF TrackerStep

\* The lines the event builder makes for a tied op are good, register nothing,
\* and leave no bare tombstone for a node to clean up.
LEMMA BuiltLinesGood ==
    ASSUME NEW tr \in Seq(Task), NEW j \in Seq(Event), NEW b \in Seq(Event), Answered(j),
           GoodLines(tr, j), LabelsTell(tr), NEW cur \in [Nodes -> MaybeHash],
           NEW c, c.head \in Nat, \A p \in c.ops : CompleteOp(p),
           NEW op \in c.ops, LinkedOp(j, tr, c, op), ~OpRefused(j, b, cur, c.head, op),
           NEW t, op.act # "close" => /\ t \in DOMAIN tr /\ op.label \in tr[t].labels
                                      /\ op.act = "retarget" => t = op.task
    PROVE  /\ GoodLines(tr, BuildOp(j, b, cur, c.head, op, t))
           /\ \A i \in DOMAIN BuildOp(j, b, cur, c.head, op, t) :
                 BuildOp(j, b, cur, c.head, op, t)[i].event # "registered"
           /\ \A p \in c.ops : p.act = "cleanup" =>
                 LastWord(BuildOp(j, b, cur, c.head, op, t), p.key)
<1> DEFINE lines == BuildOp(j, b, cur, c.head, op, t)
           Fine(s) == /\ GoodLines(tr, s)
                      /\ \A i \in DOMAIN s : s[i].event # "registered"
                      /\ \A p \in c.ops : p.act = "cleanup" => LastWord(s, p.key)
<1>1. \A kind, eid, n, before, after : LET ev == ChangeEvent(kind, eid, n, before, after) IN
         ev.event = kind /\ ev.eid = eid /\ ev.key = n
  BY DEF ChangeEvent
<1>2. \A kind, for, task : LET rc == TaskReceipt(kind, for, task) IN
         rc.event = kind /\ rc.key = None /\ rc.for = for /\ rc.task = task
  BY DEF TaskReceipt
<1>3. op \in Op /\ op.act \in OpActs /\ CompleteOp(op)
  BY DEF CompleteOp, Op
<1>d. \A act, key : DeriveEID(c.head, act, key).src = act /\ DeriveEID(c.head, act, key).key = key
  BY DEF DeriveEID
<1>n. Fine(<<>>)
  BY DEF GoodLines, LastWord
<1>p. ASSUME NEW ev, NEW rc, ev.event \in ChangeKinds, rc.event \in ReceiptKinds,
             ev.eid.src # "close" => ev.eid.key = ev.key,
             rc.event \in TaskBearing =>
                 /\ rc.for.src # "close" /\ rc.task \in DOMAIN tr /\ rc.for \in tr[rc.task].labels,
             ev.event = "removed" =>
                 \/ rc.event \in TaskBearing /\ rc.for.key = ev.key
                 \/ \A p \in c.ops : p.act = "cleanup" => p.key # ev.key
      PROVE  Fine(<<ev, rc>>)
  <2> DEFINE s == <<ev, rc>>
  <2>1. DOMAIN s = {1, 2} /\ s[1] = ev /\ s[2] = rc
    OBVIOUS
  <2>2. GoodLine(tr, ev) /\ GoodLine(tr, rc) /\ ev.event # "registered" /\ rc.event # "registered"
        /\ rc.event # "removed"
    BY <1>p DEF GoodLine, ChangeKinds, ReceiptKinds, TaskBearing, ReferentKinds
  <2> HIDE DEF s
  <2>3. GoodLines(tr, s) /\ \A i \in DOMAIN s : s[i].event # "registered"
    BY <2>1, <2>2 DEF GoodLines
  <2>4. ASSUME NEW p \in c.ops, p.act = "cleanup" PROVE LastWord(s, p.key)
    <3> SUFFICES ASSUME NEW i \in DOMAIN s, s[i].event = "removed", s[i].key = p.key
                 PROVE  \E r \in DOMAIN s : r > i /\ s[r].event \in TaskBearing /\ s[r].for.key = p.key
      BY DEF LastWord
    <3>1. i = 1 /\ ev.event = "removed" /\ ev.key = p.key
      BY <2>1, <2>2
    <3>2. rc.event \in TaskBearing /\ rc.for.key = p.key
      BY <1>p, <2>4, <3>1
    <3>3. 2 > i
      BY <3>1
    <3> QED
      BY <2>1, <3>2, <3>3
  <2> QED
    BY <2>3, <2>4 DEF s
<1>s. ASSUME NEW rc, rc.event \in TaskBearing, rc.for.src # "close",
             rc.task \in DOMAIN tr /\ rc.for \in tr[rc.task].labels
      PROVE  Fine(<<rc>>)
  <2> DEFINE s == <<rc>>
  <2>1. DOMAIN s = {1} /\ s[1] = rc
    OBVIOUS
  <2>2. GoodLine(tr, rc) /\ rc.event # "registered" /\ rc.event # "removed"
    BY <1>s DEF GoodLine, TaskBearing, ReferentKinds, ChangeKinds
  <2> HIDE DEF s
  <2>3. Fine(s)
    BY <2>1, <2>2 DEF GoodLines, LastWord
  <2> QED
    BY <2>3 DEF s
<1>k. /\ {"added", "modified", "removed"} \subseteq ChangeKinds
      /\ {"task_created", "task_retargeted"} \subseteq TaskBearing
      /\ TaskBearing \cup {"task_closed"} \subseteq ReceiptKinds /\ "task_closed" \notin TaskBearing
  BY DEF ChangeKinds, TaskBearing, ReceiptKinds
<1> HIDE DEF Fine
<1>4. CASE op.act = "epic"
  <2>1. lines = <<TaskReceipt("task_created", Registration(j, op.key), t)>> \/ lines = <<>>
    BY <1>4 DEF BuildOp, BuildEpicCreate
  <2>2. lines # <<>> => ~FoldHas(j, op.key)
    BY <1>4 DEF BuildOp, BuildEpicCreate
  <2>3. lines # <<>> => Registration(j, op.key) # None
    BY <1>4, <2>2 DEF OpRefused
  <2>4. lines # <<>> => Registration(j, op.key).src # "close"
    BY <2>3, RegistrationTells
  <2>5. op.label = Registration(j, op.key)
    BY <1>4 DEF LinkedOp
  <2>6. lines # <<>> => Fine(<<TaskReceipt("task_created", Registration(j, op.key), t)>>)
    <3> DEFINE rc == TaskReceipt("task_created", Registration(j, op.key), t)
    <3>1. rc.event = "task_created" /\ rc.for = Registration(j, op.key) /\ rc.task = t
      BY <1>2
    <3> HIDE DEF rc
    <3>2. lines # <<>> => Fine(<<rc>>)
      BY <1>4, <1>k, <1>s, <2>4, <2>5, <3>1
    <3> QED
      BY <3>2 DEF rc
  <2>7. Fine(lines)
    BY <1>n, <2>1, <2>6
  <2> QED
    BY <2>7 DEF Fine
<1>5. CASE op.act = "create"
  <2> DEFINE eid == DeriveEID(c.head, "create", op.key)
             prior == PriorHash(j, op.key)
             ev == ChangeEvent(IF prior = None THEN "added" ELSE "modified",
                               eid, op.key, prior, cur[op.key])
             rc == TaskReceipt("task_created", eid, t)
  <2>1. lines = <<ev, rc>> \/ lines = <<>>
    BY <1>5 DEF BuildOp, BuildNodeCreate
  <2>2. /\ ev.event \in {"added", "modified"} /\ ev.eid = eid /\ ev.key = op.key
        /\ rc.event = "task_created" /\ rc.for = eid /\ rc.task = t
    BY <1>1, <1>2
  <2>3. eid = op.label /\ eid.src = "create" /\ eid.key = op.key
    BY <1>5, <1>d DEF LinkedOp
  <2> HIDE DEF ev, rc, eid
  <2>4. Fine(<<ev, rc>>)
    BY <1>5, <1>k, <1>p, <2>2, <2>3
  <2>5. Fine(lines)
    BY <1>n, <2>1, <2>4
  <2> QED
    BY <2>5 DEF Fine
<1>6. CASE op.act = "cleanup"
  <2>1. op.key \in Nodes /\ FoldHas(j, op.key) /\ LastWord(j, op.key)
    BY <1>3, <1>6 DEF CompleteOp, OpRefused, LinkedOp
  <2> DEFINE entry == Fold(j)[op.key]
             eid == DeriveEID(c.head, "cleanup", op.key)
             ev == ChangeEvent("removed", eid, op.key, entry.after, None)
             rc == TaskReceipt("task_created", eid, t)
  <2>2. entry.task # NoTask
    BY <2>1, NoBareTombstone
  <2>3. lines = <<ev, rc>> \/ lines = <<>>
    BY <1>6, <2>2 DEF BuildOp, BuildCleanupCreate
  <2>4. /\ ev.event = "removed" /\ ev.eid = eid /\ ev.key = op.key
        /\ rc.event = "task_created" /\ rc.for = eid /\ rc.task = t
    BY <1>1, <1>2
  <2>5. eid = op.label /\ eid.src = "cleanup" /\ eid.key = op.key
    BY <1>6, <1>d DEF LinkedOp
  <2> HIDE DEF ev, rc, eid
  <2>6. Fine(<<ev, rc>>)
    BY <1>6, <1>k, <1>p, <2>4, <2>5
  <2>7. Fine(lines)
    BY <1>n, <2>3, <2>6
  <2> QED
    BY <2>7 DEF Fine
<1>7. CASE op.act = "retarget"
  <2> DEFINE eid == DeriveEID(c.head, "retarget", op.key)
             ev == ChangeEvent("modified", eid, op.key, PriorHash(j, op.key), op.hash)
             rc == TaskReceipt("task_retargeted", eid, op.task)
  <2>1. lines = <<ev, rc>> \/ lines = <<>>
    BY <1>7 DEF BuildOp, BuildRetarget
  <2>2. /\ ev.event = "modified" /\ ev.eid = eid /\ ev.key = op.key
        /\ rc.event = "task_retargeted" /\ rc.for = eid /\ rc.task = op.task
    BY <1>1, <1>2
  <2>3. eid = op.label /\ eid.src = "retarget" /\ eid.key = op.key
    BY <1>7, <1>d DEF LinkedOp
  <2> HIDE DEF ev, rc, eid
  <2>4. Fine(<<ev, rc>>)
    BY <1>7, <1>k, <1>p, <2>2, <2>3
  <2>5. Fine(lines)
    BY <1>n, <2>1, <2>4
  <2> QED
    BY <2>5 DEF Fine
<1>8. CASE op.act = "close"
  <2> DEFINE eid == DeriveEID(c.head, "close", op.key)
             n == ClosedNode(j, op)
             ev == IF op.why = "removed"
                   THEN ChangeEvent("removed", eid, n, Fold(j)[n].after, None)
                   ELSE ChangeEvent("modified", eid, n, Fold(j)[n].after, cur[n])
             rc == TaskReceipt("task_closed", eid, t)
  <2>1. lines = <<ev, rc>> \/ lines = <<>>
    BY <1>8 DEF BuildOp, BuildClose
  <2>2. lines # <<>> => EntriesByTask(j, op.task) # {}
    BY <1>8 DEF BuildOp, BuildClose, OpRefused
  <2>3. /\ ev.event \in {"removed", "modified"} /\ ev.eid = eid /\ ev.key = n
        /\ rc.event = "task_closed"
    BY <1>1, <1>2
  <2>4. eid.src = "close"
    BY <1>d
  <2>5. op.task \in DOMAIN tr /\ \A p \in c.ops : p.act = "cleanup" => p.key # tr[op.task].key
    BY <1>8 DEF LinkedOp
  <2>6. lines # <<>> => tr[op.task].key = n
    <3> SUFFICES ASSUME lines # <<>> PROVE tr[op.task].key = n
      OBVIOUS
    <3>1. n \in EntriesByTask(j, op.task)
      BY <2>2 DEF ClosedNode
    <3> HIDE DEF n
    <3>2. n \in DOMAIN Fold(j) /\ Fold(j)[n].task = op.task /\ op.task # NoTask
      BY <2>5, <3>1 DEF EntriesByTask, NoTask
    <3> QED
      BY <3>2, FoldNamesTask
  <2> HIDE DEF ev, rc, eid, n
  <2>7. lines # <<>> => Fine(<<ev, rc>>)
    BY <1>8, <1>k, <1>p, <2>3, <2>4, <2>5, <2>6
  <2>8. Fine(lines)
    BY <1>n, <2>1, <2>7
  <2> QED
    BY <2>8 DEF Fine
<1> QED
  BY <1>3, <1>4, <1>5, <1>6, <1>7, <1>8 DEF OpActs

\* An absorbed or refreshed node's event is a good line, whatever the tracker.
LEMMA DriftLinesGood ==
    ASSUME NEW tr, NEW kind \in ChangeKinds, NEW eid, NEW n, NEW before, NEW after, eid.key = n
    PROVE  GoodLine(tr, ChangeEvent(kind, eid, n, before, after))
BY DEF GoodLine, ChangeEvent, ChangeKinds, TaskBearing

\* One turn of the refresh loop keeps the batch good.
LEMMA RefreshedGood ==
    ASSUME TypeInv, NEW n \in Nodes, RefreshEntry(n), GoodLines(tracker, batch)
    PROVE  GoodLines(tracker, batch')
<1>1. CASE batch' = batch
  BY <1>1
<1>2. ASSUME NEW nth, batch' = Append(batch, RefreshLine(spec, snapshot, n, nth))
      PROVE  GoodLines(tracker, batch')
  <2> DEFINE line == RefreshLine(spec, snapshot, n, nth)
  <2>1. GoodLine(tracker, line)
    <3>1. RefreshEID(n, snapshot[n], spec[n], nth).key = n
      BY DEF RefreshEID, DeriveRefreshEID
    <3>2. ChangeType(spec, snapshot, n) \in ChangeKinds
      BY DEF ChangeType, ChangeKinds
    <3> QED
      BY <3>1, <3>2, DriftLinesGood DEF RefreshLine
  <2>2. batch' = Append(batch, line) /\ batch \in Seq(Event)
    BY <1>2 DEF TypeInv, TypeOK
  <2> HIDE DEF line
  <2>3. \A i \in DOMAIN Append(batch, line) :
           \/ i = Len(batch) + 1 /\ Append(batch, line)[i] = line
           \/ i \in DOMAIN batch /\ Append(batch, line)[i] = batch[i]
    BY <2>2, AppendedLine
  <2>4. \A i \in DOMAIN batch' : batch'[i] = line \/ (i \in DOMAIN batch /\ batch'[i] = batch[i])
    BY <2>2, <2>3, Zenon
  <2> QED
    BY <2>1, <2>4 DEF GoodLines
<1> QED
  BY <1>1, <1>2 DEF RefreshEntry

\* A refresh receipt is a good line, and adds no registration and no removal.
LEMMA ReceiptAppendedGood ==
    ASSUME NEW tr, NEW s \in Seq(Event), GoodLines(tr, s), NEW E
    PROVE  /\ GoodLines(tr, Append(s, RefreshReceipt(E)))
           /\ (\A i \in DOMAIN s : s[i].event # "registered") =>
                 \A i \in DOMAIN Append(s, RefreshReceipt(E)) :
                     Append(s, RefreshReceipt(E))[i].event # "registered"
           /\ \A n : LastWord(s, n) => LastWord(Append(s, RefreshReceipt(E)), n)
<1> DEFINE rc == RefreshReceipt(E)
           c == Append(s, rc)
<1>1. rc.event = "refresh"
  BY DEF RefreshReceipt
<1> HIDE DEF rc
<1>2. /\ \A i \in DOMAIN c : c[i] = rc \/ (i \in DOMAIN s /\ c[i] = s[i])
      /\ \A i \in DOMAIN s : i \in DOMAIN c /\ c[i] = s[i]
  <2>1. /\ \A i \in DOMAIN c : (i = Len(s) + 1 /\ c[i] = rc) \/ (i \in DOMAIN s /\ c[i] = s[i])
        /\ \A i \in DOMAIN s : i \in DOMAIN c /\ i # Len(s) + 1 /\ c[i] = s[i]
    BY AppendedLine
  <2> QED
    BY <2>1, Zenon
<1>3. GoodLine(tr, rc)
  BY <1>1 DEF GoodLine, ReferentKinds, ChangeKinds, TaskBearing
<1> HIDE DEF c
<1>4. GoodLines(tr, c)
  BY <1>2, <1>3 DEF GoodLines
<1>5. (\A i \in DOMAIN s : s[i].event # "registered") => \A i \in DOMAIN c : c[i].event # "registered"
  BY <1>1, <1>2
<1>6. ASSUME NEW n, LastWord(s, n) PROVE LastWord(c, n)
  BY <1>1, <1>2, <1>6 DEF LastWord
<1> QED
  BY <1>4, <1>5, <1>6 DEF c, rc

\* Journal lines and batch lines stay good.
LEMMA LinesStayLinked ==
    ASSUME TypeInv, IDInv, AccountInv, WorkInv, LinkInv, [Next]_vars
    PROVE  GoodLines(tracker', journal') /\ BatchLinked'
<1> USE DEF specVars, journalVars, runVars, memVars
<1>t. journal \in Seq(Event) /\ batch \in Seq(Event) /\ tracker \in Seq(Task)
  BY DEF TypeInv, TypeOK
<1>g. GoodLines(tracker, journal) /\ LabelsTell(tracker) /\ Answered(journal)
  BY DEF LinkInv, WorkInv
<1>h. \A s : GoodLines(tracker, s) => GoodLines(tracker', s)
  BY TrackerGrows, GoodLinesGrow
<1>e. GoodLines(tracker', <<>>) /\ \A n : LastWord(<<>>, n)
  BY DEF GoodLines, LastWord
<1>r. proc' = "reconcile" => UNCHANGED cs \/ batch' = <<>>
  BY ChangesetSteps DEF Planning, Plan, IDInv, BatchIsNew
<1>1. CASE QuietStep
  <2>1. GoodLines(tracker', journal')
    BY <1>1, <1>g, <1>h DEF QuietStep
  <2>2. CASE UNCHANGED <<batch, proc>>
    <3>1. proc \in {"reconcile", "refresh"} => GoodLines(tracker', batch')
      BY <1>h, <2>2 DEF LinkInv, BatchLinked
    <3>2. CASE batch' = <<>>
      BY <1>e, <2>1, <3>2 DEF BatchLinked
    <3>3. CASE UNCHANGED cs
      <4>1. proc = "reconcile" =>
              /\ \A i \in DOMAIN batch : batch[i].event # "registered"
              /\ \A op \in cs.ops : op.act = "cleanup" => LastWord(batch, op.key)
        BY DEF LinkInv, BatchLinked
      <4>2. batch' = batch /\ proc' = proc /\ cs' = cs
        BY <2>2, <3>3
      <4>3. BatchLinked'
        BY <3>1, <4>1, <4>2 DEF BatchLinked
      <4> QED
        BY <2>1, <4>3
    <3>4. CASE proc' # "reconcile"
      BY <2>1, <2>2, <3>1, <3>4 DEF BatchLinked
    <3> QED
      BY <1>r, <3>2, <3>3, <3>4
  <2>3. CASE batch' = <<>>
    BY <1>e, <2>1, <2>3 DEF BatchLinked
  <2> QED
    BY <1>1, <2>1, <2>2, <2>3 DEF QuietStep
<1>2. CASE RegisterStep
  <2>1. PICK stem \in Stems : journal' = Append(journal, RegisteredEvent(head, stem))
    BY <1>2 DEF RegisterStep
  <2> DEFINE line == RegisteredEvent(head, stem)
  <2>2. line \in Event /\ GoodLine(tracker, line)
    BY DeriveEIDTyped, JournalAssumption
    DEF TypeInv, TypeOK, RegisteredEvent, RegisteredEID, DeriveEID, Event, EventKinds,
        ReferentKinds, EIDSources, MaybeHash, NoTask, GoodLine, TaskBearing
  <2> HIDE DEF line
  <2>3. journal' = journal \o <<line>> /\ <<line>> \in Seq(Event)
    BY <1>t, <2>1, <2>2 DEF line
  <2>4. GoodLines(tracker, <<line>>)
    BY <2>2 DEF GoodLines
  <2>5. GoodLines(tracker, journal')
    BY <1>g, <1>t, <2>3, <2>4, GoodLinesConcat
  <2>6. proc' = "idle"
    BY <1>2 DEF RegisterStep
  <2> QED
    BY <1>h, <2>5, <2>6 DEF BatchLinked
<1>3. CASE proc = "reconcile" /\ ReconcileStep
  <2>1. /\ cs \in Changeset /\ \A op \in cs.ops : CompleteOp(op)
        /\ spec \in [Nodes -> MaybeHash] /\ cs.head \in Nat /\ cs.absorbed \subseteq AbsorbedEntry
        /\ Underway /\ DOMAIN receipts = {OpID(op) : op \in cs.ops}
    BY <1>3 DEF TypeInv, CommandsHaveInput, Outstanding, TypeOK, Specs, Changeset, Underway
  <2>2. UNCHANGED <<journal, proc, cs, tracker>>
    BY <1>3, ReconciledLines
  <2>3. /\ GoodLines(tracker, batch) /\ \A i \in DOMAIN batch : batch[i].event # "registered"
        /\ \A op \in cs.ops : op.act = "cleanup" => LastWord(batch, op.key)
    BY <1>3 DEF LinkInv, BatchLinked
  <2>4. ASSUME NEW lines \in Seq(Event), batch' = batch \o lines, GoodLines(tracker, lines),
               \A i \in DOMAIN lines : lines[i].event # "registered",
               \A op \in cs.ops : op.act = "cleanup" => LastWord(lines, op.key)
        PROVE  GoodLines(tracker', journal') /\ BatchLinked'
    <3>1. GoodLines(tracker, batch')
      BY <1>t, <2>3, <2>4, GoodLinesConcat
    <3>2. \A i \in DOMAIN batch' : batch'[i].event # "registered"
      <4>1. \A i \in DOMAIN (batch \o lines) :
               \/ i \in DOMAIN batch /\ (batch \o lines)[i] = batch[i]
               \/ /\ i \notin DOMAIN batch /\ i - Len(batch) \in DOMAIN lines
                  /\ (batch \o lines)[i] = lines[i - Len(batch)]
        BY <1>t, ConcatLines, Zenon
      <4> QED
        BY <2>3, <2>4, <4>1
    <3>3. \A op \in cs.ops : op.act = "cleanup" => LastWord(batch', op.key)
      BY <1>t, <2>3, <2>4, LastWordConcat
    <3> QED
      BY <1>g, <2>2, <3>1, <3>2, <3>3 DEF BatchLinked
  <2>5. CASE batch' = batch
    BY <1>g, <2>2, <2>3, <2>5 DEF BatchLinked
  <2>6. ASSUME NEW op \in cs.ops, ~OpRefused(journal, batch, spec, cs.head, op),
               receipts[OpID(op)].status = "ok",
               batch' = batch \o BuildOp(journal, batch, spec, cs.head, op,
                                         receipts[OpID(op)].task)
        PROVE  GoodLines(tracker', journal') /\ BatchLinked'
    <3> DEFINE t == receipts[OpID(op)].task
               lines == BuildOp(journal, batch, spec, cs.head, op, t)
    <3>1. t \in Nat
      BY <1>3 DEF TypeInv, CommandsHaveInput, TypeOK, Receipt
    <3>2. LinkedOp(journal, tracker, cs, op)
      BY <2>1 DEF LinkInv, OpsLinked
    <3>3. op.act # "close" => /\ t \in DOMAIN tracker /\ op.label \in tracker[t].labels
                              /\ op.act = "retarget" => t = op.task
      BY <2>1, <2>6 DEF LinkInv, OpsLinked, TaskAnswers
    <3>4. batch' = batch \o lines
      BY <2>6
    <3> HIDE DEF t
    <3>5. lines \in Seq(Event)
      BY <1>t, <2>1, <2>6, <3>1, BuiltLinesAreFresh
    <3>6. /\ GoodLines(tracker, lines)
          /\ \A i \in DOMAIN lines : lines[i].event # "registered"
          /\ \A p \in cs.ops : p.act = "cleanup" => LastWord(lines, p.key)
      BY <1>g, <1>t, <2>1, <2>6, <3>2, <3>3, BuiltLinesGood
    <3> HIDE DEF lines
    <3> QED
      BY <2>4, <3>4, <3>5, <3>6
  <2>7. ASSUME NEW entry \in cs.absorbed, batch' = batch \o BuildAbsorbed(journal, batch, entry)
        PROVE  GoodLines(tracker', journal') /\ BatchLinked'
    <3> DEFINE lines == BuildAbsorbed(journal, batch, entry)
               ev == ChangeEvent("modified", AbsorbedEID(entry), entry.node, entry.before, entry.after)
    <3>1. lines \in Seq(Event)
      BY <1>t, <2>1, AbsorbedLinesAreFresh
    <3>2. lines = <<>> \/ lines = <<ev>>
      BY DEF BuildAbsorbed
    <3>3. ev.event = "modified" /\ GoodLine(tracker, ev)
      <4>1. AbsorbedEID(entry).key = entry.node
        BY DEF AbsorbedEID, DeriveRefreshEID
      <4>2. "modified" \in ChangeKinds
        BY DEF ChangeKinds
      <4> QED
        BY <4>1, <4>2, DriftLinesGood DEF ChangeEvent
    <3>4. batch' = batch \o lines
      BY <2>7
    <3> HIDE DEF ev
    <3>5. \A i \in DOMAIN lines : lines[i] = ev
      BY <3>2
    <3> HIDE DEF lines
    <3>6. /\ GoodLines(tracker, lines)
          /\ \A i \in DOMAIN lines : lines[i].event # "registered"
          /\ \A p \in cs.ops : p.act = "cleanup" => LastWord(lines, p.key)
      BY <3>3, <3>5 DEF GoodLines, LastWord
    <3> QED
      BY <2>4, <3>1, <3>4, <3>6
  <2> QED
    BY <1>3, <2>5, <2>6, <2>7 DEF ReconcileStep, ReconcileOp, AbsorbEntry
<1>4. CASE IngestCommit
  <2>1. journal' = journal \o FinalBatch /\ proc = "reconcile" /\ proc' = "save"
    BY <1>4 DEF IngestCommit, Committable
  <2>2. GoodLines(tracker, FinalBatch) /\ FinalBatch \in Seq(Event)
    BY <1>t, <2>1, ReceiptAppendedGood, FinalBatchTyped DEF FinalBatch, LinkInv, BatchLinked
  <2>3. GoodLines(tracker, journal')
    BY <1>g, <1>t, <2>1, <2>2, GoodLinesConcat
  <2> QED
    BY <1>h, <2>1, <2>3 DEF BatchLinked
<1>5. ASSUME NEW n \in Nodes, RefreshEntry(n)
      PROVE  GoodLines(tracker', journal') /\ BatchLinked'
  <2>1. UNCHANGED <<journal, proc>> /\ proc = "refresh"
    BY <1>5 DEF RefreshEntry
  <2>2. GoodLines(tracker, batch')
    BY <1>5, <2>1, RefreshedGood DEF LinkInv, BatchLinked
  <2> QED
    BY <1>g, <1>h, <2>1, <2>2 DEF BatchLinked
<1>6. CASE RefreshAppend
  <2>1. /\ proc = "refresh" /\ proc' = "refreshSave"
        /\ batch' = Append(batch, RefreshReceipt(KnownEIDs(batch))) /\ journal' = journal \o batch'
    BY <1>6 DEF RefreshAppend
  <2>2. batch' \in Seq(Event) /\ GoodLines(tracker, batch')
    BY <1>t, <2>1, ReceiptAppended, ReceiptAppendedGood DEF LinkInv, BatchLinked
  <2>3. GoodLines(tracker, journal')
    BY <1>g, <1>t, <2>1, <2>2, GoodLinesConcat
  <2> QED
    BY <1>h, <2>1, <2>3 DEF BatchLinked
<1>7. CASE RefreshSaveFails
  <2>1. PICK old \in Seq(Event) : journal = old \o batch
    BY <1>7 DEF RefreshSaveFails, IDInv, Revocable
  <2>2. SubSeq(journal, 1, Len(journal) - Len(batch)) = old
    BY <1>t, <2>1
  <2>3. journal' = old /\ proc' = "idle"
    BY <1>7, <2>2 DEF RefreshSaveFails, Stop
  <2>4. GoodLines(tracker, old)
    BY <1>g, <1>t, <2>1, GoodLinesConcat
  <2> QED
    BY <1>h, <2>3, <2>4 DEF BatchLinked
<1> QED
  BY <1>1, <1>2, <1>3, <1>4, <1>5, <1>6, <1>7, JournalSteps DEF JournalStep

\* A tied op stays tied as the tracker grows and a batch that registers nothing
\* and leaves no bare tombstone of a node to clean up is appended.
LEMMA LinkedOpKept ==
    ASSUME NEW j \in Seq(Event), NEW b \in Seq(Event), NEW tr, NEW tr2, Grown(tr, tr2),
           NEW c, NEW op, LinkedOp(j, tr, c, op),
           \A i \in DOMAIN b : b[i].event # "registered",
           op.act = "cleanup" => LastWord(b, op.key)
    PROVE  LinkedOp(j \o b, tr2, c, op)
<1>1. Registration(j \o b, op.key) = Registration(j, op.key)
  BY RegistrationKept
<1>2. op.act = "cleanup" => LastWord(j \o b, op.key)
  BY LastWordConcat DEF LinkedOp
<1>3. op.act \in {"retarget", "close"} =>
         op.task \in DOMAIN tr /\ op.task \in DOMAIN tr2 /\ tr2[op.task].key = tr[op.task].key
  BY DEF Grown, LinkedOp
<1> DEFINE j2 == j \o b
<1> HIDE DEF j2
<1>4. Registration(j2, op.key) = Registration(j, op.key) /\ (op.act = "cleanup" => LastWord(j2, op.key))
  BY <1>1, <1>2 DEF j2
<1>5. LinkedOp(j2, tr2, c, op)
  BY <1>3, <1>4 DEF LinkedOp
<1> QED
  BY <1>5 DEF j2

\* No answer is lost or made false by a tracker that only grows.
LEMMA AnswersKept ==
    ASSUME NEW tr, NEW tr2, Grown(tr, tr2), NEW c, NEW rs, TaskAnswers(tr, c, rs)
    PROVE  TaskAnswers(tr2, c, rs)
BY DEF Grown, TaskAnswers

(***************************************************************************)
(* The adapter answers one op: an answer ok names a task that carries the  *)
(* op's label, found by the probe, just created or just retargeted, and a  *)
(* close answered ok has closed its task.                                  *)
(***************************************************************************)
AnswerStep(op) ==
    \E status \in {"ok", "error"} : \E t :
        /\ Respond(op, status, t)
        /\ status = "ok" /\ op.act # "close" =>
              /\ t \in DOMAIN tracker' /\ op.label \in tracker'[t].labels
              /\ op.act = "retarget" => t = op.task
        /\ status = "ok" /\ op.act = "close" => tracker'[op.task].status = "closed"

LEMMA AdapterAnswers ==
    ASSUME TypeInv, LinkInv, proc = "adapter", AdapterStep
    PROVE  UNCHANGED <<journal, cs, receipts, proc, phase>> /\ \E op \in cs.ops : AnswerStep(op)
<1> USE DEF specVars, journalVars, runVars, memVars
<1>t. tracker \in Seq(Task)
  BY DEF TypeInv, TypeOK
<1>f. UNCHANGED <<journal, cs, receipts, proc, phase>>
  BY DEF AdapterStep, AdapterMatch, AdapterCreate, AdapterRetarget, AdapterClose,
     AdapterRefError, AdapterOpFails, adapterFrame
<1>1. PICK op \in cs.ops :
         AdapterMatch(op) \/ AdapterCreate(op) \/ AdapterRetarget(op)
             \/ AdapterClose(op) \/ AdapterRefError(op) \/ AdapterOpFails(op)
  BY DEF AdapterStep
<1>2. CASE AdapterMatch(op)
  <2>1. PICK t \in Labelled(op.label) : Respond(op, "ok", t)
    BY <1>2 DEF AdapterMatch
  <2>2. UNCHANGED tracker /\ op.act # "retarget" /\ op.act # "close"
    BY <1>2 DEF AdapterMatch, IsCreate
  <2>3. t \in DOMAIN tracker' /\ op.label \in tracker'[t].labels
    BY <2>1, <2>2 DEF Labelled
  <2>4. AnswerStep(op)
    BY <2>1, <2>2, <2>3 DEF AnswerStep
  <2> QED
    BY <1>f, <2>4
<1>3. CASE AdapterCreate(op)
  <2> DEFINE task == NewTask(op)
  <2>1. tracker' = Append(tracker, task) /\ Respond(op, "ok", Len(tracker) + 1)
        /\ op.act # "retarget" /\ op.act # "close"
    BY <1>3 DEF AdapterCreate, IsCreate
  <2>2. op.label \in task.labels
    BY DEF NewTask
  <2> HIDE DEF task
  <2>3. Len(tracker) + 1 \in DOMAIN tracker' /\ tracker'[Len(tracker) + 1] = task
    BY <1>t, <2>1
  <2>4. AnswerStep(op)
    BY <2>1, <2>2, <2>3 DEF AnswerStep
  <2> QED
    BY <1>f, <2>4
<1>4. CASE AdapterRetarget(op)
  <2> DEFINE x == Retargeted(tracker[op.task], op, DepTasks(op))
  <2>1. tracker' = [tracker EXCEPT ![op.task] = x] /\ Respond(op, "ok", op.task)
        /\ op.act = "retarget"
    BY <1>4 DEF AdapterRetarget
  <2>2. op.task \in DOMAIN tracker
    BY <2>1 DEF TypeInv, CommandsHaveInput, LinkInv, OpsLinked, Underway, LinkedOp
  <2>3. op.label \in x.labels
    BY <1>t, <2>2 DEF Retargeted, Task
  <2> HIDE DEF x
  <2>4. op.task \in DOMAIN tracker' /\ tracker'[op.task] = x
    BY <1>t, <2>1, <2>2
  <2>5. AnswerStep(op)
    BY <2>1, <2>3, <2>4 DEF AnswerStep
  <2> QED
    BY <1>f, <2>5
<1>5. CASE AdapterClose(op)
  <2> DEFINE x == [tracker[op.task] EXCEPT !.status = "closed"]
  <2>1. Respond(op, "ok", op.task) /\ op.act = "close" /\ tracker' = [tracker EXCEPT ![op.task] = x]
    BY <1>5 DEF AdapterClose
  <2>2. op.task \in DOMAIN tracker
    BY <2>1 DEF TypeInv, CommandsHaveInput, LinkInv, OpsLinked, Underway, LinkedOp
  <2>3. x.status = "closed"
    <3>1. tracker[op.task] \in Task
      BY <1>t, <2>2
    <3> QED
      BY <3>1 DEF Task
  <2> HIDE DEF x
  <2>4. tracker'[op.task] = x
    BY <1>t, <2>1, <2>2
  <2>5. AnswerStep(op)
    BY <2>1, <2>3, <2>4 DEF AnswerStep
  <2> QED
    BY <1>f, <2>5
<1>6. CASE AdapterRefError(op) \/ AdapterOpFails(op)
  <2>1. Respond(op, "error", NoTask)
    BY <1>6 DEF AdapterRefError, AdapterOpFails
  <2>2. AnswerStep(op)
    BY <2>1 DEF AnswerStep
  <2> QED
    BY <1>f, <2>2
<1> QED
  BY <1>1, <1>2, <1>3, <1>4, <1>5, <1>6

\* Apart from the adapter's answers: a plan starts without any, a finished
\* adapter run hands its own over, and every command that stops forgets them.
LEMMA AnswerSteps ==
    ASSUME TypeInv, LinkInv, [Next]_vars, ~(proc = "adapter" /\ AdapterStep)
    PROVE  /\ results' \in {results, NoReceipts}
           /\ \/ UNCHANGED receipts
              \/ receipts' = NoReceipts
              \/ proc = "adapter" /\ UNCHANGED <<cs, journal, tracker>> /\ receipts' = results
           /\ proc' # "adapter" => results' = NoReceipts
<1> USE DEF vars, specVars, journalVars, runVars, memVars
<1>r. proc # "adapter" => results = NoReceipts
  BY DEF LinkInv, CommandsInPhase
<1>1. CASE UNCHANGED vars \/ EditSpec \/ Work \/ Registering
  BY <1>1, <1>r DEF EditSpec, Work, Claim, Finish, Registering, Register, RegisterCrash
<1>2. CASE Planning
  BY <1>2, <1>r DEF Planning, Plan
<1>3. CASE Applying
  BY <1>3, <1>r DEF Applying, AdapterStart, AdapterFinish, AdapterCrash, Stop
<1>4. CASE Ingesting
  <2>1. CASE IngestStart \/ IngestCommit \/ IngestRefuse \/ IngestSave \/ IngestCrash
    BY <1>r, <2>1 DEF IngestStart, IngestCommit, Committable, IngestRefuse, IngestSave, IngestCrash, Stop
  <2>2. CASE proc = "reconcile" /\ ReconcileStep
    BY <1>r, <2>2 DEF ReconcileStep, ReconcileOp, AbsorbEntry
  <2> QED
    BY <1>4, <2>1, <2>2 DEF Ingesting
<1>5. CASE Refreshing
  BY <1>5, <1>r DEF Refreshing, RefreshStart, RefreshEntry, RefreshAppend, RefreshSave,
     RefreshSaveFails, RefreshCrash, Stop
<1> QED
  BY <1>1, <1>2, <1>3, <1>4, <1>5 DEF Next

\* An outstanding changeset stays tied to the journal and the tracker.
LEMMA OpsStayLinked ==
    ASSUME TypeInv, IDInv, AccountInv, WorkInv, LinkInv, [Next]_vars
    PROVE  OpsLinked'
<1> USE DEF specVars, journalVars, runVars, memVars
<1> SUFFICES ASSUME Underway'
             PROVE  /\ \A op \in cs'.ops : LinkedOp(journal', tracker', cs', op)
                    /\ TaskAnswers(tracker', cs', results') /\ TaskAnswers(tracker', cs', receipts')
  BY DEF OpsLinked
<1>t. journal \in Seq(Event) /\ batch \in Seq(Event) /\ tracker \in Seq(Task)
  BY DEF TypeInv, TypeOK
<1>n. \A tr, c : TaskAnswers(tr, c, NoReceipts)
  BY DEF TaskAnswers, NoReceipts
<1>1. CASE Planning
  <2>1. PICK stem \in Stems, marks \in SUBSET Absorbable(spec, snapshot) : Plan(stem, marks)
    BY <1>1 DEF Planning
  <2> DEFINE changes == Diff(spec, snapshot) \ marks
  <2>2. changes \in SUBSET Nodes
    BY DEF Diff
  <2>3. /\ ~PlanRefused(journal, spec, edges, ExportTasks, stem, changes)
        /\ cs'.ops = BuildOps(journal, spec, edges, ExportTasks, head, stem, changes)
        /\ cs'.head = head
        /\ UNCHANGED <<journal, tracker, results>> /\ receipts' = NoReceipts /\ proc = "idle"
    BY <2>1 DEF Plan, Build
  <2> HIDE DEF changes
  <2>4. /\ Answered(journal) /\ UniqueEIDs(journal) /\ Accounted(journal)
        /\ GoodLines(tracker, journal) /\ LabelsTell(tracker)
    BY DEF WorkInv, IDInv, AccountInv, LinkInv
  <2>5. results' = NoReceipts
    BY <2>3 DEF LinkInv, CommandsInPhase
  <2> DEFINE c == cs'
  <2>6. c.head = head /\ c.ops = BuildOps(journal, spec, edges, ExportTasks, head, stem, changes)
    BY <2>3
  <2> HIDE DEF c
  <2>7. \A op \in c.ops : LinkedOp(journal, tracker, c, op)
    BY <1>t, <2>2, <2>3, <2>4, <2>6, PlanLinksOps
  <2> QED
    BY <1>n, <2>3, <2>5, <2>7 DEF c
<1>2. CASE ~Planning
  <2>1. UNCHANGED cs /\ Underway
    BY <1>2, ChangesetSteps DEF Underway
  <2>2. /\ \A op \in cs.ops : LinkedOp(journal, tracker, cs, op)
        /\ TaskAnswers(tracker, cs, results) /\ TaskAnswers(tracker, cs, receipts)
    BY <2>1 DEF LinkInv, OpsLinked
  <2>g. Grown(tracker, tracker')
    BY TrackerGrows
  <2>3. PICK b \in Seq(Event) :
           /\ journal' = journal \o b
           /\ \A i \in DOMAIN b : b[i].event # "registered"
           /\ \A op \in cs.ops : op.act = "cleanup" => LastWord(b, op.key)
    <3>e. /\ <<>> \in Seq(Event) /\ \A i \in DOMAIN <<>> : <<>>[i].event # "registered"
          /\ \A n : LastWord(<<>>, n)
      BY DEF LastWord
    <3>1. CASE UNCHANGED journal
      <4>1. journal' = journal \o <<>>
        BY <1>t, <3>1
      <4> QED
        BY <3>e, <4>1
    <3>2. CASE IngestCommit
      <4>1. journal' = journal \o FinalBatch /\ proc = "reconcile"
        BY <3>2 DEF IngestCommit, Committable
      <4>2. FinalBatch \in Seq(Event)
        BY <1>t, <4>1, FinalBatchTyped
      <4>3. /\ GoodLines(tracker, batch) /\ \A i \in DOMAIN batch : batch[i].event # "registered"
            /\ \A op \in cs.ops : op.act = "cleanup" => LastWord(batch, op.key)
        BY <4>1 DEF LinkInv, BatchLinked
      <4>4. /\ \A i \in DOMAIN FinalBatch : FinalBatch[i].event # "registered"
            /\ \A op \in cs.ops : op.act = "cleanup" => LastWord(FinalBatch, op.key)
        BY <1>t, <4>3, ReceiptAppendedGood DEF FinalBatch
      <4> QED
        BY <4>1, <4>2, <4>4
    <3>3. ~RegisterStep /\ ~RefreshAppend /\ ~RefreshSaveFails
      BY <2>1 DEF RegisterStep, RefreshAppend, RefreshSaveFails, LinkInv, CommandsInPhase, Underway
    <3>4. QuietStep \/ (proc = "reconcile" /\ ReconcileStep) \/ (\E n \in Nodes : RefreshEntry(n))
             => UNCHANGED journal
      BY ReconciledLines DEF QuietStep, ReconcileStep, ReconcileOp, AbsorbEntry, RefreshEntry
    <3> QED
      BY <3>1, <3>2, <3>3, <3>4, JournalSteps DEF JournalStep
  <2>4. \A op \in cs.ops : LinkedOp(journal', tracker', cs', op)
    BY <1>t, <2>1, <2>2, <2>3, <2>g, LinkedOpKept
  <2>5. CASE proc = "adapter" /\ AdapterStep
    <3>1. PICK op \in cs.ops : AnswerStep(op)
      BY <2>5, AdapterAnswers
    <3>2. UNCHANGED receipts
      BY <2>5, AdapterAnswers
    <3>3. TaskAnswers(tracker', cs, results')
      <4>1. PICK status, t :
              /\ Respond(op, status, t)
              /\ status = "ok" /\ op.act # "close" =>
                    /\ t \in DOMAIN tracker' /\ op.label \in tracker'[t].labels
                    /\ op.act = "retarget" => t = op.task
        BY <3>1 DEF AnswerStep
      <4>2. TaskAnswers(tracker', cs, results)
        BY <2>2, <2>g, AnswersKept
      <4>3. ASSUME NEW p \in cs.ops, p.act # "close", OpID(p) \in DOMAIN results',
                   results'[OpID(p)].status = "ok"
            PROVE  /\ results'[OpID(p)].task \in DOMAIN tracker'
                   /\ p.label \in tracker'[results'[OpID(p)].task].labels
                   /\ p.act = "retarget" => results'[OpID(p)].task = p.task
        <5>1. CASE OpID(p) = OpID(op)
          <6>1. p = op
            BY <2>2, <4>3, <5>1 DEF LinkedOp
          <6>2. results'[OpID(p)].status = status /\ results'[OpID(p)].task = t
            BY <4>1, <5>1 DEF Respond
          <6> QED
            BY <4>1, <4>3, <6>1, <6>2
        <5>2. CASE OpID(p) # OpID(op)
          <6>1. OpID(p) \in DOMAIN results /\ results'[OpID(p)] = results[OpID(p)]
            BY <4>1, <4>3, <5>2 DEF Respond
          <6> QED
            BY <4>2, <4>3, <6>1 DEF TaskAnswers
        <5> QED
          BY <5>1, <5>2
      <4> QED
        BY <4>3 DEF TaskAnswers
    <3>4. TaskAnswers(tracker', cs, receipts)
      BY <2>2, <2>g, AnswersKept
    <3> QED
      BY <2>1, <2>4, <3>2, <3>3, <3>4
  <2>6. CASE ~(proc = "adapter" /\ AdapterStep)
    <3>1. TaskAnswers(tracker', cs, results) /\ TaskAnswers(tracker', cs, receipts)
      BY <2>2, <2>g, AnswersKept
    <3>2. results' \in {results, NoReceipts} /\ receipts' \in {receipts, NoReceipts, results}
      BY <2>6, AnswerSteps
    <3>3. TaskAnswers(tracker', cs, results') /\ TaskAnswers(tracker', cs, receipts')
      BY <1>n, <3>1, <3>2
    <3> QED
      BY <2>1, <2>4, <3>3
  <2> QED
    BY <2>5, <2>6
<1> QED
  BY <1>1, <1>2

(***************************************************************************)
(* Refresh is run between changesets, never while one is outstanding: what *)
(* the mint skill's order of commands says.  A refresh under an            *)
(* outstanding changeset can write the removal of a node the changeset     *)
(* still cleans up, and the cleanup's receipt then refers to that event    *)
(* while its task carries the changeset's label.                           *)
(***************************************************************************)
RefreshBetween == RefreshPhases \subseteq {"clean", "partial"}

\* Commands keep to their phases, and only the adapter holds answers.
LEMMA CommandsStayInPhase ==
    ASSUME RefreshBetween, TypeInv, LinkInv, [Next]_vars
    PROVE  CommandsInPhase'
<1> USE DEF vars, specVars, journalVars, runVars, memVars
<1>1. proc' # "adapter" => results' = NoReceipts
  <2>1. proc = "adapter" /\ AdapterStep => proc' = "adapter"
    BY AdapterAnswers
  <2> QED
    BY <2>1, AnswerSteps
<1>2. proc' \in {"refresh", "refreshSave"} => phase' \in {"clean", "partial"}
  <2>0. proc \in {"refresh", "refreshSave"} => phase \in {"clean", "partial"}
    BY DEF LinkInv, CommandsInPhase
  <2>1. CASE UNCHANGED vars \/ EditSpec \/ Work \/ Registering \/ Planning
    BY <2>0, <2>1 DEF EditSpec, Work, Claim, Finish, Registering, Register, RegisterCrash, Planning, Plan
  <2>2. CASE Applying
    BY <2>2, AdapterAnswers DEF Applying, AdapterStart, AdapterFinish, AdapterCrash, Stop
  <2>3. CASE Ingesting
    <3>1. CASE proc = "reconcile" /\ ReconcileStep
      BY <3>1 DEF ReconcileStep, ReconcileOp, AbsorbEntry
    <3>2. CASE IngestStart \/ IngestCommit \/ IngestRefuse \/ IngestSave \/ IngestCrash
      BY <3>2 DEF IngestStart, IngestCommit, IngestRefuse, IngestSave, IngestCrash, Stop
    <3> QED
      BY <2>3, <3>1, <3>2 DEF Ingesting
  <2>4. CASE Refreshing
    BY <2>0, <2>4 DEF Refreshing, RefreshStart, RefreshEntry, RefreshAppend, RefreshSave,
       RefreshSaveFails, RefreshCrash, Stop, RefreshBetween
  <2> QED
    BY <2>1, <2>2, <2>3, <2>4 DEF Next
<1> QED
  BY <1>1, <1>2 DEF CommandsInPhase

\* A new project has nothing to tie.
LEMMA InitLinkInv == Init => LinkInv
BY DEF Init, LinkInv, GoodLines, LabelsTell, BatchLinked, OpsLinked, Underway, CommandsInPhase

\* The links hold in every reachable state.
LEMMA LinkInvariant ==
    ASSUME RefreshBetween
    PROVE  Spec => [](TypeInv /\ IDInv /\ AccountInv /\ WorkInv /\ LinkInv)
<1>1. TypeInv /\ IDInv /\ AccountInv /\ WorkInv /\ LinkInv /\ [Next]_vars => LinkInv'
  <2> SUFFICES ASSUME TypeInv, IDInv, AccountInv, WorkInv, LinkInv, [Next]_vars PROVE LinkInv'
    OBVIOUS
  <2> QED
    BY LinesStayLinked, LabelsKeepTelling, OpsStayLinked, CommandsStayInPhase DEF LinkInv
<1> QED
  BY <1>1, InitLinkInv, WorkInvariant, PTL DEF Spec

(***************************************************************************)
(* When refresh is only run between changesets, the task the fold names    *)
(* for a node or a proposal is always one the tracker has for that very    *)
(* node or proposal, and carries the label of the event the pairing is     *)
(* sourced from: through adapter crashes, retries, partial ingests and a   *)
(* re-ingest after a crash, the label plan derives, the task the adapter   *)
(* answers with and the referent ingest writes stay one fact               *)
(* (plan/labeler.go cleanupLabel, apply-br.sh, ingest/event_builder.go).   *)
(***************************************************************************)
THEOREM PairingsStayTrue ==
    ASSUME RefreshBetween
    PROVE  Spec => []PairingsNameTheirTask
<1>1. TypeInv /\ IDInv /\ AccountInv /\ WorkInv /\ LinkInv => PairingsNameTheirTask
  BY FoldNamesTask
  DEF TypeInv, TypeOK, IDInv, AccountInv, WorkInv, LinkInv, PairingsNameTheirTask
<1> QED
  BY <1>1, LinkInvariant, PTL
=============================================================================
