--------------------------- MODULE BaselineProofs ---------------------------
(***************************************************************************)
(* The journal and the baseline: after any number of partial runs, crashes *)
(* and re-runs the journal's fold, the snapshot and the spec tell one      *)
(* story, for every set of nodes, tasks and proposals.                     *)
(***************************************************************************)
EXTENDS PipelineProofs

(***************************************************************************)
(* The operator's discipline the baseline rests on: the spec is committed  *)
(* between changesets, nothing is refreshed, and no drift is absorbed.     *)
(***************************************************************************)
PlainRuns == EditPhases \subseteq {"clean"} /\ RefreshPhases = {} /\ ~AllowAbsorb

\* The hash a node's latest change event ends in, None when it has no event.
Now(j, n) == IF ChangeLines(j, n) = {} THEN None ELSE LastChange(j, n).after

(***************************************************************************)
(* A journal tells its nodes when the change of a planned node other than  *)
(* a removal is followed at once by the receipt of its task, and a receipt *)
(* comes at once after the event it names.                                 *)
(***************************************************************************)
ToldChange(j, i) ==
    j[i].event \in ChangeKinds =>
        /\ j[i].key \in Nodes /\ Kind[j[i].key] \in PlanRelevant
        /\ j[i].key \in Planned =>
              /\ j[i].event = "removed" <=> j[i].after = None
              /\ j[i].event # "removed" =>
                    i + 1 \in DOMAIN j /\ j[i + 1].event \in TaskBearing /\ j[i + 1].for = j[i].eid

ToldReceipt(j, i) ==
    j[i].event \in TaskBearing /\ j[i].for.key \in Nodes =>
        i - 1 \in DOMAIN j /\ j[i - 1].event \in ChangeKinds /\ j[i - 1].eid = j[i].for

Told(j) == \A i \in DOMAIN j : ToldChange(j, i) /\ ToldReceipt(j, i)

\* The op is about node n.
OpFor(tr, op, n) ==
    \/ op.act \in {"create", "cleanup", "retarget"} /\ op.key = n
    \/ op.act = "close" /\ tr[op.task].key = n

\* What an op does to its node is what the spec says of it.
SoundOp(tr, cur, op) ==
    /\ op.act = "close" => /\ op.key = op.task
                           /\ tr[op.task].key \in Nodes /\ Kind[tr[op.task].key] \in PlanRelevant
    /\ op.act = "cleanup" => Kind[op.key] \in PlanRelevant
    /\ \A n \in Planned : OpFor(tr, op, n) =>
          /\ op.act = "create" => cur[n] # None
          /\ op.act = "retarget" => cur[n] # None /\ op.hash = cur[n]
          /\ op.act \in {"cleanup", "close"} => cur[n] = None
          /\ op.act = "close" => op.why = "removed"

SoundOps(tr, cur, ops) ==
    /\ \A op \in ops : SoundOp(tr, cur, op)
    /\ \A op, p \in ops : \A n \in Planned : OpFor(tr, op, n) /\ OpFor(tr, p, n) => op = p

\* Every planned node is where the spec has it, or has an op that brings it there.
Covered(j, tr, cur, ops) ==
    \A n \in Planned : Now(j, n) = cur[n] \/ \E op \in ops : OpFor(tr, op, n)

\* The ids of a journal: only events have one, and a close's names its task.
HeadLine(tr, h, line) ==
    /\ line.eid # None => line.event \in ReferentKinds
    /\ line.event \in ChangeKinds =>
          /\ line.eid.head <= h
          /\ line.eid.src = "close" => line.eid.key \in DOMAIN tr /\ tr[line.eid.key].key = line.key

HeadLines(tr, h, s) == \A i \in DOMAIN s : HeadLine(tr, h, s[i])

Chained(j) ==
    \A n \in Planned : \A k \in ChangeLines(j, n) :
        LET earlier == {i \in ChangeLines(j, n) : i < k}
        IN  j[k].before = IF earlier = {} THEN None ELSE j[Max(earlier)].after

\* The events made at the present commit have brought their nodes to it.
AtHead(j, cur, h) ==
    \A i \in DOMAIN j :
        j[i].event \in ChangeKinds /\ j[i].eid.head = h /\ j[i].key \in Planned =>
            Now(j, j[i].key) = cur[j[i].key]

JournalRound ==
    /\ Told(journal) /\ Chained(journal) /\ AtHead(journal, spec, head)
    /\ HeadLines(tracker, head, journal)
    /\ \A n \in Planned :
          /\ Now(journal, n) \in {snapshot[n], spec[n]}
          /\ phase = "clean" => Now(journal, n) = snapshot[n]
          /\ snapshot[n] # None => ChangeLines(journal, n) # {}

ChangesetRound ==
    Underway =>
        /\ cs.head = head /\ cs.absorbed = {} /\ ~Incomplete(spec, edges, snapshot)
        /\ SoundOps(tracker, spec, cs.ops) /\ Covered(journal, tracker, spec, cs.ops)

\* The batch has at most one event per planned node, the next of its chain, and
\* has it, or needs none, once the node's op is done.
NodeRound(j, tr, cur, ops, rs, b, dn, n) ==
    /\ \A i, k \in ChangeLines(b, n) :
          i = k /\ b[i].before = Now(j, n) /\ b[i].after = cur[n]
    /\ \A op \in ops : OpFor(tr, op, n) =>
          /\ ChangeLines(b, n) # {} => OpID(op) \in dn
          /\ OpID(op) \in dn /\ rs[OpID(op)].status = "ok" =>
                Now(j, n) = cur[n] \/ ChangeLines(b, n) # {}

BatchRound ==
    /\ proc \notin {"refresh", "refreshSave"} /\ (proc # "reconcile" => done = {})
    /\ proc = "reconcile" =>
          /\ Told(batch)
          /\ HeadLines(tracker, head, batch)
          /\ \A n \in Planned :
                NodeRound(journal, tracker, spec, cs.ops, receipts, batch, done, n)

SaveRound == proc = "save" /\ AllOk => \A n \in Planned : Now(journal, n) = spec[n]

RoundInv == JournalRound /\ ChangesetRound /\ BatchRound /\ SaveRound

-----------------------------------------------------------------------------
(* What a journal that tells its nodes says of them. *)

\* A node's latest change event.
LEMMA LatestChange ==
    ASSUME NEW j \in Seq(Event), NEW n, ChangeLines(j, n) # {}
    PROVE  LET c == Max(ChangeLines(j, n))
           IN  /\ c \in ChangeLines(j, n) /\ \A i \in ChangeLines(j, n) : i <= c
               /\ c \in DOMAIN j /\ j[c].event \in ChangeKinds /\ j[c].key = n
               /\ LastChange(j, n) = j[c] /\ Now(j, n) = j[c].after
<1>1. ChangeLines(j, n) \subseteq 1..Len(j) /\ Len(j) \in Nat
  BY DEF ChangeLines
<1>2. Max(ChangeLines(j, n)) \in ChangeLines(j, n) /\ \A i \in ChangeLines(j, n) : Max(ChangeLines(j, n)) >= i
  BY <1>1, LastLine
<1>3. \A i \in ChangeLines(j, n) : i <= Max(ChangeLines(j, n))
  BY <1>1, <1>2
<1>4. LastChange(j, n) = j[Max(ChangeLines(j, n))]
  BY DEF LastChange
<1>5. Now(j, n) = j[Max(ChangeLines(j, n))].after
  BY <1>4 DEF Now
<1>6. \A i \in ChangeLines(j, n) : i \in DOMAIN j /\ j[i].event \in ChangeKinds /\ j[i].key = n
  BY DEF ChangeLines
<1> QED
  BY <1>2, <1>3, <1>4, <1>5, <1>6

\* The fold has a planned node exactly when it has a change event, pairs it
\* unless the latest is a removal, and records the hash that one ends in.
LEMMA FoldIsNow ==
    ASSUME NEW tr, NEW j \in Seq(Event), Answered(j), GoodLines(tr, j), UniqueEIDs(j),
           Accounted(j), Told(j), NEW n \in Planned
    PROVE  /\ FoldHas(j, n) <=> ChangeLines(j, n) # {}
           /\ Paired(Fold(j), n) <=> Now(j, n) # None
           /\ FoldHas(j, n) => /\ Fold(j)[n].after = Now(j, n)
                                /\ Fold(j)[n].eid = LastChange(j, n).eid
<1> DEFINE all == EntryLines(j, n)
           C == ChangeLines(j, n)
           l == Max(all)
           d == DecidingLine(j, n)
           c == Max(C)
<1>n. n \in Nodes /\ n # None
  BY JournalAssumption DEF Planned
<1>e. \A i \in C : /\ i \in DOMAIN j /\ i \in Int /\ j[i].event \in ChangeKinds /\ j[i].key = n
                   /\ j[i].eid # None /\ ToldChange(j, i)
  <2>1. ChangeKinds \subseteq ReferentKinds
    BY DEF ReferentKinds
  <2> QED
    BY <2>1, EIDAssumption DEF ChangeLines, Accounted, Told
<1>1. ASSUME NEW i \in all
      PROVE  /\ i \in DOMAIN j /\ i \in Int
             /\ \/ j[i].event = "removed" /\ i \in C /\ SourceEID(j, i) = j[i].eid
                \/ /\ j[i].event \in TaskBearing /\ i - 1 \in C
                   /\ j[i].for = j[i - 1].eid /\ SourceEID(j, i) = j[i - 1].eid
  <2>1. i \in DOMAIN j /\ i \in Int /\ EntryKey(j, i) = n
    BY DEF EntryLines
  <2>2. j[i].event \in TaskBearing \/ (j[i].event = "removed" /\ j[i].key = n)
    BY <1>n, EntryLineKinds
  <2>3. CASE j[i].event = "removed" /\ j[i].key = n
    BY <2>1, <2>3 DEF ChangeLines, ChangeKinds, SourceEID
  <2>4. CASE j[i].event \in TaskBearing
    <3>1. j[i].for.key = n /\ j[i].for.src # "close"
      BY <2>1, <2>4, ReceiptWrites DEF GoodLines, GoodLine
    <3>2. i - 1 \in DOMAIN j /\ j[i - 1].event \in ChangeKinds /\ j[i - 1].eid = j[i].for
      BY <1>n, <2>1, <2>4, <3>1 DEF Told, ToldReceipt
    <3>3. j[i - 1].key = n
      BY <3>1, <3>2 DEF GoodLines, GoodLine, ReferentKinds
    <3>4. SourceEID(j, i) = j[i].for
      BY <2>4 DEF SourceEID, TaskBearing
    <3> QED
      BY <2>1, <2>4, <3>2, <3>3, <3>4 DEF ChangeLines
  <2> QED
    BY <2>2, <2>3, <2>4
<1>2. ASSUME NEW i \in C
      PROVE  /\ j[i].event = "removed" => i \in all
             /\ j[i].event # "removed" => i + 1 \in all
  <2>1. CASE j[i].event = "removed"
    BY <1>e, <2>1 DEF EntryLines, EntryKey, TaskBearing
  <2>2. CASE j[i].event # "removed"
    <3>1. /\ i + 1 \in DOMAIN j /\ j[i + 1].event \in TaskBearing /\ j[i + 1].for = j[i].eid
      BY <1>e, <2>2 DEF ToldChange
    <3>2. j[i].eid.src # "close"
      BY <3>1 DEF GoodLines, GoodLine
    <3>3. j[i].eid.key = n
      BY <1>e, <3>2 DEF GoodLines, GoodLine, ReferentKinds
    <3>4. EntryKey(j, i + 1) = n
      BY <3>1, <3>3, ReceiptWrites
    <3> QED
      BY <2>2, <3>1, <3>4 DEF EntryLines
  <2> QED
    BY <2>1, <2>2
<1>3. all # {} <=> C # {}
  BY <1>1, <1>2
<1>4. CASE C = {}
  <2>1. all = {}
    BY <1>3, <1>4
  <2> QED
    BY <1>4, <2>1 DEF FoldHas, Paired, Fold, Now
<1>5. CASE C # {}
  <2>1. /\ c \in C /\ (\A i \in C : i <= c)
        /\ Now(j, n) = j[c].after /\ LastChange(j, n) = j[c]
    BY <1>5, LatestChange
  <2>2. /\ l \in all /\ \A i \in all : i <= l
        /\ d \in all /\ SourceEID(j, d) = SourceEID(j, l)
    BY <1>3, <1>5, FinalRun
  <2>3. Fold(j)[n] = EntryOf(j, d) /\ n \in DOMAIN Fold(j) /\ FoldHas(j, n)
    BY <1>3, <1>5, <1>n DEF Fold, FoldHas
  <2> HIDE DEF all, C, l, d, c
  <2>4. SourceEID(j, l) = j[c].eid
    <3>0. l \in Int /\ c \in Int
      BY <1>1, <1>e, <2>1, <2>2
    <3>1. j[c].event # "removed" => l >= c + 1
      BY <1>2, <2>1, <2>2, <3>0
    <3>2. l >= c
      <4>1. j[c].event = "removed" => c <= l
        BY <1>2, <2>1, <2>2
      <4> QED
        BY <3>0, <3>1, <4>1
    <3>3. CASE j[l].event = "removed" /\ l \in C /\ SourceEID(j, l) = j[l].eid
      <4>1. l = c
        BY <1>e, <2>1, <3>2, <3>3
      <4> QED
        BY <3>3, <4>1
    <3>4. CASE j[l].event \in TaskBearing /\ l - 1 \in C /\ SourceEID(j, l) = j[l - 1].eid
      <4>1. l # c
        BY <1>e, <2>1, <3>4 DEF TaskBearing, ChangeKinds
      <4>2. l - 1 = c
        BY <1>1, <1>e, <2>1, <2>2, <3>2, <3>4, <4>1
      <4> QED
        BY <3>4, <4>2
    <3> QED
      BY <1>1, <2>2, <3>3, <3>4
  <2>5. \A i \in C : j[i].eid = j[c].eid => i = c
    BY <1>e, <2>1 DEF UniqueEIDs
  <2>6. /\ EntryOf(j, d).removed <=> j[c].event = "removed"
        /\ EntryOf(j, d).after = j[c].after /\ EntryOf(j, d).eid = j[c].eid
    <3>1. CASE j[d].event = "removed" /\ d \in C /\ SourceEID(j, d) = j[d].eid
      <4>1. d = c
        BY <2>2, <2>4, <2>5, <3>1
      <4>2. EntryOf(j, d).removed /\ EntryOf(j, d).after = j[d].after /\ EntryOf(j, d).eid = j[d].eid
        BY <3>1 DEF EntryOf
      <4> QED
        BY <3>1, <4>1, <4>2
    <3>2. CASE j[d].event \in TaskBearing /\ d - 1 \in C /\ SourceEID(j, d) = j[d - 1].eid
               /\ j[d].for = j[d - 1].eid
      <4>1. PICK m \in DOMAIN j : /\ j[m].event \in ReferentKinds /\ j[m].eid = j[d].for
                                  /\ EntryOf(j, d).removed <=> j[m].event = "removed"
                                  /\ EntryOf(j, d).after = j[m].after
                                  /\ EntryOf(j, d).eid = j[d].for
        BY <1>1, <2>2, <3>2, ReceiptWrites
      <4>2. j[m].eid = j[c].eid
        BY <2>2, <2>4, <3>2, <4>1
      <4>3. m = c
        BY <1>e, <2>1, <4>2 DEF UniqueEIDs
      <4> QED
        BY <4>1, <4>3
    <3> QED
      BY <1>1, <2>2, <3>1, <3>2
  <2>7. j[c].event = "removed" <=> j[c].after = None
    BY <1>e, <2>1 DEF ToldChange
  <2>8. Paired(Fold(j), n) <=> Now(j, n) # None
    BY <2>1, <2>3, <2>6, <2>7 DEF Paired
  <2> QED
    BY <1>5, <2>1, <2>3, <2>6, <2>8 DEF C
<1> QED
  BY <1>4, <1>5

-----------------------------------------------------------------------------
(* Journals put end to end. *)

\* Where the change events of a node are in two journals put end to end.
LEMMA ChangeLinesConcat ==
    ASSUME NEW s \in Seq(Event), NEW t \in Seq(Event), NEW n
    PROVE  /\ \A i \in ChangeLines(s, n) :
                 i \in ChangeLines(s \o t, n) /\ (s \o t)[i] = s[i] /\ i <= Len(s)
           /\ \A i \in ChangeLines(t, n) :
                 Len(s) + i \in ChangeLines(s \o t, n) /\ (s \o t)[Len(s) + i] = t[i] /\ i >= 1
           /\ \A i \in ChangeLines(s \o t, n) :
                 \/ i \in ChangeLines(s, n) /\ (s \o t)[i] = s[i]
                 \/ i - Len(s) \in ChangeLines(t, n) /\ (s \o t)[i] = t[i - Len(s)] /\ i > Len(s)
<1> DEFINE st == s \o t
<1>1. /\ \A i \in DOMAIN s : i \in DOMAIN st /\ st[i] = s[i]
      /\ \A i \in DOMAIN t : Len(s) + i \in DOMAIN st /\ st[Len(s) + i] = t[i]
      /\ \A i \in DOMAIN st :
            \/ i \in DOMAIN s /\ st[i] = s[i]
            \/ i \notin DOMAIN s /\ i - Len(s) \in DOMAIN t /\ st[i] = t[i - Len(s)]
  BY ConcatLines, Zenon
<1>2. /\ DOMAIN s = 1..Len(s) /\ Len(s) \in Nat /\ DOMAIN st \subseteq Nat \ {0}
      /\ DOMAIN t \subseteq Nat \ {0}
  BY ConcatLines
<1> HIDE DEF st
<1>3. \A i \in ChangeLines(s, n) : i \in ChangeLines(st, n) /\ st[i] = s[i] /\ i <= Len(s)
  BY <1>1, <1>2 DEF ChangeLines
<1>4. \A i \in ChangeLines(t, n) :
         Len(s) + i \in ChangeLines(st, n) /\ st[Len(s) + i] = t[i] /\ i >= 1
  BY <1>1, <1>2 DEF ChangeLines
<1>5. ASSUME NEW i \in ChangeLines(st, n)
      PROVE  \/ i \in ChangeLines(s, n) /\ st[i] = s[i]
             \/ i - Len(s) \in ChangeLines(t, n) /\ st[i] = t[i - Len(s)] /\ i > Len(s)
  <2>1. i \in DOMAIN st /\ st[i].event \in ChangeKinds /\ st[i].key = n
    BY <1>5 DEF ChangeLines
  <2>2. CASE i \in DOMAIN s /\ st[i] = s[i]
    BY <2>1, <2>2 DEF ChangeLines
  <2>3. CASE i \notin DOMAIN s /\ i - Len(s) \in DOMAIN t /\ st[i] = t[i - Len(s)]
    BY <1>2, <2>1, <2>3 DEF ChangeLines
  <2> QED
    BY <1>1, <2>1, <2>2, <2>3
<1> QED
  BY <1>3, <1>4, <1>5 DEF st

\* The latest change event of a node is in the second journal if that has any.
LEMMA LastChangeConcat ==
    ASSUME NEW s \in Seq(Event), NEW t \in Seq(Event), NEW n
    PROVE  /\ ChangeLines(s \o t, n) = {} <=> ChangeLines(s, n) = {} /\ ChangeLines(t, n) = {}
           /\ ChangeLines(t, n) # {} => LastChange(s \o t, n) = LastChange(t, n)
           /\ ChangeLines(t, n) = {} /\ ChangeLines(s, n) # {} =>
                 LastChange(s \o t, n) = LastChange(s, n)
<1> DEFINE st == s \o t
<1>0. st \in Seq(Event) /\ Len(s) \in Nat
  BY ConcatLines
<1>1. /\ \A i \in ChangeLines(s, n) : i \in ChangeLines(st, n) /\ st[i] = s[i] /\ i <= Len(s)
      /\ \A i \in ChangeLines(t, n) :
            Len(s) + i \in ChangeLines(st, n) /\ st[Len(s) + i] = t[i] /\ i >= 1
      /\ \A i \in ChangeLines(st, n) :
            \/ i \in ChangeLines(s, n) /\ st[i] = s[i]
            \/ i - Len(s) \in ChangeLines(t, n) /\ st[i] = t[i - Len(s)] /\ i > Len(s)
  BY ChangeLinesConcat
<1>2. \A x \in {s, t, st} : ChangeLines(x, n) \subseteq Nat
  BY <1>0 DEF ChangeLines
<1> HIDE DEF st
<1>3. ChangeLines(st, n) = {} <=> ChangeLines(s, n) = {} /\ ChangeLines(t, n) = {}
  BY <1>1
<1>4. CASE ChangeLines(t, n) # {}
  <2> DEFINE m == Max(ChangeLines(t, n))
             c == Max(ChangeLines(st, n))
  <2>1. ChangeLines(st, n) # {}
    BY <1>3, <1>4
  <2>2. m \in ChangeLines(t, n) /\ (\A i \in ChangeLines(t, n) : i <= m) /\ LastChange(t, n) = t[m]
    BY <1>4, LatestChange
  <2>3. /\ c \in ChangeLines(st, n) /\ (\A i \in ChangeLines(st, n) : i <= c)
        /\ LastChange(st, n) = st[c]
    BY <1>0, <2>1, LatestChange
  <2> HIDE DEF m, c
  <2>4. c = Len(s) + m
    <3>1. Len(s) + m <= c
      BY <1>1, <2>2, <2>3
    <3>2. m \in Nat /\ c \in Nat /\ m >= 1
      BY <1>1, <1>2, <2>2, <2>3
    <3>3. c \notin ChangeLines(s, n)
      BY <1>0, <1>1, <3>1, <3>2
    <3>4. c - Len(s) \in ChangeLines(t, n)
      BY <1>1, <2>3, <3>3
    <3>5. c - Len(s) <= m
      BY <2>2, <3>4
    <3> QED
      BY <1>0, <3>1, <3>2, <3>5
  <2>5. LastChange(st, n) = LastChange(t, n)
    BY <1>1, <2>2, <2>3, <2>4
  <2> QED
    BY <1>3, <1>4, <2>5 DEF st
<1>5. CASE ChangeLines(t, n) = {} /\ ChangeLines(s, n) # {}
  <2>1. ChangeLines(st, n) = ChangeLines(s, n)
    BY <1>1, <1>5
  <2>2. Max(ChangeLines(s, n)) \in ChangeLines(s, n) /\ LastChange(s, n) = s[Max(ChangeLines(s, n))]
    BY <1>5, LatestChange
  <2>3. LastChange(st, n) = st[Max(ChangeLines(st, n))]
    BY <1>0, <1>5, <2>1, LatestChange
  <2>4. LastChange(st, n) = LastChange(s, n)
    BY <1>1, <2>1, <2>2, <2>3
  <2> QED
    BY <1>3, <1>5, <2>4 DEF st
<1>6. CASE ChangeLines(t, n) = {} /\ ChangeLines(s, n) = {}
  BY <1>3, <1>6 DEF st
<1> QED
  BY <1>4, <1>5, <1>6

\* Where a node is then is where the later journal has it, or else the earlier one.
LEMMA NowConcat ==
    ASSUME NEW s \in Seq(Event), NEW t \in Seq(Event), NEW n
    PROVE  /\ ChangeLines(s \o t, n) = {} <=> ChangeLines(s, n) = {} /\ ChangeLines(t, n) = {}
           /\ Now(s \o t, n) = IF ChangeLines(t, n) = {} THEN Now(s, n) ELSE Now(t, n)
BY LastChangeConcat DEF Now

\* Told journals put end to end are told.
LEMMA ToldConcat ==
    ASSUME NEW s \in Seq(Event), NEW t \in Seq(Event), Told(s), Told(t)
    PROVE  Told(s \o t)
<1> DEFINE st == s \o t
<1>1. /\ \A i \in DOMAIN s : i \in DOMAIN st /\ st[i] = s[i]
      /\ \A i \in DOMAIN t : Len(s) + i \in DOMAIN st /\ st[Len(s) + i] = t[i]
      /\ \A i \in DOMAIN st :
            \/ i \in DOMAIN s /\ st[i] = s[i]
            \/ i \notin DOMAIN s /\ i - Len(s) \in DOMAIN t /\ st[i] = t[i - Len(s)]
  BY ConcatLines, Zenon
<1>2. Len(s) \in Nat /\ DOMAIN t \subseteq Nat /\ DOMAIN st \subseteq Nat
  BY ConcatLines
<1> HIDE DEF st
<1>3. ASSUME NEW x \in Seq(Event), NEW i \in DOMAIN x, ToldChange(x, i) /\ ToldReceipt(x, i),
             NEW k \in DOMAIN st, st[k] = x[i],
             i + 1 \in DOMAIN x => k + 1 \in DOMAIN st /\ st[k + 1] = x[i + 1],
             i - 1 \in DOMAIN x => k - 1 \in DOMAIN st /\ st[k - 1] = x[i - 1]
      PROVE  ToldChange(st, k) /\ ToldReceipt(st, k)
  BY <1>3 DEF ToldChange, ToldReceipt
<1>4. ASSUME NEW k \in DOMAIN st PROVE ToldChange(st, k) /\ ToldReceipt(st, k)
  <2>1. CASE k \in DOMAIN s /\ st[k] = s[k]
    <3>1. ToldChange(s, k) /\ ToldReceipt(s, k)
      BY <2>1 DEF Told
    <3> QED
      BY <1>1, <1>3, <2>1, <3>1
  <2>2. CASE k - Len(s) \in DOMAIN t /\ st[k] = t[k - Len(s)]
    <3> DEFINE i == k - Len(s)
    <3>1. i \in DOMAIN t /\ ToldChange(t, i) /\ ToldReceipt(t, i) /\ st[k] = t[i]
      BY <2>2 DEF Told
    <3>2. k + 1 = Len(s) + (i + 1) /\ k - 1 = Len(s) + (i - 1)
      BY <1>2
    <3> HIDE DEF i
    <3> QED
      BY <1>1, <1>3, <3>1, <3>2
  <2> QED
    BY <1>1, <2>1, <2>2
<1>5. Told(st)
  BY <1>4 DEF Told
<1> QED
  BY <1>5 DEF st

\* A chain goes on when each node's next event starts where its last one ended.
LEMMA ChainedConcat ==
    ASSUME NEW s \in Seq(Event), NEW t \in Seq(Event), Chained(s),
           \A n \in Planned : \A i, k \in ChangeLines(t, n) : i = k /\ t[i].before = Now(s, n)
    PROVE  Chained(s \o t)
<1> DEFINE st == s \o t
           before(x, n, k) == {i \in ChangeLines(x, n) : i < k}
           told(x, n, k) == IF before(x, n, k) = {} THEN None ELSE x[Max(before(x, n, k))].after
<1>0. st \in Seq(Event) /\ Len(s) \in Nat
  BY ConcatLines
<1> SUFFICES ASSUME NEW n \in Planned, NEW k \in ChangeLines(st, n)
             PROVE  st[k].before = told(st, n, k)
  BY DEF Chained
<1>1. /\ \A i \in ChangeLines(s, n) : i \in ChangeLines(st, n) /\ st[i] = s[i] /\ i <= Len(s)
      /\ \A i \in ChangeLines(st, n) :
            \/ i \in ChangeLines(s, n) /\ st[i] = s[i]
            \/ i - Len(s) \in ChangeLines(t, n) /\ st[i] = t[i - Len(s)] /\ i > Len(s)
  BY ChangeLinesConcat
<1>2. ChangeLines(s, n) \subseteq 1..Len(s) /\ ChangeLines(st, n) \subseteq Nat
  BY <1>0 DEF ChangeLines
<1>3. \A i \in ChangeLines(s, n) : s[i].before = told(s, n, i)
  BY DEF Chained
<1> HIDE DEF st
<1>4. CASE k \in ChangeLines(s, n) /\ st[k] = s[k]
  <2>1. before(st, n, k) = before(s, n, k)
    BY <1>0, <1>1, <1>2, <1>4
  <2>2. before(s, n, k) # {} => Max(before(s, n, k)) \in before(s, n, k)
    BY <1>0, <1>2, LastLine
  <2>3. before(s, n, k) # {} => st[Max(before(s, n, k))] = s[Max(before(s, n, k))]
    BY <1>1, <2>2
  <2>4. s[k].before = told(s, n, k)
    BY <1>3, <1>4
  <2> HIDE DEF before
  <2> QED
    BY <1>4, <2>1, <2>3, <2>4
<1>5. CASE k - Len(s) \in ChangeLines(t, n) /\ st[k] = t[k - Len(s)] /\ k > Len(s)
  <2>1. t[k - Len(s)].before = Now(s, n)
    BY <1>5
  <2>2. before(st, n, k) = ChangeLines(s, n)
    <3>1. ASSUME NEW i \in ChangeLines(st, n), i < k PROVE i \in ChangeLines(s, n)
      <4>1. i - Len(s) \in ChangeLines(t, n) => i - Len(s) = k - Len(s)
        BY <1>5
      <4>2. i - Len(s) # k - Len(s)
        BY <1>0, <1>2, <3>1
      <4> QED
        BY <1>1, <4>1, <4>2
    <3>2. \A i \in ChangeLines(s, n) : i < k
      BY <1>0, <1>1, <1>2, <1>5
    <3> QED
      BY <1>1, <3>1, <3>2
  <2>3. ChangeLines(s, n) # {} => st[Max(ChangeLines(s, n))] = s[Max(ChangeLines(s, n))]
                                   /\ Now(s, n) = s[Max(ChangeLines(s, n))].after
    BY <1>1, LatestChange
  <2>4. ChangeLines(s, n) = {} => Now(s, n) = None
    BY DEF Now
  <2> HIDE DEF before
  <2> QED
    BY <1>5, <2>1, <2>2, <2>3, <2>4
<1> QED
  BY <1>1, <1>4, <1>5

\* Events that bring their nodes to the commit leave every node at it.
LEMMA AtHeadConcat ==
    ASSUME NEW s \in Seq(Event), NEW t \in Seq(Event), NEW cur, NEW h, AtHead(s, cur, h),
           \A n \in Planned : \A i \in ChangeLines(t, n) : t[i].after = cur[n]
    PROVE  /\ AtHead(s \o t, cur, h)
           /\ \A n \in Planned : Now(s \o t, n) = IF ChangeLines(t, n) = {} THEN Now(s, n) ELSE cur[n]
<1> DEFINE st == s \o t
<1>1. ASSUME NEW n \in Planned
      PROVE  Now(st, n) = IF ChangeLines(t, n) = {} THEN Now(s, n) ELSE cur[n]
  <2>1. Now(st, n) = IF ChangeLines(t, n) = {} THEN Now(s, n) ELSE Now(t, n)
    BY NowConcat
  <2>2. ChangeLines(t, n) # {} => Now(t, n) = cur[n]
    BY LatestChange
  <2> QED
    BY <2>1, <2>2
<1>2. \A i \in DOMAIN st :
            \/ i \in DOMAIN s /\ st[i] = s[i]
            \/ i \notin DOMAIN s /\ i - Len(s) \in DOMAIN t /\ st[i] = t[i - Len(s)]
  BY ConcatLines, Zenon
<1> HIDE DEF st
<1>3. ASSUME NEW i \in DOMAIN st, st[i].event \in ChangeKinds, st[i].eid.head = h, st[i].key \in Planned
      PROVE  Now(st, st[i].key) = cur[st[i].key]
  <2>1. CASE i \in DOMAIN s /\ st[i] = s[i]
    <3>1. Now(s, st[i].key) = cur[st[i].key]
      BY <1>3, <2>1 DEF AtHead
    <3> QED
      BY <1>1, <1>3, <3>1
  <2>2. CASE i - Len(s) \in DOMAIN t /\ st[i] = t[i - Len(s)]
    <3>1. i - Len(s) \in ChangeLines(t, st[i].key)
      BY <1>3, <2>2 DEF ChangeLines
    <3> QED
      BY <1>1, <1>3, <3>1
  <2> QED
    BY <1>2, <2>1, <2>2
<1>4. AtHead(st, cur, h)
  BY <1>3 DEF AtHead
<1> QED
  BY <1>1, <1>4 DEF st

\* A registered event or a refresh receipt says nothing of the nodes.
LEMMA SilentLine ==
    ASSUME NEW s \in Seq(Event), NEW line \in Event, line.event \notin ChangeKinds \cup TaskBearing
    PROVE  /\ Append(s, line) = s \o <<line>> /\ <<line>> \in Seq(Event)
           /\ Told(<<line>>) /\ \A n : ChangeLines(<<line>>, n) = {}
<1> DEFINE t == <<line>>
<1>1. t \in Seq(Event) /\ Append(s, line) = s \o t
  OBVIOUS
<1>2. DOMAIN t = {1} /\ t[1] = line
  OBVIOUS
<1> HIDE DEF t
<1>3. Told(t) /\ \A n : ChangeLines(t, n) = {}
  BY <1>2 DEF Told, ToldChange, ToldReceipt, ChangeLines
<1> QED
  BY <1>1, <1>3 DEF t

-----------------------------------------------------------------------------
(***************************************************************************)
(* What the event builder makes of a sound op: the next event of the op's  *)
(* node, ending at the spec's hash, with its receipt behind it; or nothing *)
(* when an event of this commit, or a removal, has already done it.        *)
(***************************************************************************)
SoundLines(tr, j, cur, h, op, s) ==
    /\ Told(s) /\ HeadLines(tr, h, s)
    /\ \A n \in Planned : \A i, k \in ChangeLines(s, n) :
          i = k /\ OpFor(tr, op, n) /\ s[i].before = Now(j, n) /\ s[i].after = cur[n]

\* Every planned node of the op has its event among the lines or in the batch, or
\* is where the spec has it.
Reaches(tr, j, cur, op, b, s) ==
    \A n \in Planned : OpFor(tr, op, n) =>
        \/ ChangeLines(s, n) # {} \/ ChangeLines(b, n) # {}
        \/ Now(j, n) = cur[n]

\* An event and the receipt behind it are sound.
LEMMA EventAndReceiptSound ==
    ASSUME NEW tr, NEW j, NEW cur, NEW h \in Nat, NEW op, NEW n \in Nodes, NEW ev, NEW rc,
           Kind[n] \in PlanRelevant,
           ev.event \in ChangeKinds, ev.key = n, ev.eid.head = h, rc.eid = None,
           rc.event \in ReceiptKinds, rc.event \in TaskBearing => rc.for = ev.eid,
           ev.eid.src = "close" => ev.eid.key \in DOMAIN tr /\ tr[ev.eid.key].key = n,
           n \in Planned =>
               /\ OpFor(tr, op, n) /\ ev.before = Now(j, n) /\ ev.after = cur[n]
               /\ ev.event = "removed" <=> ev.after = None
               /\ ev.event # "removed" => rc.event \in TaskBearing
    PROVE  /\ SoundLines(tr, j, cur, h, op, <<ev, rc>>)
           /\ ChangeLines(<<ev, rc>>, n) # {}
<1> DEFINE s == <<ev, rc>>
<1>1. DOMAIN s = {1, 2} /\ s[1] = ev /\ s[2] = rc
  OBVIOUS
<1>2. rc.event \notin ReferentKinds /\ rc.event \notin ChangeKinds /\ ev.event \notin TaskBearing
  BY DEF ReferentKinds, ChangeKinds, ReceiptKinds, TaskBearing
<1>3. 1 + 1 = 2 /\ 2 - 1 = 1
  OBVIOUS
<1> HIDE DEF s
<1>4. HeadLine(tr, h, ev) /\ HeadLine(tr, h, rc)
  BY <1>2 DEF HeadLine, ReferentKinds
<1>5. ToldChange(s, 1) /\ ToldReceipt(s, 1)
  BY <1>1, <1>2, <1>3 DEF ToldChange, ToldReceipt
<1>6. ToldChange(s, 2) /\ ToldReceipt(s, 2)
  BY <1>1, <1>2, <1>3 DEF ToldChange, ToldReceipt
<1>7. Told(s) /\ HeadLines(tr, h, s)
  BY <1>1, <1>4, <1>5, <1>6 DEF Told, HeadLines
<1>8. \A m : \A i \in ChangeLines(s, m) : i = 1 /\ m = n
  BY <1>1, <1>2 DEF ChangeLines
<1>9. 1 \in ChangeLines(s, n)
  BY <1>1 DEF ChangeLines
<1>10. SoundLines(tr, j, cur, h, op, s)
  BY <1>1, <1>7, <1>8 DEF SoundLines
<1> QED
  BY <1>9, <1>10 DEF s

\* An id that is known when an op is reached is that of an event of its node.
LEMMA KnownIsChange ==
    ASSUME NEW tr, NEW s \in Seq(Event), GoodLines(tr, s), NEW h, HeadLines(tr, h, s),
           NEW e \in KnownEIDs(s), e.src # "registered"
    PROVE  \E i \in DOMAIN s : /\ s[i].event \in ChangeKinds /\ s[i].eid = e
                               /\ e.src # "close" => s[i].key = e.key
                               /\ e.src = "close" => s[i].key = tr[e.key].key
<1>2. PICK i \in DOMAIN s : s[i].eid = e /\ e # None
  BY DEF KnownEIDs
<1>3. s[i].event \in ReferentKinds
  BY <1>2 DEF HeadLines, HeadLine
<1>4. s[i].event # "registered"
  BY <1>2 DEF GoodLines, GoodLine
<1>5. s[i].event \in ChangeKinds
  BY <1>3, <1>4 DEF ReferentKinds
<1>6. e.src # "close" => s[i].key = e.key
  BY <1>2, <1>3 DEF GoodLines, GoodLine
<1>7. e.src = "close" => s[i].key = tr[e.key].key
  BY <1>2, <1>5 DEF HeadLines, HeadLine
<1> QED
  BY <1>2, <1>5, <1>6, <1>7

LEMMA BuiltLinesSound ==
    ASSUME NEW tr \in Seq(Task), NEW j \in Seq(Event), NEW b \in Seq(Event),
           Answered(j), UniqueEIDs(j), Accounted(j), Told(j),
           GoodLines(tr, j), GoodLines(tr, b), LabelsTell(tr), NEW cur \in [Nodes -> MaybeHash],
           NEW c, c.head \in Nat, AtHead(j, cur, c.head),
           HeadLines(tr, c.head, j),
           HeadLines(tr, c.head, b),
           NEW op \in c.ops, CompleteOp(op), LinkedOp(j, tr, c, op), SoundOp(tr, cur, op),
           op.act \in {"create", "retarget"} => Kind[op.key] \in PlanRelevant,
           ~OpRefused(j, b, cur, c.head, op), NEW t
    PROVE  LET lines == BuildOp(j, b, cur, c.head, op, t)
           IN  SoundLines(tr, j, cur, c.head, op, lines) /\ Reaches(tr, j, cur, op, b, lines)
<1> DEFINE lines == BuildOp(j, b, cur, c.head, op, t)
           Sound(s) == SoundLines(tr, j, cur, c.head, op, s)
           Reached(s) == Reaches(tr, j, cur, op, b, s)
<1>0. Planned \subseteq Nodes
  BY DEF Planned
<1>1. \A kind, eid, n, before, after : LET ev == ChangeEvent(kind, eid, n, before, after) IN
         ev.event = kind /\ ev.eid = eid /\ ev.key = n /\ ev.before = before /\ ev.after = after
  BY DEF ChangeEvent
<1>2. \A kind, for, task : LET rc == TaskReceipt(kind, for, task) IN
         rc.event = kind /\ rc.key = None /\ rc.for = for /\ rc.eid = None
  BY DEF TaskReceipt
<1>3. op \in Op /\ op.act \in OpActs
  BY DEF CompleteOp, Op
<1>d. \A act, key : LET e == DeriveEID(c.head, act, key) IN
         e.src = act /\ e.key = key /\ e.head = c.head
  BY DEF DeriveEID
<1>n. Sound(<<>>)
  BY DEF SoundLines, Told, ChangeLines, HeadLines
<1>f. ASSUME NEW n \in Planned
      PROVE  /\ FoldHas(j, n) => Fold(j)[n].after = Now(j, n)
             /\ PriorHash(j, n) = Now(j, n)
             /\ FoldHas(j, n) /\ Fold(j)[n].removed => Now(j, n) = None
  <2>1. /\ FoldHas(j, n) <=> ChangeLines(j, n) # {}
        /\ Paired(Fold(j), n) <=> Now(j, n) # None
        /\ FoldHas(j, n) => Fold(j)[n].after = Now(j, n)
    BY FoldIsNow
  <2>2. ChangeLines(j, n) = {} => Now(j, n) = None
    BY DEF Now
  <2> QED
    BY <2>1, <2>2 DEF PriorHash, Paired
<1>k. /\ {"added", "modified", "removed"} = ChangeKinds
      /\ {"task_created", "task_retargeted"} = TaskBearing
      /\ TaskBearing \cup {"task_closed"} = ReceiptKinds /\ "task_closed" \notin TaskBearing
  BY DEF ChangeKinds, TaskBearing, ReceiptKinds
<1>h. ASSUME op.act \in {"create", "cleanup", "retarget", "close"},
             HasEID(j, b, DeriveEID(c.head, op.act, op.key))
      PROVE  Reached(<<>>)
  <2> SUFFICES ASSUME NEW n \in Planned, OpFor(tr, op, n)
               PROVE  ChangeLines(b, n) # {} \/ Now(j, n) = cur[n]
    BY DEF Reaches
  <2> DEFINE e == DeriveEID(c.head, op.act, op.key)
  <2>1. op.act = "close" => tr[op.key].key = n
    BY DEF OpFor, SoundOp
  <2>2. op.act # "close" => op.key = n
    BY DEF OpFor
  <2>3. e.src = op.act /\ e.key = op.key /\ e.head = c.head /\ e.src # "registered"
    BY <1>d, <1>h
  <2>4. e \in KnownEIDs(j) \/ e \in KnownEIDs(b)
    BY <1>h DEF HasEID
  <2> HIDE DEF e
  <2>5. CASE e \in KnownEIDs(j)
    <3>1. PICK i \in DOMAIN j : /\ j[i].event \in ChangeKinds /\ j[i].eid = e
                                /\ e.src # "close" => j[i].key = e.key
                                /\ e.src = "close" => j[i].key = tr[e.key].key
      BY <2>3, <2>5, KnownIsChange
    <3>2. j[i].key = n
      BY <2>1, <2>2, <2>3, <3>1
    <3> QED
      BY <2>3, <3>1, <3>2 DEF AtHead
  <2>6. CASE e \in KnownEIDs(b)
    <3>1. PICK i \in DOMAIN b : /\ b[i].event \in ChangeKinds /\ b[i].eid = e
                                /\ e.src # "close" => b[i].key = e.key
                                /\ e.src = "close" => b[i].key = tr[e.key].key
      BY <2>3, <2>6, KnownIsChange
    <3>2. b[i].key = n
      BY <2>1, <2>2, <2>3, <3>1
    <3> QED
      BY <3>1, <3>2 DEF ChangeLines
  <2> QED
    BY <2>4, <2>5, <2>6
<1>o. ASSUME NEW n \in Nodes, \A m \in Planned : OpFor(tr, op, m) => m = n,
             NEW s, ChangeLines(s, n) # {}
      PROVE  Reached(s)
  BY <1>o DEF Reaches
<1> HIDE DEF Sound, Reached
<1>4. CASE op.act = "epic"
  <2> DEFINE rc == TaskReceipt("task_created", Registration(j, op.key), t)
  <2>1. lines = <<rc>> \/ lines = <<>>
    BY <1>4 DEF BuildOp, BuildEpicCreate
  <2>2. lines # <<>> => ~FoldHas(j, op.key)
    BY <1>4 DEF BuildOp, BuildEpicCreate
  <2>3. lines # <<>> => Registration(j, op.key) # None
    BY <1>4, <2>2 DEF OpRefused
  <2>4. lines # <<>> => Registration(j, op.key).key \notin Nodes
    BY <1>4, <2>3, RegistrationTells, JournalAssumption DEF CompleteOp
  <2>5. rc.event = "task_created" /\ rc.for = Registration(j, op.key) /\ rc.eid = None
    BY <1>2
  <2> HIDE DEF rc
  <2>6. lines # <<>> => Sound(<<rc>>)
    <3> DEFINE s == <<rc>>
    <3>1. DOMAIN s = {1} /\ s[1] = rc
      OBVIOUS
    <3>2. rc.event \notin ChangeKinds
      BY <2>5 DEF ChangeKinds
    <3> HIDE DEF s
    <3>3. HeadLine(tr, c.head, rc)
      BY <2>5, <3>2 DEF HeadLine
    <3>4. lines # <<>> => Told(s)
      BY <2>4, <2>5, <3>1, <3>2 DEF Told, ToldChange, ToldReceipt
    <3>5. \A n : ChangeLines(s, n) = {}
      BY <3>1, <3>2 DEF ChangeLines
    <3>6. lines # <<>> => Sound(s)
      BY <3>1, <3>3, <3>4, <3>5 DEF Sound, SoundLines, HeadLines
    <3> QED
      BY <3>6 DEF s
  <2>7. Sound(lines)
    BY <1>n, <2>1, <2>6
  <2>8. \A n : ~OpFor(tr, op, n)
    BY <1>4 DEF OpFor
  <2> QED
    BY <2>7, <2>8 DEF Sound, Reaches
<1>5. CASE op.act = "create"
  <2> DEFINE n == op.key
             eid == DeriveEID(c.head, "create", n)
             prior == PriorHash(j, n)
             ev == ChangeEvent(IF prior = None THEN "added" ELSE "modified", eid, n, prior, cur[n])
             rc == TaskReceipt("task_created", eid, t)
  <2>1. lines = IF HasEID(j, b, eid) THEN <<>> ELSE <<ev, rc>>
    BY <1>5 DEF BuildOp, BuildNodeCreate
  <2>2. /\ ev.event \in {"added", "modified"} /\ ev.eid = eid /\ ev.key = n
        /\ ev.before = prior /\ ev.after = cur[n]
        /\ rc.event = "task_created" /\ rc.for = eid /\ rc.eid = None
    BY <1>1, <1>2
  <2>3. eid.src = "create" /\ eid.head = c.head
    BY <1>d
  <2>4. n \in Nodes /\ Kind[n] \in PlanRelevant
    BY <1>5 DEF CompleteOp
  <2>5. \A m : OpFor(tr, op, m) <=> m = n
    BY <1>5 DEF OpFor
  <2>6. n \in Planned => cur[n] # None
    BY <1>5, <2>5 DEF SoundOp
  <2>7. n \in Planned => prior = Now(j, n)
    BY <1>f
  <2> HIDE DEF n, ev, rc, prior
  <2>8. Sound(<<ev, rc>>) /\ ChangeLines(<<ev, rc>>, n) # {}
    <3>1. ev.event # "removed" /\ ev.event \in ChangeKinds /\ rc.event \in TaskBearing
          /\ rc.event \in ReceiptKinds
      BY <1>k, <2>2
    <3> HIDE DEF eid
    <3> QED
      BY <2>2, <2>3, <2>4, <2>5, <2>6, <2>7, <3>1, EventAndReceiptSound, ZenonT(60) DEF Sound
  <2>9. CASE HasEID(j, b, eid)
    BY <1>5, <1>h, <1>n, <2>1, <2>9 DEF Sound, Reached, n
  <2>10. CASE ~HasEID(j, b, eid)
    BY <1>o, <2>1, <2>4, <2>5, <2>8, <2>10 DEF Sound, Reached
  <2> QED
    BY <2>9, <2>10
<1>6. CASE op.act = "cleanup"
  <2> DEFINE n == op.key
             entry == Fold(j)[n]
             eid == DeriveEID(c.head, "cleanup", n)
             ev == ChangeEvent("removed", eid, n, entry.after, None)
             rc == TaskReceipt("task_created", eid, t)
  <2>0. n \in Nodes /\ FoldHas(j, n) /\ LastWord(j, n) /\ Kind[n] \in PlanRelevant
    BY <1>6 DEF CompleteOp, OpRefused, LinkedOp, SoundOp
  <2>1. entry.task # NoTask
    BY <2>0, NoBareTombstone
  <2>2. /\ entry.removed => lines = <<>>
        /\ ~entry.removed => lines = IF HasEID(j, b, eid) THEN <<>> ELSE <<ev, rc>>
    BY <1>6, <2>1 DEF BuildOp, BuildCleanupCreate
  <2>3. /\ ev.event = "removed" /\ ev.eid = eid /\ ev.key = n
        /\ ev.before = entry.after /\ ev.after = None
        /\ rc.event = "task_created" /\ rc.for = eid /\ rc.eid = None
    BY <1>1, <1>2
  <2>4. eid.src = "cleanup" /\ eid.head = c.head
    BY <1>d
  <2>5. \A m : OpFor(tr, op, m) <=> m = n
    BY <1>6 DEF OpFor
  <2>6. n \in Planned => cur[n] = None
    BY <1>6, <2>5 DEF SoundOp
  <2>7. n \in Planned => entry.after = Now(j, n) /\ (entry.removed => Now(j, n) = None)
    BY <1>f, <2>0
  <2> HIDE DEF n, ev, rc, entry
  <2>8. Sound(<<ev, rc>>) /\ ChangeLines(<<ev, rc>>, n) # {}
    <3>1. ev.event \in ChangeKinds /\ rc.event \in TaskBearing /\ rc.event \in ReceiptKinds
      BY <1>k, <2>3
    <3> HIDE DEF eid
    <3> QED
      BY <2>0, <2>3, <2>4, <2>5, <2>6, <2>7, <3>1, EventAndReceiptSound, ZenonT(60) DEF Sound
  <2>9. CASE entry.removed
    <3>1. Reached(<<>>)
      BY <2>5, <2>6, <2>7, <2>9 DEF Reached, Reaches
    <3> QED
      BY <1>n, <2>2, <2>9, <3>1 DEF Sound, Reached
  <2>10. CASE ~entry.removed /\ HasEID(j, b, eid)
    BY <1>6, <1>h, <1>n, <2>2, <2>10 DEF Sound, Reached, n
  <2>11. CASE ~entry.removed /\ ~HasEID(j, b, eid)
    BY <1>o, <2>0, <2>2, <2>5, <2>8, <2>11 DEF Sound, Reached
  <2> QED
    BY <2>9, <2>10, <2>11
<1>7. CASE op.act = "retarget"
  <2> DEFINE n == op.key
             eid == DeriveEID(c.head, "retarget", n)
             ev == ChangeEvent("modified", eid, n, PriorHash(j, n), op.hash)
             rc == TaskReceipt("task_retargeted", eid, op.task)
  <2>1. lines = IF HasEID(j, b, eid) THEN <<>> ELSE <<ev, rc>>
    BY <1>7 DEF BuildOp, BuildRetarget
  <2>2. /\ ev.event = "modified" /\ ev.eid = eid /\ ev.key = n
        /\ ev.before = PriorHash(j, n) /\ ev.after = op.hash
        /\ rc.event = "task_retargeted" /\ rc.for = eid /\ rc.eid = None
    BY <1>1, <1>2
  <2>3. eid.src = "retarget" /\ eid.head = c.head
    BY <1>d
  <2>4. n \in Nodes /\ Kind[n] \in PlanRelevant
    BY <1>7 DEF CompleteOp
  <2>5. \A m : OpFor(tr, op, m) <=> m = n
    BY <1>7 DEF OpFor
  <2>6. n \in Planned => cur[n] # None /\ op.hash = cur[n]
    BY <1>7, <2>5 DEF SoundOp
  <2>7. n \in Planned => PriorHash(j, n) = Now(j, n)
    BY <1>f
  <2> HIDE DEF n, ev, rc
  <2>8. Sound(<<ev, rc>>) /\ ChangeLines(<<ev, rc>>, n) # {}
    <3>1. ev.event # "removed" /\ ev.event \in ChangeKinds /\ rc.event \in TaskBearing
          /\ rc.event \in ReceiptKinds
      BY <1>k, <2>2
    <3> HIDE DEF eid
    <3> QED
      BY <2>2, <2>3, <2>4, <2>5, <2>6, <2>7, <3>1, EventAndReceiptSound, ZenonT(60) DEF Sound
  <2>9. CASE HasEID(j, b, eid)
    BY <1>7, <1>h, <1>n, <2>1, <2>9 DEF Sound, Reached, n
  <2>10. CASE ~HasEID(j, b, eid)
    BY <1>o, <2>1, <2>4, <2>5, <2>8, <2>10 DEF Sound, Reached
  <2> QED
    BY <2>9, <2>10
<1>8. CASE op.act = "close"
  <2> DEFINE n == tr[op.task].key
             m == ClosedNode(j, op)
             eid == DeriveEID(c.head, "close", op.key)
             ev == IF op.why = "removed"
                   THEN ChangeEvent("removed", eid, m, Fold(j)[m].after, None)
                   ELSE ChangeEvent("modified", eid, m, Fold(j)[m].after, cur[m])
             rc == TaskReceipt("task_closed", eid, t)
  <2>1. lines = IF HasEID(j, b, eid) THEN <<>> ELSE <<ev, rc>>
    BY <1>8 DEF BuildOp, BuildClose
  <2>2. op.task \in DOMAIN tr /\ op.key = op.task /\ n \in Nodes /\ Kind[n] \in PlanRelevant
    BY <1>8 DEF LinkedOp, SoundOp
  <2>3. ~HasEID(j, b, eid) => m = n /\ n \in DOMAIN Fold(j)
    <3> SUFFICES ASSUME ~HasEID(j, b, eid) PROVE m = n /\ n \in DOMAIN Fold(j)
      OBVIOUS
    <3>1. EntriesByTask(j, op.task) # {}
      BY <1>8 DEF OpRefused
    <3>2. m \in EntriesByTask(j, op.task)
      BY <3>1 DEF ClosedNode
    <3> HIDE DEF m
    <3>3. m \in DOMAIN Fold(j) /\ Fold(j)[m].task = op.task /\ op.task # NoTask
      BY <2>2, <3>2 DEF EntriesByTask, NoTask
    <3> QED
      BY <3>3, FoldNamesTask
  <2>4. /\ op.why = "removed" => ev.event = "removed" /\ ev.after = None
        /\ op.why # "removed" => ev.event = "modified" /\ ev.after = cur[m]
        /\ ev.eid = eid /\ ev.key = m /\ ev.before = Fold(j)[m].after
        /\ rc.event = "task_closed" /\ rc.eid = None
    BY <1>1, <1>2
  <2>5. eid.src = "close" /\ eid.head = c.head /\ eid.key = op.task
    BY <1>d, <2>2
  <2>6. \A k : OpFor(tr, op, k) <=> k = n
    BY <1>8 DEF OpFor
  <2>7. n \in Planned => cur[n] = None /\ op.why = "removed"
    BY <1>8, <2>6 DEF SoundOp
  <2>8. n \in Planned /\ n \in DOMAIN Fold(j) => Fold(j)[n].after = Now(j, n)
    BY <1>f, FoldHasDomain DEF Planned
  <2> HIDE DEF n, m, ev, rc
  <2>9. ~HasEID(j, b, eid) => Sound(<<ev, rc>>) /\ ChangeLines(<<ev, rc>>, n) # {}
    <3> SUFFICES ASSUME ~HasEID(j, b, eid) PROVE Sound(<<ev, rc>>) /\ ChangeLines(<<ev, rc>>, n) # {}
      OBVIOUS
    <3>1. ev.event \in ChangeKinds /\ rc.event \notin TaskBearing /\ rc.event \in ReceiptKinds
      BY <1>k, <2>4
    <3>2. ev.key = n /\ ev.eid.head = c.head /\ ev.eid.key \in DOMAIN tr /\ tr[ev.eid.key].key = n
      BY <2>2, <2>3, <2>4, <2>5 DEF n
    <3>3. n \in Planned => /\ ev.before = Now(j, n) /\ ev.after = cur[n]
                           /\ ev.event = "removed" /\ ev.after = None
      BY <2>3, <2>4, <2>7, <2>8
    <3> HIDE DEF eid
    <3> QED
      BY <2>2, <2>4, <2>6, <3>1, <3>2, <3>3, EventAndReceiptSound DEF Sound
  <2>10. CASE HasEID(j, b, eid)
    BY <1>8, <1>h, <1>n, <2>1, <2>10 DEF Sound, Reached
  <2>11. CASE ~HasEID(j, b, eid)
    BY <1>o, <2>1, <2>2, <2>6, <2>9, <2>11 DEF Sound, Reached
  <2> QED
    BY <2>10, <2>11
<1> QED
  BY <1>3, <1>4, <1>5, <1>6, <1>7, <1>8 DEF OpActs

-----------------------------------------------------------------------------
(***************************************************************************)
(* What plan writes over a journal that knows, of every planned node,      *)
(* either the baseline's hash or the spec's: one op for each node that is  *)
(* not yet where the spec has it, and it does what the spec says.          *)
(***************************************************************************)
LEMMA PlanCovers ==
    ASSUME NEW j \in Seq(Event), tracker \in Seq(Task), Answered(j), UniqueEIDs(j), Accounted(j),
           GoodLines(tracker, j), LabelsTell(tracker), Told(j),
           NEW cur, NEW base, NEW edges0, NEW head0, NEW stem,
           \A n \in Planned : Now(j, n) \in {base[n], cur[n]},
           NEW changes, changes = Diff(cur, base),
           ~PlanRefused(j, cur, edges0, ExportTasks, stem, changes),
           NEW ops, ops = BuildOps(j, cur, edges0, ExportTasks, head0, stem, changes)
    PROVE  SoundOps(tracker, cur, ops) /\ Covered(j, tracker, cur, ops)
<1> DEFINE fold == Fold(j)
           creates == ToCreate(changes, cur, edges0, fold, ExportTasks)
           cleanups == ToCleanUp(changes, cur, fold, ExportTasks)
           retargets == ToRetarget(changes, cur, edges0, fold, ExportTasks)
           closes == ToClose(changes, cur, edges0, fold, ExportTasks)
           ids == CreateIDs(creates, cleanups)
           createOp(n) == CreateOp(fold, ExportTasks, head0, stem, ids,
                                   LayerEdges(creates, cleanups, n),
                                   CreateDeps(changes, cur, edges0, n), n)
           cleanupOp(n) == CleanupOp(fold, head0, stem, ids, LayerEdges(creates, cleanups, n),
                                     {fold[m].task : m \in retargets}, n)
           retargetOp(n) == RetargetOp(fold, cur, edges0, ExportTasks, head0, ids, n)
           closeOp(n) == CloseOp(fold, cur, n)
           epic == IF NeedsEpic(fold, stem) THEN {EpicOp(j, stem)} ELSE {}
           status(n) == Status(ExportTasks, fold[n].task)
<1>1. ops = epic \cup {createOp(n) : n \in creates} \cup {cleanupOp(n) : n \in cleanups}
              \cup {retargetOp(n) : n \in retargets} \cup {closeOp(n) : n \in closes}
  BY DEF BuildOps
<1>c. changes \subseteq Nodes /\ \A n \in Nodes : n \in changes <=> cur[n] # base[n]
  BY DEF Diff
<1>p. \A n \in Planned : n \in Nodes /\ Kind[n] \in {"component", "data_flow"}
  BY DEF Planned
<1>2. /\ \A n \in cleanups \cup retargets \cup closes : n \in Nodes /\ Paired(fold, n)
      /\ \A n \in retargets \cup closes : status(n) = "open"
      /\ \A n \in cleanups : status(n) = "absent" /\ cur[n] = None
      /\ \A n \in retargets \cup creates : n \in Nodes /\ cur[n] # None
      /\ \A n \in creates : Paired(fold, n) => status(n) = "absent"
      /\ \A n \in closes : cur[n] = None \/ Kind[n] = "test_section"
  BY <1>c DEF ToCreate, ToCleanUp, ToRetarget, ToClose, Tracked, FoldedBack, Matched, Unmatched,
              Orphaned, Foldback
<1>4. \A n \in cleanups \cup closes : Kind[n] \in PlanRelevant
  BY <1>2, PairedIsWorkable, JournalAssumption DEF Workable
<1>5. ASSUME NEW n \in Nodes, Paired(fold, n)
      PROVE  /\ fold[n].task \in DOMAIN tracker /\ tracker[fold[n].task].key = n
             /\ status(n) \in {"absent", "open", "in_progress"}
  <2>1. LastWord(j, n)
    BY <1>5, PairedLastWord
  <2>2. n \in DOMAIN fold /\ FoldHas(j, n)
    BY <1>5, FoldHasDomain DEF Paired
  <2>3. fold[n].task # NoTask
    BY <2>1, <2>2, NoBareTombstone
  <2>4. fold[n].task \in DOMAIN tracker /\ tracker[fold[n].task].key = n
    BY <2>2, <2>3, FoldNamesTask
  <2>5. tracker[fold[n].task].status \in {"open", "in_progress", "closed"}
    <3>1. \A t \in DOMAIN tracker : tracker[t] \in Task
      OBVIOUS
    <3>2. \A task \in Task : task.status \in {"open", "in_progress", "closed"}
      BY DEF Task
    <3> HIDE DEF fold
    <3> QED
      BY <2>4, <3>1, <3>2
  <2> QED
    BY <2>4, <2>5 DEF Status, ExportTasks
<1>3. \A n \in retargets \cup closes :
         fold[n].task \in DOMAIN tracker /\ tracker[fold[n].task].key = n
  BY <1>2, <1>5
<1>6. Claimed(changes, cur, edges0, fold, ExportTasks) = {}
  BY DEF PlanRefused
<1>7. ASSUME NEW n \in Planned
      PROVE  \/ Now(j, n) = cur[n]
             \/ n \in creates \/ n \in cleanups \/ n \in retargets \/ n \in closes
  <2> SUFFICES ASSUME Now(j, n) # cur[n]
               PROVE  n \in creates \/ n \in cleanups \/ n \in retargets \/ n \in closes
    OBVIOUS
  <2>1. Now(j, n) = base[n] /\ n \in changes /\ n \in Nodes /\ ~Structural(n)
    BY <1>c, <1>p DEF Structural
  <2>2. /\ Paired(fold, n) <=> Now(j, n) # None
        /\ Paired(fold, n) => fold[n].after = Now(j, n)
    <3>1. /\ FoldHas(j, n) <=> ChangeLines(j, n) # {}
          /\ Paired(Fold(j), n) <=> Now(j, n) # None
          /\ FoldHas(j, n) => Fold(j)[n].after = Now(j, n)
      BY FoldIsNow
    <3>2. Paired(fold, n) => FoldHas(j, n)
      BY <2>1, FoldHasDomain DEF Paired
    <3> QED
      BY <3>1, <3>2
  <2>3. ~Foldback(edges0, n) /\ GateAdmits(edges0, n)
    BY <1>p DEF Foldback, GateAdmits, PlanRelevant
  <2>4. CASE cur[n] # None /\ ~Paired(fold, n)
    <3>1. n \in Unmatched(changes, cur, fold)
      BY <2>1, <2>4 DEF Unmatched
    <3> QED
      BY <2>3, <3>1 DEF ToCreate
  <2>5. CASE cur[n] # None /\ Paired(fold, n)
    <3>1. n \in Tracked(changes, cur, edges0, fold)
      BY <2>1, <2>2, <2>3, <2>5 DEF Tracked, Matched, AlreadyTracked
    <3>2. status(n) # "in_progress"
      BY <1>6, <3>1 DEF Claimed
    <3>3. status(n) \in {"absent", "open"}
      BY <1>5, <2>1, <2>5, <3>2
    <3> QED
      BY <3>1, <3>3 DEF ToCreate, ToRetarget
  <2>6. CASE cur[n] = None
    <3>1. Paired(fold, n)
      BY <2>2, <2>6
    <3>2. \A m \in Matched(changes, cur, fold) : fold[m].task # fold[n].task
      <4>1. TAKE m \in Matched(changes, cur, fold)
      <4>2. m \in Nodes /\ Paired(fold, m) /\ m # n
        BY <1>c, <2>6 DEF Matched
      <4>3. tracker[fold[m].task].key = m /\ tracker[fold[n].task].key = n
        BY <1>5, <2>1, <3>1, <4>2
      <4> QED
        BY <4>2, <4>3
    <3>3. n \in Orphaned(changes, cur, fold)
      BY <2>1, <2>6, <3>1, <3>2 DEF Orphaned
    <3>4. status(n) # "in_progress"
      BY <1>6, <3>3 DEF Claimed
    <3>5. status(n) \in {"absent", "open"}
      BY <1>5, <2>1, <3>1, <3>4
    <3> QED
      BY <3>3, <3>5 DEF ToCleanUp, ToClose
  <2> QED
    BY <2>4, <2>5, <2>6
<1> HIDE DEF fold, creates, cleanups, retargets, closes, ids, status
<1>8. /\ \A n : /\ createOp(n).act = "create" /\ createOp(n).key = n
                /\ cleanupOp(n).act = "cleanup" /\ cleanupOp(n).key = n
                /\ retargetOp(n).act = "retarget" /\ retargetOp(n).key = n
                /\ retargetOp(n).hash = cur[n]
                /\ closeOp(n).act = "close" /\ closeOp(n).task = fold[n].task
                /\ closeOp(n).key = fold[n].task
                /\ cur[n] = None => closeOp(n).why = "removed"
      /\ \A o \in epic : o.act = "epic"
  BY DEF CreateOp, CleanupOp, RetargetOp, CloseOp, EpicOp
<1> HIDE DEF createOp, cleanupOp, retargetOp, closeOp, epic
<1>9. ASSUME NEW op \in ops, NEW n, OpFor(tracker, op, n)
      PROVE  \/ n \in creates /\ op = createOp(n)
             \/ n \in cleanups /\ op = cleanupOp(n)
             \/ n \in retargets /\ op = retargetOp(n)
             \/ n \in closes /\ op = closeOp(n)
  <2>1. CASE op \in epic
    BY <1>8, <1>9, <2>1 DEF OpFor
  <2>2. ASSUME NEW m \in creates, op = createOp(m) PROVE m = n
    BY <1>8, <1>9, <2>2 DEF OpFor
  <2>3. ASSUME NEW m \in cleanups, op = cleanupOp(m) PROVE m = n
    BY <1>8, <1>9, <2>3 DEF OpFor
  <2>4. ASSUME NEW m \in retargets, op = retargetOp(m) PROVE m = n
    BY <1>8, <1>9, <2>4 DEF OpFor
  <2>5. ASSUME NEW m \in closes, op = closeOp(m) PROVE m = n
    BY <1>3, <1>8, <1>9, <2>5 DEF OpFor
  <2> QED
    BY <1>1, <2>1, <2>2, <2>3, <2>4, <2>5
<1>10. ASSUME NEW n \in Planned
       PROVE  /\ n \notin cleanups \cup closes \/ n \notin creates \cup retargets
              /\ n \notin cleanups \/ n \notin closes
              /\ n \notin creates \/ n \notin retargets
  <2>1. Kind[n] # "test_section"
    BY <1>p
  <2>2. /\ n \in cleanups \cup closes => cur[n] = None
        /\ n \in creates \cup retargets => cur[n] # None
    BY <1>2, <2>1
  <2>3. /\ n \in cleanups => status(n) = "absent"
        /\ n \in closes \cup retargets => status(n) = "open"
        /\ n \in retargets /\ n \in creates => status(n) = "absent"
    BY <1>2
  <2> QED
    BY <2>2, <2>3
<1>11. ASSUME NEW op \in ops PROVE SoundOp(tracker, cur, op)
  <2>1. op.act = "close" => /\ op.key = op.task /\ tracker[op.task].key \in Nodes
                            /\ Kind[tracker[op.task].key] \in PlanRelevant
    <3> SUFFICES ASSUME op.act = "close"
                 PROVE  /\ op.key = op.task /\ tracker[op.task].key \in Nodes
                        /\ Kind[tracker[op.task].key] \in PlanRelevant
      OBVIOUS
    <3>1. PICK n \in closes : op = closeOp(n)
      BY <1>1, <1>8
    <3>2. op.key = op.task /\ tracker[op.task].key = n
      BY <1>3, <1>8, <3>1
    <3> QED
      BY <1>2, <1>4, <3>2
  <2>2. op.act = "cleanup" => Kind[op.key] \in PlanRelevant
    <3> SUFFICES ASSUME op.act = "cleanup" PROVE Kind[op.key] \in PlanRelevant
      OBVIOUS
    <3>1. PICK n \in cleanups : op = cleanupOp(n)
      BY <1>1, <1>8
    <3> QED
      BY <1>4, <1>8, <3>1
  <2>3. ASSUME NEW n \in Planned, OpFor(tracker, op, n)
        PROVE  /\ op.act = "create" => cur[n] # None
               /\ op.act = "retarget" => cur[n] # None /\ op.hash = cur[n]
               /\ op.act \in {"cleanup", "close"} => cur[n] = None
               /\ op.act = "close" => op.why = "removed"
    <3>1. Kind[n] # "test_section"
      BY <1>p
    <3>2. CASE n \in creates /\ op = createOp(n)
      BY <1>2, <1>8, <3>2
    <3>3. CASE n \in cleanups /\ op = cleanupOp(n)
      BY <1>2, <1>8, <3>3
    <3>4. CASE n \in retargets /\ op = retargetOp(n)
      BY <1>2, <1>8, <3>4
    <3>5. CASE n \in closes /\ op = closeOp(n)
      BY <1>2, <1>8, <3>1, <3>5
    <3> QED
      BY <1>9, <2>3, <3>2, <3>3, <3>4, <3>5
  <2> QED
    BY <2>1, <2>2, <2>3 DEF SoundOp
<1>12. ASSUME NEW op \in ops, NEW p \in ops, NEW n \in Planned,
              OpFor(tracker, op, n), OpFor(tracker, p, n)
       PROVE  op = p
  BY <1>9, <1>10, <1>12
<1>13. Covered(j, tracker, cur, ops)
  <2> SUFFICES ASSUME NEW n \in Planned, Now(j, n) # cur[n]
               PROVE  \E op \in ops : OpFor(tracker, op, n)
    BY DEF Covered
  <2>1. CASE n \in creates
    BY <1>1, <1>8, <2>1 DEF OpFor
  <2>2. CASE n \in cleanups
    BY <1>1, <1>8, <2>2 DEF OpFor
  <2>3. CASE n \in retargets
    BY <1>1, <1>8, <2>3 DEF OpFor
  <2>4. CASE n \in closes
    BY <1>1, <1>3, <1>8, <2>4 DEF OpFor
  <2> QED
    BY <1>7, <2>1, <2>2, <2>3, <2>4
<1> QED
  BY <1>11, <1>12, <1>13 DEF SoundOps

-----------------------------------------------------------------------------
(* Every step keeps the round. *)

\* The ids of a journal keep naming their tasks as the tracker grows.
LEMMA HeadLinesGrow ==
    ASSUME NEW tr, NEW tr2, Grown(tr, tr2), NEW h, NEW s, HeadLines(tr, h, s)
    PROVE  HeadLines(tr2, h, s)
<1>1. \A line : HeadLine(tr, h, line) => HeadLine(tr2, h, line)
  BY DEF HeadLine, Grown
<1> QED
  BY <1>1 DEF HeadLines

\* What is said of tasks and of the ops about them outlives the tracker's growth.
LEMMA RoundGrows ==
    ASSUME NEW tr, NEW tr2, Grown(tr, tr2), NEW ops,
           \A op \in ops : op.act = "close" => op.task \in DOMAIN tr
    PROVE  /\ \A cur : SoundOps(tr, cur, ops) => SoundOps(tr2, cur, ops)
           /\ \A j, cur : Covered(j, tr, cur, ops) => Covered(j, tr2, cur, ops)
           /\ \A j, cur, rs, b, dn, n :
                 NodeRound(j, tr, cur, ops, rs, b, dn, n) => NodeRound(j, tr2, cur, ops, rs, b, dn, n)
<1>1. \A op \in ops : op.act = "close" => op.task \in DOMAIN tr2 /\ tr2[op.task].key = tr[op.task].key
  BY DEF Grown
<1>2. \A op \in ops : \A n : OpFor(tr2, op, n) <=> OpFor(tr, op, n)
  BY <1>1 DEF OpFor
<1>4. \A cur : \A op \in ops : SoundOp(tr, cur, op) => SoundOp(tr2, cur, op)
  BY <1>1, <1>2 DEF SoundOp
<1>6. \A cur : SoundOps(tr, cur, ops) => SoundOps(tr2, cur, ops)
  BY <1>2, <1>4 DEF SoundOps
<1>7. \A j, cur : Covered(j, tr, cur, ops) => Covered(j, tr2, cur, ops)
  BY <1>2 DEF Covered
<1>8. \A j, cur, rs, b, dn, n :
         NodeRound(j, tr, cur, ops, rs, b, dn, n) => NodeRound(j, tr2, cur, ops, rs, b, dn, n)
  BY <1>2 DEF NodeRound
<1> QED
  BY <1>6, <1>7, <1>8

\* A step that leaves the spec, the baseline, the journal and the changeset alone.
StillStep ==
    /\ UNCHANGED <<spec, edges, head, snapshot, journal, cs>>
    /\ phase' = phase \/ (phase \in {"planned", "dead"} /\ phase' \in {"dead", "applied"})
    /\ \/ UNCHANGED <<proc, batch, done, receipts>>
       \/ proc' \in {"idle", "adapter"} /\ done' = {}
       \/ proc' = "reconcile" /\ batch' = <<>> /\ done' = {}

\* When runs are plain there are few others.
LEMMA RoundSteps ==
    ASSUME PlainRuns, TypeInv, IDInv, ChangesetRound, BatchRound, [Next]_vars
    PROVE  \/ StillStep
           \/ EditSpec
           \/ RegisterStep /\ UNCHANGED <<spec, edges, head, snapshot, tracker, done, receipts>>
           \/ Planning
           \/ proc = "reconcile" /\ \E op \in cs.ops : ReconcileOp(op)
           \/ IngestCommit
           \/ IngestSave
<1> USE DEF vars, specVars, journalVars, runVars, memVars
<1>1. CASE UNCHANGED vars \/ Work
  <2>1. UNCHANGED <<spec, edges, head, snapshot, journal, cs, phase, proc, batch, done, receipts>>
    BY <1>1 DEF Work, Claim, Finish
  <2> QED
    BY <2>1 DEF StillStep
<1>2. CASE Registering
  <2>1. PICK stem \in Stems : Register(stem) \/ RegisterCrash(stem)
    BY <1>2 DEF Registering
  <2>2. /\ AppendRegistered(stem) /\ proc = "idle" /\ phase \in {"clean", "partial"}
        /\ UNCHANGED <<spec, edges, head, snapshot, tracker, cs, phase, receipts, proc, batch, done>>
    BY <2>1 DEF Register, RegisterCrash
  <2>3. \/ UNCHANGED journal
        \/ /\ RegisteredEID(head, stem) \notin KnownEIDs(journal)
           /\ journal' = Append(journal, RegisteredEvent(head, stem))
    BY <2>2 DEF AppendRegistered
  <2> QED
    BY <2>2, <2>3 DEF StillStep, RegisterStep
<1>3. CASE Applying
  <2>1. CASE AdapterStart
    BY <2>1 DEF AdapterStart, StillStep, BatchRound
  <2>2. CASE AdapterFinish \/ AdapterCrash
    BY <2>2 DEF AdapterFinish, AdapterCrash, Stop, StillStep, TypeInv, CommandsHaveInput, Underway
  <2>3. CASE AdapterStep
    <3>1. UNCHANGED <<spec, edges, head, snapshot, journal, cs, phase, proc, batch, done, receipts>>
      BY <2>3 DEF AdapterStep, AdapterMatch, AdapterCreate, AdapterRetarget,
         AdapterClose, AdapterRefError, AdapterOpFails, adapterFrame
    <3> QED
      BY <3>1 DEF StillStep
  <2> QED
    BY <1>3, <2>1, <2>2, <2>3 DEF Applying
<1>4. CASE Ingesting
  <2>1. CASE IngestStart
    BY <2>1 DEF IngestStart, StillStep, BatchRound, IDInv, BatchIsNew
  <2>2. CASE IngestRefuse \/ IngestCrash
    BY <2>2 DEF IngestRefuse, IngestCrash, Stop, StillStep
  <2>3. CASE proc = "reconcile" /\ ReconcileStep
    <3>1. cs.absorbed = {}
      BY <2>3 DEF ChangesetRound, TypeInv, CommandsHaveInput, Underway
    <3> QED
      BY <2>3, <3>1 DEF ReconcileStep
  <2> QED
    BY <1>4, <2>1, <2>2, <2>3 DEF Ingesting
<1>5. ~Refreshing
  BY DEF Refreshing, RefreshStart, RefreshAppend, RefreshSave, RefreshSaveFails, RefreshCrash,
     RefreshEntry, PlainRuns, BatchRound
<1> QED
  BY <1>1, <1>2, <1>3, <1>4, <1>5 DEF Next

\* The ops of an outstanding changeset, as the round needs them.
LEMMA ClosesTracked ==
    ASSUME TypeInv, LinkInv, Underway
    PROVE  \A op \in cs.ops : op.act = "close" => op.task \in DOMAIN tracker
BY DEF LinkInv, OpsLinked, LinkedOp

LEMMA StillKeepsRound ==
    ASSUME TypeInv, IDInv, LinkInv, RoundInv, [Next]_vars, StillStep
    PROVE  RoundInv'
<1>g. Grown(tracker, tracker')
  BY TrackerGrows
<1>s. UNCHANGED <<spec, edges, head, snapshot, journal, cs>>
  BY DEF StillStep
<1>p. (phase' = "clean" => phase = "clean") /\ (Underway' => Underway)
  BY DEF StillStep, Underway
<1>u. proc = "reconcile" => Underway
  BY DEF TypeInv, CommandsHaveInput, Underway
<1>h. \A h, s : HeadLines(tracker, h, s) => HeadLines(tracker', h, s)
  BY <1>g, HeadLinesGrow
<1>c. Underway =>
        /\ \A cur : SoundOps(tracker, cur, cs.ops) => SoundOps(tracker', cur, cs.ops)
        /\ \A j, cur : Covered(j, tracker, cur, cs.ops) => Covered(j, tracker', cur, cs.ops)
        /\ \A j, cur, rs, b, dn, n :
              NodeRound(j, tracker, cur, cs.ops, rs, b, dn, n)
                  => NodeRound(j, tracker', cur, cs.ops, rs, b, dn, n)
  <2> SUFFICES ASSUME Underway
               PROVE  /\ \A cur : SoundOps(tracker, cur, cs.ops) => SoundOps(tracker', cur, cs.ops)
                      /\ \A j, cur : Covered(j, tracker, cur, cs.ops) => Covered(j, tracker', cur, cs.ops)
                      /\ \A j, cur, rs, b, dn, n :
                            NodeRound(j, tracker, cur, cs.ops, rs, b, dn, n)
                                => NodeRound(j, tracker', cur, cs.ops, rs, b, dn, n)
    OBVIOUS
  <2> DEFINE tr == tracker
             tr2 == tracker'
             ops == cs.ops
  <2>1. Grown(tr, tr2) /\ \A op \in ops : op.act = "close" => op.task \in DOMAIN tr
    BY <1>g, ClosesTracked
  <2> HIDE DEF tr, tr2, ops
  <2>2. /\ \A cur : SoundOps(tr, cur, ops) => SoundOps(tr2, cur, ops)
        /\ \A j, cur : Covered(j, tr, cur, ops) => Covered(j, tr2, cur, ops)
        /\ \A j, cur, rs, b, dn, n :
              NodeRound(j, tr, cur, ops, rs, b, dn, n) => NodeRound(j, tr2, cur, ops, rs, b, dn, n)
    BY <2>1, RoundGrows
  <2> QED
    BY <2>2 DEF tr, tr2, ops
<1>1. JournalRound'
  BY <1>h, <1>p, <1>s DEF RoundInv, JournalRound
<1>2. ChangesetRound'
  BY <1>c, <1>p, <1>s DEF RoundInv, ChangesetRound
<1>3. BatchRound'
  <2>1. CASE UNCHANGED <<proc, batch, done, receipts>>
    BY <1>c, <1>h, <1>s, <1>u, <2>1 DEF RoundInv, BatchRound
  <2>2. CASE proc' \in {"idle", "adapter"} /\ done' = {}
    BY <2>2 DEF BatchRound
  <2>3. CASE proc' = "reconcile" /\ batch' = <<>> /\ done' = {}
    <3>1. Told(<<>>) /\ (\A tr, h : HeadLines(tr, h, <<>>)) /\ \A n : ChangeLines(<<>>, n) = {}
      BY DEF Told, HeadLines, ChangeLines
    <3>2. \A j, tr, cur, ops, rs, n : NodeRound(j, tr, cur, ops, rs, <<>>, {}, n)
      BY <3>1 DEF NodeRound
    <3> QED
      BY <2>3, <3>1, <3>2 DEF BatchRound
  <2> QED
    BY <2>1, <2>2, <2>3 DEF StillStep
<1>4. SaveRound'
  <2>1. CASE UNCHANGED <<proc, batch, done, receipts>>
    BY <1>s, <2>1 DEF RoundInv, SaveRound, AllOk
  <2>2. CASE proc' \in {"idle", "adapter", "reconcile"}
    BY <2>2 DEF SaveRound
  <2> QED
    BY <2>1, <2>2 DEF StillStep
<1> QED
  BY <1>1, <1>2, <1>3, <1>4 DEF RoundInv

\* A new commit: the events of the earlier ones are about the baseline.
LEMMA EditKeepsRound ==
    ASSUME PlainRuns, TypeInv, AccountInv, RoundInv, EditSpec
    PROVE  RoundInv'
<1> USE DEF specVars, journalVars, runVars, memVars
<1>1. /\ phase = "clean" /\ proc = "idle" /\ head' = head + 1 /\ head \in Nat
      /\ UNCHANGED <<snapshot, journal, tracker, phase, proc, batch, done>>
  BY DEF EditSpec, PlainRuns, TypeInv, TypeOK
<1>2. ASSUME NEW i \in DOMAIN journal, journal[i].event \in ChangeKinds
      PROVE  journal[i].eid.head \in Nat /\ journal[i].eid.head <= head
  <2>1. journal[i].eid \in EIDs
    BY <1>2 DEF AccountInv, Accounted, ReferentKinds
  <2>2. journal[i].eid.head <= head
    BY <1>2 DEF RoundInv, JournalRound, HeadLines, HeadLine
  <2> QED
    BY <2>1, <2>2 DEF EIDs
<1>3. AtHead(journal, spec', head')
  BY <1>1, <1>2 DEF AtHead
<1>4. HeadLines(tracker, head', journal)
  <2>1. ASSUME NEW i \in DOMAIN journal PROVE HeadLine(tracker, head', journal[i])
    <3>1. HeadLine(tracker, head, journal[i])
      BY DEF RoundInv, JournalRound, HeadLines
    <3>2. journal[i].event \in ChangeKinds => journal[i].eid.head <= head'
      BY <1>1, <1>2
    <3> QED
      BY <3>1, <3>2 DEF HeadLine
  <2> QED
    BY <2>1 DEF HeadLines
<1>5. JournalRound'
  BY <1>1, <1>3, <1>4 DEF RoundInv, JournalRound
<1>6. ~Underway'
  BY <1>1 DEF Underway
<1> QED
  BY <1>1, <1>5, <1>6 DEF RoundInv, ChangesetRound, BatchRound, SaveRound

\* Lines whose ids name their tasks, put end to end.
LEMMA HeadLinesConcat ==
    ASSUME NEW s \in Seq(Event), NEW t \in Seq(Event), NEW tr, NEW h,
           HeadLines(tr, h, s), HeadLines(tr, h, t)
    PROVE  HeadLines(tr, h, s \o t)
<1> DEFINE st == s \o t
<1>1. \A i \in DOMAIN st :
         \/ i \in DOMAIN s /\ st[i] = s[i]
         \/ i \notin DOMAIN s /\ i - Len(s) \in DOMAIN t /\ st[i] = t[i - Len(s)]
  BY ConcatLines, Zenon
<1> HIDE DEF st
<1>2. HeadLines(tr, h, st)
  BY <1>1 DEF HeadLines
<1> QED
  BY <1>2 DEF st

\* Lines of the present commit appended to a journal: it goes on telling its
\* nodes, and each has either not moved or is where the spec has it.
LEMMA AppendedRound ==
    ASSUME NEW s \in Seq(Event), NEW t \in Seq(Event), NEW tr, NEW h, NEW cur,
           Told(s), Told(t), Chained(s), AtHead(s, cur, h), HeadLines(tr, h, s), HeadLines(tr, h, t),
           \A n \in Planned : \A i, k \in ChangeLines(t, n) :
               i = k /\ t[i].before = Now(s, n) /\ t[i].after = cur[n]
    PROVE  /\ Told(s \o t) /\ Chained(s \o t) /\ AtHead(s \o t, cur, h) /\ HeadLines(tr, h, s \o t)
           /\ \A n \in Planned :
                 /\ Now(s \o t, n) = IF ChangeLines(t, n) = {} THEN Now(s, n) ELSE cur[n]
                 /\ ChangeLines(s, n) # {} => ChangeLines(s \o t, n) # {}
<1>1. \A n : ChangeLines(s, n) # {} => ChangeLines(s \o t, n) # {}
  BY NowConcat
<1> QED
  BY <1>1, ToldConcat, ChainedConcat, AtHeadConcat, HeadLinesConcat

LEMMA RegisterKeepsRound ==
    ASSUME TypeInv, RoundInv, RegisterStep,
           UNCHANGED <<spec, edges, head, snapshot, tracker, done, receipts>>
    PROVE  RoundInv'
<1> USE DEF runVars
<1>1. /\ proc = "idle" /\ phase \in {"clean", "partial"}
      /\ UNCHANGED <<batch, proc, cs, phase>> /\ journal \in Seq(Event) /\ head \in Nat
  BY DEF RegisterStep, TypeInv, TypeOK
<1>2. PICK stem \in Stems : journal' = Append(journal, RegisteredEvent(head, stem))
  BY DEF RegisterStep
<1> DEFINE line == RegisteredEvent(head, stem)
           t == <<line>>
<1>3. line \in Event /\ line.event = "registered"
  <2>1. RegisteredEID(head, stem) \in EIDs
    BY <1>1, DeriveEIDTyped DEF RegisteredEID, EIDSources
  <2> QED
    BY <2>1 DEF RegisteredEvent, Event, EventKinds, ReferentKinds, ReceiptKinds, MaybeHash, NoTask
<1>4. line.event \notin ChangeKinds \cup TaskBearing /\ line.event \in ReferentKinds
  BY <1>3 DEF ChangeKinds, TaskBearing, ReferentKinds
<1> HIDE DEF line
<1>5. journal' = journal \o t /\ t \in Seq(Event) /\ Told(t) /\ \A n : ChangeLines(t, n) = {}
  BY <1>1, <1>2, <1>3, <1>4, SilentLine DEF line
<1>6. HeadLines(tracker, head, t)
  BY <1>4 DEF HeadLines, HeadLine
<1> HIDE DEF t
<1>7. /\ Told(journal') /\ Chained(journal') /\ AtHead(journal', spec, head)
      /\ HeadLines(tracker, head, journal')
      /\ \A n \in Planned : /\ Now(journal', n) = Now(journal, n)
                            /\ ChangeLines(journal, n) # {} => ChangeLines(journal', n) # {}
  <2>1. Told(journal) /\ Chained(journal) /\ AtHead(journal, spec, head) /\ HeadLines(tracker, head, journal)
    BY DEF RoundInv, JournalRound
  <2> DEFINE j == journal \o t
  <2>2. /\ Told(j) /\ Chained(j) /\ AtHead(j, spec, head) /\ HeadLines(tracker, head, j)
        /\ \A n \in Planned : /\ Now(j, n) = Now(journal, n)
                              /\ ChangeLines(journal, n) # {} => ChangeLines(j, n) # {}
    BY <1>1, <1>5, <1>6, <2>1, AppendedRound
  <2> QED
    BY <1>5, <2>2
<1>8. JournalRound'
  BY <1>1, <1>7 DEF RoundInv, JournalRound
<1>9. ~Underway'
  BY <1>1 DEF Underway
<1> QED
  BY <1>1, <1>8, <1>9 DEF RoundInv, ChangesetRound, BatchRound, SaveRound

\* Plan writes a changeset that covers what the journal does not have yet.
LEMMA PlanKeepsRound ==
    ASSUME PlainRuns, TypeInv, IDInv, AccountInv, WorkInv, LinkInv, RoundInv, Planning
    PROVE  RoundInv'
<1> USE DEF specVars, journalVars, runVars, memVars
<1>1. PICK stem \in Stems, marks \in SUBSET Absorbable(spec, snapshot) : Plan(stem, marks)
  BY DEF Planning
<1>2. marks = {}
  BY <1>1 DEF Plan, PlainRuns
<1> DEFINE changes == Diff(spec, snapshot)
<1>3. changes \ marks = changes
  BY <1>2
<1>4. /\ proc = "idle" /\ phase' = "planned" /\ ~Incomplete(spec, edges, snapshot)
      /\ ~PlanRefused(journal, spec, edges, ExportTasks, stem, changes)
      /\ UNCHANGED <<spec, edges, head, snapshot, journal, tracker, proc, batch, done>>
      /\ cs'.head = head /\ cs'.absorbed = {}
      /\ cs'.ops = BuildOps(journal, spec, edges, ExportTasks, head, stem, changes)
  BY <1>1, <1>2, <1>3 DEF Plan, Build
<1>5. /\ journal \in Seq(Event) /\ tracker \in Seq(Task) /\ Answered(journal)
      /\ UniqueEIDs(journal) /\ Accounted(journal) /\ Told(journal)
      /\ GoodLines(tracker, journal) /\ LabelsTell(tracker)
      /\ \A n \in Planned : Now(journal, n) \in {snapshot[n], spec[n]}
  BY DEF TypeInv, TypeOK, IDInv, AccountInv, WorkInv, LinkInv, RoundInv, JournalRound
<1> DEFINE ops == cs'.ops
<1>6. ops = BuildOps(journal, spec, edges, ExportTasks, head, stem, changes)
  BY <1>4
<1> HIDE DEF ops
<1>7. SoundOps(tracker, spec, ops) /\ Covered(journal, tracker, spec, ops)
  BY <1>4, <1>5, <1>6, PlanCovers
<1>8. JournalRound'
  BY <1>4 DEF RoundInv, JournalRound
<1>9. ChangesetRound'
  BY <1>4, <1>7 DEF ChangesetRound, ops
<1> QED
  BY <1>4, <1>8, <1>9 DEF RoundInv, BatchRound, SaveRound

\* The baseline moves only to where the journal is.
LEMMA SaveKeepsRound ==
    ASSUME RoundInv, IngestSave
    PROVE  RoundInv'
<1> USE DEF specVars
<1>1. /\ UNCHANGED <<spec, edges, head, journal, tracker>> /\ proc = "save"
      /\ snapshot' = (IF AllOk THEN spec ELSE snapshot)
      /\ phase' = (IF AllOk THEN "clean" ELSE "partial")
      /\ proc' = "idle" /\ done' = {}
  BY DEF IngestSave, Stop
<1>2. AllOk => \A n \in Planned : Now(journal, n) = spec[n]
  BY <1>1 DEF RoundInv, SaveRound
<1>3. ~Underway'
  BY <1>1 DEF Underway
<1>4. \A n \in Planned : /\ Now(journal, n) \in {snapshot'[n], spec[n]}
                         /\ phase' = "clean" => Now(journal, n) = snapshot'[n]
                         /\ snapshot'[n] # None => ChangeLines(journal, n) # {}
  <2>1. CASE AllOk
    BY <1>1, <1>2, <2>1 DEF Now
  <2>2. CASE ~AllOk
    BY <1>1, <2>2 DEF RoundInv, JournalRound
  <2> QED
    BY <2>1, <2>2
<1>5. JournalRound'
  BY <1>1, <1>4 DEF RoundInv, JournalRound
<1> QED
  BY <1>1, <1>3, <1>5 DEF RoundInv, ChangesetRound, BatchRound, SaveRound

\* A node's part of the batch while its op, and only its op, is reconciled.
LEMMA ReconciledNode ==
    ASSUME NEW j, NEW tr, NEW cur, NEW ops, NEW rs, NEW b \in Seq(Event), NEW dn, NEW n \in Planned,
           SoundOps(tr, cur, ops), NodeRound(j, tr, cur, ops, rs, b, dn, n),
           NEW op \in ops, OpID(op) \notin dn, NEW lines \in Seq(Event), NEW h,
           SoundLines(tr, j, cur, h, op, lines),
           rs[OpID(op)].status = "ok" => Reaches(tr, j, cur, op, b, lines)
    PROVE  NodeRound(j, tr, cur, ops, rs, b \o lines, dn \cup {OpID(op)}, n)
<1>0. /\ \A i \in ChangeLines(b, n) :
            i \in ChangeLines(b \o lines, n) /\ (b \o lines)[i] = b[i] /\ i <= Len(b)
      /\ \A i \in ChangeLines(lines, n) :
            Len(b) + i \in ChangeLines(b \o lines, n) /\ (b \o lines)[Len(b) + i] = lines[i] /\ i >= 1
      /\ \A i \in ChangeLines(b \o lines, n) :
            \/ i \in ChangeLines(b, n) /\ (b \o lines)[i] = b[i]
            \/ i - Len(b) \in ChangeLines(lines, n) /\ (b \o lines)[i] = lines[i - Len(b)] /\ i > Len(b)
  BY ChangeLinesConcat, Zenon
<1> DEFINE b2 == b \o lines
           C == ChangeLines(b, n)
           L == ChangeLines(lines, n)
           C2 == ChangeLines(b2, n)
<1>1. /\ \A i \in C : i \in C2
      /\ \A i \in L : Len(b) + i \in C2
      /\ \A i \in C2 : (i \in C /\ b2[i] = b[i]) \/ (i - Len(b) \in L /\ b2[i] = lines[i - Len(b)])
  BY <1>0, Zenon
<1>i. C2 \subseteq Int /\ Len(b) \in Int
  <2>1. b2 \in Seq(Event) /\ Len(b) \in Int
    BY ConcatLines
  <2> QED
    BY <2>1 DEF ChangeLines
<1>2. /\ \A i, k \in C : i = k /\ b[i].before = Now(j, n) /\ b[i].after = cur[n]
      /\ \A p \in ops : OpFor(tr, p, n) =>
            /\ C # {} => OpID(p) \in dn
            /\ OpID(p) \in dn /\ rs[OpID(p)].status = "ok" => Now(j, n) = cur[n] \/ C # {}
  BY DEF NodeRound
<1>3. \A i, k \in L : /\ i = k /\ OpFor(tr, op, n)
                      /\ lines[i].before = Now(j, n) /\ lines[i].after = cur[n]
  BY DEF SoundLines
<1> HIDE DEF b2, C, L, C2
<1>4. C = {} \/ L = {}
  BY <1>2, <1>3
<1>5. ASSUME NEW i \in C2, NEW k \in C2
      PROVE  i = k /\ b2[i].before = Now(j, n) /\ b2[i].after = cur[n]
  <2>1. CASE i \in C /\ b2[i] = b[i]
    BY <1>1, <1>2, <1>4, <2>1
  <2>2. CASE i - Len(b) \in L /\ b2[i] = lines[i - Len(b)]
    <3>1. k - Len(b) \in L
      BY <1>1, <1>4, <2>2
    <3>2. i - Len(b) = k - Len(b)
      BY <1>3, <2>2, <3>1
    <3>3. i \in Int /\ k \in Int /\ Len(b) \in Int
      BY <1>i
    <3> QED
      BY <1>3, <2>2, <3>2, <3>3
  <2> QED
    BY <1>1, <2>1, <2>2
<1>6. ASSUME NEW p \in ops, OpFor(tr, p, n)
      PROVE  /\ C2 # {} => OpID(p) \in dn \cup {OpID(op)}
             /\ OpID(p) \in dn \cup {OpID(op)} /\ rs[OpID(p)].status = "ok" =>
                   Now(j, n) = cur[n] \/ C2 # {}
  <2>1. L # {} => p = op
    BY <1>3, <1>6 DEF SoundOps
  <2>2. C2 # {} => OpID(p) \in dn \cup {OpID(op)}
    BY <1>1, <1>2, <1>6, <2>1
  <2>3. OpID(p) = OpID(op) => OpFor(tr, op, n)
    <3>1. OpID(p) = OpID(op) => p.act = op.act /\ p.key = op.key
      BY DEF OpID
    <3>2. /\ op.act = "close" => op.key = op.task
          /\ p.act = "close" => p.key = p.task
      BY DEF SoundOps, SoundOp
    <3> QED
      BY <1>6, <3>1, <3>2 DEF OpFor
  <2>4. C # {} \/ L # {} => C2 # {}
    BY <1>1
  <2>5. OpID(p) = OpID(op) /\ rs[OpID(p)].status = "ok" => Now(j, n) = cur[n] \/ C2 # {}
    BY <2>3, <2>4 DEF C, L, Reaches
  <2>6. OpID(p) \in dn /\ rs[OpID(p)].status = "ok" => Now(j, n) = cur[n] \/ C2 # {}
    BY <1>2, <1>6, <2>4
  <2> QED
    BY <2>2, <2>5, <2>6
<1> QED
  BY <1>5, <1>6 DEF NodeRound, b2, C2

\* One turn of the reconcile loop.
LEMMA ReconcileKeepsRound ==
    ASSUME TypeInv, IDInv, AccountInv, WorkInv, LinkInv, RoundInv,
           proc = "reconcile", NEW op \in cs.ops, ReconcileOp(op)
    PROVE  RoundInv'
<1> USE DEF specVars, journalVars, runVars, memVars
<1>1. /\ UNCHANGED <<spec, edges, head, snapshot, journal, tracker, cs, receipts, phase, proc>>
      /\ done' = done \cup {OpID(op)} /\ OpID(op) \notin done
  BY DEF ReconcileOp, Reconciling, EmittedNext
<1>2. /\ Underway /\ cs \in Changeset /\ \A p \in cs.ops : CompleteOp(p)
  BY DEF TypeInv, CommandsHaveInput, Outstanding, Underway
<1>3. /\ journal \in Seq(Event) /\ batch \in Seq(Event) /\ tracker \in Seq(Task)
      /\ spec \in [Nodes -> MaybeHash] /\ cs.head \in Nat
  BY <1>2 DEF TypeInv, TypeOK, Specs, Changeset
<1>4. /\ Answered(journal) /\ UniqueEIDs(journal) /\ Accounted(journal) /\ RelevantOps(cs.ops)
      /\ GoodLines(tracker, journal) /\ GoodLines(tracker, batch) /\ LabelsTell(tracker)
      /\ LinkedOp(journal, tracker, cs, op)
  BY <1>2 DEF WorkInv, IDInv, AccountInv, LinkInv, BatchLinked, OpsLinked, Underway
<1>5. /\ Told(journal) /\ AtHead(journal, spec, head) /\ HeadLines(tracker, head, journal)
      /\ cs.head = head /\ SoundOps(tracker, spec, cs.ops)
      /\ Told(batch) /\ HeadLines(tracker, head, batch)
      /\ \A n \in Planned : NodeRound(journal, tracker, spec, cs.ops, receipts, batch, done, n)
  BY <1>2 DEF RoundInv, JournalRound, ChangesetRound, BatchRound
<1>6. PICK lines \in Seq(Event) :
        /\ batch' = batch \o lines
        /\ SoundLines(tracker, journal, spec, head, op, lines)
        /\ receipts[OpID(op)].status = "ok" => Reaches(tracker, journal, spec, op, batch, lines)
  <2>1. CASE receipts[OpID(op)].status = "error" /\ batch' = batch
    <3>1. SoundLines(tracker, journal, spec, head, op, <<>>)
      BY DEF SoundLines, Told, ChangeLines, HeadLines
    <3>2. batch' = batch \o <<>> /\ <<>> \in Seq(Event)
      BY <1>3, <2>1
    <3> QED
      BY <2>1, <3>1, <3>2
  <2>2. CASE /\ ~OpRefused(journal, batch, spec, cs.head, op)
             /\ batch' = batch \o BuildOp(journal, batch, spec, cs.head, op, receipts[OpID(op)].task)
    <3> DEFINE t == receipts[OpID(op)].task
               lines == BuildOp(journal, batch, spec, cs.head, op, t)
    <3>1. t \in Nat
      BY DEF TypeInv, CommandsHaveInput, TypeOK, Receipt
    <3>2. lines \in Seq(Event)
      BY <1>2, <1>3, <2>2, <3>1, BuiltLinesAreFresh
    <3>3. SoundOp(tracker, spec, op)
      BY <1>5 DEF SoundOps
    <3>4. op.act \in {"create", "retarget"} => Kind[op.key] \in PlanRelevant
      BY <1>4 DEF RelevantOps
    <3>5. AtHead(journal, spec, cs.head) /\ HeadLines(tracker, cs.head, journal) /\ HeadLines(tracker, cs.head, batch)
      BY <1>5
    <3> HIDE DEF t
    <3>6. /\ SoundLines(tracker, journal, spec, cs.head, op, lines)
          /\ Reaches(tracker, journal, spec, op, batch, lines)
      <4>1. CompleteOp(op) /\ ~OpRefused(journal, batch, spec, cs.head, op)
        BY <1>2, <2>2
      <4>2. Told(journal)
        BY <1>5
      <4> QED
        BY <1>3, <1>4, <3>3, <3>4, <3>5, <4>1, <4>2, BuiltLinesSound
    <3>7. batch' = batch \o lines
      BY <2>2 DEF t
    <3> HIDE DEF lines
    <3> QED
      BY <1>5, <3>2, <3>6, <3>7
  <2> QED
    BY <2>1, <2>2 DEF ReconcileOp
<1>7. Told(batch') /\ HeadLines(tracker, head, batch')
  <2>1. Told(lines) /\ HeadLines(tracker, head, lines)
    BY <1>6 DEF SoundLines
  <2>2. Told(batch \o lines) /\ HeadLines(tracker, head, batch \o lines)
    BY <1>3, <1>5, <2>1, ToldConcat, HeadLinesConcat
  <2> QED
    BY <1>6, <2>2
<1>8. ASSUME NEW n \in Planned
      PROVE  NodeRound(journal, tracker, spec, cs.ops, receipts, batch', done', n)
  <2>1. NodeRound(journal, tracker, spec, cs.ops, receipts, batch \o lines, done \cup {OpID(op)}, n)
    BY <1>1, <1>3, <1>5, <1>6, ReconciledNode
  <2> QED
    BY <1>1, <1>6, <2>1
<1>9. BatchRound'
  BY <1>1, <1>7, <1>8 DEF BatchRound
<1>10. JournalRound' /\ ChangesetRound'
  BY <1>1 DEF RoundInv, JournalRound, ChangesetRound, Underway
<1>11. SaveRound'
  BY <1>1 DEF SaveRound
<1> QED
  BY <1>9, <1>10, <1>11 DEF RoundInv

\* The batch is appended: every node moves to where the spec has it, or stays.
LEMMA CommitKeepsRound ==
    ASSUME TypeInv, RoundInv, IngestCommit
    PROVE  RoundInv'
<1> USE DEF specVars, journalVars, runVars, memVars
<1>1. /\ UNCHANGED <<spec, edges, head, snapshot, tracker, cs, receipts, phase>>
      /\ proc = "reconcile" /\ proc' = "save" /\ done' = {} /\ OpsDone
      /\ journal' = journal \o FinalBatch
  BY DEF IngestCommit, Committable
<1>2. /\ journal \in Seq(Event) /\ batch \in Seq(Event) /\ phase = "applied" /\ Underway
      /\ DOMAIN receipts = {OpID(op) : op \in cs.ops}
  BY <1>1 DEF TypeInv, TypeOK, CommandsHaveInput, Underway
<1>3. /\ Told(journal) /\ Chained(journal) /\ AtHead(journal, spec, head)
      /\ HeadLines(tracker, head, journal)
      /\ \A n \in Planned : Now(journal, n) \in {snapshot[n], spec[n]}
      /\ Told(batch) /\ HeadLines(tracker, head, batch)
      /\ \A n \in Planned : NodeRound(journal, tracker, spec, cs.ops, receipts, batch, done, n)
      /\ Covered(journal, tracker, spec, cs.ops)
  BY <1>1, <1>2 DEF RoundInv, JournalRound, BatchRound, ChangesetRound
<1>4. /\ FinalBatch \in Seq(Event) /\ Told(FinalBatch) /\ HeadLines(tracker, head, FinalBatch)
      /\ \A n : ChangeLines(FinalBatch, n) = ChangeLines(batch, n)
      /\ \A i \in DOMAIN batch : FinalBatch[i] = batch[i]
  <2>1. CASE FinalBatch = batch
    BY <1>2, <1>3, <2>1
  <2>2. CASE FinalBatch = Append(batch, RefreshReceipt(AbsorbedEIDs))
    <3> DEFINE line == RefreshReceipt(AbsorbedEIDs)
               t == <<line>>
    <3>1. line.event = "refresh" /\ line.eid = None
      BY DEF RefreshReceipt
    <3>2. line \in Event
      <4>1. AbsorbedEIDs \subseteq EIDs
        <5>1. \A i \in DOMAIN batch : batch[i] \in Event
          BY <1>2
        <5>2. \A x \in Event : x.eid \in EIDs \cup {None}
          BY DEF Event
        <5> QED
          BY <5>1, <5>2 DEF AbsorbedEIDs, KnownEIDs
      <4> QED
        BY <4>1 DEF RefreshReceipt, Event, EventKinds, MaybeHash, NoTask
    <3> HIDE DEF line
    <3>3. /\ Append(batch, line) = batch \o t /\ t \in Seq(Event)
          /\ Told(t) /\ \A n : ChangeLines(t, n) = {}
      BY <1>2, <3>1, <3>2, SilentLine DEF ChangeKinds, TaskBearing
    <3>4. HeadLines(tracker, head, t)
      BY <3>1 DEF HeadLines, HeadLine, ChangeKinds
    <3> HIDE DEF t
    <3> DEFINE b == batch \o t
    <3>5. Told(b) /\ HeadLines(tracker, head, b)
      BY <1>2, <1>3, <3>3, <3>4, ToldConcat, HeadLinesConcat
    <3>6. /\ \A i \in DOMAIN batch : i \in DOMAIN b /\ b[i] = batch[i]
          /\ b \in Seq(Event)
      BY <1>2, <3>3, ConcatLines, Zenon
    <3>7. ASSUME NEW n PROVE ChangeLines(b, n) = ChangeLines(batch, n)
      <4>1. /\ \A i \in ChangeLines(batch, n) :
                  i \in ChangeLines(batch \o t, n) /\ (batch \o t)[i] = batch[i] /\ i <= Len(batch)
            /\ \A i \in ChangeLines(t, n) :
                  Len(batch) + i \in ChangeLines(batch \o t, n) /\ (batch \o t)[Len(batch) + i] = t[i] /\ i >= 1
            /\ \A i \in ChangeLines(batch \o t, n) :
                  \/ i \in ChangeLines(batch, n) /\ (batch \o t)[i] = batch[i]
                  \/ i - Len(batch) \in ChangeLines(t, n) /\ (batch \o t)[i] = t[i - Len(batch)] /\ i > Len(batch)
        BY <1>2, <3>3, ChangeLinesConcat, Zenon
      <4>2. (\A i \in ChangeLines(batch, n) : i \in ChangeLines(b, n))
            /\ (\A i \in ChangeLines(b, n) : i \in ChangeLines(batch, n))
        BY <3>3, <4>1, Zenon
      <4> QED
        BY <4>2
    <3>8. FinalBatch = b
      BY <2>2, <3>3 DEF line
    <3> HIDE DEF b
    <3> QED
      BY <3>5, <3>6, <3>7, <3>8
  <2> QED
    BY <2>1, <2>2 DEF FinalBatch
<1> DEFINE b == FinalBatch
           j == journal \o b
<1>5. \A n \in Planned : \A i, k \in ChangeLines(b, n) :
         i = k /\ b[i].before = Now(journal, n) /\ b[i].after = spec[n]
  <2>1. \A n \in Planned : \A i, k \in ChangeLines(batch, n) :
           i = k /\ batch[i].before = Now(journal, n) /\ batch[i].after = spec[n]
    BY <1>3 DEF NodeRound
  <2>2. \A n : ChangeLines(batch, n) \subseteq DOMAIN batch
    BY DEF ChangeLines
  <2> HIDE DEF b
  <2>3. /\ \A n : ChangeLines(b, n) = ChangeLines(batch, n)
        /\ \A i \in DOMAIN batch : b[i] = batch[i]
    BY <1>4 DEF b
  <2> QED
    BY <2>1, <2>2, <2>3
<1>6. b \in Seq(Event) /\ Told(b) /\ HeadLines(tracker, head, b)
  BY <1>4
<1>7. \A n : ChangeLines(b, n) = ChangeLines(batch, n)
  BY <1>4
<1> HIDE DEF b
<1>8. /\ Told(j) /\ Chained(j) /\ AtHead(j, spec, head) /\ HeadLines(tracker, head, j)
      /\ \A n \in Planned : /\ Now(j, n) = IF ChangeLines(b, n) = {} THEN Now(journal, n) ELSE spec[n]
                            /\ ChangeLines(journal, n) # {} => ChangeLines(j, n) # {}
  BY <1>2, <1>3, <1>5, <1>6, AppendedRound
<1>9. journal' = j
  BY <1>1 DEF b
<1> HIDE DEF j
<1>10. JournalRound'
  <2>1. \A n \in Planned : Now(j, n) \in {snapshot[n], spec[n]}
    BY <1>3, <1>8
  <2>2. \A n \in Planned : snapshot[n] # None => ChangeLines(j, n) # {}
    BY <1>8 DEF RoundInv, JournalRound
  <2> QED
    BY <1>1, <1>2, <1>8, <1>9, <2>1, <2>2 DEF JournalRound
<1>11. ChangesetRound'
  <2>1. Covered(j, tracker, spec, cs.ops)
    BY <1>3, <1>8 DEF Covered
  <2> QED
    BY <1>1, <1>2, <1>9, <2>1 DEF RoundInv, ChangesetRound, Underway
<1>12. SaveRound'
  <2>1. ASSUME AllOk, NEW n \in Planned PROVE Now(j, n) = spec[n]
    <3>1. CASE Now(journal, n) = spec[n]
      BY <1>8, <3>1
    <3>2. ASSUME NEW op \in cs.ops, OpFor(tracker, op, n) PROVE Now(j, n) = spec[n]
      <4>1. OpID(op) \in done /\ OpID(op) \in DOMAIN receipts
        BY <1>1, <1>2 DEF OpsDone
      <4>2. receipts[OpID(op)].status = "ok"
        BY <2>1, <4>1 DEF AllOk
      <4>3. NodeRound(journal, tracker, spec, cs.ops, receipts, batch, done, n)
        BY <1>3
      <4>4. Now(journal, n) = spec[n] \/ ChangeLines(batch, n) # {}
        BY <3>2, <4>1, <4>2, <4>3 DEF NodeRound
      <4> QED
        BY <1>7, <1>8, <4>4
    <3> QED
      BY <1>3, <3>1, <3>2 DEF Covered
  <2>2. AllOk' <=> AllOk
    BY <1>1 DEF AllOk
  <2> QED
    BY <1>1, <1>9, <2>1, <2>2 DEF SaveRound
<1>13. BatchRound'
  BY <1>1 DEF BatchRound
<1> QED
  BY <1>10, <1>11, <1>12, <1>13 DEF RoundInv

\* Every step keeps the round, and every state has it.
LEMMA RoundInvariant ==
    ASSUME PlainRuns
    PROVE  Spec => [](TypeInv /\ IDInv /\ AccountInv /\ WorkInv /\ LinkInv /\ RoundInv)
<1>1. Init => RoundInv
  <2> SUFFICES ASSUME Init PROVE RoundInv
    OBVIOUS
  <2>1. \A n : ChangeLines(<<>>, n) = {}
    BY DEF ChangeLines
  <2>2. \A n : Now(<<>>, n) = None
    BY <2>1 DEF Now
  <2>3. /\ Told(<<>>) /\ \A tr, h : HeadLines(tr, h, <<>>)
        /\ \A cur, h : AtHead(<<>>, cur, h)
    BY DEF Told, HeadLines, AtHead
  <2>4. Chained(<<>>)
    BY <2>1 DEF Chained
  <2>5. \A n \in Planned : snapshot[n] = None /\ spec[n] = None
    BY DEF Init, Planned
  <2>6. JournalRound
    BY <2>2, <2>3, <2>4, <2>5 DEF Init, JournalRound
  <2>7. ChangesetRound /\ BatchRound /\ SaveRound
    BY DEF Init, ChangesetRound, Underway, BatchRound, SaveRound
  <2> QED
    BY <2>6, <2>7 DEF RoundInv
<1>2. RefreshBetween
  BY DEF PlainRuns, RefreshBetween
<1>3. TypeInv /\ IDInv /\ AccountInv /\ WorkInv /\ LinkInv /\ RoundInv /\ [Next]_vars => RoundInv'
  <2> SUFFICES ASSUME TypeInv, IDInv, AccountInv, WorkInv, LinkInv, RoundInv, [Next]_vars
               PROVE  RoundInv'
    OBVIOUS
  <2>1. ChangesetRound /\ BatchRound
    BY DEF RoundInv
  <2> QED
    BY <2>1, RoundSteps, StillKeepsRound, EditKeepsRound, RegisterKeepsRound, PlanKeepsRound,
       ReconcileKeepsRound, CommitKeepsRound, SaveKeepsRound
<1> QED
  BY <1>1, <1>2, <1>3, LinkInvariant, PTL DEF Spec

-----------------------------------------------------------------------------
(***************************************************************************)
(* In plain runs the fold and the baseline agree whenever no changeset is  *)
(* outstanding: a planned node is paired with a task exactly when the      *)
(* baseline has it, and its pairing records the baseline's hash, whatever  *)
(* was crashed, answered with errors or ingested in parts on the way       *)
(* (plan/action_classifier.go, ingest/event_builder.go).                   *)
(***************************************************************************)
THEOREM BaselineIsLinked ==
    ASSUME PlainRuns
    PROVE  Spec => []LinkageMatchesBaseline
<1>1. TypeInv /\ IDInv /\ AccountInv /\ WorkInv /\ LinkInv /\ RoundInv => LinkageMatchesBaseline
  <2> SUFFICES ASSUME TypeInv, IDInv, AccountInv, WorkInv, LinkInv, RoundInv, Settled,
                      NEW n \in Planned
               PROVE  /\ (snapshot[n] # None) = Paired(Fold(journal), n)
                      /\ snapshot[n] # None => Fold(journal)[n].after = snapshot[n]
    BY DEF LinkageMatchesBaseline
  <2>1. journal \in Seq(Event) /\ Answered(journal) /\ GoodLines(tracker, journal)
        /\ UniqueEIDs(journal) /\ Accounted(journal) /\ Told(journal)
    BY DEF TypeInv, TypeOK, WorkInv, LinkInv, IDInv, AccountInv, RoundInv, JournalRound
  <2>2. /\ FoldHas(journal, n) <=> ChangeLines(journal, n) # {}
        /\ Paired(Fold(journal), n) <=> Now(journal, n) # None
        /\ FoldHas(journal, n) => Fold(journal)[n].after = Now(journal, n)
    BY <2>1, FoldIsNow
  <2>3. Now(journal, n) = snapshot[n]
    BY DEF Settled, RoundInv, JournalRound
  <2>4. snapshot[n] # None => FoldHas(journal, n)
    BY <2>2 DEF RoundInv, JournalRound
  <2>5. Paired(Fold(journal), n) \in BOOLEAN
    BY DEF Paired
  <2>6. (snapshot[n] # None) = Paired(Fold(journal), n)
    BY <2>2, <2>3, <2>5, Zenon
  <2> QED
    BY <2>2, <2>3, <2>4, <2>6
<1> QED
  BY <1>1, RoundInvariant, PTL

(***************************************************************************)
(* In plain runs the baseline never moves ahead of the journal: when the   *)
(* saver writes a new snapshot, the latest change event of every planned   *)
(* node that moves already ends in the hash the snapshot takes             *)
(* (cmd/spex/ingest.go, the append before Saver.Save).                     *)
(***************************************************************************)
THEOREM JournalIsAhead ==
    ASSUME PlainRuns
    PROVE  Spec => JournalLeadsBaseline
<1> DEFINE Ahead == \A n \in Planned : snapshot'[n] # snapshot[n] =>
                       /\ ChangeLines(journal, n) # {}
                       /\ LastChange(journal, n).after = snapshot'[n]
<1>1. TypeInv /\ IDInv /\ RoundInv /\ [Next]_vars => [Ahead]_vars
  <2> SUFFICES ASSUME TypeInv, IDInv, RoundInv, [Next]_vars, NEW n \in Planned,
                      snapshot'[n] # snapshot[n]
               PROVE  /\ ChangeLines(journal, n) # {}
                      /\ LastChange(journal, n).after = snapshot'[n]
    OBVIOUS
  <2>1. IngestSave
    <3>1. ChangesetRound /\ BatchRound
      BY DEF RoundInv
    <3> QED
      BY <3>1, RoundSteps DEF StillStep, EditSpec, Planning, Plan, ReconcileOp, IngestCommit, journalVars
  <2>2. AllOk /\ snapshot'[n] = spec[n] /\ proc = "save"
    BY <2>1 DEF IngestSave
  <2>3. Now(journal, n) = spec[n]
    BY <2>2 DEF RoundInv, SaveRound
  <2>4. ChangeLines(journal, n) # {}
    <3>1. spec[n] # None => ChangeLines(journal, n) # {}
      BY <2>3 DEF Now
    <3>2. snapshot[n] # None => ChangeLines(journal, n) # {}
      BY DEF RoundInv, JournalRound
    <3> QED
      BY <2>2, <3>1, <3>2
  <2> QED
    BY <2>2, <2>3, <2>4 DEF Now
<1> QED
  BY <1>1, RoundInvariant, PTL DEF Spec, JournalLeadsBaseline

(***************************************************************************)
(* In plain runs a changed requirement reaches work: when the baseline     *)
(* moves past it, every component that implements it has moved with it,    *)
(* and the fold pairs that component with a task at its new hash           *)
(* (merkle/completeness_checker.go; cmd/spex/plan.go refuses the rest).    *)
(***************************************************************************)
THEOREM RequirementsAreWorked ==
    ASSUME PlainRuns
    PROVE  Spec => RequirementsReachWork
<1> DEFINE Moved(r) == \A c \in Implementors(spec, edges, r) :
                          /\ snapshot'[c] # snapshot[c]
                          /\ Paired(Fold(journal), c)
                          /\ Fold(journal)[c].after = snapshot'[c]
           Reach == proc = "save" =>
                       \A r \in {n \in Nodes : Kind[n] = "requirement" /\ snapshot'[n] # None} :
                           snapshot'[r] # snapshot[r] => Moved(r)
<1>1. TypeInv /\ IDInv /\ AccountInv /\ WorkInv /\ LinkInv /\ RoundInv /\ [Next]_vars => [Reach]_vars
  <2> SUFFICES ASSUME TypeInv, IDInv, AccountInv, WorkInv, LinkInv, RoundInv, [Next]_vars,
                      proc = "save",
                      NEW r \in Nodes, Kind[r] = "requirement", snapshot'[r] # None,
                      snapshot'[r] # snapshot[r], NEW c \in Implementors(spec, edges, r)
               PROVE  /\ snapshot'[c] # snapshot[c]
                      /\ Paired(Fold(journal), c)
                      /\ Fold(journal)[c].after = snapshot'[c]
    OBVIOUS
  <2>1. IngestSave
    <3>1. ChangesetRound /\ BatchRound
      BY DEF RoundInv
    <3> QED
      BY <3>1, RoundSteps DEF StillStep, EditSpec, Planning, Plan, ReconcileOp, IngestCommit, journalVars
  <2>2. AllOk /\ snapshot' = spec
    BY <2>1 DEF IngestSave
  <2>3. c \in Nodes /\ Kind[c] = "component" /\ spec[c] # None /\ c \in Planned
    BY DEF Implementors, ComponentsOf, Planned
  <2>4. ~Incomplete(spec, edges, snapshot)
    BY DEF RoundInv, ChangesetRound, Underway, TypeInv, CommandsHaveInput
  <2>5. c \in Diff(spec, snapshot)
    <3>1. r \in Diff(spec, snapshot) /\ spec[r] # None
      BY <2>2 DEF Diff
    <3>2. ~IncompleteRequirement(spec, edges, Diff(spec, snapshot), snapshot, r)
      BY <2>4, <3>1 DEF Incomplete
    <3>3. ChangeType(spec, snapshot, r) \in {"added", "modified"}
      BY <3>1 DEF ChangeType
    <3> QED
      BY <3>2, <3>3 DEF IncompleteRequirement
  <2>6. snapshot'[c] # snapshot[c]
    BY <2>2, <2>5 DEF Diff
  <2>7. Now(journal, c) = spec[c]
    BY <2>2, <2>3 DEF RoundInv, SaveRound
  <2>8. journal \in Seq(Event) /\ Answered(journal) /\ GoodLines(tracker, journal)
        /\ UniqueEIDs(journal) /\ Accounted(journal) /\ Told(journal)
    BY DEF TypeInv, TypeOK, WorkInv, LinkInv, IDInv, AccountInv, RoundInv, JournalRound
  <2>9. /\ Paired(Fold(journal), c) <=> Now(journal, c) # None
        /\ FoldHas(journal, c) => Fold(journal)[c].after = Now(journal, c)
    BY <2>3, <2>8, FoldIsNow
  <2>10. Paired(Fold(journal), c)
    BY <2>3, <2>7, <2>9
  <2>11. FoldHas(journal, c)
    BY <2>3, <2>10, FoldHasDomain DEF Paired
  <2> QED
    BY <2>2, <2>6, <2>7, <2>9, <2>10, <2>11
<1> QED
  BY <1>1, RoundInvariant, PTL DEF Spec, RequirementsReachWork

(***************************************************************************)
(* In plain runs of a project without test sections the change events of   *)
(* every node form a chain from nothing to its latest hash: crashes and    *)
(* re-runs neither repeat a change nor skip one.  A test section is left   *)
(* out because the close of a folded back one writes an event that the     *)
(* fold, and so the next before hash, does not see                         *)
(* (ingest/event_builder.go, priorHash and the close's event).             *)
(***************************************************************************)
THEOREM HistoryStaysAChain ==
    ASSUME PlainRuns, \A n \in Nodes : Kind[n] # "test_section"
    PROVE  Spec => []HistoryIsAChain
<1>1. JournalRound => HistoryIsAChain
  <2> SUFFICES ASSUME JournalRound, NEW n \in Nodes, NEW k \in ChangeLines(journal, n)
               PROVE  LET earlier == {i \in ChangeLines(journal, n) : i < k}
                      IN  journal[k].before = IF earlier = {} THEN None ELSE journal[Max(earlier)].after
    BY DEF HistoryIsAChain
  <2>1. k \in DOMAIN journal /\ journal[k].event \in ChangeKinds /\ journal[k].key = n
    BY DEF ChangeLines
  <2>2. Kind[n] \in PlanRelevant
    BY <2>1 DEF JournalRound, Told, ToldChange
  <2>3. n \in Planned
    BY <2>2 DEF PlanRelevant, Planned
  <2> QED
    BY <2>3 DEF JournalRound, Chained
<1>2. RoundInv => HistoryIsAChain
  BY <1>1 DEF RoundInv
<1> QED
  BY <1>2, RoundInvariant, PTL
=============================================================================
