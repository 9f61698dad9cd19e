------------------------------- MODULE Ingest -------------------------------
(***************************************************************************)
(* spex ingest (package ingest): the journal lines each op of a changeset, *)
(* each absorbed entry and each refreshed leaf implies, and the invariants *)
(* a batch is checked against before it is written.                        *)
(*                                                                         *)
(* j is the journal as parsed when the run started and b the batch built   *)
(* so far: the fold and the registrations come from j alone, the set of    *)
(* known event ids from both.                                              *)
(***************************************************************************)
EXTENDS Plan

CONSTANT RefreshTypes   \* the profile's absorbable (node type, direction) pairs

\* isAbsorbable refuses a whole module.json, whatever the profile declares.
ASSUME RefreshTypesAssumption ==
    RefreshTypes \subseteq (NodeKinds \ {"meta"}) \X {"added", "removed"}

\* Fault: only the batch is searched, so a re-run builds its lines again.
HasEIDInBatch(j, b, e) == e \in KnownEIDs(b)

HasEID(j, b, e) == e \in KnownEIDs(j) \cup KnownEIDs(b)

\* The ingest command's spec graph: the content-bearing nodes, nothing else.
InGraph(cur, n) ==
    n \in Nodes /\ Kind[n] \in {"component", "data_flow", "test_section"} /\ cur[n] # None

\* Fault: every change starts from nothing.
PriorHashNone(j, n) == None

PriorHash(j, n) == IF FoldHas(j, n) THEN Fold(j)[n].after ELSE None

-----------------------------------------------------------------------------
(* EventBuilder: the lines of one ok op whose receipt names task t. *)

BuildNodeCreate(j, b, cur, head, op, t) ==
    LET eid   == DeriveEID(head, "create", op.key)
        prior == PriorHash(j, op.key)
    IN  IF HasEID(j, b, eid) THEN <<>>
        ELSE <<ChangeEvent(IF prior = None THEN "added" ELSE "modified",
                           eid, op.key, prior, cur[op.key]),
               TaskReceipt("task_created", eid, t)>>

BuildEpicCreate(j, op, t) ==
    IF FoldHas(j, op.key) THEN <<>>
    ELSE <<TaskReceipt("task_created", Registration(j, op.key), t)>>

\* The removal may have landed in an earlier batch, with or without its cleanup.
BuildCleanupCreate(j, b, head, op, t) ==
    LET entry == Fold(j)[op.key]
        eid   == DeriveEID(head, "cleanup", op.key)
    IN  CASE entry.removed /\ entry.task # NoTask -> <<>>
          [] entry.removed /\ entry.task = NoTask -> <<TaskReceipt("task_created", entry.eid, t)>>
          [] ~entry.removed /\ HasEID(j, b, eid) -> <<>>
          [] OTHER -> <<ChangeEvent("removed", eid, op.key, entry.after, None),
                        TaskReceipt("task_created", eid, t)>>

BuildRetarget(j, b, head, op) ==
    LET eid == DeriveEID(head, "retarget", op.key)
    IN  IF HasEID(j, b, eid) THEN <<>>
        ELSE <<ChangeEvent("modified", eid, op.key, PriorHash(j, op.key), op.hash),
               TaskReceipt("task_retargeted", eid, op.task)>>

\* The closed node is the one the fold pairs with the closed task.
ClosedNode(j, op) == CHOOSE n \in EntriesByTask(j, op.task) : TRUE

BuildClose(j, b, cur, head, op, t) ==
    LET eid == DeriveEID(head, "close", op.key)
        n   == ClosedNode(j, op)
    IN  IF HasEID(j, b, eid) THEN <<>>
        ELSE <<IF op.why = "removed"
               THEN ChangeEvent("removed", eid, n, Fold(j)[n].after, None)
               ELSE ChangeEvent("modified", eid, n, Fold(j)[n].after, cur[n]),
               TaskReceipt("task_closed", eid, t)>>

BuildOp(j, b, cur, head, op, t) ==
    CASE op.act = "epic" -> BuildEpicCreate(j, op, t)
      [] op.act = "create" -> BuildNodeCreate(j, b, cur, head, op, t)
      [] op.act = "cleanup" -> BuildCleanupCreate(j, b, head, op, t)
      [] op.act = "retarget" -> BuildRetarget(j, b, head, op)
      [] OTHER -> BuildClose(j, b, cur, head, op, t)

\* What makes construction fail: the whole run is then refused.
OpRefused(j, b, cur, head, op) ==
    CASE op.act = "epic" -> ~FoldHas(j, op.key) /\ Registration(j, op.key) = None
      [] op.act = "cleanup" -> ~FoldHas(j, op.key)
      [] op.act \in {"create", "retarget"} ->
            ~HasEID(j, b, DeriveEID(head, op.act, op.key)) /\ ~InGraph(cur, op.key)
      [] OTHER ->
            /\ ~HasEID(j, b, DeriveEID(head, "close", op.key))
            /\ \/ EntriesByTask(j, op.task) = {}
               \/ op.why = "modified" /\ ~InGraph(cur, ClosedNode(j, op))

\* An absorbed entry, whose event id names the transition and has no ordinal.
AbsorbedEID(entry) == DeriveRefreshEID(entry.node, entry.before, entry.after)

BuildAbsorbed(j, b, entry) ==
    IF HasEID(j, b, AbsorbedEID(entry)) THEN <<>>
    ELSE <<ChangeEvent("modified", AbsorbedEID(entry), entry.node, entry.before, entry.after)>>

AbsorbRefused(j, b, cur, entry) ==
    ~HasEID(j, b, AbsorbedEID(entry)) /\ ~InGraph(cur, entry.node)

-----------------------------------------------------------------------------
(* InvariantChecker. *)

\* Invariant 1: no two task_created lines, and no two task_retargeted lines,
\* name the same event; no two legacy epic receipts the same proposal.
Invariant1(j) ==
    \A i, k \in DOMAIN j :
        /\ i # k
        /\ j[i].event \in TaskBearing
        /\ j[i].event = j[k].event
        => /\ j[i].key = None /\ j[k].key = None => j[i].for # j[k].for
           /\ j[i].key # None => j[i].key # j[k].key

\* Invariant 2: every receipt of the batch names events of the journal or the batch.
Invariant2(j, b) ==
    \A i \in DOMAIN b :
        /\ b[i].event \in ReceiptKinds /\ b[i].for # None => HasEID(j, b, b[i].for)
        /\ b[i].absorbed \subseteq KnownEIDs(j) \cup KnownEIDs(b)

-----------------------------------------------------------------------------
(* RefreshHandler: the structural gate, and the event of one drifted leaf. *)

RefreshRefused(j, cur, base) ==
    \/ j = <<>>
    \/ \E n \in Diff(cur, base) :
          /\ ChangeType(cur, base, n) # "modified"
          /\ <<Kind[n], ChangeType(cur, base, n)>> \notin RefreshTypes

\* The journal already ends, for this node, in the transition the diff shows.
AlreadyJournaled(j, cur, base, n) ==
    /\ ChangeLines(j, n) # {}
    /\ LastChange(j, n).event = ChangeType(cur, base, n)
    /\ ChangeType(cur, base, n) = "modified" =>
          LastChange(j, n).before = base[n] /\ LastChange(j, n).after = cur[n]

\* uniqueRefreshEID: the first ordinal the journal has not used for this transition.
RefreshEID(n, before, after, nth) == [DeriveRefreshEID(n, before, after) EXCEPT !.nth = nth]

\* Fault: no ordinal, whatever the journal holds.
FirstFreeNone(j, n, before, after, nth) == nth = 1

FirstFree(j, n, before, after, nth) ==
    /\ RefreshEID(n, before, after, nth) \notin KnownEIDs(j)
    /\ \A m \in 1..(nth - 1) : RefreshEID(n, before, after, m) \in KnownEIDs(j)

RefreshLine(cur, base, n, nth) ==
    ChangeEvent(ChangeType(cur, base, n), RefreshEID(n, base[n], cur[n], nth),
                n, base[n], cur[n])
=============================================================================
