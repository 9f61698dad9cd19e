------------------------------ MODULE Journal ------------------------------
(***************************************************************************)
(* The task journal, .spex/history.jsonl (package mapping).                *)
(*                                                                         *)
(* A journal is a sequence of lines.  A line is a change event (added,     *)
(* modified, removed), a registered event, a task receipt (task_created,   *)
(* task_closed, task_retargeted) or a refresh receipt.  Nothing else is    *)
(* stored: which task currently answers for which node is the *fold* of    *)
(* the lines, recomputed by every command that needs it.                   *)
(*                                                                         *)
(* Identity hashes are naturals: the code orders nodes by the text of      *)
(* their hash, the model by the number.  Content hashes, proposal stems    *)
(* and None (an absent hash, an absent eid) are only compared for          *)
(* equality.  A task id is a positive natural and 0 is "no task".          *)
(***************************************************************************)
EXTENDS Integers, Sequences, FiniteSets, FiniteSetsExt

CONSTANTS
    Nodes,      \* identity hashes of the spec nodes
    Stems,      \* proposal stems
    Hashes,     \* content hashes
    None        \* JSON null, the empty string, an absent map entry

ASSUME JournalAssumption ==
    /\ Nodes \subseteq Nat
    /\ None \notin Nodes \cup Stems \cup Hashes
    /\ Nodes \cap Stems = {}

NoTask == 0

ChangeKinds == {"added", "modified", "removed"}
ReferentKinds == ChangeKinds \cup {"registered"}
TaskBearing == {"task_created", "task_retargeted"}
ReceiptKinds == TaskBearing \cup {"task_closed"}
EventKinds == ReferentKinds \cup ReceiptKinds \cup {"refresh"}

(***************************************************************************)
(* Event ids.  An op-born id is (git head, op id), the op id being the     *)
(* op's action and its key: DeriveEID.  A registered id is (git head,      *)
(* stem).  A refresh-born id is (node, before, after) plus the ordinal     *)
(* uniqueRefreshEID adds when the transition recurs.                       *)
(***************************************************************************)
MaybeHash == Hashes \cup {None}

EIDSources == {"create", "cleanup", "retarget", "close", "registered", "refresh"}

EIDs == [src: EIDSources, head: Nat, key: Nat \cup Stems,
         before: MaybeHash, after: MaybeHash, nth: Nat]

\* An absent id is not an id: the schema wants at least one character.
ASSUME EIDAssumption == None \notin EIDs

DeriveEID(head, act, key) ==
    [src |-> act, head |-> head, key |-> key, before |-> None, after |-> None, nth |-> 1]

RegisteredEID(head, stem) == DeriveEID(head, "registered", stem)

DeriveRefreshEID(n, before, after) ==
    [src |-> "refresh", head |-> 0, key |-> n, before |-> before, after |-> after, nth |-> 1]

-----------------------------------------------------------------------------
Event == [event: EventKinds, eid: EIDs \cup {None}, key: Nodes \cup Stems \cup {None},
          before: MaybeHash, after: MaybeHash,
          for: EIDs \cup {None}, task: Nat, absorbed: SUBSET EIDs]

ChangeEvent(kind, eid, n, before, after) ==
    [event |-> kind, eid |-> eid, key |-> n, before |-> before, after |-> after,
     for |-> None, task |-> NoTask, absorbed |-> {}]

RegisteredEvent(head, stem) ==
    [event |-> "registered", eid |-> RegisteredEID(head, stem), key |-> stem,
     before |-> None, after |-> None, for |-> None, task |-> NoTask, absorbed |-> {}]

TaskReceipt(kind, for, task) ==
    [event |-> kind, eid |-> None, key |-> None, before |-> None, after |-> None,
     for |-> for, task |-> task, absorbed |-> {}]

\* An epic receipt of the retired format: it names the stem, not an event.
LegacyEpicReceipt(stem, task) == [TaskReceipt("task_created", None, task) EXCEPT !.key = stem]

RefreshReceipt(eids) ==
    [event |-> "refresh", eid |-> None, key |-> None, before |-> None, after |-> None,
     for |-> None, task |-> NoTask, absorbed |-> eids]

-----------------------------------------------------------------------------
(* Reading a journal j. *)

KnownEIDs(j) == {j[i].eid : i \in DOMAIN j} \ {None}

\* The eid index is built in full before the walk, so a receipt may precede
\* its referent; of two events with one eid the last is indexed.
ReferentLines(j, e) == {i \in DOMAIN j : j[i].event \in ReferentKinds /\ j[i].eid = e}

Referent(j, e) == j[Max(ReferentLines(j, e))]

IsDangling(j, i) ==
    /\ j[i].event \in TaskBearing
    /\ j[i].key = None
    /\ ReferentLines(j, j[i].for) = {}

\* The fold entry line i writes, or None: change events other than a removal,
\* task_closed and refresh receipts and dangling receipts write none.
EntryKey(j, i) ==
    CASE j[i].event = "removed" -> j[i].key
      [] j[i].event \in TaskBearing /\ j[i].key # None -> j[i].key
      [] j[i].event \in TaskBearing /\ j[i].key = None /\ ~IsDangling(j, i) ->
            Referent(j, j[i].for).key
      [] OTHER -> None

\* Source.EID of the entry line i writes.
SourceEID(j, i) == IF j[i].event = "removed" THEN j[i].eid ELSE j[i].for

EntryLines(j, k) == {i \in DOMAIN j : EntryKey(j, i) = k}

\* Fault: the last line decides, a removal after its own receipt too.
DecidingLineLast(j, k) == Max(EntryLines(j, k))

(***************************************************************************)
(* The latest line wins, with one exception: a removal does not discard a  *)
(* receipt already paired to that very removal.  So the deciding line is   *)
(* the last receipt of the final run of lines that share one source event, *)
(* or, when that run holds only removals, its first line.                  *)
(***************************************************************************)
DecidingLine(j, k) ==
    LET all      == EntryLines(j, k)
        final    == {i \in all : \A r \in all : r >= i => SourceEID(j, r) = SourceEID(j, Max(all))}
        receipts == {i \in final : j[i].event \in TaskBearing}
    IN  IF receipts # {} THEN Max(receipts) ELSE Min(final)

FoldEntries == [task: Nat, removed: BOOLEAN, eid: EIDs \cup {None}, after: MaybeHash]

EntryOf(j, i) ==
    CASE j[i].event = "removed" ->
            [task |-> NoTask, removed |-> TRUE, eid |-> j[i].eid, after |-> j[i].after]
      [] j[i].event # "removed" /\ j[i].key # None ->
            [task |-> j[i].task, removed |-> FALSE, eid |-> None, after |-> None]
      [] OTHER ->
            [task |-> j[i].task, removed |-> Referent(j, j[i].for).event = "removed",
             eid |-> j[i].for, after |-> Referent(j, j[i].for).after]

Fold(j) == [k \in {k \in Nodes \cup Stems : EntryLines(j, k) # {}} |->
               EntryOf(j, DecidingLine(j, k))]

\* MappingStore.Get, by node or stem and by task id.
FoldHas(j, k) == EntryLines(j, k) # {}

EntriesByTask(j, t) == {k \in DOMAIN Fold(j) : Fold(j)[k].task = t}

\* Fault: a history without its retargets.
HistoryLinesNoRetargets(j, n) ==
    LET own == {i \in DOMAIN j : j[i].event \in ChangeKinds /\ j[i].key = n}
    IN  own \cup {i \in DOMAIN j : /\ j[i].event \in {"task_created", "task_closed"}
                                   /\ j[i].for \in {j[o].eid : o \in own}}

\* History: the change events of a node and the receipts paired to them.
HistoryLines(j, n) ==
    LET own == {i \in DOMAIN j : j[i].event \in ChangeKinds /\ j[i].key = n}
    IN  own \cup {i \in DOMAIN j : /\ j[i].event \in ReceiptKinds
                                   /\ j[i].for \in {j[o].eid : o \in own}}

\* The latest change event of a node, as refresh reads it (lastChangeByNode).
ChangeLines(j, n) == {i \in DOMAIN j : j[i].event \in ChangeKinds /\ j[i].key = n}

LastChange(j, n) == j[Max(ChangeLines(j, n))]

\* The eid of the latest registered event of a stem, or None.
Registration(j, stem) ==
    LET regs == {i \in DOMAIN j : j[i].event = "registered" /\ j[i].key = stem}
    IN  IF regs = {} THEN None ELSE j[Max(regs)].eid
=============================================================================
