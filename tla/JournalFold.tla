---------------------------- MODULE JournalFold ----------------------------
(***************************************************************************)
(* MappingStore over any journal its readers may meet: lines a merge or an *)
(* older release wrote included, so receipts may precede the event they    *)
(* name, name none, or use the retired epic form.                          *)
(*                                                                         *)
(* Journal!Fold says what the fold is; Walk computes it line by line, as   *)
(* mapping/mapping_store.go does.  Every command trusts the result, so     *)
(* the two are compared on every journal up to MaxLines lines.             *)
(***************************************************************************)
EXTENDS Journal

CONSTANTS
    Written,    \* the lines a journal may hold
    MaxLines    \* bound: the length of a journal

\* What the journal-line schema admits: Parse stops at any other line.
ValidLine(ev) ==
    /\ ev.event \in ReferentKinds => ev.eid \in EIDs
    /\ ev.event \in ChangeKinds => ev.key \in Nodes
    /\ ev.event = "registered" => ev.key \in Stems
    /\ ev.event \in TaskBearing => (ev.key = None /\ ev.for \in EIDs)
                                    \/ (ev.key \in Stems /\ ev.for = None)

ASSUME JournalFoldAssumption ==
    /\ Written \subseteq Event /\ \A ev \in Written : ValidLine(ev)
    /\ MaxLines \in Nat

VARIABLE log

-----------------------------------------------------------------------------
(* fold(): one pass over the lines, the eid index built beforehand. *)

Put(entries, k, e) ==
    [x \in DOMAIN entries \cup {k} |-> IF x = k THEN e ELSE entries[x]]

\* Fault: a removal always overwrites the entry.
WalkRemovedOverwriting(j, entries, ev) ==
    Put(entries, ev.key, [task |-> NoTask, removed |-> TRUE, eid |-> ev.eid, after |-> ev.after])

WalkRemoved(j, entries, ev) ==
    IF ev.key \in DOMAIN entries /\ entries[ev.key].eid = ev.eid THEN entries
    ELSE Put(entries, ev.key,
             [task |-> NoTask, removed |-> TRUE, eid |-> ev.eid, after |-> ev.after])

WalkReceipt(j, entries, ev) ==
    CASE ev.key # None ->
            Put(entries, ev.key, [task |-> ev.task, removed |-> FALSE, eid |-> None, after |-> None])
      [] ev.key = None /\ ReferentLines(j, ev.for) = {} -> entries
      [] OTHER ->
            LET referent == Referent(j, ev.for)
            IN  Put(entries, referent.key,
                    [task |-> ev.task, removed |-> referent.event = "removed",
                     eid |-> referent.eid, after |-> referent.after])

WalkLine(j, entries, ev) ==
    CASE ev.event = "removed" -> WalkRemoved(j, entries, ev)
      [] ev.event \in TaskBearing -> WalkReceipt(j, entries, ev)
      [] OTHER -> entries

Walk(j) ==
    LET walk[i \in 0..Len(j)] ==
            IF i = 0 THEN [k \in {} |-> None] ELSE WalkLine(j, walk[i - 1], j[i])
    IN  walk[Len(j)]

-----------------------------------------------------------------------------
LogInit == log = <<>>

AppendLine(ev) == Len(log) < MaxLines /\ log' = Append(log, ev)

LogNext == \E ev \in Written : AppendLine(ev)

LogSpec == LogInit /\ [][LogNext]_log

-----------------------------------------------------------------------------
(***************************************************************************)
(* The declarative fold is the fold the code computes, entry by entry, on  *)
(* every journal: what the other modules say about Fold is about           *)
(* mapping/mapping_store.go's fold().                                      *)
(***************************************************************************)
FoldIsWalk == Fold(log) = Walk(log)

(***************************************************************************)
(* Receipt-before-referent is a position, not a pairing: exchanging an     *)
(* event with a task receipt for that very event, when they are neighbours *)
(* in the file, changes no fold entry (the comment on fold()).             *)
(***************************************************************************)
Swapped(j, i) == [j EXCEPT ![i] = j[i + 1], ![i + 1] = j[i]]

ReceiptPositionIsImmaterial ==
    \A i \in 1..(Len(log) - 1) :
        /\ log[i].event \in ReferentKinds
        /\ log[i + 1].event \in TaskBearing /\ log[i + 1].for = log[i].eid
        => Fold(Swapped(log, i)) = Fold(log)

(***************************************************************************)
(* The history of a node tells where its linkage comes from: the line that *)
(* decides its fold entry is a line of its History, and so is the event    *)
(* that entry is sourced from (List and History agree).                    *)
(***************************************************************************)
HistoryTellsTheFold ==
    \A n \in Nodes \cap DOMAIN Fold(log) :
        /\ DecidingLine(log, n) \in HistoryLines(log, n)
        /\ \E i \in HistoryLines(log, n) : log[i].eid = Fold(log)[n].eid
=============================================================================
