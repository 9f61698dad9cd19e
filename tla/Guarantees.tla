----------------------------- MODULE Guarantees -----------------------------
(***************************************************************************)
(* What the pipeline promises: the properties its runs check.              *)
(***************************************************************************)
EXTENDS Pipeline

\* The node types whose every change is planned (a test_section may fold back).
Planned == {n \in Nodes : Kind[n] \in {"component", "data_flow"}}

Settled == phase = "clean" /\ proc = "idle"

InFlight(t) == tracker[t].status \in {"open", "in_progress"}

(***************************************************************************)
(* Once no changeset is outstanding, the journal fold and the baseline     *)
(* agree on every planned node: it is paired with a task exactly when the  *)
(* baseline has it, and the event the pairing is sourced from records the  *)
(* baseline's hash.  It is what lets plan trust the fold after any history *)
(* of partial runs and crashes (plan/action_classifier.go, the already     *)
(* tracked cell; ingest/event_builder.go, the before hash).                *)
(***************************************************************************)
LinkageMatchesBaseline ==
    Settled =>
        LET fold == Fold(journal)
        IN  \A n \in Planned :
                /\ (snapshot[n] # None) = Paired(fold, n)
                /\ snapshot[n] # None => fold[n].after = snapshot[n]

(***************************************************************************)
(* No spec node ever has two tasks in flight, whatever was crashed and     *)
(* re-run: the label probe of scripts/apply-br.sh finds what a dead run    *)
(* left behind, and plan retargets an open task instead of creating one.   *)
(***************************************************************************)
NoDuplicateLiveTask ==
    \A t, u \in DOMAIN tracker :
        /\ t # u /\ tracker[t].act = "create" /\ tracker[u].act = "create"
        /\ InFlight(t) /\ InFlight(u)
        => tracker[t].key # tracker[u].key

(***************************************************************************)
(* No two lines of the journal carry the same event id: ingest drops or    *)
(* disambiguates a line whose id is present (the reconciler's hasEID, the  *)
(* registrar's eid check, uniqueRefreshEID).                               *)
(***************************************************************************)
EventIDsUnique ==
    \A i, k \in DOMAIN journal :
        journal[i].eid = journal[k].eid /\ journal[i].eid # None => i = k

(***************************************************************************)
(* Ingest never refuses what plan and the adapter produced: every lookup   *)
(* of the event builder succeeds and the batch passes invariants 1 and 2   *)
(* (ingest/event_builder.go, ingest/invariant_checker.go).                 *)
(***************************************************************************)
IngestNeverRefuses == proc = "reconcile" => ~Refuses

(***************************************************************************)
(* The task the fold names for a node or a proposal is one the tracker     *)
(* has for that very node or proposal, and carries the label of the event  *)
(* the pairing is sourced from: label and referent stay one fact           *)
(* (plan/labeler.go, cleanupLabel's comment).                              *)
(***************************************************************************)
PairingsNameTheirTask ==
    LET fold == Fold(journal)
    IN  \A k \in DOMAIN fold : fold[k].task # NoTask =>
            /\ fold[k].task \in DOMAIN tracker
            /\ tracker[fold[k].task].key = k
            /\ fold[k].eid \in tracker[fold[k].task].labels

(***************************************************************************)
(* Once no changeset is outstanding, every task in flight for a node is    *)
(* the one the fold pairs with it, and the baseline has the node: live     *)
(* work on a node that left the spec was closed, none is forgotten         *)
(* (plan/action_classifier.go, classifyOrphaned).                          *)
(***************************************************************************)
LiveWorkIsTracked ==
    Settled =>
        \A t \in DOMAIN tracker :
            tracker[t].act = "create" /\ InFlight(t) =>
                /\ snapshot[tracker[t].key] # None
                /\ FoldHas(journal, tracker[t].key)
                /\ Fold(journal)[tracker[t].key].task = t

(***************************************************************************)
(* Lines are only ever added at the end of the journal, except that a      *)
(* refresh whose snapshot cannot be written takes back its own lines       *)
(* (mapping.Append, ingest/refresh.go's rollback).                         *)
(***************************************************************************)
JournalOnlyGrows ==
    [][\/ Len(journal') >= Len(journal) /\ SubSeq(journal', 1, Len(journal)) = journal
       \/ proc = "refreshSave" /\ journal = journal' \o batch /\ snapshot' = snapshot]_vars

(***************************************************************************)
(* When the baseline moves, the journal already records the move of every  *)
(* planned node: its latest change event ends in the hash the baseline     *)
(* takes, so the journal may run ahead of the snapshot and never behind    *)
(* (ingest.go appends before Saver.Save; spec/ingest/arch_reconciler.md).  *)
(***************************************************************************)
JournalLeadsBaseline ==
    [][\A n \in Planned : snapshot'[n] # snapshot[n] =>
          /\ ChangeLines(journal, n) # {}
          /\ LastChange(journal, n).after = snapshot'[n]]_vars

(***************************************************************************)
(* A requirement's change reaches work: when ingest moves the baseline     *)
(* past it, every component that implements the requirement has moved too, *)
(* and the fold pairs it with a task at its new hash                       *)
(* (merkle/completeness_checker.go, enforced by cmd/spex/plan.go, and      *)
(* still true when the changeset took several partial runs).               *)
(***************************************************************************)
RequirementsReachWork ==
    [][proc = "save" =>
          \A r \in {n \in Nodes : Kind[n] = "requirement" /\ snapshot'[n] # None} :
              snapshot'[r] # snapshot[r] =>
                  \A c \in Implementors(spec, edges, r) :
                      /\ snapshot'[c] # snapshot[c]
                      /\ Paired(Fold(journal), c)
                      /\ Fold(journal)[c].after = snapshot'[c]]_vars

(***************************************************************************)
(* No work is lost: with the baseline equal to the spec and nothing        *)
(* outstanding, the task of every node that owes one is in flight, or was  *)
(* finished while it carried the label of the event it is paired with,     *)
(* that is after it had been moved to the baseline's hash                  *)
(* (plan/action_classifier.go, the status split of classifyMatch).         *)
(***************************************************************************)
NoLostWork ==
    Settled /\ spec = snapshot =>
        LET fold == Fold(journal)
        IN  \A n \in Nodes :
                spec[n] # None /\ GateAdmits(edges, n) /\ n \in DOMAIN fold =>
                    \/ InFlight(fold[n].task)
                    \/ fold[n].eid \in tracker[fold[n].task].built

(***************************************************************************)
(* The deps the tracker holds never lock tasks in flight in a circle, so   *)
(* some task is always workable (plan/sorter.go refuses cycles in a batch; *)
(* retargets only ever add deps).                                          *)
(***************************************************************************)
NoDependencyCycle ==
    \A S \in (SUBSET {t \in DOMAIN tracker : InFlight(t)}) \ {{}} :
        \E t \in S : tracker[t].deps \cap S = {}

(***************************************************************************)
(* A create of a later layer waits, directly or through others, for every  *)
(* create of every earlier layer of its changeset, though plan only adds   *)
(* edges to the nearest one (plan/builder.go, layerEdgesFor).              *)
(***************************************************************************)
LayersAreOrdered ==
    cs # None =>
        \A o, p \in {op \in cs.ops : op.act \in {"create", "cleanup"}} :
            OpLayer(p) < OpLayer(o) =>
                \A S \in SUBSET {OpID(op) : op \in cs.ops} :
                    /\ OpID(o) \in S
                    /\ \A op \in cs.ops : OpID(op) \in S => op.opDeps \subseteq S
                    => OpID(p) \in S

(***************************************************************************)
(* The change events of a node form a chain: the first starts from         *)
(* nothing and each starts from the hash the one before it ended in, so    *)
(* the journal alone tells the node's biography (ingest/event_builder.go,  *)
(* priorHash; the before hashes of ingest/refresh.go).                     *)
(***************************************************************************)
HistoryIsAChain ==
    \A n \in Nodes : \A k \in ChangeLines(journal, n) :
        LET earlier == {i \in ChangeLines(journal, n) : i < k}
        IN  journal[k].before = IF earlier = {} THEN None ELSE journal[Max(earlier)].after

(***************************************************************************)
(* Every event born of a refresh or of an absorb mark is named by exactly  *)
(* one refresh receipt, and a receipt names only such events: a crash, a   *)
(* roll-back or a re-run never leaves drift absorbed without the receipt   *)
(* that accounts for it (the last line of both batches, ingest/refresh.go  *)
(* and ingest/reconciler.go).                                              *)
(***************************************************************************)
AbsorbedEventsReceipted ==
    LET named(e) == {i \in DOMAIN journal : e \in journal[i].absorbed}
    IN  /\ \A i \in DOMAIN journal :
              journal[i].event \in ChangeKinds /\ journal[i].eid.src = "refresh" =>
                  Cardinality(named(journal[i].eid)) = 1
        /\ \A i \in DOMAIN journal : \A e \in journal[i].absorbed :
              e \in KnownEIDs(journal) /\ e.src = "refresh"

-----------------------------------------------------------------------------
(* Progress. *)

\* There is something to plan and plan would write a changeset.  Plan leaves
\* the phase "planned", where this does not hold, so its weak fairness is that
\* it infinitely often does not hold; nothing is absorbed in the run that
\* assumes it.
Plannable ==
    /\ proc = "idle" /\ phase \in PlanPhases \ {"planned"}
    /\ Diff(spec, snapshot) # {} \/ phase = "partial"
    /\ ~Incomplete(spec, edges, snapshot)
    /\ \E stem \in Stems :
          ~PlanRefused(journal, spec, edges, ExportTasks, stem, Diff(spec, snapshot))

\* Ingest can take its next op or entry.  A run takes finitely many, so the weak
\* fairness of taking them is again that infinitely often it cannot.
Reconcilable ==
    /\ proc = "reconcile"
    /\ \/ \E op \in cs.ops :
             /\ Reconciling(op)
             /\ receipts[OpID(op)].status = "ok" => ~OpRefused(journal, batch, spec, cs.head, op)
       \/ \E entry \in cs.absorbed :
             Absorbing(entry) /\ ~AbsorbRefused(journal, batch, spec, entry)

\* The next step of the command that is running, reconciling apart.
CommandStep ==
    \/ proc = "adapter" /\ AdapterStep
    \/ AdapterFinish
    \/ IngestCommit
    \/ IngestSave

Fairness ==
    /\ WF_vars(\E stem \in Stems : Register(stem))
    /\ []<>~Plannable /\ []<>~Reconcilable
    /\ WF_vars(AdapterStart) /\ WF_vars(IngestStart) /\ WF_vars(CommandStep)
    /\ WF_vars(\E t \in DOMAIN tracker : Finish(t))

FairSpec == Spec /\ Fairness

(***************************************************************************)
(* The baseline catches up with the spec after the last commit, however    *)
(* often runs crashed or were partial: an operator who keeps re-running    *)
(* the pipeline ends with snapshot and spec equal, and every changeset is  *)
(* worked off (the re-run protocol of cmd/spex/ingest.go, apply-br.sh).    *)
(***************************************************************************)
BaselineConverges == <>[](snapshot = spec) /\ []<>Settled
=============================================================================
