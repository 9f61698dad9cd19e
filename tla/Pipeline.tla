------------------------------ MODULE Pipeline ------------------------------
(***************************************************************************)
(* One spex project and its task tracker through edit, register, plan,     *)
(* adapter run, ingest and refresh, with crashes between the steps that    *)
(* reach the disk or the tracker.                                          *)
(*                                                                         *)
(* Durable: the committed spec, .spex/snapshot.json, .spex/history.jsonl,  *)
(* the registered proposals, the tracker, the changeset and the receipts.  *)
(* In memory of the command that runs: results, batch, done.               *)
(*                                                                         *)
(* phase is where the operator is in the run of one changeset:             *)
(*   clean     no changeset outstanding                                    *)
(*   planned   spex plan wrote a changeset                                 *)
(*   dead      the adapter died before it wrote receipts                   *)
(*   applied   the adapter wrote receipts, not all ingested                *)
(*   partial   receipts with an error were ingested: plan again            *)
(***************************************************************************)
EXTENDS Ingest

CONSTANTS
    Drafts,         \* the specs an author may commit: [hash, edges] records
    EditPhases,     \* the phases in which specs are committed
    PlanPhases,     \* the phases in which plan is run
    RefreshPhases,  \* the phases in which refresh is run
    WorkPhases,     \* the phases in which implementers claim and finish tasks
    AllowAbsorb,    \* whether plan is given absorb marks
    MaxHead,        \* bound: commits of the spec
    MaxFaults       \* bound: crashes and tracker failures

Phases == {"clean", "planned", "dead", "applied", "partial"}

Procs == {"idle", "adapter", "reconcile", "save", "refresh", "refreshSave"}

Specs == [Nodes -> MaybeHash]

ASSUME PipelineAssumption ==
    /\ Drafts \subseteq [hash: Specs, edges: [Nodes -> SUBSET Nodes]]
    /\ EditPhases \cup PlanPhases \cup RefreshPhases \cup WorkPhases \subseteq Phases
    /\ AllowAbsorb \in BOOLEAN
    /\ MaxHead \in Nat /\ MaxFaults \in Nat

VARIABLES
    spec,       \* content hash per node, None when absent
    edges,      \* uses and describes per node
    head,       \* git head: the number of spec commits
    snapshot,   \* the baseline
    journal,    \* the task journal
    proposals,  \* stems whose file is under spec/proposals
    tracker,    \* tasks, by task id
    cs,         \* the changeset on disk, or None
    receipts,   \* receipts.json, the empty function when there is none
    phase,
    proc,       \* the command that is running
    results,    \* the adapter's receipts so far (SUB_TABLE and OP_STATUS)
    batch,      \* the journal lines ingest has built
    done,       \* what the running ingest loop has processed
    faults      \* crashes and tracker failures so far

specVars    == <<spec, edges, head>>
journalVars == <<snapshot, journal, proposals>>
runVars     == <<cs, receipts, phase>>
memVars     == <<proc, results, batch, done>>
vars == <<specVars, journalVars, tracker, runVars, memVars, faults>>

Task == [act: {"epic", "create", "cleanup"}, key: Nodes \cup Stems,
         labels: SUBSET EIDs, built: SUBSET EIDs,
         status: {"open", "in_progress", "closed"}, deps: SUBSET Nat]

Receipt == [status: {"ok", "error"}, task: Nat]

NoReceipts == [id \in {} |-> None]

LoopIDs == OpIDs \cup {"absorb", "refresh"} \X Nodes

TypeOK ==
    /\ spec \in Specs /\ edges \in [Nodes -> SUBSET Nodes] /\ head \in Nat
    /\ snapshot \in Specs
    /\ journal \in Seq(Event)
    /\ proposals \in SUBSET Stems
    /\ tracker \in Seq(Task)
    /\ cs \in Changeset \cup {None}
    /\ DOMAIN receipts \subseteq OpIDs /\ \A id \in DOMAIN receipts : receipts[id] \in Receipt
    /\ phase \in Phases
    /\ proc \in Procs
    /\ DOMAIN results \subseteq OpIDs /\ \A id \in DOMAIN results : results[id] \in Receipt
    /\ batch \in Seq(Event)
    /\ done \in SUBSET LoopIDs
    /\ faults \in Nat

\* spex init: an empty journal beside a snapshot of the empty tree.
Init ==
    /\ spec = [n \in Nodes |-> None] /\ edges = [n \in Nodes |-> {}] /\ head = 0
    /\ snapshot = [n \in Nodes |-> None] /\ journal = <<>> /\ proposals = {}
    /\ tracker = <<>>
    /\ cs = None /\ receipts = NoReceipts /\ phase = "clean"
    /\ proc = "idle" /\ results = NoReceipts /\ batch = <<>> /\ done = {}
    /\ faults = 0

Fault == faults < MaxFaults /\ faults' = faults + 1

Stop == proc' = "idle" /\ results' = NoReceipts /\ batch' = <<>> /\ done' = {}

-----------------------------------------------------------------------------
(* The author, the implementers, and registration. *)

EditSpec ==
    /\ proc = "idle" /\ phase \in EditPhases /\ head < MaxHead
    /\ \E d \in Drafts :
          /\ d.hash # spec \/ d.edges # edges
          /\ spec' = d.hash /\ edges' = d.edges /\ head' = head + 1
    /\ UNCHANGED <<journalVars, tracker, runVars, memVars, faults>>

Claim(t) ==
    /\ phase \in WorkPhases
    /\ tracker[t].status = "open" /\ tracker[t].act # "epic"
    /\ tracker' = [tracker EXCEPT ![t] = [@ EXCEPT !.status = "in_progress"]]
    /\ UNCHANGED <<specVars, journalVars, runVars, memVars, faults>>

Finish(t) ==
    /\ phase \in WorkPhases
    /\ tracker[t].status = "in_progress"
    /\ tracker' = [tracker EXCEPT ![t] = [@ EXCEPT !.status = "closed", !.built = tracker[t].labels]]
    /\ UNCHANGED <<specVars, journalVars, runVars, memVars, faults>>

\* Register appends the event unless its eid is present, then copies the file;
\* the destination's existence refuses a second registration.  Registration
\* comes before plan: the mint skill never runs it on an outstanding changeset.
AppendRegistered(stem) ==
    journal' = IF RegisteredEID(head, stem) \in KnownEIDs(journal) THEN journal
               ELSE Append(journal, RegisteredEvent(head, stem))

Register(stem) ==
    /\ proc = "idle" /\ phase \in {"clean", "partial"} /\ stem \notin proposals
    /\ AppendRegistered(stem)
    /\ proposals' = proposals \cup {stem}
    /\ UNCHANGED <<specVars, snapshot, tracker, runVars, memVars, faults>>

RegisterCrash(stem) ==
    /\ proc = "idle" /\ phase \in {"clean", "partial"} /\ stem \notin proposals
    /\ AppendRegistered(stem)
    /\ Fault
    /\ UNCHANGED <<specVars, snapshot, proposals, tracker, runVars, memVars>>

-----------------------------------------------------------------------------
(* The adapter's export and spex plan. *)

\* Fault: the export reports every task in flight as open.
ExportTasksAllOpen ==
    [t \in {t \in DOMAIN tracker : tracker[t].status # "closed"} |-> "open"]

\* export-br.sh keeps the tasks in flight.  It runs before every plan, and plan
\* reads nothing else of the tracker: a claim between the two is a claim
\* after the plan.
ExportTasks ==
    [t \in {t \in DOMAIN tracker : tracker[t].status # "closed"} |-> tracker[t].status]

Plan(stem, marks) ==
    /\ proc = "idle" /\ phase \in PlanPhases
    /\ ~Incomplete(spec, edges, snapshot)
    /\ marks # {} => AllowAbsorb
    /\ ~PlanRefused(journal, spec, edges, ExportTasks, stem, Diff(spec, snapshot) \ marks)
    /\ cs' = Build(journal, spec, edges, snapshot, ExportTasks, head, stem, marks)
    /\ receipts' = NoReceipts /\ phase' = "planned"
    /\ UNCHANGED <<specVars, journalVars, tracker, memVars, faults>>

-----------------------------------------------------------------------------
(* apply-br.sh: the ops in file order, the receipts at the end. *)

AdapterStart ==
    /\ proc = "idle" /\ phase \in {"planned", "dead"}
    /\ proc' = "adapter"
    /\ UNCHANGED <<specVars, journalVars, tracker, runVars, results, batch, done, faults>>

Running(op) == proc = "adapter" /\ EmittedNext(cs.ops, DOMAIN results, op)

Respond(op, status, t) ==
    results' = [id \in DOMAIN results \cup {OpID(op)} |->
                   IF id = OpID(op) THEN [status |-> status, task |-> t] ELSE results[id]]

\* resolve_ref: every op ref must name an op that has a task.
RefsResolve(op) ==
    \A r \in op.parent \cup op.opDeps : r \in DOMAIN results /\ results[r].status = "ok"

DepTasks(op) == op.taskDeps \cup {results[r].task : r \in op.opDeps}

\* Fault: no idempotency probe.
LabelledNone(label) == {}

Labelled(label) == {t \in DOMAIN tracker : label \in tracker[t].labels}

NewTask(op) ==
    [act |-> op.act, key |-> op.key, labels |-> {op.label}, built |-> {},
     status |-> "open", deps |-> DepTasks(op)]

IsCreate(op) == op.act \in {"epic", "create", "cleanup"}

adapterFrame == UNCHANGED <<specVars, journalVars, runVars, proc, batch, done>>

\* The idempotency probe: a task with the op's label, in any status.
AdapterMatch(op) ==
    /\ Running(op) /\ IsCreate(op)
    /\ \E t \in Labelled(op.label) : Respond(op, "ok", t)
    /\ adapterFrame /\ UNCHANGED <<tracker, faults>>

AdapterCreate(op) ==
    /\ Running(op) /\ IsCreate(op) /\ Labelled(op.label) = {} /\ RefsResolve(op)
    /\ tracker' = Append(tracker, NewTask(op))
    /\ Respond(op, "ok", Len(tracker) + 1)
    /\ adapterFrame /\ UNCHANGED faults

Retargeted(task, op, deps) ==
    [task EXCEPT !.labels = @ \cup {op.label}, !.deps = @ \cup deps]

AdapterRetarget(op) ==
    /\ Running(op) /\ op.act = "retarget" /\ RefsResolve(op)
    /\ tracker' = [tracker EXCEPT ![op.task] = Retargeted(@, op, DepTasks(op))]
    /\ Respond(op, "ok", op.task)
    /\ adapterFrame /\ UNCHANGED faults

\* close --force, whatever the status; a task already closed is left alone.
AdapterClose(op) ==
    /\ Running(op) /\ op.act = "close"
    /\ tracker' = [tracker EXCEPT ![op.task] = [@ EXCEPT !.status = "closed"]]
    /\ Respond(op, "ok", op.task)
    /\ adapterFrame /\ UNCHANGED faults

\* A ref to an op that errored, or that has not run, errors this op too.
AdapterRefError(op) ==
    /\ Running(op) /\ ~RefsResolve(op)
    /\ IsCreate(op) => Labelled(op.label) = {}
    /\ Respond(op, "error", NoTask)
    /\ adapterFrame /\ UNCHANGED <<tracker, faults>>

\* A retarget that got only so far: its label and some of its deps are added.
PartlyRetargeted(op) ==
    /\ op.act = "retarget" /\ RefsResolve(op)
    /\ \E added \in SUBSET DepTasks(op) :
          /\ added # DepTasks(op)
          /\ tracker' = [tracker EXCEPT ![op.task] = Retargeted(@, op, added)]

\* A br call fails.  Nothing has changed, or the create's id was not reported,
\* or the retarget was under way.
AdapterOpFails(op) ==
    /\ Running(op) /\ Fault
    /\ Respond(op, "error", NoTask)
    /\ \/ UNCHANGED tracker
       \/ /\ IsCreate(op) /\ Labelled(op.label) = {} /\ RefsResolve(op)
          /\ tracker' = Append(tracker, NewTask(op))
       \/ PartlyRetargeted(op)
    /\ adapterFrame

AdapterFinish ==
    /\ proc = "adapter" /\ DOMAIN results = {OpID(op) : op \in cs.ops}
    /\ receipts' = results /\ phase' = "applied"
    /\ Stop
    /\ UNCHANGED <<specVars, journalVars, tracker, cs, faults>>

\* The adapter dies between two ops, or in the middle of a retarget.
AdapterCrash ==
    /\ proc = "adapter" /\ Fault
    /\ \/ UNCHANGED tracker
       \/ \E op \in cs.ops : Running(op) /\ PartlyRetargeted(op)
    /\ phase' = "dead"
    /\ Stop
    /\ UNCHANGED <<specVars, journalVars, cs, receipts>>

-----------------------------------------------------------------------------
(* spex ingest, normal mode. *)

\* Fault: the saver does not look at the receipts.
AllOkAssumed == TRUE

AllOk == \A id \in DOMAIN receipts : receipts[id].status = "ok"

IngestStart ==
    /\ proc = "idle" /\ phase = "applied"
    /\ DOMAIN receipts = {OpID(op) : op \in cs.ops}
    /\ proc' = "reconcile"
    /\ UNCHANGED <<specVars, journalVars, tracker, runVars, results, batch, done, faults>>

Reconciling(op) ==
    /\ proc = "reconcile"
    /\ op \in cs.ops /\ EmittedNext(cs.ops, done, op)

ReconcileOp(op) ==
    /\ Reconciling(op)
    /\ \/ receipts[OpID(op)].status = "error" /\ batch' = batch
       \/ /\ receipts[OpID(op)].status = "ok"
          /\ ~OpRefused(journal, batch, spec, cs.head, op)
          /\ batch' = batch \o BuildOp(journal, batch, spec, cs.head, op, receipts[OpID(op)].task)
    /\ done' = done \cup {OpID(op)}
    /\ UNCHANGED <<specVars, journalVars, tracker, runVars, proc, results, faults>>

OpsDone == \A op \in cs.ops : OpID(op) \in done

\* The absorbed entries, whatever the receipts say.
Absorbing(entry) ==
    /\ proc = "reconcile" /\ OpsDone
    /\ <<"absorb", entry.node>> \notin done

AbsorbEntry(entry) ==
    /\ Absorbing(entry)
    /\ ~AbsorbRefused(journal, batch, spec, entry)
    /\ batch' = batch \o BuildAbsorbed(journal, batch, entry)
    /\ done' = done \cup {<<"absorb", entry.node>>}
    /\ UNCHANGED <<specVars, journalVars, tracker, runVars, proc, results, faults>>

AbsorbedEIDs == {e \in KnownEIDs(batch) : e.src = "refresh"}

Committable ==
    /\ proc = "reconcile" /\ OpsDone
    /\ \A entry \in cs.absorbed : <<"absorb", entry.node>> \in done

FinalBatch ==
    IF AbsorbedEIDs = {} THEN batch ELSE Append(batch, RefreshReceipt(AbsorbedEIDs))

BatchSound == Invariant1(journal \o FinalBatch) /\ Invariant2(journal, FinalBatch)

\* Fault: the journal file is rewritten with the batch alone.
IngestCommitRewriting ==
    /\ Committable /\ BatchSound
    /\ journal' = FinalBatch
    /\ proc' = "save" /\ batch' = <<>> /\ done' = {}
    /\ UNCHANGED <<specVars, snapshot, proposals, tracker, runVars, results, faults>>

IngestCommit ==
    /\ Committable /\ BatchSound
    /\ journal' = journal \o FinalBatch
    /\ proc' = "save" /\ batch' = <<>> /\ done' = {}
    /\ UNCHANGED <<specVars, snapshot, proposals, tracker, runVars, results, faults>>

\* A construction error or an invariant failure refuses the run: exit 2.
Refuses ==
    \/ \E op \in cs.ops : /\ Reconciling(op)
                          /\ receipts[OpID(op)].status = "ok"
                          /\ OpRefused(journal, batch, spec, cs.head, op)
    \/ \E entry \in cs.absorbed : /\ Absorbing(entry)
                                  /\ AbsorbRefused(journal, batch, spec, entry)
    \/ Committable /\ ~BatchSound

IngestRefuse ==
    /\ proc = "reconcile" /\ Refuses
    /\ Stop
    /\ UNCHANGED <<specVars, journalVars, tracker, runVars, faults>>

\* SnapshotSaver: the tree of the spec as it now is, and only when complete.
IngestSave ==
    /\ proc = "save"
    /\ snapshot' = IF AllOk THEN spec ELSE snapshot
    /\ phase' = IF AllOk THEN "clean" ELSE "partial"
    /\ cs' = None /\ receipts' = NoReceipts
    /\ Stop
    /\ UNCHANGED <<specVars, journal, proposals, tracker, faults>>

IngestCrash ==
    /\ proc \in {"reconcile", "save"} /\ Fault
    /\ Stop
    /\ UNCHANGED <<specVars, journalVars, tracker, runVars>>

-----------------------------------------------------------------------------
(* spex ingest, refresh mode. *)

RefreshStart ==
    /\ proc = "idle" /\ phase \in RefreshPhases
    /\ ~RefreshRefused(journal, spec, snapshot)
    /\ Diff(spec, snapshot) # {}
    /\ proc' = "refresh"
    /\ UNCHANGED <<specVars, journalVars, tracker, runVars, results, batch, done, faults>>

Left == {n \in Diff(spec, snapshot) : <<"refresh", n>> \notin done}

RefreshEntry(n) ==
    /\ proc = "refresh" /\ n \in Left /\ \A m \in Left : n <= m
    /\ \/ /\ Kind[n] = "meta" \/ AlreadyJournaled(journal, spec, snapshot, n)
          /\ batch' = batch
       \/ /\ Kind[n] # "meta" /\ ~AlreadyJournaled(journal, spec, snapshot, n)
          /\ \E nth \in 1..(Len(journal) + 1) :
                /\ FirstFree(journal, n, snapshot[n], spec[n], nth)
                /\ batch' = Append(batch, RefreshLine(spec, snapshot, n, nth))
    /\ done' = done \cup {<<"refresh", n>>}
    /\ UNCHANGED <<specVars, journalVars, tracker, runVars, proc, results, faults>>

RefreshAppend ==
    /\ proc = "refresh" /\ Left = {}
    /\ batch' = Append(batch, RefreshReceipt(KnownEIDs(batch)))
    /\ journal' = journal \o batch'
    /\ proc' = "refreshSave"
    /\ UNCHANGED <<specVars, snapshot, proposals, tracker, runVars, results, done, faults>>

RefreshSave ==
    /\ proc = "refreshSave"
    /\ snapshot' = spec
    /\ Stop
    /\ UNCHANGED <<specVars, journal, proposals, tracker, runVars, faults>>

\* Fault: the roll-back drops the receipt and keeps the events.
RefreshSaveFailsShort ==
    /\ proc = "refreshSave" /\ Fault
    /\ journal' = SubSeq(journal, 1, Len(journal) - 1)
    /\ Stop
    /\ UNCHANGED <<specVars, snapshot, proposals, tracker, runVars>>

\* The snapshot cannot be written: the journal's earlier bytes are restored.
RefreshSaveFails ==
    /\ proc = "refreshSave" /\ Fault
    /\ journal' = SubSeq(journal, 1, Len(journal) - Len(batch))
    /\ Stop
    /\ UNCHANGED <<specVars, snapshot, proposals, tracker, runVars>>

RefreshCrash ==
    /\ proc \in {"refresh", "refreshSave"} /\ Fault
    /\ Stop
    /\ UNCHANGED <<specVars, journalVars, tracker, runVars>>

-----------------------------------------------------------------------------
Work == \E t \in DOMAIN tracker : Claim(t) \/ Finish(t)

Registering == \E stem \in Stems : Register(stem) \/ RegisterCrash(stem)

Planning == \E stem \in Stems : \E marks \in SUBSET Absorbable(spec, snapshot) : Plan(stem, marks)

AdapterStep ==
    \E op \in cs.ops :
        AdapterMatch(op) \/ AdapterCreate(op) \/ AdapterRetarget(op)
            \/ AdapterClose(op) \/ AdapterRefError(op) \/ AdapterOpFails(op)

Applying == AdapterStart \/ (proc = "adapter" /\ AdapterStep) \/ AdapterFinish \/ AdapterCrash

ReconcileStep ==
    \/ \E op \in cs.ops : ReconcileOp(op)
    \/ \E entry \in cs.absorbed : AbsorbEntry(entry)

Ingesting ==
    \/ IngestStart \/ IngestCommit \/ IngestRefuse \/ IngestSave \/ IngestCrash
    \/ proc = "reconcile" /\ ReconcileStep

Refreshing ==
    \/ RefreshStart \/ RefreshAppend \/ RefreshSave \/ RefreshSaveFails \/ RefreshCrash
    \/ \E n \in Nodes : RefreshEntry(n)

Next == EditSpec \/ Work \/ Registering \/ Planning \/ Applying \/ Ingesting \/ Refreshing

Spec == Init /\ [][Next]_vars
=============================================================================
