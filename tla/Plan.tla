-------------------------------- MODULE Plan --------------------------------
(***************************************************************************)
(* spex diff and spex plan (packages merkle and plan): from the spec, the  *)
(* baseline, the journal fold and the task-state artifact to a changeset.  *)
(*                                                                         *)
(* A spec is two functions: the content hash of every node (None when the  *)
(* spec has no such node) and its outgoing edges (uses and implements of a *)
(* component, uses of a data_flow, describes of a test_section).  The      *)
(* edges live in module.json, which is a leaf of its own: a node of kind   *)
(* meta, whose edges are the modules its module requires.  A content hash  *)
(* and the edges beside it may change one without the other.               *)
(*                                                                         *)
(* The list the code sorts is a set here.  The order it is sorted into is  *)
(* recovered by EmittedNext, which is what the adapter and ingest follow.  *)
(***************************************************************************)
EXTENDS Journal

CONSTANTS
    Kind,       \* node type of every node, fixed by its identity hash
    ModuleOf    \* the meta leaf of its module, None where the instance has none

NodeKinds == {"data_flow", "component", "test_section", "api", "requirement", "meta"}

ASSUME KindAssumption ==
    /\ Kind \in [Nodes -> NodeKinds]
    /\ ModuleOf \in [Nodes -> Nodes \cup {None}]

\* The built-in profile: the plan-relevant types in layer order; layer 0 is
\* the proposal epic's and the last layer the cleanups'.
PlanRelevant == {"data_flow", "component", "test_section"}

KindLayer == [data_flow |-> 1, component |-> 2, test_section |-> 3]

CleanupLayer == 4

Structural(n) == Kind[n] \in {"requirement", "meta"}

-----------------------------------------------------------------------------
(* Diff: one entry per leaf whose hash differs, keyed by the node. *)

ChangeType(cur, base, n) ==
    CASE base[n] = None -> "added"
      [] base[n] # None /\ cur[n] = None -> "removed"
      [] OTHER -> "modified"

Diff(cur, base) == {n \in Nodes : cur[n] # base[n]}

(***************************************************************************)
(* CheckCompleteness: a requirement's change must be answered by a change  *)
(* of every component that implements it, and any other change of a        *)
(* module.json by one of every component of the module.                    *)
(***************************************************************************)
ComponentsOf(cur, m) == {c \in Nodes : Kind[c] = "component" /\ cur[c] # None /\ ModuleOf[c] = m}

Implementors(cur, edges, r) == {c \in ComponentsOf(cur, ModuleOf[r]) : r \in edges[c]}

\* Fault: only an added requirement must be answered.
IncompleteWhenAdded(cur, edges, changes, base, r) ==
    /\ ChangeType(cur, base, r) = "added"
    /\ Implementors(cur, edges, r) = {} \/ ~(Implementors(cur, edges, r) \subseteq changes)

IncompleteRequirement(cur, edges, changes, base, r) ==
    CASE ChangeType(cur, base, r) = "modified" -> ~(Implementors(cur, edges, r) \subseteq changes)
      [] ChangeType(cur, base, r) = "added" ->
            \/ Implementors(cur, edges, r) = {}
            \/ ~(Implementors(cur, edges, r) \subseteq changes)
      [] OTHER -> Implementors(cur, edges, r) # {}

IncompleteModule(cur, changes, m) ==
    /\ ~\E r \in changes : Kind[r] = "requirement" /\ ModuleOf[r] = m
    /\ ~(ComponentsOf(cur, m) \subseteq changes)

Incomplete(cur, edges, base) ==
    LET changes == Diff(cur, base)
    IN  \E n \in changes :
            \/ Kind[n] = "requirement" /\ IncompleteRequirement(cur, edges, changes, base, n)
            \/ Kind[n] = "meta" /\ IncompleteModule(cur, changes, n)

\* A pairing NodeMatcher may match: tombstones are left out.
Paired(fold, n) == n \in DOMAIN fold /\ ~fold[n].removed

\* MatchNodes, over the changes that are not structural.
Matched(changes, cur, fold) ==
    {n \in changes : ~Structural(n) /\ Paired(fold, n) /\ cur[n] # None}

Unmatched(changes, cur, fold) ==
    {n \in changes : ~Structural(n) /\ ~Paired(fold, n) /\ cur[n] # None}

Orphaned(changes, cur, fold) ==
    {n \in changes :
        /\ ~Structural(n) /\ Paired(fold, n) /\ cur[n] = None
        /\ fold[n].task \notin {fold[m].task : m \in Matched(changes, cur, fold)}}

-----------------------------------------------------------------------------
(* ClassifyActions.  Tasks maps the tasks of the task-state artifact, all in *)
(* flight, to their status; a task it does not list is finished.             *)

\* Fault: a task the artifact does not list counts as open.
StatusOpenByDefault(tasks, t) == IF t \in DOMAIN tasks THEN tasks[t] ELSE "open"

Status(tasks, t) == IF t \in DOMAIN tasks THEN tasks[t] ELSE "absent"

Live(tasks, t) == Status(tasks, t) \in {"open", "in_progress"}

Foldback(edges, n) == Kind[n] = "test_section" /\ Cardinality(edges[n]) = 1

AlreadyTracked(cur, fold, n) == fold[n].after # None /\ fold[n].after = cur[n]

\* The matched changes that reach the status split.
Tracked(changes, cur, edges, fold) ==
    {n \in Matched(changes, cur, fold) :
        ~Foldback(edges, n) /\ ~AlreadyTracked(cur, fold, n)}

FoldedBack(changes, cur, edges, fold) ==
    {n \in Matched(changes, cur, fold) : Foldback(edges, n)}

GateAdmits(edges, n) ==
    /\ Kind[n] \in PlanRelevant
    /\ Kind[n] = "test_section" => Cardinality(edges[n]) >= 2

\* A task claimed under any matched or orphaned change refuses the whole run.
Claimed(changes, cur, edges, fold, tasks) ==
    {n \in Tracked(changes, cur, edges, fold)
             \cup FoldedBack(changes, cur, edges, fold)
             \cup Orphaned(changes, cur, fold) :
        Status(tasks, fold[n].task) = "in_progress"}

\* Fault: a change under an open task is created again, as if it were finished.
ToCreateUnderOpen(changes, cur, edges, fold, tasks) ==
    {n \in Unmatched(changes, cur, fold) : GateAdmits(edges, n)}
        \cup {n \in Tracked(changes, cur, edges, fold) :
                 Status(tasks, fold[n].task) \in {"absent", "open"}}

ToCreate(changes, cur, edges, fold, tasks) ==
    {n \in Unmatched(changes, cur, fold) : GateAdmits(edges, n)}
        \cup {n \in Tracked(changes, cur, edges, fold) :
                 Status(tasks, fold[n].task) = "absent"}

ToRetarget(changes, cur, edges, fold, tasks) ==
    {n \in Tracked(changes, cur, edges, fold) : Status(tasks, fold[n].task) = "open"}

ToCleanUp(changes, cur, fold, tasks) ==
    {n \in Orphaned(changes, cur, fold) : Status(tasks, fold[n].task) = "absent"}

ToClose(changes, cur, edges, fold, tasks) ==
    {n \in Orphaned(changes, cur, fold) \cup FoldedBack(changes, cur, edges, fold) :
        Status(tasks, fold[n].task) = "open"}

\* The modules a module requires, directly or through others, itself left out.
RequiredModules(cur, edges, m) ==
    LET metas == {k \in Nodes : Kind[k] = "meta" /\ cur[k] # None}
        closed == {S \in SUBSET metas : \A k \in S \cup {m} : edges[k] \cap metas \subseteq S}
    IN  IF m = None THEN {} ELSE {k \in metas \ {m} : \A S \in closed : k \in S}

\* collectDeps, collectDescribes, and the data_flow add-on that only a
\* component's create receives.
DepsFor(cur, edges, n) ==
    CASE Kind[n] = "component" ->
            {d \in edges[n] \ {n} : Kind[d] # "requirement"}
                \cup UNION {ComponentsOf(cur, m) : m \in RequiredModules(cur, edges, ModuleOf[n])}
      [] Kind[n] = "test_section" -> edges[n]
      [] OTHER -> {}

ChangedFlows(changes, cur, n) ==
    {f \in changes : Kind[f] = "data_flow" /\ cur[f] # None /\ Kind[n] = "component"}

CreateDeps(changes, cur, edges, n) ==
    DepsFor(cur, edges, n) \cup {f \in ChangedFlows(changes, cur, n) : n \in edges[f]}

-----------------------------------------------------------------------------
(***************************************************************************)
(* Changesets.  An op id is canonical: the op's action and its key, which  *)
(* is a node, the proposal stem of an epic, or the task of a close.  An    *)
(* op's refs are the op ids and the task ids it must resolve: its parent   *)
(* (an op only when the epic is in the batch) and its deps.                *)
(***************************************************************************)
OpActs == {"epic", "create", "cleanup", "retarget", "close"}

OpIDs == OpActs \X (Nat \cup Stems)

Op == [act: OpActs, key: Nat \cup Stems, task: Nat, hash: MaybeHash,
       why: {"removed", "modified", None}, label: EIDs \cup {None},
       parent: SUBSET OpIDs, opDeps: SUBSET OpIDs, taskDeps: SUBSET Nat]

OpID(op) == <<op.act, op.key>>

AbsorbedEntry == [node: Nodes, before: MaybeHash, after: MaybeHash]

Changeset == [head: Nat, stem: Stems, ops: SUBSET Op, absorbed: SUBSET AbsorbedEntry]

OpLayer(op) ==
    CASE op.act = "epic" -> 0
      [] op.act = "create" -> KindLayer[Kind[op.key]]
      [] op.act = "cleanup" -> CleanupLayer
      [] op.act = "retarget" -> CleanupLayer + 1
      [] OTHER -> CleanupLayer + 2

\* Where ops are in file order: layer by layer, and within a layer of creates
\* Kahn's algorithm takes the smallest node whose deps in the batch are done.
EmittedNext(ops, done, op) ==
    LET left  == {o \in ops : OpID(o) \notin done}
        layer == {o \in left : \A p \in left : OpLayer(o) <= OpLayer(p)}
        ready == {o \in layer : \A p \in layer : OpID(p) \notin o.opDeps}
    IN  op \in {o \in ready : \A p \in ready : o.act = "epic" \/ o.key <= p.key}

-----------------------------------------------------------------------------
(* Build.  ids maps the nodes to create or clean up to the ids of their ops. *)

CreateIDs(creates, cleanups) ==
    [n \in creates \cup cleanups |-> <<IF n \in creates THEN "create" ELSE "cleanup", n>>]

\* ResolveDeps: in the batch, else live in the fold, else finished and dropped;
\* a node that is neither is a plan error (Unresolvable).
OpRefs(deps, ids) == {ids[d] : d \in deps \cap DOMAIN ids}

TaskRefs(deps, ids, fold, tasks) ==
    {fold[d].task : d \in {d \in deps \ DOMAIN ids :
                              Paired(fold, d) /\ Live(tasks, fold[d].task)}}

Unresolvable(deps, ids, fold) == {d \in deps \ DOMAIN ids : ~Paired(fold, d)}

LayerOf(creates, n) == IF n \in creates THEN KindLayer[Kind[n]] ELSE CleanupLayer

\* Fault: only the layer directly before, empty or not.
LayerEdgesAdjacent(creates, cleanups, n) ==
    {m \in creates \cup cleanups : LayerOf(creates, m) = LayerOf(creates, n) - 1}

\* Layer edges: every create of the nearest earlier layer that has any.
LayerEdges(creates, cleanups, n) ==
    LET earlier == {m \in creates \cup cleanups : LayerOf(creates, m) < LayerOf(creates, n)}
    IN  {m \in earlier : \A o \in earlier : LayerOf(creates, o) <= LayerOf(creates, m)}

\* Sort refuses a dep on a later layer and a cycle inside a layer.
ForwardDep(creates, cleanups, deps) ==
    \E n \in creates : \E d \in deps[n] \cap (creates \cup cleanups) :
        LayerOf(creates, d) > LayerOf(creates, n)

Cycle(creates, deps) ==
    \E S \in (SUBSET creates) \ {{}} : \A n \in S :
        \E d \in deps[n] \cap S : Kind[d] = Kind[n]

\* ResolveEpicAction: the epic is created unless the fold already has its task.
NeedsEpic(fold, stem) == stem \notin DOMAIN fold

EpicID(stem) == <<"epic", stem>>

PlanRefused(j, cur, edges, tasks, stem, changes) ==
    LET fold == Fold(j)
        creates == ToCreate(changes, cur, edges, fold, tasks)
        cleanups == ToCleanUp(changes, cur, fold, tasks)
        retargets == ToRetarget(changes, cur, edges, fold, tasks)
        ids  == CreateIDs(creates, cleanups)
        deps == [n \in creates |-> CreateDeps(changes, cur, edges, n)]
    IN  \/ Claimed(changes, cur, edges, fold, tasks) # {}
        \/ NeedsEpic(fold, stem) /\ Registration(j, stem) = None
        \/ ForwardDep(creates, cleanups, deps)
        \/ Cycle(creates, deps)
        \/ \E n \in creates : Unresolvable(deps[n], ids, fold) # {}
        \/ \E n \in retargets : Unresolvable(DepsFor(cur, edges, n), ids, fold) # {}

EpicOp(j, stem) ==
    [act |-> "epic", key |-> stem, task |-> NoTask, hash |-> None, why |-> None,
     label |-> Registration(j, stem), parent |-> {}, opDeps |-> {}, taskDeps |-> {}]

Parent(fold, stem) == IF NeedsEpic(fold, stem) THEN {EpicID(stem)} ELSE {}

\* Fault: the labeler passes over the creates.
CreateOpUnlabelled(fold, tasks, head, stem, ids, layerEdges, deps, n) ==
    [act |-> "create", key |-> n, task |-> NoTask, hash |-> None, why |-> None,
     label |-> None, parent |-> Parent(fold, stem),
     opDeps |-> OpRefs(deps, ids) \cup {ids[m] : m \in layerEdges},
     taskDeps |-> TaskRefs(deps, ids, fold, tasks)]

CreateOp(fold, tasks, head, stem, ids, layerEdges, deps, n) ==
    [act |-> "create", key |-> n, task |-> NoTask, hash |-> None, why |-> None,
     label |-> DeriveEID(head, "create", n), parent |-> Parent(fold, stem),
     opDeps |-> OpRefs(deps, ids) \cup {ids[m] : m \in layerEdges},
     taskDeps |-> TaskRefs(deps, ids, fold, tasks)]

\* A cleanup waits for the layer before it and for every retargeted task.
CleanupOp(fold, head, stem, ids, layerEdges, retargetTasks, n) ==
    [act |-> "cleanup", key |-> n, task |-> NoTask, hash |-> None, why |-> None,
     label |-> IF fold[n].removed THEN fold[n].eid ELSE DeriveEID(head, "cleanup", n),
     parent |-> Parent(fold, stem), opDeps |-> {ids[m] : m \in layerEdges},
     taskDeps |-> retargetTasks]

\* Fault: the label of the create, not of the retarget.
RetargetOpCreateLabel(fold, cur, edges, tasks, head, ids, n) ==
    [act |-> "retarget", key |-> n, task |-> fold[n].task, hash |-> cur[n], why |-> None,
     label |-> DeriveEID(head, "create", n), parent |-> {},
     opDeps |-> OpRefs(DepsFor(cur, edges, n), ids),
     taskDeps |-> TaskRefs(DepsFor(cur, edges, n), ids, fold, tasks)]

\* Fault: a retargeted task waits for every create of the batch.
RetargetOpLayered(fold, cur, edges, tasks, head, ids, n) ==
    [act |-> "retarget", key |-> n, task |-> fold[n].task, hash |-> cur[n], why |-> None,
     label |-> DeriveEID(head, "retarget", n), parent |-> {},
     opDeps |-> OpRefs(DOMAIN ids, ids),
     taskDeps |-> TaskRefs(DepsFor(cur, edges, n), ids, fold, tasks)]

RetargetOp(fold, cur, edges, tasks, head, ids, n) ==
    [act |-> "retarget", key |-> n, task |-> fold[n].task, hash |-> cur[n], why |-> None,
     label |-> DeriveEID(head, "retarget", n), parent |-> {},
     opDeps |-> OpRefs(DepsFor(cur, edges, n), ids),
     taskDeps |-> TaskRefs(DepsFor(cur, edges, n), ids, fold, tasks)]

CloseOp(fold, cur, n) ==
    [act |-> "close", key |-> fold[n].task, task |-> fold[n].task, hash |-> None,
     why |-> IF cur[n] = None THEN "removed" ELSE "modified", label |-> None,
     parent |-> {}, opDeps |-> {}, taskDeps |-> {}]

BuildOps(j, cur, edges, tasks, head, stem, changes) ==
    LET fold == Fold(j)
        creates == ToCreate(changes, cur, edges, fold, tasks)
        cleanups == ToCleanUp(changes, cur, fold, tasks)
        retargets == ToRetarget(changes, cur, edges, fold, tasks)
        ids == CreateIDs(creates, cleanups)
    IN  (IF NeedsEpic(fold, stem) THEN {EpicOp(j, stem)} ELSE {})
        \cup {CreateOp(fold, tasks, head, stem, ids,
                       LayerEdges(creates, cleanups, n),
                       CreateDeps(changes, cur, edges, n), n) : n \in creates}
        \cup {CleanupOp(fold, head, stem, ids, LayerEdges(creates, cleanups, n),
                        {fold[m].task : m \in retargets}, n) : n \in cleanups}
        \cup {RetargetOp(fold, cur, edges, tasks, head, ids, n) : n \in retargets}
        \cup {CloseOp(fold, cur, n) :
                 n \in ToClose(changes, cur, edges, fold, tasks)}

\* applyAbsorb: the marked nodes, all reported as modified, are withheld from
\* matching and ride in the changeset's absorbed array.
Absorbable(cur, base) == {n \in Diff(cur, base) : ChangeType(cur, base, n) = "modified"}

Build(j, cur, edges, base, tasks, head, stem, marks) ==
    [head |-> head, stem |-> stem,
     ops |-> BuildOps(j, cur, edges, tasks, head, stem, Diff(cur, base) \ marks),
     absorbed |-> {[node |-> n, before |-> base[n], after |-> cur[n]] : n \in marks}]
=============================================================================
