# spex in TLA+

A verification development of spex: the task pipeline from an edited spec to a
journal and a baseline, the reference adapter included; the author commands that
edit the spec under the validator's judgement; the files of a project and the
system calls that change them; the sweep for the names of removed nodes; and the
profile that declares what a spec is made of. Modules are checked with TLC on small
instances; what matters most is also proved with TLAPS for every instance.

## 1. The system

`spex` keeps a *spec* (a typed graph of modules, requirements, components, data
flows and test sections, as JSON and markdown under `spec/`) in step with a task
tracker. One cycle:

    edit spec  ->  spex register  ->  export-br.sh + spex plan  ->  apply-br.sh  ->  spex ingest
                                        changeset.json            receipts.json

`spex ingest --mode refresh` absorbs drift without tracker work.

| component | state | operations | interacts through |
|---|---|---|---|
| task journal (`mapping`) | `.spex/history.jsonl`, append only | Parse, fold, Get, History, Append | read by plan, ingest, refresh, register |
| merkle (`merkle`) | `.spex/snapshot.json` | BuildTree, Diff, completeness, Save, Load | diff feeds plan and refresh |
| plan (`plan`, `cmd/spex/plan.go`) | none | match, classify, sort, build, label, absorb | reads spec, baseline, fold, task state; writes the changeset |
| adapter (`scripts/*.sh`, `adapters`) | the tracker | create, retarget, close, receipts | reads the changeset, calls `br`, writes receipts |
| ingest (`ingest`) | journal and baseline | reconcile, append, save | reads changeset and receipts |
| refresh (`ingest/refresh.go`) | journal and baseline | gate, absorb, append, save, roll back | reads the diff |
| registrar (`proposal`) | `spec/proposals`, journal | register | its event id labels the epic |
| lifecycle | `.spex/` | init, resolve, doctor | resolve is the pre-flight of every command that reads `.spex` |
| author | `spec/` | node, edge, leaf, rename, migrate | validator decides refusal |
| validator | none | graph and text checks; the removed-name sweep | used by author; the sweep by diff, and plan refuses a diff with errors |
| profile (`schema`) | `spec/profile.json` | resolve, validate, derive views, compose schemas, show | read by every component that asks what a node type is |
| render, delivery, cli | none | output, release, flags | |

What is hard here: nothing holds a lock across commands, so every command may
die between two writes and be run again; the adapter changes a tracker it does
not own, op by op; implementers claim and finish tasks meanwhile; partial
receipts are legal; and what a command may trust (the fold, the baseline, the
exported task states) was written by earlier commands, some of which died. Event
ids, labels and the append-before-save order are what makes re-running safe, and
they are what the properties are about.

What makes each component correct:

- journal: the fold is a function of the lines, whatever their order of arrival
  (`FoldIsWalk`, `ReceiptPositionIsImmaterial`, `HistoryTellsTheFold`); event ids
  are unique and lines are never lost (`EventIDsUnique`, `JournalOnlyGrows`);
- plan: no duplicate and no forgotten work (`NoDuplicateLiveTask`,
  `LiveWorkIsTracked`, `NoLostWork`), tasks claimed when plan ran left alone
  (`HeldTasksUntouched`), orderly dependencies (`LayersAreOrdered`,
  `NoDependencyCycle`), requirements reach work (`RequirementsReachWork`);
- ingest and refresh: fold, journal and baseline agree
  (`LinkageMatchesBaseline`, `PairingsNameTheirTask`, `JournalLeadsBaseline`,
  `HistoryIsAChain`, `AbsorbedEventsReceipted`, `IngestNeverRefuses`);
- the whole: the baseline catches up (`BaselineConverges`);
- author and validator: a write is refused exactly when it would make a valid spec
  invalid (`GateIsExact`, `ValidStaysValid`), a rename carries every reference
  (`RenameGoesThrough`), leaves are never shared nor prose overwritten
  (`LeavesNotShared`, `ProseSurvives`), reports are true (`ReportTellsAll`);
- the files of a project: whatever a command was cut off in, they read as a ledger of
  whole batches (`ImplementsLedger`), a ready project stays ready (`StaysResolvable`),
  doctor and the pre-flight agree (`DoctorAgrees`), a proposal is never filed without its
  event and a registration cut off can be repeated (`NoFileWithoutEvent`,
  `RegistrationRepaired`);
- the removed-name sweep: by hashing phrases it finds exactly what a reader would
  (`SweepIsExact`), passes over nothing in silence (`NothingSilent`) and gives up only
  when the module's name is lost (`GivenUpOnlyWhenLost`);
- profile: an accepted profile gives entries exactly their declarations
  (`EntryIsDeclared`), names nothing that is not there (`NothingDangles`), can be shown
  and committed (`ShowIsNeutral`) and keeps types apart (`OthersUnmoved`).

## 2. Modules

| module | models | state / actions |
|---|---|---|
| `Journal` | lines, event ids, fold, history | operators over a sequence of lines |
| `JournalFold` | the walk `fold()` performs, over arbitrary journals | `log`; one action appends a line |
| `Plan` | diff, completeness, `MatchNodes`, `ClassifyActions`, `Sort`, `Build` | operators; `Build` gives a changeset, `PlanRefused` and `Incomplete` the refusals |
| `Ingest` | `EventBuilder`, invariants 1 and 2, refresh's per-leaf logic | operators |
| `Pipeline` | one project and its tracker | all state; one action per step that reaches disk or tracker |
| `Guarantees` | the properties, fairness | |
| `Claims` | which tasks were claimed when plan last wrote a changeset | `Pipeline`'s and the history variable `held`; the actions of `Pipeline` |
| `SpecTree` | the spec directory as paths and files, and the validator's checkers | operators from a tree to a set of findings |
| `Author` | the author commands and their writes | `tree`, `cmd` (the command that writes), one action per command, `WriteFile`, `RemoveFile`, `Crash` |
| `AuthorGuarantees` | validity of a spec as a graph, the properties | |
| `Ledger` | what the files promise: batches, a baseline, filed proposals, each changed in one step | the abstract specification `StateDir` implements |
| `StateDir` | init, register, ingest, refresh, resolve and doctor, system call by system call | the files, `run` (each process: its command, its step, what it has read); one action per step, `Crash`, `WriteFails` |
| `RemovedNames` | diff's sweep, and the history of declarations, prose and baselines it works against | project, nodes, prose, baseline leaves, change events; one action per kind of edit, `Ingest`, `Refresh` |
| `Profile` | `profile.json`: decoding, `Validate`, conventions, views, composed entries | the file; `Show` and one action per kind of edit |
| `MCPipeline`, `MCClaims`, `MCJournal`, `MCAuthor`, `MCRemovedNames`, `MCProfile` | instances | specs an author may commit, words, the built-in profile |
| `PipelineProofs`, `BaselineProofs`, `WorkProofs`, `JournalFoldProofs`, `StateDirProofs`, `AuthorProofs`, `GateProofs`, `ProfileProofs` | theorems | |

`Pipeline` keeps the durable state (`spec`, `edges`, `head`, `snapshot`,
`journal`, `proposals`, `tracker`, `cs`, `receipts`) apart from the memory of the
command that is running (`proc`, `results`, `batch`, `done`), which a crash
clears. `phase` is where the operator is. The commands:

| command | actions |
|---|---|
| edit and commit | `EditSpec` |
| implementers | `Claim`, `Finish` |
| `spex register` | `Register`, `RegisterCrash` (event appended, file not copied) |
| export + `spex plan` | `Plan` |
| `apply-br.sh` | `AdapterStart`, per op `AdapterMatch`, `AdapterCreate`, `AdapterRetarget`, `AdapterClose`, `AdapterRefError`, `AdapterOpFails`, then `AdapterFinish`; `AdapterCrash` |
| `spex ingest` | `IngestStart`, `ReconcileOp`, `AbsorbEntry`, `IngestCommit` (journal), `IngestSave` (baseline); `IngestRefuse`, `IngestCrash` |
| refresh | `RefreshStart`, `RefreshEntry`, `RefreshAppend`, `RefreshSave`; `RefreshSaveFails`, `RefreshCrash` |

`Author` takes one step to decide a command (`AddNode`, `AddModule`, `RemoveNode`,
`ForceRemove`, `SetNode`, `RenameNode`, `AddEdge`, `RemoveEdge`, `ScaffoldLeaf`): the
command's own refusals are its guard, `XTree` is the copy it hands to `Report`, and
`Submit` is the verdict. What is accepted is then written file by file in path order,
as `changedPaths` sorts them (`WriteFile` takes the least path left), and the leaf that a rename or a removal retires goes
last. `SpecTree` keeps what makes two findings the same for `Report` (check, path and
message), the index of an entry in a schema path included. `Valid` is written
against the graph and does not use the findings, so `GateIsExact` compares two
definitions. In the instance, project and module requirements are the types `goal`
and `requirement`, paths are ranks, and names 1 and 2 have one slug.

`StateDir` looks at the same commands as `Pipeline` from below: a batch is only the
command that writes it and what it is of, but `Append` is a read and a rename,
`writeAtomic` an open, a write and a rename of `snapshot.json.tmp`, init a directory, a
snapshot written in place and a journal, and a file may be there, absent or torn.
`ImplementsLedger` maps the files to the ledger: the project exists once its journal
does, an unreadable snapshot (only ever seen during init) is the seed, and a copy half
written counts as filed. Every step of `StateDir` is then a step of `Ledger` or none, so
a batch enters once unless it is a refresh's, the baseline never runs ahead of the
ledger, only the batch of a refresh is taken back, and nothing is filed before it is
entered. The ledger says what a reader of `.spex` may rely on; it does not say which
batch a baseline belongs to, which is `Pipeline`'s matter.

`RemovedNames` keeps words as symbol sequences, because what the tokenizer takes off a
word is what the sweep can get wrong, and takes `IdentityHash` to be injective. A reader
(`Seen`, `Mentions`, `Loose`) is the reference the sweep is compared with. `Profile`
keeps the difference between an absent key, a JSON null and a Go nil, because the
encoding of one is decoded as another.

Abstractions. A content hash is an atom, compared for equality only. Identity
hashes are numbers because the code sorts by them. An event id keeps the fields
it is derived from instead of their digest. The changeset's op list is a set:
`EmittedNext` gives the order the code sorts it into, which adapter and ingest
follow. Titles, bodies, priorities, git heads of receipts, proposal names in
lines and timestamps are left out. `cs = None` after a completed ingest stands
for the operator being done with the file. A definition commented "Fault:"
stands before some others: it is the definition after it as a plausible bug would
have it and nothing uses it; replacing the definition by it must break the
property named for it in `PROJECT.json`.

## 3. Runs

`tlc -config <run>.cfg <module>`, the module being `MCClaims` for `PipelineFaults`,
`MCPipeline` for the other `Pipeline*`,
`RefreshLiveRemoval` and `FoldbackRevert`, `MCJournal` for `JournalFold`, `MCAuthor` for
`AuthorEdits`, `StateDir` for `StateDir` and `ConcurrentRegister`, and `MCRemovedNames`
and `MCProfile` for theirs. Deadlock is checked in `StateDir`, `ConcurrentRegister` and
`RemovedNames`. The others say `CHECK_DEADLOCK FALSE`: a project with nothing left to do
rests, and the bounds stop the author.

| run | instance | shows |
|---|---|---|
| `JournalFold` | 17 line shapes, journals to 4 lines | the fold |
| `PipelineCycles` | 1 component, 4 commits, 1 fault, work when clean or partial, fair | add, change, remove, re-add; no lost work; convergence |
| `PipelineFaults` | 2 components, 2 commits, 1 fault, work in every phase, re-plan when dead or partial | crash and partial-run recovery; the claims plan was shown |
| `PipelineKinds` | 2 modules; data flow, components, test section, requirement; 2 commits, 1 fault | dependency structure, completeness across partial runs |
| `AuthorEdits` | 2 modules and room for a third, 6 types, 3 names, 2 commands, 1 crash | the author commands and the gate |
| `PipelineRefresh` | component and requirement, 3 commits, 1 fault, absorb and refresh | drift |
| `StateDir` | 1 process, 1 proposal, 2 changesets, 1 drift, 3 faults, from a directory without `.spex`, fair | crash safety of every write; refinement of `Ledger` |
| `RemovedNames` | 2 modules (one id derived, one written by hand), 2 nodes at a time of 4 that may be declared, 2 words of prose, 2 baselines | the sweep |
| `Profile` | the built-in profile, 2 edits, profile show anywhere between | resolution and the views |

Bounds. `MaxHead` bounds commits: two are one full change on top of an existing
node, three let the same transition recur (refresh ordinals), four let a node be
added, changed, removed and added again. `MaxFaults` bounds crashes and tracker
failures: one is enough to put a single crash at every point of every command,
three (in `StateDir`) put one into the recovery and one into the recovery from that. Two components are
needed for one op to depend on another and for a partial run to have a rest.
`EditPhases`, `PlanPhases`, `RefreshPhases` and `WorkPhases` restrict when each
actor moves; a run that restricts one says so in its configuration, and the runs
that expect a violation are the ones that lift the restriction in question. Two author commands are one on the result of another,
which is enough to build a cycle, two leaves with one slug, or an edit after a
crash; the spec they start from already has every kind of reference. In `StateDir`
one process at a time is enough for crashes, since a dead process leaves nothing but
files; two ingests side by side would share `snapshot.json.tmp` and are excluded by
`StateDirAssumption`. In `RemovedNames` the longest phrase is two words instead of
six, so that a name of three is too long, names of one and two words cover each
other, and two baselines are one to have a node and one to have journaled a
removal of its sibling before the module goes. `KeepID` is FALSE: see below. Two edits
of a profile are one to declare and one that the first may have made wrong; `Editable`
keeps new fields to names declared at one scope: see below as well. No symmetry is used:
nodes are ordered, and the other constants play different parts.

Fairness. In `Guarantees` (`FairSpec`, run `PipelineCycles`) an operator who keeps going
re-runs what can be run: weak fairness of registering, of starting the adapter and
ingest, and of the next step of the command that is running. For planning and for the
ops ingest takes one by one it is written as `[]<>~Plannable` and `[]<>~Reconcilable`: a
plan leads to where planning is not due and a run has finitely many ops, so taking the
step infinitely often and its being disabled infinitely often come to the same, and TLC
need not evaluate the step. Implementers finish what they claim, since plan refuses
while a changed node's task is claimed. In `StateDir` a process takes its next step
(weak fairness), and whoever registers a proposal runs the command again (strong: the
process may be busy with other commands in between). Faults and commits are not fair and
are bounded.

Runs that expect a violation state what a document or comment of the repository
says; each is a finding in `PROJECT.json`, with the quotation:

| run | what the code does |
|---|---|
| `RefreshLiveRemoval` | refresh absorbs the removal of a node with an open task |
| `FoldbackRevert` | fold-back, then rewriting to the old content: no task again |
| `ConcurrentRegister` | two registrations at once: the second rename of the journal drops the first one's event, both files land |

The passing runs that check the same property exclude the behaviour in question
(no refresh, no absorb mark, no removal after a partial run, one process).

Other disagreements met while modelling, each reachable with the same modules and
other constants, and kept out of the runs:

- a claim made after the export does not protect the task: it is retargeted or closed
  under its holder (`docs/architecture.md:155`; `apply-br.sh` asks nobody). What holds
  with claims at any time is `HeldTasksUntouched`: `held` is what plan was shown, and
  those tasks stay their implementers';
- one fault: an error receipt may stand for an op that did change the tracker
  (`adapters/types.go:24`, `apply-br.sh:282`), which the label probe repairs later;
- refresh and then an ordinary change: the event starts from the journal's hash and
  not from the refreshed one (`event_builder.go:171`);
- absorb marks: reverting an absorbed change leaves no journal line
  (`spec/ingest/arch_reconciler.md:69`);
- refresh, a crash before the save and one more edit: the final hash is never
  journaled (`refresh.go:257`), and journal and snapshot do not move together
  (`spec/ingest/arch_refresh.md:67`).

- `EditPhases` with "partial": a node journaled by a partial run and removed before the
  next plan is in no diff, and its open task is forgotten (`docs/architecture.md:148`,
  "live work must stop"; `plan/node_matcher.go:69`);
- an absorb mark on a requirement or an api: plan accepts it, the adapter runs, and
  ingest, whose graph has no such nodes, refuses for ever (`cmd/spex/ingest.go:291`;
  `spec/ingest/arch_event_builder.md:110`);
- a spec with one name the tokenizer does not reproduce: `CheckIDsFS` returns before it
  looks at references (`validator/id_validator.go:108`), so a removal without `--force`
  leaves references dangling (`spec/author/arch_node_editor.md:44`); and where one
  dangles already, the rename that mends the name is refused, because the reference
  finding is new (`spec/author/module.json:50`);
- a crash of an add or a rename after the new leaf and before `module.json`: the re-run
  is refused because the leaf exists; for `test_` leaves `module.json` goes first and
  every command but scaffold fails until the leaf is scaffolded
  (`author/node_renamer.go:22` speaks of one transaction);
- `--force` reports only what the removal broke, not what stood before
  (`spec/author/test_node_editing.md:68`);
- a crash inside the copy of a proposal leaves it torn, and the re-run is refused as
  already registered: "the one partial state a crash can leave" (`proposal/register.go:35`)
  is not the only one. `RegistrationRepaired` therefore only says that a file is there;
- an init that was cut off leaves a `.spex` no command repairs, init refusing it as
  existing; two inits at once may truncate each other's journal, and two ingests write
  one `snapshot.json.tmp`;
- `KeepID` TRUE: a module renamed by hand that keeps its id makes every removed node of it
  unrecognisable, and `NothingSilent` fails: the group counts as known, hashes under the
  new name match nothing, and no note is written, where
  `validator/id_derivation_checker.go:48` promises a note "instead of a silent skip";
- refresh journals removals under the module's id (`ingest/refresh.go`, `c.Module`),
  ingest under its name: the sweep's journal route, for which "a removed change event
  carries its module name" (`validator/removed_name_checker.go`, `journalNames`), learns
  nothing from a refresh, and a later refresh of the same node hides what ingest recorded;
- `Editable` with `requirement`, which both scopes declare: a reference field declared at
  one scope is admitted in the other scope's entries and hashed there by nobody
  (`EntryIsDeclared` fails), where the comment of `projectScopedEdges` says that every
  edge but `preq_id` "is genuinely project-scoped"; likewise the last of two
  declarations of a name decides the cycle exemption of both (`deriveEdges`);
- `Validate` lets through two types with one plural key, of which the last one counts,
  and names that collide with the schema's own definitions.

## 4. Proofs

Everything below is proved for every instance of the constants that satisfies the
named assumptions (`JournalAssumption`, `EIDAssumption`, `KindAssumption`,
`RefreshTypesAssumption`, `PipelineAssumption`; `JournalFoldAssumption`;
`StateDirAssumption`, `ContentAssumption`; `AuthorAssumption`, `HashAssumption`,
`InitialAssumption`; `ProfileAssumption`), with no bound. They say that atoms of
different kinds differ (a null is no event id, no node is a stem, the marks for an
absent and a torn file are no contents, the project is no module directory), that a
drift type is never a whole `module.json`, that journal lines passed the schema
(`ValidLine`, what `Parse` enforces), that two processes side by side only register,
that a reference field points at a type and no two nodes have one hash (an id is the
first 48 bits of a SHA-256: a collision is possible, and left out), and of the spec an
author starts from that entries stand where their type belongs, ids are unique in a
document and no two nodes share a leaf; of `profile.json`, that a missing key, a null
and a Go nil are no values, that what an author adds is well formed and that the
default's conventions are complete.

`PipelineProofs`, with no further hypothesis:

- `TypeCorrect`: `TypeOK` with two facts it needs to be inductive: an
  outstanding changeset is complete (`Outstanding`: every op has the label and
  task its kind needs) and the running command has its input
  (`CommandsHaveInput`). It rests on `FoldTyped` (the fold of a well-formed journal
  is well formed, since its deciding line exists) and `PlanWritesCompleteOps` (when
  plan does not refuse, labels are never null: an epic has its registration, a
  cleanup its removal).
- `EventIDsStayUnique`: `EventIDsUnique`. Not inductive alone: a batch in memory is
  appended later. `IDInv` adds that the batch's ids are unique and new to the
  journal (`BatchIsNew`), that refresh has built no line for a leaf it has not
  reached (`RefreshedOnce`), and that after the append the journal ends in the
  batch (`Revocable`). `BuiltLinesAreFresh` is the step for an op.
- `JournalIsAppendOnly`: `JournalOnlyGrows`, from `Revocable`.
- `AbsorbedDriftIsReceipted`: `AbsorbedEventsReceipted`. `AccountInv` adds that a batch
  in memory names no event before its last line, so that the receipt is appended with
  the events it names or not at all.

Its second part, what plan, adapter and ingest know of one another:

- `LayersStayOrdered`: `LayersAreOrdered`, with no hypothesis. Only edges to the nearest
  earlier layer are built, so the argument goes from layer to layer through ops that are
  there; that every create has a layer needs `WorkInv`: the journal only ever pairs
  plan-relevant nodes, so a matched change is one.
- `ClaimsAreRespected`: `HeldTasksUntouched`, with no hypothesis on who works, commits or
  plans when. `HeldInv`: a held task is claimed or closed, so nobody claims it again, and
  no close or retarget of the changeset names one: plan names tasks its export shows as
  open (`PlanTouchesOpenTasks`), the changeset stays as it is until ingest drops it
  (`OthersKeepChangeset`), and the adapter reaches no task it does not name, in whole ops
  or half ones (`WhoMovesTracker`). A claim made
  after the export is in `held` of no changeset, and not protected (section 3).
- `PairingsStayTrue`: `PairingsNameTheirTask` under `RefreshBetween` (refresh is run
  between changesets). TLC finds a violation without it: a refresh that journals the
  removal of a node an outstanding changeset still cleans up makes the cleanup's receipt
  refer to an event its task does not carry. `LinkInv` is the argument: task ids and
  labels in the tracker never go away, every label on a task was derived for the task's
  own key, every ok receipt names a task with its op's label, and every receipt line,
  in the journal or in memory, names a task that has the label of the event it is `for`.
  It has to hold of `results`, `receipts`, `batch` and `journal` at once, since a crash may
  leave any prefix of that chain.

`BaselineProofs` proves what the pipeline is for, that journal, baseline and
spec tell one story, under the discipline `PlainRuns`: the spec is committed
only when no changeset is outstanding, nothing is refreshed, plan is given no
absorb marks. It is the discipline of `PipelineFaults`, `PipelineCycles` and
`PipelineKinds` (any number of nodes, tasks, crashes and partial runs; plan,
register and work are not restricted). Edits under an outstanding changeset
really break the agreement (the two stale-state hazards without a property), a
refresh or an absorbed change moves the fold and the change events apart by
design. The invariant `RoundInv`:

- `JournalRound`: every change event of a planned node but a removal is
  followed at once by its receipt (`Told`), each starts where the last one
  ended (`Chained`), one made at the present commit has brought its node to it
  (`AtHead`), and the hash a node's latest event ends in (`Now`) is the
  baseline's or the spec's, the baseline's when nothing is outstanding;
- `ChangesetRound`: every planned node is where the spec has it or has exactly
  one op, and that op does what the spec says of the node;
- `BatchRound`: the batch has at most one event per planned node, the next of
  its chain, and has it, or needs none, once the node's op was reconciled ok;
- `SaveRound`: a save that will move the baseline finds `Now` equal to the spec.

`FoldIsNow` is the bridge to the fold: on such a journal a planned node is
paired iff `Now` is not `None`, and its entry has `Now` as hash. `PlanCovers`
shows that plan over it writes a covering changeset, `BuiltLinesSound` that the
event builder makes of a covering op the next event of the chain or nothing
when an earlier, partly failed run has made it. From the invariant follow
`BaselineIsLinked`, `JournalIsAhead`, `RequirementsAreWorked` and, without test
sections, `HistoryStaysAChain` (the close of a folded back test_section writes
an event the fold does not see, the disagreement `FoldbackRevert` shows).

`WorkProofs` proves that work is neither doubled, forgotten nor lost, on top of all the
invariants above, under `PlainRuns` and `NoSections`: there are no test_section nodes,
whose coverage may fold back, so that a close writes an event the fold does not see
(`FoldbackRevert`). `PipelineFaults`, which checks the first three, satisfies both;
`PipelineCycles`, which checks `NoLostWork`, satisfies `WorkPauses` as well (nobody claims
or finishes a task between plan and the end of the adapter run).

- `NoNodeIsWorkedTwice`: `NoDuplicateLiveTask`; `NoWorkIsForgotten`:
  `LiveWorkIsTracked`. Neither is inductive: what keeps a second task away is what the
  next changeset will do about the first. `DutyInv` says it. A label is on one task
  (`LabelsApart`). An open task of a node carries the node's latest event, or is fresh
  (`LiveTasks`): a run that died created it, the journal has not heard of it, and the
  changeset creates it again, which the label probe turns into a match. An op is
  still to do, and then its node has no open task or the op is about that very task, or
  a run that crashed between journal and baseline has journaled it (`OpsStand`); a close
  answered ok has closed its task (`ClosesDone`), and a batch holds nothing but what
  ops answered ok ask for (`BatchOfOps`).
- `NoWorkIsLost`: `NoLostWork`, also under `WorkPauses`, as a task claimed and finished
  between the export and its retarget has the new label without the work.
  `FinishedInv`: a finished task was finished with all its labels, or its node has left
  the spec, or the node's latest event is another task's (`ClosedAreSpent`).
- `IngestAccepts`: `IngestNeverRefuses`. `AcceptInv`: the journal and the batch together
  have one epic receipt per proposal, in the batch only when the epic was reconciled, and
  every close receipt of the batch answers an event of it. A node receipt follows its
  event in one pair of lines, so both invariants of the checker hold of what is built.

`JournalFoldProofs`, on journals of every length:

- `FoldIsComputed`: `FoldIsWalk`. The walk is a recursive function and the induction is by
  the least line after which walk and fold differ: a natural number with a property has a
  least one, which the SMT backend accepts without an operator parameter.
- `HistoryAccountsForFold`: `HistoryTellsTheFold`; `ReceiptsMayPrecede`:
  `ReceiptPositionIsImmaterial`, by following the deciding line through the exchange of
  two neighbours.

`StateDirProofs`:

- `FilesWellFormed`: `TypeOK`; `ReadyForGood`: `StaysResolvable`; `DoctorAlwaysAgrees`:
  `DoctorAgrees`, for any number of processes. `FilesInv` orders the disk: no journal
  before a whole snapshot before the directory, nothing renamed that is not whole.
- `FilesHaveEvents`: `NoFileWithoutEvent`, and `FilesImplementLedger`: `ImplementsLedger`,
  step by step through the refinement mapping, under `OneProcess`: the run
  `ConcurrentRegister` shows what two do. `LedgerInv` says that what the process has read
  or found out still holds at its next step.

`AuthorProofs`, for any profile, modules, nodes and slugs, valid spec or not:

- `SpecStaysSound`: the invariant `AuthorInv`. What is on disk while a command writes is,
  file by file, of the tree it found or of the copy (`Writing`); the copy is typed, its
  nodes' ids and leaves are their own, and leaves at one path hold one text in both
  trees (`GoodCopy`). Each command has a lemma on its copy (`AddEdits`, `RemoveEdits`,
  `SetEdits`, `RenameEdits`, ...), where the argument is: ids stay unique because Report
  refuses what is not (`GateKeepsIDs`), leaves stay apart because add takes no place that
  is taken unless the id is, and rename none that is another node's.
- `AuthorTypes`: `TypeOK`; `LeavesStayApart`: `LeavesNotShared`; `ProseIsKept`:
  `ProseSurvives`, since a file that is written holds the text it held, and one that is
  removed is a retired node's or has been copied to its new place;
- `ReportIsTrue`: `ReportTellsAll`. A command that ends has made the tree its copy, and
  what scaffold judges, the copy with every missing leaf filled in, is that tree when no
  other leaf is missing (`ScaffoldJudgesResult`).

`GateProofs`, on top of `AuthorInv`, is about the verdict. `Valid` is the spec as a graph;
`Refused` is lists of findings, one of them out of a depth-first walk.

- `CycleIsDependence`: the walk finds a cycle exactly when nodes depend on one
  another. Its invariant `WalkFine`: the stack is a path of gray nodes, each entered
  through a reference of the one below; what was found lies in a `Knot` (a set whose
  members each lead to a member); while nothing is found, black nodes lead only to
  black ones and no set of them is a knot. Every step brings the walk nearer its end
  (`ToGo`: nodes unmet, references not followed and the depth of the stack), so it has
  ended within `WalkSteps`, when every node is black (`CyclesAreKnots`).
- `ValidIsFindingFree`: `Valid` is no finding and derived ids in the project document.
  Every checker has a lemma on what it finds nothing wrong with (`SchemaIsFine`,
  `IDsAreOwn`, `NoCycleFound`, ...), `NoFinding` joins them. The second half is needed
  since no checker derives the ids of project nodes.
- `GateMissesNothing`: `GateIsExact`. `GateInv` ties the verdict of the running command to its
  copy; a command's copy derives the project's ids if the tree it found did
  (`ProjectIsDerived`, one lemma for each command), so the half no checker looks at is
  never what makes a copy invalid (`JudgedIsValid`).
- `ValidityIsKept`: `ValidStaysValid`, as a command that ends has made the tree its copy.
- `RenamesGoThrough`: `RenameGoesThrough`. The copy `Relabels` the tree: in the node's entry,
  in every reference and in every link the old id is the new one, and nothing else is
  changed (`RenameRelabels`, for a tree whose nodes and leaves are apart and a leaf place
  that is free). A relabelled valid tree is valid (`RelabelledIsValid`, with
  `DependenceRelabelled` for the cycles), `FreeRename` adds what a name decides itself, and
  `GraphRelabelled` is the graph.

`ProfileProofs`, for any default profile and any declarations an author may add:

- `ShownProfileIsTheProfile`: `ShowIsNeutral`. Decoding undoes encoding (`DecodeEncode`),
  conventions are filled in once (`FillTwice`), and a valid profile stays valid when
  it is filled in, as `Validate` looks at nothing `finalize` changes but the
  conventions, which the stamped version admits (`FinalizedValid`).
- `AcceptedProfileIsWhole`: `NothingDangles` under `PluralsApart` (two types of a scope
  with one plural key have one name): `Validate` does not ask for it, and the array of
  the first such type is lost (section 3). What `Validate` asks of the declared names, of
  edges and chains, of the planned types and of the impact and absorbable tables
  (`TableDefects`), is then true of the arrays entries are kept in.
- `EntriesAreDeclared`: `EntryIsDeclared`, and `OtherTypesUnmoved`: `OthersUnmoved`, under
  `ScopesAgree`: a name declared at both scopes has the same references with the same
  exemptions in both, but for `preq_id`, and nobody edits them. This is what `Editable`
  without `requirement` gives the run. Edges are keyed by the name alone, so the argument
  is that every edge sourced at a name is a field of each type of that name
  (`ReferencesShared`), whence an entry is its type's own (`EntryIsOwn`) and so is an
  exemption, whichever declaration is the last (`ExemptIsOwn`).

`FileInv`, the invariant: the file is absent or a well-formed document whose types go by
the names of known ones.

Only model-checked: liveness and fairness (`BaselineConverges`, `RegistrationRepaired`),
which the provers do not reach; of the pipeline `NoDependencyCycle`, which is a matter of
the specs that are committed: a use that is turned round while both tasks are open
keeps its old dep, since retargets only add, and the two wait for each other if the
tracker takes the second dep, so it holds of the instance's specs and not of all;
everything about `RemovedNames`, whose phrases are what repeated passes make of words,
an induction over data.

## 5. Not modelled, and the plan

Left out of what is modelled: project-scope requirements in the completeness check,
`skipped` receipts (the reference adapter writes none), hash propagation in the merkle
tree. Of the author package: `spex migrate`, canonical key order, the fix texts, the
completeness entries of a report, a write torn inside one file (files are written in
place), two commands at once. Of the validator: the exemption of requirements whose
derivation is pending from the coverage checks, the markdown scanner, coupled sections
and name consistency. Of the registrar: type detection, section checks and slugs. Of
the profile: the schema text around a type's entries, and what a field's enumeration or
bounds are. Not modelled at all: render and proposal history (output only), delivery (one
sequential download), the repository's own lint scripts, and the legacy record store,
which no command constructs any more.

Next, in order:

1. Author: `migrate`.
2. `Linkage`: an abstract map from nodes to tasks that the pipeline implements.
3. Merkle trees: hash propagation, snapshot round trip, diff soundness.
