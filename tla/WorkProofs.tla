----------------------------- MODULE WorkProofs -----------------------------
(***************************************************************************)
(* Work is neither doubled, forgotten nor lost: whatever was crashed,      *)
(* answered with errors, planned again or ingested in parts, a node has at *)
(* most one task in flight, the fold finds it, the task of a node that     *)
(* owes work is in flight or was finished for that very change, and ingest *)
(* never refuses what plan and the adapter produced.                       *)
(***************************************************************************)
EXTENDS BaselineProofs

\* The spec has no test sections, whose coverage may fold back.
NoSections == \A n \in Nodes : Kind[n] # "test_section"

\* Nobody claims or finishes a task between plan and the end of the adapter run.
WorkPauses == WorkPhases \cap {"planned", "dead"} = {}

\* A task that is not finished.
Open(tr, t) == tr[t].status # "closed"

\* The id of the latest change event of a node, and the tasks that carry it: at
\* most one does, and it is the task the fold pairs with the node.
Word(j, n) == LastChange(j, n).eid

Holds(j, tr, n, t) ==
    ChangeLines(j, n) # {} /\ Now(j, n) # None /\ Word(j, n) \in tr[t].labels

Busy(j, tr, n) == \E t \in DOMAIN tr : Holds(j, tr, n, t) /\ Open(tr, t)

\* The id ingest derives for an op.
Label(h, op) == DeriveEID(h, op.act, op.key)

-----------------------------------------------------------------------------
(***************************************************************************)
(* What ties the tasks to the journal and to the changeset.  A label is on *)
(* one task.  An open task of a node holds the node's latest event, or it  *)
(* is fresh: made by a run at the present commit whose event the journal   *)
(* does not have yet, which the next changeset creates again and the label *)
(* probe finds.  An op of the changeset is still to do, and then its node  *)
(* is not busy or the op is of the task that holds the node; or a run that *)
(* crashed before the save has journaled it.                               *)
(***************************************************************************)
LabelsApart(tr) ==
    \A t, u \in DOMAIN tr : \A e \in tr[t].labels : e \in tr[u].labels => t = u

TaskTold(tr, cur, h, t) ==
    /\ tr[t].act \in {"create", "cleanup"} => tr[t].key \in Nodes /\ Kind[tr[t].key] \in PlanRelevant
    /\ \A e \in tr[t].labels : e.src \in {"create", "retarget"} => e.head <= h
    /\ \A n \in Planned : DeriveEID(h, "create", n) \in tr[t].labels => cur[n] # None

TasksTold(tr, cur, h) == \A t \in DOMAIN tr : TaskTold(tr, cur, h, t)

\* A task relabelled at the present commit holds its node, or is about to.
MovedTasks(j, tr, cur, h) ==
    \A t \in DOMAIN tr : \A n \in Planned :
        DeriveEID(h, "retarget", n) \in tr[t].labels => Now(j, n) = cur[n] \/ Holds(j, tr, n, t)

CreatedAgain(n) == Underway => \E op \in cs.ops : op.act = "create" /\ op.key = n

Fresh(j, tr, cur, h, n, t) ==
    /\ Now(j, n) # cur[n] /\ cur[n] # None
    /\ DeriveEID(h, "create", n) \in tr[t].labels
    /\ ~Busy(j, tr, n)

LiveTasks ==
    \A t \in DOMAIN tracker : \A n \in Planned :
        tracker[t].act = "create" /\ tracker[t].key = n /\ Open(tracker, t) =>
            \/ Holds(journal, tracker, n, t)
            \/ phase # "clean" /\ Fresh(journal, tracker, spec, head, n, t) /\ CreatedAgain(n)

ToDo(j, tr, cur, op, n) ==
    /\ Now(j, n) # cur[n]
    /\ op.act \in {"create", "cleanup"} => ~Busy(j, tr, n)
    /\ op.act \in {"retarget", "close"} => Holds(j, tr, n, op.task)

Journaled(j, cur, h, op, n) == Now(j, n) = cur[n] /\ Label(h, op) \in KnownEIDs(j)

OpsStand ==
    Underway => \A op \in cs.ops : \A n \in Planned : OpFor(tracker, op, n) =>
        \/ ToDo(journal, tracker, spec, op, n)
        \/ phase = "applied" /\ Journaled(journal, spec, head, op, n)

ClosesTold(tr, ops, rs) ==
    \A op \in ops : op.act = "close" /\ OpID(op) \in DOMAIN rs /\ rs[OpID(op)].status = "ok" =>
        ~Open(tr, op.task)

ClosesDone ==
    Underway => ClosesTold(tracker, cs.ops, results) /\ ClosesTold(tracker, cs.ops, receipts)

OfOps(tr, ops, rs, h, line, n) ==
    \E op \in ops : OpFor(tr, op, n) /\ rs[OpID(op)].status = "ok" /\ line.eid = Label(h, op)

BatchOfOps ==
    proc = "reconcile" =>
        \A n \in Planned : \A i \in ChangeLines(batch, n) :
            OfOps(tracker, cs.ops, receipts, head, batch[i], n)

DutyInv ==
    /\ LabelsApart(tracker) /\ TasksTold(tracker, spec, head)
    /\ MovedTasks(journal, tracker, spec, head)
    /\ LiveTasks /\ OpsStand /\ ClosesDone /\ BatchOfOps

\* All that is known of plain runs.
RunInv == TypeInv /\ IDInv /\ AccountInv /\ WorkInv /\ LinkInv /\ RoundInv

-----------------------------------------------------------------------------
(* The ops of an outstanding changeset, and what a step does to the tasks. *)

\* What the invariants say of an op.
LEMMA StandingOp ==
    ASSUME RunInv, Underway, NEW op \in cs.ops
    PROVE  /\ CompleteOp(op) /\ LinkedOp(journal, tracker, cs, op) /\ SoundOp(tracker, spec, op)
           /\ op.act \in {"create", "cleanup", "retarget"} =>
                 op.key \in Nodes /\ Kind[op.key] \in PlanRelevant /\ op.label = Label(head, op)
           /\ op.act \in {"retarget", "close"} => op.task \in DOMAIN tracker
<1>1. CompleteOp(op) /\ LinkedOp(journal, tracker, cs, op) /\ SoundOp(tracker, spec, op) /\ cs.head = head
  BY DEF RunInv, TypeInv, Outstanding, Underway, LinkInv, OpsLinked, RoundInv, ChangesetRound, SoundOps
<1>2. RelevantOps(cs.ops)
  BY DEF RunInv, WorkInv, Underway
<1>3. op.act \in {"create", "cleanup", "retarget"} => op.key \in Nodes /\ op.label = Label(head, op)
  BY <1>1 DEF CompleteOp, LinkedOp, Label
<1>4. op.act \in {"create", "cleanup", "retarget"} => Kind[op.key] \in PlanRelevant
  BY <1>1, <1>2 DEF RelevantOps, SoundOp
<1>5. op.act \in {"retarget", "close"} => op.task \in DOMAIN tracker
  BY <1>1 DEF LinkedOp
<1> QED
  BY <1>1, <1>3, <1>4, <1>5

\* The label of an op that is still to do is no node's latest word.
LEMMA NewLabelUnheld ==
    ASSUME RunInv, OpsStand, phase \in {"planned", "dead"}, NEW op \in cs.ops, op.act # "close",
           NEW n \in Planned, ChangeLines(journal, n) # {}
    PROVE  Word(journal, n) # op.label
<1> DEFINE c == Max(ChangeLines(journal, n))
<1>u. Underway /\ journal \in Seq(Event)
  BY DEF Underway, RunInv, TypeInv, TypeOK
<1>1. /\ CompleteOp(op) /\ LinkedOp(journal, tracker, cs, op)
      /\ op.act \in {"create", "cleanup", "retarget"} => op.key \in Nodes /\ op.label = Label(head, op)
  BY <1>u, StandingOp
<1>2. c \in DOMAIN journal /\ journal[c].event \in ChangeKinds /\ journal[c].key = n
      /\ LastChange(journal, n) = journal[c]
  BY <1>u, LatestChange
<1> HIDE DEF c
<1>3. SUFFICES ASSUME journal[c].eid = op.label PROVE FALSE
  BY <1>2 DEF Word
<1>4. n \in Nodes
  BY DEF Planned
<1>5. journal[c].eid.src # "close" => journal[c].eid.key = n
  BY <1>2 DEF RunInv, LinkInv, GoodLines, GoodLine, ReferentKinds
<1>6. CASE op.act = "epic"
  <2>1. op.label = Registration(journal, op.key) /\ op.label # None /\ op.key \in Stems
    BY <1>1, <1>6, EIDAssumption DEF LinkedOp, CompleteOp
  <2>2. op.label.src = "registered" /\ op.label.key = op.key
    BY <1>u, <2>1, RegistrationTells DEF RunInv, LinkInv
  <2> QED
    BY <1>3, <1>4, <1>5, <2>1, <2>2, JournalAssumption
<1>7. CASE op.act \in {"create", "cleanup", "retarget"}
  <2>1. op.label.src = op.act /\ op.label.key = op.key /\ op.label.head = head
    BY <1>1, <1>7 DEF Label, DeriveEID
  <2>2. op.key = n
    BY <1>3, <1>5, <1>7, <2>1
  <2>3. Now(journal, n) = spec[n]
    BY <1>2, <1>3, <2>1 DEF RunInv, RoundInv, JournalRound, AtHead
  <2>4. OpFor(tracker, op, n)
    BY <1>7, <2>2 DEF OpFor
  <2>5. ToDo(journal, tracker, spec, op, n)
    BY <1>u, <2>4 DEF OpsStand
  <2> QED
    BY <2>3, <2>5 DEF ToDo
<1>8. op.act \in OpActs
  BY <1>1 DEF CompleteOp, Op
<1> QED
  BY <1>6, <1>7, <1>8 DEF OpActs

\* A task an implementer or the adapter's close has worked on.
WorkedOn(tr, tr2) ==
    /\ DOMAIN tr2 = DOMAIN tr
    /\ \A t \in DOMAIN tr :
          /\ tr2[t].act = tr[t].act /\ tr2[t].key = tr[t].key /\ tr2[t].labels = tr[t].labels
          /\ Open(tr2, t) => Open(tr, t)

\* An op's label has been put on a task: a new one, or the one it retargets.
Labels(tr, tr2, op, t) ==
    /\ DOMAIN tr2 = DOMAIN tr \cup {t}
    /\ \A u \in DOMAIN tr : u # t => tr2[u] = tr[u]
    /\ \/ /\ IsCreate(op) /\ t \notin DOMAIN tr
          /\ \A u \in DOMAIN tr : op.label \notin tr[u].labels
          /\ tr2[t].act = op.act /\ tr2[t].key = op.key /\ tr2[t].labels = {op.label}
       \/ /\ op.act = "retarget" /\ t = op.task /\ t \in DOMAIN tr
          /\ tr2[t].act = tr[t].act /\ tr2[t].key = tr[t].key /\ tr2[t].status = tr[t].status
          /\ tr2[t].labels = tr[t].labels \cup {op.label} /\ tr2[t].built = tr[t].built

LEMMA TrackerMoves ==
    ASSUME RunInv, [Next]_vars
    PROVE  \/ WorkedOn(tracker, tracker')
           \/ /\ proc = "adapter" /\ phase \in {"planned", "dead"} /\ phase' \in {phase, "dead"}
              /\ UNCHANGED <<journal, cs>>
              /\ \E op \in cs.ops : \E t : Labels(tracker, tracker', op, t)
<1> USE DEF vars, specVars, journalVars, runVars, memVars
<1>t. tracker \in Seq(Task)
  BY DEF RunInv, TypeInv, TypeOK
<1>k. \A t \in DOMAIN tracker : tracker[t] \in Task
  BY <1>t
<1>1. CASE UNCHANGED tracker
  BY <1>1 DEF WorkedOn, Open
<1>2. CASE WorkStep
  <2>1. PICK t \in DOMAIN tracker :
          /\ tracker[t].status # "closed"
          /\ \/ tracker' = [tracker EXCEPT ![t] = [@ EXCEPT !.status = "in_progress"]]
             \/ tracker' = [tracker EXCEPT ![t] = [@ EXCEPT !.status = "closed", !.built = tracker[t].labels]]
    BY <1>2 DEF WorkStep
  <2> DEFINE x == tracker'[t]
  <2>2. /\ DOMAIN tracker' = DOMAIN tracker
        /\ \A u \in DOMAIN tracker : u # t => tracker'[u] = tracker[u]
        /\ \/ x = [tracker[t] EXCEPT !.status = "in_progress"]
           \/ x = [tracker[t] EXCEPT !.status = "closed", !.built = tracker[t].labels]
    BY <1>t, <2>1
  <2>3. x.act = tracker[t].act /\ x.key = tracker[t].key /\ x.labels = tracker[t].labels
    BY <1>k, <2>2 DEF Task
  <2> QED
    BY <2>1, <2>2, <2>3 DEF WorkedOn, Open
<1>3. CASE /\ proc = "adapter" /\ UNCHANGED <<journalVars, cs>> /\ phase' \in {phase, "dead"}
           /\ \E op \in cs.ops : CreateStep(op) \/ RetargetStep(op) \/ CloseStep(op)
  <2>1. phase \in {"planned", "dead"} /\ Underway
    BY <1>3 DEF RunInv, TypeInv, CommandsHaveInput, Underway
  <2>2. PICK op \in cs.ops : CreateStep(op) \/ RetargetStep(op) \/ CloseStep(op)
    BY <1>3
  <2>3. op.act \in {"retarget", "close"} => op.task \in DOMAIN tracker
    BY <2>1, StandingOp
  <2>4. CASE CreateStep(op)
    <3> DEFINE x == NewTask(op)
               t == Len(tracker) + 1
    <3>1. /\ IsCreate(op) /\ Labelled(op.label) = {} /\ tracker' = Append(tracker, x)
      BY <2>4 DEF CreateStep
    <3>2. x.act = op.act /\ x.key = op.key /\ x.labels = {op.label}
      BY DEF NewTask
    <3> HIDE DEF x
    <3>3. /\ DOMAIN tracker' = DOMAIN tracker \cup {t} /\ t \notin DOMAIN tracker /\ tracker'[t] = x
          /\ \A u \in DOMAIN tracker : u # t => tracker'[u] = tracker[u]
      BY <1>t, <3>1
    <3>4. \A u \in DOMAIN tracker : op.label \notin tracker[u].labels
      BY <3>1 DEF Labelled
    <3> HIDE DEF t
    <3>5. Labels(tracker, tracker', op, t)
      BY <3>1, <3>2, <3>3, <3>4 DEF Labels
    <3> QED
      BY <1>3, <2>1, <3>5
  <2>5. CASE RetargetStep(op)
    <3>1. PICK D : tracker' = [tracker EXCEPT ![op.task] = Retargeted(@, op, D)]
      BY <2>5 DEF RetargetStep
    <3> DEFINE t == op.task
               x == Retargeted(tracker[t], op, D)
    <3>2. op.act = "retarget" /\ t \in DOMAIN tracker
      BY <2>3, <2>5 DEF RetargetStep
    <3>3. /\ x.act = tracker[t].act /\ x.key = tracker[t].key /\ x.status = tracker[t].status
          /\ x.labels = tracker[t].labels \cup {op.label} /\ x.built = tracker[t].built
      BY <1>k, <3>2 DEF Retargeted, Task
    <3>4. tracker' = [tracker EXCEPT ![t] = x]
      BY <3>1
    <3> HIDE DEF x
    <3>5. /\ DOMAIN tracker' = DOMAIN tracker \cup {t} /\ tracker'[t] = x
          /\ \A u \in DOMAIN tracker : u # t => tracker'[u] = tracker[u]
      BY <1>t, <3>2, <3>4
    <3>6. Labels(tracker, tracker', op, t)
      BY <3>2, <3>3, <3>5 DEF Labels
    <3> QED
      BY <1>3, <2>1, <3>6
  <2>6. CASE CloseStep(op)
    <3> DEFINE t == op.task
               x == [tracker[t] EXCEPT !.status = "closed"]
    <3>1. t \in DOMAIN tracker /\ tracker' = [tracker EXCEPT ![t] = x]
      BY <2>3, <2>6 DEF CloseStep
    <3>2. x.act = tracker[t].act /\ x.key = tracker[t].key /\ x.labels = tracker[t].labels
          /\ x.status = "closed"
      BY <1>k, <3>1 DEF Task
    <3> HIDE DEF x
    <3>3. /\ DOMAIN tracker' = DOMAIN tracker /\ tracker'[t] = x
          /\ \A u \in DOMAIN tracker : u # t => tracker'[u] = tracker[u]
      BY <1>t, <3>1
    <3> HIDE DEF t
    <3>4. WorkedOn(tracker, tracker')
      BY <3>2, <3>3 DEF WorkedOn, Open
    <3> QED
      BY <3>4
  <2> QED
    BY <2>2, <2>4, <2>5, <2>6
<1> QED
  BY <1>1, <1>2, <1>3, TrackerSteps DEF TrackerStep

\* Without test sections whatever plan works on is planned.
LEMMA RelevantIsPlanned ==
    ASSUME NoSections, NEW n \in Nodes, Kind[n] \in PlanRelevant
    PROVE  n \in Planned
BY DEF NoSections, PlanRelevant, Planned

\* A retarget that is still to do is of the task that holds its node, and no other
\* task has its label.
LEMMA RetargetUnique ==
    ASSUME RunInv, NoSections, DutyInv, phase \in {"planned", "dead"},
           NEW op \in cs.ops, op.act = "retarget"
    PROVE  /\ op.key \in Planned /\ Holds(journal, tracker, op.key, op.task)
           /\ \A u \in DOMAIN tracker : op.label \in tracker[u].labels => u = op.task
<1> DEFINE n == op.key
<1>u. Underway /\ phase # "applied"
  BY DEF Underway
<1>1. n \in Planned /\ op.label = DeriveEID(head, "retarget", n) /\ op.task \in DOMAIN tracker
  BY <1>u, StandingOp, RelevantIsPlanned DEF Label
<1>2. OpFor(tracker, op, n)
  BY DEF OpFor
<1>3. ToDo(journal, tracker, spec, op, n)
  BY <1>u, <1>1, <1>2 DEF DutyInv, OpsStand
<1>4. Now(journal, n) # spec[n] /\ Holds(journal, tracker, n, op.task)
  BY <1>3 DEF ToDo
<1>5. ASSUME NEW u \in DOMAIN tracker, op.label \in tracker[u].labels
      PROVE  u = op.task
  <2>1. Holds(journal, tracker, n, u)
    BY <1>1, <1>4, <1>5 DEF DutyInv, MovedTasks
  <2> QED
    BY <1>1, <1>4, <2>1 DEF Holds, DutyInv, LabelsApart
<1> QED
  BY <1>1, <1>4, <1>5

\* No step puts a label on two tasks.
LEMMA LabelsStayApart ==
    ASSUME RunInv, NoSections, DutyInv, [Next]_vars
    PROVE  LabelsApart(tracker')
<1>0. LabelsApart(tracker)
  BY DEF DutyInv
<1>1. CASE WorkedOn(tracker, tracker')
  BY <1>0, <1>1 DEF WorkedOn, LabelsApart
<1>2. ASSUME phase \in {"planned", "dead"}, NEW op \in cs.ops, NEW t, Labels(tracker, tracker', op, t)
      PROVE  LabelsApart(tracker')
  <2>1. \A u \in DOMAIN tracker : op.label \in tracker[u].labels => u = t
    BY <1>2, RetargetUnique DEF Labels
  <2>2. \A u \in DOMAIN tracker' : u # t => u \in DOMAIN tracker /\ tracker'[u] = tracker[u]
    BY <1>2 DEF Labels
  <2>3. \A e \in tracker'[t].labels : e = op.label \/ (t \in DOMAIN tracker /\ e \in tracker[t].labels)
    BY <1>2 DEF Labels
  <2> QED
    BY <1>0, <2>1, <2>2, <2>3 DEF LabelsApart
<1> QED
  BY <1>1, <1>2, TrackerMoves

\* Tasks only get labels, and no step that leaves the journal alone changes who
\* holds a node or reopens a task.
LEMMA HoldersStay ==
    ASSUME RunInv, DutyInv, [Next]_vars
    PROVE  /\ \A t \in DOMAIN tracker :
                 /\ t \in DOMAIN tracker' /\ tracker'[t].act = tracker[t].act
                 /\ tracker'[t].key = tracker[t].key /\ tracker[t].labels \subseteq tracker'[t].labels
                 /\ Open(tracker', t) => Open(tracker, t)
           /\ \A n \in Planned : \A t \in DOMAIN tracker' :
                 Holds(journal, tracker', n, t) <=> t \in DOMAIN tracker /\ Holds(journal, tracker, n, t)
           /\ \A n \in Planned : Busy(journal, tracker', n) => Busy(journal, tracker, n)
<1>1. CASE WorkedOn(tracker, tracker')
  BY <1>1 DEF WorkedOn, Holds, Busy
<1>2. ASSUME phase \in {"planned", "dead"}, NEW op \in cs.ops, NEW t, Labels(tracker, tracker', op, t)
      PROVE  /\ \A u \in DOMAIN tracker :
                   /\ u \in DOMAIN tracker' /\ tracker'[u].act = tracker[u].act
                   /\ tracker'[u].key = tracker[u].key /\ tracker[u].labels \subseteq tracker'[u].labels
                   /\ Open(tracker', u) => Open(tracker, u)
             /\ \A n \in Planned : \A u \in DOMAIN tracker' :
                   Holds(journal, tracker', n, u) <=> u \in DOMAIN tracker /\ Holds(journal, tracker, n, u)
  <2>0. op.act # "close"
    BY <1>2 DEF Labels, IsCreate
  <2>1. \A n \in Planned : ChangeLines(journal, n) # {} => Word(journal, n) # op.label
    BY <1>2, <2>0, NewLabelUnheld DEF DutyInv
  <2>2. \A u \in DOMAIN tracker' : u # t => u \in DOMAIN tracker /\ tracker'[u] = tracker[u]
    BY <1>2 DEF Labels
  <2>3. \A e \in tracker'[t].labels : e = op.label \/ (t \in DOMAIN tracker /\ e \in tracker[t].labels)
    BY <1>2 DEF Labels
  <2>4. \A u \in DOMAIN tracker :
           /\ u \in DOMAIN tracker' /\ tracker'[u].act = tracker[u].act
           /\ tracker'[u].key = tracker[u].key /\ tracker[u].labels \subseteq tracker'[u].labels
           /\ Open(tracker', u) => Open(tracker, u)
    <3> TAKE u \in DOMAIN tracker
    <3>1. CASE u = t
      BY <1>2, <3>1 DEF Labels, Open
    <3>2. CASE u # t
      BY <1>2, <3>2 DEF Labels, Open
    <3> QED
      BY <3>1, <3>2
  <2>5. \A n \in Planned : \A u \in DOMAIN tracker' :
           Holds(journal, tracker', n, u) <=> u \in DOMAIN tracker /\ Holds(journal, tracker, n, u)
    BY <2>1, <2>2, <2>3, <2>4 DEF Holds
  <2> QED
    BY <2>4, <2>5
<1>3. ASSUME /\ \A u \in DOMAIN tracker :
                   /\ u \in DOMAIN tracker' /\ tracker'[u].act = tracker[u].act
                   /\ tracker'[u].key = tracker[u].key /\ tracker[u].labels \subseteq tracker'[u].labels
                   /\ Open(tracker', u) => Open(tracker, u)
             /\ \A n \in Planned : \A u \in DOMAIN tracker' :
                   Holds(journal, tracker', n, u) <=> u \in DOMAIN tracker /\ Holds(journal, tracker, n, u)
      PROVE  \A n \in Planned : Busy(journal, tracker', n) => Busy(journal, tracker, n)
  BY <1>3 DEF Busy
<1>4. \/ WorkedOn(tracker, tracker')
      \/ /\ phase \in {"planned", "dead"}
         /\ \E op \in cs.ops : \E t : Labels(tracker, tracker', op, t)
  BY TrackerMoves
<1> QED
  BY <1>1, <1>2, <1>3, <1>4

\* Every task goes on telling what it was made for.
LEMMA TasksStayTold ==
    ASSUME RunInv, NoSections, DutyInv, [Next]_vars
    PROVE  TasksTold(tracker', spec, head)
<1>0. TasksTold(tracker, spec, head)
  BY DEF DutyInv
<1>1. CASE WorkedOn(tracker, tracker')
  BY <1>0, <1>1 DEF WorkedOn, TasksTold, TaskTold
<1>2. ASSUME phase \in {"planned", "dead"}, NEW op \in cs.ops, NEW t, Labels(tracker, tracker', op, t)
      PROVE  TasksTold(tracker', spec, head)
  <2>1. /\ SoundOp(tracker, spec, op) /\ CompleteOp(op) /\ LinkedOp(journal, tracker, cs, op)
        /\ op.act \in {"create", "cleanup", "retarget"} =>
              op.key \in Nodes /\ Kind[op.key] \in PlanRelevant /\ op.label = Label(head, op)
    BY <1>2, StandingOp DEF Underway
  <2>2. \A u \in DOMAIN tracker' : u # t => u \in DOMAIN tracker /\ tracker'[u] = tracker[u]
    BY <1>2 DEF Labels
  <2>3. \A e \in tracker'[t].labels : e = op.label \/ (t \in DOMAIN tracker /\ e \in tracker[t].labels)
    BY <1>2 DEF Labels
  <2>4. head \in Nat
    BY DEF RunInv, TypeInv, TypeOK
  <2>5. op.act = "epic" => op.label.src = "registered"
    <3>1. op.act = "epic" => op.label = Registration(journal, op.key) /\ op.label # None
      BY <2>1, EIDAssumption DEF CompleteOp, LinkedOp
    <3>2. journal \in Seq(Event) /\ GoodLines(tracker, journal)
      BY DEF RunInv, TypeInv, TypeOK, LinkInv
    <3> QED
      BY <3>1, <3>2, RegistrationTells
  <2>6. op.label.src \in {"create", "retarget"} => op.label.head <= head
    BY <1>2, <2>1, <2>4, <2>5 DEF Label, DeriveEID, Labels, IsCreate
  <2>7. ASSUME NEW n \in Planned, DeriveEID(head, "create", n) = op.label
        PROVE  spec[n] # None
    <3>1. op.label.src = "create" /\ op.label.key = n
      BY <2>7 DEF DeriveEID
    <3>2. op.act = "create" /\ op.key = n
      BY <1>2, <2>1, <2>5, <3>1 DEF Label, DeriveEID, Labels, IsCreate
    <3> QED
      BY <2>1, <3>2 DEF SoundOp, OpFor
  <2>8. TaskTold(tracker', spec, head, t)
    <3>1. tracker'[t].act \in {"create", "cleanup"} =>
             tracker'[t].key \in Nodes /\ Kind[tracker'[t].key] \in PlanRelevant
      BY <1>0, <1>2, <2>1 DEF TasksTold, TaskTold, Labels
    <3>2. t \in DOMAIN tracker => TaskTold(tracker, spec, head, t)
      BY <1>0 DEF TasksTold
    <3> QED
      BY <2>3, <2>6, <2>7, <3>1, <3>2 DEF TaskTold
  <2> QED
    BY <1>0, <2>2, <2>8 DEF TasksTold, TaskTold
<1> QED
  BY <1>1, <1>2, TrackerMoves

\* A relabelled task goes on holding its node.
LEMMA MovedStayHolding ==
    ASSUME RunInv, NoSections, DutyInv, [Next]_vars
    PROVE  MovedTasks(journal, tracker', spec, head)
<1>0. MovedTasks(journal, tracker, spec, head)
  BY DEF DutyInv
<1>h. \A n \in Planned : \A t \in DOMAIN tracker' :
         Holds(journal, tracker', n, t) <=> t \in DOMAIN tracker /\ Holds(journal, tracker, n, t)
  BY HoldersStay
<1>1. CASE WorkedOn(tracker, tracker')
  BY <1>0, <1>1, <1>h DEF WorkedOn, MovedTasks
<1>2. ASSUME phase \in {"planned", "dead"}, NEW op \in cs.ops, NEW t, Labels(tracker, tracker', op, t)
      PROVE  MovedTasks(journal, tracker', spec, head)
  <2>1. /\ CompleteOp(op) /\ LinkedOp(journal, tracker, cs, op)
        /\ op.act \in {"create", "cleanup", "retarget"} => op.label = Label(head, op)
    BY <1>2, StandingOp DEF Underway
  <2>2. \A u \in DOMAIN tracker' : u # t => u \in DOMAIN tracker /\ tracker'[u] = tracker[u]
    BY <1>2 DEF Labels
  <2>3. \A e \in tracker'[t].labels : e = op.label \/ (t \in DOMAIN tracker /\ e \in tracker[t].labels)
    BY <1>2 DEF Labels
  <2>4. op.act = "epic" => op.label.src = "registered"
    <3>1. op.act = "epic" => op.label = Registration(journal, op.key) /\ op.label # None
      BY <2>1, EIDAssumption DEF CompleteOp, LinkedOp
    <3>2. journal \in Seq(Event) /\ GoodLines(tracker, journal)
      BY DEF RunInv, TypeInv, TypeOK, LinkInv
    <3> QED
      BY <3>1, <3>2, RegistrationTells
  <2>5. ASSUME NEW n \in Planned, DeriveEID(head, "retarget", n) = op.label
        PROVE  t \in DOMAIN tracker /\ Holds(journal, tracker, n, t)
    <3>1. op.label.src = "retarget" /\ op.label.key = n
      BY <2>5 DEF DeriveEID
    <3>2. op.act = "retarget" /\ op.key = n /\ t = op.task /\ t \in DOMAIN tracker
      BY <1>2, <2>1, <2>4, <3>1 DEF Label, DeriveEID, Labels, IsCreate
    <3> QED
      BY <1>2, <3>2, RetargetUnique
  <2> QED
    BY <1>0, <1>h, <2>2, <2>3, <2>5 DEF MovedTasks
<1> QED
  BY <1>1, <1>2, TrackerMoves

-----------------------------------------------------------------------------
(* Steps that leave the spec, the journal and the changeset alone. *)

\* A task in flight goes on holding its node or waiting to be found.
LEMMA LiveStayStill ==
    ASSUME RunInv, NoSections, DutyInv, [Next]_vars, StillStep
    PROVE  LiveTasks'
<1> SUFFICES ASSUME NEW t \in DOMAIN tracker', NEW n \in Planned,
                    tracker'[t].act = "create", tracker'[t].key = n, Open(tracker', t)
             PROVE  \/ Holds(journal, tracker', n, t)
                    \/ phase' # "clean" /\ Fresh(journal, tracker', spec, head, n, t) /\ CreatedAgain(n)'
  BY DEF LiveTasks, StillStep
<1>s. UNCHANGED <<spec, head, journal, cs>>
  BY DEF StillStep
<1>p. (phase' = "clean" => phase = "clean") /\ (Underway' => Underway)
  BY DEF StillStep, Underway
<1>h. /\ Holds(journal, tracker', n, t) <=> t \in DOMAIN tracker /\ Holds(journal, tracker, n, t)
      /\ Busy(journal, tracker', n) => Busy(journal, tracker, n)
      /\ t \in DOMAIN tracker =>
            /\ tracker'[t].act = tracker[t].act /\ tracker'[t].key = tracker[t].key
            /\ tracker[t].labels \subseteq tracker'[t].labels /\ Open(tracker, t)
  BY HoldersStay
<1>1. CASE t \in DOMAIN tracker
  <2>1. \/ Holds(journal, tracker, n, t)
        \/ phase # "clean" /\ Fresh(journal, tracker, spec, head, n, t) /\ CreatedAgain(n)
    BY <1>1, <1>h DEF DutyInv, LiveTasks
  <2>2. Fresh(journal, tracker, spec, head, n, t) => Fresh(journal, tracker', spec, head, n, t)
    BY <1>1, <1>h DEF Fresh
  <2>3. CreatedAgain(n) => CreatedAgain(n)'
    BY <1>p, <1>s DEF CreatedAgain
  <2> QED
    BY <1>1, <1>h, <1>p, <2>1, <2>2, <2>3
<1>2. CASE t \notin DOMAIN tracker
  <2>1. PICK op \in cs.ops : \E x : Labels(tracker, tracker', op, x)
    BY <1>2, TrackerMoves DEF WorkedOn
  <2>2. phase \in {"planned", "dead"} /\ Underway
    BY <1>2, TrackerMoves DEF WorkedOn, Underway
  <2>3. /\ IsCreate(op) /\ tracker'[t].act = op.act /\ tracker'[t].key = op.key
        /\ tracker'[t].labels = {op.label}
    BY <1>2, <2>1 DEF Labels
  <2>4. op.act = "create" /\ op.key = n
    BY <2>3
  <2>5. op.label = DeriveEID(head, "create", n) /\ spec[n] # None
    BY <2>2, <2>4, StandingOp DEF Label, SoundOp, OpFor
  <2>6. OpFor(tracker, op, n)
    BY <2>4 DEF OpFor
  <2>7. ToDo(journal, tracker, spec, op, n)
    BY <2>2, <2>6 DEF DutyInv, OpsStand
  <2>8. Now(journal, n) # spec[n] /\ ~Busy(journal, tracker, n)
    BY <2>4, <2>7 DEF ToDo
  <2>9. Fresh(journal, tracker', spec, head, n, t)
    BY <1>h, <2>3, <2>5, <2>8 DEF Fresh
  <2>10. CreatedAgain(n)'
    BY <1>s, <2>4 DEF CreatedAgain
  <2>11. phase # "clean"
    BY <2>2
  <2> QED
    BY <1>p, <2>9, <2>10, <2>11
<1> QED
  BY <1>1, <1>2

\* The node of an op stays its node.
LEMMA OpForStays ==
    ASSUME RunInv, Underway, NEW tr2, Grown(tracker, tr2), NEW op \in cs.ops, NEW n
    PROVE  OpFor(tr2, op, n) <=> OpFor(tracker, op, n)
BY StandingOp DEF OpFor, Grown

\* The ops still to do stay so, and the journaled ones journaled.
LEMMA OpsStandStill ==
    ASSUME RunInv, NoSections, DutyInv, [Next]_vars, StillStep
    PROVE  OpsStand'
<1>s. UNCHANGED <<spec, head, journal, cs>>
  BY DEF StillStep
<1>p. (Underway' => Underway) /\ (phase = "applied" => phase' = "applied")
  BY DEF StillStep, Underway
<1> SUFFICES ASSUME Underway, NEW op \in cs.ops, NEW n \in Planned, OpFor(tracker', op, n)
             PROVE  \/ ToDo(journal, tracker', spec, op, n)
                    \/ phase' = "applied" /\ Journaled(journal, spec, head, op, n)
  BY <1>p, <1>s DEF OpsStand
<1>1. Grown(tracker, tracker')
  BY TrackerGrows DEF RunInv
<1>2. OpFor(tracker, op, n)
  BY <1>1, OpForStays
<1>3. \/ ToDo(journal, tracker, spec, op, n)
      \/ phase = "applied" /\ Journaled(journal, spec, head, op, n)
  BY <1>2 DEF DutyInv, OpsStand
<1>4. op.act \in {"retarget", "close"} => op.task \in DOMAIN tracker
  BY StandingOp
<1>5. Busy(journal, tracker', n) => Busy(journal, tracker, n)
  BY HoldersStay
<1>6. \A t \in DOMAIN tracker : Holds(journal, tracker, n, t) => Holds(journal, tracker', n, t)
  BY HoldersStay
<1>7. ToDo(journal, tracker, spec, op, n) => ToDo(journal, tracker', spec, op, n)
  BY <1>4, <1>5, <1>6 DEF ToDo
<1> QED
  BY <1>3, <1>7, <1>p

\* A close answered ok has closed its task, and nothing opens it again.
LEMMA ClosesStayDone ==
    ASSUME RunInv, DutyInv, [Next]_vars
    PROVE  ClosesDone'
<1> USE DEF specVars, journalVars, runVars, memVars
<1> SUFFICES ASSUME Underway'
             PROVE  ClosesTold(tracker', cs'.ops, results') /\ ClosesTold(tracker', cs'.ops, receipts')
  BY DEF ClosesDone
<1>i. TypeInv /\ LinkInv
  BY DEF RunInv
<1>n. \A tr, ops : ClosesTold(tr, ops, NoReceipts)
  BY DEF ClosesTold, NoReceipts
<1>1. CASE Planning
  <2>1. receipts' = NoReceipts /\ results' = results /\ proc = "idle"
    BY <1>1 DEF Planning, Plan
  <2>2. results = NoReceipts
    BY <1>i, <2>1 DEF LinkInv, CommandsInPhase
  <2> QED
    BY <1>n, <2>1, <2>2
<1>2. CASE ~Planning
  <2>1. UNCHANGED cs /\ Underway
    BY <1>2, <1>i, ChangesetSteps DEF Underway
  <2>2. ClosesTold(tracker, cs.ops, results) /\ ClosesTold(tracker, cs.ops, receipts)
    BY <2>1 DEF DutyInv, ClosesDone
  <2>3. \A op \in cs.ops : op.act = "close" => op.task \in DOMAIN tracker
    BY <2>1, StandingOp
  <2>4. \A t \in DOMAIN tracker : Open(tracker', t) => Open(tracker, t)
    BY HoldersStay
  <2>5. \A rs : ClosesTold(tracker, cs.ops, rs) => ClosesTold(tracker', cs.ops, rs)
    BY <2>3, <2>4 DEF ClosesTold
  <2>6. CASE proc = "adapter" /\ AdapterStep
    <3>1. PICK op \in cs.ops : AnswerStep(op)
      BY <1>i, <2>6, AdapterAnswers
    <3>2. receipts' = receipts
      BY <1>i, <2>6, AdapterAnswers
    <3>3. ASSUME NEW p \in cs.ops, p.act = "close", OpID(p) \in DOMAIN results',
                 results'[OpID(p)].status = "ok"
          PROVE  ~Open(tracker', p.task)
      <4>1. CASE OpID(p) = OpID(op)
        <5>1. op.act = "close" /\ op.key = p.key
          BY <3>3, <4>1 DEF OpID
        <5>2. op.task = p.task
          <6>1. SoundOp(tracker, spec, op) /\ SoundOp(tracker, spec, p)
            BY <2>1, StandingOp
          <6> QED
            BY <3>3, <5>1, <6>1 DEF SoundOp
        <5>3. tracker'[op.task].status = "closed"
          BY <3>1, <3>3, <4>1, <5>1 DEF AnswerStep, Respond
        <5> QED
          BY <5>2, <5>3 DEF Open
      <4>2. CASE OpID(p) # OpID(op)
        <5>1. OpID(p) \in DOMAIN results /\ results[OpID(p)].status = "ok"
          BY <3>1, <3>3, <4>2 DEF AnswerStep, Respond
        <5>2. ~Open(tracker, p.task)
          BY <2>2, <3>3, <5>1 DEF ClosesTold
        <5> QED
          BY <2>3, <2>4, <3>3, <5>2
      <4> QED
        BY <4>1, <4>2
    <3>4. ClosesTold(tracker', cs.ops, results')
      BY <3>3 DEF ClosesTold
    <3> QED
      BY <2>1, <2>2, <2>5, <3>2, <3>4
  <2>7. CASE ~(proc = "adapter" /\ AdapterStep)
    <3>1. results' \in {results, NoReceipts}
      BY <1>i, <2>7, AnswerSteps
    <3>2. receipts' \in {receipts, NoReceipts, results}
      BY <1>i, <2>7, AnswerSteps
    <3> QED
      BY <1>n, <2>1, <2>2, <2>5, <3>1, <3>2
  <2> QED
    BY <2>6, <2>7
<1> QED
  BY <1>1, <1>2

\* What the batch has stays the work of ops answered ok.
LEMMA BatchStaysOfOps ==
    ASSUME RunInv, DutyInv, [Next]_vars, StillStep
    PROVE  BatchOfOps'
<1>s. UNCHANGED <<spec, head, journal, cs>>
  BY DEF StillStep
<1>1. CASE UNCHANGED <<proc, batch, done, receipts>>
  <2> SUFFICES ASSUME proc = "reconcile", NEW n \in Planned, NEW i \in ChangeLines(batch, n)
               PROVE  OfOps(tracker', cs.ops, receipts, head, batch[i], n)
    BY <1>1, <1>s DEF BatchOfOps
  <2>1. Underway
    BY DEF RunInv, TypeInv, CommandsHaveInput, Underway
  <2>2. \A op \in cs.ops : OpFor(tracker', op, n) <=> OpFor(tracker, op, n)
    BY <2>1, TrackerGrows, OpForStays DEF RunInv
  <2>3. OfOps(tracker, cs.ops, receipts, head, batch[i], n)
    BY DEF DutyInv, BatchOfOps
  <2> QED
    BY <2>2, <2>3 DEF OfOps
<1>2. CASE proc' \in {"idle", "adapter"}
  BY <1>2 DEF BatchOfOps
<1>3. CASE batch' = <<>>
  BY <1>3 DEF BatchOfOps, ChangeLines
<1> QED
  BY <1>1, <1>2, <1>3 DEF StillStep

LEMMA StillKeepsDuty ==
    ASSUME RunInv, NoSections, DutyInv, [Next]_vars, StillStep
    PROVE  DutyInv'
<1>1. UNCHANGED <<spec, head, journal>>
  BY DEF StillStep
<1>2. /\ LabelsApart(tracker') /\ TasksTold(tracker', spec, head)
      /\ MovedTasks(journal, tracker', spec, head)
  BY LabelsStayApart, TasksStayTold, MovedStayHolding
<1> QED
  BY <1>1, <1>2, LiveStayStill, OpsStandStill, ClosesStayDone, BatchStaysOfOps DEF DutyInv

-----------------------------------------------------------------------------
(* Planning. *)

\* A node whose latest event is no removal is held by the one task the fold pairs
\* it with.
LEMMA FoldHolder ==
    ASSUME NEW tr \in Seq(Task), NEW j \in Seq(Event), Answered(j), GoodLines(tr, j), UniqueEIDs(j),
           Accounted(j), LabelsTell(tr), Told(j), LabelsApart(tr),
           NEW n \in Planned, Now(j, n) # None
    PROVE  /\ Paired(Fold(j), n) /\ FoldHas(j, n) /\ Fold(j)[n].after = Now(j, n)
           /\ Fold(j)[n].task \in DOMAIN tr /\ tr[Fold(j)[n].task].key = n
           /\ Holds(j, tr, n, Fold(j)[n].task)
           /\ \A u \in DOMAIN tr : Holds(j, tr, n, u) => u = Fold(j)[n].task
<1>1. n \in Nodes
  BY DEF Planned
<1>2. /\ FoldHas(j, n) <=> ChangeLines(j, n) # {}
      /\ Paired(Fold(j), n) <=> Now(j, n) # None
      /\ FoldHas(j, n) => /\ Fold(j)[n].after = Now(j, n)
                           /\ Fold(j)[n].eid = LastChange(j, n).eid
  BY FoldIsNow
<1>3. ChangeLines(j, n) # {}
  BY DEF Now
<1>4. Paired(Fold(j), n) /\ FoldHas(j, n) /\ n \in DOMAIN Fold(j)
  BY <1>1, <1>2, <1>3, FoldHasDomain
<1>5. LastWord(j, n)
  BY <1>1, <1>4, PairedLastWord
<1>6. Fold(j)[n].task # NoTask
  BY <1>1, <1>4, <1>5, NoBareTombstone
<1>7. /\ Fold(j)[n].task \in DOMAIN tr /\ tr[Fold(j)[n].task].key = n
      /\ Fold(j)[n].eid \in tr[Fold(j)[n].task].labels
  BY <1>4, <1>6, FoldNamesTask
<1>8. Fold(j)[n].eid = Word(j, n)
  BY <1>2, <1>4 DEF Word
<1>9. Holds(j, tr, n, Fold(j)[n].task)
  BY <1>3, <1>7, <1>8 DEF Holds
<1>10. \A u \in DOMAIN tr : Holds(j, tr, n, u) => u = Fold(j)[n].task
  BY <1>7, <1>9 DEF Holds, LabelsApart
<1> QED
  BY <1>2, <1>4, <1>7, <1>9, <1>10

\* Every op plan writes is still to do.
LEMMA PlannedToDo ==
    ASSUME NEW j \in Seq(Event), tracker \in Seq(Task), Answered(j), UniqueEIDs(j), Accounted(j),
           GoodLines(tracker, j), LabelsTell(tracker), Told(j), LabelsApart(tracker),
           NEW cur, NEW edges0, NEW head0, NEW stem, NEW changes \in SUBSET Nodes,
           NEW op \in BuildOps(j, cur, edges0, ExportTasks, head0, stem, changes),
           NEW n \in Planned, OpFor(tracker, op, n)
    PROVE  ToDo(j, tracker, cur, op, n)
<1> DEFINE fold == Fold(j)
           creates == ToCreate(changes, cur, edges0, fold, ExportTasks)
           cleanups == ToCleanUp(changes, cur, fold, ExportTasks)
           retargets == ToRetarget(changes, cur, edges0, fold, ExportTasks)
           closes == ToClose(changes, cur, edges0, fold, ExportTasks)
           ids == CreateIDs(creates, cleanups)
           createOp(m) == CreateOp(fold, ExportTasks, head0, stem, ids,
                                   LayerEdges(creates, cleanups, m),
                                   CreateDeps(changes, cur, edges0, m), m)
           cleanupOp(m) == CleanupOp(fold, head0, stem, ids, LayerEdges(creates, cleanups, m),
                                     {fold[k].task : k \in retargets}, m)
           retargetOp(m) == RetargetOp(fold, cur, edges0, ExportTasks, head0, ids, m)
           closeOp(m) == CloseOp(fold, cur, m)
           epic == IF NeedsEpic(fold, stem) THEN {EpicOp(j, stem)} ELSE {}
           absent(m) == Status(ExportTasks, fold[m].task) = "absent"
<1>1. op \in epic \cup {createOp(m) : m \in creates} \cup {cleanupOp(m) : m \in cleanups}
                  \cup {retargetOp(m) : m \in retargets} \cup {closeOp(m) : m \in closes}
  BY DEF BuildOps
<1>2. n \in Nodes /\ Kind[n] # "test_section"
  BY DEF Planned
<1>3. /\ \A m \in cleanups \cup retargets \cup closes : m \in Nodes /\ Paired(fold, m)
      /\ \A m \in closes : m \in Planned => cur[m] = None
      /\ \A m \in cleanups : absent(m) /\ cur[m] = None
      /\ \A m \in creates : /\ cur[m] # None
                            /\ Paired(fold, m) => absent(m) /\ ~AlreadyTracked(cur, fold, m)
      /\ \A m \in retargets : ~AlreadyTracked(cur, fold, m)
  BY DEF ToCreate, ToCleanUp, ToRetarget, ToClose, Tracked, FoldedBack, Matched, Unmatched,
         Orphaned, Foldback, Planned
<1>4. \A m : /\ createOp(m).act = "create" /\ createOp(m).key = m
             /\ cleanupOp(m).act = "cleanup" /\ cleanupOp(m).key = m
             /\ retargetOp(m).act = "retarget" /\ retargetOp(m).key = m
             /\ retargetOp(m).task = fold[m].task
             /\ closeOp(m).act = "close" /\ closeOp(m).task = fold[m].task
  BY DEF CreateOp, CleanupOp, RetargetOp, CloseOp
<1>5. op \in epic => op.act = "epic"
  BY DEF EpicOp
<1>h. Now(j, n) # None =>
         /\ Paired(fold, n) /\ fold[n].after = Now(j, n)
         /\ fold[n].task \in DOMAIN tracker
         /\ Holds(j, tracker, n, fold[n].task)
         /\ \A u \in DOMAIN tracker : Holds(j, tracker, n, u) => u = fold[n].task
  BY FoldHolder
<1>p. Paired(fold, n) <=> Now(j, n) # None
  BY FoldIsNow
<1>k. ASSUME NEW m \in Nodes, Paired(fold, m) PROVE tracker[fold[m].task].key = m
  <2>1. LastWord(j, m)
    BY <1>k, PairedLastWord
  <2>2. m \in DOMAIN fold /\ FoldHas(j, m)
    BY <1>k, FoldHasDomain DEF Paired
  <2>3. fold[m].task # NoTask
    BY <2>1, <2>2, NoBareTombstone
  <2> QED
    BY <2>2, <2>3, FoldNamesTask
<1>a. absent(n) /\ fold[n].task \in DOMAIN tracker => ~Open(tracker, fold[n].task)
  <2>1. DOMAIN ExportTasks = {t \in DOMAIN tracker : tracker[t].status # "closed"}
    BY DEF ExportTasks
  <2>2. \A t \in DOMAIN ExportTasks : ExportTasks[t] = tracker[t].status
    BY DEF ExportTasks
  <2>3. \A t \in DOMAIN tracker : tracker[t].status \in {"open", "in_progress", "closed"}
    <3>1. \A t \in DOMAIN tracker : tracker[t] \in Task
      OBVIOUS
    <3>2. \A task \in Task : task.status \in {"open", "in_progress", "closed"}
      BY DEF Task
    <3> QED
      BY <3>1, <3>2
  <2> HIDE DEF fold
  <2> QED
    BY <2>1, <2>2, <2>3 DEF Status, Open
<1>b. absent(n) => ~Busy(j, tracker, n)
  <2>1. Holds(j, tracker, n, fold[n].task) => Now(j, n) # None
    BY DEF Holds
  <2>2. \A u \in DOMAIN tracker : Holds(j, tracker, n, u) => Now(j, n) # None
    BY DEF Holds
  <2> HIDE DEF fold, absent
  <2> QED
    BY <1>a, <1>h, <2>2 DEF Busy
<1>c. Now(j, n) = None => ~Busy(j, tracker, n)
  BY DEF Busy, Holds
<1>t. Paired(fold, n) /\ ~AlreadyTracked(cur, fold, n) => Now(j, n) # cur[n]
  BY <1>h, <1>p DEF AlreadyTracked
<1> HIDE DEF fold, creates, cleanups, retargets, closes, ids, absent, createOp, cleanupOp,
             retargetOp, closeOp, epic
<1>6. CASE op \in epic
  BY <1>5, <1>6 DEF OpFor
<1>7. CASE op \in {createOp(m) : m \in creates}
  <2>1. n \in creates /\ op.act = "create"
    BY <1>4, <1>7 DEF OpFor
  <2>2. Now(j, n) # cur[n] /\ ~Busy(j, tracker, n)
    BY <1>3, <1>b, <1>c, <1>p, <1>t, <2>1
  <2> QED
    BY <2>1, <2>2 DEF ToDo
<1>8. CASE op \in {cleanupOp(m) : m \in cleanups}
  <2>1. n \in cleanups /\ op.act = "cleanup"
    BY <1>4, <1>8 DEF OpFor
  <2>2. Now(j, n) # cur[n] /\ ~Busy(j, tracker, n)
    BY <1>3, <1>b, <1>p, <2>1
  <2> QED
    BY <2>1, <2>2 DEF ToDo
<1>9. CASE op \in {retargetOp(m) : m \in retargets}
  <2>1. n \in retargets /\ op.act = "retarget" /\ op.task = fold[n].task
    BY <1>4, <1>9 DEF OpFor
  <2>2. Now(j, n) # cur[n] /\ Holds(j, tracker, n, op.task)
    BY <1>3, <1>h, <1>p, <1>t, <2>1
  <2> QED
    BY <2>1, <2>2 DEF ToDo
<1>10. CASE op \in {closeOp(m) : m \in closes}
  <2>1. PICK m \in closes : op = closeOp(m)
    BY <1>10
  <2>2. op.act = "close" /\ op.task = fold[m].task
    BY <1>4, <2>1
  <2>3. m = n
    BY <1>3, <1>k, <2>1, <2>2 DEF OpFor
  <2>4. Now(j, n) # cur[n] /\ Holds(j, tracker, n, op.task)
    BY <1>3, <1>h, <1>p, <2>1, <2>2, <2>3
  <2> QED
    BY <2>2, <2>4 DEF ToDo
<1> QED
  BY <1>1, <1>6, <1>7, <1>8, <1>9, <1>10

\* Lines without change events leave every node's latest word alone.
LEMMA SilentLinesKeepWords ==
    ASSUME NEW s \in Seq(Event), NEW t \in Seq(Event), NEW n, ChangeLines(t, n) = {}
    PROVE  /\ Now(s \o t, n) = Now(s, n)
           /\ \A tr, u : Holds(s \o t, tr, n, u) <=> Holds(s, tr, n, u)
           /\ \A tr : Busy(s \o t, tr, n) <=> Busy(s, tr, n)
<1> DEFINE j == s \o t
<1>1. /\ ChangeLines(j, n) = {} <=> ChangeLines(s, n) = {}
      /\ ChangeLines(s, n) # {} => LastChange(j, n) = LastChange(s, n)
  BY LastChangeConcat
<1> HIDE DEF j
<1>2. Now(j, n) = Now(s, n)
  BY <1>1 DEF Now
<1>3. \A tr, u : Holds(j, tr, n, u) <=> Holds(s, tr, n, u)
  BY <1>1, <1>2 DEF Holds, Word
<1>4. \A tr : Busy(j, tr, n) <=> Busy(s, tr, n)
  BY <1>3 DEF Busy
<1> QED
  BY <1>2, <1>3, <1>4 DEF j

\* A commit of the spec: no label tells of the new head yet.
LEMMA EditKeepsDuty ==
    ASSUME PlainRuns, RunInv, DutyInv, EditSpec
    PROVE  DutyInv'
<1> USE DEF specVars, journalVars, runVars, memVars
<1>1. /\ phase = "clean" /\ proc = "idle" /\ head' = head + 1 /\ head \in Nat
      /\ UNCHANGED <<journal, tracker, phase, proc>> /\ tracker \in Seq(Task)
  BY DEF EditSpec, PlainRuns, RunInv, TypeInv, TypeOK
<1>2. \A t \in DOMAIN tracker : \A e \in tracker[t].labels :
         e.src \in {"create", "retarget"} => e.head # head' /\ e.head <= head'
  <2> SUFFICES ASSUME NEW t \in DOMAIN tracker, NEW e \in tracker[t].labels,
                      e.src \in {"create", "retarget"}
               PROVE  e.head # head' /\ e.head <= head'
    OBVIOUS
  <2>1. e.head <= head
    BY DEF DutyInv, TasksTold, TaskTold
  <2>2. e.head \in Nat
    <3>1. tracker[t] \in Task
      BY <1>1
    <3>2. \A task \in Task : \A x \in task.labels : x.head \in Nat
      BY DEF Task, EIDs
    <3> QED
      BY <3>1, <3>2
  <2> QED
    BY <1>1, <2>1, <2>2
<1>3. \A act, n : DeriveEID(head', act, n).src = act /\ DeriveEID(head', act, n).head = head'
  BY DEF DeriveEID
<1>4. TasksTold(tracker, spec', head')
  <2>1. \A t \in DOMAIN tracker : TaskTold(tracker, spec, head, t)
    BY DEF DutyInv, TasksTold
  <2>2. ASSUME NEW t \in DOMAIN tracker PROVE TaskTold(tracker, spec', head', t)
    BY <1>2, <1>3, <2>1 DEF TaskTold
  <2> QED
    BY <2>2 DEF TasksTold
<1>5. MovedTasks(journal, tracker, spec', head')
  BY <1>2, <1>3 DEF MovedTasks
<1>6. LiveTasks'
  BY <1>1 DEF DutyInv, LiveTasks
<1>7. ~Underway' /\ proc' # "reconcile"
  BY <1>1 DEF Underway
<1> QED
  BY <1>1, <1>4, <1>5, <1>6, <1>7 DEF DutyInv, OpsStand, ClosesDone, BatchOfOps

\* A registration is one line, without change event or receipt.
LEMMA RegisteredLine ==
    ASSUME RunInv, RegisterStep
    PROVE  \E line \in Event : /\ line.event = "registered"
                              /\ <<line>> \in Seq(Event) /\ journal' = journal \o <<line>>
                              /\ \A n : ChangeLines(<<line>>, n) = {}
<1>1. journal \in Seq(Event) /\ head \in Nat
  BY DEF RunInv, TypeInv, TypeOK
<1>2. PICK stem \in Stems : journal' = Append(journal, RegisteredEvent(head, stem))
  BY DEF RegisterStep
<1> DEFINE line == RegisteredEvent(head, stem)
<1>3. line \in Event /\ line.event = "registered"
  <2>1. RegisteredEID(head, stem) \in EIDs
    BY <1>1, DeriveEIDTyped DEF RegisteredEID, EIDSources
  <2> QED
    BY <2>1 DEF RegisteredEvent, Event, EventKinds, ReferentKinds, ReceiptKinds, MaybeHash, NoTask
<1>4. line.event \notin ChangeKinds \cup TaskBearing
  BY <1>3 DEF ChangeKinds, TaskBearing
<1> HIDE DEF line
<1>5. /\ <<line>> \in Seq(Event) /\ journal' = journal \o <<line>>
      /\ \A n : ChangeLines(<<line>>, n) = {}
  BY <1>1, <1>2, <1>3, <1>4, SilentLine DEF line
<1> QED
  BY <1>3, <1>5

\* A registration leaves every node's latest word alone.
LEMMA RegisteredWords ==
    ASSUME RunInv, RegisterStep
    PROVE  \A n : /\ Now(journal', n) = Now(journal, n)
                  /\ \A tr, u : Holds(journal', tr, n, u) <=> Holds(journal, tr, n, u)
                  /\ \A tr : Busy(journal', tr, n) <=> Busy(journal, tr, n)
<1>1. journal \in Seq(Event)
  BY DEF RunInv, TypeInv, TypeOK
<1>2. PICK line \in Event : /\ <<line>> \in Seq(Event) /\ journal' = journal \o <<line>>
                            /\ \A n : ChangeLines(<<line>>, n) = {}
  BY RegisteredLine
<1> DEFINE t == <<line>>
<1>3. t \in Seq(Event) /\ journal' = journal \o t /\ \A n : ChangeLines(t, n) = {}
  BY <1>2
<1> HIDE DEF t
<1> QED
  BY <1>1, <1>3, SilentLinesKeepWords

\* A registration is about no node.
LEMMA RegisterKeepsDuty ==
    ASSUME RunInv, DutyInv, RegisterStep, UNCHANGED <<spec, head, tracker>>
    PROVE  DutyInv'
<1> USE DEF runVars
<1>1. /\ proc = "idle" /\ phase \in {"clean", "partial"}
      /\ UNCHANGED <<proc, cs, phase>>
  BY DEF RegisterStep
<1>2. \A n : /\ Now(journal', n) = Now(journal, n)
             /\ \A tr, u : Holds(journal', tr, n, u) <=> Holds(journal, tr, n, u)
             /\ \A tr : Busy(journal', tr, n) <=> Busy(journal, tr, n)
  BY RegisteredWords
<1>3. ~Underway /\ ~Underway' /\ proc' # "reconcile"
  BY <1>1 DEF Underway
<1>4. MovedTasks(journal', tracker, spec, head)
  BY <1>2 DEF DutyInv, MovedTasks
<1>5. LiveTasks'
  BY <1>1, <1>2, <1>3 DEF DutyInv, LiveTasks, Fresh, CreatedAgain
<1> QED
  BY <1>3, <1>4, <1>5 DEF DutyInv, OpsStand, ClosesDone, BatchOfOps

\* Plan creates again what a dead run left fresh.
LEMMA PlanKeepsDuty ==
    ASSUME PlainRuns, RunInv, RoundInv', DutyInv, [Next]_vars, Planning
    PROVE  DutyInv'
<1> USE DEF specVars, journalVars, runVars, memVars
<1>1. PICK stem \in Stems, marks \in SUBSET Absorbable(spec, snapshot) : Plan(stem, marks)
  BY DEF Planning
<1>2. marks = {}
  BY <1>1 DEF Plan, PlainRuns
<1> DEFINE changes == Diff(spec, snapshot)
<1>3. changes \ marks = changes
  BY <1>2
<1>4. /\ proc = "idle" /\ phase' = "planned" /\ phase \in PlanPhases
      /\ UNCHANGED <<spec, head, journal, tracker, proc>>
      /\ cs'.ops = BuildOps(journal, spec, edges, ExportTasks, head, stem, changes)
  BY <1>1, <1>2, <1>3 DEF Plan, Build
<1>5. /\ journal \in Seq(Event) /\ tracker \in Seq(Task) /\ Answered(journal)
      /\ UniqueEIDs(journal) /\ Accounted(journal) /\ Told(journal)
      /\ GoodLines(tracker, journal) /\ LabelsTell(tracker) /\ LabelsApart(tracker)
  BY DEF RunInv, TypeInv, TypeOK, IDInv, AccountInv, WorkInv, LinkInv, RoundInv, JournalRound, DutyInv
<1>c. changes \in SUBSET Nodes
  BY DEF Diff
<1> HIDE DEF changes
<1>6. \A op \in cs'.ops : \A n \in Planned : OpFor(tracker, op, n) =>
         ToDo(journal, tracker, spec, op, n)
  BY <1>4, <1>5, <1>c, PlannedToDo
<1>7. \A op \in cs'.ops : op.act \in {"retarget", "close"} =>
         op.task \in DOMAIN tracker /\ Open(tracker, op.task)
  <2> SUFFICES ASSUME NEW op \in cs'.ops, op.act \in {"retarget", "close"}
               PROVE  op.task \in DOMAIN tracker /\ Open(tracker, op.task)
    OBVIOUS
  <2>1. op.task \in DOMAIN tracker /\ tracker[op.task].status = "open"
    BY <1>4, <1>5, PlanTouchesOpenTasks
  <2> QED
    BY <2>1 DEF Open
<1>8. Underway' /\ SoundOps(tracker, spec, cs'.ops) /\ Covered(journal, tracker, spec, cs'.ops)
  BY <1>4 DEF RoundInv, ChangesetRound, Underway
<1>9. ASSUME NEW n \in Planned, NEW t, Fresh(journal, tracker, spec, head, n, t)
      PROVE  \E op \in cs'.ops : op.act = "create" /\ op.key = n
  <2>1. Now(journal, n) # spec[n] /\ spec[n] # None /\ ~Busy(journal, tracker, n)
    BY <1>9 DEF Fresh
  <2>2. PICK op \in cs'.ops : OpFor(tracker, op, n)
    BY <1>8, <2>1 DEF Covered
  <2>3. op.act \notin {"cleanup", "close"}
    BY <1>8, <2>1, <2>2 DEF SoundOps, SoundOp
  <2>4. op.act # "retarget"
    <3> SUFFICES ASSUME op.act = "retarget" PROVE FALSE
      OBVIOUS
    <3>1. Holds(journal, tracker, n, op.task)
      BY <1>6, <2>2 DEF ToDo
    <3> QED
      BY <1>7, <2>1, <3>1 DEF Busy
  <2> QED
    BY <2>2, <2>3, <2>4 DEF OpFor
<1>10. LiveTasks'
  <2> SUFFICES ASSUME NEW t \in DOMAIN tracker, NEW n \in Planned,
                      tracker[t].act = "create", tracker[t].key = n, Open(tracker, t)
               PROVE  \/ Holds(journal, tracker, n, t)
                      \/ Fresh(journal, tracker, spec, head, n, t) /\ CreatedAgain(n)'
    BY <1>4 DEF LiveTasks
  <2>1. Holds(journal, tracker, n, t) \/ Fresh(journal, tracker, spec, head, n, t)
    BY DEF DutyInv, LiveTasks
  <2> QED
    BY <1>9, <2>1 DEF CreatedAgain
<1>11. OpsStand'
  BY <1>4, <1>6 DEF OpsStand
<1>12. ClosesDone'
  BY ClosesStayDone
<1> QED
  BY <1>4, <1>10, <1>11, <1>12 DEF DutyInv, BatchOfOps

-----------------------------------------------------------------------------
(* Ingest. *)

\* The event built for an op has the id derived for it.
LEMMA BuiltEID ==
    ASSUME NEW j, NEW b, NEW cur, NEW h, NEW op, op.act \in OpActs, NEW t,
           NEW i \in DOMAIN BuildOp(j, b, cur, h, op, t),
           BuildOp(j, b, cur, h, op, t)[i].event \in ChangeKinds
    PROVE  BuildOp(j, b, cur, h, op, t)[i].eid = Label(h, op)
<1> DEFINE lines == BuildOp(j, b, cur, h, op, t)
<1>1. \A kind, eid, n, before, after : ChangeEvent(kind, eid, n, before, after).eid = eid
  BY DEF ChangeEvent
<1>2. \A kind, for, task : TaskReceipt(kind, for, task).event = kind
  BY DEF TaskReceipt
<1>3. {"task_created", "task_retargeted", "task_closed"} \cap ChangeKinds = {}
  BY DEF ChangeKinds
<1>p. \A ev, rc : /\ rc.event \notin ChangeKinds /\ ev.eid = Label(h, op)
                  /\ lines \in {<<>>, <<rc>>, <<ev, rc>>}
                  => lines[i].eid = Label(h, op)
  <2> TAKE ev, rc
  <2> HAVE /\ rc.event \notin ChangeKinds /\ ev.eid = Label(h, op)
           /\ lines \in {<<>>, <<rc>>, <<ev, rc>>}
  <2>0. i \in DOMAIN lines /\ lines[i].event \in ChangeKinds
    OBVIOUS
  <2> HIDE DEF lines
  <2>1. CASE lines = <<>>
    BY <2>0, <2>1
  <2>2. CASE lines = <<rc>>
    BY <2>0, <2>2
  <2>3. CASE lines = <<ev, rc>>
    BY <2>0, <2>3
  <2> QED
    BY <2>1, <2>2, <2>3
<1>4. CASE op.act = "epic"
  <2> DEFINE ev == ChangeEvent("added", Label(h, op), None, None, None)
             rc == TaskReceipt("task_created", Registration(j, op.key), t)
  <2>1. lines \in {<<>>, <<rc>>, <<ev, rc>>}
    BY <1>4 DEF BuildOp, BuildEpicCreate
  <2>2. ev.eid = Label(h, op) /\ rc.event \notin ChangeKinds
    BY <1>1, <1>2, <1>3
  <2> HIDE DEF lines, ev, rc
  <2>3. lines[i].eid = Label(h, op)
    BY <1>p, <2>1, <2>2
  <2> QED
    BY <2>3 DEF lines
<1>5. CASE op.act = "create"
  <2> DEFINE prior == PriorHash(j, op.key)
             ev == ChangeEvent(IF prior = None THEN "added" ELSE "modified",
                               Label(h, op), op.key, prior, cur[op.key])
             rc == TaskReceipt("task_created", Label(h, op), t)
  <2>1. lines \in {<<>>, <<rc>>, <<ev, rc>>}
    BY <1>5 DEF BuildOp, BuildNodeCreate, Label
  <2>2. ev.eid = Label(h, op) /\ rc.event \notin ChangeKinds
    BY <1>1, <1>2, <1>3
  <2> HIDE DEF lines, ev, rc
  <2>3. lines[i].eid = Label(h, op)
    BY <1>p, <2>1, <2>2
  <2> QED
    BY <2>3 DEF lines
<1>6. CASE op.act = "cleanup"
  <2> DEFINE entry == Fold(j)[op.key]
             ev == ChangeEvent("removed", Label(h, op), op.key, entry.after, None)
             rc1 == TaskReceipt("task_created", Label(h, op), t)
             rc2 == TaskReceipt("task_created", entry.eid, t)
  <2>1. lines \in {<<>>, <<rc1>>, <<ev, rc1>>} \/ lines \in {<<>>, <<rc2>>, <<ev, rc2>>}
    BY <1>6 DEF BuildOp, BuildCleanupCreate, Label
  <2>2. ev.eid = Label(h, op) /\ rc1.event \notin ChangeKinds /\ rc2.event \notin ChangeKinds
    BY <1>1, <1>2, <1>3
  <2> HIDE DEF lines, ev, rc1, rc2
  <2>3. lines[i].eid = Label(h, op)
    BY <1>p, <2>1, <2>2
  <2> QED
    BY <2>3 DEF lines
<1>7. CASE op.act = "retarget"
  <2> DEFINE ev == ChangeEvent("modified", Label(h, op), op.key, PriorHash(j, op.key), op.hash)
             rc == TaskReceipt("task_retargeted", Label(h, op), op.task)
  <2>1. lines \in {<<>>, <<rc>>, <<ev, rc>>}
    BY <1>7 DEF BuildOp, BuildRetarget, Label
  <2>2. ev.eid = Label(h, op) /\ rc.event \notin ChangeKinds
    BY <1>1, <1>2, <1>3
  <2> HIDE DEF lines, ev, rc
  <2>3. lines[i].eid = Label(h, op)
    BY <1>p, <2>1, <2>2
  <2> QED
    BY <2>3 DEF lines
<1>8. CASE op.act = "close"
  <2> DEFINE n == ClosedNode(j, op)
             ev == IF op.why = "removed"
                   THEN ChangeEvent("removed", Label(h, op), n, Fold(j)[n].after, None)
                   ELSE ChangeEvent("modified", Label(h, op), n, Fold(j)[n].after, cur[n])
             rc == TaskReceipt("task_closed", Label(h, op), t)
  <2>1. lines \in {<<>>, <<rc>>, <<ev, rc>>}
    BY <1>8 DEF BuildOp, BuildClose, Label
  <2>2. ev.eid = Label(h, op) /\ rc.event \notin ChangeKinds
    BY <1>1, <1>2, <1>3
  <2> HIDE DEF lines, ev, rc
  <2>3. lines[i].eid = Label(h, op)
    BY <1>p, <2>1, <2>2
  <2> QED
    BY <2>3 DEF lines
<1> QED
  BY <1>4, <1>5, <1>6, <1>7, <1>8 DEF OpActs

\* Reconciling an op adds its own event, if any.
LEMMA ReconcileKeepsDuty ==
    ASSUME RunInv, DutyInv, [Next]_vars, proc = "reconcile", NEW op \in cs.ops, ReconcileOp(op)
    PROVE  DutyInv'
<1> USE DEF specVars, journalVars, runVars, memVars
<1>1. UNCHANGED <<spec, head, journal, tracker, cs, receipts, phase, proc>>
  BY DEF ReconcileOp
<1>2. /\ Underway /\ cs \in Changeset /\ CompleteOp(op) /\ op.act \in OpActs
  BY DEF RunInv, TypeInv, CommandsHaveInput, Outstanding, Underway, CompleteOp, Op
<1>3. /\ journal \in Seq(Event) /\ batch \in Seq(Event) /\ tracker \in Seq(Task)
      /\ spec \in [Nodes -> MaybeHash] /\ cs.head \in Nat
  BY <1>2 DEF RunInv, TypeInv, TypeOK, Specs, Changeset
<1>4. /\ Answered(journal) /\ UniqueEIDs(journal) /\ Accounted(journal)
      /\ op.act \in {"create", "retarget"} => Kind[op.key] \in PlanRelevant
      /\ GoodLines(tracker, journal) /\ GoodLines(tracker, batch) /\ LabelsTell(tracker)
      /\ LinkedOp(journal, tracker, cs, op)
  BY <1>2 DEF RunInv, WorkInv, IDInv, AccountInv, LinkInv, BatchLinked, OpsLinked, Underway, RelevantOps
<1>5. /\ Told(journal) /\ AtHead(journal, spec, cs.head) /\ HeadLines(tracker, cs.head, journal)
      /\ cs.head = head /\ SoundOp(tracker, spec, op) /\ HeadLines(tracker, cs.head, batch)
  BY <1>2 DEF RunInv, RoundInv, JournalRound, ChangesetRound, BatchRound, SoundOps
<1>6. BatchOfOps'
  <2>1. CASE batch' = batch
    BY <1>1, <2>1 DEF DutyInv, BatchOfOps
  <2>2. CASE /\ receipts[OpID(op)].status = "ok" /\ ~OpRefused(journal, batch, spec, cs.head, op)
             /\ batch' = batch \o BuildOp(journal, batch, spec, cs.head, op, receipts[OpID(op)].task)
    <3> DEFINE t == receipts[OpID(op)].task
               lines == BuildOp(journal, batch, spec, cs.head, op, t)
    <3>1. t \in Nat
      BY DEF RunInv, TypeInv, CommandsHaveInput, TypeOK, Receipt
    <3> HIDE DEF t
    <3>2. lines \in Seq(Event)
      BY <1>2, <1>3, <2>2, <3>1, BuiltLinesAreFresh
    <3>3. SoundLines(tracker, journal, spec, cs.head, op, lines)
      BY <1>2, <1>3, <1>4, <1>5, <2>2, BuiltLinesSound
    <3>4. \A i \in DOMAIN lines : lines[i].event \in ChangeKinds => lines[i].eid = Label(cs.head, op)
      BY <1>2, BuiltEID
    <3>5. batch' = batch \o lines
      BY <2>2 DEF t
    <3> HIDE DEF lines
    <3> SUFFICES ASSUME NEW n \in Planned, NEW i \in ChangeLines(batch', n)
                 PROVE  OfOps(tracker, cs.ops, receipts, head, batch'[i], n)
      BY <1>1 DEF BatchOfOps
    <3>6. /\ \A k \in ChangeLines(batch, n) :
                k \in ChangeLines(batch \o lines, n) /\ (batch \o lines)[k] = batch[k] /\ k <= Len(batch)
          /\ \A k \in ChangeLines(lines, n) :
                Len(batch) + k \in ChangeLines(batch \o lines, n)
                /\ (batch \o lines)[Len(batch) + k] = lines[k] /\ k >= 1
          /\ \A k \in ChangeLines(batch \o lines, n) :
                \/ k \in ChangeLines(batch, n) /\ (batch \o lines)[k] = batch[k]
                \/ k - Len(batch) \in ChangeLines(lines, n)
                   /\ (batch \o lines)[k] = lines[k - Len(batch)] /\ k > Len(batch)
      BY <1>3, <3>2, ChangeLinesConcat, Zenon
    <3>7. \/ i \in ChangeLines(batch, n) /\ batch'[i] = batch[i]
          \/ \E k \in ChangeLines(lines, n) : batch'[i] = lines[k]
      BY <3>5, <3>6
    <3>8. CASE i \in ChangeLines(batch, n) /\ batch'[i] = batch[i]
      BY <3>8 DEF DutyInv, BatchOfOps
    <3>9. ASSUME NEW k \in ChangeLines(lines, n), batch'[i] = lines[k]
          PROVE  OfOps(tracker, cs.ops, receipts, head, batch'[i], n)
      <4>1. OpFor(tracker, op, n)
        BY <3>3, <3>9 DEF SoundLines
      <4>2. lines[k].eid = Label(head, op)
        BY <1>5, <3>4, <3>9 DEF ChangeLines
      <4> QED
        BY <2>2, <3>9, <4>1, <4>2 DEF OfOps
    <3> QED
      BY <3>7, <3>8, <3>9
  <2> QED
    BY <2>1, <2>2 DEF ReconcileOp
<1>7. ClosesDone'
  BY ClosesStayDone
<1>8. LiveTasks' /\ OpsStand'
  BY <1>1 DEF DutyInv, LiveTasks, OpsStand, CreatedAgain, Underway
<1> QED
  BY <1>1, <1>6, <1>7, <1>8 DEF DutyInv

\* In plain runs the batch is appended as it is, and its ids are those of ops
\* answered ok.
LEMMA BatchIsFinal ==
    ASSUME RunInv, NoSections, DutyInv, proc = "reconcile"
    PROVE  /\ \A e \in KnownEIDs(batch) :
                 \E op \in cs.ops : /\ e = Label(head, op) /\ op.act \in OpActs
                                    /\ receipts[OpID(op)].status = "ok"
           /\ FinalBatch = batch
<1>1. Underway
  BY DEF RunInv, TypeInv, CommandsHaveInput, Underway
<1>2. ASSUME NEW e \in KnownEIDs(batch)
      PROVE  \E op \in cs.ops : /\ e = Label(head, op) /\ op.act \in OpActs
                                /\ receipts[OpID(op)].status = "ok"
  <2>1. PICK i \in DOMAIN batch : batch[i].eid = e /\ e # None
    BY DEF KnownEIDs
  <2>2. batch[i].event \in ReferentKinds /\ batch[i].event # "registered" /\ ToldChange(batch, i)
    BY <2>1 DEF RunInv, RoundInv, BatchRound, HeadLines, HeadLine, Told, LinkInv, BatchLinked
  <2>3. batch[i].event \in ChangeKinds
    BY <2>2 DEF ReferentKinds
  <2>4. batch[i].key \in Nodes /\ Kind[batch[i].key] \in PlanRelevant
    BY <2>2, <2>3 DEF ToldChange
  <2>5. batch[i].key \in Planned
    BY <2>4, RelevantIsPlanned
  <2>6. i \in ChangeLines(batch, batch[i].key)
    BY <2>1, <2>3 DEF ChangeLines
  <2>7. OfOps(tracker, cs.ops, receipts, head, batch[i], batch[i].key)
    BY <2>5, <2>6 DEF DutyInv, BatchOfOps
  <2>8. PICK op \in cs.ops : receipts[OpID(op)].status = "ok" /\ e = Label(head, op)
    BY <2>1, <2>7 DEF OfOps
  <2>9. op.act \in OpActs
    BY <1>1 DEF RunInv, TypeInv, Outstanding, Underway, CompleteOp, Op
  <2> QED
    BY <2>8, <2>9
<1>3. AbsorbedEIDs = {}
  <2>1. \A op : Label(head, op).src = op.act
    BY DEF Label, DeriveEID
  <2>2. "refresh" \notin OpActs
    BY DEF OpActs
  <2> QED
    BY <1>2, <2>1, <2>2 DEF AbsorbedEIDs
<1> QED
  BY <1>2, <1>3 DEF FinalBatch

\* A node with an event in the batch had its op still to do, and moves by it.
LEMMA CommittedNode ==
    ASSUME RunInv, NoSections, DutyInv, IngestCommit, NEW n \in Planned
    PROVE  /\ ChangeLines(batch, n) = {} =>
                 /\ Now(journal', n) = Now(journal, n)
                 /\ \A u : Holds(journal', tracker, n, u) <=> Holds(journal, tracker, n, u)
                 /\ Busy(journal', tracker, n) <=> Busy(journal, tracker, n)
           /\ ChangeLines(batch, n) # {} =>
                 \E op \in cs.ops :
                    /\ OpFor(tracker, op, n) /\ ToDo(journal, tracker, spec, op, n)
                    /\ OpID(op) \in DOMAIN receipts /\ receipts[OpID(op)].status = "ok"
                    /\ ChangeLines(journal', n) # {} /\ Now(journal', n) = spec[n]
                    /\ Word(journal', n) = Label(head, op)
                    /\ Label(head, op) \in KnownEIDs(journal')
<1>1. proc = "reconcile" /\ journal' = journal \o FinalBatch /\ OpsDone
  BY DEF IngestCommit, Committable
<1>2. /\ journal \in Seq(Event) /\ batch \in Seq(Event) /\ Underway
      /\ DOMAIN receipts = {OpID(op) : op \in cs.ops}
  BY <1>1 DEF RunInv, TypeInv, TypeOK, CommandsHaveInput, Underway
<1>3. FinalBatch = batch
  BY <1>1, BatchIsFinal
<1> DEFINE j == journal \o batch
<1>4. journal' = j
  BY <1>1, <1>3
<1>5. CASE ChangeLines(batch, n) = {}
  <2>1. /\ Now(j, n) = Now(journal, n)
        /\ \A tr, u : Holds(j, tr, n, u) <=> Holds(journal, tr, n, u)
        /\ \A tr : Busy(j, tr, n) <=> Busy(journal, tr, n)
    BY <1>2, <1>5, SilentLinesKeepWords
  <2> HIDE DEF j
  <2> QED
    BY <1>4, <1>5, <2>1
<1>6. CASE ChangeLines(batch, n) # {}
  <2> DEFINE c == Max(ChangeLines(batch, n))
  <2>1. /\ c \in ChangeLines(batch, n) /\ c \in DOMAIN batch
        /\ LastChange(batch, n) = batch[c] /\ Now(batch, n) = batch[c].after
        /\ batch[c].event \in ChangeKinds
    BY <1>2, <1>6, LatestChange
  <2> HIDE DEF c
  <2>2. /\ ChangeLines(j, n) # {} /\ LastChange(j, n) = batch[c] /\ Now(j, n) = batch[c].after
    <3>1. /\ ChangeLines(j, n) = {} <=> ChangeLines(journal, n) = {} /\ ChangeLines(batch, n) = {}
          /\ ChangeLines(batch, n) # {} => LastChange(j, n) = LastChange(batch, n)
      BY <1>2, LastChangeConcat
    <3> HIDE DEF j
    <3> QED
      BY <1>6, <2>1, <3>1 DEF Now
  <2>3. batch[c].after = spec[n]
    BY <1>1, <2>1 DEF RunInv, RoundInv, BatchRound, NodeRound
  <2>4. PICK op \in cs.ops : /\ OpFor(tracker, op, n) /\ receipts[OpID(op)].status = "ok"
                             /\ batch[c].eid = Label(head, op)
    BY <1>1, <2>1 DEF DutyInv, BatchOfOps, OfOps
  <2>5. Label(head, op) \in KnownEIDs(batch)
    <3>1. batch[c].eid \in EIDs
      BY <1>1, <2>1 DEF RunInv, AccountInv, AllPlain, Plain, ReferentKinds
    <3> QED
      BY <2>1, <2>4, <3>1, EIDAssumption DEF KnownEIDs
  <2>6. Label(head, op) \notin KnownEIDs(journal)
    BY <1>1, <2>5 DEF RunInv, IDInv, BatchIsNew, FreshLines
  <2>7. ToDo(journal, tracker, spec, op, n)
    BY <1>2, <2>4, <2>6 DEF DutyInv, OpsStand, Journaled
  <2>8. KnownEIDs(j) = KnownEIDs(journal) \cup KnownEIDs(batch)
    BY <1>2, KnownEIDsConcat
  <2>9. OpID(op) \in DOMAIN receipts
    BY <1>2
  <2> HIDE DEF j
  <2> QED
    BY <1>4, <1>6, <2>2, <2>3, <2>4, <2>5, <2>7, <2>8, <2>9 DEF Word
<1> QED
  BY <1>5, <1>6

\* The batch is appended: a task in flight is moved with its node or found again.
LEMMA CommitKeepsDuty ==
    ASSUME RunInv, NoSections, DutyInv, [Next]_vars, IngestCommit
    PROVE  DutyInv'
<1> USE DEF specVars, journalVars, runVars, memVars
<1>1. /\ UNCHANGED <<spec, head, tracker, cs, receipts, phase>> /\ proc' = "save"
      /\ phase = "applied" /\ Underway
  BY DEF IngestCommit, Committable, RunInv, TypeInv, CommandsHaveInput, Underway
<1>2. SoundOps(tracker, spec, cs.ops) /\ cs.head = head
  BY <1>1 DEF RunInv, RoundInv, ChangesetRound
<1>3. MovedTasks(journal', tracker, spec, head)
  <2> SUFFICES ASSUME NEW t \in DOMAIN tracker, NEW n \in Planned,
                      DeriveEID(head, "retarget", n) \in tracker[t].labels
               PROVE  Now(journal', n) = spec[n] \/ Holds(journal', tracker, n, t)
    BY DEF MovedTasks
  <2>1. Now(journal, n) = spec[n] \/ Holds(journal, tracker, n, t)
    BY DEF DutyInv, MovedTasks
  <2> QED
    BY <2>1, CommittedNode
<1>4. LiveTasks'
  <2> SUFFICES ASSUME NEW t \in DOMAIN tracker, NEW n \in Planned,
                      tracker[t].act = "create", tracker[t].key = n, Open(tracker, t)
               PROVE  \/ Holds(journal', tracker, n, t)
                      \/ Fresh(journal', tracker, spec, head, n, t) /\ CreatedAgain(n)'
    BY <1>1 DEF LiveTasks
  <2>1. \/ Holds(journal, tracker, n, t)
        \/ Fresh(journal, tracker, spec, head, n, t) /\ CreatedAgain(n)
    BY DEF DutyInv, LiveTasks
  <2>2. CreatedAgain(n) => CreatedAgain(n)'
    BY <1>1 DEF CreatedAgain
  <2>3. CASE ChangeLines(batch, n) = {}
    BY <2>1, <2>2, <2>3, CommittedNode DEF Fresh
  <2>4. CASE ChangeLines(batch, n) # {}
    <3>1. PICK op \in cs.ops :
             /\ OpFor(tracker, op, n) /\ ToDo(journal, tracker, spec, op, n)
             /\ OpID(op) \in DOMAIN receipts /\ receipts[OpID(op)].status = "ok"
             /\ ChangeLines(journal', n) # {} /\ Now(journal', n) = spec[n]
             /\ Word(journal', n) = Label(head, op)
      BY <2>4, CommittedNode
    <3>2. /\ LinkedOp(journal, tracker, cs, op) /\ SoundOp(tracker, spec, op)
          /\ op.act \in {"create", "cleanup", "retarget"} => op.label = Label(head, op)
      BY <1>1, StandingOp
    <3>3. op.act \in {"create", "cleanup", "retarget", "close"}
      BY <3>1 DEF OpFor
    <3>4. CASE Holds(journal, tracker, n, t)
      <4>1. op.act \notin {"create", "cleanup"}
        BY <3>1, <3>4 DEF ToDo, Busy
      <4>2. Holds(journal, tracker, n, op.task) /\ op.task \in DOMAIN tracker
        BY <1>1, <3>1, <3>3, <4>1, StandingOp DEF ToDo
      <4>3. t = op.task
        BY <3>4, <4>2 DEF Holds, DutyInv, LabelsApart
      <4>4. op.act # "close"
        BY <1>1, <3>1, <4>3 DEF DutyInv, ClosesDone, ClosesTold
      <4>5. op.act = "retarget"
        BY <3>3, <4>1, <4>4
      <4>6. op.label \in tracker[t].labels
        BY <1>1, <3>1, <4>3, <4>5 DEF RunInv, LinkInv, OpsLinked, TaskAnswers
      <4>7. spec[n] # None
        BY <3>1, <3>2, <4>5 DEF SoundOp
      <4> QED
        BY <3>1, <3>2, <4>5, <4>6, <4>7 DEF Holds
    <3>5. CASE Fresh(journal, tracker, spec, head, n, t) /\ CreatedAgain(n)
      <4>1. PICK p \in cs.ops : p.act = "create" /\ p.key = n
        BY <1>1, <3>5 DEF CreatedAgain
      <4>2. OpFor(tracker, p, n)
        BY <4>1 DEF OpFor
      <4>3. p = op
        BY <1>2, <3>1, <4>2 DEF SoundOps
      <4>4. Label(head, op) = DeriveEID(head, "create", n)
        BY <4>1, <4>3 DEF Label
      <4> QED
        BY <3>1, <3>5, <4>4 DEF Fresh, Holds
    <3> QED
      BY <2>1, <3>4, <3>5
  <2> QED
    BY <2>3, <2>4
<1>5. OpsStand'
  <2> SUFFICES ASSUME NEW op \in cs.ops, NEW n \in Planned, OpFor(tracker, op, n)
               PROVE  \/ ToDo(journal', tracker, spec, op, n)
                      \/ Journaled(journal', spec, head, op, n)
    BY <1>1 DEF OpsStand
  <2>1. \/ ToDo(journal, tracker, spec, op, n)
        \/ Journaled(journal, spec, head, op, n)
    BY <1>1 DEF DutyInv, OpsStand
  <2>2. CASE ChangeLines(batch, n) = {}
    <3>1. KnownEIDs(journal) \subseteq KnownEIDs(journal')
      <4>1. /\ journal' = journal \o FinalBatch /\ journal \in Seq(Event)
            /\ FinalBatch \in Seq(Event)
        BY FinalBatchTyped DEF IngestCommit, RunInv, TypeInv, TypeOK
      <4>2. KnownEIDs(journal \o FinalBatch) = KnownEIDs(journal) \cup KnownEIDs(FinalBatch)
        BY <4>1, KnownEIDsConcat
      <4> QED
        BY <4>1, <4>2
    <3> QED
      BY <2>1, <2>2, <3>1, CommittedNode DEF ToDo, Journaled
  <2>3. CASE ChangeLines(batch, n) # {}
    <3>1. PICK p \in cs.ops :
             /\ OpFor(tracker, p, n) /\ Now(journal', n) = spec[n]
             /\ Label(head, p) \in KnownEIDs(journal')
      BY <2>3, CommittedNode
    <3>2. p = op
      BY <1>2, <3>1 DEF SoundOps
    <3> QED
      BY <3>1, <3>2 DEF Journaled
  <2> QED
    BY <2>2, <2>3
<1>6. ClosesDone'
  BY ClosesStayDone
<1> QED
  BY <1>1, <1>3, <1>4, <1>5, <1>6 DEF DutyInv, BatchOfOps

\* A complete run leaves no node behind the spec, and nothing fresh.
LEMMA SaveKeepsDuty ==
    ASSUME RunInv, DutyInv, IngestSave
    PROVE  DutyInv'
<1> USE DEF specVars
<1>1. /\ UNCHANGED <<spec, head, journal, tracker>> /\ proc = "save" /\ proc' = "idle"
      /\ phase' = (IF AllOk THEN "clean" ELSE "partial")
  BY DEF IngestSave, Stop
<1>2. ~Underway'
  BY <1>1 DEF Underway
<1>3. AllOk => \A n \in Planned : Now(journal, n) = spec[n]
  BY <1>1 DEF RunInv, RoundInv, SaveRound
<1>4. LiveTasks'
  <2> SUFFICES ASSUME NEW t \in DOMAIN tracker, NEW n \in Planned,
                      tracker[t].act = "create", tracker[t].key = n, Open(tracker, t)
               PROVE  \/ Holds(journal, tracker, n, t)
                      \/ phase' # "clean" /\ Fresh(journal, tracker, spec, head, n, t)
    BY <1>1, <1>2 DEF LiveTasks, CreatedAgain
  <2>1. Holds(journal, tracker, n, t) \/ Fresh(journal, tracker, spec, head, n, t)
    BY DEF DutyInv, LiveTasks
  <2>2. AllOk => ~Fresh(journal, tracker, spec, head, n, t)
    BY <1>3 DEF Fresh
  <2> QED
    BY <1>1, <2>1, <2>2
<1> QED
  BY <1>1, <1>2, <1>4 DEF DutyInv, OpsStand, ClosesDone, BatchOfOps

\* Every step keeps the duty, and every state has it.
LEMMA DutyInvariant ==
    ASSUME PlainRuns, NoSections
    PROVE  Spec => [](RunInv /\ DutyInv)
<1>1. Init => DutyInv
  BY DEF Init, DutyInv, LabelsApart, TasksTold, MovedTasks, LiveTasks, OpsStand, ClosesDone,
         BatchOfOps, Underway
<1>2. RunInv /\ RunInv' /\ DutyInv /\ [Next]_vars => DutyInv'
  <2> SUFFICES ASSUME RunInv, RunInv', DutyInv, [Next]_vars PROVE DutyInv'
    OBVIOUS
  <2>1. TypeInv /\ IDInv /\ ChangesetRound /\ BatchRound /\ RoundInv'
    BY DEF RunInv, RoundInv
  <2> QED
    BY <2>1, RoundSteps, StillKeepsDuty, EditKeepsDuty, RegisterKeepsDuty, PlanKeepsDuty,
       ReconcileKeepsDuty, CommitKeepsDuty, SaveKeepsDuty
<1>3. Spec => []RunInv
  <2>1. (TypeInv /\ IDInv /\ AccountInv /\ WorkInv /\ LinkInv /\ RoundInv) => RunInv
    BY DEF RunInv
  <2> QED
    BY <2>1, RoundInvariant, PTL
<1> QED
  BY <1>1, <1>2, <1>3, PTL DEF Spec

-----------------------------------------------------------------------------
(***************************************************************************)
(* In plain runs of a spec without test sections no node ever has two      *)
(* tasks in flight: what a dead adapter created is found by its label, and *)
(* whatever the fold pairs is retargeted or finished before another is     *)
(* created (scripts/apply-br.sh, plan/action_classifier.go).               *)
(***************************************************************************)
THEOREM NoNodeIsWorkedTwice ==
    ASSUME PlainRuns, NoSections
    PROVE  Spec => []NoDuplicateLiveTask
<1>1. RunInv /\ DutyInv => NoDuplicateLiveTask
  <2> SUFFICES ASSUME RunInv, DutyInv, NEW t \in DOMAIN tracker, NEW u \in DOMAIN tracker,
                      tracker[t].act = "create", tracker[u].act = "create",
                      InFlight(t), InFlight(u), tracker[t].key = tracker[u].key
               PROVE  t = u
    BY DEF NoDuplicateLiveTask
  <2> DEFINE n == tracker[t].key
  <2>1. n \in Nodes /\ Kind[n] \in PlanRelevant
    BY DEF DutyInv, TasksTold, TaskTold
  <2>2. n \in Planned
    BY <2>1, RelevantIsPlanned
  <2>3. Open(tracker, t) /\ Open(tracker, u)
    BY DEF InFlight, Open
  <2>4. /\ Holds(journal, tracker, n, t) \/ Fresh(journal, tracker, spec, head, n, t)
        /\ Holds(journal, tracker, n, u) \/ Fresh(journal, tracker, spec, head, n, u)
    BY <2>2, <2>3 DEF DutyInv, LiveTasks
  <2>5. LabelsApart(tracker)
    BY DEF DutyInv
  <2> HIDE DEF n
  <2>6. CASE Busy(journal, tracker, n)
    BY <2>4, <2>5, <2>6 DEF Fresh, Holds, LabelsApart
  <2>7. CASE ~Busy(journal, tracker, n)
    <3>1. Fresh(journal, tracker, spec, head, n, t) /\ Fresh(journal, tracker, spec, head, n, u)
      BY <2>3, <2>4, <2>7 DEF Busy
    <3> QED
      BY <2>5, <3>1 DEF Fresh, LabelsApart
  <2> QED
    BY <2>6, <2>7
<1> QED
  BY <1>1, DutyInvariant, PTL

(***************************************************************************)
(* In plain runs of a spec without test sections every task in flight is,  *)
(* once no changeset is outstanding, the one the fold pairs with its node, *)
(* and the baseline has the node: none is forgotten, and none works on a   *)
(* node that left the spec (plan/action_classifier.go, classifyOrphaned).  *)
(***************************************************************************)
THEOREM NoWorkIsForgotten ==
    ASSUME PlainRuns, NoSections
    PROVE  Spec => []LiveWorkIsTracked
<1>1. RunInv /\ DutyInv => LiveWorkIsTracked
  <2> SUFFICES ASSUME RunInv, DutyInv, phase = "clean", NEW t \in DOMAIN tracker,
                      tracker[t].act = "create", InFlight(t)
               PROVE  /\ snapshot[tracker[t].key] # None
                      /\ FoldHas(journal, tracker[t].key)
                      /\ Fold(journal)[tracker[t].key].task = t
    BY DEF LiveWorkIsTracked, Settled
  <2> DEFINE n == tracker[t].key
  <2>1. n \in Nodes /\ Kind[n] \in PlanRelevant
    BY DEF DutyInv, TasksTold, TaskTold
  <2>2. n \in Planned
    BY <2>1, RelevantIsPlanned
  <2>3. Open(tracker, t)
    BY DEF InFlight, Open
  <2>4. Holds(journal, tracker, n, t)
    BY <2>2, <2>3 DEF DutyInv, LiveTasks
  <2>5. Now(journal, n) # None /\ Now(journal, n) = snapshot[n]
    BY <2>2, <2>4 DEF Holds, RunInv, RoundInv, JournalRound
  <2>6. /\ tracker \in Seq(Task) /\ journal \in Seq(Event) /\ Answered(journal)
        /\ UniqueEIDs(journal) /\ Accounted(journal) /\ Told(journal)
        /\ GoodLines(tracker, journal) /\ LabelsTell(tracker) /\ LabelsApart(tracker)
    BY DEF RunInv, TypeInv, TypeOK, IDInv, AccountInv, WorkInv, LinkInv, RoundInv, JournalRound, DutyInv
  <2> HIDE DEF n
  <2>7. FoldHas(journal, n) /\ Fold(journal)[n].task = t
    BY <2>2, <2>4, <2>5, <2>6, FoldHolder
  <2> QED
    BY <2>5, <2>7 DEF n
<1> QED
  BY <1>1, DutyInvariant, PTL

-----------------------------------------------------------------------------
(***************************************************************************)
(* Finished work.  A task that is finished was finished with every label   *)
(* it has, or its node left the spec, or the node's latest event is        *)
(* another's and no run at the present commit can make it the task's: the  *)
(* adapter relabels open tasks only, and implementers rest while it runs.  *)
(***************************************************************************)
OnlyOpenMoved ==
    phase \in {"planned", "dead"} =>
        \A op \in cs.ops : op.act = "retarget" => Open(tracker, op.task)

Spent(t, n) ==
    \/ tracker[t].labels \subseteq tracker[t].built
    \/ phase # "clean" /\ spec[n] = None
    \/ ~Holds(journal, tracker, n, t) /\ DeriveEID(head, "create", n) \notin tracker[t].labels

ClosedAreSpent ==
    \A t \in DOMAIN tracker : \A n \in Planned :
        tracker[t].key = n /\ ~Open(tracker, t) => Spent(t, n)

FinishedInv == OnlyOpenMoved /\ ClosedAreSpent

\* How a task comes to be finished: it was, or an implementer finished it with all
\* its labels, or the adapter closed it.
LEMMA ClosedMoves ==
    ASSUME RunInv, WorkPauses, OnlyOpenMoved, [Next]_vars,
           NEW t \in DOMAIN tracker', ~Open(tracker', t)
    PROVE  /\ t \in DOMAIN tracker /\ tracker'[t].key = tracker[t].key
           /\ \/ /\ ~Open(tracker, t) /\ tracker'[t].labels = tracker[t].labels
                 /\ tracker'[t].built = tracker[t].built
              \/ phase \notin {"planned", "dead"} /\ tracker'[t].labels \subseteq tracker'[t].built
              \/ phase \in {"planned", "dead"} /\ \E op \in cs.ops : op.act = "close" /\ op.task = t
<1> USE DEF vars, specVars, journalVars, runVars, memVars
<1>t. tracker \in Seq(Task)
  BY DEF RunInv, TypeInv, TypeOK
<1>k. \A u \in DOMAIN tracker : tracker[u] \in Task
  BY <1>t
<1>1. CASE UNCHANGED tracker
  BY <1>1 DEF Open
<1>2. CASE WorkStep
  <2>1. PICK u \in DOMAIN tracker :
          \/ tracker' = [tracker EXCEPT ![u] = [@ EXCEPT !.status = "in_progress"]]
          \/ tracker' = [tracker EXCEPT ![u] = [@ EXCEPT !.status = "closed", !.built = tracker[u].labels]]
    BY <1>2 DEF WorkStep
  <2>2. phase \notin {"planned", "dead"}
    BY <1>2 DEF WorkStep, WorkPauses
  <2> DEFINE x == tracker'[u]
  <2>3. /\ DOMAIN tracker' = DOMAIN tracker
        /\ \A v \in DOMAIN tracker : v # u => tracker'[v] = tracker[v]
        /\ \/ x = [tracker[u] EXCEPT !.status = "in_progress"]
           \/ x = [tracker[u] EXCEPT !.status = "closed", !.built = tracker[u].labels]
    BY <1>t, <2>1
  <2>4. x.key = tracker[u].key /\ (x.status = "in_progress" \/ x.labels = x.built)
    BY <1>k, <2>3 DEF Task
  <2>5. CASE t = u
    BY <2>2, <2>3, <2>4, <2>5 DEF Open
  <2>6. CASE t # u
    BY <2>3, <2>6 DEF Open
  <2> QED
    BY <2>5, <2>6
<1>3. CASE /\ proc = "adapter" /\ UNCHANGED <<journalVars, cs>> /\ phase' \in {phase, "dead"}
           /\ \E op \in cs.ops : CreateStep(op) \/ RetargetStep(op) \/ CloseStep(op)
  <2>1. phase \in {"planned", "dead"} /\ Underway
    BY <1>3 DEF RunInv, TypeInv, CommandsHaveInput, Underway
  <2>2. PICK op \in cs.ops : CreateStep(op) \/ RetargetStep(op) \/ CloseStep(op)
    BY <1>3
  <2>3. op.act \in {"retarget", "close"} => op.task \in DOMAIN tracker
    BY <2>1, StandingOp
  <2>4. CASE CreateStep(op)
    <3> DEFINE x == NewTask(op)
    <3>1. tracker' = Append(tracker, x)
      BY <2>4 DEF CreateStep
    <3>2. x.status = "open"
      BY DEF NewTask
    <3> HIDE DEF x
    <3>3. \/ t \in DOMAIN tracker /\ tracker'[t] = tracker[t]
          \/ tracker'[t] = x
      BY <1>t, <3>1
    <3>4. t \in DOMAIN tracker /\ tracker'[t] = tracker[t]
      BY <3>2, <3>3 DEF Open
    <3> QED
      BY <3>4 DEF Open
  <2>5. CASE RetargetStep(op)
    <3>1. PICK D : tracker' = [tracker EXCEPT ![op.task] = Retargeted(@, op, D)]
      BY <2>5 DEF RetargetStep
    <3> DEFINE x == Retargeted(tracker[op.task], op, D)
    <3>2. op.act = "retarget" /\ op.task \in DOMAIN tracker
      BY <2>3, <2>5 DEF RetargetStep
    <3>3. x.status = tracker[op.task].status
      BY <1>k, <3>2 DEF Retargeted, Task
    <3>4. tracker' = [tracker EXCEPT ![op.task] = x]
      BY <3>1
    <3>5. Open(tracker, op.task)
      BY <2>1, <3>2 DEF OnlyOpenMoved
    <3> HIDE DEF x
    <3>6. t \in DOMAIN tracker /\ (t # op.task => tracker'[t] = tracker[t])
          /\ tracker'[op.task] = x
      BY <1>t, <3>2, <3>4
    <3>7. t # op.task
      BY <3>3, <3>5, <3>6 DEF Open
    <3> QED
      BY <3>6, <3>7 DEF Open
  <2>6. CASE CloseStep(op)
    <3> DEFINE x == [tracker[op.task] EXCEPT !.status = "closed"]
    <3>1. op.act = "close" /\ op.task \in DOMAIN tracker /\ tracker' = [tracker EXCEPT ![op.task] = x]
      BY <2>3, <2>6 DEF CloseStep
    <3>2. x.key = tracker[op.task].key
      BY <1>k, <3>1 DEF Task
    <3> HIDE DEF x
    <3>3. t \in DOMAIN tracker /\ (t # op.task => tracker'[t] = tracker[t])
          /\ tracker'[op.task] = x
      BY <1>t, <3>1
    <3>4. CASE t = op.task
      BY <2>1, <3>1, <3>2, <3>3, <3>4
    <3>5. CASE t # op.task
      BY <3>3, <3>5 DEF Open
    <3> QED
      BY <3>4, <3>5
  <2> QED
    BY <2>2, <2>4, <2>5, <2>6
<1> QED
  BY <1>1, <1>2, <1>3, TrackerSteps DEF TrackerStep

\* Steps that leave the spec, the journal and the changeset alone.
LEMMA StillKeepsFinished ==
    ASSUME RunInv, NoSections, WorkPauses, DutyInv, FinishedInv, [Next]_vars, StillStep
    PROVE  FinishedInv'
<1>s. UNCHANGED <<spec, head, journal, cs>>
  BY DEF StillStep
<1>p. (phase' = "clean" => phase = "clean")
      /\ (phase' \in {"planned", "dead"} => phase \in {"planned", "dead"})
  BY DEF StillStep
<1>o. OnlyOpenMoved
  BY DEF FinishedInv
<1>g. Grown(tracker, tracker')
  BY TrackerGrows DEF RunInv
<1>1. OnlyOpenMoved'
  <2> SUFFICES ASSUME phase' \in {"planned", "dead"}, NEW op \in cs.ops, op.act = "retarget",
                      ~Open(tracker', op.task)
               PROVE  FALSE
    BY <1>s DEF OnlyOpenMoved
  <2>1. phase \in {"planned", "dead"} /\ Underway
    BY <1>p DEF Underway
  <2>2. op.task \in DOMAIN tracker /\ tracker[op.task].key = op.key /\ op.key \in Planned
    BY <2>1, StandingOp, RelevantIsPlanned DEF LinkedOp
  <2>3. op.task \in DOMAIN tracker'
    BY <1>g, <2>2 DEF Grown
  <2>4. Open(tracker, op.task)
    BY <1>o, <2>1 DEF OnlyOpenMoved
  <2>5. PICK p \in cs.ops : p.act = "close" /\ p.task = op.task
    BY <1>o, <2>1, <2>3, <2>4, ClosedMoves
  <2>6. OpFor(tracker, op, op.key) /\ OpFor(tracker, p, op.key)
    BY <2>2, <2>5 DEF OpFor
  <2>7. p = op
    BY <2>1, <2>2, <2>6 DEF RunInv, RoundInv, ChangesetRound, SoundOps
  <2> QED
    BY <2>5, <2>7
<1>2. ClosedAreSpent'
  <2> SUFFICES ASSUME NEW t \in DOMAIN tracker', NEW n \in Planned, tracker'[t].key = n,
                      ~Open(tracker', t)
               PROVE  Spent(t, n)'
    BY DEF ClosedAreSpent
  <2>0. t \in DOMAIN tracker /\ tracker[t].key = n
    BY <1>o, ClosedMoves
  <2>1. CASE /\ ~Open(tracker, t) /\ tracker'[t].labels = tracker[t].labels
             /\ tracker'[t].built = tracker[t].built
    <3>1. Spent(t, n)
      BY <2>0, <2>1 DEF FinishedInv, ClosedAreSpent
    <3> QED
      BY <1>p, <1>s, <2>1, <3>1 DEF Spent, Holds
  <2>2. CASE tracker'[t].labels \subseteq tracker'[t].built
    BY <2>2 DEF Spent
  <2>3. ASSUME phase \in {"planned", "dead"}, NEW op \in cs.ops, op.act = "close", op.task = t
        PROVE  Spent(t, n)'
    <3>1. OpFor(tracker, op, n) /\ Underway
      BY <2>0, <2>3 DEF OpFor, Underway
    <3>2. spec[n] = None
      BY <2>3, <3>1, StandingOp DEF SoundOp
    <3>3. phase' # "clean"
      BY <1>p, <2>3
    <3> QED
      BY <1>s, <3>2, <3>3 DEF Spent
  <2> QED
    BY <1>o, <2>1, <2>2, <2>3, ClosedMoves
<1> QED
  BY <1>1, <1>2 DEF FinishedInv

\* The other steps leave the tasks alone.
LEMMA RestKeepsFinished ==
    ASSUME PlainRuns, RunInv, NoSections, WorkPauses, DutyInv, FinishedInv, [Next]_vars, UNCHANGED tracker,
           \/ EditSpec
           \/ RegisterStep /\ UNCHANGED <<spec, head>>
           \/ Planning
           \/ proc = "reconcile" /\ \E op \in cs.ops : ReconcileOp(op)
           \/ IngestCommit
           \/ IngestSave
    PROVE  FinishedInv'
<1> USE DEF specVars, journalVars, runVars, memVars
<1>s. ASSUME \A t \in DOMAIN tracker : \A n \in Planned : Spent(t, n) => Spent(t, n)'
      PROVE  ClosedAreSpent'
  BY <1>s DEF FinishedInv, ClosedAreSpent, Open
<1>1. CASE EditSpec
  <2>1. phase = "clean" /\ phase' = phase /\ UNCHANGED journal
    BY <1>1 DEF EditSpec, PlainRuns
  <2>2. DutyInv'
    BY <1>1, EditKeepsDuty
  <2>3. \A t \in DOMAIN tracker : \A n \in Planned : DeriveEID(head', "create", n) \notin tracker[t].labels
    <3> SUFFICES ASSUME NEW t \in DOMAIN tracker, NEW n \in Planned,
                        DeriveEID(head', "create", n) \in tracker[t].labels
                 PROVE  FALSE
      OBVIOUS
    <3>1. DeriveEID(head', "create", n).head <= head
      BY DEF DutyInv, TasksTold, TaskTold, DeriveEID
    <3>2. head \in Nat /\ head' = head + 1
      BY <1>1 DEF EditSpec, RunInv, TypeInv, TypeOK
    <3> QED
      BY <3>1, <3>2 DEF DeriveEID
  <2>4. ClosedAreSpent'
    BY <1>s, <2>1, <2>3 DEF Spent, Holds
  <2> QED
    BY <2>1, <2>4 DEF FinishedInv, OnlyOpenMoved
<1>2. CASE RegisterStep /\ UNCHANGED <<spec, head>>
  <2>1. phase \in {"clean", "partial"} /\ phase' = phase
    BY <1>2 DEF RegisterStep
  <2>2. \A n : \A tr, u : Holds(journal', tr, n, u) <=> Holds(journal, tr, n, u)
    BY <1>2, RegisteredWords
  <2>3. ClosedAreSpent'
    BY <1>2, <1>s, <2>1, <2>2 DEF Spent
  <2> QED
    BY <2>1, <2>3 DEF FinishedInv, OnlyOpenMoved
<1>3. CASE Planning
  <2>1. PICK stem \in Stems, marks \in SUBSET Absorbable(spec, snapshot) : Plan(stem, marks)
    BY <1>3 DEF Planning
  <2>2. phase' = "planned" /\ UNCHANGED <<spec, head, journal>>
    BY <2>1 DEF Plan
  <2>3. OnlyOpenMoved'
    <3> DEFINE changes == Diff(spec, snapshot) \ marks
    <3>1. cs'.ops = BuildOps(journal, spec, edges, ExportTasks, head, stem, changes)
      BY <2>1 DEF Plan, Build
    <3>2. journal \in Seq(Event)
      BY DEF RunInv, TypeInv, TypeOK
    <3> HIDE DEF changes
    <3>3. \A op \in cs'.ops : op.act = "retarget" => Open(tracker, op.task)
      <4> SUFFICES ASSUME NEW op \in cs'.ops, op.act = "retarget" PROVE Open(tracker, op.task)
        OBVIOUS
      <4>1. op.task \in DOMAIN tracker /\ tracker[op.task].status = "open"
        BY <3>1, <3>2, PlanTouchesOpenTasks
      <4> QED
        BY <4>1 DEF Open
    <3> QED
      BY <3>3 DEF OnlyOpenMoved, Open
  <2>4. ClosedAreSpent'
    BY <1>s, <2>2 DEF Spent, Holds
  <2> QED
    BY <2>3, <2>4 DEF FinishedInv
<1>4. CASE proc = "reconcile" /\ \E op \in cs.ops : ReconcileOp(op)
  <2>1. UNCHANGED <<spec, head, journal, cs, phase>>
    BY <1>4 DEF ReconcileOp
  <2>2. ClosedAreSpent'
    BY <1>s, <2>1 DEF Spent, Holds
  <2> QED
    BY <2>1, <2>2 DEF FinishedInv, OnlyOpenMoved, Open
<1>5. CASE IngestCommit
  <2>1. phase = "applied" /\ UNCHANGED <<spec, head, cs, phase>>
    BY <1>5 DEF IngestCommit, Committable, RunInv, TypeInv, CommandsHaveInput
  <2>2. ASSUME NEW t \in DOMAIN tracker, NEW n \in Planned, Spent(t, n) PROVE Spent(t, n)'
    <3>1. CASE ~Holds(journal, tracker, n, t) /\ DeriveEID(head, "create", n) \notin tracker[t].labels
               /\ spec[n] # None
      <4>1. ~Holds(journal', tracker, n, t)
        <5>1. CASE ChangeLines(batch, n) = {}
          BY <1>5, <3>1, <5>1, CommittedNode
        <5>2. CASE ChangeLines(batch, n) # {}
          <6>1. PICK op \in cs.ops :
                   /\ OpFor(tracker, op, n) /\ ToDo(journal, tracker, spec, op, n)
                   /\ Word(journal', n) = Label(head, op)
            BY <1>5, <5>2, CommittedNode
          <6>2. SoundOp(tracker, spec, op)
            BY <2>1, StandingOp DEF Underway
          <6>3. op.act \in {"create", "retarget"} /\ op.key = n
            BY <3>1, <6>1, <6>2 DEF SoundOp, OpFor
          <6>4. op.act = "retarget" => DeriveEID(head, "retarget", n) \notin tracker[t].labels
            BY <3>1, <6>1 DEF DutyInv, MovedTasks, ToDo
          <6>5. Label(head, op) \notin tracker[t].labels
            BY <3>1, <6>3, <6>4 DEF Label
          <6> QED
            BY <6>1, <6>5 DEF Holds
        <5> QED
          BY <5>1, <5>2
      <4> QED
        BY <2>1, <3>1, <4>1 DEF Spent
    <3>2. CASE tracker[t].labels \subseteq tracker[t].built \/ spec[n] = None
      BY <2>1, <3>2 DEF Spent
    <3> QED
      BY <2>2, <3>1, <3>2 DEF Spent
  <2>3. ClosedAreSpent'
    BY <1>s, <2>2
  <2> QED
    BY <2>1, <2>3 DEF FinishedInv, OnlyOpenMoved
<1>6. CASE IngestSave
  <2>1. /\ UNCHANGED <<spec, head, journal>> /\ proc = "save"
        /\ phase' = (IF AllOk THEN "clean" ELSE "partial")
    BY <1>6 DEF IngestSave
  <2>2. AllOk => \A n \in Planned : Now(journal, n) = spec[n]
    BY <2>1 DEF RunInv, RoundInv, SaveRound
  <2>3. ASSUME NEW t \in DOMAIN tracker, NEW n \in Planned, Spent(t, n) PROVE Spent(t, n)'
    <3>1. CASE AllOk /\ spec[n] = None
      <4>1. ~Holds(journal, tracker, n, t)
        BY <2>2, <3>1 DEF Holds
      <4>2. DeriveEID(head, "create", n) \notin tracker[t].labels
        BY <3>1 DEF DutyInv, TasksTold, TaskTold
      <4> QED
        BY <2>1, <4>1, <4>2 DEF Spent, Holds
    <3>2. CASE ~(AllOk /\ spec[n] = None)
      BY <2>1, <2>3, <3>2 DEF Spent, Holds
    <3> QED
      BY <3>1, <3>2
  <2>4. ClosedAreSpent'
    BY <1>s, <2>3
  <2> QED
    BY <2>1, <2>4 DEF FinishedInv, OnlyOpenMoved
<1> QED
  BY <1>1, <1>2, <1>3, <1>4, <1>5, <1>6

(***************************************************************************)
(* In plain runs of a spec without test sections, with implementers who    *)
(* rest while the adapter has ops to apply, no work is lost: whenever the  *)
(* baseline is the spec and nothing is outstanding, the task of a node     *)
(* that owes one is in flight or was finished with the label of the event  *)
(* it is paired with (plan/action_classifier.go, classifyMatch).           *)
(***************************************************************************)
THEOREM NoWorkIsLost ==
    ASSUME PlainRuns, NoSections, WorkPauses
    PROVE  Spec => []NoLostWork
<1>1. Init => FinishedInv
  BY DEF Init, FinishedInv, OnlyOpenMoved, ClosedAreSpent
<1>2. RunInv /\ DutyInv /\ FinishedInv /\ [Next]_vars => FinishedInv'
  <2> SUFFICES ASSUME RunInv, DutyInv, FinishedInv, [Next]_vars PROVE FinishedInv'
    OBVIOUS
  <2>1. TypeInv /\ IDInv /\ ChangesetRound /\ BatchRound
    BY DEF RunInv, RoundInv
  <2>2. \/ StillStep
        \/ EditSpec
        \/ RegisterStep /\ UNCHANGED <<spec, edges, head, snapshot, tracker, done, receipts>>
        \/ Planning
        \/ proc = "reconcile" /\ \E op \in cs.ops : ReconcileOp(op)
        \/ IngestCommit
        \/ IngestSave
    BY <2>1, RoundSteps
  <2>3. CASE StillStep
    BY <2>3, StillKeepsFinished
  <2>4. CASE ~StillStep
    <3>1. UNCHANGED tracker
      BY <2>2, <2>4 DEF EditSpec, Planning, Plan, ReconcileOp, IngestCommit, IngestSave
    <3> QED
      BY <2>2, <2>4, <3>1, RestKeepsFinished
  <2> QED
    BY <2>3, <2>4
<1>3. RunInv /\ DutyInv /\ FinishedInv => NoLostWork
  <2> SUFFICES ASSUME RunInv, DutyInv, FinishedInv, phase = "clean", spec = snapshot,
                      NEW n \in Nodes, spec[n] # None, GateAdmits(edges, n)
               PROVE  \/ InFlight(Fold(journal)[n].task)
                      \/ Fold(journal)[n].eid \in tracker[Fold(journal)[n].task].built
    BY DEF NoLostWork, Settled
  <2>1. n \in Planned
    BY RelevantIsPlanned DEF GateAdmits
  <2>2. Now(journal, n) = snapshot[n]
    BY <2>1 DEF RunInv, RoundInv, JournalRound
  <2>3. /\ tracker \in Seq(Task) /\ journal \in Seq(Event) /\ Answered(journal)
        /\ UniqueEIDs(journal) /\ Accounted(journal) /\ Told(journal)
        /\ GoodLines(tracker, journal) /\ LabelsTell(tracker) /\ LabelsApart(tracker)
    BY DEF RunInv, TypeInv, TypeOK, IDInv, AccountInv, WorkInv, LinkInv, RoundInv, JournalRound, DutyInv
  <2> DEFINE t == Fold(journal)[n].task
  <2>4. /\ FoldHas(journal, n) /\ t \in DOMAIN tracker /\ tracker[t].key = n
        /\ Holds(journal, tracker, n, t)
    BY <2>1, <2>2, <2>3, FoldHolder
  <2>5. FoldHas(journal, n) => Fold(journal)[n].eid = LastChange(journal, n).eid
    BY <2>1, <2>3, FoldIsNow
  <2> HIDE DEF t
  <2>6. Fold(journal)[n].eid \in tracker[t].labels
    BY <2>4, <2>5 DEF Holds, Word
  <2>7. CASE Open(tracker, t)
    <3>1. tracker[t] \in Task
      BY <2>3, <2>4
    <3>2. \A task \in Task : task.status \in {"open", "in_progress", "closed"}
      BY DEF Task
    <3> QED
      BY <2>7, <3>1, <3>2 DEF Open, InFlight, t
  <2>8. CASE ~Open(tracker, t)
    <3>1. Spent(t, n)
      BY <2>1, <2>4, <2>8 DEF FinishedInv, ClosedAreSpent
    <3>2. tracker[t].labels \subseteq tracker[t].built
      BY <2>4, <3>1 DEF Spent
    <3> QED
      BY <2>6, <3>2 DEF t
  <2> QED
    BY <2>7, <2>8
<1> QED
  BY <1>1, <1>2, <1>3, DutyInvariant, PTL DEF Spec

-----------------------------------------------------------------------------
(***************************************************************************)
(* Ingest accepts.  Of every proposal the journal, and the journal with    *)
(* the batch, has at most one epic receipt, and a batch that has one has   *)
(* taken the epic op; a receipt of a close names an event of the batch.    *)
(***************************************************************************)
EpicLines(s, stem) == {i \in DOMAIN s : s[i].event \in TaskBearing /\ s[i].for.key = stem}

OneEpic(s) == \A stem \in Stems : \A i, k \in EpicLines(s, stem) : i = k

ClosesAnswered(s) ==
    \A i \in DOMAIN s : s[i].event = "task_closed" => s[i].for \in KnownEIDs(s)

AcceptInv ==
    /\ OneEpic(journal)
    /\ proc = "reconcile" =>
          /\ OneEpic(journal \o batch) /\ ClosesAnswered(batch)
          /\ \A stem \in Stems : EpicLines(batch, stem) # {} => EpicID(stem) \in done

\* The lines with a receipt of the proposal, of a journal and of what is added to it.
LEMMA EpicLinesConcat ==
    ASSUME NEW s \in Seq(Event), NEW t \in Seq(Event), NEW stem
    PROVE  /\ EpicLines(t, stem) = {} /\ (\A i, k \in EpicLines(s, stem) : i = k) =>
                 \A i, k \in EpicLines(s \o t, stem) : i = k
           /\ EpicLines(s, stem) = {} /\ (\A i, k \in EpicLines(t, stem) : i = k) =>
                 \A i, k \in EpicLines(s \o t, stem) : i = k
           /\ EpicLines(s \o t, stem) = {} <=> EpicLines(s, stem) = {} /\ EpicLines(t, stem) = {}
<1> DEFINE j == s \o t
<1>1. /\ \A i \in DOMAIN s : i \in DOMAIN j /\ j[i] = s[i]
      /\ \A i \in DOMAIN t : Len(s) + i \in DOMAIN j /\ j[Len(s) + i] = t[i]
      /\ \A i \in DOMAIN j :
            \/ i \in DOMAIN s /\ j[i] = s[i]
            \/ /\ i \notin DOMAIN s /\ i - Len(s) \in DOMAIN t
               /\ j[i] = t[i - Len(s)]
  BY ConcatLines
<1>2. Len(s) \in Nat /\ DOMAIN j \subseteq Nat /\ DOMAIN t \subseteq Nat
  OBVIOUS
<1> HIDE DEF j
<1>3. \A i \in EpicLines(j, stem) :
         \/ i \in EpicLines(s, stem)
         \/ i - Len(s) \in EpicLines(t, stem)
  BY <1>1 DEF EpicLines
<1>4. /\ \A i \in EpicLines(s, stem) : i \in EpicLines(j, stem)
      /\ \A i \in EpicLines(t, stem) : Len(s) + i \in EpicLines(j, stem)
  BY <1>1 DEF EpicLines
<1>5. \A i \in EpicLines(j, stem) : i \in Nat
  BY <1>2 DEF EpicLines
<1>6. EpicLines(t, stem) = {} /\ (\A i, k \in EpicLines(s, stem) : i = k) =>
         \A i, k \in EpicLines(j, stem) : i = k
  BY <1>3
<1>7. EpicLines(s, stem) = {} /\ (\A i, k \in EpicLines(t, stem) : i = k) =>
         \A i, k \in EpicLines(j, stem) : i = k
  <2> SUFFICES ASSUME EpicLines(s, stem) = {}, \A i, k \in EpicLines(t, stem) : i = k,
                      NEW i \in EpicLines(j, stem), NEW k \in EpicLines(j, stem)
               PROVE  i = k
    OBVIOUS
  <2>1. i - Len(s) = k - Len(s)
    BY <1>3
  <2> QED
    BY <1>2, <1>5, <2>1
<1>8. EpicLines(j, stem) = {} <=> EpicLines(s, stem) = {} /\ EpicLines(t, stem) = {}
  BY <1>3, <1>4
<1> QED
  BY <1>6, <1>7, <1>8 DEF j

\* What the event builder writes about proposals and closes.
LEMMA BuiltReceipts ==
    ASSUME NEW tr \in Seq(Task), NEW j \in Seq(Event), NEW b \in Seq(Event),
           Answered(j), GoodLines(tr, j),
           NEW cur, NEW c, c.head \in Nat, NEW op \in c.ops, CompleteOp(op),
           LinkedOp(j, tr, c, op), SoundOp(tr, cur, op),
           ~OpRefused(j, b, cur, c.head, op), NEW t, NEW stem \in Stems
    PROVE  LET lines == BuildOp(j, b, cur, c.head, op, t)
           IN  /\ \A i, k \in EpicLines(lines, stem) : i = k
               /\ EpicLines(lines, stem) # {} => OpID(op) = EpicID(stem) /\ ~FoldHas(j, stem)
               /\ ClosesAnswered(lines)
<1> DEFINE lines == BuildOp(j, b, cur, c.head, op, t)
           Good(s) == /\ \A i, k \in EpicLines(s, stem) : i = k
                      /\ EpicLines(s, stem) # {} => OpID(op) = EpicID(stem) /\ ~FoldHas(j, stem)
                      /\ ClosesAnswered(s)
<1>1. \A kind, eid, n, before, after : LET ev == ChangeEvent(kind, eid, n, before, after) IN
         ev.event = kind /\ ev.eid = eid
  BY DEF ChangeEvent
<1>2. \A kind, for, task : LET rc == TaskReceipt(kind, for, task) IN
         rc.event = kind /\ rc.for = for
  BY DEF TaskReceipt
<1>3. op \in Op /\ op.act \in OpActs
  BY DEF CompleteOp, Op
<1>d. \A act, key : DeriveEID(c.head, act, key).key = key
  BY DEF DeriveEID
<1>k. /\ ChangeKinds \cap (TaskBearing \cup {"task_closed"}) = {}
      /\ {"task_created", "task_retargeted"} = TaskBearing /\ "task_closed" \notin TaskBearing
      /\ {"added", "modified", "removed"} = ChangeKinds
  BY DEF TaskBearing, ChangeKinds
<1>p. ASSUME NEW s, \A i \in DOMAIN s : s[i].event \in TaskBearing => s[i].for.key \in Nodes,
             ClosesAnswered(s)
      PROVE  Good(s)
  BY <1>p, JournalAssumption DEF EpicLines
<1>n. Good(<<>>)
  BY <1>p DEF ClosesAnswered
<1> HIDE DEF Good
<1>q. ASSUME NEW ev, NEW rc, ev.event \in ChangeKinds, rc.event \in TaskBearing,
             rc.for.key \in Nodes
      PROVE  Good(<<ev, rc>>)
  <2> DEFINE s == <<ev, rc>>
  <2>1. \A i \in DOMAIN s : s[i] = ev \/ s[i] = rc
    OBVIOUS
  <2> HIDE DEF s
  <2>2. \A i \in DOMAIN s : s[i].event \in TaskBearing => s[i].for.key \in Nodes
    BY <1>q, <1>k, <2>1
  <2>3. ClosesAnswered(s)
    BY <1>q, <1>k, <2>1 DEF ClosesAnswered
  <2> QED
    BY <1>p, <2>2, <2>3 DEF s
<1>4. CASE op.act = "epic"
  <2> DEFINE rc == TaskReceipt("task_created", Registration(j, op.key), t)
             one == <<rc>>
  <2>1. lines = IF FoldHas(j, op.key) THEN <<>> ELSE one
    BY <1>4 DEF BuildOp, BuildEpicCreate
  <2>2. ~FoldHas(j, op.key) => Registration(j, op.key) # None
    BY <1>4 DEF OpRefused
  <2>3. ~FoldHas(j, op.key) => Registration(j, op.key).key = op.key
    BY <1>4, <2>2, RegistrationTells DEF CompleteOp
  <2>4. rc.event = "task_created" /\ rc.for = Registration(j, op.key)
    BY <1>2
  <2>5. DOMAIN one = {1} /\ one[1] = rc
    OBVIOUS
  <2> HIDE DEF rc, one
  <2>6. ~FoldHas(j, op.key) => Good(one)
    <3>1. ClosesAnswered(one)
      BY <2>4, <2>5 DEF ClosesAnswered
    <3>2. EpicLines(one, stem) \subseteq {1}
      BY <2>5 DEF EpicLines
    <3>3. ~FoldHas(j, op.key) /\ EpicLines(one, stem) # {} => op.key = stem
      BY <2>3, <2>4, <2>5 DEF EpicLines
    <3>4. OpID(op) = <<"epic", op.key>>
      BY <1>4 DEF OpID
    <3> QED
      BY <3>1, <3>2, <3>3, <3>4 DEF Good, EpicID
  <2>7. Good(lines)
    BY <1>n, <2>1, <2>6
  <2> QED
    BY <2>7 DEF Good
<1>5. CASE op.act = "create"
  <2> DEFINE eid == DeriveEID(c.head, "create", op.key)
             prior == PriorHash(j, op.key)
             ev == ChangeEvent(IF prior = None THEN "added" ELSE "modified",
                               eid, op.key, prior, cur[op.key])
             rc == TaskReceipt("task_created", eid, t)
  <2>1. lines = IF HasEID(j, b, eid) THEN <<>> ELSE <<ev, rc>>
    BY <1>5 DEF BuildOp, BuildNodeCreate
  <2>2. ev.event \in ChangeKinds /\ rc.event \in TaskBearing /\ rc.for.key \in Nodes
    BY <1>1, <1>2, <1>5, <1>d, <1>k DEF CompleteOp
  <2> HIDE DEF ev, rc
  <2>3. Good(<<ev, rc>>)
    BY <1>q, <2>2
  <2>4. Good(lines)
    BY <1>n, <2>1, <2>3
  <2> QED
    BY <2>4 DEF Good
<1>6. CASE op.act = "cleanup"
  <2> DEFINE entry == Fold(j)[op.key]
             eid == DeriveEID(c.head, "cleanup", op.key)
             ev == ChangeEvent("removed", eid, op.key, entry.after, None)
             rc == TaskReceipt("task_created", eid, t)
  <2>0. op.key \in Nodes /\ FoldHas(j, op.key) /\ LastWord(j, op.key)
    BY <1>6 DEF CompleteOp, OpRefused, LinkedOp
  <2>1. entry.task # NoTask
    BY <2>0, NoBareTombstone
  <2>2. lines = <<>> \/ lines = <<ev, rc>>
    BY <1>6, <2>1 DEF BuildOp, BuildCleanupCreate
  <2>3. ev.event \in ChangeKinds /\ rc.event \in TaskBearing /\ rc.for.key \in Nodes
    BY <1>1, <1>2, <1>d, <1>k, <2>0
  <2> HIDE DEF ev, rc
  <2>4. Good(<<ev, rc>>)
    BY <1>q, <2>3
  <2>5. Good(lines)
    BY <1>n, <2>2, <2>4
  <2> QED
    BY <2>5 DEF Good
<1>7. CASE op.act = "retarget"
  <2> DEFINE eid == DeriveEID(c.head, "retarget", op.key)
             ev == ChangeEvent("modified", eid, op.key, PriorHash(j, op.key), op.hash)
             rc == TaskReceipt("task_retargeted", eid, op.task)
  <2>1. lines = IF HasEID(j, b, eid) THEN <<>> ELSE <<ev, rc>>
    BY <1>7 DEF BuildOp, BuildRetarget
  <2>2. ev.event \in ChangeKinds /\ rc.event \in TaskBearing /\ rc.for.key \in Nodes
    BY <1>1, <1>2, <1>7, <1>d, <1>k DEF CompleteOp
  <2> HIDE DEF ev, rc
  <2>3. Good(<<ev, rc>>)
    BY <1>q, <2>2
  <2>4. Good(lines)
    BY <1>n, <2>1, <2>3
  <2> QED
    BY <2>4 DEF Good
<1>8. CASE op.act = "close"
  <2> DEFINE n == ClosedNode(j, op)
             eid == DeriveEID(c.head, "close", op.key)
             ev == IF op.why = "removed"
                   THEN ChangeEvent("removed", eid, n, Fold(j)[n].after, None)
                   ELSE ChangeEvent("modified", eid, n, Fold(j)[n].after, cur[n])
             rc == TaskReceipt("task_closed", eid, t)
             two == <<ev, rc>>
  <2>1. lines = IF HasEID(j, b, eid) THEN <<>> ELSE two
    BY <1>8 DEF BuildOp, BuildClose
  <2>2. eid # None
    <3>1. op.key \in Nat \cup Stems /\ "close" \in EIDSources
      BY <1>3 DEF Op, EIDSources
    <3> QED
      BY <3>1, DeriveEIDTyped, EIDAssumption
  <2>3. ev.event \in ChangeKinds /\ ev.eid = eid /\ rc.event = "task_closed" /\ rc.for = eid
    BY <1>1, <1>2, <1>k
  <2>4. DOMAIN two = {1, 2} /\ two[1] = ev /\ two[2] = rc
    OBVIOUS
  <2> HIDE DEF ev, rc, eid, two
  <2>5. eid \in KnownEIDs(two)
    BY <2>2, <2>3, <2>4 DEF KnownEIDs
  <2>6. ClosesAnswered(two)
    BY <1>k, <2>3, <2>4, <2>5 DEF ClosesAnswered
  <2>7. \A i \in DOMAIN two : two[i].event \notin TaskBearing
    BY <1>k, <2>3, <2>4
  <2>8. Good(two)
    BY <1>p, <2>6, <2>7
  <2>9. Good(lines)
    BY <1>n, <2>1, <2>8
  <2> QED
    BY <2>9 DEF Good
<1> QED
  BY <1>3, <1>4, <1>5, <1>6, <1>7, <1>8 DEF OpActs

\* A proposal with a receipt in the journal has a fold entry.
LEMMA ReceiptedEpicHasEntry ==
    ASSUME NEW tr, NEW j \in Seq(Event), Answered(j), GoodLines(tr, j), NEW stem,
           EpicLines(j, stem) # {}
    PROVE  FoldHas(j, stem)
<1>1. PICK i \in DOMAIN j : j[i].event \in TaskBearing /\ j[i].for.key = stem
  BY DEF EpicLines
<1>2. EntryKey(j, i) = stem
  BY <1>1, ReceiptWrites
<1> QED
  BY <1>2 DEF FoldHas, EntryLines

\* Taking an op adds an epic receipt only for a proposal that has none.
LEMMA ReconcileKeepsAccept ==
    ASSUME RunInv, NoSections, AcceptInv, proc = "reconcile", NEW op \in cs.ops, ReconcileOp(op)
    PROVE  AcceptInv'
<1>1. UNCHANGED <<journal, proc>> /\ done' = done \cup {OpID(op)} /\ OpID(op) \notin done
  BY DEF ReconcileOp, Reconciling, EmittedNext, journalVars
<1>2. Underway /\ CompleteOp(op) /\ LinkedOp(journal, tracker, cs, op) /\ SoundOp(tracker, spec, op)
      /\ cs.head \in Nat
  <2>1. Underway
    BY DEF RunInv, TypeInv, CommandsHaveInput, Underway
  <2> QED
    BY <2>1, StandingOp DEF RunInv, TypeInv, Outstanding, Underway, Changeset
<1>3. /\ journal \in Seq(Event) /\ batch \in Seq(Event) /\ tracker \in Seq(Task)
      /\ Answered(journal) /\ GoodLines(tracker, journal)
  BY DEF RunInv, TypeInv, TypeOK, WorkInv, LinkInv
<1>4. CASE batch' = batch
  BY <1>1, <1>4 DEF AcceptInv
<1>5. CASE /\ receipts[OpID(op)].status = "ok" /\ ~OpRefused(journal, batch, spec, cs.head, op)
           /\ batch' = batch \o BuildOp(journal, batch, spec, cs.head, op, receipts[OpID(op)].task)
  <2> DEFINE t == receipts[OpID(op)].task
             lines == BuildOp(journal, batch, spec, cs.head, op, t)
  <2>1. t \in Nat /\ spec \in [Nodes -> MaybeHash]
    BY DEF RunInv, TypeInv, CommandsHaveInput, TypeOK, Receipt, Specs
  <2> HIDE DEF t
  <2>2. lines \in Seq(Event)
    BY <1>2, <1>3, <1>5, <2>1, BuiltLinesAreFresh
  <2>3. \A stem \in Stems :
           /\ \A i, k \in EpicLines(lines, stem) : i = k
           /\ EpicLines(lines, stem) # {} => OpID(op) = EpicID(stem) /\ ~FoldHas(journal, stem)
           /\ ClosesAnswered(lines)
    BY <1>2, <1>3, <1>5, <2>1, BuiltReceipts
  <2>4. batch' = batch \o lines
    BY <1>5 DEF t
  <2>5. \A stem \in Stems : EpicLines(lines, stem) # {} =>
           EpicLines(journal, stem) = {} /\ EpicLines(batch, stem) = {}
    BY <1>1, <1>3, <2>3, ReceiptedEpicHasEntry DEF AcceptInv
  <2> HIDE DEF lines
  <2>6. journal \o (batch \o lines) = (journal \o batch) \o lines /\ journal \o batch \in Seq(Event)
    BY <1>3, <2>2
  <2>7. OneEpic((journal \o batch) \o lines)
    <3> SUFFICES ASSUME NEW stem \in Stems
                 PROVE  \A i, k \in EpicLines((journal \o batch) \o lines, stem) : i = k
      BY DEF OneEpic
    <3> DEFINE s == journal \o batch
    <3>1. \A i, k \in EpicLines(s, stem) : i = k
      BY DEF AcceptInv, OneEpic
    <3>2. EpicLines(lines, stem) # {} => EpicLines(s, stem) = {}
      BY <1>3, <2>5, EpicLinesConcat
    <3>3. s \in Seq(Event)
      BY <2>6
    <3> HIDE DEF s
    <3>4. \A i, k \in EpicLines(s \o lines, stem) : i = k
      BY <2>2, <2>3, <3>1, <3>2, <3>3, EpicLinesConcat
    <3> QED
      BY <3>4 DEF s
  <2>8. ClosesAnswered(lines)
    <3>1. cs.stem \in Stems
      BY <1>2 DEF RunInv, TypeInv, Outstanding, Underway, Changeset
    <3> QED
      BY <2>3, <3>1
  <2>9. ClosesAnswered(batch \o lines)
    <3> DEFINE s == batch \o lines
    <3>1. KnownEIDs(s) = KnownEIDs(batch) \cup KnownEIDs(lines)
      BY <1>3, <2>2, KnownEIDsConcat
    <3>2. \A i \in DOMAIN s : \/ i \in DOMAIN batch /\ s[i] = batch[i]
                              \/ i - Len(batch) \in DOMAIN lines /\ s[i] = lines[i - Len(batch)]
      BY <1>3, <2>2, ConcatLines
    <3>3. ClosesAnswered(batch)
      BY DEF AcceptInv
    <3> HIDE DEF s
    <3>4. ClosesAnswered(s)
      BY <2>8, <3>1, <3>2, <3>3 DEF ClosesAnswered
    <3> QED
      BY <3>4 DEF s
  <2>10. \A stem \in Stems : EpicLines(batch \o lines, stem) # {} => EpicID(stem) \in done'
    <3> SUFFICES ASSUME NEW stem \in Stems, EpicLines(batch \o lines, stem) # {}
                 PROVE  EpicID(stem) \in done'
      OBVIOUS
    <3>1. EpicLines(batch, stem) # {} \/ EpicLines(lines, stem) # {}
      BY <1>3, <2>2, EpicLinesConcat
    <3>2. EpicLines(batch, stem) # {} => EpicID(stem) \in done
      BY DEF AcceptInv
    <3> QED
      BY <1>1, <2>3, <3>1, <3>2
  <2> QED
    BY <1>1, <2>4, <2>6, <2>7, <2>9, <2>10 DEF AcceptInv
<1> QED
  BY <1>4, <1>5 DEF ReconcileOp

\* Every step keeps what ingest accepts.
LEMMA StepsKeepAccept ==
    ASSUME PlainRuns, RunInv, NoSections, DutyInv, AcceptInv, [Next]_vars
    PROVE  AcceptInv'
<1>1. TypeInv /\ IDInv /\ ChangesetRound /\ BatchRound
  BY DEF RunInv, RoundInv
<1>2. journal \in Seq(Event) /\ batch \in Seq(Event) /\ OneEpic(journal)
  BY DEF RunInv, TypeInv, TypeOK, AcceptInv
<1>n. /\ journal \o <<>> = journal /\ ClosesAnswered(<<>>)
      /\ \A stem : EpicLines(<<>>, stem) = {}
  BY <1>2 DEF ClosesAnswered, EpicLines
<1>3. CASE StillStep
  <2>1. UNCHANGED journal
    BY <1>3 DEF StillStep
  <2>2. CASE UNCHANGED <<proc, batch, done>>
    BY <2>1, <2>2 DEF AcceptInv
  <2>3. CASE proc' \in {"idle", "adapter"}
    BY <2>1, <2>3 DEF AcceptInv
  <2>4. CASE proc' = "reconcile" /\ batch' = <<>>
    BY <1>2, <1>n, <2>1, <2>4 DEF AcceptInv
  <2> QED
    BY <1>3, <2>2, <2>3, <2>4 DEF StillStep
<1>4. CASE UNCHANGED journal /\ proc' = "idle"
  BY <1>4 DEF AcceptInv
<1>5. CASE RegisterStep
  <2>1. PICK line \in Event : /\ line.event = "registered"
                              /\ <<line>> \in Seq(Event) /\ journal' = journal \o <<line>>
    BY <1>5, RegisteredLine
  <2> DEFINE t == <<line>>
  <2>2. DOMAIN t = {1} /\ t[1] = line /\ t \in Seq(Event) /\ journal' = journal \o t
    BY <2>1
  <2> HIDE DEF t
  <2>3. \A stem : EpicLines(t, stem) = {}
    BY <2>1, <2>2 DEF EpicLines, TaskBearing
  <2>4. OneEpic(journal \o t)
    BY <1>2, <2>2, <2>3, EpicLinesConcat DEF OneEpic
  <2>5. proc' = "idle"
    BY <1>5 DEF RegisterStep
  <2> QED
    BY <2>2, <2>4, <2>5 DEF AcceptInv
<1>6. CASE proc = "reconcile" /\ \E op \in cs.ops : ReconcileOp(op)
  BY <1>6, ReconcileKeepsAccept
<1>7. CASE IngestCommit
  <2>1. proc = "reconcile" /\ journal' = journal \o FinalBatch /\ proc' = "save"
    BY <1>7 DEF IngestCommit, Committable
  <2>2. FinalBatch = batch
    BY <2>1, BatchIsFinal
  <2> QED
    BY <2>1, <2>2 DEF AcceptInv
<1>8. EditSpec \/ Planning \/ IngestSave => UNCHANGED journal /\ proc' = "idle"
  BY DEF EditSpec, Planning, Plan, IngestSave, Stop, journalVars, memVars
<1> QED
  BY <1>1, <1>3, <1>4, <1>5, <1>6, <1>7, <1>8, RoundSteps

\* The event builder finds what an op of plain runs speaks of.
LEMMA OpsAccepted ==
    ASSUME RunInv, NoSections, DutyInv, proc = "reconcile", NEW op \in cs.ops
    PROVE  ~OpRefused(journal, batch, spec, cs.head, op)
<1>1. Underway /\ cs.head = head
  BY DEF RunInv, TypeInv, CommandsHaveInput, RoundInv, ChangesetRound, Underway
<1>2. /\ CompleteOp(op) /\ LinkedOp(journal, tracker, cs, op) /\ SoundOp(tracker, spec, op)
      /\ op.act \in {"create", "cleanup", "retarget"} => op.key \in Nodes /\ Kind[op.key] \in PlanRelevant
      /\ op.act = "close" => op.task \in DOMAIN tracker
      /\ op.act \in OpActs
  BY <1>1, StandingOp DEF CompleteOp, Op
<1>3. /\ tracker \in Seq(Task) /\ journal \in Seq(Event) /\ Answered(journal)
      /\ UniqueEIDs(journal) /\ Accounted(journal) /\ Told(journal)
      /\ GoodLines(tracker, journal) /\ LabelsTell(tracker) /\ LabelsApart(tracker)
      /\ HeadLines(tracker, head, journal)
  BY DEF RunInv, TypeInv, TypeOK, IDInv, AccountInv, WorkInv, LinkInv, RoundInv, JournalRound, DutyInv
<1>4. CASE op.act = "epic"
  <2>1. op.label = Registration(journal, op.key) /\ op.label \in EIDs
    BY <1>2, <1>4 DEF CompleteOp, LinkedOp
  <2> QED
    BY <1>4, <2>1, EIDAssumption DEF OpRefused
<1>5. CASE op.act = "cleanup"
  <2> DEFINE n == op.key
  <2>1. n \in Planned /\ OpFor(tracker, op, n)
    BY <1>2, <1>5, RelevantIsPlanned DEF OpFor
  <2>2. spec[n] = None
    BY <1>2, <1>5, <2>1 DEF SoundOp
  <2>3. ToDo(journal, tracker, spec, op, n) \/ Journaled(journal, spec, head, op, n)
    BY <1>1, <2>1 DEF DutyInv, OpsStand
  <2>4. ChangeLines(journal, n) # {}
    <3>1. CASE ToDo(journal, tracker, spec, op, n)
      BY <2>2, <3>1 DEF ToDo, Now
    <3>2. CASE Journaled(journal, spec, head, op, n)
      <4>1. Label(head, op) \in KnownEIDs(journal) /\ Label(head, op).src = "cleanup"
            /\ Label(head, op).key = n
        BY <1>5, <3>2 DEF Journaled, Label, DeriveEID
      <4>2. PICK i \in DOMAIN journal : journal[i].event \in ChangeKinds /\ journal[i].key = n
        BY <1>3, <4>1, KnownIsChange
      <4> QED
        BY <4>2 DEF ChangeLines
    <3> QED
      BY <2>3, <3>1, <3>2
  <2>5. FoldHas(journal, n)
    BY <1>3, <2>1, <2>4, FoldIsNow
  <2> QED
    BY <1>5, <2>5 DEF OpRefused
<1>6. CASE op.act \in {"create", "retarget"}
  <2>1. op.key \in Planned /\ OpFor(tracker, op, op.key)
    BY <1>2, <1>6, RelevantIsPlanned DEF OpFor
  <2>2. spec[op.key] # None
    BY <1>2, <1>6, <2>1 DEF SoundOp
  <2>3. InGraph(spec, op.key)
    BY <2>1, <2>2 DEF InGraph, Planned
  <2> QED
    BY <1>6, <2>3 DEF OpRefused
<1>7. CASE op.act = "close"
  <2> DEFINE n == tracker[op.task].key
  <2>1. n \in Planned /\ op.key = op.task /\ OpFor(tracker, op, n)
    BY <1>2, <1>7, RelevantIsPlanned DEF OpFor, SoundOp
  <2>2. op.why = "removed"
    BY <1>2, <1>7, <2>1 DEF SoundOp
  <2>3. ToDo(journal, tracker, spec, op, n) \/ Journaled(journal, spec, head, op, n)
    BY <1>1, <2>1 DEF DutyInv, OpsStand
  <2>4. CASE Journaled(journal, spec, head, op, n)
    <3>1. DeriveEID(cs.head, "close", op.key) \in KnownEIDs(journal)
      BY <1>1, <1>7, <2>4 DEF Journaled, Label
    <3> QED
      BY <1>7, <3>1 DEF OpRefused, HasEID
  <2>5. CASE ToDo(journal, tracker, spec, op, n)
    <3>1. Holds(journal, tracker, n, op.task) /\ Now(journal, n) # None
      BY <1>7, <2>5 DEF ToDo, Holds
    <3> HIDE DEF n
    <3>2. /\ FoldHas(journal, n)
          /\ \A u \in DOMAIN tracker : Holds(journal, tracker, n, u) => u = Fold(journal)[n].task
      BY <1>3, <2>1, <3>1, FoldHolder
    <3>3. n \in DOMAIN Fold(journal)
      BY <2>1, <3>2, FoldHasDomain DEF Planned
    <3>4. n \in EntriesByTask(journal, op.task)
      BY <1>2, <1>7, <3>1, <3>2, <3>3 DEF EntriesByTask
    <3> QED
      BY <1>7, <2>2, <3>4 DEF OpRefused
  <2> QED
    BY <2>3, <2>4, <2>5
<1> QED
  BY <1>2, <1>4, <1>5, <1>6, <1>7 DEF OpActs

\* Journal and batch pass the two invariants ingest checks before it writes.
LEMMA BatchAccepted ==
    ASSUME RunInv, NoSections, DutyInv, AcceptInv, proc = "reconcile"
    PROVE  BatchSound
<1> DEFINE j == journal \o batch
<1>1. /\ journal \in Seq(Event) /\ batch \in Seq(Event) /\ Answered(j)
      /\ GoodLines(tracker, journal) /\ GoodLines(tracker, batch)
      /\ Told(journal) /\ Told(batch) /\ UniqueEIDs(journal) /\ FreshLines(batch, KnownEIDs(journal))
      /\ Accounted(journal) /\ AllPlain(batch) /\ OneEpic(j) /\ ClosesAnswered(batch)
  BY DEF RunInv, TypeInv, TypeOK, IDInv, BatchIsNew, AccountInv, WorkInv, LinkInv, BatchLinked,
         RoundInv, JournalRound, BatchRound, AcceptInv
<1>2. /\ j \in Seq(Event) /\ GoodLines(tracker, j) /\ Told(j) /\ UniqueEIDs(j)
      /\ KnownEIDs(j) = KnownEIDs(journal) \cup KnownEIDs(batch)
  BY <1>1, GoodLinesConcat, ToldConcat, FreshLinesConcat, KnownEIDsConcat
<1>3. /\ \A i \in DOMAIN batch : Len(journal) + i \in DOMAIN j /\ j[Len(journal) + i] = batch[i]
      /\ \A i \in DOMAIN j : j[i].event \in ReferentKinds => j[i].eid \in EIDs
  <2>1. /\ \A i \in DOMAIN batch : Len(journal) + i \in DOMAIN j /\ j[Len(journal) + i] = batch[i]
        /\ \A i \in DOMAIN j :
              \/ i \in DOMAIN journal /\ j[i] = journal[i]
              \/ i - Len(journal) \in DOMAIN batch /\ j[i] = batch[i - Len(journal)]
    BY <1>1, ConcatLines
  <2> HIDE DEF j
  <2> QED
    BY <1>1, <2>1 DEF Accounted, AllPlain, Plain
<1> HIDE DEF j
<1>4. ASSUME NEW i \in DOMAIN j, j[i].event \in TaskBearing
      PROVE  /\ j[i].key = None /\ j[i].for \in KnownEIDs(j)
             /\ j[i].for.key \in Nodes \cup Stems
  <2>1. j[i].key = None /\ Answers(j, j[i].for)
    BY <1>1, <1>4 DEF Answered
  <2>2. PICK m \in DOMAIN j : /\ j[m].event \in ReferentKinds /\ j[m].eid = j[i].for
                              /\ j[m].event = "removed" \/ j[m].key \in Workable
    BY <2>1 DEF Answers
  <2>3. j[i].for.src # "close"
    BY <1>2, <1>4 DEF GoodLines, GoodLine
  <2>4. j[i].for.key = j[m].key
    BY <1>2, <2>2, <2>3 DEF GoodLines, GoodLine
  <2>5. j[m].event = "removed" => j[m].key \in Nodes
    BY <1>2 DEF Told, ToldChange, ChangeKinds
  <2>6. j[m].key \in Nodes \cup Stems
    BY <2>2, <2>5 DEF Workable
  <2>7. j[m].eid # None
    BY <1>3, <2>2, EIDAssumption
  <2> QED
    BY <2>1, <2>2, <2>4, <2>6, <2>7 DEF KnownEIDs
<1>5. Invariant1(j)
  <2> SUFFICES ASSUME NEW i \in DOMAIN j, NEW k \in DOMAIN j, i # k,
                      j[i].event \in TaskBearing, j[i].event = j[k].event
               PROVE  j[i].for # j[k].for
    BY <1>4 DEF Invariant1
  <2>1. SUFFICES ASSUME j[i].for = j[k].for PROVE FALSE
    OBVIOUS
  <2>2. j[i].for \in KnownEIDs(j) /\ j[i].for.key \in Nodes \cup Stems
    BY <1>4
  <2>3. CASE j[i].for.key \in Nodes
    <3>1. /\ i - 1 \in DOMAIN j /\ j[i - 1].eid = j[i].for
          /\ k - 1 \in DOMAIN j /\ j[k - 1].eid = j[k].for
      BY <1>2, <2>1, <2>3 DEF Told, ToldReceipt
    <3>2. j[i].for # None
      BY <2>2 DEF KnownEIDs
    <3>3. i - 1 = k - 1
      BY <1>2, <2>1, <3>1, <3>2 DEF UniqueEIDs
    <3>4. i \in Nat /\ k \in Nat
      BY <1>2
    <3> QED
      BY <3>3, <3>4
  <2>4. CASE j[i].for.key \in Stems
    <3>1. i \in EpicLines(j, j[i].for.key) /\ k \in EpicLines(j, j[i].for.key)
      BY <2>1 DEF EpicLines
    <3> QED
      BY <1>1, <2>4, <3>1 DEF OneEpic
  <2> QED
    BY <2>2, <2>3, <2>4
<1>6. Invariant2(journal, batch)
  <2> SUFFICES ASSUME NEW i \in DOMAIN batch
               PROVE  /\ batch[i].event \in ReceiptKinds => batch[i].for \in KnownEIDs(j)
                      /\ batch[i].absorbed = {}
    BY <1>2 DEF Invariant2, HasEID
  <2>1. batch[i].absorbed = {}
    BY <1>1 DEF AllPlain, Plain
  <2>2. CASE batch[i].event \in TaskBearing
    BY <1>3, <1>4, <2>1, <2>2
  <2>3. CASE batch[i].event = "task_closed"
    BY <1>1, <1>2, <2>1, <2>3 DEF ClosesAnswered, TaskBearing
  <2> QED
    BY <2>1, <2>2, <2>3 DEF ReceiptKinds
<1>7. FinalBatch = batch
  BY BatchIsFinal
<1> QED
  BY <1>5, <1>6, <1>7 DEF BatchSound, j

(***************************************************************************)
(* In plain runs of a spec without test sections ingest never refuses what *)
(* plan and the adapter produced, partial receipts, crashes and re-runs    *)
(* included: every lookup of the event builder succeeds, and the batch     *)
(* passes both invariants (ingest/event_builder.go,                        *)
(* ingest/invariant_checker.go).                                           *)
(***************************************************************************)
THEOREM IngestAccepts ==
    ASSUME PlainRuns, NoSections
    PROVE  Spec => []IngestNeverRefuses
<1>1. Init => AcceptInv
  BY DEF Init, AcceptInv, OneEpic, EpicLines
<1>2. RunInv /\ DutyInv /\ AcceptInv /\ [Next]_vars => AcceptInv'
  BY StepsKeepAccept
<1>3. RunInv /\ DutyInv /\ AcceptInv => IngestNeverRefuses
  <2> SUFFICES ASSUME RunInv, DutyInv, AcceptInv, proc = "reconcile", Refuses PROVE FALSE
    BY DEF IngestNeverRefuses
  <2>1. Underway
    BY DEF RunInv, TypeInv, CommandsHaveInput, Underway
  <2>2. cs.absorbed = {}
    BY <2>1 DEF RunInv, RoundInv, ChangesetRound
  <2>3. \A op \in cs.ops : ~OpRefused(journal, batch, spec, cs.head, op)
    BY OpsAccepted
  <2>4. BatchSound
    BY BatchAccepted
  <2> QED
    BY <2>2, <2>3, <2>4 DEF Refuses
<1> QED
  BY <1>1, <1>2, <1>3, DutyInvariant, PTL DEF Spec
=============================================================================
