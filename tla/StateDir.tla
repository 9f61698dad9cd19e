------------------------------ MODULE StateDir ------------------------------
(***************************************************************************)
(* The files of a project and the commands that write them, one system     *)
(* call to a step: .spex with its snapshot and its journal, and the copies *)
(* under spec/proposals.  A process may die between any two steps, and any *)
(* write may fail.                                                         *)
(*                                                                         *)
(* The contents of a batch are Ingest's and Refresh's matter; here a batch *)
(* is the command that writes it and what it is of, a snapshot is the      *)
(* batch it was saved for.  Registrations are made at one git head.        *)
(***************************************************************************)
EXTENDS Integers, Sequences, FiniteSets

CONSTANTS
    Slots,        \* the spex processes that may run at once
    Stems,        \* the proposals to register
    Cycles,       \* the changesets to ingest
    Drifts,       \* the drifts to refresh
    Initialised,  \* whether the project was initialised earlier
    Absent, Torn, \* a file that is not there, and one written in part
    MaxRefresh,   \* bound: refresh batches in the journal
    MaxFaults     \* bound: crashes and failed writes

\* Two ingests share the name snapshot.json.tmp and would write one inode:
\* processes side by side are only modelled for registrations, whose temporary
\* files have names of their own.
ASSUME StateDirAssumption ==
    /\ Initialised \in BOOLEAN /\ MaxRefresh \in Nat /\ MaxFaults \in Nat
    /\ \A s, t \in Slots : s # t => Cycles = {} /\ Drifts = {} /\ Initialised

VARIABLES
    dir,      \* whether .spex exists
    snap,     \* snapshot.json
    snapTmp,  \* snapshot.json.tmp
    journal,  \* history.jsonl
    files,    \* spec/proposals, by stem
    run,      \* the command each process runs, where it is, and what it has read
    faults    \* crashes and failed writes so far

disk == <<dir, snap, snapTmp, journal, files>>
vars == <<disk, run, faults>>

Batches == [kind: {"register"}, of: Stems] \cup [kind: {"ingest"}, of: Cycles]
           \cup [kind: {"refresh"}, of: Drifts]

Seed == [kind |-> "seed", of |-> Absent]

\* A file that is missing or torn is told apart from every content.
ASSUME ContentAssumption ==
    /\ Absent # Torn /\ {Absent, Torn} \cap (Batches \cup {Seed, "whole"}) = {}
    /\ Absent \notin Seq(Batches)

Idle == [kind |-> "none", of |-> Absent, at |-> "idle", seen |-> <<>>, orig |-> <<>>]

\* What a process works on: the batch it journals and baselines.
BatchOf(s) == [kind |-> run[s].kind, of |-> run[s].of]

Steps == {"idle", "resolve", "mkdir", "seedOpen", "seedWrite", "seedJournal",
          "stat", "probe", "keep", "read", "rename", "create", "copy",
          "gate", "open", "write", "publish", "restore"}

TypeOK ==
    /\ dir \in BOOLEAN
    /\ snap \in Batches \cup {Seed, Absent, Torn}
    /\ snapTmp \in Batches \cup {Absent, Torn}
    /\ journal = Absent \/ journal \in Seq(Batches)
    /\ files \in [Stems -> {"whole", Absent, Torn}]
    /\ \A s \in Slots :
          /\ run[s].at \in Steps
          /\ run[s].at \in {"idle"} \cup {"resolve", "mkdir", "seedOpen", "seedWrite", "seedJournal"}
             \/ BatchOf(s) \in Batches
          /\ run[s].seen \in Seq(Batches) /\ run[s].orig \in Seq(Batches)
          /\ run[s].at = "publish" => snapTmp = BatchOf(s)
    /\ faults \in 0 .. MaxFaults

Init ==
    /\ dir = Initialised
    /\ snap = IF Initialised THEN Seed ELSE Absent
    /\ journal = IF Initialised THEN <<>> ELSE Absent
    /\ snapTmp = Absent
    /\ files = [x \in Stems |-> Absent]
    /\ run = [s \in Slots |-> Idle]
    /\ faults = 0

-----------------------------------------------------------------------------
(* The pre-flight, and the diagnosis. *)

LoadFails == snap \in {Absent, Torn}

\* A journal is read whole or not at all: it is only ever renamed into place.
JournalUnreadable == journal = Absent

Resolve ==
    CASE ~dir -> "uninitialised"
      [] dir /\ (LoadFails \/ JournalUnreadable) -> "broken"
      [] OTHER -> "ready"

diagnoseSnapshot ==
    CASE snap = Absent -> "missing" [] snap = Torn -> "unreadable" [] OTHER -> "present"

\* Fault: the journal's presence is left to Parse, which reads no file as no lines.
FaultDiagnoseJournal == "present"

diagnoseJournal == IF journal = Absent THEN "missing" ELSE "present"

\* Whether spex doctor finds the project healthy: where the pre-flight refuses
\* an existing .spex, it looks at both files itself.
diagnose ==
    CASE Resolve = "ready" -> TRUE
      [] Resolve = "uninitialised" -> FALSE
      [] OTHER -> diagnoseSnapshot = "present" /\ diagnoseJournal = "present"

-----------------------------------------------------------------------------
(* Where a process goes next. *)

At(s, step) == run[s].at = step

Goto(s, step) == run' = [run EXCEPT ![s].at = step]

Stop(s) == run' = [run EXCEPT ![s] = Idle]

\* The operator runs a command on an idle process.
Start(s, kind, of) ==
    /\ At(s, "idle")
    /\ run' = [run EXCEPT ![s] = [kind |-> kind, of |-> of, at |-> "resolve",
                                   seen |-> <<>>, orig |-> <<>>]]
    /\ UNCHANGED <<disk, faults>>

Refreshes == IF journal = Absent THEN 0
             ELSE Cardinality({i \in DOMAIN journal : journal[i].kind = "refresh"})

StartAny(s) ==
    \/ Start(s, "init", Absent)
    \/ \E x \in Stems : Start(s, "register", x)
    \/ \E c \in Cycles : Start(s, "ingest", c)
    \/ \E d \in Drifts : Refreshes < MaxRefresh /\ Start(s, "refresh", d)

\* init goes on only where .spex does not exist, the others only where it resolves.
PreFlight(s) ==
    /\ At(s, "resolve")
    /\ CASE run[s].kind = "init" /\ Resolve = "uninitialised" -> Goto(s, "mkdir")
         [] run[s].kind = "register" /\ Resolve = "ready" -> Goto(s, "stat")
         [] run[s].kind \in {"ingest", "refresh"} /\ Resolve = "ready" -> Goto(s, "probe")
         [] OTHER -> Stop(s)
    /\ UNCHANGED <<disk, faults>>

-----------------------------------------------------------------------------
(* spex init. *)

Mkdir(s) ==
    /\ At(s, "mkdir") /\ dir' = TRUE /\ Goto(s, "seedOpen")
    /\ UNCHANGED <<snap, snapTmp, journal, files, faults>>

\* merkle.Save opens the snapshot itself, truncates it and then writes it.
SeedSnapshot(s) ==
    /\ \/ At(s, "seedOpen") /\ snap' = Torn /\ Goto(s, "seedWrite")
       \/ At(s, "seedWrite") /\ snap' = Seed /\ Goto(s, "seedJournal")
    /\ UNCHANGED <<dir, snapTmp, journal, files, faults>>

SeedJournal(s) ==
    /\ At(s, "seedJournal") /\ journal' = <<>> /\ Stop(s)
    /\ UNCHANGED <<dir, snap, snapTmp, files, faults>>

-----------------------------------------------------------------------------
(* The journal: whether to append, and Append's read, temporary and rename. *)

Known(b) == \E i \in DOMAIN journal : journal[i] = b

\* Fault: the file is copied before the journal is looked at.
FaultStat(s) ==
    /\ At(s, "stat")
    /\ IF files[run[s].of] = Absent THEN Goto(s, "create") ELSE Stop(s)
    /\ UNCHANGED <<disk, faults>>

\* A destination that exists refuses the registration.
Stat(s) ==
    /\ At(s, "stat")
    /\ IF files[run[s].of] = Absent THEN Goto(s, "probe") ELSE Stop(s)
    /\ UNCHANGED <<disk, faults>>

\* Fault: an event in the journal is taken for a registration that is done.
FaultProbe(s) ==
    /\ At(s, "probe")
    /\ CASE run[s].kind = "refresh" -> IF journal = <<>> THEN Stop(s) ELSE Goto(s, "keep")
         [] run[s].kind # "refresh" /\ Known(BatchOf(s)) ->
               IF run[s].kind = "register" THEN Stop(s) ELSE Goto(s, "gate")
         [] OTHER -> Goto(s, "read")
    /\ UNCHANGED <<disk, faults>>

\* Fault: ingest journals its batch without looking whether it is there.
FaultReprobe(s) ==
    /\ At(s, "probe")
    /\ CASE run[s].kind = "refresh" -> IF journal = <<>> THEN Stop(s) ELSE Goto(s, "keep")
         [] run[s].kind = "register" /\ Known(BatchOf(s)) -> Goto(s, "create")
         [] OTHER -> Goto(s, "read")
    /\ UNCHANGED <<disk, faults>>

\* Lines whose event ids the journal holds are not appended again; a refresh
\* needs a completed cycle, and its events get fresh ids.
Probe(s) ==
    /\ At(s, "probe")
    /\ CASE run[s].kind = "refresh" -> IF journal = <<>> THEN Stop(s) ELSE Goto(s, "keep")
         [] run[s].kind # "refresh" /\ Known(BatchOf(s)) ->
               Goto(s, IF run[s].kind = "register" THEN "create" ELSE "gate")
         [] OTHER -> Goto(s, "read")
    /\ UNCHANGED <<disk, faults>>

\* refresh keeps the bytes to roll back to.
Keep(s) ==
    /\ At(s, "keep")
    /\ run' = [run EXCEPT ![s].orig = journal, ![s].at = "read"]
    /\ UNCHANGED <<disk, faults>>

AppendRead(s) ==
    /\ At(s, "read")
    /\ run' = [run EXCEPT ![s].seen = journal, ![s].at = "rename"]
    /\ UNCHANGED <<disk, faults>>

\* The temporary has a name of its own: what is read and what is added come
\* into place together, over whatever is in place by then.
AppendRename(s) ==
    /\ At(s, "rename")
    /\ journal' = Append(run[s].seen, BatchOf(s))
    /\ Goto(s, CASE run[s].kind = "register" -> "create"
                 [] run[s].kind = "ingest" -> "gate"
                 [] OTHER -> "open")
    /\ UNCHANGED <<dir, snap, snapTmp, files, faults>>

-----------------------------------------------------------------------------
(* The proposal's copy, and the snapshot. *)

\* The copy is opened with O_EXCL.
CopyCreate(s) ==
    /\ At(s, "create")
    /\ IF files[run[s].of] = Absent
       THEN files' = [files EXCEPT ![run[s].of] = Torn] /\ Goto(s, "copy")
       ELSE UNCHANGED files /\ Stop(s)
    /\ UNCHANGED <<dir, snap, snapTmp, journal, faults>>

CopyWrite(s) ==
    /\ At(s, "copy")
    /\ files' = [files EXCEPT ![run[s].of] = "whole"] /\ Stop(s)
    /\ UNCHANGED <<dir, snap, snapTmp, journal, faults>>

\* Only a complete run is baselined; receipts may say either.
SaveGate(s) ==
    /\ At(s, "gate")
    /\ Goto(s, "open") \/ Stop(s)
    /\ UNCHANGED <<disk, faults>>

\* Fault: the snapshot is written in place.
FaultSaveOpen(s) ==
    /\ At(s, "open") /\ snap' = Torn /\ snapTmp' = Torn /\ Goto(s, "write")
    /\ UNCHANGED <<dir, journal, files, faults>>

\* os.Create truncates whatever an earlier run has left under the name.
SaveOpen(s) ==
    /\ At(s, "open") /\ snapTmp' = Torn /\ Goto(s, "write")
    /\ UNCHANGED <<dir, snap, journal, files, faults>>

\* Fault: a write that fails is not noticed before the rename.
FaultSaveWrite(s) ==
    /\ At(s, "write") /\ Goto(s, "publish")
    /\ UNCHANGED <<disk, faults>>

SaveWrite(s) ==
    /\ At(s, "write") /\ snapTmp' = BatchOf(s) /\ Goto(s, "publish")
    /\ UNCHANGED <<dir, snap, journal, files, faults>>

SaveRename(s) ==
    /\ At(s, "publish") /\ snap' = snapTmp /\ snapTmp' = Absent /\ Stop(s)
    /\ UNCHANGED <<dir, journal, files, faults>>

\* refresh's roll-back, after its snapshot could not be written.
Restore(s) ==
    /\ At(s, "restore") /\ journal' = run[s].orig /\ Stop(s)
    /\ UNCHANGED <<dir, snap, snapTmp, files, faults>>

Step(s) ==
    \/ PreFlight(s) \/ Mkdir(s) \/ SeedSnapshot(s) \/ SeedJournal(s)
    \/ Stat(s) \/ Probe(s) \/ Keep(s) \/ AppendRead(s) \/ AppendRename(s)
    \/ CopyCreate(s) \/ CopyWrite(s)
    \/ SaveGate(s) \/ SaveOpen(s) \/ SaveWrite(s) \/ SaveRename(s) \/ Restore(s)

-----------------------------------------------------------------------------
(* What can go wrong. *)

Fault == faults < MaxFaults /\ faults' = faults + 1

Crash(s) ==
    /\ ~At(s, "idle") /\ Fault /\ Stop(s)
    /\ UNCHANGED disk

\* The error paths.  A failed Append removes its temporary, a failed copy its
\* copy, a failed save its temporary once that was created; init and a failed
\* roll-back leave what is there.
WriteFails(s) ==
    /\ Fault
    /\ \/ /\ run[s].at \in {"mkdir", "seedOpen", "seedWrite", "seedJournal", "rename", "create", "restore"}
          /\ Stop(s) /\ UNCHANGED <<files, snapTmp>>
       \/ /\ At(s, "copy")
          /\ files' = [files EXCEPT ![run[s].of] = Absent]
          /\ Stop(s) /\ UNCHANGED snapTmp
       \/ /\ run[s].at \in {"open", "write", "publish"}
          /\ snapTmp' = IF At(s, "open") THEN snapTmp ELSE Absent
          /\ IF run[s].kind = "refresh" THEN Goto(s, "restore") ELSE Stop(s)
          /\ UNCHANGED files
    /\ UNCHANGED <<dir, snap, journal>>

Next == \E s \in Slots : StartAny(s) \/ Step(s) \/ Crash(s) \/ WriteFails(s)

Spec == Init /\ [][Next]_vars

\* A process that runs takes its next step; whoever registers a proposal runs
\* the command again until it is filed.
FairSpec ==
    /\ Spec
    /\ \A s \in Slots : WF_vars(Step(s))
    /\ \A x \in Stems : SF_vars(\E s \in Slots : Start(s, "register", x))

-----------------------------------------------------------------------------
(***************************************************************************)
(* No ordering of steps leaves a file under spec/proposals without the     *)
(* registered event that opens its lifecycle (proposal/register.go,        *)
(* Register: append, then copy).                                           *)
(***************************************************************************)
NoFileWithoutEvent ==
    \A x \in Stems :
        files[x] # Absent => journal # Absent /\ Known([kind |-> "register", of |-> x])

(***************************************************************************)
(* doctor calls a project healthy exactly when the pre-flight lets the     *)
(* other commands through, whatever an interrupted init or save left       *)
(* behind: the two read the disk separately (cmd/spex/doctor.go,           *)
(* diagnose; lifecycle/project_resolver.go, Resolve).                      *)
(***************************************************************************)
DoctorAgrees == diagnose = (Resolve = "ready")

(***************************************************************************)
(* A project that resolves keeps resolving, wherever a command is cut off  *)
(* or a write fails: the journal and the snapshot are never seen half      *)
(* written (mapping_store.go, Append; snapshot_saver.go, writeAtomic).     *)
(***************************************************************************)
StaysResolvable == [][Resolve = "ready" => Resolve' = "ready"]_vars

(***************************************************************************)
(* A registration whose event is journaled and whose file is missing is    *)
(* repaired by running it again (proposal/register.go, Register's          *)
(* comment).                                                               *)
(***************************************************************************)
RegistrationRepaired ==
    \A x \in Stems :
        journal # Absent /\ Known([kind |-> "register", of |-> x]) ~> files[x] # Absent

(***************************************************************************)
(* The files keep the promise of the ledger: read at any moment they are   *)
(* its state, a file half written being the one it is to become or was.    *)
(***************************************************************************)
L == INSTANCE Ledger WITH
    ready    <- journal # Absent,
    lines    <- IF journal = Absent THEN <<>> ELSE journal,
    baseline <- IF LoadFails THEN Seed ELSE snap,
    filed    <- {x \in Stems : files[x] # Absent}

ImplementsLedger == L!Spec
=============================================================================
