--------------------------- MODULE StateDirProofs ---------------------------
(***************************************************************************)
(* The files of a project at every moment, for any number of proposals,    *)
(* changesets, drifts, crashes and failed writes: they are well formed, a  *)
(* project once ready stays ready, and, as long as one process runs at a   *)
(* time, they are the ledger.                                              *)
(***************************************************************************)
EXTENDS StateDir, TLAPS

Commands == {"none", "init", "register", "ingest", "refresh"}

InitSteps == {"mkdir", "seedOpen", "seedWrite", "seedJournal"}

WorkSteps == Steps \ ({"idle", "resolve"} \cup InitSteps)

Process == [kind: Commands, of: Stems \cup Cycles \cup Drifts \cup {Absent}, at: Steps,
            seen: Seq(Batches), orig: Seq(Batches)]

DiskTyped ==
    /\ dir \in BOOLEAN
    /\ snap \in Batches \cup {Seed, Absent, Torn}
    /\ snapTmp \in Batches \cup {Absent, Torn}
    /\ journal = Absent \/ journal \in Seq(Batches)
    /\ files \in [Stems -> {"whole", Absent, Torn}]
    /\ faults \in 0 .. MaxFaults

\* The journal is the last file init writes: once it is there, so is the rest.
DiskOrdered ==
    /\ journal # Absent => dir /\ ~LoadFails
    /\ journal = Absent => ~Initialised /\ snap \notin Batches

\* What a process, given as its record, has to do with its place.
Placed(r) ==
    /\ r.at = "resolve" => r.kind = "init" \/ [kind |-> r.kind, of |-> r.of] \in Batches
    /\ r.at \in InitSteps => journal = Absent
    /\ r.at \in {"seedOpen", "seedWrite", "seedJournal"} => dir
    /\ r.at = "seedJournal" => snap = Seed
    /\ r.at \in WorkSteps => journal # Absent /\ [kind |-> r.kind, of |-> r.of] \in Batches
    /\ r.at \in {"stat", "create", "copy"} => r.kind = "register"
    /\ r.at = "gate" => r.kind = "ingest"
    /\ r.at \in {"open", "write", "publish"} => r.kind \in {"ingest", "refresh"}
    /\ r.at \in {"keep", "restore"} => r.kind = "refresh"
    /\ r.at = "publish" => snapTmp = [kind |-> r.kind, of |-> r.of]

FilesInv ==
    /\ DiskTyped /\ DiskOrdered
    /\ run \in [Slots -> Process]
    /\ \A s \in Slots : Placed(run[s])

-----------------------------------------------------------------------------
(* Batches and processes. *)

\* What is written is never mistaken for a file that is missing or torn.
LEMMA Contents ==
    /\ Absent # Torn /\ Seed # Absent /\ Seed # Torn /\ "whole" # Absent
    /\ \A b \in Batches : b # Absent /\ b # Torn /\ b # Seed
    /\ \A j \in Seq(Batches) : j # Absent
<1>1. \A b \in Batches : b.kind # "seed"
  BY DEF Batches
<1>2. Seed.kind = "seed"
  BY DEF Seed
<1> QED
  BY <1>1, <1>2, ContentAssumption

\* A batch tells what kind of command it is of.
LEMMA BatchKinds ==
    ASSUME NEW k, NEW x, [kind |-> k, of |-> x] \in Batches
    PROVE  /\ k \in {"register", "ingest", "refresh"}
           /\ k = "register" => x \in Stems
           /\ k = "ingest" => x \in Cycles
           /\ k = "refresh" => x \in Drifts
BY DEF Batches

\* A command that changes the snapshot runs alone.
LEMMA WritersRunAlone ==
    ASSUME NEW s \in Slots, NEW t \in Slots, s # t, NEW k, NEW x,
           [kind |-> k, of |-> x] \in Batches
    PROVE  k = "register" /\ Initialised
BY BatchKinds, StateDirAssumption

\* The inductive invariant contains the type invariant of the run.
LEMMA FilesInvTyped == FilesInv => TypeOK
<1> SUFFICES ASSUME FilesInv, NEW s \in Slots
             PROVE  /\ run[s].at \in Steps
                    /\ run[s].at \in {"idle"} \cup {"resolve", "mkdir", "seedOpen", "seedWrite", "seedJournal"}
                       \/ BatchOf(s) \in Batches
                    /\ run[s].seen \in Seq(Batches) /\ run[s].orig \in Seq(Batches)
                    /\ run[s].at = "publish" => snapTmp = BatchOf(s)
  BY DEF TypeOK, FilesInv, DiskTyped
<1> QED
  BY DEF FilesInv, Placed, Process, BatchOf, WorkSteps, InitSteps

LEMMA InitFilesInv == Init => FilesInv
<1> SUFFICES ASSUME Init PROVE FilesInv
  OBVIOUS
<1>1. Idle \in Process
  BY DEF Idle, Process, Commands, Steps
<1>2. run \in [Slots -> Process] /\ \A s \in Slots : Placed(run[s])
  BY <1>1 DEF Init, Placed, Idle, InitSteps, WorkSteps, Steps
<1>3. DiskTyped
  BY StateDirAssumption DEF Init, DiskTyped
<1>4. DiskOrdered
  <2>1. CASE Initialised
    <3>1. dir /\ snap = Seed /\ journal = <<>>
      BY <2>1 DEF Init
    <3>2. <<>> \in Seq(Batches)
      OBVIOUS
    <3> QED
      BY <2>1, <3>1, <3>2, Contents DEF DiskOrdered, LoadFails
  <2>2. CASE ~Initialised
    <3>1. snap = Absent /\ journal = Absent
      BY <2>2 DEF Init
    <3> QED
      BY <2>2, <3>1, Contents DEF DiskOrdered
  <2> QED
    BY <2>1, <2>2
<1> QED
  BY <1>2, <1>3, <1>4 DEF FilesInv

-----------------------------------------------------------------------------
(* One process moves. *)

\* A process that goes on keeps what it is about and what it has read.
LEMMA GotoMoves ==
    ASSUME run \in [Slots -> Process], NEW s \in Slots, NEW step \in Steps, Goto(s, step)
    PROVE  /\ run' \in [Slots -> Process]
           /\ \A t \in Slots \ {s} : run'[t] = run[t]
           /\ run'[s].at = step /\ run'[s].kind = run[s].kind /\ run'[s].of = run[s].of
           /\ run'[s].seen = run[s].seen /\ run'[s].orig = run[s].orig
BY DEF Goto, Process

\* A process that ends has nothing left in memory.
LEMMA StopMoves ==
    ASSUME run \in [Slots -> Process], NEW s \in Slots, Stop(s)
    PROVE  /\ run' \in [Slots -> Process]
           /\ \A t \in Slots \ {s} : run'[t] = run[t]
           /\ run'[s].at = "idle"
<1>1. Idle \in Process /\ Idle.at = "idle"
  BY DEF Idle, Process, Commands, Steps
<1> QED
  BY <1>1 DEF Stop

\* An idle process is in its place.
LEMMA IdlePlaced ==
    ASSUME NEW s, run'[s].at = "idle"
    PROVE  Placed(run[s])'
BY DEF Placed, InitSteps, WorkSteps, Steps

\* What one process does never displaces another: init and the writers of the
\* snapshot run alone, and a journal that is there stays.
LEMMA OthersKeepPlace ==
    ASSUME FilesInv, NEW s \in Slots, run' \in [Slots -> Process],
           \A t \in Slots \ {s} : run'[t] = run[t],
           journal # Absent => journal' # Absent,
           DiskTyped', DiskOrdered', Placed(run[s])'
    PROVE  FilesInv'
<1> SUFFICES ASSUME NEW t \in Slots, t # s PROVE Placed(run[t])'
  BY DEF FilesInv
<1>1. run'[t] = run[t] /\ Placed(run[t]) /\ run[t] \in Process
  BY DEF FilesInv
<1>2. Initialised
  BY StateDirAssumption
<1>3. journal # Absent
  BY <1>2 DEF FilesInv, DiskOrdered
<1>4. run[t].at \notin InitSteps
  BY <1>1, <1>3 DEF Placed
<1>5. ASSUME run[t].at \in WorkSteps
      PROVE  run[t].kind = "register" /\ run[t].at \notin {"gate", "open", "write", "publish", "keep", "restore"}
  <2>1. [kind |-> run[t].kind, of |-> run[t].of] \in Batches
    BY <1>1, <1>5 DEF Placed
  <2>2. run[t].kind = "register"
    BY <2>1, WritersRunAlone
  <2> QED
    BY <1>1, <2>2 DEF Placed
<1>6. run[t].at # "publish"
  BY <1>5 DEF WorkSteps, InitSteps, Steps
<1> QED
  BY <1>1, <1>3, <1>4, <1>5, <1>6 DEF Placed, InitSteps

\* A step that writes nothing.
LEMMA NothingWritten ==
    ASSUME FilesInv, NEW s \in Slots, UNCHANGED disk, faults' \in 0 .. MaxFaults,
           run' \in [Slots -> Process], \A t \in Slots \ {s} : run'[t] = run[t],
           Placed(run[s])'
    PROVE  FilesInv'
<1>1. DiskTyped' /\ DiskOrdered'
  BY DEF disk, FilesInv, DiskTyped, DiskOrdered, LoadFails
<1>2. journal' = journal
  BY DEF disk
<1> QED
  BY <1>1, <1>2, OthersKeepPlace

\* Starting a command, and its pre-flight.
LEMMA StartFilesInv ==
    ASSUME FilesInv, NEW s \in Slots, StartAny(s)
    PROVE  FilesInv'
<1>1. PICK k \in Commands, x \in Stems \cup Cycles \cup Drifts \cup {Absent} :
         Start(s, k, x) /\ (k = "init" \/ [kind |-> k, of |-> x] \in Batches)
  BY DEF StartAny, Commands, Batches
<1> DEFINE r == [kind |-> k, of |-> x, at |-> "resolve", seen |-> <<>>, orig |-> <<>>]
<1>2. run' = [run EXCEPT ![s] = r] /\ UNCHANGED <<disk, faults>>
  BY <1>1 DEF Start
<1>3. r \in Process
  BY DEF Process, Steps
<1>4. run' \in [Slots -> Process] /\ run'[s] = r /\ \A t \in Slots \ {s} : run'[t] = run[t]
  BY <1>2, <1>3 DEF FilesInv
<1>5. Placed(run[s])'
  BY <1>1, <1>4 DEF Placed, InitSteps, WorkSteps, Steps
<1>6. faults' \in 0 .. MaxFaults
  BY <1>2 DEF FilesInv, DiskTyped
<1> QED
  BY <1>2, <1>4, <1>5, <1>6, NothingWritten

LEMMA PreFlightFilesInv ==
    ASSUME FilesInv, NEW s \in Slots, PreFlight(s)
    PROVE  FilesInv'
<1>1. /\ run[s] \in Process /\ Placed(run[s]) /\ run \in [Slots -> Process]
      /\ DiskOrdered /\ DiskTyped /\ run[s].at = "resolve"
      /\ UNCHANGED <<disk, faults>> /\ faults' \in 0 .. MaxFaults
  BY DEF FilesInv, DiskTyped, PreFlight, At
<1>2. \/ run[s].kind = "init" /\ Resolve = "uninitialised" /\ Goto(s, "mkdir")
      \/ run[s].kind = "register" /\ Resolve = "ready" /\ Goto(s, "stat")
      \/ run[s].kind \in {"ingest", "refresh"} /\ Resolve = "ready" /\ Goto(s, "probe")
      \/ Stop(s)
  BY DEF PreFlight
<1>3. CASE Stop(s)
  BY <1>1, <1>3, StopMoves, IdlePlaced, NothingWritten
<1>4. CASE run[s].kind = "init" /\ Resolve = "uninitialised" /\ Goto(s, "mkdir")
  <2>1. ~dir
    BY <1>4 DEF Resolve
  <2>2. journal = Absent
    BY <1>1, <2>1 DEF DiskOrdered
  <2>3. /\ run' \in [Slots -> Process] /\ \A t \in Slots \ {s} : run'[t] = run[t]
        /\ run'[s].at = "mkdir"
    BY <1>1, <1>4, GotoMoves DEF Steps
  <2>4. Placed(run[s])'
    BY <1>1, <2>2, <2>3 DEF Placed, InitSteps, WorkSteps, disk
  <2> QED
    BY <1>1, <2>3, <2>4, NothingWritten
<1>5. ASSUME run[s].kind \in {"register", "ingest", "refresh"}, Resolve = "ready",
             NEW step \in {"stat", "probe"}, Goto(s, step),
             step = "stat" => run[s].kind = "register"
      PROVE  FilesInv'
  <2>1. journal # Absent
    BY <1>5 DEF Resolve, JournalUnreadable
  <2>2. /\ run' \in [Slots -> Process] /\ \A t \in Slots \ {s} : run'[t] = run[t]
        /\ run'[s].at = step /\ run'[s].kind = run[s].kind /\ run'[s].of = run[s].of
    BY <1>1, <1>5, GotoMoves DEF Steps
  <2>3. Placed(run[s])'
    BY <1>1, <1>5, <2>1, <2>2 DEF Placed, InitSteps, WorkSteps, Steps, disk
  <2> QED
    BY <1>1, <2>2, <2>3, NothingWritten
<1> QED
  BY <1>2, <1>3, <1>4, <1>5

\* init's own steps.
LEMMA SeedingFilesInv ==
    ASSUME FilesInv, NEW s \in Slots, Mkdir(s) \/ SeedSnapshot(s) \/ SeedJournal(s)
    PROVE  FilesInv'
<1>1. /\ run[s] \in Process /\ Placed(run[s]) /\ run \in [Slots -> Process]
      /\ DiskOrdered /\ DiskTyped
  BY DEF FilesInv
<1>2. run[s].at \in InitSteps /\ journal = Absent
  BY <1>1 DEF Mkdir, SeedSnapshot, SeedJournal, At, InitSteps, Placed
<1>3. ~Initialised /\ snap \notin Batches
  BY <1>1, <1>2 DEF DiskOrdered
<1>4. ASSUME NEW step \in {"seedOpen", "seedWrite", "seedJournal"}, Goto(s, step), dir', UNCHANGED journal,
             step = "seedJournal" => snap' = Seed, snap' \notin Batches, DiskTyped'
      PROVE  FilesInv'
  <2>1. /\ run' \in [Slots -> Process] /\ \A t \in Slots \ {s} : run'[t] = run[t]
        /\ run'[s].at = step
    BY <1>1, <1>4, GotoMoves DEF Steps
  <2>2. Placed(run[s])'
    BY <1>2, <1>4, <2>1 DEF Placed, InitSteps, WorkSteps
  <2>3. DiskOrdered'
    BY <1>2, <1>3, <1>4 DEF DiskOrdered
  <2> QED
    BY <1>2, <1>4, <2>1, <2>2, <2>3, OthersKeepPlace
<1>5. CASE Mkdir(s)
  <2>1. DiskTyped'
    BY <1>1, <1>5 DEF DiskTyped, Mkdir
  <2> QED
    BY <1>3, <1>4, <1>5, <2>1 DEF Mkdir
<1>6. CASE SeedSnapshot(s)
  <2>1. DiskTyped' /\ dir'
    BY <1>1, <1>6 DEF DiskTyped, SeedSnapshot, Placed, At
  <2>2. snap' \in {Seed, Torn} /\ snap' \notin Batches
    BY <1>6, Contents DEF SeedSnapshot
  <2> QED
    BY <1>4, <1>6, <2>1, <2>2 DEF SeedSnapshot
<1>7. CASE SeedJournal(s)
  <2>1. /\ dir /\ snap = Seed /\ journal' = <<>> /\ Stop(s)
        /\ UNCHANGED <<dir, snap, snapTmp, files, faults>>
    BY <1>1, <1>7 DEF SeedJournal, At, Placed
  <2>2. journal' \in Seq(Batches)
    BY <2>1
  <2>3. DiskTyped'
    BY <1>1, <2>1, <2>2 DEF DiskTyped
  <2>4. DiskOrdered'
    BY <1>3, <2>1, <2>2, Contents DEF DiskOrdered, LoadFails
  <2> QED
    BY <1>1, <1>2, <2>1, <2>3, <2>4, StopMoves, IdlePlaced, OthersKeepPlace
<1> QED
  BY <1>5, <1>6, <1>7

\* Where a working process may be told to go, whatever the command wrote on the way.
LEMMA WorkerGoesOn ==
    ASSUME FilesInv, NEW s \in Slots, NEW step \in WorkSteps, Goto(s, step),
           run[s].at \in WorkSteps, journal' # Absent, DiskTyped', DiskOrdered',
           step \in {"stat", "create", "copy"} => run[s].kind = "register",
           step = "gate" => run[s].kind = "ingest",
           step \in {"open", "write", "publish"} => run[s].kind \in {"ingest", "refresh"},
           step \in {"keep", "restore"} => run[s].kind = "refresh",
           step = "publish" => snapTmp' = BatchOf(s)
    PROVE  FilesInv'
<1>1. run[s] \in Process /\ Placed(run[s]) /\ run \in [Slots -> Process] /\ step \in Steps
  BY DEF FilesInv, WorkSteps
<1>2. /\ run' \in [Slots -> Process] /\ \A t \in Slots \ {s} : run'[t] = run[t]
      /\ run'[s].at = step /\ run'[s].kind = run[s].kind /\ run'[s].of = run[s].of
  BY <1>1, GotoMoves
<1>3. Placed(run[s])'
  <2>1. [kind |-> run[s].kind, of |-> run[s].of] \in Batches
    BY <1>1 DEF Placed
  <2>2. step \notin InitSteps /\ step # "resolve"
    BY DEF WorkSteps, InitSteps, Steps
  <2> QED
    BY <1>2, <2>1, <2>2 DEF Placed, BatchOf, InitSteps
<1> QED
  BY <1>2, <1>3, OthersKeepPlace

\* A working process that ends, or is cut off.
LEMMA WorkerEnds ==
    ASSUME FilesInv, NEW s \in Slots, Stop(s), journal # Absent => journal' # Absent,
           DiskTyped', DiskOrdered'
    PROVE  FilesInv'
BY StopMoves, IdlePlaced, OthersKeepPlace DEF FilesInv

\* The steps of a command that read, decide and append.
LEMMA AppendingFilesInv ==
    ASSUME FilesInv, NEW s \in Slots,
           Stat(s) \/ Probe(s) \/ Keep(s) \/ AppendRead(s) \/ AppendRename(s)
    PROVE  FilesInv'
<1>1. /\ run[s] \in Process /\ Placed(run[s]) /\ run \in [Slots -> Process]
      /\ DiskOrdered /\ DiskTyped
  BY DEF FilesInv
<1>2. /\ run[s].at \in {"stat", "probe", "keep", "read", "rename"}
      /\ run[s].at \in WorkSteps
  BY DEF Stat, Probe, Keep, AppendRead, AppendRename, At, WorkSteps, InitSteps, Steps
<1>3. /\ journal # Absent /\ BatchOf(s) \in Batches
      /\ run[s].kind \in {"register", "ingest", "refresh"}
  BY <1>1, <1>2, BatchKinds DEF Placed, BatchOf
<1>4. journal \in Seq(Batches) /\ dir /\ ~LoadFails
  BY <1>1, <1>3 DEF DiskTyped, DiskOrdered
<1>5. ASSUME UNCHANGED <<disk, faults>>
      PROVE  DiskTyped' /\ DiskOrdered' /\ journal' # Absent
  BY <1>1, <1>3, <1>5 DEF disk, DiskTyped, DiskOrdered, LoadFails
<1>6. ASSUME Stop(s), UNCHANGED <<disk, faults>> PROVE FilesInv'
  BY <1>5, <1>6, WorkerEnds
<1>7. CASE Stat(s)
  <2>1. Stop(s) \/ Goto(s, "probe")
    BY <1>7 DEF Stat
  <2>2. UNCHANGED <<disk, faults>>
    BY <1>7 DEF Stat
  <2>3. CASE Goto(s, "probe")
    BY <1>2, <1>5, <2>2, <2>3, WorkerGoesOn DEF WorkSteps, InitSteps, Steps
  <2> QED
    BY <1>6, <2>1, <2>2, <2>3
<1>8. CASE Probe(s)
  <2>1. UNCHANGED <<disk, faults>>
    BY <1>8 DEF Probe
  <2>2. \/ Stop(s)
        \/ run[s].kind = "refresh" /\ Goto(s, "keep")
        \/ run[s].kind = "register" /\ Goto(s, "create")
        \/ run[s].kind = "ingest" /\ Goto(s, "gate")
        \/ Goto(s, "read")
    <3>1. CASE run[s].kind = "refresh"
      BY <1>8, <3>1 DEF Probe
    <3>2. CASE run[s].kind # "refresh" /\ Known(BatchOf(s))
      <4>1. Goto(s, IF run[s].kind = "register" THEN "create" ELSE "gate")
        BY <1>8, <3>2 DEF Probe
      <4> QED
        BY <1>3, <3>2, <4>1
    <3>3. CASE run[s].kind # "refresh" /\ ~Known(BatchOf(s))
      BY <1>8, <3>3 DEF Probe
    <3> QED
      BY <3>1, <3>2, <3>3
  <2>3. ASSUME NEW step \in {"keep", "create", "gate", "read"}, Goto(s, step),
               step = "keep" => run[s].kind = "refresh",
               step = "create" => run[s].kind = "register",
               step = "gate" => run[s].kind = "ingest"
        PROVE  FilesInv'
    BY <1>2, <1>5, <2>1, <2>3, WorkerGoesOn DEF WorkSteps, InitSteps, Steps
  <2> QED
    BY <1>6, <2>1, <2>2, <2>3
<1>9. CASE Keep(s) \/ AppendRead(s)
  <2>1. /\ UNCHANGED <<disk, faults>> /\ run' \in [Slots -> Process]
        /\ \A t \in Slots \ {s} : run'[t] = run[t]
        /\ run'[s].kind = run[s].kind /\ run'[s].of = run[s].of
        /\ run'[s].at \in {"read", "rename"}
    <3>1. CASE Keep(s)
      BY <1>1, <1>4, <3>1 DEF Keep, Process, Steps
    <3>2. CASE AppendRead(s)
      BY <1>1, <1>4, <3>2 DEF AppendRead, Process, Steps
    <3> QED
      BY <1>9, <3>1, <3>2
  <2>2. Placed(run[s])'
    BY <1>3, <2>1 DEF Placed, InitSteps, WorkSteps, Steps, BatchOf, disk
  <2> QED
    BY <1>5, <2>1, <2>2, OthersKeepPlace
<1>10. CASE AppendRename(s)
  <2>1. journal' = Append(run[s].seen, BatchOf(s)) /\ UNCHANGED <<dir, snap, snapTmp, files, faults>>
    BY <1>10 DEF AppendRename
  <2>2. journal' \in Seq(Batches)
    BY <1>1, <1>3, <2>1 DEF Process
  <2>3. DiskTyped' /\ DiskOrdered' /\ journal' # Absent
    BY <1>1, <1>4, <2>1, <2>2, Contents DEF DiskTyped, DiskOrdered, LoadFails
  <2>4. \/ run[s].kind = "register" /\ Goto(s, "create")
        \/ run[s].kind = "ingest" /\ Goto(s, "gate")
        \/ run[s].kind = "refresh" /\ Goto(s, "open")
    BY <1>3, <1>10 DEF AppendRename
  <2>5. ASSUME NEW step \in {"create", "gate", "open"}, Goto(s, step),
               step = "create" => run[s].kind = "register",
               step = "gate" => run[s].kind = "ingest",
               step = "open" => run[s].kind = "refresh"
        PROVE  FilesInv'
    BY <1>2, <2>3, <2>5, WorkerGoesOn DEF WorkSteps, InitSteps, Steps
  <2> QED
    BY <2>4, <2>5
<1> QED
  BY <1>7, <1>8, <1>9, <1>10

\* The steps that copy a proposal, save the snapshot and roll the journal back.
LEMMA WritingFilesInv ==
    ASSUME FilesInv, NEW s \in Slots,
           \/ CopyCreate(s) \/ CopyWrite(s) \/ SaveGate(s) \/ SaveOpen(s)
           \/ SaveWrite(s) \/ SaveRename(s) \/ Restore(s)
    PROVE  FilesInv'
<1>1. /\ run[s] \in Process /\ Placed(run[s]) /\ run \in [Slots -> Process]
      /\ DiskOrdered /\ DiskTyped
  BY DEF FilesInv
<1>2. /\ run[s].at \in {"create", "copy", "gate", "open", "write", "publish", "restore"}
      /\ run[s].at \in WorkSteps
  BY DEF CopyCreate, CopyWrite, SaveGate, SaveOpen, SaveWrite, SaveRename, Restore, At,
         WorkSteps, InitSteps, Steps
<1>3. /\ journal # Absent /\ BatchOf(s) \in Batches
      /\ run[s].kind \in {"register", "ingest", "refresh"}
      /\ run[s].kind = "register" => run[s].of \in Stems
  BY <1>1, <1>2, BatchKinds DEF Placed, BatchOf
<1>4. journal \in Seq(Batches) /\ dir /\ ~LoadFails
  BY <1>1, <1>3 DEF DiskTyped, DiskOrdered
<1>5. ASSUME UNCHANGED <<dir, snap, journal>> PROVE DiskOrdered' /\ journal' # Absent
  BY <1>1, <1>3, <1>5 DEF DiskOrdered, LoadFails
<1>6. CASE CopyCreate(s)
  <2>1. run[s].kind = "register" /\ UNCHANGED <<dir, snap, snapTmp, journal, faults>>
    BY <1>1, <1>6 DEF CopyCreate, At, Placed
  <2>2. DiskTyped'
    BY <1>1, <1>3, <1>6, <2>1 DEF CopyCreate, DiskTyped
  <2>3. Stop(s) \/ Goto(s, "copy")
    BY <1>6 DEF CopyCreate
  <2>4. CASE Goto(s, "copy")
    BY <1>2, <1>5, <2>1, <2>2, <2>4, WorkerGoesOn DEF WorkSteps, InitSteps, Steps
  <2> QED
    BY <1>5, <2>1, <2>2, <2>3, <2>4, WorkerEnds
<1>7. CASE CopyWrite(s)
  <2>1. /\ run[s].kind = "register" /\ UNCHANGED <<dir, snap, snapTmp, journal, faults>>
        /\ files' = [files EXCEPT ![run[s].of] = "whole"] /\ Stop(s)
    BY <1>1, <1>7 DEF CopyWrite, At, Placed
  <2>2. DiskTyped'
    BY <1>1, <1>3, <2>1 DEF DiskTyped
  <2> QED
    BY <1>5, <2>1, <2>2, WorkerEnds
<1>8. CASE SaveGate(s)
  <2>1. /\ run[s].kind \in {"ingest", "refresh"} /\ UNCHANGED <<dir, snap, snapTmp, journal, files, faults>>
        /\ Goto(s, "open") \/ Stop(s)
    BY <1>1, <1>8 DEF SaveGate, At, Placed, disk
  <2>2. DiskTyped'
    BY <1>1, <2>1 DEF DiskTyped
  <2>3. CASE Goto(s, "open")
    BY <1>2, <1>5, <2>1, <2>2, <2>3, WorkerGoesOn DEF WorkSteps, InitSteps, Steps
  <2> QED
    BY <1>5, <2>1, <2>2, <2>3, WorkerEnds
<1>9. CASE SaveOpen(s) \/ SaveWrite(s)
  <2>1. /\ run[s].kind \in {"ingest", "refresh"} /\ UNCHANGED <<dir, snap, journal, files, faults>>
        /\ \/ snapTmp' = Torn /\ Goto(s, "write")
           \/ snapTmp' = BatchOf(s) /\ Goto(s, "publish")
    BY <1>1, <1>9 DEF SaveOpen, SaveWrite, At, Placed
  <2>2. DiskTyped'
    BY <1>1, <1>3, <2>1 DEF DiskTyped
  <2>3. ASSUME NEW step \in {"write", "publish"}, Goto(s, step), step = "publish" => snapTmp' = BatchOf(s)
        PROVE  FilesInv'
    BY <1>2, <1>5, <2>1, <2>2, <2>3, WorkerGoesOn DEF WorkSteps, InitSteps, Steps
  <2> QED
    BY <2>1, <2>3
<1>10. CASE SaveRename(s)
  <2>1. /\ snapTmp = BatchOf(s) /\ snap' = snapTmp /\ snapTmp' = Absent /\ Stop(s)
        /\ UNCHANGED <<dir, journal, files, faults>>
    BY <1>1, <1>10 DEF SaveRename, At, Placed, BatchOf
  <2>2. DiskTyped'
    BY <1>1, <1>3, <2>1 DEF DiskTyped
  <2>3. DiskOrdered' /\ journal' # Absent
    BY <1>3, <1>4, <2>1, Contents DEF DiskOrdered, LoadFails
  <2> QED
    BY <2>1, <2>2, <2>3, WorkerEnds
<1>11. CASE Restore(s)
  <2>1. /\ journal' = run[s].orig /\ Stop(s) /\ UNCHANGED <<dir, snap, snapTmp, files, faults>>
    BY <1>11 DEF Restore
  <2>2. journal' \in Seq(Batches)
    BY <1>1, <2>1 DEF Process
  <2>3. DiskTyped' /\ DiskOrdered' /\ journal' # Absent
    BY <1>1, <1>4, <2>1, <2>2, Contents DEF DiskTyped, DiskOrdered, LoadFails
  <2> QED
    BY <2>1, <2>3, WorkerEnds
<1> QED
  BY <1>6, <1>7, <1>8, <1>9, <1>10, <1>11

\* A process dies, or one of its writes fails.
LEMMA FaultFilesInv ==
    ASSUME FilesInv, NEW s \in Slots, Crash(s) \/ WriteFails(s)
    PROVE  FilesInv'
<1>1. /\ run[s] \in Process /\ Placed(run[s]) /\ run \in [Slots -> Process]
      /\ DiskOrdered /\ DiskTyped
  BY DEF FilesInv
<1>2. UNCHANGED <<dir, snap, journal>> /\ faults' \in 0 .. MaxFaults
  BY <1>1, StateDirAssumption DEF Crash, WriteFails, Fault, disk, DiskTyped
<1>3. DiskOrdered' /\ (journal # Absent => journal' # Absent)
  BY <1>1, <1>2 DEF DiskOrdered, LoadFails
<1>4. ASSUME files' \in [Stems -> {"whole", Absent, Torn}], snapTmp' \in Batches \cup {Absent, Torn}
      PROVE  DiskTyped'
  BY <1>1, <1>2, <1>4 DEF DiskTyped
<1>5. ASSUME Stop(s), files' \in [Stems -> {"whole", Absent, Torn}],
             snapTmp' \in Batches \cup {Absent, Torn}
      PROVE  FilesInv'
  BY <1>3, <1>4, <1>5, WorkerEnds
<1>6. files \in [Stems -> {"whole", Absent, Torn}] /\ snapTmp \in Batches \cup {Absent, Torn}
  BY <1>1 DEF DiskTyped
<1>7. CASE Crash(s)
  BY <1>5, <1>6, <1>7 DEF Crash, disk
<1>8. CASE /\ run[s].at \in {"mkdir", "seedOpen", "seedWrite", "seedJournal", "rename", "create", "restore"}
           /\ Stop(s) /\ UNCHANGED <<files, snapTmp>>
  BY <1>5, <1>6, <1>8
<1>9. CASE /\ At(s, "copy")
           /\ files' = [files EXCEPT ![run[s].of] = Absent]
           /\ Stop(s) /\ UNCHANGED snapTmp
  <2>1. files' \in [Stems -> {"whole", Absent, Torn}]
    BY <1>6, <1>9
  <2> QED
    BY <1>5, <1>6, <1>9, <2>1
<1>10. CASE /\ run[s].at \in {"open", "write", "publish"}
            /\ snapTmp' = IF At(s, "open") THEN snapTmp ELSE Absent
            /\ IF run[s].kind = "refresh" THEN Goto(s, "restore") ELSE Stop(s)
            /\ UNCHANGED files
  <2>1. /\ files' \in [Stems -> {"whole", Absent, Torn}]
        /\ snapTmp' \in Batches \cup {Absent, Torn}
    BY <1>6, <1>10
  <2>2. CASE Stop(s)
    BY <1>5, <2>1, <2>2
  <2>3. CASE run[s].kind = "refresh" /\ Goto(s, "restore")
    <3>1. run[s].at \in WorkSteps /\ "restore" \in WorkSteps
      BY <1>10 DEF WorkSteps, InitSteps, Steps
    <3>2. journal' # Absent
      BY <1>1, <1>3, <3>1 DEF Placed
    <3> QED
      BY <1>3, <1>4, <2>1, <2>3, <3>1, <3>2, WorkerGoesOn
  <2> QED
    BY <1>10, <2>2, <2>3
<1> QED
  BY <1>7, <1>8, <1>9, <1>10 DEF WriteFails

\* Every step keeps the files in order.
LEMMA NextFilesInv == FilesInv /\ [Next]_vars => FilesInv'
<1> SUFFICES ASSUME FilesInv, [Next]_vars PROVE FilesInv'
  OBVIOUS
<1>1. CASE UNCHANGED vars
  BY <1>1 DEF vars, disk, FilesInv, DiskTyped, DiskOrdered, LoadFails, Placed
<1>2. ASSUME NEW s \in Slots, Step(s) PROVE FilesInv'
  BY <1>2, PreFlightFilesInv, SeedingFilesInv, AppendingFilesInv, WritingFilesInv DEF Step
<1> QED
  BY <1>1, <1>2, StartFilesInv, FaultFilesInv DEF Next

LEMMA FilesInvariant == Spec => []FilesInv
BY InitFilesInv, NextFilesInv, PTL DEF Spec

-----------------------------------------------------------------------------
(***************************************************************************)
(* The files of a project are well formed at every moment, whichever       *)
(* commands run, die or fail to write: a process that works has a batch to *)
(* work on, and what it is about to rename into place is complete          *)
(* (ingest/snapshot_saver.go, writeAtomic; mapping_store.go, Append).      *)
(***************************************************************************)
THEOREM FilesWellFormed == Spec => []TypeOK
BY FilesInvariant, FilesInvTyped, PTL

(***************************************************************************)
(* A project that resolves never stops resolving, for any number of        *)
(* crashes and failed writes (lifecycle/project_resolver.go, Resolve).     *)
(***************************************************************************)
THEOREM ReadyForGood == Spec => StaysResolvable
<1>1. FilesInv => (Resolve = "ready" <=> journal # Absent)
  BY DEF FilesInv, DiskOrdered, Resolve, JournalUnreadable
<1>2. ASSUME FilesInv, FilesInv', Next PROVE journal # Absent => journal' # Absent
  <2> SUFFICES ASSUME journal # Absent, journal' # journal PROVE journal' # Absent
    OBVIOUS
  <2>1. PICK s \in Slots : SeedJournal(s) \/ AppendRename(s) \/ Restore(s)
    BY <1>2 DEF Next, StartAny, Start, Step, Crash, WriteFails, PreFlight, Mkdir, SeedSnapshot,
       Stat, Probe, Keep, AppendRead, CopyCreate, CopyWrite, SaveGate, SaveOpen, SaveWrite,
       SaveRename, disk
  <2>2. run[s].seen \in Seq(Batches) /\ run[s].orig \in Seq(Batches) /\ Placed(run[s])
    BY <1>2 DEF FilesInv, Process
  <2>3. CASE SeedJournal(s)
    BY <2>2, <2>3 DEF SeedJournal, At, Placed, InitSteps
  <2>4. CASE AppendRename(s)
    <3>1. BatchOf(s) \in Batches
      BY <2>2, <2>4 DEF AppendRename, At, Placed, BatchOf, WorkSteps, InitSteps, Steps
    <3>2. journal' \in Seq(Batches)
      BY <2>2, <2>4, <3>1 DEF AppendRename
    <3> QED
      BY <3>2, Contents
  <2>5. CASE Restore(s)
    BY <2>2, <2>5, Contents DEF Restore
  <2> QED
    BY <2>1, <2>3, <2>4, <2>5
<1>3. (FilesInv => (Resolve = "ready" <=> journal # Absent))'
  BY <1>1, PTL
<1>4. FilesInv /\ FilesInv' /\ [Next]_vars => [Resolve = "ready" => Resolve' = "ready"]_vars
  BY <1>1, <1>2, <1>3
<1> QED
  BY <1>4, FilesInvariant, PTL DEF Spec, StaysResolvable

(***************************************************************************)
(* doctor and the pre-flight agree on every content of the disk            *)
(* (cmd/spex/doctor.go, diagnose; lifecycle/project_resolver.go, Resolve). *)
(***************************************************************************)
THEOREM DoctorAlwaysAgrees == Spec => []DoctorAgrees
<1>1. DoctorAgrees
  BY DEF DoctorAgrees, diagnose, Resolve, LoadFails, JournalUnreadable, diagnoseSnapshot,
         diagnoseJournal
<1> QED
  BY <1>1, PTL

-----------------------------------------------------------------------------
(***************************************************************************)
(* The ledger.  Two registrations side by side lose an event, so from here *)
(* on one process runs at a time.  What it has found out when it wrote or  *)
(* read something then still holds at its next step.                       *)
(***************************************************************************)
OneProcess == \A s, t \in Slots : s = t

\* What the process, given as its record, knows of the journal.
Knows(r) ==
    LET b == [kind |-> r.kind, of |-> r.of]
    IN  /\ r.at = "read" /\ r.kind # "refresh" => ~Known(b)
        /\ r.at = "rename" => r.seen = journal /\ (r.kind # "refresh" => ~Known(b))
        /\ r.at \in {"read", "rename"} /\ r.kind = "refresh" => r.orig = journal
        /\ r.at \in {"create", "copy", "gate", "open", "write", "publish"} => Known(b)
        /\ r.at \in {"open", "write", "publish", "restore"} /\ r.kind = "refresh" =>
              journal = Append(r.orig, b)

LedgerInv ==
    /\ FilesInv
    /\ \A s \in Slots : Knows(run[s])
    /\ NoFileWithoutEvent

\* The refinement mapping of ImplementsLedger.
ledgerVars ==
    << journal # Absent, IF journal = Absent THEN <<>> ELSE journal,
       IF LoadFails THEN Seed ELSE snap, {x \in Stems : files[x] # Absent} >>

LedgerStep == L!Next \/ UNCHANGED ledgerVars

\* A process that does not work on a batch knows nothing.
LEMMA NothingKnown ==
    ASSUME NEW s, run'[s].at \in {"idle", "resolve", "stat", "probe", "keep"} \cup InitSteps
    PROVE  Knows(run[s])'
BY DEF Knows, InitSteps

\* A step that leaves the snapshot, the journal and the proposals alone.
LEMMA LedgerStutters ==
    ASSUME LedgerInv, OneProcess, FilesInv', NEW s \in Slots,
           UNCHANGED <<snap, journal, files>>, Knows(run[s])'
    PROVE  LedgerInv' /\ LedgerStep
<1>1. UNCHANGED ledgerVars
  BY DEF ledgerVars, LoadFails
<1>2. NoFileWithoutEvent'
  BY DEF LedgerInv, NoFileWithoutEvent, Known
<1>3. \A t \in Slots : Knows(run[t])'
  <2>1. \A t \in Slots : t = s
    BY DEF OneProcess
  <2> QED
    BY <2>1
<1> QED
  BY <1>1, <1>2, <1>3 DEF LedgerInv, LedgerStep

\* Starting, the pre-flight, and init up to its last step.
LEMMA BeginningKeepsLedger ==
    ASSUME LedgerInv, OneProcess, FilesInv', NEW s \in Slots,
           StartAny(s) \/ PreFlight(s) \/ Mkdir(s) \/ SeedSnapshot(s) \/ Crash(s)
    PROVE  LedgerInv' /\ LedgerStep
<1>1. run[s] \in Process /\ Placed(run[s]) /\ run \in [Slots -> Process] /\ DiskOrdered
  BY DEF LedgerInv, FilesInv
<1>2. run'[s].at \in {"idle", "resolve", "stat", "probe", "keep"} \cup InitSteps
  <2>1. CASE Crash(s)
    BY <1>1, <2>1, StopMoves DEF Crash
  <2>2. CASE StartAny(s)
    <3>1. PICK k, x : Start(s, k, x)
      BY <2>2 DEF StartAny
    <3> QED
      BY <1>1, <3>1 DEF Start
  <2>3. CASE PreFlight(s)
    <3>1. Stop(s) \/ Goto(s, "mkdir") \/ Goto(s, "stat") \/ Goto(s, "probe")
      BY <2>3 DEF PreFlight
    <3> QED
      BY <1>1, <3>1, StopMoves, GotoMoves DEF InitSteps, Steps
  <2>4. CASE Mkdir(s) \/ SeedSnapshot(s)
    <3>1. Goto(s, "seedOpen") \/ Goto(s, "seedWrite") \/ Goto(s, "seedJournal")
      BY <2>4 DEF Mkdir, SeedSnapshot
    <3> QED
      BY <1>1, <3>1, GotoMoves DEF InitSteps, Steps
  <2> QED
    BY <2>1, <2>2, <2>3, <2>4
<1>3. Knows(run[s])'
  BY <1>2, NothingKnown
<1>4. CASE ~SeedSnapshot(s)
  <2>1. UNCHANGED <<snap, journal, files>>
    BY <1>4 DEF StartAny, Start, PreFlight, Mkdir, Crash, disk
  <2> QED
    BY <1>3, <2>1, LedgerStutters
<1>5. CASE SeedSnapshot(s)
  <2>1. UNCHANGED <<journal, files>> /\ snap' \in {Torn, Seed}
    BY <1>5 DEF SeedSnapshot
  <2>2. journal = Absent /\ snap \notin Batches
    BY <1>1, <1>5 DEF SeedSnapshot, At, Placed, InitSteps, DiskOrdered
  <2>3. snap \in {Seed, Absent, Torn}
    BY <2>2 DEF LedgerInv, FilesInv, DiskTyped
  <2>4. UNCHANGED ledgerVars
    BY <2>1, <2>3, Contents DEF ledgerVars, LoadFails
  <2>5. NoFileWithoutEvent'
    BY <2>1 DEF LedgerInv, NoFileWithoutEvent, Known
  <2>6. \A t \in Slots : t = s
    BY DEF OneProcess
  <2>7. \A t \in Slots : Knows(run[t])'
    BY <1>3, <2>6
  <2> QED
    BY <2>4, <2>5, <2>7 DEF LedgerInv, LedgerStep
<1> QED
  BY <1>4, <1>5

\* The last step of init creates the project.
LEMMA InitCreates ==
    ASSUME LedgerInv, OneProcess, FilesInv', NEW s \in Slots, SeedJournal(s)
    PROVE  LedgerInv' /\ LedgerStep
<1>1. run[s] \in Process /\ Placed(run[s]) /\ run \in [Slots -> Process]
  BY DEF LedgerInv, FilesInv
<1>2. /\ journal = Absent /\ journal' = <<>> /\ Stop(s)
      /\ UNCHANGED <<dir, snap, snapTmp, files, faults>>
  BY <1>1 DEF SeedJournal, At, Placed, InitSteps
<1>3. \A x \in Stems : files[x] = Absent
  BY <1>2 DEF LedgerInv, NoFileWithoutEvent
<1>4. NoFileWithoutEvent'
  BY <1>2, <1>3 DEF NoFileWithoutEvent
<1>5. \A t \in Slots : Knows(run[t])'
  <2>1. Knows(run[s])'
    BY <1>1, <1>2, StopMoves, NothingKnown
  <2> QED
    BY <2>1 DEF OneProcess
<1>6. L!Create
  <2>1. <<>> # Absent
    <3>1. <<>> \in Seq(Batches)
      OBVIOUS
    <3> QED
      BY <3>1, Contents
  <2> QED
    BY <1>2, <2>1 DEF L!Create, LoadFails
<1> QED
  BY <1>4, <1>5, <1>6 DEF LedgerInv, LedgerStep, L!Next

\* The steps that only read or write aside: what they find out, they know.
LEMMA ReadingKeepsLedger ==
    ASSUME LedgerInv, OneProcess, FilesInv', NEW s \in Slots,
           \/ Stat(s) \/ Probe(s) \/ Keep(s) \/ AppendRead(s)
           \/ SaveGate(s) \/ SaveOpen(s) \/ SaveWrite(s)
    PROVE  LedgerInv' /\ LedgerStep
<1>1. /\ run[s] \in Process /\ Placed(run[s]) /\ Knows(run[s]) /\ run \in [Slots -> Process]
  BY DEF LedgerInv, FilesInv
<1>2. UNCHANGED <<snap, journal, files>>
  BY DEF Stat, Probe, Keep, AppendRead, SaveGate, SaveOpen, SaveWrite, disk
<1>3. Knows(run[s])'
  <2>1. CASE Stop(s)
    BY <1>1, <2>1, StopMoves, NothingKnown
  <2>2. CASE Stat(s)
    <3>1. Stop(s) \/ Goto(s, "probe")
      BY <2>2 DEF Stat
    <3> QED
      BY <1>1, <2>1, <3>1, GotoMoves, NothingKnown DEF Steps
  <2>3. CASE Probe(s)
    <3>1. \/ Stop(s) \/ Goto(s, "keep")
          \/ Known(BatchOf(s)) /\ run[s].kind # "refresh" /\ (Goto(s, "create") \/ Goto(s, "gate"))
          \/ ~Known(BatchOf(s)) /\ run[s].kind # "refresh" /\ Goto(s, "read")
      <4>1. CASE run[s].kind = "refresh"
        BY <2>3, <4>1 DEF Probe
      <4>2. CASE run[s].kind # "refresh" /\ Known(BatchOf(s))
        <5>1. Goto(s, IF run[s].kind = "register" THEN "create" ELSE "gate")
          BY <2>3, <4>2 DEF Probe
        <5> QED
          BY <4>2, <5>1
      <4>3. CASE run[s].kind # "refresh" /\ ~Known(BatchOf(s))
        BY <2>3, <4>3 DEF Probe
      <4> QED
        BY <4>1, <4>2, <4>3
    <3>2. CASE Goto(s, "keep")
      BY <1>1, <3>2, GotoMoves, NothingKnown DEF Steps
    <3>3. ASSUME NEW step \in {"create", "gate", "read"}, Goto(s, step), run[s].kind # "refresh",
                 IF step = "read" THEN ~Known(BatchOf(s)) ELSE Known(BatchOf(s))
          PROVE  Knows(run[s])'
      <4>1. run'[s].at = step /\ run'[s].kind = run[s].kind /\ run'[s].of = run[s].of
        BY <1>1, <3>3, GotoMoves DEF Steps
      <4> QED
        BY <1>2, <3>3, <4>1 DEF Knows, Known, BatchOf
    <3> QED
      BY <2>1, <3>1, <3>2, <3>3
  <2>4. CASE Keep(s)
    <3>1. /\ run'[s].at = "read" /\ run'[s].kind = run[s].kind /\ run'[s].orig = journal
          /\ run[s].kind = "refresh"
      BY <1>1, <2>4 DEF Keep, Process, At, Placed
    <3> QED
      BY <1>2, <3>1 DEF Knows
  <2>5. CASE AppendRead(s)
    <3>1. /\ run'[s].at = "rename" /\ run'[s].kind = run[s].kind /\ run'[s].of = run[s].of
          /\ run'[s].seen = journal /\ run'[s].orig = run[s].orig /\ run[s].at = "read"
      BY <1>1, <2>5 DEF AppendRead, Process, At
    <3> QED
      BY <1>1, <1>2, <3>1 DEF Knows, Known
  <2>6. CASE SaveGate(s)
    <3>1. Stop(s) \/ Goto(s, "open")
      BY <2>6 DEF SaveGate
    <3>2. CASE Goto(s, "open")
      <4>1. /\ run'[s].at = "open" /\ run'[s].kind = run[s].kind /\ run'[s].of = run[s].of
            /\ run[s].at = "gate" /\ run'[s].orig = run[s].orig
        BY <1>1, <2>6, <3>2, GotoMoves DEF Steps, SaveGate, At
      <4>2. run[s].kind # "refresh"
        BY <1>1, <4>1 DEF Placed
      <4> QED
        BY <1>1, <1>2, <4>1, <4>2 DEF Knows, Known
    <3> QED
      BY <2>1, <3>1, <3>2
  <2>7. CASE SaveOpen(s) \/ SaveWrite(s)
    <3>1. /\ run'[s].at \in {"write", "publish"} /\ run'[s].kind = run[s].kind
          /\ run'[s].of = run[s].of /\ run'[s].orig = run[s].orig
          /\ run[s].at \in {"open", "write"}
      BY <1>1, <2>7, GotoMoves DEF Steps, SaveOpen, SaveWrite, At
    <3> QED
      BY <1>1, <1>2, <3>1 DEF Knows, Known
  <2> QED
    BY <2>2, <2>3, <2>4, <2>5, <2>6, <2>7
<1> QED
  BY <1>2, <1>3, LedgerStutters

\* Append enters the batch, after what the command has read.
LEMMA AppendCommits ==
    ASSUME LedgerInv, OneProcess, FilesInv', NEW s \in Slots, AppendRename(s)
    PROVE  LedgerInv' /\ LedgerStep
<1> DEFINE b == BatchOf(s)
<1>1. /\ run[s] \in Process /\ Placed(run[s]) /\ Knows(run[s]) /\ run \in [Slots -> Process]
      /\ run[s].at = "rename"
  BY DEF LedgerInv, FilesInv, AppendRename, At
<1>2. /\ journal # Absent /\ b \in Batches /\ b.kind = run[s].kind
      /\ run[s].kind \in {"register", "ingest", "refresh"}
  BY <1>1, BatchKinds DEF Placed, BatchOf, WorkSteps, InitSteps, Steps
<1>3. /\ journal \in Seq(Batches) /\ run[s].seen = journal
      /\ run[s].kind = "refresh" => run[s].orig = journal
      /\ run[s].kind # "refresh" => ~Known(b)
  BY <1>1, <1>2 DEF LedgerInv, FilesInv, DiskTyped, Knows, BatchOf
<1>4. journal' = Append(journal, b) /\ UNCHANGED <<dir, snap, snapTmp, files, faults>>
  BY <1>3 DEF AppendRename
<1>5. journal' \in Seq(Batches) /\ journal' # Absent
  BY <1>2, <1>3, <1>4, Contents
<1> HIDE DEF b
<1>6. /\ \E i \in DOMAIN journal' : journal'[i] = b
      /\ \A c : Known(c) => \E i \in DOMAIN journal' : journal'[i] = c
  BY <1>2, <1>3, <1>4 DEF Known
<1>7. NoFileWithoutEvent'
  BY <1>4, <1>5, <1>6 DEF LedgerInv, NoFileWithoutEvent, Known
<1>8. Knows(run[s])'
  <2>1. \/ run[s].kind = "register" /\ Goto(s, "create")
        \/ run[s].kind = "ingest" /\ Goto(s, "gate")
        \/ run[s].kind = "refresh" /\ Goto(s, "open")
    BY <1>2 DEF AppendRename
  <2>2. /\ run'[s].at \in {"create", "gate", "open"}
        /\ run'[s].kind = run[s].kind /\ run'[s].of = run[s].of /\ run'[s].orig = run[s].orig
    BY <1>1, <2>1, GotoMoves DEF Steps
  <2>3. [kind |-> run'[s].kind, of |-> run'[s].of] = b
    BY <2>2 DEF b, BatchOf
  <2> QED
    BY <1>3, <1>4, <1>6, <2>2, <2>3 DEF Knows, Known
<1>9. \A t \in Slots : Knows(run[t])'
  BY <1>8 DEF OneProcess
<1>10. L!Commit(b)
  <2>1. b.kind # "refresh" => ~L!Entered(b)
    BY <1>2, <1>3 DEF L!Entered, Known
  <2> QED
    BY <1>2, <1>4, <1>5, <2>1 DEF L!Commit, LoadFails
<1> QED
  BY <1>2, <1>7, <1>9, <1>10 DEF LedgerInv, LedgerStep, L!Next

\* Creating and writing the copy files the proposal, whose event is entered.
LEMMA CopyFiles ==
    ASSUME LedgerInv, OneProcess, FilesInv', NEW s \in Slots, CopyCreate(s) \/ CopyWrite(s)
    PROVE  LedgerInv' /\ LedgerStep
<1> DEFINE x == run[s].of
           b == [kind |-> "register", of |-> x]
<1>1. /\ run[s] \in Process /\ Placed(run[s]) /\ Knows(run[s]) /\ run \in [Slots -> Process]
      /\ run[s].at \in {"create", "copy"}
      /\ UNCHANGED <<dir, snap, snapTmp, journal, faults>>
  BY DEF LedgerInv, FilesInv, CopyCreate, CopyWrite, At
<1>2. /\ run[s].kind = "register" /\ journal # Absent /\ b \in Batches /\ x \in Stems /\ Known(b)
  BY <1>1, BatchKinds DEF Placed, Knows, WorkSteps, InitSteps, Steps
<1>3. Knows(run[s])'
  <2>1. CASE Stop(s)
    BY <1>1, <2>1, StopMoves, NothingKnown
  <2>2. CASE CopyCreate(s) /\ Goto(s, "copy")
    <3>1. run'[s].at = "copy" /\ run'[s].kind = run[s].kind /\ run'[s].of = run[s].of
      BY <1>1, <2>2, GotoMoves DEF Steps
    <3> QED
      BY <1>1, <1>2, <3>1 DEF Knows, Known
  <2> QED
    BY <2>1, <2>2 DEF CopyCreate, CopyWrite
<1>4. \A t \in Slots : Knows(run[t])'
  BY <1>3 DEF OneProcess
<1> HIDE DEF x, b
<1>5. \/ UNCHANGED files
      \/ \E c \in {"whole", Torn} : files' = [files EXCEPT ![x] = c]
  BY DEF CopyCreate, CopyWrite, x
<1>6. CASE UNCHANGED files
  BY <1>1, <1>3, <1>6, LedgerStutters
<1>7. ASSUME NEW c \in {"whole", Torn}, files' = [files EXCEPT ![x] = c]
      PROVE  LedgerInv' /\ LedgerStep
  <2>1. /\ files \in [Stems -> {"whole", Absent, Torn}] /\ c # Absent
    BY Contents DEF LedgerInv, FilesInv, DiskTyped
  <2>2. \A y \in Stems : files'[y] # Absent <=> (y = x \/ files[y] # Absent)
    BY <1>2, <1>7, <2>1
  <2>3. NoFileWithoutEvent'
    BY <1>1, <1>2, <2>2 DEF LedgerInv, NoFileWithoutEvent, Known, b
  <2>4. {y \in Stems : files'[y] # Absent} = {y \in Stems : files[y] # Absent} \cup {x}
    BY <1>2, <2>2
  <2>5. L!Entered(b)
    <3>1. PICK i \in DOMAIN journal : journal[i] = b
      BY <1>2 DEF Known
    <3>2. (IF journal = Absent THEN <<>> ELSE journal) = journal
      BY <1>2
    <3> QED
      BY <3>1, <3>2 DEF L!Entered
  <2>6. L!File(x)
    <3>1. b.kind = "register" /\ b.of = x
      BY DEF b
    <3>2. \E d \in Batches : d.kind = "register" /\ d.of = x /\ L!Entered(d)
      BY <1>2, <2>5, <3>1
    <3> QED
      BY <1>1, <2>4, <3>2 DEF L!File, LoadFails
  <2>7. \E y \in Stems : L!File(y) \/ L!Unfile(y)
    BY <1>2, <2>6 DEF L!File
  <2>8. L!Next
    BY <2>7 DEF L!Next
  <2> QED
    BY <1>4, <2>3, <2>8 DEF LedgerInv, LedgerStep
<1> QED
  BY <1>5, <1>6, <1>7

\* The rename of the snapshot saves the baseline of an entered batch.
LEMMA RenameSaves ==
    ASSUME LedgerInv, OneProcess, FilesInv', NEW s \in Slots, SaveRename(s)
    PROVE  LedgerInv' /\ LedgerStep
<1> DEFINE b == BatchOf(s)
<1>1. /\ run[s] \in Process /\ Placed(run[s]) /\ Knows(run[s]) /\ run \in [Slots -> Process]
      /\ run[s].at = "publish" /\ DiskOrdered
      /\ UNCHANGED <<dir, journal, files, faults>> /\ Stop(s)
  BY DEF LedgerInv, FilesInv, SaveRename, At
<1>2. /\ run[s].kind \in {"ingest", "refresh"} /\ journal # Absent /\ b \in Batches
      /\ b.kind # "register" /\ Known(b) /\ snap' = b
  BY <1>1 DEF Placed, Knows, BatchOf, SaveRename, WorkSteps, InitSteps, Steps
<1>3. ~LoadFails /\ ~LoadFails'
  BY <1>1, <1>2, Contents DEF DiskOrdered, LoadFails
<1>4. \A t \in Slots : Knows(run[t])'
  <2>1. Knows(run[s])'
    BY <1>1, StopMoves, NothingKnown
  <2> QED
    BY <2>1 DEF OneProcess
<1>5. NoFileWithoutEvent'
  BY <1>1 DEF LedgerInv, NoFileWithoutEvent, Known
<1> HIDE DEF b
<1>6. L!Save(b)
  BY <1>1, <1>2, <1>3 DEF L!Save, L!Entered, Known
<1> QED
  BY <1>2, <1>4, <1>5, <1>6 DEF LedgerInv, LedgerStep, L!Next

\* The roll-back of a refresh takes back its batch and nothing else.
LEMMA RestoreRetracts ==
    ASSUME LedgerInv, OneProcess, FilesInv', NEW s \in Slots, Restore(s)
    PROVE  LedgerInv' /\ LedgerStep
<1> DEFINE b == BatchOf(s)
           orig == run[s].orig
<1>1. /\ run[s] \in Process /\ Placed(run[s]) /\ Knows(run[s]) /\ run \in [Slots -> Process]
      /\ run[s].at = "restore"
      /\ UNCHANGED <<dir, snap, snapTmp, files, faults>> /\ journal' = orig /\ Stop(s)
  BY DEF LedgerInv, FilesInv, Restore, At
<1>2. /\ run[s].kind = "refresh" /\ journal # Absent /\ b \in Batches /\ b.kind = "refresh"
      /\ journal = Append(orig, b) /\ orig \in Seq(Batches)
  BY <1>1 DEF Placed, Knows, BatchOf, Process, WorkSteps, InitSteps, Steps
<1>3. \A t \in Slots : Knows(run[t])'
  <2>1. Knows(run[s])'
    BY <1>1, StopMoves, NothingKnown
  <2> QED
    BY <2>1 DEF OneProcess
<1> HIDE DEF b, orig
<1>4. /\ Len(journal) = Len(orig) + 1 /\ journal[Len(journal)] = b /\ Len(orig) \in Nat
      /\ SubSeq(journal, 1, Len(journal) - 1) = orig
      /\ \A i \in DOMAIN journal : (i \in DOMAIN orig /\ journal[i] = orig[i]) \/ journal[i] = b
  BY <1>2
<1>5. journal' # Absent
  BY <1>1, <1>2, Contents
<1>6. NoFileWithoutEvent'
  <2> SUFFICES ASSUME NEW x \in Stems, files[x] # Absent
               PROVE  \E i \in DOMAIN journal' : journal'[i] = [kind |-> "register", of |-> x]
    BY <1>1, <1>5 DEF NoFileWithoutEvent, Known
  <2>1. PICK i \in DOMAIN journal : journal[i] = [kind |-> "register", of |-> x]
    BY DEF LedgerInv, NoFileWithoutEvent, Known
  <2>2. journal[i] # b
    BY <1>2, <2>1
  <2> QED
    BY <1>1, <1>4, <2>1, <2>2
<1>7. L!Retract
  <2>1. journal # <<>>
    BY <1>4
  <2> QED
    BY <1>1, <1>2, <1>4, <1>5, <2>1 DEF L!Retract, LoadFails
<1> QED
  BY <1>3, <1>6, <1>7 DEF LedgerInv, LedgerStep, L!Next

\* A write that fails takes at most the copy it was making away again.
LEMMA FailureKeepsLedger ==
    ASSUME LedgerInv, OneProcess, FilesInv', NEW s \in Slots, WriteFails(s)
    PROVE  LedgerInv' /\ LedgerStep
<1>1. /\ run[s] \in Process /\ Placed(run[s]) /\ Knows(run[s]) /\ run \in [Slots -> Process]
      /\ UNCHANGED <<dir, snap, journal>>
  BY DEF LedgerInv, FilesInv, WriteFails
<1>2. CASE Stop(s) /\ UNCHANGED files
  BY <1>1, <1>2, StopMoves, NothingKnown, LedgerStutters
<1>3. CASE /\ At(s, "copy") /\ Stop(s)
           /\ files' = [files EXCEPT ![run[s].of] = Absent]
  <2> DEFINE x == run[s].of
  <2>1. x \in Stems
    BY <1>1, <1>3, BatchKinds DEF Placed, At, WorkSteps, InitSteps, Steps
  <2>2. files \in [Stems -> {"whole", Absent, Torn}]
    BY DEF LedgerInv, FilesInv, DiskTyped
  <2>3. \A y \in Stems : files'[y] # Absent <=> (y # x /\ files[y] # Absent)
    BY <1>3, <2>1, <2>2
  <2>4. NoFileWithoutEvent'
    BY <1>1, <2>3 DEF LedgerInv, NoFileWithoutEvent, Known
  <2>5. \A t \in Slots : Knows(run[t])'
    <3>1. Knows(run[s])'
      BY <1>1, <1>3, StopMoves, NothingKnown
    <3> QED
      BY <3>1 DEF OneProcess
  <2> HIDE DEF x
  <2>6. {y \in Stems : files'[y] # Absent} = {y \in Stems : files[y] # Absent} \ {x}
    BY <2>3
  <2>7. L!Unfile(x)
    BY <1>1, <2>6 DEF L!Unfile, LoadFails
  <2>8. \E y \in Stems : L!File(y) \/ L!Unfile(y)
    BY <2>1, <2>7 DEF L!Unfile
  <2>9. L!Next
    BY <2>8 DEF L!Next
  <2> QED
    BY <2>4, <2>5, <2>9 DEF LedgerInv, LedgerStep
<1>4. CASE /\ run[s].at \in {"open", "write", "publish"} /\ run[s].kind = "refresh"
           /\ Goto(s, "restore") /\ UNCHANGED files
  <2>1. /\ run'[s].at = "restore" /\ run'[s].kind = run[s].kind /\ run'[s].of = run[s].of
        /\ run'[s].orig = run[s].orig
    BY <1>1, <1>4, GotoMoves DEF Steps
  <2>2. Knows(run[s])'
    BY <1>1, <1>4, <2>1 DEF Knows
  <2> QED
    BY <1>1, <1>4, <2>2, LedgerStutters
<1> QED
  BY <1>2, <1>3, <1>4 DEF WriteFails

\* Every step keeps the ledger's invariant, and is a step of the ledger or none.
LEMMA NextKeepsLedger ==
    ASSUME OneProcess
    PROVE  LedgerInv /\ [Next]_vars => LedgerInv' /\ [L!Next]_ledgerVars
<1> SUFFICES ASSUME LedgerInv, [Next]_vars PROVE LedgerInv' /\ LedgerStep
  BY DEF LedgerStep
<1>1. FilesInv'
  BY NextFilesInv DEF LedgerInv
<1>2. CASE UNCHANGED vars
  <2>1. UNCHANGED ledgerVars
    BY <1>2 DEF vars, disk, ledgerVars, LoadFails
  <2>2. NoFileWithoutEvent' /\ \A s \in Slots : Knows(run[s])'
    BY <1>2 DEF vars, disk, LedgerInv, NoFileWithoutEvent, Known, Knows
  <2> QED
    BY <1>1, <2>1, <2>2 DEF LedgerInv, LedgerStep
<1>3. ASSUME NEW s \in Slots, StartAny(s) \/ Step(s) \/ Crash(s) \/ WriteFails(s)
      PROVE  LedgerInv' /\ LedgerStep
  BY <1>1, <1>3, BeginningKeepsLedger, InitCreates, ReadingKeepsLedger, AppendCommits, CopyFiles,
     RenameSaves, RestoreRetracts, FailureKeepsLedger DEF Step
<1> QED
  BY <1>2, <1>3 DEF Next

LEMMA InitLedger == Init => LedgerInv /\ L!Init
<1> SUFFICES ASSUME Init PROVE LedgerInv /\ L!Init
  OBVIOUS
<1>1. FilesInv
  BY InitFilesInv
<1>2. \A s \in Slots : Knows(run[s])
  BY DEF Init, Knows, Idle
<1>3. NoFileWithoutEvent
  BY DEF Init, NoFileWithoutEvent
<1>4. (IF journal = Absent THEN <<>> ELSE journal) = <<>>
  BY DEF Init
<1>5. (IF LoadFails THEN Seed ELSE snap) = Seed
  BY DEF Init, LoadFails
<1>6. {x \in Stems : files[x] # Absent} = {}
  BY DEF Init
<1>7. L!Init
  BY <1>4, <1>5, <1>6 DEF L!Init
<1> QED
  BY <1>1, <1>2, <1>3, <1>7 DEF LedgerInv

(***************************************************************************)
(* One process at a time, no crash and no failed write ever leaves a       *)
(* proposal without its registered event (proposal/register.go, Register:  *)
(* append, then copy), for any number of proposals and faults.  Two        *)
(* processes may: the hypothesis is needed.                                *)
(***************************************************************************)
THEOREM FilesHaveEvents ==
    ASSUME OneProcess
    PROVE  Spec => []NoFileWithoutEvent
<1>1. Init => LedgerInv
  BY InitLedger
<1>2. LedgerInv /\ [Next]_vars => LedgerInv'
  BY NextKeepsLedger
<1>3. LedgerInv => NoFileWithoutEvent
  BY DEF LedgerInv
<1> QED
  BY <1>1, <1>2, <1>3, PTL DEF Spec

(***************************************************************************)
(* One process at a time, the files implement the ledger: a batch enters   *)
(* whole and once, only a refresh takes its own back, the baseline is of a *)
(* batch that was entered, and a proposal is filed after its event,        *)
(* wherever a command is cut off (mapping_store.go, Append;                *)
(* ingest/snapshot_saver.go, writeAtomic; ingest/refresh.go's roll-back).  *)
(***************************************************************************)
THEOREM FilesImplementLedger ==
    ASSUME OneProcess
    PROVE  Spec => ImplementsLedger
<1>1. Init => LedgerInv /\ L!Init
  BY InitLedger
<1>2. LedgerInv /\ [Next]_vars => LedgerInv' /\ [L!Next]_ledgerVars
  BY NextKeepsLedger
<1> QED
  BY <1>1, <1>2, PTL DEF Spec, ImplementsLedger, L!Spec, ledgerVars
=============================================================================
