------------------------------- MODULE Ledger -------------------------------
(***************************************************************************)
(* What a project's state promises whoever reads it: a ledger of whole     *)
(* batches beside a baseline, both changing in one step, and the proposals *)
(* filed under spec/proposals.  StateDir shows how the files keep it.      *)
(***************************************************************************)
EXTENDS Integers, Sequences

CONSTANTS
    Stems,    \* the stems of proposals
    Seed,     \* the baseline of a new project
    Batches   \* [kind, of] records: what one command journals

VARIABLES
    ready,     \* whether the project was created
    lines,     \* the batches journaled so far
    baseline,  \* the batch the snapshot was saved for, or Seed
    filed      \* the stems whose proposal is filed

Entered(b) == \E i \in DOMAIN lines : lines[i] = b

Init == ready \in BOOLEAN /\ lines = <<>> /\ baseline = Seed /\ filed = {}

Create ==
    /\ ~ready /\ ready'
    /\ UNCHANGED <<lines, baseline, filed>>

\* A batch enters once; only a refresh may journal the same drift again.
Commit(b) ==
    /\ ready /\ (b.kind # "refresh" => ~Entered(b))
    /\ lines' = Append(lines, b)
    /\ UNCHANGED <<ready, baseline, filed>>

\* Only a refresh takes its batch back, and nothing but its batch.
Retract ==
    /\ lines # <<>> /\ lines[Len(lines)].kind = "refresh"
    /\ lines' = SubSeq(lines, 1, Len(lines) - 1)
    /\ UNCHANGED <<ready, baseline, filed>>

\* The baseline never runs ahead of the ledger.
Save(b) ==
    /\ b.kind # "register" /\ Entered(b)
    /\ baseline' = b
    /\ UNCHANGED <<ready, lines, filed>>

File(x) ==
    /\ \E b \in Batches : b.kind = "register" /\ b.of = x /\ Entered(b)
    /\ filed' = filed \cup {x}
    /\ UNCHANGED <<ready, lines, baseline>>

\* A copy that failed is taken away again.
Unfile(x) ==
    /\ filed' = filed \ {x}
    /\ UNCHANGED <<ready, lines, baseline>>

Next ==
    \/ Create
    \/ Retract
    \/ \E b \in Batches : Commit(b) \/ Save(b)
    \/ \E x \in Stems : File(x) \/ Unfile(x)

Spec == Init /\ [][Next]_<<ready, lines, baseline, filed>>
=============================================================================
