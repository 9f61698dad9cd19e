---------------------------- MODULE RemovedNames ----------------------------
(***************************************************************************)
(* spex diff's sweep for the names of removed nodes, and the history of    *)
(* declarations, prose, removals and baselines it works against.           *)
(*                                                                         *)
(* A word as written is a sequence of symbols: a core (one of Words) and   *)
(* the punctuation around it, or punctuation alone.  A name and a file are *)
(* sequences of words.  IdentityHash is taken to be injective: a key is    *)
(* the triple it is made from, and the sweep only compares keys.           *)
(***************************************************************************)
EXTENDS Integers, Sequences, SequencesExt, FiniteSets, FiniteSetsExt

CONSTANTS
    Words,         \* the cores of words
    Prose,         \* the words, as written, an author may add to the prose
    Decls,         \* [type, name] records: the nodes an author may declare
    Entries,       \* [id, name] records: the modules project.json may list
    maxNameWords,  \* the longest phrase the sweep builds
    KeepID,        \* whether a module that is renamed by hand keeps its id
    MaxProse,      \* bound: words of prose
    MaxModules,    \* bound: modules at a time
    MaxNodes,      \* bound: nodes at a time
    MaxBaselines   \* bound: ingests and refreshes

\* In the cutset of Trim; a full stop; the possessive suffix.
Marks == {"wrap", "dot", "poss"}

\* The id of a module is derived from its name or written by hand.
DerivedID(name) == <<"module", name>>

ASSUME RemovedNamesAssumption ==
    /\ maxNameWords \in Nat \ {0} /\ MaxProse \in Nat
    /\ MaxModules \in Nat /\ MaxNodes \in Nat /\ MaxBaselines \in Nat
    /\ KeepID \in BOOLEAN
    /\ \A d \in Decls : d.type \in {"component", "api"} /\ d.name \in Seq(Seq(Words \cup Marks))
    /\ \A e \in Entries : e.id = DerivedID(e.name) \/ e.id[1] = "hand"

VARIABLES
    modules,    \* project.json: [id, name] records
    live,       \* the declared nodes: [mod, type, name], mod a module id
    prose,      \* a markdown leaf
    baseline,   \* the snapshot's leaves: [key, mod, type]
    journal,    \* the journal's change events: [event, node, name, type, module]
    baselines   \* ingests and refreshes so far

vars == <<modules, live, prose, baseline, journal, baselines>>

IDs == {e.id : e \in modules}

\* resolveModule: the name of a module project.json lists, or the id itself.
ModuleName(id) ==
    IF id \in IDs THEN (CHOOSE e \in modules : e.id = id).name ELSE id

IdentityHash(module, type, name) == <<module, type, name>>

KeyOf(n) == IdentityHash(ModuleName(n.mod), n.type, n.name)

\* The nodes, and one leaf for each module.json.
Tree == {[key |-> KeyOf(n), mod |-> n.mod, type |-> n.type] : n \in live}
        \cup {[key |-> <<e.id, "meta", <<>>>>, mod |-> e.id, type |-> "meta"] : e \in modules}

Keys == {l.key : l \in Tree}

Init ==
    /\ modules = {} /\ live = {} /\ prose = <<>>
    /\ baseline = {} /\ journal = <<>> /\ baselines = 0

-----------------------------------------------------------------------------
(* Tokens. *)

\* What is left of a word between its first and last symbol outside the set.
Trim(w, set) ==
    LET kept == {i \in DOMAIN w : w[i] \notin set}
    IN  IF kept = {} THEN <<>> ELSE SubSeq(w, Min(kept), Max(kept))

TrimRight(w, symbol) ==
    LET kept == {i \in DOMAIN w : w[i] # symbol}
    IN  IF kept = {} THEN <<>> ELSE SubSeq(w, 1, Max(kept))

TrimSuffix(w, symbol) ==
    IF Len(w) > 1 /\ w[Len(w)] = symbol THEN SubSeq(w, 1, Len(w) - 1) ELSE w

Pass(w) == TrimSuffix(TrimRight(Trim(w, {"wrap"}), "dot"), "poss")

\* Fault: one pass instead of passes until nothing changes.
FaultNormalizeToken(w) == Pass(w)

\* Every pass that changes a word shortens it.
normalizeToken(w) ==
    LET after[k \in 0 .. Len(w)] == IF k = 0 THEN w ELSE Pass(after[k - 1])
    IN  after[Len(w)]

tokenizeCorpus(file) ==
    SelectSeq([i \in DOMAIN file |-> normalizeToken(file[i])], LAMBDA w : w # <<>>)

\* Fault: the words are normalised and their number is not looked at.
FaultDeclarableName(name) == LET t == tokenizeCorpus(name) IN t # <<>> /\ t = name

declarableName(name) ==
    LET t == tokenizeCorpus(name) IN t # <<>> /\ Len(t) <= maxNameWords /\ t = name

\* The phrases of a token sequence: where they start and how long they are.
Phrases(t) == {p \in (1 .. Len(t)) \X (1 .. maxNameWords) : p[1] + p[2] - 1 <= Len(t)}

Phrase(t, p) == SubSeq(t, p[1], p[1] + p[2] - 1)

-----------------------------------------------------------------------------
(* The sweep. *)

\* walkCorpus: the prose, and the documents that declare nodes and modules, in
\* which no name touches the next.
Corpus == {[at |-> <<"prose">>, text |-> prose]}
          \cup {[at |-> <<"node", n>>, text |-> n.name] : n \in live}
          \cup {[at |-> <<"module", e.id>>, text |-> e.name] : e \in modules}

Removed == LET keys == Keys IN {l \in baseline : l.key \notin keys}

\* The leaves of nodes, whose names the sweep looks for.
Nodes(leaves) == {l \in leaves : l.type # "meta"}

\* One group per (module, type); the module is its name where the current tree
\* has it, and its id otherwise.
Targets ==
    LET removed == Nodes(Removed)
    IN  { [module |-> g[1], type |-> g[2],
           keys |-> {l.key : l \in {x \in removed : ModuleName(x.mod) = g[1] /\ x.type = g[2]}}]
          : g \in {<<ModuleName(l.mod), l.type>> : l \in removed} }

Known(g) == \E e \in modules : e.name = g.module

\* recoverModuleNames: phrases of the corpus whose hash is the module's id.
RecoveredNames(g) ==
    UNION { LET t == tokenizeCorpus(f.text)
            IN  {Phrase(t, p) : p \in {q \in Phrases(t) : DerivedID(Phrase(t, q)) = g.module}}
            : f \in Corpus }

\* loadJournalNames: the removed events, and of each node the last.
Removals == {i \in DOMAIN journal : journal[i].event = "removed"}

LastRemoval(key) == journal[Max({i \in Removals : journal[i].node = key})]

OwnNames(g) ==
    LET events == {LastRemoval(k) : k \in g.keys \cap {journal[i].node : i \in Removals}}
    IN  {r.module : r \in {x \in events : IdentityHash(x.module, x.type, x.name) = x.node}}

\* Fault: only events of the group's own keys are asked.
FaultJournalNames(g) == OwnNames(g)

\* journalNames.moduleName: any removal recorded under the module, or else one
\* of the group's own keys whose event derives it.
JournalNames(g) ==
    LET any == {journal[i].module : i \in {k \in Removals : DerivedID(journal[k].module) = g.module}}
    IN  IF any # {} THEN any ELSE OwnNames(g)

ModuleNames(g) == LET found == RecoveredNames(g) IN IF found # {} THEN found ELSE JournalNames(g)

Verifiable == {g \in Targets : Known(g) \/ ModuleNames(g) # {}}

\* The groups that are scanned, their module's name filled in.
Groups == { [g EXCEPT !.module = IF Known(g) THEN @ ELSE CHOOSE m \in ModuleNames(g) : TRUE]
            : g \in Verifiable }

Hits(t, groups) ==
    UNION { {[at |-> p[1], words |-> p[2], key |-> IdentityHash(g.module, g.type, Phrase(t, p))]
             : p \in {q \in Phrases(t) : IdentityHash(g.module, g.type, Phrase(t, q)) \in g.keys}}
            : g \in groups }

LiveSpans(t) == {p \in Phrases(t) : \E n \in live : n.name = Phrase(t, p)}

\* coveringLiveName.
Covered(h, t) ==
    \E p \in LiveSpans(t) :
        /\ p[1] \in h.at - maxNameWords + 1 .. h.at
        /\ p[2] >= h.words /\ p[1] + p[2] >= h.at + h.words

\* scanFile over the corpus: each hit with its site, and whether it is
\* suppressed.
Scan ==
    LET groups == Groups
    IN  UNION { LET t == tokenizeCorpus(f.text)
                IN  {[key |-> h.key, file |-> f.at, at |-> h.at, suppressed |-> Covered(h, t)]
                     : h \in Hits(t, groups)}
                : f \in Corpus }

Survivors == {h \in Scan : ~h.suppressed}

Unverifiable == UNION {g.keys : g \in Targets \ Verifiable}

-----------------------------------------------------------------------------
(* The author. *)

AddModule(e) ==
    /\ Cardinality(modules) < MaxModules
    /\ \A m \in modules : m.id # e.id /\ m.name # e.name
    /\ modules' = modules \cup {e}
    /\ UNCHANGED <<live, prose, baseline, journal, baselines>>

\* What validate lets through: a declarable name, new among the nodes of its
\* type in the module, an api's among all.
Declare(d, id) ==
    /\ id \in IDs /\ Cardinality(live) < MaxNodes
    /\ declarableName(d.name)
    /\ \A n \in live : n.type = d.type /\ n.name = d.name => d.type = "component" /\ n.mod # id
    /\ live' = live \cup {[mod |-> id, type |-> d.type, name |-> d.name]}
    /\ UNCHANGED <<modules, prose, baseline, journal, baselines>>

RemoveNode(n) ==
    /\ live' = live \ {n}
    /\ UNCHANGED <<modules, prose, baseline, journal, baselines>>

RetireModule(e) ==
    /\ modules' = modules \ {e}
    /\ live' = {n \in live : n.mod # e.id}
    /\ UNCHANGED <<prose, baseline, journal, baselines>>

\* A module is renamed in project.json by hand, and with it the ids of its
\* nodes, which validate checks, and its own, which nothing checks.
RenameModule(e, name) ==
    LET id == IF KeepID THEN e.id ELSE DerivedID(name)
    IN  /\ \A m \in modules : m.name # name /\ (m # e => m.id # id)
        /\ modules' = (modules \ {e}) \cup {[id |-> id, name |-> name]}
        /\ live' = {[n EXCEPT !.mod = IF @ = e.id THEN id ELSE @] : n \in live}
        /\ UNCHANGED <<prose, baseline, journal, baselines>>

Write(w) ==
    /\ Len(prose) < MaxProse
    /\ prose' = Append(prose, w)
    /\ UNCHANGED <<modules, live, baseline, journal, baselines>>

Erase ==
    /\ prose' = <<>>
    /\ UNCHANGED <<modules, live, baseline, journal, baselines>>

-----------------------------------------------------------------------------
(* The baseline moves. *)

Rebase ==
    /\ baseline' = Tree
    /\ UNCHANGED <<modules, live, prose>>

\* The journal is written and the snapshot is not: a partial run, or a crash.
StaysBehind == UNCHANGED <<modules, live, prose, baseline>>

Journaling == baselines < MaxBaselines /\ baselines' = baselines + 1

New == LET keys == {l.key : l \in baseline} IN {l \in Tree : l.key \notin keys}

\* Whether a node's latest change event is of this kind.
Recorded(l, event) ==
    LET mine == {i \in DOMAIN journal : journal[i].node = l.key}
    IN  mine # {} /\ journal[Max(mine)].event = event

Event(event, l, name, module) ==
    [event |-> event, node |-> l.key, name |-> name, type |-> l.type, module |-> module]

Planned(leaves) == {l \in leaves : l.type = "component"}

\* A planned cycle: diff has no errors, and components are journaled under
\* their module's name: the new ones, and of those removed the ones that have
\* a task and whose op went through.
Ingest ==
    /\ Journaling /\ Survivors = {} /\ (Rebase \/ StaysBehind)
    /\ \E tasked \in SUBSET {l \in Planned(Removed) : Recorded(l, "added")} :
          journal' = journal \o SetToSeq(
              {Event("added", l, l.key[3], l.key[1]) : l \in {x \in Planned(New) : ~Recorded(x, "added")}}
              \cup {Event("removed", l, l.key[3], l.key[1]) : l \in tasked})

Drifted(leaves, event) == {l \in leaves : ~Recorded(l, event)}

\* refresh takes up every node, under the id of its module, a removed one with
\* the name an earlier event gives, if any.  It refuses modules that came or
\* went.  The registered event every cycle begins with is not modelled: the
\* journal is never empty.
Refresh ==
    /\ Journaling /\ (Rebase \/ StaysBehind)
    /\ Nodes(New \cup Removed) = New \cup Removed
    /\ journal' = journal \o SetToSeq(
          {Event("added", l, l.key[3], l.mod) : l \in Drifted(New, "added")}
          \cup {Event("removed", l, IF Recorded(l, "added") THEN l.key[3] ELSE <<>>, l.mod)
                : l \in Drifted(Removed, "removed")})

Next ==
    \/ \E e \in Entries : AddModule(e)
    \/ \E d \in Decls, id \in IDs : Declare(d, id)
    \/ \E n \in live : RemoveNode(n)
    \/ \E e \in modules : RetireModule(e)
    \/ \E e \in modules, o \in Entries : RenameModule(e, o.name)
    \/ \E w \in Prose : Write(w)
    \/ Erase
    \/ Ingest
    \/ Refresh

Spec == Init /\ [][Next]_vars

-----------------------------------------------------------------------------
(* The reference: names looked up in what a reader sees. *)

\* A reader sees the cores, and no punctuation.
Seen(file) ==
    LET worded == SelectSeq(file, LAMBDA w : \E i \in DOMAIN w : w[i] \in Words)
    IN  [i \in DOMAIN worded |-> SelectSeq(worded[i], LAMBDA x : x \in Words)]

\* Where a name is written in a file, as intervals of words.
Mentions(name, file) ==
    LET t == Seen(file)
    IN  {i .. i + Len(name) - 1 : i \in {k \in 1 .. Len(t) - Len(name) + 1 :
            \A x \in DOMAIN name : t[k + x - 1] = name[x]}}

\* A mention that is no part of a mention of a live node's name.
Loose(name, file) ==
    {s \in Mentions(name, file) : \A n \in live : \A l \in Mentions(n.name, file) : ~(s \subseteq l)}

(***************************************************************************)
(* The sweep reports a removed node's name at exactly the places where a   *)
(* reader finds it and it is no part of the name of a live node, for every *)
(* removal it says it has checked: recovering names by hashing phrases     *)
(* loses nothing (removed_name_checker.go, CheckRemovedNames).             *)
(***************************************************************************)
SweepIsExact ==
    LET survivors == Survivors
    IN  \A g \in Verifiable : \A k \in g.keys :
            {<<s.file, s.at>> : s \in {x \in survivors : x.key = k}} =
                UNION {{<<f.at, Min(s)>> : s \in Loose(k[3], f.text)} : f \in Corpus}

(***************************************************************************)
(* No removal goes by in silence: a removed node whose name is still       *)
(* written anywhere is reported, or named by a note (the note kinds of     *)
(* removed_name_checker.go).                                               *)
(***************************************************************************)
NothingSilent ==
    LET disclosed == {h.key : h \in Scan} \cup Unverifiable
    IN  \A l \in Nodes(Removed) :
            (\E f \in Corpus : Mentions(l.key[3], f.text) # {}) => l.key \in disclosed

(***************************************************************************)
(* A removal is given up as unverifiable only when its module's name can   *)
(* be had nowhere: project.json does not list the module, and, if its id   *)
(* is derived, the name is neither written in the spec nor in a removed    *)
(* event (recoverModuleNames, journalNames.moduleName).                    *)
(***************************************************************************)
GivenUpOnlyWhenLost ==
    LET unverifiable == Unverifiable
    IN  \A l \in {x \in Nodes(Removed) : x.key \in unverifiable} :
            /\ l.mod \notin IDs
            /\ l.mod = DerivedID(l.key[1]) =>
                  /\ \A f \in Corpus : Mentions(l.key[1], f.text) = {}
                  /\ \A i \in Removals : journal[i].module # l.key[1]
=============================================================================
