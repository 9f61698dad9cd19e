-------------------------- MODULE AuthorGuarantees --------------------------
(* What the author commands promise, against definitions of their own: the  *)
(* spec as a graph, not as the findings the validator lists.                *)
EXTENDS Author

\* A spec is valid when its documents and leaves are there, ids are unique and
\* derived, names are in order, references and links lead somewhere, what is
\* required is given and nothing depends on itself.
EdgesOf(fs, d, t, f) ==
    UNION {{<<e.id, x>> : x \in Range(e.refs[f])} : e \in Range(Entries(fs, d, t))}

DependsOnItself(edges) ==
    \E S \in SUBSET {e[1] : e \in edges} :
        S # {} /\ \A x \in S : \E y \in S : <<x, y>> \in edges

Valid(fs) ==
    LET places == Places(fs) IN
    /\ Buildable(fs)
    /\ \A p, q \in places :
          p[2] = q[2] /\ p # q => /\ At(fs, p).id # At(fs, q).id
                                  /\ p[2] \in GlobalNames => At(fs, p).name # At(fs, q).name
    /\ \A p \in places :
          LET e == At(fs, p) IN
          /\ e.id = ID(p[1], p[2], e.name)
          /\ p[2] \in NameDeclarable => e.name \in Declarable
          /\ ~BadValue(p[2], e.val)
          /\ \A f \in Refs[p[2]] :
                /\ f \in ToOne => e.refs[f] # <<>>
                /\ \A x \in Range(e.refs[f]) : \E q \in places :
                      /\ At(fs, q).id = x /\ q[2] = Target[f]
                      /\ q[1] \in {p[1], ProjectDir}
    /\ \A d \in Docs(fs) : \A tf \in Acyclic : ~DependsOnItself(EdgesOf(fs, d, tf[1], tf[2]))
    /\ \A p \in WithLeaf(fs) : fs[LeafOf(fs, p)].links \subseteq NodeIDs(fs)

\* On a valid spec Report refuses exactly the copies that are not valid: the
\* checkers miss no defect and make none up, and none hides another
\* (author/obligation_reporter.go Report, validator/*).
GateIsExact ==
    cmd # NoCommand /\ cmd.op # "force" /\ Valid(cmd.before) => (cmd.refused <=> ~Valid(cmd.after))

\* A rename of a valid spec to a name that is free and in order always goes
\* through, and carries every reference and every link to the new id: no
\* document and no leaf is left out of the sweep (author/node_renamer.go).
Graph(fs) ==
    (UNION {UNION {{<<At(fs, p).id, f, x>> : x \in Range(At(fs, p).refs[f])} : f \in Refs[p[2]]} :
              p \in Places(fs)})
    \cup UNION {{<<At(fs, p).id, "link", x>> : x \in fs[LeafOf(fs, p)].links} : p \in WithLeaf(fs)}

RenameGoesThrough ==
    Idle /\ Valid(tree) =>
        \A x \in NodeIDs(tree), n \in Names :
            LET pl == Found(tree, x)
                y  == ID(pl[1], pl[2], n)
                after == RenameTree(tree, x, n)
            IN  /\ y \notin NodeIDs(tree)
                /\ pl[2] \in NameDeclarable => n \in Declarable
                /\ pl[2] \in GlobalNames => \A q \in Places(tree) : q[2] = pl[2] => At(tree, q).name # n
                /\ pl[2] \in ContentTypes => NewPlace(tree, x, n) \notin DOMAIN tree \ {LeafOf(tree, pl)}
                => /\ ~RenameRejects(tree, x, n) /\ ~Refused(tree, after) /\ Buildable(after)
                   /\ Graph(after) = {<<Repoint(x, y, e[1]), e[2], Repoint(x, y, e[3])>> : e \in Graph(tree)}

\* No two nodes own the same leaf, though names that differ in case only have
\* the same slug; after a crash too (author/node_editor.go Add, Rename).
LeavesNotShared ==
    \A p, q \in WithLeaf(tree) : p # q => LeafOf(tree, p) # LeafOf(tree, q)

\* What an author wrote is only lost with the node it belongs to: no command
\* overwrites it, and a rename that dies half-way leaves a copy.
ProseSurvives ==
    [][ProseOf(tree) \subseteq ProseOf(tree') \cup
         (IF cmd # NoCommand /\ cmd.op \in {"remove", "force"}
          THEN ProseOf([p \in cmd.drop |-> cmd.before[p]]) ELSE {})]_vars

Completes == cmd # NoCommand /\ ~cmd.refused /\ cmd' = NoCommand /\ crashes' = crashes

\* A command without --force that runs to its end leaves a valid spec valid.
ValidStaysValid ==
    [][Completes /\ cmd.op # "force" /\ Valid(cmd.before) => Valid(tree')]_vars

\* What a command reported is what spex validate finds on disk when it is done
\* (--force reports only what it broke).
ReportTellsAll ==
    [][Completes /\ cmd.op # "force" /\ Buildable(tree') => cmd.owed = Validate(tree')]_vars
=============================================================================
