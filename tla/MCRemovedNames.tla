--------------------------- MODULE MCRemovedNames ---------------------------
(***************************************************************************)
(* Small instances of the sweep: names that are part of each other, one    *)
(* too long and one with punctuation; modules with derived and with        *)
(* hand-written ids.                                                       *)
(***************************************************************************)
EXTENDS RemovedNames

CONSTANTS a, b, m, o

Bare(w) == <<w>>

\* As in "map". at the end of a sentence, and in **spex**'s.
Quoted(w) == <<"wrap", w, "wrap", "dot">>
Possessive(w) == <<"wrap", w, "wrap", "poss">>

Written == {Possessive(a), Quoted(b), Bare(m)}

Declared == { [type |-> "component", name |-> <<Bare(a)>>],
              [type |-> "api", name |-> <<Bare(a), Bare(b)>>],
              [type |-> "api", name |-> <<Bare(b), Bare(a), Bare(b)>>],
              [type |-> "component", name |-> <<Quoted(a)>>] }

Listed == { [id |-> DerivedID(<<Bare(m)>>), name |-> <<Bare(m)>>],
            [id |-> <<"hand", <<Bare(o)>>>>, name |-> <<Bare(o)>>] }
=============================================================================
