----------------------------- MODULE MCPipeline -----------------------------
(***************************************************************************)
(* Small instances of the pipeline: the node types, and the specs an       *)
(* author may commit.                                                      *)
(***************************************************************************)
EXTENDS Guarantees

CONSTANTS h1, h2

AllPhases == Phases

\* The built-in profile's absorbable table.
AllRefreshTypes == (NodeKinds \ {"meta"}) \X {"added", "removed"}

\* An instance without the module.json leaves: every edge that changes does so
\* beside a requirement of its module, so that IncompleteModule never applies.
NoModules == [n \in Nodes |-> None]

\* One component, or two of which the second uses the first.
Components == [n \in Nodes |-> "component"]

UsesFirst(h) ==
    [n \in Nodes |-> IF n = 2 /\ \A m \in Nodes : h[m] # None THEN {1} ELSE {}]

ComponentDrafts == {[hash |-> h, edges |-> UsesFirst(h)] : h \in Specs}

\* A component and the requirement it implements.
ComponentAndRequirement == [n \in Nodes |-> IF n = 1 THEN "component" ELSE "requirement"]

Implementing(h) == [n \in Nodes |-> IF n = 1 /\ \A m \in Nodes : h[m] # None THEN {2} ELSE {}]

ImplementingDrafts == {[hash |-> h, edges |-> Implementing(h)] : h \in Specs}

\* The same, the requirement always present: what changes is absorbed or refreshed.
DriftDrafts == {d \in ImplementingDrafts : d.hash[2] # None /\ d.hash # <<None, h2>>}

\* A module of two components, a test_section over both of them, or rewritten
\* over one, and a requirement the first one implements; 4 is its module.json.
SectionKinds == [n \in Nodes |->
    CASE n = 3 -> "test_section" [] n = 4 -> "meta" [] n = 5 -> "requirement" [] OTHER -> "component"]

OneModule == [n \in Nodes |-> 4]

SectionDrafts ==
    { [hash |-> <<h1, h1, h1, h1, h1>>, edges |-> <<{5}, {}, {1, 2}, {}, {}>>],
      [hash |-> <<h2, h1, h2, h2, h2>>, edges |-> <<{5}, {}, {1}, {}, {}>>] }

\* Module 5, with the data_flow 1, component 2, the test_section 4 and the
\* requirement 7 that component 2 implements, requires module 6, with
\* component 3.  Both components are in the flow and in the test_section.
AllKinds == [n \in Nodes |->
    CASE n = 1 -> "data_flow" [] n \in {2, 3} -> "component" [] n = 4 -> "test_section"
      [] n = 7 -> "requirement" [] OTHER -> "meta"]

TwoModules == [n \in Nodes |-> IF n \in {3, 6} THEN 6 ELSE 5]

KindEdges(uses, describes) == <<uses, {7}, {}, describes, {6}, {}, {}>>

\* In turn: everything but the flow; the requirement changes, answered by its
\* component; the flow comes, everything changes and the coverage folds back;
\* the requirement changes unanswered; component 3 goes.
KindDrafts ==
    { [hash |-> <<None, h1, h1, h1, h1, h1, h1>>, edges |-> KindEdges({}, {2, 3})],
      [hash |-> <<None, h2, h1, h1, h2, h1, h2>>, edges |-> KindEdges({}, {2, 3})],
      [hash |-> <<h2, h2, h2, h2, h2, h2, h2>>, edges |-> KindEdges({2, 3}, {2})],
      [hash |-> <<None, h1, h1, h1, h2, h1, h2>>, edges |-> KindEdges({}, {2, 3})],
      [hash |-> <<None, h2, None, h2, h2, h2, h1>>, edges |-> KindEdges({}, {2})] }
=============================================================================
