------------------------------ MODULE MCAuthor ------------------------------
(* Instances of Author: a profile with the built-in types whose references  *)
(* cross every boundary, and specs with and without standing findings.      *)
EXTENDS AuthorGuarantees, TLC

CONSTANTS v, text1, text2

MCTypes == {"module", "goal", "requirement", "component", "test", "api"}
MCModuleScoped == {"requirement", "component", "test", "api"}
MCRefs == [module |-> {"requires_module"}, goal |-> {}, requirement |-> {"preq_id"},
           component |-> {"implements", "uses"}, test |-> {"describes"}, api |-> {"provided_by"}]
MCTarget == [requires_module |-> "module", preq_id |-> "goal", implements |-> "requirement",
             uses |-> "component", describes |-> "component",
             provided_by |-> "component"]
MCAcyclic == {<<"module", "requires_module">>, <<"component", "uses">>}
MCPrefixRank == [component |-> 1, test |-> 3]
MCChains == {[covered |-> "goal", covering |-> "requirement", field |-> "preq_id"],
             [covered |-> "requirement", covering |-> "component", field |-> "implements"],
             [covered |-> "component", covering |-> "test", field |-> "describes"]}

\* Names 1 and 2 differ in case only; name 3 is no phrase of the tokenizer.
MCSlug == [n \in Names \cup Dirs |-> IF n = 2 THEN 1 ELSE n]
TypeNo == [module |-> 1, goal |-> 2, requirement |-> 3, component |-> 4, test |-> 5, api |-> 6]
MCIdentityHash(d, t, n) == 100 * d + 10 * TypeNo[t] + n

Entry(d, t, n, val, refs) ==
    [id |-> ID(d, t, n), name |-> n, slug |-> IF t = "module" THEN 0 ELSE Slug[n],
     val |-> val, refs |-> refs]
Link(f, x) == [NoRefs EXCEPT ![f] = <<x>>]

ModuleEntries(ds) == [i \in DOMAIN ds |-> Entry(ProjectDir, "module", ds[i], None, NoRefs)]
Goal == ID(ProjectDir, "goal", 1)
C(d) == ID(d, "component", 1)

ProjectDoc == [EmptyDoc EXCEPT !["module"] = ModuleEntries(<<1, 3>>),
                               !["goal"] = <<Entry(ProjectDir, "goal", 1, v, NoRefs)>>]
DocOne == [EmptyDoc EXCEPT
    !["requirement"] = <<Entry(1, "requirement", 1, v, Link("preq_id", Goal))>>,
    !["component"] = <<Entry(1, "component", 1, None, Link("implements", ID(1, "requirement", 1)))>>,
    !["test"] = <<Entry(1, "test", 1, None, Link("describes", C(1)))>>,
    !["api"] = <<Entry(1, "api", 1, None, Link("provided_by", C(1)))>>]
DocThree == [EmptyDoc EXCEPT !["component"] = <<Entry(3, "component", 1, None, NoRefs)>>]

Base == ProjectPath :> ProjectDoc @@ DocPath(1) :> DocOne @@ DocPath(3) :> DocThree
        @@ LeafPath(1, "component", 1) :> [prose |-> text1, links |-> {}]
        @@ LeafPath(1, "test", 1) :> [prose |-> None, links |-> {C(1)}]
        @@ LeafPath(3, "component", 1) :> [prose |-> None, links |-> {C(1)}]
MCInitialTrees == {Base}
=============================================================================
