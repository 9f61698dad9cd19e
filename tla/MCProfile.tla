----------------------------- MODULE MCProfile -----------------------------
(***************************************************************************)
(* The built-in profile, and the declarations an author may add to it.     *)
(***************************************************************************)
EXTENDS Profile

Text(name, required, enum) ==
    [name |-> name, kind |-> "text", required |-> required, hashed |-> TRUE, enum |-> enum,
     bounds |-> FALSE, targets |-> {}, many |-> TRUE, cyclic |-> FALSE]

Reference(name, target) ==
    [Text(name, FALSE, FALSE) EXCEPT !.kind = "reference", !.targets = {target}]

Type(name, plural, scope, fields) ==
    [name |-> name, plural |-> plural, scope |-> scope, content |-> FALSE,
     prefix |-> Nil, sections |-> Nil, fields |-> fields]

WithLeaf(t, prefix, sections) == [t EXCEPT !.content = TRUE, !.prefix = prefix, !.sections = sections]

BuiltIn ==
    [version |-> 2,
     types |->
        << Type("requirement", "requirements", "project",
                << Text("type", TRUE, TRUE),
                   [Text("priority", FALSE, FALSE) EXCEPT !.kind = "integer", !.bounds = TRUE],
                   [Text("derivation", FALSE, TRUE) EXCEPT !.hashed = FALSE],
                   Reference("depends_on", "requirement") >>),
           Type("requirement", "requirements", "module",
                << Text("type", TRUE, TRUE),
                   [Reference("preq_id", "requirement") EXCEPT !.required = TRUE, !.many = FALSE],
                   Reference("depends_on", "requirement") >>),
           WithLeaf(Type("component", "components", "module",
                         << Reference("implements", "requirement"), Reference("uses", "component") >>),
                    "arch_", <<"Responsibilities">>),
           WithLeaf(Type("data_flow", "data_flows", "module", << Reference("uses", "component") >>),
                    "flow_", <<"Shapes">>),
           WithLeaf(Type("test_section", "test_sections", "module", << Reference("describes", "component") >>),
                    "test_", <<"Setup">>),
           Type("api", "apis", "module",
                << Reference("provided_by", "component"), Text("group", FALSE, FALSE) >>) >>,
     chains |->
        { [covered |-> "requirement", edge |-> "preq_id", covering |-> "requirement", coveringScope |-> "module"],
          [covered |-> "requirement", edge |-> "implements", covering |-> "component", coveringScope |-> ""],
          [covered |-> "component", edge |-> "describes", covering |-> "test_section", coveringScope |-> ""] },
     planRelevant |-> <<"data_flow", "component", "test_section">>,
     keyed |-> {"requirement", "component", "data_flow", "test_section", "api"}]

Names == {"requirement", "component", "data_flow", "test_section", "api", "endpoint", "decision", "module", ""}

MCPrefixes == {"", "arch_", "flow_", "test_", "doc_"}

MCHeadings == {<<>>, <<"Responsibilities">>, <<"Shapes">>, <<"Setup">>}

\* In the file; an endpoint may have a leaf without any convention.
Added ==
    { [EncodeType(Type("component", "components", "module", <<>>)) EXCEPT !.content = TRUE, !.sections = Absent],
      [EncodeType(Type("endpoint", "endpoints", "module", << Reference("uses", "component") >>))
           EXCEPT !.content = TRUE],
      EncodeType(Type("decision", "decisions", "project", << Reference("decides", "requirement") >>)),
      EncodeType(Type("module", "modules", "module", <<>>)),
      EncodeType(Type("", "", "module", <<>>)) }

AddedFields ==
    { [Reference("uses", "api") EXCEPT !.cyclic = TRUE],
      [Text("note", TRUE, FALSE) EXCEPT !.hashed = FALSE],
      [Text("weight", FALSE, TRUE) EXCEPT !.kind = "integer"],
      [Text("content", FALSE, FALSE) EXCEPT !.kind = "other"],
      [Reference("content", "component") EXCEPT !.many = FALSE],
      Reference("name", "endpoint") }

AddedChains ==
    { [covered |-> "component", edge |-> "uses", covering |-> "endpoint", coveringScope |-> "module"],
      [covered |-> "api", edge |-> "uses", covering |-> "component", coveringScope |-> ""] }
=============================================================================
