SPECIFICATION Spec
CHECK_DEADLOCK FALSE
CONSTANTS
    Default <- BuiltIn
    TypeNames <- Names
    NewTypes <- Added
    NewFields <- AddedFields
    NewChains <- AddedChains
    Editable = {"component", "api", "endpoint", "decision"}
    Versions = {0, 1, 2}
    Prefixes <- MCPrefixes
    Headings <- MCHeadings
    Absent = Absent
    Null = Null
    Nil = Nil
    MaxEdits = 2
INVARIANTS
    EntryIsDeclared
    NothingDangles
PROPERTIES
    ShowIsNeutral
    OthersUnmoved
