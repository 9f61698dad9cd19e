SPECIFICATION Spec
CHECK_DEADLOCK FALSE
CONSTANTS
    Types <- MCTypes
    ModuleScoped <- MCModuleScoped
    Refs <- MCRefs
    Target <- MCTarget
    ToOne = {"preq_id"}
    ModuleLocal = {"provided_by"}
    Acyclic <- MCAcyclic
    ValTypes = {"goal", "requirement"}
    v = v
    Vals = {v}
    NameDeclarable = {"component", "api"}
    Declarable = {1, 2}
    GlobalNames = {"api"}
    PrefixRank <- MCPrefixRank
    ModuleFileRank = 2
    ProjectRank = 2
    Chains <- MCChains
    Names = {1, 2, 3}
    Slug <- MCSlug
    IdentityHash <- MCIdentityHash
    None = None
    Dirs = {1, 3, 4}
    text1 = text1
    text2 = text2
    Proses = {text1, text2}
    InitialTrees <- MCInitialTrees
    MaxEdits = 2
    MaxCrashes = 1
INVARIANTS
    TypeOK
    GateIsExact
    RenameGoesThrough
    LeavesNotShared
PROPERTIES
    ProseSurvives
    ValidStaysValid
    ReportTellsAll
