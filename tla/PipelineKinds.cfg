SPECIFICATION Spec
CHECK_DEADLOCK FALSE
CONSTANTS
    Nodes = {1, 2, 3, 4, 5, 6, 7}
    Stems = {p}
    h1 = h1
    h2 = h2
    Hashes = {h1, h2}
    None = None
    Kind <- AllKinds
    ModuleOf <- TwoModules
    RefreshTypes <- AllRefreshTypes
    Drafts <- KindDrafts
    EditPhases = {"clean"}
    PlanPhases = {"clean", "partial"}
    RefreshPhases = {}
    WorkPhases = {"clean"}
    AllowAbsorb = FALSE
    MaxHead = 2
    MaxFaults = 1
INVARIANTS
    LayersAreOrdered
    NoDependencyCycle
PROPERTIES
    RequirementsReachWork
