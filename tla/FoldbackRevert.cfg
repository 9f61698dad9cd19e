SPECIFICATION Spec
CHECK_DEADLOCK FALSE
CONSTANTS
    Nodes = {1, 2, 3, 4, 5}
    Stems = {p}
    h1 = h1
    h2 = h2
    Hashes = {h1, h2}
    None = None
    Kind <- SectionKinds
    ModuleOf <- OneModule
    RefreshTypes <- AllRefreshTypes
    Drafts <- SectionDrafts
    EditPhases = {"clean"}
    PlanPhases = {"clean", "planned", "partial"}
    RefreshPhases = {}
    WorkPhases = {"clean", "partial"}
    AllowAbsorb = FALSE
    MaxHead = 3
    MaxFaults = 0
INVARIANTS
    NoLostWork
