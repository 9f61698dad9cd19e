SPECIFICATION Spec
CHECK_DEADLOCK FALSE
CONSTANTS
    Nodes = {1}
    Stems = {p}
    h1 = h1
    h2 = h2
    Hashes = {h1, h2}
    None = None
    Kind <- Components
    ModuleOf <- NoModules
    RefreshTypes <- AllRefreshTypes
    Drafts <- ComponentDrafts
    EditPhases = {"clean"}
    PlanPhases = {"clean", "planned", "partial"}
    RefreshPhases = {"clean"}
    WorkPhases <- AllPhases
    AllowAbsorb = FALSE
    MaxHead = 2
    MaxFaults = 0
INVARIANTS
    LiveWorkIsTracked
