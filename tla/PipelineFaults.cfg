SPECIFICATION ClaimSpec
CHECK_DEADLOCK FALSE
CONSTANTS
    Nodes = {1, 2}
    Stems = {p}
    h1 = h1
    h2 = h2
    Hashes = {h1, h2}
    None = None
    Kind <- Components
    ModuleOf <- NoModules
    RefreshTypes <- AllRefreshTypes
    Drafts <- ComponentDrafts
    EditPhases = {"clean"}
    PlanPhases = {"clean", "dead", "partial"}
    RefreshPhases = {}
    WorkPhases <- AllPhases
    AllowAbsorb = FALSE
    MaxHead = 2
    MaxFaults = 1
INVARIANTS
    TypeOK
    NoDuplicateLiveTask
    IngestNeverRefuses
    PairingsNameTheirTask
    LiveWorkIsTracked
PROPERTIES
    JournalLeadsBaseline
    HeldTasksUntouched
