SPECIFICATION Spec
CHECK_DEADLOCK FALSE
CONSTANTS
    Nodes = {1, 2}
    Stems = {p}
    h1 = h1
    h2 = h2
    Hashes = {h1, h2}
    None = None
    Kind <- ComponentAndRequirement
    ModuleOf <- NoModules
    RefreshTypes <- AllRefreshTypes
    Drafts <- DriftDrafts
    EditPhases = {"clean"}
    PlanPhases = {"clean", "partial"}
    RefreshPhases = {"clean"}
    WorkPhases = {}
    AllowAbsorb = TRUE
    MaxHead = 3
    MaxFaults = 1
INVARIANTS
    EventIDsUnique
    AbsorbedEventsReceipted
PROPERTIES
    JournalOnlyGrows
