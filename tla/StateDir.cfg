SPECIFICATION FairSpec
CONSTANTS
    Slots = {s1}
    Stems = {p}
    Cycles = {c, d}
    Drifts = {r}
    Initialised = FALSE
    Absent = Absent
    Torn = Torn
    MaxRefresh = 2
    MaxFaults = 3
INVARIANTS
    TypeOK
    NoFileWithoutEvent
    DoctorAgrees
PROPERTIES
    StaysResolvable
    RegistrationRepaired
    ImplementsLedger
