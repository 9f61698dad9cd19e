SPECIFICATION Spec
CONSTANTS
    Slots = {s1, s2}
    Stems = {p, q}
    Cycles = {}
    Drifts = {}
    Initialised = TRUE
    Absent = Absent
    Torn = Torn
    MaxRefresh = 0
    MaxFaults = 0
INVARIANTS
    NoFileWithoutEvent
