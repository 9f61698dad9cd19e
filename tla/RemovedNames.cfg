SPECIFICATION Spec
CONSTANTS
    a = a
    b = b
    m = m
    o = o
    Words = {a, b, m, o}
    Prose <- Written
    Decls <- Declared
    Entries <- Listed
    maxNameWords = 2
    KeepID = FALSE
    MaxProse = 2
    MaxModules = 2
    MaxNodes = 2
    MaxBaselines = 2
INVARIANTS
    SweepIsExact
    NothingSilent
    GivenUpOnlyWhenLost
