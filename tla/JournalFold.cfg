SPECIFICATION LogSpec
CHECK_DEADLOCK FALSE
CONSTANTS
    n1 = 1
    p = p
    h1 = h1
    Nodes = {1}
    Stems = {p}
    Hashes = {h1}
    None = None
    Written <- ShortLines
    MaxLines = 4
INVARIANTS
    FoldIsWalk
    ReceiptPositionIsImmaterial
    HistoryTellsTheFold
