\* One run and three pairs that take turns; two overlapping scans of three symbols.
SPECIFICATION MCLiveSpec
CONSTANTS
    Run = {r1}
    Pair = {p1, p2, p3}
    None = None
    LastRow = 3
    BatchLimit = 1
    MarketsPerRun = 1
    ShrinkFloor = 2
    SheetsConfigured = FALSE
    HandEdits = FALSE
    r1 = r1
    p1 = p1
    p2 = p2
    p3 = p3
    a = a
    b = b
    c = c
    c1 = c1
    c2 = c2
PROPERTIES
    TurnsComeRound
    EverySymbolRead
