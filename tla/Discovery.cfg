\* Two overlapping runs: three pairs without an export, or the export of two
\* events with a sheet that others type into.
SPECIFICATION MCSpec
CONSTANTS
    r1 = r1
    r2 = r2
    Run = {r1, r2}
    p1 = p1
    p2 = p2
    p3 = p3
    Pair = {p1, p2, p3}
    None = None
    LastRow = 3
    BatchLimit = 2
    MarketsPerRun = 2
    ShrinkFloor = 2
    SheetsConfigured = TRUE
    HandEdits = TRUE
SYMMETRY Symmetry
INVARIANTS
    OneRowEach
    SyncedIsInSheet
    NewPairsOnce
PROPERTIES
    NothingForgotten
    TypedIsKept
