\* One run, two pairs: the list is read, then the reading of the trials fails.
SPECIFICATION Spec
CONSTANTS
    Run = {r1}
    Pair = {p1, p2}
    None = None
    LastRow = 4
    BatchLimit = 1
    MarketsPerRun = 1
    ShrinkFloor = 2
    SheetsConfigured = FALSE
    HandEdits = FALSE
    r1 = r1
    p1 = p1
    p2 = p2
PROPERTIES
    FailedScanKeepsUniverse
