\* One run, two pairs, two events that go into the sheet one at a time.
SPECIFICATION LiveSpec
CONSTANTS
    Run = {r1}
    Pair = {p1, p2}
    None = None
    LastRow = 3
    BatchLimit = 1
    MarketsPerRun = 1
    ShrinkFloor = 2
    SheetsConfigured = TRUE
    HandEdits = FALSE
    r1 = r1
    p1 = p1
    p2 = p2
PROPERTIES
    EventuallySynced
