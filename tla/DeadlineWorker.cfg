\* One entry, overlapping passes, disturbances that cease.
SPECIFICATION LiveSpec
CONSTANTS
    Pass = {p1, p2}
    Ordered = 1
    None = None
INVARIANTS
    TimerOutlivesEntry
    HandedOver
    WatchKept
PROPERTIES
    DeadlineServed
CHECK_DEADLOCK FALSE
