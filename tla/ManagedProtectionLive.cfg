\* Passes are killed and reads fail before an exit is begun; the venue answers.
SPECIFICATION LiveSpec
CONSTANTS
    Ordered = 3
    Minimum = 2
    MinimumAtStop = 2
    Faults = {"stop", "read"}
PROPERTIES
    TriggeredIsSold
