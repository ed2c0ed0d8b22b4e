\* A read fails while submit() repeats its checks; nothing else goes wrong.
SPECIFICATION FairSpec
CONSTANTS
    Ordered = 1
    Minimum = 1
    MinimumAtStop = 1
    Faults = {"check"}
PROPERTIES
    TriggeredIsSold
