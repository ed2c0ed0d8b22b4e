\* Two reviews, three requests at a time, two accounts; or one position of two
\* quantity steps, with every fault.
SPECIFICATION MCSpec
CONSTANTS
    i1 = i1
    i2 = i2
    r1 = r1
    r2 = r2
    r3 = r3
    a = a
    b = b
    None = None
    Intents = {i1, i2}
    Requests = {r1, r2, r3}
    Credentials = {a, b}
    Ordered = 2
    Minimum = 1
    MinimumAtStop = 2
    Faults = {"stop", "crash", "read", "lookup", "check", "reply", "reject"}
SYMMETRY Symmetry
INVARIANTS
    SentAlone
    OutcomeIsTrue
    ReviewedAccount
    SoldOnce
    RecordIsTrue
PROPERTIES
    AuthorisedOnce
    TriggerKept
