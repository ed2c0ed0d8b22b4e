\* The connection is replaced while a confirmation is under way.
SPECIFICATION Spec
CONSTANTS
    i1 = i1
    i2 = i2
    r1 = r1
    r2 = r2
    r3 = r3
    a = a
    b = b
    None = None
    Intents <- MCIntents
    Requests <- MCRequests
    Credentials <- MCCredentials
SYMMETRY Symmetry
INVARIANTS
    UnresolvedIsReachable
