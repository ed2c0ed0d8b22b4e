\* Two invocations, one entry and two exits of its position.
SPECIFICATION Spec
CONSTANTS
    w1 = w1
    w2 = w2
    e1 = e1
    x1 = x1
    x2 = x2
    coin = coin
    None = None
    Worker <- MCWorker
    Key <- MCKey
    Entry <- MCEntry
    Symbol <- MCSymbol
    SymbolOf <- MCSymbolOf
    EntryOf <- MCEntryOf
SYMMETRY WorkerSymmetry
INVARIANTS
    OneAtATime
    OutcomesProven
PROPERTIES
    RecordNeverRegresses
    SwitchBinds
    ImplementsOrderOnce
