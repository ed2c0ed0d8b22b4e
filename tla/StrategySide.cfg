\* The instances of the other modules are in MCStrategy.
SPECIFICATION MCSpec
CONSTANTS
    x = x
    y = y
    z = z
    Symbol = {x, y, z}
    Price = {4, 8}
    Spread = 1
    PriceStep = 2
    Book <- MCBook
    MinimumQuantity = 1
    Unit = 10
    Fee = 1
    Parts = 20
    Allocation = {2, 4}
    MaximumExposure = 6
    MaxEntryChase = 10
    MaximumRoundTripCost = 14
    Stop = 2
    Target = 4
    MaximumPositions = 2
    Opening = 70
    MaxEntries = 3
    Midnight <- MCMidnight
    ShareValue = {8, 9, 10}
    Shares = {1, 2}
    RiskParts = 10
    Daily = 1
    Reduce = 2
    Restore = 1
    MaxMarks = 3
    MaxEvents = 6
    Cycle = {c1, c2}
    Scanned = {"a"}
    Listed <- MCListed
    Warmup = 2
    SignalTtl = 1
    Cross <- MCCross
    LastCandle = 5
    Books <- MCBooks
    Issue = {"none", "inactive", "quiet"}
    Budget = 11
    QuoteUnit = 10
    QuoteFee = 1
    Minimum = 1
    StopLoss = 30
    TakeProfit = 20
    Percent = 100
    Gap = 2
    Age = 1
    Wait = 2
    Candidate = 4
    Hold = 2
    Observations = 3
    LastTime = 5
    Readings = 4
    Exits = 2
    Ordered = 3
    FillPrice = {2}
    FeeEur = 1
    FeeCoins = 1
    Own = 1
SYMMETRY Symmetry
INVARIANTS
    TrialsAreEarned
    TradesAreCash
PROPERTIES
    LossStopsTheDay
    ShareIsEarned
    
    StopsProtect
    AppliedInTurn
CHECK_DEADLOCK FALSE
