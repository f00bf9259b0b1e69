\* Two workers; news that is read live for one tick and cached for two; three
\* daily bars at the start.
CONSTANTS
    Workers = {w1, w2}
    Prices = {9}
    History <- MCHistory
    IndexHistory <- MCIndex
    FirstDays = {3}
    Window = 4
    EmaPeriod = 2
    RsiPeriod = 2
    AtrPeriod = 2
    RegimePeriod = 2
    TTL = 2
    MaxCall = 1
    Amounts = {100, 1000}
    Targets = {1, 10}
    RiskPct = 10
    RiskMult = 2
    MaxBars = 2
    MaxNews = 1
    MaxAdds = 1
    Quotes = {1, 2, 3, 4}
    Periods = {2, 3}
    Null = Null
SPECIFICATION FairSpec
INVARIANTS TypeOK SeedCoherent FreshEntries SignalsJustified SizedWithinLimits
INVARIANTS EmaIsWeighted RsiSymmetric TrueRangeSpans
PROPERTIES BadNewsHeeded IndicatorsCatchUp
CHECK_DEADLOCK FALSE
