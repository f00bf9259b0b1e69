\* One worker, and no news: three daily bars at the start, and two more.
CONSTANTS
    Workers = {w1}
    Prices = {9}
    History <- MCHistory
    IndexHistory <- MCIndex
    FirstDays = {3}
    Window = 4
    EmaPeriod = 2
    RsiPeriod = 2
    AtrPeriod = 2
    RegimePeriod = 2
    TTL = 2
    MaxCall = 1
    Amounts = {100}
    Targets = {1}
    RiskPct = 10
    RiskMult = 2
    MaxBars = 1
    MaxNews = 0
    MaxAdds = 0
    Quotes = {1}
    Periods = {2}
    Null = Null
SPECIFICATION Spec
INVARIANT PreviewSame
