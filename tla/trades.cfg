\* Two workers on one symbol, three identifiers: a buy, a sell that hides it and
\* a second buy, or buys that race for the only slot of a transfer.  Statements
\* fail, the process crashes.
CONSTANTS
    Workers = {w1, w2}
    Symbols = {A}
    Ids = {i1, i2, i3}
    Transfers = {1, 2}
    TargetTrades <- OneSlot
    ChanCap = 1
    BrokerEvents = {"fill", "canceled"}
    Faults = {"db", "crash"}
    Null = Null
SPECIFICATION HSpec
SYMMETRY Symmetry
INVARIANTS TypeOK OneSellPerBuy OrderAudited RowsOwned OnePositionUnlessMet
PROPERTY LedgerSpec
