\* Two workers buy the same symbol.
CONSTANTS
    Workers = {w1, w2}
    Symbols = {A}
    Ids = {i1, i2}
    Transfers = {1}
    TargetTrades <- TwoSlots
    ChanCap = 1
    BrokerEvents = {"fill"}
    Faults = {}
    Null = Null
SPECIFICATION Spec
INVARIANT OnePositionPerSymbol
