\* A buy filled in part and then cancelled.
CONSTANTS
    Workers = {w1}
    Symbols = {A}
    Ids = {i1, i2}
    Transfers = {1}
    TargetTrades <- TwoSlots
    ChanCap = 4
    BrokerEvents = {"partial_fill", "canceled"}
    Faults = {}
    Null = Null
SPECIFICATION Spec
INVARIANT HeldSharesWatched
