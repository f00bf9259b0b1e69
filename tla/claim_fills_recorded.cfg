\* An order that fills before its id is stored; no update is dropped.
CONSTANTS
    Workers = {w1}
    Symbols = {A}
    Ids = {i1, i2}
    Transfers = {1}
    TargetTrades <- TwoSlots
    ChanCap = 4
    BrokerEvents = {"fill"}
    Faults = {}
    Null = Null
SPECIFICATION Spec
INVARIANT FillsRecorded
