\* Two workers under fair scheduling; calls may be refused or fail but return.
CONSTANTS
    Workers = {w1, w2}
    Symbols = {A}
    Ids = {i1, i2}
    Transfers = {1}
    TargetTrades <- TwoSlots
    ChanCap = 2
    BrokerEvents = {"partial_fill", "fill", "canceled"}
    Faults = {"lostReply", "disconnect"}
    Null = Null
SPECIFICATION FairSpec
INVARIANTS SlotConservation SellsPlaced
PROPERTIES BarsFinish UpdatesApplied
