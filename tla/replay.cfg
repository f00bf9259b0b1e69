\* One worker, the whole range of broker events; the stream loses and repeats
\* events, statements fail, the process crashes.
CONSTANTS
    Workers = {w1}
    Symbols = {A}
    Ids = {i1, i2}
    Transfers = {1}
    TargetTrades <- TwoSlots
    ChanCap = 2
    BrokerEvents = {"new", "pending_new", "partial_fill", "fill", "canceled", "rejected"}
    Faults = {"db", "crash", "disconnect", "replay"}
    Null = Null
SPECIFICATION Spec
SYMMETRY Symmetry
INVARIANTS OrderAudited SlotConservation
PROPERTY TerminalIsFinal
