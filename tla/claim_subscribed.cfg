\* No call fails; the watchlist changes while the stream connects.
CONSTANTS
    Symbols = {A, B}
    Clients = {k1, k2, k3}
    MaxDelay = 4
    Faults = {"drop"}
    MaxFaults = 1
    MaxEdits = 2
    Null = Null
SPECIFICATION Spec
INVARIANT SubscriptionsApplied
