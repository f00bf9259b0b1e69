\* Two failures of any kind and one edit of the watchlist, then peace.
\* After a shutdown nothing is left to do.
CONSTANTS
    Symbols = {A, B}
    Clients = {k1, k2, k3}
    MaxDelay = 2
    Faults = {"fetch", "connect", "drop", "sdk", "seed"}
    MaxFaults = 2
    MaxEdits = 1
    Null = Null
SPECIFICATION FairSpec
INVARIANTS TypeOK OneConnection
PROPERTIES Reconnects WatchlistFollowed ActiveSeeded ShutdownEnds
CHECK_DEADLOCK FALSE
