\* Two workers and the consumer on one buy; closes at the static stop
\* (6), at the entry (11), where the stop breaks even (13) and where it trails (14).
CONSTANTS
    BreakEven = 2
    Trail = 3
    Distance = 4
    Risk = 4
    Profit = 6
    Workers = {w1, w2}
    Buys = {b1}
    Prices = {6, 11, 13, 14}
    Fills = {11}
    Entries <- OneOfEach
    MaxMoves = 1
    Faults = {"db"}
    Null = Null
SPECIFICATION FairSpec
INVARIANTS TypeOK LocksProtect StopBetween LogBacked
PROPERTIES OnlyPeakRises LiveFollows UpdateEnds
CHECK_DEADLOCK FALSE
