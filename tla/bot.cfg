\* Requests at any time, two of them at once, and workers that are scheduled.
CONSTANTS
    Callers = {c1, c2}
    Workers = {w1, w2}
    MaxOrders = 2
SPECIFICATION FairSpec
INVARIANTS TypeOK StartErrorJustified
PROPERTIES StoppedOnlyStarts StopDrains
