SPECIFICATION FairSpec
CONSTANTS
    Jobs = {1, 2}
    Writers = {w1, w2}
    None = None
    Lag = 1
    MaxOpen = 1
    Limits = {1, 2}
    MaxTime = 2
    MaxWrites = 2
    MaxFaults = 1
INVARIANTS
    JobComesWithItsSite
CHECK_DEADLOCK FALSE
