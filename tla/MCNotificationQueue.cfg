SPECIFICATION FairSpec
CONSTANTS
    Notifications = {n1, n2}
    Timers = {t1, t2}
    Pages = {p1}
    None = None
    MaxAttempts = 5
    MaxFaults = 1
INVARIANTS
    TypeOK
PROPERTIES
    SentIsFinal
    SentOrSeen
CHECK_DEADLOCK FALSE
