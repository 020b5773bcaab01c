CONSTANTS
    Browsers = {b1}
    Photos = {p1}
    Unreadable = {}
    Refused <- MCRefused
    Parts = {1, 2}
    Requests = {r1, r2}
    None = None
    MaxTries = 2
    MaxFaults = 1
SPECIFICATION FairSpec
INVARIANTS TypeOK PartsAreReclaimed CitedIsOnFile
CHECK_DEADLOCK FALSE
PROPERTY SessionsEnd
