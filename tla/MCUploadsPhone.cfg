CONSTANTS
    Browsers = {}
    Photos = {p1, p2}
    Unreadable = {}
    Refused <- MCRefused
    Parts = {1, 2}
    Requests = {r1}
    None = None
    MaxTries = 1
    MaxFaults = 1
SPECIFICATION FairSpec
PROPERTY CaptureGoesUp
CHECK_DEADLOCK FALSE
