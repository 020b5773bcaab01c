SPECIFICATION FairSpec
CONSTANTS
    Devices = {d1, d2, d3}
    NoDevice = NoDevice
    Requests = {r1, r2}
    MaxTokens = 7
    MaxFaults = 3
INVARIANTS
    TypeOK
PROPERTIES
    HolderIsNoThief
    LetInAgain
