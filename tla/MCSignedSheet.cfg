SPECIFICATION FairSpec
CONSTANTS
    Signers = {s1, s2}
    Editors = {e1}
    None = None
    MaxEdits = 1
    MaxSheets = 2
    MaxFaults = 2
INVARIANTS
    TypeOK
    HashIsOfTheFile
PROPERTIES
    EvidenceIsFinal
    SignedUnlessTorn
CHECK_DEADLOCK FALSE
