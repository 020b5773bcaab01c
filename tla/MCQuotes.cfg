SPECIFICATION QuotesSpec
CONSTANTS
    Revisions = {t1, t2}
    MaxQuotes = 4
SYMMETRY RevisionSymmetry
INVARIANTS
    QuotesTypeOK
    ReplacedIsRetired
PROPERTIES
    DecisionStands
CHECK_DEADLOCK FALSE
