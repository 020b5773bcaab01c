SPECIFICATION Spec
CONSTANTS
    Technicians = {ahmed, rashid}
    Office = Office
    Txs = {t1, t2}
    MaxVisits = 2
SYMMETRY JobsSymmetry
INVARIANTS
    TypeOK
    OneLivePlan
    TrackingStops
    CompletionHasOutcome
PROPERTIES
    EndedStaysEnded
