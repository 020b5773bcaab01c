SPECIFICATION FairSpec
CONSTANTS
    photo = photo
    finish = finish
    clock = clock
    job = job
    NoJob = NoJob
    NoMutation = NoMutation
    NoRequest = NoRequest
    Mutations = {photo, finish}
    Jobs = {job}
    Slots = {r1, r2}
    JobOf <- MCJobOf
    DependsOn <- MCDependsOn
    KindOf <- MCKindOf
    MaxAttempts = 2
    DrainBatchLimit = 2
    Advances = {1}
    MaxDisruptions = 2
INVARIANTS
    TypeOK
    AtMostOnce
    PhoneBelievesLedger
    EvidenceFirst
PROPERTIES
    VerdictIsFinal
    AnswerIsFinal
    ImplementsDelivery
    EventuallySettled
