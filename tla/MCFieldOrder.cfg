SPECIFICATION Spec
CONSTANTS
    way = way
    arrive = arrive
    text = text
    job1 = job1
    job2 = job2
    NoJob = NoJob
    NoMutation = NoMutation
    NoRequest = NoRequest
    Mutations = {way, arrive, text}
    Jobs = {job1, job2}
    Slots = {r1, r2}
    JobOf <- MCJobOf
    DependsOn <- MCDependsOn
    KindOf <- MCKindOf
    MaxAttempts = 2
    DrainBatchLimit = 2
    Advances = {1}
    MaxDisruptions = 0
SYMMETRY SlotSymmetry
INVARIANTS
    FifoPerJob
    OfficeKeepsOrder
