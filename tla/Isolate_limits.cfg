SPECIFICATION Spec
CONSTANTS
    r1 = r1
    r2 = r2
    k1 = k1
    Requests = {r1, r2}
    Keys = {k1}
    None = None
    SeedRows <- MCSeedRows
    Keyed = {"plan"}
    ipMax = 2
    ipWindow = 1
    ipFailMax = 2
    ipFailWindow = 2
    orderFailMax = 1
    orderFailWindow = 2
    feedbackMax = 1
    Day = 1
    LastTime = 2
    MaxFaults = 1
    MaxEvictions = 1
    MaxMappings = 1
SYMMETRY Symmetry
INVARIANTS
    TypeOK
    FailuresBounded
    FeedbackBounded
    ReadyIsSeeded
