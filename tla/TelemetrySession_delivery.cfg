SPECIFICATION Spec
CONSTANTS
    seen = seen
    start = start
    first = first
    second = second
    third = third
    Events = {seen, start, first, second, third}
    TypeOf <- EventTypes
    DurationOf <- EventDurations
    None = None
    r1 = r1
    r2 = r2
    r3 = r3
    Requests = {r1, r2, r3}
    Attempts = 3
    MaxDuration = 3
    MaxFailures = 2
SYMMETRY RequestSymmetry
INVARIANTS
    TypeOK
    DeltasExact
    CountedOnce
    ReportMatchesEvents
