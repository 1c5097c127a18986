SPECIFICATION Spec
CONSTANTS
    m1 = m1
    m2 = m2
    Machines = {m1, m2}
    p1 = p1
    Pools = {p1}
    None = None
    r1 = r1
    r2 = r2
    Requests = {r1, r2}
    MaxProfiles = 1
    ReuseReferenced = FALSE
    MaxKeys = 2
    MaxChanges = 2
SYMMETRY RequestAndMachineSymmetry
INVARIANTS
    TypeOK
    GrantsBounded
    SharingBounded
    NoProfileAfterRevoke
    AnswerCounted
PROPERTIES
    CutOffOnly
