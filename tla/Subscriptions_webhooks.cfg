SPECIFICATION Spec
CONSTANTS
    r1 = r1
    r2 = r2
    Requests = {r1, r2}
    Operations = {"renew", "cancel", "fail", "refund", "refresh", "activate"}
    AllowNewDeviceDuringGrace = FALSE
    Period = 2
    GraceDays = 1
    DefaultGrace = 2
    CacheDays = 2
    Compensation = 2
    Answers = {}
    LastDay = 4
    MaxDate = 0
    MaxCrashes = 1
SYMMETRY RequestSymmetry
INVARIANTS
    TypeOK
    GraceBounded
    RowsAgree
PROPERTIES
    RevivedOnlyBy
