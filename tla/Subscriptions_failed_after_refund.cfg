SPECIFICATION Spec
CONSTANTS
    r1 = r1
    Requests = {r1}
    Operations = {"refund", "fail"}
    AllowNewDeviceDuringGrace = FALSE
    Period = 2
    GraceDays = 1
    DefaultGrace = 2
    CacheDays = 2
    Compensation = 2
    Answers = {}
    LastDay = 4
    MaxDate = 0
    MaxCrashes = 0
INVARIANTS
    RefundFinal
