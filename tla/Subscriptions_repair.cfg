SPECIFICATION FairSpec
CONSTANTS
    r1 = r1
    r2 = r2
    Requests = {r1, r2}
    Operations = {"renew", "fail", "refresh", "compensate", "extend", "sync", "cancel"}
    AllowNewDeviceDuringGrace = FALSE
    Period = 1
    GraceDays = 1
    DefaultGrace = 2
    CacheDays = 2
    Compensation = 1
    Answers = {"active"}
    LastDay = 2
    MaxDate = 2
    MaxCrashes = 1
PROPERTIES
    RefreshRepairs
