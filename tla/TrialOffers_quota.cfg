SPECIFICATION FairSpec
CONSTANTS
    a = a
    b = b
    Blobs = {a, b}
    MachineOf <- MCMachineOf
    None = None
    OldGrants <- MCOldGrants
    r1 = r1
    r2 = r2
    Requests = {r1, r2}
    Duration = 1
    MaxGrants = 1
    LastDay = 1
    MaxChanges = 1
INVARIANTS
    TypeOK
    OneTrial
    QuotaBounded
PROPERTIES
    StartAnswered
