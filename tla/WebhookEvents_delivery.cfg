SPECIFICATION FairSpec
CONSTANTS
    r1 = r1
    r2 = r2
    order = order
    renew1 = renew1
    renew2 = renew2
    refund = refund
    failed = failed
    cancel = cancel
    NoEvent = NoEvent
    Requests = {r1, r2}
    Events = {order, refund, renew1, failed}
    Operations = {"retry", "import"}
    creem = creem
    pro = pro
    basic = basic
    Product = companion
    AnyProduct = AnyProduct
    DefaultPlan = basic
    Mappings <- MCMappings
    Adapters <- MCAdapters
    Matching = {creem}
    Issuer = creem
    TypeOf <- MCTypeOf
    IdOf <- OwnIds
    MaxRows = 4
    MaxChanges = 1
INVARIANTS
    TypeOK
    AppliedOnce
    AckedWasHandled
    LicenceFollowsSubscription
    RefundLostOnlyEarly
PROPERTIES
    StoredIsProcessed
    
CHECK_DEADLOCK FALSE
