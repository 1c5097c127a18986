SPECIFICATION Spec
CONSTANTS
    r1 = r1
    order = order
    renew1 = renew1
    renew2 = renew2
    refund = refund
    failed = failed
    cancel = cancel
    NoEvent = NoEvent
    Requests = {r1}
    Events = {order, renew1, renew2}
    Operations = {}
    creem = creem
    pro = pro
    basic = basic
    Product = companion
    AnyProduct = AnyProduct
    DefaultPlan = basic
    Mappings <- MCMappings
    Adapters <- MCAdapters
    Matching = {creem}
    Issuer = creem
    TypeOf <- MCTypeOf
    IdOf <- SharedIds
    MaxRows = 4
    MaxChanges = 0
INVARIANTS
    AckedWasHandled
CHECK_DEADLOCK FALSE
