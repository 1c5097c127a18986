SPECIFICATION Spec
CONSTANTS
    a1 = a1
    a2 = a2
    b = b
    legacy = legacy
    None = None
    r1 = r1
    r2 = r2
    Fingerprints = {a1, a2, b}
    Requests = {r1, r2}
    MachineOf <- MCMachineOf
    Operations = {"activate", "unbindDevice", "setLimit", "crash"}
    Limits = {1, 2}
    AllowReactivation = TRUE
SYMMETRY RequestSymmetry
INVARIANTS
    TypeOK
    OvershootBounded
    OneSlotPerMachine
    PendingDeviceExplained
PROPERTIES
    PoolSpec
