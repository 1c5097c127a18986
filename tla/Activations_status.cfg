SPECIFICATION Spec
CONSTANTS
    a1 = a1
    a2 = a2
    b = b
    legacy = legacy
    None = None
    r1 = r1
    r2 = r2
    Fingerprints = {a1, b}
    Requests = {r1, r2}
    MachineOf <- MCMachineOf
    Operations = {"activate", "refresh", "deactivate", "unbind", "suspend", "revoke", "reactivate", "crash"}
    Limits = {2}
    AllowReactivation = FALSE
SYMMETRY RequestSymmetry
INVARIANTS
    ActivatedBeforeIssue
    NoLicenceAfterRevoke
    LicenceMirrorsDevices
PROPERTIES
    OnlyOvertakenRevive
    UnboundStaysUnbound
