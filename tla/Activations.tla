---------------------------- MODULE Activations ----------------------------
(***************************************************************************)
(* The device slots of one licence that has no subscription row (a manual  *)
(* AM- code or a one-time purchase): services/activation.ts.               *)
(*                                                                         *)
(* The Worker keeps nothing between requests and D1 gives it no            *)
(* transactions, so a request is a sequence of separate statements.  Each  *)
(* statement is one action here, with the decision the code takes on its   *)
(* result; what a request has read travels in its frame and may be stale   *)
(* when it is used.  Requests interleave freely.                           *)
(***************************************************************************)
EXTENDS Naturals, Sequences, FiniteSets

CONSTANTS
    Fingerprints,       \* fingerprint blobs the clients send
    MachineOf,          \* the identity inside a blob, or None when it is opaque
    None,
    Requests,           \* requests that can be in flight at the same time
    Operations,         \* the operations the environment calls
    Limits,             \* values of plan.maxActivations and of its override
    AllowReactivation   \* plan.allowReactivation

ASSUME RequestsAssumption == IsFiniteSet(Requests) /\ Requests # {}
ASSUME FingerprintsAssumption == IsFiniteSet(Fingerprints) /\ None \notin Fingerprints
ASSUME LimitsAssumption == Limits \subseteq Nat \ {0}
ASSUME PolicyAssumption == AllowReactivation \in BOOLEAN

VARIABLES
    entStatus,   \* entitlements.status
    licStatus,   \* licenses.status
    rows,        \* activations, in the order of their ids
    limit,       \* effectiveMaxActivations now
    req,         \* the frame of every request
    highLimit,   \* history: the largest limit so far
    revoked,     \* history: an adminRevokeOrder has run to its end
    crashed,     \* history: a request has died between two statements
    overlapped,  \* history: two requests have been in flight together
    reopened,    \* history: a revoked entitlement has got another status
    returned     \* history: the active rows that activateOrder has set active again

history == <<highLimit, revoked, crashed, overlapped, reopened, returned>>
vars == <<entStatus, licStatus, rows, limit, req, history>>

EntStatus == {"pending", "active", "suspended", "revoked"}
LicStatus == {"unused", "used", "revoked"}
Row == [fp : Fingerprints, status : {"active", "deactivated"}]

\* The statement a request executes next.
Pc == {"idle",
       "a_entitlement", "a_exact", "a_same", "a_reactivate", "a_touch",
       "a_count", "a_insert", "a_activate", "a_use", "a_issue",
       "r_row", "r_issue",
       "d_provider", "d_row", "d_count", "d_unuse",
       "u_rows", "u_unuse", "v_entitlement", "x_entitlement", "x_write"}

\* overtaken (history): the entitlement was revoked after this request read it.
\* late (history): the request began after a revocation had completed.
Frame == [pc : Pc, fp : Fingerprints \union {None},
          licRevoked : BOOLEAN,    \* license.status was revoked
          wasPending : BOOLEAN,    \* entitlement.status was pending
          limit : Nat, row : Nat, overtaken : BOOLEAN, late : BOOLEAN]

Idle == [pc |-> "idle", fp |-> None, licRevoked |-> FALSE, wasPending |-> FALSE,
         limit |-> 0, row |-> 0, overtaken |-> FALSE, late |-> FALSE]

-----------------------------------------------------------------------------
ActiveRows == {i \in DOMAIN rows : rows[i].status = "active"}

\* The rows that upsertActivation counted when it let them in, and the devices on them.
CountedRows == ActiveRows \ returned
HeldFingerprints == {rows[i].fp : i \in CountedRows}

SameMachine(f, g) == MachineOf[f] # None /\ MachineOf[f] = MachineOf[g]

\* The order of findActivationBySameMachine: active rows first, newest first.
Preferred(S) ==
    {i \in S : \A j \in S :
        /\ rows[j].status = "active" => rows[i].status = "active"
        /\ rows[j].status = rows[i].status => j <= i}

At(r, step) == req[r].pc = step
Goto(r, step) == req' = [req EXCEPT ![r].pc = step]
Finish(r) == req' = [req EXCEPT ![r] = Idle]

\* A request is counted among those in flight.
Enter(r) ==
    /\ overlapped' = (overlapped \/ \E q \in Requests \ {r} : ~At(q, "idle"))
    /\ UNCHANGED <<highLimit, revoked, crashed, reopened, returned>>

\* A request leaves idle; late is fixed here.
Begin(r, step, f, i) ==
    /\ req' = [req EXCEPT ![r] =
                 [Idle EXCEPT !.pc = step, !.fp = f, !.row = i,
                              !.licRevoked = (licStatus = "revoked"), !.late = revoked]]
    /\ Enter(r)

\* The entitlement gets a status other than revoked.
Reopen(status) ==
    /\ entStatus' = status
    /\ reopened' = (reopened \/ entStatus = "revoked")
    /\ UNCHANGED <<highLimit, revoked, crashed, overlapped, returned>>

Calls(r, op) == At(r, "idle") /\ op \in Operations

Init ==
    /\ entStatus \in {"pending", "active"}
    /\ licStatus = "unused"
    /\ rows = <<>>
    /\ limit \in Limits
    /\ highLimit = limit
    /\ req = [r \in Requests |-> Idle]
    /\ revoked = FALSE
    /\ crashed = FALSE
    /\ overlapped = FALSE
    /\ reopened = FALSE
    /\ returned = {}

-----------------------------------------------------------------------------
(* activateOrder                                                           *)

\* loadLicenceBundle reads the licence row, then the entitlement and its plan.
ActivateReadLicense(r, f) ==
    /\ Calls(r, "activate")
    /\ Begin(r, "a_entitlement", f, 0)
    /\ UNCHANGED <<entStatus, licStatus, rows, limit>>

Usable(status) == status \notin {"revoked", "suspended"}

\* Product, plan, validity and app-version checks may also turn it away.
ActivateReadEntitlement(r) ==
    /\ At(r, "a_entitlement")
    /\ \/ /\ Usable(entStatus)
          /\ ~req[r].licRevoked
          /\ req' = [req EXCEPT ![r].pc = "a_exact", ![r].limit = limit,
                                ![r].wasPending = (entStatus = "pending"),
                                ![r].overtaken = FALSE]
       \/ Finish(r)
    /\ UNCHANGED <<entStatus, licStatus, rows, limit, history>>

FoundRow(r, i) ==
    \/ /\ rows[i].status = "active"
       /\ req' = [req EXCEPT ![r].pc = "a_touch", ![r].row = i]
    \/ /\ rows[i].status # "active"
       /\ AllowReactivation
       /\ req' = [req EXCEPT ![r].pc = "a_reactivate", ![r].row = i]
    \/ /\ rows[i].status # "active"
       /\ ~AllowReactivation
       /\ Finish(r)

ActivateFindExact(r) ==
    /\ At(r, "a_exact")
    /\ \/ \E i \in DOMAIN rows : rows[i].fp = req[r].fp /\ FoundRow(r, i)
       \/ /\ \A i \in DOMAIN rows : rows[i].fp # req[r].fp
          /\ Goto(r, "a_same")
    /\ UNCHANGED <<entStatus, licStatus, rows, limit, history>>

\* Mutant of ActivateFindSameMachine: only an equal blob is recognised.
ActivateFindExactOnly(r) ==
    /\ At(r, "a_same")
    /\ Goto(r, "a_count")
    /\ UNCHANGED <<entStatus, licStatus, rows, limit, history>>

\* Mutant of ActivateFindSameMachine: the query forgets to compare the identity.
ActivateFindAnyMachine(r) ==
    /\ At(r, "a_same")
    /\ \/ \E i \in Preferred(DOMAIN rows) : FoundRow(r, i)
       \/ rows = <<>> /\ Goto(r, "a_count")
    /\ UNCHANGED <<entStatus, licStatus, rows, limit, history>>

ActivateFindSameMachine(r) ==
    LET same == {i \in DOMAIN rows : SameMachine(rows[i].fp, req[r].fp)} IN
    /\ At(r, "a_same")
    /\ \/ \E i \in Preferred(same) : FoundRow(r, i)
       \/ same = {} /\ Goto(r, "a_count")
    /\ UNCHANGED <<entStatus, licStatus, rows, limit, history>>

\* UNIQUE (entitlement_id, fingerprint): another row may not carry f.
FreeFor(f, i) == \A j \in DOMAIN rows : rows[j].fp = f => j = i

\* Mutant of AfterReissue: a known device never needs the entitlement written.
AfterReissueIssue(r) == Goto(r, "a_issue")

\* reissue is TRUE: only a pending entitlement is written afterwards.
AfterReissue(r) == Goto(r, IF req[r].wasPending THEN "a_activate" ELSE "a_issue")

\* Mutant of ActivateTouch: the row is written back as it was read, active.
ActivateTouchRevives(r) ==
    /\ At(r, "a_touch")
    /\ FreeFor(req[r].fp, req[r].row)
    /\ rows' = [rows EXCEPT ![req[r].row] = [fp |-> req[r].fp, status |-> "active"]]
    /\ AfterReissue(r)
    /\ UNCHANGED <<entStatus, licStatus, limit, history>>

\* The row as it is now, under the id read before: an active one keeps its status.
ActivateTouch(r) ==
    /\ At(r, "a_touch")
    /\ \/ /\ FreeFor(req[r].fp, req[r].row)
          /\ rows' = [rows EXCEPT ![req[r].row].fp = req[r].fp]
          /\ AfterReissue(r)
       \/ /\ ~FreeFor(req[r].fp, req[r].row)
          /\ Finish(r)
          /\ UNCHANGED rows
    /\ UNCHANGED <<entStatus, licStatus, limit, history>>

ActivateReactivate(r) ==
    /\ At(r, "a_reactivate")
    /\ \/ /\ FreeFor(req[r].fp, req[r].row)
          /\ rows' = [rows EXCEPT ![req[r].row] = [fp |-> req[r].fp, status |-> "active"]]
          /\ returned' = returned \union {req[r].row}
          /\ AfterReissue(r)
       \/ /\ ~FreeFor(req[r].fp, req[r].row)
          /\ Finish(r)
          /\ UNCHANGED <<rows, returned>>
    /\ UNCHANGED <<entStatus, licStatus, limit, highLimit, revoked, crashed, overlapped, reopened>>

\* Mutant of ActivateCount: an off-by-one in the comparison.
ActivateCountOffByOne(r) ==
    /\ At(r, "a_count")
    /\ IF Cardinality(ActiveRows) > req[r].limit THEN Finish(r) ELSE Goto(r, "a_insert")
    /\ UNCHANGED <<entStatus, licStatus, rows, limit, history>>

ActivateCount(r) ==
    /\ At(r, "a_count")
    /\ IF Cardinality(ActiveRows) >= req[r].limit THEN Finish(r) ELSE Goto(r, "a_insert")
    /\ UNCHANGED <<entStatus, licStatus, rows, limit, history>>

\* Mutant of ActivateInsert: a new device is issued its licence at once.
ActivateInsertIssue(r) ==
    /\ At(r, "a_insert")
    /\ FreeFor(req[r].fp, 0)
    /\ rows' = Append(rows, [fp |-> req[r].fp, status |-> "active"])
    /\ Goto(r, "a_issue")
    /\ UNCHANGED <<entStatus, licStatus, limit, history>>

ActivateInsert(r) ==
    /\ At(r, "a_insert")
    /\ \/ /\ FreeFor(req[r].fp, 0)
          /\ rows' = Append(rows, [fp |-> req[r].fp, status |-> "active"])
          /\ Goto(r, "a_activate")
       \/ /\ ~FreeFor(req[r].fp, 0)
          /\ Finish(r)
          /\ UNCHANGED rows
    /\ UNCHANGED <<entStatus, licStatus, limit, history>>

ActivateWriteEntitlement(r) ==
    /\ At(r, "a_activate")
    /\ Reopen("active")
    /\ Goto(r, "a_use")
    /\ UNCHANGED <<licStatus, rows, limit>>

ActivateWriteLicense(r) ==
    /\ At(r, "a_use")
    /\ licStatus' = "used"
    /\ Goto(r, "a_issue")
    /\ UNCHANGED <<entStatus, rows, limit, history>>

\* The bundle is reloaded but not checked again before the licence is signed.
ActivateIssue(r) ==
    /\ At(r, "a_issue")
    /\ Finish(r)
    /\ UNCHANGED <<entStatus, licStatus, rows, limit, history>>

-----------------------------------------------------------------------------
(* refreshLicence without a subscription; it never looks at licStatus.     *)

RefreshReadEntitlement(r, f) ==
    /\ Calls(r, "refresh")
    /\ Usable(entStatus)
    /\ req' = [req EXCEPT ![r] = [Idle EXCEPT !.pc = "r_row", !.fp = f,
                                     !.wasPending = (entStatus = "pending"),
                                     !.late = revoked]]
    /\ Enter(r)
    /\ UNCHANGED <<entStatus, licStatus, rows, limit>>

\* No active row with this fingerprint, or refreshed too recently: rejected.
RefreshFindRow(r) ==
    /\ At(r, "r_row")
    /\ \/ /\ \E i \in ActiveRows : rows[i].fp = req[r].fp
          /\ Goto(r, "r_issue")
       \/ Finish(r)
    /\ UNCHANGED <<entStatus, licStatus, rows, limit, history>>

RefreshIssue(r) ==
    /\ At(r, "r_issue")
    /\ Finish(r)
    /\ UNCHANGED <<entStatus, licStatus, rows, limit, history>>

-----------------------------------------------------------------------------
(* deactivateOrder, adminUnbindDevice and adminUnbindOrder                 *)

DeactivateFindRow(r, f) ==
    /\ Calls(r, "deactivate")
    /\ \E i \in ActiveRows : rows[i].fp = f /\ Begin(r, "d_provider", f, i)
    /\ UNCHANGED <<entStatus, licStatus, rows, limit>>

\* adapter.deactivate: an error answers 502 before anything is written.
DeactivateProvider(r) ==
    /\ At(r, "d_provider")
    /\ Goto(r, "d_row") \/ Finish(r)
    /\ UNCHANGED <<entStatus, licStatus, rows, limit, history>>

UnbindDeviceFindRow(r) ==
    /\ Calls(r, "unbindDevice")
    /\ \E i \in ActiveRows : Begin(r, "d_row", None, i)
    /\ UNCHANGED <<entStatus, licStatus, rows, limit>>

\* Mutant of DeactivateWriteRow: a status that the schema does not know.
DeactivateWriteRowUnbound(r) ==
    /\ At(r, "d_row")
    /\ rows' = [rows EXCEPT ![req[r].row].status = "unbound"]
    /\ returned' = returned \ {req[r].row}
    /\ Goto(r, "d_count")
    /\ UNCHANGED <<entStatus, licStatus, limit, highLimit, revoked, crashed, overlapped, reopened>>

DeactivateWriteRow(r) ==
    /\ At(r, "d_row")
    /\ rows' = [rows EXCEPT ![req[r].row].status = "deactivated"]
    /\ returned' = returned \ {req[r].row}
    /\ Goto(r, "d_count")
    /\ UNCHANGED <<entStatus, licStatus, limit, highLimit, revoked, crashed, overlapped, reopened>>

\* Mutant of DeactivateCount: the licence is freed with the first device.
DeactivateCountNothing(r) ==
    /\ At(r, "d_count")
    /\ Goto(r, "d_unuse")
    /\ UNCHANGED <<entStatus, licStatus, rows, limit, history>>

DeactivateCount(r) ==
    /\ At(r, "d_count")
    /\ IF ActiveRows = {} THEN Goto(r, "d_unuse") ELSE Finish(r)
    /\ UNCHANGED <<entStatus, licStatus, rows, limit, history>>

UnbindAll(r) ==
    /\ Calls(r, "unbind")
    /\ Begin(r, "u_rows", None, 0)
    /\ UNCHANGED <<entStatus, licStatus, rows, limit>>

\* One UPDATE over every active row; a provider error is only logged.
UnbindAllRows(r) ==
    /\ At(r, "u_rows")
    /\ rows' = [i \in DOMAIN rows |-> [rows[i] EXCEPT !.status = "deactivated"]]
    /\ returned' = {}
    /\ Goto(r, "u_unuse")
    /\ UNCHANGED <<entStatus, licStatus, limit, highLimit, revoked, crashed, overlapped, reopened>>

WriteUnused(r) ==
    /\ At(r, "d_unuse") \/ At(r, "u_unuse")
    /\ licStatus' = "unused"
    /\ Finish(r)
    /\ UNCHANGED <<entStatus, rows, limit, history>>

-----------------------------------------------------------------------------
(* adminDeactivateOrder (suspend), adminRevokeOrder, adminReactivateOrder, *)
(* adminIncreaseDeviceCount and updatePlan                                 *)

Suspend ==
    /\ "suspend" \in Operations
    /\ Reopen("suspended")
    /\ UNCHANGED <<licStatus, rows, limit, req>>

RevokeWriteLicense(r) ==
    /\ Calls(r, "revoke")
    /\ licStatus' = "revoked"
    /\ Begin(r, "v_entitlement", None, 0)
    /\ UNCHANGED <<entStatus, rows, limit>>

\* Mutant of RevokeWriteEntitlement: only the licence row is revoked.
RevokeLicenseOnly(r) ==
    /\ At(r, "v_entitlement")
    /\ revoked' = TRUE
    /\ Finish(r)
    /\ UNCHANGED <<entStatus, licStatus, rows, limit, highLimit, crashed, overlapped, reopened,
                   returned>>

RevokeWriteEntitlement(r) ==
    /\ At(r, "v_entitlement")
    /\ entStatus' = "revoked"
    /\ revoked' = TRUE
    /\ req' = [q \in Requests |-> IF q = r THEN Idle
                                  ELSE [req[q] EXCEPT !.overtaken = TRUE]]
    /\ UNCHANGED <<licStatus, rows, limit, highLimit, crashed, overlapped, reopened,
                   returned>>

ReactivateReadLicense(r) ==
    /\ Calls(r, "reactivate")
    /\ Begin(r, "x_entitlement", None, 0)
    /\ UNCHANGED <<entStatus, licStatus, rows, limit>>

\* Mutant of ReactivateReadEntitlement: only the licence row is looked at.
ReactivateReadLicenseOnly(r) ==
    /\ At(r, "x_entitlement")
    /\ IF req[r].licRevoked
       THEN Finish(r)
       ELSE req' = [req EXCEPT ![r].pc = "x_write", ![r].overtaken = FALSE]
    /\ UNCHANGED <<entStatus, licStatus, rows, limit, history>>

ReactivateReadEntitlement(r) ==
    /\ At(r, "x_entitlement")
    /\ IF entStatus = "revoked" \/ req[r].licRevoked
       THEN Finish(r)
       ELSE req' = [req EXCEPT ![r].pc = "x_write", ![r].overtaken = FALSE]
    /\ UNCHANGED <<entStatus, licStatus, rows, limit, history>>

ReactivateWrite(r) ==
    /\ At(r, "x_write")
    /\ Reopen("active")
    /\ Finish(r)
    /\ UNCHANGED <<licStatus, rows, limit>>

SetLimit(n) ==
    /\ "setLimit" \in Operations
    /\ n # limit
    /\ limit' = n
    /\ highLimit' = IF n > highLimit THEN n ELSE highLimit
    /\ UNCHANGED <<entStatus, licStatus, rows, req, revoked, crashed, overlapped, reopened,
                   returned>>

\* The isolate is evicted, or a statement fails, between two statements.
Crash(r) ==
    /\ "crash" \in Operations
    /\ ~At(r, "idle")
    /\ crashed' = TRUE
    /\ Finish(r)
    /\ UNCHANGED <<entStatus, licStatus, rows, limit, highLimit, revoked, overlapped, reopened,
                   returned>>

-----------------------------------------------------------------------------
Activate(r) ==
    \/ \E f \in Fingerprints : ActivateReadLicense(r, f)
    \/ ActivateReadEntitlement(r)
    \/ ActivateFindExact(r)
    \/ ActivateFindSameMachine(r)
    \/ ActivateTouch(r)
    \/ ActivateReactivate(r)
    \/ ActivateCount(r)
    \/ ActivateInsert(r)
    \/ ActivateWriteEntitlement(r)
    \/ ActivateWriteLicense(r)
    \/ ActivateIssue(r)

Refresh(r) ==
    \/ \E f \in Fingerprints : RefreshReadEntitlement(r, f)
    \/ RefreshFindRow(r)
    \/ RefreshIssue(r)

Unbind(r) ==
    \/ \E f \in Fingerprints : DeactivateFindRow(r, f)
    \/ DeactivateProvider(r)
    \/ UnbindDeviceFindRow(r)
    \/ DeactivateWriteRow(r)
    \/ DeactivateCount(r)
    \/ UnbindAll(r)
    \/ UnbindAllRows(r)
    \/ WriteUnused(r)

Admin(r) ==
    \/ RevokeWriteLicense(r)
    \/ RevokeWriteEntitlement(r)
    \/ ReactivateReadLicense(r)
    \/ ReactivateReadEntitlement(r)
    \/ ReactivateWrite(r)

Next ==
    \/ \E r \in Requests : Activate(r) \/ Refresh(r) \/ Unbind(r) \/ Admin(r) \/ Crash(r)
    \/ Suspend
    \/ \E n \in Limits : SetLimit(n)

Spec == Init /\ [][Next]_vars

-----------------------------------------------------------------------------
(* Properties                                                              *)

\* The rows and frames hold values of the columns' types.
TypeOK ==
    /\ entStatus \in EntStatus
    /\ licStatus \in LicStatus
    /\ rows \in Seq(Row)
    /\ limit \in Limits
    /\ highLimit \in Limits
    /\ req \in [Requests -> Frame]
    /\ revoked \in BOOLEAN
    /\ crashed \in BOOLEAN
    /\ overlapped \in BOOLEAN
    /\ reopened \in BOOLEAN
    /\ returned \subseteq Nat

\* Between counting and inserting a device, upsertActivation holds no lock, so N concurrent
\* activations can overshoot the limit, by N - 1 at most.  Setting a deactivated row active
\* again is not counted at all: every device above that bound is on a row brought back.
OvershootBounded ==
    Cardinality(CountedRows) <= highLimit + Cardinality(Requests) - 1

\* As long as requests come one at a time, crashes included, a machine occupies at
\* most one slot whichever blobs it sends: the row found by its identity is reused
\* and rewritten.  Two first activations that overlap insert a row each.
OneSlotPerMachine ==
    ~overlapped => \A i, j \in ActiveRows : SameMachine(rows[i].fp, rows[j].fp) => i = j

\* Where the plan forbids reactivation no interleaving of a repeated activation
\* with an unbind brings the row back.
UnboundStaysUnbound ==
    [][~AllowReactivation =>
        \A i \in DOMAIN rows :
            rows[i].status = "deactivated" => rows'[i].status = "deactivated"]_vars

\* A revoked entitlement is brought back only by a suspension or by a request
\* the revocation overtook: every request that reads it afterwards refuses.
OnlyOvertakenRevive ==
    [][entStatus = "revoked" /\ entStatus' # "revoked" =>
        \/ entStatus' = "suspended"
        \/ \E r \in Requests : req[r].overtaken /\ req'[r] # req[r]]_vars

\* A request that begins after adminRevokeOrder has completed is given no licence,
\* unless the entitlement has been written to another status since.
NoLicenceAfterRevoke ==
    ~reopened => \A r \in Requests : req[r].late => req[r].pc \notin {"a_issue", "r_issue"}

\* activateOrder signs a licence only once the entitlement has left pending.
ActivatedBeforeIssue ==
    \A r \in Requests : At(r, "a_issue") => entStatus # "pending"

\* A pending entitlement with a bound device: an activation is under way or died.
PendingDeviceExplained ==
    entStatus = "pending" /\ ActiveRows # {} =>
        crashed \/ \E r \in Requests : At(r, "a_activate")

\* Where the plan forbids reactivation, and as long as requests come one at a time and
\* none dies, a licence at rest reads "used" exactly when it has a device, unless it was
\* revoked.  A reactivated device leaves the licence "unused": its reissue writes no licence.
LicenceMirrorsDevices ==
    ~AllowReactivation /\ ~overlapped /\ ~crashed /\ licStatus # "revoked" =>
        ((\A r \in Requests : At(r, "idle")) => (licStatus = "used" <=> ActiveRows # {}))

\* The slots as the abstract pool sees them; a row brought back is no longer its concern.
Pool == INSTANCE SlotPool
          WITH Device <- Fingerprints, held <- HeldFingerprints,
               capacity <- highLimit + Cardinality(Requests) - 1

\* activateOrder, deactivateOrder and the admin operations implement a pool: whatever the
\* interleaving, a slot is taken below capacity, handed over to another blob of the same
\* machine or given back, one at a time.  A device on a row brought back has left the pool.
PoolSpec == Pool!PoolSpec
=============================================================================
