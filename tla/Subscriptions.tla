--------------------------- MODULE Subscriptions ---------------------------
(***************************************************************************)
(* The life of one subscription and the entitlement it pays for: the       *)
(* webhook handlers of services/webhook.ts; activateOrder, refreshLicence  *)
(* and the admin operations that add days of services/activation.ts.       *)
(*                                                                         *)
(* Two rows say the same thing, subscriptions and entitlements, and every  *)
(* operation reads and writes them by separate statements.  Each action is *)
(* one statement with the decision taken on its result.  Dates are whole   *)
(* days.  A request takes milliseconds: a day passes only between requests.*)
(***************************************************************************)
EXTENDS Naturals, FiniteSets

CONSTANTS
    Requests,        \* requests that can be in flight at the same time
    Operations,      \* the operations the environment calls
    Period,          \* plan.billingPeriodDays
    GraceDays,       \* plan.graceDays, 0 when it is null or zero
    DefaultGrace,    \* the 7 of "graceDays || 7"
    AllowNewDeviceDuringGrace,
    CacheDays,       \* offlineCacheDays || refreshIntervalDays || 7
    Compensation,    \* the days an administrator adds at a time
    Answers,         \* the statuses adapter.getSubscription may answer
    LastDay,         \* bound on the clock
    MaxDate,         \* bound on the dates an administrator can reach
    MaxCrashes       \* bound on the requests that die

ASSUME RequestsAssumption == IsFiniteSet(Requests)
ASSUME DaysAssumption ==
    /\ {Period, DefaultGrace, CacheDays, Compensation} \subseteq Nat \ {0}
    /\ {GraceDays, LastDay, MaxDate, MaxCrashes} \subseteq Nat

ASSUME PolicyAssumption == AllowNewDeviceDuringGrace \in BOOLEAN

ASSUME AnswersAssumption ==
    Answers \subseteq {"active", "trialing", "past_due", "canceled", "expired", "revoked"}

VARIABLES
    now,          \* today
    sub,          \* the subscriptions row
    ent,          \* the entitlements row
    req,          \* the frame of every request
    highEnd,      \* history: the latest currentPeriodEnd there has been
    licenceEnd,   \* history: the last day covered by a licence signed so far
    refunded,     \* history: a refund or chargeback has been processed
    overlapped,   \* history: a request has begun while another was in flight
    crashes

vars == <<now, sub, ent, req, highEnd, licenceEnd, refunded, overlapped, crashes>>
rest == <<now, highEnd, licenceEnd, refunded, crashes>>

SubStatus == {"active", "trialing", "past_due", "canceled", "expired", "revoked"}
EntStatus == {"active", "grace", "expired", "revoked"}

Pc == {"idle", "r_sub", "r_expire", "r_sync", "issue", "a_device", "a_reload",
       "n_check", "n_ent", "f_sub", "f_ent", "d_ent",
       "s_sub", "s_check", "s_ent", "c_sub", "c_readent", "c_ent", "e_ent"}

\* status, validUntil and inGrace are the entitlement a request has in memory, or
\* what the provider reported; end is the currentPeriodEnd it has read.
Frame == [pc : Pc, status : SubStatus \union EntStatus \union {"none"},
          validUntil : Nat, inGrace : BOOLEAN, end : Nat,
          overtaken : BOOLEAN]    \* history: revoked after the request began

Idle == [pc |-> "idle", status |-> "none", validUntil |-> 0, inGrace |-> FALSE,
         end |-> 0, overtaken |-> FALSE]

-----------------------------------------------------------------------------
\* graceUntil only matters as null or not.
GraceFor == IF GraceDays = 0 THEN DefaultGrace ELSE GraceDays

Later(a, b) == IF a >= b THEN a ELSE b
Sooner(a, b) == IF a <= b THEN a ELSE b

dateIsPast(date) == date < now
daysUntil(date) == Later(1, IF date > now THEN date - now ELSE 0)
computeLicenceValidDays(validUntil) == Later(1, Sooner(daysUntil(validUntil), CacheDays))

Usable(status) == status \notin {"revoked", "expired"}
Entitlement(status, validUntil, inGrace) ==
    [status |-> status, validUntil |-> validUntil, inGrace |-> inGrace]
InMemory(r) == Entitlement(req[r].status, req[r].validUntil, req[r].inGrace)

At(r, step) == req[r].pc = step
Quiet == \A r \in Requests : At(r, "idle")

Calls(r, op) ==
    /\ At(r, "idle")
    /\ op \in Operations
    /\ overlapped' = (overlapped \/ ~Quiet)

Goto(r, step) == req' = [req EXCEPT ![r].pc = step]
Finish(r) == req' = [req EXCEPT ![r] = Idle]
Begin(r, step) == req' = [req EXCEPT ![r] = [Idle EXCEPT !.pc = step]]

\* The request goes on with entitlement e in memory.
GotoWith(r, step, e) ==
    req' = [req EXCEPT ![r].pc = step, ![r].status = e.status,
                       ![r].validUntil = e.validUntil, ![r].inGrace = e.inGrace]

BeginWith(r, step, e) ==
    req' = [req EXCEPT ![r] = [Idle EXCEPT !.pc = step, !.status = e.status,
                                  !.validUntil = e.validUntil, !.inGrace = e.inGrace]]

\* The entitlement is revoked under the requests in flight.
FinishOvertaking(r) ==
    req' = [q \in Requests |->
              IF q = r \/ At(q, "idle") THEN Idle ELSE [req[q] EXCEPT !.overtaken = TRUE]]

WriteSubscription(status, end) ==
    /\ sub' = [status |-> status, end |-> end]
    /\ highEnd' = Later(highEnd, end)
    /\ UNCHANGED <<now, ent, licenceEnd, refunded, crashes>>

\* subscription.created has run: both rows exist and agree.
Init ==
    /\ now = 0
    /\ sub = [status |-> "active", end |-> Period]
    /\ ent = Entitlement("active", Period, FALSE)
    /\ req = [r \in Requests |-> Idle]
    /\ highEnd = Period
    /\ licenceEnd = 0
    /\ refunded = FALSE
    /\ overlapped = FALSE
    /\ crashes = 0

-----------------------------------------------------------------------------
(* refreshLicence                                                          *)

\* A revoked or expired entitlement is turned away before the subscription is read.
RefreshReadEntitlement(r) ==
    /\ Calls(r, "refresh")
    /\ Usable(ent.status)
    /\ BeginWith(r, "r_sub", ent)
    /\ UNCHANGED <<sub, ent, rest>>

\* assertEntitlementUsable, then the device's row: unknown device or too frequent.
CheckedThenIssue(r, e) ==
    IF Usable(e.status) /\ ~dateIsPast(e.validUntil)
    THEN GotoWith(r, "issue", e) \/ Finish(r)
    ELSE Finish(r)

\* Mutant of RefreshReadSubscription: the entitlement is only brought back from grace.
RefreshReadSubscriptionGraceOnly(r) ==
    /\ At(r, "r_sub")
    /\ \/ /\ sub.status \in {"active", "trialing"} /\ req[r].status = "grace"
          /\ GotoWith(r, "r_sync", Entitlement("active", sub.end, FALSE))
       \/ /\ ~(sub.status \in {"active", "trialing"} /\ req[r].status = "grace")
          /\ CheckedThenIssue(r, InMemory(r))
    /\ UNCHANGED <<sub, ent, rest, overlapped>>

RefreshReadSubscription(r) ==
    LET paid == Entitlement("active", sub.end, FALSE)
        graceEnd == sub.end + GraceFor
        grace == Entitlement("grace", graceEnd, TRUE)
    IN
    /\ At(r, "r_sub")
    /\ \/ /\ sub.status = "canceled"
          /\ IF dateIsPast(sub.end) THEN Goto(r, "r_expire") ELSE GotoWith(r, "r_sync", paid)
       \/ /\ sub.status \in {"active", "trialing"}
          /\ IF InMemory(r) # paid THEN GotoWith(r, "r_sync", paid) ELSE CheckedThenIssue(r, paid)
       \/ /\ sub.status = "past_due"
          /\ IF dateIsPast(graceEnd) THEN Goto(r, "r_expire") ELSE GotoWith(r, "r_sync", grace)
       \/ /\ sub.status \in {"expired", "revoked"}
          /\ CheckedThenIssue(r, InMemory(r))
    /\ UNCHANGED <<sub, ent, rest, overlapped>>

RefreshWriteExpired(r) ==
    /\ At(r, "r_expire")
    /\ ent' = [ent EXCEPT !.status = "expired"]
    /\ Finish(r)
    /\ UNCHANGED <<sub, rest, overlapped>>

RefreshSync(r) ==
    /\ At(r, "r_sync")
    /\ ent' = InMemory(r)
    /\ CheckedThenIssue(r, InMemory(r))
    /\ UNCHANGED <<sub, rest, overlapped>>

\* issueBundleLicence, at the end of refreshLicence and of activateOrder.
Issue(r) ==
    /\ At(r, "issue")
    /\ licenceEnd' = Later(licenceEnd, now + computeLicenceValidDays(req[r].validUntil))
    /\ Finish(r)
    /\ UNCHANGED <<now, sub, ent, highEnd, refunded, crashes, overlapped>>

-----------------------------------------------------------------------------
(* activateOrder.  Its device slots are the subject of Activations.        *)

ActivateReadEntitlement(r) ==
    /\ Calls(r, "activate")
    /\ Usable(ent.status)
    /\ ent.status = "grace" => AllowNewDeviceDuringGrace
    /\ ~dateIsPast(ent.validUntil)
    /\ BeginWith(r, "a_device", ent)
    /\ UNCHANGED <<sub, ent, rest>>

\* A new device: the entitlement is written back as it was read, but active.  A
\* known device goes straight on; none is accepted beyond the limit.
ActivateDevice(r) ==
    /\ At(r, "a_device")
    /\ \/ /\ ent' = [ent EXCEPT !.status = "active", !.validUntil = req[r].validUntil]
          /\ Goto(r, "a_reload")
       \/ /\ Goto(r, "issue") \/ Finish(r)
          /\ UNCHANGED ent
    /\ UNCHANGED <<sub, rest, overlapped>>

ActivateReload(r) ==
    /\ At(r, "a_reload")
    /\ GotoWith(r, "issue", ent)
    /\ UNCHANGED <<sub, ent, rest, overlapped>>

-----------------------------------------------------------------------------
(* handleSubscriptionRenewed, -Cancelled, handlePaymentFailed and          *)
(* handleRevoked.  What a handler reads first and never changes (the ids,  *)
(* the plan) is not a step.                                                *)

RenewWriteSubscription(r) ==
    /\ Calls(r, "renew")
    /\ WriteSubscription("active", now + Period)
    /\ req' = [req EXCEPT ![r] = [Idle EXCEPT !.pc = "n_check", !.status = "active",
                                              !.validUntil = now + Period]]

\* Mutant of RenewCheckRevoked: a renewal revives whatever the entitlement was.
RenewCheckNothing(r) ==
    /\ At(r, "n_check")
    /\ Goto(r, "n_ent")
    /\ UNCHANGED <<sub, ent, rest, overlapped>>

\* syncEntitlementFromSubscription leaves a revoked entitlement alone.
RenewCheckRevoked(r) ==
    /\ At(r, "n_check")
    /\ IF ent.status = "revoked" THEN Finish(r) ELSE Goto(r, "n_ent")
    /\ UNCHANGED <<sub, ent, rest, overlapped>>

\* Mutant of RenewWriteEntitlement: graceUntil is not cleared.
RenewWriteEntitlementKeepsGrace(r) ==
    /\ At(r, "n_ent")
    /\ ent' = Entitlement(req[r].status, req[r].validUntil, ent.inGrace)
    /\ Finish(r)
    /\ UNCHANGED <<sub, rest, overlapped>>

RenewWriteEntitlement(r) ==
    /\ At(r, "n_ent")
    /\ ent' = InMemory(r)
    /\ Finish(r)
    /\ UNCHANGED <<sub, rest, overlapped>>

CancelWriteSubscription ==
    /\ "cancel" \in Operations
    /\ overlapped' = (overlapped \/ ~Quiet)
    /\ sub' = [sub EXCEPT !.status = "canceled"]
    /\ UNCHANGED <<ent, req, rest>>

FailReadSubscription(r) ==
    /\ Calls(r, "fail")
    /\ req' = [req EXCEPT ![r] = [Idle EXCEPT !.pc = "f_sub", !.end = sub.end]]
    /\ UNCHANGED <<sub, ent, rest>>

FailWriteSubscription(r) ==
    /\ At(r, "f_sub")
    /\ sub' = [sub EXCEPT !.status = "past_due"]
    /\ Goto(r, "f_ent")
    /\ UNCHANGED <<ent, rest, overlapped>>

\* Mutant of FailWriteEntitlement: grace is added to what the entitlement already had.
FailWriteEntitlementAddsGrace(r) ==
    /\ At(r, "f_ent")
    /\ ent' = Entitlement("grace", ent.validUntil + GraceDays, TRUE)
    /\ Finish(r)
    /\ UNCHANGED <<sub, rest, overlapped>>

\* Mutant of FailWriteEntitlement: the subscription's status is not mapped.
FailWriteEntitlementUnmapped(r) ==
    /\ At(r, "f_ent")
    /\ ent' = Entitlement("past_due", req[r].end + GraceDays, TRUE)
    /\ Finish(r)
    /\ UNCHANGED <<sub, rest, overlapped>>

\* Only a move to active looks at what the entitlement was before.
FailWriteEntitlement(r) ==
    /\ At(r, "f_ent")
    /\ ent' = Entitlement("grace",
                IF GraceDays = 0 THEN ent.validUntil ELSE req[r].end + GraceDays, TRUE)
    /\ Finish(r)
    /\ UNCHANGED <<sub, rest, overlapped>>

RefundWriteSubscription(r) ==
    /\ Calls(r, "refund")
    /\ sub' = [sub EXCEPT !.status = "revoked"]
    /\ Begin(r, "d_ent")
    /\ UNCHANGED <<ent, rest>>

RefundWriteEntitlement(r) ==
    /\ At(r, "d_ent")
    /\ ent' = [ent EXCEPT !.status = "revoked", !.inGrace = FALSE]
    /\ refunded' = TRUE
    /\ FinishOvertaking(r)
    /\ UNCHANGED <<now, sub, highEnd, licenceEnd, crashes, overlapped>>

-----------------------------------------------------------------------------
(* adminSyncSubscription: what adapter.getSubscription answers is written. *)

SyncReadSubscription(r) ==
    /\ Calls(r, "sync")
    /\ \E status \in Answers, reported \in {0, now + Period} :
         req' = [req EXCEPT ![r] = [Idle EXCEPT !.pc = "s_sub", !.status = status,
                                        !.validUntil = reported, !.end = sub.end]]
    /\ UNCHANGED <<sub, ent, rest>>

\* No period in the answer (0): the one in the row stays.
SyncWriteSubscription(r) ==
    /\ At(r, "s_sub")
    /\ WriteSubscription(req[r].status, IF req[r].validUntil = 0 THEN sub.end ELSE req[r].validUntil)
    /\ Goto(r, IF req[r].status \in {"active", "trialing", "canceled"} THEN "s_check" ELSE "s_ent")
    /\ UNCHANGED overlapped

SyncCheckRevoked(r) ==
    /\ At(r, "s_check")
    /\ IF ent.status = "revoked" THEN Finish(r) ELSE Goto(r, "s_ent")
    /\ UNCHANGED <<sub, ent, rest, overlapped>>

\* statusMap of syncEntitlementFromSubscription.
Mapped(status) ==
    CASE status \in {"active", "trialing", "canceled"} -> "active"
      [] status = "past_due" -> "grace"
      [] OTHER -> status

SyncWriteEntitlement(r) ==
    LET status == req[r].status
        reported == IF req[r].validUntil = 0 THEN ent.validUntil ELSE req[r].validUntil
    IN
    /\ At(r, "s_ent")
    /\ ent' = Entitlement(Mapped(status),
                IF status = "past_due" /\ GraceDays # 0 THEN req[r].end + GraceDays ELSE reported,
                status = "past_due")
    /\ IF status = "revoked" THEN FinishOvertaking(r) ELSE Finish(r)
    /\ UNCHANGED <<sub, rest, overlapped>>

-----------------------------------------------------------------------------
(* adminCompensateSubscription and adminExtendEntitlement                  *)

\* Another addition of days, and those under way, stay below MaxDate.
WithinMaxDate ==
    LET adding == {r \in Requests : req[r].pc \in {"c_sub", "c_readent", "c_ent", "e_ent"}}
        dates == {sub.end, ent.validUntil} \union {req[r].end : r \in adding}
                  \union {req[r].validUntil : r \in Requests}
    IN  \A date \in dates : date + Compensation * (Cardinality(adding) + 1) <= MaxDate

CompensateReadSubscription(r) ==
    /\ Calls(r, "compensate")
    /\ WithinMaxDate
    /\ req' = [req EXCEPT ![r] = [Idle EXCEPT !.pc = "c_sub", !.end = sub.end + Compensation]]
    /\ UNCHANGED <<sub, ent, rest>>

CompensateWriteSubscription(r) ==
    /\ At(r, "c_sub")
    /\ WriteSubscription(sub.status, req[r].end)
    /\ Goto(r, "c_readent")
    /\ UNCHANGED overlapped

CompensateReadEntitlement(r) ==
    /\ At(r, "c_readent")
    /\ req' = [req EXCEPT ![r].pc = "c_ent", ![r].end = ent.validUntil + Compensation]
    /\ UNCHANGED <<sub, ent, rest, overlapped>>

ExtendReadEntitlement(r) ==
    /\ Calls(r, "extend")
    /\ WithinMaxDate
    /\ req' = [req EXCEPT ![r] = [Idle EXCEPT !.pc = "e_ent", !.end = ent.validUntil + Compensation]]
    /\ UNCHANGED <<sub, ent, rest>>

WriteValidUntil(r) ==
    /\ At(r, "c_ent") \/ At(r, "e_ent")
    /\ ent' = [ent EXCEPT !.validUntil = req[r].end]
    /\ Finish(r)
    /\ UNCHANGED <<sub, rest, overlapped>>

-----------------------------------------------------------------------------
\* The isolate is evicted, or a statement fails, between two statements.
Crash(r) ==
    /\ ~At(r, "idle")
    /\ crashes < MaxCrashes
    /\ crashes' = crashes + 1
    /\ Finish(r)
    /\ UNCHANGED <<now, sub, ent, highEnd, licenceEnd, refunded, overlapped>>

Tick ==
    /\ Quiet
    /\ now < LastDay
    /\ now' = now + 1
    /\ UNCHANGED <<sub, ent, req, highEnd, licenceEnd, refunded, overlapped, crashes>>

\* A statement of a request under way.
Proceed(r) ==
    \/ RefreshReadSubscription(r)
    \/ RefreshWriteExpired(r)
    \/ RefreshSync(r)
    \/ ActivateDevice(r)
    \/ ActivateReload(r)
    \/ Issue(r)
    \/ RenewCheckRevoked(r)
    \/ RenewWriteEntitlement(r)
    \/ FailWriteSubscription(r)
    \/ FailWriteEntitlement(r)
    \/ RefundWriteEntitlement(r)
    \/ SyncWriteSubscription(r)
    \/ SyncCheckRevoked(r)
    \/ SyncWriteEntitlement(r)
    \/ CompensateWriteSubscription(r)
    \/ CompensateReadEntitlement(r)
    \/ WriteValidUntil(r)

Start(r) ==
    \/ RefreshReadEntitlement(r)
    \/ ActivateReadEntitlement(r)
    \/ RenewWriteSubscription(r)
    \/ FailReadSubscription(r)
    \/ RefundWriteSubscription(r)
    \/ SyncReadSubscription(r)
    \/ CompensateReadSubscription(r)
    \/ ExtendReadEntitlement(r)

Next ==
    \/ \E r \in Requests : Start(r) \/ Proceed(r) \/ Crash(r)
    \/ CancelWriteSubscription
    \/ Tick

Spec == Init /\ [][Next]_vars

\* The Worker runs a request it has begun.  Clients come back to refresh, and a
\* place among the modelled requests is not kept from them for ever.
Fairness ==
    \A r \in Requests : WF_vars(Proceed(r)) /\ SF_vars(RefreshReadEntitlement(r))

FairSpec == Spec /\ Fairness

-----------------------------------------------------------------------------
(* Properties                                                              *)

\* The rows and frames hold values of the columns' types.
TypeOK ==
    /\ now \in 0 .. LastDay
    /\ sub \in [status : SubStatus, end : Nat]
    /\ ent \in [status : EntStatus, validUntil : Nat, inGrace : BOOLEAN]
    /\ req \in [Requests -> Frame]
    /\ {highEnd, licenceEnd} \subseteq Nat
    /\ {refunded, overlapped} \subseteq BOOLEAN
    /\ crashes \in 0 .. MaxCrashes

\* However often payment.failed is delivered and however it interleaves with renewals
\* and refreshes, the entitlement outlives a paid period by one grace period at most, and
\* so does a licence that refreshLicence signs on data it may have read too early, but for
\* the day it is rounded up to.
GraceBounded ==
    /\ ent.validUntil <= highEnd + GraceFor
    /\ licenceEnd <= highEnd + GraceFor + 1

\* A revoked entitlement comes back only through payment.failed, a provider's answer
\* to adminSyncSubscription, or a request that the refund overtook.
RevivedOnlyBy ==
    [][ent.status = "revoked" /\ ent'.status # "revoked" =>
        \E r \in Requests :
            /\ req'[r] # req[r]
            /\ req[r].overtaken \/ req[r].pc \in {"f_ent", "s_ent"}]_vars

\* Once a refund has been processed the entitlement is revoked, and stays so.
RefundFinal == refunded => ent.status = "revoked"

\* Requests one after the other, and none of them died.
Undisturbed == Quiet /\ ~overlapped /\ crashes = 0

\* As long as requests do not overlap, the two rows tell one story after each of them; in
\* arrears the entitlement is in grace or expired, unless a new device may be activated then.
RowsAgree ==
    Undisturbed =>
        /\ sub.status = "active" => ent.status \in {"active", "revoked"}
        /\ sub.status = "revoked" => ent.status = "revoked"
        /\ ent.status = "active" => ent.validUntil <= sub.end
        /\ ent.inGrace => ent.status \in {"grace", "expired"}
        /\ sub.status = "past_due" /\ ~AllowNewDeviceDuringGrace =>
             ent.status \in {"grace", "expired"}

Unsynced ==
    /\ sub.status = "active"
    /\ Usable(ent.status)
    /\ ent # Entitlement("active", sub.end, FALSE)

\* Whatever a lost, late or interrupted webhook left behind, refreshing brings a usable
\* entitlement back in line with an active subscription, unless it is revoked or expired
\* first.  Those two are turned away before the subscription is read, and no refresh repairs
\* them: not when a renewal of an expired entitlement died between the two rows, nor when a
\* refresh wrote "expired" just after a renewal.
RefreshRepairs == Unsynced ~> ~Unsynced
=============================================================================
