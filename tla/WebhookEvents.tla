--------------------------- MODULE WebhookEvents ---------------------------
(***************************************************************************)
(* How payment events become rows: processWebhook, handleSubscription-     *)
(* Created and retryWebhook of services/webhook.ts, for one subscription   *)
(* whose customer may type the licence key before its event arrives        *)
(* (ensureExternalLicence of services/activation.ts).                      *)
(*                                                                         *)
(* The provider sends an event until it is answered 200, in any order and  *)
(* more than once at a time.  What the later events do to the periods and  *)
(* the grace of a subscription is the subject of Subscriptions.            *)
(*                                                                         *)
(* Both ways look the plan up in provider_mappings, each with code of its  *)
(* own, while an administrator edits the mappings.                         *)
(***************************************************************************)
EXTENDS Naturals, Sequences, FiniteSetsExt

CONSTANTS
    Events,        \* what the provider has to tell
    TypeOf,        \* event -> one of EventTypes
    IdOf,          \* event -> externalEventId
    NoEvent,
    Requests,      \* requests that can be in flight at the same time
    Operations,    \* of "retry" and "import"
    Mappings,      \* the provider's rows that there may be, by id: product and plan
    Product,       \* what was bought, as the provider calls it
    AnyProduct,    \* the product of a default mapping: null
    DefaultPlan,   \* creemDefaultPlanId
    Adapters,      \* the registered adapters, in order
    Matching,      \* those whose format the key has
    Issuer,        \* the one whose provider knows the key
    MaxRows,       \* bound on the events that are told and the entitlements that are created
    MaxChanges     \* bound on the edits of mappings and the requests that die

\* What a name that the provider gives an event can mean; an unknown one is a purchase.
EventTypes == {"created", "renewed", "cancelled", "payment_failed", "refunded"}

ASSUME RequestsAssumption == IsFiniteSet(Requests) /\ IsFiniteSet(Events)
ASSUME EventsAssumption ==
    /\ NoEvent \notin Events
    /\ TypeOf \in [Events -> EventTypes]
    /\ DOMAIN IdOf = Events
ASSUME MappingsAssumption ==
    /\ Mappings # <<>> /\ DOMAIN Mappings = 1 .. Len(Mappings)
    /\ Product # AnyProduct
    /\ \A i \in DOMAIN Mappings : DOMAIN Mappings[i] = {"product", "plan"}
ASSUME BoundsAssumption == {MaxRows, MaxChanges} \subseteq Nat

Plans == {Mappings[i].plan : i \in DOMAIN Mappings} \union {DefaultPlan}
Ids == {IdOf[e] : e \in Events}

VARIABLES
    log,        \* webhook_events by external id: the row's status and its event
    active,     \* the mappings that are active
    ents,       \* status and plan of every entitlement, in the order of their ids
    licence,    \* entitlement of the licenses row with the customer's key, or 0
    sub,        \* entitlement of the subscriptions row, or 0
    req,        \* the frame of every request
    acked,      \* the events that the provider was answered 200 for
    applied,    \* history: how often each event has changed the subscription
    retried,    \* history: the events an administrator has retried
    early,      \* history: the events whose handler found no subscription
    overtaken,  \* history: the events past their check when a refund was last written
    reviving,   \* history: the events that have written over "revoked" since then
    edits, crashes

vars == <<log, active, ents, licence, sub, req, acked, applied, retried, early,
          overtaken, reviving, edits, crashes>>
mapped == <<active, edits>>
writes == <<overtaken, reviving>>
history == <<applied, early, writes>>
rows == <<mapped, ents, licence, sub, history>>
rest == <<acked, retried, crashes>>

LogStatus == {"none", "pending", "processed", "failed"}
Entitlement == [status : {"pending", "active", "grace", "revoked"}, plan : Plans]

Pc == {"idle", "w_insert", "h_product", "h_any", "h_ent", "h_findkey", "h_key", "h_sub",
       "h_find", "h_row", "h_check", "h_apply", "h_done", "h_failed",
       "i_adapter", "i_product", "i_any", "i_ent", "i_key"}

\* retrying: the handler was started by retryWebhook; plan: what it looked up; ent: the row
\* it inserted.
Frame == [pc : Pc, event : Events \union {NoEvent}, retrying : BOOLEAN, plan : Plans, ent : Nat]
Idle == [pc |-> "idle", event |-> NoEvent, retrying |-> FALSE, plan |-> DefaultPlan, ent |-> 0]

At(r, step) == req[r].pc = step
Goto(r, step) == req' = [req EXCEPT ![r].pc = step]
Finish(r) == req' = [req EXCEPT ![r] = Idle]
Begin(r, step, e, retrying) ==
    req' = [req EXCEPT ![r] = [Idle EXCEPT !.pc = step, !.event = e, !.retrying = retrying]]

\* The events that are stored or in flight, and the requests that may still insert an
\* entitlement: with n more, and the entitlements that there are, they are within the bound.
Told == {e \in Events : log[IdOf[e]].event = e \/ \E q \in Requests : req[q].event = e}
MayCreate == {q \in Requests :
    \/ req[q].pc \in {"h_product", "h_any", "h_ent", "i_adapter", "i_product", "i_any", "i_ent"}
    \/ At(q, "w_insert") /\ TypeOf[req[q].event] = "created"}
Room(told, n) == Cardinality(told) + Len(ents) + Cardinality(MayCreate) + n <= MaxRows

\* handleCanonicalEvent
Handler(e) == IF TypeOf[e] = "created" THEN "h_product" ELSE "h_find"

\* Without an index the first row that fits is the one with the lowest id.
OfProduct == {i \in active : Mappings[i].product = Product}
Select(r, found, step) ==
    req' = [req EXCEPT ![r].pc = step, ![r].plan = Mappings[Min(found)].plan]
AppendEntitlement(r, status) == ents' = Append(ents, [status |-> status, plan |-> req[r].plan])

Init ==
    /\ log = [id \in Ids |-> [status |-> "none", event |-> NoEvent]]
    /\ active \in {rs \in SUBSET DOMAIN Mappings : 1 \in rs}   \* the seed inserts the first
    /\ ents = <<>>
    /\ licence = 0
    /\ sub = 0
    /\ req = [r \in Requests |-> Idle]
    /\ acked = {}
    /\ applied = [e \in Events |-> 0]
    /\ retried = {}
    /\ early = {}
    /\ overtaken = {}
    /\ reviving = {}
    /\ edits = 0
    /\ crashes = 0

-----------------------------------------------------------------------------
(* processWebhook                                                          *)

\* Mutant of Deliver: any stored row makes the delivery a duplicate.
DeliverStoredIsDuplicate(r, e) ==
    /\ At(r, "idle")
    /\ e \notin acked
    /\ Room(Told \union {e}, IF TypeOf[e] = "created" THEN 1 ELSE 0)
    /\ \/ /\ log[IdOf[e]].status # "none"
          /\ acked' = acked \union {e}
          /\ UNCHANGED req
       \/ /\ log[IdOf[e]].status = "none"
          /\ Begin(r, "w_insert", e, FALSE)
          /\ UNCHANGED acked
    /\ UNCHANGED <<log, rows, retried, crashes>>


\* Only a processed row makes the delivery a duplicate.
Deliver(r, e) ==
    /\ At(r, "idle")
    /\ e \notin acked
    /\ Room(Told \union {e}, IF TypeOf[e] = "created" THEN 1 ELSE 0)
    /\ \/ /\ log[IdOf[e]].status = "processed"
          /\ acked' = acked \union {e}
          /\ UNCHANGED req
       \/ /\ log[IdOf[e]].status # "processed"
          /\ Begin(r, "w_insert", e, FALSE)
          /\ UNCHANGED acked
    /\ UNCHANGED <<log, rows, retried, crashes>>

\* Mutant of InsertEvent: without the unique index.
InsertEventNoIndex(r) ==
    /\ At(r, "w_insert")
    /\ log' = [log EXCEPT ![IdOf[req[r].event]] = [status |-> "pending", event |-> req[r].event]]
    /\ Goto(r, Handler(req[r].event))
    /\ UNCHANGED <<rows, rest>>

\* UNIQUE (provider, external_event_id): the violation is answered 500.
InsertEvent(r) ==
    LET e == req[r].event IN
    /\ At(r, "w_insert")
    /\ \/ /\ log[IdOf[e]].status = "none"
          /\ log' = [log EXCEPT ![IdOf[e]] = [status |-> "pending", event |-> e]]
          /\ Goto(r, Handler(e))
       \/ /\ log[IdOf[e]].status # "none"
          /\ Finish(r)
          /\ UNCHANGED log
    /\ UNCHANGED <<rows, rest>>

MarkProcessed(r) ==
    LET e == req[r].event IN
    /\ At(r, "h_done")
    /\ log' = [log EXCEPT ![IdOf[e]].status = "processed"]
    /\ acked' = IF req[r].retrying THEN acked ELSE acked \union {e}
    /\ Finish(r)
    /\ UNCHANGED <<rows, retried, crashes>>

MarkFailed(r) ==
    /\ At(r, "h_failed")
    /\ log' = [log EXCEPT ![IdOf[req[r].event]].status = "failed"]
    /\ Finish(r)
    /\ UNCHANGED <<rows, rest>>

-----------------------------------------------------------------------------
(* retryWebhook: the stored event is handled again unless it was processed *)

\* Mutant of Retry: a row left pending is taken to be in progress.
RetryFailedOnly(r, id) ==
    /\ At(r, "idle")
    /\ "retry" \in Operations
    /\ log[id].status = "failed"
    /\ TypeOf[log[id].event] = "created" => Room(Told, 1)
    /\ Begin(r, Handler(log[id].event), log[id].event, TRUE)
    /\ retried' = retried \union {log[id].event}
    /\ UNCHANGED <<log, rows, acked, crashes>>

Retry(r, id) ==
    /\ At(r, "idle")
    /\ "retry" \in Operations
    /\ log[id].status \in {"pending", "failed"}
    /\ TypeOf[log[id].event] = "created" => Room(Told, 1)
    /\ Begin(r, Handler(log[id].event), log[id].event, TRUE)
    /\ retried' = retried \union {log[id].event}
    /\ UNCHANGED <<log, rows, acked, crashes>>

-----------------------------------------------------------------------------
(* handleSubscriptionCreated, for an event with a key and a subscription   *)

\* An event that names its product.
CreatedFindProduct(r) ==
    /\ At(r, "h_product")
    /\ IF OfProduct # {} THEN Select(r, OfProduct, "h_ent") ELSE Goto(r, "h_any")
    /\ UNCHANGED <<log, rows, rest>>

\* Any mapping of the provider will do; without one the event fails.
CreatedFindAny(r) ==
    /\ At(r, "h_any")
    /\ IF active # {} THEN Select(r, active, "h_ent") ELSE Goto(r, "h_failed")
    /\ UNCHANGED <<log, rows, rest>>

\* Mutant of CreatedInsertEntitlement: the id that RETURNING gives is off by one.
CreatedInsertEntitlementWrongId(r) ==
    /\ At(r, "h_ent")
    /\ AppendEntitlement(r, "active")
    /\ req' = [req EXCEPT ![r].pc = "h_findkey", ![r].ent = Len(ents) + 2]
    /\ UNCHANGED <<log, mapped, licence, sub, history, rest>>

CreatedInsertEntitlement(r) ==
    /\ At(r, "h_ent")
    /\ AppendEntitlement(r, "active")
    /\ req' = [req EXCEPT ![r].pc = "h_findkey", ![r].ent = Len(ents) + 1]
    /\ UNCHANGED <<log, mapped, licence, sub, history, rest>>

CreatedFindLicense(r) ==
    /\ At(r, "h_findkey")
    /\ Goto(r, IF licence = 0 THEN "h_key" ELSE "h_sub")
    /\ UNCHANGED <<log, rows, rest>>

\* license_key is the primary key.
CreatedInsertLicense(r) ==
    /\ At(r, "h_key")
    /\ \/ /\ licence = 0
          /\ licence' = req[r].ent
          /\ Goto(r, "h_sub")
       \/ /\ licence # 0
          /\ Goto(r, "h_failed")
          /\ UNCHANGED licence
    /\ UNCHANGED <<log, mapped, ents, sub, history, rest>>

\* UNIQUE (provider, external_subscription_id)
CreatedInsertSubscription(r) ==
    /\ At(r, "h_sub")
    /\ \/ /\ sub = 0
          /\ sub' = req[r].ent
          /\ applied' = [applied EXCEPT ![req[r].event] = @ + 1]
          /\ Goto(r, "h_done")
       \/ /\ sub # 0
          /\ Goto(r, "h_failed")
          /\ UNCHANGED <<sub, applied>>
    /\ UNCHANGED <<log, mapped, ents, licence, early, writes, rest>>

-----------------------------------------------------------------------------
(* handleSubscriptionRenewed, handleSubscriptionCancelled, handlePayment-  *)
(* Failed, handleRevoked and syncEntitlementFromSubscription               *)

\* Without a subscription row the handler returns as if it had succeeded.
UpdateFindSubscription(r) ==
    /\ At(r, "h_find")
    /\ Goto(r, IF sub = 0 THEN "h_done" ELSE "h_row")
    /\ early' = IF sub = 0 THEN early \union {req[r].event} ELSE early
    /\ UNCHANGED <<log, mapped, ents, licence, sub, applied, writes, rest>>

\* What follows the UPDATE of subscriptions: a cancellation leaves the entitlement alone, and
\* only a renewal looks at its status first.
AfterRow(e) ==
    CASE TypeOf[e] = "cancelled" -> "h_done"
      [] TypeOf[e] = "renewed" -> "h_check"
      [] OTHER -> "h_apply"

UpdateWriteSubscription(r) ==
    /\ At(r, "h_row")
    /\ applied' = [applied EXCEPT ![req[r].event] = @ + 1]
    /\ Goto(r, AfterRow(req[r].event))
    /\ UNCHANGED <<log, mapped, ents, licence, sub, early, writes, rest>>

\* Mutant of UpdateCheckRevoked: a revoked entitlement is not kept.
UpdateCheckNothing(r) ==
    /\ At(r, "h_check")
    /\ Goto(r, "h_apply")
    /\ UNCHANGED <<log, rows, rest>>

\* A revoked entitlement stays so: the renewal is done.
UpdateCheckRevoked(r) ==
    /\ At(r, "h_check")
    /\ Goto(r, IF ents[sub].status = "revoked" THEN "h_done" ELSE "h_apply")
    /\ UNCHANGED <<log, rows, rest>>

\* statusMap
StatusAfter(e) ==
    CASE TypeOf[e] = "refunded" -> "revoked"
      [] TypeOf[e] = "payment_failed" -> "grace"
      [] OTHER -> "active"

\* The events of the other requests that are about to write the entitlement.
Writing(r) == {req[q].event : q \in {p \in Requests \ {r} : At(p, "h_apply")}}

\* The UPDATE of entitlements tests nothing: the status may have changed since the check.
UpdateApply(r) ==
    LET e == req[r].event
        refunding == StatusAfter(e) = "revoked"
    IN  /\ At(r, "h_apply")
        /\ ents' = [ents EXCEPT ![sub].status = StatusAfter(e)]
        /\ overtaken' = IF refunding THEN Writing(r) ELSE overtaken
        /\ reviving' = CASE refunding -> {}
                         [] ~refunding /\ ents[sub].status = "revoked" -> reviving \union {e}
                         [] OTHER -> reviving
        /\ Goto(r, "h_done")
        /\ UNCHANGED <<log, mapped, licence, sub, applied, early, rest>>

-----------------------------------------------------------------------------
(* ensureExternalLicence: the key is typed before its event has arrived    *)

identifiesKey(a) == a \in Matching
identifyProvider == SelectSeq(Adapters, identifiesKey)

\* The adapter whose format the key has, else the first.  The loop that would ask the others
\* returns the first one's promise without awaiting it, so that no refusal is caught.
Asked == Head(identifyProvider \o Adapters)

ImportFindLicense(r) ==
    /\ At(r, "idle")
    /\ "import" \in Operations
    /\ licence = 0
    /\ Adapters # <<>>
    /\ Room(Told, 1)
    /\ Begin(r, "i_adapter", NoEvent, FALSE)
    /\ UNCHANGED <<log, rows, rest>>

ImportActivate(r) ==
    /\ At(r, "i_adapter")
    /\ Asked = Issuer
    /\ Goto(r, "i_product")
    /\ UNCHANGED <<log, rows, rest>>

\* The provider does not know the key, or does not answer.
ImportRefused(r) ==
    /\ At(r, "i_adapter")
    /\ Finish(r)
    /\ UNCHANGED <<log, rows, rest>>

\* Mutant of ImportFindProduct: the product is not looked for.
ImportFindProductNot(r) ==
    /\ At(r, "i_product")
    /\ Goto(r, "i_any")
    /\ UNCHANGED <<log, rows, rest>>

ImportFindProduct(r) ==
    /\ At(r, "i_product")
    /\ IF OfProduct # {} THEN Select(r, OfProduct, "i_ent") ELSE Goto(r, "i_any")
    /\ UNCHANGED <<log, rows, rest>>

\* Without any mapping the frame's default plan stays.
ImportFindAny(r) ==
    /\ At(r, "i_any")
    /\ IF active # {} THEN Select(r, active, "i_ent") ELSE Goto(r, "i_ent")
    /\ UNCHANGED <<log, rows, rest>>

\* createEntitlementAndLicense, once the provider has accepted the key.
ImportInsertEntitlement(r) ==
    /\ At(r, "i_ent")
    /\ AppendEntitlement(r, "pending")
    /\ req' = [req EXCEPT ![r].pc = "i_key", ![r].ent = Len(ents) + 1]
    /\ UNCHANGED <<log, mapped, licence, sub, history, rest>>

ImportInsertLicense(r) ==
    /\ At(r, "i_key")
    /\ licence' = IF licence = 0 THEN req[r].ent ELSE licence
    /\ Finish(r)
    /\ UNCHANGED <<log, mapped, ents, sub, history, rest>>

-----------------------------------------------------------------------------
\* createProviderMapping and setProviderMappingActive
EditMapping(i) ==
    /\ edits + crashes < MaxChanges
    /\ edits' = edits + 1
    /\ active' = IF i \in active THEN active \ {i} ELSE active \union {i}
    /\ UNCHANGED <<log, ents, licence, sub, history, req, rest>>

\* The isolate is evicted, or a statement fails, between two statements.
Crash(r) ==
    /\ ~At(r, "idle")
    /\ edits + crashes < MaxChanges
    /\ crashes' = crashes + 1
    /\ Finish(r)
    /\ UNCHANGED <<log, rows, acked, retried>>

Proceed(r) ==
    \/ InsertEvent(r)
    \/ MarkProcessed(r)
    \/ MarkFailed(r)
    \/ CreatedFindProduct(r)
    \/ CreatedFindAny(r)
    \/ CreatedInsertEntitlement(r)
    \/ CreatedFindLicense(r)
    \/ CreatedInsertLicense(r)
    \/ CreatedInsertSubscription(r)
    \/ UpdateFindSubscription(r)
    \/ UpdateWriteSubscription(r)
    \/ UpdateCheckRevoked(r)
    \/ UpdateApply(r)
    \/ ImportActivate(r) \/ ImportRefused(r)
    \/ ImportFindProduct(r)
    \/ ImportFindAny(r)
    \/ ImportInsertEntitlement(r)
    \/ ImportInsertLicense(r)

Next ==
    \/ \E r \in Requests :
         \/ \E e \in Events : Deliver(r, e)
         \/ \E id \in Ids : Retry(r, id)
         \/ ImportFindLicense(r)
         \/ Proceed(r)
         \/ Crash(r)
    \/ \E i \in DOMAIN Mappings : EditMapping(i)

Spec == Init /\ [][Next]_vars

\* The Worker runs what it has begun.
Fairness == \A r \in Requests : WF_vars(Proceed(r))

FairSpec == Spec /\ Fairness

\* What the code cannot see to itself: an administrator who retries what is stored under an
\* id and not processed.
KeepsRetrying(id) == SF_vars(\E r \in Requests : Retry(r, id))

-----------------------------------------------------------------------------
(* Properties                                                              *)

\* The rows refer to entitlements that exist, and every request is at a statement of
\* the handler it runs.
TypeOK ==
    /\ log \in [Ids -> [status : LogStatus, event : Events \union {NoEvent}]]
    /\ active \subseteq DOMAIN Mappings
    /\ ents \in Seq(Entitlement)
    /\ {licence, sub} \subseteq 0 .. Len(ents)
    /\ req \in [Requests -> Frame]
    /\ retried \subseteq Events /\ acked \subseteq Events /\ early \subseteq Events
    /\ overtaken \subseteq Events /\ reviving \subseteq Events
    /\ applied \in [Events -> Nat]
    /\ {edits, crashes} \subseteq 0 .. MaxChanges

\* The entitlements that events created; a typed key creates pending ones.
Bought == {i \in DOMAIN ents : ents[i].status # "pending"}

\* However often the provider delivers an event, and however the deliveries overlap or
\* die, it changes the subscription once, and one order creates one entitlement:
\* processWebhook inserts the event's row before it handles it.
AppliedOnce ==
    /\ \A e \in Events \ retried : applied[e] <= 1
    /\ retried = {} =>
         Cardinality(Bought) <= Cardinality({e \in Events : TypeOf[e] = "created"})

\* No event is answered 200 unless it was handled itself or its own row had been.
AckedWasHandled ==
    \A e \in acked \ retried : log[IdOf[e]] = [status |-> "processed", event |-> e]

\* The licence a customer holds hangs on the entitlement that the subscription pays for, so
\* that what is paid or refunded later reaches it, unless the key was typed before its event
\* arrived or the event was retried; even then both entitlements have one plan, if the
\* mappings stayed as they were.
LicenceFollowsSubscription ==
    licence # 0 /\ sub # 0 =>
        /\ retried = {} /\ Bought = DOMAIN ents => licence = sub
        /\ edits = 0 => ents[licence].plan = ents[sub].plan

\* A refund that is marked processed found its subscription, unless it came before it, and
\* has revoked the entitlement.  Two events take that back later: a payment_failed, whose
\* write checks nothing, and a renewal that was past its check when the refund was written.
\* No other renewal, cancellation, retry or import does, in whatever order they come.
RefundLostOnlyEarly ==
    /\ \A e \in Events \ early :
         TypeOf[e] = "refunded" /\ log[IdOf[e]].status = "processed" =>
             sub # 0 /\ (ents[sub].status = "revoked" \/ reviving # {})
    /\ \A e \in reviving :
         TypeOf[e] = "payment_failed" \/ (TypeOf[e] = "renewed" /\ e \in overtaken)

\* The events after the order, and what is stored of them and not processed.
Later == {e \in Events : TypeOf[e] # "created"}
Unprocessed(e) == log[IdOf[e]].event = e /\ log[IdOf[e]].status \in {"pending", "failed"}

\* Whatever request died over it, a later event that was stored does not stay unprocessed if
\* an administrator keeps retrying it: nothing that a death leaves behind refuses the retry.
StoredIsProcessed == \A e \in Later : KeepsRetrying(IdOf[e]) => <>[]~Unprocessed(e)

\* A request died over the event and left its row pending.
Stranded(e) == crashes > 0 /\ log[IdOf[e]].status = "pending"

=============================================================================
