------------------------ MODULE WebhookEventsProofs ------------------------
(* Theorems about WebhookEvents, for any number of requests, events and    *)
(* mappings.                                                               *)
EXTENDS WebhookEvents, TLAPS, SequenceTheorems, FiniteSetTheorems, WellFoundedInduction

(***************************************************************************)
(* Part 1: types.  TypeOK alone is not inductive: a frame names an event   *)
(* and an entitlement that earlier statements looked up, and a retry       *)
(* handles the event that a stored row names.  A handler works for the     *)
(* event of the row that it will mark.                                     *)
(***************************************************************************)

Handling == {"h_product", "h_any", "h_ent", "h_findkey", "h_key", "h_sub",
             "h_find", "h_row", "h_check", "h_apply", "h_done", "h_failed"}
HoldsEntitlement == {"h_findkey", "h_key", "h_sub", "i_key"}

GoodFrame(f, n, table) ==
    /\ f \in Frame
    /\ f.pc \in Handling \union {"w_insert"} => f.event \in Events
    /\ f.pc \in Handling => table[IdOf[f.event]].event = f.event
    /\ f.pc \in HoldsEntitlement => f.ent \in 1 .. n

Frames == req \in [Requests -> Frame] /\ \A r \in Requests : GoodFrame(req[r], Len(ents), log)

\* A stored row holds an event with the id it is stored under.
LogRows ==
    \A id \in Ids :
        /\ log[id].status = "none" => log[id].event = NoEvent
        /\ log[id].status # "none" => log[id].event \in Events /\ IdOf[log[id].event] = id

TypeInv == TypeOK /\ Frames /\ LogRows

-----------------------------------------------------------------------------
(* What an action does to the frames, once for every way of writing it.    *)

Moved(r, f) ==
    /\ req' \in [Requests -> Frame]
    /\ req'[r] = f
    /\ \A q \in Requests \ {r} : req'[q] = req[q]

FrameWith(step, e, retrying, plan, ent) ==
    [pc |-> step, event |-> e, retrying |-> retrying, plan |-> plan, ent |-> ent]

LEMMA FrameFields ==
  ASSUME NEW f \in Frame
  PROVE  /\ f = FrameWith(f.pc, f.event, f.retrying, f.plan, f.ent)
         /\ f.pc \in Pc /\ f.event \in Events \union {NoEvent} /\ f.retrying \in BOOLEAN
         /\ f.plan \in Plans /\ f.ent \in Nat
BY DEF Frame, FrameWith

LEMMA IdleFrame ==
  /\ Idle \in Frame /\ Idle.pc = "idle" /\ Idle.event = NoEvent
  /\ Idle = FrameWith("idle", NoEvent, FALSE, DefaultPlan, 0)
BY DEF Idle, Frame, Pc, Plans, FrameWith

LEMMA SetFrame ==
  ASSUME req \in [Requests -> Frame], NEW r \in Requests, NEW f \in Frame,
         req' = [req EXCEPT ![r] = f]
  PROVE  Moved(r, f)
BY DEF Moved

LEMMA GotoMoves ==
  ASSUME req \in [Requests -> Frame], NEW r \in Requests, NEW step \in Pc, Goto(r, step)
  PROVE  Moved(r, FrameWith(step, req[r].event, req[r].retrying, req[r].plan, req[r].ent))
<1> DEFINE f == [req[r] EXCEPT !.pc = step]
<1>1. req[r] \in Frame
  OBVIOUS
<1>2. f \in Frame /\ f = FrameWith(step, req[r].event, req[r].retrying, req[r].plan, req[r].ent)
  BY <1>1 DEF Frame, FrameWith
<1>3. req' = [req EXCEPT ![r] = f]
  BY DEF Goto
<1> QED
  BY <1>2, <1>3, SetFrame

LEMMA FinishMoves ==
  ASSUME req \in [Requests -> Frame], NEW r \in Requests, Finish(r)
  PROVE  Moved(r, Idle)
BY IdleFrame, SetFrame DEF Finish

LEMMA BeginMoves ==
  ASSUME req \in [Requests -> Frame], NEW r \in Requests, NEW step \in Pc,
         NEW e \in Events \union {NoEvent}, NEW retrying \in BOOLEAN, Begin(r, step, e, retrying)
  PROVE  Moved(r, FrameWith(step, e, retrying, DefaultPlan, 0))
<1> DEFINE f == [Idle EXCEPT !.pc = step, !.event = e, !.retrying = retrying]
<1>1. f \in Frame
  BY DEF Frame, Idle, Plans
<1>2. f.pc = step /\ f.event = e /\ f.retrying = retrying /\ f.plan = DefaultPlan /\ f.ent = 0
  BY DEF Idle
<1>3. f = FrameWith(step, e, retrying, DefaultPlan, 0)
  BY <1>1, <1>2, FrameFields
<1> QED
  BY <1>1, <1>3, SetFrame DEF Begin

HasInserted(r, step, n) == req' = [req EXCEPT ![r].pc = step, ![r].ent = n]

LEMMA InsertMoves ==
  ASSUME req \in [Requests -> Frame], NEW r \in Requests, NEW step \in Pc, NEW n \in Nat,
         HasInserted(r, step, n)
  PROVE  Moved(r, FrameWith(step, req[r].event, req[r].retrying, req[r].plan, n))
<1> DEFINE f == [req[r] EXCEPT !.pc = step, !.ent = n]
<1>1. req[r] \in Frame
  OBVIOUS
<1>2. f \in Frame
  BY <1>1 DEF Frame
<1>3. /\ f.pc = step /\ f.event = req[r].event /\ f.retrying = req[r].retrying
      /\ f.plan = req[r].plan /\ f.ent = n
  BY <1>1 DEF Frame
<1>4. f = FrameWith(step, req[r].event, req[r].retrying, req[r].plan, n)
  BY <1>2, <1>3, FrameFields
<1>5. req' = [req EXCEPT ![r] = f]
  BY DEF HasInserted
<1> QED
  BY <1>2, <1>4, <1>5, SetFrame

\* Every set of naturals has a least element, which Min finds.
LEMMA LeastNatural ==
  ASSUME NEW S, S \subseteq Nat, S # {}
  PROVE  \E x \in S : \A y \in S : x <= y
<1>1. PICK top \in S : TRUE
  OBVIOUS
<1> DEFINE Low == {y \in S : y <= top}
           T == {1 .. x : x \in Low}
<1>2. IsFiniteSet(1 .. top)
  BY FS_Interval
<1>3. T \subseteq SUBSET (1 .. top) /\ T # {}
  OBVIOUS
<1>4. IsWellFoundedOn(StrictSubsetOrdering(1 .. top), SUBSET (1 .. top))
  BY <1>2, FS_StrictSubsetOrderingWellFounded, FS_FiniteSubsetsOfFinite
<1>5. PICK t \in T : \A u \in T : ~ (<<u, t>> \in StrictSubsetOrdering(1 .. top))
  BY <1>3, <1>4, WFMin
<1>6. PICK x \in Low : t = 1 .. x
  OBVIOUS
<1>7. \A y \in Low : ~(1 .. y \subseteq 1 .. x /\ 1 .. y # 1 .. x)
  BY <1>3, <1>5, <1>6 DEF StrictSubsetOrdering
<1>8. ASSUME NEW y \in Low, y < x PROVE FALSE
  <2>1. 1 .. y \subseteq 1 .. x /\ x \in 1 .. x /\ x \notin 1 .. y
    BY <1>8
  <2> QED
    BY <1>7, <2>1
<1>9. \A y \in S : x <= y
  BY <1>8
<1> QED
  BY <1>9

LEMMA MinIsMember ==
  ASSUME NEW S, S \subseteq Nat, S # {}
  PROVE  Min(S) \in S
BY LeastNatural DEF Min

\* The plan of the first of some mappings.
FirstPlan(found) == Mappings[Min(found)].plan

LEMMA FirstPlanType ==
  ASSUME NEW found, found \subseteq DOMAIN Mappings, found # {}
  PROVE  FirstPlan(found) \in Plans
<1>1. found \subseteq Nat
  BY MappingsAssumption, LenProperties
<1>2. Min(found) \in DOMAIN Mappings
  BY <1>1, MinIsMember
<1> QED
  BY <1>2 DEF FirstPlan, Plans

LEMMA SelectMoves ==
  ASSUME req \in [Requests -> Frame], NEW r \in Requests, NEW step \in Pc,
         NEW found, found \subseteq DOMAIN Mappings, found # {}, Select(r, found, step)
  PROVE  Moved(r, FrameWith(step, req[r].event, req[r].retrying, FirstPlan(found), req[r].ent))
<1> DEFINE f == [req[r] EXCEPT !.pc = step, !.plan = FirstPlan(found)]
<1>1. req[r] \in Frame
  OBVIOUS
<1>2. f \in Frame
  BY <1>1, FirstPlanType DEF Frame
<1>3. /\ f.pc = step /\ f.event = req[r].event /\ f.retrying = req[r].retrying
      /\ f.plan = FirstPlan(found) /\ f.ent = req[r].ent
  BY <1>1 DEF Frame
<1>4. f = FrameWith(step, req[r].event, req[r].retrying, FirstPlan(found), req[r].ent)
  BY <1>2, <1>3, FrameFields
<1>5. req' = [req EXCEPT ![r] = f]
  BY DEF Select, FirstPlan
<1> QED
  BY <1>2, <1>4, <1>5, SetFrame

-----------------------------------------------------------------------------
Rows == [status : LogStatus, event : Events \union {NoEvent}]
LogTyped == log \in [Ids -> Rows] /\ LogRows

\* What the table loses in no step: an event that a row names.
LogGrows == \A id \in Ids : log[id].event # NoEvent => log'[id].event = log[id].event

LEMMA EventIds == \A e \in Events : IdOf[e] \in Ids
BY EventsAssumption DEF Ids

LEMMA LogStays ==
  ASSUME LogTyped, UNCHANGED log
  PROVE  LogTyped' /\ LogGrows
BY DEF LogTyped, LogRows, LogGrows

LEMMA LogInsert ==
  ASSUME LogTyped, NEW e \in Events, log[IdOf[e]].status = "none",
         log' = [log EXCEPT ![IdOf[e]] = [status |-> "pending", event |-> e]]
  PROVE  /\ LogTyped' /\ LogGrows
         /\ log'[IdOf[e]] = [status |-> "pending", event |-> e]
<1>1. [status |-> "pending", event |-> e] \in Rows
  BY DEF Rows, LogStatus
<1> QED
  BY <1>1, EventIds, EventsAssumption DEF LogTyped, LogRows, LogGrows

LEMMA LogMark ==
  ASSUME LogTyped, NEW e \in Events, log[IdOf[e]].event = e,
         NEW status \in {"processed", "failed"},
         log' = [log EXCEPT ![IdOf[e]].status = status]
  PROVE  /\ LogTyped' /\ LogGrows
         /\ log'[IdOf[e]] = [status |-> status, event |-> e]
         /\ \A id \in Ids \ {IdOf[e]} : log'[id] = log[id]
<1> DEFINE row == [status |-> status, event |-> e]
<1>1. row \in Rows
  BY DEF Rows, LogStatus
<1>2. log[IdOf[e]] \in Rows
  BY EventIds DEF LogTyped
<1>3. [log[IdOf[e]] EXCEPT !.status = status] = row
  BY <1>2 DEF Rows
<1>4. log' = [log EXCEPT ![IdOf[e]] = row]
  BY <1>3
<1> HIDE DEF row
<1>5. row.status # "none" /\ row.event = e
  BY DEF row
<1>6. log' \in [Ids -> Rows] /\ log'[IdOf[e]] = row /\ \A id \in Ids \ {IdOf[e]} : log'[id] = log[id]
  BY <1>1, <1>4, EventIds DEF LogTyped
<1>7. LogTyped' /\ LogGrows
  BY <1>5, <1>6, EventIds, EventsAssumption DEF LogTyped, LogRows, LogGrows
<1> QED
  BY <1>6, <1>7 DEF row

LEMMA MovedFrames ==
  ASSUME Frames, LogGrows, NEW r \in Requests, NEW f, Moved(r, f),
         GoodFrame(f, Len(ents'), log'),
         Len(ents) \in Nat, Len(ents') \in Nat, Len(ents) <= Len(ents')
  PROVE  Frames'
<1>1. ASSUME NEW q \in Requests \ {r} PROVE GoodFrame(req[q], Len(ents'), log')
  <2>1. GoodFrame(req[q], Len(ents), log)
    BY DEF Frames
  <2>2. req[q].pc \in Handling => log'[IdOf[req[q].event]].event = req[q].event
    BY <2>1, EventIds, EventsAssumption DEF GoodFrame, LogGrows
  <2> QED
    BY <2>1, <2>2 DEF GoodFrame
<1> QED
  BY <1>1 DEF Frames, Moved

-----------------------------------------------------------------------------
LEMMA EntsLength ==
  ASSUME ents \in Seq(Entitlement)
  PROVE  /\ Len(ents) \in Nat /\ DOMAIN ents = 1 .. Len(ents)
         /\ \A i \in 1 .. Len(ents) : ents[i] \in Entitlement
BY LenProperties, ElementOfSeq

LEMMA AppendEnt ==
  ASSUME ents \in Seq(Entitlement), NEW x \in Entitlement, ents' = Append(ents, x)
  PROVE  /\ ents' \in Seq(Entitlement) /\ Len(ents') = Len(ents) + 1
         /\ ents'[Len(ents) + 1] = x
         /\ \A i \in 1 .. Len(ents) : ents'[i] = ents[i]
BY AppendProperties, EntsLength

LEMMA WriteEnt ==
  ASSUME ents \in Seq(Entitlement), NEW i \in 1 .. Len(ents),
         NEW status \in {"pending", "active", "grace", "revoked"},
         ents' = [ents EXCEPT ![i].status = status]
  PROVE  /\ ents' \in Seq(Entitlement) /\ Len(ents') = Len(ents)
         /\ ents'[i].status = status /\ ents'[i].plan = ents[i].plan
         /\ \A j \in (1 .. Len(ents)) \ {i} : ents'[j] = ents[j]
<1> DEFINE x == [ents[i] EXCEPT !.status = status]
<1>1. ents[i] \in Entitlement
  BY EntsLength
<1>2. x \in Entitlement /\ x.status = status /\ x.plan = ents[i].plan
  BY <1>1 DEF Entitlement
<1>3. ents' = [ents EXCEPT ![i] = x]
  OBVIOUS
<1> HIDE DEF x
<1>4. ents' \in Seq(Entitlement) /\ Len(ents') = Len(ents)
  BY <1>2, <1>3, EntsLength, ExceptSeq
<1> QED
  BY <1>2, <1>3, <1>4, EntsLength

TablesTyped ==
    /\ active \subseteq DOMAIN Mappings
    /\ ents \in Seq(Entitlement)
    /\ licence \in 0 .. Len(ents) /\ sub \in 0 .. Len(ents)
    /\ retried \subseteq Events /\ acked \subseteq Events /\ early \subseteq Events
    /\ overtaken \subseteq Events /\ reviving \subseteq Events
    /\ applied \in [Events -> Nat]
    /\ edits \in 0 .. MaxChanges /\ crashes \in 0 .. MaxChanges

LEMMA TypeParts ==
  ASSUME TypeInv
  PROVE  /\ Frames /\ LogTyped /\ TablesTyped
         /\ req \in [Requests -> Frame] /\ ents \in Seq(Entitlement) /\ Len(ents) \in Nat
         /\ \A r \in Requests : GoodFrame(req[r], Len(ents), log)
BY EntsLength DEF TypeInv, TypeOK, Frames, LogTyped, Rows, TablesTyped

LEMMA TypeFromParts ==
  ASSUME Frames', LogTyped', TablesTyped'
  PROVE  TypeInv'
BY DEF TypeInv, TypeOK, Frames, LogTyped, Rows, TablesTyped

LEMMA TypeInit == Init => TypeInv
<1> SUFFICES ASSUME Init PROVE TypeInv
  OBVIOUS
<1>1. ents \in Seq(Entitlement) /\ Len(ents) = 0
  BY EmptySeq DEF Init
<1>2. Frames
  BY IdleFrame DEF Init, Frames, GoodFrame, Handling, HoldsEntitlement
<1>3. [status |-> "none", event |-> NoEvent] \in Rows
  BY DEF Rows, LogStatus
<1>4. LogTyped
  BY <1>3 DEF Init, LogTyped, LogRows
<1>5. TablesTyped
  BY <1>1, BoundsAssumption DEF Init, TablesTyped
<1> QED
  BY <1>2, <1>4, <1>5 DEF TypeInv, TypeOK, Frames, LogTyped, Rows, TablesTyped

\* A request whose frame f has neither an event nor an entitlement to show.
LEMMA PlainFrame ==
  ASSUME NEW f \in Frame, NEW n, NEW table, f.pc \notin Handling \union {"w_insert"},
         f.pc \notin HoldsEntitlement
  PROVE  GoodFrame(f, n, table)
BY DEF GoodFrame

LEMMA FinishFrames ==
  ASSUME Frames, LogGrows, NEW r \in Requests, Finish(r),
         Len(ents) \in Nat, Len(ents') \in Nat, Len(ents) <= Len(ents')
  PROVE  Frames'
<1>1. GoodFrame(Idle, Len(ents'), log')
  BY IdleFrame, PlainFrame DEF Handling, HoldsEntitlement
<1> QED
  BY <1>1, FinishMoves, MovedFrames DEF Frames

\* The request goes on with the same event and the same entitlement.
LEMMA GotoFrames ==
  ASSUME Frames, LogGrows, NEW r \in Requests, NEW step \in Pc, Goto(r, step),
         Len(ents) \in Nat, Len(ents') \in Nat, Len(ents) <= Len(ents'),
         step \in Handling =>
            \/ req[r].pc \in Handling
            \/ req[r].pc = "w_insert" /\ log'[IdOf[req[r].event]].event = req[r].event,
         step # "w_insert",
         step \in HoldsEntitlement => req[r].pc \in HoldsEntitlement
  PROVE  Frames'
<1> DEFINE f == FrameWith(step, req[r].event, req[r].retrying, req[r].plan, req[r].ent)
<1>1. GoodFrame(req[r], Len(ents), log) /\ req \in [Requests -> Frame]
  BY DEF Frames
<1>a. /\ req[r].event \in Events \union {NoEvent} /\ req[r].retrying \in BOOLEAN
      /\ req[r].plan \in Plans /\ req[r].ent \in Nat
  BY <1>1, FrameFields
<1>2. /\ f \in Frame /\ f.pc = step /\ f.event = req[r].event /\ f.ent = req[r].ent
  BY <1>a DEF FrameWith, Frame
<1>3. Moved(r, f)
  BY <1>1, GotoMoves
<1> HIDE DEF f
<1>4. step \in Handling => req[r].event \in Events /\ log'[IdOf[req[r].event]].event = req[r].event
  BY <1>1, EventIds, EventsAssumption DEF GoodFrame, LogGrows
<1>5. step \in HoldsEntitlement => req[r].ent \in 1 .. Len(ents')
  BY <1>1 DEF GoodFrame
<1>6. GoodFrame(f, Len(ents'), log')
  BY <1>2, <1>4, <1>5 DEF GoodFrame
<1> QED
  BY <1>3, <1>6, MovedFrames

LEMMA WebhookType ==
  ASSUME TypeInv, NEW r \in Requests,
         \/ \E e \in Events : Deliver(r, e)
         \/ \E id \in Ids : Retry(r, id)
         \/ InsertEvent(r) \/ MarkProcessed(r) \/ MarkFailed(r)
  PROVE  TypeInv' /\ LogGrows
<1> USE DEF rows, rest, mapped, history, writes
<1>a. /\ Frames /\ LogTyped /\ TablesTyped /\ req \in [Requests -> Frame]
      /\ Len(ents) \in Nat /\ GoodFrame(req[r], Len(ents), log)
  BY TypeParts
<1>b. ASSUME LogTyped' /\ LogGrows, Frames', UNCHANGED rows, UNCHANGED crashes,
             acked' \subseteq Events, retried' \subseteq Events
      PROVE  TypeInv' /\ LogGrows
  <2>1. TablesTyped'
    BY <1>a, <1>b DEF TablesTyped
  <2> QED
    BY <1>b, <2>1, TypeFromParts
<1>c. ASSUME NEW e \in Events, NEW step \in Pc \ HoldsEntitlement, NEW retrying \in BOOLEAN,
             Begin(r, step, e, retrying), UNCHANGED log, UNCHANGED ents,
             step \in Handling => log[IdOf[e]].event = e
      PROVE  Frames'
  <2> DEFINE f == FrameWith(step, e, retrying, DefaultPlan, 0)
  <2>1. Moved(r, f)
    BY <1>a, <1>c, BeginMoves
  <2>2. f \in Frame /\ f.pc = step /\ f.event = e
    BY <1>c DEF FrameWith, Frame, Plans
  <2> HIDE DEF f
  <2>3. GoodFrame(f, Len(ents'), log')
    BY <1>c, <2>2 DEF GoodFrame
  <2> QED
    BY <1>a, <1>c, <2>1, <2>3, LogStays, MovedFrames
<1>1. ASSUME NEW e \in Events, Deliver(r, e) PROVE TypeInv' /\ LogGrows
  <2>1. LogTyped' /\ LogGrows /\ acked' \subseteq Events /\ retried' \subseteq Events
    BY <1>a, <1>1, LogStays DEF Deliver, TablesTyped
  <2>2. Frames'
    <3>1. CASE UNCHANGED req
      BY <1>a, <1>1, <3>1 DEF Deliver, Frames
    <3>2. CASE Begin(r, "w_insert", e, FALSE)
      BY <1>1, <3>2, <1>c DEF Deliver, Pc, HoldsEntitlement, Handling
    <3> QED
      BY <1>1, <3>1, <3>2 DEF Deliver
  <2> QED
    BY <1>1, <1>b, <2>1, <2>2 DEF Deliver
<1>2. ASSUME NEW id \in Ids, Retry(r, id) PROVE TypeInv' /\ LogGrows
  <2> DEFINE e == log[id].event
  <2>1. e \in Events /\ IdOf[e] = id
    BY <1>a, <1>2 DEF Retry, LogTyped, LogRows
  <2>2. LogTyped' /\ LogGrows /\ acked' \subseteq Events /\ retried' \subseteq Events
    BY <1>a, <1>2, <2>1, LogStays DEF Retry, TablesTyped
  <2>3. Handler(e) \in Pc \ HoldsEntitlement
    BY DEF Handler, Pc, HoldsEntitlement
  <2>4. Frames'
    BY <1>2, <1>c, <2>1, <2>3 DEF Retry
  <2> QED
    BY <1>2, <1>b, <2>2, <2>4 DEF Retry
<1>3. ASSUME InsertEvent(r) PROVE TypeInv' /\ LogGrows
  <2> DEFINE e == req[r].event
  <2>1. e \in Events /\ req[r].pc = "w_insert"
    BY <1>a, <1>3 DEF InsertEvent, At, GoodFrame
  <2>2. acked' \subseteq Events /\ retried' \subseteq Events
    BY <1>a, <1>3 DEF InsertEvent, TablesTyped
  <2>3. CASE Goto(r, Handler(e)) /\ log[IdOf[e]].status = "none"
             /\ log' = [log EXCEPT ![IdOf[e]] = [status |-> "pending", event |-> e]]
    <3>0. LogTyped' /\ LogGrows /\ log'[IdOf[e]] = [status |-> "pending", event |-> e]
      BY <1>a, <2>1, <2>3, LogInsert
    <3>1. LogTyped' /\ LogGrows /\ log'[IdOf[e]].event = e
      BY <3>0
    <3>2. Handler(e) \in Pc /\ Handler(e) # "w_insert" /\ Handler(e) \notin HoldsEntitlement
      BY DEF Handler, Pc, HoldsEntitlement
    <3>3. Frames'
      BY <1>a, <1>3, <2>1, <2>3, <3>1, <3>2, GotoFrames DEF InsertEvent
    <3> QED
      BY <1>3, <1>b, <2>2, <3>1, <3>3 DEF InsertEvent
  <2>4. CASE Finish(r) /\ UNCHANGED log
    <3>1. LogTyped' /\ LogGrows
      BY <1>a, <2>4, LogStays
    <3>2. Frames'
      BY <1>a, <1>3, <2>4, <3>1, FinishFrames DEF InsertEvent
    <3> QED
      BY <1>3, <1>b, <2>2, <3>1, <3>2 DEF InsertEvent
  <2> QED
    BY <1>3, <2>3, <2>4 DEF InsertEvent
<1>4. ASSUME MarkProcessed(r) \/ MarkFailed(r) PROVE TypeInv' /\ LogGrows
  <2> DEFINE e == req[r].event
  <2>1. e \in Events /\ log[IdOf[e]].event = e
    BY <1>a, <1>4 DEF MarkProcessed, MarkFailed, At, GoodFrame, Handling
  <2>2. LogTyped' /\ LogGrows
    BY <1>a, <1>4, <2>1, LogMark DEF MarkProcessed, MarkFailed
  <2>3. acked' \subseteq Events /\ retried' \subseteq Events
    BY <1>a, <1>4, <2>1 DEF MarkProcessed, MarkFailed, TablesTyped
  <2>4. Frames'
    BY <1>a, <1>4, <2>2, FinishFrames DEF MarkProcessed, MarkFailed
  <2> QED
    BY <1>4, <1>b, <2>2, <2>3, <2>4 DEF MarkProcessed, MarkFailed
<1> QED
  BY <1>1, <1>2, <1>3, <1>4

\* The handler of a purchase and the import share the shape of their statements.
Lookup(r) ==
    \/ CreatedFindProduct(r) \/ CreatedFindAny(r)
    \/ ImportFindProduct(r) \/ ImportFindAny(r)

LEMMA LookupMoves ==
  ASSUME TypeInv, NEW r \in Requests, Lookup(r)
  PROVE  /\ UNCHANGED <<log, rows, rest>>
         /\ \E step \in Pc, plan \in Plans :
              /\ Moved(r, FrameWith(step, req[r].event, req[r].retrying, plan, req[r].ent))
              /\ \/ /\ req[r].pc \in {"h_product", "h_any"}
                    /\ step \in {"h_any", "h_ent", "h_failed"}
                 \/ /\ req[r].pc \in {"i_product", "i_any"}
                    /\ step \in {"i_any", "i_ent"}
              /\ \/ step = "h_any" /\ req[r].pc = "h_product" /\ OfProduct = {} /\ plan = req[r].plan
                 \/ step = "i_any" /\ req[r].pc = "i_product" /\ OfProduct = {} /\ plan = req[r].plan
                 \/ step = "h_failed" /\ plan = req[r].plan
                 \/ step \in {"h_ent", "i_ent"} /\ req[r].pc \in {"h_product", "i_product"}
                       /\ OfProduct # {} /\ plan = FirstPlan(OfProduct)
                 \/ step \in {"h_ent", "i_ent"} /\ req[r].pc \in {"h_any", "i_any"}
                       /\ active # {} /\ plan = FirstPlan(active)
                 \/ step = "i_ent" /\ req[r].pc = "i_any" /\ active = {} /\ plan = req[r].plan
<1>a. req \in [Requests -> Frame] /\ req[r].plan \in Plans
  BY TypeParts, FrameFields
<1>b. active \subseteq DOMAIN Mappings /\ OfProduct \subseteq DOMAIN Mappings
  BY TypeParts DEF TablesTyped, OfProduct
<1>c. ASSUME NEW step \in Pc, NEW found, found \subseteq DOMAIN Mappings, found # {},
             Select(r, found, step)
      PROVE  /\ FirstPlan(found) \in Plans
             /\ Moved(r, FrameWith(step, req[r].event, req[r].retrying, FirstPlan(found), req[r].ent))
  BY <1>a, <1>c, SelectMoves, FirstPlanType
<1>d. ASSUME NEW step \in Pc, Goto(r, step)
      PROVE  Moved(r, FrameWith(step, req[r].event, req[r].retrying, req[r].plan, req[r].ent))
  BY <1>a, <1>d, GotoMoves
<1>1. CASE CreatedFindProduct(r)
  <2>1. CASE OfProduct # {}
    <3>1. Select(r, OfProduct, "h_ent")
      BY <1>1, <2>1 DEF CreatedFindProduct
    <3> QED
      BY <1>1, <1>b, <1>c, <2>1, <3>1 DEF CreatedFindProduct, At, Pc
  <2>2. CASE OfProduct = {}
    <3>1. Goto(r, "h_any")
      BY <1>1, <2>2 DEF CreatedFindProduct
    <3> QED
      BY <1>1, <1>a, <1>d, <2>2, <3>1 DEF CreatedFindProduct, At, Pc
  <2> QED
    BY <2>1, <2>2
<1>2. CASE CreatedFindAny(r)
  <2>1. CASE active # {}
    <3>1. Select(r, active, "h_ent")
      BY <1>2, <2>1 DEF CreatedFindAny
    <3> QED
      BY <1>2, <1>b, <1>c, <2>1, <3>1 DEF CreatedFindAny, At, Pc
  <2>2. CASE active = {}
    <3>1. Goto(r, "h_failed")
      BY <1>2, <2>2 DEF CreatedFindAny
    <3> QED
      BY <1>2, <1>a, <1>d, <2>2, <3>1 DEF CreatedFindAny, At, Pc
  <2> QED
    BY <2>1, <2>2
<1>3. CASE ImportFindProduct(r)
  <2>1. CASE OfProduct # {}
    <3>1. Select(r, OfProduct, "i_ent")
      BY <1>3, <2>1 DEF ImportFindProduct
    <3> QED
      BY <1>3, <1>b, <1>c, <2>1, <3>1 DEF ImportFindProduct, At, Pc
  <2>2. CASE OfProduct = {}
    <3>1. Goto(r, "i_any")
      BY <1>3, <2>2 DEF ImportFindProduct
    <3> QED
      BY <1>3, <1>a, <1>d, <2>2, <3>1 DEF ImportFindProduct, At, Pc
  <2> QED
    BY <2>1, <2>2
<1>4. CASE ImportFindAny(r)
  <2>1. CASE active # {}
    <3>1. Select(r, active, "i_ent")
      BY <1>4, <2>1 DEF ImportFindAny
    <3> QED
      BY <1>4, <1>b, <1>c, <2>1, <3>1 DEF ImportFindAny, At, Pc
  <2>2. CASE active = {}
    <3>1. Goto(r, "i_ent")
      BY <1>4, <2>2 DEF ImportFindAny
    <3> QED
      BY <1>4, <1>a, <1>d, <2>2, <3>1 DEF ImportFindAny, At, Pc
  <2> QED
    BY <2>1, <2>2
<1> QED
  BY <1>1, <1>2, <1>3, <1>4 DEF Lookup

LEMMA LookupType ==
  ASSUME TypeInv, NEW r \in Requests, Lookup(r)
  PROVE  TypeInv' /\ LogGrows
<1>a. /\ Frames /\ LogTyped /\ TablesTyped /\ req \in [Requests -> Frame]
      /\ Len(ents) \in Nat /\ GoodFrame(req[r], Len(ents), log)
  BY TypeParts
<1>1. UNCHANGED <<log, rows, rest>>
  BY LookupMoves
<1>2. PICK step \in Pc, plan \in Plans :
        /\ Moved(r, FrameWith(step, req[r].event, req[r].retrying, plan, req[r].ent))
        /\ \/ req[r].pc \in {"h_product", "h_any"} /\ step \in {"h_any", "h_ent", "h_failed"}
           \/ req[r].pc \in {"i_product", "i_any"} /\ step \in {"i_any", "i_ent"}
  BY LookupMoves
<1> DEFINE f == FrameWith(step, req[r].event, req[r].retrying, plan, req[r].ent)
<1>3. /\ req[r].event \in Events \union {NoEvent} /\ req[r].retrying \in BOOLEAN /\ req[r].ent \in Nat
  BY <1>a, FrameFields
<1>4. f \in Frame /\ f.pc = step /\ f.event = req[r].event
  BY <1>3 DEF FrameWith, Frame
<1> HIDE DEF f
<1>5. GoodFrame(f, Len(ents'), log')
  BY <1>a, <1>1, <1>2, <1>4 DEF GoodFrame, Handling, HoldsEntitlement, rows
<1>6. LogTyped' /\ LogGrows
  BY <1>1, <1>a, LogStays
<1>7. Frames'
  BY <1>a, <1>1, <1>2, <1>5, <1>6, MovedFrames DEF f, rows
<1>8. TablesTyped'
  BY <1>a, <1>1 DEF TablesTyped, rows, rest, mapped, history, writes
<1> QED
  BY <1>6, <1>7, <1>8, TypeFromParts

\* A statement that inserts an entitlement.
Inserts(r, from, step, status) ==
    /\ At(r, from)
    /\ AppendEntitlement(r, status)
    /\ req' = [req EXCEPT ![r].pc = step, ![r].ent = Len(ents) + 1]
    /\ UNCHANGED <<log, mapped, licence, sub, history, rest>>

LEMMA InsertEffect ==
  ASSUME TypeInv, NEW r \in Requests, NEW from, NEW step \in Pc,
         NEW status \in {"active", "pending"}, Inserts(r, from, step, status)
  PROVE  /\ ents' \in Seq(Entitlement) /\ Len(ents') = Len(ents) + 1
         /\ ents'[Len(ents) + 1] = [status |-> status, plan |-> req[r].plan]
         /\ \A i \in 1 .. Len(ents) : ents'[i] = ents[i]
         /\ Moved(r, FrameWith(step, req[r].event, req[r].retrying, req[r].plan, Len(ents) + 1))
<1>1. /\ req \in [Requests -> Frame] /\ req[r].plan \in Plans
      /\ ents \in Seq(Entitlement) /\ Len(ents) \in Nat
  BY TypeParts, FrameFields
<1>2. [status |-> status, plan |-> req[r].plan] \in Entitlement
  BY <1>1 DEF Entitlement
<1>3. Moved(r, FrameWith(step, req[r].event, req[r].retrying, req[r].plan, Len(ents) + 1))
  <2>1. HasInserted(r, step, Len(ents) + 1) /\ Len(ents) + 1 \in Nat
    BY <1>1 DEF Inserts, HasInserted
  <2> QED
    BY <1>1, <2>1, InsertMoves
<1> QED
  BY <1>1, <1>2, <1>3, AppendEnt DEF Inserts, AppendEntitlement

LEMMA InsertType ==
  ASSUME TypeInv, NEW r \in Requests, NEW from, NEW step \in Pc,
         NEW status \in {"active", "pending"}, Inserts(r, from, step, status),
         \/ from = "h_ent" /\ step = "h_findkey"
         \/ from = "i_ent" /\ step = "i_key"
  PROVE  TypeInv' /\ LogGrows
<1>a. /\ Frames /\ LogTyped /\ TablesTyped /\ req \in [Requests -> Frame]
      /\ Len(ents) \in Nat /\ GoodFrame(req[r], Len(ents), log)
  BY TypeParts
<1> DEFINE f == FrameWith(step, req[r].event, req[r].retrying, req[r].plan, Len(ents) + 1)
<1>2. /\ ents' \in Seq(Entitlement) /\ Len(ents') = Len(ents) + 1 /\ Moved(r, f)
  BY InsertEffect
<1>3. /\ req[r].event \in Events \union {NoEvent} /\ req[r].retrying \in BOOLEAN
      /\ req[r].plan \in Plans
  BY <1>a, FrameFields
<1>4. f \in Frame /\ f.pc = step /\ f.event = req[r].event /\ f.ent = Len(ents) + 1
  BY <1>a, <1>3 DEF FrameWith, Frame
<1> HIDE DEF f
<1>5. req[r].pc = from /\ UNCHANGED <<log, mapped, licence, sub, history, rest>>
  BY DEF Inserts, At
<1>6. GoodFrame(f, Len(ents'), log')
  BY <1>a, <1>2, <1>4, <1>5 DEF GoodFrame, Handling, HoldsEntitlement
<1>7. LogTyped' /\ LogGrows
  BY <1>5, <1>a, LogStays
<1>8. Frames'
  BY <1>a, <1>2, <1>6, <1>7, MovedFrames
<1>9. TablesTyped'
  BY <1>a, <1>2, <1>5 DEF TablesTyped, rest, mapped, history, writes
<1> QED
  BY <1>7, <1>8, <1>9, TypeFromParts

LEMMA CreationType ==
  ASSUME TypeInv, NEW r \in Requests,
         CreatedFindLicense(r) \/ CreatedInsertLicense(r) \/ CreatedInsertSubscription(r)
  PROVE  TypeInv' /\ LogGrows
<1> USE DEF rows, rest, mapped, history, writes
<1>a. /\ Frames /\ LogTyped /\ TablesTyped /\ req \in [Requests -> Frame]
      /\ Len(ents) \in Nat /\ GoodFrame(req[r], Len(ents), log)
  BY TypeParts
<1>b. LogTyped' /\ LogGrows /\ UNCHANGED ents
  BY <1>a, LogStays DEF CreatedFindLicense, CreatedInsertLicense, CreatedInsertSubscription
<1>1. \E step \in {"h_key", "h_sub", "h_done", "h_failed"} :
        /\ Goto(r, step)
        /\ req[r].pc \in {"h_findkey", "h_key", "h_sub"}
        /\ step \in HoldsEntitlement => req[r].pc \in HoldsEntitlement
  BY DEF CreatedFindLicense, CreatedInsertLicense, CreatedInsertSubscription, At, HoldsEntitlement
<1>2. Frames'
  <2>1. PICK step \in {"h_key", "h_sub", "h_done", "h_failed"} :
          /\ Goto(r, step)
          /\ req[r].pc \in {"h_findkey", "h_key", "h_sub"}
          /\ step \in HoldsEntitlement => req[r].pc \in HoldsEntitlement
    BY <1>1
  <2>2. step \in Pc /\ step # "w_insert" /\ req[r].pc \in Handling
    BY <2>1 DEF Pc, Handling
  <2>3. Len(ents') \in Nat /\ Len(ents) <= Len(ents')
    BY <1>a, <1>b
  <2> QED
    BY <1>a, <1>b, <2>1, <2>2, <2>3, GotoFrames
<1>3. TablesTyped'
  <2>1. req[r].ent \in 0 .. Len(ents) /\ req[r].event \in Events
    BY <1>a, <1>1 DEF GoodFrame, Handling, HoldsEntitlement
  <2>2. CASE CreatedFindLicense(r)
    BY <1>a, <2>2 DEF CreatedFindLicense, TablesTyped
  <2>3. CASE CreatedInsertLicense(r)
    BY <1>a, <2>1, <2>3 DEF CreatedInsertLicense, TablesTyped
  <2>4. CASE CreatedInsertSubscription(r)
    BY <1>a, <2>1, <2>4 DEF CreatedInsertSubscription, TablesTyped
  <2> QED
    BY <2>2, <2>3, <2>4
<1> QED
  BY <1>b, <1>2, <1>3, TypeFromParts

LEMMA StatusAfterType ==
  ASSUME NEW e
  PROVE  /\ StatusAfter(e) \in {"active", "grace", "revoked"}
         /\ StatusAfter(e) = "revoked" <=> TypeOf[e] = "refunded"
BY DEF StatusAfter

LEMMA ApplyEffect ==
  ASSUME TypeInv, NEW r \in Requests, UpdateApply(r), sub \in 1 .. Len(ents)
  PROVE  /\ ents' \in Seq(Entitlement) /\ Len(ents') = Len(ents)
         /\ ents'[sub].plan = ents[sub].plan
         /\ ents'[sub].status = StatusAfter(req[r].event)
         /\ ents'[sub].status # "pending"
         /\ \A i \in (1 .. Len(ents)) \ {sub} : ents'[i] = ents[i]
<1> DEFINE status == StatusAfter(req[r].event)
<1>1. ents \in Seq(Entitlement)
  BY TypeParts
<1>2. ents' = [ents EXCEPT ![sub].status = status]
  BY DEF UpdateApply
<1>3. status \in {"pending", "active", "grace", "revoked"} /\ status # "pending"
  BY StatusAfterType
<1> HIDE DEF status
<1>4. /\ ents' \in Seq(Entitlement) /\ Len(ents') = Len(ents)
      /\ ents'[sub].status = status /\ ents'[sub].plan = ents[sub].plan
      /\ \A j \in (1 .. Len(ents)) \ {sub} : ents'[j] = ents[j]
  BY <1>1, <1>2, <1>3, WriteEnt
<1> QED
  BY <1>3, <1>4 DEF status

\* The statements of the later events before the one that writes the entitlement.
Prepares(r) == UpdateFindSubscription(r) \/ UpdateWriteSubscription(r) \/ UpdateCheckRevoked(r)

LEMMA AfterRowType == \A e : AfterRow(e) \in {"h_done", "h_check", "h_apply"}
BY DEF AfterRow

LEMMA PreparesEffect ==
  ASSUME NEW r \in Requests, Prepares(r)
  PROVE  /\ UNCHANGED <<log, mapped, ents, licence, sub, writes, rest>>
         /\ \E step \in {"h_done", "h_row", "h_check", "h_apply"} :
              /\ Goto(r, step)
              /\ \/ /\ req[r].pc = "h_find" /\ step \in {"h_done", "h_row"}
                    /\ sub = 0 <=> step = "h_done"
                    /\ early' = IF sub = 0 THEN early \union {req[r].event} ELSE early
                    /\ UNCHANGED applied
                 \/ /\ req[r].pc = "h_row" /\ step = AfterRow(req[r].event)
                    /\ applied' = [applied EXCEPT ![req[r].event] = @ + 1]
                    /\ UNCHANGED early
                 \/ /\ req[r].pc = "h_check" /\ step \in {"h_done", "h_apply"}
                    /\ step = "h_apply" => ents[sub].status # "revoked"
                    /\ UNCHANGED <<applied, early>>
<1> USE DEF rows, rest, mapped, history, writes
<1>1. CASE UpdateFindSubscription(r)
  BY <1>1 DEF UpdateFindSubscription, At
<1>2. CASE UpdateWriteSubscription(r)
  BY <1>2, AfterRowType DEF UpdateWriteSubscription, At
<1>3. CASE UpdateCheckRevoked(r)
  BY <1>3 DEF UpdateCheckRevoked, At
<1> QED
  BY <1>1, <1>2, <1>3 DEF Prepares

LEMMA ApplyTypes ==
  ASSUME TypeInv, NEW r \in Requests, UpdateApply(r)
  PROVE  overtaken' \subseteq Events /\ reviving' \subseteq Events
<1>1. /\ \A q \in Requests : GoodFrame(req[q], Len(ents), log)
      /\ overtaken \subseteq Events /\ reviving \subseteq Events
  BY TypeParts DEF TablesTyped
<1>2. \A q \in Requests : req[q].pc = "h_apply" => req[q].event \in Events
  BY <1>1 DEF GoodFrame, Handling
<1>3. Writing(r) \subseteq Events
  BY <1>2 DEF Writing, At
<1>4. req[r].event \in Events
  BY <1>2 DEF UpdateApply, At
<1> QED
  BY <1>1, <1>3, <1>4 DEF UpdateApply

LEMMA UpdateType ==
  ASSUME TypeInv, NEW r \in Requests, Prepares(r) \/ UpdateApply(r)
  PROVE  TypeInv' /\ LogGrows
<1> USE DEF rows, rest, mapped, history, writes
<1>a. /\ Frames /\ LogTyped /\ TablesTyped /\ req \in [Requests -> Frame]
      /\ Len(ents) \in Nat /\ GoodFrame(req[r], Len(ents), log)
  BY TypeParts
<1>1. /\ UNCHANGED <<log, mapped, licence, sub, rest>>
      /\ \E step \in {"h_done", "h_row", "h_check", "h_apply"} : Goto(r, step) /\ req[r].pc \in Handling
  <2>1. CASE Prepares(r)
    BY <2>1, PreparesEffect DEF Handling
  <2>2. CASE UpdateApply(r)
    BY <2>2 DEF UpdateApply, At, Handling
  <2> QED
    BY <2>1, <2>2
<1>b. LogTyped' /\ LogGrows
  BY <1>a, <1>1, LogStays
<1>c. req[r].event \in Events
  BY <1>a, <1>1 DEF GoodFrame
<1>d. ents' \in Seq(Entitlement) /\ Len(ents') = Len(ents)
  <2>1. CASE Prepares(r)
    BY <1>a, <2>1, PreparesEffect DEF TablesTyped
  <2>2. CASE UpdateApply(r) /\ sub # 0
    BY <1>a, <2>2, ApplyEffect DEF TablesTyped
  <2>3. CASE UpdateApply(r) /\ sub = 0
    <3>1. sub \notin DOMAIN ents /\ ents \in Seq(Entitlement)
      BY <1>a, <2>3, TypeParts, EntsLength
    <3>2. ents' = ents
      BY <2>3, <3>1 DEF UpdateApply
    <3> QED
      BY <3>1, <3>2
  <2> QED
    BY <2>1, <2>2, <2>3
<1>2. Frames'
  <2>1. PICK step \in {"h_done", "h_row", "h_check", "h_apply"} : Goto(r, step) /\ req[r].pc \in Handling
    BY <1>1
  <2>2. step \in Pc /\ step # "w_insert" /\ step \notin HoldsEntitlement
    BY <2>1 DEF Pc, HoldsEntitlement
  <2>3. Len(ents') \in Nat /\ Len(ents) <= Len(ents')
    BY <1>a, <1>d
  <2> QED
    BY <1>a, <1>b, <1>d, <2>1, <2>2, <2>3, GotoFrames
<1>3. /\ applied' \in [Events -> Nat] /\ early' \subseteq Events
      /\ overtaken' \subseteq Events /\ reviving' \subseteq Events
  <2>1. CASE Prepares(r)
    BY <1>a, <1>c, <2>1, PreparesEffect DEF TablesTyped
  <2>2. CASE UpdateApply(r)
    BY <1>a, <2>2, ApplyTypes DEF TablesTyped, UpdateApply
  <2> QED
    BY <2>1, <2>2
<1>4. TablesTyped'
  BY <1>a, <1>1, <1>d, <1>3 DEF TablesTyped
<1> QED
  BY <1>b, <1>2, <1>4, TypeFromParts

LEMMA ImportType ==
  ASSUME TypeInv, NEW r \in Requests,
         ImportFindLicense(r) \/ ImportActivate(r) \/ ImportRefused(r) \/ ImportInsertLicense(r)
  PROVE  TypeInv' /\ LogGrows
<1> USE DEF rows, rest, mapped, history, writes
<1>a. /\ Frames /\ LogTyped /\ TablesTyped /\ req \in [Requests -> Frame]
      /\ Len(ents) \in Nat /\ GoodFrame(req[r], Len(ents), log)
  BY TypeParts
<1>b. LogTyped' /\ LogGrows /\ UNCHANGED ents
  BY <1>a, LogStays DEF ImportFindLicense, ImportActivate, ImportRefused, ImportInsertLicense
<1>1. Frames'
  <2>1. CASE Finish(r)
    BY <1>a, <1>b, <2>1, FinishFrames
  <2>2. CASE Goto(r, "i_product")
    BY <1>a, <1>b, <2>2, GotoFrames DEF Pc, Handling, HoldsEntitlement
  <2>3. CASE Begin(r, "i_adapter", NoEvent, FALSE)
    <3> DEFINE f == FrameWith("i_adapter", NoEvent, FALSE, DefaultPlan, 0)
    <3>1. Moved(r, f)
      BY <1>a, <2>3, BeginMoves DEF Pc
    <3>2. f \in Frame /\ f.pc = "i_adapter"
      BY DEF FrameWith, Frame, Plans, Pc
    <3> HIDE DEF f
    <3>3. GoodFrame(f, Len(ents'), log')
      BY <3>2 DEF GoodFrame, Handling, HoldsEntitlement
    <3> QED
      BY <1>a, <1>b, <3>1, <3>3, MovedFrames
  <2> QED
    BY <2>1, <2>2, <2>3 DEF ImportFindLicense, ImportActivate, ImportRefused, ImportInsertLicense
<1>2. TablesTyped'
  <2>1. CASE ImportInsertLicense(r)
    <3>1. req[r].ent \in 0 .. Len(ents)
      BY <1>a, <2>1 DEF ImportInsertLicense, At, GoodFrame, HoldsEntitlement
    <3> QED
      BY <1>a, <2>1, <3>1 DEF ImportInsertLicense, TablesTyped
  <2>2. CASE ImportFindLicense(r) \/ ImportActivate(r) \/ ImportRefused(r)
    BY <1>a, <2>2 DEF ImportFindLicense, ImportActivate, ImportRefused, TablesTyped
  <2> QED
    BY <2>1, <2>2
<1> QED
  BY <1>b, <1>1, <1>2, TypeFromParts

LEMMA EnvironmentType ==
  ASSUME TypeInv,
         \/ \E r \in Requests : Crash(r)
         \/ \E i \in DOMAIN Mappings : EditMapping(i)
  PROVE  TypeInv' /\ LogGrows
<1> USE DEF rows, rest, mapped, history, writes
<1>a. /\ Frames /\ LogTyped /\ TablesTyped /\ Len(ents) \in Nat
  BY TypeParts
<1>b. LogTyped' /\ LogGrows /\ UNCHANGED ents
  BY <1>a, LogStays DEF Crash, EditMapping
<1>c. MaxChanges \in Nat
  BY BoundsAssumption
<1>1. ASSUME NEW r \in Requests, Crash(r) PROVE TypeInv' /\ LogGrows
  <2>1. Frames'
    BY <1>a, <1>b, <1>1, FinishFrames DEF Crash
  <2>2. TablesTyped'
    BY <1>a, <1>c, <1>1 DEF Crash, TablesTyped
  <2> QED
    BY <1>b, <2>1, <2>2, TypeFromParts
<1>2. ASSUME NEW i \in DOMAIN Mappings, EditMapping(i) PROVE TypeInv' /\ LogGrows
  <2>1. Frames'
    BY <1>a, <1>2 DEF EditMapping, Frames
  <2>2. TablesTyped'
    BY <1>a, <1>c, <1>2 DEF EditMapping, TablesTyped
  <2> QED
    BY <1>b, <2>1, <2>2, TypeFromParts
<1> QED
  BY <1>1, <1>2

\* The actions of Next, in the groups of the lemmas about them.
Webhook(r) ==
    \/ \E e \in Events : Deliver(r, e)
    \/ \E id \in Ids : Retry(r, id)
    \/ InsertEvent(r) \/ MarkProcessed(r) \/ MarkFailed(r)
Insert(r) ==
    \/ Inserts(r, "h_ent", "h_findkey", "active")
    \/ Inserts(r, "i_ent", "i_key", "pending")
Creation(r) == CreatedFindLicense(r) \/ CreatedInsertLicense(r) \/ CreatedInsertSubscription(r)
Update(r) == Prepares(r) \/ UpdateApply(r)
Import(r) ==
    ImportFindLicense(r) \/ ImportActivate(r) \/ ImportRefused(r) \/ ImportInsertLicense(r)

LEMMA NextGroups ==
  ASSUME [Next]_vars
  PROVE  \/ \E r \in Requests : \/ Webhook(r) \/ Lookup(r) \/ Insert(r) \/ Creation(r)
                                \/ Update(r) \/ Import(r) \/ Crash(r)
         \/ \E i \in DOMAIN Mappings : EditMapping(i)
         \/ UNCHANGED vars
BY DEF Next, Proceed, Webhook, Lookup, Insert, Inserts, Creation, Update, Prepares, Import,
       CreatedInsertEntitlement, ImportInsertEntitlement

LEMMA TypeStep ==
  ASSUME TypeInv, [Next]_vars
  PROVE  TypeInv' /\ LogGrows
<1>1. ASSUME NEW r \in Requests, Webhook(r) PROVE TypeInv' /\ LogGrows
  BY <1>1, WebhookType DEF Webhook
<1>2. ASSUME NEW r \in Requests, Insert(r) PROVE TypeInv' /\ LogGrows
  <2>0. {"h_findkey", "i_key"} \subseteq Pc
    BY DEF Pc
  <2>1. CASE Inserts(r, "h_ent", "h_findkey", "active")
    BY <2>0, <2>1, InsertType
  <2>2. CASE Inserts(r, "i_ent", "i_key", "pending")
    BY <2>0, <2>2, InsertType
  <2> QED
    BY <1>2, <2>1, <2>2 DEF Insert
<1>3. ASSUME NEW r \in Requests, Creation(r) PROVE TypeInv' /\ LogGrows
  BY <1>3, CreationType DEF Creation
<1>4. ASSUME NEW r \in Requests, Update(r) PROVE TypeInv' /\ LogGrows
  BY <1>4, UpdateType DEF Update
<1>5. ASSUME NEW r \in Requests, Import(r) PROVE TypeInv' /\ LogGrows
  BY <1>5, ImportType DEF Import
<1>6. CASE UNCHANGED vars
  <2>1. Frames /\ LogTyped /\ TablesTyped
    BY TypeParts
  <2>2. LogTyped' /\ LogGrows
    BY <1>6, <2>1, LogStays DEF vars
  <2>3. Frames' /\ TablesTyped'
    BY <1>6, <2>1 DEF vars, Frames, TablesTyped
  <2> QED
    BY <2>2, <2>3, TypeFromParts
<1> QED
  BY <1>1, <1>2, <1>3, <1>4, <1>5, <1>6, LookupType, EnvironmentType, NextGroups

\* Tables and frames hold values of their types: every request works for an event the
\* provider has told and on entitlements that exist, whatever overlapped.
THEOREM TypeCorrect == Spec => []TypeOK
<1>1. TypeInv /\ [Next]_vars => TypeInv'
  BY TypeStep
<1>2. TypeInv => TypeOK
  BY DEF TypeInv
<1> QED
  BY TypeInit, <1>1, <1>2, PTL DEF Spec

(***************************************************************************)
(* Part 2: what a handler has found out.  A frame's statement says what    *)
(* kind of event it is for and what the rows it has seen still are: an     *)
(* entitlement once paid for is never pending again, a subscription never  *)
(* moves to another entitlement, and a revoked one stays revoked unless    *)
(* it is written over.                                                     *)
(***************************************************************************)

Creating == {"h_product", "h_any", "h_ent", "h_findkey", "h_key", "h_sub"}

\* The subscription is revoked, or somebody has written over that.
Kept == sub # 0 /\ (ents[sub].status = "revoked" \/ reviving # {})

PathFrame(f, table, s, missed, kept) ==
    /\ f.pc \in Creating => TypeOf[f.event] = "created"
    /\ f.pc \in {"h_find", "h_row"} => TypeOf[f.event] # "created"
    /\ f.pc = "h_check" => TypeOf[f.event] = "renewed"
    /\ f.pc = "h_apply" => TypeOf[f.event] \in {"renewed", "payment_failed", "refunded"}
    /\ f.pc \in {"h_findkey", "h_key", "h_sub"} => table[f.ent].status # "pending"
    /\ f.pc \in {"h_row", "h_check", "h_apply"} => s # 0
    /\ f.pc = "h_done" /\ TypeOf[f.event] = "refunded" => f.event \in missed \/ kept

PathInv ==
    /\ \A r \in Requests : PathFrame(req[r], ents, sub, early, Kept)
    /\ sub # 0 => ents[sub].status # "pending"

\* The frame of r, field by field; the other frames stay.
Went(r, step, e, retrying, plan, n) ==
    /\ req'[r].pc = step /\ req'[r].event = e /\ req'[r].retrying = retrying
    /\ req'[r].plan = plan /\ req'[r].ent = n
    /\ \A q \in Requests \ {r} : req'[q] = req[q]

LEMMA MovedWent ==
  ASSUME NEW r, NEW step, NEW e, NEW retrying, NEW plan, NEW n,
         Moved(r, FrameWith(step, e, retrying, plan, n))
  PROVE  Went(r, step, e, retrying, plan, n)
BY DEF Moved, FrameWith, Went

LEMMA GotoWent ==
  ASSUME TypeInv, NEW r \in Requests, NEW step \in Pc, Goto(r, step)
  PROVE  Went(r, step, req[r].event, req[r].retrying, req[r].plan, req[r].ent)
BY TypeParts, GotoMoves, MovedWent

LEMMA FinishWent ==
  ASSUME TypeInv, NEW r \in Requests, Finish(r)
  PROVE  Went(r, "idle", NoEvent, FALSE, DefaultPlan, 0)
BY TypeParts, FinishMoves, IdleFrame, MovedWent

LEMMA BeginWent ==
  ASSUME TypeInv, NEW r \in Requests, NEW step \in Pc, NEW e \in Events \union {NoEvent},
         NEW retrying \in BOOLEAN, Begin(r, step, e, retrying)
  PROVE  Went(r, step, e, retrying, DefaultPlan, 0)
BY TypeParts, BeginMoves, MovedWent

\* What no step takes back.
TablesGrow ==
    /\ Len(ents) <= Len(ents')
    /\ \A i \in 1 .. Len(ents) :
         /\ ents'[i].plan = ents[i].plan
         /\ ents[i].status # "pending" => ents'[i].status # "pending"
    /\ sub # 0 => sub' = sub
    /\ Kept => Kept'
    /\ early \subseteq early'
    /\ retried \subseteq retried'

LEMMA TablesGrowStep ==
  ASSUME TypeInv, [Next]_vars
  PROVE  TablesGrow
<1> USE DEF rows, rest, mapped, history, writes
<1>a. /\ ents \in Seq(Entitlement) /\ Len(ents) \in Nat
      /\ sub \in 0 .. Len(ents)
  BY TypeParts DEF TablesTyped
<1>b. ASSUME UNCHANGED <<ents, reviving>>, UNCHANGED sub \/ sub = 0, early \subseteq early',
             retried \subseteq retried'
      PROVE  TablesGrow
  BY <1>a, <1>b DEF TablesGrow, Kept
<1>1. ASSUME NEW r \in Requests, Webhook(r) PROVE TablesGrow
  BY <1>1, <1>b DEF Webhook, Deliver, Retry, InsertEvent, MarkProcessed, MarkFailed
<1>2. ASSUME NEW r \in Requests, Lookup(r) PROVE TablesGrow
  BY <1>2, <1>b, LookupMoves
<1>3. ASSUME NEW r \in Requests, Insert(r) PROVE TablesGrow
  <2>1. ASSUME NEW from, NEW step \in Pc, NEW status \in {"active", "pending"},
               Inserts(r, from, step, status)
        PROVE  TablesGrow
    <3>1. /\ Len(ents') = Len(ents) + 1
          /\ \A i \in 1 .. Len(ents) : ents'[i] = ents[i]
      BY <2>1, InsertEffect
    <3>2. UNCHANGED <<sub, early, retried, reviving>>
      BY <2>1 DEF Inserts
    <3> QED
      BY <1>a, <3>1, <3>2 DEF TablesGrow, Kept
  <2> QED
    BY <1>3, <2>1 DEF Insert, Pc
<1>4. ASSUME NEW r \in Requests, Creation(r) PROVE TablesGrow
  BY <1>4, <1>b DEF Creation, CreatedFindLicense, CreatedInsertLicense, CreatedInsertSubscription
<1>5. ASSUME NEW r \in Requests, Update(r) PROVE TablesGrow
  <2>1. CASE Prepares(r)
    BY <2>1, <1>b, PreparesEffect
  <2>2. CASE UpdateApply(r) /\ sub # 0
    <3>1. /\ Len(ents') = Len(ents)
          /\ ents'[sub].plan = ents[sub].plan
          /\ ents'[sub].status = StatusAfter(req[r].event) /\ ents'[sub].status # "pending"
          /\ \A i \in (1 .. Len(ents)) \ {sub} : ents'[i] = ents[i]
      BY <1>a, <2>2, ApplyEffect
    <3>2. UNCHANGED <<sub, early, retried>>
      BY <2>2 DEF UpdateApply
    <3>3. Kept => Kept'
      BY <2>2, <3>1, <3>2 DEF Kept, UpdateApply
    <3> QED
      BY <1>a, <3>1, <3>2, <3>3 DEF TablesGrow
  <2>3. CASE UpdateApply(r) /\ sub = 0
    <3>1. sub \notin DOMAIN ents
      BY <1>a, <2>3, EntsLength
    <3>2. ents' = ents
      BY <1>a, <2>3, <3>1 DEF UpdateApply
    <3> QED
      BY <1>a, <2>3, <3>2 DEF UpdateApply, TablesGrow, Kept
  <2> QED
    BY <1>5, <2>1, <2>2, <2>3 DEF Update
<1>6. ASSUME NEW r \in Requests, Import(r) PROVE TablesGrow
  BY <1>6, <1>b DEF Import, ImportFindLicense, ImportActivate, ImportRefused, ImportInsertLicense
<1>7. ASSUME NEW r \in Requests, Crash(r) PROVE TablesGrow
  BY <1>7, <1>b DEF Crash
<1>8. ASSUME NEW i \in DOMAIN Mappings, EditMapping(i) PROVE TablesGrow
  BY <1>8, <1>b DEF EditMapping
<1>9. CASE UNCHANGED vars
  BY <1>9, <1>b DEF vars
<1> QED
  BY <1>1, <1>2, <1>3, <1>4, <1>5, <1>6, <1>7, <1>8, <1>9, NextGroups

-----------------------------------------------------------------------------
LEMMA PathInit == Init => PathInv
BY DEF Init, Idle, PathInv, PathFrame, Creating

\* The frames that did not move stay right.
LEMMA PathOthers ==
  ASSUME TypeInv, PathInv, TablesGrow, NEW q \in Requests, req'[q] = req[q]
  PROVE  PathFrame(req'[q], ents', sub', early', Kept')
<1>1. /\ GoodFrame(req[q], Len(ents), log) /\ PathFrame(req[q], ents, sub, early, Kept)
      /\ sub \in 0 .. Len(ents)
  BY TypeParts DEF PathInv, TablesTyped
<1>2. req[q].pc \in {"h_findkey", "h_key", "h_sub"} => req[q].ent \in 1 .. Len(ents)
  BY <1>1 DEF GoodFrame, HoldsEntitlement
<1> QED
  BY <1>1, <1>2 DEF PathFrame, TablesGrow

LEMMA PathMoved ==
  ASSUME TypeInv, PathInv, TablesGrow, NEW r \in Requests,
         \A q \in Requests \ {r} : req'[q] = req[q],
         PathFrame(req'[r], ents', sub', early', Kept'),
         sub = 0 /\ sub' # 0 => ents'[sub'].status # "pending"
  PROVE  PathInv'
<1>1. \A q \in Requests : PathFrame(req'[q], ents', sub', early', Kept')
  BY PathOthers
<1>2. sub' # 0 => ents'[sub'].status # "pending"
  BY TypeParts DEF PathInv, TablesGrow, TablesTyped
<1> QED
  BY <1>1, <1>2 DEF PathInv

LEMMA PathStep ==
  ASSUME TypeInv, PathInv, [Next]_vars
  PROVE  PathInv'
<1> USE DEF rows, rest, mapped, history, writes
<1>a. TablesGrow /\ Frames /\ LogTyped /\ TablesTyped
  BY TablesGrowStep, TypeParts
<1>b. \A r \in Requests : GoodFrame(req[r], Len(ents), log) /\ PathFrame(req[r], ents, sub, early, Kept)
  BY TypeParts DEF PathInv
<1>c. ASSUME NEW r \in Requests, Finish(r), UNCHANGED sub PROVE PathInv'
  <2>1. Went(r, "idle", NoEvent, FALSE, DefaultPlan, 0)
    BY <1>c, FinishWent
  <2> QED
    BY <1>a, <1>c, <2>1, PathMoved DEF Went, PathFrame, Creating
<1>d. ASSUME NEW r \in Requests, NEW e \in Events, NEW retrying \in BOOLEAN, UNCHANGED sub,
             Begin(r, Handler(e), e, retrying)
      PROVE  PathInv'
  <2>1. Handler(e) \in Pc
    BY DEF Handler, Pc
  <2>2. Went(r, Handler(e), e, retrying, DefaultPlan, 0)
    BY <1>d, <2>1, BeginWent
  <2>3. PathFrame(req'[r], ents', sub', early', Kept')
    BY <2>2 DEF Went, PathFrame, Creating, Handler
  <2> QED
    BY <1>a, <1>d, <2>2, <2>3, PathMoved DEF Went
<1>1. ASSUME NEW r \in Requests, NEW e \in Events, Deliver(r, e) PROVE PathInv'
  <2>1. CASE UNCHANGED req
    BY <1>1, <1>a, <1>b, <2>1, PathMoved, PathOthers DEF Deliver
  <2>2. CASE Begin(r, "w_insert", e, FALSE)
    <3>1. Went(r, "w_insert", e, FALSE, DefaultPlan, 0)
      BY <2>2, BeginWent DEF Pc
    <3> QED
      BY <1>1, <1>a, <3>1, PathMoved DEF Deliver, Went, PathFrame, Creating
  <2> QED
    BY <1>1, <2>1, <2>2 DEF Deliver
<1>2. ASSUME NEW r \in Requests, NEW id \in Ids, Retry(r, id) PROVE PathInv'
  <2>1. log[id].event \in Events
    BY <1>a, <1>2 DEF Retry, LogTyped, LogRows
  <2> QED
    BY <1>2, <1>d, <2>1 DEF Retry
<1>3. ASSUME NEW r \in Requests, InsertEvent(r) PROVE PathInv'
  <2>1. UNCHANGED sub
    BY <1>3 DEF InsertEvent
  <2>2. CASE Goto(r, Handler(req[r].event))
    <3>1. Handler(req[r].event) \in Pc
      BY DEF Handler, Pc
    <3>2. Went(r, Handler(req[r].event), req[r].event, req[r].retrying, req[r].plan, req[r].ent)
      BY <2>2, <3>1, GotoWent
    <3>3. PathFrame(req'[r], ents', sub', early', Kept')
      BY <3>2 DEF Went, PathFrame, Creating, Handler
    <3> QED
      BY <1>a, <2>1, <3>2, <3>3, PathMoved DEF Went
  <2> QED
    BY <1>3, <1>c, <2>1, <2>2 DEF InsertEvent
<1>4. ASSUME NEW r \in Requests, MarkProcessed(r) \/ MarkFailed(r) PROVE PathInv'
  BY <1>4, <1>c DEF MarkProcessed, MarkFailed
<1>5. ASSUME NEW r \in Requests, Lookup(r) PROVE PathInv'
  <2>1. UNCHANGED sub
    BY <1>5, LookupMoves
  <2>2. PICK step \in Pc, plan \in Plans :
          /\ Moved(r, FrameWith(step, req[r].event, req[r].retrying, plan, req[r].ent))
          /\ \/ req[r].pc \in {"h_product", "h_any"} /\ step \in {"h_any", "h_ent", "h_failed"}
             \/ req[r].pc \in {"i_product", "i_any"} /\ step \in {"i_any", "i_ent"}
    BY <1>5, LookupMoves
  <2>3. Went(r, step, req[r].event, req[r].retrying, plan, req[r].ent)
    BY <2>2, MovedWent
  <2>4. PathFrame(req'[r], ents', sub', early', Kept')
    BY <1>b, <2>2, <2>3 DEF Went, PathFrame, Creating
  <2> QED
    BY <1>a, <2>1, <2>3, <2>4, PathMoved DEF Went
<1>6. ASSUME NEW r \in Requests, Insert(r) PROVE PathInv'
  <2>1. CASE Inserts(r, "h_ent", "h_findkey", "active")
    <3>1. /\ ents'[Len(ents) + 1] = [status |-> "active", plan |-> req[r].plan]
          /\ Moved(r, FrameWith("h_findkey", req[r].event, req[r].retrying, req[r].plan, Len(ents) + 1))
      BY <2>1, InsertEffect DEF Pc
    <3>2. Went(r, "h_findkey", req[r].event, req[r].retrying, req[r].plan, Len(ents) + 1)
      BY <3>1, MovedWent
    <3>3. PathFrame(req'[r], ents', sub', early', Kept')
      BY <1>b, <2>1, <3>1, <3>2 DEF Went, PathFrame, Creating, Inserts, At
    <3> QED
      BY <1>a, <2>1, <3>2, <3>3, PathMoved DEF Went, Inserts
  <2>2. CASE Inserts(r, "i_ent", "i_key", "pending")
    <3>1. Moved(r, FrameWith("i_key", req[r].event, req[r].retrying, req[r].plan, Len(ents) + 1))
      BY <2>2, InsertEffect DEF Pc
    <3>2. Went(r, "i_key", req[r].event, req[r].retrying, req[r].plan, Len(ents) + 1)
      BY <3>1, MovedWent
    <3> QED
      BY <1>a, <2>2, <3>2, PathMoved DEF Went, Inserts, PathFrame, Creating
  <2> QED
    BY <1>6, <2>1, <2>2 DEF Insert
<1>7. ASSUME NEW r \in Requests, Creation(r) PROVE PathInv'
  <2>1. ASSUME NEW step \in {"h_key", "h_sub", "h_done", "h_failed"}, Goto(r, step),
               req[r].pc \in {"h_findkey", "h_key", "h_sub"},
               sub = 0 /\ sub' # 0 => sub' = req[r].ent
        PROVE  PathInv'
    <3>1. Went(r, step, req[r].event, req[r].retrying, req[r].plan, req[r].ent)
      BY <2>1, GotoWent DEF Pc
    <3>2. /\ ents[req[r].ent].status # "pending" /\ TypeOf[req[r].event] = "created"
          /\ req[r].ent \in 1 .. Len(ents)
      BY <1>b, <2>1 DEF PathFrame, GoodFrame, HoldsEntitlement, Creating
    <3>3. ents'[req[r].ent].status # "pending"
      BY <1>a, <3>2 DEF TablesGrow
    <3>4. PathFrame(req'[r], ents', sub', early', Kept')
      BY <2>1, <3>1, <3>2, <3>3 DEF Went, PathFrame, Creating
    <3> QED
      BY <1>a, <2>1, <3>1, <3>3, <3>4, PathMoved DEF Went
  <2>2. CASE CreatedFindLicense(r)
    BY <2>1, <2>2 DEF CreatedFindLicense, At
  <2>3. CASE CreatedInsertLicense(r)
    BY <2>1, <2>3 DEF CreatedInsertLicense, At
  <2>4. CASE CreatedInsertSubscription(r)
    BY <2>1, <2>4 DEF CreatedInsertSubscription, At
  <2> QED
    BY <1>7, <2>2, <2>3, <2>4 DEF Creation
<1>8. ASSUME NEW r \in Requests, Prepares(r) PROVE PathInv'
  <2>1. PICK step \in {"h_done", "h_row", "h_check", "h_apply"} :
          /\ Goto(r, step)
          /\ \/ /\ req[r].pc = "h_find" /\ step \in {"h_done", "h_row"}
                /\ sub = 0 <=> step = "h_done"
                /\ early' = IF sub = 0 THEN early \union {req[r].event} ELSE early
             \/ req[r].pc = "h_row" /\ step = AfterRow(req[r].event)
             \/ req[r].pc = "h_check" /\ step \in {"h_done", "h_apply"}
    BY <1>8, PreparesEffect
  <2>2. UNCHANGED sub /\ step \in Pc
    BY <1>8, PreparesEffect DEF Pc
  <2>3. Went(r, step, req[r].event, req[r].retrying, req[r].plan, req[r].ent)
    BY <2>1, <2>2, GotoWent
  <2>4. req[r].event \in Events /\ TypeOf[req[r].event] \in EventTypes
    BY <1>b, <2>1, EventsAssumption DEF GoodFrame, Handling
  <2>5. PathFrame(req'[r], ents', sub', early', Kept')
    <3>1. CASE req[r].pc = "h_find"
      BY <1>b, <2>1, <2>2, <2>3, <3>1 DEF Went, PathFrame, Creating
    <3>2. CASE req[r].pc = "h_row"
      <4>1. step = AfterRow(req[r].event) /\ sub # 0 /\ TypeOf[req[r].event] # "created"
        BY <1>b, <2>1, <3>2 DEF PathFrame
      <4>2. /\ step = "h_done" => TypeOf[req[r].event] = "cancelled"
            /\ step = "h_check" => TypeOf[req[r].event] = "renewed"
            /\ step = "h_apply" => TypeOf[req[r].event] \in {"payment_failed", "refunded"}
            /\ step # "h_row"
        BY <2>4, <4>1 DEF AfterRow, EventTypes
      <4> QED
        BY <2>2, <2>3, <4>1, <4>2 DEF Went, PathFrame, Creating
    <3>3. CASE req[r].pc = "h_check"
      BY <1>b, <2>1, <2>2, <2>3, <3>3 DEF Went, PathFrame, Creating
    <3> QED
      BY <2>1, <3>1, <3>2, <3>3
  <2> QED
    BY <1>a, <2>2, <2>3, <2>5, PathMoved DEF Went
<1>9. ASSUME NEW r \in Requests, UpdateApply(r) PROVE PathInv'
  <2>1. req[r].pc = "h_apply" /\ Goto(r, "h_done") /\ UNCHANGED sub
    BY <1>9 DEF UpdateApply, At
  <2>2. Went(r, "h_done", req[r].event, req[r].retrying, req[r].plan, req[r].ent)
    BY <2>1, GotoWent DEF Pc
  <2>3. sub \in 1 .. Len(ents)
    BY <1>a, <1>b, <2>1 DEF PathFrame, TablesTyped
  <2>4. ents'[sub].status = StatusAfter(req[r].event)
    BY <1>9, <2>3, ApplyEffect
  <2>5. TypeOf[req[r].event] = "refunded" => Kept'
    BY <2>1, <2>3, <2>4, StatusAfterType DEF Kept
  <2>6. PathFrame(req'[r], ents', sub', early', Kept')
    BY <2>1, <2>2, <2>3, <2>5 DEF Went, PathFrame, Creating
  <2> QED
    BY <1>a, <2>1, <2>2, <2>6, PathMoved DEF Went
<1>10. ASSUME NEW r \in Requests, Import(r) PROVE PathInv'
  <2>1. UNCHANGED sub
    BY <1>10 DEF Import, ImportFindLicense, ImportActivate, ImportRefused, ImportInsertLicense
  <2>2. CASE Goto(r, "i_product")
    <3>1. Went(r, "i_product", req[r].event, req[r].retrying, req[r].plan, req[r].ent)
      BY <2>2, GotoWent DEF Pc
    <3> QED
      BY <1>a, <2>1, <3>1, PathMoved DEF Went, PathFrame, Creating
  <2>3. CASE Begin(r, "i_adapter", NoEvent, FALSE)
    <3>1. Went(r, "i_adapter", NoEvent, FALSE, DefaultPlan, 0)
      BY <2>3, BeginWent DEF Pc
    <3> QED
      BY <1>a, <2>1, <3>1, PathMoved DEF Went, PathFrame, Creating
  <2> QED
    BY <1>10, <1>c, <2>1, <2>2, <2>3
       DEF Import, ImportFindLicense, ImportActivate, ImportRefused, ImportInsertLicense
<1>11. ASSUME NEW r \in Requests, Crash(r) PROVE PathInv'
  BY <1>11, <1>c DEF Crash
<1>12. ASSUME NEW i \in DOMAIN Mappings, EditMapping(i) PROVE PathInv'
  BY <1>12 DEF EditMapping, PathInv, Kept
<1>13. CASE UNCHANGED vars
  BY <1>13 DEF vars, PathInv, Kept
<1> QED
  BY <1>1, <1>2, <1>3, <1>4, <1>5, <1>6, <1>7, <1>8, <1>9, <1>10, <1>11, <1>12, <1>13, NextGroups
     DEF Webhook, Update

(***************************************************************************)
(* Part 3: one event, one handler.  The row is inserted before the event   *)
(* is handled and only once, so that until an administrator retries it no  *)
(* two requests handle the same event, and none that has been marked.      *)
(***************************************************************************)

InHandler(r) == req[r].pc \in Handling

\* The statements after the one that changes the subscription.
Changed == {"h_check", "h_apply", "h_done"}

\* r handles an event that nobody has retried.
First(r) == InHandler(r) /\ req[r].event \notin retried

FirstFrames ==
    \A r \in Requests : First(r) =>
        /\ log[IdOf[req[r].event]].status = "pending"
        /\ req[r].pc \notin Changed => applied[req[r].event] = 0

Alone ==
    \A r, q \in Requests :
        First(r) /\ InHandler(q) /\ req[q].event = req[r].event => r = q

AppliedInv ==
    \A e \in Events \ retried :
        /\ applied[e] <= 1
        /\ log[IdOf[e]].event # e => applied[e] = 0

OnceInv == FirstFrames /\ Alone /\ AppliedInv

-----------------------------------------------------------------------------
(* What a step is for the event a request works for.                       *)

OthersStay(r) == \A q \in Requests \ {r} : req'[q] = req[q]

\* Nothing, but that an event whose row is marked may be answered 200.
Stays ==
    /\ UNCHANGED <<req, log, applied, retried>>
    /\ \A e \in acked' : e \in acked \/ log[IdOf[e]].status = "processed"

\* What r runs next is no statement of a handler.
Leaves(r) ==
    /\ req'[r].pc \notin Handling
    /\ OthersStay(r)
    /\ UNCHANGED <<log, applied, retried, acked>>

\* The statements of a purchase before its entitlement is inserted.
Looking == {"h_product", "h_any", "h_ent"}

\* r goes on in the handler it is in.
Continues(r) ==
    /\ req[r].pc \in Handling \ {"h_done", "h_failed"}
    /\ req'[r].pc \in Handling
    /\ req'[r].event = req[r].event
    /\ req'[r].pc \in Looking => req[r].pc \in Looking
    /\ OthersStay(r)
    /\ UNCHANGED <<log, retried, acked>>
    /\ \/ UNCHANGED applied /\ (req[r].pc \in Changed => req'[r].pc \in Changed)
       \/ /\ req[r].pc \notin Changed /\ req'[r].pc \in Changed
          /\ applied' = [applied EXCEPT ![req[r].event] = @ + 1]

\* r marks the row of its event and is done.
Marks(r, status) ==
    /\ req[r].pc = IF status = "processed" THEN "h_done" ELSE "h_failed"
    /\ req'[r].pc \notin Handling
    /\ OthersStay(r)
    /\ log'[IdOf[req[r].event]] = [status |-> status, event |-> req[r].event]
    /\ \A id \in Ids \ {IdOf[req[r].event]} : log'[id] = log[id]
    /\ acked' = acked \/ (status = "processed" /\ acked' = acked \union {req[r].event})
    /\ UNCHANGED <<applied, retried>>

\* r inserts the row of its event and begins to handle it.
Stores(r) ==
    /\ req[r].pc = "w_insert"
    /\ log[IdOf[req[r].event]].status = "none"
    /\ req'[r].pc \in Handling \ Changed
    /\ req'[r].event = req[r].event
    /\ OthersStay(r)
    /\ log'[IdOf[req[r].event]] = [status |-> "pending", event |-> req[r].event]
    /\ \A id \in Ids \ {IdOf[req[r].event]} : log'[id] = log[id]
    /\ UNCHANGED <<applied, retried, acked>>

\* An administrator has r handle a stored event.
Retries(r) ==
    /\ req'[r].event \in retried'
    /\ OthersStay(r)
    /\ retried \subseteq retried'
    /\ UNCHANGED <<log, applied, acked>>

EventStep ==
    \/ Stays
    \/ \E r \in Requests :
         \/ Leaves(r) \/ Continues(r) \/ Stores(r) \/ Retries(r)
         \/ \E status \in {"processed", "failed"} : Marks(r, status)

LEMMA WebhookSteps ==
  ASSUME TypeInv, NEW r \in Requests, Webhook(r)
  PROVE  EventStep
<1> USE DEF rows, rest, mapped, history, writes
<1>a. Frames /\ LogTyped /\ TablesTyped /\ GoodFrame(req[r], Len(ents), log)
  BY TypeParts
<1>b. ASSUME NEW e \in Events
      PROVE  Handler(e) \in Pc /\ Handler(e) \in Handling \ Changed
  BY DEF Handler, Pc, Handling, Changed
<1>c. ASSUME Finish(r) PROVE req'[r].pc \notin Handling /\ OthersStay(r)
  BY <1>c, FinishWent DEF Went, OthersStay, Handling
<1>1. ASSUME NEW e \in Events, Deliver(r, e) PROVE EventStep
  <2>1. CASE Begin(r, "w_insert", e, FALSE) /\ UNCHANGED acked
    <3>1. Went(r, "w_insert", e, FALSE, DefaultPlan, 0)
      BY <2>1, BeginWent DEF Pc
    <3>2. Leaves(r)
      BY <1>1, <2>1, <3>1 DEF Deliver, Leaves, Went, OthersStay, Handling
    <3> QED
      BY <3>2 DEF EventStep
  <2>2. CASE log[IdOf[e]].status = "processed" /\ UNCHANGED req /\ acked' = acked \union {e}
    BY <1>1, <2>2 DEF Deliver, Stays, EventStep
  <2> QED
    BY <1>1, <2>1, <2>2 DEF Deliver
<1>2. ASSUME NEW id \in Ids, Retry(r, id) PROVE EventStep
  <2> DEFINE e == log[id].event
  <2>1. e \in Events
    BY <1>a, <1>2 DEF Retry, LogTyped, LogRows
  <2>2. Went(r, Handler(e), e, TRUE, DefaultPlan, 0)
    BY <1>2, <1>b, <2>1, BeginWent DEF Retry
  <2>3. Retries(r)
    BY <1>2, <2>2 DEF Retry, Retries, Went, OthersStay
  <2> QED
    BY <2>3 DEF EventStep
<1>3. ASSUME InsertEvent(r) PROVE EventStep
  <2> DEFINE e == req[r].event
  <2>1. e \in Events /\ req[r].pc = "w_insert"
    BY <1>a, <1>3 DEF InsertEvent, At, GoodFrame
  <2>2. CASE /\ log[IdOf[e]].status = "none"
             /\ log' = [log EXCEPT ![IdOf[e]] = [status |-> "pending", event |-> e]]
             /\ Goto(r, Handler(e))
    <3>1. Went(r, Handler(e), e, req[r].retrying, req[r].plan, req[r].ent)
      BY <1>b, <2>1, <2>2, GotoWent
    <3>2. /\ log'[IdOf[e]] = [status |-> "pending", event |-> e]
          /\ \A id \in Ids \ {IdOf[e]} : log'[id] = log[id]
      BY <1>a, <2>1, <2>2, EventIds DEF LogTyped
    <3>3. Stores(r)
      BY <1>3, <1>b, <2>1, <2>2, <3>1, <3>2 DEF InsertEvent, Stores, Went, OthersStay
    <3> QED
      BY <3>3 DEF EventStep
  <2>3. CASE Finish(r) /\ UNCHANGED log
    BY <1>3, <1>c, <2>3 DEF InsertEvent, Leaves, EventStep
  <2> QED
    BY <1>3, <2>2, <2>3 DEF InsertEvent
<1>4. ASSUME MarkProcessed(r) \/ MarkFailed(r) PROVE EventStep
  <2> DEFINE e == req[r].event
             status == IF MarkProcessed(r) THEN "processed" ELSE "failed"
  <2>1. /\ req[r].pc = IF status = "processed" THEN "h_done" ELSE "h_failed"
        /\ log' = [log EXCEPT ![IdOf[e]].status = status]
        /\ acked' = acked \/ (status = "processed" /\ acked' = acked \union {e})
        /\ Finish(r) /\ UNCHANGED <<applied, retried>>
    BY <1>4 DEF MarkProcessed, MarkFailed, At
  <2>2. e \in Events /\ log[IdOf[e]].event = e
    BY <1>a, <2>1 DEF GoodFrame, Handling
  <2>3. status \in {"processed", "failed"}
    OBVIOUS
  <2> HIDE DEF status
  <2>4. /\ log'[IdOf[e]] = [status |-> status, event |-> e]
        /\ \A id \in Ids \ {IdOf[e]} : log'[id] = log[id]
    BY <1>a, <2>1, <2>2, <2>3, LogMark
  <2>5. Marks(r, status)
    BY <1>c, <2>1, <2>4 DEF Marks
  <2> QED
    BY <2>3, <2>5 DEF EventStep
<1> QED
  BY <1>1, <1>2, <1>3, <1>4 DEF Webhook

LEMMA EventSteps ==
  ASSUME TypeInv, [Next]_vars
  PROVE  EventStep
<1> USE DEF rows, rest, mapped, history, writes
<1>c. ASSUME NEW r \in Requests, Finish(r) PROVE req'[r].pc \notin Handling /\ OthersStay(r)
  BY <1>c, FinishWent DEF Went, OthersStay, Handling
<1>d. ASSUME NEW r \in Requests, NEW step \in Pc, Goto(r, step)
      PROVE  /\ req'[r].pc = step /\ req'[r].event = req[r].event
             /\ OthersStay(r)
  BY <1>d, GotoWent DEF Went, OthersStay
<1>1. ASSUME NEW r \in Requests, Lookup(r) PROVE EventStep
  <2>1. UNCHANGED <<log, applied, retried, acked>>
    BY <1>1, LookupMoves
  <2>2. PICK step \in Pc, plan \in Plans :
          /\ Moved(r, FrameWith(step, req[r].event, req[r].retrying, plan, req[r].ent))
          /\ \/ req[r].pc \in {"h_product", "h_any"} /\ step \in {"h_any", "h_ent", "h_failed"}
             \/ req[r].pc \in {"i_product", "i_any"} /\ step \in {"i_any", "i_ent"}
    BY <1>1, LookupMoves
  <2>3. Went(r, step, req[r].event, req[r].retrying, plan, req[r].ent)
    BY <2>2, MovedWent
  <2>4. Continues(r) \/ Leaves(r)
    BY <2>1, <2>2, <2>3 DEF Continues, Leaves, Went, OthersStay, Handling, Looking, Changed
  <2> QED
    BY <2>4 DEF EventStep
<1>2. ASSUME NEW r \in Requests, Insert(r) PROVE EventStep
  <2>1. CASE Inserts(r, "h_ent", "h_findkey", "active")
    <3>1. Moved(r, FrameWith("h_findkey", req[r].event, req[r].retrying, req[r].plan, Len(ents) + 1))
      BY <2>1, InsertEffect DEF Pc
    <3>2. Went(r, "h_findkey", req[r].event, req[r].retrying, req[r].plan, Len(ents) + 1)
      BY <3>1, MovedWent
    <3>3. Continues(r)
      BY <2>1, <3>2 DEF Inserts, At, Continues, Went, OthersStay, Handling, Looking, Changed
    <3> QED
      BY <3>3 DEF EventStep
  <2>2. CASE Inserts(r, "i_ent", "i_key", "pending")
    <3>1. Moved(r, FrameWith("i_key", req[r].event, req[r].retrying, req[r].plan, Len(ents) + 1))
      BY <2>2, InsertEffect DEF Pc
    <3>2. Went(r, "i_key", req[r].event, req[r].retrying, req[r].plan, Len(ents) + 1)
      BY <3>1, MovedWent
    <3>3. Leaves(r)
      BY <2>2, <3>2 DEF Inserts, Leaves, Went, OthersStay, Handling
    <3> QED
      BY <3>3 DEF EventStep
  <2> QED
    BY <1>2, <2>1, <2>2 DEF Insert
<1>3. ASSUME NEW r \in Requests, Creation(r) \/ Update(r) PROVE EventStep
  <2>1. ASSUME NEW step \in (Pc \intersect Handling) \ Looking, Goto(r, step),
               req[r].pc \in Handling \ {"h_done", "h_failed"},
               UNCHANGED <<log, retried, acked>>,
               \/ UNCHANGED applied /\ (req[r].pc \in Changed => step \in Changed)
               \/ /\ req[r].pc \notin Changed /\ step \in Changed
                  /\ applied' = [applied EXCEPT ![req[r].event] = @ + 1]
        PROVE  EventStep
    <3>1. Continues(r)
      BY <1>d, <2>1 DEF Continues
    <3> QED
      BY <3>1 DEF EventStep
  <2>2. {"h_key", "h_sub", "h_failed", "h_done", "h_row", "h_check", "h_apply"}
            \subseteq (Pc \intersect Handling) \ Looking
    BY DEF Pc, Handling, Looking
  <2>3. {"h_findkey", "h_key", "h_sub", "h_find", "h_row", "h_check", "h_apply"}
            \subseteq Handling \ {"h_done", "h_failed"}
    BY DEF Handling
  <2>4. CASE CreatedFindLicense(r)
    BY <2>1, <2>2, <2>3, <2>4 DEF CreatedFindLicense, At, Changed
  <2>5. CASE CreatedInsertLicense(r)
    BY <2>1, <2>2, <2>3, <2>5 DEF CreatedInsertLicense, At, Changed
  <2>6. CASE CreatedInsertSubscription(r)
    BY <2>1, <2>2, <2>3, <2>6 DEF CreatedInsertSubscription, At, Changed
  <2>7. CASE Prepares(r)
    <3>1. UNCHANGED <<log, retried, acked>>
      BY <2>7, PreparesEffect
    <3>2. PICK step \in {"h_done", "h_row", "h_check", "h_apply"} :
            /\ Goto(r, step)
            /\ \/ req[r].pc = "h_find" /\ UNCHANGED applied
               \/ /\ req[r].pc = "h_row" /\ step = AfterRow(req[r].event)
                  /\ applied' = [applied EXCEPT ![req[r].event] = @ + 1]
               \/ req[r].pc = "h_check" /\ step \in {"h_done", "h_apply"} /\ UNCHANGED applied
      BY <2>7, PreparesEffect
    <3>3. step \in (Pc \intersect Handling) \ Looking /\ req[r].pc \in Handling \ {"h_done", "h_failed"}
      BY <2>2, <2>3, <3>2
    <3> QED
      BY <2>1, <3>1, <3>2, <3>3, AfterRowType DEF Changed
  <2>8. CASE UpdateApply(r)
    BY <2>1, <2>2, <2>3, <2>8 DEF UpdateApply, At, Changed
  <2> QED
    BY <1>3, <2>4, <2>5, <2>6, <2>7, <2>8 DEF Creation, Update
<1>4. ASSUME NEW r \in Requests, Import(r) PROVE EventStep
  <2>1. UNCHANGED <<log, applied, retried, acked>>
    BY <1>4 DEF Import, ImportFindLicense, ImportActivate, ImportRefused, ImportInsertLicense
  <2>2. CASE Goto(r, "i_product")
    BY <1>d, <2>1, <2>2 DEF Pc, Handling, Leaves, EventStep
  <2>3. CASE Begin(r, "i_adapter", NoEvent, FALSE)
    <3>1. Went(r, "i_adapter", NoEvent, FALSE, DefaultPlan, 0)
      BY <2>3, BeginWent DEF Pc
    <3> QED
      BY <2>1, <3>1 DEF Went, OthersStay, Handling, Leaves, EventStep
  <2> QED
    BY <1>4, <1>c, <2>1, <2>2, <2>3
       DEF Import, ImportFindLicense, ImportActivate, ImportRefused, ImportInsertLicense,
           Leaves, EventStep
<1>5. ASSUME NEW r \in Requests, Crash(r) PROVE EventStep
  BY <1>5, <1>c DEF Crash, Leaves, EventStep
<1>6. ASSUME NEW i \in DOMAIN Mappings, EditMapping(i) PROVE EventStep
  BY <1>6 DEF EditMapping, Stays, EventStep
<1>7. CASE UNCHANGED vars
  BY <1>7 DEF vars, Stays, EventStep
<1> QED
  BY <1>1, <1>2, <1>3, <1>4, <1>5, <1>6, <1>7, WebhookSteps, NextGroups

LEMMA OnceInit == Init => OnceInv
<1> SUFFICES ASSUME Init PROVE OnceInv
  OBVIOUS
<1>1. \A r \in Requests : ~InHandler(r)
  BY DEF Init, Idle, InHandler, Handling
<1>2. \A e \in Events : applied[e] = 0
  BY DEF Init
<1> QED
  BY <1>1, <1>2 DEF OnceInv, FirstFrames, Alone, AppliedInv, First

\* The frames that do not move, as long as their rows do not.
LEMMA OnceOthers ==
  ASSUME OnceInv, NEW r \in Requests, OthersStay(r), retried \subseteq retried',
         \A q \in Requests \ {r} : First(q) =>
             /\ log'[IdOf[req[q].event]] = log[IdOf[req[q].event]]
             /\ applied'[req[q].event] = applied[req[q].event]
  PROVE  \A q \in Requests \ {r} : First(q)' =>
             /\ First(q)
             /\ log'[IdOf[req'[q].event]].status = "pending"
             /\ req'[q].pc \notin Changed => applied'[req'[q].event] = 0
BY DEF OnceInv, FirstFrames, First, InHandler, OthersStay

\* Of two handlers of one event, the one that nobody retried is the only one.
LEMMA AloneStep ==
  ASSUME OnceInv, NEW r \in Requests, OthersStay(r), retried \subseteq retried',
         InHandler(r)' =>
             \/ InHandler(r) /\ req'[r].event = req[r].event
             \/ req'[r].event \in retried'
             \/ \A q \in Requests \ {r} : InHandler(q) => req[q].event # req'[r].event
  PROVE  Alone'
BY DEF OnceInv, Alone, First, InHandler, OthersStay

LEMMA OnceStep ==
  ASSUME TypeInv, OnceInv, [Next]_vars
  PROVE  OnceInv'
<1>a. /\ \A r \in Requests : GoodFrame(req[r], Len(ents), log)
      /\ retried \subseteq Events /\ applied \in [Events -> Nat] /\ LogTyped
  BY TypeParts DEF TablesTyped
<1>b. ASSUME NEW r \in Requests, InHandler(r)
      PROVE  req[r].event \in Events /\ log[IdOf[req[r].event]].event = req[r].event
  BY <1>a, <1>b DEF GoodFrame, InHandler
<1>1. CASE Stays
  BY <1>1 DEF Stays, OnceInv, FirstFrames, Alone, AppliedInv, First, InHandler
<1>2. ASSUME NEW r \in Requests, Leaves(r) PROVE OnceInv'
  <2>1. FirstFrames'
    BY <1>2, OnceOthers DEF Leaves, FirstFrames, First, InHandler
  <2>2. Alone'
    BY <1>2, AloneStep DEF Leaves, InHandler
  <2>3. AppliedInv'
    BY <1>2 DEF Leaves, OnceInv, AppliedInv
  <2> QED
    BY <2>1, <2>2, <2>3 DEF OnceInv
<1>3. ASSUME NEW r \in Requests, Continues(r) PROVE OnceInv'
  <2> DEFINE e == req[r].event
  <2>1. InHandler(r) /\ InHandler(r)' /\ e \in Events /\ log[IdOf[e]].event = e
    BY <1>3, <1>b DEF Continues, InHandler
  <2>2. e \notin retried =>
          /\ First(r) /\ log[IdOf[e]].status = "pending"
          /\ applied[e] \in 0 .. 1 /\ (req[r].pc \notin Changed => applied[e] = 0)
    BY <1>a, <2>1 DEF First, OnceInv, FirstFrames, AppliedInv
  <2>3. \A f \in Events \ {e} : applied'[f] = applied[f]
    BY <1>a, <1>3, <2>1 DEF Continues
  <2>4. e \notin retried => applied'[e] \in 0 .. 1 /\ (req'[r].pc \notin Changed => applied'[e] = 0)
    BY <1>a, <1>3, <2>1, <2>2 DEF Continues
  <2>5. \A q \in Requests \ {r} : First(q) => req[q].event \in Events \ {e}
    BY <1>b, <2>1 DEF First, OnceInv, Alone
  <2>6. FirstFrames'
    <3>1. \A q \in Requests \ {r} : First(q)' =>
             /\ log'[IdOf[req'[q].event]].status = "pending"
             /\ req'[q].pc \notin Changed => applied'[req'[q].event] = 0
      BY <1>3, <2>3, <2>5, OnceOthers DEF Continues
    <3>2. First(r)' =>
             /\ log'[IdOf[req'[r].event]].status = "pending"
             /\ req'[r].pc \notin Changed => applied'[req'[r].event] = 0
      BY <1>3, <2>2, <2>4 DEF Continues, First
    <3> QED
      BY <3>1, <3>2 DEF FirstFrames
  <2>7. Alone'
    BY <1>3, <2>1, AloneStep DEF Continues
  <2>8. AppliedInv'
    BY <1>a, <1>3, <2>1, <2>3, <2>4 DEF Continues, OnceInv, AppliedInv
  <2> QED
    BY <2>6, <2>7, <2>8 DEF OnceInv
<1>4. ASSUME NEW r \in Requests, Stores(r) PROVE OnceInv'
  <2> DEFINE e == req[r].event
  <2>1. e \in Events /\ log[IdOf[e]].event = NoEvent /\ NoEvent \notin Events /\ IdOf[e] \in Ids
    BY <1>a, <1>4, EventsAssumption, EventIds DEF Stores, GoodFrame, LogTyped, LogRows
  <2>2. \A q \in Requests : InHandler(q) =>
            IdOf[req[q].event] \in Ids \ {IdOf[e]} /\ req[q].event # e
    BY <1>b, <2>1, EventIds
  <2>3. e \notin retried => applied[e] = 0
    BY <2>1 DEF OnceInv, AppliedInv
  <2>4. FirstFrames'
    <3>1. \A q \in Requests \ {r} : First(q)' =>
             /\ log'[IdOf[req'[q].event]].status = "pending"
             /\ req'[q].pc \notin Changed => applied'[req'[q].event] = 0
      BY <1>4, <2>2, OnceOthers DEF Stores, First
    <3>2. First(r)' =>
             /\ log'[IdOf[req'[r].event]].status = "pending"
             /\ applied'[req'[r].event] = 0
      BY <1>4, <2>3 DEF Stores, First
    <3> QED
      BY <3>1, <3>2 DEF FirstFrames
  <2>5. Alone'
    BY <1>4, <2>2, AloneStep DEF Stores
  <2>6. AppliedInv'
    <3>1. \A f \in Events \ {e} : IdOf[f] = IdOf[e] => log[IdOf[f]].event # f
      BY <2>1
    <3>2. \A f \in Events : IdOf[f] # IdOf[e] => log'[IdOf[f]] = log[IdOf[f]]
      BY <1>4, EventIds DEF Stores
    <3> QED
      BY <1>4, <2>1, <2>3, <3>1, <3>2 DEF Stores, OnceInv, AppliedInv
  <2> QED
    BY <2>4, <2>5, <2>6 DEF OnceInv
<1>5. ASSUME NEW r \in Requests, Retries(r) PROVE OnceInv'
  <2>1. FirstFrames'
    BY <1>5, OnceOthers DEF Retries, FirstFrames, First
  <2>2. Alone'
    BY <1>5, AloneStep DEF Retries
  <2>3. AppliedInv'
    BY <1>5 DEF Retries, OnceInv, AppliedInv
  <2> QED
    BY <2>1, <2>2, <2>3 DEF OnceInv
<1>6. ASSUME NEW r \in Requests, NEW status \in {"processed", "failed"}, Marks(r, status)
      PROVE  OnceInv'
  <2> DEFINE e == req[r].event
  <2>1. InHandler(r) /\ ~InHandler(r)' /\ e \in Events /\ log[IdOf[e]].event = e
    BY <1>6, <1>b DEF Marks, InHandler, Handling
  <2>2. \A q \in Requests \ {r} : First(q) => IdOf[req[q].event] \in Ids \ {IdOf[e]}
    BY <1>b, <2>1, EventIds DEF First, OnceInv, Alone
  <2>3. FirstFrames'
    BY <1>6, <2>1, <2>2, OnceOthers DEF Marks, FirstFrames, First
  <2>4. Alone'
    BY <1>6, <2>1, AloneStep DEF Marks
  <2>5. \A f \in Events : log'[IdOf[f]].event = log[IdOf[f]].event
    BY <1>6, <2>1, EventIds DEF Marks
  <2>6. AppliedInv'
    BY <1>6, <2>5 DEF Marks, OnceInv, AppliedInv
  <2> QED
    BY <2>3, <2>4, <2>6 DEF OnceInv
<1> QED
  BY <1>1, <1>2, <1>3, <1>4, <1>5, <1>6, EventSteps DEF EventStep

(***************************************************************************)
(* One order, one entitlement: every entitlement that is not pending has   *)
(* its purchase, whose handler has passed the statement that inserts it.   *)
(***************************************************************************)

Ordered ==
    {e \in Events :
        /\ TypeOf[e] = "created"
        /\ log[IdOf[e]].event = e
        /\ ~ \E r \in Requests : req[r].event = e /\ req[r].pc \in Looking}

OrderedInv == retried = {} => Cardinality(Bought) <= Cardinality(Ordered)

\* r inserts the entitlement of its purchase.
Buys(r) ==
    /\ req[r].pc = "h_ent" /\ req'[r].pc = "h_findkey"
    /\ OthersStay(r)
    /\ UNCHANGED <<log, retried>>
    /\ Bought' = Bought \union {Len(ents) + 1}

LEMMA BoughtStep ==
  ASSUME TypeInv, PathInv, [Next]_vars
  PROVE  Bought' = Bought \/ \E r \in Requests : Buys(r)
<1> USE DEF rows, rest, mapped, history, writes
<1>a. /\ ents \in Seq(Entitlement) /\ Len(ents) \in Nat /\ DOMAIN ents = 1 .. Len(ents)
      /\ sub \in 0 .. Len(ents)
  BY TypeParts, EntsLength DEF TablesTyped
<1>b. ASSUME UNCHANGED ents PROVE Bought' = Bought
  BY <1>b DEF Bought
<1>1. ASSUME NEW r \in Requests, Webhook(r) PROVE Bought' = Bought
  BY <1>1, <1>b DEF Webhook, Deliver, Retry, InsertEvent, MarkProcessed, MarkFailed
<1>2. ASSUME NEW r \in Requests, Lookup(r) PROVE Bought' = Bought
  BY <1>2, <1>b, LookupMoves
<1>3. ASSUME NEW r \in Requests, Insert(r) PROVE Bought' = Bought \/ Buys(r)
  <2>1. ASSUME NEW from, NEW step \in Pc, NEW status \in {"active", "pending"},
               Inserts(r, from, step, status)
        PROVE  /\ DOMAIN ents' = 1 .. Len(ents) + 1
               /\ ents'[Len(ents) + 1].status = status
               /\ \A i \in 1 .. Len(ents) : ents'[i] = ents[i]
    <3>1. /\ ents' \in Seq(Entitlement) /\ Len(ents') = Len(ents) + 1
          /\ ents'[Len(ents) + 1] = [status |-> status, plan |-> req[r].plan]
          /\ \A i \in 1 .. Len(ents) : ents'[i] = ents[i]
      BY <2>1, InsertEffect
    <3>2. DOMAIN ents' = 1 .. Len(ents')
      BY <3>1, LenProperties
    <3> QED
      BY <3>1, <3>2
  <2>2. {"h_findkey", "i_key"} \subseteq Pc
    BY DEF Pc
  <2>3. CASE Inserts(r, "h_ent", "h_findkey", "active")
    <3>1. /\ DOMAIN ents' = 1 .. Len(ents) + 1
          /\ ents'[Len(ents) + 1].status = "active"
          /\ \A i \in 1 .. Len(ents) : ents'[i] = ents[i]
      BY <2>1, <2>2, <2>3
    <3>2. Bought' = Bought \union {Len(ents) + 1}
      BY <1>a, <3>1 DEF Bought
    <3>3. Moved(r, FrameWith("h_findkey", req[r].event, req[r].retrying, req[r].plan, Len(ents) + 1))
      BY <2>2, <2>3, InsertEffect
    <3>4. Went(r, "h_findkey", req[r].event, req[r].retrying, req[r].plan, Len(ents) + 1)
      BY <3>3, MovedWent
    <3> QED
      BY <2>3, <3>2, <3>4 DEF Buys, Went, OthersStay, Inserts, At
  <2>4. CASE Inserts(r, "i_ent", "i_key", "pending")
    <3>1. /\ DOMAIN ents' = 1 .. Len(ents) + 1
          /\ ents'[Len(ents) + 1].status = "pending"
          /\ \A i \in 1 .. Len(ents) : ents'[i] = ents[i]
      BY <2>1, <2>2, <2>4
    <3> QED
      BY <1>a, <3>1 DEF Bought
  <2> QED
    BY <1>3, <2>3, <2>4 DEF Insert
<1>4. ASSUME NEW r \in Requests, Creation(r) PROVE Bought' = Bought
  BY <1>4, <1>b DEF Creation, CreatedFindLicense, CreatedInsertLicense, CreatedInsertSubscription
<1>5. ASSUME NEW r \in Requests, UpdateApply(r) PROVE Bought' = Bought
  <2>1. sub \in 1 .. Len(ents) /\ ents[sub].status # "pending"
    BY <1>a, <1>5 DEF UpdateApply, At, PathInv, PathFrame
  <2>2. /\ ents' \in Seq(Entitlement) /\ Len(ents') = Len(ents)
        /\ ents'[sub].status # "pending"
        /\ \A i \in (1 .. Len(ents)) \ {sub} : ents'[i] = ents[i]
    BY <1>5, <2>1, ApplyEffect
  <2>3. DOMAIN ents' = 1 .. Len(ents)
    BY <2>2, LenProperties
  <2> QED
    BY <1>a, <2>1, <2>2, <2>3 DEF Bought
<1>6. ASSUME NEW r \in Requests, Prepares(r) PROVE Bought' = Bought
  BY <1>6, <1>b, PreparesEffect
<1>7. ASSUME NEW r \in Requests, Import(r) \/ Crash(r) PROVE Bought' = Bought
  BY <1>7, <1>b DEF Import, ImportFindLicense, ImportActivate, ImportRefused, ImportInsertLicense,
                    Crash
<1>8. ASSUME NEW i \in DOMAIN Mappings, EditMapping(i) PROVE Bought' = Bought
  BY <1>8, <1>b DEF EditMapping
<1>9. CASE UNCHANGED vars
  BY <1>9, <1>b DEF vars
<1> QED
  BY <1>1, <1>2, <1>3, <1>4, <1>5, <1>6, <1>7, <1>8, <1>9, NextGroups DEF Update

LEMMA FiniteTables ==
  ASSUME TypeInv
  PROVE  /\ IsFiniteSet(Bought) /\ Cardinality(Bought) \in Nat
         /\ IsFiniteSet(Ordered) /\ Cardinality(Ordered) \in Nat
<1>1. Bought \subseteq 1 .. Len(ents)
  BY TypeParts, EntsLength DEF Bought
<1>2. IsFiniteSet(1 .. Len(ents))
  BY TypeParts, FS_Interval
<1>3. IsFiniteSet(Bought) /\ IsFiniteSet(Ordered)
  BY <1>1, <1>2, RequestsAssumption, FS_Subset DEF Ordered
<1> QED
  BY <1>3, FS_CardinalityType

\* A purchase that has its entitlement keeps it as long as nobody retries.
LEMMA OrderedGrows ==
  ASSUME TypeInv, [Next]_vars, retried' = {}
  PROVE  Ordered \subseteq Ordered'
<1>a. LogTyped /\ LogGrows /\ \A r \in Requests : GoodFrame(req[r], Len(ents), log)
  BY TypeParts, TypeStep
<1> SUFFICES ASSUME NEW e \in Ordered, NEW r \in Requests, req'[r].event = e, req'[r].pc \in Looking
             PROVE  FALSE
  BY <1>a, EventsAssumption, EventIds DEF Ordered, LogGrows
<1>1. /\ e \in Events /\ log[IdOf[e]].event = e /\ e # NoEvent /\ IdOf[e] \in Ids
      /\ \A q \in Requests : req[q].event = e => req[q].pc \notin Looking
  BY EventsAssumption, EventIds DEF Ordered
<1>2. req'[r] # req[r]
  BY <1>1
<1>3. Looking \subseteq Handling
  BY DEF Looking, Handling
<1>4. CASE Stays
  BY <1>2, <1>4 DEF Stays
<1>5. ASSUME NEW q \in Requests, Leaves(q) \/ \E status \in {"processed", "failed"} : Marks(q, status)
      PROVE  FALSE
  BY <1>2, <1>3, <1>5 DEF Leaves, Marks, OthersStay
<1>6. ASSUME NEW q \in Requests, Continues(q) PROVE FALSE
  BY <1>1, <1>2, <1>6 DEF Continues, OthersStay
<1>7. ASSUME NEW q \in Requests, Stores(q) PROVE FALSE
  <2>1. q = r /\ req[q].event = e
    BY <1>2, <1>7 DEF Stores, OthersStay
  <2> QED
    BY <1>a, <1>1, <1>7, <2>1 DEF Stores, LogTyped, LogRows
<1>8. ASSUME NEW q \in Requests, Retries(q) PROVE FALSE
  BY <1>8 DEF Retries
<1> QED
  BY <1>4, <1>5, <1>6, <1>7, <1>8, EventSteps DEF EventStep

LEMMA OrderedInit == Init => OrderedInv
<1> SUFFICES ASSUME Init PROVE OrderedInv
  OBVIOUS
<1>1. Bought = {}
  BY DEF Init, Bought
<1>2. Cardinality(Bought) = 0 /\ Cardinality(Ordered) \in Nat
  BY <1>1, FS_EmptySet, TypeInit, FiniteTables
<1> QED
  BY <1>2 DEF OrderedInv

LEMMA OrderedStep ==
  ASSUME TypeInv, PathInv, OnceInv, OrderedInv, [Next]_vars
  PROVE  OrderedInv'
<1> SUFFICES ASSUME retried' = {} PROVE (Cardinality(Bought) <= Cardinality(Ordered))'
  BY DEF OrderedInv
<1>1. retried = {} /\ Cardinality(Bought) <= Cardinality(Ordered)
  BY TablesGrowStep DEF TablesGrow, OrderedInv
<1>2. Ordered \subseteq Ordered'
  BY OrderedGrows
<1>3. /\ IsFiniteSet(Bought) /\ Cardinality(Bought) \in Nat
      /\ IsFiniteSet(Ordered) /\ Cardinality(Ordered) \in Nat
  BY FiniteTables
<1>4. IsFiniteSet(Ordered') /\ Cardinality(Ordered') \in Nat
  <2>1. TypeInv'
    BY TypeStep
  <2>2. Ordered' \subseteq Events
    BY DEF Ordered
  <2> QED
    BY <2>2, RequestsAssumption, FS_Subset, FS_CardinalityType
<1>5. Cardinality(Ordered) <= Cardinality(Ordered')
  BY <1>2, <1>4, FS_Subset
<1>6. CASE Bought' = Bought
  BY <1>1, <1>3, <1>4, <1>5, <1>6
<1>7. ASSUME NEW r \in Requests, Buys(r)
      PROVE  (Cardinality(Bought) <= Cardinality(Ordered))'
  <2> DEFINE e == req[r].event
  <2>1. First(r) /\ e \in Events /\ log[IdOf[e]].event = e /\ TypeOf[e] = "created"
    BY <1>1, <1>7, TypeParts
       DEF Buys, First, InHandler, Handling, GoodFrame, PathInv, PathFrame, Creating
  <2>2. e \notin Ordered
    BY <1>7, <2>1 DEF Buys, Ordered, Looking
  <2>3. ASSUME NEW q \in Requests, req'[q].event = e, req'[q].pc \in Looking PROVE FALSE
    <3>1. q # r
      BY <1>7, <2>3 DEF Buys, Looking
    <3>2. InHandler(q) /\ req[q].event = e
      BY <1>7, <2>3, <3>1 DEF Buys, OthersStay, InHandler, Looking, Handling
    <3> QED
      BY <2>1, <3>1, <3>2 DEF OnceInv, Alone
  <2>4. e \in Ordered'
    BY <1>7, <2>1, <2>3 DEF Ordered, Buys
  <2>5. /\ IsFiniteSet(Ordered \union {e})
        /\ Cardinality(Ordered \union {e}) = Cardinality(Ordered) + 1
    BY <1>3, <2>2, FS_AddElement
  <2>6. Cardinality(Ordered \union {e}) <= Cardinality(Ordered')
    BY <1>2, <1>4, <2>4, FS_Subset
  <2>7. /\ Cardinality(Bought') = Cardinality(Bought) \/ Cardinality(Bought') = Cardinality(Bought) + 1
    BY <1>3, <1>7, FS_AddElement DEF Buys
  <2> QED
    BY <1>1, <1>3, <1>4, <2>5, <2>6, <2>7
<1> QED
  BY <1>6, <1>7, BoughtStep

-----------------------------------------------------------------------------
HandledInv == TypeInv /\ PathInv /\ OnceInv /\ OrderedInv

LEMMA HandledInit == Init => HandledInv
BY TypeInit, PathInit, OnceInit, OrderedInit DEF HandledInv

LEMMA HandledStep == HandledInv /\ [Next]_vars => HandledInv'
BY TypeStep, PathStep, OnceStep, OrderedStep DEF HandledInv

\* However deliveries of an event repeat, overlap, fail or die, it changes the subscription at
\* most once, and there are never more paid entitlements than purchases, for any number of
\* events and requests: the unique index decides which delivery handles the event.
THEOREM AppliedOnceTheorem == Spec => []AppliedOnce
<1>1. HandledInv => AppliedOnce
  <2> SUFFICES ASSUME HandledInv PROVE AppliedOnce
    OBVIOUS
  <2>1. \A e \in Events \ retried : applied[e] <= 1
    BY DEF HandledInv, OnceInv, AppliedInv
  <2> DEFINE Purchases == {e \in Events : TypeOf[e] = "created"}
  <2>2. ASSUME retried = {} PROVE Cardinality(Bought) <= Cardinality(Purchases)
    <3>1. Ordered \subseteq Purchases /\ IsFiniteSet(Purchases)
      BY RequestsAssumption, FS_Subset DEF Ordered
    <3>2. Cardinality(Ordered) <= Cardinality(Purchases) /\ Cardinality(Purchases) \in Nat
      BY <3>1, FS_Subset, FS_CardinalityType
    <3>3. /\ Cardinality(Bought) \in Nat /\ Cardinality(Ordered) \in Nat
          /\ Cardinality(Bought) <= Cardinality(Ordered)
      BY <2>2, FiniteTables DEF HandledInv, OrderedInv
    <3> QED
      BY <3>2, <3>3
  <2> QED
    BY <2>1, <2>2 DEF AppliedOnce
<1> QED
  BY HandledInit, HandledStep, <1>1, PTL DEF Spec

(***************************************************************************)
(* Part 4: marked rows.  The row of an event is found by its external id.  *)
(* When two events share one (the finding of the run shared_id), a row     *)
(* that is marked says nothing of the other event: the theorems are for a  *)
(* provider that gives every event an id of its own.                       *)
(***************************************************************************)

DistinctIds == \A e, f \in Events : IdOf[e] = IdOf[f] => e = f

\* A refund whose row is marked was handled before its subscription existed, or stands
\* unless it was written over.
RefundInv ==
    \A id \in Ids :
        /\ log[id].status = "processed" /\ TypeOf[log[id].event] = "refunded"
        /\ log[id].event \notin early
        => Kept

LEMMA RefundInit == Init => RefundInv
BY DEF Init, RefundInv

LEMMA RefundStep ==
  ASSUME TypeInv, PathInv, RefundInv, [Next]_vars
  PROVE  RefundInv'
<1>a. /\ TablesGrow /\ sub \in 0 .. Len(ents) /\ LogTyped
      /\ \A r \in Requests : GoodFrame(req[r], Len(ents), log)
  BY TablesGrowStep, TypeParts DEF TablesTyped
<1>2. ASSUME NEW id \in Ids, log'[id] = log[id]
      PROVE  /\ log'[id].status = "processed" /\ TypeOf[log'[id].event] = "refunded"
             /\ log'[id].event \notin early'
             => Kept'
  BY <1>a, <1>2 DEF RefundInv, TablesGrow
<1>3. ASSUME UNCHANGED log PROVE RefundInv'
  BY <1>2, <1>3 DEF RefundInv
<1>4. ASSUME NEW r \in Requests, Stores(r) PROVE RefundInv'
  <2>1. log'[IdOf[req[r].event]].status = "pending"
    BY <1>4 DEF Stores
  <2> QED
    BY <1>2, <1>4, <2>1 DEF Stores, RefundInv
<1>5. ASSUME NEW r \in Requests, NEW status \in {"processed", "failed"}, Marks(r, status)
      PROVE  RefundInv'
  <2> DEFINE e == req[r].event
  <2>1. log'[IdOf[e]].status = status /\ log'[IdOf[e]].event = e
    BY <1>5 DEF Marks
  <2>2. ASSUME status = "processed", TypeOf[e] = "refunded", e \notin early'
        PROVE  Kept'
    BY <1>a, <1>5, <2>2 DEF Marks, PathInv, PathFrame, TablesGrow
  <2> QED
    BY <1>2, <1>5, <2>1, <2>2 DEF Marks, RefundInv
<1> QED
  BY <1>3, <1>4, <1>5, EventSteps DEF EventStep, Stays, Leaves, Continues, Retries

-----------------------------------------------------------------------------
(* Who writes over a revocation.  A renewal that is about to write has     *)
(* found the entitlement not revoked; a refund that is written in between  *)
(* notes it.                                                               *)

About(r) == At(r, "h_apply") /\ TypeOf[req[r].event] = "renewed"

ReviveInv ==
    /\ \A r \in Requests : About(r) =>
         ents[sub].status # "revoked" \/ req[r].event \in overtaken
    /\ \A e \in reviving :
         TypeOf[e] = "payment_failed" \/ (TypeOf[e] = "renewed" /\ e \in overtaken)

\* What every step does but the one that writes the entitlement.
Quiet ==
    /\ UNCHANGED writes
    /\ sub # 0 => sub' = sub /\ ents'[sub] = ents[sub]
    /\ \A r \in Requests : About(r)' =>
         \/ About(r) /\ req'[r].event = req[r].event
         \/ sub # 0 /\ ents[sub].status # "revoked"

LEMMA QuietMoves ==
  ASSUME TypeInv, NEW r \in Requests, OthersStay(r), UNCHANGED writes,
         sub # 0 => sub' = sub /\ ents'[sub] = ents[sub],
         About(r)' => sub # 0 /\ ents[sub].status # "revoked"
  PROVE  Quiet
BY DEF Quiet, OthersStay, About, At

LEMMA QuietStep ==
  ASSUME TypeInv, PathInv, [Next]_vars
  PROVE  Quiet \/ \E r \in Requests : UpdateApply(r)
<1> USE DEF rows, rest, mapped, history, writes
<1>a. /\ ents \in Seq(Entitlement) /\ Len(ents) \in Nat /\ sub \in 0 .. Len(ents)
      /\ TablesGrow /\ LogTyped
      /\ \A r \in Requests : PathFrame(req[r], ents, sub, early, Kept)
      /\ \A r \in Requests : GoodFrame(req[r], Len(ents), log)
  BY TablesGrowStep, TypeParts DEF TablesTyped, PathInv
<1>b. sub # 0 => sub' = sub
  BY <1>a DEF TablesGrow
<1>c. ASSUME NEW r \in Requests, NEW step, NEW e, NEW retrying, NEW plan, NEW n,
             Went(r, step, e, retrying, plan, n), step # "h_apply",
             UNCHANGED writes, sub # 0 => ents'[sub] = ents[sub]
      PROVE  Quiet
  BY <1>b, <1>c, QuietMoves DEF Went, OthersStay, About, At
<1>d. ASSUME UNCHANGED <<req, writes, ents>> PROVE Quiet
  BY <1>b, <1>d DEF Quiet, About, At
<1>1. ASSUME NEW r \in Requests, Webhook(r) PROVE Quiet
  <2>1. UNCHANGED <<ents, writes>>
    BY <1>1 DEF Webhook, Deliver, Retry, InsertEvent, MarkProcessed, MarkFailed
  <2>2. ASSUME NEW e \in Events PROVE Handler(e) \in Pc /\ Handler(e) # "h_apply"
    BY DEF Handler, Pc
  <2>3. ASSUME NEW e \in Events, Deliver(r, e) PROVE Quiet
    <3>1. CASE UNCHANGED req
      BY <1>d, <2>1, <3>1
    <3>2. CASE Begin(r, "w_insert", e, FALSE)
      <4>1. Went(r, "w_insert", e, FALSE, DefaultPlan, 0)
        BY <3>2, BeginWent DEF Pc
      <4> QED
        BY <1>c, <2>1, <4>1
    <3> QED
      BY <2>3, <3>1, <3>2 DEF Deliver
  <2>4. ASSUME NEW id \in Ids, Retry(r, id) PROVE Quiet
    <3> DEFINE e == log[id].event
    <3>1. e \in Events
      BY <1>a, <2>4 DEF Retry, LogTyped, LogRows
    <3>2. Went(r, Handler(e), e, TRUE, DefaultPlan, 0)
      BY <2>2, <2>4, <3>1, BeginWent DEF Retry
    <3> QED
      BY <1>c, <2>1, <2>2, <3>1, <3>2
  <2>5. ASSUME InsertEvent(r) PROVE Quiet
    <3> DEFINE e == req[r].event
    <3>1. e \in Events
      BY <1>a, <2>5 DEF InsertEvent, At, GoodFrame
    <3>2. CASE Goto(r, Handler(e))
      <4>1. Went(r, Handler(e), e, req[r].retrying, req[r].plan, req[r].ent)
        BY <2>2, <3>1, <3>2, GotoWent
      <4> QED
        BY <1>c, <2>1, <2>2, <3>1, <4>1
    <3>3. CASE Finish(r)
      BY <1>c, <2>1, <3>3, FinishWent
    <3> QED
      BY <2>5, <3>2, <3>3 DEF InsertEvent
  <2>6. ASSUME MarkProcessed(r) \/ MarkFailed(r) PROVE Quiet
    BY <1>c, <2>1, <2>6, FinishWent DEF MarkProcessed, MarkFailed
  <2> QED
    BY <1>1, <2>3, <2>4, <2>5, <2>6 DEF Webhook
<1>2. ASSUME NEW r \in Requests, Lookup(r) PROVE Quiet
  <2>1. UNCHANGED <<ents, writes>>
    BY <1>2, LookupMoves
  <2>2. PICK step \in Pc, plan \in Plans :
          /\ Moved(r, FrameWith(step, req[r].event, req[r].retrying, plan, req[r].ent))
          /\ \/ req[r].pc \in {"h_product", "h_any"} /\ step \in {"h_any", "h_ent", "h_failed"}
             \/ req[r].pc \in {"i_product", "i_any"} /\ step \in {"i_any", "i_ent"}
    BY <1>2, LookupMoves
  <2>3. Went(r, step, req[r].event, req[r].retrying, plan, req[r].ent)
    BY <2>2, MovedWent
  <2> QED
    BY <1>c, <2>1, <2>2, <2>3
<1>3. ASSUME NEW r \in Requests, Insert(r) PROVE Quiet
  <2>1. ASSUME NEW from, NEW step \in Pc, NEW status \in {"active", "pending"},
               Inserts(r, from, step, status), step # "h_apply"
        PROVE  Quiet
    <3>1. /\ \A i \in 1 .. Len(ents) : ents'[i] = ents[i]
          /\ Moved(r, FrameWith(step, req[r].event, req[r].retrying, req[r].plan, Len(ents) + 1))
      BY <2>1, InsertEffect
    <3>2. Went(r, step, req[r].event, req[r].retrying, req[r].plan, Len(ents) + 1)
      BY <3>1, MovedWent
    <3>3. UNCHANGED writes /\ (sub # 0 => ents'[sub] = ents[sub])
      BY <1>a, <2>1, <3>1 DEF Inserts
    <3> QED
      BY <1>c, <2>1, <3>2, <3>3
  <2>2. {"h_findkey", "i_key"} \subseteq Pc
    BY DEF Pc
  <2> QED
    BY <1>3, <2>1, <2>2 DEF Insert
<1>4. ASSUME NEW r \in Requests, Creation(r) PROVE Quiet
  <2>1. UNCHANGED <<ents, writes>>
    BY <1>4 DEF Creation, CreatedFindLicense, CreatedInsertLicense, CreatedInsertSubscription
  <2>2. \E step \in {"h_key", "h_sub", "h_done", "h_failed"} : Goto(r, step)
    BY <1>4 DEF Creation, CreatedFindLicense, CreatedInsertLicense, CreatedInsertSubscription
  <2>3. {"h_key", "h_sub", "h_done", "h_failed"} \subseteq Pc \ {"h_apply"}
    BY DEF Pc
  <2> QED
    BY <1>c, <2>1, <2>2, <2>3, GotoWent
<1>5. ASSUME NEW r \in Requests, Prepares(r) PROVE Quiet
  <2>1. UNCHANGED <<ents, writes>>
    BY <1>5, PreparesEffect
  <2>2. PICK step \in {"h_done", "h_row", "h_check", "h_apply"} :
          /\ Goto(r, step)
          /\ \/ req[r].pc = "h_find" /\ step \in {"h_done", "h_row"}
             \/ req[r].pc = "h_row" /\ step = AfterRow(req[r].event)
             \/ /\ req[r].pc = "h_check" /\ step \in {"h_done", "h_apply"}
                /\ step = "h_apply" => ents[sub].status # "revoked"
    BY <1>5, PreparesEffect
  <2>3. step \in Pc
    BY DEF Pc
  <2>4. Went(r, step, req[r].event, req[r].retrying, req[r].plan, req[r].ent)
    BY <2>2, <2>3, GotoWent
  <2>5. About(r)' => sub # 0 /\ ents[sub].status # "revoked"
    <3> SUFFICES ASSUME step = "h_apply", TypeOf[req[r].event] = "renewed"
                 PROVE  sub # 0 /\ ents[sub].status # "revoked"
      BY <2>4 DEF About, At, Went
    <3>1. AfterRow(req[r].event) = "h_check"
      BY DEF AfterRow
    <3> QED
      BY <1>a, <2>2, <3>1 DEF PathFrame
  <2> QED
    BY <1>b, <2>1, <2>4, <2>5, QuietMoves DEF Went, OthersStay
<1>6. ASSUME NEW r \in Requests, Import(r) PROVE Quiet
  <2>1. UNCHANGED <<ents, writes>>
    BY <1>6 DEF Import, ImportFindLicense, ImportActivate, ImportRefused, ImportInsertLicense
  <2>2. CASE Goto(r, "i_product")
    <3>1. Went(r, "i_product", req[r].event, req[r].retrying, req[r].plan, req[r].ent)
      BY <2>2, GotoWent DEF Pc
    <3> QED
      BY <1>c, <2>1, <3>1
  <2>3. CASE Begin(r, "i_adapter", NoEvent, FALSE)
    <3>1. Went(r, "i_adapter", NoEvent, FALSE, DefaultPlan, 0)
      BY <2>3, BeginWent DEF Pc
    <3> QED
      BY <1>c, <2>1, <3>1
  <2>4. CASE Finish(r)
    BY <1>c, <2>1, <2>4, FinishWent
  <2> QED
    BY <1>6, <2>2, <2>3, <2>4
       DEF Import, ImportFindLicense, ImportActivate, ImportRefused, ImportInsertLicense
<1>7. ASSUME NEW r \in Requests, Crash(r) PROVE Quiet
  BY <1>7, <1>c, FinishWent DEF Crash
<1>8. ASSUME NEW i \in DOMAIN Mappings, EditMapping(i) PROVE Quiet
  BY <1>8, <1>d DEF EditMapping
<1>9. CASE UNCHANGED vars
  BY <1>9, <1>d DEF vars
<1> QED
  BY <1>1, <1>2, <1>3, <1>4, <1>5, <1>6, <1>7, <1>8, <1>9, NextGroups DEF Update

LEMMA ReviveStep ==
  ASSUME TypeInv, PathInv, ReviveInv, [Next]_vars
  PROVE  ReviveInv'
<1>1. CASE Quiet
  <2>1. \A r \in Requests : About(r) => sub # 0
    BY DEF About, At, PathInv, PathFrame
  <2> QED
    BY <1>1, <2>1 DEF Quiet, ReviveInv, writes
<1>2. ASSUME NEW r \in Requests, UpdateApply(r) PROVE ReviveInv'
  <2> DEFINE e == req[r].event
  <2>1. /\ sub \in 1 .. Len(ents) /\ UNCHANGED sub /\ At(r, "h_apply")
        /\ TypeOf[e] \in {"renewed", "payment_failed", "refunded"}
    BY <1>2, TypeParts DEF UpdateApply, At, PathInv, PathFrame, TablesTyped
  <2>2. ents'[sub].status = StatusAfter(e)
    BY <1>2, <2>1, ApplyEffect
  <2>3. Went(r, "h_done", e, req[r].retrying, req[r].plan, req[r].ent)
    BY <1>2, GotoWent DEF UpdateApply, Pc
  <2>4. \A q \in Requests : About(q)' => q \in Requests \ {r} /\ About(q) /\ req'[q] = req[q]
    BY <2>3 DEF About, At, Went
  <2>5. CASE StatusAfter(e) = "revoked"
    <3> DEFINE W == Writing(r)
    <3>a. W = Writing(r)
      OBVIOUS
    <3> HIDE DEF W
    <3>b. /\ overtaken' = IF StatusAfter(req[r].event) = "revoked" THEN W ELSE overtaken
          /\ reviving' = CASE StatusAfter(req[r].event) = "revoked" -> {}
                           [] StatusAfter(req[r].event) # "revoked" /\ ents[sub].status = "revoked"
                                -> reviving \union {e}
                           [] OTHER -> reviving
      BY <1>2, <3>a, Zenon DEF UpdateApply
    <3>1. overtaken' = Writing(r)
      BY <2>5, <3>a, <3>b
    <3>2. reviving' = {}
      BY <2>5, <3>b
    <3>3. \A q \in Requests : About(q)' => req'[q].event \in overtaken'
      BY <2>4, <3>1 DEF About, Writing
    <3> QED
      BY <3>2, <3>3 DEF ReviveInv
  <2>6. CASE StatusAfter(e) # "revoked"
    <3>1. /\ UNCHANGED overtaken
          /\ \A f \in reviving' : f \in reviving \/ (f = e /\ ents[sub].status = "revoked")
      BY <1>2, <2>6 DEF UpdateApply
    <3>2. TypeOf[e] \in {"renewed", "payment_failed"}
      BY <2>1, <2>6, StatusAfterType
    <3>3. TypeOf[e] = "renewed" /\ ents[sub].status = "revoked" => e \in overtaken
      BY <2>1 DEF ReviveInv, About
    <3>4. ents'[sub'].status # "revoked"
      BY <2>1, <2>2, <2>6
    <3> QED
      BY <3>1, <3>2, <3>3, <3>4 DEF ReviveInv
  <2> QED
    BY <2>5, <2>6
<1> QED
  BY <1>1, <1>2, QuietStep

\* For any number of events and requests, in whatever order they come: a refund that is marked
\* processed found its subscription unless it came before it, and the entitlement it revoked
\* stays so until a payment_failed or a renewal that the refund overtook writes over it; every
\* other renewal finds it revoked and stops.
THEOREM RefundLostOnlyEarlyTheorem ==
  ASSUME DistinctIds
  PROVE  Spec => []RefundLostOnlyEarly
<1> DEFINE Inv == TypeInv /\ PathInv /\ RefundInv /\ ReviveInv
<1>0. Init => ReviveInv
  BY DEF Init, Idle, ReviveInv, About, At
<1>1. Init => Inv
  BY <1>0, TypeInit, PathInit, RefundInit
<1>2. Inv /\ [Next]_vars => Inv'
  BY TypeStep, PathStep, RefundStep, ReviveStep
<1>3. Inv => RefundLostOnlyEarly
  <2> SUFFICES ASSUME Inv, NEW e \in Events \ early,
                      TypeOf[e] = "refunded", log[IdOf[e]].status = "processed"
               PROVE  Kept
    BY DEF RefundLostOnlyEarly, Kept, ReviveInv
  <2>1. IdOf[e] \in Ids /\ log[IdOf[e]].event \in Events /\ IdOf[log[IdOf[e]].event] = IdOf[e]
    BY EventIds, TypeParts DEF LogTyped, LogRows
  <2>2. log[IdOf[e]].event = e
    BY <2>1 DEF DistinctIds
  <2> QED
    BY <2>1, <2>2 DEF RefundInv
<1> QED
  BY <1>1, <1>2, <1>3, PTL DEF Spec

\* AckedWasHandled, field by field.
AckedInv ==
    \A e \in acked \ retried :
        log[IdOf[e]].status = "processed" /\ log[IdOf[e]].event = e

LEMMA AckedStep ==
  ASSUME DistinctIds, TypeInv, OnceInv, AckedInv, [Next]_vars
  PROVE  AckedInv'
<1>a. /\ LogTyped /\ acked \subseteq Events /\ retried \subseteq retried' /\ TypeInv'
      /\ \A r \in Requests : GoodFrame(req[r], Len(ents), log)
  BY TypeParts, TablesGrowStep, TypeStep DEF TablesGrow, TablesTyped
<1>1. ASSUME acked' = acked, UNCHANGED log PROVE AckedInv'
  BY <1>a, <1>1 DEF AckedInv
<1>2. CASE Stays
  <2>1. ASSUME NEW e \in acked', log[IdOf[e]].status = "processed"
        PROVE  log[IdOf[e]].event = e
    <3>1. e \in Events /\ IdOf[e] \in Ids
      BY <1>a, EventIds DEF TypeInv, TypeOK
    <3> QED
      BY <1>a, <2>1, <3>1 DEF LogTyped, LogRows, DistinctIds
  <2> QED
    BY <1>a, <1>2, <2>1 DEF Stays, AckedInv
<1>3. ASSUME NEW r \in Requests, Stores(r) PROVE AckedInv'
  <2> DEFINE d == req[r].event
  <2>1. ASSUME NEW e \in acked \ retried PROVE IdOf[e] \in Ids \ {IdOf[d]}
    BY <1>a, <1>3, <2>1, EventIds DEF Stores, AckedInv
  <2> QED
    BY <1>a, <1>3, <2>1 DEF Stores, AckedInv
<1>4. ASSUME NEW r \in Requests, NEW status \in {"processed", "failed"}, Marks(r, status)
      PROVE  AckedInv'
  <2> DEFINE d == req[r].event
  <2>1. InHandler(r) /\ d \in Events
    BY <1>a, <1>4 DEF Marks, InHandler, Handling, GoodFrame
  <2>2. ASSUME NEW e \in acked \ retried PROVE IdOf[e] \in Ids \ {IdOf[d]}
    <3>1. e \in Events /\ log[IdOf[e]].status = "processed"
      BY <1>a DEF AckedInv
    <3>2. e # d
      BY <2>1, <3>1 DEF OnceInv, FirstFrames, First
    <3> QED
      BY <2>1, <3>1, <3>2, EventIds DEF DistinctIds
  <2>3. \A e \in acked \ retried : log'[IdOf[e]].status = "processed" /\ log'[IdOf[e]].event = e
    BY <1>4, <2>2 DEF Marks, AckedInv
  <2>4. d \in acked' \ acked => log'[IdOf[d]].status = "processed" /\ log'[IdOf[d]].event = d
    BY <1>4 DEF Marks
  <2> QED
    BY <1>a, <1>4, <2>3, <2>4 DEF Marks, AckedInv
<1> QED
  BY <1>1, <1>2, <1>3, <1>4, EventSteps DEF EventStep, Leaves, Continues, Retries

\* The provider is told 200 for no event that has not been handled: a second delivery that
\* overlaps the first, finds a pending row or follows a crash is refused, and is sent again.
THEOREM AckedWasHandledTheorem ==
  ASSUME DistinctIds
  PROVE  Spec => []AckedWasHandled
<1>1. Init => AckedInv
  BY DEF Init, AckedInv
<1>2. TypeInv /\ OnceInv /\ AckedInv /\ [Next]_vars => AckedInv'
  BY AckedStep
<1>3. TypeInv /\ AckedInv => AckedWasHandled
  <2> SUFFICES ASSUME TypeInv, AckedInv, NEW e \in acked, e \notin retried
               PROVE  log[IdOf[e]] = [status |-> "processed", event |-> e]
    BY Zenon DEF AckedWasHandled
  <2>1. log[IdOf[e]] \in Rows
    BY TypeParts, EventIds DEF LogTyped, TablesTyped
  <2>2. log[IdOf[e]].status = "processed" /\ log[IdOf[e]].event = e
    BY DEF AckedInv
  <2> QED
    BY <2>1, <2>2 DEF Rows
<1> QED
  BY TypeInit, OnceInit, TypeStep, OnceStep, <1>1, <1>2, <1>3, PTL DEF Spec

(***************************************************************************)
(* Part 5: one plan and one entitlement.  As long as nobody edits the      *)
(* mappings, the two ways of looking the plan up come to the same one.     *)
(***************************************************************************)

\* The plan that both ways find.
Choice ==
    IF OfProduct # {} THEN FirstPlan(OfProduct)
    ELSE IF active # {} THEN FirstPlan(active) ELSE DefaultPlan

PlanFrame(f) ==
    /\ f.pc \in {"h_any", "i_any"} => OfProduct = {}
    /\ f.pc \in {"h_ent", "i_ent"} => f.plan = Choice
    /\ f.pc \in {"i_adapter", "i_product", "i_any"} => f.plan = DefaultPlan

OnePlan ==
    /\ \A i \in 1 .. Len(ents) : ents[i].plan = Choice
    /\ \A r \in Requests : PlanFrame(req[r])

PlanInv == edits = 0 => OnePlan

\* The statements at which a frame owes nothing to the mappings.
PlanFree == Pc \ {"h_any", "h_ent", "i_adapter", "i_product", "i_any", "i_ent"}

LEMMA PlanInit == Init => PlanInv
BY DEF Init, Idle, PlanInv, OnePlan, PlanFrame

LEMMA PlanMoved ==
  ASSUME TypeInv, OnePlan, TablesGrow, UNCHANGED active, NEW r \in Requests, OthersStay(r),
         PlanFrame(req'[r]), Len(ents') = Len(ents)
  PROVE  OnePlan'
<1>1. Choice' = Choice /\ OfProduct' = OfProduct /\ Len(ents) \in Nat
  BY TypeParts DEF Choice, OfProduct
<1>2. \A q \in Requests : PlanFrame(req'[q])
  BY DEF OnePlan, OthersStay
<1> QED
  BY <1>1, <1>2 DEF OnePlan, PlanFrame, TablesGrow

LEMMA PlanGoto ==
  ASSUME TypeInv, OnePlan, TablesGrow, UNCHANGED active, NEW r \in Requests,
         NEW step \in PlanFree, Goto(r, step), Len(ents') = Len(ents)
  PROVE  OnePlan'
<1>1. Went(r, step, req[r].event, req[r].retrying, req[r].plan, req[r].ent)
  BY GotoWent DEF PlanFree
<1>2. OthersStay(r) /\ PlanFrame(req'[r])
  BY <1>1 DEF Went, OthersStay, PlanFrame, PlanFree
<1> QED
  BY <1>2, PlanMoved

LEMMA PlanBegin ==
  ASSUME TypeInv, OnePlan, TablesGrow, UNCHANGED active, NEW r \in Requests,
         NEW step \in PlanFree \union {"i_adapter"}, NEW e \in Events \union {NoEvent},
         NEW retrying \in BOOLEAN, Begin(r, step, e, retrying), Len(ents') = Len(ents)
  PROVE  OnePlan'
<1>1. Went(r, step, e, retrying, DefaultPlan, 0)
  BY BeginWent DEF PlanFree, Pc
<1>2. OthersStay(r) /\ PlanFrame(req'[r])
  BY <1>1 DEF Went, OthersStay, PlanFrame, PlanFree
<1> QED
  BY <1>2, PlanMoved

LEMMA PlanFinish ==
  ASSUME TypeInv, OnePlan, TablesGrow, UNCHANGED active, NEW r \in Requests, Finish(r),
         Len(ents') = Len(ents)
  PROVE  OnePlan'
<1>1. OthersStay(r) /\ PlanFrame(req'[r])
  BY FinishWent DEF Went, OthersStay, PlanFrame
<1> QED
  BY <1>1, PlanMoved

LEMMA PlanInsert ==
  ASSUME TypeInv, OnePlan, UNCHANGED active, NEW r \in Requests,
         NEW from \in {"h_ent", "i_ent"}, NEW step \in PlanFree, NEW status \in {"active", "pending"},
         Inserts(r, from, step, status)
  PROVE  OnePlan'
<1>1. /\ Len(ents') = Len(ents) + 1
      /\ ents'[Len(ents) + 1] = [status |-> status, plan |-> req[r].plan]
      /\ \A i \in 1 .. Len(ents) : ents'[i] = ents[i]
      /\ Moved(r, FrameWith(step, req[r].event, req[r].retrying, req[r].plan, Len(ents) + 1))
  BY InsertEffect DEF PlanFree
<1>2. Went(r, step, req[r].event, req[r].retrying, req[r].plan, Len(ents) + 1)
  BY <1>1, MovedWent
<1>3. OthersStay(r) /\ PlanFrame(req'[r])
  BY <1>2 DEF Went, OthersStay, PlanFrame, PlanFree
<1>4. Choice' = Choice /\ OfProduct' = OfProduct /\ Len(ents) \in Nat
  BY TypeParts DEF Choice, OfProduct
<1>5. req[r].plan = Choice
  BY DEF OnePlan, PlanFrame, Inserts, At
<1>6. ents'[Len(ents) + 1].plan = Choice
  BY <1>1, <1>5
<1>7. \A i \in 1 .. Len(ents') : ents'[i].plan = Choice
  BY <1>1, <1>4, <1>6 DEF OnePlan
<1>8. \A q \in Requests : PlanFrame(req'[q])
  BY <1>3 DEF OnePlan, OthersStay
<1> QED
  BY <1>4, <1>7, <1>8 DEF OnePlan, PlanFrame

LEMMA PlanLookup ==
  ASSUME TypeInv, OnePlan, TablesGrow, NEW r \in Requests, Lookup(r)
  PROVE  OnePlan'
<1>1. UNCHANGED <<active, ents>>
  BY LookupMoves DEF rows, mapped
<1>2. PICK step \in Pc, plan \in Plans :
        /\ Moved(r, FrameWith(step, req[r].event, req[r].retrying, plan, req[r].ent))
        /\ \/ step = "h_any" /\ req[r].pc = "h_product" /\ OfProduct = {} /\ plan = req[r].plan
           \/ step = "i_any" /\ req[r].pc = "i_product" /\ OfProduct = {} /\ plan = req[r].plan
           \/ step = "h_failed" /\ plan = req[r].plan
           \/ step \in {"h_ent", "i_ent"} /\ req[r].pc \in {"h_product", "i_product"}
                 /\ OfProduct # {} /\ plan = FirstPlan(OfProduct)
           \/ step \in {"h_ent", "i_ent"} /\ req[r].pc \in {"h_any", "i_any"}
                 /\ active # {} /\ plan = FirstPlan(active)
           \/ step = "i_ent" /\ req[r].pc = "i_any" /\ active = {} /\ plan = req[r].plan
  BY LookupMoves
<1>3. Went(r, step, req[r].event, req[r].retrying, plan, req[r].ent)
  BY <1>2, MovedWent
<1>4. PlanFrame(req[r])
  BY DEF OnePlan
<1>5. OthersStay(r) /\ PlanFrame(req'[r])
  BY <1>2, <1>3, <1>4 DEF Went, OthersStay, PlanFrame, Choice
<1> QED
  BY <1>1, <1>5, PlanMoved

LEMMA PlanStep ==
  ASSUME TypeInv, PathInv, PlanInv, [Next]_vars
  PROVE  PlanInv'
<1> USE DEF rows, rest, mapped, history, writes
<1>a. TablesGrow /\ edits \in Nat /\ Len(ents) \in Nat /\ LogTyped
  BY TablesGrowStep, TypeParts, BoundsAssumption DEF TablesTyped
<1>b. ASSUME UNCHANGED <<req, ents, active>>, OnePlan PROVE OnePlan'
  BY <1>b DEF OnePlan, PlanFrame, Choice, OfProduct
<1>c. {"idle", "w_insert", "h_product", "h_find", "h_findkey", "h_key", "h_sub", "h_row", "h_check", "h_apply",
       "h_done", "h_failed", "i_key"} \subseteq PlanFree
  BY DEF PlanFree, Pc
<1>d. \A e : Handler(e) \in PlanFree
  BY <1>c DEF Handler
<1>1. ASSUME NEW r \in Requests, Webhook(r), OnePlan PROVE OnePlan'
  <2>1. UNCHANGED <<ents, active>>
    BY <1>1 DEF Webhook, Deliver, Retry, InsertEvent, MarkProcessed, MarkFailed
  <2>2. ASSUME NEW e \in Events, Deliver(r, e) PROVE OnePlan'
    BY <1>1, <1>a, <1>b, <1>c, <2>1, <2>2, PlanBegin DEF Deliver
  <2>3. ASSUME NEW id \in Ids, Retry(r, id) PROVE OnePlan'
    <3>1. log[id].event \in Events
      BY <1>a, <2>3 DEF Retry, LogTyped, LogRows
    <3> QED
      BY <1>1, <1>a, <1>d, <2>1, <2>3, <3>1, PlanBegin DEF Retry
  <2>4. ASSUME InsertEvent(r) PROVE OnePlan'
    BY <1>1, <1>a, <1>d, <2>1, <2>4, PlanGoto, PlanFinish DEF InsertEvent
  <2>5. ASSUME MarkProcessed(r) \/ MarkFailed(r) PROVE OnePlan'
    BY <1>1, <1>a, <2>1, <2>5, PlanFinish DEF MarkProcessed, MarkFailed
  <2> QED
    BY <1>1, <2>2, <2>3, <2>4, <2>5 DEF Webhook
<1>2. ASSUME NEW r \in Requests, Insert(r), OnePlan PROVE OnePlan'
  BY <1>2, <1>c, PlanInsert DEF Insert, Inserts
<1>3. ASSUME NEW r \in Requests, Creation(r), OnePlan PROVE OnePlan'
  <2>1. UNCHANGED <<ents, active>>
    BY <1>3 DEF Creation, CreatedFindLicense, CreatedInsertLicense, CreatedInsertSubscription
  <2>2. \E step \in PlanFree : Goto(r, step)
    BY <1>3, <1>c DEF Creation, CreatedFindLicense, CreatedInsertLicense, CreatedInsertSubscription
  <2> QED
    BY <1>3, <1>a, <2>1, <2>2, PlanGoto
<1>4. ASSUME NEW r \in Requests, Update(r), OnePlan PROVE OnePlan'
  <2>1. UNCHANGED active /\ \E step \in PlanFree : Goto(r, step)
    <3>1. CASE Prepares(r)
      BY <1>c, <3>1, PreparesEffect
    <3>2. CASE UpdateApply(r)
      BY <1>c, <3>2 DEF UpdateApply
    <3> QED
      BY <1>4, <3>1, <3>2 DEF Update
  <2>2. Len(ents') = Len(ents)
    <3>1. CASE Prepares(r)
      BY <3>1, PreparesEffect
    <3>2. CASE UpdateApply(r)
      <4>1. sub \in 1 .. Len(ents)
        BY <3>2, TypeParts DEF UpdateApply, At, PathInv, PathFrame, TablesTyped
      <4> QED
        BY <3>2, <4>1, ApplyEffect
    <3> QED
      BY <1>4, <3>1, <3>2 DEF Update
  <2> QED
    BY <1>4, <1>a, <2>1, <2>2, PlanGoto
<1>5. ASSUME NEW r \in Requests, Import(r), OnePlan PROVE OnePlan'
  <2>1. UNCHANGED <<ents, active>>
    BY <1>5 DEF Import, ImportFindLicense, ImportActivate, ImportRefused, ImportInsertLicense
  <2>2. CASE Begin(r, "i_adapter", NoEvent, FALSE)
    BY <1>5, <1>a, <2>1, <2>2, PlanBegin
  <2>3. CASE Goto(r, "i_product") /\ req[r].pc = "i_adapter"
    <3>1. Went(r, "i_product", req[r].event, req[r].retrying, req[r].plan, req[r].ent)
      BY <2>3, GotoWent DEF Pc
    <3>2. OthersStay(r) /\ PlanFrame(req'[r])
      BY <1>5, <2>3, <3>1 DEF Went, OthersStay, OnePlan, PlanFrame
    <3> QED
      BY <1>5, <1>a, <2>1, <3>2, PlanMoved
  <2>4. CASE Finish(r)
    BY <1>5, <1>a, <2>1, <2>4, PlanFinish
  <2> QED
    BY <1>5, <2>2, <2>3, <2>4
       DEF Import, ImportFindLicense, ImportActivate, ImportRefused, ImportInsertLicense, At
<1>6. ASSUME NEW r \in Requests, Crash(r), OnePlan PROVE OnePlan'
  BY <1>6, <1>a, PlanFinish DEF Crash
<1>7. ASSUME NEW i \in DOMAIN Mappings, EditMapping(i) PROVE edits' # 0
  BY <1>7, <1>a DEF EditMapping
<1>8. ASSUME NEW r \in Requests,
             \/ Webhook(r) \/ Lookup(r) \/ Insert(r) \/ Creation(r)
             \/ Update(r) \/ Import(r) \/ Crash(r)
      PROVE  UNCHANGED edits
  <2>1. ASSUME Lookup(r) PROVE UNCHANGED edits
    BY <2>1, LookupMoves
  <2>2. ASSUME Prepares(r) PROVE UNCHANGED edits
    BY <2>2, PreparesEffect
  <2> QED
    BY <1>8, <2>1, <2>2 DEF Webhook, Insert, Creation, Update, Import, Crash,
       Deliver, Retry, InsertEvent, MarkProcessed, MarkFailed, Inserts,
       CreatedFindLicense, CreatedInsertLicense, CreatedInsertSubscription,
       UpdateApply,
       ImportFindLicense, ImportActivate, ImportRefused, ImportInsertLicense
<1>9. ASSUME UNCHANGED vars, OnePlan PROVE OnePlan'
  BY <1>9, <1>b DEF vars
<1>10. ASSUME UNCHANGED vars PROVE UNCHANGED edits
  BY <1>10 DEF vars
<1> QED
  BY <1>a, <1>1, <1>2, <1>3, <1>4, <1>5, <1>6, <1>7, <1>8, <1>9, <1>10, PlanLookup, NextGroups
     DEF PlanInv

-----------------------------------------------------------------------------
\* One purchase for the subscription.  Two events that both mean a purchase of it would make
\* two entitlements, and their handlers, overlapping, could hang the licence on one and the
\* subscription on the other.
OneOrder ==
    \A e, f \in Events : TypeOf[e] = "created" /\ TypeOf[f] = "created" => e = f

\* The customer's licence hangs on the entitlement that is paid for unless the key was typed
\* first or the event retried, and even then on one of the same plan, for any mappings, as long
\* as they are not edited: the lookups of the webhook and of the import agree.
THEOREM LicenceFollowsSubscriptionTheorem ==
  ASSUME OneOrder
  PROVE  Spec => []LicenceFollowsSubscription
<1> DEFINE Inv == HandledInv /\ PlanInv
<1>1. Init => Inv
  BY HandledInit, PlanInit
<1>2. Inv /\ [Next]_vars => Inv'
  BY HandledStep, PlanStep DEF HandledInv
<1>3. Inv => LicenceFollowsSubscription
  <2> SUFFICES ASSUME Inv, licence # 0, sub # 0
               PROVE  /\ retried = {} /\ Bought = DOMAIN ents => licence = sub
                      /\ edits = 0 => ents[licence].plan = ents[sub].plan
    BY DEF LicenceFollowsSubscription
  <2>1. /\ TypeInv /\ licence \in 1 .. Len(ents) /\ sub \in 1 .. Len(ents) /\ Len(ents) \in Nat
        /\ DOMAIN ents = 1 .. Len(ents)
    BY TypeParts, EntsLength DEF HandledInv, TablesTyped
  <2>2. ASSUME retried = {}, Bought = DOMAIN ents PROVE licence = sub
    <3>1. Cardinality(Ordered) <= 1
      <4>1. CASE Ordered = {}
        BY <4>1, FS_EmptySet
      <4>2. ASSUME NEW e \in Ordered PROVE Cardinality(Ordered) = 1
        <5>1. Ordered = {e}
          BY DEF OneOrder, Ordered
        <5> QED
          BY <5>1, FS_Singleton
      <4> QED
        BY <4>1, <4>2
    <3>2. Cardinality(1 .. Len(ents)) = Len(ents)
      <4>1. Cardinality(1 .. Len(ents)) = IF 1 > Len(ents) THEN 0 ELSE Len(ents) - 1 + 1
        BY <2>1, FS_Interval
      <4> QED
        BY <2>1, <4>1
    <3>3. Len(ents) <= 1
      BY <2>1, <2>2, <3>1, <3>2, FiniteTables DEF HandledInv, OrderedInv
    <3> QED
      BY <2>1, <3>3
  <2>3. edits = 0 => ents[licence].plan = ents[sub].plan
    BY <2>1 DEF PlanInv, OnePlan
  <2> QED
    BY <2>2, <2>3
<1> QED
  BY <1>1, <1>2, <1>3, PTL DEF Spec
=============================================================================
