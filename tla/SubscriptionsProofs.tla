------------------------ MODULE SubscriptionsProofs ------------------------
(* Theorems about Subscriptions, for any plan, any number of requests and  *)
(* any length of time.                                                     *)
EXTENDS Subscriptions, TLAPS

(***************************************************************************)
(* The parts of the inductive invariant.                                   *)
(***************************************************************************)

\* What a request writes back is what a column may hold: a refresh or a renewal writes
\* the entitlement it has in memory, a synchronisation the provider's answer.
FrameStatus(f) ==
    /\ f.pc \in {"r_sub", "r_sync", "n_check", "n_ent"} => f.status \in EntStatus
    /\ f.pc \in {"s_sub", "s_check", "s_ent"} => f.status \in Answers

TypeInv == TypeOK /\ \A r \in Requests : FrameStatus(req[r])

\* No administrator adds days by hand.
NoAddedDays == Operations \intersect {"compensate", "extend"} = {}

\* What a request has read, or is about to write back, lies within a grace period of the last
\* paid day (high), and so does the day on which it issues a licence: while it is at work no day
\* passes.
FrameCovered(f, today, high) ==
    /\ f.pc \notin {"c_sub", "c_readent", "c_ent", "e_ent"}
    /\ f.pc \in {"r_sub", "r_sync", "a_device", "n_check", "n_ent", "s_check", "s_ent", "issue"} =>
         f.validUntil <= high + GraceFor
    /\ f.pc \in {"f_sub", "f_ent", "s_sub", "s_check", "s_ent"} => f.end <= high
    /\ f.pc \in {"a_device", "a_reload", "issue"} => today <= high + GraceFor

TablesCovered ==
    /\ sub.end <= highEnd
    /\ ent.validUntil <= highEnd + GraceFor
    /\ licenceEnd <= highEnd + GraceFor + 1

GraceInv == TablesCovered /\ \A r \in Requests : FrameCovered(req[r], now, highEnd)

\* A request that took the entitlement for usable and may still write it has been overtaken if
\* it is revoked by now, and what a refresh or a renewal writes is never a revocation.
OvertakenFrame(f, revoked) ==
    /\ revoked /\ f.pc \in {"r_sub", "r_expire", "r_sync", "a_device", "n_ent"} => f.overtaken
    /\ f.pc \in {"r_sync", "n_check", "n_ent"} => f.status \in {"active", "grace"}

OvertakenInv == \A r \in Requests : OvertakenFrame(req[r], ent.status = "revoked")

\* Nothing writes one of the rows without regard to the other: adminExtendEntitlement moves the
\* entitlement's date alone, and adminSyncSubscription writes the provider's answer to both.
NoOverwriting == Operations \intersect {"sync", "extend"} = {}

Agree ==
    /\ sub.status = "active" => ent.status \in {"active", "revoked"}
    /\ sub.status = "revoked" => ent.status = "revoked"
    /\ ent.status = "active" => ent.validUntil <= sub.end
    /\ ent.inGrace => ent.status \in {"grace", "expired"}
    /\ sub.status = "past_due" => ent.status \in {"grace", "expired"}

\* How the rows stand while one request is between two of its statements.
Midway(f) ==
    /\ f.pc \notin {"s_sub", "s_check", "s_ent", "e_ent"}
    /\ f.pc \in {"r_sub", "r_expire", "r_sync", "issue", "a_device", "a_reload", "f_sub", "c_sub"} =>
         Agree
    /\ f.pc \in {"r_sub", "a_device"} =>
         f.status = ent.status /\ f.validUntil = ent.validUntil /\ f.inGrace = ent.inGrace
    /\ f.pc = "a_device" => Usable(ent.status) /\ ent.status # "grace"
    /\ f.pc = "r_expire" => sub.status \in {"canceled", "past_due"}
    /\ f.pc = "r_sync" =>
         \/ /\ sub.status \in {"canceled", "active", "trialing"}
            /\ f.status = "active" /\ f.validUntil = sub.end /\ ~f.inGrace
         \/ sub.status = "past_due" /\ f.status = "grace"
    /\ f.pc \in {"n_check", "n_ent"} =>
         /\ sub.status = "active" /\ sub.end = f.validUntil
         /\ f.status = "active" /\ ~f.inGrace
    /\ f.pc = "n_check" => (ent.inGrace => ent.status \in {"grace", "expired"})
    /\ f.pc = "f_ent" => sub.status = "past_due"
    /\ f.pc = "d_ent" => sub.status = "revoked"
    /\ f.pc = "c_sub" => f.end = sub.end + Compensation
    /\ f.pc \in {"c_readent", "c_ent"} => Agree
    /\ f.pc = "c_readent" => (ent.status = "active" => ent.validUntil + Compensation <= sub.end)
    /\ f.pc = "c_ent" => (ent.status = "active" => f.end <= sub.end)

AgreeInv ==
    ~overlapped /\ crashes = 0 =>
        /\ \A r, q \in Requests : req[r].pc # "idle" /\ req[q].pc # "idle" => r = q
        /\ Quiet => Agree
        /\ \A r \in Requests : Midway(req[r])

-----------------------------------------------------------------------------
(* What a statement does to the frames, field by field.                    *)

Went(r, step, status, validUntil, inGrace, end, overtaken) ==
    /\ req' \in [Requests -> Frame]
    /\ req'[r].pc = step /\ req'[r].status = status /\ req'[r].validUntil = validUntil
    /\ req'[r].inGrace = inGrace /\ req'[r].end = end /\ req'[r].overtaken = overtaken
    /\ \A q \in Requests \ {r} : req'[q] = req[q]

\* The other requests go on, knowing that they have been overtaken.
WentOvertaking(r) ==
    /\ req' \in [Requests -> Frame]
    /\ req'[r].pc = "idle"
    /\ \A q \in Requests \ {r} :
         /\ req'[q].pc = req[q].pc
         /\ req[q].pc # "idle" =>
              /\ req'[q].status = req[q].status /\ req'[q].validUntil = req[q].validUntil
              /\ req'[q].inGrace = req[q].inGrace /\ req'[q].end = req[q].end
              /\ req'[q].overtaken

AnyStatus == SubStatus \union EntStatus \union {"none"}

LEMMA FrameFields ==
  ASSUME NEW f \in Frame
  PROVE  /\ f.pc \in Pc /\ f.status \in AnyStatus /\ f.validUntil \in Nat
         /\ f.inGrace \in BOOLEAN /\ f.end \in Nat /\ f.overtaken \in BOOLEAN
BY DEF Frame, AnyStatus

LEMMA SetFrame ==
  ASSUME req \in [Requests -> Frame], NEW r \in Requests, NEW f \in Frame,
         req' = [req EXCEPT ![r] = f]
  PROVE  Went(r, f.pc, f.status, f.validUntil, f.inGrace, f.end, f.overtaken)
BY DEF Went

LEMMA IdleFrame ==
  /\ Idle \in Frame /\ Idle.pc = "idle" /\ Idle.status = "none" /\ Idle.validUntil = 0
  /\ Idle.inGrace = FALSE /\ Idle.end = 0 /\ Idle.overtaken = FALSE
BY DEF Idle, Frame, Pc

LEMMA FinishWent ==
  ASSUME req \in [Requests -> Frame], NEW r \in Requests, Finish(r)
  PROVE  Went(r, "idle", "none", 0, FALSE, 0, FALSE)
BY IdleFrame, SetFrame DEF Finish

LEMMA GotoWent ==
  ASSUME req \in [Requests -> Frame], NEW r \in Requests, NEW step \in Pc, Goto(r, step)
  PROVE  Went(r, step, req[r].status, req[r].validUntil, req[r].inGrace, req[r].end,
              req[r].overtaken)
<1> DEFINE f == [req[r] EXCEPT !.pc = step]
<1>1. req[r] \in Frame
  OBVIOUS
<1>2. /\ f \in Frame /\ f.pc = step /\ f.status = req[r].status
      /\ f.validUntil = req[r].validUntil /\ f.inGrace = req[r].inGrace
      /\ f.end = req[r].end /\ f.overtaken = req[r].overtaken
  BY <1>1 DEF Frame
<1>3. req' = [req EXCEPT ![r] = f]
  BY DEF Goto
<1> HIDE DEF f
<1> QED
  BY <1>2, <1>3 DEF Went

LEMMA GotoWithWent ==
  ASSUME req \in [Requests -> Frame], NEW r \in Requests, NEW step \in Pc,
         NEW status \in AnyStatus, NEW validUntil \in Nat, NEW inGrace \in BOOLEAN,
         GotoWith(r, step, Entitlement(status, validUntil, inGrace))
  PROVE  Went(r, step, status, validUntil, inGrace, req[r].end, req[r].overtaken)
<1> DEFINE f == [req[r] EXCEPT !.pc = step, !.status = status, !.validUntil = validUntil,
                               !.inGrace = inGrace]
<1>1. req[r] \in Frame
  OBVIOUS
<1>2. /\ f \in Frame /\ f.pc = step /\ f.status = status
      /\ f.validUntil = validUntil /\ f.inGrace = inGrace
      /\ f.end = req[r].end /\ f.overtaken = req[r].overtaken
  BY <1>1 DEF Frame, AnyStatus
<1>3. req' = [req EXCEPT ![r] = f]
  BY DEF GotoWith, Entitlement
<1> HIDE DEF f
<1> QED
  BY <1>2, <1>3 DEF Went

LEMMA BeginWithWent ==
  ASSUME req \in [Requests -> Frame], NEW r \in Requests, NEW step \in Pc,
         NEW status \in AnyStatus, NEW validUntil \in Nat, NEW inGrace \in BOOLEAN,
         BeginWith(r, step, Entitlement(status, validUntil, inGrace))
  PROVE  Went(r, step, status, validUntil, inGrace, 0, FALSE)
<1> DEFINE f == [Idle EXCEPT !.pc = step, !.status = status, !.validUntil = validUntil,
                             !.inGrace = inGrace]
<1>2. /\ f \in Frame /\ f.pc = step /\ f.status = status
      /\ f.validUntil = validUntil /\ f.inGrace = inGrace
      /\ f.end = 0 /\ f.overtaken = FALSE
  BY DEF Frame, AnyStatus, Idle
<1>3. req' = [req EXCEPT ![r] = f]
  BY DEF BeginWith, Entitlement
<1> HIDE DEF f
<1> QED
  BY <1>2, <1>3 DEF Went

LEMMA FinishOvertakingWent ==
  ASSUME req \in [Requests -> Frame], NEW r \in Requests, FinishOvertaking(r)
  PROVE  WentOvertaking(r)
<1>1. ASSUME NEW q \in Requests
      PROVE  /\ [req[q] EXCEPT !.overtaken = TRUE] \in Frame
             /\ [req[q] EXCEPT !.overtaken = TRUE].pc = req[q].pc
             /\ [req[q] EXCEPT !.overtaken = TRUE].status = req[q].status
             /\ [req[q] EXCEPT !.overtaken = TRUE].validUntil = req[q].validUntil
             /\ [req[q] EXCEPT !.overtaken = TRUE].inGrace = req[q].inGrace
             /\ [req[q] EXCEPT !.overtaken = TRUE].end = req[q].end
             /\ [req[q] EXCEPT !.overtaken = TRUE].overtaken
  <2>1. req[q] \in Frame
    OBVIOUS
  <2> QED
    BY <2>1 DEF Frame
<1> QED
  BY <1>1, IdleFrame DEF FinishOvertaking, WentOvertaking, At

\* The ways a request goes on: with its fields as they are, with another entitlement in
\* memory, or not at all.
Kept(r, step) ==
    Went(r, step, req[r].status, req[r].validUntil, req[r].inGrace, req[r].end, req[r].overtaken)
Loaded(r, step, status, validUntil, inGrace) ==
    Went(r, step, status, validUntil, inGrace, req[r].end, req[r].overtaken)
Ended(r) == Went(r, "idle", "none", 0, FALSE, 0, FALSE)
Checked(r, status, validUntil, inGrace) ==
    \/ Ended(r)
    \/ /\ Usable(status) /\ now <= validUntil
       /\ Loaded(r, "issue", status, validUntil, inGrace)

LEMMA TypeParts ==
  ASSUME TypeInv
  PROVE  /\ now \in Nat /\ sub \in [status : SubStatus, end : Nat]
         /\ ent \in [status : EntStatus, validUntil : Nat, inGrace : BOOLEAN]
         /\ sub.status \in SubStatus /\ sub.end \in Nat
         /\ ent.status \in EntStatus /\ ent.validUntil \in Nat /\ ent.inGrace \in BOOLEAN
         /\ ent = Entitlement(ent.status, ent.validUntil, ent.inGrace)
         /\ highEnd \in Nat /\ licenceEnd \in Nat /\ overlapped \in BOOLEAN /\ crashes \in Nat
         /\ req \in [Requests -> Frame]
         /\ \A r \in Requests :
              /\ req[r].pc \in Pc /\ req[r].status \in AnyStatus /\ req[r].validUntil \in Nat
              /\ req[r].inGrace \in BOOLEAN /\ req[r].end \in Nat /\ req[r].overtaken \in BOOLEAN
              /\ FrameStatus(req[r])
<1>1. \A r \in Requests : req[r] \in Frame
  BY DEF TypeInv, TypeOK
<1> QED
  BY <1>1, FrameFields, DaysAssumption DEF TypeInv, TypeOK, Entitlement

LEMMA GraceForType ==
  GraceFor \in Nat /\ GraceDays \in Nat /\ GraceDays <= GraceFor /\ Period \in Nat
  /\ Compensation \in Nat /\ Compensation > 0
BY DaysAssumption DEF GraceFor

LEMMA CheckedMoves ==
  ASSUME TypeInv, NEW r \in Requests, NEW status \in AnyStatus, NEW validUntil \in Nat,
         NEW inGrace \in BOOLEAN,
         CheckedThenIssue(r, Entitlement(status, validUntil, inGrace))
  PROVE  Checked(r, status, validUntil, inGrace)
<1> DEFINE e == Entitlement(status, validUntil, inGrace)
<1>1. e.status = status /\ e.validUntil = validUntil
  BY DEF Entitlement
<1>2. "issue" \in Pc /\ req \in [Requests -> Frame] /\ now \in Nat
  BY TypeParts DEF Pc
<1>3. CASE Finish(r)
  BY <1>2, <1>3, FinishWent DEF Checked, Ended
<1>4. CASE GotoWith(r, "issue", e) /\ Usable(status) /\ ~(validUntil < now)
  BY <1>2, <1>4, GotoWithWent DEF Checked, Loaded
<1> QED
  BY <1>1, <1>3, <1>4 DEF CheckedThenIssue, dateIsPast

\* The requests that begin.
LEMMA StartMoves ==
  ASSUME TypeInv, NEW r \in Requests
  PROVE  /\ RefreshReadEntitlement(r) =>
              Went(r, "r_sub", ent.status, ent.validUntil, ent.inGrace, 0, FALSE)
         /\ ActivateReadEntitlement(r) =>
              Went(r, "a_device", ent.status, ent.validUntil, ent.inGrace, 0, FALSE)
         /\ RenewWriteSubscription(r) =>
              Went(r, "n_check", "active", now + Period, FALSE, 0, FALSE)
         /\ FailReadSubscription(r) => Went(r, "f_sub", "none", 0, FALSE, sub.end, FALSE)
         /\ RefundWriteSubscription(r) => Went(r, "d_ent", "none", 0, FALSE, 0, FALSE)
         /\ SyncReadSubscription(r) =>
              \E status \in Answers, reported \in {0, now + Period} :
                 Went(r, "s_sub", status, reported, FALSE, sub.end, FALSE)
         /\ CompensateReadSubscription(r) =>
              Went(r, "c_sub", "none", 0, FALSE, sub.end + Compensation, FALSE)
         /\ ExtendReadEntitlement(r) =>
              Went(r, "e_ent", "none", 0, FALSE, ent.validUntil + Compensation, FALSE)
<1>a. /\ req \in [Requests -> Frame] /\ sub.end \in Nat /\ ent.validUntil \in Nat /\ now \in Nat
      /\ ent.status \in AnyStatus /\ ent.inGrace \in BOOLEAN
      /\ ent = Entitlement(ent.status, ent.validUntil, ent.inGrace)
  BY TypeParts DEF AnyStatus
<1>d. /\ now + Period \in Nat /\ sub.end + Compensation \in Nat
      /\ ent.validUntil + Compensation \in Nat /\ 0 \in Nat
  BY <1>a, GraceForType
<1>b. {"r_sub", "a_device", "n_check", "f_sub", "d_ent", "s_sub", "c_sub", "e_ent"} \subseteq Pc
  BY DEF Pc
<1>c. {"none", "active"} \subseteq AnyStatus /\ Answers \subseteq AnyStatus
  BY AnswersAssumption DEF AnyStatus, EntStatus, SubStatus
<1>1. RefreshReadEntitlement(r) =>
        Went(r, "r_sub", ent.status, ent.validUntil, ent.inGrace, 0, FALSE)
  BY <1>a, <1>b, BeginWithWent DEF RefreshReadEntitlement
<1>2. ActivateReadEntitlement(r) =>
        Went(r, "a_device", ent.status, ent.validUntil, ent.inGrace, 0, FALSE)
  BY <1>a, <1>b, BeginWithWent DEF ActivateReadEntitlement
<1>3. ASSUME RenewWriteSubscription(r)
      PROVE  Went(r, "n_check", "active", now + Period, FALSE, 0, FALSE)
  <2> DEFINE f == [Idle EXCEPT !.pc = "n_check", !.status = "active",
                                 !.validUntil = now + Period]
  <2>1. /\ f \in Frame /\ f.pc = "n_check" /\ f.status = "active" /\ f.validUntil = now + Period
        /\ f.inGrace = FALSE /\ f.end = 0 /\ f.overtaken = FALSE
    BY <1>b, <1>c, <1>d DEF Frame, Idle, AnyStatus
  <2>2. req' = [req EXCEPT ![r] = f]
    BY <1>3 DEF RenewWriteSubscription
  <2> HIDE DEF f
  <2> QED
    BY <1>a, <2>1, <2>2, SetFrame
<1>4. ASSUME FailReadSubscription(r)
      PROVE  Went(r, "f_sub", "none", 0, FALSE, sub.end, FALSE)
  <2> DEFINE f == [Idle EXCEPT !.pc = "f_sub", !.end = sub.end]
  <2>1. /\ f \in Frame /\ f.pc = "f_sub" /\ f.status = "none" /\ f.validUntil = 0
        /\ f.inGrace = FALSE /\ f.end = sub.end /\ f.overtaken = FALSE
    BY <1>b, <1>c, <1>d, <1>a DEF Frame, Idle, AnyStatus
  <2>2. req' = [req EXCEPT ![r] = f]
    BY <1>4, <1>a DEF FailReadSubscription
  <2> HIDE DEF f
  <2> QED
    BY <1>a, <2>1, <2>2, SetFrame
<1>5. ASSUME RefundWriteSubscription(r)
      PROVE  Went(r, "d_ent", "none", 0, FALSE, 0, FALSE)
  <2> DEFINE f == [Idle EXCEPT !.pc = "d_ent"]
  <2>1. /\ f \in Frame /\ f.pc = "d_ent" /\ f.status = "none" /\ f.validUntil = 0
        /\ f.inGrace = FALSE /\ f.end = 0 /\ f.overtaken = FALSE
    BY <1>b, <1>c, <1>d DEF Frame, Idle, AnyStatus
  <2>2. req' = [req EXCEPT ![r] = f]
    BY <1>5 DEF RefundWriteSubscription, Begin
  <2> HIDE DEF f
  <2> QED
    BY <1>a, <2>1, <2>2, SetFrame
<1>6. ASSUME SyncReadSubscription(r)
      PROVE  \E status \in Answers, reported \in {0, now + Period} :
                 Went(r, "s_sub", status, reported, FALSE, sub.end, FALSE)
  <2>0. PICK status \in Answers, reported \in {0, now + Period} :
          req' = [req EXCEPT ![r] = [Idle EXCEPT !.pc = "s_sub", !.status = status,
                                        !.validUntil = reported, !.end = sub.end]]
    BY <1>6, Zenon DEF SyncReadSubscription
  <2> DEFINE f == [Idle EXCEPT !.pc = "s_sub", !.status = status,
                                 !.validUntil = reported, !.end = sub.end]
  <2>1. /\ f \in Frame /\ f.pc = "s_sub" /\ f.status = status /\ f.validUntil = reported
        /\ f.inGrace = FALSE /\ f.end = sub.end /\ f.overtaken = FALSE
    BY <1>a, <1>b, <1>c, <1>d DEF Frame, Idle, AnyStatus
  <2>2. req' = [req EXCEPT ![r] = f]
    BY <2>0
  <2> HIDE DEF f
  <2> QED
    BY <1>a, <2>1, <2>2, SetFrame
<1>7. ASSUME CompensateReadSubscription(r)
      PROVE  Went(r, "c_sub", "none", 0, FALSE, sub.end + Compensation, FALSE)
  <2> DEFINE f == [Idle EXCEPT !.pc = "c_sub", !.end = sub.end + Compensation]
  <2>1. /\ f \in Frame /\ f.pc = "c_sub" /\ f.status = "none" /\ f.validUntil = 0
        /\ f.inGrace = FALSE /\ f.end = sub.end + Compensation /\ f.overtaken = FALSE
    BY <1>b, <1>c, <1>d DEF Frame, Idle, AnyStatus
  <2>2. req' = [req EXCEPT ![r] = f]
    BY <1>7 DEF CompensateReadSubscription
  <2> HIDE DEF f
  <2> QED
    BY <1>a, <2>1, <2>2, SetFrame
<1>8. ASSUME ExtendReadEntitlement(r)
      PROVE  Went(r, "e_ent", "none", 0, FALSE, ent.validUntil + Compensation, FALSE)
  <2> DEFINE f == [Idle EXCEPT !.pc = "e_ent", !.end = ent.validUntil + Compensation]
  <2>1. /\ f \in Frame /\ f.pc = "e_ent" /\ f.status = "none" /\ f.validUntil = 0
        /\ f.inGrace = FALSE /\ f.end = ent.validUntil + Compensation /\ f.overtaken = FALSE
    BY <1>b, <1>c, <1>d DEF Frame, Idle, AnyStatus
  <2>2. req' = [req EXCEPT ![r] = f]
    BY <1>8 DEF ExtendReadEntitlement
  <2> HIDE DEF f
  <2> QED
    BY <1>a, <2>1, <2>2, SetFrame
<1> QED
  BY <1>1, <1>2, <1>3, <1>4, <1>5, <1>6, <1>7, <1>8

\* The statements of the requests under way.
LEMMA ProceedMoves ==
  ASSUME TypeInv, NEW r \in Requests
  PROVE  /\ Finish(r) => Ended(r)
         /\ FinishOvertaking(r) => WentOvertaking(r)
         /\ \A step \in Pc : Goto(r, step) => Kept(r, step)
         /\ CheckedThenIssue(r, InMemory(r)) =>
              Checked(r, req[r].status, req[r].validUntil, req[r].inGrace)
         /\ RefreshReadSubscription(r) =>
              \/ /\ sub.status = "canceled" \/ sub.status = "past_due"
                 /\ Kept(r, "r_expire")
              \/ /\ sub.status \in {"canceled", "active", "trialing"}
                 /\ Loaded(r, "r_sync", "active", sub.end, FALSE)
              \/ /\ sub.status \in {"active", "trialing"}
                 /\ Checked(r, "active", sub.end, FALSE)
              \/ /\ sub.status = "past_due"
                 /\ Loaded(r, "r_sync", "grace", sub.end + GraceFor, TRUE)
              \/ /\ sub.status \in {"expired", "revoked"}
                 /\ Checked(r, req[r].status, req[r].validUntil, req[r].inGrace)
         /\ ActivateReload(r) => Loaded(r, "issue", ent.status, ent.validUntil, ent.inGrace)
         /\ CompensateReadEntitlement(r) =>
              Went(r, "c_ent", req[r].status, req[r].validUntil, req[r].inGrace,
                   ent.validUntil + Compensation, req[r].overtaken)
<1>a. /\ req \in [Requests -> Frame] /\ sub.end \in Nat /\ ent.validUntil \in Nat /\ now \in Nat
      /\ ent.status \in AnyStatus /\ ent.inGrace \in BOOLEAN
      /\ ent = Entitlement(ent.status, ent.validUntil, ent.inGrace)
      /\ req[r].status \in AnyStatus /\ req[r].validUntil \in Nat /\ req[r].inGrace \in BOOLEAN
  BY TypeParts DEF AnyStatus
<1>b. {"r_expire", "r_sync", "issue", "c_ent"} \subseteq Pc
  BY DEF Pc
<1>c. {"active", "grace"} \subseteq AnyStatus /\ {TRUE, FALSE} \subseteq BOOLEAN
  BY DEF AnyStatus, EntStatus
<1>1. Finish(r) => Ended(r)
  BY <1>a, FinishWent DEF Ended
<1>2. FinishOvertaking(r) => WentOvertaking(r)
  BY <1>a, FinishOvertakingWent
<1>3. \A step \in Pc : Goto(r, step) => Kept(r, step)
  BY <1>a, GotoWent DEF Kept
<1>4. CheckedThenIssue(r, InMemory(r)) =>
        Checked(r, req[r].status, req[r].validUntil, req[r].inGrace)
  BY <1>a, CheckedMoves DEF InMemory
<1>5. sub.end + GraceFor \in Nat
  BY <1>a, GraceForType
<1>6. ASSUME RefreshReadSubscription(r)
      PROVE   \/ /\ sub.status = "canceled" \/ sub.status = "past_due"
                 /\ Kept(r, "r_expire")
              \/ /\ sub.status \in {"canceled", "active", "trialing"}
                 /\ Loaded(r, "r_sync", "active", sub.end, FALSE)
              \/ /\ sub.status \in {"active", "trialing"}
                 /\ Checked(r, "active", sub.end, FALSE)
              \/ /\ sub.status = "past_due"
                 /\ Loaded(r, "r_sync", "grace", sub.end + GraceFor, TRUE)
              \/ /\ sub.status \in {"expired", "revoked"}
                 /\ Checked(r, req[r].status, req[r].validUntil, req[r].inGrace)
  <2>1. Goto(r, "r_expire") => Kept(r, "r_expire")
    BY <1>3, <1>b
  <2>2. GotoWith(r, "r_sync", Entitlement("active", sub.end, FALSE)) =>
          Loaded(r, "r_sync", "active", sub.end, FALSE)
    BY <1>a, <1>b, <1>c, GotoWithWent DEF Loaded
  <2>3. GotoWith(r, "r_sync", Entitlement("grace", sub.end + GraceFor, TRUE)) =>
          Loaded(r, "r_sync", "grace", sub.end + GraceFor, TRUE)
    BY <1>a, <1>b, <1>c, <1>5, GotoWithWent DEF Loaded
  <2>4. CheckedThenIssue(r, Entitlement("active", sub.end, FALSE)) =>
          Checked(r, "active", sub.end, FALSE)
    BY <1>a, <1>c, CheckedMoves
  <2> QED
    BY <1>4, <1>6, <2>1, <2>2, <2>3, <2>4 DEF RefreshReadSubscription
<1>7. ASSUME ActivateReload(r)
      PROVE  Loaded(r, "issue", ent.status, ent.validUntil, ent.inGrace)
  BY <1>a, <1>b, <1>7, GotoWithWent DEF ActivateReload, Loaded
<1>8. ASSUME CompensateReadEntitlement(r)
      PROVE  Went(r, "c_ent", req[r].status, req[r].validUntil, req[r].inGrace,
                   ent.validUntil + Compensation, req[r].overtaken)
  <2> DEFINE f == [req[r] EXCEPT !.pc = "c_ent", !.end = ent.validUntil + Compensation]
  <2>1. req[r] \in Frame /\ ent.validUntil + Compensation \in Nat
    BY <1>a, GraceForType
  <2>2. /\ f \in Frame /\ f.pc = "c_ent" /\ f.status = req[r].status
        /\ f.validUntil = req[r].validUntil /\ f.inGrace = req[r].inGrace
        /\ f.end = ent.validUntil + Compensation /\ f.overtaken = req[r].overtaken
    BY <1>b, <2>1 DEF Frame
  <2>3. req' = [req EXCEPT ![r] = f]
    BY <1>8 DEF CompensateReadEntitlement
  <2> HIDE DEF f
  <2> QED
    BY <1>a, <2>2, <2>3, SetFrame
<1> QED
  BY <1>1, <1>2, <1>3, <1>4, <1>6, <1>7, <1>8

-----------------------------------------------------------------------------
(* Types.                                                                  *)

\* The parts of the type invariant that an action establishes one by one.
TablesTyped ==
    /\ now \in 0 .. LastDay
    /\ sub \in [status : SubStatus, end : Nat]
    /\ ent \in [status : EntStatus, validUntil : Nat, inGrace : BOOLEAN]
    /\ highEnd \in Nat /\ licenceEnd \in Nat /\ refunded \in BOOLEAN /\ overlapped \in BOOLEAN
    /\ crashes \in 0 .. MaxCrashes

Framed == req \in [Requests -> Frame] /\ \A r \in Requests : FrameStatus(req[r])

LEMMA PartsOfType == ASSUME TypeInv PROVE TablesTyped /\ Framed
BY DEF TypeInv, TypeOK, TablesTyped, Framed

LEMMA TypeFromParts == ASSUME TablesTyped', Framed' PROVE TypeInv'
BY DEF TypeInv, TypeOK, TablesTyped, Framed

LEMMA FramedStep ==
  ASSUME TypeInv, NEW r \in Requests, FrameStatus(req'[r]),
         req' \in [Requests -> Frame],
         \A q \in Requests \ {r} :
            /\ req'[q].pc = req[q].pc
            /\ req[q].pc # "idle" => req'[q].status = req[q].status
  PROVE  Framed'
BY TypeParts DEF Framed, FrameStatus

LEMMA TypeInit == Init => TypeInv
<1> SUFFICES ASSUME Init PROVE TablesTyped /\ Framed
  BY DEF TypeInv, TypeOK, TablesTyped, Framed
<1>1. TablesTyped
  <2>1. sub \in [status : SubStatus, end : Nat]
    BY DaysAssumption DEF Init, SubStatus
  <2>2. ent \in [status : EntStatus, validUntil : Nat, inGrace : BOOLEAN]
    BY DaysAssumption DEF Init, EntStatus, Entitlement
  <2>3. LastDay \in Nat /\ MaxCrashes \in Nat /\ Period \in Nat
    BY DaysAssumption
  <2>4. now \in 0 .. LastDay /\ crashes \in 0 .. MaxCrashes /\ highEnd \in Nat /\ licenceEnd \in Nat
    BY <2>3 DEF Init
  <2>5. refunded \in BOOLEAN /\ overlapped \in BOOLEAN
    BY DEF Init
  <2> QED
    BY <2>1, <2>2, <2>4, <2>5 DEF TablesTyped
<1>2. Framed
  BY IdleFrame DEF Init, Framed, FrameStatus
<1> QED
  BY <1>1, <1>2

LEMMA WentFramed ==
  ASSUME TypeInv, NEW r \in Requests, NEW step, NEW status, NEW validUntil, NEW inGrace, NEW end,
         NEW overtaken, Went(r, step, status, validUntil, inGrace, end, overtaken),
         step \in {"r_sub", "r_sync", "n_check", "n_ent"} => status \in EntStatus,
         step \in {"s_sub", "s_check", "s_ent"} => status \in Answers
  PROVE  Framed'
BY FramedStep DEF Went, FrameStatus

LEMMA FramedMoves ==
  ASSUME TypeInv, NEW r \in Requests
  PROVE  /\ Ended(r) => Framed'
         /\ WentOvertaking(r) => Framed'
         /\ \A status, validUntil, inGrace : Checked(r, status, validUntil, inGrace) => Framed'
<1>1. Ended(r) => Framed'
  BY WentFramed DEF Ended
<1>2. WentOvertaking(r) => Framed'
  BY FramedStep DEF WentOvertaking, FrameStatus
<1>3. ASSUME NEW status, NEW validUntil, NEW inGrace, Checked(r, status, validUntil, inGrace)
      PROVE  Framed'
  <2>1. CASE Loaded(r, "issue", status, validUntil, inGrace)
    BY <2>1, WentFramed DEF Loaded
  <2> QED
    BY <1>1, <1>3, <2>1 DEF Checked
<1> QED
  BY <1>1, <1>2, <1>3

LEMMA LaterType == \A a, b \in Nat : Later(a, b) \in Nat /\ Later(a, b) >= a /\ Later(a, b) >= b
BY DEF Later

LEMMA LicenceDays ==
  ASSUME NEW validUntil \in Nat, now \in Nat
  PROVE  /\ now + computeLicenceValidDays(validUntil) \in Nat
         /\ computeLicenceValidDays(validUntil) >= 1
         /\ \/ now + computeLicenceValidDays(validUntil) <= now + 1
            \/ now + computeLicenceValidDays(validUntil) <= validUntil
BY DaysAssumption DEF computeLicenceValidDays, daysUntil, Later, Sooner

LEMMA WriteSubscriptionType ==
  ASSUME TypeInv, NEW status \in SubStatus, NEW end \in Nat, WriteSubscription(status, end)
  PROVE  /\ sub' = [status |-> status, end |-> end] /\ sub'.status = status /\ sub'.end = end
         /\ highEnd' \in Nat /\ highEnd <= highEnd' /\ end <= highEnd'
         /\ UNCHANGED <<now, ent, licenceEnd, refunded, crashes>>
BY TypeParts, LaterType DEF WriteSubscription

\* An action on the entitlements row alone.
LEMMA EntWritten ==
  ASSUME TypeInv, UNCHANGED <<sub, rest>>, overlapped' \in BOOLEAN,
         ent' \in [status : EntStatus, validUntil : Nat, inGrace : BOOLEAN]
  PROVE  TablesTyped'
BY PartsOfType DEF TablesTyped, rest

LEMMA SubWritten ==
  ASSUME TypeInv, UNCHANGED <<ent, rest>>, overlapped' \in BOOLEAN,
         sub' \in [status : SubStatus, end : Nat]
  PROVE  TablesTyped'
BY PartsOfType DEF TablesTyped, rest

LEMMA StartType ==
  ASSUME TypeInv, NEW r \in Requests, Start(r)
  PROVE  TypeInv'
<1>a. /\ sub \in [status : SubStatus, end : Nat] /\ ent.status \in EntStatus
      /\ ent \in [status : EntStatus, validUntil : Nat, inGrace : BOOLEAN]
      /\ TablesTyped /\ now + Period \in Nat
  BY TypeParts, PartsOfType, GraceForType
<1>b. \A op : Calls(r, op) => overlapped' \in BOOLEAN
  BY TypeParts DEF Calls
<1>1. CASE RefreshReadEntitlement(r)
  <2>1. Framed'
    BY <1>1, <1>a, StartMoves, WentFramed
  <2>2. TablesTyped'
    BY <1>1, <1>a, <1>b, EntWritten DEF RefreshReadEntitlement
  <2> QED
    BY <2>1, <2>2, TypeFromParts
<1>2. CASE ActivateReadEntitlement(r)
  <2>1. Framed'
    BY <1>2, <1>a, StartMoves, WentFramed
  <2>2. TablesTyped'
    BY <1>2, <1>a, <1>b, EntWritten DEF ActivateReadEntitlement
  <2> QED
    BY <2>1, <2>2, TypeFromParts
<1>3. CASE RenewWriteSubscription(r)
  <2>1. "active" \in SubStatus /\ "active" \in EntStatus
    BY DEF SubStatus, EntStatus
  <2>2. /\ sub' = [status |-> "active", end |-> now + Period] /\ highEnd' \in Nat
        /\ UNCHANGED <<now, ent, licenceEnd, refunded, crashes>>
    BY <1>3, <1>a, <2>1, WriteSubscriptionType DEF RenewWriteSubscription
  <2>3. sub' \in [status : SubStatus, end : Nat]
    BY <1>a, <2>1, <2>2
  <2>4. TablesTyped'
    BY <1>3, <1>a, <1>b, <2>2, <2>3 DEF RenewWriteSubscription, TablesTyped
  <2>5. Framed'
    BY <1>3, <2>1, StartMoves, WentFramed
  <2> QED
    BY <2>4, <2>5, TypeFromParts
<1>4. CASE FailReadSubscription(r)
  <2>1. Framed'
    BY <1>4, <1>a, StartMoves, WentFramed
  <2>2. TablesTyped'
    BY <1>4, <1>a, <1>b, EntWritten DEF FailReadSubscription
  <2> QED
    BY <2>1, <2>2, TypeFromParts
<1>5. CASE RefundWriteSubscription(r)
  <2>1. sub' \in [status : SubStatus, end : Nat]
    BY <1>5, <1>a DEF RefundWriteSubscription, SubStatus
  <2>2. Framed'
    BY <1>5, StartMoves, WentFramed
  <2>3. TablesTyped'
    BY <1>5, <1>b, <2>1, SubWritten DEF RefundWriteSubscription
  <2> QED
    BY <2>2, <2>3, TypeFromParts
<1>6. CASE SyncReadSubscription(r)
  <2>1. Framed'
    BY <1>6, <1>a, StartMoves, WentFramed
  <2>2. TablesTyped'
    BY <1>6, <1>a, <1>b, EntWritten DEF SyncReadSubscription
  <2> QED
    BY <2>1, <2>2, TypeFromParts
<1>7. CASE CompensateReadSubscription(r)
  <2>1. Framed'
    BY <1>7, <1>a, StartMoves, WentFramed
  <2>2. TablesTyped'
    BY <1>7, <1>a, <1>b, EntWritten DEF CompensateReadSubscription
  <2> QED
    BY <2>1, <2>2, TypeFromParts
<1>8. CASE ExtendReadEntitlement(r)
  <2>1. Framed'
    BY <1>8, <1>a, StartMoves, WentFramed
  <2>2. TablesTyped'
    BY <1>8, <1>a, <1>b, EntWritten DEF ExtendReadEntitlement
  <2> QED
    BY <2>1, <2>2, TypeFromParts
<1> QED
  BY <1>1, <1>2, <1>3, <1>4, <1>5, <1>6, <1>7, <1>8 DEF Start

\* The step a statement goes on to decides nothing about the frame's status, or it stays.
LEMMA KeptFramed ==
  ASSUME TypeInv, NEW r \in Requests, NEW step, Kept(r, step),
         \/ step \notin {"r_sub", "r_sync", "n_check", "n_ent", "s_sub", "s_check", "s_ent"}
         \/ req[r].pc = "n_check" /\ step = "n_ent"
         \/ req[r].pc \in {"s_sub", "s_check"} /\ step \in {"s_check", "s_ent"}
  PROVE  Framed'
BY TypeParts, WentFramed DEF Kept, FrameStatus

LEMMA GotoFramed ==
  ASSUME TypeInv, NEW r \in Requests, NEW step \in Pc, Goto(r, step),
         \/ step \notin {"r_sub", "r_sync", "n_check", "n_ent", "s_sub", "s_check", "s_ent"}
         \/ req[r].pc = "n_check" /\ step = "n_ent"
         \/ req[r].pc \in {"s_sub", "s_check"} /\ step \in {"s_check", "s_ent"}
  PROVE  Framed'
BY ProceedMoves, KeptFramed

LEMMA ProceedType ==
  ASSUME TypeInv, NEW r \in Requests, Proceed(r)
  PROVE  TypeInv'
<1>a. /\ TablesTyped /\ overlapped \in BOOLEAN
      /\ sub \in [status : SubStatus, end : Nat] /\ sub.end \in Nat /\ sub.status \in SubStatus
      /\ ent \in [status : EntStatus, validUntil : Nat, inGrace : BOOLEAN]
      /\ ent.status \in EntStatus /\ ent.validUntil \in Nat /\ ent.inGrace \in BOOLEAN
      /\ req[r].validUntil \in Nat /\ req[r].inGrace \in BOOLEAN /\ req[r].end \in Nat
      /\ FrameStatus(req[r]) /\ now \in Nat /\ licenceEnd \in Nat
  BY TypeParts, PartsOfType
<1>b. {"active", "grace"} \subseteq EntStatus
  BY DEF EntStatus
<1>c. {"r_expire", "issue", "a_reload", "n_ent", "f_ent", "s_check", "s_ent", "c_readent"} \subseteq Pc
  BY DEF Pc
<1>d. ASSUME UNCHANGED <<sub, ent, rest, overlapped>> PROVE TablesTyped'
  BY <1>a, <1>d, EntWritten
<1>e. ASSUME UNCHANGED <<sub, rest, overlapped>>,
             ent' \in [status : EntStatus, validUntil : Nat, inGrace : BOOLEAN]
      PROVE  TablesTyped'
  BY <1>a, <1>e, EntWritten
<1>1. CASE RefreshReadSubscription(r)
  <2>1. TablesTyped'
    BY <1>1, <1>d DEF RefreshReadSubscription
  <2>2. ASSUME Kept(r, "r_expire") PROVE Framed'
    BY <2>2, KeptFramed
  <2>3. ASSUME NEW status \in EntStatus, NEW validUntil, NEW inGrace,
               Loaded(r, "r_sync", status, validUntil, inGrace)
        PROVE  Framed'
    BY <2>3, WentFramed DEF Loaded
  <2>4. Framed'
    BY <1>1, <1>b, <2>2, <2>3, ProceedMoves, FramedMoves
  <2> QED
    BY <2>1, <2>4, TypeFromParts
<1>2. CASE RefreshWriteExpired(r)
  <2>1. ent' \in [status : EntStatus, validUntil : Nat, inGrace : BOOLEAN]
    BY <1>2, <1>a DEF RefreshWriteExpired, EntStatus
  <2> QED
    BY <1>2, <1>e, <2>1, ProceedMoves, FramedMoves, TypeFromParts DEF RefreshWriteExpired
<1>3. CASE RefreshSync(r)
  <2>1. ent' \in [status : EntStatus, validUntil : Nat, inGrace : BOOLEAN]
    BY <1>3, <1>a DEF RefreshSync, InMemory, Entitlement, At, FrameStatus
  <2> QED
    BY <1>3, <1>e, <2>1, ProceedMoves, FramedMoves, TypeFromParts DEF RefreshSync
<1>4. CASE ActivateDevice(r)
  <2>1. ent' \in [status : EntStatus, validUntil : Nat, inGrace : BOOLEAN]
    BY <1>4, <1>a DEF ActivateDevice, EntStatus
  <2>2. Framed'
    BY <1>4, <1>c, GotoFramed, ProceedMoves, FramedMoves DEF ActivateDevice
  <2> QED
    BY <1>4, <1>e, <2>1, <2>2, TypeFromParts DEF ActivateDevice
<1>5. CASE ActivateReload(r)
  <2>1. Framed'
    BY <1>5, ProceedMoves, WentFramed DEF Loaded
  <2> QED
    BY <1>5, <1>d, <2>1, TypeFromParts DEF ActivateReload
<1>6. CASE Issue(r)
  <2>1. licenceEnd' \in Nat
    BY <1>6, <1>a, LicenceDays, LaterType DEF Issue
  <2>2. TablesTyped'
    BY <1>6, <1>a, <2>1 DEF Issue, TablesTyped
  <2> QED
    BY <1>6, <2>2, ProceedMoves, FramedMoves, TypeFromParts DEF Issue
<1>7. CASE RenewCheckRevoked(r)
  <2>1. Framed'
    BY <1>7, <1>c, GotoFramed, ProceedMoves, FramedMoves DEF RenewCheckRevoked, At
  <2> QED
    BY <1>7, <1>d, <2>1, TypeFromParts DEF RenewCheckRevoked
<1>8. CASE RenewWriteEntitlement(r)
  <2>1. ent' \in [status : EntStatus, validUntil : Nat, inGrace : BOOLEAN]
    BY <1>8, <1>a DEF RenewWriteEntitlement, InMemory, Entitlement, At, FrameStatus
  <2> QED
    BY <1>8, <1>e, <2>1, ProceedMoves, FramedMoves, TypeFromParts DEF RenewWriteEntitlement
<1>9. CASE FailWriteSubscription(r)
  <2>1. sub' \in [status : SubStatus, end : Nat]
    BY <1>9, <1>a DEF FailWriteSubscription, SubStatus
  <2>2. Framed'
    BY <1>9, <1>c, GotoFramed DEF FailWriteSubscription
  <2> QED
    BY <1>9, <1>a, <2>1, <2>2, SubWritten, TypeFromParts DEF FailWriteSubscription
<1>10. CASE FailWriteEntitlement(r)
  <2>1. ent' \in [status : EntStatus, validUntil : Nat, inGrace : BOOLEAN]
    BY <1>10, <1>a, <1>b, GraceForType DEF FailWriteEntitlement, Entitlement
  <2> QED
    BY <1>10, <1>e, <2>1, ProceedMoves, FramedMoves, TypeFromParts DEF FailWriteEntitlement
<1>11. CASE RefundWriteEntitlement(r)
  <2>1. ent' \in [status : EntStatus, validUntil : Nat, inGrace : BOOLEAN]
    BY <1>11, <1>a DEF RefundWriteEntitlement, EntStatus
  <2>2. TablesTyped'
    BY <1>11, <1>a, <2>1 DEF RefundWriteEntitlement, TablesTyped
  <2> QED
    BY <1>11, <2>2, ProceedMoves, FramedMoves, TypeFromParts DEF RefundWriteEntitlement
<1>12. CASE SyncWriteSubscription(r)
  <2> DEFINE end == IF req[r].validUntil = 0 THEN sub.end ELSE req[r].validUntil
  <2>1. req[r].status \in SubStatus /\ end \in Nat
    BY <1>12, <1>a, AnswersAssumption DEF SyncWriteSubscription, At, FrameStatus, SubStatus
  <2>2. /\ sub' = [status |-> req[r].status, end |-> end] /\ highEnd' \in Nat
        /\ UNCHANGED <<now, ent, licenceEnd, refunded, crashes>>
    BY <1>12, <2>1, WriteSubscriptionType DEF SyncWriteSubscription
  <2>3. TablesTyped'
    BY <1>12, <1>a, <2>1, <2>2 DEF SyncWriteSubscription, TablesTyped
  <2>4. Framed'
    BY <1>12, <1>c, GotoFramed DEF SyncWriteSubscription, At
  <2> QED
    BY <2>3, <2>4, TypeFromParts
<1>13. CASE SyncCheckRevoked(r)
  <2>1. Framed'
    BY <1>13, <1>c, GotoFramed, ProceedMoves, FramedMoves DEF SyncCheckRevoked, At
  <2> QED
    BY <1>13, <1>d, <2>1, TypeFromParts DEF SyncCheckRevoked
<1>14. CASE SyncWriteEntitlement(r)
  <2>1. Mapped(req[r].status) \in EntStatus
    BY <1>14, <1>a, AnswersAssumption DEF SyncWriteEntitlement, At, FrameStatus, Mapped, EntStatus
  <2>2. ent' \in [status : EntStatus, validUntil : Nat, inGrace : BOOLEAN]
    <3> DEFINE v == IF req[r].status = "past_due" /\ GraceDays # 0 THEN req[r].end + GraceDays
                    ELSE IF req[r].validUntil = 0 THEN ent.validUntil ELSE req[r].validUntil
    <3>1. v \in Nat
      BY <1>a, GraceForType
    <3>2. ent' = Entitlement(Mapped(req[r].status), v, req[r].status = "past_due")
      BY <1>14 DEF SyncWriteEntitlement
    <3>3. (req[r].status = "past_due") \in BOOLEAN
      OBVIOUS
    <3> HIDE DEF v
    <3> QED
      BY <2>1, <3>1, <3>2, <3>3 DEF Entitlement
  <2>3. Framed'
    BY <1>14, ProceedMoves, FramedMoves DEF SyncWriteEntitlement
  <2> QED
    BY <1>14, <1>e, <2>2, <2>3, TypeFromParts DEF SyncWriteEntitlement
<1>15. CASE CompensateWriteSubscription(r)
  <2>1. /\ sub' = [status |-> sub.status, end |-> req[r].end] /\ highEnd' \in Nat
        /\ UNCHANGED <<now, ent, licenceEnd, refunded, crashes>>
    BY <1>15, <1>a, WriteSubscriptionType DEF CompensateWriteSubscription
  <2>2. TablesTyped'
    BY <1>15, <1>a, <2>1 DEF CompensateWriteSubscription, TablesTyped
  <2>3. Framed'
    BY <1>15, <1>c, GotoFramed DEF CompensateWriteSubscription
  <2> QED
    BY <2>2, <2>3, TypeFromParts
<1>16. CASE CompensateReadEntitlement(r)
  <2>1. Framed'
    <3>1. Went(r, "c_ent", req[r].status, req[r].validUntil, req[r].inGrace,
               ent.validUntil + Compensation, req[r].overtaken)
      BY <1>16, ProceedMoves
    <3> QED
      BY <3>1, WentFramed
  <2> QED
    BY <1>16, <1>d, <2>1, TypeFromParts DEF CompensateReadEntitlement
<1>17. CASE WriteValidUntil(r)
  <2>1. ent' \in [status : EntStatus, validUntil : Nat, inGrace : BOOLEAN]
    BY <1>17, <1>a DEF WriteValidUntil
  <2> QED
    BY <1>17, <1>e, <2>1, ProceedMoves, FramedMoves, TypeFromParts DEF WriteValidUntil
<1> QED
  BY <1>1, <1>2, <1>3, <1>4, <1>5, <1>6, <1>7, <1>8, <1>9, <1>10, <1>11, <1>12, <1>13, <1>14,
     <1>15, <1>16, <1>17 DEF Proceed

LEMMA TypeStep ==
  ASSUME TypeInv, [Next]_vars
  PROVE  TypeInv'
<1>a. TablesTyped /\ Framed /\ sub \in [status : SubStatus, end : Nat]
  BY TypeParts, PartsOfType
<1>1. ASSUME NEW r \in Requests, Crash(r) PROVE TypeInv'
  <2>1. TablesTyped'
    BY <1>a, <1>1, DaysAssumption DEF Crash, TablesTyped
  <2> QED
    BY <1>1, <2>1, ProceedMoves, FramedMoves, TypeFromParts DEF Crash
<1>2. CASE CancelWriteSubscription
  <2>1. sub' \in [status : SubStatus, end : Nat] /\ overlapped' \in BOOLEAN
    BY <1>a, <1>2 DEF CancelWriteSubscription, SubStatus, TablesTyped
  <2>2. TablesTyped'
    BY <1>2, <2>1, SubWritten DEF CancelWriteSubscription
  <2> QED
    BY <1>a, <1>2, <2>2, TypeFromParts DEF CancelWriteSubscription, Framed
<1>3. CASE Tick
  <2>1. TablesTyped'
    BY <1>a, <1>3, DaysAssumption DEF Tick, TablesTyped
  <2> QED
    BY <1>a, <1>3, <2>1, TypeFromParts DEF Tick, Framed
<1>4. CASE UNCHANGED vars
  BY <1>a, <1>4, TypeFromParts DEF vars, TablesTyped, Framed
<1> QED
  BY <1>1, <1>2, <1>3, <1>4, StartType, ProceedType DEF Next

\* Rows and frames hold values of their types: what a refresh writes back, or an answer of the
\* provider is mapped to, is always a status the entitlements table knows.
THEOREM TypeCorrect == Spec => []TypeOK
<1>1. TypeInv /\ [Next]_vars => TypeInv'
  BY TypeStep
<1>2. TypeInv => TypeOK
  BY DEF TypeInv
<1> QED
  BY TypeInit, <1>1, <1>2, PTL DEF Spec

(***************************************************************************)
(* What brings a revoked entitlement back.                                 *)
(***************************************************************************)

LEMMA OvertakenMoved ==
  ASSUME TypeInv, OvertakenInv, NEW r \in Requests,
         \A q \in Requests \ {r} : req'[q] = req[q],
         ent'.status = "revoked" => ent.status = "revoked",
         OvertakenFrame(req'[r], ent'.status = "revoked")
  PROVE  OvertakenInv'
BY DEF OvertakenInv, OvertakenFrame

\* A frame that goes to a statement from which no entitlement is written back.
LEMMA OvertakenHarmless ==
  ASSUME TypeInv, OvertakenInv, NEW r \in Requests, NEW step, NEW status, NEW validUntil,
         NEW inGrace, NEW end, NEW overtaken,
         Went(r, step, status, validUntil, inGrace, end, overtaken),
         step \notin {"r_sub", "r_expire", "r_sync", "a_device", "n_check", "n_ent"},
         ent'.status = "revoked" => ent.status = "revoked"
  PROVE  OvertakenInv'
<1>1. OvertakenFrame(req'[r], ent'.status = "revoked")
  BY DEF Went, OvertakenFrame
<1> QED
  BY <1>1, OvertakenMoved DEF Went

LEMMA OvertakenEnded ==
  ASSUME TypeInv, OvertakenInv, NEW r \in Requests,
         ent'.status = "revoked" => ent.status = "revoked"
  PROVE  /\ Ended(r) => OvertakenInv'
         /\ \A status, validUntil, inGrace :
              Checked(r, status, validUntil, inGrace) => OvertakenInv'
         /\ \A step :
              /\ Kept(r, step)
              /\ step \notin {"r_sub", "r_expire", "r_sync", "a_device", "n_check", "n_ent"}
              => OvertakenInv'
<1>1. Ended(r) => OvertakenInv'
  BY OvertakenHarmless DEF Ended
<1>2. ASSUME NEW status, NEW validUntil, NEW inGrace, Checked(r, status, validUntil, inGrace)
      PROVE  OvertakenInv'
  <2>1. CASE Loaded(r, "issue", status, validUntil, inGrace)
    BY <2>1, OvertakenHarmless DEF Loaded
  <2> QED
    BY <1>1, <1>2, <2>1 DEF Checked
<1>3. ASSUME NEW step, Kept(r, step),
             step \notin {"r_sub", "r_expire", "r_sync", "a_device", "n_check", "n_ent"}
      PROVE  OvertakenInv'
  BY <1>3, OvertakenHarmless DEF Kept
<1> QED
  BY <1>1, <1>2, <1>3

\* Every request in flight has been overtaken.
LEMMA OvertakenAll ==
  ASSUME TypeInv, OvertakenInv, NEW r \in Requests, WentOvertaking(r)
  PROVE  OvertakenInv'
<1>1. ASSUME NEW q \in Requests PROVE OvertakenFrame(req'[q], ent'.status = "revoked")
  BY DEF WentOvertaking, OvertakenInv, OvertakenFrame
<1> QED
  BY <1>1 DEF OvertakenInv

\* What a step does to a revoked entitlement.
Revives(r) ==
    ent.status = "revoked" /\ ent'.status # "revoked" =>
        req'[r] # req[r] /\ (req[r].overtaken \/ req[r].pc \in {"f_ent", "s_ent"})

LEMMA OvertakenInit == Init => OvertakenInv
BY IdleFrame DEF Init, OvertakenInv, OvertakenFrame

LEMMA StartKeepsEnt ==
  ASSUME NEW r \in Requests, Start(r)
  PROVE  UNCHANGED ent
<1>1. CASE SyncReadSubscription(r)
  BY <1>1, Zenon DEF SyncReadSubscription
<1>2. CASE RenewWriteSubscription(r)
  BY <1>2 DEF RenewWriteSubscription, WriteSubscription
<1> QED
  BY <1>1, <1>2
     DEF Start, RefreshReadEntitlement, ActivateReadEntitlement, FailReadSubscription,
         RefundWriteSubscription, CompensateReadSubscription, ExtendReadEntitlement

LEMMA OvertakenStart ==
  ASSUME TypeInv, OvertakenInv, NEW r \in Requests, Start(r)
  PROVE  OvertakenInv' /\ ent' = ent
<1>1. ent' = ent
  BY StartKeepsEnt
<1>3. CASE RefreshReadEntitlement(r)
  <2>1. ent.status # "revoked"
    BY <1>3 DEF RefreshReadEntitlement, Usable
  <2>2. Went(r, "r_sub", ent.status, ent.validUntil, ent.inGrace, 0, FALSE)
    BY <1>3, StartMoves
  <2>3. OvertakenFrame(req'[r], ent'.status = "revoked")
    BY <1>1, <2>1, <2>2 DEF Went, OvertakenFrame
  <2> QED
    BY <1>1, <2>2, <2>3, OvertakenMoved DEF Went
<1>4. CASE ActivateReadEntitlement(r)
  <2>1. ent.status # "revoked"
    BY <1>4 DEF ActivateReadEntitlement, Usable
  <2>2. Went(r, "a_device", ent.status, ent.validUntil, ent.inGrace, 0, FALSE)
    BY <1>4, StartMoves
  <2>3. OvertakenFrame(req'[r], ent'.status = "revoked")
    BY <1>1, <2>1, <2>2 DEF Went, OvertakenFrame
  <2> QED
    BY <1>1, <2>2, <2>3, OvertakenMoved DEF Went
<1>5. CASE RenewWriteSubscription(r)
  <2>1. Went(r, "n_check", "active", now + Period, FALSE, 0, FALSE)
    BY <1>5, StartMoves
  <2>2. OvertakenFrame(req'[r], ent'.status = "revoked")
    BY <2>1 DEF Went, OvertakenFrame
  <2> QED
    BY <1>1, <2>1, <2>2, OvertakenMoved DEF Went
<1>6. CASE FailReadSubscription(r)
  <2>1. Went(r, "f_sub", "none", 0, FALSE, sub.end, FALSE)
    BY <1>6, StartMoves
  <2>2. OvertakenFrame(req'[r], ent'.status = "revoked")
    BY <2>1 DEF Went, OvertakenFrame
  <2> QED
    BY <1>1, <2>1, <2>2, OvertakenMoved DEF Went
<1>7. CASE RefundWriteSubscription(r)
  <2>1. Went(r, "d_ent", "none", 0, FALSE, 0, FALSE)
    BY <1>7, StartMoves
  <2>2. OvertakenFrame(req'[r], ent'.status = "revoked")
    BY <2>1 DEF Went, OvertakenFrame
  <2> QED
    BY <1>1, <2>1, <2>2, OvertakenMoved DEF Went
<1>8. CASE SyncReadSubscription(r)
  <2>1. PICK status \in Answers, reported \in {0, now + Period} :
          Went(r, "s_sub", status, reported, FALSE, sub.end, FALSE)
    BY <1>8, StartMoves
  <2>2. OvertakenFrame(req'[r], ent'.status = "revoked")
    BY <2>1 DEF Went, OvertakenFrame
  <2> QED
    BY <1>1, <2>1, <2>2, OvertakenMoved DEF Went
<1>9. CASE CompensateReadSubscription(r)
  <2>1. Went(r, "c_sub", "none", 0, FALSE, sub.end + Compensation, FALSE)
    BY <1>9, StartMoves
  <2>2. OvertakenFrame(req'[r], ent'.status = "revoked")
    BY <2>1 DEF Went, OvertakenFrame
  <2> QED
    BY <1>1, <2>1, <2>2, OvertakenMoved DEF Went
<1>10. CASE ExtendReadEntitlement(r)
  <2>1. Went(r, "e_ent", "none", 0, FALSE, ent.validUntil + Compensation, FALSE)
    BY <1>10, StartMoves
  <2>2. OvertakenFrame(req'[r], ent'.status = "revoked")
    BY <2>1 DEF Went, OvertakenFrame
  <2> QED
    BY <1>1, <2>1, <2>2, OvertakenMoved DEF Went
<1> QED
  BY <1>1, <1>3, <1>4, <1>5, <1>6, <1>7, <1>8, <1>9, <1>10 DEF Start

LEMMA OvertakenProceed ==
  ASSUME TypeInv, OvertakenInv, NEW r \in Requests, Proceed(r)
  PROVE  OvertakenInv' /\ Revives(r)
<1>a. /\ OvertakenFrame(req[r], ent.status = "revoked")
      /\ ent \in [status : EntStatus, validUntil : Nat, inGrace : BOOLEAN]
  BY TypeParts DEF OvertakenInv
<1>b. {"r_expire", "r_sync", "issue", "a_reload", "n_ent", "f_ent", "s_check", "s_ent", "c_readent"}
        \subseteq Pc
  BY DEF Pc
<1>c. ASSUME UNCHANGED ent PROVE Revives(r)
  BY <1>c DEF Revives
<1>d. ASSUME req[r].pc # "idle", Ended(r), ent.status = "revoked" => req[r].overtaken
      PROVE  Revives(r)
  BY <1>d DEF Revives, Ended, Went
<1>1. CASE RefreshReadSubscription(r)
  <2>1. req[r].pc = "r_sub" /\ UNCHANGED ent
    BY <1>1 DEF RefreshReadSubscription, At
  <2>2. ASSUME NEW step \in {"r_expire", "r_sync"}, NEW status, NEW validUntil, NEW inGrace,
               Loaded(r, step, status, validUntil, inGrace),
               step = "r_sync" => status \in {"active", "grace"}
        PROVE  OvertakenInv'
    <3>1. OvertakenFrame(req'[r], ent'.status = "revoked")
      BY <1>a, <2>1, <2>2 DEF Loaded, Went, OvertakenFrame
    <3> QED
      BY <2>1, <2>2, <3>1, OvertakenMoved DEF Loaded, Went
  <2>3. Kept(r, "r_expire") => OvertakenInv'
    BY <2>2 DEF Kept, Loaded
  <2>4. Loaded(r, "r_sync", "active", sub.end, FALSE) => OvertakenInv'
    BY <2>2
  <2>5. Loaded(r, "r_sync", "grace", sub.end + GraceFor, TRUE) => OvertakenInv'
    BY <2>2
  <2> QED
    BY <1>1, <1>c, <2>1, <2>3, <2>4, <2>5, ProceedMoves, OvertakenEnded
<1>2. CASE RefreshWriteExpired(r)
  <2>1. req[r].pc = "r_expire" /\ ent'.status = "expired" /\ Ended(r)
    BY <1>2, <1>a, ProceedMoves DEF RefreshWriteExpired, At
  <2>2. OvertakenInv'
    BY <2>1, OvertakenEnded
  <2> QED
    BY <1>a, <1>d, <2>1, <2>2 DEF OvertakenFrame
<1>3. CASE RefreshSync(r)
  <2>1. /\ req[r].pc = "r_sync" /\ ent'.status = req[r].status
        /\ Checked(r, req[r].status, req[r].validUntil, req[r].inGrace)
    BY <1>3, ProceedMoves DEF RefreshSync, At, InMemory, Entitlement
  <2>2. req[r].status \in {"active", "grace"} /\ (ent.status = "revoked" => req[r].overtaken)
    BY <1>a, <2>1 DEF OvertakenFrame
  <2>3. OvertakenInv'
    BY <2>1, <2>2, OvertakenEnded
  <2>4. req'[r] # req[r]
    BY <2>1 DEF Checked, Ended, Loaded, Went
  <2> QED
    BY <2>2, <2>3, <2>4 DEF Revives
<1>4. CASE ActivateDevice(r)
  <2>1. req[r].pc = "a_device" /\ (ent.status = "revoked" => req[r].overtaken)
    BY <1>4, <1>a DEF ActivateDevice, At, OvertakenFrame
  <2>2. ent' = ent \/ ent'.status = "active"
    BY <1>4, <1>a DEF ActivateDevice
  <2>3. Kept(r, "a_reload") \/ Kept(r, "issue") \/ Ended(r)
    BY <1>4, <1>b, ProceedMoves DEF ActivateDevice
  <2>4. OvertakenInv'
    BY <2>2, <2>3, OvertakenEnded
  <2>5. req'[r] # req[r]
    BY <2>1, <2>3 DEF Kept, Ended, Went
  <2> QED
    BY <2>1, <2>4, <2>5 DEF Revives
<1>5. CASE ActivateReload(r)
  <2>1. UNCHANGED ent /\ Loaded(r, "issue", ent.status, ent.validUntil, ent.inGrace)
    BY <1>5, ProceedMoves DEF ActivateReload
  <2> QED
    BY <1>c, <2>1, OvertakenHarmless DEF Loaded
<1>6. CASE Issue(r)
  BY <1>6, <1>c, ProceedMoves, OvertakenEnded DEF Issue
<1>7. CASE RenewCheckRevoked(r)
  <2>1. req[r].pc = "n_check" /\ UNCHANGED ent
    BY <1>7 DEF RenewCheckRevoked, At
  <2>2. CASE Kept(r, "n_ent") /\ ent.status # "revoked"
    <3>1. OvertakenFrame(req'[r], ent'.status = "revoked")
      BY <1>a, <2>1, <2>2 DEF Kept, Went, OvertakenFrame
    <3> QED
      BY <1>c, <2>1, <2>2, <3>1, OvertakenMoved DEF Kept, Went
  <2>3. CASE Ended(r)
    BY <1>c, <2>1, <2>3, OvertakenEnded
  <2> QED
    BY <1>7, <1>b, <2>2, <2>3, ProceedMoves DEF RenewCheckRevoked
<1>8. CASE RenewWriteEntitlement(r)
  <2>1. req[r].pc = "n_ent" /\ ent'.status = req[r].status /\ Ended(r)
    BY <1>8, ProceedMoves DEF RenewWriteEntitlement, At, InMemory, Entitlement
  <2>2. OvertakenInv'
    BY <1>a, <2>1, OvertakenEnded DEF OvertakenFrame
  <2> QED
    BY <1>a, <1>d, <2>1, <2>2 DEF OvertakenFrame
<1>9. CASE FailWriteSubscription(r)
  BY <1>9, <1>b, <1>c, ProceedMoves, OvertakenEnded DEF FailWriteSubscription
<1>10. CASE FailWriteEntitlement(r)
  <2>1. req[r].pc = "f_ent" /\ ent'.status = "grace" /\ Ended(r)
    BY <1>10, ProceedMoves DEF FailWriteEntitlement, At, Entitlement
  <2>2. OvertakenInv'
    BY <2>1, OvertakenEnded
  <2> QED
    BY <2>1, <2>2 DEF Revives, Ended, Went
<1>11. CASE RefundWriteEntitlement(r)
  <2>1. WentOvertaking(r) /\ ent'.status = "revoked"
    BY <1>11, <1>a, ProceedMoves DEF RefundWriteEntitlement
  <2> QED
    BY <2>1, OvertakenAll DEF Revives
<1>12. CASE SyncWriteSubscription(r)
  <2>1. UNCHANGED ent
    BY <1>12 DEF SyncWriteSubscription, WriteSubscription
  <2> QED
    BY <1>12, <1>b, <1>c, <2>1, ProceedMoves, OvertakenEnded DEF SyncWriteSubscription
<1>13. CASE SyncCheckRevoked(r)
  BY <1>13, <1>b, <1>c, ProceedMoves, OvertakenEnded DEF SyncCheckRevoked
<1>14. CASE SyncWriteEntitlement(r)
  <2>1. req[r].pc = "s_ent" /\ ent'.status = Mapped(req[r].status)
    BY <1>14 DEF SyncWriteEntitlement, At, Entitlement
  <2>2. CASE WentOvertaking(r)
    BY <2>1, <2>2, OvertakenAll DEF Revives, WentOvertaking
  <2>3. CASE Ended(r) /\ req[r].status # "revoked"
    <3>1. ent'.status # "revoked"
      BY <2>1, <2>3 DEF Mapped
    <3>2. OvertakenInv'
      BY <2>3, <3>1, OvertakenEnded
    <3> QED
      BY <2>1, <2>3, <3>2 DEF Revives, Ended, Went
  <2> QED
    BY <1>14, <2>2, <2>3, ProceedMoves DEF SyncWriteEntitlement
<1>15. CASE CompensateWriteSubscription(r)
  <2>1. UNCHANGED ent
    BY <1>15 DEF CompensateWriteSubscription, WriteSubscription
  <2> QED
    BY <1>15, <1>b, <1>c, <2>1, ProceedMoves, OvertakenEnded DEF CompensateWriteSubscription
<1>16. CASE CompensateReadEntitlement(r)
  <2>1. /\ UNCHANGED ent
        /\ Went(r, "c_ent", req[r].status, req[r].validUntil, req[r].inGrace,
                ent.validUntil + Compensation, req[r].overtaken)
    BY <1>16, ProceedMoves DEF CompensateReadEntitlement
  <2> QED
    BY <1>c, <2>1, OvertakenHarmless
<1>17. CASE WriteValidUntil(r)
  <2>1. ent'.status = ent.status /\ Ended(r)
    BY <1>17, <1>a, ProceedMoves DEF WriteValidUntil
  <2> QED
    BY <2>1, OvertakenEnded DEF Revives
<1> QED
  BY <1>1, <1>2, <1>3, <1>4, <1>5, <1>6, <1>7, <1>8, <1>9, <1>10, <1>11, <1>12, <1>13, <1>14,
     <1>15, <1>16, <1>17 DEF Proceed

LEMMA OvertakenStep ==
  ASSUME TypeInv, OvertakenInv, [Next]_vars
  PROVE  /\ OvertakenInv'
         /\ UNCHANGED ent \/ \E r \in Requests : Revives(r)
<1>1. ASSUME NEW r \in Requests, Crash(r) PROVE OvertakenInv' /\ UNCHANGED ent
  BY <1>1, ProceedMoves, OvertakenEnded DEF Crash
<1>2. CASE CancelWriteSubscription
  BY <1>2 DEF CancelWriteSubscription, OvertakenInv
<1>3. CASE Tick
  BY <1>3 DEF Tick, OvertakenInv
<1>4. CASE UNCHANGED vars
  BY <1>4 DEF vars, OvertakenInv
<1> QED
  BY <1>1, <1>2, <1>3, <1>4, OvertakenStart, OvertakenProceed DEF Next

\* A revoked entitlement comes back only through a failed payment, an answer of the provider, or
\* a request that was under way when it was revoked: no refresh, activation or renewal that
\* begins afterwards revives it, however the requests interleave and whichever of them die.
THEOREM RevivedOnlyByTheorem == Spec => RevivedOnlyBy
<1> DEFINE Revival ==
      ent.status = "revoked" /\ ent'.status # "revoked" =>
        \E r \in Requests :
            /\ req'[r] # req[r]
            /\ req[r].overtaken \/ req[r].pc \in {"f_ent", "s_ent"}
<1>1. TypeInv /\ OvertakenInv /\ [Next]_vars => TypeInv' /\ OvertakenInv'
  BY TypeStep, OvertakenStep
<1>2. TypeInv /\ OvertakenInv /\ [Next]_vars => [Revival]_vars
  BY OvertakenStep DEF Revives
<1> QED
  BY TypeInit, OvertakenInit, <1>1, <1>2, PTL DEF Spec, RevivedOnlyBy

(***************************************************************************)
(* Grace: nothing outlives what was paid for by more than a grace period.  *)
(***************************************************************************)

\* What a grace period after an earlier day covers, one after a later day covers.
LEMMA Raised ==
  \A low, high, day \in Nat :
    /\ low <= high => low + GraceFor <= high + GraceFor
    /\ low <= high /\ day <= low + GraceFor => day <= high + GraceFor
    /\ low <= high /\ day <= low + GraceFor + 1 => day <= high + GraceFor + 1
    /\ day <= high => day <= high + GraceFor
    /\ low <= high /\ day <= low => day <= high
BY GraceForType

LEMMA CoveredMoved ==
  ASSUME TypeInv, GraceInv, NEW r \in Requests, now' = now, highEnd' \in Nat, highEnd <= highEnd',
         TablesCovered', FrameCovered(req'[r], now', highEnd'),
         \A q \in Requests \ {r} :
            /\ req'[q].pc = req[q].pc
            /\ req[q].pc # "idle" =>
                 req'[q].validUntil = req[q].validUntil /\ req'[q].end = req[q].end
  PROVE  GraceInv'
<1>1. ASSUME NEW q \in Requests \ {r} PROVE FrameCovered(req'[q], now', highEnd')
  <2>1. FrameCovered(req[q], now, highEnd)
    BY DEF GraceInv
  <2>2. /\ req[q].validUntil \in Nat /\ req[q].end \in Nat /\ highEnd \in Nat /\ now \in Nat
        /\ GraceFor \in Nat
    BY TypeParts, GraceForType
  <2>3. /\ req[q].validUntil <= highEnd + GraceFor => req[q].validUntil <= highEnd' + GraceFor
        /\ now <= highEnd + GraceFor => now <= highEnd' + GraceFor
        /\ req[q].end <= highEnd => req[q].end <= highEnd'
    <3>1. ASSUME NEW day \in Nat
          PROVE  /\ day <= highEnd + GraceFor => day <= highEnd' + GraceFor
                 /\ day <= highEnd => day <= highEnd'
      BY <2>2, Raised, Zenon
    <3> QED
      BY <2>2, <3>1, Zenon
  <2>4. req[q].pc = "idle" => FrameCovered(req'[q], now', highEnd')
    BY DEF FrameCovered
  <2>5. ASSUME req[q].pc # "idle" PROVE FrameCovered(req'[q], now', highEnd')
    <3>1. /\ req'[q].pc = req[q].pc /\ req'[q].validUntil = req[q].validUntil
          /\ req'[q].end = req[q].end
      BY <2>5
    <3> QED
      BY <2>1, <2>2, <2>3, <3>1 DEF FrameCovered
  <2> QED
    BY <2>4, <2>5
<1> QED
  BY <1>1 DEF GraceInv

\* An action that pays for nothing and leaves the clock alone.
LEMMA CoveredWent ==
  ASSUME TypeInv, GraceInv, NEW r \in Requests, now' = now, highEnd' = highEnd, TablesCovered',
         NEW step, NEW status, NEW validUntil, NEW inGrace, NEW end, NEW overtaken,
         Went(r, step, status, validUntil, inGrace, end, overtaken),
         FrameCovered(req'[r], now, highEnd)
  PROVE  GraceInv'
BY TypeParts, CoveredMoved DEF Went

LEMMA CoveredEnded ==
  ASSUME TypeInv, GraceInv, NEW r \in Requests, now' = now, highEnd' = highEnd, TablesCovered'
  PROVE  /\ Ended(r) => GraceInv'
         /\ WentOvertaking(r) => GraceInv'
<1>1. ASSUME Ended(r) PROVE GraceInv'
  <2>1. FrameCovered(req'[r], now, highEnd)
    BY <1>1 DEF Ended, Went, FrameCovered
  <2> QED
    BY <1>1, <2>1, CoveredWent DEF Ended
<1>2. ASSUME WentOvertaking(r) PROVE GraceInv'
  <2>1. FrameCovered(req'[r], now, highEnd)
    BY <1>2 DEF WentOvertaking, FrameCovered
  <2> QED
    BY <1>2, <2>1, TypeParts, CoveredMoved DEF WentOvertaking
<1> QED
  BY <1>1, <1>2

LEMMA CoveredChecked ==
  ASSUME TypeInv, GraceInv, NEW r \in Requests, now' = now, highEnd' = highEnd, TablesCovered',
         NEW status, NEW validUntil \in Nat, NEW inGrace, Checked(r, status, validUntil, inGrace),
         validUntil <= highEnd + GraceFor
  PROVE  GraceInv'
<1>1. CASE Ended(r)
  BY <1>1, CoveredEnded
<1>2. CASE now <= validUntil /\ Loaded(r, "issue", status, validUntil, inGrace)
  <2>1. now \in Nat /\ highEnd \in Nat /\ GraceFor \in Nat
    BY TypeParts, GraceForType
  <2>2. FrameCovered(req'[r], now, highEnd)
    BY <1>2, <2>1 DEF Loaded, Went, FrameCovered
  <2> QED
    BY <1>2, <2>2, CoveredWent DEF Loaded
<1> QED
  BY <1>1, <1>2 DEF Checked

LEMMA CoveredTables ==
  ASSUME GraceInv, sub'.end = sub.end, ent'.validUntil = ent.validUntil,
         licenceEnd' = licenceEnd, highEnd' = highEnd
  PROVE  TablesCovered'
BY DEF GraceInv, TablesCovered

LEMMA GraceInit == Init => GraceInv
<1> SUFFICES ASSUME Init PROVE GraceInv
  OBVIOUS
<1>1. TablesCovered
  BY GraceForType, DaysAssumption DEF Init, TablesCovered, Entitlement
<1>2. \A r \in Requests : FrameCovered(req[r], now, highEnd)
  BY IdleFrame DEF Init, FrameCovered
<1> QED
  BY <1>1, <1>2 DEF GraceInv

LEMMA GraceStart ==
  ASSUME NoAddedDays, TypeInv, GraceInv, NEW r \in Requests, Start(r)
  PROVE  GraceInv'
<1>a. /\ sub.end \in Nat /\ ent.validUntil \in Nat /\ highEnd \in Nat /\ now \in Nat
      /\ GraceFor \in Nat /\ Period \in Nat /\ licenceEnd \in Nat
      /\ sub.end <= highEnd /\ ent.validUntil <= highEnd + GraceFor
      /\ licenceEnd <= highEnd + GraceFor + 1
  BY TypeParts, GraceForType DEF GraceInv, TablesCovered
<1>1. CASE RefreshReadEntitlement(r)
  <2>1. Went(r, "r_sub", ent.status, ent.validUntil, ent.inGrace, 0, FALSE)
    BY <1>1, StartMoves
  <2>2. UNCHANGED <<sub, ent, rest>>
    BY <1>1 DEF RefreshReadEntitlement
  <2>3. FrameCovered(req'[r], now, highEnd)
    BY <1>a, <2>1 DEF Went, FrameCovered
  <2> QED
    BY <2>1, <2>2, <2>3, CoveredTables, CoveredWent DEF rest
<1>2. CASE ActivateReadEntitlement(r)
  <2>1. Went(r, "a_device", ent.status, ent.validUntil, ent.inGrace, 0, FALSE)
    BY <1>2, StartMoves
  <2>2. UNCHANGED <<sub, ent, rest>> /\ ~(ent.validUntil < now)
    BY <1>2 DEF ActivateReadEntitlement, dateIsPast
  <2>3. FrameCovered(req'[r], now, highEnd)
    BY <1>a, <2>1, <2>2 DEF Went, FrameCovered
  <2> QED
    BY <2>1, <2>2, <2>3, CoveredTables, CoveredWent DEF rest
<1>3. CASE RenewWriteSubscription(r)
  <2>1. Went(r, "n_check", "active", now + Period, FALSE, 0, FALSE)
    BY <1>3, StartMoves
  <2>2. WriteSubscription("active", now + Period) /\ "active" \in SubStatus /\ now + Period \in Nat
    BY <1>a, <1>3 DEF RenewWriteSubscription, SubStatus
  <2>3. /\ sub'.end = now + Period /\ highEnd' \in Nat /\ highEnd <= highEnd'
        /\ now + Period <= highEnd'
        /\ UNCHANGED <<now, ent, licenceEnd, refunded, crashes>>
    BY <2>2, WriteSubscriptionType
  <2>4. /\ now + Period <= highEnd' + GraceFor /\ highEnd + GraceFor <= highEnd' + GraceFor
        /\ ent'.validUntil <= highEnd' + GraceFor /\ licenceEnd' <= highEnd' + GraceFor + 1
    <3>1. ent'.validUntil = ent.validUntil /\ licenceEnd' = licenceEnd
      BY <2>3
    <3>2. highEnd' \in Nat /\ highEnd <= highEnd' /\ now + Period <= highEnd'
      BY <2>3
    <3>3. ent.validUntil <= highEnd' + GraceFor /\ licenceEnd <= highEnd' + GraceFor + 1
      BY <1>a, <3>2, Raised
    <3>4. highEnd + GraceFor <= highEnd' + GraceFor
      BY <1>a, <3>2, Raised
    <3>5. now + Period \in Nat
      BY <1>a
    <3>6. now + Period <= highEnd' + GraceFor
      BY <3>2, <3>5, Raised
    <3> QED
      BY <3>1, <3>3, <3>4, <3>6
  <2>5. FrameCovered(req'[r], now', highEnd')
    BY <2>1, <2>4 DEF Went, FrameCovered
  <2>6. TablesCovered'
    BY <2>3, <2>4 DEF TablesCovered
  <2> QED
    BY <2>1, <2>3, <2>5, <2>6, CoveredMoved DEF Went
<1>4. CASE FailReadSubscription(r)
  <2>1. Went(r, "f_sub", "none", 0, FALSE, sub.end, FALSE)
    BY <1>4, StartMoves
  <2>2. UNCHANGED <<sub, ent, rest>>
    BY <1>4 DEF FailReadSubscription
  <2>3. FrameCovered(req'[r], now, highEnd)
    BY <1>a, <2>1 DEF Went, FrameCovered
  <2> QED
    BY <2>1, <2>2, <2>3, CoveredTables, CoveredWent DEF rest
<1>5. CASE RefundWriteSubscription(r)
  <2>1. Went(r, "d_ent", "none", 0, FALSE, 0, FALSE)
    BY <1>5, StartMoves
  <2>2. UNCHANGED <<ent, rest>> /\ sub'.end = sub.end
    BY <1>5, TypeParts DEF RefundWriteSubscription
  <2>3. FrameCovered(req'[r], now, highEnd)
    BY <2>1 DEF Went, FrameCovered
  <2> QED
    BY <2>1, <2>2, <2>3, CoveredTables, CoveredWent DEF rest
<1>6. CASE SyncReadSubscription(r)
  <2>1. PICK status \in Answers, reported \in {0, now + Period} :
          Went(r, "s_sub", status, reported, FALSE, sub.end, FALSE)
    BY <1>6, StartMoves
  <2>2. UNCHANGED <<sub, ent, rest>>
    BY <1>6, Zenon DEF SyncReadSubscription
  <2>3. FrameCovered(req'[r], now, highEnd)
    BY <1>a, <2>1 DEF Went, FrameCovered
  <2> QED
    BY <2>1, <2>2, <2>3, CoveredTables, CoveredWent DEF rest
<1>7. ASSUME CompensateReadSubscription(r) \/ ExtendReadEntitlement(r) PROVE FALSE
  BY <1>7 DEF CompensateReadSubscription, ExtendReadEntitlement, Calls, NoAddedDays
<1> QED
  BY <1>1, <1>2, <1>3, <1>4, <1>5, <1>6, <1>7 DEF Start

LEMMA GraceProceed ==
  ASSUME TypeInv, GraceInv, NEW r \in Requests, Proceed(r)
  PROVE  GraceInv'
<1>a. /\ sub.end \in Nat /\ ent.validUntil \in Nat /\ highEnd \in Nat /\ now \in Nat
      /\ GraceFor \in Nat /\ GraceDays \in Nat /\ GraceDays <= GraceFor /\ licenceEnd \in Nat
      /\ sub.end <= highEnd /\ ent.validUntil <= highEnd + GraceFor
      /\ licenceEnd <= highEnd + GraceFor + 1
      /\ req[r].validUntil \in Nat /\ req[r].end \in Nat /\ FrameCovered(req[r], now, highEnd)
  BY TypeParts, GraceForType DEF GraceInv, TablesCovered
<1>b. {"r_expire", "issue", "a_reload", "n_ent", "f_ent", "s_check", "s_ent"} \subseteq Pc
  BY DEF Pc
<1>c. sub.end <= highEnd + GraceFor /\ sub.end + GraceFor <= highEnd + GraceFor
  BY <1>a
<1>d. ASSUME UNCHANGED <<sub, ent, rest>> PROVE now' = now /\ highEnd' = highEnd /\ TablesCovered'
  BY <1>d, CoveredTables DEF rest
<1>e. ASSUME UNCHANGED <<sub, rest>>, ent'.validUntil <= highEnd + GraceFor
      PROVE  now' = now /\ highEnd' = highEnd /\ TablesCovered'
  BY <1>a, <1>e DEF rest, TablesCovered
<1>f. ASSUME now' = now, highEnd' = highEnd, TablesCovered', NEW step \in Pc, Kept(r, step),
             FrameCovered(req'[r], now, highEnd)
      PROVE  GraceInv'
  BY <1>f, CoveredWent DEF Kept
<1>1. CASE RefreshReadSubscription(r)
  <2>1. now' = now /\ highEnd' = highEnd /\ TablesCovered'
    BY <1>1, <1>d DEF RefreshReadSubscription
  <2>2. req[r].validUntil <= highEnd + GraceFor
    BY <1>1, <1>a DEF RefreshReadSubscription, At, FrameCovered
  <2>3. ASSUME Kept(r, "r_expire") PROVE GraceInv'
    <3>1. FrameCovered(req'[r], now, highEnd)
      BY <2>3 DEF Kept, Went, FrameCovered
    <3> QED
      BY <1>b, <1>f, <2>1, <2>3, <3>1
  <2>4. ASSUME NEW status, NEW validUntil \in {sub.end, sub.end + GraceFor}, NEW inGrace,
               Loaded(r, "r_sync", status, validUntil, inGrace)
        PROVE  GraceInv'
    <3>1. validUntil <= highEnd + GraceFor
      BY <1>c
    <3>2. FrameCovered(req'[r], now, highEnd)
      BY <2>4, <3>1 DEF Loaded, Went, FrameCovered
    <3> QED
      BY <2>1, <2>4, <3>2, CoveredWent DEF Loaded
  <2>5. ASSUME Checked(r, "active", sub.end, FALSE) PROVE GraceInv'
    BY <1>a, <1>c, <2>1, <2>5, CoveredChecked
  <2>6. ASSUME Checked(r, req[r].status, req[r].validUntil, req[r].inGrace) PROVE GraceInv'
    BY <1>a, <2>1, <2>2, <2>6, CoveredChecked
  <2> QED
    BY <1>1, <2>3, <2>4, <2>5, <2>6, ProceedMoves
<1>2. CASE RefreshWriteExpired(r)
  <2>1. ent'.validUntil = ent.validUntil
    BY <1>2, TypeParts DEF RefreshWriteExpired
  <2> QED
    BY <1>2, <1>a, <1>e, <2>1, ProceedMoves, CoveredEnded DEF RefreshWriteExpired
<1>3. CASE RefreshSync(r)
  <2>1. /\ req[r].validUntil <= highEnd + GraceFor
        /\ ent'.validUntil = req[r].validUntil
        /\ Checked(r, req[r].status, req[r].validUntil, req[r].inGrace)
    BY <1>3, <1>a, ProceedMoves DEF RefreshSync, At, FrameCovered, InMemory, Entitlement
  <2>2. now' = now /\ highEnd' = highEnd /\ TablesCovered'
    BY <1>3, <1>e, <2>1 DEF RefreshSync
  <2> QED
    BY <1>a, <2>1, <2>2, CoveredChecked
<1>4. CASE ActivateDevice(r)
  <2>1. /\ req[r].validUntil <= highEnd + GraceFor /\ now <= highEnd + GraceFor
    BY <1>4, <1>a DEF ActivateDevice, At, FrameCovered
  <2>2. now' = now /\ highEnd' = highEnd /\ TablesCovered'
    <3>1. ent'.validUntil \in {ent.validUntil, req[r].validUntil}
      BY <1>4, TypeParts DEF ActivateDevice
    <3> QED
      BY <1>4, <1>a, <1>e, <2>1, <3>1 DEF ActivateDevice
  <2>3. ASSUME NEW step \in {"a_reload", "issue"}, Kept(r, step) PROVE GraceInv'
    <3>1. FrameCovered(req'[r], now, highEnd)
      BY <2>1, <2>3 DEF Kept, Went, FrameCovered
    <3> QED
      BY <1>b, <1>f, <2>2, <2>3, <3>1
  <2> QED
    BY <1>4, <1>b, <2>2, <2>3, ProceedMoves, CoveredEnded DEF ActivateDevice
<1>5. CASE ActivateReload(r)
  <2>1. /\ Loaded(r, "issue", ent.status, ent.validUntil, ent.inGrace)
        /\ now' = now /\ highEnd' = highEnd /\ TablesCovered'
    BY <1>5, <1>d, ProceedMoves DEF ActivateReload
  <2>2. now <= highEnd + GraceFor
    BY <1>5, <1>a DEF ActivateReload, At, FrameCovered
  <2>3. FrameCovered(req'[r], now, highEnd)
    BY <1>a, <2>1, <2>2 DEF Loaded, Went, FrameCovered
  <2> QED
    BY <2>1, <2>3, CoveredWent DEF Loaded
<1>6. CASE Issue(r)
  <2> DEFINE day == now + computeLicenceValidDays(req[r].validUntil)
  <2>1. /\ req[r].validUntil <= highEnd + GraceFor /\ now <= highEnd + GraceFor
    BY <1>6, <1>a DEF Issue, At, FrameCovered
  <2>2. day \in Nat /\ day <= highEnd + GraceFor + 1
    <3>1. day \in Nat /\ (day <= now + 1 \/ day <= req[r].validUntil)
      BY <1>a, LicenceDays
    <3> HIDE DEF day
    <3> QED
      BY <1>a, <2>1, <3>1
  <2>3. UNCHANGED <<now, sub, ent, highEnd>> /\ licenceEnd' = Later(licenceEnd, day) /\ Ended(r)
    BY <1>6, ProceedMoves DEF Issue
  <2> HIDE DEF day
  <2>4. licenceEnd' <= highEnd + GraceFor + 1
    BY <1>a, <2>2, <2>3 DEF Later
  <2>5. TablesCovered'
    BY <1>a, <2>3, <2>4 DEF TablesCovered
  <2> QED
    BY <2>3, <2>5, CoveredEnded
<1>7. CASE RenewCheckRevoked(r)
  <2>1. now' = now /\ highEnd' = highEnd /\ TablesCovered'
    BY <1>7, <1>d DEF RenewCheckRevoked
  <2>2. ASSUME Kept(r, "n_ent") PROVE GraceInv'
    <3>1. FrameCovered(req'[r], now, highEnd)
      BY <1>7, <1>a, <2>2 DEF RenewCheckRevoked, At, Kept, Went, FrameCovered
    <3> QED
      BY <1>b, <1>f, <2>1, <2>2, <3>1
  <2> QED
    BY <1>7, <1>b, <2>1, <2>2, ProceedMoves, CoveredEnded DEF RenewCheckRevoked
<1>8. CASE RenewWriteEntitlement(r)
  <2>1. ent'.validUntil = req[r].validUntil /\ req[r].validUntil <= highEnd + GraceFor
    BY <1>8, <1>a DEF RenewWriteEntitlement, At, FrameCovered, InMemory, Entitlement
  <2> QED
    BY <1>8, <1>e, <2>1, ProceedMoves, CoveredEnded DEF RenewWriteEntitlement
<1>9. CASE FailWriteSubscription(r)
  <2>1. sub'.end = sub.end /\ UNCHANGED <<ent, rest>>
    BY <1>9, TypeParts DEF FailWriteSubscription
  <2>2. now' = now /\ highEnd' = highEnd /\ TablesCovered'
    BY <2>1, CoveredTables DEF rest
  <2>3. Kept(r, "f_ent")
    BY <1>9, <1>b, ProceedMoves DEF FailWriteSubscription
  <2>4. FrameCovered(req'[r], now, highEnd)
    BY <1>9, <1>a, <2>3 DEF FailWriteSubscription, At, Kept, Went, FrameCovered
  <2> QED
    BY <1>b, <1>f, <2>2, <2>3, <2>4
<1>10. CASE FailWriteEntitlement(r)
  <2>1. req[r].end <= highEnd
    BY <1>10, <1>a DEF FailWriteEntitlement, At, FrameCovered
  <2>2. ent'.validUntil \in {ent.validUntil, req[r].end + GraceDays}
    BY <1>10 DEF FailWriteEntitlement, Entitlement
  <2>3. ent'.validUntil <= highEnd + GraceFor
    BY <1>a, <2>1, <2>2
  <2> QED
    BY <1>10, <1>e, <2>3, ProceedMoves, CoveredEnded DEF FailWriteEntitlement
<1>11. CASE RefundWriteEntitlement(r)
  <2>1. ent'.validUntil = ent.validUntil /\ WentOvertaking(r)
        /\ UNCHANGED <<now, sub, highEnd, licenceEnd>>
    BY <1>11, TypeParts, ProceedMoves DEF RefundWriteEntitlement
  <2>2. TablesCovered'
    BY <2>1, CoveredTables
  <2> QED
    BY <2>1, <2>2, CoveredEnded
<1>12. CASE SyncWriteSubscription(r)
  <2> DEFINE end == IF req[r].validUntil = 0 THEN sub.end ELSE req[r].validUntil
             step == IF req[r].status \in {"active", "trialing", "canceled"} THEN "s_check" ELSE "s_ent"
  <2>1. req[r].status \in SubStatus /\ end \in Nat /\ req[r].pc = "s_sub" /\ req[r].end <= highEnd
    <3>1. req[r].pc = "s_sub" /\ FrameStatus(req[r])
      BY <1>12, TypeParts DEF SyncWriteSubscription, At
    <3>2. req[r].status \in SubStatus
      BY <3>1, AnswersAssumption DEF FrameStatus, SubStatus
    <3> QED
      BY <1>a, <3>1, <3>2 DEF FrameCovered
  <2>2. /\ sub'.end = end /\ highEnd' \in Nat /\ highEnd <= highEnd' /\ end <= highEnd'
        /\ UNCHANGED <<now, ent, licenceEnd, refunded, crashes>>
    BY <1>12, <2>1, WriteSubscriptionType DEF SyncWriteSubscription
  <2>3. Kept(r, step) /\ step \in {"s_check", "s_ent"}
    BY <1>12, <1>b, ProceedMoves DEF SyncWriteSubscription
  <2>4. req[r].validUntil <= highEnd' /\ highEnd + GraceFor <= highEnd' + GraceFor
    BY <1>a, <2>2
  <2>5. TablesCovered'
    <3>1. ent'.validUntil = ent.validUntil /\ licenceEnd' = licenceEnd
      BY <2>2
    <3>2. highEnd' \in Nat /\ highEnd <= highEnd'
      BY <2>2
    <3>3. ent'.validUntil <= highEnd' + GraceFor /\ licenceEnd' <= highEnd' + GraceFor + 1
      BY <1>a, <3>1, <3>2
    <3> QED
      BY <2>2, <3>3 DEF TablesCovered
  <2>6. FrameCovered(req'[r], now', highEnd')
    <3>1. /\ req'[r].pc \in {"s_check", "s_ent"} /\ req'[r].validUntil = req[r].validUntil
          /\ req'[r].end = req[r].end
      BY <2>3 DEF Kept, Went
    <3>2. req[r].validUntil <= highEnd' + GraceFor /\ req[r].end <= highEnd'
      BY <1>a, <2>1, <2>2, <2>4
    <3> QED
      BY <3>1, <3>2 DEF FrameCovered
  <2>7. \A q \in Requests \ {r} : req'[q] = req[q]
    BY <2>3 DEF Kept, Went
  <2> QED
    BY <2>2, <2>5, <2>6, <2>7, CoveredMoved
<1>13. CASE SyncCheckRevoked(r)
  <2>1. now' = now /\ highEnd' = highEnd /\ TablesCovered'
    BY <1>13, <1>d DEF SyncCheckRevoked
  <2>2. ASSUME Kept(r, "s_ent") PROVE GraceInv'
    <3>1. FrameCovered(req'[r], now, highEnd)
      BY <1>13, <1>a, <2>2 DEF SyncCheckRevoked, At, Kept, Went, FrameCovered
    <3> QED
      BY <1>b, <1>f, <2>1, <2>2, <3>1
  <2> QED
    BY <1>13, <1>b, <2>1, <2>2, ProceedMoves, CoveredEnded DEF SyncCheckRevoked
<1>14. CASE SyncWriteEntitlement(r)
  <2>1. req[r].end <= highEnd /\ req[r].validUntil <= highEnd + GraceFor
    BY <1>14, <1>a DEF SyncWriteEntitlement, At, FrameCovered
  <2>2. ent'.validUntil \in {ent.validUntil, req[r].validUntil, req[r].end + GraceDays}
    BY <1>14 DEF SyncWriteEntitlement, Entitlement
  <2>3. ent'.validUntil <= highEnd + GraceFor
    BY <1>a, <2>1, <2>2
  <2>4. now' = now /\ highEnd' = highEnd /\ TablesCovered'
    BY <1>14, <1>e, <2>3 DEF SyncWriteEntitlement
  <2> QED
    BY <1>14, <2>4, ProceedMoves, CoveredEnded DEF SyncWriteEntitlement
<1>15. ASSUME \/ CompensateWriteSubscription(r) \/ CompensateReadEntitlement(r) \/ WriteValidUntil(r)
       PROVE  FALSE
  BY <1>15, <1>a DEF CompensateWriteSubscription, CompensateReadEntitlement, WriteValidUntil, At,
                     FrameCovered
<1> QED
  BY <1>1, <1>2, <1>3, <1>4, <1>5, <1>6, <1>7, <1>8, <1>9, <1>10, <1>11, <1>12, <1>13, <1>14,
     <1>15 DEF Proceed

LEMMA GraceStep ==
  ASSUME NoAddedDays, TypeInv, GraceInv, [Next]_vars
  PROVE  GraceInv'
<1>1. ASSUME NEW r \in Requests, Crash(r) PROVE GraceInv'
  <2>1. UNCHANGED <<now, sub, ent, highEnd, licenceEnd>> /\ Ended(r)
    BY <1>1, ProceedMoves DEF Crash
  <2>2. TablesCovered'
    BY <2>1, CoveredTables
  <2> QED
    BY <2>1, <2>2, CoveredEnded
<1>2. CASE CancelWriteSubscription
  <2>1. sub'.end = sub.end /\ UNCHANGED <<ent, req, rest>>
    BY <1>2, TypeParts DEF CancelWriteSubscription
  <2>2. TablesCovered'
    BY <2>1, CoveredTables DEF rest
  <2> QED
    BY <2>1, <2>2 DEF rest, GraceInv
<1>3. CASE Tick
  <2>1. UNCHANGED <<sub, ent, highEnd, licenceEnd, req>> /\ \A r \in Requests : req[r].pc = "idle"
    BY <1>3 DEF Tick, Quiet, At
  <2>2. TablesCovered'
    BY <2>1, CoveredTables
  <2>3. \A r \in Requests : FrameCovered(req'[r], now', highEnd')
    BY <2>1 DEF FrameCovered
  <2> QED
    BY <2>2, <2>3 DEF GraceInv
<1>4. CASE UNCHANGED vars
  BY <1>4 DEF vars, GraceInv, TablesCovered
<1> QED
  BY <1>1, <1>2, <1>3, <1>4, GraceStart, GraceProceed DEF Next

\* However often payment.failed is delivered, and however it interleaves with renewals, refreshes,
\* refunds and synchronisations of which any may die half-way, the entitlement outlives the
\* latest paid period by one grace period at most, and a signed licence by a day more.  Days
\* an administrator adds by hand are not paid for, and are excluded.
THEOREM GraceBoundedTheorem ==
  ASSUME NoAddedDays
  PROVE  Spec => []GraceBounded
<1>1. TypeInv /\ GraceInv /\ [Next]_vars => TypeInv' /\ GraceInv'
  BY TypeStep, GraceStep
<1>2. GraceInv => GraceBounded
  BY DEF GraceInv, TablesCovered, GraceBounded
<1> QED
  BY TypeInit, GraceInit, <1>1, <1>2, PTL DEF Spec

(***************************************************************************)
(* Agreement: requests one after the other leave two rows that agree.      *)
(***************************************************************************)

Lone(r) == \A q \in Requests \ {r} : req[q].pc = "idle"

LEMMA AgreeAlone ==
  ASSUME AgreeInv, ~overlapped, crashes = 0, NEW r \in Requests, req[r].pc # "idle"
  PROVE  Lone(r) /\ Midway(req[r])
BY DEF AgreeInv, Lone

LEMMA AgreeMoved ==
  ASSUME NEW r \in Requests, Lone(r), \A q \in Requests \ {r} : req'[q].pc = req[q].pc,
         req'[r].pc = "idle" => Agree', Midway(req[r])'
  PROVE  AgreeInv'
<1>1. \A q \in Requests \ {r} : req'[q].pc = "idle"
  BY DEF Lone
<1>2. ASSUME NEW q \in Requests PROVE Midway(req[q])'
  <2>1. CASE q = r
    BY <2>1
  <2>2. CASE req'[q].pc = "idle"
    BY <2>2 DEF Midway
  <2> QED
    BY <1>1, <2>1, <2>2
<1>3. Quiet' => Agree'
  BY DEF Quiet, At
<1> QED
  BY <1>1, <1>2, <1>3 DEF AgreeInv

\* A request that ends leaves rows that agree.
LEMMA AgreeEnded ==
  ASSUME NEW r \in Requests, Lone(r), Agree'
  PROVE  (Ended(r) => AgreeInv') /\ (WentOvertaking(r) => AgreeInv')
<1>1. ASSUME req'[r].pc = "idle" PROVE Midway(req[r])'
  BY <1>1 DEF Midway
<1> QED
  BY <1>1, AgreeMoved DEF Ended, Went, WentOvertaking

\* One that only issues a licence, or has only activated a device, disturbs neither.
LEMMA AgreeIssuing ==
  ASSUME NEW r \in Requests, Lone(r), Agree', req'[r].pc \in {"issue", "a_reload"},
         \A q \in Requests \ {r} : req'[q].pc = req[q].pc
  PROVE  AgreeInv'
<1>1. Midway(req[r])'
  BY DEF Midway
<1> QED
  BY <1>1, AgreeMoved

LEMMA AgreeChecked ==
  ASSUME NEW r \in Requests, Lone(r), Agree',
         NEW status, NEW validUntil, NEW inGrace, Checked(r, status, validUntil, inGrace)
  PROVE  AgreeInv'
BY AgreeEnded, AgreeIssuing DEF Checked, Loaded, Went

LEMMA AgreeInit == Init => AgreeInv
<1> SUFFICES ASSUME Init PROVE AgreeInv
  OBVIOUS
<1>1. Agree
  BY DaysAssumption DEF Init, Agree, Entitlement
<1>2. \A r \in Requests : req[r].pc = "idle"
  BY IdleFrame DEF Init
<1>3. \A r \in Requests : Midway(req[r])
  BY <1>2 DEF Midway
<1> QED
  BY <1>1, <1>2, <1>3 DEF AgreeInv

LEMMA AgreeStart ==
  ASSUME NoOverwriting, ~AllowNewDeviceDuringGrace, TypeInv, AgreeInv,
         NEW r \in Requests, Start(r), ~overlapped', crashes' = 0
  PROVE  AgreeInv'
<1>a. ~Quiet => overlapped'
  <2>1. ASSUME SyncReadSubscription(r) PROVE Calls(r, "sync")
    BY <2>1, Zenon DEF SyncReadSubscription
  <2> QED
    BY <2>1 DEF Start, RefreshReadEntitlement, ActivateReadEntitlement, RenewWriteSubscription,
         FailReadSubscription, RefundWriteSubscription,
         CompensateReadSubscription, ExtendReadEntitlement, Calls
<1>b. UNCHANGED crashes /\ (overlapped => overlapped')
  <2>1. ASSUME SyncReadSubscription(r) PROVE Calls(r, "sync") /\ UNCHANGED rest
    BY <2>1, Zenon DEF SyncReadSubscription
  <2> QED
    BY <2>1 DEF Start, RefreshReadEntitlement, ActivateReadEntitlement, RenewWriteSubscription,
         FailReadSubscription, RefundWriteSubscription,
         CompensateReadSubscription, ExtendReadEntitlement, WriteSubscription, Calls, rest
<1>c. ~overlapped /\ crashes = 0 /\ Quiet
  BY <1>a, <1>b
<1>d. Agree /\ Lone(r)
  BY <1>c DEF AgreeInv, Lone, Quiet, At
<1>e. /\ sub.end \in Nat /\ ent.validUntil \in Nat /\ ent.status \in EntStatus
      /\ sub.status \in SubStatus
  BY TypeParts
<1>f. ASSUME UNCHANGED <<sub, ent>> PROVE Agree'
  BY <1>d, <1>f DEF Agree
<1>1. CASE RefreshReadEntitlement(r)
  <2>1. Went(r, "r_sub", ent.status, ent.validUntil, ent.inGrace, 0, FALSE)
    BY <1>1, StartMoves
  <2>2. UNCHANGED <<sub, ent>>
    BY <1>1 DEF RefreshReadEntitlement
  <2>3. Midway(req[r])'
    BY <1>f, <2>1, <2>2 DEF Went, Midway
  <2> QED
    BY <1>d, <2>1, <2>3, AgreeMoved DEF Went
<1>2. CASE ActivateReadEntitlement(r)
  <2>1. Went(r, "a_device", ent.status, ent.validUntil, ent.inGrace, 0, FALSE)
    BY <1>2, StartMoves
  <2>2. UNCHANGED <<sub, ent>> /\ Usable(ent.status) /\ ent.status # "grace"
    BY <1>2 DEF ActivateReadEntitlement
  <2>3. Usable(ent'.status) /\ ent'.status # "grace"
    BY <2>2
  <2>4. Midway(req[r])'
    BY <1>f, <2>1, <2>2, <2>3 DEF Went, Midway
  <2> QED
    BY <1>d, <2>1, <2>4, AgreeMoved DEF Went
<1>3. CASE RenewWriteSubscription(r)
  <2>1. Went(r, "n_check", "active", now + Period, FALSE, 0, FALSE)
    BY <1>3, StartMoves
  <2>2. /\ sub'.status = "active" /\ sub'.end = now + Period /\ UNCHANGED ent
    BY <1>3 DEF RenewWriteSubscription, WriteSubscription
  <2>3. ent'.inGrace => ent'.status \in {"grace", "expired"}
    BY <1>d, <2>2 DEF Agree
  <2>4. Midway(req[r])'
    BY <2>1, <2>2, <2>3 DEF Went, Midway
  <2> QED
    BY <1>d, <2>1, <2>4, AgreeMoved DEF Went
<1>4. CASE FailReadSubscription(r)
  <2>1. Went(r, "f_sub", "none", 0, FALSE, sub.end, FALSE)
    BY <1>4, StartMoves
  <2>2. UNCHANGED <<sub, ent>>
    BY <1>4 DEF FailReadSubscription
  <2>3. Midway(req[r])'
    BY <1>f, <2>1, <2>2 DEF Went, Midway
  <2> QED
    BY <1>d, <2>1, <2>3, AgreeMoved DEF Went
<1>5. CASE RefundWriteSubscription(r)
  <2>1. Went(r, "d_ent", "none", 0, FALSE, 0, FALSE)
    BY <1>5, StartMoves
  <2>2. sub'.status = "revoked"
    BY <1>5, TypeParts DEF RefundWriteSubscription
  <2>3. Midway(req[r])'
    BY <2>1, <2>2 DEF Went, Midway
  <2> QED
    BY <1>d, <2>1, <2>3, AgreeMoved DEF Went
<1>6. CASE CompensateReadSubscription(r)
  <2>1. Went(r, "c_sub", "none", 0, FALSE, sub.end + Compensation, FALSE)
    BY <1>6, StartMoves
  <2>2. UNCHANGED <<sub, ent>>
    BY <1>6 DEF CompensateReadSubscription
  <2>3. Midway(req[r])'
    BY <1>f, <2>1, <2>2 DEF Went, Midway
  <2> QED
    BY <1>d, <2>1, <2>3, AgreeMoved DEF Went
<1>7. ASSUME SyncReadSubscription(r) \/ ExtendReadEntitlement(r) PROVE FALSE
  <2>1. Calls(r, "sync") \/ Calls(r, "extend")
    BY <1>7, Zenon DEF SyncReadSubscription, ExtendReadEntitlement
  <2> QED
    BY <2>1 DEF Calls, NoOverwriting
<1> QED
  BY <1>1, <1>2, <1>3, <1>4, <1>5, <1>6, <1>7 DEF Start

LEMMA AgreeProceed ==
  ASSUME TypeInv, AgreeInv, NEW r \in Requests, Proceed(r), ~overlapped', crashes' = 0
  PROVE  AgreeInv'
<1>a. UNCHANGED <<overlapped, crashes>> /\ req[r].pc # "idle"
  BY DEF Proceed, RefreshReadSubscription, RefreshWriteExpired, RefreshSync, ActivateDevice,
         ActivateReload, Issue, RenewCheckRevoked, RenewWriteEntitlement, FailWriteSubscription,
         FailWriteEntitlement, RefundWriteEntitlement, SyncWriteSubscription, SyncCheckRevoked,
         SyncWriteEntitlement, CompensateWriteSubscription, CompensateReadEntitlement,
         WriteValidUntil, WriteSubscription, rest, At
<1>b. Lone(r) /\ Midway(req[r])
  BY <1>a, AgreeAlone
<1>c. /\ sub.end \in Nat /\ ent.validUntil \in Nat /\ ent.status \in EntStatus
      /\ sub.status \in SubStatus /\ Compensation \in Nat /\ req[r].end \in Nat
  BY TypeParts, GraceForType
<1>d. {"r_expire", "issue", "a_reload", "n_ent", "f_ent", "c_readent"} \subseteq Pc
  BY DEF Pc
<1>e. ASSUME Agree, UNCHANGED <<sub, ent>> PROVE Agree'
  BY <1>e DEF Agree
<1>1. CASE RefreshReadSubscription(r)
  <2>1. UNCHANGED <<sub, ent>> /\ Agree
    BY <1>1, <1>b DEF RefreshReadSubscription, At, Midway
  <2>2. Agree' /\ sub'.status = sub.status /\ sub'.end = sub.end
    BY <1>e, <2>1
  <2>3. ASSUME sub.status = "canceled" \/ sub.status = "past_due", Kept(r, "r_expire")
        PROVE  AgreeInv'
    <3>1. Midway(req[r])'
      BY <2>2, <2>3 DEF Kept, Went, Midway
    <3> QED
      BY <1>b, <2>3, <3>1, AgreeMoved DEF Kept, Went
  <2>4. ASSUME sub.status \in {"canceled", "active", "trialing"},
               Loaded(r, "r_sync", "active", sub.end, FALSE)
        PROVE  AgreeInv'
    <3>1. Midway(req[r])'
      BY <2>2, <2>4 DEF Loaded, Went, Midway
    <3> QED
      BY <1>b, <2>4, <3>1, AgreeMoved DEF Loaded, Went
  <2>5. ASSUME sub.status = "past_due", Loaded(r, "r_sync", "grace", sub.end + GraceFor, TRUE)
        PROVE  AgreeInv'
    <3>1. Midway(req[r])'
      BY <2>2, <2>5 DEF Loaded, Went, Midway
    <3> QED
      BY <1>b, <2>5, <3>1, AgreeMoved DEF Loaded, Went
  <2>6. ASSUME NEW status, NEW validUntil, NEW inGrace, Checked(r, status, validUntil, inGrace)
        PROVE  AgreeInv'
    BY <1>b, <2>2, <2>6, AgreeChecked
  <2> QED
    BY <1>1, <2>3, <2>4, <2>5, <2>6, ProceedMoves
<1>2. CASE RefreshWriteExpired(r)
  <2>1. /\ ent'.status = "expired" /\ UNCHANGED sub /\ Ended(r)
        /\ sub.status \in {"canceled", "past_due"}
    BY <1>2, <1>b, TypeParts, ProceedMoves DEF RefreshWriteExpired, At, Midway
  <2>2. Agree'
    BY <2>1 DEF Agree
  <2> QED
    BY <1>b, <2>1, <2>2, AgreeEnded
<1>3. CASE RefreshSync(r)
  <2>1. /\ UNCHANGED sub /\ Checked(r, req[r].status, req[r].validUntil, req[r].inGrace)
        /\ ent'.status = req[r].status /\ ent'.validUntil = req[r].validUntil
        /\ ent'.inGrace = req[r].inGrace
    BY <1>3, ProceedMoves DEF RefreshSync, InMemory, Entitlement
  <2>2. \/ /\ sub.status \in {"canceled", "active", "trialing"}
           /\ req[r].status = "active" /\ req[r].validUntil = sub.end /\ ~req[r].inGrace
        \/ sub.status = "past_due" /\ req[r].status = "grace"
    BY <1>3, <1>b DEF RefreshSync, At, Midway
  <2>3. Agree'
    BY <1>c, <2>1, <2>2 DEF Agree
  <2> QED
    BY <1>b, <2>1, <2>3, AgreeChecked
<1>4. CASE ActivateDevice(r)
  <2>1. /\ Agree /\ ent.status = "active" /\ req[r].validUntil = ent.validUntil
    BY <1>4, <1>b, <1>c DEF ActivateDevice, At, Midway, Usable, EntStatus
  <2>2. /\ ent'.status = ent.status /\ ent'.validUntil = ent.validUntil
        /\ ent'.inGrace = ent.inGrace /\ UNCHANGED sub
    BY <1>4, <2>1, TypeParts DEF ActivateDevice
  <2>3. Agree'
    BY <2>1, <2>2 DEF Agree
  <2>4. Kept(r, "a_reload") \/ Kept(r, "issue") \/ Ended(r)
    BY <1>4, <1>d, ProceedMoves DEF ActivateDevice
  <2> QED
    BY <1>b, <2>3, <2>4, AgreeEnded, AgreeIssuing DEF Kept, Went
<1>5. CASE ActivateReload(r)
  <2>1. UNCHANGED <<sub, ent>> /\ Agree /\ Loaded(r, "issue", ent.status, ent.validUntil, ent.inGrace)
    BY <1>5, <1>b, ProceedMoves DEF ActivateReload, At, Midway
  <2> QED
    BY <1>b, <1>e, <2>1, AgreeIssuing DEF Loaded, Went
<1>6. CASE Issue(r)
  <2>1. UNCHANGED <<sub, ent>> /\ Agree /\ Ended(r)
    BY <1>6, <1>b, ProceedMoves DEF Issue, At, Midway
  <2> QED
    BY <1>b, <1>e, <2>1, AgreeEnded
<1>7. CASE RenewCheckRevoked(r)
  <2>1. /\ UNCHANGED <<sub, ent>> /\ req[r].pc = "n_check"
        /\ sub.status = "active" /\ sub.end = req[r].validUntil
        /\ req[r].status = "active" /\ ~req[r].inGrace
        /\ ent.inGrace => ent.status \in {"grace", "expired"}
    BY <1>7, <1>b DEF RenewCheckRevoked, At, Midway
  <2>2. CASE Ended(r) /\ ent.status = "revoked"
    <3>1. Agree'
      BY <2>1, <2>2 DEF Agree
    <3> QED
      BY <1>b, <2>2, <3>1, AgreeEnded
  <2>3. CASE Kept(r, "n_ent")
    <3>1. Midway(req[r])'
      BY <2>1, <2>3 DEF Kept, Went, Midway
    <3> QED
      BY <1>b, <2>3, <3>1, AgreeMoved DEF Kept, Went
  <2> QED
    BY <1>7, <1>d, <2>2, <2>3, ProceedMoves DEF RenewCheckRevoked
<1>8. CASE RenewWriteEntitlement(r)
  <2>1. /\ UNCHANGED sub /\ Ended(r) /\ ent'.status = req[r].status
        /\ ent'.validUntil = req[r].validUntil /\ ent'.inGrace = req[r].inGrace
    BY <1>8, ProceedMoves DEF RenewWriteEntitlement, InMemory, Entitlement
  <2>2. /\ sub.status = "active" /\ sub.end = req[r].validUntil
        /\ req[r].status = "active" /\ ~req[r].inGrace
    BY <1>8, <1>b DEF RenewWriteEntitlement, At, Midway
  <2>3. Agree'
    BY <1>c, <2>1, <2>2 DEF Agree
  <2> QED
    BY <1>b, <2>1, <2>3, AgreeEnded
<1>9. CASE FailWriteSubscription(r)
  <2>1. sub'.status = "past_due" /\ Kept(r, "f_ent")
    BY <1>9, <1>d, TypeParts, ProceedMoves DEF FailWriteSubscription
  <2>2. Midway(req[r])'
    BY <2>1 DEF Kept, Went, Midway
  <2> QED
    BY <1>b, <2>1, <2>2, AgreeMoved DEF Kept, Went
<1>10. CASE FailWriteEntitlement(r)
  <2>1. ent'.status = "grace" /\ Ended(r) /\ UNCHANGED sub /\ sub.status = "past_due"
    BY <1>10, <1>b, ProceedMoves DEF FailWriteEntitlement, Entitlement, At, Midway
  <2>2. Agree'
    BY <2>1 DEF Agree
  <2> QED
    BY <1>b, <2>1, <2>2, AgreeEnded
<1>11. CASE RefundWriteEntitlement(r)
  <2>1. /\ ent'.status = "revoked" /\ ent'.inGrace = FALSE /\ UNCHANGED sub
        /\ WentOvertaking(r) /\ sub.status = "revoked"
    BY <1>11, <1>b, TypeParts, ProceedMoves DEF RefundWriteEntitlement, At, Midway
  <2>2. Agree'
    BY <2>1 DEF Agree
  <2> QED
    BY <1>b, <2>1, <2>2, AgreeEnded
<1>12. ASSUME \/ SyncWriteSubscription(r) \/ SyncCheckRevoked(r) \/ SyncWriteEntitlement(r)
       PROVE  FALSE
  BY <1>12, <1>b DEF SyncWriteSubscription, SyncCheckRevoked, SyncWriteEntitlement, At, Midway
<1>13. CASE CompensateWriteSubscription(r)
  <2>1. /\ sub'.status = sub.status /\ sub'.end = sub.end + Compensation /\ UNCHANGED ent /\ Agree
        /\ Kept(r, "c_readent")
    BY <1>13, <1>b, <1>d, ProceedMoves
       DEF CompensateWriteSubscription, WriteSubscription, At, Midway
  <2>2. Agree' /\ (ent'.status = "active" => ent'.validUntil + Compensation <= sub'.end)
    BY <1>c, <2>1 DEF Agree
  <2>3. Midway(req[r])'
    BY <2>1, <2>2 DEF Kept, Went, Midway
  <2> QED
    BY <1>b, <2>1, <2>3, AgreeMoved DEF Kept, Went
<1>14. CASE CompensateReadEntitlement(r)
  <2>1. /\ UNCHANGED <<sub, ent>> /\ Agree
        /\ ent.status = "active" => ent.validUntil + Compensation <= sub.end
        /\ Went(r, "c_ent", req[r].status, req[r].validUntil, req[r].inGrace,
                ent.validUntil + Compensation, req[r].overtaken)
    BY <1>14, <1>b, ProceedMoves DEF CompensateReadEntitlement, At, Midway
  <2>2. Agree'
    BY <1>e, <2>1
  <2>3. Midway(req[r])'
    BY <2>1, <2>2 DEF Went, Midway
  <2> QED
    BY <1>b, <2>1, <2>3, AgreeMoved DEF Went
<1>15. CASE WriteValidUntil(r)
  <2>1. /\ Agree /\ (ent.status = "active" => req[r].end <= sub.end)
    BY <1>15, <1>b DEF WriteValidUntil, At, Midway
  <2>2. /\ ent'.status = ent.status /\ ent'.inGrace = ent.inGrace
        /\ ent'.validUntil = req[r].end /\ UNCHANGED sub /\ Ended(r)
    BY <1>15, TypeParts, ProceedMoves DEF WriteValidUntil
  <2>3. Agree'
    BY <2>1, <2>2 DEF Agree
  <2> QED
    BY <1>b, <2>2, <2>3, AgreeEnded
<1> QED
  BY <1>1, <1>2, <1>3, <1>4, <1>5, <1>6, <1>7, <1>8, <1>9, <1>10, <1>11, <1>12, <1>13, <1>14,
     <1>15 DEF Proceed

LEMMA AgreeStep ==
  ASSUME NoOverwriting, ~AllowNewDeviceDuringGrace, TypeInv, AgreeInv, [Next]_vars
  PROVE  AgreeInv'
<1>a. SUFFICES ASSUME ~overlapped', crashes' = 0 PROVE AgreeInv'
  BY DEF AgreeInv
<1>1. ASSUME NEW r \in Requests PROVE ~Crash(r)
  BY <1>a, TypeParts DEF Crash
<1>2. CASE CancelWriteSubscription
  <2>1. /\ ~overlapped /\ crashes = 0 /\ Quiet /\ UNCHANGED <<ent, req>>
        /\ sub'.status = "canceled" /\ sub'.end = sub.end
    BY <1>a, <1>2, TypeParts DEF CancelWriteSubscription, rest
  <2>2. Agree /\ \A r \in Requests : req'[r].pc = "idle"
    BY <2>1 DEF AgreeInv, Quiet, At
  <2>3. Agree'
    BY <2>1, <2>2 DEF Agree
  <2>4. \A r \in Requests : Midway(req[r])'
    BY <2>2 DEF Midway
  <2> QED
    BY <2>2, <2>3, <2>4 DEF AgreeInv
<1>3. CASE Tick
  <2>1. /\ ~overlapped /\ crashes = 0 /\ Quiet /\ UNCHANGED <<sub, ent, req>>
    BY <1>a, <1>3 DEF Tick
  <2>2. Agree /\ \A r \in Requests : req'[r].pc = "idle"
    BY <2>1 DEF AgreeInv, Quiet, At
  <2>3. Agree'
    BY <2>1, <2>2 DEF Agree
  <2>4. \A r \in Requests : Midway(req[r])'
    BY <2>2 DEF Midway
  <2> QED
    BY <2>2, <2>3, <2>4 DEF AgreeInv
<1>4. CASE UNCHANGED vars
  BY <1>4 DEF vars, AgreeInv, Agree, Midway, Quiet, At
<1> QED
  BY <1>a, <1>1, <1>2, <1>3, <1>4, AgreeStart, AgreeProceed DEF Next

\* Requests that do not overlap, and of which none dies, leave a subscription and an entitlement
\* that tell one story, whatever the order of payments, failures, refunds, cancellations,
\* refreshes, activations and compensations.  Excluded are the two operations that write one
\* row without regard to the other, and a plan that activates new devices during grace.
THEOREM RowsAgreeTheorem ==
  ASSUME NoOverwriting, ~AllowNewDeviceDuringGrace
  PROVE  Spec => []RowsAgree
<1>1. TypeInv /\ AgreeInv /\ [Next]_vars => TypeInv' /\ AgreeInv'
  BY TypeStep, AgreeStep
<1>2. AgreeInv => RowsAgree
  BY DEF AgreeInv, RowsAgree, Undisturbed, Agree
<1> QED
  BY TypeInit, AgreeInit, <1>1, <1>2, PTL DEF Spec
=============================================================================
