-------------------------- MODULE ActivationsProofs --------------------------
(* Theorems about Activations, for any number of requests, fingerprints    *)
(* and limits.                                                             *)
EXTENDS Activations, TLAPS, SequenceTheorems, FiniteSetTheorems

(***************************************************************************)
(* Part 1: types.  TypeOK alone is not inductive: the fingerprint a        *)
(* request inserts, and the row id it writes to, were read in earlier      *)
(* steps.  GoodFrame says what those steps left behind.                    *)
(***************************************************************************)

Activating == {"a_entitlement", "a_exact", "a_same", "a_touch", "a_reactivate",
               "a_count", "a_insert"}
HoldsRow == {"a_touch", "a_reactivate", "d_provider", "d_row"}

GoodFrame(f, Ids) ==
    /\ f \in Frame
    /\ f.pc \in Activating => f.fp \in Fingerprints
    /\ f.pc \in HoldsRow => f.row \in Ids

Frames == req \in [Requests -> Frame] /\ \A r \in Requests : GoodFrame(req[r], DOMAIN rows)

TypeInv == TypeOK /\ Frames

LEMMA MovedFrame ==
  ASSUME Frames, NEW r \in Requests, NEW f, GoodFrame(f, DOMAIN rows'),
         DOMAIN rows \subseteq DOMAIN rows', req' = [req EXCEPT ![r] = f]
  PROVE  Frames'
BY DEF Frames, GoodFrame

LEMMA GotoFrame ==
  ASSUME Frames, NEW r \in Requests, NEW step \in Pc, Goto(r, step),
         DOMAIN rows \subseteq DOMAIN rows',
         step \in Activating => req[r].fp \in Fingerprints,
         step \in HoldsRow => req[r].row \in DOMAIN rows
  PROVE  Frames'
<1> DEFINE f == [req[r] EXCEPT !.pc = step]
<1>1. req[r] \in Frame
  BY DEF Frames
<1>2. f \in Frame /\ f.pc = step /\ f.fp = req[r].fp /\ f.row = req[r].row
  BY <1>1 DEF Frame
<1>3. GoodFrame(f, DOMAIN rows')
  BY <1>2 DEF GoodFrame
<1>4. req' = [req EXCEPT ![r] = f]
  BY DEF Goto, Frames
<1> QED
  BY <1>3, <1>4, MovedFrame

LEMMA IdleFrame == Idle \in Frame /\ Idle.pc = "idle"
BY DEF Idle, Frame, Pc

LEMMA FinishFrame ==
  ASSUME Frames, NEW r \in Requests, Finish(r), DOMAIN rows \subseteq DOMAIN rows'
  PROVE  Frames'
<1>1. GoodFrame(Idle, DOMAIN rows')
  BY IdleFrame DEF GoodFrame, Activating, HoldsRow
<1> QED
  BY <1>1, MovedFrame DEF Finish

LEMMA BeginFrame ==
  ASSUME Frames, NEW r \in Requests, NEW step \in Pc, revoked \in BOOLEAN,
         NEW f \in Fingerprints \union {None}, NEW i \in Nat, Begin(r, step, f, i),
         DOMAIN rows \subseteq DOMAIN rows',
         step \in Activating => f \in Fingerprints,
         step \in HoldsRow => i \in DOMAIN rows
  PROVE  Frames'
<1> DEFINE g == [Idle EXCEPT !.pc = step, !.fp = f, !.row = i,
                             !.licRevoked = (licStatus = "revoked"), !.late = revoked]
<1>1. g \in Frame /\ g.pc = step /\ g.fp = f /\ g.row = i
  BY DEF Idle, Frame
<1>2. GoodFrame(g, DOMAIN rows')
  BY <1>1 DEF GoodFrame
<1> QED
  BY <1>2, MovedFrame DEF Begin

LEMMA FoundFrame ==
  ASSUME Frames, NEW r \in Requests, NEW i \in DOMAIN rows, i \in Nat, FoundRow(r, i),
         req[r].fp \in Fingerprints, DOMAIN rows \subseteq DOMAIN rows'
  PROVE  Frames'
<1>1. CASE Finish(r)
  BY <1>1, FinishFrame
<1>2. ASSUME NEW step \in {"a_touch", "a_reactivate"},
             req' = [req EXCEPT ![r].pc = step, ![r].row = i]
      PROVE  Frames'
  <2> DEFINE f == [req[r] EXCEPT !.pc = step, !.row = i]
  <2>1. req[r] \in Frame
    BY DEF Frames
  <2>2. f \in Frame /\ f.pc = step /\ f.fp = req[r].fp /\ f.row = i
    BY <1>2, <2>1 DEF Frame, Pc
  <2>3. GoodFrame(f, DOMAIN rows')
    BY <2>2 DEF GoodFrame
  <2>4. req' = [req EXCEPT ![r] = f]
    BY <1>2 DEF Frames
  <2> QED
    BY <2>3, <2>4, MovedFrame
<1>3. CASE req' = [req EXCEPT ![r].pc = "a_touch", ![r].row = i]
  BY <1>2, <1>3
<1>4. CASE req' = [req EXCEPT ![r].pc = "a_reactivate", ![r].row = i]
  BY <1>2, <1>4
<1> QED
  BY <1>1, <1>3, <1>4 DEF FoundRow

LEMMA RowsDomain ==
  ASSUME rows \in Seq(Row)
  PROVE  DOMAIN rows \subseteq Nat \ {0} /\ \A i \in DOMAIN rows : rows[i] \in Row
BY LenProperties, ElementOfSeq

LEMMA WriteRow ==
  ASSUME rows \in Seq(Row), NEW i \in DOMAIN rows, NEW x \in Row
  PROVE  [rows EXCEPT ![i] = x] \in Seq(Row) /\ DOMAIN [rows EXCEPT ![i] = x] = DOMAIN rows
BY ExceptSeq

LEMMA WriteFingerprint ==
  ASSUME rows \in Seq(Row), NEW i \in DOMAIN rows, NEW f \in Fingerprints
  PROVE  /\ [rows EXCEPT ![i].fp = f] \in Seq(Row)
         /\ DOMAIN [rows EXCEPT ![i].fp = f] = DOMAIN rows
<1>1. [rows[i] EXCEPT !.fp = f] \in Row
  BY RowsDomain DEF Row
<1>2. [rows EXCEPT ![i].fp = f] = [rows EXCEPT ![i] = [rows[i] EXCEPT !.fp = f]]
  OBVIOUS
<1> QED
  BY <1>1, <1>2, WriteRow

LEMMA WriteStatus ==
  ASSUME rows \in Seq(Row), NEW i \in DOMAIN rows
  PROVE  /\ [rows EXCEPT ![i].status = "deactivated"] \in Seq(Row)
         /\ DOMAIN [rows EXCEPT ![i].status = "deactivated"] = DOMAIN rows
<1>1. [rows[i] EXCEPT !.status = "deactivated"] \in Row
  BY RowsDomain DEF Row
<1>2. [rows EXCEPT ![i].status = "deactivated"]
        = [rows EXCEPT ![i] = [rows[i] EXCEPT !.status = "deactivated"]]
  OBVIOUS
<1> QED
  BY <1>1, <1>2, WriteRow

LEMMA WriteAllStatus ==
  ASSUME rows \in Seq(Row)
  PROVE  /\ [i \in DOMAIN rows |-> [rows[i] EXCEPT !.status = "deactivated"]] \in Seq(Row)
         /\ DOMAIN [i \in DOMAIN rows |-> [rows[i] EXCEPT !.status = "deactivated"]] = DOMAIN rows
<1>1. \A i \in DOMAIN rows : [rows[i] EXCEPT !.status = "deactivated"] \in Row
  BY RowsDomain DEF Row
<1>2. Len(rows) \in Nat /\ DOMAIN rows = 1 .. Len(rows)
  BY LenProperties
<1> QED
  BY <1>1, <1>2, SeqDef

LEMMA AppendRow ==
  ASSUME rows \in Seq(Row), NEW x \in Row
  PROVE  /\ Append(rows, x) \in Seq(Row)
         /\ DOMAIN Append(rows, x) = DOMAIN rows \union {Len(rows) + 1}
         /\ Len(rows) + 1 \notin DOMAIN rows
         /\ Append(rows, x)[Len(rows) + 1] = x
         /\ \A i \in DOMAIN rows : Append(rows, x)[i] = rows[i]
BY AppendProperties, LenProperties

-----------------------------------------------------------------------------
LEMMA TypeInit == Init => TypeInv
<1> SUFFICES ASSUME Init PROVE TypeInv
  OBVIOUS
<1>1. Frames
  BY IdleFrame DEF Init, Frames, GoodFrame, Activating, HoldsRow
<1>2. TypeOK
  <2>1. rows \in Seq(Row)
    BY EmptySeq DEF Init
  <2> QED
    BY <1>1, <2>1 DEF Init, TypeOK, Frames, EntStatus, LicStatus
<1> QED
  BY <1>1, <1>2 DEF TypeInv

HistoryTyped ==
    /\ highLimit \in Limits
    /\ revoked \in BOOLEAN /\ crashed \in BOOLEAN
    /\ overlapped \in BOOLEAN /\ reopened \in BOOLEAN
    /\ returned \subseteq Nat

LEMMA HistoryType ==
  ASSUME TypeOK, \/ UNCHANGED history
                 \/ \E r \in Requests : Enter(r)
                 \/ \E status : Reopen(status)
  PROVE  HistoryTyped'
<1>1. CASE UNCHANGED history
  BY <1>1 DEF TypeOK, HistoryTyped, history
<1>2. ASSUME NEW r \in Requests, Enter(r) PROVE HistoryTyped'
  BY <1>2 DEF TypeOK, HistoryTyped, Enter
<1>3. ASSUME NEW status, Reopen(status) PROVE HistoryTyped'
  BY <1>3 DEF TypeOK, HistoryTyped, Reopen
<1> QED
  BY <1>1, <1>2, <1>3

\* Ids only grow, and every row keeps its type, whichever request writes.
LEMMA ActivateType ==
  ASSUME TypeInv, NEW r \in Requests, Activate(r)
  PROVE  TypeInv'
<1> USE DEF TypeInv
<1>a. /\ Frames /\ req[r] \in Frame /\ rows \in Seq(Row) /\ revoked \in BOOLEAN
      /\ GoodFrame(req[r], DOMAIN rows)
  BY DEF TypeOK, Frames
<1>b. \A i \in DOMAIN rows : i \in Nat
  BY <1>a, RowsDomain
<1>c. ASSUME UNCHANGED <<entStatus, licStatus, rows, limit>>, Frames',
             UNCHANGED history \/ Enter(r)
      PROVE  TypeInv'
  BY <1>c, HistoryType DEF TypeOK, Frames, HistoryTyped
<1>1. ASSUME NEW f \in Fingerprints, ActivateReadLicense(r, f) PROVE TypeInv'
  <2>1. Begin(r, "a_entitlement", f, 0) /\ UNCHANGED rows
    BY <1>1 DEF ActivateReadLicense
  <2>2. "a_entitlement" \in Pc /\ "a_entitlement" \in Activating /\ "a_entitlement" \notin HoldsRow
    BY DEF Pc, Activating, HoldsRow
  <2>3. Frames'
    BY <1>a, <2>1, <2>2, BeginFrame
  <2> QED
    BY <1>1, <1>c, <2>3 DEF ActivateReadLicense, Begin
<1>2. CASE ActivateReadEntitlement(r)
  <2>1. CASE Finish(r)
    BY <1>2, <2>1, <1>a, <1>c, FinishFrame DEF ActivateReadEntitlement
  <2>2. CASE ~Finish(r)
    <3> DEFINE f == [req[r] EXCEPT !.pc = "a_exact", !.limit = limit,
                       !.wasPending = (entStatus = "pending"), !.overtaken = FALSE]
    <3>1. limit \in Nat
      BY LimitsAssumption DEF TypeOK
    <3>2. f \in Frame /\ f.pc = "a_exact" /\ f.fp = req[r].fp
      BY <1>a, <3>1 DEF Frame, Pc
    <3>3. req[r].fp \in Fingerprints
      BY <1>a, <1>2 DEF GoodFrame, ActivateReadEntitlement, At, Activating
    <3>4. GoodFrame(f, DOMAIN rows')
      BY <3>2, <3>3 DEF GoodFrame, HoldsRow
    <3>5. req' = [req EXCEPT ![r] = f] /\ UNCHANGED rows
      BY <1>2, <2>2, <1>a DEF ActivateReadEntitlement, Frames
    <3>6. Frames'
      BY <1>a, <3>4, <3>5, MovedFrame
    <3> QED
      BY <1>2, <1>c, <3>6 DEF ActivateReadEntitlement
  <2> QED
    BY <2>1, <2>2
<1>3. CASE ActivateFindExact(r)
  <2>1. req[r].fp \in Fingerprints /\ UNCHANGED rows
    BY <1>a, <1>3 DEF GoodFrame, ActivateFindExact, At, Activating
  <2>2. CASE \E i \in DOMAIN rows : FoundRow(r, i)
    BY <1>3, <1>a, <1>b, <1>c, <2>1, <2>2, FoundFrame DEF ActivateFindExact
  <2>3. CASE Goto(r, "a_same")
    <3>1. "a_same" \in Pc /\ "a_same" \notin HoldsRow
      BY DEF Pc, HoldsRow
    <3> QED
      BY <1>3, <1>a, <1>c, <2>1, <2>3, <3>1, GotoFrame DEF ActivateFindExact
  <2> QED
    BY <1>3, <2>2, <2>3 DEF ActivateFindExact
<1>4. CASE ActivateFindSameMachine(r)
  <2>1. req[r].fp \in Fingerprints /\ UNCHANGED rows
    BY <1>a, <1>4 DEF GoodFrame, ActivateFindSameMachine, At, Activating
  <2>2. CASE \E i \in DOMAIN rows : FoundRow(r, i)
    BY <1>4, <1>a, <1>b, <1>c, <2>1, <2>2, FoundFrame DEF ActivateFindSameMachine
  <2>3. CASE Goto(r, "a_count")
    <3>1. "a_count" \in Pc /\ "a_count" \notin HoldsRow
      BY DEF Pc, HoldsRow
    <3> QED
      BY <1>4, <1>a, <1>c, <2>1, <2>3, <3>1, GotoFrame DEF ActivateFindSameMachine
  <2> QED
    BY <1>4, <2>2, <2>3 DEF ActivateFindSameMachine, Preferred
<1>5. CASE ActivateTouch(r)
  <2>1. req[r].fp \in Fingerprints /\ req[r].row \in DOMAIN rows
    BY <1>a, <1>5 DEF GoodFrame, ActivateTouch, At, Activating, HoldsRow
  <2>2. rows' \in Seq(Row) /\ DOMAIN rows' = DOMAIN rows
    BY <1>5, <1>a, <2>1, WriteFingerprint DEF ActivateTouch
  <2>3. Frames'
    <3>1. CASE AfterReissue(r)
      <4>1. \A step \in {"a_activate", "a_issue"} :
               step \in Pc /\ step \notin Activating /\ step \notin HoldsRow
        BY DEF Pc, Activating, HoldsRow
      <4>2. Goto(r, "a_activate") \/ Goto(r, "a_issue")
        BY <3>1 DEF AfterReissue
      <4> QED
        BY <1>a, <2>2, <4>1, <4>2, GotoFrame
    <3>2. CASE Finish(r)
      BY <1>a, <2>2, <3>2, FinishFrame
    <3> QED
      BY <1>5, <3>1, <3>2 DEF ActivateTouch
  <2> QED
    BY <1>5, <2>2, <2>3 DEF ActivateTouch, TypeOK, Frames, history
<1>6. CASE ActivateReactivate(r)
  <2>1. req[r].fp \in Fingerprints /\ req[r].row \in DOMAIN rows
    BY <1>a, <1>6 DEF GoodFrame, ActivateReactivate, At, Activating, HoldsRow
  <2>2. [fp |-> req[r].fp, status |-> "active"] \in Row
    BY <2>1 DEF Row
  <2>3. rows' \in Seq(Row) /\ DOMAIN rows' = DOMAIN rows
    BY <1>6, <1>a, <2>1, <2>2, WriteRow DEF ActivateReactivate
  <2>4. Frames'
    <3>1. CASE AfterReissue(r)
      <4>1. \A step \in {"a_activate", "a_issue"} :
               step \in Pc /\ step \notin Activating /\ step \notin HoldsRow
        BY DEF Pc, Activating, HoldsRow
      <4>2. Goto(r, "a_activate") \/ Goto(r, "a_issue")
        BY <3>1 DEF AfterReissue
      <4> QED
        BY <1>a, <2>3, <4>1, <4>2, GotoFrame
    <3>2. CASE Finish(r)
      BY <1>a, <2>3, <3>2, FinishFrame
    <3> QED
      BY <1>6, <3>1, <3>2 DEF ActivateReactivate
  <2> QED
    BY <1>6, <1>b, <2>1, <2>3, <2>4 DEF ActivateReactivate, TypeOK, Frames
<1>7. CASE ActivateCount(r)
  <2>1. CASE Finish(r)
    BY <1>7, <2>1, <1>a, <1>c, FinishFrame DEF ActivateCount
  <2>2. CASE Goto(r, "a_insert")
    <3>1. "a_insert" \in Pc /\ "a_insert" \notin HoldsRow
      BY DEF Pc, HoldsRow
    <3>2. req[r].fp \in Fingerprints /\ UNCHANGED rows
      BY <1>a, <1>7 DEF GoodFrame, ActivateCount, At, Activating
    <3> QED
      BY <1>7, <1>a, <1>c, <2>2, <3>1, <3>2, GotoFrame DEF ActivateCount
  <2> QED
    BY <1>7, <2>1, <2>2 DEF ActivateCount
<1>8. CASE ActivateInsert(r)
  <2>1. req[r].fp \in Fingerprints
    BY <1>a, <1>8 DEF GoodFrame, ActivateInsert, At, Activating
  <2>2. [fp |-> req[r].fp, status |-> "active"] \in Row
    BY <2>1 DEF Row
  <2>3. rows' \in Seq(Row) /\ DOMAIN rows \subseteq DOMAIN rows'
    BY <1>8, <1>a, <2>2, AppendRow DEF ActivateInsert
  <2>4. Frames'
    <3>1. CASE Goto(r, "a_activate")
      <4>1. "a_activate" \in Pc /\ "a_activate" \notin Activating /\ "a_activate" \notin HoldsRow
        BY DEF Pc, Activating, HoldsRow
      <4> QED
        BY <1>a, <2>3, <3>1, <4>1, GotoFrame
    <3>2. CASE Finish(r)
      BY <1>a, <2>3, <3>2, FinishFrame
    <3> QED
      BY <1>8, <3>1, <3>2 DEF ActivateInsert
  <2> QED
    BY <1>8, <2>3, <2>4 DEF ActivateInsert, TypeOK, Frames, history
<1>9. CASE ActivateWriteEntitlement(r)
  <2>1. "a_use" \in Pc /\ "a_use" \notin Activating /\ "a_use" \notin HoldsRow
    BY DEF Pc, Activating, HoldsRow
  <2>2. Frames'
    BY <1>9, <1>a, <2>1, GotoFrame DEF ActivateWriteEntitlement
  <2> QED
    BY <1>9, <2>2, HistoryType DEF ActivateWriteEntitlement, Reopen, HistoryTyped, TypeOK, Frames, EntStatus
<1>10. CASE ActivateWriteLicense(r)
  <2>1. "a_issue" \in Pc /\ "a_issue" \notin Activating /\ "a_issue" \notin HoldsRow
    BY DEF Pc, Activating, HoldsRow
  <2>2. Frames'
    BY <1>10, <1>a, <2>1, GotoFrame DEF ActivateWriteLicense
  <2> QED
    BY <1>10, <2>2 DEF ActivateWriteLicense, TypeOK, Frames, history, LicStatus
<1>11. CASE ActivateIssue(r)
  BY <1>11, <1>a, <1>c, FinishFrame DEF ActivateIssue
<1> QED
  BY <1>1, <1>2, <1>3, <1>4, <1>5, <1>6, <1>7, <1>8, <1>9, <1>10, <1>11 DEF Activate

LEMMA RefreshType ==
  ASSUME TypeInv, NEW r \in Requests, Refresh(r)
  PROVE  TypeInv'
<1> USE DEF TypeInv
<1>a. /\ Frames /\ req[r] \in Frame /\ rows \in Seq(Row) /\ revoked \in BOOLEAN
      /\ GoodFrame(req[r], DOMAIN rows)
  BY DEF TypeOK, Frames
<1>b. \A i \in DOMAIN rows : i \in Nat
  BY <1>a, RowsDomain
<1>c. ASSUME UNCHANGED <<entStatus, licStatus, rows, limit>>, Frames',
             UNCHANGED history \/ Enter(r)
      PROVE  TypeInv'
  BY <1>c, HistoryType DEF TypeOK, Frames, HistoryTyped
<1>1. ASSUME NEW f \in Fingerprints, RefreshReadEntitlement(r, f) PROVE TypeInv'
  <2> DEFINE g == [Idle EXCEPT !.pc = "r_row", !.fp = f,
                               !.wasPending = (entStatus = "pending"), !.late = revoked]
  <2>1. g \in Frame /\ g.pc = "r_row"
    BY <1>a DEF Idle, Frame, Pc
  <2>2. GoodFrame(g, DOMAIN rows')
    BY <2>1 DEF GoodFrame, Activating, HoldsRow
  <2>3. Frames'
    BY <1>1, <1>a, <2>2, MovedFrame DEF RefreshReadEntitlement
  <2> QED
    BY <1>1, <1>c, <2>3 DEF RefreshReadEntitlement
<1>2. CASE RefreshFindRow(r)
  <2>1. "r_issue" \in Pc /\ "r_issue" \notin Activating /\ "r_issue" \notin HoldsRow
    BY DEF Pc, Activating, HoldsRow
  <2> QED
    BY <1>2, <1>a, <1>c, <2>1, GotoFrame, FinishFrame DEF RefreshFindRow
<1>3. CASE RefreshIssue(r)
  BY <1>3, <1>a, <1>c, FinishFrame DEF RefreshIssue
<1> QED
  BY <1>1, <1>2, <1>3 DEF Refresh

LEMMA UnbindType ==
  ASSUME TypeInv, NEW r \in Requests, Unbind(r)
  PROVE  TypeInv'
<1> USE DEF TypeInv
<1>a. /\ Frames /\ req[r] \in Frame /\ rows \in Seq(Row) /\ revoked \in BOOLEAN
      /\ GoodFrame(req[r], DOMAIN rows)
  BY DEF TypeOK, Frames
<1>b. \A i \in DOMAIN rows : i \in Nat
  BY <1>a, RowsDomain
<1>c. ASSUME UNCHANGED <<entStatus, licStatus, rows, limit>>, Frames',
             UNCHANGED history \/ Enter(r)
      PROVE  TypeInv'
  BY <1>c, HistoryType DEF TypeOK, Frames, HistoryTyped
<1>d. ActiveRows \subseteq DOMAIN rows
  BY DEF ActiveRows
<1>e. \A step \in {"d_provider", "d_row", "d_count", "d_unuse", "u_rows", "u_unuse"} :
        step \in Pc /\ step \notin Activating
  BY DEF Pc, Activating
<1>f. \A step \in {"d_count", "d_unuse", "u_rows", "u_unuse"} : step \notin HoldsRow
  BY DEF HoldsRow
<1>1. ASSUME NEW f \in Fingerprints, DeactivateFindRow(r, f) PROVE TypeInv'
  BY <1>1, <1>a, <1>b, <1>c, <1>d, <1>e, BeginFrame DEF DeactivateFindRow, Begin
<1>2. CASE DeactivateProvider(r)
  <2>1. req[r].row \in DOMAIN rows
    BY <1>2, <1>a DEF DeactivateProvider, At, GoodFrame, HoldsRow
  <2> QED
    BY <1>2, <1>a, <1>c, <1>e, <2>1, GotoFrame, FinishFrame DEF DeactivateProvider
<1>3. CASE UnbindDeviceFindRow(r)
  BY <1>3, <1>a, <1>b, <1>c, <1>d, <1>e, BeginFrame DEF UnbindDeviceFindRow, Begin
<1>4. CASE DeactivateWriteRow(r)
  <2>1. req[r].row \in DOMAIN rows
    BY <1>4, <1>a DEF DeactivateWriteRow, At, GoodFrame, HoldsRow
  <2>2. rows' \in Seq(Row) /\ DOMAIN rows' = DOMAIN rows
    BY <1>4, <1>a, <2>1, WriteStatus DEF DeactivateWriteRow
  <2>3. Frames'
    BY <1>4, <1>a, <1>e, <1>f, <2>2, GotoFrame DEF DeactivateWriteRow
  <2> QED
    BY <1>4, <2>2, <2>3 DEF DeactivateWriteRow, TypeOK, Frames
<1>5. CASE DeactivateCount(r)
  BY <1>5, <1>a, <1>c, <1>e, <1>f, GotoFrame, FinishFrame DEF DeactivateCount
<1>6. CASE UnbindAll(r)
  BY <1>6, <1>a, <1>c, <1>e, <1>f, BeginFrame DEF UnbindAll, Begin
<1>7. CASE UnbindAllRows(r)
  <2>1. rows' \in Seq(Row) /\ DOMAIN rows' = DOMAIN rows
    BY <1>7, <1>a, WriteAllStatus DEF UnbindAllRows
  <2>2. Frames'
    BY <1>7, <1>a, <1>e, <1>f, <2>1, GotoFrame DEF UnbindAllRows
  <2> QED
    BY <1>7, <2>1, <2>2 DEF UnbindAllRows, TypeOK, Frames
<1>8. CASE WriteUnused(r)
  <2>1. Frames'
    BY <1>8, <1>a, FinishFrame DEF WriteUnused
  <2> QED
    BY <1>8, <2>1 DEF WriteUnused, TypeOK, Frames, history, LicStatus
<1> QED
  BY <1>1, <1>2, <1>3, <1>4, <1>5, <1>6, <1>7, <1>8 DEF Unbind

LEMMA AdminType ==
  ASSUME TypeInv, NEW r \in Requests, Admin(r)
  PROVE  TypeInv'
<1> USE DEF TypeInv
<1>a. /\ Frames /\ req[r] \in Frame /\ rows \in Seq(Row) /\ revoked \in BOOLEAN
      /\ GoodFrame(req[r], DOMAIN rows)
  BY DEF TypeOK, Frames
<1>b. \A i \in DOMAIN rows : i \in Nat
  BY <1>a, RowsDomain
<1>c. ASSUME UNCHANGED <<entStatus, licStatus, rows, limit>>, Frames',
             UNCHANGED history \/ Enter(r)
      PROVE  TypeInv'
  BY <1>c, HistoryType DEF TypeOK, Frames, HistoryTyped
<1>e. \A step \in {"v_entitlement", "x_entitlement", "x_write"} :
        step \in Pc /\ step \notin Activating /\ step \notin HoldsRow
  BY DEF Pc, Activating, HoldsRow
<1>1. CASE RevokeWriteLicense(r)
  <2>1. Frames'
    BY <1>1, <1>a, <1>e, BeginFrame DEF RevokeWriteLicense
  <2> QED
    BY <1>1, <2>1, HistoryType DEF RevokeWriteLicense, Begin, HistoryTyped, TypeOK, Frames, LicStatus
<1>2. CASE RevokeWriteEntitlement(r)
  <2>1. ASSUME NEW q \in Requests PROVE GoodFrame(req'[q], DOMAIN rows')
    <3>1. GoodFrame(req[q], DOMAIN rows) /\ GoodFrame(Idle, DOMAIN rows) /\ UNCHANGED rows
      BY <1>2, <1>a, IdleFrame DEF GoodFrame, Activating, HoldsRow, Frames, RevokeWriteEntitlement
    <3>2. GoodFrame([req[q] EXCEPT !.overtaken = TRUE], DOMAIN rows)
      BY <3>1 DEF GoodFrame, Frame
    <3> QED
      BY <1>2, <3>1, <3>2 DEF RevokeWriteEntitlement
  <2>2. Frames'
    BY <1>2, <2>1 DEF Frames, GoodFrame, RevokeWriteEntitlement
  <2> QED
    BY <1>2, <2>2 DEF RevokeWriteEntitlement, TypeOK, Frames, EntStatus, history
<1>3. CASE ReactivateReadLicense(r)
  BY <1>3, <1>a, <1>c, <1>e, BeginFrame DEF ReactivateReadLicense, Begin
<1>4. CASE ReactivateReadEntitlement(r)
  <2>1. CASE Finish(r)
    BY <1>4, <2>1, <1>a, <1>c, FinishFrame DEF ReactivateReadEntitlement
  <2>2. CASE ~Finish(r)
    <3> DEFINE f == [req[r] EXCEPT !.pc = "x_write", !.overtaken = FALSE]
    <3>1. f \in Frame /\ f.pc = "x_write"
      BY <1>a DEF Frame, Pc
    <3>2. GoodFrame(f, DOMAIN rows')
      BY <1>e, <3>1 DEF GoodFrame
    <3>3. req' = [req EXCEPT ![r] = f] /\ UNCHANGED rows
      BY <1>4, <2>2, <1>a DEF ReactivateReadEntitlement, Frames
    <3>4. Frames'
      BY <1>a, <3>2, <3>3, MovedFrame
    <3> QED
      BY <1>4, <1>c, <3>4 DEF ReactivateReadEntitlement
  <2> QED
    BY <2>1, <2>2
<1>5. CASE ReactivateWrite(r)
  <2>1. Frames'
    BY <1>5, <1>a, FinishFrame DEF ReactivateWrite
  <2> QED
    BY <1>5, <2>1, HistoryType DEF ReactivateWrite, Reopen, HistoryTyped, TypeOK, Frames, EntStatus
<1> QED
  BY <1>1, <1>2, <1>3, <1>4, <1>5 DEF Admin

LEMMA TypeStep == TypeInv /\ [Next]_vars => TypeInv'
<1> SUFFICES ASSUME TypeInv, [Next]_vars PROVE TypeInv'
  OBVIOUS
<1>1. ASSUME NEW r \in Requests, Activate(r) \/ Refresh(r) \/ Unbind(r) \/ Admin(r)
      PROVE  TypeInv'
  BY <1>1, ActivateType, RefreshType, UnbindType, AdminType
<1>2. ASSUME NEW r \in Requests, Crash(r) PROVE TypeInv'
  <2>1. Frames'
    BY <1>2, FinishFrame DEF Crash, TypeInv
  <2> QED
    BY <1>2, <2>1 DEF Crash, TypeInv, TypeOK, Frames
<1>3. CASE Suspend
  BY <1>3, HistoryType DEF Suspend, Reopen, HistoryTyped, TypeInv, TypeOK, Frames, EntStatus
<1>4. ASSUME NEW n \in Limits, SetLimit(n) PROVE TypeInv'
  BY <1>4 DEF SetLimit, TypeInv, TypeOK, Frames
<1>5. CASE UNCHANGED vars
  BY <1>5 DEF vars, history, TypeInv, TypeOK, Frames
<1> QED
  BY <1>1, <1>2, <1>3, <1>4, <1>5 DEF Next

LEMMA TypeInvariant == Spec => []TypeInv
BY TypeInit, TypeStep, PTL DEF Spec

\* Every variable keeps its type, and no request writes to a row id or inserts
\* a fingerprint it has not read (upsertActivation, deactivateOrder).
THEOREM TypeCorrect == Spec => []TypeOK
<1>1. TypeInv => TypeOK
  BY DEF TypeInv
<1> QED
  BY <1>1, TypeInvariant, PTL

-----------------------------------------------------------------------------
(***************************************************************************)
(* Part 2: what a request has read still says something when it is used.   *)
(***************************************************************************)

\* After the read of entStatus, until the last statement that depends on it.
Relying == {"a_exact", "a_same", "a_touch", "a_reactivate", "a_count", "a_insert",
            "a_activate", "x_write"}

SoundFrame(f, status, high) ==
    /\ ~AllowReactivation => f.pc # "a_reactivate"
    /\ f.limit <= high
    /\ f.pc \in Relying /\ ~f.wasPending /\ f.pc # "x_write" => status # "pending"
    /\ f.pc \in {"a_use", "a_issue"} => status # "pending"
    /\ f.pc \in Relying /\ status = "revoked" => f.overtaken

Sound == \A r \in Requests : SoundFrame(req[r], entStatus, highLimit)

FreshInv == TypeInv /\ limit <= highLimit /\ Sound

\* What all steps but a revocation do to the values the frames rely on.
Steady ==
    /\ highLimit <= highLimit'
    /\ entStatus # "pending" => entStatus' # "pending"
    /\ entStatus' = "revoked" => entStatus = "revoked"

LEMMA LimitNat == TypeInv => limit \in Nat /\ highLimit \in Nat /\ highLimit >= 1
BY LimitsAssumption DEF TypeInv, TypeOK

LEMMA SteadyFrame ==
  ASSUME NEW f \in Frame, Steady, SoundFrame(f, entStatus, highLimit),
         highLimit \in Nat, highLimit' \in Nat
  PROVE  SoundFrame(f, entStatus', highLimit')
BY DEF Steady, SoundFrame, Frame

LEMMA MovedSound ==
  ASSUME FreshInv, TypeInv', Steady, NEW r \in Requests, NEW f,
         SoundFrame(f, entStatus', highLimit'), req' = [req EXCEPT ![r] = f]
  PROVE  Sound'
<1>1. ASSUME NEW q \in Requests PROVE SoundFrame(req'[q], entStatus', highLimit')
  <2>1. req[q] \in Frame /\ SoundFrame(req[q], entStatus, highLimit)
    BY DEF FreshInv, TypeInv, Frames, Sound
  <2>2. highLimit \in Nat /\ highLimit' \in Nat
    BY LimitsAssumption DEF FreshInv, TypeInv, TypeOK
  <2>3. SoundFrame(req[q], entStatus', highLimit')
    BY <2>1, <2>2, SteadyFrame
  <2>4. req'[q] = IF q = r THEN f ELSE req[q]
    BY DEF FreshInv, TypeInv, Frames
  <2> QED
    BY <2>3, <2>4
<1> QED
  BY <1>1 DEF Sound

LEMMA IdleSound ==
  ASSUME FreshInv, TypeInv'
  PROVE  SoundFrame(Idle, entStatus', highLimit')
<1>1. highLimit' \in Nat
  BY LimitsAssumption DEF TypeInv, TypeOK
<1> QED
  BY <1>1 DEF SoundFrame, Idle, Relying

LEMMA FinishSound ==
  ASSUME FreshInv, TypeInv', Steady, NEW r \in Requests, Finish(r)
  PROVE  Sound'
BY IdleSound, MovedSound DEF Finish

LEMMA BeginSound ==
  ASSUME FreshInv, TypeInv', Steady, NEW r \in Requests, NEW step, NEW f, NEW i,
         Begin(r, step, f, i), step \notin Relying, step \notin {"a_use", "a_issue"},
         step # "a_reactivate"
  PROVE  Sound'
<1> DEFINE g == [Idle EXCEPT !.pc = step, !.fp = f, !.row = i,
                             !.licRevoked = (licStatus = "revoked"), !.late = revoked]
<1>1. g.pc = step /\ g.limit = 0
  BY DEF Idle
<1>2. highLimit' \in Nat
  BY LimitsAssumption DEF TypeInv, TypeOK
<1>3. SoundFrame(g, entStatus', highLimit')
  BY <1>1, <1>2 DEF SoundFrame
<1> QED
  BY <1>3, MovedSound DEF Begin

\* A request that goes on relying on what it read, or stops relying on it.
LEMMA GotoSound ==
  ASSUME FreshInv, TypeInv', Steady, NEW r \in Requests, NEW step \in Pc, Goto(r, step),
         step \in Relying => req[r].pc \in Relying \ {"x_write"} /\ step # "x_write",
         ~AllowReactivation => step # "a_reactivate",
         step \in {"a_use", "a_issue"} => entStatus' # "pending"
  PROVE  Sound'
<1> DEFINE f == [req[r] EXCEPT !.pc = step]
<1>1. req[r] \in Frame /\ SoundFrame(req[r], entStatus, highLimit)
  BY DEF FreshInv, TypeInv, Frames, Sound
<1>2. highLimit \in Nat /\ highLimit' \in Nat
  BY LimitsAssumption DEF FreshInv, TypeInv, TypeOK
<1>3. SoundFrame(req[r], entStatus', highLimit')
  BY <1>1, <1>2, SteadyFrame
<1>4. /\ f.pc = step /\ f.limit = req[r].limit
      /\ f.wasPending = req[r].wasPending /\ f.overtaken = req[r].overtaken
  BY <1>1 DEF Frame
<1>5. SoundFrame(f, entStatus', highLimit')
  BY <1>3, <1>4 DEF SoundFrame
<1>6. req' = [req EXCEPT ![r] = f]
  BY DEF Goto, FreshInv, TypeInv, Frames
<1> QED
  BY <1>5, <1>6, MovedSound

LEMMA FoundSound ==
  ASSUME FreshInv, TypeInv', Steady, NEW r \in Requests, NEW i, FoundRow(r, i),
         req[r].pc \in {"a_exact", "a_same"}
  PROVE  Sound'
<1>1. CASE Finish(r)
  BY <1>1, FinishSound
<1>2. ASSUME NEW step \in {"a_touch", "a_reactivate"},
             ~AllowReactivation => step # "a_reactivate",
             req' = [req EXCEPT ![r].pc = step, ![r].row = i]
      PROVE  Sound'
  <2> DEFINE f == [req[r] EXCEPT !.pc = step, !.row = i]
  <2>1. req[r] \in Frame /\ SoundFrame(req[r], entStatus, highLimit)
    BY DEF FreshInv, TypeInv, Frames, Sound
  <2>2. highLimit \in Nat /\ highLimit' \in Nat
    BY LimitsAssumption DEF FreshInv, TypeInv, TypeOK
  <2>3. SoundFrame(req[r], entStatus', highLimit')
    BY <2>1, <2>2, SteadyFrame
  <2>4. /\ f.pc = step /\ f.limit = req[r].limit
        /\ f.wasPending = req[r].wasPending /\ f.overtaken = req[r].overtaken
    BY <2>1 DEF Frame
  <2>5. SoundFrame(f, entStatus', highLimit')
    BY <1>2, <2>3, <2>4 DEF SoundFrame, Relying
  <2>6. req' = [req EXCEPT ![r] = f]
    BY <1>2 DEF FreshInv, TypeInv, Frames
  <2> QED
    BY <2>5, <2>6, MovedSound
<1>3. CASE req' = [req EXCEPT ![r].pc = "a_touch", ![r].row = i]
  BY <1>2, <1>3
<1>4. CASE AllowReactivation /\ req' = [req EXCEPT ![r].pc = "a_reactivate", ![r].row = i]
  BY <1>2, <1>4
<1> QED
  BY <1>1, <1>3, <1>4 DEF FoundRow

LEMMA ActivateFresh ==
  ASSUME FreshInv, TypeInv', NEW r \in Requests, Activate(r)
  PROVE  FreshInv'
<1>a. /\ req[r] \in Frame /\ SoundFrame(req[r], entStatus, highLimit)
      /\ limit \in Nat /\ highLimit \in Nat /\ limit <= highLimit
  BY LimitNat DEF FreshInv, TypeInv, Frames, Sound
<1>b. ASSUME UNCHANGED <<entStatus, highLimit>> PROVE Steady
  BY <1>a, <1>b DEF Steady
<1>c. UNCHANGED <<limit, highLimit>>
  BY DEF Activate, history, Begin, Enter, Reopen, ActivateReadLicense, ActivateReadEntitlement, ActivateFindExact,
         ActivateFindSameMachine, ActivateTouch, ActivateReactivate, ActivateCount,
         ActivateInsert, ActivateWriteEntitlement, ActivateWriteLicense, ActivateIssue
<1>d. SUFFICES Sound'
  BY <1>c DEF FreshInv
<1>1. ASSUME NEW f \in Fingerprints, ActivateReadLicense(r, f) PROVE Sound'
  <2>1. Begin(r, "a_entitlement", f, 0) /\ Steady
    BY <1>1, <1>b, <1>c DEF ActivateReadLicense
  <2> QED
    BY <2>1, BeginSound DEF Relying
<1>2. CASE ActivateReadEntitlement(r)
  <2>1. Steady
    BY <1>2, <1>b, <1>c DEF ActivateReadEntitlement
  <2>2. CASE Finish(r)
    BY <2>1, <2>2, FinishSound
  <2>3. CASE ~Finish(r)
    <3> DEFINE f == [req[r] EXCEPT !.pc = "a_exact", !.limit = limit,
                       !.wasPending = (entStatus = "pending"), !.overtaken = FALSE]
    <3>1. /\ f.pc = "a_exact" /\ f.limit = limit
          /\ f.wasPending = (entStatus = "pending") /\ Usable(entStatus)
      BY <1>2, <1>a, <2>3 DEF ActivateReadEntitlement, Frame
    <3>2. SoundFrame(f, entStatus', highLimit')
      BY <1>2, <1>a, <1>c, <3>1 DEF SoundFrame, ActivateReadEntitlement, Usable
    <3>3. req' = [req EXCEPT ![r] = f]
      BY <1>2, <2>3 DEF ActivateReadEntitlement, FreshInv, TypeInv, Frames
    <3> QED
      BY <2>1, <3>2, <3>3, MovedSound
  <2> QED
    BY <2>2, <2>3
<1>3. CASE ActivateFindExact(r)
  <2>1. Steady /\ req[r].pc = "a_exact"
    BY <1>3, <1>b, <1>c DEF ActivateFindExact, At
  <2>2. CASE \E i \in DOMAIN rows : FoundRow(r, i)
    BY <2>1, <2>2, FoundSound
  <2>3. CASE Goto(r, "a_same")
    BY <2>1, <2>3, GotoSound DEF Pc, Relying
  <2> QED
    BY <1>3, <2>2, <2>3 DEF ActivateFindExact
<1>4. CASE ActivateFindSameMachine(r)
  <2>1. Steady /\ req[r].pc = "a_same"
    BY <1>4, <1>b, <1>c DEF ActivateFindSameMachine, At
  <2>2. CASE \E i \in DOMAIN rows : FoundRow(r, i)
    BY <2>1, <2>2, FoundSound
  <2>3. CASE Goto(r, "a_count")
    BY <2>1, <2>3, GotoSound DEF Pc, Relying
  <2> QED
    BY <1>4, <2>2, <2>3 DEF ActivateFindSameMachine, Preferred
<1>5. CASE ActivateTouch(r) \/ ActivateReactivate(r)
  <2>1. Steady /\ req[r].pc \in {"a_touch", "a_reactivate"} /\ UNCHANGED entStatus
    BY <1>5, <1>b, <1>c DEF ActivateTouch, ActivateReactivate, At
  <2>2. CASE Finish(r)
    BY <2>1, <2>2, FinishSound
  <2>3. CASE req[r].wasPending /\ Goto(r, "a_activate")
    BY <2>1, <2>3, GotoSound DEF Pc, Relying
  <2>4. CASE ~req[r].wasPending /\ Goto(r, "a_issue")
    <3>1. entStatus # "pending"
      BY <1>a, <2>1, <2>4 DEF SoundFrame, Relying
    <3> QED
      BY <2>1, <2>4, <3>1, GotoSound DEF Pc, Relying
  <2>5. req[r].wasPending \in BOOLEAN
    BY <1>a DEF Frame
  <2> QED
    BY <1>5, <2>2, <2>3, <2>4, <2>5 DEF ActivateTouch, ActivateReactivate, AfterReissue
<1>6. CASE ActivateCount(r)
  <2>1. Steady /\ req[r].pc = "a_count"
    BY <1>6, <1>b, <1>c DEF ActivateCount, At
  <2>2. CASE Finish(r)
    BY <2>1, <2>2, FinishSound
  <2>3. CASE Goto(r, "a_insert")
    BY <2>1, <2>3, GotoSound DEF Pc, Relying
  <2> QED
    BY <1>6, <2>2, <2>3 DEF ActivateCount
<1>7. CASE ActivateInsert(r)
  <2>1. Steady /\ req[r].pc = "a_insert"
    BY <1>7, <1>b, <1>c DEF ActivateInsert, At
  <2>2. CASE Finish(r)
    BY <2>1, <2>2, FinishSound
  <2>3. CASE Goto(r, "a_activate")
    BY <2>1, <2>3, GotoSound DEF Pc, Relying
  <2> QED
    BY <1>7, <2>2, <2>3 DEF ActivateInsert
<1>8. CASE ActivateWriteEntitlement(r)
  <2>1. Steady /\ Goto(r, "a_use") /\ entStatus' # "pending"
    BY <1>8, <1>a, <1>c DEF ActivateWriteEntitlement, Reopen, Steady
  <2> QED
    BY <2>1, GotoSound DEF Pc, Relying
<1>9. CASE ActivateWriteLicense(r)
  <2>1. Steady /\ Goto(r, "a_issue") /\ entStatus' # "pending"
    BY <1>9, <1>a, <1>b, <1>c DEF ActivateWriteLicense, SoundFrame, At
  <2> QED
    BY <2>1, GotoSound DEF Pc, Relying
<1>10. CASE ActivateIssue(r)
  BY <1>10, <1>b, <1>c, FinishSound DEF ActivateIssue
<1> QED
  BY <1>1, <1>2, <1>3, <1>4, <1>5, <1>6, <1>7, <1>8, <1>9, <1>10 DEF Activate

LEMMA RefreshFresh ==
  ASSUME FreshInv, TypeInv', NEW r \in Requests, Refresh(r)
  PROVE  FreshInv'
<1>a. UNCHANGED <<entStatus, limit, highLimit>> /\ highLimit \in Nat
  BY LimitNat DEF FreshInv, Refresh, history, Enter, RefreshReadEntitlement, RefreshFindRow,
                      RefreshIssue
<1>b. Steady
  BY <1>a DEF Steady
<1>c. SUFFICES Sound'
  BY <1>a DEF FreshInv
<1>1. ASSUME NEW f \in Fingerprints, RefreshReadEntitlement(r, f) PROVE Sound'
  <2> DEFINE g == [Idle EXCEPT !.pc = "r_row", !.fp = f,
                               !.wasPending = (entStatus = "pending"), !.late = revoked]
  <2>1. g.pc = "r_row" /\ g.limit = 0
    BY DEF Idle
  <2>2. SoundFrame(g, entStatus', highLimit')
    BY <1>a, <2>1 DEF SoundFrame, Relying
  <2>3. req' = [req EXCEPT ![r] = g]
    BY <1>1 DEF RefreshReadEntitlement
  <2> QED
    BY <1>b, <2>2, <2>3, MovedSound
<1>2. CASE RefreshFindRow(r) \/ RefreshIssue(r)
  <2>1. CASE Goto(r, "r_issue")
    BY <1>b, <2>1, GotoSound DEF Pc, Relying
  <2>2. CASE Finish(r)
    BY <1>b, <2>2, FinishSound
  <2> QED
    BY <1>2, <2>1, <2>2 DEF RefreshFindRow, RefreshIssue
<1> QED
  BY <1>1, <1>2 DEF Refresh

LEMMA UnbindFresh ==
  ASSUME FreshInv, TypeInv', NEW r \in Requests, Unbind(r)
  PROVE  FreshInv'
<1> DEFINE Steps == {"d_provider", "d_row", "d_count", "d_unuse", "u_rows", "u_unuse"}
<1>a. UNCHANGED <<entStatus, limit, highLimit>> /\ highLimit \in Nat
  BY LimitNat DEF FreshInv, Unbind, history, Begin, Enter, DeactivateFindRow, DeactivateProvider,
     UnbindDeviceFindRow, DeactivateWriteRow, DeactivateCount, UnbindAll, UnbindAllRows, WriteUnused
<1>b. Steady
  BY <1>a DEF Steady
<1>1. \/ Finish(r)
      \/ \E step \in Steps : Goto(r, step) \/ \E f, i : Begin(r, step, f, i)
  BY DEF Unbind, DeactivateFindRow, DeactivateProvider, UnbindDeviceFindRow,
         DeactivateWriteRow, DeactivateCount, UnbindAll, UnbindAllRows, WriteUnused
<1>2. \A step \in Steps : /\ step \in Pc /\ step \notin Relying
                          /\ step \notin {"a_use", "a_issue"} /\ step # "a_reactivate"
  BY DEF Pc, Relying
<1>3. Sound'
  BY <1>b, <1>1, <1>2, FinishSound, GotoSound, BeginSound
<1> QED
  BY <1>a, <1>3 DEF FreshInv

LEMMA AdminFresh ==
  ASSUME FreshInv, TypeInv', NEW r \in Requests, Admin(r)
  PROVE  FreshInv'
<1>a. UNCHANGED <<limit, highLimit>> /\ highLimit \in Nat
  BY LimitNat DEF FreshInv, Admin, history, Begin, Enter, Reopen, RevokeWriteLicense, RevokeWriteEntitlement,
     ReactivateReadLicense, ReactivateReadEntitlement, ReactivateWrite
<1>b. SUFFICES Sound'
  BY <1>a DEF FreshInv
<1>1. ASSUME NEW step \in {"v_entitlement", "x_entitlement"}, Begin(r, step, None, 0),
             UNCHANGED entStatus
      PROVE  Sound'
  BY <1>1, <1>a, BeginSound DEF Steady, Relying
<1>2. CASE RevokeWriteEntitlement(r)
  <2>1. ASSUME NEW q \in Requests PROVE SoundFrame(req'[q], entStatus', highLimit')
    <3>1. CASE q = r
      BY <1>2, <3>1, IdleSound DEF RevokeWriteEntitlement
    <3>2. CASE q # r
      <4>1. req[q] \in Frame /\ SoundFrame(req[q], entStatus, highLimit)
        BY DEF FreshInv, TypeInv, Frames, Sound
      <4>2. req'[q] = [req[q] EXCEPT !.overtaken = TRUE] /\ entStatus' = "revoked"
        BY <1>2, <3>2 DEF RevokeWriteEntitlement
      <4> QED
        BY <1>a, <4>1, <4>2 DEF SoundFrame, Frame
    <3> QED
      BY <3>1, <3>2
  <2> QED
    BY <2>1 DEF Sound
<1>3. CASE ReactivateReadEntitlement(r)
  <2>1. Steady
    BY <1>3, <1>a DEF Steady, ReactivateReadEntitlement
  <2>2. CASE Finish(r)
    BY <2>1, <2>2, FinishSound
  <2>3. CASE ~Finish(r)
    <3> DEFINE f == [req[r] EXCEPT !.pc = "x_write", !.overtaken = FALSE]
    <3>1. req[r] \in Frame /\ SoundFrame(req[r], entStatus, highLimit)
      BY DEF FreshInv, TypeInv, Frames, Sound
    <3>2. f.pc = "x_write" /\ f.limit = req[r].limit
      BY <3>1 DEF Frame
    <3>3. SoundFrame(f, entStatus', highLimit')
      BY <1>3, <1>a, <2>3, <3>1, <3>2 DEF SoundFrame, ReactivateReadEntitlement
    <3>4. req' = [req EXCEPT ![r] = f]
      BY <1>3, <2>3 DEF ReactivateReadEntitlement, FreshInv, TypeInv, Frames
    <3> QED
      BY <2>1, <3>3, <3>4, MovedSound
  <2> QED
    BY <2>2, <2>3
<1>4. CASE ReactivateWrite(r)
  <2>1. Steady /\ Finish(r)
    BY <1>4, <1>a DEF ReactivateWrite, Reopen, Steady
  <2> QED
    BY <2>1, FinishSound
<1> QED
  BY <1>1, <1>2, <1>3, <1>4 DEF Admin, RevokeWriteLicense, ReactivateReadLicense

LEMMA FreshInit == Init => FreshInv
<1>1. Init => TypeInv
  BY TypeInit
<1>2. ASSUME Init PROVE limit <= highLimit /\ Sound
  <2>1. limit \in Nat /\ highLimit \in Nat /\ limit = highLimit
    BY <1>1, <1>2, LimitNat DEF Init
  <2> QED
    BY <1>2, <2>1 DEF Init, Sound, SoundFrame, Idle, Relying
<1> QED
  BY <1>1, <1>2 DEF FreshInv

LEMMA FreshStep == FreshInv /\ [Next]_vars => FreshInv'
<1> SUFFICES ASSUME FreshInv, [Next]_vars PROVE FreshInv'
  OBVIOUS
<1>a. TypeInv'
  BY TypeStep DEF FreshInv
<1>b. limit \in Nat /\ highLimit \in Nat
  BY LimitNat DEF FreshInv
<1>1. ASSUME NEW r \in Requests, Activate(r) \/ Refresh(r) \/ Unbind(r) \/ Admin(r)
      PROVE  FreshInv'
  BY <1>a, <1>1, ActivateFresh, RefreshFresh, UnbindFresh, AdminFresh
<1>2. ASSUME NEW r \in Requests, Crash(r) PROVE FreshInv'
  <2>1. Steady /\ Finish(r)
    BY <1>2, <1>b DEF Crash, Steady
  <2> QED
    BY <1>2, <1>a, <2>1, FinishSound DEF Crash, FreshInv
<1>3. ASSUME Steady, UNCHANGED req, limit' <= highLimit' PROVE FreshInv'
  <2>1. ASSUME NEW q \in Requests PROVE SoundFrame(req'[q], entStatus', highLimit')
    <3>1. req[q] \in Frame /\ SoundFrame(req[q], entStatus, highLimit)
      BY DEF FreshInv, TypeInv, Frames, Sound
    <3>2. highLimit' \in Nat
      BY <1>a, LimitsAssumption DEF TypeInv, TypeOK
    <3> QED
      BY <1>3, <1>b, <3>1, <3>2, SteadyFrame
  <2> QED
    BY <1>a, <1>3, <2>1 DEF FreshInv, Sound
<1>4. CASE Suspend
  BY <1>3, <1>4, <1>b DEF Suspend, Reopen, Steady, FreshInv
<1>5. ASSUME NEW n \in Limits, SetLimit(n) PROVE FreshInv'
  BY <1>3, <1>5, <1>b, LimitsAssumption DEF SetLimit, Steady
<1>6. CASE UNCHANGED vars
  BY <1>3, <1>6, <1>b DEF vars, history, Steady, FreshInv
<1> QED
  BY <1>1, <1>2, <1>4, <1>5, <1>6 DEF Next

LEMMA FreshInvariant == Spec => []FreshInv
BY FreshInit, FreshStep, PTL DEF Spec

\* activateOrder never signs a licence while the entitlement is pending: a request
\* skips the write of "active" only if it read another status, and no statement
\* writes "pending" back.
THEOREM ActivatedBeforeIssueTheorem == Spec => []ActivatedBeforeIssue
<1>1. FreshInv => ActivatedBeforeIssue
  BY DEF FreshInv, Sound, SoundFrame, ActivatedBeforeIssue, At
<1> QED
  BY <1>1, FreshInvariant, PTL

\* No request that reads a revoked entitlement writes it back: activateOrder and
\* adminReactivateOrder can undo a revocation only when it overtook them.
THEOREM OnlyOvertakenReviveTheorem == Spec => OnlyOvertakenRevive
<1> DEFINE Act == entStatus = "revoked" /\ entStatus' # "revoked" =>
                     \/ entStatus' = "suspended"
                     \/ \E r \in Requests : req[r].overtaken /\ req'[r] # req[r]
<1>1. FreshInv /\ [Next]_vars => [Act]_vars
  <2> SUFFICES ASSUME FreshInv, Next, entStatus = "revoked", entStatus' # "revoked"
               PROVE  Act
    BY DEF vars
  <2>1. ASSUME NEW r \in Requests, NEW step \in Pc, step # req[r].pc, Goto(r, step),
               req[r].pc \in Relying
        PROVE  Act
    <3>1. req[r] \in Frame /\ req[r].overtaken
      BY <2>1 DEF FreshInv, TypeInv, Frames, Sound, SoundFrame
    <3>2. req'[r].pc = step
      BY <2>1, <3>1 DEF Goto, FreshInv, TypeInv, Frames, Frame
    <3> QED
      BY <2>1, <3>1, <3>2
  <2>2. ASSUME NEW r \in Requests, ActivateWriteEntitlement(r) PROVE Act
    BY <2>1, <2>2 DEF ActivateWriteEntitlement, At, Relying, Pc
  <2>3. ASSUME NEW r \in Requests, ReactivateWrite(r) PROVE Act
    <3>1. req[r] \in Frame /\ req[r].overtaken /\ req[r].pc = "x_write"
      BY <2>3 DEF FreshInv, TypeInv, Frames, Sound, SoundFrame, ReactivateWrite, At, Relying
    <3>2. req'[r].pc = "idle"
      BY <2>3 DEF ReactivateWrite, Finish, Idle, FreshInv, TypeInv, Frames
    <3> QED
      BY <3>1, <3>2
  <2>4. CASE Suspend
    BY <2>4 DEF Suspend, Reopen
  <2>5. \/ Suspend
        \/ \E r \in Requests : ActivateWriteEntitlement(r) \/ ReactivateWrite(r)
    BY DEF Next, Activate, Refresh, Unbind, Admin, Crash, SetLimit, history,
       ActivateReadLicense, ActivateReadEntitlement, ActivateFindExact,
       ActivateFindSameMachine, ActivateTouch, ActivateReactivate, ActivateCount,
       ActivateInsert, ActivateWriteLicense, ActivateIssue,
       RefreshReadEntitlement, RefreshFindRow, RefreshIssue,
       DeactivateFindRow, DeactivateProvider, UnbindDeviceFindRow, DeactivateWriteRow,
       DeactivateCount, UnbindAll, UnbindAllRows, WriteUnused,
       RevokeWriteLicense, RevokeWriteEntitlement, ReactivateReadLicense,
       ReactivateReadEntitlement
  <2> QED
    BY <2>2, <2>3, <2>4, <2>5
<1> QED
  BY <1>1, FreshInvariant, PTL DEF Spec, OnlyOvertakenRevive

-----------------------------------------------------------------------------
(***************************************************************************)
(* Part 3: the device slots.                                               *)
(***************************************************************************)

NoneRevived ==
    \A i \in DOMAIN rows : rows[i].status = "deactivated" =>
        i \in DOMAIN rows' /\ rows'[i].status = "deactivated"

LEMMA RowWritten ==
  ASSUME TypeInv, NEW k, NEW x, rows' = [rows EXCEPT ![k] = x],
         k \in DOMAIN rows /\ rows[k].status = "deactivated" => x.status = "deactivated"
  PROVE  NoneRevived /\ DOMAIN rows' = DOMAIN rows
BY DEF NoneRevived

\* What a step does to the rows, when no request can be at a_reactivate.
LEMMA RowStep ==
  ASSUME FreshInv, ~AllowReactivation, Next
  PROVE  /\ NoneRevived
         /\ \/ DOMAIN rows' = DOMAIN rows
            \/ \E r \in Requests : ActivateInsert(r) /\ ~Finish(r)
<1>a. rows \in Seq(Row) /\ \A r \in Requests : req[r].pc # "a_reactivate"
  BY DEF FreshInv, TypeInv, TypeOK, Sound, SoundFrame
<1>1. ASSUME UNCHANGED rows PROVE NoneRevived /\ DOMAIN rows' = DOMAIN rows
  BY <1>1 DEF NoneRevived
<1>2. ASSUME NEW r \in Requests, ActivateTouch(r)
      PROVE  NoneRevived /\ DOMAIN rows' = DOMAIN rows
  <2>1. req[r].row \in DOMAIN rows /\ rows[req[r].row] \in Row
    BY <1>2, <1>a, RowsDomain DEF FreshInv, TypeInv, Frames, GoodFrame, HoldsRow, ActivateTouch, At
  <2>2. CASE UNCHANGED rows
    BY <1>1, <2>2
  <2>3. CASE rows' = [rows EXCEPT ![req[r].row].fp = req[r].fp]
    <3> DEFINE x == [rows[req[r].row] EXCEPT !.fp = req[r].fp]
    <3>1. x.status = rows[req[r].row].status
      BY <2>1 DEF Row
    <3>2. rows' = [rows EXCEPT ![req[r].row] = x]
      BY <2>3
    <3> QED
      BY <3>1, <3>2, RowWritten DEF FreshInv
  <2> QED
    BY <1>2, <2>2, <2>3 DEF ActivateTouch
<1>3. ASSUME NEW r \in Requests, DeactivateWriteRow(r)
      PROVE  NoneRevived /\ DOMAIN rows' = DOMAIN rows
  <2>1. req[r].row \in DOMAIN rows /\ rows[req[r].row] \in Row
    BY <1>3, <1>a, RowsDomain DEF FreshInv, TypeInv, Frames, GoodFrame, HoldsRow, DeactivateWriteRow, At
  <2> DEFINE x == [rows[req[r].row] EXCEPT !.status = "deactivated"]
  <2>2. x.status = "deactivated"
    BY <2>1 DEF Row
  <2>3. rows' = [rows EXCEPT ![req[r].row] = x]
    BY <1>3 DEF DeactivateWriteRow
  <2> QED
    BY <2>2, <2>3, RowWritten DEF FreshInv
<1>4. ASSUME NEW r \in Requests, UnbindAllRows(r)
      PROVE  NoneRevived /\ DOMAIN rows' = DOMAIN rows
  <2>1. \A i \in DOMAIN rows : [rows[i] EXCEPT !.status = "deactivated"].status = "deactivated"
    BY <1>a, RowsDomain DEF Row
  <2>2. rows' = [i \in DOMAIN rows |-> [rows[i] EXCEPT !.status = "deactivated"]]
    BY <1>4 DEF UnbindAllRows
  <2> QED
    BY <2>1, <2>2 DEF NoneRevived
<1>5. ASSUME NEW r \in Requests, ActivateInsert(r)
      PROVE  NoneRevived /\ (Finish(r) => DOMAIN rows' = DOMAIN rows)
  <2>1. CASE UNCHANGED rows
    BY <1>1, <2>1
  <2>2. CASE rows' = Append(rows, [fp |-> req[r].fp, status |-> "active"]) /\ Goto(r, "a_activate")
    <3>1. req[r].fp \in Fingerprints /\ req[r] \in Frame
      BY <1>5 DEF FreshInv, TypeInv, Frames, GoodFrame, Activating, ActivateInsert, At
    <3>2. [fp |-> req[r].fp, status |-> "active"] \in Row
      BY <3>1 DEF Row
    <3>3. NoneRevived
      BY <1>a, <2>2, <3>2, AppendRow DEF NoneRevived
    <3>4. ~Finish(r)
      BY <2>2, <3>1 DEF Goto, Finish, Idle, Frame, FreshInv, TypeInv, Frames
    <3> QED
      BY <3>3, <3>4
  <2> QED
    BY <1>5, <2>1, <2>2 DEF ActivateInsert
<1>6. \/ UNCHANGED rows
      \/ \E r \in Requests : \/ ActivateTouch(r) \/ ActivateInsert(r)
                             \/ DeactivateWriteRow(r) \/ UnbindAllRows(r)
  BY <1>a DEF Next, Activate, Refresh, Unbind, Admin, Crash, SetLimit, Suspend,
     ActivateReadLicense, ActivateReadEntitlement, ActivateFindExact, At,
     ActivateFindSameMachine, ActivateReactivate, ActivateCount,
     ActivateWriteEntitlement, ActivateWriteLicense, ActivateIssue,
     RefreshReadEntitlement, RefreshFindRow, RefreshIssue,
     DeactivateFindRow, DeactivateProvider, UnbindDeviceFindRow,
     DeactivateCount, UnbindAll, WriteUnused,
     RevokeWriteLicense, RevokeWriteEntitlement, ReactivateReadLicense,
     ReactivateReadEntitlement, ReactivateWrite
<1> QED
  BY <1>1, <1>2, <1>3, <1>4, <1>5, <1>6

\* upsertActivation never turns a deactivated row active again when the plan says
\* allowReactivation = false, whatever deactivateOrder and the unbinds do meanwhile.
THEOREM UnboundStaysUnboundTheorem == Spec => UnboundStaysUnbound
<1> DEFINE Act == ~AllowReactivation =>
                    \A i \in DOMAIN rows :
                      rows[i].status = "deactivated" => rows'[i].status = "deactivated"
<1>1. FreshInv /\ [Next]_vars => [Act]_vars
  BY RowStep DEF NoneRevived
<1> QED
  BY <1>1, FreshInvariant, PTL DEF Spec, UnboundStaysUnbound

\* The statements that write the activations.
LEMMA RowActions ==
  ASSUME [Next]_vars
  PROVE  \/ UNCHANGED <<rows, returned>>
         \/ \E r \in Requests : \/ ActivateTouch(r) \/ ActivateReactivate(r) \/ ActivateInsert(r)
                                \/ DeactivateWriteRow(r) \/ UnbindAllRows(r)
<1> DEFINE Same == UNCHANGED <<rows, returned>>
<1>0. ASSUME NEW r, NEW step, NEW f, NEW i, Begin(r, step, f, i) PROVE returned' = returned
  BY <1>0 DEF Begin, Enter
<1>1. ASSUME NEW r \in Requests, Activate(r)
      PROVE  ActivateTouch(r) \/ ActivateReactivate(r) \/ ActivateInsert(r) \/ Same
  <2>1. ASSUME NEW f \in Fingerprints, ActivateReadLicense(r, f) PROVE Same
    BY <1>0, <2>1 DEF ActivateReadLicense
  <2>2. ActivateReadEntitlement(r) \/ ActivateFindExact(r) \/ ActivateFindSameMachine(r) => Same
    BY DEF ActivateReadEntitlement, ActivateFindExact, ActivateFindSameMachine, history
  <2>3. \/ ActivateCount(r) \/ ActivateWriteEntitlement(r) \/ ActivateWriteLicense(r)
        \/ ActivateIssue(r)
        => Same
    BY DEF ActivateCount, ActivateWriteEntitlement, Reopen, ActivateWriteLicense, ActivateIssue,
       history
  <2> QED
    BY <1>1, <2>1, <2>2, <2>3 DEF Activate
<1>2. ASSUME NEW r \in Requests, Refresh(r) PROVE Same
  <2>1. ASSUME NEW f \in Fingerprints, RefreshReadEntitlement(r, f) PROVE Same
    BY <2>1 DEF RefreshReadEntitlement, Enter
  <2> QED
    BY <1>2, <2>1 DEF Refresh, RefreshFindRow, RefreshIssue, history
<1>3. ASSUME NEW r \in Requests, Unbind(r)
      PROVE  DeactivateWriteRow(r) \/ UnbindAllRows(r) \/ Same
  <2>1. ASSUME NEW f \in Fingerprints, DeactivateFindRow(r, f) PROVE Same
    BY <1>0, <2>1 DEF DeactivateFindRow
  <2>2. UnbindDeviceFindRow(r) \/ UnbindAll(r) => Same
    BY <1>0 DEF UnbindDeviceFindRow, UnbindAll
  <2>3. DeactivateProvider(r) \/ DeactivateCount(r) \/ WriteUnused(r) => Same
    BY DEF DeactivateProvider, DeactivateCount, WriteUnused, history
  <2> QED
    BY <1>3, <2>1, <2>2, <2>3 DEF Unbind
<1>4. ASSUME NEW r \in Requests, Admin(r) PROVE Same
  <2>1. RevokeWriteLicense(r) \/ ReactivateReadLicense(r) => Same
    BY <1>0 DEF RevokeWriteLicense, ReactivateReadLicense
  <2>2. RevokeWriteEntitlement(r) \/ ReactivateReadEntitlement(r) \/ ReactivateWrite(r) => Same
    BY DEF RevokeWriteEntitlement, ReactivateReadEntitlement, ReactivateWrite, Reopen, history
  <2> QED
    BY <1>4, <2>1, <2>2 DEF Admin
<1>5. ASSUME NEW r \in Requests, Crash(r) PROVE Same
  BY <1>5 DEF Crash
<1>6. Suspend \/ (\E n \in Limits : SetLimit(n)) \/ UNCHANGED vars => Same
  BY DEF Suspend, SetLimit, Reopen, vars, history
<1> QED
  BY <1>1, <1>2, <1>3, <1>4, <1>5, <1>6 DEF Next

\* A row that is counted stays counted only as long as it is active, and none joins but
\* through an insert: setting a row active again takes it out of the count.
LEMMA CountedStep ==
  ASSUME FreshInv, [Next]_vars
  PROVE  \/ CountedRows' \subseteq CountedRows
         \/ \E r \in Requests : ActivateInsert(r) /\ rows' # rows
<1>a. rows \in Seq(Row) /\ \A i \in DOMAIN rows : rows[i] \in Row
  BY RowsDomain DEF FreshInv, TypeInv, TypeOK
<1>b. ASSUME NEW r \in Requests, req[r].pc \in HoldsRow PROVE req[r].row \in DOMAIN rows
  BY <1>b DEF FreshInv, TypeInv, Frames, GoodFrame
<1>1. CASE UNCHANGED <<rows, returned>>
  BY <1>1 DEF CountedRows, ActiveRows
<1>2. ASSUME NEW r \in Requests, ActivateTouch(r) PROVE CountedRows' \subseteq CountedRows
  <2>1. CASE UNCHANGED rows
    BY <1>1, <1>2, <2>1 DEF ActivateTouch, history
  <2>2. CASE rows' = [rows EXCEPT ![req[r].row].fp = req[r].fp]
    <3>1. req[r].row \in DOMAIN rows
      BY <1>2, <1>b DEF ActivateTouch, At, HoldsRow
    <3>2. DOMAIN rows' = DOMAIN rows /\ \A i \in DOMAIN rows : rows'[i].status = rows[i].status
      BY <1>a, <2>2, <3>1 DEF Row
    <3>3. returned' = returned
      BY <1>2 DEF ActivateTouch, history
    <3> QED
      BY <3>2, <3>3 DEF CountedRows, ActiveRows
  <2> QED
    BY <1>2, <2>1, <2>2 DEF ActivateTouch
<1>3. ASSUME NEW r \in Requests, ActivateReactivate(r) PROVE CountedRows' \subseteq CountedRows
  <2>1. CASE UNCHANGED <<rows, returned>>
    BY <1>1, <2>1
  <2>2. CASE /\ rows' = [rows EXCEPT ![req[r].row] = [fp |-> req[r].fp, status |-> "active"]]
             /\ returned' = returned \union {req[r].row}
    BY <2>2 DEF CountedRows, ActiveRows
  <2> QED
    BY <1>3, <2>1, <2>2 DEF ActivateReactivate
<1>4. ASSUME NEW r \in Requests, DeactivateWriteRow(r) PROVE CountedRows' \subseteq CountedRows
  <2>1. req[r].row \in DOMAIN rows
    BY <1>4, <1>b DEF DeactivateWriteRow, At, HoldsRow
  <2>2. /\ rows' = [rows EXCEPT ![req[r].row].status = "deactivated"]
        /\ returned' = returned \ {req[r].row}
    BY <1>4 DEF DeactivateWriteRow
  <2>3. /\ DOMAIN rows' = DOMAIN rows /\ rows'[req[r].row].status = "deactivated"
        /\ \A i \in DOMAIN rows \ {req[r].row} : rows'[i] = rows[i]
    BY <1>a, <2>1, <2>2 DEF Row
  <2> QED
    BY <2>2, <2>3 DEF CountedRows, ActiveRows
<1>5. ASSUME NEW r \in Requests, UnbindAllRows(r) PROVE CountedRows' \subseteq CountedRows
  <2>1. \A i \in DOMAIN rows : [rows[i] EXCEPT !.status = "deactivated"].status = "deactivated"
    BY <1>a DEF Row
  <2> QED
    BY <1>5, <2>1 DEF UnbindAllRows, CountedRows, ActiveRows
<1>6. ASSUME NEW r \in Requests, ActivateInsert(r), rows' = rows
      PROVE  CountedRows' \subseteq CountedRows
  BY <1>1, <1>6 DEF ActivateInsert, history
<1> QED
  BY <1>1, <1>2, <1>3, <1>4, <1>5, <1>6, RowActions

Inserting == {r \in Requests : req[r].pc = "a_insert"}

\* A request that has counted and not yet inserted holds a reservation.
SlotBound ==
    Cardinality(CountedRows) + Cardinality(Inserting) <= highLimit + Cardinality(Requests) - 1

SlotInv == FreshInv /\ SlotBound

LEMMA Finite ==
  ASSUME TypeInv
  PROVE  /\ IsFiniteSet(ActiveRows) /\ Cardinality(ActiveRows) \in Nat
         /\ IsFiniteSet(CountedRows) /\ Cardinality(CountedRows) \in Nat
         /\ Cardinality(CountedRows) <= Cardinality(ActiveRows)
         /\ IsFiniteSet(Inserting) /\ Cardinality(Inserting) \in Nat
         /\ Cardinality(Requests) \in Nat /\ Cardinality(Requests) >= 1
         /\ Cardinality(Inserting) <= Cardinality(Requests)
<1>1. rows \in Seq(Row) /\ Len(rows) \in Nat /\ DOMAIN rows = 1 .. Len(rows)
  BY LenProperties DEF TypeInv, TypeOK
<1>2. IsFiniteSet(DOMAIN rows)
  BY <1>1, FS_Interval
<1>3. IsFiniteSet(ActiveRows)
  BY <1>2, FS_Subset DEF ActiveRows
<1>6. IsFiniteSet(CountedRows) /\ Cardinality(CountedRows) <= Cardinality(ActiveRows)
  BY <1>3, FS_Subset DEF CountedRows
<1>4. IsFiniteSet(Inserting) /\ Cardinality(Inserting) <= Cardinality(Requests)
  BY RequestsAssumption, FS_Subset DEF Inserting
<1>5. Cardinality(Requests) # 0
  BY RequestsAssumption, FS_EmptySet
<1> QED
  BY <1>3, <1>4, <1>5, <1>6, RequestsAssumption, FS_CardinalityType

LEMMA OneMoreCounted ==
  ASSUME TypeInv, NEW f \in Fingerprints, rows' = Append(rows, [fp |-> f, status |-> "active"]),
         returned' = returned
  PROVE  /\ CountedRows' \subseteq CountedRows \union {Len(rows) + 1}
         /\ Len(rows) + 1 \notin CountedRows
<1>1. [fp |-> f, status |-> "active"] \in Row /\ rows \in Seq(Row)
  BY DEF Row, TypeInv, TypeOK
<1> QED
  BY <1>1, AppendRow DEF CountedRows, ActiveRows

\* Only ActivateCount takes a reservation.
LEMMA ReservationStep ==
  ASSUME FreshInv, Next
  PROVE  \/ Inserting' \subseteq Inserting
         \/ \E r \in Requests : ActivateCount(r) /\ ~Finish(r)
<1> DEFINE Kept(r) == \A q \in Requests \ {r} : req'[q].pc = req[q].pc
           Left(r) == req'[r].pc # "a_insert"
<1>0. req \in [Requests -> Frame] /\ Idle.pc = "idle"
  BY DEF FreshInv, TypeInv, Frames, Idle
<1>1. ASSUME NEW r \in Requests, Kept(r), Left(r) PROVE Inserting' \subseteq Inserting
  BY <1>1 DEF Inserting
<1>2. ASSUME NEW r \in Requests, NEW f, f.pc # "a_insert", req' = [req EXCEPT ![r] = f]
      PROVE  Inserting' \subseteq Inserting
  BY <1>0, <1>1, <1>2
<1>3. ASSUME NEW r \in Requests, NEW step \in Pc \ {"a_insert"}, Goto(r, step)
      PROVE  Inserting' \subseteq Inserting
  <2> DEFINE f == [req[r] EXCEPT !.pc = step]
  <2>1. req' = [req EXCEPT ![r] = f] /\ f.pc = step
    BY <1>0, <1>3 DEF Goto, Frame
  <2> QED
    BY <1>2, <2>1
<1>4. ASSUME NEW r \in Requests, Finish(r) PROVE Inserting' \subseteq Inserting
  BY <1>0, <1>2, <1>4 DEF Finish
<1>5. ASSUME NEW r \in Requests, NEW step \in Pc \ {"a_insert"}, NEW f, NEW i, Begin(r, step, f, i)
      PROVE  Inserting' \subseteq Inserting
  <2> DEFINE g == [Idle EXCEPT !.pc = step, !.fp = f, !.row = i,
                               !.licRevoked = (licStatus = "revoked"), !.late = revoked]
  <2>1. g.pc = step
    BY DEF Idle
  <2> QED
    BY <1>2, <1>5, <2>1 DEF Begin
<1>6. ASSUME NEW r \in Requests, NEW i, FoundRow(r, i) PROVE Inserting' \subseteq Inserting
  <2>1. ASSUME NEW step \in {"a_touch", "a_reactivate"},
               req' = [req EXCEPT ![r].pc = step, ![r].row = i]
        PROVE  Inserting' \subseteq Inserting
    <3> DEFINE f == [req[r] EXCEPT !.pc = step, !.row = i]
    <3>1. req' = [req EXCEPT ![r] = f] /\ f.pc = step
      BY <1>0, <2>1 DEF Frame
    <3> QED
      BY <1>2, <3>1
  <2>2. CASE req' = [req EXCEPT ![r].pc = "a_touch", ![r].row = i]
    BY <2>1, <2>2
  <2>3. CASE req' = [req EXCEPT ![r].pc = "a_reactivate", ![r].row = i]
    BY <2>1, <2>3
  <2> QED
    BY <1>4, <1>6, <2>2, <2>3 DEF FoundRow
<1>7. ASSUME NEW r \in Requests, ActivateReadEntitlement(r) PROVE Inserting' \subseteq Inserting
  <2> DEFINE f == [req[r] EXCEPT !.pc = "a_exact", !.limit = limit,
                     !.wasPending = (entStatus = "pending"), !.overtaken = FALSE]
  <2>1. f.pc = "a_exact"
    BY <1>0 DEF Frame
  <2>2. Finish(r) \/ req' = [req EXCEPT ![r] = f]
    BY <1>0, <1>7 DEF ActivateReadEntitlement
  <2> QED
    BY <1>2, <1>4, <2>1, <2>2
<1>8. ASSUME NEW r \in Requests, NEW f, RefreshReadEntitlement(r, f) PROVE Inserting' \subseteq Inserting
  <2> DEFINE g == [Idle EXCEPT !.pc = "r_row", !.fp = f,
                               !.wasPending = (entStatus = "pending"), !.late = revoked]
  <2>1. g.pc = "r_row"
    BY DEF Idle
  <2> QED
    BY <1>2, <1>8, <2>1 DEF RefreshReadEntitlement
<1>9. ASSUME NEW r \in Requests, RevokeWriteEntitlement(r) PROVE Inserting' \subseteq Inserting
  <2>1. ASSUME NEW q \in Requests, q # r PROVE req'[q].pc = req[q].pc
    BY <1>0, <1>9, <2>1 DEF RevokeWriteEntitlement, Frame
  <2>2. req'[r].pc = "idle"
    BY <1>0, <1>9 DEF RevokeWriteEntitlement
  <2> QED
    BY <1>1, <2>1, <2>2
<1>10. ASSUME NEW r \in Requests, ReactivateReadEntitlement(r) PROVE Inserting' \subseteq Inserting
  <2> DEFINE f == [req[r] EXCEPT !.pc = "x_write", !.overtaken = FALSE]
  <2>1. f.pc = "x_write"
    BY <1>0 DEF Frame
  <2>2. Finish(r) \/ req' = [req EXCEPT ![r] = f]
    BY <1>0, <1>10 DEF ReactivateReadEntitlement
  <2> QED
    BY <1>2, <1>4, <2>1, <2>2
<1>11. ASSUME NEW r \in Requests, Activate(r)
       PROVE  Inserting' \subseteq Inserting \/ (ActivateCount(r) /\ ~Finish(r))
  <2>1. "a_entitlement" \in Pc /\ "a_same" \in Pc /\ "a_count" \in Pc /\ "a_activate" \in Pc
        /\ "a_use" \in Pc /\ "a_issue" \in Pc
    BY DEF Pc
  <2>2. \/ Finish(r) \/ ActivateReadEntitlement(r) \/ (ActivateCount(r) /\ ~Finish(r))
        \/ \E i : FoundRow(r, i)
        \/ \E f, i : Begin(r, "a_entitlement", f, i)
        \/ \E step \in {"a_same", "a_count", "a_activate", "a_use", "a_issue"} : Goto(r, step)
    BY <1>11 DEF Activate, ActivateReadLicense, ActivateFindExact, ActivateFindSameMachine,
       ActivateTouch, ActivateReactivate, ActivateCount, ActivateInsert,
       ActivateWriteEntitlement, ActivateWriteLicense, ActivateIssue, AfterReissue
  <2> QED
    BY <1>3, <1>4, <1>5, <1>6, <1>7, <2>1, <2>2
<1>12. ASSUME NEW r \in Requests, Refresh(r) PROVE Inserting' \subseteq Inserting
  BY <1>3, <1>4, <1>8, <1>12 DEF Refresh, RefreshFindRow, RefreshIssue, Pc
<1>13. ASSUME NEW r \in Requests, Unbind(r) PROVE Inserting' \subseteq Inserting
  <2> DEFINE Steps == {"d_provider", "d_row", "d_count", "d_unuse", "u_rows", "u_unuse"}
  <2>1. \/ Finish(r)
        \/ \E step \in Steps : Goto(r, step) \/ \E f, i : Begin(r, step, f, i)
    BY <1>13 DEF Unbind, DeactivateFindRow, DeactivateProvider, UnbindDeviceFindRow,
         DeactivateWriteRow, DeactivateCount, UnbindAll, UnbindAllRows, WriteUnused
  <2>2. Steps \subseteq Pc \ {"a_insert"}
    BY DEF Pc
  <2> QED
    BY <1>3, <1>4, <1>5, <2>1, <2>2
<1>14. ASSUME NEW r \in Requests, Admin(r) PROVE Inserting' \subseteq Inserting
  BY <1>4, <1>5, <1>9, <1>10, <1>14
     DEF Admin, RevokeWriteLicense, ReactivateReadLicense, ReactivateWrite, Pc
<1>15. CASE UNCHANGED req
  BY <1>15 DEF Inserting
<1> QED
  BY <1>4, <1>11, <1>12, <1>13, <1>14, <1>15 DEF Next, Crash, Suspend, SetLimit

\* Only the dashboard changes the limit.
LEMMA HighLimitStep ==
  ASSUME [Next]_vars
  PROVE  highLimit' = highLimit \/ \E n \in Limits : SetLimit(n)
<1>1. ASSUME NEW r \in Requests, Activate(r) PROVE highLimit' = highLimit
  <2>1. ASSUME NEW f \in Fingerprints, ActivateReadLicense(r, f) PROVE highLimit' = highLimit
    BY <2>1 DEF ActivateReadLicense, Begin, Enter
  <2>2. \/ ActivateReadEntitlement(r) \/ ActivateFindExact(r) \/ ActivateFindSameMachine(r)
        \/ ActivateTouch(r) \/ ActivateReactivate(r)
        => highLimit' = highLimit
    BY DEF ActivateReadEntitlement, ActivateFindExact, ActivateFindSameMachine, ActivateTouch,
       ActivateReactivate, history
  <2>3. \/ ActivateCount(r) \/ ActivateInsert(r) \/ ActivateWriteEntitlement(r)
        \/ ActivateWriteLicense(r) \/ ActivateIssue(r)
        => highLimit' = highLimit
    BY DEF ActivateCount, ActivateInsert, ActivateWriteEntitlement, Reopen, ActivateWriteLicense,
       ActivateIssue, history
  <2> QED
    BY <1>1, <2>1, <2>2, <2>3 DEF Activate
<1>2. ASSUME NEW r \in Requests, Refresh(r) PROVE highLimit' = highLimit
  <2>1. ASSUME NEW f \in Fingerprints, RefreshReadEntitlement(r, f) PROVE highLimit' = highLimit
    BY <2>1 DEF RefreshReadEntitlement, Enter
  <2> QED
    BY <1>2, <2>1 DEF Refresh, RefreshFindRow, RefreshIssue, history
<1>3. ASSUME NEW r \in Requests, Unbind(r) PROVE highLimit' = highLimit
  <2>1. ASSUME NEW step, NEW f, NEW i, Begin(r, step, f, i) PROVE highLimit' = highLimit
    BY <2>1 DEF Begin, Enter
  <2>2. ASSUME NEW f \in Fingerprints, DeactivateFindRow(r, f) PROVE highLimit' = highLimit
    BY <2>1, <2>2 DEF DeactivateFindRow
  <2>3. UnbindDeviceFindRow(r) \/ UnbindAll(r) => highLimit' = highLimit
    BY <2>1 DEF UnbindDeviceFindRow, UnbindAll
  <2> QED
    BY <1>3, <2>2, <2>3 DEF Unbind, DeactivateProvider, DeactivateWriteRow, DeactivateCount,
       UnbindAllRows, WriteUnused, history
<1>4. ASSUME NEW r \in Requests, Admin(r) PROVE highLimit' = highLimit
  BY <1>4 DEF Admin, RevokeWriteLicense, RevokeWriteEntitlement, ReactivateReadLicense,
     ReactivateReadEntitlement, ReactivateWrite, Reopen, Begin, Enter, history
<1>5. ASSUME NEW r \in Requests, Crash(r) PROVE highLimit' = highLimit
  BY <1>5 DEF Crash
<1>6. Suspend \/ UNCHANGED vars => highLimit' = highLimit
  BY DEF Suspend, Reopen, vars, history
<1> QED
  BY <1>1, <1>2, <1>3, <1>4, <1>5, <1>6 DEF Next

LEMMA SlotStep == SlotInv /\ [Next]_vars => SlotInv'
<1> SUFFICES ASSUME SlotInv, [Next]_vars PROVE SlotInv'
  OBVIOUS
<1>a. FreshInv /\ FreshInv' /\ TypeInv /\ TypeInv'
  BY FreshStep DEF SlotInv, FreshInv
<1>b. highLimit \in Nat /\ highLimit' \in Nat /\ highLimit <= highLimit'
  <2>1. highLimit \in Nat /\ highLimit' \in Nat
    BY <1>a, LimitsAssumption DEF TypeInv, TypeOK
  <2>2. highLimit' = highLimit \/ \E n \in Limits : SetLimit(n)
    BY HighLimitStep
  <2> QED
    BY <2>1, <2>2, LimitsAssumption DEF SetLimit
<1>c. SUFFICES Cardinality(CountedRows') + Cardinality(Inserting')
                   <= highLimit' + Cardinality(Requests) - 1
  BY <1>a DEF SlotInv, SlotBound
<1>d. Cardinality(CountedRows) + Cardinality(Inserting) <= highLimit + Cardinality(Requests) - 1
  BY DEF SlotInv, SlotBound
<1>e. /\ IsFiniteSet(CountedRows) /\ IsFiniteSet(Inserting) /\ IsFiniteSet(Requests)
      /\ Cardinality(CountedRows) \in Nat /\ Cardinality(Inserting) \in Nat
      /\ Cardinality(CountedRows') \in Nat /\ Cardinality(Inserting') \in Nat
      /\ Cardinality(Requests) \in Nat /\ Inserting' \subseteq Requests
  <2>1. TypeInv => (IsFiniteSet(CountedRows) /\ Cardinality(CountedRows) \in Nat
                    /\ IsFiniteSet(Inserting) /\ Cardinality(Inserting) \in Nat)
    BY Finite
  <2>2. rows' \in Seq(Row) /\ Len(rows') \in Nat /\ DOMAIN rows' = 1 .. Len(rows')
    BY <1>a, LenProperties DEF TypeInv, TypeOK
  <2>3. CountedRows' \subseteq DOMAIN rows'
    BY DEF CountedRows, ActiveRows
  <2>5. IsFiniteSet(DOMAIN rows')
    BY <2>2, FS_Interval
  <2>4. Inserting' \subseteq Requests
    BY DEF Inserting
  <2> QED
    BY <1>a, <2>1, <2>3, <2>4, <2>5, RequestsAssumption, FS_CardinalityType, FS_Subset
<1>1. ASSUME CountedRows' \subseteq CountedRows, Inserting' \subseteq Inserting
      PROVE  Cardinality(CountedRows') + Cardinality(Inserting')
               <= highLimit' + Cardinality(Requests) - 1
  <2>1. Cardinality(CountedRows') <= Cardinality(CountedRows)
    BY <1>e, <1>1, FS_Subset
  <2>2. Cardinality(Inserting') <= Cardinality(Inserting)
    BY <1>e, <1>1, FS_Subset
  <2> QED
    BY <1>b, <1>d, <1>e, <2>1, <2>2
<1>2. CASE UNCHANGED vars
  BY <1>1, <1>2 DEF vars, history, CountedRows, ActiveRows, Inserting
<1>3. ASSUME Next, NEW r \in Requests, ActivateCount(r), ~Finish(r)
      PROVE  Cardinality(CountedRows') + Cardinality(Inserting')
               <= highLimit' + Cardinality(Requests) - 1
  <2>1. CountedRows' = CountedRows
    BY <1>3 DEF ActivateCount, CountedRows, ActiveRows, history
  <2>2. ~(Cardinality(ActiveRows) >= req[r].limit)
    BY <1>3 DEF ActivateCount
  <2>5. Cardinality(ActiveRows) \in Nat /\ Cardinality(CountedRows) <= Cardinality(ActiveRows)
    BY <1>a, Finite
  <2>3. req[r].limit \in Nat /\ req[r].limit <= highLimit
    BY <1>a DEF FreshInv, TypeInv, Frames, Frame, Sound, SoundFrame
  <2>4. Cardinality(Inserting') <= Cardinality(Requests)
    BY <1>e, FS_Subset
  <2> QED
    BY <1>b, <1>e, <2>1, <2>2, <2>3, <2>4, <2>5
<1>4. ASSUME NEW r \in Requests, ActivateInsert(r), rows' # rows
      PROVE  Cardinality(CountedRows') + Cardinality(Inserting')
               <= highLimit' + Cardinality(Requests) - 1
  <2>1. /\ rows' = Append(rows, [fp |-> req[r].fp, status |-> "active"]) /\ returned' = returned
        /\ Goto(r, "a_activate") /\ req[r].pc = "a_insert"
    BY <1>4 DEF ActivateInsert, At, history
  <2>2. req[r].fp \in Fingerprints /\ req \in [Requests -> Frame]
    BY <1>a, <2>1 DEF TypeInv, Frames, GoodFrame, Activating
  <2>3. Cardinality(CountedRows') <= Cardinality(CountedRows) + 1
    <3>1. /\ CountedRows' \subseteq CountedRows \union {Len(rows) + 1}
          /\ Len(rows) + 1 \notin CountedRows
      BY <1>a, <2>1, <2>2, OneMoreCounted
    <3>2. /\ IsFiniteSet(CountedRows \union {Len(rows) + 1})
          /\ Cardinality(CountedRows \union {Len(rows) + 1}) = Cardinality(CountedRows) + 1
      BY <1>e, <3>1, FS_AddElement
    <3> QED
      BY <3>1, <3>2, FS_Subset
  <2>4. Inserting' = Inserting \ {r} /\ r \in Inserting
    BY <2>1, <2>2 DEF Inserting, Goto, Frame
  <2>5. Cardinality(Inserting') = Cardinality(Inserting) - 1
    BY <1>e, <2>4, FS_RemoveElement
  <2> QED
    BY <1>b, <1>d, <1>e, <2>3, <2>5
<1>5. CASE Next /\ ~(\E r \in Requests : ActivateCount(r) /\ ~Finish(r))
                /\ ~(\E r \in Requests : ActivateInsert(r) /\ rows' # rows)
  <2>1. CountedRows' \subseteq CountedRows
    BY <1>5, <1>a, CountedStep
  <2>2. Inserting' \subseteq Inserting
    BY <1>5, <1>a, ReservationStep
  <2> QED
    BY <1>1, <2>1, <2>2
<1> QED
  BY <1>2, <1>3, <1>4, <1>5

LEMMA SlotInit == Init => SlotInv
<1> SUFFICES ASSUME Init PROVE SlotInv
  OBVIOUS
<1>1. FreshInv /\ TypeInv
  BY FreshInit DEF FreshInv
<1>2. CountedRows = {} /\ Inserting = {}
  BY DEF Init, CountedRows, ActiveRows, Inserting, Idle
<1>3. Cardinality(CountedRows) = 0 /\ Cardinality(Inserting) = 0
  BY <1>2, FS_EmptySet
<1> QED
  BY <1>1, <1>3, Finite, LimitNat DEF SlotInv, SlotBound

\* N activations that run into one another in upsertActivation bind at most N - 1 devices
\* more than the limit the entitlement ever had, whether the plan allows reactivation or not;
\* a device on a row that was set active again comes on top, for the code does not count it.
THEOREM OvershootBoundedTheorem == Spec => []OvershootBounded
<1>1. SlotInv => OvershootBounded
  <2> SUFFICES ASSUME SlotInv PROVE OvershootBounded
    OBVIOUS
  <2> QED
    BY Finite, LimitNat DEF SlotInv, FreshInv, SlotBound, OvershootBounded
<1> QED
  BY <1>1, SlotInit, SlotStep, PTL DEF Spec
-----------------------------------------------------------------------------
(***************************************************************************)
(* Part 4: what a completed revocation forbids.                            *)
(***************************************************************************)

\* The statements behind a check that a revoked entitlement does not pass.
Admitted == {"a_exact", "a_same", "a_touch", "a_reactivate", "a_count", "a_insert",
             "a_activate", "a_use", "a_issue", "r_row", "r_issue", "x_write"}

BarredFrame(f, rev, reop) == f.late => rev /\ (~reop => f.pc \notin Admitted)

Barred == \A r \in Requests : BarredFrame(req[r], revoked, reopened)

RevokeInv == TypeInv /\ (revoked /\ ~reopened => entStatus = "revoked") /\ Barred

\* What happened is not forgotten, and a status written over a revocation is remembered.
Remembered ==
    /\ revoked => revoked'
    /\ reopened => reopened'
    /\ revoked' /\ ~reopened' => entStatus' = "revoked"

LEMMA UnchangedRemembered ==
  ASSUME RevokeInv, UNCHANGED <<entStatus, revoked, reopened>>
  PROVE  Remembered
BY DEF RevokeInv, Remembered

LEMMA ReopenRemembered ==
  ASSUME RevokeInv, NEW status, Reopen(status)
  PROVE  Remembered
BY DEF RevokeInv, Remembered, Reopen, TypeInv, TypeOK

LEMMA MovedBarred ==
  ASSUME RevokeInv, Remembered, NEW r \in Requests, NEW f, BarredFrame(f, revoked', reopened'),
         req' = [req EXCEPT ![r] = f]
  PROVE  Barred'
<1>1. ASSUME NEW q \in Requests PROVE BarredFrame(req'[q], revoked', reopened')
  <2>1. BarredFrame(req[q], revoked, reopened)
    BY DEF RevokeInv, Barred
  <2>2. BarredFrame(req[q], revoked', reopened')
    BY <2>1 DEF BarredFrame, Remembered
  <2>3. req'[q] = IF q = r THEN f ELSE req[q]
    BY DEF RevokeInv, TypeInv, Frames
  <2> QED
    BY <2>2, <2>3
<1> QED
  BY <1>1 DEF Barred

LEMMA FinishBarred ==
  ASSUME RevokeInv, Remembered, NEW r \in Requests, Finish(r)
  PROVE  Barred'
BY MovedBarred DEF Finish, Idle, BarredFrame

LEMMA BeginBarred ==
  ASSUME RevokeInv, UNCHANGED entStatus, NEW r \in Requests, NEW step, NEW f, NEW i,
         Begin(r, step, f, i), step \notin Admitted
  PROVE  Remembered /\ Barred'
<1> DEFINE g == [Idle EXCEPT !.pc = step, !.fp = f, !.row = i,
                             !.licRevoked = (licStatus = "revoked"), !.late = revoked]
<1>1. UNCHANGED <<revoked, reopened>> /\ req' = [req EXCEPT ![r] = g]
  BY DEF Begin, Enter
<1>2. g.pc = step /\ g.late = revoked
  BY DEF Idle
<1>3. BarredFrame(g, revoked', reopened')
  BY <1>1, <1>2 DEF BarredFrame
<1> QED
  BY <1>1, <1>3, UnchangedRemembered, MovedBarred

\* A request that was admitted goes on, or one that was not goes elsewhere.
LEMMA GotoBarred ==
  ASSUME RevokeInv, Remembered, NEW r \in Requests, NEW step, Goto(r, step),
         step \in Admitted => req[r].pc \in Admitted
  PROVE  Barred'
<1> DEFINE f == [req[r] EXCEPT !.pc = step]
<1>1. req[r] \in Frame /\ BarredFrame(req[r], revoked, reopened)
  BY DEF RevokeInv, TypeInv, Frames, Barred
<1>2. f.pc = step /\ f.late = req[r].late
  BY <1>1 DEF Frame
<1>3. BarredFrame(f, revoked', reopened')
  BY <1>1, <1>2 DEF BarredFrame, Remembered
<1>4. req' = [req EXCEPT ![r] = f]
  BY DEF Goto, RevokeInv, TypeInv, Frames
<1> QED
  BY <1>3, <1>4, MovedBarred

\* The check itself: whoever passes it while a revocation stands is not late.
LEMMA AdmittedBarred ==
  ASSUME RevokeInv, UNCHANGED <<entStatus, revoked, reopened>>, entStatus # "revoked",
         NEW r \in Requests, NEW f, f.late => revoked, req' = [req EXCEPT ![r] = f]
  PROVE  Barred'
<1>1. BarredFrame(f, revoked', reopened')
  BY DEF BarredFrame, RevokeInv
<1> QED
  BY <1>1, UnchangedRemembered, MovedBarred

LEMMA FoundBarred ==
  ASSUME RevokeInv, Remembered, NEW r \in Requests, NEW i, FoundRow(r, i),
         req[r].pc \in Admitted
  PROVE  Barred'
<1>1. CASE Finish(r)
  BY <1>1, FinishBarred
<1>2. ASSUME NEW step, req' = [req EXCEPT ![r].pc = step, ![r].row = i] PROVE Barred'
  <2> DEFINE f == [req[r] EXCEPT !.pc = step, !.row = i]
  <2>1. req[r] \in Frame /\ BarredFrame(req[r], revoked, reopened)
    BY DEF RevokeInv, TypeInv, Frames, Barred
  <2>2. f.late = req[r].late
    BY <2>1 DEF Frame
  <2>3. BarredFrame(f, revoked', reopened')
    BY <2>1, <2>2 DEF BarredFrame, Remembered
  <2>4. req' = [req EXCEPT ![r] = f]
    BY <1>2 DEF RevokeInv, TypeInv, Frames
  <2> QED
    BY <2>3, <2>4, MovedBarred
<1> QED
  BY <1>1, <1>2 DEF FoundRow

LEMMA ActivateBarred ==
  ASSUME RevokeInv, NEW r \in Requests, Activate(r)
  PROVE  Remembered /\ Barred'
<1>1. ASSUME NEW f \in Fingerprints, ActivateReadLicense(r, f) PROVE Remembered /\ Barred'
  BY <1>1, BeginBarred DEF ActivateReadLicense, Admitted
<1>2. CASE ActivateReadEntitlement(r)
  <2>1. UNCHANGED <<entStatus, revoked, reopened>> /\ Remembered
    BY <1>2, UnchangedRemembered DEF ActivateReadEntitlement, history
  <2>2. CASE Finish(r)
    BY <2>1, <2>2, FinishBarred
  <2>3. CASE ~Finish(r)
    <3> DEFINE f == [req[r] EXCEPT !.pc = "a_exact", !.limit = limit,
                       !.wasPending = (entStatus = "pending"), !.overtaken = FALSE]
    <3>1. req[r] \in Frame /\ BarredFrame(req[r], revoked, reopened)
      BY DEF RevokeInv, TypeInv, Frames, Barred
    <3>2. f.late = req[r].late /\ entStatus # "revoked"
      BY <1>2, <2>3, <3>1 DEF ActivateReadEntitlement, Usable, Frame
    <3>3. req' = [req EXCEPT ![r] = f]
      BY <1>2, <2>3 DEF ActivateReadEntitlement, RevokeInv, TypeInv, Frames
    <3> QED
      BY <2>1, <3>1, <3>2, <3>3, AdmittedBarred DEF BarredFrame
  <2> QED
    BY <2>1, <2>2, <2>3
<1>3. CASE ActivateFindExact(r) \/ ActivateFindSameMachine(r)
  <2>1. Remembered /\ req[r].pc \in Admitted
    BY <1>3, UnchangedRemembered
       DEF ActivateFindExact, ActivateFindSameMachine, history, At, Admitted
  <2>2. \/ \E i : FoundRow(r, i)
        \/ \E step : Goto(r, step)
    BY <1>3 DEF ActivateFindExact, ActivateFindSameMachine
  <2> QED
    BY <2>1, <2>2, FoundBarred, GotoBarred
<1>4. CASE \/ ActivateTouch(r) \/ ActivateReactivate(r) \/ ActivateCount(r)
           \/ ActivateInsert(r) \/ ActivateWriteLicense(r) \/ ActivateIssue(r)
  <2>1. Remembered /\ req[r].pc \in Admitted
    BY <1>4, UnchangedRemembered
       DEF ActivateTouch, ActivateReactivate, ActivateCount, ActivateInsert,
           ActivateWriteLicense, ActivateIssue, history, At, Admitted
  <2>2. Finish(r) \/ \E step : Goto(r, step)
    BY <1>4 DEF ActivateTouch, ActivateReactivate, ActivateCount, ActivateInsert,
                ActivateWriteLicense, ActivateIssue, AfterReissue
  <2> QED
    BY <2>1, <2>2, FinishBarred, GotoBarred
<1>5. CASE ActivateWriteEntitlement(r)
  <2>1. Remembered /\ req[r].pc \in Admitted
    BY <1>5, ReopenRemembered DEF ActivateWriteEntitlement, At, Admitted
  <2> QED
    BY <1>5, <2>1, GotoBarred DEF ActivateWriteEntitlement
<1> QED
  BY <1>1, <1>2, <1>3, <1>4, <1>5 DEF Activate

LEMMA RefreshBarred ==
  ASSUME RevokeInv, NEW r \in Requests, Refresh(r)
  PROVE  Remembered /\ Barred'
<1>1. ASSUME NEW f \in Fingerprints, RefreshReadEntitlement(r, f) PROVE Remembered /\ Barred'
  <2> DEFINE g == [Idle EXCEPT !.pc = "r_row", !.fp = f,
                               !.wasPending = (entStatus = "pending"), !.late = revoked]
  <2>1. UNCHANGED <<entStatus, revoked, reopened>> /\ entStatus # "revoked"
    BY <1>1 DEF RefreshReadEntitlement, Enter, Usable
  <2>2. req' = [req EXCEPT ![r] = g] /\ g.late = revoked
    BY <1>1 DEF RefreshReadEntitlement, Idle
  <2> QED
    BY <2>1, <2>2, UnchangedRemembered, AdmittedBarred
<1>2. CASE RefreshFindRow(r) \/ RefreshIssue(r)
  <2>1. Remembered /\ req[r].pc \in Admitted
    BY <1>2, UnchangedRemembered DEF RefreshFindRow, RefreshIssue, history, At, Admitted
  <2>2. Finish(r) \/ Goto(r, "r_issue")
    BY <1>2 DEF RefreshFindRow, RefreshIssue
  <2> QED
    BY <2>1, <2>2, FinishBarred, GotoBarred
<1> QED
  BY <1>1, <1>2 DEF Refresh

LEMMA UnbindKeeps ==
  ASSUME NEW r \in Requests, Unbind(r)
  PROVE  UNCHANGED <<entStatus, revoked, crashed, reopened>>
<1>1. ASSUME NEW f, DeactivateFindRow(r, f) PROVE UNCHANGED <<entStatus, revoked, crashed, reopened>>
  BY <1>1 DEF DeactivateFindRow, Begin, Enter
<1>2. CASE UnbindDeviceFindRow(r)
  BY <1>2 DEF UnbindDeviceFindRow, Begin, Enter
<1>3. CASE UnbindAll(r)
  BY <1>3 DEF UnbindAll, Begin, Enter
<1>4. CASE DeactivateProvider(r) \/ DeactivateCount(r) \/ WriteUnused(r)
  BY <1>4 DEF DeactivateProvider, DeactivateCount, WriteUnused, history
<1>5. CASE DeactivateWriteRow(r)
  BY <1>5 DEF DeactivateWriteRow, history
<1>6. CASE UnbindAllRows(r)
  BY <1>6 DEF UnbindAllRows, history
<1> QED
  BY <1>1, <1>2, <1>3, <1>4, <1>5, <1>6 DEF Unbind

LEMMA UnbindBarred ==
  ASSUME RevokeInv, NEW r \in Requests, Unbind(r)
  PROVE  Remembered /\ Barred'
<1> DEFINE Steps == {"d_provider", "d_row", "d_count", "d_unuse", "u_rows", "u_unuse"}
<1>1. UNCHANGED <<entStatus, revoked, reopened>> /\ Remembered
  BY UnbindKeeps, UnchangedRemembered
<1>2. \/ Finish(r)
      \/ \E step \in Steps : Goto(r, step) \/ \E f, i : Begin(r, step, f, i)
  BY DEF Unbind, DeactivateFindRow, DeactivateProvider, UnbindDeviceFindRow,
         DeactivateWriteRow, DeactivateCount, UnbindAll, UnbindAllRows, WriteUnused
<1>3. \A step \in Steps : step \notin Admitted
  BY DEF Admitted
<1> QED
  BY <1>1, <1>2, <1>3, FinishBarred, GotoBarred, BeginBarred

LEMMA AdminBarred ==
  ASSUME RevokeInv, NEW r \in Requests, Admin(r)
  PROVE  Remembered /\ Barred'
<1>1. CASE RevokeWriteLicense(r) \/ ReactivateReadLicense(r)
  <2>1. UNCHANGED entStatus
    BY <1>1 DEF RevokeWriteLicense, ReactivateReadLicense
  <2>2. \E step \in {"v_entitlement", "x_entitlement"} : Begin(r, step, None, 0)
    BY <1>1 DEF RevokeWriteLicense, ReactivateReadLicense
  <2> QED
    BY <2>1, <2>2, BeginBarred DEF Admitted
<1>2. CASE RevokeWriteEntitlement(r)
  <2>1. Remembered /\ revoked'
    BY <1>2 DEF RevokeWriteEntitlement, Remembered
  <2>2. ASSUME NEW q \in Requests PROVE BarredFrame(req'[q], revoked', reopened')
    <3>1. CASE q = r
      BY <1>2, <3>1 DEF RevokeWriteEntitlement, Idle, BarredFrame
    <3>2. CASE q # r
      <4>1. req[q] \in Frame /\ BarredFrame(req[q], revoked, reopened)
        BY DEF RevokeInv, TypeInv, Frames, Barred
      <4>2. req'[q] = [req[q] EXCEPT !.overtaken = TRUE]
        BY <1>2, <3>2 DEF RevokeWriteEntitlement
      <4>3. req'[q].late = req[q].late /\ req'[q].pc = req[q].pc
        BY <4>1, <4>2 DEF Frame
      <4> QED
        BY <2>1, <4>1, <4>3 DEF BarredFrame, Remembered
    <3> QED
      BY <3>1, <3>2
  <2> QED
    BY <2>1, <2>2 DEF Barred
<1>3. CASE ReactivateReadEntitlement(r)
  <2>1. UNCHANGED <<entStatus, revoked, reopened>> /\ Remembered
    BY <1>3, UnchangedRemembered DEF ReactivateReadEntitlement, history
  <2>2. CASE Finish(r)
    BY <2>1, <2>2, FinishBarred
  <2>3. CASE ~Finish(r)
    <3> DEFINE f == [req[r] EXCEPT !.pc = "x_write", !.overtaken = FALSE]
    <3>1. req[r] \in Frame /\ BarredFrame(req[r], revoked, reopened)
      BY DEF RevokeInv, TypeInv, Frames, Barred
    <3>2. f.late = req[r].late /\ entStatus # "revoked"
      BY <1>3, <2>3, <3>1 DEF ReactivateReadEntitlement, Frame
    <3>3. req' = [req EXCEPT ![r] = f]
      BY <1>3, <2>3 DEF ReactivateReadEntitlement, RevokeInv, TypeInv, Frames
    <3> QED
      BY <2>1, <3>1, <3>2, <3>3, AdmittedBarred DEF BarredFrame
  <2> QED
    BY <2>1, <2>2, <2>3
<1>4. CASE ReactivateWrite(r)
  BY <1>4, ReopenRemembered, FinishBarred DEF ReactivateWrite
<1> QED
  BY <1>1, <1>2, <1>3, <1>4 DEF Admin

LEMMA RevokeInit == Init => RevokeInv
BY TypeInit DEF Init, RevokeInv, Barred, BarredFrame, Idle

LEMMA RevokeStep == RevokeInv /\ [Next]_vars => RevokeInv'
<1> SUFFICES ASSUME RevokeInv, [Next]_vars PROVE RevokeInv'
  OBVIOUS
<1>a. TypeInv'
  BY TypeStep DEF RevokeInv
<1>b. SUFFICES Remembered /\ Barred'
  BY <1>a DEF RevokeInv, Remembered
<1>1. ASSUME NEW r \in Requests, Activate(r) \/ Refresh(r) \/ Unbind(r) \/ Admin(r)
      PROVE  Remembered /\ Barred'
  BY <1>1, ActivateBarred, RefreshBarred, UnbindBarred, AdminBarred
<1>2. ASSUME NEW r \in Requests, Crash(r) PROVE Remembered /\ Barred'
  BY <1>2, UnchangedRemembered, FinishBarred DEF Crash
<1>3. ASSUME Remembered, UNCHANGED req PROVE Barred'
  BY <1>3 DEF RevokeInv, Remembered, Barred, BarredFrame
<1>4. CASE Suspend
  BY <1>3, <1>4, ReopenRemembered DEF Suspend
<1>5. ASSUME NEW n \in Limits, SetLimit(n) PROVE Remembered /\ Barred'
  BY <1>3, <1>5, UnchangedRemembered DEF SetLimit
<1>6. CASE UNCHANGED vars
  BY <1>3, <1>6, UnchangedRemembered DEF vars, history
<1> QED
  BY <1>1, <1>2, <1>4, <1>5, <1>6 DEF Next

\* Nobody who asks after adminRevokeOrder has completed gets past the checks of activateOrder
\* and refreshLicence, until a statement writes another status over the revocation.
THEOREM NoLicenceAfterRevokeTheorem == Spec => []NoLicenceAfterRevoke
<1>1. RevokeInv => NoLicenceAfterRevoke
  BY DEF RevokeInv, Barred, BarredFrame, Admitted, NoLicenceAfterRevoke
<1> QED
  BY <1>1, RevokeInit, RevokeStep, PTL DEF Spec

-----------------------------------------------------------------------------
(***************************************************************************)
(* Part 5: an entitlement that is pending although it has a device.        *)
(***************************************************************************)

\* A device appears through a request that then goes on to the entitlement, if it is pending.
LEMMA DeviceAppears ==
  ASSUME FreshInv, Next, ActiveRows = {}, ActiveRows' # {}, entStatus = "pending"
  PROVE  \E r \in Requests : At(r, "a_activate")'
<1>a. rows \in Seq(Row) /\ req \in [Requests -> Frame]
  BY DEF FreshInv, TypeInv, TypeOK
<1>1. ASSUME NEW r \in Requests, Goto(r, "a_activate") PROVE At(r, "a_activate")'
  BY <1>1, <1>a DEF Goto, At, Frame
<1>2. ASSUME NEW r \in Requests, ActivateInsert(r) PROVE At(r, "a_activate")'
  BY <1>1, <1>2 DEF ActivateInsert, ActiveRows
<1>3. ASSUME NEW r \in Requests, ActivateReactivate(r) PROVE At(r, "a_activate")'
  <2>1. AfterReissue(r)
    BY <1>3 DEF ActivateReactivate, ActiveRows
  <2>2. req[r].wasPending
    BY <1>3 DEF ActivateReactivate, At, FreshInv, Sound, SoundFrame, Relying
  <2> QED
    BY <1>1, <2>1, <2>2 DEF AfterReissue
<1>4. \A i \in DOMAIN rows : rows[i].status # "active"
  BY DEF ActiveRows
<1>5. ASSUME NEW r \in Requests, ActivateTouch(r) PROVE FALSE
  <2>1. req[r].row \in DOMAIN rows /\ rows[req[r].row] \in Row
    BY <1>5, <1>a, RowsDomain
       DEF FreshInv, TypeInv, Frames, GoodFrame, HoldsRow, ActivateTouch, At
  <2>2. rows' = [rows EXCEPT ![req[r].row].fp = req[r].fp]
    BY <1>5 DEF ActivateTouch, ActiveRows
  <2>3. \A i \in DOMAIN rows' : i \in DOMAIN rows /\ rows'[i].status = rows[i].status
    BY <2>1, <2>2 DEF Row
  <2> QED
    BY <1>4, <2>3 DEF ActiveRows
<1>6. ASSUME NEW r \in Requests, DeactivateWriteRow(r) PROVE FALSE
  <2>1. req[r].row \in DOMAIN rows /\ rows[req[r].row] \in Row
    BY <1>6, <1>a, RowsDomain
       DEF FreshInv, TypeInv, Frames, GoodFrame, HoldsRow, DeactivateWriteRow, At
  <2>2. rows' = [rows EXCEPT ![req[r].row].status = "deactivated"]
    BY <1>6 DEF DeactivateWriteRow
  <2>3. \A i \in DOMAIN rows' : i \in DOMAIN rows /\ rows'[i].status # "active"
    BY <1>4, <2>1, <2>2 DEF Row
  <2> QED
    BY <2>3 DEF ActiveRows
<1>7. ASSUME NEW r \in Requests, UnbindAllRows(r) PROVE FALSE
  <2>1. \A i \in DOMAIN rows : [rows[i] EXCEPT !.status = "deactivated"].status = "deactivated"
    BY <1>a, RowsDomain DEF Row
  <2> QED
    BY <1>7, <2>1 DEF UnbindAllRows, ActiveRows
<1>8. \/ UNCHANGED rows
      \/ \E r \in Requests : \/ ActivateTouch(r) \/ ActivateReactivate(r) \/ ActivateInsert(r)
                             \/ DeactivateWriteRow(r) \/ UnbindAllRows(r)
  BY RowActions
<1>9. CASE UNCHANGED rows
  BY <1>9 DEF ActiveRows
<1> QED
  BY <1>2, <1>3, <1>5, <1>6, <1>7, <1>8, <1>9

\* A request about to write the entitlement stays there until it has written it, or dies.
LEMMA ActivationHolds ==
  ASSUME FreshInv, Next, NEW r \in Requests, At(r, "a_activate"),
         entStatus' = "pending", ~crashed'
  PROVE  At(r, "a_activate")'
<1>a. req \in [Requests -> Frame]
  BY DEF FreshInv, TypeInv, Frames
<1>1. ASSUME NEW q \in Requests, Activate(q) \/ Refresh(q) \/ Unbind(q) \/ Admin(q)
      PROVE  At(r, "a_activate")'
  <2>1. CASE q = r
    <3>0. \A f : ~RefreshReadEntitlement(q, f)
      BY <2>1 DEF At, Calls, RefreshReadEntitlement
    <3>1. ~Refresh(q) /\ ~Admin(q)
      BY <2>1, <3>0 DEF At, Calls, Refresh, RefreshFindRow, RefreshIssue,
         Admin, RevokeWriteLicense, RevokeWriteEntitlement, ReactivateReadLicense,
         ReactivateReadEntitlement, ReactivateWrite
    <3>2. ~Unbind(q)
      BY <2>1 DEF At, Calls, Unbind, DeactivateFindRow, DeactivateProvider, UnbindDeviceFindRow,
         DeactivateWriteRow, DeactivateCount, UnbindAll, UnbindAllRows, WriteUnused
    <3>3. Activate(q) => ActivateWriteEntitlement(q)
      BY <2>1 DEF At, Calls, Activate, ActivateReadLicense, ActivateReadEntitlement,
         ActivateFindExact, ActivateFindSameMachine, ActivateTouch, ActivateReactivate,
         ActivateCount, ActivateInsert, ActivateWriteLicense, ActivateIssue
    <3> QED
      BY <1>1, <3>1, <3>2, <3>3 DEF ActivateWriteEntitlement, Reopen
  <2>2. CASE q # r
    <3>1. ASSUME NEW step, Goto(q, step) PROVE req'[r] = req[r]
      BY <1>a, <2>2, <3>1 DEF Goto
    <3>2. ASSUME Finish(q) PROVE req'[r] = req[r]
      BY <1>a, <2>2, <3>2 DEF Finish
    <3>3. ASSUME NEW step, NEW f, NEW i, Begin(q, step, f, i) PROVE req'[r] = req[r]
      BY <1>a, <2>2, <3>3 DEF Begin
    <3>4. ASSUME NEW i, FoundRow(q, i) PROVE req'[r] = req[r]
      BY <1>a, <2>2, <3>2, <3>4 DEF FoundRow
    <3>5. CASE Activate(q)
      <4>1. CASE ActivateReadEntitlement(q)
        BY <1>a, <2>2, <3>2, <4>1 DEF ActivateReadEntitlement, At
      <4>2. CASE ActivateFindExact(q) \/ ActivateFindSameMachine(q)
        BY <3>1, <3>4, <4>2 DEF ActivateFindExact, ActivateFindSameMachine, At
      <4>3. CASE ActivateTouch(q) \/ ActivateReactivate(q) \/ ActivateInsert(q) \/ ActivateCount(q)
        BY <3>1, <3>2, <4>3
           DEF ActivateTouch, ActivateReactivate, ActivateInsert, ActivateCount, AfterReissue, At
      <4>4. CASE ActivateWriteEntitlement(q) \/ ActivateWriteLicense(q) \/ ActivateIssue(q)
        BY <3>1, <3>2, <4>4 DEF ActivateWriteEntitlement, ActivateWriteLicense, ActivateIssue, At
      <4>5. CASE \E f \in Fingerprints : ActivateReadLicense(q, f)
        BY <3>3, <4>5 DEF ActivateReadLicense, At
      <4> QED
        BY <3>5, <4>1, <4>2, <4>3, <4>4, <4>5 DEF Activate
    <3>6. CASE Refresh(q)
      <4>1. ASSUME NEW f \in Fingerprints, RefreshReadEntitlement(q, f) PROVE req'[r] = req[r]
        BY <1>a, <2>2, <4>1 DEF RefreshReadEntitlement
      <4> QED
        BY <3>1, <3>2, <3>6, <4>1 DEF Refresh, RefreshFindRow, RefreshIssue, At
    <3>7. CASE Unbind(q)
      <4>1. CASE (\E f \in Fingerprints : DeactivateFindRow(q, f)) \/ UnbindDeviceFindRow(q) \/ UnbindAll(q)
        BY <3>3, <4>1 DEF DeactivateFindRow, UnbindDeviceFindRow, UnbindAll, At
      <4> QED
        BY <3>1, <3>2, <3>7, <4>1 DEF Unbind, DeactivateProvider, DeactivateWriteRow,
           DeactivateCount, UnbindAllRows, WriteUnused, At
    <3>8. CASE Admin(q)
      <4>1. ~RevokeWriteEntitlement(q) /\ ~ReactivateWrite(q)
        BY DEF RevokeWriteEntitlement, ReactivateWrite, Reopen
      <4>2. CASE RevokeWriteLicense(q) \/ ReactivateReadLicense(q)
        BY <3>3, <4>2 DEF RevokeWriteLicense, ReactivateReadLicense, At
      <4>3. CASE ReactivateReadEntitlement(q)
        BY <1>a, <2>2, <3>2, <4>3 DEF ReactivateReadEntitlement, At
      <4> QED
        BY <3>8, <4>1, <4>2, <4>3 DEF Admin
    <3> QED
      BY <1>1, <3>5, <3>6, <3>7, <3>8
  <2> QED
    BY <2>1, <2>2
<1>2. CASE Suspend \/ \E n \in Limits : SetLimit(n)
  BY <1>2 DEF Suspend, SetLimit, At
<1>3. ASSUME NEW q \in Requests PROVE ~Crash(q)
  BY DEF Crash
<1> QED
  BY <1>1, <1>2, <1>3 DEF Next

\* No statement writes "pending", and a crash is remembered.
LEMMA NeverPendingAgain ==
  ASSUME Next, crashed \in BOOLEAN, entStatus' = "pending", ~crashed'
  PROVE  entStatus = "pending" /\ ~crashed
<1>1. ASSUME NEW status, Reopen(status), status # "pending" PROVE FALSE
  BY <1>1 DEF Reopen
<1>2. ASSUME NEW r \in Requests, Activate(r) PROVE UNCHANGED <<entStatus, crashed>>
  <2>1. ASSUME NEW f, ActivateReadLicense(r, f) PROVE UNCHANGED <<entStatus, crashed>>
    BY <2>1 DEF ActivateReadLicense, Begin, Enter
  <2>2. ~ActivateWriteEntitlement(r)
    BY <1>1 DEF ActivateWriteEntitlement
  <2>3. CASE ActivateReadEntitlement(r)
    BY <2>3 DEF ActivateReadEntitlement, history
  <2>4. CASE ActivateFindExact(r) \/ ActivateFindSameMachine(r)
    BY <2>4 DEF ActivateFindExact, ActivateFindSameMachine, history
  <2>5. CASE ActivateTouch(r) \/ ActivateReactivate(r) \/ ActivateInsert(r)
    BY <2>5 DEF ActivateTouch, ActivateReactivate, ActivateInsert, history
  <2>6. CASE ActivateCount(r) \/ ActivateWriteLicense(r) \/ ActivateIssue(r)
    BY <2>6 DEF ActivateCount, ActivateWriteLicense, ActivateIssue, history
  <2> QED
    BY <1>2, <2>1, <2>2, <2>3, <2>4, <2>5, <2>6 DEF Activate
<1>3. ASSUME NEW r \in Requests, Refresh(r) PROVE UNCHANGED <<entStatus, crashed>>
  <2>1. ASSUME NEW f, RefreshReadEntitlement(r, f) PROVE UNCHANGED <<entStatus, crashed>>
    BY <2>1 DEF RefreshReadEntitlement, Enter
  <2> QED
    BY <1>3, <2>1 DEF Refresh, history, RefreshFindRow, RefreshIssue
<1>4. ASSUME NEW r \in Requests, Unbind(r) PROVE UNCHANGED <<entStatus, crashed>>
  BY <1>4, UnbindKeeps
<1>5. ASSUME NEW r \in Requests, Admin(r) PROVE UNCHANGED <<entStatus, crashed>>
  BY <1>1, <1>5 DEF Admin, history, Begin, Enter, RevokeWriteLicense, RevokeWriteEntitlement,
     ReactivateReadLicense, ReactivateReadEntitlement, ReactivateWrite
<1>6. ASSUME NEW r \in Requests, Crash(r) PROVE FALSE
  BY <1>6 DEF Crash
<1>7. CASE Suspend \/ \E n \in Limits : SetLimit(n)
  BY <1>1, <1>7 DEF Suspend, SetLimit
<1> QED
  BY <1>2, <1>3, <1>4, <1>5, <1>6, <1>7 DEF Next

\* activateOrder leaves an entitlement pending with a device only between two of its
\* statements, or where it died there: nothing else binds a device or writes "pending".
THEOREM PendingDeviceExplainedTheorem == Spec => []PendingDeviceExplained
<1> DEFINE Inv == FreshInv /\ PendingDeviceExplained
<1>1. Init => Inv
  BY FreshInit DEF Init, PendingDeviceExplained, ActiveRows
<1>2. Inv /\ [Next]_vars => Inv'
  <2> SUFFICES ASSUME Inv, [Next]_vars PROVE PendingDeviceExplained'
    BY FreshStep
  <2>1. CASE UNCHANGED vars
    BY <2>1 DEF vars, history, PendingDeviceExplained, ActiveRows, At
  <2>2. CASE Next
    <3> SUFFICES ASSUME entStatus' = "pending", ActiveRows' # {}, ~crashed'
                 PROVE  \E r \in Requests : At(r, "a_activate")'
      BY DEF PendingDeviceExplained
    <3>1. entStatus = "pending" /\ ~crashed
      BY <2>2, NeverPendingAgain DEF FreshInv, TypeInv, TypeOK
    <3>2. CASE ActiveRows = {}
      BY <2>2, <3>1, <3>2, DeviceAppears
    <3>3. CASE ActiveRows # {}
      BY <2>2, <3>1, <3>3, ActivationHolds DEF PendingDeviceExplained
    <3> QED
      BY <3>2, <3>3
  <2> QED
    BY <2>1, <2>2
<1> QED
  BY <1>1, <1>2, FreshInvariant, PTL DEF Spec
=============================================================================
