---------------------------- MODULE SlotsProofs ----------------------------
(* Theorems about the device slots of Activations: its refinement of the   *)
(* pool of SlotPool, and what holds as long as requests come one at a      *)
(* time.  They build on the invariants of ActivationsProofs.               *)
EXTENDS ActivationsProofs

-----------------------------------------------------------------------------
(***************************************************************************)
(* Part 1: what a step does to the rows.                                   *)
(***************************************************************************)

\* Row i is written, or added, with fingerprint f and status s.
Written(i, f, s) ==
    /\ i \in DOMAIN rows
    /\ DOMAIN rows' = DOMAIN rows
    /\ rows'[i].fp = f /\ rows'[i].status = s
    /\ \A j \in DOMAIN rows \ {i} : rows'[j] = rows[j]

Added(f) ==
    \E n : /\ n \notin DOMAIN rows
           /\ DOMAIN rows' = DOMAIN rows \union {n}
           /\ rows'[n].fp = f /\ rows'[n].status = "active"
           /\ \A j \in DOMAIN rows : rows'[j] = rows[j]

Cleared ==
    /\ DOMAIN rows' = DOMAIN rows
    /\ \A i \in DOMAIN rows : rows'[i].fp = rows[i].fp /\ rows'[i].status = "deactivated"

Touches(r) ==
    /\ At(r, "a_touch")
    /\ FreeFor(req[r].fp, req[r].row)
    /\ Written(req[r].row, req[r].fp, rows[req[r].row].status)
    /\ returned' = returned
Reactivates(r) ==
    /\ At(r, "a_reactivate")
    /\ FreeFor(req[r].fp, req[r].row)
    /\ Written(req[r].row, req[r].fp, "active")
    /\ returned' = returned \union {req[r].row}
Inserts(r) ==
    At(r, "a_insert") /\ FreeFor(req[r].fp, 0) /\ Added(req[r].fp) /\ returned' = returned
Deactivates(r) ==
    /\ At(r, "d_row")
    /\ Written(req[r].row, rows[req[r].row].fp, "deactivated")
    /\ returned' = returned \ {req[r].row}
Clears(r) == At(r, "u_rows") /\ Cleared /\ returned' = {}

Binds(r) ==
    /\ req[r].fp \in Fingerprints
    /\ Touches(r) \/ Reactivates(r) \/ Inserts(r)

LEMMA RowPut ==
  ASSUME rows \in Seq(Row), NEW i \in DOMAIN rows, NEW x \in Row, rows' = [rows EXCEPT ![i] = x]
  PROVE  Written(i, x.fp, x.status)
BY DEF Written

LEMMA RowFacts ==
  ASSUME FreshInv
  PROVE  rows \in Seq(Row) /\ \A i \in DOMAIN rows : rows[i] \in Row
BY RowsDomain DEF FreshInv, TypeInv, TypeOK

LEMMA FrameFacts ==
  ASSUME FreshInv, NEW r \in Requests
  PROVE  /\ req[r].pc \in Activating => req[r].fp \in Fingerprints
         /\ req[r].pc \in HoldsRow => req[r].row \in DOMAIN rows
BY DEF FreshInv, TypeInv, Frames, GoodFrame

LEMMA TouchRows ==
  ASSUME FreshInv, NEW r \in Requests, ActivateTouch(r)
  PROVE  (Binds(r) /\ Touches(r) /\ AfterReissue(r)) \/ (UNCHANGED <<rows, returned>> /\ Finish(r))
<1> SUFFICES ASSUME ~(UNCHANGED <<rows, returned>> /\ Finish(r)) PROVE Binds(r) /\ Touches(r) /\ AfterReissue(r)
  OBVIOUS
<1> DEFINE x == [rows[req[r].row] EXCEPT !.fp = req[r].fp]
<1>1. /\ At(r, "a_touch") /\ FreeFor(req[r].fp, req[r].row) /\ AfterReissue(r)
      /\ rows' = [rows EXCEPT ![req[r].row].fp = req[r].fp] /\ returned' = returned
  BY DEF ActivateTouch, history
<1>2. req[r].fp \in Fingerprints /\ req[r].row \in DOMAIN rows
  BY <1>1, FrameFacts DEF At, Activating, HoldsRow
<1>3. x \in Row /\ x.fp = req[r].fp /\ x.status = rows[req[r].row].status
  BY <1>2, RowFacts DEF Row
<1>4. rows' = [rows EXCEPT ![req[r].row] = x]
  BY <1>1
<1> HIDE DEF x
<1>5. Written(req[r].row, x.fp, x.status)
  BY <1>2, <1>3, <1>4, RowFacts, RowPut
<1> QED
  BY <1>1, <1>2, <1>3, <1>5 DEF Binds, Touches

LEMMA ReactivateRows ==
  ASSUME FreshInv, NEW r \in Requests, ActivateReactivate(r)
  PROVE  (Binds(r) /\ Reactivates(r) /\ AfterReissue(r)) \/ (UNCHANGED <<rows, returned>> /\ Finish(r))
<1> SUFFICES ASSUME ~(UNCHANGED <<rows, returned>> /\ Finish(r)) PROVE Binds(r) /\ Reactivates(r) /\ AfterReissue(r)
  OBVIOUS
<1> DEFINE x == [fp |-> req[r].fp, status |-> "active"]
<1>1. /\ At(r, "a_reactivate") /\ FreeFor(req[r].fp, req[r].row) /\ AfterReissue(r)
      /\ rows' = [rows EXCEPT ![req[r].row] = x]
      /\ returned' = returned \union {req[r].row}
  BY DEF ActivateReactivate
<1>2. req[r].fp \in Fingerprints /\ req[r].row \in DOMAIN rows
  BY <1>1, FrameFacts DEF At, Activating, HoldsRow
<1>3. x \in Row /\ x.fp = req[r].fp /\ x.status = "active"
  BY <1>2 DEF Row
<1> HIDE DEF x
<1>4. Written(req[r].row, x.fp, x.status)
  BY <1>1, <1>2, <1>3, RowFacts, RowPut
<1> QED
  BY <1>1, <1>2, <1>3, <1>4 DEF Binds, Reactivates

LEMMA InsertRows ==
  ASSUME FreshInv, NEW r \in Requests, ActivateInsert(r)
  PROVE  (Binds(r) /\ Inserts(r) /\ Goto(r, "a_activate")) \/ (UNCHANGED <<rows, returned>> /\ Finish(r))
<1> SUFFICES ASSUME ~(UNCHANGED <<rows, returned>> /\ Finish(r)) PROVE Binds(r) /\ Inserts(r) /\ Goto(r, "a_activate")
  OBVIOUS
<1> DEFINE x == [fp |-> req[r].fp, status |-> "active"]
           n == Len(rows) + 1
<1>1. /\ At(r, "a_insert") /\ FreeFor(req[r].fp, 0) /\ Goto(r, "a_activate")
      /\ rows' = Append(rows, x) /\ returned' = returned
  BY DEF ActivateInsert, history
<1>2. req[r].fp \in Fingerprints
  BY <1>1, FrameFacts DEF At, Activating
<1>3. x \in Row /\ x.fp = req[r].fp /\ x.status = "active"
  BY <1>2 DEF Row
<1> HIDE DEF x
<1>4. /\ DOMAIN rows = 1 .. Len(rows) /\ Len(rows) \in Nat
      /\ DOMAIN rows' = 1 .. n /\ rows'[n] = x
      /\ \A j \in DOMAIN rows : rows'[j] = rows[j]
  BY <1>1, <1>3, RowFacts, LenProperties
<1>5. n \notin DOMAIN rows /\ DOMAIN rows' = DOMAIN rows \union {n}
  BY <1>4
<1> HIDE DEF n
<1>6. Added(req[r].fp)
  BY <1>3, <1>4, <1>5 DEF Added
<1> QED
  BY <1>1, <1>2, <1>6 DEF Binds, Inserts

LEMMA DeactivateRows ==
  ASSUME FreshInv, NEW r \in Requests, DeactivateWriteRow(r)
  PROVE  Deactivates(r)
<1> DEFINE x == [rows[req[r].row] EXCEPT !.status = "deactivated"]
<1>1. /\ At(r, "d_row") /\ rows' = [rows EXCEPT ![req[r].row].status = "deactivated"]
      /\ returned' = returned \ {req[r].row}
  BY DEF DeactivateWriteRow
<1>2. req[r].row \in DOMAIN rows
  BY <1>1, FrameFacts DEF At, HoldsRow
<1>3. x \in Row /\ x.fp = rows[req[r].row].fp /\ x.status = "deactivated"
  BY <1>2, RowFacts DEF Row
<1>4. rows' = [rows EXCEPT ![req[r].row] = x]
  BY <1>1
<1> HIDE DEF x
<1>5. Written(req[r].row, x.fp, x.status)
  BY <1>2, <1>3, <1>4, RowFacts, RowPut
<1> QED
  BY <1>1, <1>3, <1>5 DEF Deactivates

LEMMA ClearRows ==
  ASSUME FreshInv, NEW r \in Requests, UnbindAllRows(r)
  PROVE  Clears(r)
<1>1. At(r, "u_rows") /\ returned' = {} /\ rows' = [i \in DOMAIN rows |-> [rows[i] EXCEPT !.status = "deactivated"]]
  BY DEF UnbindAllRows
<1>2. \A i \in DOMAIN rows : /\ [rows[i] EXCEPT !.status = "deactivated"].fp = rows[i].fp
                             /\ [rows[i] EXCEPT !.status = "deactivated"].status = "deactivated"
  BY RowFacts DEF Row
<1> QED
  BY <1>1, <1>2 DEF Clears, Cleared

LEMMA RowsStep ==
  ASSUME FreshInv, [Next]_vars
  PROVE  \/ UNCHANGED <<rows, returned>>
         \/ \E r \in Requests : Binds(r) \/ Deactivates(r) \/ Clears(r)
BY TouchRows, ReactivateRows, InsertRows, DeactivateRows, ClearRows, RowActions

\* UNIQUE (entitlement_id, fingerprint), as FreeFor keeps it.
RowsDistinct == \A i, j \in DOMAIN rows : rows[i].fp = rows[j].fp => i = j

LEMMA DistinctStep ==
  ASSUME FreshInv, RowsDistinct, [Next]_vars
  PROVE  RowsDistinct'
<1>1. CASE rows' = rows
  BY <1>1 DEF RowsDistinct
<1>2. ASSUME NEW r \in Requests, Touches(r) \/ Reactivates(r) PROVE RowsDistinct'
  BY <1>2 DEF Touches, Reactivates, Written, FreeFor, RowsDistinct
<1>3. ASSUME NEW r \in Requests, Inserts(r) PROVE RowsDistinct'
  <2>1. 0 \notin DOMAIN rows
    BY RowsDomain DEF FreshInv, TypeInv, TypeOK
  <2>2. \A j \in DOMAIN rows : rows[j].fp # req[r].fp
    BY <1>3, <2>1 DEF Inserts, FreeFor
  <2> QED
    BY <1>3, <2>2 DEF Inserts, Added, RowsDistinct
<1>4. ASSUME NEW r \in Requests, Deactivates(r) \/ Clears(r) PROVE RowsDistinct'
  BY <1>4 DEF Deactivates, Clears, Written, Cleared, RowsDistinct
<1> QED
  BY <1>1, <1>2, <1>3, <1>4, RowsStep DEF Binds

-----------------------------------------------------------------------------
(***************************************************************************)
(* Part 2: requests that come one at a time.                               *)
(***************************************************************************)

Alike(f, g) == f = g \/ SameMachine(f, g)

\* What the only request in flight knows of the rows: the one it will write is its machine's,
\* or its machine has none.
LoneFrame(f) ==
    /\ f.pc \in {"a_touch", "a_reactivate"} => Alike(rows[f.row].fp, f.fp)
    /\ f.pc \in {"a_count", "a_insert"} => \A i \in DOMAIN rows : ~SameMachine(rows[i].fp, f.fp)

AloneInv ==
    ~overlapped =>
        /\ \A r, q \in Requests : r # q => At(r, "idle") \/ At(q, "idle")
        /\ \A i, j \in DOMAIN rows : SameMachine(rows[i].fp, rows[j].fp) => i = j
        /\ \A r \in Requests : LoneFrame(req[r])

\* The steps between which the licence row may lag behind the devices.
Unsettled == {"a_activate", "a_use", "d_count", "d_unuse", "u_unuse"}

Mirrors == licStatus # "revoked" => (licStatus = "used" <=> ActiveRows # {})

MirrorFrame(f) ==
    /\ f.pc = "a_touch" => f.row \in ActiveRows
    /\ f.pc \in {"a_activate", "a_use"} => ActiveRows # {}
    /\ f.pc \in {"d_unuse", "u_unuse"} => ActiveRows = {}
    /\ f.pc = "d_count" => licStatus # "unused" \/ ActiveRows = {}
    /\ f.pc \notin Unsettled \union {"idle"} => Mirrors

MirrorInv ==
    ~overlapped /\ ~crashed =>
        /\ \A r \in Requests : MirrorFrame(req[r])
        /\ (\A r \in Requests : At(r, "idle")) => Mirrors

\* A request's frame after its step: what it does next, on what, and that the others are
\* where they were.
OthersStay(r) ==
    \A q \in Requests \ {r} :
        req'[q].pc = req[q].pc /\ req'[q].fp = req[q].fp /\ req'[q].row = req[q].row
NextFrame(r, step, f, i) ==
    OthersStay(r) /\ req'[r].pc = step /\ req'[r].fp = f /\ req'[r].row = i

LEMMA PutNext ==
  ASSUME FreshInv, NEW r \in Requests, NEW f, req' = [req EXCEPT ![r] = f]
  PROVE  NextFrame(r, f.pc, f.fp, f.row)
BY DEF FreshInv, TypeInv, Frames, NextFrame, OthersStay

LEMMA GotoNext ==
  ASSUME FreshInv, NEW r \in Requests, NEW step, Goto(r, step)
  PROVE  NextFrame(r, step, req[r].fp, req[r].row)
<1> DEFINE f == [req[r] EXCEPT !.pc = step]
<1>1. req[r] \in Frame /\ req \in [Requests -> Frame]
  BY DEF FreshInv, TypeInv, Frames
<1>2. f.pc = step /\ f.fp = req[r].fp /\ f.row = req[r].row
  BY <1>1 DEF Frame
<1>3. req' = [req EXCEPT ![r] = f]
  BY <1>1 DEF Goto
<1> HIDE DEF f
<1> QED
  BY <1>2, <1>3, PutNext

LEMMA FinishNext ==
  ASSUME FreshInv, NEW r \in Requests, Finish(r)
  PROVE  OthersStay(r) /\ req'[r].pc = "idle"
BY IdleFrame DEF FreshInv, TypeInv, Frames, Finish, OthersStay

LEMMA BeginNext ==
  ASSUME FreshInv, NEW r \in Requests, NEW step, NEW f, NEW i, Begin(r, step, f, i)
  PROVE  NextFrame(r, step, f, i) /\ Enter(r)
<1> DEFINE g == [Idle EXCEPT !.pc = step, !.fp = f, !.row = i,
                             !.licRevoked = (licStatus = "revoked"), !.late = revoked]
<1>1. g.pc = step /\ g.fp = f /\ g.row = i
  BY DEF Idle
<1>2. req' = [req EXCEPT ![r] = g] /\ Enter(r)
  BY DEF Begin
<1> HIDE DEF g
<1> QED
  BY <1>1, <1>2, PutNext

LEMMA FoundNext ==
  ASSUME FreshInv, NEW r \in Requests, NEW i, FoundRow(r, i)
  PROVE  /\ OthersStay(r)
         /\ \/ req'[r].pc = "idle"
            \/ NextFrame(r, "a_touch", req[r].fp, i) /\ rows[i].status = "active"
            \/ NextFrame(r, "a_reactivate", req[r].fp, i) /\ AllowReactivation
<1>1. req[r] \in Frame /\ req \in [Requests -> Frame]
  BY DEF FreshInv, TypeInv, Frames
<1>2. ASSUME NEW step, req' = [req EXCEPT ![r].pc = step, ![r].row = i]
      PROVE  NextFrame(r, step, req[r].fp, i)
  <2> DEFINE f == [req[r] EXCEPT !.pc = step, !.row = i]
  <2>1. f.pc = step /\ f.fp = req[r].fp /\ f.row = i
    BY <1>1 DEF Frame
  <2>2. req' = [req EXCEPT ![r] = f]
    BY <1>1, <1>2
  <2> HIDE DEF f
  <2> QED
    BY <2>1, <2>2, PutNext
<1> QED
  BY <1>2, FinishNext DEF FoundRow, NextFrame

\* The steps of a request, as the two invariants see them.
Still == rows' = rows /\ licStatus' = licStatus
Watched == Unsettled \union {"a_touch", "a_reactivate", "a_count", "a_insert"}

Proceeds(r) == Still /\ req[r].pc \notin Unsettled /\ req'[r].pc \notin Watched
Finds(r) ==
    /\ Still
    /\ req[r].pc \in {"a_exact", "a_same"}
    /\ req'[r].row \in DOMAIN rows
    /\ Alike(rows[req'[r].row].fp, req'[r].fp)
    /\ \/ req'[r].pc = "a_touch" /\ rows[req'[r].row].status = "active"
       \/ req'[r].pc = "a_reactivate" /\ AllowReactivation
FindsNone(r) ==
    /\ Still
    /\ req[r].pc = "a_same" /\ req'[r].pc = "a_count"
    /\ \A i \in DOMAIN rows : ~SameMachine(rows[i].fp, req'[r].fp)
Counts(r) ==
    Still /\ req[r].pc = "a_count" /\ req'[r].pc = "a_insert" /\ req'[r].fp = req[r].fp
Enables(r) == Still /\ req[r].pc = "a_activate" /\ req'[r].pc = "a_use"
CountsDevices(r) ==
    /\ Still
    /\ req[r].pc = "d_count"
    /\ IF ActiveRows = {} THEN req'[r].pc = "d_unuse" ELSE req'[r].pc = "idle"
Rebinds(r) ==
    /\ Touches(r) \/ Reactivates(r)
    /\ licStatus' = licStatus
    /\ req'[r].pc \in {"a_activate", "a_issue"}
BindsNew(r) == Inserts(r) /\ licStatus' = licStatus /\ req'[r].pc = "a_activate"
Unbinds(r) ==
    /\ licStatus' = licStatus
    /\ \/ Deactivates(r) /\ req'[r].pc = "d_count"
       \/ Clears(r) /\ req'[r].pc = "u_unuse"
WritesLicence(r) ==
    /\ rows' = rows
    /\ \/ req[r].pc = "a_use" /\ licStatus' = "used" /\ req'[r].pc = "a_issue"
       \/ req[r].pc \in {"d_unuse", "u_unuse"} /\ licStatus' = "unused" /\ req'[r].pc = "idle"
       \/ licStatus' = "revoked" /\ req'[r].pc = "v_entitlement"
Dies(r) == Still /\ crashed' /\ req'[r].pc = "idle"

Moves(r) ==
    /\ OthersStay(r)
    /\ \/ Proceeds(r) \/ Finds(r) \/ FindsNone(r) \/ Counts(r) \/ Enables(r) \/ CountsDevices(r)
       \/ Rebinds(r) \/ BindsNew(r) \/ Unbinds(r) \/ WritesLicence(r) \/ Dies(r)

\* overlapped remembers that a request began while another was in flight.
Counted(r) == Enter(r) \/ (~At(r, "idle") /\ overlapped' = overlapped)

LEMMA Proceeding ==
  ASSUME FreshInv, NEW r \in Requests, Still, req[r].pc \notin Unsettled
  PROVE  /\ Finish(r) => Moves(r)
         /\ \A step : Goto(r, step) /\ step \notin Watched => Moves(r)
         /\ \A step, f, i : Begin(r, step, f, i) /\ step \notin Watched => Moves(r) /\ Enter(r)
<1>1. "idle" \notin Watched
  BY DEF Watched, Unsettled
<1>2. Finish(r) => Moves(r)
  BY <1>1, FinishNext DEF Moves, Proceeds
<1>3. \A step : Goto(r, step) /\ step \notin Watched => Moves(r)
  BY GotoNext DEF Moves, Proceeds, NextFrame
<1>4. \A step, f, i : Begin(r, step, f, i) /\ step \notin Watched => Moves(r) /\ Enter(r)
  BY BeginNext DEF Moves, Proceeds, NextFrame
<1> QED
  BY <1>2, <1>3, <1>4

LEMMA FindMoves ==
  ASSUME FreshInv, NEW r \in Requests, ActivateFindExact(r) \/ ActivateFindSameMachine(r)
  PROVE  Moves(r)
<1>1. Still /\ req[r].pc \in {"a_exact", "a_same"} /\ req[r].pc \notin Unsettled
  BY DEF ActivateFindExact, ActivateFindSameMachine, Still, Unsettled, At
<1>2. ASSUME NEW i \in DOMAIN rows, Alike(rows[i].fp, req[r].fp), FoundRow(r, i) PROVE Moves(r)
  <2>1. CASE req'[r].pc = "idle" /\ OthersStay(r)
    BY <1>1, <2>1 DEF Moves, Proceeds, Watched, Unsettled
  <2>2. CASE NextFrame(r, "a_touch", req[r].fp, i) /\ rows[i].status = "active"
    BY <1>1, <1>2, <2>2 DEF Moves, Finds, NextFrame
  <2>3. CASE NextFrame(r, "a_reactivate", req[r].fp, i) /\ AllowReactivation
    BY <1>1, <1>2, <2>3 DEF Moves, Finds, NextFrame
  <2> QED
    BY <1>2, <2>1, <2>2, <2>3, FoundNext
<1>3. CASE ActivateFindExact(r)
  <2>1. \/ \E i \in DOMAIN rows : rows[i].fp = req[r].fp /\ FoundRow(r, i)
        \/ Goto(r, "a_same")
    BY <1>3, Zenon DEF ActivateFindExact
  <2>2. "a_same" \notin Watched
    BY DEF Watched, Unsettled
  <2> QED
    BY <1>1, <1>2, <2>1, <2>2, Proceeding DEF Alike
<1>4. CASE ActivateFindSameMachine(r)
  <2> DEFINE same == {i \in DOMAIN rows : SameMachine(rows[i].fp, req[r].fp)}
  <2>1. /\ (\E i \in Preferred(same) : FoundRow(r, i)) \/ (same = {} /\ Goto(r, "a_count"))
        /\ req[r].pc = "a_same"
    BY <1>4, Zenon DEF ActivateFindSameMachine, At
  <2>2. \A i \in Preferred(same) : i \in DOMAIN rows /\ Alike(rows[i].fp, req[r].fp)
    BY DEF Preferred, Alike
  <2>3. CASE same = {} /\ Goto(r, "a_count")
    <3>1. NextFrame(r, "a_count", req[r].fp, req[r].row)
      BY <2>3, GotoNext
    <3>2. \A i \in DOMAIN rows : ~SameMachine(rows[i].fp, req[r].fp)
      BY <2>3
    <3> HIDE DEF same
    <3> QED
      BY <1>1, <2>1, <3>1, <3>2 DEF Moves, FindsNone, NextFrame
  <2> HIDE DEF same
  <2> QED
    BY <1>2, <2>1, <2>2, <2>3
<1> QED
  BY <1>3, <1>4

LEMMA BindMoves ==
  ASSUME FreshInv, NEW r \in Requests,
         ActivateTouch(r) \/ ActivateReactivate(r) \/ ActivateCount(r) \/ ActivateInsert(r)
  PROVE  Moves(r)
<1>1. licStatus' = licStatus /\ req[r].pc \notin Unsettled
  BY DEF ActivateTouch, ActivateReactivate, ActivateCount, ActivateInsert, Unsettled, At
<1>2. CASE UNCHANGED <<rows, returned>> /\ Finish(r)
  BY <1>1, <1>2, Proceeding DEF Still
<1>3. ASSUME AfterReissue(r), Touches(r) \/ Reactivates(r) PROVE Moves(r)
  <2>1. \E step \in {"a_activate", "a_issue"} : Goto(r, step)
    BY <1>3 DEF AfterReissue
  <2>2. OthersStay(r) /\ req'[r].pc \in {"a_activate", "a_issue"}
    BY <2>1, GotoNext DEF NextFrame
  <2> QED
    BY <1>1, <1>3, <2>2 DEF Moves, Rebinds
<1>4. CASE ActivateTouch(r)
  BY <1>2, <1>3, <1>4, TouchRows
<1>5. CASE ActivateReactivate(r)
  BY <1>2, <1>3, <1>5, ReactivateRows
<1>6. CASE ActivateInsert(r)
  <2>1. ASSUME Inserts(r), Goto(r, "a_activate") PROVE Moves(r)
    BY <1>1, <2>1, GotoNext DEF Moves, BindsNew, NextFrame
  <2> QED
    BY <1>2, <1>6, <2>1, InsertRows
<1>7. CASE ActivateCount(r)
  <2>1. /\ UNCHANGED <<rows, returned>>
        /\ req[r].pc = "a_count" /\ (Finish(r) \/ Goto(r, "a_insert"))
    BY <1>7 DEF ActivateCount, At, history
  <2>2. ASSUME Goto(r, "a_insert") PROVE Moves(r)
    BY <1>1, <2>1, <2>2, GotoNext DEF Moves, Counts, NextFrame, Still
  <2> QED
    BY <1>2, <2>1, <2>2
<1> QED
  BY <1>4, <1>5, <1>6, <1>7

LEMMA ActivateMoves ==
  ASSUME FreshInv, NEW r \in Requests, Activate(r)
  PROVE  Moves(r) /\ Counted(r)
<1>1. ASSUME NEW f \in Fingerprints, ActivateReadLicense(r, f) PROVE Moves(r) /\ Counted(r)
  <2>1. Still /\ req[r].pc \notin Unsettled /\ Begin(r, "a_entitlement", f, 0)
    BY <1>1 DEF ActivateReadLicense, Calls, At, Still, Unsettled
  <2>2. "a_entitlement" \notin Watched
    BY DEF Watched, Unsettled
  <2> QED
    BY <2>1, <2>2, Proceeding DEF Counted
<1>2. CASE ActivateReadEntitlement(r)
  <2> DEFINE f == [req[r] EXCEPT !.pc = "a_exact", !.limit = limit,
                     !.wasPending = (entStatus = "pending"), !.overtaken = FALSE]
  <2>0. req[r] \in Frame /\ req \in [Requests -> Frame]
    BY DEF FreshInv, TypeInv, Frames
  <2>1. /\ Still /\ req[r].pc \notin Unsettled /\ ~At(r, "idle") /\ overlapped' = overlapped
        /\ Finish(r) \/ req' = [req EXCEPT ![r] = f]
    BY <1>2, <2>0 DEF ActivateReadEntitlement, At, Still, Unsettled, history
  <2>2. f.pc = "a_exact"
    BY <2>0 DEF Frame
  <2> HIDE DEF f
  <2>3. ASSUME req' = [req EXCEPT ![r] = f] PROVE Moves(r)
    BY <2>1, <2>2, <2>3, PutNext DEF Moves, Proceeds, NextFrame, Watched, Unsettled
  <2> QED
    BY <2>1, <2>3, Proceeding DEF Counted
<1>3. CASE ActivateFindExact(r) \/ ActivateFindSameMachine(r)
  BY <1>3, FindMoves DEF Counted, ActivateFindExact, ActivateFindSameMachine, At, history
<1>4. CASE ActivateTouch(r) \/ ActivateReactivate(r) \/ ActivateCount(r) \/ ActivateInsert(r)
  BY <1>4, BindMoves
     DEF Counted, ActivateTouch, ActivateReactivate, ActivateCount, ActivateInsert, At, history
<1>5. CASE ActivateWriteEntitlement(r)
  <2>1. /\ Still /\ req[r].pc = "a_activate" /\ Goto(r, "a_use") /\ ~At(r, "idle")
        /\ overlapped' = overlapped
    BY <1>5 DEF ActivateWriteEntitlement, Reopen, At, Still
  <2> QED
    BY <2>1, GotoNext DEF Moves, Enables, NextFrame, Counted
<1>6. CASE ActivateWriteLicense(r)
  <2>1. /\ rows' = rows /\ licStatus' = "used" /\ req[r].pc = "a_use" /\ Goto(r, "a_issue")
        /\ ~At(r, "idle") /\ overlapped' = overlapped
    BY <1>6 DEF ActivateWriteLicense, At, history
  <2> QED
    BY <2>1, GotoNext DEF Moves, WritesLicence, NextFrame, Counted
<1>7. CASE ActivateIssue(r)
  <2>1. Still /\ req[r].pc \notin Unsettled /\ Finish(r) /\ ~At(r, "idle") /\ overlapped' = overlapped
    BY <1>7 DEF ActivateIssue, At, Still, Unsettled, history
  <2> QED
    BY <2>1, Proceeding DEF Counted
<1> QED
  BY <1>1, <1>2, <1>3, <1>4, <1>5, <1>6, <1>7 DEF Activate

LEMMA RefreshMoves ==
  ASSUME FreshInv, NEW r \in Requests, Refresh(r)
  PROVE  Moves(r) /\ Counted(r)
<1>1. ASSUME NEW f \in Fingerprints, RefreshReadEntitlement(r, f) PROVE Moves(r) /\ Counted(r)
  <2> DEFINE g == [Idle EXCEPT !.pc = "r_row", !.fp = f,
                               !.wasPending = (entStatus = "pending"), !.late = revoked]
  <2>1. Still /\ req[r].pc \notin Unsettled /\ req' = [req EXCEPT ![r] = g] /\ Enter(r)
    BY <1>1 DEF RefreshReadEntitlement, Calls, At, Still, Unsettled
  <2>2. g.pc = "r_row"
    BY DEF Idle
  <2> HIDE DEF g
  <2> QED
    BY <2>1, <2>2, PutNext DEF Moves, Proceeds, NextFrame, Watched, Unsettled, Counted
<1>2. CASE RefreshFindRow(r) \/ RefreshIssue(r)
  <2>1. /\ Still /\ req[r].pc \notin Unsettled /\ ~At(r, "idle") /\ overlapped' = overlapped
        /\ Finish(r) \/ Goto(r, "r_issue")
    BY <1>2 DEF RefreshFindRow, RefreshIssue, At, Still, Unsettled, history
  <2>2. "r_issue" \notin Watched
    BY DEF Watched, Unsettled
  <2> QED
    BY <2>1, <2>2, Proceeding DEF Counted
<1> QED
  BY <1>1, <1>2 DEF Refresh

LEMMA UnbindMoves ==
  ASSUME FreshInv, NEW r \in Requests, Unbind(r)
  PROVE  Moves(r) /\ Counted(r)
<1>0. "d_provider" \notin Watched /\ "d_row" \notin Watched /\ "u_rows" \notin Watched
      /\ "idle" \notin Unsettled
  BY DEF Watched, Unsettled
<1>1. ASSUME NEW step \in {"d_provider", "d_row", "u_rows"}, NEW f, NEW i, Begin(r, step, f, i),
             Still, At(r, "idle")
      PROVE  Moves(r) /\ Counted(r)
  <2>1. req[r].pc \notin Unsettled /\ step \notin Watched
    BY <1>0, <1>1 DEF At
  <2> QED
    BY <1>1, <2>1, Proceeding DEF Counted
<1>2. ASSUME NEW f \in Fingerprints, DeactivateFindRow(r, f) PROVE Moves(r) /\ Counted(r)
  BY <1>1, <1>2 DEF DeactivateFindRow, Calls, Still
<1>3. CASE UnbindDeviceFindRow(r) \/ UnbindAll(r)
  BY <1>1, <1>3 DEF UnbindDeviceFindRow, UnbindAll, Calls, Still
<1>4. CASE DeactivateProvider(r)
  <2>1. /\ Still /\ req[r].pc \notin Unsettled /\ ~At(r, "idle") /\ overlapped' = overlapped
        /\ Finish(r) \/ Goto(r, "d_row")
    BY <1>4 DEF DeactivateProvider, At, Still, Unsettled, history
  <2> QED
    BY <1>0, <2>1, Proceeding DEF Counted
<1>5. CASE DeactivateWriteRow(r)
  <2>1. licStatus' = licStatus /\ Goto(r, "d_count") /\ ~At(r, "idle") /\ overlapped' = overlapped
    BY <1>5 DEF DeactivateWriteRow, At, history
  <2> QED
    BY <1>5, <2>1, DeactivateRows, GotoNext DEF Moves, Unbinds, NextFrame, Counted
<1>6. CASE DeactivateCount(r)
  <2>1. /\ Still /\ req[r].pc = "d_count" /\ ~At(r, "idle") /\ overlapped' = overlapped
        /\ (ActiveRows = {} /\ Goto(r, "d_unuse")) \/ (ActiveRows # {} /\ Finish(r))
    BY <1>6 DEF DeactivateCount, At, Still, history
  <2>2. OthersStay(r) /\ IF ActiveRows = {} THEN req'[r].pc = "d_unuse" ELSE req'[r].pc = "idle"
    BY <2>1, GotoNext, FinishNext DEF NextFrame
  <2> QED
    BY <2>1, <2>2 DEF Moves, CountsDevices, Counted
<1>7. CASE UnbindAllRows(r)
  <2>1. licStatus' = licStatus /\ Goto(r, "u_unuse") /\ ~At(r, "idle") /\ overlapped' = overlapped
    BY <1>7 DEF UnbindAllRows, At, history
  <2> QED
    BY <1>7, <2>1, ClearRows, GotoNext DEF Moves, Unbinds, NextFrame, Counted
<1>8. CASE WriteUnused(r)
  <2>1. /\ rows' = rows /\ licStatus' = "unused" /\ req[r].pc \in {"d_unuse", "u_unuse"} /\ Finish(r)
        /\ ~At(r, "idle") /\ overlapped' = overlapped
    BY <1>8 DEF WriteUnused, At, history
  <2> QED
    BY <2>1, FinishNext DEF Moves, WritesLicence, Counted
<1> QED
  BY <1>2, <1>3, <1>4, <1>5, <1>6, <1>7, <1>8 DEF Unbind

LEMMA AdminMoves ==
  ASSUME FreshInv, NEW r \in Requests, Admin(r)
  PROVE  Moves(r) /\ Counted(r)
<1>0. req[r] \in Frame /\ req \in [Requests -> Frame]
  BY DEF FreshInv, TypeInv, Frames
<1>1. CASE RevokeWriteLicense(r)
  <2>1. rows' = rows /\ licStatus' = "revoked" /\ Begin(r, "v_entitlement", None, 0)
    BY <1>1 DEF RevokeWriteLicense
  <2> QED
    BY <2>1, BeginNext DEF Moves, WritesLicence, NextFrame, Counted
<1>2. CASE RevokeWriteEntitlement(r)
  <2>1. /\ Still /\ req[r].pc \notin Unsettled /\ ~At(r, "idle") /\ overlapped' = overlapped
        /\ req' = [q \in Requests |-> IF q = r THEN Idle ELSE [req[q] EXCEPT !.overtaken = TRUE]]
    BY <1>2 DEF RevokeWriteEntitlement, At, Still, Unsettled
  <2>2. \A q \in Requests : /\ [req[q] EXCEPT !.overtaken = TRUE].pc = req[q].pc
                            /\ [req[q] EXCEPT !.overtaken = TRUE].fp = req[q].fp
                            /\ [req[q] EXCEPT !.overtaken = TRUE].row = req[q].row
    BY <1>0 DEF Frame
  <2>3. OthersStay(r) /\ req'[r].pc = "idle"
    BY <2>1, <2>2, IdleFrame DEF OthersStay
  <2> QED
    BY <2>1, <2>3 DEF Moves, Proceeds, Watched, Unsettled, Counted
<1>3. CASE ReactivateReadLicense(r)
  <2>1. Still /\ req[r].pc \notin Unsettled /\ Begin(r, "x_entitlement", None, 0)
    BY <1>3 DEF ReactivateReadLicense, Calls, At, Still, Unsettled
  <2>2. "x_entitlement" \notin Watched
    BY DEF Watched, Unsettled
  <2> QED
    BY <2>1, <2>2, Proceeding DEF Counted
<1>4. CASE ReactivateReadEntitlement(r)
  <2> DEFINE f == [req[r] EXCEPT !.pc = "x_write", !.overtaken = FALSE]
  <2>1. /\ Still /\ req[r].pc \notin Unsettled /\ ~At(r, "idle") /\ overlapped' = overlapped
        /\ Finish(r) \/ req' = [req EXCEPT ![r] = f]
    BY <1>0, <1>4 DEF ReactivateReadEntitlement, At, Still, Unsettled, history
  <2>2. f.pc = "x_write"
    BY <1>0 DEF Frame
  <2> HIDE DEF f
  <2>3. ASSUME req' = [req EXCEPT ![r] = f] PROVE Moves(r)
    BY <2>1, <2>2, <2>3, PutNext DEF Moves, Proceeds, NextFrame, Watched, Unsettled
  <2> QED
    BY <2>1, <2>3, Proceeding DEF Counted
<1>5. CASE ReactivateWrite(r)
  <2>1. Still /\ req[r].pc \notin Unsettled /\ Finish(r) /\ ~At(r, "idle") /\ overlapped' = overlapped
    BY <1>5 DEF ReactivateWrite, Reopen, At, Still, Unsettled
  <2> QED
    BY <2>1, Proceeding DEF Counted
<1> QED
  BY <1>1, <1>2, <1>3, <1>4, <1>5 DEF Admin

LEMMA CrashedKept ==
  ASSUME NEW r \in Requests, Activate(r) \/ Refresh(r) \/ Unbind(r) \/ Admin(r)
  PROVE  crashed' = crashed
<1>1. ASSUME NEW step, NEW f, NEW i, Begin(r, step, f, i) PROVE crashed' = crashed
  BY <1>1 DEF Begin, Enter
<1>2. CASE Activate(r)
  <2>1. ASSUME NEW f \in Fingerprints, ActivateReadLicense(r, f) PROVE crashed' = crashed
    BY <1>1, <2>1 DEF ActivateReadLicense
  <2>2. \/ ActivateReadEntitlement(r) \/ ActivateFindExact(r) \/ ActivateFindSameMachine(r)
        \/ ActivateTouch(r) \/ ActivateReactivate(r)
        => crashed' = crashed
    BY DEF ActivateReadEntitlement, ActivateFindExact, ActivateFindSameMachine, ActivateTouch,
       ActivateReactivate, history
  <2>3. \/ ActivateCount(r) \/ ActivateInsert(r) \/ ActivateWriteEntitlement(r)
        \/ ActivateWriteLicense(r) \/ ActivateIssue(r)
        => crashed' = crashed
    BY DEF ActivateCount, ActivateInsert, ActivateWriteEntitlement, Reopen, ActivateWriteLicense,
       ActivateIssue, history
  <2> QED
    BY <1>2, <2>1, <2>2, <2>3 DEF Activate
<1>3. CASE Refresh(r)
  <2>1. ASSUME NEW f \in Fingerprints, RefreshReadEntitlement(r, f) PROVE crashed' = crashed
    BY <2>1 DEF RefreshReadEntitlement, Enter
  <2> QED
    BY <1>3, <2>1 DEF Refresh, RefreshFindRow, RefreshIssue, history
<1>4. CASE Unbind(r)
  BY <1>4, UnbindKeeps
<1>5. CASE Admin(r)
  <2>1. RevokeWriteLicense(r) \/ ReactivateReadLicense(r) => crashed' = crashed
    BY <1>1 DEF RevokeWriteLicense, ReactivateReadLicense
  <2>2. RevokeWriteEntitlement(r) \/ ReactivateReadEntitlement(r) \/ ReactivateWrite(r)
        => crashed' = crashed
    BY DEF RevokeWriteEntitlement, ReactivateReadEntitlement, ReactivateWrite, Reopen, history
  <2> QED
    BY <1>5, <2>1, <2>2 DEF Admin
<1> QED
  BY <1>2, <1>3, <1>4, <1>5

\* A step is a request's, or it touches neither requests nor rows nor the licence row.
LEMMA StepMoves ==
  ASSUME FreshInv, [Next]_vars
  PROVE  \/ \E r \in Requests : Moves(r) /\ Counted(r) /\ (crashed => crashed')
         \/ UNCHANGED <<req, rows, licStatus, overlapped, crashed>>
<1>1. ASSUME NEW r \in Requests, Crash(r) PROVE Moves(r) /\ Counted(r) /\ crashed'
  <2>1. Still /\ crashed' /\ Finish(r) /\ ~At(r, "idle") /\ overlapped' = overlapped
    BY <1>1 DEF Crash, Still
  <2> QED
    BY <2>1, FinishNext DEF Moves, Dies, Counted
<1>2. ASSUME NEW r \in Requests, Activate(r) \/ Refresh(r) \/ Unbind(r) \/ Admin(r)
      PROVE  crashed' = crashed
  BY <1>2, CrashedKept
<1>3. Suspend \/ (\E n \in Limits : SetLimit(n)) \/ UNCHANGED vars
        => UNCHANGED <<req, rows, licStatus, overlapped, crashed>>
  BY DEF Suspend, SetLimit, Reopen, vars, history
<1> QED
  BY <1>1, <1>2, <1>3, ActivateMoves, RefreshMoves, UnbindMoves, AdminMoves DEF Next

\* While requests come one at a time, the others are idle before and after a request's step.
LEMMA Alone ==
  ASSUME FreshInv, AloneInv, ~overlapped', NEW r \in Requests, Moves(r), Counted(r)
  PROVE  ~overlapped /\ \A q \in Requests \ {r} : At(q, "idle") /\ req'[q].pc = "idle"
<1>1. ~overlapped /\ \A q \in Requests \ {r} : At(q, "idle")
  <2>1. CASE Enter(r)
    BY <2>1 DEF Enter
  <2>2. CASE ~At(r, "idle") /\ overlapped' = overlapped
    BY <2>2 DEF AloneInv
  <2> QED
    BY <2>1, <2>2 DEF Counted
<1> QED
  BY <1>1 DEF Moves, OthersStay, At

\* Two rows of one machine are the same row.
Unique == \A i, j \in DOMAIN rows : SameMachine(rows[i].fp, rows[j].fp) => i = j

LEMMA UniqueTouch ==
  ASSUME Unique, NEW i, NEW f, NEW s, Written(i, f, s), Alike(rows[i].fp, f)
  PROVE  Unique'
<1>1. \A j \in DOMAIN rows : SameMachine(rows[j].fp, f) \/ SameMachine(f, rows[j].fp) => j = i
  BY DEF Unique, Written, Alike, SameMachine
<1>2. SUFFICES ASSUME NEW j \in DOMAIN rows', NEW k \in DOMAIN rows',
                      SameMachine(rows'[j].fp, rows'[k].fp)
               PROVE  j = k
  BY DEF Unique, SameMachine
<1>3. CASE j = i \/ k = i
  BY <1>1, <1>2, <1>3 DEF Written
<1>4. CASE j # i /\ k # i
  BY <1>2, <1>4 DEF Written, Unique
<1> QED
  BY <1>3, <1>4

LEMMA UniqueInsert ==
  ASSUME Unique, NEW f, Added(f), \A i \in DOMAIN rows : ~SameMachine(rows[i].fp, f)
  PROVE  Unique'
<1>1. PICK n : /\ n \notin DOMAIN rows
               /\ DOMAIN rows' = DOMAIN rows \union {n}
               /\ rows'[n].fp = f
               /\ \A j \in DOMAIN rows : rows'[j] = rows[j]
  BY DEF Added
<1>2. SUFFICES ASSUME NEW j \in DOMAIN rows', NEW k \in DOMAIN rows',
                      SameMachine(rows'[j].fp, rows'[k].fp)
               PROVE  j = k
  BY DEF Unique, SameMachine
<1>3. CASE j \in DOMAIN rows /\ k \in DOMAIN rows
  BY <1>1, <1>2, <1>3 DEF Unique
<1>4. CASE j = n \/ k = n
  BY <1>1, <1>2, <1>4 DEF SameMachine
<1> QED
  BY <1>1, <1>3, <1>4

LEMMA UniqueKept ==
  ASSUME Unique, DOMAIN rows' = DOMAIN rows, \A i \in DOMAIN rows : rows'[i].fp = rows[i].fp
  PROVE  Unique'
BY DEF Unique, SameMachine

LEMMA AloneStep == FreshInv /\ AloneInv /\ [Next]_vars => AloneInv'
<1> SUFFICES ASSUME FreshInv, AloneInv, [Next]_vars, ~overlapped' PROVE AloneInv'
  BY DEF AloneInv
<1>1. CASE UNCHANGED <<req, rows, licStatus, overlapped, crashed>>
  BY <1>1 DEF AloneInv, At, LoneFrame, Alike, SameMachine
<1>2. ASSUME NEW r \in Requests, Moves(r), Counted(r) PROVE AloneInv'
  <2>1. ~overlapped /\ \A q \in Requests \ {r} : At(q, "idle") /\ req'[q].pc = "idle"
    BY <1>2, Alone
  <2>2. Unique /\ LoneFrame(req[r])
    BY <1>2, <2>1 DEF AloneInv, Unique
  <2>3. Unique'
    <3>1. CASE rows' = rows
      BY <2>2, <3>1, UniqueKept
    <3>2. CASE Touches(r) \/ Reactivates(r)
      <4>1. Alike(rows[req[r].row].fp, req[r].fp)
        BY <2>2, <3>2 DEF Touches, Reactivates, At, LoneFrame
      <4> QED
        BY <2>2, <3>2, <4>1, UniqueTouch DEF Touches, Reactivates
    <3>3. CASE Inserts(r)
      <4>1. \A i \in DOMAIN rows : ~SameMachine(rows[i].fp, req[r].fp)
        BY <2>2, <3>3 DEF Inserts, At, LoneFrame
      <4> QED
        BY <2>2, <3>3, <4>1, UniqueInsert DEF Inserts
    <3>4. CASE Deactivates(r) \/ Clears(r)
      BY <2>2, <3>4, UniqueKept DEF Deactivates, Clears, Written, Cleared
    <3> QED
      BY <1>2, <3>1, <3>2, <3>3, <3>4
         DEF Moves, Still, Proceeds, Finds, FindsNone, Counts, Enables, CountsDevices, Rebinds,
             BindsNew, Unbinds, WritesLicence, Dies
  <2>4. LoneFrame(req[r])'
    <3>1. CASE Finds(r) \/ FindsNone(r)
      BY <3>1 DEF Finds, FindsNone, Still, LoneFrame, Alike, SameMachine
    <3>2. CASE Counts(r)
      BY <2>2, <3>2 DEF Counts, Still, LoneFrame, SameMachine
    <3>3. CASE req'[r].pc \notin {"a_touch", "a_reactivate", "a_count", "a_insert"}
      BY <3>3 DEF LoneFrame
    <3> QED
      BY <1>2, <3>1, <3>2, <3>3
         DEF Moves, Proceeds, Watched, Enables, CountsDevices, Rebinds, BindsNew, Unbinds,
             WritesLicence, Dies
  <2>5. \A q \in Requests \ {r} : LoneFrame(req[q])'
    BY <2>1 DEF LoneFrame
  <2>6. \A p, q \in Requests : p # q => req'[p].pc = "idle" \/ req'[q].pc = "idle"
    BY <2>1
  <2> QED
    BY <2>3, <2>4, <2>5, <2>6 DEF AloneInv, Unique, At
<1> QED
  BY <1>1, <1>2, StepMoves

LEMMA AloneInit == Init => AloneInv
BY IdleFrame DEF Init, AloneInv, At, LoneFrame, Idle

LEMMA AloneInvariant == Spec => []AloneInv
<1>1. Init => FreshInv /\ AloneInv
  BY FreshInit, AloneInit
<1>2. FreshInv /\ AloneInv /\ [Next]_vars => FreshInv' /\ AloneInv'
  BY FreshStep, AloneStep
<1> QED
  BY <1>1, <1>2, PTL DEF Spec

\* As long as requests come one at a time a machine holds at most one slot, crashes included:
\* findActivationBySameMachine finds its row, active or not, whichever blob it sends.
THEOREM OneSlotPerMachineTheorem == Spec => []OneSlotPerMachine
<1>1. AloneInv => OneSlotPerMachine
  BY DEF AloneInv, OneSlotPerMachine, ActiveRows
<1> QED
  BY <1>1, AloneInvariant, PTL

LEMMA TouchedActive ==
  ASSUME NEW i, NEW f, NEW s, Written(i, f, s), rows[i].status = s
  PROVE  ActiveRows' = ActiveRows
BY DEF Written, ActiveRows

LEMMA StillActive == ASSUME rows' = rows PROVE ActiveRows' = ActiveRows
BY DEF ActiveRows

LEMMA UnboundActive ==
  ASSUME NEW i, NEW f, Written(i, f, "deactivated") \/ Cleared
  PROVE  ActiveRows' \subseteq ActiveRows /\ (Cleared => ActiveRows' = {})
<1>1. Cleared => ActiveRows' = {}
  BY DEF Cleared, ActiveRows
<1>2. Written(i, f, "deactivated") => ActiveRows' \subseteq ActiveRows
  BY DEF Written, ActiveRows
<1> QED
  BY <1>1, <1>2

\* The step of the only request in flight leaves it with a frame that tells the truth about
\* the licence row, and the licence row in order when it ends.
LEMMA MirrorMoves ==
  ASSUME FreshInv, ~AllowReactivation, NEW r \in Requests, Moves(r), ~crashed',
         MirrorFrame(req[r]), At(r, "idle") => Mirrors
  PROVE  MirrorFrame(req[r])' /\ (req'[r].pc = "idle" => Mirrors')
<1>1. licStatus \in LicStatus
  BY DEF FreshInv, TypeInv, TypeOK
<1>2. req[r].pc \notin Unsettled => Mirrors
  BY DEF MirrorFrame, At
<1>3. ASSUME Still PROVE ActiveRows' = ActiveRows /\ (Mirrors => Mirrors')
  BY <1>3, StillActive DEF Still, Mirrors
<1>4. CASE Proceeds(r)
  BY <1>2, <1>3, <1>4 DEF Proceeds, Watched, Unsettled, MirrorFrame
<1>5. CASE Finds(r)
  <2>1. Mirrors'
    BY <1>2, <1>3, <1>5 DEF Finds, Unsettled
  <2>2. req'[r].pc = "a_touch" /\ req'[r].row \in ActiveRows'
    BY <1>3, <1>5 DEF Finds, ActiveRows, Still
  <2> QED
    BY <2>1, <2>2 DEF MirrorFrame
<1>6. CASE FindsNone(r) \/ Counts(r)
  <2>1. Mirrors' /\ req'[r].pc \in {"a_count", "a_insert"}
    BY <1>2, <1>3, <1>6 DEF FindsNone, Counts, Unsettled
  <2> QED
    BY <2>1 DEF MirrorFrame
<1>7. CASE Enables(r)
  <2>1. ActiveRows' # {} /\ req'[r].pc = "a_use"
    BY <1>3, <1>7 DEF Enables, MirrorFrame
  <2> QED
    BY <2>1 DEF MirrorFrame, Unsettled
<1>8. CASE CountsDevices(r)
  <2>1. /\ Still
        /\ licStatus # "unused" \/ ActiveRows = {}
        /\ (req'[r].pc = "d_unuse" /\ ActiveRows = {}) \/ (req'[r].pc = "idle" /\ ActiveRows # {})
    BY <1>8 DEF CountsDevices, MirrorFrame
  <2>2. CASE req'[r].pc = "d_unuse" /\ ActiveRows = {}
    BY <1>3, <2>1, <2>2 DEF MirrorFrame, Unsettled
  <2>3. CASE req'[r].pc = "idle" /\ ActiveRows # {}
    <3>1. licStatus # "revoked" => licStatus = "used"
      BY <1>1, <2>1, <2>3 DEF LicStatus
    <3>2. Mirrors
      BY <2>3, <3>1 DEF Mirrors
    <3> QED
      BY <1>3, <2>1, <2>3, <3>2 DEF MirrorFrame
  <2> QED
    BY <2>1, <2>2, <2>3
<1>9. CASE Rebinds(r)
  <2>1. Touches(r)
    BY <1>9 DEF Rebinds, Reactivates, At, FreshInv, Sound, SoundFrame
  <2>2. ActiveRows' = ActiveRows
    BY <2>1, TouchedActive DEF Touches
  <2>3. ActiveRows # {} /\ Mirrors
    BY <1>2, <2>1 DEF Touches, At, MirrorFrame, Unsettled
  <2>4. ActiveRows' # {} /\ Mirrors' /\ req'[r].pc \in {"a_activate", "a_issue"}
    BY <1>9, <2>2, <2>3 DEF Rebinds, Mirrors
  <2> QED
    BY <2>4 DEF MirrorFrame
<1>10. CASE BindsNew(r)
  <2>1. ActiveRows' # {} /\ req'[r].pc = "a_activate"
    BY <1>10 DEF BindsNew, Inserts, Added, ActiveRows
  <2> QED
    BY <2>1 DEF MirrorFrame, Unsettled
<1>11. CASE Unbinds(r)
  <2>1. licStatus' = licStatus /\ Mirrors
    BY <1>2, <1>11 DEF Unbinds, Deactivates, Clears, At, Unsettled
  <2>2. CASE Deactivates(r) /\ req'[r].pc = "d_count"
    <3>1. ActiveRows' \subseteq ActiveRows
      BY <2>2, UnboundActive DEF Deactivates
    <3>2. licStatus' # "unused" \/ ActiveRows' = {}
      BY <2>1, <3>1 DEF Mirrors
    <3> QED
      BY <2>2, <3>2 DEF MirrorFrame, Unsettled
  <2>3. CASE Clears(r) /\ req'[r].pc = "u_unuse"
    <3>1. ActiveRows' = {}
      BY <2>3, UnboundActive DEF Clears
    <3> QED
      BY <2>3, <3>1 DEF MirrorFrame, Unsettled
  <2> QED
    BY <1>11, <2>2, <2>3 DEF Unbinds
<1>12. CASE WritesLicence(r)
  <2>1. ActiveRows' = ActiveRows
    BY <1>12, StillActive DEF WritesLicence
  <2>2. Mirrors' /\ req'[r].pc \in {"a_issue", "idle", "v_entitlement"}
    BY <1>12, <2>1 DEF WritesLicence, Mirrors, MirrorFrame
  <2> QED
    BY <2>2 DEF MirrorFrame
<1>13. ~Dies(r)
  BY DEF Dies
<1> QED
  BY <1>4, <1>5, <1>6, <1>7, <1>8, <1>9, <1>10, <1>11, <1>12, <1>13 DEF Moves

LEMMA MirrorStep ==
  ASSUME ~AllowReactivation, FreshInv, AloneInv, MirrorInv, [Next]_vars
  PROVE  MirrorInv'
<1> SUFFICES ASSUME ~overlapped', ~crashed' PROVE MirrorInv'
  BY DEF MirrorInv
<1>1. CASE UNCHANGED <<req, rows, licStatus, overlapped, crashed>>
  BY <1>1, StillActive DEF MirrorInv, MirrorFrame, Mirrors, At
<1>2. ASSUME NEW r \in Requests, Moves(r), Counted(r), crashed => crashed' PROVE MirrorInv'
  <2>1. ~overlapped /\ \A q \in Requests \ {r} : At(q, "idle") /\ req'[q].pc = "idle"
    BY <1>2, Alone
  <2>2. MirrorFrame(req[r]) /\ (At(r, "idle") => Mirrors)
    BY <1>2, <2>1 DEF MirrorInv
  <2>3. MirrorFrame(req[r])' /\ (req'[r].pc = "idle" => Mirrors')
    BY <1>2, <2>2, MirrorMoves
  <2>4. \A q \in Requests \ {r} : MirrorFrame(req[q])'
    BY <2>1 DEF MirrorFrame, Unsettled
  <2> QED
    BY <2>3, <2>4 DEF MirrorInv, At
<1> QED
  BY <1>1, <1>2, StepMoves

LEMMA MirrorInit == Init => MirrorInv
BY IdleFrame DEF Init, MirrorInv, MirrorFrame, Mirrors, ActiveRows, Idle, Unsettled

\* Where the plan forbids reactivation, and as long as requests come one at a time and none
\* dies, a licence at rest reads "used" exactly when it has a device, unless it was revoked.
THEOREM LicenceMirrorsDevicesTheorem == Spec => []LicenceMirrorsDevices
<1> DEFINE Inv == FreshInv /\ AloneInv /\ (~AllowReactivation => MirrorInv)
<1>1. Init => Inv
  BY FreshInit, AloneInit, MirrorInit
<1>2. Inv /\ [Next]_vars => Inv'
  BY FreshStep, AloneStep, MirrorStep
<1>3. Inv => LicenceMirrorsDevices
  BY DEF MirrorInv, Mirrors, LicenceMirrorsDevices
<1> QED
  BY <1>1, <1>2, <1>3, PTL DEF Spec
-----------------------------------------------------------------------------
(***************************************************************************)
(* Part 3: the pool.                                                       *)
(***************************************************************************)

LEMMA CapacityNat == TypeInv => highLimit + Cardinality(Requests) - 1 \in Nat
<1> SUFFICES ASSUME TypeInv PROVE highLimit + Cardinality(Requests) - 1 \in Nat
  OBVIOUS
<1> QED
  BY LimitNat, Finite

\* The pool counts as this module does.
LEMMA PoolCardinality == \A S : Pool!Cardinality(S) = Cardinality(S)
BY Zenon DEF Pool!Cardinality, Cardinality

LEMMA PoolInitial == Init => Pool!PoolInit
<1> SUFFICES ASSUME Init PROVE Pool!PoolInit
  OBVIOUS
<1>1. HeldFingerprints = {}
  BY DEF Init, HeldFingerprints, CountedRows, ActiveRows
<1>2. highLimit + Cardinality(Requests) - 1 \in Nat
  BY TypeInit, CapacityNat
<1> QED
  BY <1>1, <1>2 DEF Pool!PoolInit

\* There are no more held fingerprints than counted rows.
LEMMA HeldBounded ==
  ASSUME TypeInv
  PROVE  Cardinality(HeldFingerprints) \in Nat /\ Cardinality(HeldFingerprints) <= Cardinality(CountedRows)
<1>1. IsFiniteSet(CountedRows)
  BY Finite
<1> DEFINE fpOf == [i \in CountedRows |-> rows[i].fp]
<1>2. fpOf \in Surjection(CountedRows, HeldFingerprints)
  BY DEF HeldFingerprints, Surjection
<1> HIDE DEF fpOf
<1>3. IsFiniteSet(HeldFingerprints) /\ Cardinality(HeldFingerprints) <= Cardinality(CountedRows)
  BY <1>1, <1>2, FS_Surjection
<1> QED
  BY <1>3, FS_CardinalityType

\* The row a request is about to write is its machine's, although others may have rewritten
\* it since: they too were of that machine.
Matched(f) == f.pc \in {"a_touch", "a_reactivate"} => Alike(rows[f.row].fp, f.fp)
MatchInv == \A r \in Requests : Matched(req[r])

LEMMA MatchStep ==
  ASSUME FreshInv, MatchInv, [Next]_vars
  PROVE  MatchInv'
<1>1. CASE UNCHANGED <<req, rows, licStatus, overlapped, crashed>>
  BY <1>1 DEF MatchInv, Matched, Alike, SameMachine
<1>2. ASSUME NEW r \in Requests, Moves(r) PROVE MatchInv'
  <2>1. ASSUME NEW i \in DOMAIN rows PROVE Alike(rows[i].fp, rows'[i].fp)
    <3>1. CASE rows' = rows
      BY <3>1 DEF Alike
    <3>2. CASE Touches(r) \/ Reactivates(r)
      BY <3>2 DEF Touches, Reactivates, Written, At, MatchInv, Matched, Alike
    <3>3. CASE Inserts(r) \/ Deactivates(r) \/ Clears(r)
      BY <3>3 DEF Inserts, Added, Deactivates, Written, Clears, Cleared, Alike
    <3> QED
      BY <1>2, <3>1, <3>2, <3>3
         DEF Moves, Still, Proceeds, Finds, FindsNone, Counts, Enables, CountsDevices, Rebinds,
             BindsNew, Unbinds, WritesLicence, Dies
  <2>2. Matched(req[r])'
    <3>1. CASE Finds(r)
      BY <3>1 DEF Finds, Still, Matched, Alike, SameMachine
    <3>2. CASE req'[r].pc \notin {"a_touch", "a_reactivate"}
      BY <3>2 DEF Matched
    <3> QED
      BY <1>2, <3>1, <3>2
         DEF Moves, Proceeds, Watched, FindsNone, Counts, Enables, CountsDevices, Rebinds,
             BindsNew, Unbinds, WritesLicence, Dies
  <2>3. ASSUME NEW q \in Requests \ {r}, req'[q].pc \in {"a_touch", "a_reactivate"}
        PROVE  Alike(rows'[req'[q].row].fp, req'[q].fp)
    <3>1. req'[q].fp = req[q].fp /\ req'[q].row = req[q].row /\ req'[q].pc = req[q].pc
      BY <1>2 DEF Moves, OthersStay
    <3>2. req[q].row \in DOMAIN rows
      BY <2>3, <3>1, FrameFacts DEF HoldsRow
    <3>3. Alike(rows[req[q].row].fp, req[q].fp)
      BY <2>3, <3>1 DEF MatchInv, Matched
    <3> QED
      BY <2>1, <3>1, <3>2, <3>3 DEF Alike, SameMachine
  <2>4. ASSUME NEW q \in Requests \ {r} PROVE Matched(req[q])'
    BY <2>3 DEF Matched, Alike, SameMachine
  <2> QED
    BY <2>2, <2>4 DEF MatchInv
<1> QED
  BY <1>1, <1>2, StepMoves

LEMMA HeldStep ==
  ASSUME SlotInv, RowsDistinct, MatchInv, ~UNCHANGED <<rows, returned>>, [Next]_vars
  PROVE  \/ HeldFingerprints' \subseteq HeldFingerprints
         \/ \E f, g \in Fingerprints :
              /\ SameMachine(f, g)
              /\ f \in HeldFingerprints /\ g \notin HeldFingerprints
              /\ HeldFingerprints' = (HeldFingerprints \ {f}) \union {g}
         \/ \E f \in Fingerprints :
              /\ f \notin HeldFingerprints
              /\ Cardinality(HeldFingerprints) < highLimit + Cardinality(Requests) - 1
              /\ HeldFingerprints' = HeldFingerprints \union {f}
<1>a. FreshInv /\ TypeInv
  BY DEF SlotInv, FreshInv
<1>1. ASSUME NEW r \in Requests, Deactivates(r) \/ Clears(r)
      PROVE  HeldFingerprints' \subseteq HeldFingerprints
  BY <1>1 DEF Deactivates, Clears, Written, Cleared, HeldFingerprints, CountedRows, ActiveRows
<1>2. ASSUME NEW r \in Requests, Reactivates(r)
      PROVE  HeldFingerprints' \subseteq HeldFingerprints
  BY <1>2 DEF Reactivates, Written, HeldFingerprints, CountedRows, ActiveRows
<1>3. ASSUME NEW r \in Requests, req[r].fp \in Fingerprints, Touches(r)
      PROVE  \/ HeldFingerprints' \subseteq HeldFingerprints
             \/ \E f, g \in Fingerprints :
                  /\ SameMachine(f, g)
                  /\ f \in HeldFingerprints /\ g \notin HeldFingerprints
                  /\ HeldFingerprints' = (HeldFingerprints \ {f}) \union {g}
  <2> DEFINE k == req[r].row
             g == req[r].fp
             f == rows[k].fp
  <2>1. /\ k \in DOMAIN rows /\ DOMAIN rows' = DOMAIN rows
        /\ rows'[k].fp = g /\ rows'[k].status = rows[k].status
        /\ \A j \in DOMAIN rows \ {k} : rows'[j] = rows[j]
        /\ \A j \in DOMAIN rows : rows[j].fp = g => j = k
        /\ \A j \in DOMAIN rows : rows[j].fp = f => j = k
    BY <1>3 DEF Touches, Written, FreeFor, RowsDistinct
  <2>2. f \in Fingerprints
    BY <1>a, <2>1, RowsDomain DEF TypeInv, TypeOK, Row
  <2>3. CountedRows' = CountedRows /\ \A i \in CountedRows : i \in DOMAIN rows
    BY <1>3, <2>1 DEF Touches, CountedRows, ActiveRows
  <2>4. CASE k \notin CountedRows \/ f = g
    <3>1. \A i \in CountedRows' : i \in CountedRows /\ rows'[i].fp = rows[i].fp
      BY <2>1, <2>3, <2>4
    <3> QED
      BY <3>1 DEF HeldFingerprints
  <2>5. CASE k \in CountedRows /\ f # g
    <3>1. SameMachine(f, g)
      BY <1>3, <2>5 DEF Touches, At, MatchInv, Matched, Alike
    <3>2. f \in HeldFingerprints /\ g \notin HeldFingerprints
      BY <2>1, <2>3, <2>5 DEF HeldFingerprints
    <3>3. HeldFingerprints' = (HeldFingerprints \ {f}) \union {g}
      BY <2>1, <2>3, <2>5 DEF HeldFingerprints
    <3> QED
      BY <1>3, <2>2, <3>1, <3>2, <3>3
  <2> QED
    BY <2>4, <2>5
<1>4. ASSUME NEW r \in Requests, req[r].fp \in Fingerprints, Inserts(r)
      PROVE  \/ HeldFingerprints' \subseteq HeldFingerprints
             \/ \E f \in Fingerprints :
                  /\ f \notin HeldFingerprints
                  /\ Cardinality(HeldFingerprints) < highLimit + Cardinality(Requests) - 1
                  /\ HeldFingerprints' = HeldFingerprints \union {f}
  <2>1. 0 \notin DOMAIN rows
    BY <1>a, RowsDomain DEF TypeInv, TypeOK
  <2>2. \A i \in DOMAIN rows : rows[i].fp # req[r].fp
    BY <1>4, <2>1 DEF Inserts, FreeFor
  <2>3. req[r].fp \notin HeldFingerprints
    BY <2>2 DEF HeldFingerprints, CountedRows, ActiveRows
  <2>4. PICK n : /\ n \notin DOMAIN rows /\ DOMAIN rows' = DOMAIN rows \union {n}
                 /\ rows'[n].fp = req[r].fp /\ rows'[n].status = "active"
                 /\ \A j \in DOMAIN rows : rows'[j] = rows[j]
    BY <1>4 DEF Inserts, Added
  <2>5. returned' = returned /\ \A i \in CountedRows : i \in DOMAIN rows
    BY <1>4 DEF Inserts, CountedRows, ActiveRows
  <2>6. CASE n \in returned
    <3>1. CountedRows' = CountedRows
      BY <2>4, <2>5, <2>6 DEF CountedRows, ActiveRows
    <3> QED
      BY <2>4, <2>5, <3>1 DEF HeldFingerprints
  <2>7. CASE n \notin returned
    <3>1. CountedRows' = CountedRows \union {n}
      BY <2>4, <2>5, <2>7 DEF CountedRows, ActiveRows
    <3>2. HeldFingerprints' = HeldFingerprints \union {req[r].fp}
      BY <2>4, <2>5, <3>1 DEF HeldFingerprints
    <3>3. r \in Inserting
      BY <1>4 DEF Inserts, At, Inserting
    <3>4. Cardinality(Inserting) # 0
      BY <1>a, <3>3, Finite, FS_EmptySet
    <3>5. Cardinality(CountedRows) + Cardinality(Inserting) <= highLimit + Cardinality(Requests) - 1
      BY DEF SlotInv, SlotBound
    <3>6. Cardinality(HeldFingerprints) < highLimit + Cardinality(Requests) - 1
      BY <1>a, <3>4, <3>5, Finite, HeldBounded, LimitNat
    <3> QED
      BY <1>4, <2>3, <3>2, <3>6
  <2> QED
    BY <2>6, <2>7
<1> QED
  BY <1>a, <1>1, <1>2, <1>3, <1>4, RowsStep DEF Binds

LEMMA PoolStep ==
  ASSUME SlotInv, RowsDistinct, MatchInv, [Next]_vars
  PROVE  [Pool!PoolNext]_(Pool!poolVars)
<1>a. FreshInv /\ TypeInv /\ FreshInv' /\ TypeInv'
  BY FreshStep DEF SlotInv, FreshInv
<1>b. /\ highLimit \in Nat /\ highLimit' \in Nat /\ Cardinality(Requests) \in Nat
      /\ highLimit' + Cardinality(Requests) - 1 \in Nat
  <2>1. highLimit \in Nat /\ highLimit' \in Nat /\ highLimit' >= 1
    BY <1>a, LimitsAssumption DEF TypeInv, TypeOK
  <2>2. Cardinality(Requests) \in Nat /\ Cardinality(Requests) >= 1
    BY <1>a, Finite
  <2> QED
    BY <2>1, <2>2
<1>1. ASSUME NEW n \in Limits, SetLimit(n)
      PROVE  [Pool!PoolNext]_(Pool!poolVars)
  <2>1. UNCHANGED <<rows, returned>> /\ (highLimit' = highLimit \/ highLimit' > highLimit)
    BY <1>1 DEF SetLimit
  <2>2. HeldFingerprints' = HeldFingerprints
    BY <2>1 DEF HeldFingerprints, CountedRows, ActiveRows
  <2>3. CASE highLimit' = highLimit
    BY <2>2, <2>3 DEF Pool!poolVars
  <2>4. CASE highLimit' > highLimit
    <3>1. highLimit' + Cardinality(Requests) - 1 > highLimit + Cardinality(Requests) - 1
      BY <1>b, <2>4
    <3> QED
      BY <1>b, <2>2, <3>1 DEF Pool!PoolNext, Pool!Raise
  <2> QED
    BY <2>1, <2>3, <2>4
<1>2. CASE highLimit' = highLimit /\ UNCHANGED <<rows, returned>>
  <2>1. HeldFingerprints' = HeldFingerprints
    BY <1>2 DEF HeldFingerprints, CountedRows, ActiveRows
  <2> QED
    BY <1>2, <2>1 DEF Pool!poolVars
<1>3. CASE highLimit' = highLimit /\ ~UNCHANGED <<rows, returned>>
  <2>1. highLimit' + Cardinality(Requests) - 1 = highLimit + Cardinality(Requests) - 1
    BY <1>3
  <2>2. CASE HeldFingerprints' \subseteq HeldFingerprints
    BY <2>1, <2>2 DEF Pool!PoolNext, Pool!Release
  <2>3. ASSUME NEW f \in Fingerprints, NEW g \in Fingerprints,
               SameMachine(f, g), f \in HeldFingerprints, g \notin HeldFingerprints,
               HeldFingerprints' = (HeldFingerprints \ {f}) \union {g}
        PROVE  Pool!PoolNext
    BY <2>1, <2>3 DEF Pool!PoolNext, Pool!Transfer, Pool!SameMachine, SameMachine
  <2>4. ASSUME NEW f \in Fingerprints, f \notin HeldFingerprints,
               Cardinality(HeldFingerprints) < highLimit + Cardinality(Requests) - 1,
               HeldFingerprints' = HeldFingerprints \union {f}
        PROVE  Pool!PoolNext
    BY <2>1, <2>4, PoolCardinality DEF Pool!PoolNext, Pool!Acquire
  <2> QED
    BY <1>3, <2>2, <2>3, <2>4, HeldStep
<1> QED
  BY <1>1, <1>2, <1>3, HighLimitStep

\* activateOrder, deactivateOrder and the admin operations implement SlotPool, for every policy
\* of the plan: whatever the interleaving, a slot is taken below capacity, handed over to
\* another blob of the same machine or given back, one at a time.
THEOREM PoolRefinement == Spec => PoolSpec
<1> DEFINE Inv == SlotInv /\ RowsDistinct /\ MatchInv
<1>1. Init => Inv
  BY SlotInit, IdleFrame DEF Init, RowsDistinct, MatchInv, Matched, Idle
<1>2. Inv /\ [Next]_vars => Inv'
  BY SlotStep, DistinctStep, MatchStep DEF SlotInv
<1>3. Inv /\ [Next]_vars => [Pool!PoolNext]_(Pool!poolVars)
  BY PoolStep
<1> QED
  BY <1>1, <1>2, <1>3, PoolInitial, PTL DEF Spec, PoolSpec, Pool!PoolSpec
=============================================================================
