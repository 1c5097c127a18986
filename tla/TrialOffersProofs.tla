------------------------- MODULE TrialOffersProofs -------------------------
(* Theorems about TrialOffers, for any number of blobs, machines, requests *)
(* in flight, old grants and changes.                                      *)
EXTENDS TrialOffers, TLAPS, SequenceTheorems, FiniteSetTheorems

(***************************************************************************)
(* The inductive invariant.                                                *)
(***************************************************************************)

\* What a request holds, against the trials ts: the blob it was sent, and a hash; one that is
\* about to insert a trial stores it under the current formula, and the earlier ones have
\* none.
FrameInv(f, ts) ==
    /\ f.pc # "idle" => f.blob \in Blobs
    /\ f.pc = "t_expire" => f.hash \in Hashes
    /\ f.pc = "t_insert" =>
         /\ f.hash = fingerprintHash(f.blob)
         /\ \A h \in {raw(f.blob), legacy(f.blob)} : h # f.hash => ts[h] = None

FramesInv == \A r \in Requests : FrameInv(req[r], trials)

IInv == TypeOK /\ FramesInv

\* A trial is stored by an earlier version or under the current formula, and a machine that
\* has had a trial since its last reset still has a row that it is found by.
EndsInv ==
    /\ \A h \in Hashes :
         trials[h] # None => h \in OldGrants \/ \E b \in Blobs : h = fingerprintHash(b)
    /\ \A b \in Blobs :
         /\ \A d, e \in ends[b] : d = e
         /\ ends[b] # {} => \E h \in trialFingerprintHashCandidates(b) : trials[h] # None

\* An earlier version knows a machine that sends several blobs by its identity only.
OldGrantsFound ==
    \A b, c \in Blobs :
        b # c /\ fingerprintHash(b) = fingerprintHash(c) => {raw(b), legacy(b)} \intersect OldGrants = {}

\* The claims stored under a hash, and the requests that are about to store another one.
ClaimsUnder(h) == {i \in DOMAIN claims : claims[i].hash = h}
Inserting(h) == {r \in Requests : req[r].pc = "c_insert" /\ fingerprintHash(req[r].blob) = h}

ClaimsInv ==
    /\ \A i \in DOMAIN claims : \E b \in Blobs : claims[i].hash = fingerprintHash(b)
    /\ \A h \in Hashes :
         Cardinality(ClaimsUnder(h)) + Cardinality(Inserting(h)) <= MaxGrants + Cardinality(Requests) - 1

-----------------------------------------------------------------------------
(* Hashes, frames and rows.                                                *)

LEMMA HashForms ==
  ASSUME NEW b \in Blobs
  PROVE  /\ fingerprintHash(b) \in Hashes /\ raw(b) \in Hashes /\ legacy(b) \in Hashes
         /\ trialFingerprintHashCandidates(b) \subseteq Hashes
         /\ \A c : raw(c) = fingerprintHash(b) => c = b
         /\ \A c : legacy(c) # fingerprintHash(b)
<1>1. trialFingerprintHashCandidates(b) \subseteq Hashes
  BY DEF Hashes
<1>2. /\ \A c : raw(c) = fingerprintHash(b) => c = b
      /\ \A c : legacy(c) # fingerprintHash(b)
  BY DEF raw, legacy, fingerprintHash
<1> QED
  BY <1>1, <1>2 DEF trialFingerprintHashCandidates

LEMMA FrameFields ==
  ASSUME NEW f \in Frame
  PROVE  f.pc \in Pc /\ f.blob \in Blobs \union {None} /\ f.hash \in Hashes \union {None} /\ f.until \in Nat
BY DEF Frame

LEMMA IdleFrame == Idle \in Frame /\ Idle.pc = "idle"
BY DEF Idle, Frame, Pc

LEMMA PutFrame ==
  ASSUME NEW r \in Requests, NEW f \in Frame, req \in [Requests -> Frame], req' = [req EXCEPT ![r] = f]
  PROVE  req' \in [Requests -> Frame] /\ req'[r] = f /\ \A q \in Requests \ {r} : req'[q] = req[q]
OBVIOUS

LEMMA GoneTo ==
  ASSUME NEW r \in Requests, NEW step \in Pc, req \in [Requests -> Frame], Goto(r, step)
  PROVE  /\ req' \in [Requests -> Frame] /\ \A q \in Requests \ {r} : req'[q] = req[q]
         /\ req'[r].pc = step /\ req'[r].blob = req[r].blob /\ req'[r].hash = req[r].hash
<1> DEFINE f == [req[r] EXCEPT !.pc = step]
<1>1. f \in Frame /\ f.pc = step /\ f.blob = req[r].blob /\ f.hash = req[r].hash
  BY DEF Frame
<1>2. req' = [req EXCEPT ![r] = f]
  BY DEF Goto
<1> HIDE DEF f
<1> QED
  BY <1>1, <1>2, PutFrame

LEMMA Finished ==
  ASSUME NEW r \in Requests, req \in [Requests -> Frame], Finish(r)
  PROVE  /\ req' \in [Requests -> Frame] /\ \A q \in Requests \ {r} : req'[q] = req[q]
         /\ req'[r].pc = "idle"
BY IdleFrame, PutFrame DEF Finish

LEMMA Begun ==
  ASSUME NEW r \in Requests, NEW step \in Pc, NEW b \in Blobs, NEW h \in Hashes \union {None},
         NEW until \in Nat, req \in [Requests -> Frame], Begin(r, step, b, h, until)
  PROVE  /\ req' \in [Requests -> Frame] /\ \A q \in Requests \ {r} : req'[q] = req[q]
         /\ req'[r].pc = step /\ req'[r].blob = b /\ req'[r].hash = h
<1> DEFINE f == [pc |-> step, blob |-> b, hash |-> h, until |-> until]
<1>1. f \in Frame /\ f.pc = step /\ f.blob = b /\ f.hash = h
  BY DEF Frame
<1>2. req' = [req EXCEPT ![r] = f]
  BY DEF Begin
<1> HIDE DEF f
<1> QED
  BY <1>1, <1>2, PutFrame

LEMMA ClaimFields ==
  ASSUME TypeOK
  PROVE  /\ claims \in Seq(ClaimRow) /\ Len(claims) \in Nat /\ DOMAIN claims = 1 .. Len(claims)
         /\ IsFiniteSet(DOMAIN claims)
<1>1. claims \in Seq(ClaimRow) /\ Len(claims) \in Nat /\ DOMAIN claims = 1 .. Len(claims)
  BY LenProperties DEF TypeOK
<1> QED
  BY <1>1, FS_Interval

-----------------------------------------------------------------------------
(* The types, and what the requests hold.                                  *)

\* A row appears only under the current formula.
Preserved ==
    \A h \in Hashes : trials[h] = None => trials'[h] = None \/ \E b \in Blobs : h = fingerprintHash(b)

TablesTyped ==
    /\ now \in 0 .. LastDay
    /\ trials \in [Hashes -> TrialRow \union {None}]
    /\ claims \in Seq(ClaimRow)
    /\ card \in BOOLEAN
    /\ offered \in BOOLEAN
    /\ ends \in [Blobs -> SUBSET Nat]
    /\ answered \subseteq Blobs
    /\ changes \in 0 .. MaxChanges

LEMMA TypeSplit == TypeOK => TablesTyped /\ req \in [Requests -> Frame]
BY DEF TypeOK, TablesTyped

LEMMA TypeJoined == TablesTyped' /\ req' \in [Requests -> Frame] => TypeOK'
BY DEF TypeOK, TablesTyped

LEMMA FrameKept ==
  ASSUME NEW f \in Frame, FrameInv(f, trials), Preserved
  PROVE  FrameInv(f, trials')
<1> SUFFICES ASSUME f.pc = "t_insert", NEW h \in {raw(f.blob), legacy(f.blob)}, h # f.hash
             PROVE  trials'[h] = None
  BY DEF FrameInv
<1>1. f.blob \in Blobs /\ f.hash = fingerprintHash(f.blob) /\ trials[h] = None
  BY DEF FrameInv
<1>2. h \in Hashes /\ \A b \in Blobs : h # fingerprintHash(b)
  BY <1>1, HashForms
<1> QED
  BY <1>1, <1>2 DEF Preserved

LEMMA FramesStep ==
  ASSUME IInv, TablesTyped', Preserved, NEW r \in Requests, req' \in [Requests -> Frame],
         \A q \in Requests \ {r} : req'[q] = req[q], FrameInv(req'[r], trials')
  PROVE  IInv'
<1>1. \A q \in Requests \ {r} : FrameInv(req'[q], trials')
  BY FrameKept DEF IInv, TypeOK, FramesInv
<1>2. FramesInv'
  BY <1>1 DEF FramesInv
<1> QED
  BY <1>2, TypeJoined DEF IInv

LEMMA FramesStay ==
  ASSUME IInv, TablesTyped', Preserved, req' = req
  PROVE  IInv'
<1>1. \A q \in Requests : FrameInv(req'[q], trials')
  BY FrameKept DEF IInv, TypeOK, FramesInv
<1>2. FramesInv' /\ req' \in [Requests -> Frame]
  BY <1>1, TypeSplit DEF FramesInv, IInv
<1> QED
  BY <1>2, TypeJoined DEF IInv

-----------------------------------------------------------------------------
(* One lemma per action.                                                   *)

LEMMA StartOfferStep ==
  ASSUME IInv, NEW r \in Requests, NEW b \in Blobs, StartReadOffer(r, b)
  PROVE  IInv'
<1>1. req \in [Requests -> Frame] /\ TablesTyped
  BY TypeSplit DEF IInv
<1>2. /\ Begin(r, "t_find", b, None, 0) \/ Finish(r)
      /\ UNCHANGED <<rest, trials, claims, history>>
  BY DEF StartReadOffer
<1>3. TablesTyped' /\ Preserved
  BY <1>1, <1>2 DEF TablesTyped, Preserved, rest, history
<1>4. "t_find" \in Pc
  BY DEF Pc
<1>5. /\ req' \in [Requests -> Frame] /\ \A q \in Requests \ {r} : req'[q] = req[q]
      /\ req'[r].pc = "idle" \/ (req'[r].pc = "t_find" /\ req'[r].blob = b)
  BY <1>1, <1>2, <1>4, Begun, Finished
<1>6. FrameInv(req'[r], trials')
  BY <1>5 DEF FrameInv
<1> QED
  BY <1>3, <1>5, <1>6, FramesStep

\* What a lookup goes on to.
Finds(r, found) ==
    \/ \E h \in found : Begin(r, "t_expire", req[r].blob, h, 0)
    \/ Begin(r, "t_answer", req[r].blob, None, 0)
    \/ found = {} /\ Begin(r, "t_insert", req[r].blob, fingerprintHash(req[r].blob), now + Duration)

LEMMA FindForm ==
  ASSUME NEW r \in Requests, StartFindGrant(r)
  PROVE  /\ req[r].pc = "t_find" /\ UNCHANGED <<rest, trials, claims, history>>
         /\ Finds(r, Found(trialFingerprintHashCandidates(req[r].blob)))
<1> DEFINE found == Found(trialFingerprintHashCandidates(req[r].blob))
<1> HIDE DEF found
<1>1. FindAmong(r, found)
  BY Zenon DEF StartFindGrant, found
<1>2. req[r].pc = "t_find" /\ UNCHANGED <<rest, trials, claims, history>>
  BY <1>1, Zenon DEF FindAmong, At
<1>3. \/ \E h \in found : IF isExpired(h) /\ trials[h].status # "expired"
                            THEN Begin(r, "t_expire", req[r].blob, h, 0) ELSE Answering(r)
      \/ found = {} /\ Begin(r, "t_insert", req[r].blob, fingerprintHash(req[r].blob), now + Duration)
  BY <1>1, Zenon DEF FindAmong
<1>4. Finds(r, found)
  BY <1>3, Zenon DEF Finds, Answering
<1> QED
  BY <1>2, <1>4, Zenon DEF found

LEMMA StartFindStep ==
  ASSUME IInv, NEW r \in Requests, StartFindGrant(r)
  PROVE  IInv'
<1> DEFINE b == req[r].blob
           found == Found(trialFingerprintHashCandidates(b))
<1>1. req \in [Requests -> Frame] /\ TablesTyped /\ b \in Blobs
  BY TypeSplit, FindForm DEF IInv, FramesInv, FrameInv
<1>2. Finds(r, found) /\ UNCHANGED <<rest, trials, claims, history>>
  BY FindForm
<1>3. TablesTyped' /\ Preserved
  BY <1>1, <1>2 DEF TablesTyped, Preserved, rest, history
<1>4. {"t_expire", "t_answer", "t_insert"} \subseteq Pc
  BY DEF Pc
<1>5. ASSUME NEW h \in found, Begin(r, "t_expire", b, h, 0) PROVE IInv'
  <2>1. h \in Hashes
    BY <1>1, HashForms DEF Found
  <2>2. /\ req' \in [Requests -> Frame] /\ \A q \in Requests \ {r} : req'[q] = req[q]
        /\ req'[r].pc = "t_expire" /\ req'[r].blob = b /\ req'[r].hash = h
    BY <1>1, <1>4, <1>5, <2>1, Begun
  <2>3. FrameInv(req'[r], trials')
    BY <1>1, <2>1, <2>2 DEF FrameInv
  <2> QED
    BY <1>3, <2>2, <2>3, FramesStep
<1>6. ASSUME Begin(r, "t_answer", b, None, 0) PROVE IInv'
  <2>1. /\ req' \in [Requests -> Frame] /\ \A q \in Requests \ {r} : req'[q] = req[q]
        /\ req'[r].pc = "t_answer" /\ req'[r].blob = b
    BY <1>1, <1>4, <1>6, Begun
  <2>2. FrameInv(req'[r], trials')
    BY <1>1, <2>1 DEF FrameInv
  <2> QED
    BY <1>3, <2>1, <2>2, FramesStep
<1>7. ASSUME found = {}, Begin(r, "t_insert", b, fingerprintHash(b), now + Duration) PROVE IInv'
  <2>1. fingerprintHash(b) \in Hashes /\ raw(b) \in Hashes /\ legacy(b) \in Hashes
    BY <1>1, HashForms
  <2>2. now + Duration \in Nat
    BY <1>1, BoundsAssumption DEF TablesTyped
  <2>3. /\ req' \in [Requests -> Frame] /\ \A q \in Requests \ {r} : req'[q] = req[q]
        /\ req'[r].pc = "t_insert" /\ req'[r].blob = b /\ req'[r].hash = fingerprintHash(b)
    BY <1>1, <1>4, <1>7, <2>1, <2>2, Begun
  <2>4. trials[raw(b)] = None /\ trials[legacy(b)] = None
    BY <1>7, <2>1 DEF Found, trialFingerprintHashCandidates
  <2>5. FrameInv(req'[r], trials')
    BY <1>1, <1>2, <2>3, <2>4 DEF FrameInv
  <2> QED
    BY <1>3, <2>3, <2>5, FramesStep
<1> QED
  BY <1>2, <1>5, <1>6, <1>7 DEF Finds

LEMMA StartWriteStep ==
  ASSUME IInv, NEW r \in Requests, StartWriteExpired(r)
  PROVE  IInv'
<1> DEFINE h == req[r].hash
<1>1. req \in [Requests -> Frame] /\ TablesTyped /\ FrameInv(req[r], trials) /\ req[r].pc = "t_expire"
  BY TypeSplit DEF IInv, FramesInv, StartWriteExpired, At
<1>2. h \in Hashes /\ req[r].blob \in Blobs
  BY <1>1 DEF FrameInv
<1>3. /\ trials' = IF trials[h] = None THEN trials ELSE [trials EXCEPT ![h].status = "expired"]
      /\ Begin(r, "t_answer", req[r].blob, None, 0)
      /\ UNCHANGED <<rest, claims, history>>
  BY DEF StartWriteExpired, Answering
<1>4. trials' \in [Hashes -> TrialRow \union {None}]
      /\ \A g \in Hashes : trials[g] = None => trials'[g] = None
  <2> HIDE DEF h
  <2>1. CASE trials[h] = None
    BY <1>1, <1>3, <2>1 DEF TablesTyped
  <2>2. CASE trials[h] # None
    <3>1. trials[h] \in TrialRow /\ [trials[h] EXCEPT !.status = "expired"] \in TrialRow
      BY <1>1, <1>2, <2>2 DEF TablesTyped, TrialRow
    <3>2. trials' = [trials EXCEPT ![h] = [trials[h] EXCEPT !.status = "expired"]]
      BY <1>3, <2>2
    <3> QED
      BY <1>1, <1>2, <2>2, <3>1, <3>2 DEF TablesTyped
  <2> QED
    BY <2>1, <2>2
<1>5. TablesTyped' /\ Preserved
  BY <1>1, <1>3, <1>4 DEF TablesTyped, Preserved, rest, history
<1>6. "t_answer" \in Pc
  BY DEF Pc
<1>7. /\ req' \in [Requests -> Frame] /\ \A q \in Requests \ {r} : req'[q] = req[q]
      /\ req'[r].pc = "t_answer" /\ req'[r].blob \in Blobs
  BY <1>1, <1>2, <1>3, <1>6, Begun
<1>8. FrameInv(req'[r], trials')
  BY <1>7 DEF FrameInv
<1> QED
  BY <1>5, <1>7, <1>8, FramesStep

LEMMA StartInsertStep ==
  ASSUME IInv, NEW r \in Requests, StartInsertGrant(r)
  PROVE  IInv'
<1> DEFINE h == req[r].hash
           row == [until |-> req[r].until, status |-> "active"]
<1>1. req \in [Requests -> Frame] /\ TablesTyped /\ FrameInv(req[r], trials) /\ req[r].pc = "t_insert"
  BY TypeSplit DEF IInv, FramesInv, StartInsertGrant, At
<1>2. h = fingerprintHash(req[r].blob) /\ h \in Hashes /\ req[r].blob \in Blobs /\ req[r].until \in Nat
  BY <1>1, HashForms, FrameFields DEF FrameInv
<1>3. row \in TrialRow
  BY <1>2 DEF TrialRow
<1>4. /\ \/ trials[h] = None /\ trials' = [trials EXCEPT ![h] = row]
            /\ ends' = WithEnd(h, req[r].until) /\ Goto(r, "t_answer")
         \/ Finish(r) /\ UNCHANGED <<trials, ends>>
      /\ UNCHANGED <<rest, claims, answered>>
  BY DEF StartInsertGrant
<1>5. trials' \in [Hashes -> TrialRow \union {None}]
      /\ \A g \in Hashes : trials[g] = None => trials'[g] = None \/ g = h
  <2> HIDE DEF h, row
  <2> QED
    BY <1>1, <1>2, <1>3, <1>4 DEF TablesTyped
<1>6. ends' \in [Blobs -> SUBSET Nat]
  BY <1>1, <1>2, <1>4 DEF TablesTyped, WithEnd
<1>7. TablesTyped'
  BY <1>1, <1>4, <1>5, <1>6 DEF TablesTyped, rest
<1>8. Preserved
  BY <1>2, <1>5 DEF Preserved
<1>9. "t_answer" \in Pc
  BY DEF Pc
<1>10. /\ req' \in [Requests -> Frame] /\ \A q \in Requests \ {r} : req'[q] = req[q]
       /\ req'[r].pc = "idle" \/ (req'[r].pc = "t_answer" /\ req'[r].blob = req[r].blob)
  BY <1>1, <1>4, <1>9, GoneTo, Finished
<1>11. FrameInv(req'[r], trials')
  BY <1>2, <1>10 DEF FrameInv
<1> QED
  BY <1>7, <1>8, <1>10, <1>11, FramesStep

LEMMA StartAnswerStep ==
  ASSUME IInv, NEW r \in Requests, StartAnswer(r)
  PROVE  IInv'
<1>1. req \in [Requests -> Frame] /\ TablesTyped /\ FrameInv(req[r], trials) /\ req[r].pc = "t_answer"
  BY TypeSplit DEF IInv, FramesInv, StartAnswer, At
<1>2. /\ answered' = answered \/ answered' = answered \union {req[r].blob}
      /\ Finish(r) /\ UNCHANGED <<rest, trials, claims, ends>>
  BY DEF StartAnswer
<1>3. TablesTyped' /\ Preserved
  BY <1>1, <1>2 DEF TablesTyped, Preserved, FrameInv, rest
<1>4. /\ req' \in [Requests -> Frame] /\ \A q \in Requests \ {r} : req'[q] = req[q]
      /\ req'[r].pc = "idle"
  BY <1>1, <1>2, Finished
<1> QED
  BY <1>3, <1>4, FramesStep DEF FrameInv

\* The frame of a request goes on to another step, or ends, and the trials are not touched.
LEMMA QuietStep ==
  ASSUME IInv, TablesTyped', UNCHANGED trials, NEW r \in Requests, req[r].pc # "idle",
         NEW step \in {"c_count", "c_insert", "c_answer"}, Goto(r, step) \/ Finish(r)
  PROVE  IInv'
<1>1. req \in [Requests -> Frame] /\ FrameInv(req[r], trials)
  BY TypeSplit DEF IInv, FramesInv
<1>2. step \in Pc
  BY DEF Pc
<1>3. /\ req' \in [Requests -> Frame] /\ \A q \in Requests \ {r} : req'[q] = req[q]
      /\ req'[r].pc = "idle" \/ (req'[r].pc = step /\ req'[r].blob = req[r].blob)
  BY <1>1, <1>2, GoneTo, Finished
<1>4. FrameInv(req'[r], trials') /\ Preserved
  BY <1>1, <1>3 DEF FrameInv, Preserved
<1> QED
  BY <1>3, <1>4, FramesStep

LEMMA ClaimSwitchStep ==
  ASSUME IInv, NEW r \in Requests, NEW b \in Blobs, ClaimReadSwitch(r, b)
  PROVE  IInv'
<1>1. req \in [Requests -> Frame] /\ TablesTyped
  BY TypeSplit DEF IInv
<1>2. /\ Begin(r, "c_trial", b, None, 0) \/ Begin(r, "c_answer", b, None, 0)
      /\ UNCHANGED <<rest, trials, claims, history>>
  BY DEF ClaimReadSwitch
<1>3. TablesTyped' /\ Preserved
  BY <1>1, <1>2 DEF TablesTyped, Preserved, rest, history
<1>4. "c_trial" \in Pc /\ "c_answer" \in Pc
  BY DEF Pc
<1>5. /\ req' \in [Requests -> Frame] /\ \A q \in Requests \ {r} : req'[q] = req[q]
      /\ req'[r].pc \in {"c_trial", "c_answer"} /\ req'[r].blob = b
  BY <1>1, <1>2, <1>4, Begun
<1>6. FrameInv(req'[r], trials')
  BY <1>5 DEF FrameInv
<1> QED
  BY <1>3, <1>5, <1>6, FramesStep

LEMMA ClaimStep ==
  ASSUME IInv, NEW r \in Requests,
         ClaimReadTrial(r) \/ ClaimCount(r) \/ ClaimInsertGrant(r) \/ ClaimAnswer(r)
  PROVE  IInv'
<1>1. req \in [Requests -> Frame] /\ TablesTyped /\ FrameInv(req[r], trials)
  BY TypeSplit DEF IInv, FramesInv
<1>2. CASE ClaimReadTrial(r)
  <2>1. (Goto(r, "c_count") \/ Finish(r)) /\ UNCHANGED <<rest, trials, claims, history>> /\ req[r].pc = "c_trial"
    BY <1>2, Zenon DEF ClaimReadTrial, At
  <2> QED
    BY <1>1, <2>1, QuietStep DEF TablesTyped, rest, history
<1>3. CASE ClaimCount(r)
  <2>1. (Goto(r, "c_insert") \/ Finish(r)) /\ UNCHANGED <<rest, trials, claims, history>> /\ req[r].pc = "c_count"
    BY <1>3, Zenon DEF ClaimCount, At
  <2> QED
    BY <1>1, <2>1, QuietStep DEF TablesTyped, rest, history
<1>4. CASE ClaimInsertGrant(r)
  <2> DEFINE row == [hash |-> fingerprintHash(req[r].blob), status |-> "claimed"]
  <2>1. /\ \/ claims' = Append(claims, row) /\ Goto(r, "c_answer")
           \/ Finish(r) /\ UNCHANGED claims
        /\ UNCHANGED <<rest, trials, history>> /\ req[r].pc = "c_insert"
    BY <1>4 DEF ClaimInsertGrant, At
  <2>2. row \in ClaimRow
    BY <1>1, <2>1, HashForms DEF FrameInv, ClaimRow
  <2> HIDE DEF row
  <2>3. TablesTyped'
    BY <1>1, <2>1, <2>2 DEF TablesTyped, rest, history
  <2> QED
    BY <2>1, <2>3, QuietStep
<1>5. CASE ClaimAnswer(r)
  <2>1. Finish(r) /\ UNCHANGED <<rest, trials, claims, history>> /\ req[r].pc = "c_answer"
    BY <1>5 DEF ClaimAnswer, At
  <2> QED
    BY <1>1, <2>1, QuietStep DEF TablesTyped, rest, history
<1> QED
  BY <1>2, <1>3, <1>4, <1>5

LEMMA OthersStep ==
  ASSUME IInv,
         \/ \E r \in Requests : Crash(r)
         \/ \E h \in Hashes : DeleteTrialGrant(h)
         \/ \E b \in Blobs, i \in DOMAIN claims :
              \E result \in {"imported", "failed"} : ReportResult(b, i, result)
         \/ \E enabled \in BOOLEAN : WriteCardEnabled(enabled) \/ WriteOffered(enabled)
         \/ Tick \/ UNCHANGED vars
  PROVE  IInv'
<1>1. req \in [Requests -> Frame] /\ TablesTyped
  BY TypeSplit DEF IInv
<1>2. Change => changes' \in 0 .. MaxChanges
  BY <1>1, BoundsAssumption DEF Change, TablesTyped
<1>3. ASSUME NEW r \in Requests, Crash(r) PROVE IInv'
  <2>1. TablesTyped'
    BY <1>1, <1>2, <1>3 DEF Crash, TablesTyped, history
  <2> QED
    BY <1>3, <2>1, QuietStep DEF Crash, At
<1>4. ASSUME NEW h \in Hashes, DeleteTrialGrant(h) PROVE IInv'
  <2>1. trials' \in [Hashes -> TrialRow \union {None}] /\ ends' \in [Blobs -> SUBSET Nat]
    BY <1>1, <1>4 DEF DeleteTrialGrant, TablesTyped
  <2>2. TablesTyped' /\ req' = req
    BY <1>1, <1>2, <1>4, <2>1 DEF DeleteTrialGrant, TablesTyped
  <2>3. Preserved
    BY <1>1, <1>4 DEF DeleteTrialGrant, TablesTyped, Preserved
  <2> QED
    BY <2>2, <2>3, FramesStay
<1>5. ASSUME NEW b \in Blobs, NEW i \in DOMAIN claims, NEW result \in {"imported", "failed"},
             ReportResult(b, i, result)
      PROVE  IInv'
  <2> DEFINE row == [claims[i] EXCEPT !.status = result]
  <2>1. claims' = [claims EXCEPT ![i] = row] /\ UNCHANGED <<rest, trials, req, history>>
    BY <1>5 DEF ReportResult
  <2>2. claims[i] \in ClaimRow
    BY ClaimFields, ElementOfSeq DEF IInv
  <2>3. row \in ClaimRow
    BY <2>2 DEF ClaimRow
  <2> HIDE DEF row
  <2>4. claims' \in Seq(ClaimRow)
    BY <2>1, <2>3, ClaimFields, ExceptSeq DEF IInv
  <2>5. TablesTyped' /\ Preserved
    BY <1>1, <2>1, <2>4 DEF TablesTyped, Preserved, rest, history
  <2> QED
    BY <2>1, <2>5, FramesStay
<1>6. ASSUME NEW enabled \in BOOLEAN, WriteCardEnabled(enabled) \/ WriteOffered(enabled) PROVE IInv'
  <2>1. TablesTyped' /\ Preserved /\ req' = req
    BY <1>1, <1>2, <1>6 DEF WriteCardEnabled, WriteOffered, TablesTyped, Preserved, history
  <2> QED
    BY <2>1, FramesStay
<1>7. CASE Tick
  <2>1. now' \in 0 .. LastDay
    BY <1>1, <1>7, BoundsAssumption DEF Tick, TablesTyped
  <2>2. TablesTyped' /\ Preserved /\ req' = req
    BY <1>1, <1>7, <2>1 DEF Tick, TablesTyped, Preserved, history
  <2> QED
    BY <2>2, FramesStay
<1>8. CASE UNCHANGED vars
  <2>1. TablesTyped' /\ Preserved /\ req' = req
    BY <1>1, <1>8 DEF vars, TablesTyped, Preserved
  <2> QED
    BY <2>1, FramesStay
<1> QED
  BY <1>3, <1>4, <1>5, <1>6, <1>7, <1>8

LEMMA IInvInit == Init => IInv
<1> SUFFICES ASSUME Init PROVE IInv
  OBVIOUS
<1>1. trials \in [Hashes -> TrialRow \union {None}]
  BY BoundsAssumption DEF Init, TrialRow
<1>2. ends \in [Blobs -> SUBSET Nat]
  <2>1. \A b \in Blobs : \A h \in Found(trialFingerprintHashCandidates(b)) : trials[h].until \in Nat
    BY <1>1, HashForms DEF Found, TrialRow
  <2> QED
    BY <2>1 DEF Init
<1>3. claims \in Seq(ClaimRow) /\ req \in [Requests -> Frame] /\ now \in 0 .. LastDay
      /\ card \in BOOLEAN /\ offered \in BOOLEAN
      /\ answered \subseteq Blobs /\ changes \in 0 .. MaxChanges
  BY BoundsAssumption, IdleFrame DEF Init
<1>4. FramesInv
  BY IdleFrame DEF Init, FramesInv, FrameInv
<1> QED
  BY <1>1, <1>2, <1>3, <1>4 DEF IInv, TypeOK

LEMMA IInvStep ==
  ASSUME IInv, [Next]_vars
  PROVE  IInv'
BY StartOfferStep, StartFindStep, StartWriteStep, StartInsertStep, StartAnswerStep, ClaimSwitchStep, ClaimStep,
   OthersStep DEF Next, Proceed

\* The tables hold values of the columns' types, and every request in flight works on a
\* blob and on hashes that exist (startTrial, claimCatalogModel).
THEOREM TypeCorrect == Spec => []TypeOK
<1>1. IInv => TypeOK
  BY DEF IInv
<1> QED
  BY <1>1, IInvInit, IInvStep, PTL DEF Spec

-----------------------------------------------------------------------------
(* OneTrial.                                                               *)

LEMMA EndsInit == Init => EndsInv
<1> SUFFICES ASSUME Init PROVE EndsInv
  OBVIOUS
<1>1. PICK until \in 0 .. Duration :
        trials = [h \in Hashes |->
                    IF h \in OldGrants THEN [until |-> until, status |-> "active"] ELSE None]
  BY DEF Init
<1>2. \A h \in Hashes : trials[h] # None => h \in OldGrants /\ trials[h].until = until
  BY <1>1
<1>3. \A b \in Blobs : ends[b] = {trials[h].until : h \in Found(trialFingerprintHashCandidates(b))}
  BY DEF Init
<1>4. ASSUME NEW b \in Blobs, NEW d \in ends[b]
      PROVE  d = until /\ \E h \in trialFingerprintHashCandidates(b) : trials[h] # None
  <2>1. PICK h \in Found(trialFingerprintHashCandidates(b)) : d = trials[h].until
    BY <1>3
  <2>2. h \in trialFingerprintHashCandidates(b) /\ h \in Hashes /\ trials[h] # None
    BY HashForms DEF Found
  <2> QED
    BY <1>2, <2>1, <2>2
<1> QED
  BY <1>2, <1>4 DEF EndsInv

\* A trial is inserted for a machine that has had none since its last reset, whichever of its
\* blobs it is found by.
LEMMA InsertEnds ==
  ASSUME OldGrantsFound, IInv, EndsInv, NEW r \in Requests, StartInsertGrant(r)
  PROVE  EndsInv'
<1> DEFINE h == req[r].hash
           row == [until |-> req[r].until, status |-> "active"]
<1>1. trials \in [Hashes -> TrialRow \union {None}] /\ ends \in [Blobs -> SUBSET Nat]
      /\ FrameInv(req[r], trials) /\ req[r].pc = "t_insert" /\ req[r] \in Frame
  BY TypeSplit DEF IInv, FramesInv, StartInsertGrant, At, TablesTyped
<1>2. h = fingerprintHash(req[r].blob) /\ h \in Hashes /\ req[r].blob \in Blobs /\ req[r].until \in Nat
  BY <1>1, HashForms, FrameFields DEF FrameInv
<1>3. row \in TrialRow
  BY <1>2 DEF TrialRow
<1>4. CASE UNCHANGED <<trials, ends>>
  BY <1>4 DEF EndsInv
<1>5. CASE trials[h] = None /\ trials' = [trials EXCEPT ![h] = row] /\ ends' = WithEnd(h, req[r].until)
  <2> DEFINE until == req[r].until
  <2>1. trials'[h] # None /\ \A g \in Hashes \ {h} : trials'[g] = trials[g]
    <3> HIDE DEF h, row
    <3> QED
      BY <1>1, <1>2, <1>3, <1>5, NoneAssumption
  <2>2. \A g \in Hashes : trials'[g] # None => g \in OldGrants \/ \E b \in Blobs : g = fingerprintHash(b)
    BY <1>2, <2>1 DEF EndsInv
  <2>3. ASSUME NEW b \in Blobs, h \in trialFingerprintHashCandidates(b) PROVE ends[b] = {}
    <3>1. h = fingerprintHash(b)
      BY <1>2, <2>3, HashForms DEF trialFingerprintHashCandidates
    <3>2. ASSUME NEW g \in {raw(b), legacy(b)} PROVE trials[g] = None
      <4>1. CASE g = h
        BY <1>5, <4>1
      <4>2. CASE g # h /\ b = req[r].blob
        BY <1>1, <3>2, <4>2 DEF FrameInv
      <4>3. CASE g # h /\ b # req[r].blob
        <5>1. g \in Hashes /\ g \notin OldGrants
          BY <1>2, <3>1, <3>2, <4>3, HashForms DEF OldGrantsFound
        <5>2. \A c \in Blobs : g # fingerprintHash(c)
          BY <3>1, <3>2, <4>3, HashForms
        <5> QED
          BY <5>1, <5>2 DEF EndsInv
      <4> QED
        BY <4>1, <4>2, <4>3
    <3> QED
      BY <1>5, <3>1, <3>2 DEF EndsInv, trialFingerprintHashCandidates
  <2>4. ASSUME NEW b \in Blobs
        PROVE  /\ \A d, e \in ends'[b] : d = e
               /\ ends'[b] # {} => \E g \in trialFingerprintHashCandidates(b) : trials'[g] # None
    <3>1. CASE h \in trialFingerprintHashCandidates(b)
      <4>1. ends'[b] = {until}
        BY <1>5, <2>3, <3>1 DEF WithEnd, BlobsOf
      <4> QED
        BY <2>1, <3>1, <4>1
    <3>2. CASE h \notin trialFingerprintHashCandidates(b)
      <4>1. ends'[b] = ends[b]
        BY <1>5, <3>2 DEF WithEnd, BlobsOf
      <4>2. \A g \in trialFingerprintHashCandidates(b) : trials'[g] = trials[g]
        BY <2>1, <3>2, HashForms
      <4> QED
        BY <4>1, <4>2 DEF EndsInv
    <3> QED
      BY <3>1, <3>2
  <2> QED
    BY <2>2, <2>4 DEF EndsInv
<1> QED
  BY <1>4, <1>5 DEF StartInsertGrant

LEMMA DeleteEnds ==
  ASSUME IInv, EndsInv, NEW h \in Hashes, DeleteTrialGrant(h)
  PROVE  EndsInv'
<1>1. trials \in [Hashes -> TrialRow \union {None}]
  BY TypeSplit DEF IInv, TablesTyped
<1>2. trials'[h] = None /\ \A g \in Hashes \ {h} : trials'[g] = trials[g]
  BY <1>1 DEF DeleteTrialGrant
<1>3. ASSUME NEW b \in Blobs
      PROVE  /\ \A d, e \in ends'[b] : d = e
             /\ ends'[b] # {} => \E g \in trialFingerprintHashCandidates(b) : trials'[g] # None
  <2>1. CASE h \in trialFingerprintHashCandidates(b)
    BY <2>1 DEF DeleteTrialGrant, BlobsOf
  <2>2. CASE h \notin trialFingerprintHashCandidates(b)
    <3>1. ends'[b] = ends[b]
      BY <2>2 DEF DeleteTrialGrant, BlobsOf
    <3>2. \A g \in trialFingerprintHashCandidates(b) : trials'[g] = trials[g]
      BY <1>2, <2>2, HashForms
    <3> QED
      BY <3>1, <3>2 DEF EndsInv
  <2> QED
    BY <2>1, <2>2
<1> QED
  BY <1>2, <1>3 DEF EndsInv

LEMMA WriteExpiredEnds ==
  ASSUME IInv, EndsInv, NEW r \in Requests, StartWriteExpired(r)
  PROVE  EndsInv'
<1> DEFINE h == req[r].hash
<1>1. trials \in [Hashes -> TrialRow \union {None}] /\ FrameInv(req[r], trials) /\ req[r].pc = "t_expire"
  BY TypeSplit DEF IInv, FramesInv, StartWriteExpired, At, TablesTyped
<1>2. h \in Hashes
  BY <1>1 DEF FrameInv
<1>3. /\ trials' = IF trials[h] = None THEN trials ELSE [trials EXCEPT ![h].status = "expired"]
      /\ ends' = ends
  BY DEF StartWriteExpired, history
<1>4. \A g \in Hashes : trials'[g] = None <=> trials[g] = None
  <2> HIDE DEF h
  <2>1. CASE trials[h] = None
    BY <1>3, <2>1
  <2>2. CASE trials[h] # None
    <3>1. trials[h] \in TrialRow /\ [trials[h] EXCEPT !.status = "expired"] \in TrialRow
      BY <1>1, <1>2, <2>2 DEF TrialRow
    <3>2. trials' = [trials EXCEPT ![h] = [trials[h] EXCEPT !.status = "expired"]]
      BY <1>3, <2>2
    <3> QED
      BY <1>1, <1>2, <2>2, <3>1, <3>2, NoneAssumption
  <2> QED
    BY <2>1, <2>2
<1>5. \A b \in Blobs : \A g \in trialFingerprintHashCandidates(b) : trials'[g] = None <=> trials[g] = None
  BY <1>4, HashForms
<1> QED
  BY <1>3, <1>4, <1>5 DEF EndsInv

LEMMA EndsStep ==
  ASSUME OldGrantsFound, IInv, EndsInv, [Next]_vars
  PROVE  EndsInv'
<1>1. CASE UNCHANGED <<trials, ends>>
  BY <1>1 DEF EndsInv
<1>2. ASSUME NEW r \in Requests, StartFindGrant(r) PROVE UNCHANGED <<trials, ends>>
  BY <1>2, FindForm DEF history
<1>3. ASSUME NEW r \in Requests, StartAnswer(r) PROVE UNCHANGED <<trials, ends>>
  BY <1>3, Zenon DEF StartAnswer
<1>4. ASSUME NEW r \in Requests, NEW b \in Blobs, StartReadOffer(r, b) \/ ClaimReadSwitch(r, b)
      PROVE  UNCHANGED <<trials, ends>>
  BY <1>4 DEF StartReadOffer, ClaimReadSwitch, history
<1>5. ASSUME NEW r \in Requests,
             ClaimReadTrial(r) \/ ClaimCount(r) \/ ClaimInsertGrant(r) \/ ClaimAnswer(r)
      PROVE  UNCHANGED <<trials, ends>>
  BY <1>5, Zenon DEF ClaimReadTrial, ClaimCount, ClaimInsertGrant, ClaimAnswer, history
<1>6. ASSUME NEW r \in Requests, Crash(r) PROVE UNCHANGED <<trials, ends>>
  BY <1>6 DEF Crash, history
<1>7. ASSUME NEW b \in Blobs, NEW i \in DOMAIN claims, NEW result \in {"imported", "failed"},
             ReportResult(b, i, result)
      PROVE  UNCHANGED <<trials, ends>>
  BY <1>7 DEF ReportResult, history
<1>8. (\E enabled \in BOOLEAN : WriteCardEnabled(enabled) \/ WriteOffered(enabled)) \/ Tick \/ UNCHANGED vars
        => UNCHANGED <<trials, ends>>
  BY DEF WriteCardEnabled, WriteOffered, Tick, vars, history
<1> QED
  BY <1>1, <1>2, <1>3, <1>4, <1>5, <1>6, <1>7, <1>8, InsertEnds, DeleteEnds, WriteExpiredEnds
     DEF Next, Proceed

LEMMA AtMostOne ==
  ASSUME NEW S, \A d, e \in S : d = e
  PROVE  Cardinality(S) <= 1
<1>1. CASE S = {}
  BY <1>1, FS_EmptySet
<1>2. ASSUME NEW d \in S PROVE Cardinality(S) <= 1
  <2>1. S = {d}
    BY <1>2
  <2>2. Cardinality(S) = 1
    BY <2>1, FS_Singleton
  <2> QED
    BY <2>2
<1> QED
  BY <1>1, <1>2

\* However a machine's requests overlap, it has one trial with one end until it is reset
\* (startTrial against the unique index on the hash), if a machine that sends several blobs
\* has no grant that an earlier version stored under the hash of one of them.
THEOREM OneTrialTheorem == ASSUME OldGrantsFound PROVE Spec => []OneTrial
<1>1. Init => IInv /\ EndsInv
  BY IInvInit, EndsInit
<1>2. IInv /\ EndsInv /\ [Next]_vars => IInv' /\ EndsInv'
  BY IInvStep, EndsStep
<1>3. EndsInv => OneTrial
  BY AtMostOne DEF EndsInv, OneTrial
<1> QED
  BY <1>1, <1>2, <1>3, PTL DEF Spec

-----------------------------------------------------------------------------
(* QuotaBounded.                                                           *)

Limit == MaxGrants + Cardinality(Requests) - 1

\* Whoever holds the rows A is joined by the requests B, and both only shrink, or the request
\* that joins B found fewer rows than the quota.
LEMMA StillBounded ==
  ASSUME NEW A, NEW B, NEW A2, NEW B2, IsFiniteSet(A), B \subseteq Requests,
         B2 \subseteq Requests, A2 \subseteq A, Cardinality(A) < MaxGrants \/ B2 \subseteq B,
         Cardinality(A) + Cardinality(B) <= Limit
  PROVE  Cardinality(A2) + Cardinality(B2) <= Limit
<1>1. IsFiniteSet(Requests) /\ IsFiniteSet(B) /\ IsFiniteSet(B2) /\ IsFiniteSet(A2)
  BY RequestsAssumption, FS_Subset
<1>2. /\ Cardinality(A) \in Nat /\ Cardinality(B) \in Nat /\ Cardinality(A2) \in Nat
      /\ Cardinality(B2) \in Nat /\ Cardinality(Requests) \in Nat /\ MaxGrants \in Nat
  BY <1>1, FS_CardinalityType, BoundsAssumption
<1>3. Cardinality(A2) <= Cardinality(A) /\ Cardinality(B2) <= Cardinality(Requests)
  BY <1>1, RequestsAssumption, FS_Subset
<1>4. CASE Cardinality(A) < MaxGrants
  BY <1>2, <1>3, <1>4 DEF Limit
<1>5. CASE B2 \subseteq B
  <2>1. Cardinality(B2) <= Cardinality(B)
    BY <1>1, <1>5, FS_Subset
  <2> QED
    BY <1>2, <1>3, <2>1 DEF Limit
<1> QED
  BY <1>4, <1>5

\* One of the requests turns into a row.
LEMMA OneTurned ==
  ASSUME NEW A, NEW B, NEW A2, NEW B2, NEW n, NEW r \in B, IsFiniteSet(A), B \subseteq Requests,
         A2 \subseteq A \union {n}, B2 \subseteq B \ {r}, Cardinality(A) + Cardinality(B) <= Limit
  PROVE  Cardinality(A2) + Cardinality(B2) <= Limit
<1>1. IsFiniteSet(Requests) /\ IsFiniteSet(B)
  BY RequestsAssumption, FS_Subset
<1>2. IsFiniteSet(A \union {n}) /\ Cardinality(A \union {n}) \in {Cardinality(A), Cardinality(A) + 1}
  BY FS_AddElement
<1>3. IsFiniteSet(B \ {r}) /\ Cardinality(B \ {r}) = Cardinality(B) - 1
  BY <1>1, FS_RemoveElement
<1>4. /\ Cardinality(A) \in Nat /\ Cardinality(B) \in Nat /\ Cardinality(Requests) \in Nat
      /\ MaxGrants \in Nat
  BY <1>1, FS_CardinalityType, BoundsAssumption
<1>5. /\ IsFiniteSet(A2) /\ Cardinality(A2) <= Cardinality(A \union {n})
      /\ IsFiniteSet(B2) /\ Cardinality(B2) <= Cardinality(B \ {r})
  BY <1>2, <1>3, FS_Subset
<1>6. Cardinality(A2) \in Nat /\ Cardinality(B2) \in Nat
  BY <1>5, FS_CardinalityType
<1> QED
  BY <1>2, <1>3, <1>4, <1>5, <1>6 DEF Limit

\* A machine's claims are those under its current hash: no claim has a raw hash that is not.
LEMMA OwnUnder ==
  ASSUME ClaimsInv, NEW b \in Blobs
  PROVE  OwnClaims(b) = ClaimsUnder(fingerprintHash(b))
<1>1. ASSUME NEW i \in DOMAIN claims, claims[i].hash = raw(b) PROVE claims[i].hash = fingerprintHash(b)
  <2>1. PICK c \in Blobs : claims[i].hash = fingerprintHash(c)
    BY DEF ClaimsInv
  <2> QED
    BY <1>1, <2>1, HashForms
<1> QED
  BY <1>1 DEF OwnClaims, ClaimsUnder, catalogFingerprintHashCandidates

\* The steps of a request as the quota sees them.
Passes(r) ==
    /\ claims' = claims
    /\ req[r].blob \in Blobs
    /\ Cardinality(OwnClaims(req[r].blob)) < MaxGrants
    /\ req'[r].blob = req[r].blob
Inserts(r) ==
    /\ req[r].pc = "c_insert"
    /\ req[r].blob \in Blobs
    /\ claims' = Append(claims, [hash |-> fingerprintHash(req[r].blob), status |-> "claimed"])
    /\ req'[r].pc = "c_answer"
Leaves(r) == claims' = claims /\ req'[r].pc # "c_insert"
Moves(r) == (\A q \in Requests \ {r} : req'[q] = req[q]) /\ (Passes(r) \/ Inserts(r) \/ Leaves(r))

\* A report changes no claim's hash.
Reported ==
    /\ req' = req
    /\ DOMAIN claims' = DOMAIN claims
    /\ \A i \in DOMAIN claims : claims'[i].hash = claims[i].hash

LEMMA StartMoves ==
  ASSUME IInv, NEW r \in Requests, NEW b \in Blobs, StartReadOffer(r, b) \/ ClaimReadSwitch(r, b)
  PROVE  Moves(r)
<1>1. req \in [Requests -> Frame]
  BY TypeSplit DEF IInv
<1>2. CASE StartReadOffer(r, b)
  <2>1. claims' = claims /\ (Begin(r, "t_find", b, None, 0) \/ Finish(r))
    BY <1>2 DEF StartReadOffer
  <2> QED
    BY <1>1, <2>1, Finished DEF Begin, Moves, Leaves
<1>3. CASE ClaimReadSwitch(r, b)
  BY <1>1, <1>3 DEF ClaimReadSwitch, Begin, Moves, Leaves
<1> QED
  BY <1>2, <1>3

LEMMA ProceedMoves ==
  ASSUME IInv, NEW r \in Requests, Proceed(r) \/ Crash(r)
  PROVE  Moves(r)
<1>1. req \in [Requests -> Frame] /\ FrameInv(req[r], trials)
  BY TypeSplit DEF IInv, FramesInv
<1>2. CASE Finish(r) /\ claims' = claims
  BY <1>1, <1>2, Finished DEF Moves, Leaves
<1>3. ASSUME NEW step \in {"t_answer", "c_count", "c_answer"}, Goto(r, step), claims' = claims
      PROVE  Moves(r)
  <2>1. step \in Pc /\ step # "c_insert"
    BY DEF Pc
  <2> QED
    BY <1>1, <1>3, <2>1, GoneTo DEF Moves, Leaves
<1>4. CASE StartWriteExpired(r)
  <2>1. claims' = claims /\ req' = [req EXCEPT ![r] = [pc |-> "t_answer", blob |-> req[r].blob,
                                                       hash |-> None, until |-> 0]]
    BY <1>4 DEF StartWriteExpired, Answering, Begin
  <2> QED
    BY <1>1, <2>1 DEF Moves, Leaves
<1>5. CASE StartInsertGrant(r)
  BY <1>2, <1>3, <1>5 DEF StartInsertGrant
<1>6. CASE StartAnswer(r)
  BY <1>2, <1>6 DEF StartAnswer
<1>7. CASE ClaimReadTrial(r)
  <2>1. (Goto(r, "c_count") \/ Finish(r)) /\ claims' = claims
    BY <1>7, Zenon DEF ClaimReadTrial
  <2> QED
    BY <1>2, <1>3, <2>1
<1>8. CASE ClaimCount(r)
  <2>1. /\ req[r].pc = "c_count" /\ claims' = claims
        /\ \/ Finish(r)
           \/ ~(Cardinality(OwnClaims(req[r].blob)) >= MaxGrants) /\ Goto(r, "c_insert")
    BY <1>8, Zenon DEF ClaimCount, At
  <2>2. ASSUME ~(Cardinality(OwnClaims(req[r].blob)) >= MaxGrants), Goto(r, "c_insert") PROVE Moves(r)
    <3>1. IsFiniteSet(OwnClaims(req[r].blob))
      BY ClaimFields, FS_Subset DEF IInv, OwnClaims
    <3>2. Cardinality(OwnClaims(req[r].blob)) \in Nat /\ MaxGrants \in Nat
      BY <3>1, FS_CardinalityType, BoundsAssumption
    <3>3. Cardinality(OwnClaims(req[r].blob)) < MaxGrants
      BY <2>2, <3>2
    <3>4. "c_insert" \in Pc /\ req[r].blob \in Blobs
      BY <1>1, <2>1 DEF Pc, FrameInv
    <3> QED
      BY <1>1, <2>1, <2>2, <3>3, <3>4, GoneTo DEF Moves, Passes
  <2> QED
    BY <1>2, <2>1, <2>2
<1>9. CASE ClaimInsertGrant(r)
  <2>1. /\ req[r].pc = "c_insert"
        /\ \/ /\ claims' = Append(claims, [hash |-> fingerprintHash(req[r].blob), status |-> "claimed"])
              /\ Goto(r, "c_answer")
           \/ Finish(r) /\ claims' = claims
    BY <1>9 DEF ClaimInsertGrant, At
  <2>2. "c_answer" \in Pc /\ req[r].blob \in Blobs
    BY <1>1, <2>1 DEF Pc, FrameInv
  <2> QED
    BY <1>1, <1>2, <2>1, <2>2, GoneTo DEF Moves, Inserts
<1>10. CASE ClaimAnswer(r)
  BY <1>2, <1>10 DEF ClaimAnswer
<1>11. CASE Crash(r)
  BY <1>2, <1>11 DEF Crash
<1>12. CASE StartFindGrant(r)
  <2>1. claims' = claims /\ \E step \in {"t_expire", "t_answer", "t_insert"} :
                             \E h, until : Begin(r, step, req[r].blob, h, until)
    BY <1>12, FindForm DEF Finds
  <2>2. PICK step \in {"t_expire", "t_answer", "t_insert"} : \E h, until : Begin(r, step, req[r].blob, h, until)
    BY <2>1
  <2>3. PICK h, until : Begin(r, step, req[r].blob, h, until)
    BY <2>2
  <2> QED
    BY <1>1, <2>1, <2>3 DEF Begin, Moves, Leaves
<1> QED
  BY <1>4, <1>5, <1>6, <1>7, <1>8, <1>9, <1>10, <1>11, <1>12 DEF Proceed

LEMMA StepMoves ==
  ASSUME IInv, [Next]_vars
  PROVE  (\E r \in Requests : Moves(r)) \/ Reported
<1>1. ASSUME NEW b \in Blobs, NEW i \in DOMAIN claims, NEW result \in {"imported", "failed"},
             ReportResult(b, i, result)
      PROVE  Reported
  <2>1. claims' = [claims EXCEPT ![i].status = result] /\ req' = req
    BY <1>1 DEF ReportResult
  <2>2. claims \in Seq(ClaimRow) /\ claims[i] \in ClaimRow /\ DOMAIN claims = 1 .. Len(claims)
    BY ClaimFields, ElementOfSeq DEF IInv
  <2>3. claims' = [claims EXCEPT ![i] = [claims[i] EXCEPT !.status = result]]
    BY <2>1
  <2>4. [claims[i] EXCEPT !.status = result].hash = claims[i].hash
    BY <2>2 DEF ClaimRow
  <2> QED
    BY <2>1, <2>2, <2>3, <2>4 DEF Reported
<1>2. ASSUME \/ \E h \in Hashes : DeleteTrialGrant(h)
             \/ \E enabled \in BOOLEAN : WriteCardEnabled(enabled) \/ WriteOffered(enabled)
             \/ Tick \/ UNCHANGED vars
      PROVE  Reported
  BY <1>2 DEF DeleteTrialGrant, WriteCardEnabled, WriteOffered, Tick, vars, Reported
<1> QED
  BY <1>1, <1>2, StartMoves, ProceedMoves DEF Next

LEMMA ClaimsInit == Init => ClaimsInv
<1> SUFFICES ASSUME Init PROVE ClaimsInv
  OBVIOUS
<1>1. DOMAIN claims = {} /\ \A h : ClaimsUnder(h) = {} /\ Inserting(h) = {}
  BY IdleFrame DEF Init, ClaimsUnder, Inserting
<1>2. Cardinality(Requests) \in Nat /\ Cardinality(Requests) # 0 /\ Cardinality({}) = 0
  BY RequestsAssumption, FS_EmptySet, FS_CardinalityType
<1>3. 0 + 0 <= MaxGrants + Cardinality(Requests) - 1
  BY <1>2, BoundsAssumption
<1> QED
  BY <1>1, <1>2, <1>3 DEF ClaimsInv

LEMMA ClaimsStep ==
  ASSUME IInv, ClaimsInv, [Next]_vars
  PROVE  ClaimsInv'
<1>a. /\ DOMAIN claims = 1 .. Len(claims) /\ Len(claims) \in Nat /\ claims \in Seq(ClaimRow)
      /\ IsFiniteSet(DOMAIN claims)
  BY ClaimFields DEF IInv
<1>b. ASSUME NEW r \in Requests, Inserts(r)
      PROVE  /\ DOMAIN claims' = DOMAIN claims \union {Len(claims) + 1}
             /\ Len(claims) + 1 \notin DOMAIN claims
             /\ claims'[Len(claims) + 1].hash = fingerprintHash(req[r].blob)
             /\ \A i \in DOMAIN claims : claims'[i] = claims[i]
  <2> DEFINE row == [hash |-> fingerprintHash(req[r].blob), status |-> "claimed"]
  <2>1. row \in ClaimRow /\ row.hash = fingerprintHash(req[r].blob) /\ claims' = Append(claims, row)
    BY <1>b, HashForms DEF Inserts, ClaimRow
  <2> HIDE DEF row
  <2>2. DOMAIN claims' = 1 .. Len(claims) + 1 /\ claims'[Len(claims) + 1] = row
        /\ \A i \in DOMAIN claims : claims'[i] = claims[i]
    BY <1>a, <2>1
  <2> QED
    BY <1>a, <2>1, <2>2
<1>1. \A i \in DOMAIN claims' : \E b \in Blobs : claims'[i].hash = fingerprintHash(b)
  <2>1. CASE Reported \/ claims' = claims
    BY <2>1 DEF Reported, ClaimsInv
  <2>2. ASSUME NEW r \in Requests, Inserts(r)
        PROVE  \A i \in DOMAIN claims' : \E b \in Blobs : claims'[i].hash = fingerprintHash(b)
    BY <1>b, <2>2 DEF Inserts, ClaimsInv
  <2> QED
    BY <2>1, <2>2, StepMoves DEF Moves, Passes, Leaves
<1>2. ASSUME NEW h \in Hashes PROVE Cardinality(ClaimsUnder(h)') + Cardinality(Inserting(h)') <= Limit
  <2> DEFINE A == ClaimsUnder(h)
             B == Inserting(h)
  <2>1. /\ IsFiniteSet(A) /\ B \subseteq Requests /\ B' \subseteq Requests
        /\ Cardinality(A) + Cardinality(B) <= Limit
    BY <1>a, FS_Subset DEF ClaimsInv, Limit, ClaimsUnder, Inserting
  <2>2. ASSUME Reported PROVE Cardinality(A') + Cardinality(B') <= Limit
    <3>1. A' \subseteq A /\ B' \subseteq B
      BY <2>2 DEF Reported, ClaimsUnder, Inserting
    <3> HIDE DEF A, B
    <3> QED
      BY <2>1, <3>1, StillBounded
  <2>3. ASSUME NEW r \in Requests, Moves(r) PROVE Cardinality(A') + Cardinality(B') <= Limit
    <3>1. B' \subseteq B \union {r}
      BY <2>3 DEF Moves, Inserting
    <3>2. CASE Leaves(r)
      <4>1. A' \subseteq A /\ B' \subseteq B
        BY <3>1, <3>2 DEF Leaves, ClaimsUnder, Inserting
      <4> HIDE DEF A, B
      <4> QED
        BY <2>1, <4>1, StillBounded
    <3>3. CASE Passes(r)
      <4>1. A' \subseteq A
        BY <3>3 DEF Passes, ClaimsUnder
      <4>2. Cardinality(A) < MaxGrants \/ B' \subseteq B
        <5>1. CASE h = fingerprintHash(req[r].blob)
          BY <3>3, <5>1, OwnUnder DEF Passes
        <5>2. CASE h # fingerprintHash(req[r].blob)
          BY <3>1, <3>3, <5>2 DEF Passes, Inserting
        <5> QED
          BY <5>1, <5>2
      <4> HIDE DEF A, B
      <4> QED
        BY <2>1, <4>1, <4>2, StillBounded
    <3>4. CASE Inserts(r)
      <4>1. r \notin B'
        BY <3>4 DEF Inserts, Inserting
      <4>2. CASE h = fingerprintHash(req[r].blob)
        <5>1. A' \subseteq A \union {Len(claims) + 1} /\ r \in B /\ B' \subseteq B \ {r}
          BY <1>b, <3>1, <3>4, <4>1, <4>2 DEF Inserts, Inserting, ClaimsUnder
        <5> HIDE DEF A, B
        <5> QED
          BY <2>1, <5>1, OneTurned
      <4>3. CASE h # fingerprintHash(req[r].blob)
        <5>1. A' \subseteq A /\ B' \subseteq B
          BY <1>b, <3>1, <3>4, <4>1, <4>3 DEF ClaimsUnder
        <5> HIDE DEF A, B
        <5> QED
          BY <2>1, <5>1, StillBounded
      <4> QED
        BY <4>2, <4>3
    <3> QED
      BY <2>3, <3>2, <3>3, <3>4 DEF Moves
  <2> QED
    BY <2>2, <2>3, StepMoves
<1> QED
  BY <1>1, <1>2 DEF ClaimsInv, Limit

\* Concurrent claims exceed a machine's quota by the requests in flight less one, at most, and
\* no report, retry or death of a request gives quota back (claimCatalogModel counts and then
\* inserts; reportCatalogResult).
THEOREM QuotaBoundedTheorem == Spec => []QuotaBounded
<1>1. Init => IInv /\ ClaimsInv
  BY IInvInit, ClaimsInit
<1>2. IInv /\ ClaimsInv /\ [Next]_vars => IInv' /\ ClaimsInv'
  BY IInvStep, ClaimsStep
<1>3. IInv /\ ClaimsInv => QuotaBounded
  <2> SUFFICES ASSUME IInv, ClaimsInv, NEW b \in Blobs
               PROVE  Cardinality(OwnClaims(b)) <= MaxGrants + Cardinality(Requests) - 1
    BY DEF QuotaBounded
  <2> DEFINE A == ClaimsUnder(fingerprintHash(b))
             B == Inserting(fingerprintHash(b))
  <2>1. IsFiniteSet(A) /\ B \subseteq Requests
        /\ Cardinality(A) + Cardinality(B) <= MaxGrants + Cardinality(Requests) - 1
    BY ClaimFields, HashForms, FS_Subset DEF IInv, ClaimsInv, ClaimsUnder, Inserting
  <2>2. OwnClaims(b) = A
    BY OwnUnder
  <2> HIDE DEF A, B
  <2>3. IsFiniteSet(Requests) /\ IsFiniteSet(B)
    BY <2>1, RequestsAssumption, FS_Subset
  <2>4. Cardinality(A) \in Nat /\ Cardinality(B) \in Nat /\ Cardinality(Requests) \in Nat
        /\ MaxGrants \in Nat
    BY <2>1, <2>3, FS_CardinalityType, BoundsAssumption
  <2> QED
    BY <2>1, <2>2, <2>4
<1> QED
  BY <1>1, <1>2, <1>3, PTL DEF Spec
=============================================================================
