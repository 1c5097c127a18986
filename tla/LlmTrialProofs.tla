--------------------------- MODULE LlmTrialProofs ---------------------------
(* Theorems about LlmTrial, for any number of machines, pools, keys and    *)
(* requests in flight, and any number of changes.                          *)
EXTENDS LlmTrial, TLAPS, SequenceTheorems, FiniteSetTheorems

(***************************************************************************)
(* The inductive invariant.                                                *)
(***************************************************************************)

RevokedIn(ks) == {k \in DOMAIN ks : ks[k].status = "revoked"}
UnusableIn(k, ks, ps) == k \in RevokedIn(ks) \/ ps[ks[k].pool].past

IssueSteps == Pc \ {"idle", "v_select", "v_update"}

\* What a request holds, against the keys ks, the grants gs, the pools ps and whether a pool
\* has been extended: the rows it refers to exist; what it found usable was not revoked
\* when it began; it closes a grant for a reason; and while no pool is extended it never
\* reopens one.
FrameInv(f, ks, gs, ps, ex) ==
    /\ f.pc \in IssueSteps => f.machine \in Machines
    /\ f.pc \in {"i_key", "i_close", "i_reopen", "i_answer"} =>
         f.grant \in DOMAIN gs /\ gs[f.grant].machine = f.machine /\ gs[f.grant].key = f.key
    /\ f.pc = "i_refs" => f.candidates \subseteq DOMAIN ks \ f.late
    /\ f.pc = "i_insert" => f.key \in DOMAIN ks
    /\ f.pc \in {"v_select", "v_update"} => f.key \in RevokedIn(ks)
    /\ f.late \subseteq RevokedIn(ks)
    /\ f.pc \in {"i_reopen", "i_answer", "i_insert"} => f.key \notin f.late
    /\ f.pc = "i_close" =>
         /\ f.verdict # "active"
         /\ f.verdict = "revoked" => f.key \in RevokedIn(ks)
         /\ f.verdict = "expired" => ps[ks[f.key].pool].past \/ f.overtaken
    /\ f.pc = "i_answer" \/ (f.pc = "i_key" /\ f.verdict = "active") =>
         gs[f.grant].status = "active" \/ f.key \in RevokedIn(ks) \/ f.overtaken
    /\ ~ex =>
         /\ f.pc # "i_reopen"
         /\ f.pc = "i_close" \/ (f.pc = "i_key" /\ f.verdict # "active") =>
              UnusableIn(f.key, ks, ps)

FramesInv == \A r \in Requests : FrameInv(req[r], keys, grants, pools, extended)

\* A key counts as revoked for good once its row says so; a grant is closed for a reason.
TablesInv ==
    /\ killed \subseteq RevokedIn(keys)
    /\ ~extended =>
         \A g \in DOMAIN grants :
           grants[g].status # "active" => UnusableIn(grants[g].key, keys, pools)

IInv == TypeOK /\ TablesInv /\ FramesInv

\* The requests that may still give machine m its first grant, or grant key k.
Issuing(m) == {r \in Requests : /\ req[r].machine = m
                                /\ req[r].pc \in {"i_quota", "i_candidates", "i_refs", "i_insert"}}
Inserting(k) == {r \in Requests : req[r].pc = "i_insert" /\ req[r].key = k}

GrantsInv ==
    \A m \in Machines :
        Cardinality(GrantsOf(m)) + Cardinality(Issuing(m)) <= Cardinality(Requests)

SharingInv ==
    ~ReuseReferenced /\ ~extended =>
        \A k \in DOMAIN keys :
            Cardinality(References(k)) + Cardinality(Inserting(k)) <= Cardinality(Requests)

-----------------------------------------------------------------------------
(* The rows of the tables and of a frame.                                  *)

LEMMA FrameFields ==
  ASSUME NEW f \in Frame
  PROVE  /\ f.pc \in Pc /\ f.machine \in Machines \union {None} /\ f.grant \in Nat /\ f.key \in Nat
         /\ f.candidates \subseteq Nat /\ f.verdict \in {"active", "revoked", "expired"}
         /\ f.late \subseteq Nat /\ f.overtaken \in BOOLEAN
BY DEF Frame

TablesTyped ==
    /\ enabled \in BOOLEAN
    /\ onTrial \subseteq Machines
    /\ pools \in [Pools -> PoolRow]
    /\ keys \in Seq(KeyRow)
    /\ grants \in Seq(GrantRow)
    /\ \A g \in DOMAIN grants : grants[g].key \in DOMAIN keys
    /\ killed \subseteq DOMAIN keys
    /\ extended \in BOOLEAN
    /\ changes \in 0 .. MaxChanges

LEMMA TypeSplit == TypeOK => TablesTyped /\ req \in [Requests -> Frame]
BY DEF TypeOK, TablesTyped

LEMMA TypeJoined == TablesTyped' /\ req' \in [Requests -> Frame] => TypeOK'
BY DEF TypeOK, TablesTyped

LEMMA KeyFields ==
  ASSUME TypeOK
  PROVE  /\ keys \in Seq(KeyRow) /\ Len(keys) \in Nat /\ DOMAIN keys = 1 .. Len(keys)
         /\ DOMAIN keys \subseteq Nat
         /\ \A k \in DOMAIN keys :
              /\ keys[k] \in KeyRow /\ keys[k].pool \in Pools /\ keys[k].createdAt \in Nat
              /\ keys[k].status \in {"active", "revoked"}
<1>1. keys \in Seq(KeyRow) /\ Len(keys) \in Nat /\ DOMAIN keys = 1 .. Len(keys)
  BY LenProperties DEF TypeOK
<1>2. \A k \in DOMAIN keys : keys[k] \in KeyRow
  BY <1>1, ElementOfSeq
<1>3. \A k \in DOMAIN keys : keys[k].pool \in Pools /\ keys[k].createdAt \in Nat
                             /\ keys[k].status \in {"active", "revoked"}
  BY <1>2 DEF KeyRow
<1> QED
  BY <1>1, <1>2, <1>3

LEMMA GrantFields ==
  ASSUME TypeOK
  PROVE  /\ grants \in Seq(GrantRow) /\ Len(grants) \in Nat /\ DOMAIN grants = 1 .. Len(grants)
         /\ DOMAIN grants \subseteq Nat
         /\ \A g \in DOMAIN grants :
              /\ grants[g] \in GrantRow /\ grants[g].machine \in Machines
              /\ grants[g].key \in DOMAIN keys
              /\ grants[g].status \in {"active", "revoked", "expired"}
<1>1. grants \in Seq(GrantRow) /\ Len(grants) \in Nat /\ DOMAIN grants = 1 .. Len(grants)
  BY LenProperties DEF TypeOK
<1>2. \A g \in DOMAIN grants : grants[g] \in GrantRow
  BY <1>1, ElementOfSeq
<1>3. \A g \in DOMAIN grants : grants[g].machine \in Machines
                               /\ grants[g].status \in {"active", "revoked", "expired"}
  BY <1>2 DEF GrantRow
<1> QED
  BY <1>1, <1>2, <1>3 DEF TypeOK

LEMMA PoolFields ==
  ASSUME TypeOK
  PROVE  /\ pools \in [Pools -> PoolRow]
         /\ \A p \in Pools : /\ pools[p] \in PoolRow /\ pools[p].past \in BOOLEAN
                             /\ pools[p].status \in {"active", "disabled"}
                             /\ pools[p].serves \in SUBSET Machines
<1>1. pools \in [Pools -> PoolRow]
  BY DEF TypeOK
<1>2. \A p \in Pools : pools[p] \in PoolRow
  BY <1>1
<1> QED
  BY <1>1, <1>2 DEF PoolRow

-----------------------------------------------------------------------------
(* What a statement does to the frames.                                    *)

Others(r) == req' \in [Requests -> Frame] /\ \A q \in Requests \ {r} : req'[q] = req[q]

\* The request goes on with what it has in memory.
SameMemory(r) ==
    /\ req'[r].machine = req[r].machine /\ req'[r].grant = req[r].grant
    /\ req'[r].key = req[r].key /\ req'[r].candidates = req[r].candidates
    /\ req'[r].verdict = req[r].verdict /\ req'[r].late = req[r].late
    /\ req'[r].overtaken = req[r].overtaken

LEMMA PutFrame ==
  ASSUME req \in [Requests -> Frame], NEW r \in Requests, NEW f \in Frame,
         req' = [req EXCEPT ![r] = f]
  PROVE  Others(r) /\ req'[r] = f
BY DEF Others

LEMMA IdleFrame ==
  /\ Idle \in Frame /\ Idle.pc = "idle" /\ Idle.late = {} /\ Idle.candidates = {}
  /\ Idle.machine = None /\ Idle.grant = 0 /\ Idle.key = 0 /\ Idle.verdict = "active"
  /\ Idle.overtaken = FALSE
BY DEF Idle, Frame, Pc

LEMMA FinishMoves ==
  ASSUME TypeOK, NEW r \in Requests, Finish(r)
  PROVE  Others(r) /\ req'[r] = Idle
BY TypeSplit, IdleFrame, PutFrame DEF Finish

LEMMA GotoMoves ==
  ASSUME TypeOK, NEW r \in Requests, NEW step \in Pc, Goto(r, step)
  PROVE  Others(r) /\ SameMemory(r) /\ req'[r].pc = step
<1> DEFINE f == [req[r] EXCEPT !.pc = step]
<1>1. req[r] \in Frame
  BY TypeSplit
<1>2. /\ f \in Frame /\ f.pc = step /\ f.machine = req[r].machine /\ f.grant = req[r].grant
      /\ f.key = req[r].key /\ f.candidates = req[r].candidates /\ f.verdict = req[r].verdict
      /\ f.late = req[r].late /\ f.overtaken = req[r].overtaken
  BY <1>1 DEF Frame
<1>3. req' = [req EXCEPT ![r] = f]
  BY DEF Goto
<1> HIDE DEF f
<1>4. Others(r) /\ req'[r] = f
  BY <1>2, <1>3, TypeSplit, PutFrame
<1> QED
  BY <1>2, <1>4 DEF SameMemory

-----------------------------------------------------------------------------
(* A step of somebody else leaves a request where it was.                  *)

\* Rows are only added, a grant keeps its machine and its key, a key its pool, and a
\* revoked key is never usable again.
Onward ==
    /\ DOMAIN grants \subseteq DOMAIN grants'
    /\ \A g \in DOMAIN grants :
         grants'[g].machine = grants[g].machine /\ grants'[g].key = grants[g].key
    /\ DOMAIN keys \subseteq DOMAIN keys'
    /\ \A k \in DOMAIN keys : keys'[k].pool = keys[k].pool
    /\ RevokedIn(keys) \subseteq RevokedIn(keys')
    /\ extended => extended'

\* A grant somebody else closes, or a pool somebody else extends, is noted as overtaking.
Noted(q) ==
    /\ req'[q].pc = req[q].pc /\ req'[q].machine = req[q].machine /\ req'[q].grant = req[q].grant
    /\ req'[q].key = req[q].key /\ req'[q].candidates = req[q].candidates
    /\ req'[q].verdict = req[q].verdict /\ req'[q].late = req[q].late
    /\ req[q].overtaken => req'[q].overtaken
    /\ \A p \in Pools : pools[p].past /\ ~pools'[p].past =>
         extended' /\ (req[q].pc = "i_close" => req'[q].overtaken)
    /\ req[q].pc \in {"i_key", "i_answer"} /\ req[q].grant \in DOMAIN grants
       /\ grants[req[q].grant].status = "active" =>
           \/ grants'[req[q].grant].status = "active"
           \/ grants[req[q].grant].key \in RevokedIn(keys')
           \/ req'[q].overtaken

LEMMA FrameNoted ==
  ASSUME IInv, Onward, NEW q \in Requests, Noted(q)
  PROVE  FrameInv(req'[q], keys', grants', pools', extended')
<1> DEFINE f == req[q]
           g == req'[q]
<1>1. /\ FrameInv(f, keys, grants, pools, extended)
      /\ f.pc \in Pc /\ f.overtaken \in BOOLEAN
      /\ \A h \in DOMAIN grants : grants[h].key \in DOMAIN keys
      /\ \A k \in DOMAIN keys : keys[k].pool \in Pools
  BY TypeSplit, FrameFields, KeyFields, GrantFields DEF IInv, FramesInv
<1>2. \A k \in DOMAIN keys : UnusableIn(k, keys, pools) /\ ~extended' => UnusableIn(k, keys', pools')
  BY <1>1 DEF UnusableIn, Onward, Noted
<1>3. f.pc \in {"i_key", "i_close", "i_reopen", "i_answer"} =>
         f.grant \in DOMAIN grants /\ grants[f.grant].machine = f.machine
         /\ grants[f.grant].key = f.key /\ f.key \in DOMAIN keys
  BY <1>1 DEF FrameInv
<1>4. g.pc \in {"i_key", "i_close", "i_reopen", "i_answer"} =>
         g.grant \in DOMAIN grants' /\ grants'[g.grant].machine = g.machine
         /\ grants'[g.grant].key = g.key
  BY <1>3 DEF Noted, Onward
<1>5. g.pc = "i_close" =>
         /\ g.verdict # "active"
         /\ g.verdict = "revoked" => g.key \in RevokedIn(keys')
         /\ g.verdict = "expired" => pools'[keys'[g.key].pool].past \/ g.overtaken
  BY <1>1, <1>3 DEF FrameInv, Noted, Onward
<1>6. g.pc = "i_answer" \/ (g.pc = "i_key" /\ g.verdict = "active") =>
         grants'[g.grant].status = "active" \/ g.key \in RevokedIn(keys') \/ g.overtaken
  BY <1>1, <1>3 DEF FrameInv, Noted, Onward
<1>7. ~extended' =>
         /\ g.pc # "i_reopen"
         /\ g.pc = "i_close" \/ (g.pc = "i_key" /\ g.verdict # "active") =>
              UnusableIn(g.key, keys', pools')
  BY <1>1, <1>2, <1>3 DEF FrameInv, Noted, Onward
<1>8. /\ g.pc \in IssueSteps => g.machine \in Machines
      /\ g.pc = "i_refs" => g.candidates \subseteq DOMAIN keys' \ g.late
      /\ g.pc = "i_insert" => g.key \in DOMAIN keys'
      /\ g.pc \in {"v_select", "v_update"} => g.key \in RevokedIn(keys')
      /\ g.late \subseteq RevokedIn(keys')
      /\ g.pc \in {"i_reopen", "i_answer", "i_insert"} => g.key \notin g.late
  BY <1>1 DEF FrameInv, Noted, Onward
<1> QED
  BY <1>4, <1>5, <1>6, <1>7, <1>8 DEF FrameInv

\* An action of request r, or of nobody's.
LEMMA RequestStep ==
  ASSUME IInv, NEW r \in Requests, TablesTyped', TablesInv', Onward, req' \in [Requests -> Frame],
         FrameInv(req'[r], keys', grants', pools', extended'),
         \A q \in Requests \ {r} : Noted(q)
  PROVE  IInv'
<1>1. ASSUME NEW q \in Requests
      PROVE  FrameInv(req'[q], keys', grants', pools', extended')
  BY FrameNoted
<1> QED
  BY <1>1, TypeJoined DEF IInv, FramesInv

LEMMA SettingsStep ==
  ASSUME IInv, TablesTyped', TablesInv', Onward, req' \in [Requests -> Frame],
         \A q \in Requests : Noted(q)
  PROVE  IInv'
<1>1. ASSUME NEW q \in Requests
      PROVE  FrameInv(req'[q], keys', grants', pools', extended')
  BY FrameNoted
<1> QED
  BY <1>1, TypeJoined DEF IInv, FramesInv

\* Nothing to note: the pools' terms, the grants' statuses and the other frames stay.
LEMMA NothingNoted ==
  ASSUME NEW q \in Requests, req'[q] = req[q],
         \A p \in Pools : pools[p].past => pools'[p].past,
         \A g \in DOMAIN grants :
           grants[g].status = "active" =>
             grants'[g].status = "active" \/ grants[g].key \in RevokedIn(keys')
  PROVE  Noted(q)
BY DEF Noted

LEMMA SameTables ==
  ASSUME IInv, UNCHANGED <<settings, keys, grants, history>>
  PROVE  /\ TablesTyped' /\ TablesInv' /\ Onward
         /\ keys' = keys /\ grants' = grants /\ pools' = pools /\ extended' = extended
         /\ killed' = killed
<1>1. TablesTyped'
  BY TypeSplit DEF IInv, TablesTyped, settings, history
<1>2. TablesInv'
  BY DEF IInv, TablesInv, settings, history, UnusableIn
<1> QED
  BY <1>1, <1>2 DEF Onward, settings, history

\* A statement that only reads.
LEMMA ReadStep ==
  ASSUME IInv, NEW r \in Requests, UNCHANGED <<settings, keys, grants, history>>, Others(r),
         FrameInv(req'[r], keys, grants, pools, extended)
  PROVE  IInv'
<1>1. \A q \in Requests \ {r} : Noted(q)
  BY SameTables, NothingNoted DEF Others
<1> QED
  BY <1>1, SameTables, RequestStep DEF Others

LEMMA IdleInv == \A ks, gs, ps, ex : FrameInv(Idle, ks, gs, ps, ex)
BY IdleFrame DEF FrameInv, IssueSteps

LEMMA FinishStep ==
  ASSUME IInv, NEW r \in Requests, UNCHANGED <<settings, keys, grants, history>>, Finish(r)
  PROVE  IInv'
BY FinishMoves, IdleInv, ReadStep DEF IInv

-----------------------------------------------------------------------------
(* The statements of issueTrialLlmProfile.                                 *)

LEMMA SwitchStep ==
  ASSUME IInv, NEW r \in Requests, NEW m \in Machines, IssueReadSwitch(r, m)
  PROVE  IInv'
<1>a. UNCHANGED <<settings, keys, grants, history>>
  BY DEF IssueReadSwitch
<1>1. CASE Finish(r)
  BY <1>a, <1>1, FinishStep
<1>2. CASE req' = [req EXCEPT ![r] = [Idle EXCEPT !.pc = "i_trial", !.machine = m, !.late = killed]]
  <2> DEFINE f == [Idle EXCEPT !.pc = "i_trial", !.machine = m, !.late = killed]
  <2>1. killed \in SUBSET Nat /\ killed \subseteq RevokedIn(keys)
    BY KeyFields DEF IInv, TablesInv, TypeOK
  <2>2. /\ f \in Frame /\ f.pc = "i_trial" /\ f.machine = m /\ f.late = killed
    BY <2>1 DEF Idle, Frame, Pc
  <2>3. req' = [req EXCEPT ![r] = f]
    BY <1>2
  <2> HIDE DEF f
  <2>4. Others(r) /\ req'[r] = f
    BY <2>2, <2>3, TypeSplit, PutFrame DEF IInv
  <2>5. FrameInv(f, keys, grants, pools, extended)
    BY <2>1, <2>2 DEF FrameInv
  <2> QED
    BY <1>a, <2>4, <2>5, ReadStep
<1> QED
  BY <1>1, <1>2 DEF IssueReadSwitch

LEMMA TrialStep ==
  ASSUME IInv, NEW r \in Requests, IssueReadTrial(r)
  PROVE  IInv'
<1>a. UNCHANGED <<settings, keys, grants, history>> /\ req[r].pc = "i_trial"
  BY DEF IssueReadTrial, At
<1>1. CASE Goto(r, "i_grant")
  <2>1. Others(r) /\ SameMemory(r) /\ req'[r].pc = "i_grant"
    BY <1>1, GotoMoves DEF Pc, IInv
  <2>2. FrameInv(req'[r], keys, grants, pools, extended)
    BY <1>a, <2>1 DEF IInv, FramesInv, FrameInv, SameMemory, IssueSteps, Pc
  <2> QED
    BY <1>a, <2>1, <2>2, ReadStep
<1> QED
  BY <1>a, <1>1, FinishStep DEF IssueReadTrial

LEMMA FindStep ==
  ASSUME IInv, NEW r \in Requests, IssueFindGrant(r)
  PROVE  IInv'
<1>a. /\ UNCHANGED <<settings, keys, grants, history>> /\ req[r].pc = "i_grant"
      /\ FrameInv(req[r], keys, grants, pools, extended) /\ TypeOK /\ TablesInv
      /\ req[r] \in Frame
  <2>1. UNCHANGED <<settings, keys, grants, history>> /\ req[r].pc = "i_grant"
    BY Zenon DEF IssueFindGrant, At
  <2> QED
    BY <2>1, TypeSplit DEF IInv, FramesInv
<1>b. req[r].machine \in Machines /\ req[r].late \subseteq RevokedIn(keys)
  BY <1>a DEF FrameInv, IssueSteps, Pc
<1>1. ASSUME NEW g \in GrantsOf(req[r].machine),
             req' = [req EXCEPT ![r].pc = "i_key", ![r].grant = g, ![r].key = grants[g].key,
                                ![r].verdict = grants[g].status]
      PROVE  IInv'
  <2> DEFINE f == [req[r] EXCEPT !.pc = "i_key", !.grant = g, !.key = grants[g].key,
                                 !.verdict = grants[g].status]
  <2>1. /\ g \in DOMAIN grants /\ g \in Nat /\ grants[g].machine = req[r].machine
        /\ grants[g].key \in DOMAIN keys /\ grants[g].key \in Nat
        /\ grants[g].status \in {"active", "revoked", "expired"}
    BY <1>a, GrantFields, KeyFields DEF GrantsOf
  <2>2. /\ f \in Frame /\ f.pc = "i_key" /\ f.machine = req[r].machine /\ f.late = req[r].late
        /\ f.grant = g /\ f.key = grants[g].key /\ f.verdict = grants[g].status
    BY <1>a, <2>1 DEF Frame, Pc
  <2>3. req' = [req EXCEPT ![r] = f]
    BY <1>1
  <2> HIDE DEF f
  <2>4. Others(r) /\ req'[r] = f
    BY <1>a, <2>2, <2>3, TypeSplit, PutFrame
  <2>5. FrameInv(f, keys, grants, pools, extended)
    BY <1>a, <1>b, <2>1, <2>2 DEF FrameInv, TablesInv
  <2> QED
    BY <1>a, <2>4, <2>5, ReadStep
<1>2. CASE Goto(r, "i_quota")
  <2>1. Others(r) /\ SameMemory(r) /\ req'[r].pc = "i_quota"
    BY <1>2, GotoMoves DEF Pc, IInv
  <2>2. FrameInv(req'[r], keys, grants, pools, extended)
    BY <1>b, <2>1 DEF FrameInv, SameMemory
  <2> QED
    BY <1>a, <2>1, <2>2, ReadStep
<1> QED
  BY <1>1, <1>2, Zenon DEF IssueFindGrant

LEMMA KeyStep ==
  ASSUME IInv, NEW r \in Requests, IssueReadKey(r)
  PROVE  IInv'
<1> DEFINE k == req[r].key
<1>a. /\ UNCHANGED <<settings, keys, grants, history>> /\ req[r].pc = "i_key"
      /\ FrameInv(req[r], keys, grants, pools, extended) /\ TypeOK
      /\ req[r] \in Frame
  BY TypeSplit DEF IssueReadKey, At, IInv, FramesInv
<1>b. /\ req[r].machine \in Machines /\ req[r].late \subseteq RevokedIn(keys)
      /\ req[r].grant \in DOMAIN grants /\ grants[req[r].grant].machine = req[r].machine
      /\ grants[req[r].grant].key = k /\ k \in DOMAIN keys
      /\ req[r].verdict \in {"active", "revoked", "expired"}
      /\ ~extended /\ req[r].verdict # "active" => UnusableIn(k, keys, pools)
      /\ req[r].verdict = "active" =>
           grants[req[r].grant].status = "active" \/ k \in RevokedIn(keys) \/ req[r].overtaken
  BY <1>a, GrantFields, FrameFields DEF FrameInv, IssueSteps, Pc
<1>1. CASE /\ keys[k].status # "active"
           /\ req' = [req EXCEPT ![r].pc = "i_close", ![r].verdict = "revoked"]
  <2> DEFINE f == [req[r] EXCEPT !.pc = "i_close", !.verdict = "revoked"]
  <2>1. k \in RevokedIn(keys)
    BY <1>1, <1>a, <1>b, KeyFields DEF RevokedIn
  <2>2. /\ f \in Frame /\ f.pc = "i_close" /\ f.machine = req[r].machine /\ f.late = req[r].late
        /\ f.grant = req[r].grant /\ f.key = k /\ f.verdict = "revoked"
    BY <1>a DEF Frame, Pc
  <2>3. req' = [req EXCEPT ![r] = f]
    BY <1>1
  <2> HIDE DEF f
  <2>4. Others(r) /\ req'[r] = f
    BY <1>a, <2>2, <2>3, TypeSplit, PutFrame
  <2>5. FrameInv(f, keys, grants, pools, extended)
    BY <1>b, <2>1, <2>2 DEF FrameInv, UnusableIn
  <2> QED
    BY <1>a, <2>4, <2>5, ReadStep
<1>2. CASE /\ PoolOf(k).past
           /\ req' = [req EXCEPT ![r].pc = "i_close", ![r].verdict = "expired",
                                 ![r].overtaken = FALSE]
  <2> DEFINE f == [req[r] EXCEPT !.pc = "i_close", !.verdict = "expired", !.overtaken = FALSE]
  <2>2. /\ f \in Frame /\ f.pc = "i_close" /\ f.machine = req[r].machine /\ f.late = req[r].late
        /\ f.grant = req[r].grant /\ f.key = k /\ f.verdict = "expired"
    BY <1>a DEF Frame, Pc
  <2>3. req' = [req EXCEPT ![r] = f]
    BY <1>2
  <2> HIDE DEF f
  <2>4. Others(r) /\ req'[r] = f
    BY <1>a, <2>2, <2>3, TypeSplit, PutFrame
  <2>5. FrameInv(f, keys, grants, pools, extended)
    BY <1>2, <1>b, <2>2 DEF FrameInv, UnusableIn, PoolOf
  <2> QED
    BY <1>a, <2>4, <2>5, ReadStep
<1>3. ASSUME keys[k].status = "active", ~PoolOf(k).past,
             NEW step \in {"i_answer", "i_reopen"}, Goto(r, step),
             req[r].verdict = "active" <=> step = "i_answer"
      PROVE  IInv'
  <2>1. Others(r) /\ SameMemory(r) /\ req'[r].pc = step
    BY <1>a, <1>3, GotoMoves DEF Pc
  <2>2. k \notin RevokedIn(keys) /\ ~UnusableIn(k, keys, pools)
    BY <1>3 DEF RevokedIn, UnusableIn, PoolOf
  <2>3. FrameInv(req'[r], keys, grants, pools, extended)
    BY <1>3, <1>b, <2>1, <2>2 DEF FrameInv, SameMemory
  <2> QED
    BY <1>a, <2>1, <2>3, ReadStep
<1> QED
  BY <1>1, <1>2, <1>3 DEF IssueReadKey

LEMMA QuotaStep ==
  ASSUME IInv, NEW r \in Requests, IssueQuota(r)
  PROVE  IInv'
<1>a. UNCHANGED <<settings, keys, grants, history>> /\ req[r].pc = "i_quota"
  BY DEF IssueQuota, At
<1>1. CASE Goto(r, "i_candidates")
  <2>1. Others(r) /\ SameMemory(r) /\ req'[r].pc = "i_candidates"
    BY <1>1, GotoMoves DEF Pc, IInv
  <2>2. FrameInv(req'[r], keys, grants, pools, extended)
    BY <1>a, <2>1 DEF IInv, FramesInv, FrameInv, SameMemory, IssueSteps, Pc
  <2> QED
    BY <1>a, <2>1, <2>2, ReadStep
<1> QED
  BY <1>a, <1>1, FinishStep DEF IssueQuota

LEMMA CandidatesStep ==
  ASSUME IInv, NEW r \in Requests, IssueCandidates(r)
  PROVE  IInv'
<1> DEFINE found == {k \in DOMAIN keys :
                       /\ keys[k].status = "active"
                       /\ PoolOf(k).status = "active" /\ ~PoolOf(k).past
                       /\ req[r].machine \in PoolOf(k).serves}
<1>a. /\ UNCHANGED <<settings, keys, grants, history>> /\ req[r].pc = "i_candidates"
      /\ FrameInv(req[r], keys, grants, pools, extended) /\ TypeOK /\ req[r] \in Frame
  BY TypeSplit DEF IssueCandidates, At, IInv, FramesInv
<1>b. req[r].machine \in Machines /\ req[r].late \subseteq RevokedIn(keys)
  BY <1>a DEF FrameInv, IssueSteps, Pc
<1>c. found \subseteq DOMAIN keys \ RevokedIn(keys)
  BY DEF RevokedIn
<1>1. CASE req' = [req EXCEPT ![r].pc = "i_refs", ![r].candidates = found]
  <2> DEFINE f == [req[r] EXCEPT !.pc = "i_refs", !.candidates = found]
  <2>1. found \in SUBSET Nat
    BY <1>a, <1>c, KeyFields
  <2>3. req' = [req EXCEPT ![r] = f]
    BY <1>1
  <2> HIDE DEF found
  <2>2. /\ f \in Frame /\ f.pc = "i_refs" /\ f.machine = req[r].machine /\ f.late = req[r].late
        /\ f.candidates = found
    BY <1>a, <2>1 DEF Frame, Pc
  <2> HIDE DEF f
  <2>4. Others(r) /\ req'[r] = f
    BY <1>a, <2>2, <2>3, TypeSplit, PutFrame
  <2>5. FrameInv(f, keys, grants, pools, extended)
    BY <1>b, <1>c, <2>2 DEF FrameInv
  <2> QED
    BY <1>a, <2>4, <2>5, ReadStep
<1> QED
  BY <1>a, <1>1, FinishStep DEF IssueCandidates

LEMMA CountStep ==
  ASSUME IInv, NEW r \in Requests, IssueCountReferences(r)
  PROVE  IInv'
<1>a. /\ UNCHANGED <<settings, keys, grants, history>> /\ req[r].pc = "i_refs"
      /\ FrameInv(req[r], keys, grants, pools, extended) /\ TypeOK /\ req[r] \in Frame
  <2>1. UNCHANGED <<settings, keys, grants, history>> /\ req[r].pc = "i_refs"
    BY Zenon DEF IssueCountReferences, At
  <2> QED
    BY <2>1, TypeSplit DEF IInv, FramesInv
<1>b. /\ req[r].machine \in Machines /\ req[r].late \subseteq RevokedIn(keys)
      /\ req[r].candidates \subseteq DOMAIN keys \ req[r].late
  BY <1>a DEF FrameInv, IssueSteps, Pc
<1>1. ASSUME NEW k \in req[r].candidates,
             req' = [req EXCEPT ![r].pc = "i_insert", ![r].key = k, ![r].candidates = {}]
      PROVE  IInv'
  <2> DEFINE f == [req[r] EXCEPT !.pc = "i_insert", !.key = k, !.candidates = {}]
  <2>1. k \in Nat /\ k \in DOMAIN keys /\ k \notin req[r].late
    BY <1>a, <1>b, KeyFields
  <2>2. /\ f \in Frame /\ f.pc = "i_insert" /\ f.machine = req[r].machine /\ f.late = req[r].late
        /\ f.key = k
    BY <1>a, <2>1 DEF Frame, Pc
  <2>3. req' = [req EXCEPT ![r] = f]
    BY <1>1
  <2> HIDE DEF f
  <2>4. Others(r) /\ req'[r] = f
    BY <1>a, <2>2, <2>3, TypeSplit, PutFrame
  <2>5. FrameInv(f, keys, grants, pools, extended)
    BY <1>b, <2>1, <2>2 DEF FrameInv
  <2> QED
    BY <1>a, <2>4, <2>5, ReadStep
<1>2. PICK k \in Preferred(req[r].candidates) :
        IF References(k) # {} /\ ~ReuseReferenced
        THEN Finish(r)
        ELSE req' = [req EXCEPT ![r].pc = "i_insert", ![r].key = k, ![r].candidates = {}]
  BY Zenon DEF IssueCountReferences
<1>3. k \in req[r].candidates
  BY DEF Preferred
<1>4. \/ Finish(r)
      \/ req' = [req EXCEPT ![r].pc = "i_insert", ![r].key = k, ![r].candidates = {}]
  BY <1>2, Zenon
<1>5. Finish(r) => IInv'
  BY <1>a, FinishStep
<1> QED
  BY <1>1, <1>3, <1>4, <1>5, Zenon

LEMMA AnswerStep ==
  ASSUME IInv, NEW r \in Requests, IssueAnswer(r)
  PROVE  IInv'
BY FinishStep DEF IssueAnswer

\* What writing the status of one grant does to the table.
LEMMA GrantWritten ==
  ASSUME TypeOK, NEW g \in DOMAIN grants, NEW status \in {"active", "revoked", "expired"},
         grants' = [grants EXCEPT ![g].status = status]
  PROVE  /\ grants' \in Seq(GrantRow) /\ DOMAIN grants' = DOMAIN grants
         /\ \A h \in DOMAIN grants : /\ grants'[h].machine = grants[h].machine
                                     /\ grants'[h].key = grants[h].key
                                     /\ h # g => grants'[h] = grants[h]
         /\ grants'[g].status = status
<1> DEFINE row == [grants[g] EXCEPT !.status = status]
<1>1. grants[g] \in GrantRow /\ g \in 1 .. Len(grants) /\ grants \in Seq(GrantRow)
  BY GrantFields
<1>2. /\ row \in GrantRow /\ row.machine = grants[g].machine /\ row.key = grants[g].key
      /\ row.status = status
  BY <1>1 DEF GrantRow
<1>3. grants' = [grants EXCEPT ![g] = row]
  OBVIOUS
<1> HIDE DEF row
<1>4. /\ grants' \in Seq(GrantRow) /\ Len(grants') = Len(grants)
      /\ \A h \in 1 .. Len(grants) : grants'[h] = IF h = g THEN row ELSE grants[h]
  BY <1>1, <1>2, <1>3, ExceptSeq
<1>5. DOMAIN grants' = DOMAIN grants
  BY <1>3
<1> QED
  BY <1>2, <1>4, <1>5, GrantFields

\* An action on the grants that leaves their machines and keys alone.
LEMMA GrantsOnly ==
  ASSUME IInv, UNCHANGED <<settings, keys, extended>>, killed' \subseteq RevokedIn(keys),
         grants' \in Seq(GrantRow), DOMAIN grants' = DOMAIN grants,
         \A g \in DOMAIN grants :
           /\ grants'[g].machine = grants[g].machine /\ grants'[g].key = grants[g].key
           /\ ~extended /\ grants[g].status = "active" /\ grants'[g].status # "active" =>
                UnusableIn(grants[g].key, keys, pools)
  PROVE  /\ TablesTyped' /\ TablesInv' /\ Onward
         /\ keys' = keys /\ pools' = pools /\ extended' = extended
<1>a. /\ TablesTyped /\ keys' = keys /\ pools' = pools /\ extended' = extended
      /\ enabled' = enabled /\ onTrial' = onTrial /\ changes' = changes
  BY TypeSplit DEF IInv, settings
<1>1. TablesTyped'
  BY <1>a DEF TablesTyped, RevokedIn
<1>2. TablesInv'
  BY <1>a DEF TablesInv, IInv
<1>3. Onward
  BY <1>a DEF Onward
<1> QED
  BY <1>a, <1>1, <1>2, <1>3

LEMMA CloseStep ==
  ASSUME IInv, NEW r \in Requests, IssueClose(r)
  PROVE  IInv'
<1>a. /\ UNCHANGED <<settings, keys, extended>> /\ killed' = killed /\ req[r].pc = "i_close"
      /\ FrameInv(req[r], keys, grants, pools, extended) /\ TypeOK
      /\ killed \subseteq RevokedIn(keys)
  BY DEF IssueClose, At, IInv, FramesInv, TablesInv, history
<1>b. /\ req[r].grant \in DOMAIN grants /\ grants[req[r].grant].key = req[r].key
      /\ req[r].verdict \in {"active", "revoked", "expired"}
      /\ ~extended => UnusableIn(req[r].key, keys, pools)
  BY <1>a, TypeSplit, FrameFields DEF FrameInv
<1>c. req \in [Requests -> Frame]
  BY <1>a, TypeSplit
<1>1. /\ grants' \in Seq(GrantRow) /\ DOMAIN grants' = DOMAIN grants
      /\ \A h \in DOMAIN grants : /\ grants'[h].machine = grants[h].machine
                                  /\ grants'[h].key = grants[h].key
                                  /\ h # req[r].grant => grants'[h] = grants[h]
  BY <1>a, <1>b, GrantWritten DEF IssueClose
<1>2. /\ TablesTyped' /\ TablesInv' /\ Onward
      /\ keys' = keys /\ pools' = pools /\ extended' = extended
  BY <1>a, <1>b, <1>1, GrantsOnly
<1>3. ASSUME NEW q \in Requests
      PROVE  LET f == [req[q] EXCEPT !.overtaken = TRUE] IN
             /\ f \in Frame /\ f.pc = req[q].pc /\ f.machine = req[q].machine
             /\ f.grant = req[q].grant /\ f.key = req[q].key /\ f.candidates = req[q].candidates
             /\ f.verdict = req[q].verdict /\ f.late = req[q].late /\ f.overtaken = TRUE
  <2>1. req[q] \in Frame
    BY <1>c
  <2> QED
    BY <2>1 DEF Frame
<1>4. req' \in [Requests -> Frame] /\ req'[r] = Idle
  BY <1>3, <1>c, IdleFrame DEF IssueClose
<1>5. ASSUME NEW q \in Requests \ {r} PROVE Noted(q)
  <2>1. CASE req[q].grant = req[r].grant /\ req[q].pc \in {"i_key", "i_answer"}
    <3>1. req'[q] = [req[q] EXCEPT !.overtaken = TRUE]
      BY <2>1 DEF IssueClose
    <3> QED
      BY <1>2, <1>3, <3>1 DEF Noted
  <2>2. CASE ~(req[q].grant = req[r].grant /\ req[q].pc \in {"i_key", "i_answer"})
    <3>1. req'[q] = req[q]
      BY <2>2 DEF IssueClose
    <3> QED
      BY <1>1, <1>2, <2>2, <3>1 DEF Noted
  <2> QED
    BY <2>1, <2>2
<1> QED
  BY <1>2, <1>4, <1>5, IdleInv, RequestStep

LEMMA ReopenStep ==
  ASSUME IInv, NEW r \in Requests, IssueReopen(r)
  PROVE  IInv'
<1>a. /\ UNCHANGED <<settings, keys, extended>> /\ killed' = killed /\ req[r].pc = "i_reopen"
      /\ FrameInv(req[r], keys, grants, pools, extended) /\ TypeOK
      /\ killed \subseteq RevokedIn(keys)
  BY DEF IssueReopen, At, IInv, FramesInv, TablesInv, history
<1>b. /\ req[r].grant \in DOMAIN grants /\ grants[req[r].grant].key = req[r].key
      /\ grants[req[r].grant].machine = req[r].machine
      /\ req[r].machine \in Machines
      /\ req[r].late \subseteq RevokedIn(keys) /\ req[r].key \notin req[r].late
  BY <1>a DEF FrameInv, IssueSteps, Pc
<1>1. /\ grants' \in Seq(GrantRow) /\ DOMAIN grants' = DOMAIN grants
      /\ \A h \in DOMAIN grants : /\ grants'[h].machine = grants[h].machine
                                  /\ grants'[h].key = grants[h].key
                                  /\ h # req[r].grant => grants'[h] = grants[h]
      /\ grants'[req[r].grant].status = "active"
  BY <1>a, <1>b, GrantWritten DEF IssueReopen
<1>2. /\ TablesTyped' /\ TablesInv' /\ Onward
      /\ keys' = keys /\ pools' = pools /\ extended' = extended
  BY <1>a, <1>b, <1>1, GrantsOnly
<1>3. Others(r) /\ SameMemory(r) /\ req'[r].pc = "i_answer"
  BY <1>a, GotoMoves DEF Pc, IssueReopen
<1>4. FrameInv(req'[r], keys', grants', pools', extended')
  BY <1>b, <1>1, <1>2, <1>3 DEF FrameInv, SameMemory
<1>5. ASSUME NEW q \in Requests \ {r} PROVE Noted(q)
  BY <1>1, <1>2, <1>3, NothingNoted DEF Others
<1> QED
  BY <1>2, <1>3, <1>4, <1>5, RequestStep DEF Others

LEMMA InsertStep ==
  ASSUME IInv, NEW r \in Requests, IssueInsertGrant(r)
  PROVE  IInv'
<1> DEFINE n == Len(grants) + 1
           row == [machine |-> req[r].machine, key |-> req[r].key, status |-> "active"]
           f == [req[r] EXCEPT !.pc = "i_answer", !.grant = n]
<1>a. /\ UNCHANGED <<settings, keys, extended>> /\ killed' = killed /\ req[r].pc = "i_insert"
      /\ FrameInv(req[r], keys, grants, pools, extended) /\ TypeOK /\ TablesInv
      /\ req[r] \in Frame
  BY TypeSplit DEF IssueInsertGrant, At, IInv, FramesInv, history
<1>b. /\ req[r].machine \in Machines /\ req[r].key \in DOMAIN keys
      /\ req[r].late \subseteq RevokedIn(keys) /\ req[r].key \notin req[r].late
      /\ Len(grants) \in Nat /\ DOMAIN grants = 1 .. Len(grants) /\ grants \in Seq(GrantRow)
      /\ n \in Nat /\ DOMAIN keys \subseteq Nat
  BY <1>a, GrantFields, KeyFields DEF FrameInv, IssueSteps, Pc
<1>1. row \in GrantRow /\ row.machine = req[r].machine /\ row.key = req[r].key
      /\ row.status = "active"
  BY <1>b DEF GrantRow
<1>2. grants' = Append(grants, row) /\ req' = [req EXCEPT ![r] = f]
  BY DEF IssueInsertGrant
<1>3. /\ f \in Frame /\ f.pc = "i_answer" /\ f.machine = req[r].machine /\ f.late = req[r].late
      /\ f.key = req[r].key /\ f.grant = n
  BY <1>a, <1>b DEF Frame, Pc
<1> HIDE DEF row, f
<1>4. /\ grants' \in Seq(GrantRow) /\ Len(grants') = n /\ DOMAIN grants' = 1 .. n
      /\ \A g \in DOMAIN grants : grants'[g] = grants[g]
      /\ grants'[n] = row
  BY <1>b, <1>1, <1>2
<1>5. DOMAIN grants \subseteq DOMAIN grants' /\ n \in DOMAIN grants'
      /\ \A g \in DOMAIN grants' : g \in DOMAIN grants \/ g = n
  BY <1>b, <1>4
<1> HIDE DEF n
<1>6. /\ keys' = keys /\ pools' = pools /\ extended' = extended /\ enabled' = enabled
      /\ onTrial' = onTrial /\ changes' = changes
  BY <1>a DEF settings
<1>7. TablesTyped'
  BY <1>a, <1>b, <1>1, <1>4, <1>5, <1>6, TypeSplit DEF TablesTyped
<1>8. TablesInv'
  BY <1>a, <1>1, <1>4, <1>5, <1>6 DEF TablesInv
<1>9. Onward
  BY <1>4, <1>5, <1>6 DEF Onward
<1>10. Others(r) /\ req'[r] = f
  BY <1>a, <1>2, <1>3, TypeSplit, PutFrame
<1>11. FrameInv(f, keys', grants', pools', extended')
  BY <1>b, <1>1, <1>3, <1>4, <1>5, <1>6 DEF FrameInv
<1>12. ASSUME NEW q \in Requests \ {r} PROVE Noted(q)
  BY <1>4, <1>6, <1>10, NothingNoted DEF Others
<1> QED
  BY <1>7, <1>8, <1>9, <1>10, <1>11, <1>12, RequestStep DEF Others

-----------------------------------------------------------------------------
(* revokeLlmTrialKey.                                                      *)

LEMMA RevokeStep ==
  ASSUME IInv, NEW r \in Requests, NEW k \in DOMAIN keys, RevokeWriteKey(r, k)
  PROVE  IInv'
<1> DEFINE row == [keys[k] EXCEPT !.status = "revoked"]
           f == [Idle EXCEPT !.pc = "v_select", !.key = k]
<1>a. /\ enabled' = enabled /\ onTrial' = onTrial /\ pools' = pools /\ grants' = grants
      /\ killed' = killed /\ extended' = extended /\ changes' = changes + 1 /\ changes < MaxChanges
      /\ keys' = [keys EXCEPT ![k] = row] /\ req' = [req EXCEPT ![r] = f]
      /\ TypeOK /\ TablesTyped /\ TablesInv
  BY TypeSplit DEF RevokeWriteKey, Change, history, IInv
<1>b. /\ keys \in Seq(KeyRow) /\ k \in 1 .. Len(keys) /\ keys[k] \in KeyRow
      /\ DOMAIN keys = 1 .. Len(keys) /\ k \in Nat
  BY <1>a, KeyFields
<1>1. row \in KeyRow /\ row.pool = keys[k].pool /\ row.status = "revoked"
  BY <1>b DEF KeyRow
<1>2. f \in Frame /\ f.pc = "v_select" /\ f.key = k /\ f.late = {}
  BY <1>b DEF Frame, Idle, Pc
<1> HIDE DEF row, f
<1>3. /\ keys' \in Seq(KeyRow) /\ DOMAIN keys' = DOMAIN keys
      /\ \A l \in DOMAIN keys : keys'[l] = IF l = k THEN row ELSE keys[l]
  BY <1>a, <1>b, <1>1, ExceptSeq
<1>4. RevokedIn(keys') = RevokedIn(keys) \union {k}
  BY <1>1, <1>3 DEF RevokedIn
<1>5. \A l \in DOMAIN keys : keys'[l].pool = keys[l].pool
  BY <1>1, <1>3
<1>6. changes' \in 0 .. MaxChanges
  BY <1>a, BoundsAssumption DEF TablesTyped
<1>7. TablesTyped'
  BY <1>a, <1>3, <1>6 DEF TablesTyped
<1>8. TablesInv'
  BY <1>a, <1>4, <1>5 DEF TablesInv, UnusableIn, TablesTyped
<1>9. Onward
  BY <1>a, <1>3, <1>4, <1>5 DEF Onward
<1>10. Others(r) /\ req'[r] = f
  BY <1>a, <1>2, TypeSplit, PutFrame
<1>11. FrameInv(f, keys', grants', pools', extended')
  BY <1>2, <1>4 DEF FrameInv, IssueSteps
<1>12. ASSUME NEW q \in Requests \ {r} PROVE Noted(q)
  BY <1>a, <1>10, NothingNoted DEF Others
<1> QED
  BY <1>7, <1>8, <1>9, <1>10, <1>11, <1>12, RequestStep DEF Others

LEMMA SelectStep ==
  ASSUME IInv, NEW r \in Requests, RevokeSelectGrants(r)
  PROVE  IInv'
<1>a. /\ UNCHANGED <<settings, keys, extended>> /\ grants' = grants /\ req[r].pc = "v_select"
      /\ FrameInv(req[r], keys, grants, pools, extended) /\ TypeOK
      /\ killed' \subseteq killed \union {req[r].key}
      /\ killed \subseteq RevokedIn(keys)
  BY DEF RevokeSelectGrants, At, IInv, FramesInv, TablesInv
<1>b. req[r].key \in RevokedIn(keys) /\ req[r].late \subseteq RevokedIn(keys)
  BY <1>a DEF FrameInv
<1>1. /\ TablesTyped' /\ TablesInv' /\ Onward
      /\ keys' = keys /\ pools' = pools /\ extended' = extended
  BY <1>a, <1>b, GrantsOnly DEF TypeOK
<1>2. Others(r) /\ FrameInv(req'[r], keys', grants', pools', extended')
  <2>1. CASE Finish(r)
    BY <1>a, <2>1, FinishMoves, IdleInv
  <2>2. CASE Goto(r, "v_update")
    <3>1. Others(r) /\ SameMemory(r) /\ req'[r].pc = "v_update"
      BY <1>a, <2>2, GotoMoves DEF Pc
    <3> QED
      BY <1>1, <1>b, <3>1 DEF FrameInv, SameMemory, IssueSteps
  <2> QED
    BY <2>1, <2>2 DEF RevokeSelectGrants
<1>3. ASSUME NEW q \in Requests \ {r} PROVE Noted(q)
  BY <1>a, <1>1, <1>2, NothingNoted DEF Others
<1> QED
  BY <1>1, <1>2, <1>3, RequestStep DEF Others

\* The grants that refer to the key are closed, all in one statement.
LEMMA GrantsRevoked ==
  ASSUME TypeOK, NEW k,
         grants' = [g \in DOMAIN grants |->
                      IF g \in References(k) THEN [grants[g] EXCEPT !.status = "revoked"]
                      ELSE grants[g]]
  PROVE  /\ grants' \in Seq(GrantRow) /\ DOMAIN grants' = DOMAIN grants
         /\ \A g \in DOMAIN grants :
              /\ grants'[g].machine = grants[g].machine /\ grants'[g].key = grants[g].key
              /\ grants[g].key # k => grants'[g] = grants[g]
              /\ grants'[g].status = "active" => grants[g].status = "active"
<1> DEFINE Row(g) == IF g \in References(k) THEN [grants[g] EXCEPT !.status = "revoked"]
                     ELSE grants[g]
<1>1. ASSUME NEW g \in DOMAIN grants
      PROVE  /\ Row(g) \in GrantRow
             /\ Row(g).machine = grants[g].machine /\ Row(g).key = grants[g].key
             /\ grants[g].key # k => Row(g) = grants[g]
             /\ Row(g).status = "active" => grants[g].status = "active"
  <2>1. grants[g] \in GrantRow /\ (g \in References(k) => grants[g].key = k)
    BY GrantFields DEF References
  <2> QED
    BY <2>1 DEF GrantRow
<1>2. grants' = [g \in 1 .. Len(grants) |-> Row(g)] /\ DOMAIN grants = 1 .. Len(grants)
      /\ Len(grants) \in Nat
  BY GrantFields
<1> HIDE DEF Row
<1>3. DOMAIN grants' = DOMAIN grants /\ \A g \in DOMAIN grants : grants'[g] = Row(g)
  BY <1>2
<1>4. grants' \in Seq(GrantRow)
  BY <1>1, <1>2
<1> QED
  BY <1>1, <1>3, <1>4

LEMMA UpdateStep ==
  ASSUME IInv, NEW r \in Requests, RevokeUpdateGrants(r)
  PROVE  IInv'
<1>a. /\ UNCHANGED <<settings, keys, extended>> /\ req[r].pc = "v_update"
      /\ FrameInv(req[r], keys, grants, pools, extended) /\ TypeOK
      /\ killed' = killed \union {req[r].key}
      /\ killed \subseteq RevokedIn(keys) /\ Finish(r)
  BY DEF RevokeUpdateGrants, At, IInv, FramesInv, TablesInv
<1>b. req[r].key \in RevokedIn(keys)
  BY <1>a DEF FrameInv
<1>1. /\ grants' \in Seq(GrantRow) /\ DOMAIN grants' = DOMAIN grants
      /\ \A g \in DOMAIN grants :
           /\ grants'[g].machine = grants[g].machine /\ grants'[g].key = grants[g].key
           /\ grants[g].key # req[r].key => grants'[g] = grants[g]
  BY <1>a, GrantsRevoked DEF RevokeUpdateGrants
<1>2. /\ TablesTyped' /\ TablesInv' /\ Onward
      /\ keys' = keys /\ pools' = pools /\ extended' = extended
  BY <1>a, <1>b, <1>1, GrantsOnly DEF UnusableIn
<1>3. Others(r) /\ req'[r] = Idle
  BY <1>a, FinishMoves
<1>4. ASSUME NEW q \in Requests \ {r} PROVE Noted(q)
  BY <1>b, <1>1, <1>2, <1>3, NothingNoted DEF Others
<1> QED
  BY <1>2, <1>3, <1>4, IdleInv, RequestStep DEF Others

-----------------------------------------------------------------------------
(* The administrator's settings, time and crashes.                         *)

LEMMA ChangeType ==
  ASSUME TypeOK, Change
  PROVE  changes' \in 0 .. MaxChanges
BY BoundsAssumption DEF TypeOK, Change

\* Switches and terms: the keys and the grants stay as they are.
LEMMA TermsStep ==
  ASSUME IInv, UNCHANGED <<keys, grants, req, history>>, enabled' \in BOOLEAN,
         onTrial' \subseteq Machines, pools' \in [Pools -> PoolRow], changes' \in 0 .. MaxChanges,
         \A p \in Pools : pools[p].past => pools'[p].past
  PROVE  IInv'
<1>a. /\ keys' = keys /\ grants' = grants /\ req' = req /\ killed' = killed
      /\ extended' = extended /\ TypeOK /\ TablesInv
  BY DEF history, IInv
<1>1. TablesTyped'
  BY <1>a, TypeSplit DEF TablesTyped
<1>2. TablesInv'
  BY <1>a, KeyFields, GrantFields DEF TablesInv, UnusableIn
<1>3. Onward
  BY <1>a DEF Onward
<1>4. \A q \in Requests : Noted(q)
  BY <1>a, NothingNoted
<1> QED
  BY <1>1, <1>2, <1>3, <1>4, <1>a, TypeSplit, SettingsStep

LEMMA AddKeyStep ==
  ASSUME IInv, NEW p \in Pools, AddKey(p)
  PROVE  IInv'
<1>a. /\ UNCHANGED <<settings, grants, req, history>> /\ TypeOK /\ TablesTyped /\ TablesInv
      /\ grants' = grants /\ req' = req /\ killed' = killed /\ extended' = extended
      /\ pools' = pools /\ enabled' = enabled /\ onTrial' = onTrial /\ changes' = changes
  BY TypeSplit DEF AddKey, IInv, settings, history
<1>b. keys \in Seq(KeyRow) /\ Len(keys) \in Nat /\ DOMAIN keys = 1 .. Len(keys)
  BY <1>a, KeyFields
<1>1. PICK row \in KeyRow : keys' = Append(keys, row)
  <2>1. PICK second \in IF keys = <<>> THEN {0}
                        ELSE {keys[Len(keys)].createdAt, keys[Len(keys)].createdAt + 1} :
          keys' = Append(keys, [pool |-> p, status |-> "active", createdAt |-> second])
    BY Zenon DEF AddKey
  <2>2. keys # <<>> => Len(keys) \in DOMAIN keys
    BY <1>b, EmptySeq
  <2>3. second \in Nat
    BY <1>a, <2>1, <2>2, KeyFields
  <2>4. [pool |-> p, status |-> "active", createdAt |-> second] \in KeyRow
    BY <2>3 DEF KeyRow
  <2> QED
    BY <2>1, <2>4
<1>2. /\ keys' \in Seq(KeyRow) /\ DOMAIN keys' = 1 .. Len(keys) + 1
      /\ \A k \in DOMAIN keys : keys'[k] = keys[k]
  BY <1>b, <1>1
<1>3. DOMAIN keys \subseteq DOMAIN keys'
  BY <1>b, <1>2
<1>4. RevokedIn(keys) \subseteq RevokedIn(keys')
  BY <1>2, <1>3 DEF RevokedIn
<1>5. TablesTyped'
  BY <1>a, <1>2, <1>3 DEF TablesTyped
<1>6. TablesInv'
  BY <1>a, <1>2, <1>4, GrantFields DEF TablesInv, UnusableIn
<1>7. Onward
  BY <1>a, <1>2, <1>3, <1>4 DEF Onward
<1>8. \A q \in Requests : Noted(q)
  BY <1>a, NothingNoted
<1> QED
  BY <1>a, <1>5, <1>6, <1>7, <1>8, TypeSplit, SettingsStep

LEMMA ExtendStep ==
  ASSUME IInv, NEW p \in Pools, ExtendPool(p)
  PROVE  IInv'
<1>a. /\ keys' = keys /\ grants' = grants /\ killed' = killed /\ extended' = TRUE
      /\ pools' = [pools EXCEPT ![p].past = FALSE] /\ enabled' = enabled /\ onTrial' = onTrial
      /\ Change /\ TypeOK /\ TablesTyped /\ TablesInv /\ req \in [Requests -> Frame]
  BY TypeSplit DEF ExtendPool, IInv
<1>1. pools' \in [Pools -> PoolRow]
  BY <1>a, PoolFields DEF PoolRow
<1>2. TablesTyped'
  BY <1>a, <1>1, ChangeType DEF TablesTyped
<1>3. TablesInv'
  BY <1>a DEF TablesInv
<1>4. Onward
  BY <1>a DEF Onward
<1>5. ASSUME NEW q \in Requests
      PROVE  LET f == [req[q] EXCEPT !.overtaken = TRUE] IN
             /\ f \in Frame /\ f.pc = req[q].pc /\ f.machine = req[q].machine
             /\ f.grant = req[q].grant /\ f.key = req[q].key /\ f.candidates = req[q].candidates
             /\ f.verdict = req[q].verdict /\ f.late = req[q].late /\ f.overtaken = TRUE
  <2>1. req[q] \in Frame
    BY <1>a
  <2> QED
    BY <2>1 DEF Frame
<1>6. req' \in [Requests -> Frame]
  BY <1>5, <1>a DEF ExtendPool
<1>7. ASSUME NEW q \in Requests PROVE Noted(q)
  <2>1. CASE req[q].pc = "i_close"
    <3>1. req'[q] = [req[q] EXCEPT !.overtaken = TRUE]
      BY <2>1 DEF ExtendPool, At
    <3> QED
      BY <1>a, <1>5, <2>1, <3>1 DEF Noted
  <2>2. CASE req[q].pc # "i_close"
    <3>1. req'[q] = req[q]
      BY <2>2 DEF ExtendPool, At
    <3> QED
      BY <1>a, <2>2, <3>1 DEF Noted
  <2> QED
    BY <2>1, <2>2
<1> QED
  BY <1>2, <1>3, <1>4, <1>6, <1>7, SettingsStep

LEMMA CrashStep ==
  ASSUME IInv, NEW r \in Requests, Crash(r)
  PROVE  IInv'
<1>a. /\ keys' = keys /\ grants' = grants /\ killed' = killed /\ extended' = extended
      /\ pools' = pools /\ enabled' = enabled /\ onTrial' = onTrial
      /\ Change /\ TypeOK /\ TablesTyped /\ TablesInv /\ Finish(r)
  BY TypeSplit DEF Crash, IInv, history
<1>1. TablesTyped' /\ TablesInv' /\ Onward
  BY <1>a, ChangeType DEF TablesTyped, TablesInv, UnusableIn, Onward
<1>2. Others(r) /\ req'[r] = Idle
  BY <1>a, FinishMoves
<1>3. ASSUME NEW q \in Requests \ {r} PROVE Noted(q)
  BY <1>a, <1>2, NothingNoted DEF Others
<1> QED
  BY <1>1, <1>2, <1>3, IdleInv, RequestStep DEF Others

-----------------------------------------------------------------------------

LEMMA InvInit == Init => IInv
<1> SUFFICES ASSUME Init PROVE IInv
  OBVIOUS
<1>1. NewPool \in PoolRow
  BY DEF NewPool, PoolRow
<1>2. <<>> \in Seq(KeyRow) /\ <<>> \in Seq(GrantRow) /\ DOMAIN <<>> = {}
  OBVIOUS
<1>3. TypeOK
  <2>1. pools \in [Pools -> PoolRow] /\ req \in [Requests -> Frame]
    BY <1>1, IdleFrame DEF Init
  <2>2. keys \in Seq(KeyRow) /\ grants \in Seq(GrantRow) /\ DOMAIN grants = {}
    BY <1>2 DEF Init
  <2>3. 0 \in 0 .. MaxChanges
    BY BoundsAssumption
  <2> QED
    BY <2>1, <2>2, <2>3 DEF Init, TypeOK
<1>4. TablesInv
  BY <1>2 DEF Init, TablesInv
<1>5. FramesInv
  BY IdleInv DEF Init, FramesInv
<1> QED
  BY <1>3, <1>4, <1>5 DEF IInv

LEMMA InvStep ==
  ASSUME IInv, [Next]_vars
  PROVE  IInv'
<1>a. TypeOK
  BY DEF IInv
<1>1. ASSUME NEW r \in Requests, Issue(r) PROVE IInv'
  BY <1>1, SwitchStep, TrialStep, FindStep, KeyStep, CloseStep, ReopenStep, QuotaStep,
     CandidatesStep, CountStep, InsertStep, AnswerStep DEF Issue
<1>2. ASSUME NEW r \in Requests, Revoke(r) PROVE IInv'
  BY <1>2, RevokeStep, SelectStep, UpdateStep DEF Revoke
<1>3. ASSUME NEW b \in BOOLEAN, WriteEnabled(b) PROVE IInv'
  BY <1>3, <1>a, ChangeType, TermsStep DEF WriteEnabled, TypeOK
<1>4. ASSUME NEW p \in Pools, NEW status \in {"active", "disabled"}, SetPoolStatus(p, status)
      PROVE  IInv'
  <2>1. pools' \in [Pools -> PoolRow] /\ \A q \in Pools : pools'[q].past = pools[q].past
    BY <1>4, <1>a, PoolFields DEF SetPoolStatus, PoolRow
  <2> QED
    BY <1>4, <1>a, <2>1, ChangeType, TermsStep DEF SetPoolStatus, TypeOK
<1>5. ASSUME NEW p \in Pools, NEW served \in SUBSET Machines, FilterPool(p, served)
      PROVE  IInv'
  <2>1. pools' \in [Pools -> PoolRow] /\ \A q \in Pools : pools'[q].past = pools[q].past
    BY <1>5, <1>a, PoolFields DEF FilterPool, PoolRow
  <2> QED
    BY <1>5, <1>a, <2>1, ChangeType, TermsStep DEF FilterPool, TypeOK
<1>6. ASSUME NEW p \in Pools, PoolExpires(p) PROVE IInv'
  <2>1. pools' \in [Pools -> PoolRow] /\ \A q \in Pools : pools[q].past => pools'[q].past
    BY <1>6, <1>a, PoolFields DEF PoolExpires, PoolRow
  <2> QED
    BY <1>6, <1>a, <2>1, ChangeType, TermsStep DEF PoolExpires, TypeOK
<1>7. ASSUME NEW m \in Machines, TrialEnds(m) PROVE IInv'
  BY <1>7, <1>a, ChangeType, TermsStep DEF TrialEnds, TypeOK
<1>8. CASE UNCHANGED vars
  BY <1>8, <1>a, TermsStep DEF vars, history, TypeOK
<1> QED
  BY <1>1, <1>2, <1>3, <1>4, <1>5, <1>6, <1>7, <1>8, AddKeyStep, ExtendStep, CrashStep DEF Next

\* Rows and frames hold values of their types, and a grant refers to a key that exists,
\* whatever the requests, the administrators and the crashes do in between.
THEOREM TypeCorrect == Spec => []TypeOK
<1>1. IInv => TypeOK
  BY DEF IInv
<1>2. IInv /\ [Next]_vars => IInv'
  BY InvStep
<1> QED
  BY InvInit, <1>1, <1>2, PTL DEF Spec

\* Once revokeLlmTrialKey has run to its end no request that begins later is answered with the
\* key, although the request reads the key, the pool and the grants one after the other
\* and writes its grant after all of them.
THEOREM NoProfileAfterRevokeTheorem == Spec => []NoProfileAfterRevoke
<1>1. IInv => NoProfileAfterRevoke
  BY DEF IInv, FramesInv, FrameInv, NoProfileAfterRevoke, At
<1>2. IInv /\ [Next]_vars => IInv'
  BY InvStep
<1> QED
  BY InvInit, <1>1, <1>2, PTL DEF Spec

\* A machine that is answered with a usable key has a live grant on it, so that the key counts
\* as taken, unless somebody else closed that grant while the answer was on its way.
THEOREM AnswerCountedTheorem == Spec => []AnswerCounted
<1>1. IInv => AnswerCounted
  <2> SUFFICES ASSUME IInv, NEW r \in Requests, At(r, "i_answer"),
                      keys[req[r].key].status # "revoked", ~req[r].overtaken
               PROVE  LiveGrants(GrantsOf(req[r].machine)) \cap References(req[r].key) # {}
    BY DEF AnswerCounted
  <2>1. FrameInv(req[r], keys, grants, pools, extended) /\ req[r].pc = "i_answer"
    BY DEF IInv, FramesInv, At
  <2>2. /\ req[r].grant \in DOMAIN grants /\ grants[req[r].grant].machine = req[r].machine
        /\ grants[req[r].grant].key = req[r].key
        /\ grants[req[r].grant].status = "active" \/ req[r].key \in RevokedIn(keys)
    BY <2>1 DEF FrameInv
  <2>3. grants[req[r].grant].status = "active"
    BY <2>2 DEF RevokedIn
  <2>4. req[r].grant \in LiveGrants(GrantsOf(req[r].machine)) \cap References(req[r].key)
    BY <2>2, <2>3 DEF LiveGrants, GrantsOf, References
  <2> QED
    BY <2>4
<1>2. IInv /\ [Next]_vars => IInv'
  BY InvStep
<1> QED
  BY InvInit, <1>1, <1>2, PTL DEF Spec

\* The actions that leave the grants' rows as they are, or only add one.
LEMMA GrantsStay ==
  ASSUME IInv, [Next]_vars, NEW g \in DOMAIN grants
  PROVE  \/ grants'[g] = grants[g]
         \/ \E r \in Requests : IssueClose(r) \/ IssueReopen(r) \/ RevokeUpdateGrants(r)
<1>a. DOMAIN grants = 1 .. Len(grants) /\ grants \in Seq(GrantRow) /\ Len(grants) \in Nat
  BY GrantFields DEF IInv
<1>1. ASSUME NEW r \in Requests, Issue(r), ~IssueClose(r), ~IssueReopen(r)
      PROVE  grants'[g] = grants[g]
  <2>1. CASE IssueInsertGrant(r)
    BY <1>a, <2>1 DEF IssueInsertGrant
  <2>2. CASE IssueFindGrant(r)
    BY <2>2, Zenon DEF IssueFindGrant
  <2>3. CASE IssueCountReferences(r)
    BY <2>3, Zenon DEF IssueCountReferences
  <2>4. ASSUME NEW m \in Machines, IssueReadSwitch(r, m) PROVE grants'[g] = grants[g]
    BY <2>4 DEF IssueReadSwitch
  <2>5. CASE IssueReadTrial(r) \/ IssueReadKey(r) \/ IssueQuota(r) \/ IssueAnswer(r)
    BY <2>5 DEF IssueReadTrial, IssueReadKey, IssueQuota, IssueAnswer
  <2>6. CASE IssueCandidates(r)
    BY <2>6, Zenon DEF IssueCandidates
  <2> QED
    BY <1>1, <2>1, <2>2, <2>3, <2>4, <2>5, <2>6, Zenon DEF Issue
<1>2. ASSUME NEW r \in Requests, Revoke(r), ~RevokeUpdateGrants(r) PROVE grants'[g] = grants[g]
  <2>1. ASSUME NEW k \in DOMAIN keys, RevokeWriteKey(r, k) PROVE grants'[g] = grants[g]
    BY <2>1, Zenon DEF RevokeWriteKey
  <2>2. CASE RevokeSelectGrants(r)
    BY <2>2, Zenon DEF RevokeSelectGrants
  <2> QED
    BY <1>2, <2>1, <2>2, Zenon DEF Revoke
<1>3. ASSUME NEW p \in Pools, AddKey(p) PROVE grants'[g] = grants[g]
  BY <1>3, Zenon DEF AddKey
<1> QED
  BY <1>1, <1>2, <1>3 DEF Next, Crash, WriteEnabled, SetPoolStatus, FilterPool, ExtendPool,
                          PoolExpires, TrialEnds, vars

\* A machine loses its grant only because the key was revoked or the pool has expired, or
\* through a request that read the pool before it was extended; never because the pool was
\* disabled, its filters were changed or the trial has ended.
THEOREM CutOffOnlyTheorem == Spec => CutOffOnly
<1> DEFINE CutOff ==
      \A g \in DOMAIN grants :
         grants[g].status = "active" /\ grants'[g].status # "active" =>
            \/ keys[grants[g].key].status = "revoked"
            \/ PoolOf(grants[g].key).past
            \/ \E r \in Requests : At(r, "i_close") /\ req[r].grant = g /\ req[r].overtaken
<1>1. ASSUME IInv, [Next]_vars PROVE CutOff
  <2> SUFFICES ASSUME NEW g \in DOMAIN grants,
                      grants[g].status = "active", grants'[g].status # "active"
               PROVE  \/ keys[grants[g].key].status = "revoked"
                      \/ PoolOf(grants[g].key).past
                      \/ \E r \in Requests :
                           At(r, "i_close") /\ req[r].grant = g /\ req[r].overtaken
    OBVIOUS
  <2>1. PICK r \in Requests : IssueClose(r) \/ IssueReopen(r) \/ RevokeUpdateGrants(r)
    BY <1>1, GrantsStay
  <2>2. FrameInv(req[r], keys, grants, pools, extended) /\ TypeOK
    BY <1>1 DEF IInv, FramesInv
  <2>3. CASE IssueClose(r)
    <3>1. /\ req[r].pc = "i_close" /\ req[r].grant \in DOMAIN grants
          /\ grants[req[r].grant].key = req[r].key
          /\ req[r].verdict \in {"revoked", "expired"}
          /\ req[r].verdict = "revoked" => req[r].key \in RevokedIn(keys)
          /\ req[r].verdict = "expired" => PoolOf(req[r].key).past \/ req[r].overtaken
      BY <2>2, <2>3, TypeSplit, FrameFields DEF IssueClose, At, FrameInv, PoolOf
    <3>2. req[r].grant = g
      BY <2>3 DEF IssueClose
    <3> QED
      BY <3>1, <3>2 DEF At, RevokedIn
  <2>4. CASE IssueReopen(r)
    <3>1. req[r].grant \in DOMAIN grants
      BY <2>2, <2>4 DEF IssueReopen, At, FrameInv
    <3>2. grants'[g].status = "active"
      BY <2>2, <2>4, <3>1, GrantWritten DEF IssueReopen
    <3> QED
      BY <3>2
  <2>5. CASE RevokeUpdateGrants(r)
    <3>1. req[r].key \in RevokedIn(keys)
      BY <2>2, <2>5 DEF RevokeUpdateGrants, At, FrameInv
    <3>2. grants[g].key = req[r].key
      BY <2>2, <2>5, GrantsRevoked DEF RevokeUpdateGrants
    <3> QED
      BY <3>1, <3>2 DEF RevokedIn
  <2> QED
    BY <2>1, <2>3, <2>4, <2>5
<1>2. IInv /\ [Next]_vars => IInv' /\ [CutOff]_vars
  BY <1>1, InvStep
<1> QED
  BY InvInit, <1>2, PTL DEF Spec, CutOffOnly

(***************************************************************************)
(* Counting: how many grants a machine gets, and how many machines a key.  *)
(***************************************************************************)

Granting == {"i_quota", "i_candidates", "i_refs", "i_insert"}

Stays(q) ==
    req'[q].pc = req[q].pc /\ req'[q].machine = req[q].machine /\ req'[q].key = req[q].key

\* No grant is added, none changes hands, and none is reopened unless a pool was extended.
GrantsKept ==
    /\ DOMAIN grants' = DOMAIN grants
    /\ \A g \in DOMAIN grants :
         /\ grants'[g].machine = grants[g].machine /\ grants'[g].key = grants[g].key
         /\ grants'[g].status = "active" => grants[g].status = "active" \/ extended

\* A request enters the steps that lead to a grant when its machine has none, it goes on
\* through them, to a key that nobody refers to if keys are not reused, and adds one row.
Enters(r) ==
    /\ GrantsKept /\ req'[r].pc = "i_quota" /\ req'[r].machine = req[r].machine
    /\ GrantsOf(req[r].machine) = {}
Continues(r) ==
    /\ GrantsKept /\ req[r].pc \in Granting /\ req'[r].pc \in Granting
    /\ req'[r].machine = req[r].machine
    /\ req'[r].pc = "i_insert" => References(req'[r].key) = {} \/ ReuseReferenced
Inserts(r) ==
    /\ req[r].pc = "i_insert" /\ req'[r].pc = "i_answer"
    /\ grants' = Append(grants, [machine |-> req[r].machine, key |-> req[r].key,
                                 status |-> "active"])
Leaves(r) == GrantsKept /\ req'[r].pc \notin Granting

Moves(r) ==
    /\ \A q \in Requests \ {r} : Stays(q)
    /\ Leaves(r) \/ Enters(r) \/ Continues(r) \/ Inserts(r)

LEMMA OthersStay ==
  ASSUME NEW r \in Requests, Others(r)
  PROVE  \A q \in Requests \ {r} : Stays(q)
BY DEF Others, Stays

LEMMA SameGrants == ASSUME grants' = grants PROVE GrantsKept
BY DEF GrantsKept

LEMMA FinishLeaves ==
  ASSUME TypeOK, NEW r \in Requests, Finish(r), GrantsKept
  PROVE  Moves(r)
BY FinishMoves, OthersStay, IdleFrame DEF Moves, Leaves, Granting

LEMMA GotoLeaves ==
  ASSUME TypeOK, NEW r \in Requests, NEW step \in Pc \ Granting, Goto(r, step), GrantsKept
  PROVE  Moves(r)
BY GotoMoves, OthersStay DEF Moves, Leaves

LEMMA GotoContinues ==
  ASSUME TypeOK, NEW r \in Requests, NEW step \in Granting \ {"i_insert"}, req[r].pc \in Granting,
         Goto(r, step), GrantsKept
  PROVE  Moves(r)
<1>1. step \in Pc
  BY DEF Granting, Pc
<1> QED
  BY <1>1, GotoMoves, OthersStay DEF Moves, Continues, SameMemory

LEMMA IssueMoves ==
  ASSUME IInv, NEW r \in Requests, Issue(r)
  PROVE  Moves(r)
<1>a. TypeOK /\ req \in [Requests -> Frame] /\ req[r] \in Frame
  BY TypeSplit DEF IInv
<1>b. FrameInv(req[r], keys, grants, pools, extended)
  BY DEF IInv, FramesInv
<1>c. /\ {"i_trial", "i_grant", "i_key", "i_close", "i_answer", "i_reopen"} \subseteq Pc \ Granting
      /\ {"i_quota", "i_candidates"} \subseteq Granting \ {"i_insert"}
      /\ Granting \subseteq Pc
  BY DEF Pc, Granting
<1>d. ASSUME NEW f \in Frame, req' = [req EXCEPT ![r] = f], f.pc \notin Granting, GrantsKept
      PROVE  Moves(r)
  <2>1. Others(r) /\ req'[r] = f
    BY <1>a, <1>d, PutFrame
  <2> QED
    BY <1>d, <2>1, OthersStay DEF Moves, Leaves
<1>1. ASSUME NEW m \in Machines, IssueReadSwitch(r, m) PROVE Moves(r)
  <2>1. GrantsKept
    BY <1>1, SameGrants DEF IssueReadSwitch
  <2>2. CASE req' = [req EXCEPT ![r] = [Idle EXCEPT !.pc = "i_trial", !.machine = m,
                                                    !.late = killed]]
    <3> DEFINE f == [Idle EXCEPT !.pc = "i_trial", !.machine = m, !.late = killed]
    <3>1. killed \in SUBSET Nat
      BY KeyFields DEF IInv, TypeOK
    <3>2. f \in Frame /\ f.pc = "i_trial"
      BY <3>1 DEF Idle, Frame, Pc
    <3>3. req' = [req EXCEPT ![r] = f] /\ "i_trial" \notin Granting
      BY <2>2, <1>c
    <3> HIDE DEF f
    <3> QED
      BY <1>d, <2>1, <3>2, <3>3
  <2> QED
    BY <1>1, <1>a, <2>1, <2>2, FinishLeaves DEF IssueReadSwitch
<1>2. CASE IssueReadTrial(r)
  BY <1>2, <1>a, <1>c, SameGrants, FinishLeaves, GotoLeaves DEF IssueReadTrial
<1>3. CASE IssueFindGrant(r)
  <2>1. grants' = grants
    BY <1>3, Zenon DEF IssueFindGrant
  <2>2. ASSUME NEW g \in GrantsOf(req[r].machine),
               req' = [req EXCEPT ![r].pc = "i_key", ![r].grant = g, ![r].key = grants[g].key,
                                  ![r].verdict = grants[g].status]
        PROVE  Moves(r)
    <3> DEFINE f == [req[r] EXCEPT !.pc = "i_key", !.grant = g, !.key = grants[g].key,
                                   !.verdict = grants[g].status]
    <3>1. /\ g \in Nat /\ grants[g].key \in Nat
          /\ grants[g].status \in {"active", "revoked", "expired"}
      BY <1>a, GrantFields, KeyFields DEF GrantsOf
    <3>2. f \in Frame /\ f.pc = "i_key"
      BY <1>a, <3>1 DEF Frame, Pc
    <3>3. req' = [req EXCEPT ![r] = f] /\ "i_key" \notin Granting
      BY <2>2, <1>c
    <3> HIDE DEF f
    <3> QED
      BY <1>d, <2>1, <3>2, <3>3, SameGrants
  <2>3. ASSUME GrantsOf(req[r].machine) = {}, Goto(r, "i_quota") PROVE Moves(r)
    <3>1. Others(r) /\ SameMemory(r) /\ req'[r].pc = "i_quota"
      BY <1>a, <1>c, <2>3, GotoMoves
    <3> QED
      BY <2>1, <2>3, <3>1, OthersStay, SameGrants DEF Moves, Enters, SameMemory
  <2> QED
    BY <1>3, <2>2, <2>3, Zenon DEF IssueFindGrant
<1>4. CASE IssueReadKey(r)
  <2>1. GrantsKept
    BY <1>4, SameGrants DEF IssueReadKey
  <2>2. CASE req' = [req EXCEPT ![r].pc = "i_close", ![r].verdict = "revoked"]
    <3> DEFINE f == [req[r] EXCEPT !.pc = "i_close", !.verdict = "revoked"]
    <3>1. f \in Frame /\ f.pc = "i_close"
      BY <1>a DEF Frame, Pc
    <3>2. req' = [req EXCEPT ![r] = f] /\ "i_close" \notin Granting
      BY <2>2, <1>c
    <3> HIDE DEF f
    <3> QED
      BY <1>d, <2>1, <3>1, <3>2
  <2>3. CASE req' = [req EXCEPT ![r].pc = "i_close", ![r].verdict = "expired",
                                ![r].overtaken = FALSE]
    <3> DEFINE f == [req[r] EXCEPT !.pc = "i_close", !.verdict = "expired", !.overtaken = FALSE]
    <3>1. f \in Frame /\ f.pc = "i_close"
      BY <1>a DEF Frame, Pc
    <3>2. req' = [req EXCEPT ![r] = f] /\ "i_close" \notin Granting
      BY <2>3, <1>c
    <3> HIDE DEF f
    <3> QED
      BY <1>d, <2>1, <3>1, <3>2
  <2> QED
    BY <1>4, <1>a, <1>c, <2>1, <2>2, <2>3, GotoLeaves DEF IssueReadKey
<1>5. CASE IssueClose(r)
  <2>1. /\ req[r].pc = "i_close" /\ req[r].grant \in DOMAIN grants
        /\ req[r].verdict \in {"revoked", "expired"}
    BY <1>5, <1>a, <1>b, FrameFields DEF IssueClose, At, FrameInv
  <2>2. GrantsKept
    BY <1>5, <1>a, <2>1, GrantWritten DEF IssueClose, GrantsKept
  <2>3. req'[r].pc = "idle"
    BY <1>5, IdleFrame DEF IssueClose
  <2>4. ASSUME NEW q \in Requests \ {r} PROVE Stays(q)
    <3>1. req[q] \in Frame
      BY <1>a
    <3>2. req'[q] = req[q] \/ req'[q] = [req[q] EXCEPT !.overtaken = TRUE]
      BY <1>5 DEF IssueClose
    <3> QED
      BY <3>1, <3>2 DEF Stays, Frame
  <2> QED
    BY <2>2, <2>3, <2>4 DEF Moves, Leaves, Granting
<1>6. CASE IssueReopen(r)
  <2>1. req[r].pc = "i_reopen" /\ req[r].grant \in DOMAIN grants /\ extended
    BY <1>6, <1>a, <1>b DEF IssueReopen, At, FrameInv
  <2>2. GrantsKept
    BY <1>6, <1>a, <2>1, GrantWritten DEF IssueReopen, GrantsKept
  <2> QED
    BY <1>6, <1>a, <1>c, <2>2, GotoLeaves DEF IssueReopen
<1>7. CASE IssueQuota(r)
  <2>1. grants' = grants /\ req[r].pc \in Granting
    BY <1>7 DEF IssueQuota, At, Granting
  <2>2. Finish(r) \/ Goto(r, "i_candidates")
    BY <1>7, Zenon DEF IssueQuota
  <2> QED
    BY <1>a, <1>c, <2>1, <2>2, SameGrants, FinishLeaves, GotoContinues
<1>8. CASE IssueCandidates(r)
  <2> DEFINE found == {k \in DOMAIN keys :
                         /\ keys[k].status = "active"
                         /\ PoolOf(k).status = "active" /\ ~PoolOf(k).past
                         /\ req[r].machine \in PoolOf(k).serves}
             f == [req[r] EXCEPT !.pc = "i_refs", !.candidates = found]
  <2>1. grants' = grants /\ req[r].pc \in Granting
    BY <1>8, Zenon DEF IssueCandidates, At, Granting
  <2>2. Finish(r) \/ req' = [req EXCEPT ![r] = f]
    BY <1>8 DEF IssueCandidates
  <2>3. found \in SUBSET Nat
    BY <1>a, KeyFields
  <2> HIDE DEF found
  <2>4. f \in Frame /\ f.pc = "i_refs" /\ f.machine = req[r].machine
    BY <1>a, <2>3 DEF Frame, Pc
  <2> HIDE DEF f
  <2>5. ASSUME req' = [req EXCEPT ![r] = f] PROVE Moves(r)
    <3>1. Others(r) /\ req'[r] = f
      BY <1>a, <2>4, <2>5, PutFrame
    <3> QED
      BY <2>1, <2>4, <3>1, OthersStay, SameGrants DEF Moves, Continues, Granting
  <2> QED
    BY <1>a, <2>1, <2>2, <2>5, SameGrants, FinishLeaves
<1>9. CASE IssueCountReferences(r)
  <2>1. PICK k \in Preferred(req[r].candidates) :
          IF References(k) # {} /\ ~ReuseReferenced
          THEN Finish(r)
          ELSE req' = [req EXCEPT ![r].pc = "i_insert", ![r].key = k, ![r].candidates = {}]
    BY <1>9, Zenon DEF IssueCountReferences
  <2> DEFINE f == [req[r] EXCEPT !.pc = "i_insert", !.key = k, !.candidates = {}]
  <2>2. grants' = grants /\ req[r].pc = "i_refs"
    BY <1>9, Zenon DEF IssueCountReferences, At
  <2>3. \/ Finish(r)
        \/ (References(k) = {} \/ ReuseReferenced) /\ req' = [req EXCEPT ![r] = f]
    BY <2>1
  <2>4. k \in Nat
    BY <1>a, FrameFields DEF Preferred
  <2>5. f \in Frame /\ f.pc = "i_insert" /\ f.machine = req[r].machine /\ f.key = k
    BY <1>a, <2>4 DEF Frame, Pc
  <2> HIDE DEF f
  <2>6. ASSUME References(k) = {} \/ ReuseReferenced, req' = [req EXCEPT ![r] = f] PROVE Moves(r)
    <3>1. Others(r) /\ req'[r] = f
      BY <1>a, <2>5, <2>6, PutFrame
    <3>2. Continues(r)
      BY <2>2, <2>5, <2>6, <3>1, SameGrants DEF Continues, Granting
    <3> QED
      BY <3>1, <3>2, OthersStay DEF Moves
  <2> QED
    BY <1>a, <2>2, <2>3, <2>6, SameGrants, FinishLeaves
<1>10. CASE IssueInsertGrant(r)
  <2> DEFINE f == [req[r] EXCEPT !.pc = "i_answer", !.grant = Len(grants) + 1]
  <2>0. Len(grants) + 1 \in Nat
    BY <1>a, GrantFields
  <2>1. f \in Frame /\ f.pc = "i_answer"
    BY <1>a, <2>0 DEF Frame, Pc
  <2>2. req' = [req EXCEPT ![r] = f]
    BY <1>10 DEF IssueInsertGrant
  <2> HIDE DEF f
  <2>3. Others(r) /\ req'[r] = f
    BY <1>a, <2>1, <2>2, PutFrame
  <2> QED
    BY <1>10, <2>1, <2>3, OthersStay DEF Moves, Inserts, IssueInsertGrant, At
<1>11. CASE IssueAnswer(r)
  BY <1>11, <1>a, SameGrants, FinishLeaves DEF IssueAnswer
<1> QED
  BY <1>1, <1>2, <1>3, <1>4, <1>5, <1>6, <1>7, <1>8, <1>9, <1>10, <1>11 DEF Issue

LEMMA RevokeMoves ==
  ASSUME IInv, NEW r \in Requests, Revoke(r)
  PROVE  Moves(r)
<1>a. TypeOK /\ req \in [Requests -> Frame]
  BY TypeSplit DEF IInv
<1>1. ASSUME NEW k \in DOMAIN keys, RevokeWriteKey(r, k) PROVE Moves(r)
  <2> DEFINE f == [Idle EXCEPT !.pc = "v_select", !.key = k]
  <2>1. f \in Frame /\ f.pc = "v_select"
    BY <1>a, KeyFields DEF Frame, Idle, Pc
  <2>2. req' = [req EXCEPT ![r] = f] /\ grants' = grants
    BY <1>1 DEF RevokeWriteKey
  <2> HIDE DEF f
  <2>3. Others(r) /\ req'[r] = f
    BY <1>a, <2>1, <2>2, PutFrame
  <2> QED
    BY <2>1, <2>2, <2>3, OthersStay, SameGrants DEF Moves, Leaves, Granting
<1>2. CASE RevokeSelectGrants(r)
  <2>1. grants' = grants /\ "v_update" \in Pc \ Granting
    BY <1>2 DEF RevokeSelectGrants, Pc, Granting
  <2>2. Finish(r) \/ Goto(r, "v_update")
    BY <1>2 DEF RevokeSelectGrants
  <2> QED
    BY <1>a, <2>1, <2>2, SameGrants, FinishLeaves, GotoLeaves
<1>3. CASE RevokeUpdateGrants(r)
  <2>1. GrantsKept
    BY <1>3, <1>a, GrantsRevoked DEF RevokeUpdateGrants, GrantsKept
  <2> QED
    BY <1>3, <1>a, <2>1, FinishLeaves DEF RevokeUpdateGrants
<1> QED
  BY <1>1, <1>2, <1>3 DEF Revoke

LEMMA StepMoves ==
  ASSUME IInv, [Next]_vars
  PROVE  \/ GrantsKept /\ \A q \in Requests : Stays(q)
         \/ \E r \in Requests : Moves(r)
<1>a. TypeOK /\ req \in [Requests -> Frame]
  BY TypeSplit DEF IInv
<1>1. ASSUME NEW r \in Requests, Crash(r) PROVE Moves(r)
  BY <1>1, <1>a, SameGrants, FinishLeaves DEF Crash
<1>2. ASSUME grants' = grants, req' = req PROVE GrantsKept /\ \A q \in Requests : Stays(q)
  BY <1>2, SameGrants DEF Stays
<1>3. ASSUME NEW p \in Pools, ExtendPool(p) PROVE GrantsKept /\ \A q \in Requests : Stays(q)
  <2>1. ASSUME NEW q \in Requests PROVE Stays(q)
    <3>1. req[q] \in Frame
      BY <1>a
    <3>2. req'[q] = req[q] \/ req'[q] = [req[q] EXCEPT !.overtaken = TRUE]
      BY <1>3 DEF ExtendPool
    <3> QED
      BY <3>1, <3>2 DEF Stays, Frame
  <2> QED
    BY <1>3, <2>1, SameGrants DEF ExtendPool
<1>4. ASSUME NEW p \in Pools, AddKey(p) PROVE grants' = grants /\ req' = req
  BY <1>4, Zenon DEF AddKey
<1> QED
  BY <1>1, <1>2, <1>3, <1>4, IssueMoves, RevokeMoves
     DEF Next, WriteEnabled, SetPoolStatus, FilterPool, PoolExpires, TrialEnds, vars

\* Whoever holds the rows A is joined by the requests B, and both only shrink, or B grows while
\* A is still empty.
LEMMA StillBounded ==
  ASSUME NEW A, NEW B, NEW A2, NEW B2, IsFiniteSet(A), B \subseteq Requests,
         B2 \subseteq Requests, A2 \subseteq A, A = {} \/ B2 \subseteq B,
         Cardinality(A) + Cardinality(B) <= Cardinality(Requests)
  PROVE  Cardinality(A2) + Cardinality(B2) <= Cardinality(Requests)
<1>1. IsFiniteSet(Requests) /\ IsFiniteSet(B) /\ IsFiniteSet(B2) /\ IsFiniteSet(A2)
  BY RequestsAssumption, FS_Subset
<1>2. /\ Cardinality(A) \in Nat /\ Cardinality(B) \in Nat /\ Cardinality(A2) \in Nat
      /\ Cardinality(B2) \in Nat /\ Cardinality(Requests) \in Nat
  BY <1>1, FS_CardinalityType
<1>3. Cardinality(A2) <= Cardinality(A) /\ Cardinality(B2) <= Cardinality(Requests)
  BY <1>1, RequestsAssumption, FS_Subset
<1>4. CASE A = {}
  <2>1. A2 = {}
    BY <1>4
  <2>2. Cardinality(A2) = 0
    BY <2>1, FS_EmptySet
  <2> QED
    BY <1>2, <1>3, <2>2
<1>5. CASE B2 \subseteq B
  <2>1. Cardinality(B2) <= Cardinality(B)
    BY <1>1, <1>5, FS_Subset
  <2> QED
    BY <1>2, <1>3, <2>1
<1> QED
  BY <1>4, <1>5

\* One of the requests turns into a row.
LEMMA OneTurned ==
  ASSUME NEW A, NEW B, NEW A2, NEW B2, NEW n, NEW r \in B, IsFiniteSet(A), B \subseteq Requests,
         A2 \subseteq A \union {n}, B2 \subseteq B \ {r},
         Cardinality(A) + Cardinality(B) <= Cardinality(Requests)
  PROVE  Cardinality(A2) + Cardinality(B2) <= Cardinality(Requests)
<1>1. IsFiniteSet(Requests) /\ IsFiniteSet(B)
  BY RequestsAssumption, FS_Subset
<1>2. IsFiniteSet(A \union {n}) /\ Cardinality(A \union {n}) \in {Cardinality(A), Cardinality(A) + 1}
  BY FS_AddElement
<1>3. IsFiniteSet(B \ {r}) /\ Cardinality(B \ {r}) = Cardinality(B) - 1
  BY <1>1, FS_RemoveElement
<1>4. /\ Cardinality(A) \in Nat /\ Cardinality(B) \in Nat /\ Cardinality(Requests) \in Nat
  BY <1>1, FS_CardinalityType
<1>5. /\ IsFiniteSet(A2) /\ Cardinality(A2) <= Cardinality(A \union {n})
      /\ IsFiniteSet(B2) /\ Cardinality(B2) <= Cardinality(B \ {r})
  BY <1>2, <1>3, FS_Subset
<1>6. Cardinality(A2) \in Nat /\ Cardinality(B2) \in Nat
  BY <1>5, FS_CardinalityType
<1> QED
  BY <1>2, <1>3, <1>4, <1>5, <1>6

LEMMA FiniteGrants ==
  ASSUME TypeOK
  PROVE  /\ \A m : IsFiniteSet(GrantsOf(m))
         /\ \A k : IsFiniteSet(References(k))
<1>1. IsFiniteSet(DOMAIN grants)
  BY GrantFields, FS_Interval
<1> QED
  BY <1>1, FS_Subset DEF GrantsOf, References, LiveGrants

LEMMA NewRow ==
  ASSUME IInv, NEW r \in Requests, Inserts(r)
  PROVE  /\ \A m : GrantsOf(m)' = IF m = req[r].machine THEN GrantsOf(m) \union {Len(grants) + 1}
                                  ELSE GrantsOf(m)
         /\ \A k : References(k)' = IF k = req[r].key THEN References(k) \union {Len(grants) + 1}
                                    ELSE References(k)
<1> DEFINE row == [machine |-> req[r].machine, key |-> req[r].key, status |-> "active"]
           n == Len(grants) + 1
<1>1. /\ DOMAIN grants = 1 .. Len(grants) /\ Len(grants) \in Nat /\ grants \in Seq(GrantRow)
      /\ FrameInv(req[r], keys, grants, pools, extended) /\ req[r].pc = "i_insert"
      /\ grants' = Append(grants, row) /\ DOMAIN keys \subseteq Nat
  BY GrantFields, KeyFields DEF IInv, FramesInv, Inserts
<1>2. row \in GrantRow /\ row.machine = req[r].machine /\ row.key = req[r].key
      /\ row.status = "active"
  BY <1>1 DEF FrameInv, IssueSteps, Pc, GrantRow
<1> HIDE DEF row
<1>3. DOMAIN grants' = 1 .. n /\ grants'[n] = row /\ \A g \in DOMAIN grants : grants'[g] = grants[g]
  BY <1>1, <1>2
<1>4. DOMAIN grants' = DOMAIN grants \union {n} /\ n \notin DOMAIN grants
  BY <1>1, <1>3
<1> HIDE DEF n
<1>5. \A m : GrantsOf(m)' = IF m = req[r].machine THEN GrantsOf(m) \union {n} ELSE GrantsOf(m)
  BY <1>2, <1>3, <1>4 DEF GrantsOf
<1>6. \A k : References(k)' = IF k = req[r].key THEN References(k) \union {n} ELSE References(k)
  BY <1>2, <1>3, <1>4 DEF References, LiveGrants
<1> QED
  BY <1>5, <1>6 DEF n

LEMMA KeptRows ==
  ASSUME GrantsKept
  PROVE  /\ \A m : GrantsOf(m)' = GrantsOf(m)
         /\ ~extended => \A k : References(k)' \subseteq References(k)
<1>1. \A m : GrantsOf(m)' = GrantsOf(m)
  BY DEF GrantsKept, GrantsOf
<1>2. ~extended => \A k : References(k)' \subseteq References(k)
  BY DEF GrantsKept, References, LiveGrants
<1> QED
  BY <1>1, <1>2

LEMMA GrantsStep ==
  ASSUME IInv, GrantsInv, [Next]_vars
  PROVE  GrantsInv'
<1> SUFFICES ASSUME NEW m \in Machines
             PROVE  Cardinality(GrantsOf(m)') + Cardinality(Issuing(m)') <= Cardinality(Requests)
  BY DEF GrantsInv
<1> DEFINE A == GrantsOf(m)
           B == Issuing(m)
<1>1. /\ IsFiniteSet(A) /\ B \subseteq Requests /\ B' \subseteq Requests
      /\ Cardinality(A) + Cardinality(B) <= Cardinality(Requests)
  BY FiniteGrants DEF IInv, GrantsInv, Issuing
<1>2. CASE GrantsKept /\ \A q \in Requests : Stays(q)
  <2>1. A' = A /\ B' = B
    BY <1>2, KeptRows DEF Stays, Issuing
  <2> QED
    BY <1>1, <2>1
<1>3. ASSUME NEW r \in Requests, Moves(r) PROVE Cardinality(A') + Cardinality(B') <= Cardinality(Requests)
  <2>1. B' \subseteq B \union {r}
    BY <1>3 DEF Moves, Stays, Issuing
  <2>2. CASE Leaves(r)
    <3>1. A' = A /\ B' \subseteq B
      BY <2>1, <2>2, KeptRows DEF Leaves, Issuing, Granting
    <3> HIDE DEF A, B
    <3> QED
      BY <1>1, <3>1, StillBounded
  <2>3. CASE Enters(r)
    <3>1. A' = A /\ (A = {} \/ B' \subseteq B)
      BY <2>1, <2>3, KeptRows DEF Enters, Issuing
    <3> HIDE DEF A, B
    <3> QED
      BY <1>1, <3>1, StillBounded
  <2>4. CASE Continues(r)
    <3>1. A' = A /\ B' \subseteq B
      BY <2>1, <2>4, KeptRows DEF Continues, Issuing, Granting
    <3> HIDE DEF A, B
    <3> QED
      BY <1>1, <3>1, StillBounded
  <2>5. CASE Inserts(r)
    <3>1. r \notin B'
      BY <2>5 DEF Inserts, Issuing
    <3>2. CASE m = req[r].machine
      <4>1. A' \subseteq A \union {Len(grants) + 1} /\ r \in B /\ B' \subseteq B \ {r}
        BY <2>1, <2>5, <3>1, <3>2, NewRow DEF Inserts, Issuing
      <4> HIDE DEF A, B
      <4> QED
        BY <1>1, <4>1, OneTurned
    <3>3. CASE m # req[r].machine
      <4>1. A' = A /\ B' \subseteq B
        BY <2>1, <2>5, <3>1, <3>3, NewRow
      <4> HIDE DEF A, B
      <4> QED
        BY <1>1, <4>1, StillBounded
    <3> QED
      BY <3>2, <3>3
  <2> QED
    BY <1>3, <2>2, <2>3, <2>4, <2>5 DEF Moves
<1> QED
  BY <1>2, <1>3, StepMoves

LEMMA SharingStep ==
  ASSUME IInv, SharingInv, [Next]_vars
  PROVE  SharingInv'
<1>a. extended => extended'
  <2>1. ASSUME NEW p \in Pools, AddKey(p) PROVE extended' = extended
    BY <2>1, Zenon DEF AddKey, history
  <2>2. ASSUME NEW r \in Requests, Issue(r) PROVE extended' = extended
    <3>1. ASSUME NEW m \in Machines, IssueReadSwitch(r, m) PROVE extended' = extended
      BY <3>1, Zenon DEF IssueReadSwitch, history
    <3>2. IssueFindGrant(r) \/ IssueCountReferences(r) \/ IssueCandidates(r) => extended' = extended
      BY Zenon DEF IssueFindGrant, IssueCountReferences, IssueCandidates, history
    <3> QED
      BY <2>2, <3>1, <3>2 DEF Issue, IssueReadTrial, IssueReadKey, IssueQuota, IssueAnswer,
                              IssueClose, IssueReopen, IssueInsertGrant, history
  <2>3. ASSUME NEW r \in Requests, Revoke(r) PROVE extended' = extended
    <3>1. ASSUME NEW k \in DOMAIN keys, RevokeWriteKey(r, k) PROVE extended' = extended
      BY <3>1, Zenon DEF RevokeWriteKey, history
    <3>2. RevokeSelectGrants(r) => extended' = extended
      BY Zenon DEF RevokeSelectGrants, history
    <3>3. RevokeUpdateGrants(r) => extended' = extended
      BY Zenon DEF RevokeUpdateGrants, history
    <3> QED
      BY <2>3, <3>1, <3>2, <3>3, Zenon DEF Revoke
  <2> QED
    BY <2>1, <2>2, <2>3 DEF Next, Crash, WriteEnabled, SetPoolStatus, FilterPool, ExtendPool,
                            PoolExpires, TrialEnds, vars, history
<1> SUFFICES ASSUME ~ReuseReferenced, ~extended, NEW k \in DOMAIN keys'
             PROVE  Cardinality(References(k)') + Cardinality(Inserting(k)') <= Cardinality(Requests)
  BY <1>a DEF SharingInv
<1> DEFINE A == References(k)
           B == Inserting(k)
<1>1. /\ IsFiniteSet(A) /\ B \subseteq Requests /\ B' \subseteq Requests
      /\ Cardinality(A) + Cardinality(B) <= Cardinality(Requests)
  <2>1. IsFiniteSet(A) /\ B \subseteq Requests /\ B' \subseteq Requests
    BY FiniteGrants DEF IInv, Inserting
  <2>2. CASE k \notin DOMAIN keys
    <3>1. A = {}
      BY <2>2, GrantFields DEF IInv, References, LiveGrants
    <3> HIDE DEF A, B
    <3>2. Cardinality(A) = 0 /\ Cardinality(B) <= Cardinality(Requests)
          /\ Cardinality(B) \in Nat /\ Cardinality(Requests) \in Nat
      BY <2>1, <3>1, RequestsAssumption, FS_EmptySet, FS_Subset, FS_CardinalityType
    <3> QED
      BY <2>1, <3>2
  <2> QED
    BY <2>1, <2>2 DEF SharingInv
<1>2. ASSUME GrantsKept, \A q \in Requests : Stays(q)
      PROVE  Cardinality(A') + Cardinality(B') <= Cardinality(Requests)
  <2>1. A' \subseteq A /\ B' \subseteq B
    BY <1>2, KeptRows DEF Stays, Inserting
  <2> HIDE DEF A, B
  <2> QED
    BY <1>1, <2>1, StillBounded
<1>3. ASSUME NEW r \in Requests, Moves(r) PROVE Cardinality(A') + Cardinality(B') <= Cardinality(Requests)
  <2>1. B' \subseteq B \union {r}
    BY <1>3 DEF Moves, Stays, Inserting
  <2>2. CASE Leaves(r) \/ Enters(r)
    <3>1. A' \subseteq A /\ B' \subseteq B
      BY <2>1, <2>2, KeptRows DEF Leaves, Enters, Inserting, Granting
    <3> HIDE DEF A, B
    <3> QED
      BY <1>1, <3>1, StillBounded
  <2>3. CASE Continues(r)
    <3>1. A' \subseteq A /\ (A = {} \/ B' \subseteq B)
      BY <2>1, <2>3, KeptRows DEF Continues, Inserting
    <3> HIDE DEF A, B
    <3> QED
      BY <1>1, <3>1, StillBounded
  <2>4. CASE Inserts(r)
    <3>1. r \notin B'
      BY <2>4 DEF Inserts, Inserting
    <3>2. CASE k = req[r].key
      <4>1. A' \subseteq A \union {Len(grants) + 1} /\ r \in B /\ B' \subseteq B \ {r}
        BY <2>1, <2>4, <3>1, <3>2, NewRow DEF Inserts, Inserting
      <4> HIDE DEF A, B
      <4> QED
        BY <1>1, <4>1, OneTurned
    <3>3. CASE k # req[r].key
      <4>1. A' = A /\ B' \subseteq B
        BY <2>1, <2>4, <3>1, <3>3, NewRow
      <4> HIDE DEF A, B
      <4> QED
        BY <1>1, <4>1, StillBounded
    <3> QED
      BY <3>2, <3>3
  <2> QED
    BY <1>3, <2>2, <2>3, <2>4 DEF Moves
<1> QED
  BY <1>2, <1>3, StepMoves

LEMMA CountsInit == Init => GrantsInv /\ SharingInv
<1> SUFFICES ASSUME Init PROVE GrantsInv /\ SharingInv
  OBVIOUS
<1>1. \A m : GrantsOf(m) = {} /\ Issuing(m) = {}
  BY IdleFrame DEF Init, GrantsOf, Issuing
<1>2. DOMAIN keys = {}
  BY DEF Init
<1>3. Cardinality({}) = 0 /\ Cardinality(Requests) \in Nat
  BY RequestsAssumption, FS_EmptySet, FS_CardinalityType
<1>4. 0 + 0 <= Cardinality(Requests)
  BY <1>3
<1> QED
  BY <1>1, <1>2, <1>3, <1>4 DEF GrantsInv, SharingInv

LEMMA CountsBound == IInv /\ GrantsInv /\ SharingInv => GrantsBounded /\ SharingBounded
<1> SUFFICES ASSUME IInv, GrantsInv, SharingInv PROVE GrantsBounded /\ SharingBounded
  OBVIOUS
<1>1. ASSUME NEW A, NEW B, IsFiniteSet(A), B \subseteq Requests,
             Cardinality(A) + Cardinality(B) <= Cardinality(Requests)
      PROVE  Cardinality(A) <= Cardinality(Requests)
  <2>1. IsFiniteSet(B) /\ IsFiniteSet(Requests)
    BY <1>1, RequestsAssumption, FS_Subset
  <2>2. Cardinality(A) \in Nat /\ Cardinality(B) \in Nat /\ Cardinality(Requests) \in Nat
    BY <1>1, <2>1, FS_CardinalityType
  <2> QED
    BY <1>1, <2>2
<1>2. \A m : IsFiniteSet(GrantsOf(m)) /\ Issuing(m) \subseteq Requests
  BY FiniteGrants DEF IInv, Issuing
<1>3. \A k : IsFiniteSet(References(k)) /\ Inserting(k) \subseteq Requests
  BY FiniteGrants DEF IInv, Inserting
<1> QED
  BY <1>1, <1>2, <1>3 DEF GrantsInv, SharingInv, GrantsBounded, SharingBounded

\* However often a machine asks, whatever is revoked, expires or crashes meanwhile, it is granted
\* no more keys than there can be requests in flight at once: only requests that began before
\* the machine's first grant was written can still write another.
THEOREM GrantsBoundedTheorem == Spec => []GrantsBounded
<1>1. IInv /\ GrantsInv /\ SharingInv /\ [Next]_vars => IInv' /\ GrantsInv' /\ SharingInv'
  BY InvStep, GrantsStep, SharingStep
<1> QED
  BY InvInit, CountsInit, CountsBound, <1>1, PTL DEF Spec

\* With reuse switched off, and as long as no expired pool is extended, a key is shared by no
\* more machines than there can be requests in flight at once: a key that is referred to is
\* never chosen again, and a grant that was closed is never reopened.
THEOREM SharingBoundedTheorem == Spec => []SharingBounded
<1>1. IInv /\ GrantsInv /\ SharingInv /\ [Next]_vars => IInv' /\ GrantsInv' /\ SharingInv'
  BY InvStep, GrantsStep, SharingStep
<1> QED
  BY InvInit, CountsInit, CountsBound, <1>1, PTL DEF Spec
=============================================================================
