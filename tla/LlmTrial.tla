------------------------------ MODULE LlmTrial ------------------------------
(***************************************************************************)
(* The pool of LLM keys that machines on trial share: issueTrialLlmProfile *)
(* and the administrator's operations of services/llm_trial.ts.            *)
(*                                                                         *)
(* No unique index keeps a machine from holding two grants or a key from   *)
(* being counted too late: the code relies on the order of its statements. *)
(* Each statement is one action, with the decision taken on its result.    *)
(* A pool's valid_until matters only as past or not.                       *)
(***************************************************************************)
EXTENDS Naturals, Sequences, FiniteSets

CONSTANTS
    Machines,        \* fingerprint hashes
    Pools,
    None,
    Requests,        \* requests that can be in flight at the same time
    MaxProfiles,     \* max(1, trialLlmMaxProfilesPerMachine)
    ReuseReferenced, \* trialLlmReuseReferencedKeys
    MaxKeys,         \* bound on the keys an administrator adds
    MaxChanges       \* bound on what else happens to the pool: see Change

ASSUME RequestsAssumption == IsFiniteSet(Requests) /\ Requests # {}
ASSUME MachinesAssumption == None \notin Machines
ASSUME PolicyAssumption == MaxProfiles \in Nat \ {0} /\ ReuseReferenced \in BOOLEAN
ASSUME BoundsAssumption == {MaxKeys, MaxChanges} \subseteq Nat

VARIABLES
    enabled,     \* the master switch
    onTrial,     \* the machines with an active trial grant
    pools,       \* pool -> its status, whether its valid_until is past, and the machines
                 \* that its platform and countries admit
    keys,        \* llm_trial_keys, in the order they were added
    grants,      \* llm_trial_grants, in the order of insertion
    req,         \* the frame of every request
    killed,      \* history: the keys whose revocation has run to its end
    extended,    \* history: a pool that was past has been extended
    changes

vars == <<enabled, onTrial, pools, keys, grants, req, killed, extended, changes>>
settings == <<enabled, onTrial, pools, changes>>
history == <<killed, extended>>

PoolRow == [status : {"active", "disabled"}, past : BOOLEAN, serves : SUBSET Machines]
KeyRow == [pool : Pools, status : {"active", "revoked"}, createdAt : Nat]
GrantRow == [machine : Machines, key : Nat, status : {"active", "revoked", "expired"}]

Pc == {"idle", "i_trial", "i_grant", "i_key", "i_close", "i_reopen", "i_quota",
       "i_candidates", "i_refs", "i_insert", "i_answer", "v_select", "v_update"}

\* grant and key are the rows the request works on.
Frame == [pc : Pc, machine : Machines \union {None}, grant : Nat, key : Nat,
          candidates : SUBSET Nat,
          verdict : {"active", "revoked", "expired"},  \* status of the grant to write
          late : SUBSET Nat,       \* history: keys revoked when the request began
          overtaken : BOOLEAN]     \* history: its grant was closed, or a pool that
                                   \* it found past extended, by somebody else

Idle == [pc |-> "idle", machine |-> None, grant |-> 0, key |-> 0, candidates |-> {},
         verdict |-> "active", late |-> {}, overtaken |-> FALSE]

-----------------------------------------------------------------------------
At(r, step) == req[r].pc = step
Goto(r, step) == req' = [req EXCEPT ![r].pc = step]
Finish(r) == req' = [req EXCEPT ![r] = Idle]

GrantsOf(m) == {g \in DOMAIN grants : grants[g].machine = m}
LiveGrants(S) == {g \in S : grants[g].status = "active"}
References(k) == {g \in LiveGrants(DOMAIN grants) : grants[g].key = k}

PoolOf(k) == pools[keys[k].pool]

\* An administrator, the clock or a crash interferes.
Change == changes < MaxChanges /\ changes' = changes + 1

\* createLlmTrialPool, for every platform and country.
NewPool == [status |-> "active", past |-> FALSE, serves |-> Machines]

Init ==
    /\ enabled = TRUE
    /\ onTrial = Machines
    /\ pools = [p \in Pools |-> NewPool]
    /\ keys = <<>>
    /\ grants = <<>>
    /\ req = [r \in Requests |-> Idle]
    /\ killed = {}
    /\ extended = FALSE
    /\ changes = 0

-----------------------------------------------------------------------------
(* issueTrialLlmProfile                                                    *)

\* The switch is read first, so that it also stops machines that hold a key.
IssueReadSwitch(r, m) ==
    /\ At(r, "idle")
    /\ IF enabled
       THEN req' = [req EXCEPT ![r] = [Idle EXCEPT !.pc = "i_trial", !.machine = m,
                                          !.late = killed]]
       ELSE Finish(r)
    /\ UNCHANGED <<settings, keys, grants, history>>

IssueReadTrial(r) ==
    /\ At(r, "i_trial")
    /\ IF req[r].machine \in onTrial THEN Goto(r, "i_grant") ELSE Finish(r)
    /\ UNCHANGED <<settings, keys, grants, history>>

\* Mutant of IssueFindGrant: only a live grant keeps a machine from a new one.
IssueFindLiveGrant(r) ==
    LET live == LiveGrants(GrantsOf(req[r].machine)) IN
    /\ At(r, "i_grant")
    /\ \/ \E g \in live :
            req' = [req EXCEPT ![r].pc = "i_key", ![r].grant = g, ![r].key = grants[g].key]
       \/ live = {} /\ Goto(r, "i_quota")
    /\ UNCHANGED <<settings, keys, grants, history>>

\* loadGrant: a live grant if there is one, else the first; none: first issuance.
IssueFindGrant(r) ==
    LET own == GrantsOf(req[r].machine)
        live == LiveGrants(own)
    IN
    /\ At(r, "i_grant")
    /\ \/ \E g \in own :
            /\ \A h \in IF live # {} THEN live ELSE own : g <= h
            /\ live # {} => g \in live
            /\ req' = [req EXCEPT ![r].pc = "i_key", ![r].grant = g, ![r].key = grants[g].key,
                                  ![r].verdict = grants[g].status]
       \/ own = {} /\ Goto(r, "i_quota")
    /\ UNCHANGED <<settings, keys, grants, history>>

\* Mutant of IssueReadKey: a disabled pool cuts off the machines it serves.
IssueReadKeyDisabled(r) ==
    LET k == req[r].key IN
    /\ At(r, "i_key")
    /\ req' = [req EXCEPT
         ![r].pc = IF keys[k].status = "active" /\ ~PoolOf(k).past /\ PoolOf(k).status = "active"
                   THEN "i_answer" ELSE "i_close",
         ![r].verdict = IF keys[k].status # "active" THEN "revoked" ELSE "expired",
         ![r].overtaken = FALSE]
    /\ UNCHANGED <<settings, keys, grants, history>>

\* Mutant of IssueReadKey: a closed grant is answered as it is.
IssueReadKeyNoReopen(r) ==
    LET k == req[r].key IN
    /\ At(r, "i_key")
    /\ req' = [req EXCEPT
         ![r].pc = IF keys[k].status = "active" /\ ~PoolOf(k).past THEN "i_answer" ELSE "i_close",
         ![r].verdict = IF keys[k].status # "active" THEN "revoked" ELSE "expired",
         ![r].overtaken = FALSE]
    /\ UNCHANGED <<settings, keys, grants, history>>

\* The pool's status is not looked at: disabling a pool only stops new grants.
IssueReadKey(r) ==
    LET k == req[r].key IN
    /\ At(r, "i_key")
    /\ \/ /\ keys[k].status # "active"
          /\ req' = [req EXCEPT ![r].pc = "i_close", ![r].verdict = "revoked"]
       \/ /\ keys[k].status = "active" /\ PoolOf(k).past
          /\ req' = [req EXCEPT ![r].pc = "i_close", ![r].verdict = "expired",
                                ![r].overtaken = FALSE]
       \/ /\ keys[k].status = "active" /\ ~PoolOf(k).past
          /\ Goto(r, IF req[r].verdict = "active" THEN "i_answer" ELSE "i_reopen")
    /\ UNCHANGED <<settings, keys, grants, history>>

\* closeGrant, and a terminal error to the client.
IssueClose(r) ==
    /\ At(r, "i_close")
    /\ grants' = [grants EXCEPT ![req[r].grant].status = req[r].verdict]
    /\ req' = [q \in Requests |->
                 IF q = r THEN Idle
                 ELSE IF req[q].grant = req[r].grant /\ req[q].pc \in {"i_key", "i_answer"}
                      THEN [req[q] EXCEPT !.overtaken = TRUE] ELSE req[q]]
    /\ UNCHANGED <<settings, keys, history>>

IssueReopen(r) ==
    /\ At(r, "i_reopen")
    /\ grants' = [grants EXCEPT ![req[r].grant].status = "active"]
    /\ Goto(r, "i_answer")
    /\ UNCHANGED <<settings, keys, history>>

IssueQuota(r) ==
    /\ At(r, "i_quota")
    /\ IF Cardinality(LiveGrants(GrantsOf(req[r].machine))) >= MaxProfiles
       THEN Finish(r) ELSE Goto(r, "i_candidates")
    /\ UNCHANGED <<settings, keys, grants, history>>

\* Mutant of IssueCandidates: the query joins the pools but forgets the keys' status.
IssueCandidatesAnyKey(r) ==
    LET found == {k \in DOMAIN keys :
                    /\ PoolOf(k).status = "active" /\ ~PoolOf(k).past
                    /\ req[r].machine \in PoolOf(k).serves}
    IN
    /\ At(r, "i_candidates")
    /\ IF found = {} THEN Finish(r)
       ELSE req' = [req EXCEPT ![r].pc = "i_refs", ![r].candidates = found]
    /\ UNCHANGED <<settings, keys, grants, history>>

IssueCandidates(r) ==
    LET found == {k \in DOMAIN keys :
                    /\ keys[k].status = "active"
                    /\ PoolOf(k).status = "active" /\ ~PoolOf(k).past
                    /\ req[r].machine \in PoolOf(k).serves}
    IN
    /\ At(r, "i_candidates")
    /\ IF found = {} THEN Finish(r)
       ELSE req' = [req EXCEPT ![r].pc = "i_refs", ![r].candidates = found]
    /\ UNCHANGED <<settings, keys, grants, history>>

\* The least referenced candidates, the newest of them; ids break the tie.
Preferred(S) ==
    {k \in S : \A l \in S :
        /\ Cardinality(References(k)) <= Cardinality(References(l))
        /\ Cardinality(References(k)) = Cardinality(References(l))
             => keys[k].createdAt >= keys[l].createdAt}

\* Mutant of IssueCountReferences: the newest key, in use or not.
IssueNewest(r) ==
    /\ At(r, "i_refs")
    /\ \E k \in req[r].candidates :
         /\ \A l \in req[r].candidates : keys[k].createdAt >= keys[l].createdAt
         /\ req' = [req EXCEPT ![r].pc = "i_insert", ![r].key = k]
    /\ UNCHANGED <<settings, keys, grants, history>>

IssueCountReferences(r) ==
    /\ At(r, "i_refs")
    /\ \E k \in Preferred(req[r].candidates) :
         IF References(k) # {} /\ ~ReuseReferenced
         THEN Finish(r)
         ELSE req' = [req EXCEPT ![r].pc = "i_insert", ![r].key = k, ![r].candidates = {}]
    /\ UNCHANGED <<settings, keys, grants, history>>

\* Mutant of IssueInsertGrant: the status that catalog_grants starts with.
IssueInsertClaimed(r) ==
    /\ At(r, "i_insert")
    /\ grants' = Append(grants, [machine |-> req[r].machine, key |-> req[r].key,
                                 status |-> "claimed"])
    /\ Goto(r, "i_answer")
    /\ UNCHANGED <<settings, keys, history>>

IssueInsertGrant(r) ==
    /\ At(r, "i_insert")
    /\ grants' = Append(grants, [machine |-> req[r].machine, key |-> req[r].key,
                                 status |-> "active"])
    /\ req' = [req EXCEPT ![r].pc = "i_answer", ![r].grant = Len(grants) + 1]
    /\ UNCHANGED <<settings, keys, history>>

IssueAnswer(r) ==
    /\ At(r, "i_answer")
    /\ Finish(r)
    /\ UNCHANGED <<settings, keys, grants, history>>

-----------------------------------------------------------------------------
(* revokeLlmTrialKey                                                       *)

\* The frame carries the key; nothing looks at the status it had.
RevokeWriteKey(r, k) ==
    /\ At(r, "idle")
    /\ Change
    /\ keys' = [keys EXCEPT ![k].status = "revoked"]
    /\ req' = [req EXCEPT ![r] = [Idle EXCEPT !.pc = "v_select", !.key = k]]
    /\ UNCHANGED <<enabled, onTrial, pools, grants, history>>

RevokeSelectGrants(r) ==
    LET none == References(req[r].key) = {} IN
    /\ At(r, "v_select")
    /\ IF none THEN Finish(r) ELSE Goto(r, "v_update")
    /\ killed' = IF none THEN killed \union {req[r].key} ELSE killed
    /\ UNCHANGED <<settings, keys, grants, extended>>

RevokeUpdateGrants(r) ==
    LET k == req[r].key IN
    /\ At(r, "v_update")
    /\ grants' = [g \in DOMAIN grants |->
                    IF g \in References(k) THEN [grants[g] EXCEPT !.status = "revoked"]
                    ELSE grants[g]]
    /\ killed' = killed \union {k}
    /\ Finish(r)
    /\ UNCHANGED <<settings, keys, extended>>

-----------------------------------------------------------------------------
(* writeLlmTrialEnabled, setLlmTrialPoolStatus, updateLlmTrialPool and     *)
(* createLlmTrialKey; and the passing of time.                             *)

WriteEnabled(b) ==
    /\ Change
    /\ b # enabled
    /\ enabled' = b
    /\ UNCHANGED <<onTrial, pools, keys, grants, req, history>>

SetPoolStatus(p, status) ==
    /\ Change
    /\ pools[p].status # status
    /\ pools' = [pools EXCEPT ![p].status = status]
    /\ UNCHANGED <<enabled, onTrial, keys, grants, req, history>>

ExtendPool(p) ==
    /\ Change
    /\ pools[p].past
    /\ pools' = [pools EXCEPT ![p].past = FALSE]
    /\ extended' = TRUE
    /\ req' = [r \in Requests |->
                 IF At(r, "i_close") THEN [req[r] EXCEPT !.overtaken = TRUE] ELSE req[r]]
    /\ UNCHANGED <<enabled, onTrial, keys, grants, killed>>

FilterPool(p, served) ==
    /\ Change
    /\ pools[p].serves # served
    /\ pools' = [pools EXCEPT ![p].serves = served]
    /\ UNCHANGED <<enabled, onTrial, keys, grants, req, history>>

\* createdAt has seconds: a key is as new as the last one, or newer.
AddKey(p) ==
    /\ Len(keys) < MaxKeys
    /\ \E second \in IF keys = <<>> THEN {0}
                      ELSE {keys[Len(keys)].createdAt, keys[Len(keys)].createdAt + 1} :
         keys' = Append(keys, [pool |-> p, status |-> "active", createdAt |-> second])
    /\ UNCHANGED <<settings, grants, req, history>>

PoolExpires(p) ==
    /\ Change
    /\ ~pools[p].past
    /\ pools' = [pools EXCEPT ![p].past = TRUE]
    /\ UNCHANGED <<enabled, onTrial, keys, grants, req, history>>

TrialEnds(m) ==
    /\ Change
    /\ m \in onTrial
    /\ onTrial' = onTrial \ {m}
    /\ UNCHANGED <<enabled, pools, keys, grants, req, history>>

\* The isolate is evicted, or a statement fails, between two statements.
Crash(r) ==
    /\ Change
    /\ ~At(r, "idle")
    /\ Finish(r)
    /\ UNCHANGED <<enabled, onTrial, pools, keys, grants, history>>

-----------------------------------------------------------------------------
Issue(r) ==
    \/ \E m \in Machines : IssueReadSwitch(r, m)
    \/ IssueReadTrial(r)
    \/ IssueFindGrant(r)
    \/ IssueReadKey(r)
    \/ IssueClose(r)
    \/ IssueReopen(r)
    \/ IssueQuota(r)
    \/ IssueCandidates(r)
    \/ IssueCountReferences(r)
    \/ IssueInsertGrant(r)
    \/ IssueAnswer(r)

Revoke(r) ==
    \/ \E k \in DOMAIN keys : RevokeWriteKey(r, k)
    \/ RevokeSelectGrants(r)
    \/ RevokeUpdateGrants(r)

Next ==
    \/ \E r \in Requests : Issue(r) \/ Revoke(r) \/ Crash(r)
    \/ \E b \in BOOLEAN : WriteEnabled(b)
    \/ \E p \in Pools :
         \/ \E status \in {"active", "disabled"} : SetPoolStatus(p, status)
         \/ \E served \in SUBSET Machines : FilterPool(p, served)
         \/ ExtendPool(p) \/ AddKey(p) \/ PoolExpires(p)
    \/ \E m \in Machines : TrialEnds(m)

Spec == Init /\ [][Next]_vars

-----------------------------------------------------------------------------
(* Properties                                                              *)

\* The tables hold values of the columns' types, and grants refer to keys.
TypeOK ==
    /\ enabled \in BOOLEAN
    /\ onTrial \subseteq Machines
    /\ pools \in [Pools -> PoolRow]
    /\ keys \in Seq(KeyRow)
    /\ grants \in Seq(GrantRow)
    /\ \A g \in DOMAIN grants : grants[g].key \in DOMAIN keys
    /\ req \in [Requests -> Frame]
    /\ killed \subseteq DOMAIN keys
    /\ extended \in BOOLEAN
    /\ changes \in 0 .. MaxChanges

\* However often a machine asks again, after its key was revoked or expired too, it is
\* never granted more keys than it had requests in flight at once the first time.
GrantsBounded ==
    \A m \in Machines : Cardinality(GrantsOf(m)) <= Cardinality(Requests)

\* With reuse switched off a key is shared by no more machines than had requests in
\* flight at once, as long as no expired pool was extended.
SharingBounded ==
    ~ReuseReferenced /\ ~extended =>
        \A k \in DOMAIN keys : Cardinality(References(k)) <= Cardinality(Requests)

\* After revokeLlmTrialKey has finished no later request is answered with that key.
NoProfileAfterRevoke ==
    \A r \in Requests : At(r, "i_answer") => req[r].key \notin req[r].late

\* A machine is cut off only because its key was revoked or its pool expired, or by a
\* request that an extension of the pool overtook; never because a pool was disabled.
CutOffOnly ==
    [][\A g \in DOMAIN grants :
         grants[g].status = "active" /\ grants'[g].status # "active" =>
            \/ keys[grants[g].key].status = "revoked"
            \/ PoolOf(grants[g].key).past
            \/ \E r \in Requests : At(r, "i_close") /\ req[r].grant = g /\ req[r].overtaken]_vars

\* A machine that is answered with a usable key is counted in the reference ledger, so
\* that the key is not handed to another one, unless a concurrent request closed its grant.
AnswerCounted ==
    \A r \in Requests : At(r, "i_answer") =>
        \/ LiveGrants(GrantsOf(req[r].machine)) \cap References(req[r].key) # {}
        \/ keys[req[r].key].status = "revoked"
        \/ req[r].overtaken
=============================================================================
