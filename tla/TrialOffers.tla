---------------------------- MODULE TrialOffers ----------------------------
(***************************************************************************)
(* What a machine without a licence is offered: startTrial and             *)
(* deleteTrialGrant of services/trial.ts, and the models that it may claim *)
(* while the trial lasts, services/catalog.ts.                             *)
(*                                                                         *)
(* A grant is found by hashes of the fingerprint.  Trials have a unique    *)
(* index on theirs, claimed models have none: the quota is counted by one  *)
(* statement and used up by a later one.                                   *)
(***************************************************************************)
EXTENDS Naturals, Sequences, FiniteSets

CONSTANTS
    Blobs,        \* fingerprint blobs the clients send
    MachineOf,    \* the identity inside a blob, or None when it is opaque
    None,
    OldGrants,    \* hashes under which grants were stored by earlier versions
    Requests,     \* requests that can be in flight at the same time
    Duration,     \* days a trial lasts
    MaxGrants,    \* catalogMaxGrantsPerMachine
    LastDay,      \* bound on the clock
    MaxChanges    \* bound on what else happens: see Change

ASSUME RequestsAssumption == IsFiniteSet(Requests) /\ Requests # {} /\ IsFiniteSet(Blobs)
ASSUME BlobsAssumption == None \notin Blobs
ASSUME BoundsAssumption == Duration \in Nat \ {0} /\ {MaxGrants, LastDay, MaxChanges} \subseteq Nat

VARIABLES
    now,        \* today
    trials,     \* trial_grants by fingerprint_hash
    claims,     \* catalog_grants, in the order of insertion
    card,       \* the dashboard's switch of the catalog
    offered,    \* the product is active and has one active trial plan
    req,        \* the frame of every request
    ends,       \* history: the ends of the trials a machine has had since its last reset
    answered,   \* history: the blobs whose trial has been answered, or refused as used
    changes

vars == <<now, trials, claims, card, offered, req, ends, answered, changes>>
rest == <<now, card, offered, changes>>
history == <<ends, answered>>

-----------------------------------------------------------------------------
(* The ways in which a fingerprint is hashed                               *)

raw(b) == <<"raw", b>>
legacy(b) == <<"legacy", b>>     \* with the name of a feature

fingerprintHash(b) == IF MachineOf[b] = None THEN raw(b) ELSE <<"identity", MachineOf[b]>>
trialFingerprintHashCandidates(b) == {fingerprintHash(b), raw(b), legacy(b)}
catalogFingerprintHashCandidates(b) == {fingerprintHash(b), raw(b)}

Hashes == UNION {trialFingerprintHashCandidates(b) : b \in Blobs}

ASSUME OldGrantsAssumption == OldGrants \subseteq Hashes

TrialRow == [until : Nat, status : {"active", "expired"}]
ASSUME NoneAssumption == None \notin TrialRow

ClaimRow == [hash : Hashes,
             status : {"claimed", "imported", "failed"}]

Pc == {"idle", "t_find", "t_expire", "t_insert", "t_answer",
       "c_trial", "c_count", "c_insert", "c_answer"}

\* hash: the grant the request is about to write, or has inserted; until: the end of the
\* trial it inserts.
Frame == [pc : Pc, blob : Blobs \union {None}, hash : Hashes \union {None}, until : Nat]
Idle == [pc |-> "idle", blob |-> None, hash |-> None, until |-> 0]

At(r, step) == req[r].pc = step
Goto(r, step) == req' = [req EXCEPT ![r].pc = step]
Finish(r) == req' = [req EXCEPT ![r] = Idle]
Begin(r, step, b, h, until) ==
    req' = [req EXCEPT ![r] = [pc |-> step, blob |-> b, hash |-> h, until |-> until]]

Answering(r) == Begin(r, "t_answer", req[r].blob, None, 0)

isExpired(h) == trials[h].until <= now
Found(hashes) == {h \in hashes : trials[h] # None}

\* An administrator or a crash interferes.
Change == changes < MaxChanges /\ changes' = changes + 1

\* The blobs that a grant stored under h is found by.
BlobsOf(h) == {b \in Blobs : h \in trialFingerprintHashCandidates(b)}
WithEnd(h, until) == [b \in Blobs |-> IF b \in BlobsOf(h) THEN ends[b] \union {until} ELSE ends[b]]

\* Grants of earlier versions are a few days old or over.
Init ==
    /\ now = 0
    /\ \E until \in 0 .. Duration :
         trials = [h \in Hashes |->
                     IF h \in OldGrants THEN [until |-> until, status |-> "active"] ELSE None]
    /\ claims = <<>>
    /\ card \in BOOLEAN
    /\ offered \in BOOLEAN
    /\ req = [r \in Requests |-> Idle]
    /\ ends = [b \in Blobs |-> {trials[h].until : h \in Found(trialFingerprintHashCandidates(b))}]
    /\ answered = {}
    /\ changes = 0

-----------------------------------------------------------------------------
(* startTrial                                                              *)

\* A request is refused before anything else when the trial is switched off, or the product
\* or its trial plan is not on offer: nothing is looked for, and no grant is named.
StartReadOffer(r, b) ==
    /\ At(r, "idle")
    /\ IF offered THEN Begin(r, "t_find", b, None, 0) ELSE Finish(r)
    /\ UNCHANGED <<rest, trials, claims, history>>

\* Any of the grants found, the query has no order; a grant that is over is marked so.
FindAmong(r, found) ==
    LET blob == req[r].blob IN
    /\ At(r, "t_find")
    /\ \/ \E h \in found :
            IF isExpired(h) /\ trials[h].status # "expired"
            THEN Begin(r, "t_expire", blob, h, 0)
            ELSE Answering(r)
       \/ /\ found = {}
          /\ Begin(r, "t_insert", blob, fingerprintHash(blob), now + Duration)
    /\ UNCHANGED <<rest, trials, claims, history>>

\* Mutant of StartFindGrant: grants of earlier versions are not looked for.
StartFindCurrent(r) == FindAmong(r, Found({fingerprintHash(req[r].blob)}))

\* Mutant of StartFindGrant: the hash that new grants are stored under is forgotten.
StartFindOld(r) == FindAmong(r, Found({raw(req[r].blob), legacy(req[r].blob)}))

StartFindGrant(r) == FindAmong(r, Found(trialFingerprintHashCandidates(req[r].blob)))

\* The grant may have been deleted in between: then nothing is updated.
StartWriteExpired(r) ==
    LET h == req[r].hash IN
    /\ At(r, "t_expire")
    /\ trials' = IF trials[h] = None THEN trials ELSE [trials EXCEPT ![h].status = "expired"]
    /\ Answering(r)
    /\ UNCHANGED <<rest, claims, history>>

\* A grant stored since the lookup violates the unique index: the request fails.
StartInsertGrant(r) ==
    LET h == req[r].hash IN
    /\ At(r, "t_insert")
    /\ \/ /\ trials[h] = None
          /\ trials' = [trials EXCEPT ![h] = [until |-> req[r].until, status |-> "active"]]
          /\ ends' = WithEnd(h, req[r].until)
          /\ Goto(r, "t_answer")
       \/ /\ trials[h] # None
          /\ Finish(r)
          /\ UNCHANGED <<trials, ends>>
    /\ UNCHANGED <<rest, claims, answered>>

\* A licence is signed for a live trial and its hash stored, a trial that is over is
\* refused; both are logged.  A grant just inserted is read back, and an error if it is gone.
StartAnswer(r) ==
    LET h == req[r].hash IN
    /\ At(r, "t_answer")
    /\ IF h # None /\ trials[h] = None
       THEN UNCHANGED answered
       ELSE answered' = answered \union {req[r].blob}
    /\ Finish(r)
    /\ UNCHANGED <<rest, trials, claims, ends>>

\* An administrator gives the machine another trial.
DeleteTrialGrant(h) ==
    /\ Change
    /\ trials[h] # None
    /\ trials' = [trials EXCEPT ![h] = None]
    /\ ends' = [b \in Blobs |-> IF b \in BlobsOf(h) THEN {} ELSE ends[b]]
    /\ UNCHANGED <<now, card, offered, claims, req, answered>>

-----------------------------------------------------------------------------
(* claimCatalogModel and reportCatalogResult                               *)

OwnClaims(b) ==
    {i \in DOMAIN claims : claims[i].hash \in catalogFingerprintHashCandidates(b)}

\* A request that names a grant is a retry: same model, no further quota.
ClaimReadSwitch(r, b) ==
    /\ At(r, "idle")
    /\ card
    /\ \/ Begin(r, "c_trial", b, None, 0)
       \/ OwnClaims(b) # {} /\ Begin(r, "c_answer", b, None, 0)
    /\ UNCHANGED <<rest, trials, claims, history>>

\* hasActiveTrial looks for fewer hashes than startTrial.
ClaimReadTrial(r) ==
    LET live == {h \in Found(catalogFingerprintHashCandidates(req[r].blob)) :
                   trials[h].status = "active" /\ ~isExpired(h)}
    IN
    /\ At(r, "c_trial")
    /\ IF live # {} THEN Goto(r, "c_count") ELSE Finish(r)
    /\ UNCHANGED <<rest, trials, claims, history>>

\* Mutant of ClaimCount: a claim whose outcome was reported no longer counts.
ClaimCountOpen(r) ==
    LET used == {i \in OwnClaims(req[r].blob) : claims[i].status = "claimed"} IN
    /\ At(r, "c_count")
    /\ IF Cardinality(used) >= MaxGrants THEN Finish(r) ELSE Goto(r, "c_insert")
    /\ UNCHANGED <<rest, trials, claims, history>>

\* Every claim counts: no code writes the status "refunded" that would not.
ClaimCount(r) ==
    /\ At(r, "c_count")
    /\ IF Cardinality(OwnClaims(req[r].blob)) >= MaxGrants
       THEN Finish(r) ELSE Goto(r, "c_insert")
    /\ UNCHANGED <<rest, trials, claims, history>>

\* No model may be on offer for the locale.
ClaimInsertGrant(r) ==
    /\ At(r, "c_insert")
    /\ \/ /\ claims' = Append(claims, [hash |-> fingerprintHash(req[r].blob),
                                       status |-> "claimed"])
          /\ Goto(r, "c_answer")
       \/ Finish(r) /\ UNCHANGED claims
    /\ UNCHANGED <<rest, trials, history>>

\* The model may be disabled, its manifest missing: an error then, but the grant stays.
ClaimAnswer(r) ==
    /\ At(r, "c_answer")
    /\ Finish(r)
    /\ UNCHANGED <<rest, trials, claims, history>>

\* Mutant of ReportResult: a failure is stored under a status no other code knows.
ReportResultRefunds(b, i, result) ==
    /\ i \in OwnClaims(b)
    /\ claims' = [claims EXCEPT ![i].status = IF result = "failed" THEN "refunded" ELSE result]
    /\ UNCHANGED <<rest, trials, req, history>>

\* Reports are accepted in any order and more than once; both kinds of failure are "failed".
ReportResult(b, i, result) ==
    /\ i \in OwnClaims(b)
    /\ claims' = [claims EXCEPT ![i].status = result]
    /\ UNCHANGED <<rest, trials, req, history>>

WriteCardEnabled(enabled) ==
    /\ Change
    /\ card # enabled
    /\ card' = enabled
    /\ UNCHANGED <<now, offered, trials, claims, req, history>>

\* An administrator takes the product or its trial plan off offer, or puts it back.
WriteOffered(o) ==
    /\ Change
    /\ offered # o
    /\ offered' = o
    /\ UNCHANGED <<now, card, trials, claims, req, history>>

-----------------------------------------------------------------------------
Tick ==
    /\ now < LastDay
    /\ now' = now + 1
    /\ UNCHANGED <<trials, claims, card, offered, req, history, changes>>

\* The isolate is evicted, or a statement fails, between two statements.
Crash(r) ==
    /\ Change
    /\ ~At(r, "idle")
    /\ Finish(r)
    /\ UNCHANGED <<now, trials, claims, card, offered, history>>

Proceed(r) ==
    \/ StartFindGrant(r) \/ StartWriteExpired(r) \/ StartInsertGrant(r)
    \/ StartAnswer(r)
    \/ ClaimReadTrial(r) \/ ClaimCount(r) \/ ClaimInsertGrant(r) \/ ClaimAnswer(r)

Next ==
    \/ \E r \in Requests :
         \/ \E b \in Blobs : StartReadOffer(r, b) \/ ClaimReadSwitch(r, b)
         \/ Proceed(r)
         \/ Crash(r)
    \/ \E h \in Hashes : DeleteTrialGrant(h)
    \/ \E b \in Blobs, i \in DOMAIN claims :
         \E result \in {"imported", "failed"} : ReportResult(b, i, result)
    \/ \E enabled \in BOOLEAN : WriteCardEnabled(enabled) \/ WriteOffered(enabled)
    \/ Tick

Spec == Init /\ [][Next]_vars

\* The Worker runs what it has begun, and a client asks for its trial at every start; that
\* the trial stays on offer is not assumed, but a premise of StartAnswered.
Fairness ==
    /\ \A r \in Requests : WF_vars(Proceed(r))
    /\ \A b \in Blobs : SF_vars(\E r \in Requests : StartReadOffer(r, b))

FairSpec == Spec /\ Fairness

-----------------------------------------------------------------------------
(* Properties                                                              *)

\* The tables hold values of the columns' types, and requests work on known hashes.
TypeOK ==
    /\ now \in 0 .. LastDay
    /\ trials \in [Hashes -> TrialRow \union {None}]
    /\ claims \in Seq(ClaimRow)
    /\ card \in BOOLEAN
    /\ offered \in BOOLEAN
    /\ req \in [Requests -> Frame]
    /\ ends \in [Blobs -> SUBSET Nat]
    /\ answered \subseteq Blobs
    /\ changes \in 0 .. MaxChanges

\* However a machine's requests overlap, and under whatever formula its grant was stored,
\* startTrial gives it one trial with one end, until an administrator resets it; whichever of
\* its blobs it sends, unless an earlier version stored its grant under a hash of another one.
OneTrial == \A b \in Blobs : Cardinality(ends[b]) <= 1

\* No report gives quota back, and concurrent claims exceed it by the requests in flight
\* less one: the grants are counted before the new one is inserted.
QuotaBounded ==
    \A b \in Blobs :
        Cardinality(OwnClaims(b)) <= MaxGrants + Cardinality(Requests) - 1

\* A machine that keeps asking is answered with its trial, or told that it is over, also
\* if the first requests raced for the index or died before they answered, and however often
\* the trial was off offer before: as soon as it is on offer for good.  As long as it is not,
\* the machine is told no more than that there is no trial, whether it has a grant or not.
StartAnswered == <>[]offered => \A b \in Blobs : <>(b \in answered)
=============================================================================
