------------------------------ MODULE Isolate ------------------------------
(***************************************************************************)
(* An isolate that serves requests: index.ts, db/seed.ts,                  *)
(* services/rate_limit.ts, middleware/rate_limit.ts and the routes of      *)
(* routes/v1.ts around the services that other modules describe.           *)
(*                                                                         *)
(* An isolate seeds the database on its first request and keeps the        *)
(* outcome, be it the application or an error.  The rate limiter lives in  *)
(* its memory: a route reads the window of failures before it awaits its   *)
(* service and adds to it afterwards.  The limit of feedback is counted in *)
(* the database, before the row is inserted.                               *)
(*                                                                         *)
(* Other isolates have windows of their own; all that this one sees of     *)
(* their starts is the rows that they insert.                              *)
(***************************************************************************)
EXTENDS Integers, Sequences, FiniteSets, Functions

CONSTANTS
    Requests,          \* requests that can be in flight at the same time, all of one address
    Keys,              \* licence keys, or fingerprints, that they name
    None,              \* no key
    SeedRows,          \* the rows that a start makes sure of, in order
    Keyed,             \* those with a primary key; default mappings have none
    ipMax, ipWindow, ipFailMax, ipFailWindow, orderFailMax, orderFailWindow,
    feedbackMax,       \* three in the code
    Day,
    LastTime,          \* bound on the clock
    MaxFaults,         \* bound on failing statements of a start
    MaxEvictions,
    MaxMappings        \* bound on the default mappings that other starts insert

Bounds == {ipMax, ipWindow, ipFailMax, ipFailWindow, orderFailMax, orderFailWindow,
           feedbackMax, Day, LastTime, MaxFaults, MaxEvictions, MaxMappings}

ASSUME RequestsAssumption == IsFiniteSet(Requests) /\ Requests # {}
ASSUME KeysAssumption == None \notin Keys
ASSUME BoundsAssumption == Bounds \subseteq Nat
ASSUME SeedAssumption ==
    SeedRows \in Seq(Range(SeedRows)) /\ SeedRows # <<>> /\ Keyed \subseteq Range(SeedRows)

VARIABLES
    now,
    rows,       \* how many of each seeded row the database has
    feedback,   \* feedback_submissions of one machine: their times
    app,        \* appPromise
    ipRequests, ipFailures, orderFailures,     \* the windows of the limiter
    req,        \* the frame of every request
    failed,     \* history: the failures of the isolate's requests, recorded or not
    faults, evictions

vars == <<now, rows, feedback, app, ipRequests, ipFailures, orderFailures, req, failed,
          faults, evictions>>
failures == <<ipFailures, orderFailures, failed>>
limiter == <<ipRequests, failures>>
database == <<rows, feedback>>
environment == <<now, faults, evictions>>

-----------------------------------------------------------------------------
(* SlidingWindowLimiter                                                    *)

\* A window is the set of the events that it keeps; those of one moment are numbered.
Event == [at : 0 .. now, nth : Nat]

\* An event counts until windowSeconds have passed.
prune(events, window) == {e \in events : e.at + window > now}
HasRoom(events, window, max) == Cardinality(prune(events, window)) < max
push(events) == events \union {[at |-> now, nth |-> Cardinality({e \in events : e.at = now})]}

\* What allow leaves in the window: a refused event is not recorded.
Recorded(events, window, max) ==
    IF HasRoom(events, window, max) THEN push(prune(events, window)) ELSE prune(events, window)

-----------------------------------------------------------------------------
Start == [state : {"none", "select", "insert", "ready", "failed"}, row : DOMAIN SeedRows]
NoApp == [state |-> "none", row |-> 1]
FailedApp == [state |-> "failed", row |-> 1]

\* Mutant of AfterRow: one row too many.
AfterRowLate(n) ==
    IF n > Len(SeedRows) THEN [state |-> "ready", row |-> 1] ELSE [state |-> "select", row |-> n + 1]

\* What a start does once row n is there.
AfterRow(n) ==
    IF n = Len(SeedRows) THEN [state |-> "ready", row |-> 1] ELSE [state |-> "select", row |-> n + 1]

\* Of a failure, whether the windows of the address and of the key kept it.
Failure == [at : 0 .. now, key : Keys \union {None}, ipKept : BOOLEAN, orderKept : BOOLEAN]

Pc == {"idle", "waiting", "body", "service", "f_insert"}
Frame == [pc : Pc, key : Keys \union {None}]
Idle == [pc |-> "idle", key |-> None]

At(r, step) == req[r].pc = step
Goto(r, step) == req' = [req EXCEPT ![r].pc = step]
Finish(r) == req' = [req EXCEPT ![r] = Idle]

Init ==
    /\ now = 0
    /\ \E n \in 0 .. 1 : rows = [row \in Range(SeedRows) |-> n]
    /\ feedback = <<>>
    /\ app = NoApp
    /\ ipRequests = {}
    /\ ipFailures = {}
    /\ orderFailures = [k \in Keys |-> {}]
    /\ req = [r \in Requests |-> Idle]
    /\ failed = <<>>
    /\ faults = 0
    /\ evictions = 0

-----------------------------------------------------------------------------
(* The start of an isolate: fetch, initApp, seedDefaultProduct             *)

\* The first request starts the application, all requests wait for it.
Fetch(r, k) ==
    /\ At(r, "idle")
    /\ req' = [req EXCEPT ![r] = [pc |-> "waiting", key |-> k]]
    /\ app' = IF app = NoApp THEN [app EXCEPT !.state = "select"] ELSE app
    /\ UNCHANGED <<environment, database, limiter>>

\* Mutant of SeedSelect: a row that is there counts for all.
SeedSelectFirst ==
    LET n == app.row IN
    /\ app.state = "select"
    /\ app' = IF rows[SeedRows[n]] > 0 THEN AfterRow(Len(SeedRows))
                                        ELSE [state |-> "insert", row |-> n]
    /\ UNCHANGED <<environment, database, limiter, req>>

SeedSelect ==
    LET n == app.row IN
    /\ app.state = "select"
    /\ app' = IF rows[SeedRows[n]] > 0 THEN AfterRow(n) ELSE [state |-> "insert", row |-> n]
    /\ UNCHANGED <<environment, database, limiter, req>>

\* A row of another isolate violates the primary key, if there is one: the start fails.
SeedInsert ==
    LET row == SeedRows[app.row]
        taken == row \in Keyed /\ rows[row] > 0
    IN
    /\ app.state = "insert"
    /\ \/ taken /\ app' = FailedApp /\ UNCHANGED rows
       \/ /\ ~taken
          /\ rows' = [rows EXCEPT ![row] = @ + 1]
          /\ app' = AfterRow(app.row)
    /\ UNCHANGED <<environment, feedback, limiter, req>>

\* Another isolate starts: it inserts a row that it has not found.
OtherSeeds(row) ==
    /\ IF row \in Keyed THEN rows[row] = 0 ELSE rows[row] < MaxMappings
    /\ rows' = [rows EXCEPT ![row] = @ + 1]
    /\ UNCHANGED <<environment, feedback, app, limiter, req>>

SeedFault ==
    /\ faults < MaxFaults
    /\ app.state \in {"select", "insert"}
    /\ faults' = faults + 1
    /\ app' = FailedApp
    /\ UNCHANGED <<now, evictions, database, limiter, req>>

\* The failed promise is kept: every request is answered 500.
FetchFails(r) ==
    /\ At(r, "waiting")
    /\ app = FailedApp
    /\ Finish(r)
    /\ UNCHANGED <<environment, database, app, limiter>>

-----------------------------------------------------------------------------
(* A route behind the rate limiter, as /activate                           *)

CheckRequest(r) ==
    /\ At(r, "waiting")
    /\ app.state = "ready"
    /\ ipRequests' = Recorded(ipRequests, ipWindow, ipMax)
    /\ IF HasRoom(ipRequests, ipWindow, ipMax) THEN Goto(r, "body") ELSE Finish(r)
    /\ UNCHANGED <<environment, database, app, failures>>

failuresAllowed(k) ==
    /\ HasRoom(ipFailures, ipFailWindow, ipFailMax)
    /\ k # None => HasRoom(orderFailures[k], orderFailWindow, orderFailMax)

\* Refresh, deactivation, status and reports limit requests only; a body that cannot be read is
\* answered 400.
AnswerUnlimited(r) ==
    /\ At(r, "body")
    /\ Finish(r)
    /\ UNCHANGED <<environment, database, app, limiter>>

\* Mutant of FailuresAllowed: only the address is looked at.
FailuresAllowedIp(r) ==
    /\ At(r, "body")
    /\ IF failuresAllowed(None) THEN Goto(r, "service") ELSE Finish(r)
    /\ ipFailures' = prune(ipFailures, ipFailWindow)
    /\ UNCHANGED <<environment, database, app, ipRequests, orderFailures, failed>>

\* remaining drops what has left a window; the key's is not looked at if the address is refused.
FailuresAllowed(r) ==
    LET k == req[r].key IN
    /\ At(r, "body")
    /\ IF failuresAllowed(k) THEN Goto(r, "service") ELSE Finish(r)
    /\ ipFailures' = prune(ipFailures, ipFailWindow)
    /\ orderFailures' =
          IF k # None /\ HasRoom(ipFailures, ipFailWindow, ipFailMax)
          THEN [orderFailures EXCEPT ![k] = prune(@, orderFailWindow)]
          ELSE orderFailures
    /\ UNCHANGED <<environment, database, app, ipRequests, failed>>

\* The service succeeds, or fails with status 200, which is not counted (TRIAL_UNAVAILABLE).
Succeed(r) ==
    /\ At(r, "service")
    /\ Finish(r)
    /\ UNCHANGED <<environment, database, app, limiter>>

\* The service fails: both windows are added to, unless they are full.
RecordFailure(r) ==
    LET k == req[r].key IN
    /\ At(r, "service")
    /\ ipFailures' = Recorded(ipFailures, ipFailWindow, ipFailMax)
    /\ orderFailures' =
          IF k = None THEN orderFailures
          ELSE [orderFailures EXCEPT ![k] = Recorded(@, orderFailWindow, orderFailMax)]
    /\ failed' = Append(failed,
                    [at |-> now, key |-> k,
                     ipKept |-> HasRoom(ipFailures, ipFailWindow, ipFailMax),
                     orderKept |-> k # None /\ HasRoom(orderFailures[k], orderFailWindow, orderFailMax)])
    /\ Finish(r)
    /\ UNCHANGED <<environment, database, app, ipRequests>>

-----------------------------------------------------------------------------
(* The route of feedback, which has no rate limiter                        *)

feedbackCountForMachine == Cardinality({j \in DOMAIN feedback : feedback[j] + Day >= now})

\* Mutant of FeedbackCount: off by one.
FeedbackCountOver(r) ==
    /\ At(r, "waiting")
    /\ app.state = "ready"
    /\ IF feedbackCountForMachine > feedbackMax THEN Finish(r) ELSE Goto(r, "f_insert")
    /\ UNCHANGED <<environment, database, app, limiter>>

FeedbackCount(r) ==
    /\ At(r, "waiting")
    /\ app.state = "ready"
    /\ IF feedbackCountForMachine >= feedbackMax THEN Finish(r) ELSE Goto(r, "f_insert")
    /\ UNCHANGED <<environment, database, app, limiter>>

FeedbackInsert(r) ==
    /\ At(r, "f_insert")
    /\ feedback' = Append(feedback, now)
    /\ Finish(r)
    /\ UNCHANGED <<environment, rows, app, limiter>>

-----------------------------------------------------------------------------
Tick ==
    /\ now < LastTime
    /\ now' = now + 1
    /\ UNCHANGED <<database, app, limiter, req, faults, evictions>>

\* The platform drops an isolate, with its memory and its requests.
Evict ==
    /\ evictions < MaxEvictions
    /\ app # NoApp
    /\ evictions' = evictions + 1
    /\ app' = NoApp
    /\ ipRequests' = {}
    /\ ipFailures' = {}
    /\ orderFailures' = [k \in Keys |-> {}]
    /\ failed' = <<>>
    /\ req' = [r \in Requests |-> Idle]
    /\ UNCHANGED <<now, faults, database>>

Next ==
    \/ \E r \in Requests :
         \/ \E k \in Keys \union {None} : Fetch(r, k)
         \/ FetchFails(r)
         \/ CheckRequest(r) \/ AnswerUnlimited(r) \/ FailuresAllowed(r) \/ Succeed(r) \/ RecordFailure(r)
         \/ FeedbackCount(r) \/ FeedbackInsert(r)
    \/ SeedSelect \/ SeedInsert \/ SeedFault
    \/ \E row \in Range(SeedRows) : OtherSeeds(row)
    \/ Evict
    \/ Tick

Spec == Init /\ [][Next]_vars

-----------------------------------------------------------------------------
(* Properties                                                              *)

\* The tables, the promises, the windows and the frames hold values of their types.
TypeOK ==
    /\ now \in 0 .. LastTime
    /\ rows \in [Range(SeedRows) -> Nat]
    /\ feedback \in Seq(0 .. now)
    /\ app \in Start
    /\ ipRequests \subseteq Event
    /\ ipFailures \subseteq Event
    /\ orderFailures \in [Keys -> SUBSET Event]
    /\ req \in [Requests -> Frame]
    /\ failed \in Seq(Failure)
    /\ {faults, evictions} \subseteq Nat

Others == Cardinality(Requests) - 1

\* In any window of time an isolate lets the limit of failures be recorded at most.  With each
\* of them every other request in flight may have passed, and fail without being recorded, and
\* so may those that passed with the failure that filled the window before.
FailuresBounded ==
    \A t \in 0 .. LastTime :
        LET In(window) == {j \in DOMAIN failed : failed[j].at \in t .. t + window - 1} IN
        /\ Cardinality(In(ipFailWindow)) <= ipFailMax + Others * (ipFailMax + 1)
        /\ \A k \in Keys :
             Cardinality({j \in In(orderFailWindow) : failed[j].key = k})
                 <= orderFailMax + Others * (orderFailMax + 1)

\* A machine's feedback of one day exceeds the limit by the other requests in flight, at
\* most.
FeedbackBounded ==
    \A t \in 0 .. LastTime :
        Cardinality({j \in DOMAIN feedback : feedback[j] \in t .. t + Day})
            <= feedbackMax + Others

\* An application that serves requests has every row that its services rely on, whatever other
\* starts did meanwhile and whatever failed before.
ReadyIsSeeded == app.state = "ready" => \A row \in Range(SeedRows) : rows[row] > 0
=============================================================================
