-------------------------- MODULE TelemetrySession --------------------------
(***************************************************************************)
(* What the events of one session on one day become: recordTelemetryEvent  *)
(* and updateAggregates of services/telemetry.ts.                          *)
(*                                                                         *)
(* Events arrive in any order, at the same time and more than once.  Each  *)
(* is stored by one statement; the aggregates follow by further ones, and  *)
(* an error in them is only logged, so that what it leaves out is lost.    *)
(* The session's durations are added to the day as differences, which a    *)
(* compare-and-swap on the session's row is meant to keep exact.           *)
(*                                                                         *)
(* The activity report adds the aggregates up where they cover its window  *)
(* and replays the stored events where they do not (getActivityDays).      *)
(***************************************************************************)
EXTENDS Integers, FiniteSets

CONSTANTS
    Events,        \* the events a client has to send
    TypeOf,        \* event -> "install", "start" or "duration"
    DurationOf,    \* event -> its two durations as safePayloadDuration reads them
    None,
    Requests,      \* requests that can be in flight at the same time
    Attempts,      \* of the compare-and-swap: 3
    MaxDuration,   \* MAX_DURATION_SECS
    MaxFailures    \* bound on the statements that fail and the requests that die

Duration == [process : 0 .. MaxDuration, visible : 0 .. MaxDuration]

ASSUME RequestsAssumption == IsFiniteSet(Requests) /\ IsFiniteSet(Events)
ASSUME EventsAssumption ==
    /\ None \notin Events \union Duration
    /\ TypeOf \in [Events -> {"install", "start", "duration"}]
    /\ DurationOf \in [Events -> Duration]
ASSUME BoundsAssumption == Attempts \in Nat \ {0} /\ {MaxDuration, MaxFailures} \subseteq Nat

VARIABLES
    stored,     \* telemetry_events
    uniques,    \* telemetry_daily_uniques: "install_seen" and the marks of the session
    session,    \* the session's durations in telemetry_session_state, or None
    metrics,    \* the row of telemetry_daily_metrics
    req,        \* the frame of every request
    lost,       \* history: differences taken from the session but never added
    backward,   \* history: by how much the session's durations went back
    replay,      \* what a replay of the stored events, in the order of their arrival, yields
    overlapped,  \* history: two requests have been in flight together
    failures

events == <<stored, replay, overlapped>>
history == <<lost, backward>>
vars == <<events, uniques, session, metrics, req, history, failures>>

Marks == {"machine_active", "session_seen", "install_active"}
Metrics == [installs : Nat, launches : Nat, events : Nat, process : Nat, visible : Nat]

Pc == {"idle", "install", "mark", "remark", "start", "read", "insert", "update", "add"}

\* seen: the row read; delta: what the request will add to the day.
Frame == [pc : Pc, event : Events \union {None}, attempt : Nat,
          seen : Duration \union {None}, installs : {0, 1}, delta : Duration]

Zero == [process |-> 0, visible |-> 0]
Idle == [pc |-> "idle", event |-> None, attempt |-> 0, seen |-> None,
         installs |-> 0, delta |-> Zero]

-----------------------------------------------------------------------------
\* Mutant of boundedDelta: no bound at all.
boundedDeltaUnchecked(current, previous) == current - previous

boundedDelta(current, previous) ==
    IF current <= previous \/ current - previous > MaxDuration THEN 0 ELSE current - previous

Difference(d, e) == [process |-> boundedDelta(d.process, e.process),
                     visible |-> boundedDelta(d.visible, e.visible)]
Plus(d, e) == [process |-> d.process + e.process, visible |-> d.visible + e.visible]

\* accumulateDeviceActivity: one event of the replay.  The installation is not activity.
Accumulate(row, e) ==
    CASE TypeOf[e] = "install" -> row
      [] TypeOf[e] = "start" -> [row EXCEPT !.devices = 1, !.launches = @ + 1]
      [] TypeOf[e] = "duration" ->
            [row EXCEPT !.devices = 1, !.last = DurationOf[e],
                        !.time = Plus(@, Difference(DurationOf[e], row.last))]

Later(m, n) == IF m >= n THEN m ELSE n
Latest(d, e) == [process |-> Later(d.process, e.process), visible |-> Later(d.visible, e.visible)]

At(r, step) == req[r].pc = step
Goto(r, step) == req' = [req EXCEPT ![r].pc = step]
Finish(r) == req' = [req EXCEPT ![r] = Idle]
EventOf(r) == req[r].event
Reported(r) == DurationOf[EventOf(r)]

\* After the marks of a device's activity.
AfterMarks(r) ==
    CASE TypeOf[EventOf(r)] = "install" -> "add"
      [] TypeOf[EventOf(r)] = "start" -> "start"
      [] TypeOf[EventOf(r)] = "duration" -> "read"

Init ==
    /\ stored = {}
    /\ uniques = {}
    /\ session = None
    /\ metrics = [installs |-> 0, launches |-> 0, events |-> 0, process |-> 0, visible |-> 0]
    /\ req = [r \in Requests |-> Idle]
    /\ lost = Zero
    /\ backward = Zero
    /\ replay = [devices |-> 0, launches |-> 0, time |-> Zero, last |-> Zero]
    /\ overlapped = FALSE
    /\ failures = 0

-----------------------------------------------------------------------------
(* recordTelemetryEvent                                                    *)

Accept(r, e) ==
    /\ req' = [req EXCEPT ![r] = [Idle EXCEPT !.event = e,
                 !.pc = IF TypeOf[e] = "install" THEN "install" ELSE "mark"]]
    /\ replay' = IF e \in stored THEN replay ELSE Accumulate(replay, e)
    /\ overlapped' = (overlapped \/ \E q \in Requests \ {r} : ~At(q, "idle"))

\* Mutant of StoreEvent: a conflict does not end the request.
StoreEventAgain(r, e) ==
    /\ At(r, "idle")
    /\ stored' = stored \union {e}
    /\ Accept(r, e)
    /\ UNCHANGED <<uniques, session, metrics, history, failures>>

\* INSERT ... ON CONFLICT (event_id) DO NOTHING; a duplicate is answered at once.
StoreEvent(r, e) ==
    /\ At(r, "idle")
    /\ \/ /\ e \notin stored
          /\ stored' = stored \union {e}
          /\ Accept(r, e)
       \/ /\ e \in stored
          /\ UNCHANGED <<events, req>>
    /\ UNCHANGED <<uniques, session, metrics, history, failures>>

-----------------------------------------------------------------------------
(* updateAggregates                                                        *)

\* RETURNING tells whether this call inserted the mark.  install_seen itself is not
\* among the events of a device's activity.
InstallUnique(r) ==
    /\ At(r, "install")
    /\ req' = [req EXCEPT ![r].pc = "add",
                          ![r].installs = IF "install_seen" \in uniques THEN 0 ELSE 1]
    /\ uniques' = uniques \union {"install_seen"}
    /\ UNCHANGED <<events, session, metrics, history, failures>>

\* insertDailyUniquesWithRetry: one statement for the three marks, tried twice.
InsertUniques(r) ==
    /\ At(r, "mark") \/ At(r, "remark")
    /\ uniques' = uniques \union Marks
    /\ Goto(r, AfterMarks(r))
    /\ UNCHANGED <<events, session, metrics, history, failures>>

\* The statement may have been committed before the error.
InsertUniquesFails(r) ==
    /\ failures < MaxFailures
    /\ failures' = failures + 1
    /\ \/ At(r, "mark") /\ Goto(r, "remark")
       \/ At(r, "remark") /\ Finish(r)
    /\ \E written \in {{}, Marks} : uniques' = uniques \union written
    /\ UNCHANGED <<events, session, metrics, history>>

\* Mutant of UpsertSession: the durations start again.
UpsertSessionRestarts(r) ==
    /\ At(r, "start")
    /\ session' = Zero
    /\ Goto(r, "add")
    /\ UNCHANGED <<events, uniques, metrics, history, failures>>

\* upsertSessionState with durations of zero.
UpsertSession(r) ==
    /\ At(r, "start")
    /\ session' = IF session = None THEN Zero ELSE Latest(session, Zero)
    /\ Goto(r, "add")
    /\ UNCHANGED <<events, uniques, metrics, history, failures>>

\* updateSessionState, one attempt after the other.
SessionRead(r) ==
    /\ At(r, "read")
    /\ req' = [req EXCEPT ![r].seen = session,
                          ![r].pc = IF session = None THEN "insert" ELSE "update"]
    /\ UNCHANGED <<events, uniques, session, metrics, history, failures>>

\* The race is lost: the next attempt, or no difference at all.
TryAgain(r) ==
    IF req[r].attempt + 1 < Attempts
    THEN req' = [req EXCEPT ![r].pc = "read", ![r].attempt = @ + 1, ![r].seen = None]
    ELSE req' = [req EXCEPT ![r].pc = "add", ![r].attempt = 0, ![r].seen = None]

Count(r, d) ==
    req' = [req EXCEPT ![r].pc = "add", ![r].delta = d, ![r].attempt = 0, ![r].seen = None]

\* ON CONFLICT (session_id) DO NOTHING; the first report counts from zero.
SessionInsert(r) ==
    /\ At(r, "insert")
    /\ \/ /\ session = None
          /\ session' = Reported(r)
          /\ Count(r, Reported(r))
       \/ /\ session # None
          /\ TryAgain(r)
          /\ UNCHANGED session
    /\ UNCHANGED <<events, uniques, metrics, history, failures>>

\* Mutant of SessionUpdate: the guard on the durations that were read is missing.
SessionUpdateUnguarded(r) ==
    /\ At(r, "update")
    /\ session' = Reported(r)
    /\ Count(r, Difference(Reported(r), req[r].seen))
    /\ backward' = Plus(backward, Difference(session, Reported(r)))
    /\ UNCHANGED <<events, uniques, metrics, lost, failures>>

\* The durations are written as they were reported, not as a maximum.
SessionUpdate(r) ==
    /\ At(r, "update")
    /\ \/ /\ session = req[r].seen
          /\ session' = Reported(r)
          /\ Count(r, Difference(Reported(r), req[r].seen))
          /\ backward' = Plus(backward, Difference(req[r].seen, Reported(r)))
       \/ /\ session # req[r].seen
          /\ TryAgain(r)
          /\ UNCHANGED <<session, backward>>
    /\ UNCHANGED <<events, uniques, metrics, lost, failures>>

\* One additive upsert.
IncrementDailyMetrics(r) ==
    /\ At(r, "add")
    /\ metrics' = [metrics EXCEPT
                     !.installs = @ + req[r].installs,
                     !.launches = IF TypeOf[EventOf(r)] = "start" THEN @ + 1 ELSE @,
                     !.events = @ + 1,
                     !.process = @ + req[r].delta.process,
                     !.visible = @ + req[r].delta.visible]
    /\ Finish(r)
    /\ UNCHANGED <<events, uniques, session, history, failures>>

\* A statement fails, or the isolate is evicted between two: the rest is left out.
Abandon(r) ==
    /\ ~At(r, "idle")
    /\ failures < MaxFailures
    /\ failures' = failures + 1
    /\ lost' = Plus(lost, req[r].delta)
    /\ Finish(r)
    /\ UNCHANGED <<events, uniques, session, metrics, backward>>

-----------------------------------------------------------------------------
Aggregate(r) ==
    \/ InstallUnique(r)
    \/ InsertUniques(r)
    \/ InsertUniquesFails(r)
    \/ UpsertSession(r)
    \/ SessionRead(r)
    \/ SessionInsert(r)
    \/ SessionUpdate(r)
    \/ IncrementDailyMetrics(r)

Next ==
    \E r \in Requests :
        \/ \E e \in Events : StoreEvent(r, e)
        \/ Aggregate(r)
        \/ Abandon(r)

Spec == Init /\ [][Next]_vars

-----------------------------------------------------------------------------
(* getActivityDays                                                         *)

\* installActiveCoversWindow: covered says that a device was active the day before.
CoversWindow(covered) == covered \/ "install_active" \in uniques

ActivityDay(covered) ==
    IF CoversWindow(covered)
    THEN [devices |-> IF "install_active" \in uniques THEN 1 ELSE 0,
          launches |-> metrics.launches,
          time |-> [process |-> metrics.process, visible |-> metrics.visible]]
    ELSE [devices |-> replay.devices, launches |-> replay.launches, time |-> replay.time]

-----------------------------------------------------------------------------
(* Properties                                                              *)

\* The rows hold values of the columns' types, and a request has the event it handles.
TypeOK ==
    /\ stored \subseteq Events
    /\ uniques \subseteq Marks \union {"install_seen"}
    /\ session \in Duration \union {None}
    /\ metrics \in Metrics
    /\ req \in [Requests -> Frame]
    /\ \A r \in Requests : At(r, "idle") <=> EventOf(r) = None
    /\ lost \in [process : Nat, visible : Nat]
    /\ backward \in [process : Nat, visible : Nat]
    /\ replay.devices \in {0, 1} /\ replay.last \in Duration
    /\ overlapped \in BOOLEAN
    /\ failures \in 0 .. MaxFailures

SessionTotal == IF session = None THEN Zero ELSE session

\* The seconds that requests are about to add to the day.
Pending(field) == {x \in Requests \X (1 .. MaxDuration) : x[2] <= req[x[1]].delta[field]}

\* The differences taken from the session's row telescope: what the day has counted, what
\* requests are about to add and what died with them is what the row says now, plus what
\* it went back by.  Two events that read the same row never both count from it.
DeltasExact ==
    \A field \in {"process", "visible"} :
        metrics[field] + Cardinality(Pending(field)) + lost[field]
            = SessionTotal[field] + backward[field]

\* An event is counted once however often it is delivered, and so is an installation; unless
\* the reported durations went back, no more time is counted than the session lasted.
CountedOnce ==
    /\ metrics.events + Cardinality({r \in Requests : ~At(r, "idle")}) <= Cardinality(stored)
    /\ metrics.launches <= Cardinality({e \in stored : TypeOf[e] = "start"})
    /\ metrics.installs <= 1
    /\ \A field \in {"process", "visible"} :
         backward[field] = 0 /\ metrics[field] > 0 =>
             \E e \in stored : TypeOf[e] = "duration" /\ metrics[field] <= DurationOf[e][field]

\* The activity report never shows a launch or an active time without the device they
\* belong to, whatever failed.  Once every event is handled, both ways of computing it
\* agree on devices and launches if nothing failed, however the events overlapped, and on
\* the times too if they came one by one.
ReportMatchesEvents ==
    \A covered \in BOOLEAN :
        LET report == ActivityDay(covered) IN
        /\ report.launches > 0 \/ report.time # Zero => report.devices = 1
        /\ (\A r \in Requests : At(r, "idle")) /\ failures = 0 =>
             /\ report.devices = replay.devices
             /\ report.launches = replay.launches
             /\ ~overlapped => report.time = replay.time
=============================================================================
