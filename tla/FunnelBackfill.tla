--------------------------- MODULE FunnelBackfill ---------------------------
(***************************************************************************)
(* The nightly projection of telemetry_events into the funnel's tables     *)
(* (services/funnel_jobs.ts, started by scheduled() in index.ts), the      *)
(* script that does the same by hand (scripts/backfill_funnel.sql) and the *)
(* reports read from the tables (services/funnel.ts).                      *)
(*                                                                         *)
(* A night sends its statements one by one, each committed by itself, so a *)
(* night that stops leaves the statements before it done.  A statement is  *)
(* an operator from the tables to the tables; the night runs one per step, *)
(* the script composes the same statements in its own order.  The events   *)
(* of a night's window lie a week back and no longer change.               *)
(***************************************************************************)
EXTENDS Integers, FiniteSets, FiniteSetsExt, TLC

CONSTANTS
    PossibleEvents,  \* [inst, kind, sent, recv]: times in seconds
    LastDay,         \* bound: the clock stops here
    Lookback,        \* lookbackDays of runFunnelBackfill
    None             \* NULL

VARIABLES
    events,   \* telemetry_events of product animate on the official channel
    paid,     \* installs whose machine has an activation
    tables,   \* the three projections
    today,    \* the current day
    night     \* the night's next statement and its window

vars == <<events, paid, tables, today, night>>

Day == 86400
Week == 7
Installs == {e.inst : e \in PossibleEvents}
DayOf(time) == time \div Day

\* The classes of events the projections tell apart.
CoreKinds == {"import_ok", "live_ai", "dance"}

-----------------------------------------------------------------------------
(* The statements                                                          *)

InWindow(day, w) == w.from <= day /\ day <= w.to
ReceivedIn(w) == {e \in events : InWindow(DayOf(e.recv), w)}
Without(f, Gone(_)) == [x \in {y \in DOMAIN f : ~Gone(y)} |-> f[x]]

Earliest(E) == IF E = {} THEN None ELSE Min({e.sent : e \in E})
OfKind(E, Kinds) == {e \in E : e.kind \in Kinds}

DeleteProfiles(t, w) ==
    LET Gone(i) == InWindow(t.profile[i].day, w)
    IN  [t EXCEPT !.profile = Without(t.profile, Gone)]

\* The derived columns start from the schema's defaults again.
ProfileOf(i, w) ==
    LET seen == OfKind({e \in ReceivedIn(w) : e.inst = i}, {"install_seen"})
        at == Min({e.recv : e \in seen})
        ev == {e \in events : e.inst = i /\ at - 3600 <= e.sent /\ e.sent <= at + Week * Day}
        has(kind) == OfKind(ev, {kind}) # {}
    IN  [at |-> at, day |-> DayOf(at),
         frame |-> Earliest(OfKind(ev, {"frame"})),
         onboarding |-> Earliest(OfKind(ev, {"onboarding"})),
         core |-> Earliest(OfKind(ev, CoreKinds)),
         purchase |-> Earliest(OfKind(ev, {"purchase"})),
         dance |-> has("dance"), import |-> has("import_ok"), ai |-> has("live_ai"),
         active |-> 0, span |-> 0, score |-> None, liked |-> FALSE, retained |-> FALSE,
         activated |-> FALSE]

\* INSERT OR REPLACE: an install seen again moves to its new day.
InsertProfiles(t, w) ==
    LET seen == {e.inst : e \in OfKind(ReceivedIn(w), {"install_seen"})}
    IN  [t EXCEPT !.profile = [i \in seen |-> ProfileOf(i, w)] @@ t.profile]

DeleteDays(t, w) ==
    LET Gone(x) == InWindow(x[2], w)
    IN  [t EXCEPT !.days = Without(t.days, Gone)]

\* Selected by the day of arrival, grouped by the day of sending.  The counters
\* are kept as the kinds that occur, all the reports ask of them.
InsertDays(t, w) ==
    LET keys == {<<e.inst, DayOf(e.sent)>> : e \in ReceivedIn(w)}
        group(x) == {e \in ReceivedIn(w) : <<e.inst, DayOf(e.sent)>> = x}
        sent(x) == {e.sent : e \in group(x)}
    IN  [t EXCEPT !.days =
            [x \in keys |-> [span |-> Max(sent(x)) - Min(sent(x)),
                             kinds |-> {e.kind : e \in group(x)}]] @@ t.days]

\* The profiles that an UPDATE is about.
Updated(t, w) == {i \in DOMAIN t.profile : InWindow(t.profile[i].day, w)}

DeriveActivity(t, w) ==
    LET rows(i) == {x \in DOMAIN t.days : x[1] = i}
        row(i) == [t.profile[i] EXCEPT
                     !.active = Cardinality(rows(i)),
                     !.span = Max({0} \union {t.days[x].span : x \in rows(i)})]
    IN  [t EXCEPT !.profile = [i \in Updated(t, w) |-> row(i)] @@ t.profile]

LikingScore(p) ==
    Cardinality({s \in {300, 900, 3600} : p.span >= s})
        + Cardinality({n \in {2, 3, 5} : p.active >= n})

DeriveScore(t, w) ==
    LET row(i) == [t.profile[i] EXCEPT !.score = LikingScore(t.profile[i])]
    IN  [t EXCEPT !.profile = [i \in Updated(t, w) |-> row(i)] @@ t.profile]

DeriveLiked(t, w) ==
    LET row(i) == [t.profile[i] EXCEPT !.liked = (t.profile[i].score >= 2),
                                       !.retained = (t.profile[i].active >= 2)]
    IN  [t EXCEPT !.profile = [i \in Updated(t, w) |-> row(i)] @@ t.profile]

DeriveActivation(t, w) ==
    LET row(i) == [t.profile[i] EXCEPT !.activated = (i \in paid)]
    IN  [t EXCEPT !.profile = [i \in Updated(t, w) |-> row(i)] @@ t.profile]

DeleteSnapshots(t, w) ==
    LET Gone(d) == InWindow(d, w)
    IN  [t EXCEPT !.snapshots = Without(t.snapshots, Gone)]

InsertSnapshots(t, w) ==
    LET cohort(d) == {i \in DOMAIN t.profile : t.profile[i].day = d}
        count(d, Stage(_)) == Cardinality({i \in cohort(d) : Stage(t.profile[i])})
        row(d) == [complete |-> d <= today - Week,
                   s0 |-> Cardinality(cohort(d)),
                   s1 |-> count(d, LAMBDA p : p.frame # None),
                   s2 |-> count(d, LAMBDA p : p.onboarding # None),
                   s3 |-> count(d, LAMBDA p : p.core # None),
                   s4 |-> count(d, LAMBDA p : p.core # None /\ p.liked),
                   s5 |-> count(d, LAMBDA p : p.core # None /\ p.liked /\ p.retained)]
        days == {d \in w.from .. w.to : cohort(d) # {}}
    IN  [t EXCEPT !.snapshots = [d \in days |-> row(d)] @@ t.snapshots]

\* scripts/backfill_funnel.sql: the snapshot comes before the derived columns.
Script(t, w) ==
    LET projected == InsertDays(DeleteDays(InsertProfiles(DeleteProfiles(t, w), w), w), w)
        snapped == InsertSnapshots(DeleteSnapshots(projected, w), w)
    IN  DeriveActivation(DeriveLiked(DeriveScore(DeriveActivity(snapped, w), w), w), w)

-----------------------------------------------------------------------------
(* The night                                                               *)

NoWindow == [from |-> 0, to |-> 0]

Window == [from |-> today - (Week + Lookback - 1), to |-> today - Week]

Init ==
    /\ events \in SUBSET PossibleEvents
    /\ paid \in SUBSET Installs
    /\ tables = [profile |-> <<>>, days |-> <<>>, snapshots |-> <<>>]
    /\ today = 0
    /\ night = [next |-> "asleep", window |-> NoWindow]

\* Columns of telemetry_events that a GROUP BY can name, and the SELECT's aliases.
EventColumns ==
    {"event_id", "schema_version", "event", "source_id", "received_at", "received_at_unix",
     "sent_at", "product_id", "app_version", "platform", "channel", "machine_hash", "install_id",
     "session_id", "license_state", "activation_id", "payload_json", "raw_json"}
GroupedBy == {"install_id", "day"}
JobAliases == {}
Resolves(aliases) == GroupedBy \subseteq EventColumns \union aliases

\* The cron trigger.
Wake ==
    /\ night.next = "asleep"
    /\ night' = [next |-> "delete_profiles", window |-> Window]
    /\ UNCHANGED <<events, paid, tables, today>>

Execute(step, result, next) ==
    /\ night.next = step
    /\ tables' = result
    /\ night' = [night EXCEPT !.next = next]
    /\ UNCHANGED <<events, paid, today>>

\* D1 rejects a statement it cannot prepare; scheduled() logs and is over.
Reject(step) ==
    /\ night.next = step
    /\ night' = [night EXCEPT !.next = "over"]
    /\ UNCHANGED <<events, paid, tables, today>>

RunProfiles ==
    \/ Execute("delete_profiles", DeleteProfiles(tables, night.window), "insert_profiles")
    \/ Execute("insert_profiles", InsertProfiles(tables, night.window), "delete_days")

RunDays ==
    \/ Execute("delete_days", DeleteDays(tables, night.window), "insert_days")
    \/ Resolves(JobAliases) /\ Execute("insert_days", InsertDays(tables, night.window), "activity")
    \/ ~Resolves(JobAliases) /\ Reject("insert_days")

RunDerived ==
    \/ Execute("activity", DeriveActivity(tables, night.window), "score")
    \/ Execute("score", DeriveScore(tables, night.window), "liked")
    \/ Execute("liked", DeriveLiked(tables, night.window), "activation")
    \/ Execute("activation", DeriveActivation(tables, night.window), "delete_snapshots")

RunSnapshots ==
    \/ Execute("delete_snapshots", DeleteSnapshots(tables, night.window), "insert_snapshots")
    \/ Execute("insert_snapshots", InsertSnapshots(tables, night.window), "over")

\* The invocation is cut off between two statements.
Die ==
    /\ night.next \notin {"asleep", "over", "died"}
    /\ night' = [next |-> "died", window |-> NoWindow]
    /\ UNCHANGED <<events, paid, tables, today>>

\* One trigger a day, which may be missed.
NextDay ==
    /\ night.next \in {"asleep", "over", "died"}
    /\ today < LastDay
    /\ today' = today + 1
    /\ night' = [next |-> "asleep", window |-> NoWindow]
    /\ UNCHANGED <<events, paid, tables>>

Next == Wake \/ RunProfiles \/ RunDays \/ RunDerived \/ RunSnapshots \/ Die \/ NextDay

Spec == Init /\ [][Next]_vars

-----------------------------------------------------------------------------
(* The reports over every closed cohort                                    *)

Cohort(t) == {i \in DOMAIN t.profile : t.profile[i].day <= today - Week}

Soon(p, time) == time # None /\ time - p.at <= 3 * Day

\* getFunnelReport: the totals.
Stage1(p) == Soon(p, p.frame)
Stage2(p) == Stage1(p) /\ Soon(p, p.onboarding)
Stage3(p) == Soon(p, p.onboarding) /\ Soon(p, p.core)
Stage4(p) == Stage3(p) /\ p.liked
Stage5(p) == Stage4(p) /\ p.retained
Stage6(p) == Stage5(p) /\ Soon(p, p.purchase)
Stage7(p) == Stage6(p) /\ p.activated

ActiveCore(p) == p.import \/ p.ai
PassiveDance(p) == p.dance /\ ~ActiveCore(p)
BuyAfterCore(p) == p.purchase # None /\ p.core # None /\ p.purchase >= p.core
PaidInApp(p) == p.purchase # None /\ p.activated

FunnelTotals(t) ==
    LET count(Stage(_)) == Cardinality({i \in Cohort(t) : Stage(t.profile[i])})
    IN  << Cardinality(Cohort(t)), count(Stage1), count(Stage2), count(Stage3),
           count(Stage4), count(Stage5), count(Stage6), count(Stage7),
           count(ActiveCore), count(PassiveDance), count(BuyAfterCore), count(PaidInApp) >>

\* getFunnelReport: the rows of the days.
FunnelDays(t) ==
    LET of(d) == {i \in Cohort(t) : t.profile[i].day = d}
        count(d, Stage(_)) == Cardinality({i \in of(d) : Stage(t.profile[i])})
    IN  [d \in {t.profile[i].day : i \in Cohort(t)} |->
            << Cardinality(of(d)), count(d, Stage1), count(d, Stage2), count(d, Stage3),
               count(d, LAMBDA p : Soon(p, p.purchase)), count(d, LAMBDA p : p.activated) >>]

\* getFeatureCombos: installs, purchase clicks and payments of each combination.
FeatureCombos(t) ==
    LET combo(i) == <<t.profile[i].dance, t.profile[i].import, t.profile[i].ai>>
        users(c) == {i \in Cohort(t) : combo(i) = c}
    IN  [c \in {combo(i) : i \in Cohort(t)} |->
            [n |-> Cardinality(users(c)),
             buy |-> Cardinality({i \in users(c) : t.profile[i].purchase # None}),
             pay |-> Cardinality({i \in users(c) : t.profile[i].activated})]]

\* getFunnelBreakdown: who did what in the week that begins with the install day.
FunnelBreakdown(t) ==
    LET days(i) == {x \in DOMAIN t.days :
                      /\ x[1] = i
                      /\ t.profile[i].day <= x[2]
                      /\ x[2] <= t.profile[i].day + 6}
        did(kind) == {i \in Cohort(t) : \E x \in days(i) : kind \in t.days[x].kinds}
        base(Group(_)) == Cardinality({i \in Cohort(t) : Group(t.profile[i])})
    IN  [did |-> [kind \in CoreKinds \union {"import_click", "message"} |-> Cardinality(did(kind))],
         activeCore |-> base(ActiveCore), passiveDance |-> base(PassiveDance)]

\* When a night is over, running the script for the same window by hand would not
\* change what the reports say.
NightAgreesWithScript ==
    night.next = "over" =>
        LET rebuilt == Script(tables, night.window) IN
        /\ FunnelTotals(tables) = FunnelTotals(rebuilt)
        /\ FunnelDays(tables) = FunnelDays(rebuilt)
        /\ FeatureCombos(tables) = FeatureCombos(rebuilt)
        /\ FunnelBreakdown(tables) = FunnelBreakdown(rebuilt)
=============================================================================
