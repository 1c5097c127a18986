----------------------- MODULE TelemetrySessionProofs -----------------------
(* Theorems about TelemetrySession, for any events, any number of requests *)
(* and of attempts, any failures.                                          *)
EXTENDS TelemetrySession, TLAPS, FiniteSetTheorems

Fields == {"process", "visible"}
Busy == {r \in Requests : ~At(r, "idle")}
BusyStarts == {r \in Requests : ~At(r, "idle") /\ TypeOf[EventOf(r)] = "start"}
Installing == {r \in Requests : req[r].installs = 1}
Starts == {e \in stored : TypeOf[e] = "start"}

TypeInv ==
    /\ TypeOK
    /\ replay \in [devices : {0, 1}, launches : Nat,
                   time : [process : Nat, visible : Nat], last : Duration]

\* What a request has to do says what it handles and what has been written for it; a
\* difference waits for the last statement only.
FrameInv(r) ==
    /\ ~At(r, "add") => req[r].installs = 0 /\ req[r].delta = Zero
    /\ ~At(r, "idle") => EventOf(r) \in stored
    /\ At(r, "install") => TypeOf[EventOf(r)] = "install"
    /\ At(r, "mark") \/ At(r, "remark") => TypeOf[EventOf(r)] # "install"
    /\ At(r, "start") => TypeOf[EventOf(r)] = "start"
    /\ At(r, "read") \/ At(r, "insert") \/ At(r, "update") => TypeOf[EventOf(r)] = "duration"
    /\ At(r, "update") => req[r].seen \in Duration
    /\ At(r, "add") => TypeOf[EventOf(r)] = "duration" \/ req[r].delta = Zero
    /\ ~At(r, "idle") /\ ~At(r, "mark") /\ ~At(r, "remark") /\ TypeOf[EventOf(r)] # "install"
         => Marks \subseteq uniques
FramesInv == \A r \in Requests : FrameInv(r)

\* The session's durations are those of a report, as it came.
SessionInv ==
    \/ session = None \/ session = Zero
    \/ \E e \in stored : TypeOf[e] = "duration" /\ session = DurationOf[e]

\* What is counted, with what is about to be.
CountsInv ==
    /\ metrics.events + Cardinality(Busy) <= Cardinality(stored)
    /\ metrics.launches + Cardinality(BusyStarts) <= Cardinality(Starts)
    /\ metrics.installs + Cardinality(Installing) <= (IF "install_seen" \in uniques THEN 1 ELSE 0)

\* The marks of a device's activity come first, before anything of it is counted.
MarksInv ==
    /\ metrics.launches > 0 \/ metrics.process > 0 \/ metrics.visible > 0 => Marks \subseteq uniques
    /\ "install_active" \in uniques => Marks \subseteq uniques
    /\ replay.launches > 0 \/ replay.time # Zero => replay.devices = 1
    /\ Marks \subseteq uniques => replay.devices = 1
    /\ \A r \in Requests : ~At(r, "idle") /\ TypeOf[EventOf(r)] # "install" => replay.devices = 1

\* As long as nothing fails, the replay's device is marked or about to be, and its launches
\* are counted or about to be.
ReplayInv ==
    failures = 0 =>
        /\ replay.devices = 1 => Marks \subseteq uniques \/ \E r \in Requests : At(r, "mark")
        /\ \A r \in Requests : ~At(r, "remark")
        /\ metrics.launches + Cardinality(BusyStarts) = replay.launches

Settled ==
    /\ replay.last = SessionTotal
    /\ \A field \in Fields : replay.time[field] = metrics[field]

\* While no requests overlap, the only one in flight owes the day what the replay has more.
AloneInv(r) ==
    /\ TypeOf[EventOf(r)] # "duration" => Settled
    /\ TypeOf[EventOf(r)] = "duration" /\ ~At(r, "add") =>
         /\ replay.last = Reported(r)
         /\ \A field \in Fields :
              replay.time[field] = metrics[field]
                                     + boundedDelta(Reported(r)[field], SessionTotal[field])
    /\ TypeOf[EventOf(r)] = "duration" /\ At(r, "add") =>
         /\ replay.last = SessionTotal
         /\ \A field \in Fields : replay.time[field] = metrics[field] + req[r].delta[field]
    /\ At(r, "insert") => session = None
    /\ At(r, "update") => session = req[r].seen

TimesInv ==
    failures = 0 /\ ~overlapped =>
        /\ \A q, r \in Requests : ~At(q, "idle") /\ ~At(r, "idle") => q = r
        /\ (\A r \in Requests : At(r, "idle")) => Settled
        /\ \A r \in Requests : ~At(r, "idle") => AloneInv(r)

-----------------------------------------------------------------------------
(***************************************************************************)
(* Part 1: the operators.                                                  *)
(***************************************************************************)

Moved(r, pc, seen, installs, delta) ==
    /\ req' \in [Requests -> Frame]
    /\ req'[r].pc = pc /\ req'[r].event = req[r].event
    /\ req'[r].seen = seen /\ req'[r].installs = installs /\ req'[r].delta = delta
    /\ \A q \in Requests \ {r} : req'[q] = req[q]

Ended(r) ==
    /\ req' \in [Requests -> Frame]
    /\ req'[r] = Idle
    /\ \A q \in Requests \ {r} : req'[q] = req[q]

LEMMA ZeroTypes ==
  /\ MaxDuration \in Nat /\ Attempts \in Nat /\ MaxFailures \in Nat
  /\ Zero \in Duration /\ Zero.process = 0 /\ Zero.visible = 0
  /\ \A field \in Fields : Zero[field] = 0
  /\ Idle \in Frame /\ Idle.pc = "idle" /\ Idle.event = None
  /\ Idle.seen = None /\ Idle.installs = 0 /\ Idle.delta = Zero
<1>1. MaxDuration \in Nat /\ Attempts \in Nat /\ MaxFailures \in Nat
  BY BoundsAssumption
<1>2. Zero \in Duration /\ Zero.process = 0 /\ Zero.visible = 0 /\ \A field \in Fields : Zero[field] = 0
  BY <1>1 DEF Zero, Duration, Fields
<1> QED
  BY <1>1, <1>2 DEF Idle, Frame, Pc

LEMMA DurationFields ==
  ASSUME NEW d \in Duration, NEW field \in Fields
  PROVE  d[field] \in 0 .. MaxDuration /\ d[field] \in Nat
BY ZeroTypes DEF Duration, Fields

LEMMA SumFields ==
  ASSUME NEW d \in [process : Nat, visible : Nat], NEW e \in [process : Nat, visible : Nat]
  PROVE  /\ Plus(d, e) \in [process : Nat, visible : Nat]
         /\ \A field \in Fields : Plus(d, e)[field] = d[field] + e[field]
BY DEF Plus, Fields

\* Durations are capped, so that the larger of two exceeds the other by what is counted.
LEMMA BoundedDelta ==
  ASSUME NEW x \in 0 .. MaxDuration, NEW y \in 0 .. MaxDuration
  PROVE  /\ boundedDelta(x, y) \in 0 .. MaxDuration
         /\ boundedDelta(x, y) = IF x > y THEN x - y ELSE 0
BY ZeroTypes DEF boundedDelta

LEMMA DifferenceFields ==
  ASSUME NEW d \in Duration, NEW e \in Duration
  PROVE  /\ Difference(d, e) \in Duration
         /\ \A field \in Fields :
              /\ Difference(d, e)[field] = boundedDelta(d[field], e[field])
              /\ boundedDelta(d[field], e[field]) = IF d[field] > e[field] THEN d[field] - e[field] ELSE 0
<1>1. \A field \in Fields : d[field] \in 0 .. MaxDuration /\ e[field] \in 0 .. MaxDuration
  BY DurationFields
<1>2. \A field \in Fields :
        /\ boundedDelta(d[field], e[field]) \in 0 .. MaxDuration
        /\ boundedDelta(d[field], e[field]) = IF d[field] > e[field] THEN d[field] - e[field] ELSE 0
  BY <1>1, BoundedDelta
<1>3. \A field \in Fields : Difference(d, e)[field] = boundedDelta(d[field], e[field])
  BY DEF Difference, Fields
<1>4. Difference(d, e) \in Duration
  BY <1>2 DEF Difference, Fields, Duration
<1> QED
  BY <1>2, <1>3, <1>4

LEMMA SessionTypes ==
  ASSUME TypeOK
  PROVE  /\ SessionTotal \in Duration
         /\ session # None => session \in Duration /\ SessionTotal = session /\ Latest(session, Zero) = session
         /\ session = None => SessionTotal = Zero
         /\ \A d \in Duration : d # None
<1>1. session \in Duration \union {None} /\ None \notin Duration
  BY EventsAssumption DEF TypeOK
<1>2. ASSUME NEW d \in Duration PROVE Latest(d, Zero) = d
  BY ZeroTypes DEF Latest, Later, Duration
<1> QED
  BY <1>1, <1>2, ZeroTypes DEF SessionTotal

\* The requests that have a property, when one of them takes a step.
LEMMA Membership ==
  ASSUME NEW X \in SUBSET Requests, NEW Y \in SUBSET Requests, NEW r \in Requests,
         \A q \in Requests \ {r} : q \in X <=> q \in Y
  PROVE  /\ Cardinality(X) \in Nat /\ Cardinality(Y) \in Nat
         /\ (r \in X <=> r \in Y) => Cardinality(Y) = Cardinality(X)
         /\ r \notin X /\ r \in Y => Cardinality(Y) = Cardinality(X) + 1
         /\ r \in X /\ r \notin Y => Cardinality(Y) = Cardinality(X) - 1
<1>1. /\ IsFiniteSet(X) /\ IsFiniteSet(Y) /\ Cardinality(X) \in Nat /\ Cardinality(Y) \in Nat
  BY RequestsAssumption, FS_Subset, FS_CardinalityType
<1>2. (r \in X <=> r \in Y) => Y = X
  OBVIOUS
<1>3. r \notin X /\ r \in Y => Y = X \union {r}
  OBVIOUS
<1>4. r \in X /\ r \notin Y => Y = X \ {r}
  OBVIOUS
<1>5. r \notin X => Cardinality(X \union {r}) = Cardinality(X) + 1
  BY <1>1, FS_AddElement
<1>6. r \in X => Cardinality(X \ {r}) = Cardinality(X) - 1
  BY <1>1, FS_RemoveElement
<1> QED
  BY <1>1, <1>2, <1>3, <1>4, <1>5, <1>6

\* The seconds of all requests, when those of one change.
Units(D) == {x \in Requests \X (1 .. MaxDuration) : x[2] <= D[x[1]]}

LEMMA UnitsChange ==
  ASSUME NEW D \in [Requests -> 0 .. MaxDuration], NEW E \in [Requests -> 0 .. MaxDuration],
         NEW r \in Requests, \A q \in Requests \ {r} : D[q] = E[q]
  PROVE  /\ Cardinality(Units(D)) \in Nat /\ Cardinality(Units(E)) \in Nat
         /\ Cardinality(Units(D)) + E[r] = Cardinality(Units(E)) + D[r]
<1> DEFINE Rest == {x \in Units(D) : x[1] # r}
           Own(n) == {r} \X (1 .. n)
<1>1. IsFiniteSet(Requests \X (1 .. MaxDuration))
  <2>1. IsFiniteSet(1 .. MaxDuration)
    BY ZeroTypes, FS_Interval
  <2> QED
    BY <2>1, RequestsAssumption, FS_Product
<1>2. ASSUME NEW F \in [Requests -> 0 .. MaxDuration], \A q \in Requests \ {r} : D[q] = F[q]
      PROVE  Cardinality(Units(F)) = Cardinality(Rest) + F[r] /\ Cardinality(Units(F)) \in Nat
  <2>1. F[r] \in Nat /\ F[r] <= MaxDuration
    BY ZeroTypes
  <2>2. IsFiniteSet(Own(F[r])) /\ Cardinality(Own(F[r])) = F[r]
    <3>1. IsFiniteSet(1 .. F[r]) /\ Cardinality(1 .. F[r]) = F[r]
      BY <2>1, FS_Interval
    <3>2. IsFiniteSet({r}) /\ Cardinality({r}) = 1
      BY FS_Singleton
    <3>3. IsFiniteSet(Own(F[r])) /\ Cardinality(Own(F[r])) = Cardinality({r}) * Cardinality(1 .. F[r])
      BY <3>1, <3>2, FS_Product
    <3> QED
      BY <2>1, <3>1, <3>2, <3>3
  <2>3. Rest \in SUBSET (Requests \X (1 .. MaxDuration))
    BY DEF Units
  <2>4. IsFiniteSet(Rest) /\ Cardinality(Rest) \in Nat
    BY <1>1, <2>3, FS_Subset, FS_CardinalityType
  <2>5. Units(F) = Rest \union Own(F[r])
    <3>1. ASSUME NEW x \in Units(F) PROVE x \in Rest \union Own(F[r])
      <4>1. x \in Requests \X (1 .. MaxDuration) /\ x[2] <= F[x[1]]
        BY <3>1 DEF Units
      <4>2. CASE x[1] = r
        <5>1. x[2] \in 1 .. F[r]
          BY <2>1, <4>1, <4>2, ZeroTypes
        <5> QED
          BY <4>1, <4>2, <5>1
      <4>3. CASE x[1] # r
        BY <1>2, <4>1, <4>3 DEF Units
      <4> QED
        BY <4>2, <4>3
    <3>2. ASSUME NEW x \in Rest PROVE x \in Units(F)
      <4>1. x \in Requests \X (1 .. MaxDuration) /\ x[2] <= D[x[1]] /\ x[1] # r
        BY <3>2 DEF Units
      <4>2. x[1] \in Requests \ {r}
        BY <4>1
      <4> QED
        BY <1>2, <4>1, <4>2 DEF Units
    <3>3. ASSUME NEW x \in Own(F[r]) PROVE x \in Units(F)
      <4>1. x[1] = r /\ x[2] \in 1 .. F[r] /\ x = <<x[1], x[2]>>
        BY <3>3
      <4>2. x[2] \in 1 .. MaxDuration /\ x[2] <= F[r]
        BY <2>1, <4>1, ZeroTypes
      <4> QED
        BY <4>1, <4>2 DEF Units
    <3> QED
      BY <3>1, <3>2, <3>3
  <2>6. Rest \cap Own(F[r]) = {}
    OBVIOUS
  <2> HIDE DEF Rest, Own
  <2>7. Cardinality(Rest \union Own(F[r])) = Cardinality(Rest) + Cardinality(Own(F[r]))
    <3>1. Cardinality(Rest \cap Own(F[r])) = 0
      BY <2>6, FS_EmptySet
    <3>2. Cardinality(Rest \union Own(F[r]))
            = Cardinality(Rest) + Cardinality(Own(F[r])) - Cardinality(Rest \cap Own(F[r]))
      BY <2>2, <2>4, FS_Union
    <3> QED
      BY <2>1, <2>2, <2>4, <3>1, <3>2
  <2> QED
    BY <2>1, <2>2, <2>4, <2>5, <2>7
<1>3. D[r] \in Nat /\ E[r] \in Nat /\ Cardinality(Rest) \in Nat
  <2>1. Rest \in SUBSET (Requests \X (1 .. MaxDuration))
    BY DEF Units
  <2> QED
    BY <1>1, <2>1, FS_Subset, FS_CardinalityType, ZeroTypes
<1>4. Cardinality(Units(D)) = Cardinality(Rest) + D[r] /\ Cardinality(Units(D)) \in Nat
  BY <1>2
<1>5. Cardinality(Units(E)) = Cardinality(Rest) + E[r] /\ Cardinality(Units(E)) \in Nat
  BY <1>2
<1> HIDE DEF Rest
<1> QED
  BY <1>3, <1>4, <1>5

LEMMA FrameTypes ==
  ASSUME TypeOK, NEW r \in Requests
  PROVE  /\ req \in [Requests -> Frame] /\ req[r] \in Frame
         /\ req[r].pc \in Pc /\ req[r].attempt \in Nat
         /\ req[r].seen \in Duration \union {None} /\ req[r].installs \in {0, 1}
         /\ req[r].delta \in Duration
         /\ ~At(r, "idle") => EventOf(r) \in Events /\ TypeOf[EventOf(r)] \in {"install", "start", "duration"}
                                /\ Reported(r) \in Duration /\ AfterMarks(r) \in Pc
<1>1. req \in [Requests -> Frame] /\ req[r] \in Frame /\ (At(r, "idle") <=> EventOf(r) = None)
  BY DEF TypeOK
<1>2. /\ req[r].pc \in Pc /\ req[r].attempt \in Nat /\ req[r].event \in Events \union {None}
      /\ req[r].seen \in Duration \union {None} /\ req[r].installs \in {0, 1}
      /\ req[r].delta \in Duration
  BY <1>1 DEF Frame
<1>3. ASSUME ~At(r, "idle")
      PROVE  EventOf(r) \in Events /\ TypeOf[EventOf(r)] \in {"install", "start", "duration"}
               /\ Reported(r) \in Duration /\ AfterMarks(r) \in Pc
  <2>1. EventOf(r) \in Events
    BY <1>1, <1>2, <1>3 DEF EventOf
  <2>2. TypeOf[EventOf(r)] \in {"install", "start", "duration"} /\ Reported(r) \in Duration
    BY <2>1, EventsAssumption DEF Reported
  <2>3. AfterMarks(r) \in {"add", "start", "read"}
    BY <2>2 DEF AfterMarks
  <2> QED
    BY <2>1, <2>2, <2>3 DEF Pc
<1> QED
  BY <1>1, <1>2, <1>3

\* What the steps make of their request's frame.
LEMMA FrameSteps ==
  ASSUME TypeOK, NEW r \in Requests
  PROVE  /\ \A step \in Pc : Goto(r, step) => Moved(r, step, req[r].seen, req[r].installs, req[r].delta)
         /\ Finish(r) => Ended(r)
         /\ \A d \in Duration : Count(r, d) => Moved(r, "add", None, req[r].installs, d)
         /\ TryAgain(r) => \/ Moved(r, "read", None, req[r].installs, req[r].delta)
                           \/ Moved(r, "add", None, req[r].installs, req[r].delta)
         /\ SessionRead(r) => Moved(r, IF session = None THEN "insert" ELSE "update", session,
                                    req[r].installs, req[r].delta)
         /\ InstallUnique(r) => Moved(r, "add", req[r].seen, IF "install_seen" \in uniques THEN 0 ELSE 1,
                                      req[r].delta)
<1>0. /\ req \in [Requests -> Frame] /\ req[r] \in Frame /\ req[r].attempt \in Nat
      /\ session \in Duration \union {None}
  BY FrameTypes DEF TypeOK
<1>1. ASSUME NEW f \in Frame, req' = [req EXCEPT ![r] = f]
      PROVE  /\ req' \in [Requests -> Frame] /\ req'[r] = f
             /\ \A q \in Requests \ {r} : req'[q] = req[q]
  BY <1>0, <1>1
<1>2. ASSUME NEW f \in Frame, f.event = req[r].event, req' = [req EXCEPT ![r] = f]
      PROVE  Moved(r, f.pc, f.seen, f.installs, f.delta)
  BY <1>1, <1>2 DEF Moved
<1>3. /\ "add" \in Pc /\ "read" \in Pc /\ "insert" \in Pc /\ "update" \in Pc
      /\ 0 \in Nat /\ req[r].attempt + 1 \in Nat
  BY <1>0 DEF Pc
<1>4. ASSUME NEW step \in Pc, Goto(r, step)
      PROVE  Moved(r, step, req[r].seen, req[r].installs, req[r].delta)
  <2> DEFINE f == [req[r] EXCEPT !.pc = step]
  <2>1. /\ f \in Frame /\ f.pc = step /\ f.event = req[r].event /\ f.seen = req[r].seen
        /\ f.installs = req[r].installs /\ f.delta = req[r].delta
    BY <1>0 DEF Frame
  <2>2. req' = [req EXCEPT ![r] = f]
    BY <1>0, <1>4 DEF Goto
  <2> HIDE DEF f
  <2>3. Moved(r, f.pc, f.seen, f.installs, f.delta)
    BY <1>2, <2>1, <2>2
  <2> QED
    BY <2>1, <2>3
<1>5. ASSUME NEW step \in Pc, NEW d \in Duration, NEW n \in Nat,
             req' = [req EXCEPT ![r].pc = step, ![r].delta = d, ![r].attempt = n, ![r].seen = None]
      PROVE  Moved(r, step, None, req[r].installs, d)
  <2> DEFINE f == [req[r] EXCEPT !.pc = step, !.delta = d, !.attempt = n, !.seen = None]
  <2>1. /\ f \in Frame /\ f.pc = step /\ f.event = req[r].event /\ f.seen = None
        /\ f.installs = req[r].installs /\ f.delta = d
    BY <1>0 DEF Frame
  <2>2. req' = [req EXCEPT ![r] = f]
    BY <1>0, <1>5
  <2> HIDE DEF f
  <2>3. Moved(r, f.pc, f.seen, f.installs, f.delta)
    BY <1>2, <2>1, <2>2
  <2> QED
    BY <2>1, <2>3
<1>6. ASSUME NEW step \in Pc, NEW n \in Nat,
             req' = [req EXCEPT ![r].pc = step, ![r].attempt = n, ![r].seen = None]
      PROVE  Moved(r, step, None, req[r].installs, req[r].delta)
  <2> DEFINE f == [req[r] EXCEPT !.pc = step, !.attempt = n, !.seen = None]
  <2>1. /\ f \in Frame /\ f.pc = step /\ f.event = req[r].event /\ f.seen = None
        /\ f.installs = req[r].installs /\ f.delta = req[r].delta
    BY <1>0 DEF Frame
  <2>2. req' = [req EXCEPT ![r] = f]
    BY <1>0, <1>6
  <2> HIDE DEF f
  <2>3. Moved(r, f.pc, f.seen, f.installs, f.delta)
    BY <1>2, <2>1, <2>2
  <2> QED
    BY <2>1, <2>3
<1>7. ASSUME NEW step \in Pc, req' = [req EXCEPT ![r].seen = session, ![r].pc = step]
      PROVE  Moved(r, step, session, req[r].installs, req[r].delta)
  <2> DEFINE f == [req[r] EXCEPT !.seen = session, !.pc = step]
  <2>1. /\ f \in Frame /\ f.pc = step /\ f.event = req[r].event /\ f.seen = session
        /\ f.installs = req[r].installs /\ f.delta = req[r].delta
    BY <1>0 DEF Frame
  <2>2. req' = [req EXCEPT ![r] = f]
    BY <1>0, <1>7
  <2> HIDE DEF f
  <2>3. Moved(r, f.pc, f.seen, f.installs, f.delta)
    BY <1>2, <2>1, <2>2
  <2> QED
    BY <2>1, <2>3
<1>8. ASSUME NEW i \in {0, 1}, req' = [req EXCEPT ![r].pc = "add", ![r].installs = i]
      PROVE  Moved(r, "add", req[r].seen, i, req[r].delta)
  <2> DEFINE f == [req[r] EXCEPT !.pc = "add", !.installs = i]
  <2>1. /\ f \in Frame /\ f.pc = "add" /\ f.event = req[r].event /\ f.seen = req[r].seen
        /\ f.installs = i /\ f.delta = req[r].delta
    BY <1>0 DEF Frame, Pc
  <2>2. req' = [req EXCEPT ![r] = f]
    BY <1>0, <1>8
  <2> HIDE DEF f
  <2>3. Moved(r, f.pc, f.seen, f.installs, f.delta)
    BY <1>2, <2>1, <2>2
  <2> QED
    BY <2>1, <2>3
<1>9. Finish(r) => Ended(r)
  BY <1>1, ZeroTypes DEF Finish, Ended
<1>10. \A d \in Duration : Count(r, d) => Moved(r, "add", None, req[r].installs, d)
  BY <1>3, <1>5, Zenon DEF Count
<1>11. TryAgain(r) => \/ Moved(r, "read", None, req[r].installs, req[r].delta)
                      \/ Moved(r, "add", None, req[r].installs, req[r].delta)
  <2> SUFFICES ASSUME TryAgain(r)
               PROVE  \/ Moved(r, "read", None, req[r].installs, req[r].delta)
                      \/ Moved(r, "add", None, req[r].installs, req[r].delta)
    OBVIOUS
  <2>1. CASE req[r].attempt + 1 < Attempts
    <3>1. req' = [req EXCEPT ![r].pc = "read", ![r].attempt = req[r].attempt + 1, ![r].seen = None]
      BY <1>0, <2>1 DEF TryAgain
    <3> QED
      BY <1>3, <1>6, <3>1, Zenon
  <2>2. CASE ~(req[r].attempt + 1 < Attempts)
    <3>1. req' = [req EXCEPT ![r].pc = "add", ![r].attempt = 0, ![r].seen = None]
      BY <2>2 DEF TryAgain
    <3> QED
      BY <1>3, <1>6, <3>1, Zenon
  <2> QED
    BY <2>1, <2>2
<1>12. SessionRead(r) => Moved(r, IF session = None THEN "insert" ELSE "update", session,
                               req[r].installs, req[r].delta)
  BY <1>3, <1>7 DEF SessionRead
<1>13. InstallUnique(r) => Moved(r, "add", req[r].seen, IF "install_seen" \in uniques THEN 0 ELSE 1,
                                 req[r].delta)
  BY <1>8 DEF InstallUnique
<1> QED
  BY <1>4, <1>9, <1>10, <1>11, <1>12, <1>13

-----------------------------------------------------------------------------
(***************************************************************************)
(* Part 2: the steps, each with its request's frame spelled out.           *)
(***************************************************************************)

StepAccept(r, e) ==
    /\ At(r, "idle") /\ e \in Events \ stored
    /\ stored' = stored \union {e}
    /\ req' \in [Requests -> Frame]
    /\ req'[r].pc = IF TypeOf[e] = "install" THEN "install" ELSE "mark"
    /\ req'[r].event = e /\ req'[r].seen = None /\ req'[r].installs = 0 /\ req'[r].delta = Zero
    /\ \A q \in Requests \ {r} : req'[q] = req[q]
    /\ replay' = Accumulate(replay, e)
    /\ overlapped' = (overlapped \/ \E q \in Requests \ {r} : ~At(q, "idle"))
    /\ UNCHANGED <<uniques, session, metrics, lost, backward, failures>>
StepInstall(r) ==
    /\ At(r, "install")
    /\ Moved(r, "add", req[r].seen, IF "install_seen" \in uniques THEN 0 ELSE 1, req[r].delta)
    /\ uniques' = uniques \union {"install_seen"}
    /\ UNCHANGED <<stored, replay, overlapped, session, metrics, lost, backward, failures>>
StepMark(r) ==
    /\ At(r, "mark") \/ At(r, "remark")
    /\ Moved(r, AfterMarks(r), req[r].seen, req[r].installs, req[r].delta)
    /\ uniques' = uniques \union Marks
    /\ UNCHANGED <<stored, replay, overlapped, session, metrics, lost, backward, failures>>
StepMarkFails(r) ==
    /\ failures < MaxFailures /\ failures' = failures + 1
    /\ \/ At(r, "mark") /\ Moved(r, "remark", req[r].seen, req[r].installs, req[r].delta)
       \/ At(r, "remark") /\ Ended(r)
    /\ uniques' = uniques \/ uniques' = uniques \union Marks
    /\ UNCHANGED <<stored, replay, overlapped, session, metrics, lost, backward>>
StepStart(r) ==
    /\ At(r, "start")
    /\ session' = SessionTotal
    /\ Moved(r, "add", req[r].seen, req[r].installs, req[r].delta)
    /\ UNCHANGED <<stored, replay, overlapped, uniques, metrics, lost, backward, failures>>
StepRead(r) ==
    /\ At(r, "read")
    /\ Moved(r, IF session = None THEN "insert" ELSE "update", session, req[r].installs, req[r].delta)
    /\ UNCHANGED <<stored, replay, overlapped, uniques, session, metrics, lost, backward, failures>>
StepRetry(r) ==
    /\ \/ At(r, "insert") /\ session # None
       \/ At(r, "update") /\ session # req[r].seen
    /\ \/ Moved(r, "read", None, req[r].installs, req[r].delta)
       \/ Moved(r, "add", None, req[r].installs, req[r].delta)
    /\ UNCHANGED <<stored, replay, overlapped, uniques, session, metrics, lost, backward, failures>>
StepInsert(r) ==
    /\ At(r, "insert") /\ session = None
    /\ session' = Reported(r)
    /\ Moved(r, "add", None, req[r].installs, Reported(r))
    /\ UNCHANGED <<stored, replay, overlapped, uniques, metrics, lost, backward, failures>>
StepUpdate(r) ==
    /\ At(r, "update") /\ session = req[r].seen /\ session \in Duration
    /\ session' = Reported(r)
    /\ Moved(r, "add", None, req[r].installs, Difference(Reported(r), session))
    /\ backward' = Plus(backward, Difference(session, Reported(r)))
    /\ UNCHANGED <<stored, replay, overlapped, uniques, metrics, lost, failures>>
StepAdd(r) ==
    /\ At(r, "add")
    /\ metrics' \in Metrics
    /\ metrics'.installs = metrics.installs + req[r].installs
    /\ metrics'.launches = IF TypeOf[EventOf(r)] = "start" THEN metrics.launches + 1 ELSE metrics.launches
    /\ metrics'.events = metrics.events + 1
    /\ \A field \in Fields : metrics'[field] = metrics[field] + req[r].delta[field]
    /\ Ended(r)
    /\ UNCHANGED <<stored, replay, overlapped, uniques, session, lost, backward, failures>>
StepAbandon(r) ==
    /\ ~At(r, "idle") /\ failures < MaxFailures /\ failures' = failures + 1
    /\ lost' = Plus(lost, req[r].delta)
    /\ Ended(r)
    /\ UNCHANGED <<stored, replay, overlapped, uniques, session, metrics, backward>>

Steps(r) ==
    \/ \E e \in Events : StepAccept(r, e)
    \/ StepInstall(r) \/ StepMark(r) \/ StepMarkFails(r) \/ StepStart(r)
    \/ StepRead(r) \/ StepRetry(r) \/ StepInsert(r) \/ StepUpdate(r)
    \/ StepAdd(r) \/ StepAbandon(r)

LEMMA AddMetrics ==
  ASSUME TypeOK, NEW r \in Requests, IncrementDailyMetrics(r)
  PROVE  /\ metrics' \in Metrics
         /\ metrics'.installs = metrics.installs + req[r].installs
         /\ metrics'.launches = IF TypeOf[EventOf(r)] = "start" THEN metrics.launches + 1 ELSE metrics.launches
         /\ metrics'.events = metrics.events + 1
         /\ \A field \in Fields : metrics'[field] = metrics[field] + req[r].delta[field]
<1>1. /\ metrics \in Metrics /\ req[r].installs \in {0, 1} /\ req[r].delta \in Duration
  BY FrameTypes DEF TypeOK
<1>2. req[r].delta.process \in Nat /\ req[r].delta.visible \in Nat
  BY <1>1, ZeroTypes DEF Duration
<1> DEFINE l == IF TypeOf[EventOf(r)] = "start" THEN metrics.launches + 1 ELSE metrics.launches
           m == [installs |-> metrics.installs + req[r].installs, launches |-> l,
                 events |-> metrics.events + 1,
                 process |-> metrics.process + req[r].delta.process,
                 visible |-> metrics.visible + req[r].delta.visible]
<1>3. metrics' = m
  BY <1>1 DEF Metrics, IncrementDailyMetrics
<1>4. l \in Nat
  BY <1>1 DEF Metrics
<1>5. m \in Metrics
  <2> HIDE DEF l
  <2> QED
    BY <1>1, <1>2, <1>4 DEF Metrics
<1>6. /\ m.installs = metrics.installs + req[r].installs /\ m.launches = l
      /\ m.events = metrics.events + 1
  OBVIOUS
<1>7. \A field \in Fields : m[field] = metrics[field] + req[r].delta[field]
  BY <1>1 DEF Fields, Metrics, Duration
<1> HIDE DEF m
<1> QED
  BY <1>3, <1>5, <1>6, <1>7

LEMMA StepCases ==
  ASSUME TypeInv, FramesInv, [Next]_vars
  PROVE  (\E r \in Requests : Steps(r)) \/ UNCHANGED vars
<1>0. TypeOK
  BY DEF TypeInv
<1>1. ASSUME NEW r \in Requests, NEW e \in Events, StepAccept(r, e) PROVE Steps(r)
  BY <1>1 DEF Steps
<1>2. ASSUME NEW r \in Requests, NEW e \in Events, StoreEvent(r, e)
      PROVE  Steps(r) \/ UNCHANGED vars
  <2>1. CASE e \notin stored
    <3>1. /\ At(r, "idle") /\ stored' = stored \union {e} /\ Accept(r, e)
          /\ UNCHANGED <<uniques, session, metrics, lost, backward, failures>>
      BY <1>2, <2>1 DEF StoreEvent, history
    <3> DEFINE pc == IF TypeOf[e] = "install" THEN "install" ELSE "mark"
               f == [Idle EXCEPT !.event = e, !.pc = pc]
    <3>0. pc \in Pc
      BY DEF Pc
    <3> HIDE DEF pc
    <3>2. f \in Frame
      BY <3>0, ZeroTypes DEF Frame
    <3>3. req' = [req EXCEPT ![r] = f]
      BY <3>1 DEF Accept, pc
    <3>4. /\ f.pc = pc /\ f.event = e /\ f.seen = None /\ f.installs = 0 /\ f.delta = Zero
      BY ZeroTypes DEF Frame
    <3> HIDE DEF f
    <3>5. /\ req' \in [Requests -> Frame] /\ req'[r] = f
          /\ \A q \in Requests \ {r} : req'[q] = req[q]
      BY <1>0, <3>2, <3>3, FrameTypes
    <3>6. /\ replay' = Accumulate(replay, e)
          /\ overlapped' = (overlapped \/ \E q \in Requests \ {r} : ~At(q, "idle"))
      BY <2>1, <3>1 DEF Accept
    <3>7. e \in Events \ stored
      BY <2>1
    <3>8. StepAccept(r, e)
      BY <3>1, <3>4, <3>5, <3>6, <3>7 DEF StepAccept, pc
    <3> QED
      BY <1>1, <3>8
  <2>2. CASE e \in stored
    BY <1>2, <2>2 DEF StoreEvent, vars, events
  <2> QED
    BY <2>1, <2>2
<1>3. ASSUME NEW r \in Requests, InstallUnique(r) PROVE Steps(r)
  BY <1>0, <1>3, FrameSteps DEF InstallUnique, Steps, StepInstall, events, history
<1>4. ASSUME NEW r \in Requests, InsertUniques(r) PROVE Steps(r)
  <2>1. AfterMarks(r) \in Pc
    BY <1>0, <1>4, FrameTypes DEF InsertUniques, At
  <2>2. Moved(r, AfterMarks(r), req[r].seen, req[r].installs, req[r].delta)
    BY <1>0, <1>4, <2>1, FrameSteps DEF InsertUniques
  <2> QED
    BY <1>4, <2>2 DEF InsertUniques, Steps, StepMark, events, history
<1>5. ASSUME NEW r \in Requests, InsertUniquesFails(r) PROVE Steps(r)
  <2>1. "remark" \in Pc
    BY DEF Pc
  <2>2. \/ At(r, "mark") /\ Moved(r, "remark", req[r].seen, req[r].installs, req[r].delta)
        \/ At(r, "remark") /\ Ended(r)
    BY <1>0, <1>5, <2>1, FrameSteps DEF InsertUniquesFails
  <2>3. uniques' = uniques \/ uniques' = uniques \union Marks
    BY <1>5 DEF InsertUniquesFails
  <2> QED
    BY <1>5, <2>2, <2>3 DEF InsertUniquesFails, Steps, StepMarkFails, events, history
<1>6. ASSUME NEW r \in Requests, UpsertSession(r) PROVE Steps(r)
  <2>1. "add" \in Pc
    BY DEF Pc
  <2>2. Moved(r, "add", req[r].seen, req[r].installs, req[r].delta)
    BY <1>0, <1>6, <2>1, FrameSteps DEF UpsertSession
  <2>3. session' = SessionTotal
    BY <1>0, <1>6, SessionTypes DEF UpsertSession
  <2> QED
    BY <1>6, <2>2, <2>3 DEF UpsertSession, Steps, StepStart, events, history
<1>7. ASSUME NEW r \in Requests, SessionRead(r) PROVE Steps(r)
  <2>1. Moved(r, IF session = None THEN "insert" ELSE "update", session, req[r].installs, req[r].delta)
    BY <1>0, <1>7, FrameSteps
  <2> QED
    BY <1>7, <2>1 DEF SessionRead, Steps, StepRead, events, history
<1>8. ASSUME NEW r \in Requests, SessionInsert(r) PROVE Steps(r)
  <2>0. Reported(r) \in Duration
    BY <1>0, <1>8, FrameTypes DEF SessionInsert, At
  <2>1. CASE session = None
    <3>1. session' = Reported(r) /\ Count(r, Reported(r)) /\ At(r, "insert")
      BY <1>8, <2>1 DEF SessionInsert
    <3>2. Moved(r, "add", None, req[r].installs, Reported(r))
      BY <1>0, <2>0, <3>1, FrameSteps
    <3> QED
      BY <1>8, <2>1, <3>1, <3>2 DEF SessionInsert, Steps, StepInsert, events, history
  <2>2. CASE session # None
    <3>1. TryAgain(r) /\ At(r, "insert") /\ UNCHANGED session
      BY <1>8, <2>2 DEF SessionInsert
    <3>2. \/ Moved(r, "read", None, req[r].installs, req[r].delta)
          \/ Moved(r, "add", None, req[r].installs, req[r].delta)
      BY <1>0, <3>1, FrameSteps
    <3> QED
      BY <1>8, <2>2, <3>1, <3>2 DEF SessionInsert, Steps, StepRetry, events, history
  <2> QED
    BY <2>1, <2>2
<1>9. ASSUME NEW r \in Requests, SessionUpdate(r) PROVE Steps(r)
  <2>0. Reported(r) \in Duration /\ req[r].seen \in Duration /\ At(r, "update")
    BY <1>0, <1>9, FrameTypes DEF SessionUpdate, At, FramesInv, FrameInv
  <2>1. CASE session = req[r].seen
    <3>1. /\ session' = Reported(r) /\ Count(r, Difference(Reported(r), session))
          /\ backward' = Plus(backward, Difference(session, Reported(r)))
      BY <1>9, <2>1 DEF SessionUpdate
    <3>2. Difference(Reported(r), session) \in Duration
      BY <2>0, <2>1, DifferenceFields
    <3>3. Moved(r, "add", None, req[r].installs, Difference(Reported(r), session))
      BY <1>0, <3>1, <3>2, FrameSteps
    <3> QED
      BY <1>9, <2>0, <2>1, <3>1, <3>3 DEF SessionUpdate, Steps, StepUpdate, events
  <2>2. CASE session # req[r].seen
    <3>1. TryAgain(r) /\ UNCHANGED <<session, backward>>
      BY <1>9, <2>2 DEF SessionUpdate
    <3>2. \/ Moved(r, "read", None, req[r].installs, req[r].delta)
          \/ Moved(r, "add", None, req[r].installs, req[r].delta)
      BY <1>0, <3>1, FrameSteps
    <3> QED
      BY <1>9, <2>0, <2>2, <3>1, <3>2 DEF SessionUpdate, Steps, StepRetry, events
  <2> QED
    BY <2>1, <2>2
<1>10. ASSUME NEW r \in Requests, IncrementDailyMetrics(r) PROVE Steps(r)
  <2>1. Ended(r)
    BY <1>0, <1>10, FrameSteps DEF IncrementDailyMetrics
  <2>2. /\ metrics' \in Metrics
        /\ metrics'.installs = metrics.installs + req[r].installs
        /\ metrics'.launches = IF TypeOf[EventOf(r)] = "start" THEN metrics.launches + 1 ELSE metrics.launches
        /\ metrics'.events = metrics.events + 1
        /\ \A field \in Fields : metrics'[field] = metrics[field] + req[r].delta[field]
    BY <1>0, <1>10, AddMetrics
  <2>3. StepAdd(r)
    BY <1>10, <2>1, <2>2 DEF IncrementDailyMetrics, StepAdd, events, history
  <2> QED
    BY <2>3 DEF Steps
<1>11. ASSUME NEW r \in Requests, Abandon(r) PROVE Steps(r)
  <2>1. Ended(r)
    BY <1>0, <1>11, FrameSteps DEF Abandon
  <2> QED
    BY <1>11, <2>1 DEF Abandon, Steps, StepAbandon, events
<1> QED
  BY <1>2, <1>3, <1>4, <1>5, <1>6, <1>7, <1>8, <1>9, <1>10, <1>11 DEF Next, Aggregate

-----------------------------------------------------------------------------
(***************************************************************************)
(* Part 3: types and frames.                                               *)
(***************************************************************************)

LEMMA AccumulateTypes ==
  ASSUME TypeInv, NEW e \in Events
  PROVE  LET row == Accumulate(replay, e) IN
         /\ row \in [devices : {0, 1}, launches : Nat, time : [process : Nat, visible : Nat], last : Duration]
         /\ TypeOf[e] = "install" => row = replay
         /\ TypeOf[e] # "install" => row.devices = 1
         /\ row.launches = IF TypeOf[e] = "start" THEN replay.launches + 1 ELSE replay.launches
         /\ TypeOf[e] # "duration" => row.time = replay.time /\ row.last = replay.last
         /\ TypeOf[e] = "duration" =>
              /\ row.last = DurationOf[e]
              /\ \A field \in Fields : row.time[field] = replay.time[field]
                                         + boundedDelta(DurationOf[e][field], replay.last[field])
<1>1. /\ replay \in [devices : {0, 1}, launches : Nat, time : [process : Nat, visible : Nat], last : Duration]
      /\ TypeOf[e] \in {"install", "start", "duration"} /\ DurationOf[e] \in Duration
  BY EventsAssumption DEF TypeInv
<1>2. CASE TypeOf[e] = "install"
  BY <1>1, <1>2 DEF Accumulate
<1>3. CASE TypeOf[e] = "start"
  <2> DEFINE row == [devices |-> 1, launches |-> replay.launches + 1, time |-> replay.time,
                     last |-> replay.last]
  <2>1. Accumulate(replay, e) = row
    <3>1. Accumulate(replay, e) = [replay EXCEPT !.devices = 1, !.launches = @ + 1]
      BY <1>3 DEF Accumulate
    <3> QED
      BY <1>1, <3>1
  <2>2. /\ row \in [devices : {0, 1}, launches : Nat, time : [process : Nat, visible : Nat], last : Duration]
        /\ row.devices = 1 /\ row.launches = replay.launches + 1
        /\ row.time = replay.time /\ row.last = replay.last
    BY <1>1
  <2> HIDE DEF row
  <2> QED
    BY <1>3, <2>1, <2>2
<1>4. CASE TypeOf[e] = "duration"
  <2> DEFINE d == Difference(DurationOf[e], replay.last)
  <2>1. Accumulate(replay, e) = [replay EXCEPT !.devices = 1, !.last = DurationOf[e],
                                               !.time = Plus(replay.time, d)]
    BY <1>4 DEF Accumulate
  <2>2. /\ d \in Duration
        /\ \A field \in Fields : d[field] = boundedDelta(DurationOf[e][field], replay.last[field])
    BY <1>1, DifferenceFields
  <2>3. d \in [process : Nat, visible : Nat]
    BY <2>2, ZeroTypes DEF Duration
  <2> HIDE DEF d
  <2>4. /\ Plus(replay.time, d) \in [process : Nat, visible : Nat]
        /\ \A field \in Fields : Plus(replay.time, d)[field] = replay.time[field] + d[field]
    BY <1>1, <2>3, SumFields
  <2> QED
    BY <1>1, <1>4, <2>1, <2>2, <2>4
<1> QED
  BY <1>1, <1>2, <1>3, <1>4

LEMMA TypeInit == Init => TypeInv /\ FramesInv
<1> SUFFICES ASSUME Init PROVE TypeInv /\ FramesInv
  OBVIOUS
<1>1. req = [r \in Requests |-> Idle] /\ \A r \in Requests : req[r] = Idle
  BY DEF Init
<1>2. Zero \in [process : Nat, visible : Nat]
  BY DEF Zero
<1>3. TypeInv
  <2>1. /\ stored \in SUBSET Events /\ uniques \in SUBSET (Marks \union {"install_seen"})
        /\ session \in Duration \union {None} /\ overlapped \in BOOLEAN
        /\ lost \in [process : Nat, visible : Nat] /\ backward \in [process : Nat, visible : Nat]
    BY <1>2 DEF Init
  <2>0. failures \in 0 .. MaxFailures
    BY ZeroTypes DEF Init
  <2>2. metrics \in Metrics
    BY DEF Init, Metrics
  <2>3. req \in [Requests -> Frame] /\ \A r \in Requests : At(r, "idle") <=> EventOf(r) = None
    BY <1>1, ZeroTypes DEF At, EventOf
  <2>4. replay \in [devices : {0, 1}, launches : Nat, time : [process : Nat, visible : Nat], last : Duration]
    BY <1>2, ZeroTypes DEF Init
  <2> QED
    BY <2>0, <2>1, <2>2, <2>3, <2>4 DEF TypeInv, TypeOK
<1>4. FramesInv
  BY <1>1, ZeroTypes DEF FramesInv, FrameInv, At
<1> QED
  BY <1>3, <1>4

LEMMA TypeStep ==
  ASSUME TypeInv, FramesInv, NEW r \in Requests, Steps(r)
  PROVE  TypeInv'
<1>0. TypeOK
  BY DEF TypeInv
<1>1. /\ stored \in SUBSET Events /\ uniques \in SUBSET (Marks \union {"install_seen"})
      /\ session \in Duration \union {None} /\ metrics \in Metrics
      /\ lost \in [process : Nat, visible : Nat] /\ backward \in [process : Nat, visible : Nat]
      /\ overlapped \in BOOLEAN /\ failures \in 0 .. MaxFailures
      /\ replay \in [devices : {0, 1}, launches : Nat, time : [process : Nat, visible : Nat], last : Duration]
      /\ \A q \in Requests : At(q, "idle") <=> EventOf(q) = None
  BY DEF TypeInv, TypeOK
<1>2. /\ stored' \in SUBSET Events /\ uniques' \in SUBSET (Marks \union {"install_seen"})
      /\ metrics' \in Metrics /\ failures' \in 0 .. MaxFailures /\ overlapped' \in BOOLEAN
  <2>1. stored' \in SUBSET Events
    BY <1>1 DEF Steps, StepAccept, StepInstall, StepMark, StepMarkFails, StepStart, StepRead, StepRetry,
                StepInsert, StepUpdate, StepAdd, StepAbandon
  <2>2. uniques' \in SUBSET (Marks \union {"install_seen"})
    BY <1>1 DEF Steps, StepAccept, StepInstall, StepMark, StepMarkFails, StepStart, StepRead, StepRetry,
                StepInsert, StepUpdate, StepAdd, StepAbandon
  <2>3. metrics' \in Metrics
    BY <1>1 DEF Steps, StepAccept, StepInstall, StepMark, StepMarkFails, StepStart, StepRead, StepRetry,
                StepInsert, StepUpdate, StepAdd, StepAbandon
  <2>4. failures' \in 0 .. MaxFailures
    BY <1>1, ZeroTypes DEF Steps, StepAccept, StepInstall, StepMark, StepMarkFails, StepStart, StepRead,
                StepRetry, StepInsert, StepUpdate, StepAdd, StepAbandon
  <2>5. overlapped' \in BOOLEAN
    BY <1>1 DEF Steps, StepAccept, StepInstall, StepMark, StepMarkFails, StepStart, StepRead, StepRetry,
                StepInsert, StepUpdate, StepAdd, StepAbandon
  <2> QED
    BY <2>1, <2>2, <2>3, <2>4, <2>5
<1>3. session' \in Duration \union {None}
  <2>1. CASE StepStart(r)
    BY <1>0, <2>1, SessionTypes DEF StepStart
  <2>2. CASE StepInsert(r) \/ StepUpdate(r)
    BY <1>0, <2>2, FrameTypes DEF StepInsert, StepUpdate, At
  <2> QED
    BY <1>1, <2>1, <2>2 DEF Steps, StepAccept, StepInstall, StepMark, StepMarkFails, StepRead, StepRetry,
                            StepAdd, StepAbandon
<1>4. lost' \in [process : Nat, visible : Nat] /\ backward' \in [process : Nat, visible : Nat]
  <2>1. Duration \subseteq [process : Nat, visible : Nat]
    BY ZeroTypes DEF Duration
  <2>2. CASE StepUpdate(r)
    <3>1. Difference(session, Reported(r)) \in Duration
      BY <1>0, <2>2, FrameTypes, DifferenceFields DEF StepUpdate, At
    <3> QED
      BY <1>1, <2>1, <2>2, <3>1, SumFields DEF StepUpdate
  <2>3. CASE StepAbandon(r)
    <3>1. req[r].delta \in Duration
      BY <1>0, FrameTypes
    <3> QED
      BY <1>1, <2>1, <2>3, <3>1, SumFields DEF StepAbandon
  <2> QED
    BY <1>1, <2>2, <2>3 DEF Steps, StepAccept, StepInstall, StepMark, StepMarkFails, StepStart, StepRead,
                            StepRetry, StepInsert, StepAdd
<1>5. replay' \in [devices : {0, 1}, launches : Nat, time : [process : Nat, visible : Nat], last : Duration]
  <2>1. CASE \E e \in Events : StepAccept(r, e)
    BY <2>1, AccumulateTypes DEF StepAccept
  <2> QED
    BY <1>1, <2>1 DEF Steps, StepInstall, StepMark, StepMarkFails, StepStart, StepRead,
                      StepRetry, StepInsert, StepUpdate, StepAdd, StepAbandon
<1>6. req' \in [Requests -> Frame] /\ \A q \in Requests \ {r} : req'[q] = req[q]
  BY DEF Steps, StepAccept, StepInstall, StepMark, StepMarkFails, StepStart, StepRead,
         StepRetry, StepInsert, StepUpdate, StepAdd, StepAbandon, Moved, Ended
<1>7. req'[r].pc = "idle" <=> req'[r].event = None
  <2>1. CASE \E e \in Events : StepAccept(r, e)
    BY <2>1, EventsAssumption DEF StepAccept
  <2>2. CASE Ended(r)
    BY <2>2, ZeroTypes DEF Ended
  <2>3. ASSUME ~At(r, "idle"), NEW pc, pc # "idle", NEW seen, NEW installs, NEW delta,
               Moved(r, pc, seen, installs, delta)
        PROVE  req'[r].pc = "idle" <=> req'[r].event = None
    BY <1>1, <2>3 DEF Moved, EventOf
  <2>4. ~At(r, "idle") => AfterMarks(r) # "idle"
    BY <1>0, FrameTypes DEF AfterMarks
  <2>5. CASE StepInstall(r) \/ StepMark(r) \/ StepStart(r) \/ StepRead(r)
    BY <2>3, <2>4, <2>5 DEF StepInstall, StepMark, StepStart, StepRead, At
  <2>6. CASE StepRetry(r) \/ StepInsert(r) \/ StepUpdate(r)
    BY <2>3, <2>6 DEF StepRetry, StepInsert, StepUpdate, At
  <2>7. CASE StepMarkFails(r)
    BY <2>2, <2>3, <2>7 DEF StepMarkFails, At
  <2> QED
    BY <2>1, <2>2, <2>5, <2>6, <2>7 DEF Steps, StepAdd, StepAbandon
<1>8. \A q \in Requests : req'[q].pc = "idle" <=> req'[q].event = None
  BY <1>1, <1>6, <1>7 DEF At, EventOf
<1> QED
  BY <1>2, <1>3, <1>4, <1>5, <1>6, <1>8 DEF TypeInv, TypeOK, At, EventOf

LEMMA StepFacts ==
  ASSUME NEW r \in Requests, Steps(r)
  PROVE  /\ req' \in [Requests -> Frame] /\ \A q \in Requests \ {r} : req'[q] = req[q]
         /\ stored \subseteq stored' /\ uniques \subseteq uniques'
         /\ (failures' = failures \/ (failures < MaxFailures /\ failures' = failures + 1))
<1>1. req' \in [Requests -> Frame] /\ \A q \in Requests \ {r} : req'[q] = req[q]
  BY DEF Steps, StepAccept, StepInstall, StepMark, StepMarkFails, StepStart, StepRead,
         StepRetry, StepInsert, StepUpdate, StepAdd, StepAbandon, Moved, Ended
<1>2. stored \subseteq stored' /\ uniques \subseteq uniques'
  BY DEF Steps, StepAccept, StepInstall, StepMark, StepMarkFails, StepStart, StepRead,
         StepRetry, StepInsert, StepUpdate, StepAdd, StepAbandon
<1>3. failures' = failures \/ (failures < MaxFailures /\ failures' = failures + 1)
  BY DEF Steps, StepAccept, StepInstall, StepMark, StepMarkFails, StepStart, StepRead,
         StepRetry, StepInsert, StepUpdate, StepAdd, StepAbandon
<1> QED
  BY <1>1, <1>2, <1>3

LEMMA FramesStep ==
  ASSUME TypeInv, FramesInv, NEW r \in Requests, Steps(r)
  PROVE  FramesInv'
<1>0. TypeOK /\ FrameInv(r)
  BY DEF TypeInv, FramesInv
<1>1. ASSUME NEW q \in Requests \ {r} PROVE FrameInv(q)'
  <2>1. req'[q] = req[q] /\ stored \subseteq stored' /\ uniques \subseteq uniques'
    BY StepFacts
  <2>2. FrameInv(q)
    BY DEF FramesInv
  <2> QED
    BY <2>1, <2>2 DEF FrameInv, At, EventOf
<1>2. FrameInv(r)'
  <2>0. /\ req[r].pc \in Pc /\ ~At(r, "idle") => EventOf(r) \in Events
        /\ ~At(r, "idle") => TypeOf[EventOf(r)] \in {"install", "start", "duration"}
        /\ stored \subseteq stored' /\ uniques \subseteq uniques'
    BY <1>0, FrameTypes, StepFacts
  <2>1. CASE \E e \in Events : StepAccept(r, e)
    BY <2>1 DEF StepAccept, FrameInv, At, EventOf
  <2>2. CASE StepInstall(r)
    BY <1>0, <2>0, <2>2 DEF StepInstall, Moved, FrameInv, At, EventOf
  <2>3. CASE StepMark(r)
    <3>1. AfterMarks(r) = IF TypeOf[EventOf(r)] = "start" THEN "start" ELSE "read"
      BY <1>0, <2>0, <2>3 DEF AfterMarks, StepMark, FrameInv, At
    <3>2. TypeOf[EventOf(r)] \in {"start", "duration"} /\ EventOf(r) \in stored
      BY <1>0, <2>0, <2>3 DEF StepMark, FrameInv, At
    <3> QED
      BY <1>0, <2>0, <2>3, <3>1, <3>2 DEF StepMark, Moved, FrameInv, At, EventOf
  <2>4. CASE StepMarkFails(r)
    <3>1. CASE Ended(r)
      BY <3>1, ZeroTypes DEF Ended, FrameInv, At
    <3>2. CASE At(r, "mark") /\ Moved(r, "remark", req[r].seen, req[r].installs, req[r].delta)
      BY <1>0, <2>0, <3>2 DEF Moved, FrameInv, At, EventOf
    <3> QED
      BY <2>4, <3>1, <3>2 DEF StepMarkFails
  <2>5. CASE StepStart(r)
    BY <1>0, <2>0, <2>5 DEF StepStart, Moved, FrameInv, At, EventOf
  <2>6. CASE StepRead(r)
    <3>1. session = None \/ session \in Duration
      BY <1>0 DEF TypeOK
    <3> QED
      BY <1>0, <2>0, <2>6, <3>1 DEF StepRead, Moved, FrameInv, At, EventOf
  <2>7. CASE StepRetry(r)
    <3>1. /\ req'[r].pc \in {"read", "add"} /\ req'[r].event = req[r].event
          /\ req'[r].installs = req[r].installs /\ req'[r].delta = req[r].delta
          /\ At(r, "insert") \/ At(r, "update")
      BY <2>7 DEF StepRetry, Moved
    <3> QED
      BY <1>0, <2>0, <3>1 DEF FrameInv, At, EventOf
  <2>8. CASE StepInsert(r)
    BY <1>0, <2>0, <2>8 DEF StepInsert, Moved, FrameInv, At, EventOf
  <2>9. CASE StepUpdate(r)
    BY <1>0, <2>0, <2>9 DEF StepUpdate, Moved, FrameInv, At, EventOf
  <2>10. CASE StepAdd(r) \/ StepAbandon(r)
    BY <2>10, ZeroTypes DEF StepAdd, StepAbandon, Ended, FrameInv, At
  <2> QED
    BY <2>1, <2>2, <2>3, <2>4, <2>5, <2>6, <2>7, <2>8, <2>9, <2>10 DEF Steps
<1> QED
  BY <1>1, <1>2 DEF FramesInv

\* The rows and the frames.
IInv == TypeInv /\ FramesInv

LEMMA IInvStep == IInv /\ [Next]_vars => IInv'
<1> SUFFICES ASSUME IInv, [Next]_vars PROVE IInv'
  OBVIOUS
<1>1. ASSUME NEW r \in Requests, Steps(r) PROVE IInv'
  BY <1>1, TypeStep, FramesStep DEF IInv
<1>2. CASE UNCHANGED vars
  <2>1. /\ UNCHANGED <<stored, replay, overlapped, uniques, session, metrics>>
        /\ UNCHANGED <<req, lost, backward, failures>>
    BY <1>2 DEF vars, events, history
  <2>2. TypeInv'
    BY <2>1 DEF IInv, TypeInv, TypeOK, At, EventOf
  <2>3. FramesInv'
    BY <2>1 DEF IInv, FramesInv, FrameInv, At, EventOf
  <2> QED
    BY <2>2, <2>3 DEF IInv
<1> QED
  BY <1>1, <1>2, StepCases DEF IInv

LEMMA IInvariant == Spec => []IInv
<1>1. Init => IInv
  BY TypeInit DEF IInv
<1> QED
  BY <1>1, IInvStep, PTL DEF Spec

\* The rows hold values of the columns' types: no difference of durations is negative or
\* beyond the cap, and no statement reads a row of durations that is not there.
THEOREM TypeCorrect == Spec => []TypeOK
<1>1. IInv => TypeOK
  BY DEF IInv, TypeInv
<1> QED
  BY <1>1, IInvariant, PTL

-----------------------------------------------------------------------------
(***************************************************************************)
(* Part 4: the differences telescope.                                      *)
(***************************************************************************)

LEMMA PendingChange ==
  ASSUME TypeOK, NEW r \in Requests, req' \in [Requests -> Frame],
         \A q \in Requests \ {r} : req'[q] = req[q], NEW field \in Fields
  PROVE  /\ Cardinality(Pending(field)) \in Nat /\ Cardinality(Pending(field)') \in Nat
         /\ Cardinality(Pending(field)) + req'[r].delta[field]
              = Cardinality(Pending(field)') + req[r].delta[field]
<1> DEFINE D == [q \in Requests |-> req[q].delta[field]]
           E == [q \in Requests |-> req'[q].delta[field]]
<1>1. \A q \in Requests : req[q].delta \in Duration /\ req'[q].delta \in Duration
  BY FrameTypes DEF Frame
<1>2. D \in [Requests -> 0 .. MaxDuration] /\ E \in [Requests -> 0 .. MaxDuration]
  BY <1>1, DurationFields
<1>3. \A q \in Requests \ {r} : D[q] = E[q]
  OBVIOUS
<1>4. Pending(field) = Units(D) /\ Pending(field)' = Units(E)
  BY DEF Pending, Units
<1>5. D[r] = req[r].delta[field] /\ E[r] = req'[r].delta[field]
  OBVIOUS
<1> HIDE DEF D, E
<1>6. /\ Cardinality(Units(D)) \in Nat /\ Cardinality(Units(E)) \in Nat
      /\ Cardinality(Units(D)) + E[r] = Cardinality(Units(E)) + D[r]
  BY <1>2, <1>3, UnitsChange
<1> QED
  BY <1>4, <1>5, <1>6

\* What the step adds on one side it adds on the other.
Balanced(r, field) ==
    metrics'[field] + req'[r].delta[field] + lost'[field] + SessionTotal[field] + backward[field]
        = metrics[field] + req[r].delta[field] + lost[field] + SessionTotal'[field] + backward'[field]

LEMMA BalancedSteps ==
  ASSUME IInv, NEW r \in Requests, Steps(r), NEW field \in Fields
  PROVE  Balanced(r, field)
<1>0. /\ TypeOK /\ FrameInv(r) /\ SessionTotal \in Duration /\ req[r].delta \in Duration
      /\ Zero[field] = 0
      /\ metrics \in Metrics
      /\ lost \in [process : Nat, visible : Nat] /\ backward \in [process : Nat, visible : Nat]
  BY SessionTypes, FrameTypes, ZeroTypes DEF IInv, TypeInv, FramesInv, TypeOK
<1>1. /\ metrics[field] \in Nat /\ lost[field] \in Nat /\ backward[field] \in Nat
      /\ SessionTotal[field] \in Nat /\ req[r].delta[field] \in Nat
  BY <1>0, DurationFields DEF Metrics, Fields
<1>2. ASSUME UNCHANGED <<session, metrics, lost, backward>>, req'[r].delta = req[r].delta
      PROVE  Balanced(r, field)
  <2>1. SessionTotal' = SessionTotal
    BY <1>2 DEF SessionTotal
  <2> QED
    BY <1>1, <1>2, <2>1 DEF Balanced
<1>3. CASE \E e \in Events : StepAccept(r, e)
  BY <1>0, <1>2, <1>3 DEF StepAccept, FrameInv, At
<1>4. CASE StepInstall(r) \/ StepMark(r) \/ StepRead(r) \/ StepRetry(r)
  BY <1>2, <1>4 DEF StepInstall, StepMark, StepRead, StepRetry, Moved
<1>5. CASE StepMarkFails(r)
  <2>1. req'[r].delta = req[r].delta
    BY <1>0, <1>5, ZeroTypes DEF StepMarkFails, Moved, Ended, FrameInv, At
  <2> QED
    BY <1>2, <1>5, <2>1 DEF StepMarkFails
<1>6. CASE StepStart(r)
  <2>1. SessionTotal' = SessionTotal
    BY <1>0, <1>6, SessionTypes DEF StepStart, SessionTotal
  <2> QED
    BY <1>1, <1>6, <2>1 DEF StepStart, Moved, Balanced
<1>7. CASE StepInsert(r)
  <2>1. Reported(r) \in Duration /\ Reported(r) # None /\ Reported(r)[field] \in Nat
    BY <1>0, <1>7, FrameTypes, SessionTypes, DurationFields DEF StepInsert, At
  <2>2. SessionTotal' = Reported(r) /\ SessionTotal[field] = 0
    BY <1>0, <1>7, <2>1 DEF StepInsert, SessionTotal
  <2>3. req'[r].delta = Reported(r) /\ req[r].delta[field] = 0
    BY <1>0, <1>7 DEF StepInsert, Moved, FrameInv, At
  <2> QED
    BY <1>1, <1>7, <2>1, <2>2, <2>3 DEF StepInsert, Balanced
<1>8. CASE StepUpdate(r)
  <2>1. /\ Reported(r) \in Duration /\ Reported(r) # None /\ session \in Duration
        /\ Reported(r)[field] \in Nat /\ session[field] \in Nat
    BY <1>0, <1>8, FrameTypes, SessionTypes, DurationFields DEF StepUpdate, At
  <2>2. SessionTotal' = Reported(r) /\ SessionTotal = session
    BY <1>0, <1>8, <2>1, SessionTypes DEF StepUpdate, SessionTotal
  <2>3. req'[r].delta = Difference(Reported(r), session) /\ req[r].delta[field] = 0
    BY <1>0, <1>8 DEF StepUpdate, Moved, FrameInv, At
  <2>4. /\ Difference(Reported(r), session)[field]
             = IF Reported(r)[field] > session[field] THEN Reported(r)[field] - session[field] ELSE 0
        /\ Difference(session, Reported(r))[field]
             = IF session[field] > Reported(r)[field] THEN session[field] - Reported(r)[field] ELSE 0
    BY <2>1, DifferenceFields
  <2>5. backward'[field] = backward[field] + Difference(session, Reported(r))[field]
    <3>1. Difference(session, Reported(r)) \in [process : Nat, visible : Nat]
      BY <2>1, DifferenceFields, ZeroTypes DEF Duration
    <3> QED
      BY <1>0, <1>8, <3>1, SumFields DEF StepUpdate
  <2>6. metrics' = metrics /\ lost' = lost
    BY <1>8 DEF StepUpdate
  <2> DEFINE R == Reported(r)[field]
             s == session[field]
  <2>7. /\ req'[r].delta[field] = (IF R > s THEN R - s ELSE 0)
        /\ backward'[field] = backward[field] + (IF s > R THEN s - R ELSE 0)
        /\ SessionTotal'[field] = R /\ SessionTotal[field] = s
    BY <2>2, <2>3, <2>4, <2>5
  <2>8. R \in Nat /\ s \in Nat
    BY <2>1
  <2> HIDE DEF R, s
  <2> QED
    BY <1>1, <2>3, <2>6, <2>7, <2>8 DEF Balanced
<1>9. CASE StepAdd(r)
  <2>1. SessionTotal' = SessionTotal
    BY <1>9 DEF StepAdd, SessionTotal
  <2>2. req'[r].delta[field] = 0
    BY <1>0, <1>9, ZeroTypes DEF StepAdd, Ended
  <2> QED
    BY <1>1, <1>9, <2>1, <2>2 DEF StepAdd, Balanced
<1>10. CASE StepAbandon(r)
  <2>1. SessionTotal' = SessionTotal
    BY <1>10 DEF StepAbandon, SessionTotal
  <2>2. req'[r].delta[field] = 0
    BY <1>0, <1>10, ZeroTypes DEF StepAbandon, Ended
  <2>3. lost'[field] = lost[field] + req[r].delta[field]
    <3>1. req[r].delta \in [process : Nat, visible : Nat]
      BY <1>0, ZeroTypes DEF Duration
    <3> QED
      BY <1>0, <1>10, <3>1, SumFields DEF StepAbandon
  <2> QED
    BY <1>1, <1>10, <2>1, <2>2, <2>3 DEF StepAbandon, Balanced
<1> QED
  BY <1>3, <1>4, <1>5, <1>6, <1>7, <1>8, <1>9, <1>10 DEF Steps

LEMMA DeltasStep == IInv /\ DeltasExact /\ [Next]_vars => DeltasExact'
<1> SUFFICES ASSUME IInv, DeltasExact, [Next]_vars PROVE DeltasExact'
  OBVIOUS
<1>1. ASSUME NEW r \in Requests, Steps(r), NEW field \in Fields
      PROVE  metrics'[field] + Cardinality(Pending(field)') + lost'[field]
               = SessionTotal'[field] + backward'[field]
  <2>0. TypeOK /\ TypeOK'
    BY <1>1, TypeStep DEF IInv, TypeInv
  <2>1. /\ Cardinality(Pending(field)) \in Nat /\ Cardinality(Pending(field)') \in Nat
        /\ Cardinality(Pending(field)) + req'[r].delta[field]
             = Cardinality(Pending(field)') + req[r].delta[field]
    BY <1>1, <2>0, StepFacts, PendingChange
  <2>2. Balanced(r, field)
    BY <1>1, BalancedSteps
  <2>3. metrics[field] + Cardinality(Pending(field)) + lost[field] = SessionTotal[field] + backward[field]
    BY DEF DeltasExact, Fields
  <2>4. /\ metrics[field] \in Nat /\ lost[field] \in Nat /\ backward[field] \in Nat
        /\ req[r].delta[field] \in Nat /\ SessionTotal[field] \in Nat
    BY <2>0, FrameTypes, SessionTypes, DurationFields DEF TypeOK, Metrics, Fields
  <2>5. SessionTotal' \in Duration /\ req'[r].delta \in Duration
    <3>1. SessionTotal' \in Duration
      <4>1. session' \in Duration \union {None}
        BY <2>0 DEF TypeOK
      <4> QED
        BY <4>1, ZeroTypes DEF SessionTotal
    <3>2. req'[r] \in Frame
      BY <1>1, StepFacts
    <3> QED
      BY <3>1, <3>2 DEF Frame
  <2>6. /\ metrics'[field] \in Nat /\ lost'[field] \in Nat /\ backward'[field] \in Nat
        /\ req'[r].delta[field] \in Nat /\ SessionTotal'[field] \in Nat
    BY <2>0, <2>5, DurationFields DEF TypeOK, Metrics, Fields
  <2> DEFINE d == req[r].delta[field]
             d2 == req'[r].delta[field]
             c == Cardinality(Pending(field))
             c2 == Cardinality(Pending(field)')
  <2>7. c + d2 = c2 + d /\ c \in Nat /\ c2 \in Nat /\ d \in Nat /\ d2 \in Nat
    BY <2>1, <2>4, <2>6
  <2>8. metrics[field] + c + lost[field] = SessionTotal[field] + backward[field]
    BY <2>3
  <2>9. metrics'[field] + d2 + lost'[field] + SessionTotal[field] + backward[field]
          = metrics[field] + d + lost[field] + SessionTotal'[field] + backward'[field]
    BY <2>2 DEF Balanced
  <2> HIDE DEF d, d2, c, c2
  <2>10. metrics'[field] + c2 + lost'[field] = SessionTotal'[field] + backward'[field]
    BY <2>4, <2>6, <2>7, <2>8, <2>9
  <2> QED
    BY <2>10 DEF c2
<1>2. CASE UNCHANGED vars
  BY <1>2 DEF vars, events, history, DeltasExact, Pending, SessionTotal
<1>3. ASSUME NEW r \in Requests, Steps(r) PROVE DeltasExact'
  BY <1>1, <1>3 DEF DeltasExact, Fields
<1> QED
  BY <1>2, <1>3, StepCases DEF IInv

LEMMA DeltasInit == Init => DeltasExact
<1> SUFFICES ASSUME Init, NEW field \in Fields
             PROVE  metrics[field] + Cardinality(Pending(field)) + lost[field]
                      = SessionTotal[field] + backward[field]
  BY DEF DeltasExact, Fields
<1>1. metrics[field] = 0 /\ lost[field] = 0 /\ backward[field] = 0 /\ SessionTotal[field] = 0
  BY ZeroTypes DEF Init, Fields, SessionTotal
<1>2. Pending(field) = {}
  <2>1. \A r \in Requests : req[r].delta[field] = 0
    BY ZeroTypes DEF Init
  <2> QED
    BY <2>1 DEF Pending
<1>3. Cardinality(Pending(field)) = 0
  BY <1>2, FS_EmptySet
<1> QED
  BY <1>1, <1>3

\* However many reports of a session arrive together and however often an update is beaten, the
\* day's seconds, those about to be added and those lost with a request are what the session's
\* row says, plus what it went back by: the compare-and-swap lets no second be counted twice.
THEOREM DeltasExactTheorem == Spec => []DeltasExact
BY DeltasInit, DeltasStep, IInvariant, PTL DEF Spec

-----------------------------------------------------------------------------
(***************************************************************************)
(* Part 5: everything is counted once.                                     *)
(***************************************************************************)

LEMMA SessionStep ==
  ASSUME IInv, SessionInv, NEW r \in Requests, Steps(r)
  PROVE  SessionInv'
<1>0. /\ TypeOK /\ FrameInv(r) /\ stored \subseteq stored'
  BY StepFacts DEF IInv, TypeInv, FramesInv
<1>1. CASE session' = session
  BY <1>0, <1>1 DEF SessionInv
<1>2. CASE StepStart(r)
  BY <1>0, <1>2, SessionTypes DEF StepStart, SessionInv
<1>3. CASE StepInsert(r) \/ StepUpdate(r)
  <2>1. EventOf(r) \in stored /\ TypeOf[EventOf(r)] = "duration" /\ session' = DurationOf[EventOf(r)]
    BY <1>0, <1>3 DEF StepInsert, StepUpdate, FrameInv, At, Reported
  <2> QED
    BY <1>0, <2>1 DEF SessionInv
<1> QED
  BY <1>1, <1>2, <1>3 DEF Steps, StepAccept, StepInstall, StepMark, StepMarkFails, StepRead,
         StepRetry, StepAdd, StepAbandon

LEMMA StoredCounts ==
  ASSUME TypeOK
  PROVE  /\ IsFiniteSet(stored) /\ Cardinality(stored) \in Nat
         /\ IsFiniteSet(Starts) /\ Cardinality(Starts) \in Nat
<1>1. stored \in SUBSET Events /\ Starts \in SUBSET stored
  BY DEF TypeOK, Starts
<1> QED
  BY <1>1, RequestsAssumption, FS_Subset, FS_CardinalityType

\* The requests that are counted apart, before and after a step.
LEMMA CountChanges ==
  ASSUME NEW r \in Requests, \A q \in Requests \ {r} : req'[q] = req[q]
  PROVE  /\ Cardinality(Busy) \in Nat /\ Cardinality(Busy') \in Nat
         /\ Cardinality(BusyStarts) \in Nat /\ Cardinality(BusyStarts') \in Nat
         /\ Cardinality(Installing) \in Nat /\ Cardinality(Installing') \in Nat
         /\ (r \in Busy <=> r \in Busy') => Cardinality(Busy') = Cardinality(Busy)
         /\ r \notin Busy /\ r \in Busy' => Cardinality(Busy') = Cardinality(Busy) + 1
         /\ r \in Busy /\ r \notin Busy' => Cardinality(Busy') = Cardinality(Busy) - 1
         /\ (r \in BusyStarts <=> r \in BusyStarts') => Cardinality(BusyStarts') = Cardinality(BusyStarts)
         /\ r \notin BusyStarts /\ r \in BusyStarts' => Cardinality(BusyStarts') = Cardinality(BusyStarts) + 1
         /\ r \in BusyStarts /\ r \notin BusyStarts' => Cardinality(BusyStarts') = Cardinality(BusyStarts) - 1
         /\ (r \in Installing <=> r \in Installing') => Cardinality(Installing') = Cardinality(Installing)
         /\ r \notin Installing /\ r \in Installing' => Cardinality(Installing') = Cardinality(Installing) + 1
         /\ r \in Installing /\ r \notin Installing' => Cardinality(Installing') = Cardinality(Installing) - 1
<1>1. /\ Busy \in SUBSET Requests /\ Busy' \in SUBSET Requests
      /\ \A q \in Requests \ {r} : q \in Busy <=> q \in Busy'
  BY DEF Busy, At
<1>2. /\ BusyStarts \in SUBSET Requests /\ BusyStarts' \in SUBSET Requests
      /\ \A q \in Requests \ {r} : q \in BusyStarts <=> q \in BusyStarts'
  BY DEF BusyStarts, At, EventOf
<1>3. /\ Installing \in SUBSET Requests /\ Installing' \in SUBSET Requests
      /\ \A q \in Requests \ {r} : q \in Installing <=> q \in Installing'
  BY DEF Installing
<1>4. /\ Cardinality(Busy) \in Nat /\ Cardinality(Busy') \in Nat
      /\ (r \in Busy <=> r \in Busy') => Cardinality(Busy') = Cardinality(Busy)
      /\ r \notin Busy /\ r \in Busy' => Cardinality(Busy') = Cardinality(Busy) + 1
      /\ r \in Busy /\ r \notin Busy' => Cardinality(Busy') = Cardinality(Busy) - 1
  BY <1>1, Membership
<1>5. /\ Cardinality(BusyStarts) \in Nat /\ Cardinality(BusyStarts') \in Nat
      /\ (r \in BusyStarts <=> r \in BusyStarts') => Cardinality(BusyStarts') = Cardinality(BusyStarts)
      /\ r \notin BusyStarts /\ r \in BusyStarts' => Cardinality(BusyStarts') = Cardinality(BusyStarts) + 1
      /\ r \in BusyStarts /\ r \notin BusyStarts' => Cardinality(BusyStarts') = Cardinality(BusyStarts) - 1
  BY <1>2, Membership
<1>6. /\ Cardinality(Installing) \in Nat /\ Cardinality(Installing') \in Nat
      /\ (r \in Installing <=> r \in Installing') => Cardinality(Installing') = Cardinality(Installing)
      /\ r \notin Installing /\ r \in Installing' => Cardinality(Installing') = Cardinality(Installing) + 1
      /\ r \in Installing /\ r \notin Installing' => Cardinality(Installing') = Cardinality(Installing) - 1
  BY <1>3, Membership
<1> QED
  BY <1>4, <1>5, <1>6

\* A request in flight that moves on.
Onward(r) ==
    /\ ~At(r, "idle") /\ req'[r].pc # "idle"
    /\ req'[r].event = req[r].event /\ req'[r].installs = req[r].installs

LEMMA OnwardSteps ==
  ASSUME IInv, NEW r \in Requests, Steps(r)
  PROVE  \/ \E e \in Events : StepAccept(r, e)
         \/ StepInstall(r)
         \/ StepAdd(r)
         \/ Ended(r) /\ failures' = failures + 1 /\ ~At(r, "idle") /\ UNCHANGED <<stored, replay, metrics>>
              /\ (uniques' = uniques \/ uniques' = uniques \union Marks)
         \/ Onward(r) /\ UNCHANGED <<stored, replay, metrics>>
              /\ (uniques' = uniques \/ uniques' = uniques \union Marks)
<1>1. StepMark(r) => AfterMarks(r) # "idle" /\ ~At(r, "idle")
  BY FrameTypes DEF IInv, TypeInv, StepMark, AfterMarks, At
<1>2. CASE StepMark(r)
  BY <1>1, <1>2 DEF StepMark, Moved, Onward
<1>3. CASE StepMarkFails(r)
  BY <1>3 DEF StepMarkFails, Moved, Onward, At
<1>4. CASE StepStart(r) \/ StepRead(r) \/ StepRetry(r)
  BY <1>4 DEF StepStart, StepRead, StepRetry, Moved, Onward, At
<1>5. CASE StepInsert(r) \/ StepUpdate(r)
  BY <1>5 DEF StepInsert, StepUpdate, Moved, Onward, At
<1>6. CASE StepAbandon(r)
  BY <1>6 DEF StepAbandon
<1> QED
  BY <1>2, <1>3, <1>4, <1>5, <1>6 DEF Steps

LEMMA CountsStep ==
  ASSUME IInv, CountsInv, NEW r \in Requests, Steps(r)
  PROVE  CountsInv'
<1> DEFINE b == Cardinality(Busy)
           s == Cardinality(BusyStarts)
           i == Cardinality(Installing)
           b2 == Cardinality(Busy')
           s2 == Cardinality(BusyStarts')
           i2 == Cardinality(Installing')
           seen == IF "install_seen" \in uniques THEN 1 ELSE 0
           seen2 == IF "install_seen" \in uniques' THEN 1 ELSE 0
<1>0. /\ TypeOK /\ FrameInv(r) /\ \A q \in Requests \ {r} : req'[q] = req[q]
  BY StepFacts DEF IInv, TypeInv, FramesInv
<1>1. /\ b \in Nat /\ b2 \in Nat /\ s \in Nat /\ s2 \in Nat /\ i \in Nat /\ i2 \in Nat
      /\ (r \in Busy <=> r \in Busy') => b2 = b
      /\ r \notin Busy /\ r \in Busy' => b2 = b + 1
      /\ r \in Busy /\ r \notin Busy' => b2 = b - 1
      /\ (r \in BusyStarts <=> r \in BusyStarts') => s2 = s
      /\ r \notin BusyStarts /\ r \in BusyStarts' => s2 = s + 1
      /\ r \in BusyStarts /\ r \notin BusyStarts' => s2 = s - 1
      /\ (r \in Installing <=> r \in Installing') => i2 = i
      /\ r \notin Installing /\ r \in Installing' => i2 = i + 1
      /\ r \in Installing /\ r \notin Installing' => i2 = i - 1
  BY <1>0, CountChanges
<1>2. /\ r \in Busy <=> ~At(r, "idle")
      /\ r \in BusyStarts <=> ~At(r, "idle") /\ TypeOf[EventOf(r)] = "start"
      /\ r \in Installing <=> req[r].installs = 1
      /\ r \in Busy' <=> req'[r].pc # "idle"
      /\ r \in BusyStarts' <=> req'[r].pc # "idle" /\ TypeOf[req'[r].event] = "start"
      /\ r \in Installing' <=> req'[r].installs = 1
  BY DEF Busy, BusyStarts, Installing, At, EventOf
<1>3. /\ metrics.events + b <= Cardinality(stored)
      /\ metrics.launches + s <= Cardinality(Starts)
      /\ metrics.installs + i <= seen
  BY DEF CountsInv
<1>4. /\ metrics.events \in Nat /\ metrics.launches \in Nat /\ metrics.installs \in Nat
      /\ Cardinality(stored) \in Nat /\ Cardinality(Starts) \in Nat
      /\ IsFiniteSet(stored) /\ IsFiniteSet(Starts)
  BY <1>0, StoredCounts DEF TypeOK, Metrics
<1> HIDE DEF b, s, i, b2, s2, i2
<1>5. SUFFICES /\ metrics'.events + b2 <= Cardinality(stored')
               /\ metrics'.launches + s2 <= Cardinality(Starts')
               /\ metrics'.installs + i2 <= seen2
  BY DEF CountsInv, b2, s2, i2
<1>6. CASE \E e \in Events : StepAccept(r, e)
  <2>1. PICK e \in Events : StepAccept(r, e)
    BY <1>6
  <2>2. Cardinality(stored') = Cardinality(stored) + 1
    <3>1. Cardinality(stored \union {e}) = Cardinality(stored) + 1
      BY <1>4, <2>1, FS_AddElement DEF StepAccept
    <3> QED
      BY <2>1, <3>1 DEF StepAccept
  <2>3. Cardinality(Starts') = IF TypeOf[e] = "start" THEN Cardinality(Starts) + 1 ELSE Cardinality(Starts)
    <3>1. TypeOf[e] = "start" => Starts' = Starts \union {e} /\ e \notin Starts
      BY <2>1 DEF StepAccept, Starts
    <3>2. TypeOf[e] # "start" => Starts' = Starts
      BY <2>1 DEF StepAccept, Starts
    <3>3. e \notin Starts => Cardinality(Starts \union {e}) = Cardinality(Starts) + 1
      BY <1>4, FS_AddElement
    <3> QED
      BY <3>1, <3>2, <3>3
  <2>4. /\ At(r, "idle") /\ req'[r].pc # "idle" /\ req'[r].event = e /\ req'[r].installs = 0
        /\ req[r].installs = 0 /\ metrics' = metrics /\ uniques' = uniques
    BY <1>0, <2>1 DEF StepAccept, FrameInv, At
  <2>5. b2 = b + 1 /\ i2 = i /\ s2 = IF TypeOf[e] = "start" THEN s + 1 ELSE s
    BY <1>1, <1>2, <2>4
  <2> QED
    BY <1>1, <1>3, <1>4, <2>2, <2>3, <2>4, <2>5
<1>7. CASE StepInstall(r)
  <2>1. /\ ~At(r, "idle") /\ req'[r].pc # "idle" /\ req'[r].event = EventOf(r)
        /\ req[r].installs = 0 /\ req'[r].installs = IF "install_seen" \in uniques THEN 0 ELSE 1
        /\ metrics' = metrics /\ Starts' = Starts /\ stored' = stored
        /\ uniques' = uniques \union {"install_seen"}
    BY <1>0, <1>7 DEF StepInstall, Moved, FrameInv, At, Starts, EventOf
  <2>2. b2 = b /\ s2 = s /\ i2 = IF "install_seen" \in uniques THEN i ELSE i + 1
    BY <1>1, <1>2, <2>1
  <2> QED
    BY <1>1, <1>3, <1>4, <2>1, <2>2
<1>8. CASE StepAdd(r)
  <2>1. /\ ~At(r, "idle") /\ req'[r].pc = "idle" /\ req'[r].installs = 0
        /\ Starts' = Starts /\ stored' = stored /\ uniques' = uniques
        /\ metrics'.installs = metrics.installs + req[r].installs /\ metrics'.events = metrics.events + 1
        /\ metrics'.launches = IF TypeOf[EventOf(r)] = "start" THEN metrics.launches + 1 ELSE metrics.launches
        /\ req[r].installs \in {0, 1}
    BY <1>0, <1>8, ZeroTypes, FrameTypes DEF StepAdd, Ended, At, Starts
  <2>2. /\ b2 = b - 1 /\ s2 = (IF TypeOf[EventOf(r)] = "start" THEN s - 1 ELSE s)
        /\ i2 = i - req[r].installs
    BY <1>1, <1>2, <2>1
  <2> QED
    BY <1>1, <1>3, <1>4, <2>1, <2>2
<1>9. "install_seen" \notin Marks
  BY DEF Marks
<1>10. CASE Ended(r) /\ ~At(r, "idle") /\ UNCHANGED <<stored, replay, metrics>>
              /\ (uniques' = uniques \/ uniques' = uniques \union Marks)
  <2>1. /\ req'[r].pc = "idle" /\ req'[r].installs = 0 /\ Starts' = Starts /\ seen2 = seen
    BY <1>9, <1>10, ZeroTypes DEF Ended, Starts
  <2>2. b2 <= b /\ s2 <= s /\ i2 <= i
    BY <1>1, <1>2, <1>10, <2>1
  <2> QED
    BY <1>1, <1>3, <1>4, <1>10, <2>1, <2>2
<1>11. CASE Onward(r) /\ UNCHANGED <<stored, replay, metrics>>
              /\ (uniques' = uniques \/ uniques' = uniques \union Marks)
  <2>1. Starts' = Starts /\ seen2 = seen
    BY <1>9, <1>11 DEF Starts
  <2>2. b2 = b /\ s2 = s /\ i2 = i
    BY <1>1, <1>2, <1>11 DEF Onward, EventOf
  <2> QED
    BY <1>1, <1>3, <1>4, <1>11, <2>1, <2>2
<1> QED
  BY <1>6, <1>7, <1>8, <1>10, <1>11, OnwardSteps

OnceInv == SessionInv /\ CountsInv

LEMMA OnceStep == IInv /\ OnceInv /\ [Next]_vars => OnceInv'
<1> SUFFICES ASSUME IInv, OnceInv, [Next]_vars PROVE OnceInv'
  OBVIOUS
<1>1. ASSUME NEW r \in Requests, Steps(r) PROVE OnceInv'
  BY <1>1, SessionStep, CountsStep DEF OnceInv
<1>2. CASE UNCHANGED vars
  BY <1>2 DEF vars, events, history, OnceInv, SessionInv, CountsInv, Busy, BusyStarts, Installing,
              Starts, At, EventOf
<1> QED
  BY <1>1, <1>2, StepCases DEF IInv

\* However often an event is delivered and whatever fails, the day counts it once, as a launch
\* if it is one; an installation is counted by one request only; and unless the reported
\* durations went back, the day has no more seconds than some report of the session.
THEOREM CountedOnceTheorem == Spec => []CountedOnce
<1>1. Init => OnceInv
  <2> SUFFICES ASSUME Init PROVE OnceInv
    OBVIOUS
  <2>1. Busy = {} /\ BusyStarts = {} /\ Installing = {} /\ Starts = {} /\ stored = {}
    BY ZeroTypes DEF Init, Busy, BusyStarts, Installing, Starts, At
  <2> QED
    BY <2>1, FS_EmptySet DEF Init, OnceInv, SessionInv, CountsInv
<1>2. ASSUME IInv, OnceInv, DeltasExact PROVE CountedOnce
  <2>0. TypeOK /\ metrics \in Metrics
    BY <1>2 DEF IInv, TypeInv, TypeOK
  <2>1. /\ Cardinality(BusyStarts) \in Nat /\ Cardinality(Installing) \in Nat
        /\ Cardinality(Starts) \in Nat
    <3>1. BusyStarts \in SUBSET Requests /\ Installing \in SUBSET Requests
      BY DEF BusyStarts, Installing
    <3> QED
      BY <2>0, <3>1, StoredCounts, RequestsAssumption, FS_Subset, FS_CardinalityType
  <2>2. /\ metrics.events + Cardinality(Busy) <= Cardinality(stored)
        /\ metrics.launches <= Cardinality(Starts) /\ metrics.installs <= 1
    BY <1>2, <2>0, <2>1 DEF OnceInv, CountsInv, Metrics
  <2>3. ASSUME NEW field \in Fields, backward[field] = 0, metrics[field] > 0
        PROVE  \E e \in stored : TypeOf[e] = "duration" /\ metrics[field] <= DurationOf[e][field]
    <3>1. Cardinality(Pending(field)) \in Nat
      <4>1. Pending(field) \in SUBSET (Requests \X (1 .. MaxDuration))
        BY DEF Pending
      <4>2. IsFiniteSet(1 .. MaxDuration)
        BY ZeroTypes, FS_Interval
      <4>3. IsFiniteSet(Requests \X (1 .. MaxDuration))
        BY <4>2, RequestsAssumption, FS_Product
      <4> QED
        BY <4>1, <4>3, FS_Subset, FS_CardinalityType
    <3>2. metrics[field] + Cardinality(Pending(field)) + lost[field] = SessionTotal[field] + backward[field]
      BY <1>2, <2>3 DEF DeltasExact, Fields
    <3>3. metrics[field] \in Nat /\ lost[field] \in Nat /\ SessionTotal[field] \in Nat
      BY <2>0, SessionTypes, DurationFields DEF TypeOK, Metrics, Fields
    <3>4. metrics[field] <= SessionTotal[field]
      BY <2>3, <3>1, <3>2, <3>3
    <3>5. SessionTotal # Zero
      <4>1. SessionTotal[field] > 0
        BY <2>3, <3>3, <3>4
      <4> QED
        BY <4>1, ZeroTypes
    <3>6. session # None /\ session # Zero /\ SessionTotal = session
      BY <3>5 DEF SessionTotal
    <3> QED
      BY <1>2, <3>4, <3>6 DEF OnceInv, SessionInv
  <2> QED
    BY <2>2, <2>3 DEF CountedOnce, Busy, Starts, Fields
<1>3. Init => DeltasExact
  BY DeltasInit
<1> QED
  BY <1>1, <1>2, <1>3, OnceStep, DeltasStep, IInvariant, PTL DEF Spec

-----------------------------------------------------------------------------
(***************************************************************************)
(* Part 6: the report.                                                     *)
(***************************************************************************)

LEMMA MarksStep ==
  ASSUME IInv, MarksInv, NEW r \in Requests, Steps(r)
  PROVE  MarksInv'
<1>0. /\ TypeInv /\ TypeOK /\ FrameInv(r) /\ \A q \in Requests \ {r} : req'[q] = req[q]
      /\ uniques \subseteq uniques'
  BY StepFacts DEF IInv, TypeInv, FramesInv
<1>1. \/ \E e \in Events : StepAccept(r, e)
      \/ replay' = replay /\ ~At(r, "idle")
           /\ (req'[r].pc = "idle" \/ req'[r].event = req[r].event)
  <2>1. StepAdd(r) => replay' = replay /\ ~At(r, "idle") /\ req'[r].pc = "idle"
    BY ZeroTypes DEF StepAdd, Ended, At
  <2>2. StepInstall(r) => replay' = replay /\ ~At(r, "idle") /\ req'[r].event = req[r].event
    BY DEF StepInstall, Moved, At
  <2>3. Ended(r) => req'[r].pc = "idle"
    BY ZeroTypes DEF Ended
  <2> QED
    BY <2>1, <2>2, <2>3, OnwardSteps DEF Onward
<1>2. \/ uniques' = uniques
      \/ uniques' = uniques \union {"install_seen"} /\ StepInstall(r)
      \/ uniques' = uniques \union Marks /\ (At(r, "mark") \/ At(r, "remark"))
  BY DEF Steps, StepAccept, StepInstall, StepMark, StepMarkFails, StepStart, StepRead,
         StepRetry, StepInsert, StepUpdate, StepAdd, StepAbandon
<1>3. \A q \in Requests : req'[q].pc # "idle" /\ TypeOf[req'[q].event] # "install" => replay'.devices = 1
  <2>1. CASE \E e \in Events : StepAccept(r, e)
    <3>1. PICK e \in Events : StepAccept(r, e)
      BY <2>1
    <3>2. /\ replay' = Accumulate(replay, e) /\ req'[r].event = e
          /\ TypeOf[e] = "install" => replay' = replay
          /\ TypeOf[e] # "install" => replay'.devices = 1
      BY <1>0, <3>1, AccumulateTypes DEF StepAccept
    <3> QED
      BY <1>0, <3>2 DEF MarksInv, At, EventOf
  <2>2. CASE replay' = replay /\ ~At(r, "idle")
               /\ (req'[r].pc = "idle" \/ req'[r].event = req[r].event)
    BY <1>0, <2>2 DEF MarksInv, At, EventOf
  <2> QED
    BY <1>1, <2>1, <2>2
<1>4. replay'.launches > 0 \/ replay'.time # Zero => replay'.devices = 1
  <2>1. CASE \E e \in Events : StepAccept(r, e)
    <3>1. PICK e \in Events : StepAccept(r, e)
      BY <2>1
    <3>2. /\ TypeOf[e] = "install" => replay' = replay
          /\ TypeOf[e] # "install" => replay'.devices = 1
      BY <1>0, <3>1, AccumulateTypes DEF StepAccept
    <3> QED
      BY <3>2 DEF MarksInv
  <2> QED
    BY <1>1, <2>1 DEF MarksInv
<1>5. /\ "install_active" \in Marks /\ "install_seen" \notin Marks
  BY DEF Marks
<1>6. "install_active" \in uniques' => Marks \subseteq uniques'
  BY <1>2, <1>5 DEF MarksInv
<1>7. Marks \subseteq uniques' => replay'.devices = 1
  <2>1. CASE Marks \subseteq uniques
    <3>1. replay.devices = 1
      BY <2>1 DEF MarksInv
    <3>2. CASE \E e \in Events : StepAccept(r, e)
      <4>1. PICK e \in Events : StepAccept(r, e)
        BY <3>2
      <4>2. /\ TypeOf[e] = "install" => replay' = replay
            /\ TypeOf[e] # "install" => replay'.devices = 1
        BY <1>0, <4>1, AccumulateTypes DEF StepAccept
      <4> QED
        BY <3>1, <4>2
    <3> QED
      BY <1>1, <3>1, <3>2
  <2>2. CASE ~(Marks \subseteq uniques) /\ (At(r, "mark") \/ At(r, "remark"))
    <3>1. replay.devices = 1
      BY <1>0, <2>2 DEF MarksInv, FrameInv, At
    <3>2. replay' = replay
      BY <1>1, <2>2 DEF StepAccept, At
    <3> QED
      BY <3>1, <3>2
  <2>3. CASE ~(Marks \subseteq uniques) /\ ~(At(r, "mark") \/ At(r, "remark"))
    BY <1>2, <1>5, <2>3
  <2> QED
    BY <2>1, <2>2, <2>3
<1>8. metrics'.launches > 0 \/ metrics'.process > 0 \/ metrics'.visible > 0 => Marks \subseteq uniques'
  <2>1. CASE metrics' = metrics
    BY <1>0, <2>1 DEF MarksInv
  <2>2. CASE StepAdd(r)
    <3>1. CASE TypeOf[EventOf(r)] = "install"
      <4>1. req[r].delta = Zero
        BY <1>0, <2>2, <3>1 DEF StepAdd, FrameInv
      <4>2. /\ metrics'.launches = metrics.launches
            /\ metrics'.process = metrics.process /\ metrics'.visible = metrics.visible
        <5>1. metrics \in Metrics /\ metrics' \in Metrics
          BY <1>0, <2>2 DEF TypeOK, StepAdd
        <5>2. \A field \in Fields : metrics'[field] = metrics[field] + Zero[field]
          BY <2>2, <4>1 DEF StepAdd
        <5>3. metrics'["process"] = metrics["process"] /\ metrics'["visible"] = metrics["visible"]
          BY <5>1, <5>2, ZeroTypes DEF Metrics, Fields
        <5>4. metrics'.launches = metrics.launches
          BY <2>2, <3>1 DEF StepAdd
        <5> QED
          BY <5>1, <5>3, <5>4 DEF Metrics
      <4> QED
        BY <1>0, <4>2 DEF MarksInv
    <3>2. CASE TypeOf[EventOf(r)] # "install"
      BY <1>0, <2>2, <3>2 DEF StepAdd, FrameInv, At
    <3> QED
      BY <3>1, <3>2
  <2> QED
    BY <2>1, <2>2 DEF Steps, StepAccept, StepInstall, StepMark, StepMarkFails, StepStart, StepRead,
         StepRetry, StepInsert, StepUpdate, StepAbandon
<1> QED
  BY <1>3, <1>4, <1>6, <1>7, <1>8 DEF MarksInv, At, EventOf

LEMMA ReplayStep ==
  ASSUME IInv, ReplayInv, NEW r \in Requests, Steps(r)
  PROVE  ReplayInv'
<1> SUFFICES ASSUME failures' = 0
             PROVE  /\ replay'.devices = 1 =>
                         Marks \subseteq uniques' \/ \E q \in Requests : req'[q].pc = "mark"
                    /\ \A q \in Requests : req'[q].pc # "remark"
                    /\ metrics'.launches + Cardinality(BusyStarts') = replay'.launches
  BY DEF ReplayInv, At
<1>0. /\ TypeInv /\ TypeOK /\ FrameInv(r) /\ \A q \in Requests \ {r} : req'[q] = req[q]
      /\ uniques \subseteq uniques' /\ failures \in Nat
  BY StepFacts, ZeroTypes DEF IInv, TypeInv, FramesInv, TypeOK
<1>1. failures = 0 /\ ~(failures' = failures + 1)
  BY <1>0, StepFacts
<1>2. /\ replay.devices = 1 => Marks \subseteq uniques \/ \E q \in Requests : At(q, "mark")
      /\ \A q \in Requests : ~At(q, "remark")
      /\ metrics.launches + Cardinality(BusyStarts) = replay.launches
  BY <1>1 DEF ReplayInv
<1>3. ~StepMarkFails(r) /\ ~StepAbandon(r)
  BY <1>1 DEF StepMarkFails, StepAbandon
<1> DEFINE s == Cardinality(BusyStarts)
           s2 == Cardinality(BusyStarts')
<1>4. /\ s \in Nat /\ s2 \in Nat /\ metrics.launches \in Nat
      /\ (r \in BusyStarts <=> r \in BusyStarts') => s2 = s
      /\ r \notin BusyStarts /\ r \in BusyStarts' => s2 = s + 1
      /\ r \in BusyStarts /\ r \notin BusyStarts' => s2 = s - 1
  BY <1>0, CountChanges DEF TypeOK, Metrics
<1>5. /\ r \in BusyStarts <=> ~At(r, "idle") /\ TypeOf[EventOf(r)] = "start"
      /\ r \in BusyStarts' <=> req'[r].pc # "idle" /\ TypeOf[req'[r].event] = "start"
  BY DEF BusyStarts, At, EventOf
<1> HIDE DEF s, s2
<1>6. metrics'.launches + s2 = replay'.launches
  <2>0. metrics.launches + s = replay.launches
    BY <1>2 DEF s
  <2>1. CASE \E e \in Events : StepAccept(r, e)
    <3>1. PICK e \in Events : StepAccept(r, e)
      BY <2>1
    <3>2. /\ replay'.launches = IF TypeOf[e] = "start" THEN replay.launches + 1 ELSE replay.launches
          /\ metrics' = metrics
      BY <1>0, <3>1, AccumulateTypes DEF StepAccept
    <3>3. s2 = IF TypeOf[e] = "start" THEN s + 1 ELSE s
      BY <1>4, <1>5, <3>1 DEF StepAccept
    <3> QED
      BY <1>4, <2>0, <3>2, <3>3
  <2>2. CASE StepInstall(r)
    <3>1. s2 = s
      BY <1>4, <1>5, <2>2 DEF StepInstall, Moved, At, EventOf
    <3> QED
      BY <2>0, <2>2, <3>1 DEF StepInstall
  <2>3. CASE StepAdd(r)
    <3>1. s2 = (IF TypeOf[EventOf(r)] = "start" THEN s - 1 ELSE s)
      BY <1>4, <1>5, <2>3, ZeroTypes DEF StepAdd, Ended, At
    <3> QED
      BY <1>4, <2>0, <2>3, <3>1 DEF StepAdd
  <2>4. CASE Onward(r) /\ UNCHANGED <<stored, replay, metrics>>
    <3>1. s2 = s
      BY <1>4, <1>5, <2>4 DEF Onward, EventOf
    <3> QED
      BY <2>0, <2>4, <3>1
  <2> QED
    BY <1>1, <2>1, <2>2, <2>3, <2>4, OnwardSteps
<1>7. \A q \in Requests : req'[q].pc # "remark"
  <2>1. req'[r].pc # "remark"
    <3>1. StepMark(r) => AfterMarks(r) # "remark"
      BY <1>0, FrameTypes DEF StepMark, AfterMarks, At
    <3> QED
      BY <1>3, <3>1, ZeroTypes DEF Steps, StepAccept, StepInstall, StepMark, StepStart, StepRead,
         StepRetry, StepInsert, StepUpdate, StepAdd, Moved, Ended
  <2> QED
    BY <1>0, <1>2, <2>1 DEF At
<1>8. ASSUME replay'.devices = 1
      PROVE  Marks \subseteq uniques' \/ \E q \in Requests : req'[q].pc = "mark"
  <2>1. CASE \E e \in Events : StepAccept(r, e)
    <3>1. PICK e \in Events : StepAccept(r, e)
      BY <2>1
    <3>2. CASE TypeOf[e] = "install"
      <4>1. replay' = replay
        BY <1>0, <3>1, <3>2, AccumulateTypes DEF StepAccept
      <4>2. CASE Marks \subseteq uniques
        BY <1>0, <4>2
      <4>3. CASE \E q \in Requests : At(q, "mark")
        <5>1. PICK q \in Requests : At(q, "mark")
          BY <4>3
        <5>2. q # r
          BY <3>1, <5>1 DEF StepAccept, At
        <5> QED
          BY <1>0, <5>1, <5>2 DEF At
      <4> QED
        BY <1>2, <1>8, <4>1, <4>2, <4>3
    <3>3. CASE TypeOf[e] # "install"
      BY <3>1, <3>3 DEF StepAccept
    <3> QED
      BY <3>2, <3>3
  <2>2. CASE StepMark(r)
    BY <2>2 DEF StepMark
  <2>3. CASE ~(\E e \in Events : StepAccept(r, e)) /\ ~StepMark(r)
    <3>1. replay' = replay /\ ~At(r, "mark")
      BY <1>3, <2>3 DEF Steps, StepInstall, StepStart, StepRead, StepRetry, StepInsert, StepUpdate,
                        StepAdd, At
    <3>2. \A q \in Requests : At(q, "mark") => req'[q].pc = "mark"
      BY <1>0, <3>1 DEF At
    <3> QED
      BY <1>0, <1>2, <1>8, <3>1, <3>2
  <2> QED
    BY <2>1, <2>2, <2>3
<1> QED
  BY <1>6, <1>7, <1>8 DEF s2

LEMMA TimesStep ==
  ASSUME IInv, TimesInv, NEW r \in Requests, Steps(r)
  PROVE  TimesInv'
<1> SUFFICES ASSUME failures' = 0, ~overlapped'
             PROVE  /\ \A q, p \in Requests : req'[q].pc # "idle" /\ req'[p].pc # "idle" => q = p
                    /\ (\A q \in Requests : req'[q].pc = "idle") => Settled'
                    /\ \A q \in Requests : req'[q].pc # "idle" => AloneInv(q)'
  BY DEF TimesInv, At
<1>0. /\ TypeInv /\ TypeOK /\ FrameInv(r) /\ \A q \in Requests \ {r} : req'[q] = req[q]
      /\ failures \in Nat
  BY StepFacts, ZeroTypes DEF IInv, TypeInv, FramesInv, TypeOK
<1>1. failures = 0 /\ ~(failures' = failures + 1)
  BY <1>0, StepFacts
<1>2. ~overlapped
  <2>1. \/ \E e \in Events : StepAccept(r, e)
        \/ overlapped' = overlapped
    BY Zenon DEF Steps, StepInstall, StepMark, StepMarkFails, StepStart, StepRead, StepRetry,
                 StepInsert, StepUpdate, StepAdd, StepAbandon
  <2>2. ASSUME NEW e \in Events, StepAccept(r, e), overlapped PROVE FALSE
    BY <2>2, Zenon DEF StepAccept
  <2>3. ASSUME overlapped' = overlapped, overlapped PROVE FALSE
    BY <2>3
  <2> QED
    BY <2>1, <2>2, <2>3
<1>3. /\ \A q, p \in Requests : ~At(q, "idle") /\ ~At(p, "idle") => q = p
      /\ (\A q \in Requests : At(q, "idle")) => Settled
      /\ \A q \in Requests : ~At(q, "idle") => AloneInv(q)
  BY <1>1, <1>2 DEF TimesInv
<1>4. ~StepMarkFails(r) /\ ~StepAbandon(r)
  BY <1>1 DEF StepMarkFails, StepAbandon
<1>5. \A q \in Requests \ {r} : At(q, "idle") /\ req'[q].pc = "idle"
  <2>1. CASE \E e \in Events : StepAccept(r, e)
    <3>1. \A q \in Requests \ {r} : At(q, "idle")
      BY <2>1, Zenon DEF StepAccept
    <3> QED
      BY <1>0, <3>1 DEF At
  <2>2. CASE ~At(r, "idle")
    BY <1>0, <1>3, <2>2 DEF At
  <2>3. ~At(r, "idle") \/ \E e \in Events : StepAccept(r, e)
    BY <1>4 DEF Steps, StepInstall, StepMark, StepStart, StepRead, StepRetry, StepInsert, StepUpdate,
                StepAdd, At
  <2> QED
    BY <2>1, <2>2, <2>3
<1>6. SUFFICES /\ req'[r].pc = "idle" => Settled'
               /\ req'[r].pc # "idle" => AloneInv(r)'
  BY <1>5
<1>7. ASSUME session' = session PROVE SessionTotal' = SessionTotal
  BY <1>7 DEF SessionTotal
<1>8. CASE \E e \in Events : StepAccept(r, e)
  <2>1. PICK e \in Events : StepAccept(r, e)
    BY <1>8
  <2>2. Settled
    BY <1>3, <1>5, <2>1 DEF StepAccept
  <2>3. /\ req'[r].pc \in {"install", "mark"} /\ EventOf(r)' = e /\ Reported(r)' = DurationOf[e]
        /\ UNCHANGED <<session, metrics>>
    BY <2>1 DEF StepAccept, EventOf, Reported
  <2>4. /\ TypeOf[e] = "install" => replay' = replay
        /\ TypeOf[e] # "duration" => replay'.time = replay.time /\ replay'.last = replay.last
        /\ TypeOf[e] = "duration" =>
              /\ replay'.last = DurationOf[e]
              /\ \A field \in Fields : replay'.time[field] = replay.time[field]
                                         + boundedDelta(DurationOf[e][field], replay.last[field])
    BY <1>0, <2>1, AccumulateTypes DEF StepAccept
  <2>5. CASE TypeOf[e] # "duration"
    <3>1. Settled'
      BY <1>7, <2>2, <2>3, <2>4, <2>5 DEF Settled
    <3> QED
      BY <2>3, <2>5, <3>1 DEF AloneInv, At
  <2>6. CASE TypeOf[e] = "duration"
    <3>1. \A field \in Fields : replay'.time[field] = metrics'[field]
                                  + boundedDelta(Reported(r)'[field], SessionTotal'[field])
      BY <1>7, <2>2, <2>3, <2>4, <2>6 DEF Settled
    <3> QED
      BY <2>3, <2>4, <2>6, <3>1 DEF AloneInv, At
  <2> QED
    BY <2>5, <2>6
<1>9. ASSUME ~At(r, "idle") PROVE AloneInv(r)
  BY <1>3, <1>9
<1>10. CASE StepInstall(r) \/ StepMark(r)
  <2>1. /\ ~At(r, "idle") /\ ~At(r, "add") /\ EventOf(r)' = EventOf(r) /\ Reported(r)' = Reported(r)
        /\ UNCHANGED <<session, metrics, replay>>
    BY <1>10 DEF StepInstall, StepMark, Moved, At, EventOf, Reported
  <2>2. AloneInv(r)
    BY <1>9, <2>1
  <2>3. Settled => Settled'
    BY <1>7, <2>1 DEF Settled
  <2>4. CASE TypeOf[EventOf(r)] # "duration"
    <3>1. req'[r].pc # "insert" /\ req'[r].pc # "update"
      BY <1>0, <1>10, <2>4, FrameTypes DEF StepInstall, StepMark, Moved, AfterMarks, At
    <3> QED
      BY <1>10, <2>1, <2>2, <2>3, <2>4, <3>1 DEF AloneInv, At, StepInstall, StepMark, Moved, Settled
  <2>5. CASE TypeOf[EventOf(r)] = "duration"
    <3>1. StepMark(r)
      BY <1>0, <1>10, <2>5 DEF StepInstall, FrameInv
    <3>2. req'[r].pc = "read"
      BY <2>5, <3>1 DEF StepMark, Moved, AfterMarks
    <3> QED
      BY <1>7, <2>1, <2>2, <2>5, <3>2 DEF AloneInv, At
  <2> QED
    BY <1>0, <1>10, <2>4, <2>5, FrameTypes DEF StepInstall, StepMark, Moved, AfterMarks, At
<1>11. CASE StepStart(r)
  <2>1. /\ ~At(r, "idle") /\ EventOf(r)' = EventOf(r) /\ req'[r].pc = "add"
        /\ UNCHANGED <<metrics, replay>> /\ TypeOf[EventOf(r)] = "start"
    BY <1>0, <1>11 DEF StepStart, Moved, At, EventOf, FrameInv
  <2>2. SessionTotal' = SessionTotal
    BY <1>0, <1>11, SessionTypes DEF StepStart, SessionTotal
  <2>3. Settled'
    BY <1>9, <2>1, <2>2 DEF AloneInv, Settled
  <2> QED
    BY <2>1, <2>3 DEF AloneInv, At
<1>12. CASE StepRead(r)
  <2>1. /\ ~At(r, "idle") /\ ~At(r, "add") /\ EventOf(r)' = EventOf(r) /\ Reported(r)' = Reported(r)
        /\ UNCHANGED <<session, metrics, replay>> /\ TypeOf[EventOf(r)] = "duration"
        /\ req'[r].seen = session /\ req'[r].pc = IF session = None THEN "insert" ELSE "update"
    BY <1>0, <1>12 DEF StepRead, Moved, At, EventOf, Reported, FrameInv
  <2>2. AloneInv(r)
    BY <1>9, <2>1
  <2> QED
    BY <1>7, <2>1, <2>2 DEF AloneInv, At
<1>13. ~StepRetry(r)
  BY <1>9 DEF StepRetry, AloneInv, At
<1>14. CASE StepInsert(r) \/ StepUpdate(r)
  <2>1. /\ ~At(r, "idle") /\ ~At(r, "add") /\ EventOf(r)' = EventOf(r) /\ Reported(r)' = Reported(r)
        /\ UNCHANGED <<metrics, replay>> /\ TypeOf[EventOf(r)] = "duration"
        /\ session' = Reported(r) /\ req'[r].pc = "add"
    BY <1>0, <1>14 DEF StepInsert, StepUpdate, Moved, At, EventOf, Reported, FrameInv
  <2>2. AloneInv(r) /\ Reported(r) \in Duration /\ Reported(r) # None /\ SessionTotal \in Duration
    BY <1>0, <1>9, <2>1, FrameTypes, SessionTypes
  <2>3. SessionTotal' = Reported(r)
    BY <2>1, <2>2 DEF SessionTotal
  <2>4. \A field \in Fields : req'[r].delta[field] = boundedDelta(Reported(r)[field], SessionTotal[field])
    <3>1. CASE StepInsert(r)
      <4>1. SessionTotal = Zero /\ req'[r].delta = Reported(r)
        BY <3>1 DEF StepInsert, Moved, SessionTotal
      <4>2. \A field \in Fields :
              /\ Reported(r)[field] \in Nat /\ Zero[field] = 0
              /\ boundedDelta(Reported(r)[field], Zero[field])
                   = IF Reported(r)[field] > Zero[field] THEN Reported(r)[field] - Zero[field] ELSE 0
        BY <2>2, ZeroTypes, DurationFields, DifferenceFields
      <4>3. \A field \in Fields : boundedDelta(Reported(r)[field], Zero[field]) = Reported(r)[field]
        BY <4>2
      <4> QED
        BY <4>1, <4>3
    <3>2. CASE StepUpdate(r)
      <4>1. SessionTotal = session /\ req'[r].delta = Difference(Reported(r), session)
        BY <1>0, <3>2, SessionTypes DEF StepUpdate, Moved
      <4> QED
        BY <2>2, <4>1, DifferenceFields
    <3> QED
      BY <1>14, <3>1, <3>2
  <2>5. /\ replay.last = Reported(r)
        /\ \A field \in Fields :
             replay.time[field] = metrics[field]
                                    + boundedDelta(Reported(r)[field], SessionTotal[field])
    BY <2>1, <2>2 DEF AloneInv
  <2>6. /\ replay'.last = SessionTotal'
        /\ \A field \in Fields : replay'.time[field] = metrics'[field] + req'[r].delta[field]
    BY <2>1, <2>3, <2>4, <2>5
  <2> QED
    BY <2>1, <2>6 DEF AloneInv, At
<1>15. CASE StepAdd(r)
  <2>1. /\ At(r, "add") /\ req'[r].pc = "idle" /\ UNCHANGED <<session, replay>>
        /\ \A field \in Fields : metrics'[field] = metrics[field] + req[r].delta[field]
    BY <1>15, ZeroTypes DEF StepAdd, Ended
  <2>2. AloneInv(r)
    BY <1>9, <2>1 DEF At
  <2>3. replay.last = SessionTotal /\ \A field \in Fields : replay.time[field] = metrics'[field]
    <3>1. CASE TypeOf[EventOf(r)] = "duration"
      BY <2>1, <2>2, <3>1 DEF AloneInv
    <3>2. CASE TypeOf[EventOf(r)] # "duration"
      <4>1. req[r].delta = Zero
        BY <1>0, <2>1, <3>2 DEF FrameInv
      <4>2. \A field \in Fields : metrics[field] \in Nat /\ Zero[field] = 0
        BY <1>0, ZeroTypes DEF TypeOK, Metrics, Fields
      <4>3. \A field \in Fields : metrics'[field] = metrics[field]
        BY <2>1, <4>1, <4>2
      <4> QED
        BY <2>2, <3>2, <4>3 DEF AloneInv, Settled
    <3> QED
      BY <3>1, <3>2
  <2> QED
    BY <1>7, <2>1, <2>3 DEF Settled
<1> QED
  BY <1>4, <1>8, <1>10, <1>11, <1>12, <1>13, <1>14, <1>15 DEF Steps

ReportInv == MarksInv /\ ReplayInv /\ TimesInv

LEMMA ReportStep == IInv /\ ReportInv /\ [Next]_vars => ReportInv'
<1> SUFFICES ASSUME IInv, ReportInv, [Next]_vars PROVE ReportInv'
  OBVIOUS
<1>1. ASSUME NEW r \in Requests, Steps(r) PROVE ReportInv'
  BY <1>1, MarksStep, ReplayStep, TimesStep DEF ReportInv
<1>2. CASE UNCHANGED vars
  <2>1. /\ UNCHANGED <<stored, replay, overlapped, uniques, session, metrics>>
        /\ UNCHANGED <<req, failures>>
    BY <1>2 DEF vars, events
  <2>2. MarksInv'
    BY <2>1 DEF ReportInv, MarksInv, At, EventOf
  <2>3. ReplayInv'
    BY <2>1 DEF ReportInv, ReplayInv, BusyStarts, At, EventOf
  <2>4. TimesInv'
    BY <2>1 DEF ReportInv, TimesInv, AloneInv, Settled, SessionTotal, Reported, At, EventOf
  <2> QED
    BY <2>2, <2>3, <2>4 DEF ReportInv
<1> QED
  BY <1>1, <1>2, StepCases DEF IInv

LEMMA ReportInit == Init => ReportInv
<1> SUFFICES ASSUME Init PROVE ReportInv
  OBVIOUS
<1>0. /\ \A r \in Requests : At(r, "idle")
      /\ replay.devices = 0 /\ replay.launches = 0 /\ replay.time = Zero /\ replay.last = Zero
      /\ metrics.launches = 0 /\ metrics.process = 0 /\ metrics.visible = 0
      /\ \A field \in Fields : metrics[field] = 0
      /\ uniques = {} /\ SessionTotal = Zero
  BY ZeroTypes DEF Init, At, Fields, SessionTotal
<1>1. MarksInv
  BY <1>0 DEF MarksInv, Marks
<1>2. ReplayInv
  <2>1. BusyStarts = {}
    BY <1>0 DEF BusyStarts
  <2>2. \A r \in Requests : ~At(r, "remark")
    BY <1>0 DEF At
  <2> QED
    BY <1>0, <2>1, <2>2, FS_EmptySet DEF ReplayInv
<1>3. TimesInv
  BY <1>0, ZeroTypes DEF TimesInv, Settled
<1> QED
  BY <1>1, <1>2, <1>3 DEF ReportInv

\* Whatever failed, the activity report shows no launch and no time without a device; once
\* every event is handled and nothing failed, the aggregates say what a replay of the stored
\* events says, of devices and launches however the events overlapped, and of the times if they
\* came one by one.
THEOREM ReportMatchesEventsTheorem == Spec => []ReportMatchesEvents
<1>1. ASSUME IInv, ReportInv PROVE ReportMatchesEvents
  <2>0. /\ TypeOK /\ metrics \in Metrics
        /\ replay \in [devices : {0, 1}, launches : Nat, time : [process : Nat, visible : Nat], last : Duration]
    BY <1>1 DEF IInv, TypeInv, TypeOK
  <2> DEFINE day == [devices |-> IF "install_active" \in uniques THEN 1 ELSE 0,
                     launches |-> metrics.launches,
                     time |-> [process |-> metrics.process, visible |-> metrics.visible]]
             again == [devices |-> replay.devices, launches |-> replay.launches, time |-> replay.time]
             Good(report) ==
               /\ report.launches > 0 \/ report.time # Zero => report.devices = 1
               /\ (\A r \in Requests : At(r, "idle")) /\ failures = 0 =>
                    /\ report.devices = replay.devices
                    /\ report.launches = replay.launches
                    /\ ~overlapped => report.time = replay.time
  <2>1. Good(again)
    BY <1>1 DEF ReportInv, MarksInv
  <2>2. Good(day)
    <3>0. /\ "install_active" \in uniques <=> Marks \subseteq uniques
          /\ metrics.launches \in Nat /\ metrics.process \in Nat /\ metrics.visible \in Nat
      BY <1>1, <2>0 DEF ReportInv, MarksInv, Marks, Metrics
    <3>1. day.launches > 0 \/ day.time # Zero => day.devices = 1
      <4>1. day.time # Zero => metrics.process > 0 \/ metrics.visible > 0
        BY <3>0 DEF Zero
      <4> QED
        BY <1>1, <3>0, <4>1 DEF ReportInv, MarksInv
    <3>2. ASSUME \A r \in Requests : At(r, "idle"), failures = 0
          PROVE  /\ day.devices = replay.devices /\ day.launches = replay.launches
                 /\ ~overlapped => day.time = replay.time
      <4>1. \A r \in Requests : ~At(r, "mark")
        BY <3>2 DEF At
      <4>2. day.devices = replay.devices
        BY <1>1, <2>0, <3>0, <3>2, <4>1 DEF ReportInv, MarksInv, ReplayInv
      <4>3. day.launches = replay.launches
        <5>1. BusyStarts = {}
          BY <3>2 DEF BusyStarts
        <5>2. Cardinality(BusyStarts) = 0
          BY <5>1, FS_EmptySet
        <5>3. metrics.launches + Cardinality(BusyStarts) = replay.launches
          BY <1>1, <3>2 DEF ReportInv, ReplayInv
        <5> QED
          BY <3>0, <5>2, <5>3
      <4>4. ASSUME ~overlapped PROVE day.time = replay.time
        <5>1. Settled
          BY <1>1, <3>2, <4>4 DEF ReportInv, TimesInv
        <5>2. replay.time["process"] = metrics["process"] /\ replay.time["visible"] = metrics["visible"]
          BY <5>1 DEF Settled, Fields
        <5>3. replay.time.process = metrics.process /\ replay.time.visible = metrics.visible
          BY <2>0, <5>2 DEF Metrics
        <5>4. day.time = [process |-> metrics.process, visible |-> metrics.visible]
          OBVIOUS
        <5> HIDE DEF day
        <5> QED
          BY <2>0, <5>3, <5>4
      <4> QED
        BY <4>2, <4>3, <4>4
    <3> HIDE DEF day
    <3> QED
      BY <3>1, <3>2
  <2>3. \A covered \in BOOLEAN : ActivityDay(covered) = day \/ ActivityDay(covered) = again
    BY DEF ActivityDay
  <2> HIDE DEF day, again
  <2> QED
    BY <2>1, <2>2, <2>3 DEF ReportMatchesEvents
<1> QED
  BY <1>1, ReportInit, ReportStep, IInvariant, PTL DEF Spec
=============================================================================
