--------------------------- MODULE IsolateProofs ---------------------------
(* Theorems about Isolate, for any number of requests, keys and seeded     *)
(* rows, any limits and windows.                                           *)
EXTENDS Isolate, TLAPS, SequenceTheorems, FiniteSetTheorems

-----------------------------------------------------------------------------
(***************************************************************************)
(* Part 1: a window and the failures that it limits, at moment n.          *)
(***************************************************************************)

\* What pruning keeps.
Recent(w, window, n) == {e \in w : e.at + window > n}
AtOrAfter(w, t) == {e \in w : e.at >= t}
Of(w, t) == {e \in w : e.at = t}

WindowOK(w, n) ==
    /\ w \in SUBSET [at : 0 .. n, nth : Nat]
    /\ IsFiniteSet(w)
    /\ \A e \in w : e.nth < Cardinality(Of(w, e.at))

\* The failures X between t and the end of the window that begins then, or since t.
Within(at, X, t, window) == {j \in X : at[j] \in t .. t + window - 1}
Since(at, X, t) == {j \in X : at[j] >= t}

\* J are the failures that the window w limits to max, at their times, K those that it kept,
\* and S the requests that may still fail.  Only the failures of K count towards the limit;
\* the others are the requests that passed with one of K.
Limited(at, J, K, S, w, n, window, max) ==
    /\ IsFiniteSet(J) /\ IsFiniteSet(S) /\ K \subseteq J
    /\ \A j \in J : at[j] \in 0 .. n
    /\ WindowOK(w, n)
    /\ \A t \in Nat : t + window > n => Cardinality(Since(at, K, t)) <= Cardinality(AtOrAfter(w, t))
    /\ \A t \in Nat : Cardinality(Within(at, K, t, window)) <= max
    /\ \A t \in Nat : Cardinality(Within(at, J \ K, t, window))
                        <= Others * (Cardinality(Within(at, K, t, window)) + 1)
    /\ ~(Cardinality(Recent(w, window, n)) < max) =>
         /\ Cardinality(S) <= Others
         /\ \A t \in 0 .. n : n < t + window =>
              Cardinality(Within(at, J \ K, t, window)) + Cardinality(S)
                <= Others * (Cardinality(Within(at, K, t, window)) + 1)

LEMMA SetsFinite ==
  ASSUME NEW X, IsFiniteSet(X), NEW Y \in SUBSET X
  PROVE  IsFiniteSet(Y) /\ Cardinality(Y) \in Nat /\ Cardinality(Y) <= Cardinality(X)
BY FS_Subset, FS_CardinalityType

LEMMA OthersNat == Others \in Nat /\ Cardinality(Requests) = Others + 1
<1>1. IsFiniteSet(Requests) /\ Cardinality(Requests) \in Nat /\ Cardinality(Requests) # 0
  BY RequestsAssumption, FS_CardinalityType, FS_EmptySet
<1> QED
  BY <1>1 DEF Others

LEMMA BoundsNat ==
  /\ ipMax \in Nat /\ ipWindow \in Nat /\ ipFailMax \in Nat /\ ipFailWindow \in Nat
  /\ orderFailMax \in Nat /\ orderFailWindow \in Nat /\ feedbackMax \in Nat /\ Day \in Nat
  /\ LastTime \in Nat /\ MaxFaults \in Nat /\ MaxEvictions \in Nat /\ MaxMappings \in Nat
BY BoundsAssumption DEF Bounds

LEMMA Subwindow ==
  ASSUME NEW n \in Nat, NEW w, WindowOK(w, n), NEW x \in SUBSET w,
         \A e \in x, f \in w : f.at = e.at => f \in x
  PROVE  WindowOK(x, n)
<1>1. \A e \in x : Of(x, e.at) = Of(w, e.at)
  BY DEF Of
<1>2. IsFiniteSet(x)
  BY SetsFinite DEF WindowOK
<1> QED
  BY <1>1, <1>2 DEF WindowOK

LEMMA RecentOK ==
  ASSUME NEW n \in Nat, NEW w, WindowOK(w, n), NEW window \in Nat
  PROVE  /\ WindowOK(Recent(w, window, n), n)
         /\ Recent(Recent(w, window, n), window, n) = Recent(w, window, n)
         /\ \A t \in Nat : t + window > n => AtOrAfter(Recent(w, window, n), t) = AtOrAfter(w, t)
<1>1. \A e \in w : e.at \in Nat
  BY DEF WindowOK
<1>2. WindowOK(Recent(w, window, n), n)
  BY Subwindow DEF Recent
<1>3. \A t \in Nat : t + window > n => AtOrAfter(Recent(w, window, n), t) = AtOrAfter(w, t)
  BY <1>1 DEF Recent, AtOrAfter
<1> QED
  BY <1>2, <1>3 DEF Recent

LEMMA LaterOK ==
  ASSUME NEW n \in Nat, NEW w, WindowOK(w, n)
  PROVE  WindowOK(w, n + 1)
BY DEF WindowOK

LEMMA EmptyOK == ASSUME NEW n \in Nat PROVE WindowOK({}, n)
BY FS_EmptySet DEF WindowOK

\* The number of a new event is free: a window keeps all events of a moment or none.
LEMMA PushOK ==
  ASSUME NEW n \in Nat, NEW w, WindowOK(w, n),
         NEW e, e = [at |-> n, nth |-> Cardinality(Of(w, n))]
  PROVE  /\ WindowOK(w \union {e}, n)
         /\ e \notin w
         /\ \A t \in Nat : t <= n =>
              Cardinality(AtOrAfter(w \union {e}, t)) = Cardinality(AtOrAfter(w, t)) + 1
<1> DEFINE c == Cardinality(Of(w, n))
           x == w \union {e}
<1>1. IsFiniteSet(Of(w, n)) /\ c \in Nat
  BY SetsFinite DEF WindowOK, Of
<1>2. e.at = n /\ e.nth = c /\ e \in [at : 0 .. n, nth : Nat]
  BY <1>1
<1>3. e \notin w
  BY <1>1, <1>2 DEF WindowOK
<1>4. \A t \in Nat : t <= n =>
        Cardinality(AtOrAfter(x, t)) = Cardinality(AtOrAfter(w, t)) + 1
  <2> SUFFICES ASSUME NEW t \in Nat, t <= n
               PROVE  Cardinality(AtOrAfter(x, t)) = Cardinality(AtOrAfter(w, t)) + 1
    OBVIOUS
  <2>1. AtOrAfter(x, t) = AtOrAfter(w, t) \union {e} /\ e \notin AtOrAfter(w, t)
    BY <1>2, <1>3 DEF AtOrAfter
  <2>2. IsFiniteSet(AtOrAfter(w, t))
    BY SetsFinite DEF WindowOK, AtOrAfter
  <2> QED
    BY <2>1, <2>2, FS_AddElement
<1>5. WindowOK(x, n)
  <2>1. x \in SUBSET [at : 0 .. n, nth : Nat] /\ IsFiniteSet(x)
    BY <1>2, FS_AddElement DEF WindowOK
  <2>2. Of(x, n) = Of(w, n) \union {e} /\ e \notin Of(w, n)
    BY <1>2, <1>3 DEF Of
  <2>3. Cardinality(Of(x, n)) = c + 1
    <3>1. Cardinality(Of(w, n) \union {e}) = Cardinality(Of(w, n)) + 1
      BY <1>1, <2>2, FS_AddElement
    <3> QED
      BY <2>2, <3>1
  <2>4. \A t : t # n => Of(x, t) = Of(w, t)
    BY <1>2 DEF Of
  <2>5. \A f \in w : f.nth < Cardinality(Of(x, f.at))
    <3> SUFFICES ASSUME NEW f \in w PROVE f.nth < Cardinality(Of(x, f.at))
      OBVIOUS
    <3>1. f.nth \in Nat /\ f.nth < Cardinality(Of(w, f.at))
      BY DEF WindowOK
    <3>2. CASE f.at = n
      BY <1>1, <2>3, <3>1, <3>2
    <3>3. CASE f.at # n
      BY <2>4, <3>1, <3>3
    <3> QED
      BY <3>2, <3>3
  <2>6. e.nth < Cardinality(Of(x, e.at))
    <3> HIDE DEF c, x
    <3> QED
      BY <1>1, <1>2, <2>3
  <2> QED
    BY <2>1, <2>5, <2>6 DEF WindowOK
<1> QED
  BY <1>3, <1>4, <1>5

LEMMA LimitedCounts ==
  ASSUME NEW at, NEW J, NEW K, NEW S, NEW w, NEW n \in Nat, NEW window \in Nat, NEW max \in Nat,
         Limited(at, J, K, S, w, n, window, max), NEW t \in Nat
  PROVE  /\ Cardinality(Since(at, K, t)) \in Nat
         /\ Cardinality(AtOrAfter(w, t)) \in Nat
         /\ Cardinality(Within(at, K, t, window)) \in Nat
         /\ Cardinality(Within(at, J \ K, t, window)) \in Nat
         /\ Cardinality(Recent(w, window, n)) \in Nat
         /\ Cardinality(S) \in Nat
         /\ IsFiniteSet(Within(at, K, t, window)) /\ IsFiniteSet(Since(at, K, t))
         /\ IsFiniteSet(Within(at, J \ K, t, window))
<1>1. IsFiniteSet(J) /\ IsFiniteSet(w) /\ K \subseteq J /\ IsFiniteSet(S)
  BY DEF Limited, WindowOK
<1>2. /\ Since(at, K, t) \in SUBSET J /\ Within(at, K, t, window) \in SUBSET J
      /\ Within(at, J \ K, t, window) \in SUBSET J
      /\ AtOrAfter(w, t) \in SUBSET w /\ Recent(w, window, n) \in SUBSET w
  BY <1>1 DEF Since, Within, AtOrAfter, Recent
<1> QED
  BY <1>1, <1>2, SetsFinite

\* Time passes.
LEMMA LimitedLater ==
  ASSUME NEW at, NEW J, NEW K, NEW S, NEW w, NEW n \in Nat, NEW window \in Nat, NEW max \in Nat,
         Limited(at, J, K, S, w, n, window, max)
  PROVE  Limited(at, J, K, S, w, n + 1, window, max)
<1>1. /\ IsFiniteSet(J) /\ IsFiniteSet(S) /\ K \subseteq J
      /\ \A j \in J : at[j] \in 0 .. n + 1
      /\ WindowOK(w, n + 1)
  BY LaterOK DEF Limited
<1>2. \A t \in Nat : t + window > n + 1 => Cardinality(Since(at, K, t)) <= Cardinality(AtOrAfter(w, t))
  BY DEF Limited
<1>3. ASSUME ~(Cardinality(Recent(w, window, n + 1)) < max)
      PROVE  /\ Cardinality(S) <= Others
             /\ \A t \in 0 .. n + 1 : n + 1 < t + window =>
                  Cardinality(Within(at, J \ K, t, window)) + Cardinality(S)
                    <= Others * (Cardinality(Within(at, K, t, window)) + 1)
  <2>1. Recent(w, window, n + 1) \in SUBSET Recent(w, window, n) /\ IsFiniteSet(Recent(w, window, n))
    <3>1. \A e \in w : e.at \in Nat
      BY DEF Limited, WindowOK
    <3>2. Recent(w, window, n) \in SUBSET w
      BY DEF Recent
    <3> QED
      BY <3>1, <3>2, SetsFinite DEF Recent, Limited, WindowOK
  <2>2. Cardinality(Recent(w, window, n + 1)) <= Cardinality(Recent(w, window, n))
    BY <2>1, SetsFinite
  <2>3. ~(Cardinality(Recent(w, window, n)) < max)
    <3>1. Cardinality(Recent(w, window, n)) \in Nat /\ Cardinality(Recent(w, window, n + 1)) \in Nat
      BY <2>1, SetsFinite
    <3> QED
      BY <1>3, <2>2, <3>1
  <2>4. /\ Cardinality(S) <= Others
        /\ \A t \in 0 .. n : n < t + window =>
             Cardinality(Within(at, J \ K, t, window)) + Cardinality(S)
               <= Others * (Cardinality(Within(at, K, t, window)) + 1)
    BY <2>3 DEF Limited
  <2>5. /\ Cardinality(Within(at, J \ K, n + 1, window)) = 0
        /\ Cardinality(Within(at, K, n + 1, window)) = 0
    <3>1. Within(at, J \ K, n + 1, window) = {} /\ Within(at, K, n + 1, window) = {}
      BY DEF Within, Limited
    <3> QED
      BY <3>1, FS_EmptySet
  <2>6. Cardinality(Within(at, J \ K, n + 1, window)) + Cardinality(S)
          <= Others * (Cardinality(Within(at, K, n + 1, window)) + 1)
    BY <2>4, <2>5, OthersNat, LimitedCounts
  <2>7. \A t \in 0 .. n + 1 : n + 1 < t + window => t = n + 1 \/ (t \in 0 .. n /\ n < t + window)
    OBVIOUS
  <2> QED
    BY <2>4, <2>6, <2>7
<1> QED
  BY <1>1, <1>2, <1>3 DEF Limited

\* The window is pruned.
LEMMA LimitedPruned ==
  ASSUME NEW at, NEW J, NEW K, NEW S, NEW w, NEW n \in Nat, NEW window \in Nat, NEW max \in Nat,
         Limited(at, J, K, S, w, n, window, max)
  PROVE  Limited(at, J, K, S, Recent(w, window, n), n, window, max)
<1>1. WindowOK(w, n)
  BY DEF Limited
<1>2. /\ WindowOK(Recent(w, window, n), n)
      /\ Recent(Recent(w, window, n), window, n) = Recent(w, window, n)
      /\ \A t \in Nat : t + window > n => AtOrAfter(Recent(w, window, n), t) = AtOrAfter(w, t)
  BY <1>1, RecentOK
<1> QED
  BY <1>2 DEF Limited

\* Fewer requests may fail.
LEMMA LimitedLeft ==
  ASSUME NEW at, NEW J, NEW K, NEW S, NEW w, NEW n \in Nat, NEW window \in Nat, NEW max \in Nat,
         Limited(at, J, K, S, w, n, window, max), NEW T \in SUBSET S
  PROVE  Limited(at, J, K, T, w, n, window, max)
<1>1. IsFiniteSet(T) /\ Cardinality(T) \in Nat /\ Cardinality(T) <= Cardinality(S)
  BY SetsFinite DEF Limited
<1>2. ASSUME ~(Cardinality(Recent(w, window, n)) < max)
      PROVE  /\ Cardinality(T) <= Others
             /\ \A t \in 0 .. n : n < t + window =>
                  Cardinality(Within(at, J \ K, t, window)) + Cardinality(T)
                    <= Others * (Cardinality(Within(at, K, t, window)) + 1)
  <2>1. Cardinality(S) \in Nat /\ Cardinality(S) <= Others
    BY <1>2, FS_CardinalityType DEF Limited
  <2>2. Cardinality(T) <= Others
    BY <1>1, <2>1, OthersNat
  <2>3. ASSUME NEW t \in 0 .. n, n < t + window
        PROVE  Cardinality(Within(at, J \ K, t, window)) + Cardinality(T)
                 <= Others * (Cardinality(Within(at, K, t, window)) + 1)
    <3>1. Cardinality(Within(at, J \ K, t, window)) + Cardinality(S)
            <= Others * (Cardinality(Within(at, K, t, window)) + 1)
      BY <1>2, <2>3 DEF Limited
    <3> DEFINE b == Others * (Cardinality(Within(at, K, t, window)) + 1)
    <3>2. Cardinality(Within(at, J \ K, t, window)) \in Nat /\ b \in Nat
      BY LimitedCounts, OthersNat
    <3> HIDE DEF b
    <3>3. Cardinality(Within(at, J \ K, t, window)) + Cardinality(T) <= b
      BY <1>1, <2>1, <3>1, <3>2 DEF b
    <3> QED
      BY <3>3 DEF b
  <2> QED
    BY <2>2, <2>3
<1> QED
  BY <1>1, <1>2 DEF Limited

\* While the window has room, requests pass.
LEMMA LimitedPassed ==
  ASSUME NEW at, NEW J, NEW K, NEW S, NEW w, NEW n \in Nat, NEW window \in Nat, NEW max \in Nat,
         Limited(at, J, K, S, w, n, window, max), NEW T, IsFiniteSet(T),
         Cardinality(Recent(w, window, n)) < max
  PROVE  Limited(at, J, K, T, w, n, window, max)
BY DEF Limited

LEMMA LimitedEmpty ==
  ASSUME NEW at, NEW n \in Nat, NEW window \in Nat, NEW max \in Nat
  PROVE  Limited(at, {}, {}, {}, {}, n, window, max)
<1>1. /\ IsFiniteSet({}) /\ Cardinality({}) = 0 /\ {} \ {} = {}
      /\ \A t : Since(at, {}, t) = {} /\ Within(at, {}, t, window) = {} /\ AtOrAfter({}, t) = {}
  BY FS_EmptySet DEF Since, Within, AtOrAfter
<1>2. \A t \in Nat : /\ Cardinality(Since(at, {}, t)) = 0 /\ Cardinality(AtOrAfter({}, t)) = 0
                     /\ Cardinality(Within(at, {}, t, window)) = 0
                     /\ Cardinality(Within(at, {} \ {}, t, window)) = 0
  BY <1>1
<1> QED
  BY <1>1, <1>2, OthersNat, EmptyOK DEF Limited

\* Another failure is appended to the history.
LEMMA LimitedSame ==
  ASSUME NEW at, NEW J, NEW K, NEW S, NEW w, NEW n \in Nat, NEW window \in Nat, NEW max \in Nat,
         Limited(at, J, K, S, w, n, window, max), NEW at2, \A j \in J : at2[j] = at[j]
  PROVE  Limited(at2, J, K, S, w, n, window, max)
<1>1. K \subseteq J
  BY DEF Limited
<1>2. \A t : /\ Since(at2, K, t) = Since(at, K, t)
             /\ Within(at2, K, t, window) = Within(at, K, t, window)
             /\ Within(at2, J \ K, t, window) = Within(at, J \ K, t, window)
  BY <1>1 DEF Since, Within
<1> QED
  BY <1>2 DEF Limited

LEMMA Products ==
  ASSUME NEW o \in Nat, NEW k \in Nat
  PROVE  /\ o * (k + 1) \in Nat
         /\ o * ((k + 1) + 1) = o * (k + 1) + o
         /\ \A m \in Nat : k <= m => o * (k + 1) <= o * (m + 1)
OBVIOUS

\* A failure of this moment, in the windows of time.
LEMMA WithinAdded ==
  ASSUME NEW at, NEW X, NEW j, j \notin X, NEW n \in Nat, at[j] = n, NEW window \in Nat,
         NEW t \in Nat, IsFiniteSet(Within(at, X, t, window))
  PROVE  /\ t <= n /\ n < t + window =>
              Cardinality(Within(at, X \union {j}, t, window)) = Cardinality(Within(at, X, t, window)) + 1
         /\ ~(t <= n /\ n < t + window) => Within(at, X \union {j}, t, window) = Within(at, X, t, window)
<1>1. j \notin Within(at, X, t, window)
  BY DEF Within
<1>2. t <= n /\ n < t + window =>
        Within(at, X \union {j}, t, window) = Within(at, X, t, window) \union {j}
  BY DEF Within
<1>3. ~(t <= n /\ n < t + window) => Within(at, X \union {j}, t, window) = Within(at, X, t, window)
  BY DEF Within
<1>4. Cardinality(Within(at, X, t, window) \union {j}) = Cardinality(Within(at, X, t, window)) + 1
  BY <1>1, FS_AddElement
<1> QED
  BY <1>2, <1>3, <1>4

\* A failure finds the window full and is not recorded.
LEMMA LimitedRefused ==
  ASSUME NEW at, NEW J, NEW K, NEW S, NEW w, NEW n \in Nat, NEW window \in Nat, NEW max \in Nat,
         Limited(at, J, K, S, w, n, window, max), NEW j, j \notin J, at[j] = n,
         NEW r \in S, ~(Cardinality(Recent(w, window, n)) < max)
  PROVE  Limited(at, J \union {j}, K, S \ {r}, w, n, window, max)
<1> DEFINE I == J \union {j}
           T == S \ {r}
           U(t) == Cardinality(Within(at, J \ K, t, window))
           V(t) == Cardinality(Within(at, I \ K, t, window))
           b(t) == Others * (Cardinality(Within(at, K, t, window)) + 1)
<1>1. IsFiniteSet(J) /\ IsFiniteSet(S) /\ K \subseteq J /\ \A i \in J : at[i] \in 0 .. n
  BY DEF Limited
<1>2. IsFiniteSet(T) /\ Cardinality(T) = Cardinality(S) - 1 /\ Cardinality(S) \in Nat
  BY <1>1, FS_RemoveElement, FS_CardinalityType
<1>3. IsFiniteSet(I) /\ K \subseteq I /\ \A i \in I : at[i] \in 0 .. n
  BY <1>1, FS_AddElement
<1>4. /\ Cardinality(S) <= Others
      /\ \A t \in 0 .. n : n < t + window => U(t) + Cardinality(S) <= b(t)
      /\ \A t \in Nat : U(t) <= b(t)
  BY DEF Limited
<1>5. \A t \in Nat : U(t) \in Nat /\ b(t) \in Nat
  BY LimitedCounts, Products, OthersNat
<1>6. \A t \in Nat : V(t) = IF t <= n /\ n < t + window THEN U(t) + 1 ELSE U(t)
  <2> SUFFICES ASSUME NEW t \in Nat PROVE V(t) = IF t <= n /\ n < t + window THEN U(t) + 1 ELSE U(t)
    OBVIOUS
  <2>1. I \ K = (J \ K) \union {j} /\ j \notin J \ K
    BY <1>1
  <2>2. IsFiniteSet(Within(at, J \ K, t, window))
    BY LimitedCounts
  <2>3. /\ t <= n /\ n < t + window =>
             Cardinality(Within(at, (J \ K) \union {j}, t, window)) = U(t) + 1
        /\ ~(t <= n /\ n < t + window) =>
             Cardinality(Within(at, (J \ K) \union {j}, t, window)) = U(t)
    BY <2>1, <2>2, WithinAdded
  <2> QED
    BY <2>1, <2>3
<1> HIDE DEF I, T, U, V, b
<1>7. \A t \in Nat : V(t) <= b(t)
  <2> SUFFICES ASSUME NEW t \in Nat PROVE V(t) <= b(t)
    OBVIOUS
  <2>0. Cardinality(S) # 0
    BY <1>1, FS_EmptySet
  <2>1. CASE t <= n /\ n < t + window
    BY <1>2, <1>4, <1>5, <1>6, <2>0, <2>1
  <2>2. CASE ~(t <= n /\ n < t + window)
    BY <1>4, <1>6, <2>2
  <2> QED
    BY <2>1, <2>2
<1>8. Cardinality(T) <= Others /\ \A t \in 0 .. n : n < t + window => V(t) + Cardinality(T) <= b(t)
  <2>1. Cardinality(T) <= Others
    BY <1>2, <1>4, OthersNat
  <2>2. ASSUME NEW t \in 0 .. n, n < t + window PROVE V(t) + Cardinality(T) <= b(t)
    <3>1. V(t) = U(t) + 1 /\ U(t) \in Nat /\ b(t) \in Nat /\ U(t) + Cardinality(S) <= b(t)
      BY <1>4, <1>5, <1>6, <2>2
    <3> QED
      BY <1>2, <3>1
  <2> QED
    BY <2>1, <2>2
<1> QED
  BY <1>2, <1>3, <1>7, <1>8 DEF Limited, I, T, V, b

\* A failure is recorded in a window that has been pruned and has room.
LEMMA LimitedKept ==
  ASSUME NEW at, NEW J, NEW K, NEW S, NEW w, NEW n \in Nat, NEW window \in Nat, NEW max \in Nat,
         Limited(at, J, K, S, w, n, window, max), Recent(w, window, n) = w, Cardinality(w) < max,
         NEW j, j \notin J, at[j] = n,
         NEW T, IsFiniteSet(T), Cardinality(T) <= Others,
         NEW e, e = [at |-> n, nth |-> Cardinality(Of(w, n))]
  PROVE  Limited(at, J \union {j}, K \union {j}, T, w \union {e}, n, window, max)
<1> DEFINE I == J \union {j}
           L == K \union {j}
           x == w \union {e}
           U(t) == Cardinality(Within(at, J \ K, t, window))
           V(t) == Cardinality(Within(at, I \ L, t, window))
           A(t) == Cardinality(Within(at, K, t, window))
           B(t) == Cardinality(Within(at, L, t, window))
<1>1. /\ IsFiniteSet(J) /\ K \subseteq J /\ \A i \in J : at[i] \in 0 .. n
      /\ IsFiniteSet(w) /\ WindowOK(w, n) /\ j \notin K
  BY DEF Limited, WindowOK
<1>2. IsFiniteSet(I) /\ L \subseteq I /\ \A i \in I : at[i] \in 0 .. n
  BY <1>1, FS_AddElement
<1>3. /\ WindowOK(x, n)
      /\ \A t \in Nat : t <= n => Cardinality(AtOrAfter(x, t)) = Cardinality(AtOrAfter(w, t)) + 1
  <2>1. WindowOK(w, n)
    BY <1>1
  <2>2. /\ WindowOK(w \union {e}, n)
        /\ \A t \in Nat : t <= n =>
             Cardinality(AtOrAfter(w \union {e}, t)) = Cardinality(AtOrAfter(w, t)) + 1
    BY <2>1, PushOK
  <2> QED
    BY <2>2
<1>4. \A t \in Nat : A(t) \in Nat /\ U(t) \in Nat /\ U(t) <= Others * (A(t) + 1) /\ A(t) <= max
  <2>1. \A t \in Nat : A(t) \in Nat /\ U(t) \in Nat
    BY LimitedCounts, Zenon
  <2>2. \A t \in Nat : U(t) <= Others * (A(t) + 1) /\ A(t) <= max
    BY Zenon DEF Limited
  <2> QED
    BY <2>1, <2>2
<1>5. \A t \in Nat : B(t) = IF t <= n /\ n < t + window THEN A(t) + 1 ELSE A(t)
  <2> SUFFICES ASSUME NEW t \in Nat PROVE B(t) = IF t <= n /\ n < t + window THEN A(t) + 1 ELSE A(t)
    OBVIOUS
  <2>1. IsFiniteSet(Within(at, K, t, window))
    BY LimitedCounts, Zenon
  <2>2. j \notin K
    BY <1>1
  <2>3. /\ t <= n /\ n < t + window =>
             Cardinality(Within(at, K \union {j}, t, window)) = Cardinality(Within(at, K, t, window)) + 1
        /\ ~(t <= n /\ n < t + window) =>
             Within(at, K \union {j}, t, window) = Within(at, K, t, window)
    BY <2>1, <2>2, WithinAdded
  <2> QED
    BY <2>3
<1>6. \A t \in Nat : V(t) = U(t)
  <2>1. I \ L = J \ K
    BY <1>1
  <2> QED
    BY <2>1
<1>7. \A t \in Nat : t + window > n => Cardinality(Since(at, L, t)) <= Cardinality(AtOrAfter(x, t))
  <2> SUFFICES ASSUME NEW t \in Nat, t + window > n
               PROVE  Cardinality(Since(at, L, t)) <= Cardinality(AtOrAfter(x, t))
    OBVIOUS
  <2>1. CASE t <= n
    <3>1. Since(at, L, t) = Since(at, K, t) \union {j} /\ j \notin Since(at, K, t)
      BY <1>1, <2>1 DEF Since
    <3>2. Cardinality(Since(at, L, t)) = Cardinality(Since(at, K, t)) + 1
      BY <3>1, LimitedCounts, FS_AddElement
    <3>3. Cardinality(Since(at, K, t)) <= Cardinality(AtOrAfter(w, t))
      BY DEF Limited
    <3>4. /\ Cardinality(Since(at, K, t)) \in Nat /\ Cardinality(AtOrAfter(w, t)) \in Nat
          /\ Cardinality(AtOrAfter(x, t)) = Cardinality(AtOrAfter(w, t)) + 1
      BY <1>3, <2>1, LimitedCounts, Zenon
    <3> QED
      BY <3>2, <3>3, <3>4
  <2>2. CASE t > n
    <3>1. Since(at, L, t) = {}
      BY <1>2, <2>2 DEF Since
    <3>2. IsFiniteSet(AtOrAfter(x, t))
      BY <1>3, SetsFinite DEF WindowOK, AtOrAfter
    <3>3. Cardinality(Since(at, L, t)) = 0 /\ Cardinality(AtOrAfter(x, t)) \in Nat
      BY <3>1, <3>2, FS_EmptySet, FS_CardinalityType, Zenon
    <3> QED
      BY <3>3
  <2> QED
    BY <2>1, <2>2
<1>8. \A t \in Nat : t <= n /\ n < t + window => A(t) < max
  <2> SUFFICES ASSUME NEW t \in Nat, t <= n, n < t + window PROVE A(t) < max
    OBVIOUS
  <2>1. Within(at, K, t, window) \in SUBSET Since(at, K, t) /\ AtOrAfter(w, t) \in SUBSET w
    BY <1>1 DEF Within, Since, AtOrAfter
  <2>2. A(t) <= Cardinality(Since(at, K, t)) /\ Cardinality(AtOrAfter(w, t)) <= Cardinality(w)
    BY <1>1, <2>1, LimitedCounts, SetsFinite
  <2>3. Cardinality(Since(at, K, t)) <= Cardinality(AtOrAfter(w, t))
    BY DEF Limited
  <2>4. Cardinality(w) \in Nat
    BY <1>1, FS_CardinalityType
  <2> QED
    BY <1>4, <2>2, <2>3, <2>4, LimitedCounts
<1> HIDE DEF I, L, x, U, V, A, B
<1>9. \A t \in Nat : B(t) <= max
  BY <1>4, <1>5, <1>8
<1>10. \A t \in Nat : V(t) <= Others * (B(t) + 1)
  <2> SUFFICES ASSUME NEW t \in Nat PROVE V(t) <= Others * (B(t) + 1)
    OBVIOUS
  <2>1. /\ A(t) \in Nat /\ U(t) \in Nat /\ U(t) <= Others * (A(t) + 1) /\ V(t) = U(t)
        /\ B(t) = A(t) \/ B(t) = A(t) + 1
    BY <1>4, <1>5, <1>6
  <2>2. Others * (A(t) + 1) \in Nat /\ Others * ((A(t) + 1) + 1) = Others * (A(t) + 1) + Others
    BY <2>1, OthersNat, Products
  <2>3. CASE B(t) = A(t)
    BY <2>1, <2>3
  <2>4. CASE B(t) = A(t) + 1
    <3>1. Others * (B(t) + 1) = Others * (A(t) + 1) + Others
      BY <2>2, <2>4
    <3> QED
      BY <2>1, <2>2, <3>1, OthersNat
  <2> QED
    BY <2>1, <2>3, <2>4
<1>11. \A t \in 0 .. n : n < t + window => V(t) + Cardinality(T) <= Others * (B(t) + 1)
  <2> SUFFICES ASSUME NEW t \in 0 .. n, n < t + window
               PROVE  V(t) + Cardinality(T) <= Others * (B(t) + 1)
    OBVIOUS
  <2>1. /\ A(t) \in Nat /\ U(t) \in Nat /\ U(t) <= Others * (A(t) + 1) /\ V(t) = U(t)
        /\ B(t) = A(t) + 1
    BY <1>4, <1>5, <1>6
  <2>2. Others * (A(t) + 1) \in Nat /\ Others * ((A(t) + 1) + 1) = Others * (A(t) + 1) + Others
    BY <2>1, OthersNat, Products
  <2>3. Others * (B(t) + 1) = Others * (A(t) + 1) + Others
    BY <2>1, <2>2
  <2>4. Cardinality(T) \in Nat
    BY FS_CardinalityType
  <2> QED
    BY <2>1, <2>2, <2>3, <2>4, OthersNat
<1> QED
  BY <1>2, <1>3, <1>7, <1>9, <1>10, <1>11 DEF Limited, I, L, x, V, B

\* What the window promises.
LEMMA LimitedBound ==
  ASSUME NEW at, NEW J, NEW K, NEW S, NEW w, NEW n \in Nat, NEW window \in Nat, NEW max \in Nat,
         Limited(at, J, K, S, w, n, window, max), NEW t \in Nat
  PROVE  Cardinality(Within(at, J, t, window)) <= max + Others * (max + 1)
<1> DEFINE A == Within(at, K, t, window)
           U == Within(at, J \ K, t, window)
<1>1. K \subseteq J /\ Cardinality(A) <= max /\ Cardinality(U) <= Others * (Cardinality(A) + 1)
  BY DEF Limited
<1>2. /\ Cardinality(A) \in Nat /\ Cardinality(U) \in Nat
      /\ IsFiniteSet(A) /\ IsFiniteSet(U)
  BY LimitedCounts
<1>3. Within(at, J, t, window) = A \union U /\ A \cap U = {}
  BY <1>1 DEF Within
<1>4. Cardinality(Within(at, J, t, window)) = Cardinality(A) + Cardinality(U)
  <2>1. Cardinality(A \cap U) = 0
    BY <1>3, FS_EmptySet
  <2>2. Cardinality(A \union U) = Cardinality(A) + Cardinality(U) - Cardinality(A \cap U)
    BY <1>2, FS_Union
  <2> QED
    BY <1>2, <1>3, <2>1, <2>2
<1> HIDE DEF A, U
<1>5. /\ Others * (Cardinality(A) + 1) \in Nat /\ Others * (max + 1) \in Nat
      /\ Others * (Cardinality(A) + 1) <= Others * (max + 1)
  BY <1>1, <1>2, OthersNat, Products
<1> QED
  BY <1>1, <1>2, <1>4, <1>5

-----------------------------------------------------------------------------
(***************************************************************************)
(* Part 2: types, and what a start has made sure of.                       *)
(***************************************************************************)

WindowsInv ==
    /\ WindowOK(ipRequests, now)
    /\ WindowOK(ipFailures, now)
    /\ \A k \in Keys : WindowOK(orderFailures[k], now)

TypeInv == TypeOK /\ WindowsInv

\* The rows before the one at which a start is are there.
SeededInv ==
    /\ app.state \in {"select", "insert"} => \A i \in 1 .. app.row - 1 : rows[SeedRows[i]] > 0
    /\ ReadyIsSeeded

LEMMA SeqWider ==
  ASSUME NEW S, NEW T, S \subseteq T, NEW s \in Seq(S)
  PROVE  s \in Seq(T)
BY SeqDef

LEMMA SeedsOrdered ==
  /\ Len(SeedRows) \in Nat \ {0} /\ DOMAIN SeedRows = 1 .. Len(SeedRows)
  /\ \A i \in DOMAIN SeedRows : SeedRows[i] \in Range(SeedRows)
  /\ \A row \in Range(SeedRows) : \E i \in DOMAIN SeedRows : SeedRows[i] = row
<1>1. SeedRows \in Seq(Range(SeedRows)) /\ SeedRows # <<>>
  BY SeedAssumption
<1>2. Len(SeedRows) \in Nat \ {0} /\ DOMAIN SeedRows = 1 .. Len(SeedRows)
  BY <1>1, EmptySeq, LenProperties
<1> QED
  BY <1>2 DEF Range

LEMMA PrunedOK ==
  ASSUME NEW w, now \in Nat, WindowOK(w, now), NEW window \in Nat
  PROVE  WindowOK(prune(w, window), now) /\ prune(w, window) = Recent(w, window, now)
<1>1. prune(w, window) = Recent(w, window, now)
  BY DEF prune, Recent
<1> QED
  BY <1>1, RecentOK

LEMMA RecordedOK ==
  ASSUME NEW w, now \in Nat, WindowOK(w, now), NEW window \in Nat, NEW max
  PROVE  WindowOK(Recorded(w, window, max), now)
<1> DEFINE x == prune(w, window)
           e == [at |-> now, nth |-> Cardinality(Of(x, now))]
<1>1. WindowOK(x, now)
  BY PrunedOK
<1>2. push(x) = x \union {e}
  BY DEF push, Of
<1> HIDE DEF x
<1>3. WindowOK(x \union {e}, now)
  BY <1>1, PushOK
<1> QED
  BY <1>1, <1>2, <1>3 DEF Recorded, x

\* A request's frame after its step.
LEMMA FrameSteps ==
  ASSUME TypeOK, NEW r \in Requests
  PROVE  /\ \A step \in Pc : Goto(r, step) =>
              /\ req' \in [Requests -> Frame]
              /\ req'[r].pc = step /\ req'[r].key = req[r].key
              /\ \A q \in Requests \ {r} : req'[q] = req[q]
         /\ Finish(r) =>
              /\ req' \in [Requests -> Frame]
              /\ req'[r].pc = "idle"
              /\ \A q \in Requests \ {r} : req'[q] = req[q]
<1>1. req \in [Requests -> Frame] /\ req[r] \in Frame
  BY DEF TypeOK
<1>2. ASSUME NEW f \in Frame, req' = [req EXCEPT ![r] = f]
      PROVE  /\ req' \in [Requests -> Frame] /\ req'[r] = f
             /\ \A q \in Requests \ {r} : req'[q] = req[q]
  BY <1>1, <1>2
<1>3. ASSUME NEW step \in Pc, Goto(r, step)
      PROVE  /\ req' \in [Requests -> Frame]
             /\ req'[r].pc = step /\ req'[r].key = req[r].key
             /\ \A q \in Requests \ {r} : req'[q] = req[q]
  <2> DEFINE f == [req[r] EXCEPT !.pc = step]
  <2>1. f \in Frame /\ f.pc = step /\ f.key = req[r].key
    BY <1>1 DEF Frame
  <2>2. req' = [req EXCEPT ![r] = f]
    BY <1>1, <1>3 DEF Goto
  <2> HIDE DEF f
  <2> QED
    BY <1>2, <2>1, <2>2
<1>4. Idle \in Frame /\ Idle.pc = "idle"
  BY DEF Idle, Frame, Pc
<1> QED
  BY <1>2, <1>3, <1>4 DEF Finish

LEMMA StartRows ==
  ASSUME TypeOK, NEW n \in DOMAIN SeedRows
  PROVE  /\ AfterRow(n) \in Start /\ [state |-> "insert", row |-> n] \in Start
         /\ NoApp \in Start /\ FailedApp \in Start
         /\ [app EXCEPT !.state = "select"] \in Start
         /\ SeedRows[n] \in Range(SeedRows)
<1>1. SeedRows[n] \in Range(SeedRows) /\ 1 \in DOMAIN SeedRows /\ app \in Start
  BY SeedsOrdered DEF TypeOK
<1>2. n # Len(SeedRows) => n + 1 \in DOMAIN SeedRows
  BY SeedsOrdered
<1>3. AfterRow(n) \in Start
  BY <1>1, <1>2 DEF AfterRow, Start
<1>4. /\ [state |-> "insert", row |-> n] \in Start /\ NoApp \in Start /\ FailedApp \in Start
      /\ [app EXCEPT !.state = "select"] \in Start
  BY <1>1 DEF Start, NoApp, FailedApp
<1> QED
  BY <1>1, <1>3, <1>4

\* Requests leave the database's seed alone, and of the application only start it.
RequestActions(r) ==
    \/ \E k \in Keys \union {None} : Fetch(r, k)
    \/ FetchFails(r)
    \/ CheckRequest(r) \/ AnswerUnlimited(r) \/ FailuresAllowed(r) \/ Succeed(r) \/ RecordFailure(r)
    \/ FeedbackCount(r) \/ FeedbackInsert(r)

StartActions ==
    \/ SeedSelect \/ SeedInsert \/ SeedFault
    \/ \E row \in Range(SeedRows) : OtherSeeds(row)

LEMMA NextCases ==
  ASSUME [Next]_vars
  PROVE  \/ \E r \in Requests : RequestActions(r)
         \/ StartActions \/ Evict \/ Tick \/ UNCHANGED vars
BY Zenon DEF Next, RequestActions, StartActions

LEMMA TypeInit == Init => TypeInv
<1> SUFFICES ASSUME Init PROVE TypeInv
  OBVIOUS
<1>1. Idle \in Frame /\ NoApp \in Start
  BY SeedsOrdered DEF Idle, Frame, Pc, NoApp, Start
<1>2. WindowsInv
  BY EmptyOK DEF Init, WindowsInv
<1>3. now \in 0 .. LastTime /\ {faults, evictions} \subseteq Nat
  BY BoundsNat DEF Init
<1>4. rows \in [Range(SeedRows) -> Nat]
  BY DEF Init
<1> QED
  BY <1>1, <1>2, <1>3, <1>4 DEF Init, TypeInv, TypeOK

\* The variables of a request's step, but for its frame and the feedback.
LEMMA RequestTypes ==
  ASSUME TypeInv, NEW r \in Requests, RequestActions(r)
  PROVE  /\ now' = now /\ rows' = rows /\ faults' = faults /\ evictions' = evictions
         /\ app' = app \/ (app = NoApp /\ app' = [app EXCEPT !.state = "select"])
         /\ req' \in [Requests -> Frame]
         /\ feedback' \in Seq(0 .. now)
         /\ failed' \in Seq(Failure)
         /\ orderFailures' \in [Keys -> SUBSET Event]
         /\ WindowsInv'
<1>0. /\ TypeOK /\ now \in Nat
      /\ WindowOK(ipRequests, now) /\ WindowOK(ipFailures, now)
      /\ \A k \in Keys : WindowOK(orderFailures[k], now)
  BY BoundsNat DEF TypeInv, TypeOK, WindowsInv
<1>1. /\ now' = now /\ rows' = rows /\ faults' = faults /\ evictions' = evictions
      /\ app' = app \/ (app = NoApp /\ app' = [app EXCEPT !.state = "select"])
  BY DEF RequestActions, Fetch, FetchFails, CheckRequest, AnswerUnlimited, FailuresAllowed,
     Succeed, RecordFailure, FeedbackCount, FeedbackInsert, environment, database
<1>2. req' \in [Requests -> Frame]
  <2>1. "body" \in Pc /\ "service" \in Pc /\ "f_insert" \in Pc
    BY DEF Pc
  <2>2. ASSUME NEW k \in Keys \union {None}, Fetch(r, k) PROVE req' \in [Requests -> Frame]
    <3>1. [pc |-> "waiting", key |-> k] \in Frame
      BY DEF Frame, Pc
    <3>2. req \in [Requests -> Frame] /\ req' = [req EXCEPT ![r] = [pc |-> "waiting", key |-> k]]
      BY <1>0, <2>2 DEF TypeOK, Fetch
    <3> QED
      BY <3>1, <3>2
  <2>3. ASSUME Finish(r) \/ Goto(r, "body") \/ Goto(r, "service") \/ Goto(r, "f_insert")
        PROVE  req' \in [Requests -> Frame]
    BY <1>0, <2>1, <2>3, FrameSteps
  <2>4. ASSUME ~(\E k \in Keys \union {None} : Fetch(r, k))
        PROVE  Finish(r) \/ Goto(r, "body") \/ Goto(r, "service") \/ Goto(r, "f_insert")
    BY <2>4 DEF RequestActions, FetchFails, CheckRequest, AnswerUnlimited, FailuresAllowed,
       Succeed, RecordFailure, FeedbackCount, FeedbackInsert
  <2> QED
    BY <2>2, <2>3, <2>4
<1>3. feedback' \in Seq(0 .. now)
  <2>1. feedback' = feedback \/ feedback' = Append(feedback, now)
    BY DEF RequestActions, Fetch, FetchFails, CheckRequest, AnswerUnlimited, FailuresAllowed,
       Succeed, RecordFailure, FeedbackCount, FeedbackInsert, database
  <2>2. feedback \in Seq(0 .. now) /\ now \in 0 .. now
    BY <1>0 DEF TypeOK
  <2> QED
    BY <2>1, <2>2, AppendProperties
<1>4. UNCHANGED limiter \/ CheckRequest(r) \/ FailuresAllowed(r) \/ RecordFailure(r)
  BY DEF RequestActions, Fetch, FetchFails, AnswerUnlimited, Succeed, FeedbackCount, FeedbackInsert
<1>5. orderFailures' \in [Keys -> SUBSET Event]
  <2>1. orderFailures \in [Keys -> SUBSET Event]
    BY <1>0 DEF TypeOK
  <2>2. \A k \in Keys : /\ prune(orderFailures[k], orderFailWindow) \in SUBSET Event
                        /\ Recorded(orderFailures[k], orderFailWindow, orderFailMax) \in SUBSET Event
    BY <1>0, PrunedOK, RecordedOK, BoundsNat DEF WindowOK, Event
  <2>3. \/ orderFailures' = orderFailures
        \/ \E k : orderFailures' = [orderFailures EXCEPT ![k] = prune(@, orderFailWindow)]
        \/ \E k : orderFailures' = [orderFailures EXCEPT ![k] = Recorded(@, orderFailWindow, orderFailMax)]
    BY <1>4 DEF limiter, failures, CheckRequest, FailuresAllowed, RecordFailure
  <2> QED
    BY <2>1, <2>2, <2>3
<1>6. CASE UNCHANGED limiter
  BY <1>0, <1>1, <1>2, <1>3, <1>5, <1>6 DEF limiter, failures, WindowsInv, TypeOK
<1>7. CASE CheckRequest(r)
  <2>1. /\ ipRequests' = Recorded(ipRequests, ipWindow, ipMax)
        /\ ipFailures' = ipFailures /\ orderFailures' = orderFailures /\ failed' = failed
    BY <1>7 DEF CheckRequest, failures
  <2> QED
    BY <1>0, <1>1, <1>2, <1>3, <1>5, <2>1, RecordedOK, BoundsNat DEF WindowsInv, TypeOK
<1>8. CASE FailuresAllowed(r)
  <2>1. /\ ipRequests' = ipRequests /\ failed' = failed
        /\ ipFailures' = prune(ipFailures, ipFailWindow)
        /\ \/ orderFailures' = orderFailures
           \/ \E k : orderFailures' = [orderFailures EXCEPT ![k] = prune(@, orderFailWindow)]
    BY <1>8 DEF FailuresAllowed
  <2>2. \A k \in Keys : WindowOK(prune(orderFailures[k], orderFailWindow), now)
    BY <1>0, PrunedOK, BoundsNat
  <2>3. \A k \in Keys : WindowOK(orderFailures'[k], now)
    <3>1. orderFailures \in [Keys -> SUBSET Event]
      BY <1>0 DEF TypeOK
    <3>2. \A k \in Keys : orderFailures'[k] \in {orderFailures[k], prune(orderFailures[k], orderFailWindow)}
      BY <2>1, <3>1
    <3> QED
      BY <1>0, <2>2, <3>2
  <2>4. WindowOK(ipFailures', now)
    BY <1>0, <2>1, PrunedOK, BoundsNat
  <2> QED
    BY <1>0, <1>1, <1>2, <1>3, <1>5, <2>1, <2>3, <2>4 DEF WindowsInv, TypeOK
<1>9. CASE RecordFailure(r)
  <2> DEFINE k == req[r].key
             f == [at |-> now, key |-> k,
                   ipKept |-> HasRoom(ipFailures, ipFailWindow, ipFailMax),
                   orderKept |-> k # None /\ HasRoom(orderFailures[k], orderFailWindow, orderFailMax)]
  <2>1. /\ ipRequests' = ipRequests /\ failed' = Append(failed, f)
        /\ ipFailures' = Recorded(ipFailures, ipFailWindow, ipFailMax)
        /\ \/ orderFailures' = orderFailures
           \/ orderFailures' = [orderFailures EXCEPT ![k] = Recorded(@, orderFailWindow, orderFailMax)]
    BY <1>9 DEF RecordFailure
  <2>2. k \in Keys \union {None}
    BY <1>0 DEF TypeOK, Frame
  <2>3. f \in Failure
    BY <1>0, <2>2 DEF Failure, HasRoom
  <2> HIDE DEF f
  <2>4. failed' \in Seq(Failure)
    BY <1>0, <2>1, <2>3, AppendProperties DEF TypeOK
  <2>5. \A q \in Keys : WindowOK(Recorded(orderFailures[q], orderFailWindow, orderFailMax), now)
    BY <1>0, RecordedOK, BoundsNat
  <2>6. \A q \in Keys : WindowOK(orderFailures'[q], now)
    <3>1. orderFailures \in [Keys -> SUBSET Event]
      BY <1>0 DEF TypeOK
    <3>2. \A q \in Keys : orderFailures'[q] \in
            {orderFailures[q], Recorded(orderFailures[q], orderFailWindow, orderFailMax)}
      BY <2>1, <3>1
    <3> QED
      BY <1>0, <2>5, <3>2
  <2>7. WindowOK(ipFailures', now)
    BY <1>0, <2>1, RecordedOK, BoundsNat
  <2> QED
    BY <1>0, <1>1, <1>2, <1>3, <1>5, <2>1, <2>4, <2>6, <2>7 DEF WindowsInv
<1> QED
  BY <1>4, <1>6, <1>7, <1>8, <1>9

\* The states of a start, and the rows it finds or inserts.
LEMMA StartTypes ==
  ASSUME TypeInv, StartActions
  PROVE  /\ now' = now /\ faults' \in Nat /\ evictions' = evictions
         /\ UNCHANGED <<feedback, limiter, req>>
         /\ app' \in Start /\ rows' \in [Range(SeedRows) -> Nat]
         /\ \A row \in Range(SeedRows) : rows[row] <= rows'[row]
<1>1. /\ app \in Start /\ rows \in [Range(SeedRows) -> Nat] /\ faults \in Nat
      /\ app.row \in DOMAIN SeedRows
  BY DEF TypeInv, TypeOK, Start
<1>2. /\ AfterRow(app.row) \in Start /\ [state |-> "insert", row |-> app.row] \in Start
      /\ FailedApp \in Start /\ SeedRows[app.row] \in Range(SeedRows)
  BY <1>1, StartRows DEF TypeInv
<1>3. CASE SeedSelect
  BY <1>1, <1>2, <1>3 DEF SeedSelect, environment, database
<1>4. CASE SeedInsert
  <2> DEFINE row == SeedRows[app.row]
  <2>1. /\ UNCHANGED <<environment, feedback, limiter, req>>
        /\ app' \in {FailedApp, AfterRow(app.row)}
        /\ rows' = rows \/ rows' = [rows EXCEPT ![row] = @ + 1]
    BY <1>4 DEF SeedInsert
  <2> QED
    BY <1>1, <1>2, <2>1 DEF environment
<1>5. ASSUME NEW row \in Range(SeedRows), OtherSeeds(row)
      PROVE  /\ UNCHANGED <<environment, feedback, app, limiter, req>>
             /\ rows' = [rows EXCEPT ![row] = @ + 1]
  BY <1>5 DEF OtherSeeds
<1>6. ASSUME NEW row \in Range(SeedRows), rows' = [rows EXCEPT ![row] = @ + 1]
      PROVE  /\ rows' \in [Range(SeedRows) -> Nat]
             /\ \A x \in Range(SeedRows) : rows[x] <= rows'[x]
  BY <1>1, <1>6
<1>7. CASE \E row \in Range(SeedRows) : OtherSeeds(row)
  BY <1>1, <1>5, <1>6, <1>7 DEF environment
<1>8. CASE SeedFault
  BY <1>1, <1>2, <1>8 DEF SeedFault, database
<1> QED
  BY <1>3, <1>4, <1>7, <1>8 DEF StartActions

LEMMA TypeStep == TypeInv /\ [Next]_vars => TypeInv'
<1> SUFFICES ASSUME TypeInv, [Next]_vars PROVE TypeInv'
  OBVIOUS
<1>0. TypeOK /\ WindowsInv
  BY DEF TypeInv
<1>1. ASSUME NEW r \in Requests, RequestActions(r) PROVE TypeInv'
  <2>1. /\ now' = now /\ rows' = rows /\ faults' = faults /\ evictions' = evictions
        /\ app' = app \/ (app = NoApp /\ app' = [app EXCEPT !.state = "select"])
        /\ req' \in [Requests -> Frame]
        /\ feedback' \in Seq(0 .. now)
        /\ failed' \in Seq(Failure)
        /\ orderFailures' \in [Keys -> SUBSET Event]
        /\ WindowsInv'
    BY <1>1, RequestTypes
  <2>2. app' \in Start
    <3>1. 1 \in DOMAIN SeedRows
      BY SeedsOrdered
    <3> QED
      BY <1>0, <2>1, <3>1, StartRows DEF TypeOK
  <2>3. Event' = Event /\ Failure' = Failure
    BY <2>1 DEF Event, Failure
  <2>4. ipRequests' \in SUBSET Event /\ ipFailures' \in SUBSET Event
    BY <2>1 DEF WindowsInv, WindowOK, Event
  <2> QED
    BY <1>0, <2>1, <2>2, <2>3, <2>4 DEF TypeInv, TypeOK
<1>2. CASE StartActions
  <2>1. /\ now' = now /\ faults' \in Nat /\ evictions' = evictions
        /\ UNCHANGED <<feedback, limiter, req>>
        /\ app' \in Start /\ rows' \in [Range(SeedRows) -> Nat]
    BY <1>2, StartTypes
  <2>2. Event' = Event /\ Failure' = Failure
    BY <2>1 DEF Event, Failure
  <2> QED
    BY <1>0, <2>1, <2>2 DEF TypeInv, TypeOK, WindowsInv, limiter, failures
<1>3. CASE Evict
  <2>1. NoApp \in Start
    BY SeedsOrdered DEF NoApp, Start
  <2>2. Idle \in Frame
    BY DEF Idle, Frame, Pc
  <2>3. Event' = Event /\ now \in Nat
    BY <1>0, <1>3, BoundsNat DEF Evict, Event, TypeOK
  <2>4. WindowsInv'
    BY <1>3, <2>3, EmptyOK DEF Evict, WindowsInv
  <2>5. evictions' \in Nat /\ faults' = faults /\ now' = now /\ rows' = rows /\ feedback' = feedback
    BY <1>0, <1>3 DEF Evict, TypeOK, database
  <2>6. failed' \in Seq(Failure') /\ req' \in [Requests -> Frame]
    BY <1>3, <2>2 DEF Evict
  <2>7. /\ ipRequests' \in SUBSET Event' /\ ipFailures' \in SUBSET Event'
        /\ orderFailures' \in [Keys -> SUBSET Event'] /\ app' \in Start
    BY <1>3, <2>1 DEF Evict
  <2> QED
    BY <1>0, <2>4, <2>5, <2>6, <2>7 DEF TypeInv, TypeOK
<1>4. CASE Tick
  <2>1. /\ now \in Nat /\ now' = now + 1 /\ now < LastTime
        /\ UNCHANGED <<database, app, limiter, req, faults, evictions>>
    BY <1>0, <1>4, BoundsNat DEF Tick, TypeOK
  <2>2. Event \subseteq Event' /\ Failure \subseteq Failure' /\ 0 .. now \subseteq 0 .. now'
    BY <2>1 DEF Event, Failure
  <2>3. feedback' \in Seq(0 .. now') /\ failed' \in Seq(Failure')
    BY <1>0, <2>1, <2>2, SeqWider DEF TypeOK, database, limiter, failures
  <2>4. WindowsInv'
    BY <1>0, <2>1, LaterOK DEF WindowsInv, limiter, failures
  <2>5. /\ ipRequests' \in SUBSET Event' /\ ipFailures' \in SUBSET Event'
        /\ orderFailures' \in [Keys -> SUBSET Event']
    BY <1>0, <2>1, <2>2 DEF TypeOK, limiter, failures
  <2>6. now' \in 0 .. LastTime
    BY <2>1, BoundsNat
  <2> QED
    BY <1>0, <2>1, <2>3, <2>4, <2>5, <2>6 DEF TypeInv, TypeOK, database
<1>5. CASE UNCHANGED vars
  <2>1. Event' = Event /\ Failure' = Failure
    BY <1>5 DEF Event, Failure, vars
  <2> QED
    BY <1>0, <1>5, <2>1 DEF vars, TypeInv, TypeOK, WindowsInv
<1> QED
  BY <1>1, <1>2, <1>3, <1>4, <1>5, NextCases

LEMMA TypeInvariant == Spec => []TypeInv
BY TypeInit, TypeStep, PTL DEF Spec

\* The tables, appPromise, the limiter's windows and the frames hold values of their types.
THEOREM TypeCorrect == Spec => []TypeOK
<1>1. TypeInv => TypeOK
  BY DEF TypeInv
<1> QED
  BY <1>1, TypeInvariant, PTL

LEMMA SeededStep == TypeInv /\ SeededInv /\ [Next]_vars => SeededInv'
<1> SUFFICES ASSUME TypeInv, SeededInv, [Next]_vars PROVE SeededInv'
  OBVIOUS
<1>0. /\ app \in Start /\ rows \in [Range(SeedRows) -> Nat] /\ app.row \in DOMAIN SeedRows
      /\ app.row \in Nat \ {0}
  BY SeedsOrdered DEF TypeInv, TypeOK, Start
<1>1. ASSUME rows' = rows, app' = app PROVE SeededInv'
  BY <1>1 DEF SeededInv, ReadyIsSeeded
<1>2. ASSUME app' = NoApp \/ app' = FailedApp PROVE SeededInv'
  BY <1>2 DEF SeededInv, ReadyIsSeeded, NoApp, FailedApp
<1>3. ASSUME NEW r \in Requests, RequestActions(r) PROVE SeededInv'
  <2>1. rows' = rows /\ (app' = app \/ (app = NoApp /\ app' = [app EXCEPT !.state = "select"]))
    BY <1>3, RequestTypes
  <2>2. CASE app = NoApp /\ app' = [app EXCEPT !.state = "select"]
    BY <2>2 DEF NoApp, SeededInv, ReadyIsSeeded
  <2> QED
    BY <1>1, <2>1, <2>2
<1>4. CASE StartActions
  <2>1. /\ \A row \in Range(SeedRows) : rows[row] <= rows'[row]
        /\ rows' \in [Range(SeedRows) -> Nat]
    BY <1>4, StartTypes
  <2>2. \A i \in DOMAIN SeedRows : rows[SeedRows[i]] > 0 => rows'[SeedRows[i]] > 0
    BY <1>0, <2>1, SeedsOrdered
  <2>3. ASSUME app' = AfterRow(app.row), app.state \in {"select", "insert"},
               rows'[SeedRows[app.row]] > 0
        PROVE  SeededInv'
    <3>1. \A i \in 1 .. app.row : i \in DOMAIN SeedRows /\ rows'[SeedRows[i]] > 0
      BY <1>0, <2>2, <2>3, SeedsOrdered DEF SeededInv
    <3>2. CASE app.row = Len(SeedRows)
      <4>1. app'.state = "ready"
        BY <2>3, <3>2 DEF AfterRow
      <4>2. \A row \in Range(SeedRows) : rows'[row] > 0
        BY <3>1, <3>2, SeedsOrdered
      <4> QED
        BY <4>1, <4>2 DEF SeededInv, ReadyIsSeeded
    <3>3. CASE app.row # Len(SeedRows)
      <4>1. app'.state = "select" /\ app'.row = app.row + 1
        BY <2>3, <3>3 DEF AfterRow
      <4> QED
        BY <1>0, <3>1, <4>1 DEF SeededInv, ReadyIsSeeded
    <3> QED
      BY <3>2, <3>3
  <2>4. ASSUME app' = [state |-> "insert", row |-> app.row], app.state = "select" PROVE SeededInv'
    <3>1. \A i \in 1 .. app.row - 1 : i \in DOMAIN SeedRows
      BY <1>0, SeedsOrdered
    <3> QED
      BY <2>2, <2>4, <3>1 DEF SeededInv, ReadyIsSeeded
  <2>5. CASE SeedSelect
    BY <1>2, <2>3, <2>4, <2>5 DEF SeedSelect, database
  <2>6. CASE SeedInsert
    <3>1. \/ app' = FailedApp
          \/ /\ app' = AfterRow(app.row) /\ app.state = "insert"
             /\ rows' = [rows EXCEPT ![SeedRows[app.row]] = @ + 1]
      BY <2>6 DEF SeedInsert
    <3>2. rows' = [rows EXCEPT ![SeedRows[app.row]] = @ + 1] => rows'[SeedRows[app.row]] > 0
      BY <1>0, SeedsOrdered
    <3> QED
      BY <1>2, <2>3, <3>1, <3>2
  <2>7. CASE SeedFault
    BY <1>2, <2>7 DEF SeedFault
  <2>8. CASE \E row \in Range(SeedRows) : OtherSeeds(row)
    <3>1. app' = app
      BY <2>8 DEF OtherSeeds
    <3>2. \A i \in 1 .. app.row - 1 : i \in DOMAIN SeedRows
      BY <1>0, SeedsOrdered
    <3>3. ReadyIsSeeded'
      BY <1>0, <2>1, <3>1 DEF SeededInv, ReadyIsSeeded
    <3> QED
      BY <2>2, <3>1, <3>2, <3>3 DEF SeededInv
  <2> QED
    BY <1>4, <2>5, <2>6, <2>7, <2>8 DEF StartActions
<1>5. Evict => app' = NoApp
  BY DEF Evict
<1>6. Tick \/ UNCHANGED vars => rows' = rows /\ app' = app
  BY DEF Tick, vars, database
<1> QED
  BY <1>1, <1>2, <1>3, <1>4, <1>5, <1>6, NextCases

\* An application that serves requests has found or inserted every row that its services rely
\* on, whatever other isolates inserted meanwhile and whatever failed before.
THEOREM ReadyIsSeededTheorem == Spec => []ReadyIsSeeded
<1>1. Init => SeededInv
  BY DEF Init, NoApp, SeededInv, ReadyIsSeeded
<1>2. TypeInv /\ SeededInv /\ [Next]_vars => SeededInv'
  BY SeededStep
<1>3. SeededInv => ReadyIsSeeded
  BY DEF SeededInv
<1> QED
  BY <1>1, <1>2, <1>3, TypeInvariant, PTL DEF Spec

-----------------------------------------------------------------------------
(***************************************************************************)
(* Part 3: the limit of failures.                                          *)
(***************************************************************************)

FailedAt == [j \in DOMAIN failed |-> failed[j].at]
IpKept == {j \in DOMAIN failed : failed[j].ipKept}
FailedOf(k) == {j \in DOMAIN failed : failed[j].key = k}
OrderKept(k) == {j \in DOMAIN failed : failed[j].key = k /\ failed[j].orderKept}
InService == {r \in Requests : At(r, "service")}
Serving(k) == {r \in Requests : At(r, "service") /\ req[r].key = k}

IpLimited ==
    Limited(FailedAt, DOMAIN failed, IpKept, InService, ipFailures, now, ipFailWindow, ipFailMax)
OrderLimited(k) ==
    Limited(FailedAt, FailedOf(k), OrderKept(k), Serving(k), orderFailures[k], now,
            orderFailWindow, orderFailMax)
LimitsInv == IpLimited /\ \A k \in Keys : OrderLimited(k)

\* A failure is recorded, or finds the window full.
LEMMA LimitedRecorded ==
  ASSUME now \in Nat, NEW at, NEW J, NEW K, NEW S \in SUBSET Requests, NEW w,
         NEW window \in Nat, NEW max \in Nat,
         Limited(at, J, K, S, w, now, window, max),
         NEW at2, \A i \in J : at2[i] = at[i], NEW j, j \notin J, at2[j] = now, NEW r \in S
  PROVE  Limited(at2, J \union {j}, IF HasRoom(w, window, max) THEN K \union {j} ELSE K, S \ {r},
                 Recorded(w, window, max), now, window, max)
<1> DEFINE x == Recent(w, window, now)
           e == [at |-> now, nth |-> Cardinality(Of(x, now))]
<1>0. WindowOK(w, now)
  BY DEF Limited
<1>1. Limited(at2, J, K, S, w, now, window, max)
  BY LimitedSame
<1>2. Limited(at2, J, K, S, x, now, window, max) /\ Recent(x, window, now) = x
  BY <1>0, <1>1, LimitedPruned, RecentOK
<1>3. x = prune(w, window) /\ push(x) = x \union {e}
  BY DEF prune, Recent, push, Of
<1>4. IsFiniteSet(S \ {r}) /\ Cardinality(S \ {r}) <= Others
  <2>1. IsFiniteSet(S) /\ Cardinality(S) \in Nat /\ Cardinality(S) <= Cardinality(Requests)
    BY SetsFinite, RequestsAssumption
  <2>2. IsFiniteSet(S \ {r}) /\ Cardinality(S \ {r}) = Cardinality(S) - 1
    BY <2>1, FS_RemoveElement
  <2> QED
    BY <2>1, <2>2, OthersNat
<1> HIDE DEF x
<1>5. CASE HasRoom(w, window, max)
  <2>1. Cardinality(x) < max /\ Recorded(w, window, max) = x \union {e}
    BY <1>3, <1>5 DEF HasRoom, Recorded
  <2>2. Limited(at2, J \union {j}, K \union {j}, S \ {r}, x \union {e}, now, window, max)
    BY <1>2, <1>4, <2>1, LimitedKept
  <2> QED
    BY <1>5, <2>1, <2>2
<1>6. CASE ~HasRoom(w, window, max)
  <2>1. ~(Cardinality(Recent(x, window, now)) < max) /\ Recorded(w, window, max) = x
    BY <1>2, <1>3, <1>6 DEF HasRoom, Recorded
  <2>2. Limited(at2, J \union {j}, K, S \ {r}, x, now, window, max)
    BY <1>2, <2>1, LimitedRefused
  <2> QED
    BY <1>6, <2>1, <2>2
<1> QED
  BY <1>5, <1>6

\* No request comes to its service, and the windows are left alone.
LEMMA LimitsQuiet ==
  ASSUME TypeInv, LimitsInv, UNCHANGED <<now, failed, ipFailures, orderFailures>>,
         \A r \in Requests : req'[r].pc = "service" => At(r, "service") /\ req'[r].key = req[r].key
  PROVE  LimitsInv'
<1>1. now \in Nat /\ FailedAt' = FailedAt /\ IpKept' = IpKept
  BY BoundsNat DEF TypeInv, TypeOK, FailedAt, IpKept
<1>2. InService' \in SUBSET InService /\ \A k \in Keys : Serving(k)' \in SUBSET Serving(k)
  BY DEF InService, Serving, At
<1>3. \A k \in Keys : FailedOf(k)' = FailedOf(k) /\ OrderKept(k)' = OrderKept(k)
  BY DEF FailedOf, OrderKept
<1>4. IpLimited'
  <2>1. Limited(FailedAt, DOMAIN failed, IpKept, InService', ipFailures, now, ipFailWindow, ipFailMax)
    BY <1>1, <1>2, LimitedLeft, BoundsNat DEF LimitsInv, IpLimited
  <2> QED
    BY <1>1, <2>1 DEF IpLimited
<1>5. ASSUME NEW k \in Keys PROVE OrderLimited(k)'
  <2>1. Limited(FailedAt, FailedOf(k), OrderKept(k), Serving(k)', orderFailures[k], now,
                orderFailWindow, orderFailMax)
    BY <1>1, <1>2, LimitedLeft, BoundsNat DEF LimitsInv, OrderLimited
  <2> QED
    BY <1>1, <1>3, <2>1 DEF OrderLimited
<1> QED
  BY <1>4, <1>5 DEF LimitsInv

LEMMA LimitsTick ==
  ASSUME TypeInv, LimitsInv, Tick
  PROVE  LimitsInv'
<1>1. /\ now \in Nat /\ now' = now + 1
      /\ failed' = failed /\ ipFailures' = ipFailures /\ orderFailures' = orderFailures /\ req' = req
  BY BoundsNat DEF TypeInv, TypeOK, Tick, limiter, failures
<1>2. FailedAt' = FailedAt /\ IpKept' = IpKept /\ InService' = InService
  BY <1>1 DEF FailedAt, IpKept, InService, At
<1>3. \A k \in Keys : /\ FailedOf(k)' = FailedOf(k) /\ OrderKept(k)' = OrderKept(k)
                      /\ Serving(k)' = Serving(k)
  BY <1>1 DEF FailedOf, OrderKept, Serving, At
<1>4. IpLimited'
  <2>1. Limited(FailedAt, DOMAIN failed, IpKept, InService, ipFailures, now + 1, ipFailWindow, ipFailMax)
    BY <1>1, LimitedLater, BoundsNat DEF LimitsInv, IpLimited
  <2> QED
    BY <1>1, <1>2, <2>1 DEF IpLimited
<1>5. ASSUME NEW k \in Keys PROVE OrderLimited(k)'
  <2>1. Limited(FailedAt, FailedOf(k), OrderKept(k), Serving(k), orderFailures[k], now + 1,
                orderFailWindow, orderFailMax)
    BY <1>1, LimitedLater, BoundsNat DEF LimitsInv, OrderLimited
  <2> QED
    BY <1>1, <1>2, <1>3, <2>1 DEF OrderLimited
<1> QED
  BY <1>4, <1>5 DEF LimitsInv

\* An isolate that has just started, or not yet, has seen no failure.
NothingFailed ==
    /\ now \in Nat /\ failed = <<>> /\ ipFailures = {} /\ orderFailures = [k \in Keys |-> {}]
    /\ \A r \in Requests : req[r].pc = "idle"

LEMMA LimitsNone == NothingFailed => LimitsInv
<1> SUFFICES ASSUME NothingFailed PROVE LimitsInv
  OBVIOUS
<1>0. /\ now \in Nat /\ failed = <<>> /\ ipFailures = {} /\ orderFailures = [k \in Keys |-> {}]
      /\ \A r \in Requests : req[r].pc = "idle"
  BY DEF NothingFailed
<1>1. /\ DOMAIN failed = {} /\ IpKept = {} /\ InService = {}
      /\ \A k \in Keys : /\ FailedOf(k) = {} /\ OrderKept(k) = {} /\ Serving(k) = {}
                         /\ orderFailures[k] = {}
  BY <1>0 DEF IpKept, InService, FailedOf, OrderKept, Serving, At
<1>2. /\ Limited(FailedAt, {}, {}, {}, {}, now, ipFailWindow, ipFailMax)
      /\ Limited(FailedAt, {}, {}, {}, {}, now, orderFailWindow, orderFailMax)
  BY <1>0, LimitedEmpty, BoundsNat
<1>3. IpLimited
  BY <1>0, <1>1, <1>2 DEF IpLimited
<1>4. \A k \in Keys : OrderLimited(k)
  BY <1>1, <1>2 DEF OrderLimited
<1> QED
  BY <1>3, <1>4 DEF LimitsInv

LEMMA LimitsAllowed ==
  ASSUME TypeInv, LimitsInv, NEW r \in Requests, FailuresAllowed(r)
  PROVE  LimitsInv'
<1> DEFINE key == req[r].key
<1>0. /\ TypeOK /\ now \in Nat /\ now' = now /\ failed' = failed
      /\ ipFailures' = Recent(ipFailures, ipFailWindow, now)
  BY BoundsNat DEF TypeInv, TypeOK, FailuresAllowed, environment, prune, Recent
<1>1. /\ FailedAt' = FailedAt /\ IpKept' = IpKept
      /\ \A k \in Keys : FailedOf(k)' = FailedOf(k) /\ OrderKept(k)' = OrderKept(k)
  BY <1>0 DEF FailedAt, IpKept, FailedOf, OrderKept
<1>2. "service" \in Pc
  BY DEF Pc
<1>3. /\ At(r, "body")
      /\ \/ Finish(r)
         \/ /\ Goto(r, "service") /\ HasRoom(ipFailures, ipFailWindow, ipFailMax)
            /\ key # None => HasRoom(orderFailures[key], orderFailWindow, orderFailMax)
  BY DEF FailuresAllowed, failuresAllowed
<1>4. /\ \A q \in Requests \ {r} : req'[q] = req[q]
      /\ \/ req'[r].pc = "idle"
         \/ /\ req'[r].pc = "service" /\ req'[r].key = key
            /\ HasRoom(ipFailures, ipFailWindow, ipFailMax)
            /\ key # None => HasRoom(orderFailures[key], orderFailWindow, orderFailMax)
  BY <1>0, <1>2, <1>3, FrameSteps
<1>5. /\ IsFiniteSet(InService') /\ \A k : IsFiniteSet(Serving(k)')
  BY SetsFinite, RequestsAssumption DEF InService, Serving
<1>6. Limited(FailedAt, DOMAIN failed, IpKept, InService', ipFailures, now, ipFailWindow, ipFailMax)
  <2>1. CASE req'[r].pc = "idle"
    <3>1. InService' \in SUBSET InService
      BY <1>4, <2>1 DEF InService, At
    <3> QED
      BY <1>0, <3>1, LimitedLeft, BoundsNat DEF LimitsInv, IpLimited
  <2>2. CASE HasRoom(ipFailures, ipFailWindow, ipFailMax)
    <3>1. Cardinality(Recent(ipFailures, ipFailWindow, now)) < ipFailMax
      BY <2>2 DEF HasRoom, prune, Recent
    <3> QED
      BY <1>0, <1>5, <3>1, LimitedPassed, BoundsNat DEF LimitsInv, IpLimited
  <2> QED
    BY <1>4, <2>1, <2>2
<1>7. IpLimited'
  <2>1. Limited(FailedAt, DOMAIN failed, IpKept, InService',
                Recent(ipFailures, ipFailWindow, now), now, ipFailWindow, ipFailMax)
    BY <1>0, <1>6, LimitedPruned, BoundsNat
  <2> QED
    BY <1>0, <1>1, <2>1 DEF IpLimited
<1>8. ASSUME NEW k \in Keys PROVE OrderLimited(k)'
  <2>1. Limited(FailedAt, FailedOf(k), OrderKept(k), Serving(k)', orderFailures[k], now,
                orderFailWindow, orderFailMax)
    <3>1. CASE Serving(k)' \in SUBSET Serving(k)
      BY <1>0, <3>1, LimitedLeft, BoundsNat DEF LimitsInv, OrderLimited
    <3>2. CASE HasRoom(orderFailures[k], orderFailWindow, orderFailMax)
      <4>1. Cardinality(Recent(orderFailures[k], orderFailWindow, now)) < orderFailMax
        BY <3>2 DEF HasRoom, prune, Recent
      <4> QED
        BY <1>0, <1>5, <4>1, LimitedPassed, BoundsNat DEF LimitsInv, OrderLimited
    <3>3. Serving(k)' \in SUBSET Serving(k) \/ HasRoom(orderFailures[k], orderFailWindow, orderFailMax)
      <4>1. None \notin Keys
        BY KeysAssumption
      <4> QED
        BY <1>4, <4>1 DEF Serving, At
    <3> QED
      BY <3>1, <3>2, <3>3
  <2>2. orderFailures'[k] \in {orderFailures[k], Recent(orderFailures[k], orderFailWindow, now)}
    <3>1. orderFailures \in [Keys -> SUBSET Event]
      BY <1>0 DEF TypeOK
    <3>2. \/ orderFailures' = orderFailures
          \/ orderFailures' = [orderFailures EXCEPT ![key] = prune(@, orderFailWindow)]
      BY DEF FailuresAllowed
    <3> QED
      BY <3>1, <3>2 DEF prune, Recent
  <2>3. Limited(FailedAt, FailedOf(k), OrderKept(k), Serving(k)',
                Recent(orderFailures[k], orderFailWindow, now), now, orderFailWindow, orderFailMax)
    BY <1>0, <2>1, LimitedPruned, BoundsNat
  <2> QED
    BY <1>0, <1>1, <2>1, <2>2, <2>3 DEF OrderLimited
<1> QED
  BY <1>7, <1>8 DEF LimitsInv

\* A service fails: each window keeps the failure, or is full.
LEMMA LimitsRecord ==
  ASSUME TypeInv, LimitsInv, NEW r \in Requests, RecordFailure(r)
  PROVE  LimitsInv'
<1> DEFINE key == req[r].key
           n == Len(failed) + 1
           ipRoom == HasRoom(ipFailures, ipFailWindow, ipFailMax)
           orderRoom == HasRoom(orderFailures[key], orderFailWindow, orderFailMax)
           f == [at |-> now, key |-> key, ipKept |-> ipRoom, orderKept |-> key # None /\ orderRoom]
<1>0. /\ TypeOK /\ now \in Nat /\ now' = now /\ failed \in Seq(Failure)
      /\ orderFailures \in [Keys -> SUBSET Event]
  BY BoundsNat DEF TypeInv, TypeOK, RecordFailure, environment
<1>1. /\ At(r, "service") /\ Finish(r)
      /\ failed' = Append(failed, f)
      /\ ipFailures' = Recorded(ipFailures, ipFailWindow, ipFailMax)
      /\ orderFailures' =
           IF key = None THEN orderFailures
           ELSE [orderFailures EXCEPT ![key] = Recorded(@, orderFailWindow, orderFailMax)]
  BY DEF RecordFailure
<1>2. /\ n \notin DOMAIN failed /\ DOMAIN failed' = DOMAIN failed \union {n}
      /\ failed'[n] = f /\ \A j \in DOMAIN failed : failed'[j] = failed[j]
  <2>1. /\ Len(failed) \in Nat /\ DOMAIN failed = 1 .. Len(failed)
        /\ DOMAIN failed' = 1 .. Len(failed) + 1
        /\ failed'[n] = f /\ \A j \in 1 .. Len(failed) : failed'[j] = failed[j]
    BY <1>0, <1>1
  <2> QED
    BY <2>1
<1>3. f.at = now /\ f.key = key /\ f.ipKept = ipRoom /\ f.orderKept = (key # None /\ orderRoom)
  OBVIOUS
<1> HIDE DEF f, n, ipRoom, orderRoom
<1>4. FailedAt'[n] = now /\ \A j \in DOMAIN failed : FailedAt'[j] = FailedAt[j]
  BY <1>2, <1>3 DEF FailedAt
<1>5. IpKept' = IF ipRoom THEN IpKept \union {n} ELSE IpKept
  BY <1>2, <1>3 DEF IpKept
<1>6. /\ req'[r].pc = "idle" /\ \A q \in Requests \ {r} : req'[q] = req[q]
  BY <1>0, <1>1, FrameSteps
<1>7. InService' = InService \ {r} /\ r \in InService
  BY <1>1, <1>6 DEF InService, At
<1>8. IpLimited'
  <2>1. Limited(FailedAt, DOMAIN failed, IpKept, InService, ipFailures, now, ipFailWindow, ipFailMax)
    BY DEF LimitsInv, IpLimited
  <2>2. InService \in SUBSET Requests
    BY DEF InService
  <2>3. Limited(FailedAt', DOMAIN failed \union {n},
                IF HasRoom(ipFailures, ipFailWindow, ipFailMax) THEN IpKept \union {n} ELSE IpKept,
                InService \ {r}, Recorded(ipFailures, ipFailWindow, ipFailMax),
                now, ipFailWindow, ipFailMax)
    BY <1>0, <1>2, <1>4, <1>7, <2>1, <2>2, LimitedRecorded, BoundsNat
  <2> QED
    BY <1>0, <1>1, <1>2, <1>5, <1>7, <2>3 DEF IpLimited, ipRoom
<1>9. ASSUME NEW k \in Keys PROVE OrderLimited(k)'
  <2>0. k # None
    BY KeysAssumption
  <2>1. Limited(FailedAt, FailedOf(k), OrderKept(k), Serving(k), orderFailures[k], now,
                orderFailWindow, orderFailMax)
    BY DEF LimitsInv, OrderLimited
  <2>2. FailedOf(k) \in SUBSET DOMAIN failed /\ Serving(k) \in SUBSET Requests
    BY DEF FailedOf, Serving
  <2>3. CASE k = key
    <3>1. FailedOf(k)' = FailedOf(k) \union {n} /\ n \notin FailedOf(k)
      BY <1>2, <1>3, <2>3 DEF FailedOf
    <3>2. OrderKept(k)' = IF orderRoom THEN OrderKept(k) \union {n} ELSE OrderKept(k)
      BY <1>2, <1>3, <2>0, <2>3 DEF OrderKept
    <3>3. Serving(k)' = Serving(k) \ {r} /\ r \in Serving(k)
      BY <1>1, <1>6, <2>3 DEF Serving, At
    <3>4. orderFailures'[k] = Recorded(orderFailures[k], orderFailWindow, orderFailMax)
      BY <1>0, <1>1, <2>0, <2>3
    <3>5. \A i \in FailedOf(k) : FailedAt'[i] = FailedAt[i]
      BY <1>4, <2>2
    <3>6. Limited(FailedAt', FailedOf(k) \union {n},
                  IF HasRoom(orderFailures[k], orderFailWindow, orderFailMax)
                  THEN OrderKept(k) \union {n} ELSE OrderKept(k),
                  Serving(k) \ {r}, Recorded(orderFailures[k], orderFailWindow, orderFailMax),
                  now, orderFailWindow, orderFailMax)
      BY <1>0, <1>4, <2>1, <2>2, <3>1, <3>3, <3>5, LimitedRecorded, BoundsNat
    <3>7. orderRoom = HasRoom(orderFailures[k], orderFailWindow, orderFailMax)
      BY <2>3 DEF orderRoom
    <3> QED
      BY <1>0, <3>1, <3>2, <3>3, <3>4, <3>6, <3>7 DEF OrderLimited
  <2>4. CASE k # key
    <3>1. FailedOf(k)' = FailedOf(k) /\ OrderKept(k)' = OrderKept(k)
      BY <1>2, <1>3, <2>4 DEF FailedOf, OrderKept
    <3>2. Serving(k)' = Serving(k)
      BY <1>1, <1>6, <2>4 DEF Serving, At
    <3>3. orderFailures'[k] = orderFailures[k]
      BY <1>0, <1>1, <2>4
    <3>4. \A i \in FailedOf(k) : FailedAt'[i] = FailedAt[i]
      BY <1>4, <2>2
    <3>5. Limited(FailedAt', FailedOf(k), OrderKept(k), Serving(k), orderFailures[k], now,
                  orderFailWindow, orderFailMax)
      BY <1>0, <2>1, <3>4, LimitedSame, BoundsNat
    <3> QED
      BY <1>0, <3>1, <3>2, <3>3, <3>5 DEF OrderLimited
  <2> QED
    BY <2>3, <2>4
<1> QED
  BY <1>8, <1>9 DEF LimitsInv

LEMMA LimitsRequest ==
  ASSUME TypeInv, LimitsInv, NEW r \in Requests, RequestActions(r)
  PROVE  LimitsInv'
<1>0. TypeOK
  BY DEF TypeInv
<1>1. ASSUME UNCHANGED <<now, failed, ipFailures, orderFailures>>,
             \A q \in Requests \ {r} : req'[q] = req[q], req'[r].pc # "service"
      PROVE  LimitsInv'
  <2>1. \A q \in Requests : req'[q].pc = "service" => At(q, "service") /\ req'[q].key = req[q].key
    BY <1>1 DEF At
  <2> QED
    BY <1>1, <2>1, LimitsQuiet
<1>2. {"body", "f_insert"} \subseteq Pc
  BY DEF Pc
<1>3. ASSUME UNCHANGED <<now, failed, ipFailures, orderFailures>>,
             Finish(r) \/ Goto(r, "body") \/ Goto(r, "f_insert")
      PROVE  LimitsInv'
  <2>1. /\ \A q \in Requests \ {r} : req'[q] = req[q]
        /\ req'[r].pc \in {"idle", "body", "f_insert"}
    BY <1>0, <1>2, <1>3, FrameSteps
  <2> QED
    BY <1>1, <1>3, <2>1
<1>4. CASE \E k \in Keys \union {None} : Fetch(r, k)
  <2>1. PICK k \in Keys \union {None} : Fetch(r, k)
    BY <1>4
  <2>2. UNCHANGED <<now, failed, ipFailures, orderFailures>>
    BY <2>1 DEF Fetch, environment, limiter, failures
  <2>3. req' = [req EXCEPT ![r] = [pc |-> "waiting", key |-> k]] /\ req \in [Requests -> Frame]
    BY <1>0, <2>1 DEF Fetch, TypeOK
  <2> QED
    BY <1>1, <2>2, <2>3
<1>5. CASE FetchFails(r) \/ AnswerUnlimited(r) \/ Succeed(r)
  BY <1>3, <1>5 DEF FetchFails, AnswerUnlimited, Succeed, environment, limiter, failures
<1>6. CASE CheckRequest(r)
  BY <1>3, <1>6 DEF CheckRequest, environment, failures
<1>7. CASE FeedbackCount(r)
  BY <1>3, <1>7 DEF FeedbackCount, environment, limiter, failures
<1>8. CASE FeedbackInsert(r)
  BY <1>3, <1>8 DEF FeedbackInsert, environment, limiter, failures
<1> QED
  BY <1>4, <1>5, <1>6, <1>7, <1>8, LimitsAllowed, LimitsRecord DEF RequestActions

LEMMA LimitsStep == TypeInv /\ LimitsInv /\ [Next]_vars => LimitsInv'
<1> SUFFICES ASSUME TypeInv, LimitsInv, [Next]_vars PROVE LimitsInv'
  OBVIOUS
<1>1. CASE StartActions \/ UNCHANGED vars
  <2>1. UNCHANGED <<now, limiter, req>>
    BY <1>1 DEF StartActions, SeedSelect, SeedInsert, SeedFault, OtherSeeds, vars, environment,
                limiter, failures
  <2> QED
    BY <2>1, LimitsQuiet DEF limiter, failures, At
<1>2. CASE Evict
  <2>1. NothingFailed'
    BY <1>2, BoundsNat DEF Evict, Idle, TypeInv, TypeOK, NothingFailed
  <2>2. NothingFailed' => LimitsInv'
    BY LimitsNone, PTL
  <2> QED
    BY <2>1, <2>2
<1> QED
  BY <1>1, <1>2, LimitsRequest, LimitsTick, NextCases

\* In any window of time an isolate records the limit of failures at most, of its address and of
\* each key; those that it does not record had passed with one that it did, or with the one that
\* filled the window before, and are one for every other request in flight.
THEOREM FailuresBoundedTheorem == Spec => []FailuresBounded
<1>1. Init => LimitsInv
  BY LimitsNone DEF Init, Idle, NothingFailed
<1>2. TypeInv /\ LimitsInv /\ [Next]_vars => LimitsInv'
  BY LimitsStep
<1>3. TypeInv /\ LimitsInv => FailuresBounded
  <2> SUFFICES ASSUME TypeInv, LimitsInv, NEW t \in 0 .. LastTime
               PROVE  LET In(window) == {j \in DOMAIN failed : failed[j].at \in t .. t + window - 1} IN
                      /\ Cardinality(In(ipFailWindow)) <= ipFailMax + Others * (ipFailMax + 1)
                      /\ \A k \in Keys :
                           Cardinality({j \in In(orderFailWindow) : failed[j].key = k})
                             <= orderFailMax + Others * (orderFailMax + 1)
    BY DEF FailuresBounded
  <2>1. now \in Nat /\ t \in Nat
    BY BoundsNat DEF TypeInv, TypeOK
  <2>2. Cardinality(Within(FailedAt, DOMAIN failed, t, ipFailWindow))
          <= ipFailMax + Others * (ipFailMax + 1)
    BY <2>1, LimitedBound, BoundsNat DEF LimitsInv, IpLimited
  <2>3. \A k \in Keys : Cardinality(Within(FailedAt, FailedOf(k), t, orderFailWindow))
                          <= orderFailMax + Others * (orderFailMax + 1)
    BY <2>1, LimitedBound, BoundsNat DEF LimitsInv, OrderLimited
  <2> DEFINE In(window) == {j \in DOMAIN failed : failed[j].at \in t .. t + window - 1}
  <2>4. Within(FailedAt, DOMAIN failed, t, ipFailWindow) = In(ipFailWindow)
    BY DEF Within, FailedAt
  <2>5. \A k \in Keys : Within(FailedAt, FailedOf(k), t, orderFailWindow)
                          = {j \in In(orderFailWindow) : failed[j].key = k}
    BY DEF Within, FailedAt, FailedOf
  <2> QED
    BY <2>2, <2>3, <2>4, <2>5
<1> QED
  BY <1>1, <1>2, <1>3, TypeInvariant, PTL DEF Spec

-----------------------------------------------------------------------------
(***************************************************************************)
(* Part 4: the limit of feedback.                                          *)
(***************************************************************************)

Given(t) == {j \in DOMAIN feedback : feedback[j] >= t}
GivenIn(t) == {j \in DOMAIN feedback : feedback[j] \in t .. t + Day}
Inserting == {r \in Requests : At(r, "f_insert")}

\* What is there since any moment of the last day, with what is still to be inserted, and what
\* any day has got.
OpenDaysInv ==
    \A t \in 0 .. now : now <= t + Day =>
        Cardinality(Given(t)) + Cardinality(Inserting) <= feedbackMax + Others
DaysInv == \A t \in Nat : Cardinality(GivenIn(t)) <= feedbackMax + Others
FeedbackInv == OpenDaysInv /\ DaysInv

LEMMA FeedbackSets ==
  ASSUME TypeOK
  PROVE  /\ now \in Nat /\ Len(feedback) \in Nat /\ DOMAIN feedback = 1 .. Len(feedback)
         /\ \A j \in DOMAIN feedback : feedback[j] \in 0 .. now
         /\ \A t : /\ IsFiniteSet(Given(t)) /\ Cardinality(Given(t)) \in Nat
                   /\ IsFiniteSet(GivenIn(t)) /\ Cardinality(GivenIn(t)) \in Nat
                   /\ Cardinality(GivenIn(t)) <= Cardinality(Given(t))
         /\ IsFiniteSet(Inserting) /\ Cardinality(Inserting) \in Nat
         /\ Cardinality(Inserting) <= Others + 1
         /\ feedbackMax + Others \in Nat
<1>1. /\ now \in Nat /\ feedback \in Seq(0 .. now)
  BY BoundsNat DEF TypeOK
<1>2. /\ Len(feedback) \in Nat /\ DOMAIN feedback = 1 .. Len(feedback)
      /\ \A j \in DOMAIN feedback : feedback[j] \in 0 .. now
  BY <1>1
<1>3. IsFiniteSet(DOMAIN feedback)
  BY <1>2, FS_Interval
<1>4. ASSUME NEW t
      PROVE  /\ IsFiniteSet(Given(t)) /\ Cardinality(Given(t)) \in Nat
             /\ IsFiniteSet(GivenIn(t)) /\ Cardinality(GivenIn(t)) \in Nat
             /\ Cardinality(GivenIn(t)) <= Cardinality(Given(t))
  <2>1. Given(t) \in SUBSET DOMAIN feedback
    BY DEF Given
  <2>2. GivenIn(t) \in SUBSET Given(t)
    <3>1. \A j \in DOMAIN feedback : feedback[j] \in t .. t + Day => feedback[j] >= t
      OBVIOUS
    <3> QED
      BY <3>1 DEF Given, GivenIn
  <2> QED
    BY <1>3, <2>1, <2>2, SetsFinite
<1>5. Inserting \in SUBSET Requests
  BY DEF Inserting
<1>6. IsFiniteSet(Inserting) /\ Cardinality(Inserting) \in Nat /\ Cardinality(Inserting) <= Others + 1
  BY <1>5, SetsFinite, RequestsAssumption, OthersNat
<1> QED
  BY <1>1, <1>2, <1>4, <1>6, OthersNat, BoundsNat

\* Nothing is inserted, and no request comes to its insert.
LEMMA FeedbackQuiet ==
  ASSUME TypeOK, FeedbackInv, UNCHANGED <<now, feedback>>, Inserting' \subseteq Inserting
  PROVE  FeedbackInv'
<1>1. Cardinality(Inserting') \in Nat /\ Cardinality(Inserting') <= Cardinality(Inserting)
  BY FeedbackSets, SetsFinite
<1>2. \A t : Given(t)' = Given(t) /\ GivenIn(t)' = GivenIn(t)
  BY DEF Given, GivenIn
<1>3. OpenDaysInv'
  <2> SUFFICES ASSUME NEW t \in 0 .. now, now <= t + Day
               PROVE  Cardinality(Given(t)) + Cardinality(Inserting') <= feedbackMax + Others
    BY <1>2 DEF OpenDaysInv
  <2>1. Cardinality(Given(t)) + Cardinality(Inserting) <= feedbackMax + Others
    BY DEF FeedbackInv, OpenDaysInv
  <2> QED
    BY <1>1, <2>1, FeedbackSets
<1>4. DaysInv'
  BY <1>2 DEF FeedbackInv, DaysInv
<1> QED
  BY <1>3, <1>4 DEF FeedbackInv

\* A request has counted less than the limit: all requests may be about to insert.
LEMMA FeedbackPassed ==
  ASSUME TypeOK, FeedbackInv, UNCHANGED <<now, feedback>>, TypeOK',
         ~(feedbackCountForMachine >= feedbackMax)
  PROVE  FeedbackInv'
<1>1. \A t : Given(t)' = Given(t) /\ GivenIn(t)' = GivenIn(t)
  BY DEF Given, GivenIn
<1>2. Cardinality(Inserting') \in Nat /\ Cardinality(Inserting') <= Others + 1
  <2>1. Inserting' \in SUBSET Requests
    BY DEF Inserting
  <2> QED
    BY <2>1, SetsFinite, RequestsAssumption, OthersNat
<1>3. OpenDaysInv'
  <2> SUFFICES ASSUME NEW t \in 0 .. now, now <= t + Day
               PROVE  Cardinality(Given(t)) + Cardinality(Inserting') <= feedbackMax + Others
    BY <1>1 DEF OpenDaysInv
  <2> DEFINE Counted == {j \in DOMAIN feedback : feedback[j] + Day >= now}
  <2>1. Given(t) \in SUBSET Counted /\ IsFiniteSet(Counted)
    <3>1. \A j \in DOMAIN feedback : feedback[j] \in Nat
      BY FeedbackSets
    <3>2. Given(t) \in SUBSET Counted
      BY <3>1, FeedbackSets, BoundsNat DEF Given
    <3>3. IsFiniteSet(DOMAIN feedback) /\ Counted \in SUBSET DOMAIN feedback
      BY FeedbackSets, FS_Interval
    <3> QED
      BY <3>2, <3>3, SetsFinite
  <2>2. Cardinality(Given(t)) <= Cardinality(Counted) /\ Cardinality(Counted) \in Nat
    BY <2>1, SetsFinite, FS_CardinalityType
  <2>3. ~(Cardinality(Counted) >= feedbackMax)
    BY DEF feedbackCountForMachine
  <2>4. Others \in Nat /\ feedbackMax \in Nat /\ Cardinality(Given(t)) \in Nat
    BY FeedbackSets, OthersNat, BoundsNat
  <2> HIDE DEF Counted
  <2> QED
    BY <1>2, <2>2, <2>3, <2>4
<1>4. DaysInv'
  BY <1>1 DEF FeedbackInv, DaysInv
<1> QED
  BY <1>3, <1>4 DEF FeedbackInv

\* One of those about to insert does.
LEMMA FeedbackInserted ==
  ASSUME TypeOK, FeedbackInv, TypeOK', NEW r \in Requests, FeedbackInsert(r)
  PROVE  FeedbackInv'
<1> DEFINE n == Len(feedback) + 1
<1>1. /\ now' = now /\ At(r, "f_insert") /\ feedback' = Append(feedback, now) /\ Finish(r)
  BY DEF FeedbackInsert, environment
<1>2. /\ n \notin DOMAIN feedback /\ DOMAIN feedback' = DOMAIN feedback \union {n}
      /\ feedback'[n] = now /\ \A j \in DOMAIN feedback : feedback'[j] = feedback[j]
  <2>1. feedback \in Seq(0 .. now)
    BY DEF TypeOK
  <2>2. /\ Len(feedback) \in Nat /\ DOMAIN feedback = 1 .. Len(feedback)
        /\ DOMAIN feedback' = 1 .. Len(feedback) + 1
        /\ feedback'[n] = now /\ \A j \in 1 .. Len(feedback) : feedback'[j] = feedback[j]
    BY <1>1, <2>1
  <2> QED
    BY <2>2
<1> HIDE DEF n
<1>3. Cardinality(Inserting') = Cardinality(Inserting) - 1 /\ Cardinality(Inserting) \in Nat
  <2>1. req'[r].pc = "idle" /\ \A q \in Requests \ {r} : req'[q] = req[q]
    BY <1>1, FrameSteps
  <2>2. Inserting' = Inserting \ {r} /\ r \in Inserting
    BY <1>1, <2>1 DEF Inserting, At
  <2> QED
    BY <2>2, FeedbackSets, FS_RemoveElement
<1>4. \A t \in 0 .. now : Cardinality(Given(t)') = Cardinality(Given(t)) + 1
  <2> SUFFICES ASSUME NEW t \in 0 .. now PROVE Cardinality(Given(t)') = Cardinality(Given(t)) + 1
    OBVIOUS
  <2>1. Given(t)' = Given(t) \union {n} /\ n \notin Given(t)
    BY <1>2, FeedbackSets DEF Given
  <2>2. Cardinality(Given(t) \union {n}) = Cardinality(Given(t)) + 1
    BY <2>1, FeedbackSets, FS_AddElement
  <2> QED
    BY <2>1, <2>2
<1>5. ASSUME NEW t \in 0 .. now, now <= t + Day
      PROVE  Cardinality(Given(t)') + Cardinality(Inserting') <= feedbackMax + Others
  <2>1. Cardinality(Given(t)) + Cardinality(Inserting) <= feedbackMax + Others
    BY <1>5 DEF FeedbackInv, OpenDaysInv
  <2>2. Cardinality(Given(t)) \in Nat /\ Cardinality(Given(t)') = Cardinality(Given(t)) + 1
    BY <1>4, FeedbackSets
  <2> QED
    BY <1>3, <2>1, <2>2
<1>6. OpenDaysInv'
  BY <1>1, <1>5 DEF OpenDaysInv
<1>7. ASSUME NEW t \in Nat PROVE Cardinality(GivenIn(t)') <= feedbackMax + Others
  <2>1. CASE t <= now /\ now <= t + Day
    <3>1. Cardinality(Given(t)') + Cardinality(Inserting') <= feedbackMax + Others
      BY <1>5, <2>1, FeedbackSets
    <3>2. GivenIn(t)' \in SUBSET Given(t)' /\ IsFiniteSet(Given(t)')
      <4>1. \A j \in DOMAIN feedback' : feedback'[j] \in t .. t + Day => feedback'[j] >= t
        OBVIOUS
      <4>2. Given(t)' \in SUBSET (DOMAIN feedback \union {n}) /\ IsFiniteSet(DOMAIN feedback)
        BY <1>2, FeedbackSets, FS_Interval DEF Given
      <4>3. IsFiniteSet(DOMAIN feedback \union {n})
        BY <4>2, FS_AddElement
      <4> QED
        BY <4>1, <4>2, <4>3, SetsFinite DEF Given, GivenIn
    <3>3. /\ Cardinality(GivenIn(t)') <= Cardinality(Given(t)')
          /\ Cardinality(GivenIn(t)') \in Nat /\ Cardinality(Given(t)') \in Nat
      BY <3>2, SetsFinite, FS_CardinalityType
    <3>4. Cardinality(Inserting') \in Nat
      <4>1. Inserting' \in SUBSET Requests
        BY DEF Inserting
      <4> QED
        BY <4>1, SetsFinite, RequestsAssumption
    <3> QED
      BY <3>1, <3>3, <3>4, FeedbackSets
  <2>2. CASE ~(t <= now /\ now <= t + Day)
    <3>1. GivenIn(t)' = GivenIn(t)
      BY <1>2, <2>2, FeedbackSets, BoundsNat DEF GivenIn
    <3> QED
      BY <3>1 DEF FeedbackInv, DaysInv
  <2> QED
    BY <2>1, <2>2
<1> QED
  BY <1>6, <1>7 DEF FeedbackInv, DaysInv

LEMMA FeedbackTick ==
  ASSUME TypeOK, FeedbackInv, Tick
  PROVE  FeedbackInv'
<1>1. now' = now + 1 /\ UNCHANGED <<feedback, req>> /\ now \in Nat
  BY FeedbackSets DEF Tick, database
<1>2. Inserting' = Inserting /\ \A t : Given(t)' = Given(t) /\ GivenIn(t)' = GivenIn(t)
  BY <1>1 DEF Inserting, Given, GivenIn, At
<1>3. ASSUME NEW t \in 0 .. now + 1, now + 1 <= t + Day
      PROVE  Cardinality(Given(t)) + Cardinality(Inserting) <= feedbackMax + Others
  <2>1. CASE t \in 0 .. now
    BY <1>1, <1>3, <2>1, BoundsNat DEF FeedbackInv, OpenDaysInv
  <2>2. CASE t = now + 1
    <3>1. Given(t) = {}
      BY <2>2, FeedbackSets DEF Given
    <3>2. Cardinality(Given(now)) + Cardinality(Inserting) <= feedbackMax + Others
      BY <1>1, BoundsNat DEF FeedbackInv, OpenDaysInv
    <3>3. Cardinality(Given(t)) = 0 /\ Cardinality(Given(now)) \in Nat
      BY <3>1, FS_EmptySet, FeedbackSets
    <3> QED
      BY <3>2, <3>3, FeedbackSets
  <2> QED
    BY <1>1, <2>1, <2>2
<1> QED
  BY <1>1, <1>2, <1>3 DEF FeedbackInv, OpenDaysInv, DaysInv

LEMMA FeedbackStep == TypeInv /\ FeedbackInv /\ [Next]_vars => FeedbackInv'
<1> SUFFICES ASSUME TypeInv, FeedbackInv, [Next]_vars PROVE FeedbackInv'
  OBVIOUS
<1>0. TypeOK /\ TypeOK'
  BY TypeStep DEF TypeInv
<1>1. CASE StartActions \/ UNCHANGED vars
  <2>1. UNCHANGED <<now, feedback, req>>
    BY <1>1 DEF StartActions, SeedSelect, SeedInsert, SeedFault, OtherSeeds, vars, environment,
                database
  <2>2. Inserting' = Inserting
    BY <2>1 DEF Inserting, At
  <2> QED
    BY <1>0, <2>1, <2>2, FeedbackQuiet
<1>2. CASE Evict
  <2>1. UNCHANGED <<now, feedback>> /\ Inserting' = {}
    BY <1>2 DEF Evict, database, Inserting, At, Idle
  <2> QED
    BY <1>0, <2>1, FeedbackQuiet
<1>3. ASSUME NEW r \in Requests, RequestActions(r) PROVE FeedbackInv'
  <2>1. ASSUME UNCHANGED <<now, feedback>>, \A q \in Requests \ {r} : req'[q] = req[q],
               req'[r].pc # "f_insert"
        PROVE  FeedbackInv'
    <3>1. Inserting' \subseteq Inserting
      BY <2>1 DEF Inserting, At
    <3> QED
      BY <1>0, <2>1, <3>1, FeedbackQuiet
  <2>2. {"body", "service"} \subseteq Pc
    BY DEF Pc
  <2>3. ASSUME UNCHANGED <<now, feedback>>, Finish(r) \/ Goto(r, "body") \/ Goto(r, "service")
        PROVE  FeedbackInv'
    <3>1. /\ \A q \in Requests \ {r} : req'[q] = req[q]
          /\ req'[r].pc \in {"idle", "body", "service"}
      BY <1>0, <2>2, <2>3, FrameSteps
    <3> QED
      BY <2>1, <2>3, <3>1
  <2>4. CASE \E k \in Keys \union {None} : Fetch(r, k)
    <3>1. PICK k \in Keys \union {None} : Fetch(r, k)
      BY <2>4
    <3>2. UNCHANGED <<now, feedback>>
      BY <3>1 DEF Fetch, environment, database
    <3>3. req' = [req EXCEPT ![r] = [pc |-> "waiting", key |-> k]] /\ req \in [Requests -> Frame]
      BY <1>0, <3>1 DEF Fetch, TypeOK
    <3> QED
      BY <2>1, <3>2, <3>3
  <2>5. CASE FetchFails(r) \/ AnswerUnlimited(r) \/ Succeed(r)
    BY <2>3, <2>5 DEF FetchFails, AnswerUnlimited, Succeed, environment, database
  <2>6. CASE CheckRequest(r)
    BY <2>3, <2>6 DEF CheckRequest, environment, database
  <2>7. CASE FailuresAllowed(r) \/ RecordFailure(r)
    BY <2>3, <2>7 DEF FailuresAllowed, RecordFailure, environment, database
  <2>8. CASE FeedbackCount(r)
    <3>1. /\ UNCHANGED <<now, feedback>>
          /\ Finish(r) \/ ~(feedbackCountForMachine >= feedbackMax)
      BY <2>8 DEF FeedbackCount, environment, database
    <3> QED
      BY <1>0, <2>3, <3>1, FeedbackPassed DEF FeedbackInv
  <2>9. CASE FeedbackInsert(r)
    BY <1>0, <2>9, FeedbackInserted
  <2> QED
    BY <1>3, <2>4, <2>5, <2>6, <2>7, <2>8, <2>9 DEF RequestActions
<1> QED
  BY <1>0, <1>1, <1>2, <1>3, FeedbackTick, NextCases

\* The feedback that a machine has given within any day exceeds the limit by the other requests
\* in flight, at most: they counted before the rows of one another were there.
THEOREM FeedbackBoundedTheorem == Spec => []FeedbackBounded
<1>1. Init => FeedbackInv
  <2> SUFFICES ASSUME Init PROVE FeedbackInv
    OBVIOUS
  <2>1. Inserting = {} /\ \A t : Given(t) = {} /\ GivenIn(t) = {}
    BY DEF Init, Inserting, Given, GivenIn, At, Idle
  <2> QED
    BY <2>1, FS_EmptySet, OthersNat, BoundsNat DEF FeedbackInv, OpenDaysInv, DaysInv
<1>2. TypeInv /\ FeedbackInv /\ [Next]_vars => FeedbackInv'
  BY FeedbackStep
<1>3. FeedbackInv => FeedbackBounded
  BY BoundsNat DEF FeedbackInv, DaysInv, GivenIn, FeedbackBounded
<1> QED
  BY <1>1, <1>2, <1>3, TypeInvariant, PTL DEF Spec
=============================================================================
