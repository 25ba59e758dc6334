--------------------------- MODULE SchedulesProofs ---------------------------
(***************************************************************************)
(* Proofs about Schedules, for any schedules, replicas and fences, any     *)
(* calendars and policies up to any horizon, and any number of changes     *)
(* and replays.  The calendar comes first: what the loop of catch_up       *)
(* computes, by taking a least counterexample.                             *)
(***************************************************************************)
EXTENDS Schedules, TLAPS, FiniteSetTheorems, WellFoundedInduction

\* A set of naturals has a least member.
LEMMA LeastNatural ==
    ASSUME NEW S \in SUBSET Nat, S # {}
    PROVE  \E x \in S : \A y \in S : x <= y
  <1>1. PICK x \in S : \A y \in S : ~(<<y, x>> \in OpToRel(<, Nat))
    BY NatLessThanWellFounded, WFMin, Zenon
  <1>2. ASSUME NEW y \in S
        PROVE  x <= y
    <2>1. ~(<<y, x>> \in OpToRel(<, Nat))
      BY <1>1, Zenon
    <2>2. ~(y < x)
      BY <2>1 DEF OpToRel
    <2> QED
      BY <2>2
  <1> QED
    BY <1>2

LEMMA MinIsLeast ==
    ASSUME NEW S \in SUBSET Nat, S # {}
    PROVE  Min(S) \in S /\ \A y \in S : Min(S) <= y
  BY LeastNatural, Zenon DEF Min

LEMMA MaxIsGreatest ==
    ASSUME NEW b \in Nat, NEW S \in SUBSET (0..b), S # {}
    PROVE  Max(S) \in S /\ \A y \in S : Max(S) >= y
  <1> DEFINE T == {b - x : x \in S}
  <1>1. PICK n \in T : \A m \in T : n <= m
    <2>1. \A x \in S : b - x \in Nat
      OBVIOUS
    <2>2. T \in SUBSET Nat
      BY <2>1
    <2>3. PICK x \in S : TRUE
      BY Zenon
    <2>4. b - x \in T
      OBVIOUS
    <2> QED
      BY <2>2, <2>4, LeastNatural, Zenon
  <1>2. PICK x \in S : n = b - x
    OBVIOUS
  <1>3. ASSUME NEW y \in S
        PROVE  x >= y
    <2>1. b - y \in T
      OBVIOUS
    <2> QED
      BY <1>1, <1>2, <2>1
  <1> QED
    BY <1>3 DEF Max

-----------------------------------------------------------------------------
(* The calendar.                                                           *)

Instant == 1..(Horizon + 1)

\* The cron library's next occurrence is the first after, or beyond the horizon.
LEMMA NextIsFirstAfter ==
    ASSUME NEW d \in Definition, NEW a \in Int
    PROVE  LET n == NextOccurrence(d, a) IN
           /\ n \in d.instants \cup {Horizon + 1} /\ n \in Instant
           /\ a <= Horizon => n > a
           /\ a \in Instant => n >= a
           /\ \A o \in d.instants : o > a => n <= o
  <1> DEFINE S == {o \in d.instants : o > a} \cup {Horizon + 1}
  <1>1. d.instants \subseteq 1..Horizon /\ Horizon \in Nat
    BY SchedulesAssumption
  <1>2. S \in SUBSET Nat /\ S # {}
    BY <1>1
  <1>3. NextOccurrence(d, a) \in S /\ \A y \in S : NextOccurrence(d, a) <= y
    BY <1>2, MinIsLeast DEF NextOccurrence
  <1> QED
    BY <1>1, <1>3 DEF Instant

\* The first rounds of the loop, as a sequence.
Loop(d, c, n, g) ==
    /\ g \in [0..n -> Instant] /\ g[0] = c
    /\ \A m \in 1..n : g[m] = NextOccurrence(d, g[m - 1])

LEMMA LoopRuns ==
    ASSUME NEW d \in Definition, NEW c \in Instant, NEW n \in Nat
    PROVE  \E g : Loop(d, c, n, g)
  <1> DEFINE T == {k \in Nat : ~\E g : Loop(d, c, k, g)}
  <1> SUFFICES ASSUME T # {}
               PROVE  FALSE
    OBVIOUS
  <1>0. Horizon \in Nat
    BY SchedulesAssumption
  <1>1. PICK k \in T : \A j \in T : k <= j
    <2>1. T \in SUBSET Nat
      OBVIOUS
    <2> QED
      BY <2>1, LeastNatural, Zenon
  <1>2. k # 0
    <2>1. Loop(d, c, 0, [i \in 0..0 |-> c])
      BY DEF Loop
    <2> QED
      BY <2>1
  <1>3. PICK g : Loop(d, c, k - 1, g)
    <2>1. k - 1 \in Nat /\ k - 1 \notin T
      BY <1>1, <1>2
    <2> QED
      BY <2>1
  <1> DEFINE h == [i \in 0..k |-> IF i = k THEN NextOccurrence(d, g[k - 1]) ELSE g[i]]
  <1>4. g[k - 1] \in Instant /\ NextOccurrence(d, g[k - 1]) \in Instant
    <2>1. g[k - 1] \in Instant
      BY <1>2, <1>3 DEF Loop
    <2> QED
      BY <1>0, <2>1, NextIsFirstAfter DEF Instant
  <1>5. h \in [0..k -> Instant] /\ h[0] = c
    BY <1>2, <1>3, <1>4 DEF Loop
  <1>6. ASSUME NEW m \in 1..k
        PROVE  h[m] = NextOccurrence(d, h[m - 1])
    <2>1. h[m - 1] = g[m - 1]
      OBVIOUS
    <2>2. CASE m = k
      BY <2>1, <2>2
    <2>3. CASE m # k
      <3>1. m \in 1..(k - 1) /\ h[m] = g[m]
        BY <2>3
      <3> QED
        BY <1>3, <2>1, <3>1 DEF Loop
    <2> QED
      BY <2>2, <2>3
  <1>7. Loop(d, c, k, h)
    BY <1>5, <1>6, Zenon DEF Loop
  <1> QED
    BY <1>7

LEMMA LoopIsUnique ==
    ASSUME NEW d \in Definition, NEW c, NEW n \in Nat, NEW k \in 0..n,
           NEW g, Loop(d, c, n, g), NEW h, Loop(d, c, k, h)
    PROVE  \A i \in 0..k : g[i] = h[i]
  <1> DEFINE T == {i \in 0..k : g[i] # h[i]}
  <1> SUFFICES ASSUME T # {}
               PROVE  FALSE
    OBVIOUS
  <1>1. PICK i \in T : \A j \in T : i <= j
    <2>1. T \in SUBSET Nat
      OBVIOUS
    <2> QED
      BY <2>1, LeastNatural, Zenon
  <1>2. i # 0
    BY <1>1 DEF Loop
  <1>3. g[i - 1] = h[i - 1]
    <2>1. i - 1 \in 0..k /\ i - 1 \notin T
      BY <1>1, <1>2
    <2> QED
      BY <2>1
  <1>4. g[i] = NextOccurrence(d, g[i - 1]) /\ h[i] = NextOccurrence(d, h[i - 1])
    BY <1>2 DEF Loop
  <1> QED
    BY <1>1, <1>3, <1>4

\* The recursive definition of the cursor after each round is sound.
LEMMA CursorStep ==
    ASSUME NEW d \in Definition, NEW c \in Instant
    PROVE  CursorAfter(d, c) =
               [n \in Nat |-> IF n = 0 THEN c ELSE NextOccurrence(d, CursorAfter(d, c)[n - 1])]
  <1> DEFINE L(n) == CHOOSE g : Loop(d, c, n, g)
             f == [n \in Nat |-> L(n)[n]]
  <1>1. ASSUME NEW n \in Nat
        PROVE  Loop(d, c, n, L(n))
    BY LoopRuns
  <1> HIDE DEF L
  <1>2. ASSUME NEW n \in Nat
        PROVE  f[n] = IF n = 0 THEN c ELSE NextOccurrence(d, f[n - 1])
    <2>1. CASE n = 0
      BY <1>1, <2>1 DEF Loop
    <2>2. CASE n # 0
      <3>1. n - 1 \in Nat /\ n - 1 \in 0..n /\ n - 1 \in 0..(n - 1) /\ n \in 1..n
        BY <2>2
      <3>2. Loop(d, c, n, L(n)) /\ Loop(d, c, n - 1, L(n - 1))
        BY <1>1, <3>1
      <3>3. L(n)[n - 1] = L(n - 1)[n - 1]
        BY <3>1, <3>2, LoopIsUnique
      <3>4. L(n)[n] = NextOccurrence(d, L(n)[n - 1])
        BY <3>1, <3>2 DEF Loop
      <3> QED
        BY <2>2, <3>1, <3>3, <3>4
    <2> QED
      BY <2>1, <2>2
  <1>3. f = [n \in Nat |-> IF n = 0 THEN c ELSE NextOccurrence(d, f[n - 1])]
    BY <1>2
  <1> HIDE DEF f
  <1> QED
    BY <1>3 DEF CursorAfter

\* The cursor after each round: it is an instant of the calendar or past the horizon, it
\* moves on until it is past the horizon, and no occurrence lies between two rounds.
LEMMA CursorMovesOn ==
    ASSUME NEW d \in Definition, NEW c \in Instant
    PROVE  LET R == CursorAfter(d, c) IN
           /\ R[0] = c
           /\ \A n \in Nat : R[n] \in Instant
           /\ \A n \in Nat : /\ R[n + 1] \in d.instants \cup {Horizon + 1}
                             /\ R[n] <= Horizon => R[n] < R[n + 1]
                             /\ R[n] <= R[n + 1]
                             /\ \A o \in d.instants : R[n] < o => R[n + 1] <= o
  <1> DEFINE R == CursorAfter(d, c)
             T == {n \in Nat : R[n] \notin Instant}
  <1>0. Horizon \in Nat /\ Instant \subseteq Nat
    BY SchedulesAssumption DEF Instant
  <1>1. \A n \in Nat : R[n] = IF n = 0 THEN c ELSE NextOccurrence(d, R[n - 1])
    BY CursorStep
  <1> HIDE DEF R
  <1>2. T = {}
    <2> SUFFICES ASSUME T # {}
                 PROVE  FALSE
      OBVIOUS
    <2>1. PICK n \in T : \A m \in T : n <= m
      <3>1. T \in SUBSET Nat
        OBVIOUS
      <3> QED
        BY <3>1, LeastNatural, Zenon
    <2>2. n # 0
      BY <1>1
    <2>3. n - 1 \in Nat /\ R[n - 1] \in Instant
      BY <2>1, <2>2
    <2>4. NextOccurrence(d, R[n - 1]) \in Instant
      <3>1. R[n - 1] \in Int
        BY <1>0, <2>3 DEF Instant
      <3> QED
        BY <3>1, NextIsFirstAfter
    <2> QED
      BY <1>1, <2>2, <2>4
  <1>3. \A n \in Nat : R[n] \in Instant
    BY <1>2
  <1>4. ASSUME NEW n \in Nat
        PROVE  /\ R[n + 1] \in d.instants \cup {Horizon + 1}
               /\ R[n] <= Horizon => R[n] < R[n + 1]
               /\ R[n] <= R[n + 1]
               /\ \A o \in d.instants : R[n] < o => R[n + 1] <= o
    <2>1. R[n] \in Instant /\ R[n] \in Int /\ R[n + 1] \in Int
      <3>1. R[n] \in Instant /\ R[n + 1] \in Instant
        BY <1>3
      <3> QED
        BY <1>0, <3>1 DEF Instant
    <2>2. R[n + 1] = NextOccurrence(d, R[n])
      BY <1>1
    <2>3. d.instants \subseteq Int
      BY SchedulesAssumption
    <2> QED
      BY <2>1, <2>2, <2>3, NextIsFirstAfter
  <1> QED
    BY <1>1, <1>3, <1>4, Zenon DEF R

\* The rounds pass every occurrence from the first cursor on, and none twice.
LEMMA RoundsPassAll ==
    ASSUME NEW d \in Definition, NEW c \in d.instants, NEW n \in Nat
    PROVE  LET R == CursorAfter(d, c) IN
           /\ \A m \in 0..n : c <= R[m] /\ R[m] <= R[n]
           /\ \A m \in 0..(n - 1) : R[m] <= Horizon => R[m] < R[n] /\ R[m] \in d.instants
           /\ \A o \in d.instants : c <= o /\ o < R[n] => \E m \in 0..(n - 1) : o = R[m]
  <1> DEFINE R == CursorAfter(d, c)
             P(k) == /\ \A m \in 0..k : c <= R[m] /\ R[m] <= R[k]
                     /\ \A m \in 0..(k - 1) : R[m] <= Horizon => R[m] < R[k] /\ R[m] \in d.instants
                     /\ \A o \in d.instants : c <= o /\ o < R[k] => \E m \in 0..(k - 1) : o = R[m]
             T == {k \in Nat : ~P(k)}
  <1>0. Horizon \in Nat /\ c \in Instant /\ Instant \subseteq Nat /\ d.instants \subseteq Instant
    BY SchedulesAssumption DEF Instant
  <1>1. R[0] = c /\ \A k \in Nat : R[k] \in Nat /\ R[k] \in Instant
    BY <1>0, CursorMovesOn, Zenon
  <1>2. \A k \in Nat : /\ R[k + 1] \in d.instants \cup {Horizon + 1}
                       /\ R[k] <= Horizon => R[k] < R[k + 1]
                       /\ R[k] <= R[k + 1]
                       /\ \A o \in d.instants : R[k] < o => R[k + 1] <= o
    BY <1>0, CursorMovesOn, Zenon
  <1> HIDE DEF R
  <1>3. SUFFICES ASSUME T # {}
                 PROVE  FALSE
    <2>1. P(n)
      BY <1>3, Zenon
    <2> QED
      BY <2>1, Zenon DEF R
  <1>4. PICK k \in T : \A j \in T : k <= j
    <2>1. T \in SUBSET Nat
      OBVIOUS
    <2> HIDE DEF T
    <2> QED
      BY <2>1, <1>3, LeastNatural
  <1>5. P(0)
    <2>1. c \in Nat /\ \A o \in d.instants : o \in Nat
      BY <1>0 DEF Instant
    <2> QED
      BY <1>1, <2>1
  <1>6. k # 0
    BY <1>5, Zenon
  <1> DEFINE j == k - 1
  <1>7. j \in Nat /\ k = j + 1
    BY <1>6
  <1>8. P(j)
    BY <1>4, <1>7
  <1> HIDE DEF j
  <1>9. R[j] \in d.instants \cup {Horizon + 1}
    <2>1. CASE j = 0
      BY <1>1, <2>1
    <2>2. CASE j # 0
      <3>1. j - 1 \in Nat /\ (j - 1) + 1 = j
        BY <1>7, <2>2
      <3> QED
        BY <1>2, <3>1, Zenon
    <2> QED
      BY <2>1, <2>2
  <1>10. \A m \in 0..k : c <= R[m] /\ R[m] <= R[k]
    BY <1>0, <1>1, <1>2, <1>7, <1>8
  <1>11. \A m \in 0..(k - 1) : R[m] <= Horizon => R[m] < R[k] /\ R[m] \in d.instants
    <2>1. R[j] <= Horizon => R[j] < R[k] /\ R[j] \in d.instants
      BY <1>0, <1>2, <1>7, <1>9
    <2> SUFFICES ASSUME NEW m \in 0..(k - 1), R[m] <= Horizon
                 PROVE  R[m] < R[k] /\ R[m] \in d.instants
      OBVIOUS
    <2>2. CASE m = j
      BY <2>1, <2>2
    <2>3. CASE m # j
      <3>1. m \in 0..(j - 1)
        BY <1>7, <2>3
      <3>2. R[m] < R[j] /\ R[m] \in d.instants
        BY <1>8, <3>1, Zenon
      <3>3. R[j] <= R[k] /\ R[m] \in Nat /\ R[j] \in Nat /\ R[k] \in Nat
        BY <1>1, <1>2, <1>7
      <3> QED
        BY <3>2, <3>3
    <2> QED
      BY <2>2, <2>3
  <1>12. ASSUME NEW o \in d.instants, c <= o, o < R[k]
         PROVE  \E m \in 0..(k - 1) : o = R[m]
    <2>1. o <= R[j] /\ o \in Nat /\ R[j] \in Nat
      <3>1. o \in Nat /\ R[j] \in Nat /\ R[k] \in Nat
        BY <1>0, <1>1, <1>7 DEF Instant
      <3>2. R[j] < o => R[k] <= o
        BY <1>2, <1>7
      <3> QED
        BY <1>12, <3>1, <3>2
    <2>2. CASE o = R[j]
      BY <1>7, <2>2
    <2>3. CASE o < R[j]
      BY <1>7, <1>8, <1>12, <2>3
    <2> QED
      BY <2>1, <2>2, <2>3
  <1> QED
    BY <1>10, <1>11, <1>12, Zenon

\* The loop of catch_up ends: at the batch bound, or with a cursor that is not yet due.
LEMMA LoopEnds ==
    ASSUME NEW d \in Definition, NEW c \in d.instants, NEW t \in 0..Horizon
    PROVE  LET R == CursorAfter(d, c)
               K == Rounds(d, c, t) IN
           /\ K \in 0..d.maxRuns
           /\ \A m \in 0..(K - 1) : R[m] <= t
           /\ K = d.maxRuns \/ R[K] > t
  <1> DEFINE R == CursorAfter(d, c)
             T == {k \in Nat : k = d.maxRuns \/ R[k] > t}
  <1>1. d.maxRuns \in Nat /\ T \in SUBSET Nat /\ d.maxRuns \in T
    BY SchedulesAssumption
  <1>2. c \in Instant /\ \A k \in Nat : R[k] \in Nat
    <2>1. c \in Instant
      BY SchedulesAssumption DEF Instant
    <2> QED
      BY <2>1, CursorMovesOn, SchedulesAssumption DEF Instant
  <1>3. PICK k \in T : \A j \in T : k <= j
    BY <1>1, LeastNatural, Zenon
  <1>4. k \in 0..d.maxRuns
    BY <1>1, <1>3
  <1>5. ASSUME NEW m \in 0..(k - 1)
        PROVE  R[m] <= t
    <2>1. m \in Nat /\ m \notin T
      BY <1>3, <1>4, <1>5
    <2> QED
      BY <1>2, <2>1
  <1>6. k = d.maxRuns \/ R[k] > t
    BY <1>3
  <1>7. \E n \in 0..d.maxRuns : /\ \A m \in 0..(n - 1) : R[m] <= t
                                /\ n = d.maxRuns \/ R[n] > t
    BY <1>4, <1>5, <1>6
  <1> QED
    BY <1>7, Zenon DEF Rounds

\* What evaluate_occurrences plans under any policy, and where it puts the cursor: only
\* due occurrences of the calendar, all behind the new cursor.
LEMMA PlanIsSound ==
    ASSUME NEW d \in Definition, NEW c \in d.instants, NEW t \in 0..Horizon, c <= t
    PROVE  LET n == PlannedNext(d, c, t) IN
           /\ n \in d.instants \cup {Horizon + 1} /\ c < n
           /\ \A o \in Occurrences(d, c, t) : o \in d.instants /\ c <= o /\ o <= t /\ o < n
  <1>0. Horizon \in Nat /\ d.instants \subseteq Nat /\ c \in Nat /\ t \in Int
    BY SchedulesAssumption
  <1>1. CASE d.policy # "catch_up"
    <2>1. PlannedNext(d, c, t) = NextOccurrence(d, t) /\ Occurrences(d, c, t) \subseteq {c}
      BY <1>1, SchedulesAssumption DEF PlannedNext, Occurrences
    <2>2. /\ NextOccurrence(d, t) \in d.instants \cup {Horizon + 1}
          /\ NextOccurrence(d, t) > t
      BY <1>0, NextIsFirstAfter
    <2> QED
      BY <1>0, <2>1, <2>2
  <1>2. CASE d.policy = "catch_up"
    <2> DEFINE R == CursorAfter(d, c)
               K == Rounds(d, c, t)
    <2>1. /\ PlannedNext(d, c, t) = R[K]
          /\ Occurrences(d, c, t) = {R[m] : m \in 0..(K - 1)}
      BY <1>2 DEF PlannedNext, Occurrences
    <2>2. /\ K \in 0..d.maxRuns /\ \A m \in 0..(K - 1) : R[m] <= t
          /\ K = d.maxRuns \/ R[K] > t
      BY LoopEnds, Zenon
    <2>3. c \in Instant
      BY SchedulesAssumption DEF Instant
    <2>4. R[0] = c /\ \A k \in Nat : R[k] \in Nat
      BY <1>0, <2>3, CursorMovesOn DEF Instant
    <2>5. \A k \in Nat : R[k + 1] \in d.instants \cup {Horizon + 1}
      BY <2>3, CursorMovesOn, Zenon
    <2> HIDE DEF R, K
    <2>6. K \in Nat /\ K # 0
      BY <1>0, <2>2, <2>4, SchedulesAssumption
    <2>7. /\ \A m \in 0..K : c <= R[m] /\ R[m] <= R[K]
          /\ \A m \in 0..(K - 1) : R[m] <= Horizon => R[m] < R[K] /\ R[m] \in d.instants
      BY <2>6, RoundsPassAll, Zenon DEF R
    <2>8. R[K] \in d.instants \cup {Horizon + 1}
      <3>1. K - 1 \in Nat /\ (K - 1) + 1 = K
        BY <2>6
      <3> QED
        BY <2>5, <3>1
    <2>9. ASSUME NEW m \in 0..(K - 1)
          PROVE  R[m] \in d.instants /\ c <= R[m] /\ R[m] <= t /\ R[m] < R[K]
      <3>1. m \in Nat /\ m \in 0..K /\ R[m] \in Nat
        BY <2>4, <2>6
      <3>2. R[m] <= t /\ R[m] <= Horizon
        BY <1>0, <2>2, <3>1
      <3> QED
        BY <2>7, <3>1, <3>2, Zenon
    <2>10. c < R[K]
      <3>1. 0 \in 0..(K - 1)
        BY <2>6
      <3> QED
        BY <2>4, <2>9, <3>1, Zenon
    <2> QED
      BY <2>1, <2>8, <2>9, <2>10
  <1> QED
    BY <1>1, <1>2

\* A fire_once plan holds the occurrence the cursor stands at.
LEMMA FireOncePlan ==
    ASSUME NEW d \in Definition, NEW c, NEW t, d.policy = "fire_once"
    PROVE  c \in Occurrences(d, c, t)
  BY DEF Occurrences

\* A catch_up plan leaves nothing out between the cursor and where it is put.
LEMMA CatchUpPlan ==
    ASSUME NEW d \in Definition, NEW c \in d.instants, NEW t \in 0..Horizon,
           d.policy = "catch_up",
           NEW o \in d.instants, c <= o, o < PlannedNext(d, c, t)
    PROVE  o \in Occurrences(d, c, t)
  <1> DEFINE R == CursorAfter(d, c)
             K == Rounds(d, c, t)
  <1>1. PlannedNext(d, c, t) = R[K] /\ Occurrences(d, c, t) = {R[m] : m \in 0..(K - 1)}
    BY DEF PlannedNext, Occurrences
  <1>2. K \in Nat
    BY LoopEnds, SchedulesAssumption
  <1>3. o < R[K] => \E m \in 0..(K - 1) : o = R[m]
    BY <1>2, RoundsPassAll
  <1> QED
    BY <1>1, <1>3, Zenon

Behind(d, c, x) == {e \in d.instants : c <= e /\ e < x}

\* After n rounds exactly n occurrences are behind the cursor.
LEMMA RoundsCount ==
    ASSUME NEW d \in Definition, NEW c \in d.instants, NEW n \in Nat,
           \A m \in 0..(n - 1) : CursorAfter(d, c)[m] <= Horizon
    PROVE  /\ IsFiniteSet(Behind(d, c, CursorAfter(d, c)[n]))
           /\ Cardinality(Behind(d, c, CursorAfter(d, c)[n])) = n
  <1> DEFINE R == CursorAfter(d, c)
             B(k) == Behind(d, c, R[k])
             T == {k \in 0..n : ~(IsFiniteSet(B(k)) /\ Cardinality(B(k)) = k)}
  <1>0. Horizon \in Nat /\ c \in Instant /\ c \in Nat /\ \A o \in d.instants : o \in Nat
    BY SchedulesAssumption DEF Instant
  <1>1. R[0] = c /\ \A k \in Nat : R[k] \in Nat
    BY <1>0, CursorMovesOn DEF Instant
  <1>2. \A k \in Nat : /\ R[k] <= Horizon => R[k] < R[k + 1]
                       /\ \A o \in d.instants : R[k] < o => R[k + 1] <= o
    BY <1>0, CursorMovesOn, Zenon
  <1>3. ASSUME NEW k \in Nat, R[k] <= Horizon
        PROVE  R[k] \in d.instants /\ c <= R[k]
    <2>1. k + 1 \in Nat /\ k \in 0..((k + 1) - 1) /\ k \in 0..(k + 1)
      OBVIOUS
    <2> QED
      BY <1>3, <2>1, RoundsPassAll, Zenon
  <1>4. SUFFICES ASSUME T # {}
                 PROVE  FALSE
    <2>1. n \in 0..n /\ n \notin T
      BY <1>4
    <2> QED
      BY <2>1, Zenon
  <1> HIDE DEF R
  <1>5. PICK k \in T : \A j \in T : k <= j
    <2>1. T \in SUBSET Nat
      OBVIOUS
    <2> HIDE DEF T
    <2> QED
      BY <2>1, <1>4, LeastNatural, Zenon
  <1>6. k # 0
    <2>1. B(0) = {}
      BY <1>0, <1>1 DEF Behind
    <2> QED
      BY <2>1, FS_EmptySet, Zenon
  <1> DEFINE j == k - 1
  <1>7. j \in Nat /\ j \in 0..n /\ j \in 0..(n - 1) /\ k = j + 1 /\ j \notin T
    BY <1>5, <1>6
  <1>8. IsFiniteSet(B(j)) /\ Cardinality(B(j)) = j
    BY <1>7, Zenon
  <1> HIDE DEF j
  <1>9. R[j] <= Horizon
    BY <1>7, Zenon DEF R
  <1>10. B(k) = B(j) \cup {R[j]} /\ R[j] \notin B(j)
    <2>1. /\ R[j] \in d.instants /\ c <= R[j] /\ R[j] < R[k] /\ R[j] \in Nat /\ R[k] \in Nat
          /\ \A o \in d.instants : R[j] < o => R[k] <= o
      BY <1>1, <1>2, <1>3, <1>7, <1>9
    <2> QED
      BY <1>0, <2>1 DEF Behind
  <1>11. IsFiniteSet(B(k)) /\ Cardinality(B(k)) = j + 1
    <2> HIDE DEF B, T
    <2>1. /\ IsFiniteSet(B(j) \cup {R[j]})
          /\ Cardinality(B(j) \cup {R[j]}) =
                IF R[j] \in B(j) THEN Cardinality(B(j)) ELSE Cardinality(B(j)) + 1
      BY <1>8, FS_AddElement, Zenon
    <2> QED
      BY <1>8, <1>10, <2>1, Zenon
  <1> QED
    BY <1>7, <1>11, Zenon

\* A catch_up plan is the earliest maxRuns of the missed occurrences.
LEMMA EarliestPlan ==
    ASSUME NEW d \in Definition, NEW c \in d.instants, NEW t \in 0..Horizon, c <= t,
           d.policy = "catch_up"
    PROVE  LET missed == {o \in d.instants : c <= o /\ o <= t}
           IN  Occurrences(d, c, t) =
                 {o \in missed : Cardinality({e \in missed : e < o}) < d.maxRuns}
  <1> DEFINE missed == {o \in d.instants : c <= o /\ o <= t}
             R == CursorAfter(d, c)
             K == Rounds(d, c, t)
  <1>0. /\ Horizon \in Nat /\ c \in Instant /\ c \in Nat /\ t \in Nat /\ t <= Horizon
        /\ \A o \in d.instants : o \in Nat
        /\ d.maxRuns \in Nat
    BY SchedulesAssumption DEF Instant
  <1>1. /\ PlannedNext(d, c, t) = R[K]
        /\ Occurrences(d, c, t) = {R[m] : m \in 0..(K - 1)}
    BY DEF PlannedNext, Occurrences
  <1>2. /\ K \in 0..d.maxRuns /\ K \in Nat
        /\ \A m \in 0..(K - 1) : R[m] <= t
        /\ K = d.maxRuns \/ R[K] > t
    BY <1>0, LoopEnds
  <1>3. \A k \in Nat : R[k] \in Nat
    BY <1>0, CursorMovesOn DEF Instant
  <1>4. ASSUME NEW k \in 0..K
        PROVE  IsFiniteSet(Behind(d, c, R[k])) /\ Cardinality(Behind(d, c, R[k])) = k
    <2>1. k \in Nat /\ \A m \in 0..(k - 1) : m \in 0..(K - 1)
      BY <1>2
    <2>2. \A m \in 0..(k - 1) : R[m] <= Horizon
      BY <1>0, <1>2, <1>3, <2>1
    <2> QED
      BY <2>1, <2>2, RoundsCount, Zenon
  <1> HIDE DEF R, K
  <1>5. ASSUME NEW o \in missed
        PROVE  {e \in missed : e < o} = Behind(d, c, o)
    BY <1>0 DEF Behind
  <1>6. ASSUME NEW o \in Occurrences(d, c, t)
        PROVE  o \in missed /\ Cardinality({e \in missed : e < o}) < d.maxRuns
    <2>1. o \in missed
      BY PlanIsSound, Zenon
    <2>2. PICK m \in 0..(K - 1) : o = R[m]
      BY <1>1, Zenon
    <2>3. m \in 0..K /\ m < d.maxRuns
      BY <1>0, <1>2
    <2> QED
      BY <1>4, <1>5, <2>1, <2>2, <2>3, Zenon
  <1>7. ASSUME NEW o \in missed, Cardinality({e \in missed : e < o}) < d.maxRuns
        PROVE  o \in Occurrences(d, c, t)
    <2>1. CASE o < R[K]
      BY <1>1, <2>1, CatchUpPlan, Zenon
    <2>2. CASE ~(o < R[K])
      <3>1. R[K] <= o /\ R[K] <= t
        BY <1>0, <1>2, <1>3, <2>2
      <3>2. K = d.maxRuns
        BY <1>0, <1>2, <1>3, <3>1
      <3>3. Behind(d, c, R[K]) \subseteq Behind(d, c, o)
        BY <1>0, <1>2, <1>3, <3>1 DEF Behind
      <3>4. IsFiniteSet(Behind(d, c, o))
        <4>1. Behind(d, c, o) \in SUBSET Nat /\ \A e \in Behind(d, c, o) : e <= o
          BY <1>0 DEF Behind
        <4> QED
          BY <1>0, <4>1, FS_BoundedSetOfNaturals, Zenon
      <3>5. Cardinality(Behind(d, c, R[K])) <= Cardinality(Behind(d, c, o))
        BY <3>3, <3>4, FS_Subset, Zenon
      <3>6. Cardinality(Behind(d, c, R[K])) = K
        BY <1>2, <1>4
      <3>7. Cardinality(Behind(d, c, o)) < d.maxRuns /\ Cardinality(Behind(d, c, o)) \in Nat
        BY <1>5, <1>7, <3>4, FS_CardinalityType, Zenon
      <3> QED
        BY <1>0, <3>2, <3>5, <3>6, <3>7
    <2> QED
      BY <2>1, <2>2, Zenon
  <1> QED
    BY <1>6, <1>7, Zenon

-----------------------------------------------------------------------------
(* The inductive invariant.                                                *)

\* The cursor of a schedule, and where its last change put it, are occurrences of its
\* calendar, or past the horizon.
Cursors ==
    \A s \in Schedule :
        IF revision[s] = 0
        THEN cursor[s] = 0 /\ since[s] = 0
        ELSE /\ cursor[s] \in defn[s].instants \cup {Horizon + 1}
             /\ since[s] \in defn[s].instants \cup {Horizon + 1} /\ since[s] <= cursor[s]

\* No run is at the cursor or beyond it, or in the future.
RunsBehind == \A run \in runs : run[2] < cursor[run[1]] /\ run[2] <= now

\* What a replica holds was due when it was claimed, and is of the definition in force
\* unless the schedule was changed since.
ClaimsWereDue ==
    \A r \in Replica : \A c \in claims[r] :
        /\ c.at <= now /\ c.cursor <= c.at /\ c.cursor \in c.defn.instants
        /\ c.revision <= revision[c.schedule]
        /\ c.revision = revision[c.schedule] => c.defn = defn[c.schedule]

Inv == TypeOK /\ Cursors /\ RunsBehind /\ ClaimsWereDue /\ NoOccurrenceIsLost

LEMMA Bounds ==
    /\ Horizon \in Nat /\ MaxRevision \in Nat /\ MaxRevision > 0 /\ MaxReplays \in Nat
    /\ None \notin Fence
    /\ \A d \in Definition : /\ d.instants \subseteq 1..Horizon /\ d.lease \in Nat
                             /\ \A o \in d.instants : o \in 1..Horizon /\ o \in Nat
  BY SchedulesAssumption

LEMMA InitInv == Init => Inv
  <1> SUFFICES ASSUME Init
               PROVE  Inv
    OBVIOUS
  <1>1. defn \in [Schedule -> Definition]
    BY SchedulesAssumption, Zenon DEF Init
  <1>2. TypeOK
    BY <1>1, Bounds DEF Init, TypeOK
  <1>3. Cursors /\ RunsBehind /\ ClaimsWereDue
    BY Zenon DEF Init, Cursors, RunsBehind, ClaimsWereDue
  <1>4. NoOccurrenceIsLost
    <2>1. \A s \in Schedule : {o \in defn[s].instants : since[s] <= o /\ o < cursor[s]} = {}
      BY <1>1, Bounds DEF Init
    <2> QED
      BY <2>1 DEF NoOccurrenceIsLost
  <1> QED
    BY <1>2, <1>3, <1>4 DEF Inv

\* An administrative write puts the cursor, and its history, on an occurrence beyond
\* every run of the schedule, and makes every claim on it stale.
LEMMA AdministerKeeps ==
    ASSUME Inv, NEW s \in Schedule, NEW d \in Definition, NEW p \in BOOLEAN,
           NEW n \in d.instants \cup {Horizon + 1}, revision[s] < MaxRevision,
           Administer(s, d, p, n), \A run \in runs : run[1] = s => run[2] < n
    PROVE  Inv'
  <1>1. n \in 0..(Horizon + 1) /\ n \in Nat
    BY Bounds
  <1>2. /\ UNCHANGED <<now, runs, claims>>
        /\ \A q \in Schedule :
              /\ defn'[q] = IF q = s THEN d ELSE defn[q]
              /\ paused'[q] = IF q = s THEN p ELSE paused[q]
              /\ revision'[q] = IF q = s THEN revision[s] + 1 ELSE revision[q]
              /\ cursor'[q] = IF q = s THEN n ELSE cursor[q]
              /\ token'[q] = IF q = s THEN None ELSE token[q]
              /\ lease'[q] = IF q = s THEN 0 ELSE lease[q]
              /\ since'[q] = IF q = s THEN n ELSE since[q]
    BY DEF Inv, TypeOK, Administer
  <1>3. revision[s] \in 0..MaxRevision /\ revision[s] + 1 \in 0..MaxRevision /\ revision[s] + 1 # 0
    BY Bounds DEF Inv, TypeOK
  <1>4. TypeOK'
    <2>1. /\ defn' \in [Schedule -> Definition] /\ paused' \in [Schedule -> BOOLEAN]
          /\ revision' \in [Schedule -> 0..MaxRevision]
      BY <1>3, Zenon DEF Inv, TypeOK, Administer
    <2>2. /\ cursor' \in [Schedule -> 0..(Horizon + 1)]
          /\ since' \in [Schedule -> 0..(Horizon + 1)]
      BY <1>1, Zenon DEF Inv, TypeOK, Administer
    <2>3. token' \in [Schedule -> Fence \cup {None}] /\ lease' \in [Schedule -> Nat]
      BY Zenon DEF Inv, TypeOK, Administer
    <2>4. /\ \A q \in Schedule : token'[q] = None => lease'[q] = 0
          /\ \A q \in Schedule : paused'[q] => token'[q] = None
      BY <1>2, Zenon DEF Inv, TypeOK
    <2> QED
      BY <1>2, <2>1, <2>2, <2>3, <2>4, Zenon DEF Inv, TypeOK, Claim
  <1>5. Cursors'
    <2>1. ASSUME NEW q \in Schedule, q # s
          PROVE  /\ revision'[q] = revision[q] /\ cursor'[q] = cursor[q]
                 /\ since'[q] = since[q] /\ defn'[q] = defn[q]
      BY <1>2, <2>1, Zenon
    <2>2. /\ revision'[s] = revision[s] + 1 /\ cursor'[s] = n /\ since'[s] = n
          /\ defn'[s] = d /\ n <= n
      BY <1>1, <1>2
    <2>3. /\ ~(revision'[s] = 0) /\ since'[s] <= cursor'[s]
          /\ cursor'[s] \in defn'[s].instants \cup {Horizon + 1}
          /\ since'[s] \in defn'[s].instants \cup {Horizon + 1}
      BY <1>3, <2>2, Zenon
    <2> QED
      BY <2>1, <2>3, Zenon DEF Inv, Cursors
  <1>6. RunsBehind'
    <2> SUFFICES ASSUME NEW run \in runs
                 PROVE  run[2] < cursor'[run[1]] /\ run[2] <= now
      BY <1>2, Zenon DEF RunsBehind
    <2>1. run[1] \in Schedule /\ run[2] < cursor[run[1]] /\ run[2] <= now
      BY Zenon DEF Inv, TypeOK, RunsBehind
    <2> QED
      BY <1>2, <2>1, Zenon
  <1>7. ClaimsWereDue'
    <2> SUFFICES ASSUME NEW r \in Replica, NEW c \in claims[r]
                 PROVE  /\ c.at <= now /\ c.cursor <= c.at /\ c.cursor \in c.defn.instants
                        /\ c.revision <= revision'[c.schedule]
                        /\ c.revision = revision'[c.schedule] => c.defn = defn'[c.schedule]
      BY <1>2, Zenon DEF ClaimsWereDue
    <2>1. c \in Claim
      BY Zenon DEF Inv, TypeOK
    <2>2. c.schedule \in Schedule /\ c.revision \in 1..MaxRevision
      BY <2>1, Zenon DEF Claim
    <2>3. /\ c.at <= now /\ c.cursor <= c.at /\ c.cursor \in c.defn.instants
          /\ c.revision <= revision[c.schedule]
          /\ c.revision = revision[c.schedule] => c.defn = defn[c.schedule]
      BY Zenon DEF Inv, ClaimsWereDue
    <2> QED
      BY <1>2, <1>3, <2>2, <2>3, Bounds
  <1>8. NoOccurrenceIsLost'
    <2> SUFFICES ASSUME NEW q \in Schedule
                 PROVE  LET behind == {o \in defn'[q].instants : since'[q] <= o /\ o < cursor'[q]}
                        IN  CASE defn'[q].policy = "catch_up"  -> behind \subseteq Runs(q)'
                              [] defn'[q].policy = "fire_once" -> behind # {} => since'[q] \in Runs(q)'
                              [] OTHER -> TRUE
      BY DEF NoOccurrenceIsLost
    <2>1. Runs(q)' = Runs(q)
      BY <1>2, Zenon DEF Runs
    <2>2. CASE q = s
      <3>1. {o \in defn'[q].instants : since'[q] <= o /\ o < cursor'[q]} = {}
        BY <1>1, <1>2, <2>2, Bounds
      <3> QED
        BY <3>1, Zenon
    <2>3. CASE q # s
      BY <1>2, <2>1, <2>3 DEF Inv, NoOccurrenceIsLost
    <2> QED
      BY <2>2, <2>3
  <1> QED
    BY <1>4, <1>5, <1>6, <1>7, <1>8 DEF Inv

\* The next occurrence after now is beyond every run.
LEMMA NextIsBeyondRuns ==
    ASSUME Inv, NEW d \in Definition
    PROVE  LET n == NextOccurrence(d, now) IN
           /\ n \in d.instants \cup {Horizon + 1}
           /\ \A run \in runs : run[2] < n
  <1>1. now \in Int /\ now <= Horizon
    BY Bounds DEF Inv, TypeOK
  <1>2. /\ NextOccurrence(d, now) \in d.instants \cup {Horizon + 1}
        /\ NextOccurrence(d, now) \in Instant /\ NextOccurrence(d, now) > now
    BY <1>1, NextIsFirstAfter, Zenon
  <1>3. \A run \in runs : run[2] \in Int /\ run[2] <= now
    BY DEF Inv, TypeOK, RunsBehind
  <1> QED
    BY <1>1, <1>2, <1>3, Bounds DEF Instant

LEMMA AdministratorsKeep ==
    ASSUME Inv, NEW s \in Schedule, NEW d \in Definition, NEW p \in BOOLEAN,
           \/ \E t \in 0..Horizon : CreateSchedule(s, d, p, t)
           \/ UpdateSchedule(s, d, p) \/ SetPaused(s, p)
    PROVE  Inv'
  <1>1. ASSUME NEW t \in 0..Horizon, CreateSchedule(s, d, p, t) PROVE Inv'
    <2>1. revision[s] = 0 /\ revision[s] < MaxRevision
      BY <1>1, Bounds DEF Inv, TypeOK, CreateSchedule, Exists
    <2>2. \A run \in runs : run[1] = s => run[2] < NextOccurrence(d, t)
      <3>1. cursor[s] = 0
        BY <2>1, Zenon DEF Inv, Cursors
      <3>2. \A run \in runs : run[2] \in 1..Horizon /\ run[2] < cursor[run[1]]
        BY Zenon DEF Inv, TypeOK, RunsBehind
      <3> QED
        BY <3>1, <3>2
    <2>3. t \in Int
      OBVIOUS
    <2>4. NextOccurrence(d, t) \in d.instants \cup {Horizon + 1}
      BY <2>3, NextIsFirstAfter, Zenon
    <2> QED
      BY <1>1, <2>1, <2>2, <2>4, AdministerKeeps, ZenonT(40) DEF CreateSchedule
  <1>2. CASE UpdateSchedule(s, d, p)
    BY <1>2, NextIsBeyondRuns, AdministerKeeps, Zenon DEF UpdateSchedule
  <1>3. CASE SetPaused(s, p)
    <2>1. defn[s] \in Definition
      BY Zenon DEF Inv, TypeOK
    <2>2. revision[s] < MaxRevision /\ revision[s] > 0
      BY <1>3, Zenon DEF SetPaused, Exists
    <2>3. CASE p
      <3>1. cursor[s] \in defn[s].instants \cup {Horizon + 1}
        BY <2>2 DEF Inv, Cursors
      <3>2. \A run \in runs : run[1] = s => run[2] < cursor[s]
        BY DEF Inv, RunsBehind
      <3>3. Administer(s, defn[s], p, cursor[s])
        BY <1>3, <2>3, Zenon DEF SetPaused
      <3> QED
        BY <2>1, <2>2, <3>1, <3>2, <3>3, AdministerKeeps
    <2>4. CASE ~p
      <3>1. Administer(s, defn[s], p, NextOccurrence(defn[s], now))
        BY <1>3, <2>4, Zenon DEF SetPaused
      <3> QED
        BY <2>1, <2>2, <3>1, NextIsBeyondRuns, AdministerKeeps
    <2> QED
      BY <2>3, <2>4
  <1> QED
    BY <1>1, <1>2, <1>3, Zenon

\* Steps that leave the schedule's columns, but for its lease, and the calendar's runs alone.
LEMMA QuietKeeps ==
    ASSUME Inv, TypeOK', UNCHANGED <<defn, revision, cursor, since>>, now <= now',
           \A s \in Schedule : Runs(s)' = Runs(s), RunsBehind', ClaimsWereDue'
    PROVE  Inv'
  <1>1. Cursors'
    BY Zenon DEF Inv, Cursors
  <1>2. NoOccurrenceIsLost'
    BY DEF Inv, NoOccurrenceIsLost
  <1> QED
    BY <1>1, <1>2, Zenon DEF Inv

\* A replay takes the next free sequence number of its occurrence.
LEMMA ReplayAdds ==
    ASSUME Inv, NEW s \in Schedule, NEW o \in 1..Horizon, Replay(s, o)
    PROVE  \E n \in 1..MaxReplays : /\ runs' = runs \cup {<<s, o, n>>}
                                    /\ <<s, o, 0>> \in runs
  <1> DEFINE S == {0} \cup ReplaysOf(s, o)
  <1>1. S \in SUBSET (0..MaxReplays) /\ S # {}
    BY Bounds DEF ReplaysOf
  <1>2. Max(S) \in 0..MaxReplays
    BY <1>1, Bounds, MaxIsGreatest, Zenon
  <1>3. Max(S) + 1 <= MaxReplays /\ runs' = runs \cup {<<s, o, Max(S) + 1>>} /\ <<s, o, 0>> \in runs
    BY Zenon DEF Replay
  <1> HIDE DEF S
  <1> QED
    BY <1>2, <1>3, Bounds

LEMMA ReplayKeeps ==
    ASSUME Inv, NEW s \in Schedule, NEW o \in 1..Horizon, Replay(s, o)
    PROVE  Inv'
  <1>1. PICK n \in 1..MaxReplays : runs' = runs \cup {<<s, o, n>>} /\ <<s, o, 0>> \in runs
    BY ReplayAdds, Zenon
  <1>2. UNCHANGED <<now, row, claims, since>>
    BY Zenon DEF Replay
  <1>3. TypeOK'
    BY <1>1, <1>2, Bounds DEF Inv, TypeOK, row, Claim
  <1>4. \A q \in Schedule : Runs(q)' = Runs(q)
    BY <1>1, Zenon DEF Runs
  <1>5. RunsBehind'
    <2>1. o < cursor[s] /\ o <= now
      BY <1>1, Zenon DEF Inv, RunsBehind
    <2> QED
      BY <1>1, <1>2, <2>1 DEF Inv, RunsBehind, row
  <1>6. ClaimsWereDue'
    BY <1>2, Zenon DEF Inv, ClaimsWereDue, row
  <1>7. now <= now'
    BY <1>2, Bounds DEF Inv, TypeOK
  <1> QED
    BY <1>2, <1>3, <1>4, <1>5, <1>6, <1>7, QuietKeeps, Zenon DEF row

\* A batch of due schedules is leased under fences of its own.
LEMMA ClaimKeeps ==
    ASSUME Inv, NEW r \in Replica, ClaimDueSchedules(r)
    PROVE  Inv'
  <1>1. UNCHANGED <<now, defn, revision, paused, cursor, runs, since>>
    BY Zenon DEF ClaimDueSchedules
  <1>2. PICK B \in SUBSET Schedule :
            /\ DueBatch(B) /\ Fences(B) # {}
            /\ token' = [s \in Schedule |-> IF s \in B THEN FencesFor(B)[s] ELSE token[s]]
            /\ claims' = [claims EXCEPT ![r] =
                  {[schedule |-> s, defn |-> defn[s], revision |-> revision[s],
                    cursor |-> cursor[s], token |-> FencesFor(B)[s], at |-> now] : s \in B}]
            /\ lease' = [s \in Schedule |-> IF s \in B THEN defn[s].lease ELSE lease[s]]
    BY Zenon DEF ClaimDueSchedules
  <1> DEFINE f == FencesFor(B)
             C(s) == [schedule |-> s, defn |-> defn[s], revision |-> revision[s],
                      cursor |-> cursor[s], token |-> f[s], at |-> now]
  <1>3. \A s \in B : f[s] \in Fence /\ f[s] # None
    <2>1. f \in Fences(B)
      BY <1>2, Zenon DEF FencesFor
    <2> QED
      BY <2>1, Bounds, Zenon DEF Fences, Unused
  <1>4. \A s \in B : /\ s \in Schedule /\ ~paused[s] /\ revision[s] \in 1..MaxRevision
                     /\ cursor[s] <= now /\ cursor[s] \in defn[s].instants
                     /\ cursor[s] \in 1..Horizon /\ defn[s] \in Definition
    <2> SUFFICES ASSUME NEW s \in B
                 PROVE  /\ s \in Schedule /\ ~paused[s] /\ revision[s] \in 1..MaxRevision
                        /\ cursor[s] <= now /\ cursor[s] \in defn[s].instants
                        /\ cursor[s] \in 1..Horizon /\ defn[s] \in Definition
      BY Zenon
    <2>1. s \in Schedule /\ ~paused[s] /\ revision[s] > 0 /\ cursor[s] <= now
      BY <1>2, Zenon DEF DueBatch, Due, Exists
    <2>2. revision[s] \in 1..MaxRevision /\ defn[s] \in Definition /\ now <= Horizon
      BY <2>1, Bounds DEF Inv, TypeOK
    <2>3. cursor[s] \in defn[s].instants
      BY <2>1, <2>2, Bounds DEF Inv, TypeOK, Cursors
    <2> QED
      BY <2>1, <2>2, <2>3, Bounds, Zenon
  <1> HIDE DEF f
  <1>5. \A s \in B : C(s) \in Claim
    BY <1>3, <1>4, Zenon DEF Claim, Inv, TypeOK
  <1>6. \A q \in Replica : claims'[q] = IF q = r THEN {C(s) : s \in B} ELSE claims[q]
    BY <1>2, Zenon DEF Inv, TypeOK, f
  <1>7. claims' \in [Replica -> SUBSET Claim]
    <2> DEFINE N == {C(s) : s \in B}
    <2>1. N \in SUBSET Claim
      BY <1>5, Zenon
    <2>2. claims' = [claims EXCEPT ![r] = N]
      BY <1>2, Zenon DEF f
    <2> HIDE DEF N
    <2> QED
      BY <2>1, <2>2, Zenon DEF Inv, TypeOK
  <1>8. TypeOK'
    <2>1. token' \in [Schedule -> Fence \cup {None}]
      BY <1>2, <1>3, Zenon DEF Inv, TypeOK, f
    <2>2. lease' \in [Schedule -> Nat]
      BY <1>2, <1>4, Bounds, Zenon DEF Inv, TypeOK
    <2>3. /\ \A s \in Schedule : token'[s] = None => lease'[s] = 0
          /\ \A s \in Schedule : paused'[s] => token'[s] = None
      BY <1>1, <1>2, <1>3, <1>4, Zenon DEF Inv, TypeOK, f
    <2> QED
      BY <1>1, <1>7, <2>1, <2>2, <2>3, Zenon DEF Inv, TypeOK, Claim
  <1>9. \A s \in Schedule : Runs(s)' = Runs(s)
    BY <1>1, Zenon DEF Runs
  <1>10. RunsBehind'
    BY <1>1, Zenon DEF Inv, RunsBehind
  <1>11. ClaimsWereDue'
    <2>1. \A s \in B : /\ C(s).at = now /\ C(s).cursor = cursor[s] /\ C(s).defn = defn[s]
                       /\ C(s).revision = revision[s] /\ C(s).schedule = s
      BY Zenon
    <2>2. \A s \in B : now <= now /\ revision[s] <= revision[s]
      BY <1>4, Bounds DEF Inv, TypeOK
    <2> HIDE DEF C
    <2> SUFFICES ASSUME NEW q \in Replica, NEW c \in claims'[q]
                 PROVE  /\ c.at <= now /\ c.cursor <= c.at /\ c.cursor \in c.defn.instants
                        /\ c.revision <= revision[c.schedule]
                        /\ c.revision = revision[c.schedule] => c.defn = defn[c.schedule]
      BY <1>1, Zenon DEF ClaimsWereDue
    <2>3. CASE q # r
      BY <1>6, <2>3, Zenon DEF Inv, ClaimsWereDue
    <2>4. CASE q = r
      <3>1. PICK s \in B : c = C(s)
        BY <1>6, <2>4, Zenon
      <3> QED
        BY <1>4, <2>1, <2>2, <3>1
    <2> QED
      BY <2>3, <2>4, Zenon
  <1>12. now <= now'
    BY <1>1, Bounds DEF Inv, TypeOK
  <1> QED
    BY <1>1, <1>8, <1>9, <1>10, <1>11, <1>12, QuietKeeps

\* Claims are given up, and time passes.
LEMMA GivingUpKeeps ==
    ASSUME Inv, NEW r \in Replica, LoseClaim(r) \/ Abandon(r)
    PROVE  Inv'
  <1>1. UNCHANGED <<now, row, runs, since>>
    BY Zenon DEF LoseClaim, Abandon
  <1>2. /\ claims' \in [Replica -> SUBSET Claim]
        /\ \A q \in Replica : claims'[q] \subseteq claims[q]
    BY DEF Inv, TypeOK, LoseClaim, Abandon
  <1>3. TypeOK'
    BY <1>1, <1>2, Zenon DEF Inv, TypeOK, row, Claim
  <1>4. (\A s \in Schedule : Runs(s)' = Runs(s)) /\ RunsBehind'
    BY <1>1 DEF Runs, Inv, RunsBehind, row
  <1>5. ClaimsWereDue'
    BY <1>1, <1>2, Zenon DEF Inv, ClaimsWereDue, row
  <1>6. now <= now'
    BY <1>1, Bounds DEF Inv, TypeOK
  <1> QED
    BY <1>1, <1>3, <1>4, <1>5, <1>6, QuietKeeps, Zenon DEF row

LEMMA ElapseKeeps ==
    ASSUME Inv, Elapse
    PROVE  Inv'
  <1>1. UNCHANGED <<defn, revision, paused, cursor, token, runs, claims, since>>
    BY Zenon DEF Elapse
  <1>2. now \in 0..Horizon /\ now' \in 0..Horizon /\ now <= now'
    BY Bounds DEF Elapse, Inv, TypeOK
  <1>3. lease' \in [Schedule -> Nat] /\ \A s \in Schedule : lease[s] = 0 => lease'[s] = 0
    BY DEF Elapse, Inv, TypeOK
  <1>4. TypeOK'
    BY <1>1, <1>2, <1>3 DEF Inv, TypeOK, Claim
  <1>5. \A s \in Schedule : Runs(s)' = Runs(s)
    BY <1>1 DEF Runs
  <1>6. RunsBehind'
    <2>1. \A run \in runs : run[2] \in Int
      BY DEF Inv, TypeOK
    <2> QED
      BY <1>1, <1>2, <2>1, Bounds DEF Inv, RunsBehind
  <1>7. ClaimsWereDue'
    <2>1. \A q \in Replica : \A c \in claims[q] : c.at \in Int
      BY DEF Inv, TypeOK, Claim
    <2> QED
      BY <1>1, <1>2, <2>1, Bounds DEF Inv, ClaimsWereDue
  <1> QED
    BY <1>1, <1>2, <1>4, <1>5, <1>6, <1>7, QuietKeeps

\* A claim that passes the fence is of the definition in force, and was due at an
\* occurrence of it that the schedule has not fired.
LEMMA OwnedClaim ==
    ASSUME Inv, NEW r \in Replica, NEW c \in claims[r], Owns(c)
    PROVE  LET s == c.schedule IN
           /\ s \in Schedule /\ c.defn = defn[s] /\ c.cursor = cursor[s] /\ c.token = token[s]
           /\ revision[s] # 0 /\ ~paused[s] /\ defn[s] \in Definition
           /\ cursor[s] \in defn[s].instants /\ cursor[s] <= c.at
           /\ c.at \in 0..Horizon /\ c.at <= now
           /\ since[s] <= cursor[s] /\ since[s] \in defn[s].instants
  <1> DEFINE s == c.schedule
  <1>1. c \in Claim
    BY DEF Inv, TypeOK
  <1>2. s \in Schedule /\ c.revision \in 1..MaxRevision /\ c.token \in Fence /\ c.at \in 0..Horizon
    BY <1>1, Zenon DEF Claim
  <1>3. /\ c.at <= now /\ c.cursor <= c.at /\ c.cursor \in c.defn.instants
        /\ c.revision = revision[s] => c.defn = defn[s]
    BY Zenon DEF Inv, ClaimsWereDue
  <1>4. revision[s] = c.revision /\ cursor[s] = c.cursor /\ token[s] = c.token
    BY Zenon DEF Owns
  <1>5. revision[s] # 0 /\ defn[s] \in Definition /\ ~paused[s]
    BY <1>2, <1>4, Bounds DEF Inv, TypeOK
  <1>6. since[s] \in defn[s].instants \cup {Horizon + 1} /\ since[s] <= cursor[s]
    BY <1>2, <1>5, Zenon DEF Inv, Cursors
  <1>7. cursor[s] \in defn[s].instants
    BY <1>3, <1>4, Zenon
  <1>8. cursor[s] <= Horizon /\ cursor[s] \in Nat
    BY <1>5, <1>7, Bounds
  <1>9. since[s] \in defn[s].instants
    BY <1>6, <1>8, Bounds
  <1> QED
    BY <1>2, <1>3, <1>4, <1>5, <1>6, <1>7, <1>9, Zenon

LEMMA MaterializeKeeps ==
    ASSUME Inv, NEW r \in Replica, Materialize(r)
    PROVE  Inv'
  <1>1. PICK c \in claims[r] :
            LET s == c.schedule
            IN  /\ AtHead(c, r) /\ Owns(c) /\ Insertable(Planned(c))
                /\ runs' = runs \cup Planned(c)
                /\ cursor' = [cursor EXCEPT ![s] = PlannedNext(c.defn, c.cursor, c.at)]
                /\ token' = [token EXCEPT ![s] = None]
                /\ lease' = [lease EXCEPT ![s] = 0]
                /\ claims' = [claims EXCEPT ![r] = @ \ {c}]
    BY Zenon DEF Materialize
  <1>2. UNCHANGED <<now, defn, revision, paused, since>>
    BY Zenon DEF Materialize
  <1> DEFINE s == c.schedule
             d == defn[s]
             n == PlannedNext(d, cursor[s], c.at)
             O == Occurrences(d, cursor[s], c.at)
  <1>3. /\ s \in Schedule /\ c.defn = d /\ c.cursor = cursor[s] /\ revision[s] # 0 /\ d \in Definition
        /\ cursor[s] \in d.instants /\ cursor[s] <= c.at /\ c.at \in 0..Horizon /\ c.at <= now
        /\ since[s] <= cursor[s] /\ since[s] \in d.instants
    BY <1>1, OwnedClaim, Zenon
  <1>4. /\ n \in d.instants \cup {Horizon + 1} /\ cursor[s] < n
        /\ \A o \in O : o \in d.instants /\ cursor[s] <= o /\ o <= c.at /\ o < n
    BY <1>3, PlanIsSound, Zenon
  <1>5. d.policy = "fire_once" => cursor[s] \in O
    BY <1>3, FireOncePlan, Zenon
  <1>6. d.policy = "catch_up" => \A o \in d.instants : cursor[s] <= o /\ o < n => o \in O
    BY <1>3, CatchUpPlan, Zenon
  <1>7. /\ runs' = runs \cup {<<s, o, 0>> : o \in O}
        /\ cursor' = [cursor EXCEPT ![s] = n]
    BY <1>1, <1>3, Zenon DEF Planned
  <1>8. /\ \A o \in d.instants : o \in 1..Horizon /\ o \in Nat
        /\ n \in 0..(Horizon + 1) /\ n \in Nat /\ cursor[s] \in Nat /\ since[s] \in Nat
    <2>1. \A o \in d.instants : o \in 1..Horizon /\ o \in Nat
      BY <1>3, Bounds, Zenon
    <2>2. n \in 1..(Horizon + 1)
      BY <1>4, <2>1, Bounds
    <2> QED
      BY <1>3, <2>1, <2>2, Bounds
  <1> HIDE DEF O, n
  <1>9. \A q \in Schedule : cursor'[q] = IF q = s THEN n ELSE cursor[q]
    BY <1>7, Zenon DEF Inv, TypeOK
  <1>10. claims' \in [Replica -> SUBSET Claim] /\ \A q \in Replica : claims'[q] \subseteq claims[q]
    BY <1>1, Zenon DEF Inv, TypeOK
  <1>11. TypeOK'
    <2>1. runs' \subseteq Schedule \X (1..Horizon) \X (0..MaxReplays)
      <3>1. \A o \in O : <<s, o, 0>> \in Schedule \X (1..Horizon) \X (0..MaxReplays)
        BY <1>3, <1>4, <1>8, Bounds
      <3> QED
        BY <1>7, <3>1 DEF Inv, TypeOK
    <2>2. cursor' \in [Schedule -> 0..(Horizon + 1)]
      BY <1>7, <1>8, Zenon DEF Inv, TypeOK
    <2>3. /\ token' \in [Schedule -> Fence \cup {None}] /\ lease' \in [Schedule -> Nat]
          /\ \A q \in Schedule : token'[q] = None => lease'[q] = 0
          /\ \A q \in Schedule : paused'[q] => token'[q] = None
      BY <1>1, <1>2, Zenon DEF Inv, TypeOK
    <2> QED
      BY <1>2, <1>10, <2>1, <2>2, <2>3, Zenon DEF Inv, TypeOK, Claim
  <1>12. Cursors'
    <2>1. since[s] <= n
      BY <1>3, <1>4, <1>8
    <2> QED
      BY <1>2, <1>3, <1>4, <1>9, <2>1, Zenon DEF Inv, Cursors
  <1>13. RunsBehind'
    <2>1. \A o \in O : o < n /\ o <= now
      <3>1. now \in Nat /\ c.at \in Nat
        BY <1>3, Bounds DEF Inv, TypeOK
      <3> QED
        BY <1>3, <1>4, <1>8, <3>1
    <2>2. ASSUME NEW run \in runs
          PROVE  run[2] < cursor'[run[1]] /\ run[2] <= now
      <3>1. run[1] \in Schedule /\ run[2] \in Int /\ run[2] < cursor[run[1]] /\ run[2] <= now
        BY DEF Inv, TypeOK, RunsBehind
      <3> QED
        BY <1>4, <1>8, <1>9, <3>1
    <2> QED
      <3>1. ASSUME NEW o \in O, NEW x, x = <<s, o, 0>>
            PROVE  x[2] < cursor'[x[1]] /\ x[2] <= now
        BY <1>3, <1>9, <2>1, <3>1, Zenon
      <3> QED
        BY <1>2, <1>7, <2>2, <3>1, Zenon DEF RunsBehind
  <1>14. ClaimsWereDue'
    BY <1>2, <1>10, Zenon DEF Inv, ClaimsWereDue
  <1>15. NoOccurrenceIsLost'
    <2> SUFFICES ASSUME NEW q \in Schedule
                 PROVE  LET behind == {o \in defn[q].instants : since[q] <= o /\ o < cursor'[q]}
                        IN  CASE defn[q].policy = "catch_up"  -> behind \subseteq Runs(q)'
                              [] defn[q].policy = "fire_once" -> behind # {} => since[q] \in Runs(q)'
                              [] OTHER -> TRUE
      BY <1>2 DEF NoOccurrenceIsLost
    <2>1. Runs(q) \subseteq Runs(q)'
      BY <1>7, Zenon DEF Runs
    <2>2. CASE q # s
      BY <1>9, <2>1, <2>2 DEF Inv, NoOccurrenceIsLost
    <2>3. CASE q = s
      <3>1. O \subseteq Runs(s)'
        BY <1>4, <1>7, <1>8, Zenon DEF Runs
      <3>2. CASE d.policy = "catch_up"
        <4>1. {o \in d.instants : since[s] <= o /\ o < cursor[s]} \subseteq Runs(s)
          BY <1>3, <3>2 DEF Inv, NoOccurrenceIsLost
        <4>2. ASSUME NEW o \in d.instants, since[s] <= o, o < n
              PROVE  o \in Runs(s)'
          <5>1. CASE o < cursor[s]
            BY <2>1, <2>3, <4>1, <4>2, <5>1, Zenon
          <5>2. CASE cursor[s] <= o
            BY <1>6, <3>1, <3>2, <4>2, <5>2, Zenon
          <5> QED
            BY <1>8, <5>1, <5>2
        <4> QED
          BY <1>3, <1>9, <2>3, <3>2, <4>2
      <3>3. CASE d.policy = "fire_once"
        <4>1. {o \in d.instants : since[s] <= o /\ o < cursor[s]} # {} => since[s] \in Runs(s)
          BY <1>3, <3>3, Zenon DEF Inv, NoOccurrenceIsLost
        <4>2. since[s] \in Runs(s)'
          <5>1. CASE since[s] = cursor[s]
            BY <1>5, <3>1, <3>3, <5>1, Zenon
          <5>2. CASE since[s] < cursor[s]
            <6>1. since[s] \in {o \in d.instants : since[s] <= o /\ o < cursor[s]}
              BY <1>3, <1>8, <5>2
            <6> QED
              BY <2>1, <2>3, <4>1, <6>1, Zenon
          <5> QED
            BY <1>3, <1>8, <5>1, <5>2
        <4> QED
          BY <2>3, <3>3, <4>2
      <3>4. CASE d.policy \notin {"catch_up", "fire_once"}
        BY <2>3, <3>4
      <3> QED
        BY <3>2, <3>3, <3>4
    <2> QED
      BY <2>2, <2>3
  <1> QED
    BY <1>11, <1>12, <1>13, <1>14, <1>15 DEF Inv

LEMMA NextInv == Inv /\ [Next]_vars => Inv'
  <1> SUFFICES ASSUME Inv, [Next]_vars
               PROVE  Inv'
    OBVIOUS
  <1>1. CASE \E s \in Schedule, d \in Definition, p \in BOOLEAN :
                UpdateSchedule(s, d, p) \/ \E t \in 0..Horizon : CreateSchedule(s, d, p, t)
    BY <1>1, AdministratorsKeep, Zenon
  <1>2. CASE \E s \in Schedule, p \in BOOLEAN : SetPaused(s, p)
    <2>1. PICK d \in Definition : TRUE
      BY SchedulesAssumption, Zenon
    <2> QED
      BY <1>2, <2>1, AdministratorsKeep, Zenon
  <1>3. CASE \E s \in Schedule, o \in 1..Horizon : Replay(s, o)
    BY <1>3, ReplayKeeps, Zenon
  <1>4. CASE \E r \in Replica : ClaimDueSchedules(r) \/ Materialize(r) \/ LoseClaim(r) \/ Abandon(r)
    BY <1>4, ClaimKeeps, MaterializeKeeps, GivingUpKeeps, Zenon
  <1>5. CASE Elapse
    BY <1>5, ElapseKeeps, Zenon
  <1>6. CASE UNCHANGED vars
    BY <1>6 DEF vars, row, Inv, TypeOK, Claim, Cursors, RunsBehind, ClaimsWereDue,
                NoOccurrenceIsLost, Runs
  <1> QED
    BY <1>1, <1>2, <1>3, <1>4, <1>5, <1>6, Zenon DEF Next

LEMMA Invariance == Spec => []Inv
  BY InitInv, NextInv, PTL DEF Spec

-----------------------------------------------------------------------------
(* The theorems.                                                           *)

\* Every column keeps its type, a lease has a token and a paused schedule has none.
THEOREM TypeCorrect == Spec => []TypeOK
  <1>1. Inv => TypeOK
    BY DEF Inv
  <1> QED
    BY <1>1, Invariance, PTL

\* However often replicas crash, stall and overtake each other, between two administrative
\* changes a catch_up schedule loses no occurrence of its calendar, and a fire_once schedule
\* fires the one its cursor first stood at: materialize_due moves the cursor over exactly
\* what evaluate_occurrences planned, in the transaction that inserts it.
THEOREM NothingIsLost == Spec => []NoOccurrenceIsLost
  <1>1. Inv => NoOccurrenceIsLost
    BY DEF Inv
  <1> QED
    BY <1>1, Invariance, PTL

\* The insertion of a claim that passes the fence never meets the unique index: every run
\* is behind the cursor, and what is planned is not.
THEOREM InsertionsAreNew == Spec => []InsertNeverCollides
  <1>1. Inv => InsertNeverCollides
    <2> SUFFICES ASSUME Inv, NEW r \in Replica, NEW c \in claims[r], Owns(c),
                        NEW x \in Planned(c), x \in runs
                 PROVE  FALSE
      BY Zenon DEF InsertNeverCollides, Insertable
    <2> DEFINE s == c.schedule
    <2>1. /\ s \in Schedule /\ c.defn = defn[s] /\ c.cursor = cursor[s] /\ defn[s] \in Definition
          /\ cursor[s] \in defn[s].instants /\ cursor[s] <= c.at /\ c.at \in 0..Horizon
      BY OwnedClaim, Zenon
    <2>2. PICK o \in Occurrences(defn[s], cursor[s], c.at) : x = <<s, o, 0>>
      BY <2>1, Zenon DEF Planned
    <2>3. o \in defn[s].instants /\ cursor[s] <= o
      BY <2>1, PlanIsSound, Zenon
    <2>4. x[1] = s /\ x[2] = o
      BY <2>2, Zenon
    <2>5. o < cursor[s]
      BY <2>4, Zenon DEF Inv, RunsBehind
    <2> QED
      BY <2>1, <2>3, <2>5, Bounds
  <1> QED
    BY <1>1, Invariance, PTL

\* For any calendar, evaluate_occurrences plans under catch_up exactly the earliest
\* maxRuns of the occurrences that were missed.
THEOREM PlansAreEarliest == Spec => []PlanIsEarliestMissed
  <1>1. Inv => PlanIsEarliestMissed
    <2> SUFFICES ASSUME Inv, NEW r \in Replica, NEW c \in claims[r], c.defn.policy = "catch_up"
                 PROVE  LET missed == {o \in c.defn.instants : c.cursor <= o /\ o <= c.at}
                        IN  Occurrences(c.defn, c.cursor, c.at) =
                              {o \in missed : Cardinality({e \in missed : e < o}) < c.defn.maxRuns}
      BY Zenon DEF PlanIsEarliestMissed
    <2>1. c \in Claim
      BY Zenon DEF Inv, TypeOK
    <2>2. c.defn \in Definition /\ c.at \in 0..Horizon
      BY <2>1, Zenon DEF Claim
    <2>3. c.cursor \in c.defn.instants /\ c.cursor <= c.at
      BY Zenon DEF Inv, ClaimsWereDue
    <2> QED
      BY <2>2, <2>3, EarliestPlan, Zenon
  <1> QED
    BY <1>1, Invariance, PTL

\* A run is materialised only for the definition in force, since its last administrative
\* change, and never for a paused schedule: a pause, a resume and an update each make
\* every claim taken before them stale.
THEOREM RevisionIsFollowed == Spec => RunsFollowTheRevision
  <1> DEFINE A == \A run \in runs' \ runs :
                     run[3] = 0 => LET s == run[1] IN
                                   /\ ~paused[s]
                                   /\ run[2] \in defn[s].instants
                                   /\ since[s] <= run[2] /\ run[2] <= now
  <1>1. Inv /\ [Next]_vars => [A]_vars
    <2> SUFFICES ASSUME Inv, [Next]_vars, NEW run \in runs' \ runs, run[3] = 0
                 PROVE  LET s == run[1] IN
                        /\ ~paused[s]
                        /\ run[2] \in defn[s].instants
                        /\ since[s] <= run[2] /\ run[2] <= now
      BY Zenon
    <2>1. ASSUME NEW r \in Replica, Materialize(r)
          PROVE  LET s == run[1] IN
                 /\ ~paused[s]
                 /\ run[2] \in defn[s].instants
                 /\ since[s] <= run[2] /\ run[2] <= now
      <3>1. PICK c \in claims[r] : Owns(c) /\ runs' = runs \cup Planned(c)
        BY <2>1, Zenon DEF Materialize
      <3> DEFINE s == c.schedule
      <3>2. /\ s \in Schedule /\ c.defn = defn[s] /\ c.cursor = cursor[s] /\ ~paused[s]
            /\ defn[s] \in Definition /\ cursor[s] \in defn[s].instants
            /\ cursor[s] <= c.at /\ c.at \in 0..Horizon /\ c.at <= now
            /\ since[s] <= cursor[s] /\ since[s] \in defn[s].instants
        BY <3>1, OwnedClaim, Zenon
      <3>3. PICK o \in Occurrences(defn[s], cursor[s], c.at) : run = <<s, o, 0>>
        BY <3>1, <3>2, Zenon DEF Planned
      <3>4. o \in defn[s].instants /\ cursor[s] <= o /\ o <= c.at
        BY <3>2, PlanIsSound, Zenon
      <3>5. since[s] <= o /\ o <= now
        BY <3>2, <3>4, Bounds DEF Inv, TypeOK
      <3> QED
        BY <3>2, <3>3, <3>4, <3>5, Zenon
    <2>2. ASSUME NEW s \in Schedule, NEW o \in 1..Horizon, Replay(s, o)
          PROVE  FALSE
      <3>1. PICK n \in 1..MaxReplays : runs' = runs \cup {<<s, o, n>>}
        BY <2>2, ReplayAdds, Zenon
      <3>2. run = <<s, o, n>>
        BY <3>1, Zenon
      <3> QED
        BY <3>2
    <2>3. CASE runs' = runs
      BY <2>3, Zenon
    <2>4. \/ runs' = runs
          \/ \E r \in Replica : Materialize(r)
          \/ \E s \in Schedule, o \in 1..Horizon : Replay(s, o)
      BY Zenon DEF Next, vars, CreateSchedule, UpdateSchedule, SetPaused, Administer,
             ClaimDueSchedules, LoseClaim, Abandon, Elapse
    <2> QED
      BY <2>1, <2>2, <2>3, <2>4, Zenon
  <1> QED
    BY <1>1, Invariance, PTL DEF Spec, RunsFollowTheRevision
=============================================================================
