----------------------- MODULE TrajectorySpreadingProofs ----------------------
(***************************************************************************)
(* For all schedules, horizons and integration steps, a rollout follows    *)
(* its schedule, and a trajectory that was adjusted to a new schedule      *)
(* follows the new one: its points go up, its post-event indices are those *)
(* of the new events in it, and each point has the mode of the new         *)
(* schedule at its time.                                                   *)
(*                                                                         *)
(* Induction over the intervals of a rollout and over the events of a      *)
(* strategy uses the set of the numbers for which a fact holds (Induction).*)
(***************************************************************************)
EXTENDS TrajectorySpreading, FiniteSetTheorems, WellFoundedInduction, TLAPS

-----------------------------------------------------------------------------
(* Induction over the natural numbers, and bounds in sorted arrays.        *)

\* A set of natural numbers that is not empty has a least element.
LEMMA LeastElement ==
    ASSUME NEW T \in SUBSET Nat, T # {}
    PROVE  \E m \in T : \A y \in T : m <= y
<1>1. \E m \in T : \A y \in T : ~(<<y, m>> \in OpToRel(<, Nat))
  BY NatLessThanWellFounded, WFMin
<1>2. PICK m \in T : \A y \in T : ~(<<y, m>> \in OpToRel(<, Nat))
  BY <1>1
<1>3. \A y \in T : ~(y < m)
  BY <1>2 DEF OpToRel
<1>4. \A y \in T : m <= y
  BY <1>3
<1> QED BY <1>4

\* Induction, for a set in place of a predicate.
LEMMA Induction ==
    ASSUME NEW S, 0 \in S, \A n \in S \cap Nat : n + 1 \in S
    PROVE  Nat \subseteq S
<1> DEFINE T == {n \in Nat : n \notin S}
<1> SUFFICES ASSUME T # {} PROVE FALSE
  OBVIOUS
<1>1. PICK m \in T : \A y \in T : m <= y
  BY LeastElement
<1>2. m - 1 \in Nat /\ m - 1 \notin T
  BY <1>1
<1> QED BY <1>2

\* Arrays of times, sorted as the code's searches need them.
Sorted(times) == \A i, j \in DOMAIN times : i < j => times[i] <= times[j]

\* A condition that holds up to some index and not after it.
LEMMA Prefix ==
    ASSUME NEW n \in Nat, NEW S \in SUBSET (1..n),
           \A i, j \in 1..n : i < j /\ j \in S => i \in S
    PROVE  /\ Cardinality(S) \in 0..n
           /\ \A i \in 1..n : i <= Cardinality(S) <=> i \in S
<1> DEFINE T == {m \in Nat : m + 1 \in 1..n => m + 1 \notin S}
<1>1. n \in T /\ T \subseteq Nat
  OBVIOUS
<1>2. PICK m \in T : \A y \in T : m <= y
  BY <1>1, LeastElement
<1>3. m \in 0..n
  BY <1>1, <1>2
<1>4. \A i \in 1..m : i \in S
  <2> SUFFICES ASSUME NEW i \in 1..m PROVE i \in S
    OBVIOUS
  <2>1. i - 1 \in Nat /\ ~(m <= i - 1)
    BY <1>3
  <2>2. i - 1 \notin T
    BY <2>1, <1>2
  <2> QED BY <2>1, <2>2, <1>3
<1>5. \A i \in 1..n : i > m => i \notin S
  BY <1>2, <1>3
<1>6. S = 1..m
  <2>1. \A i \in S : i \in 1..n /\ ~(i > m)
    BY <1>5
  <2>2. S \subseteq 1..m
    BY <1>3, <2>1
  <2> QED BY <1>4, <2>2
<1>7. Cardinality(S) = m
  BY <1>3, <1>6, FS_Interval
<1> QED BY <1>3, <1>6, <1>7

\* std::upper_bound and std::lower_bound split a sorted array.
LEMMA Bounds ==
    ASSUME NEW times \in Seq(Int), Sorted(times), NEW t \in Int
    PROVE  /\ UpperBound(times, t) \in 0..Len(times)
           /\ \A i \in 1..Len(times) : i <= UpperBound(times, t) <=> times[i] <= t
           /\ LowerBound(times, t) \in 0..Len(times)
           /\ \A i \in 1..Len(times) : i <= LowerBound(times, t) <=> times[i] < t
<1> DEFINE n == Len(times)
           upper == {i \in 1..n : times[i] <= t}
           lower == {i \in 1..n : times[i] < t}
<1>1. n \in Nat /\ DOMAIN times = 1..n /\ \A i \in 1..n : times[i] \in Int
  OBVIOUS
<1>2. \A i, j \in 1..n : i < j => times[i] <= times[j]
  BY <1>1 DEF Sorted
<1>3. UpperBound(times, t) = Cardinality(upper) /\ LowerBound(times, t) = Cardinality(lower)
  BY <1>1 DEF UpperBound, LowerBound
<1>4. \A i, j \in 1..n : i < j /\ j \in upper => i \in upper
  BY <1>1, <1>2
<1>5. \A i, j \in 1..n : i < j /\ j \in lower => i \in lower
  BY <1>1, <1>2
<1>6. /\ Cardinality(upper) \in 0..n
      /\ \A i \in 1..n : i <= Cardinality(upper) <=> i \in upper
  BY <1>1, <1>4, Prefix
<1>7. /\ Cardinality(lower) \in 0..n
      /\ \A i \in 1..n : i <= Cardinality(lower) <=> i \in lower
  BY <1>1, <1>5, Prefix
<1> QED BY <1>3, <1>6, <1>7

\* A bound is known by its neighbours.
LEMMA UpperBoundIs ==
    ASSUME NEW times \in Seq(Int), Sorted(times), NEW t \in Int, NEW m \in 0..Len(times),
           m > 0 => times[m] <= t, m < Len(times) => t < times[m + 1]
    PROVE  UpperBound(times, t) = m
<1>1. /\ UpperBound(times, t) \in 0..Len(times)
      /\ \A i \in 1..Len(times) : i <= UpperBound(times, t) <=> times[i] <= t
  BY Bounds
<1>2. m > 0 => m <= UpperBound(times, t)
  BY <1>1
<1>3. m < Len(times) => ~(m + 1 <= UpperBound(times, t))
  BY <1>1
<1> QED BY <1>1, <1>2, <1>3

\* The same of the lower bound.
LEMMA LowerBoundIs ==
    ASSUME NEW times \in Seq(Int), Sorted(times), NEW t \in Int, NEW m \in 0..Len(times),
           m > 0 => times[m] < t, m < Len(times) => t <= times[m + 1]
    PROVE  LowerBound(times, t) = m
<1>1. /\ LowerBound(times, t) \in 0..Len(times)
      /\ \A i \in 1..Len(times) : i <= LowerBound(times, t) <=> times[i] < t
  BY Bounds
<1>2. m > 0 => m <= LowerBound(times, t)
  BY <1>1
<1>3. m < Len(times) => ~(m + 1 <= LowerBound(times, t))
  BY <1>1
<1> QED BY <1>1, <1>2, <1>3

-----------------------------------------------------------------------------
(* Schedules, time lines and post-event indices.                           *)

\* The event times of a schedule are multiples of Unit that go up, and there is
\* one mode more.
LEMMA Schedules ==
    ASSUME NEW s \in ModeSchedule
    PROVE  /\ s.eventTimes \in Seq(Int) /\ s.modeSequence \in Seq(Modes)
           /\ Len(s.modeSequence) = Len(s.eventTimes) + 1
           /\ \A i \in 1..Len(s.eventTimes) : \E e \in Int : s.eventTimes[i] = e * Unit
           /\ \A i, j \in 1..Len(s.eventTimes) : i < j => s.eventTimes[i] < s.eventTimes[j]
           /\ Sorted(s.eventTimes)
<1> DEFINE times == s.eventTimes
<1>1. PICK n \in Nat : s \in [eventTimes : [1..n -> {e * Unit : e \in Events}],
                              modeSequence : [1..(n + 1) -> Modes]]
  BY SpreadingAssumption DEF ModeSchedule
<1>2. /\ times \in [1..n -> {e * Unit : e \in Events}]
      /\ s.modeSequence \in [1..(n + 1) -> Modes]
  BY <1>1
<1>3. {e * Unit : e \in Events} \subseteq Int
  BY SpreadingAssumption DEF Unit
<1>4. /\ times \in Seq(Int) /\ Len(times) = n
      /\ s.modeSequence \in Seq(Modes) /\ Len(s.modeSequence) = n + 1
  BY <1>2, <1>3
<1>5. \A i \in 1..n : \E e \in Int : times[i] = e * Unit
  BY <1>2, SpreadingAssumption
<1>6. \A i \in 2..n : times[i - 1] < times[i]
  BY <1>4 DEF ModeSchedule
<1>7. \A i, j \in 1..n : i < j => times[i] < times[j]
  <2> SUFFICES ASSUME NEW i \in 1..n
               PROVE  \A j \in 1..n : i < j => times[i] < times[j]
    OBVIOUS
  <2> DEFINE S == {k \in Nat : i + k + 1 <= n => times[i] < times[i + k + 1]}
  <2> HIDE DEF times
  <2>1. 0 \in S
    BY <1>6
  <2>2. ASSUME NEW k \in S \cap Nat PROVE k + 1 \in S
    <3> SUFFICES ASSUME i + k + 2 <= n PROVE times[i] < times[i + k + 2]
      OBVIOUS
    <3>1. times[i] < times[i + k + 1]
      BY <2>2
    <3>2. i + k + 2 \in 2..n
      OBVIOUS
    <3>3. times[i + k + 1] < times[i + k + 2]
      BY <1>6, <3>2
    <3>4. /\ i + k + 1 \in 1..n /\ i + k + 2 \in 1..n
          /\ times[i] \in Int /\ times[i + k + 1] \in Int /\ times[i + k + 2] \in Int
      BY <1>4
    <3> QED BY <3>1, <3>3, <3>4
  <2>3. Nat \subseteq S
    BY <2>1, <2>2, Induction
  <2> SUFFICES ASSUME NEW j \in 1..n, i < j PROVE times[i] < times[j]
    OBVIOUS
  <2>4. j - i - 1 \in S /\ i + (j - i - 1) + 1 = j
    BY <2>3
  <2> QED BY <2>4
<1>8. Sorted(times)
  BY <1>4, <1>7 DEF Sorted
<1> QED BY <1>4, <1>5, <1>7, <1>8

\* The points of a trajectory go up; only the last two may have the same time.
TimeLine(time) ==
    /\ time \in Seq(Int) /\ time # << >>
    /\ \A i, j \in DOMAIN time : i < j =>
          \/ time[i] < time[j]
          \/ time[i] = time[j] /\ j = Len(time) /\ i = j - 1

\* The number of a point's mode in the schedule.
ModeIndex(s, time, k) ==
    IF k = Len(time) THEN UpperBound(s.eventTimes, time[k])
                     ELSE LowerBound(s.eventTimes, time[k])

\* The post-event index of an event in the time of the trajectory.
Post(time, e) == IF e = Last(time) THEN Len(time) - 1 ELSE UpperBound(time, e)

\* The points of a time line are integers that do not go down.
LEMMA TimeLines ==
    ASSUME NEW time, TimeLine(time)
    PROVE  /\ time \in Seq(Int) /\ Len(time) \in Nat \ {0} /\ DOMAIN time = 1..Len(time)
           /\ \A i \in 1..Len(time) : time[i] \in Int
           /\ Last(time) = time[Len(time)] /\ Last(time) \in Int
           /\ Sorted(time)
<1>1. /\ time \in Seq(Int) /\ Len(time) \in Nat \ {0} /\ DOMAIN time = 1..Len(time)
      /\ \A i \in 1..Len(time) : time[i] \in Int
  BY DEF TimeLine
<1>2. Sorted(time)
  BY <1>1 DEF TimeLine, Sorted
<1> QED BY <1>1, <1>2 DEF Last

\* Where an event splits the trajectory: the points up to its post-event index
\* are in the modes before it, the others in those behind it.
LEMMA PostSplits ==
    ASSUME NEW s \in ModeSchedule, NEW time, TimeLine(time),
           NEW i \in 1..Len(s.eventTimes), s.eventTimes[i] <= Last(time),
           NEW k \in 1..Len(time)
    PROVE  k <= Post(time, s.eventTimes[i]) <=> ModeIndex(s, time, k) < i
<1> DEFINE e == s.eventTimes[i]
           N == Len(time)
<1>1. /\ time \in Seq(Int) /\ N \in Nat \ {0} /\ time[k] \in Int
      /\ Last(time) = time[N] /\ time[N] \in Int /\ Sorted(time)
  BY TimeLines
<1>2. s.eventTimes \in Seq(Int) /\ Sorted(s.eventTimes) /\ e \in Int
  BY Schedules
<1>3. /\ LowerBound(s.eventTimes, time[k]) \in Int
      /\ i <= LowerBound(s.eventTimes, time[k]) <=> e < time[k]
      /\ UpperBound(s.eventTimes, time[k]) \in Int
      /\ i <= UpperBound(s.eventTimes, time[k]) <=> e <= time[k]
  <2>1. /\ UpperBound(s.eventTimes, time[k]) \in 0..Len(s.eventTimes)
        /\ \A j \in 1..Len(s.eventTimes) :
              j <= UpperBound(s.eventTimes, time[k]) <=> s.eventTimes[j] <= time[k]
        /\ LowerBound(s.eventTimes, time[k]) \in 0..Len(s.eventTimes)
        /\ \A j \in 1..Len(s.eventTimes) :
              j <= LowerBound(s.eventTimes, time[k]) <=> s.eventTimes[j] < time[k]
    BY <1>1, <1>2, Bounds
  <2> QED BY <2>1
<1>4. UpperBound(time, e) \in 0..N /\ (k <= UpperBound(time, e) <=> time[k] <= e)
  BY <1>1, <1>2, Bounds
<1>5. CASE k = N
  <2>1. ModeIndex(s, time, k) < i <=> time[k] < e
    BY <1>1, <1>2, <1>3, <1>5 DEF ModeIndex
  <2>2. ~(k <= Post(time, e))
    BY <1>1, <1>2, <1>4, <1>5 DEF Post
  <2> QED BY <2>1, <2>2, <1>1, <1>2, <1>5
<1>6. CASE k # N
  <2>1. ModeIndex(s, time, k) < i <=> time[k] <= e
    BY <1>1, <1>2, <1>3, <1>6 DEF ModeIndex
  <2>2. time[k] <= time[N]
    BY <1>1, <1>6 DEF Sorted
  <2>3. k <= Post(time, e) <=> time[k] <= e
    BY <1>1, <1>2, <1>4, <1>6, <2>2 DEF Post
  <2> QED BY <2>1, <2>3
<1> QED BY <1>5, <1>6

\* A point in the time of an event, unless it is the last, is the one before it.
LEMMA PostIs ==
    ASSUME NEW time, TimeLine(time), NEW m \in 1..(Len(time) - 1)
    PROVE  Post(time, time[m]) = m
<1> DEFINE N == Len(time)
<1>1. /\ time \in Seq(Int) /\ N \in Nat \ {0} /\ DOMAIN time = 1..N /\ Sorted(time)
      /\ Last(time) = time[N] /\ \A i \in 1..N : time[i] \in Int
  BY TimeLines
<1>2. CASE time[m] = time[N]
  <2>1. m \in 1..N /\ N \in 1..N /\ m < N /\ ~(time[m] < time[N])
    BY <1>1, <1>2
  <2>2. time[m] < time[N] \/ m = N - 1
    BY <1>1, <2>1 DEF TimeLine
  <2>3. m = N - 1
    BY <2>1, <2>2
  <2> QED BY <1>1, <1>2, <2>3 DEF Post
<1>3. CASE time[m] # time[N]
  <2>1. time[m] < time[m + 1]
    BY <1>1, <1>3 DEF TimeLine
  <2>2. UpperBound(time, time[m]) = m
    BY <1>1, <2>1, UpperBoundIs
  <2> QED BY <1>1, <1>3, <2>2 DEF Post
<1> QED BY <1>2, <1>3

\* An event of the trajectory splits it.
LEMMA PostRange ==
    ASSUME NEW time, TimeLine(time), NEW e \in Int, e <= Last(time)
    PROVE  /\ Post(time, e) \in 0..(Len(time) - 1)
           /\ time[1] < e => Post(time, e) \in 1..(Len(time) - 1)
<1> DEFINE N == Len(time)
<1>1. /\ time \in Seq(Int) /\ N \in Nat \ {0} /\ DOMAIN time = 1..N /\ Sorted(time)
      /\ Last(time) = time[N] /\ \A i \in 1..N : time[i] \in Int
  BY TimeLines
<1>2. /\ UpperBound(time, e) \in 0..N
      /\ \A i \in 1..N : i <= UpperBound(time, e) <=> time[i] <= e
  BY <1>1, Bounds
<1>3. CASE e = time[N]
  BY <1>1, <1>3 DEF Post
<1>4. CASE e # time[N]
  BY <1>1, <1>2, <1>4 DEF Post
<1> QED BY <1>3, <1>4

\* findPostEventIndices() finds these indices, if only the last event may be at
\* the end of the trajectory.
LEMMA FoundPosts ==
    ASSUME NEW time, TimeLine(time), NEW times \in Seq(Int),
           \A i \in 1..(Len(times) - 1) : times[i] # Last(time)
    PROVE  /\ FindPostEventIndices(times, time) \in Seq(Nat)
           /\ Len(FindPostEventIndices(times, time)) = Len(times)
           /\ \A i \in 1..Len(times) :
                 FindPostEventIndices(times, time)[i] = Post(time, times[i])
<1>1. /\ time \in Seq(Int) /\ Sorted(time) /\ Len(time) \in Nat \ {0}
  BY TimeLines
<1>2. ASSUME NEW i \in 1..Len(times) PROVE Post(time, times[i]) \in Nat
  <2>1. times[i] \in Int
    OBVIOUS
  <2>2. UpperBound(time, times[i]) \in 0..Len(time)
    BY <1>1, <2>1, Bounds
  <2> QED BY <1>1, <2>2 DEF Post
<1>3. FindPostEventIndices(times, time) = [i \in 1..Len(times) |-> Post(time, times[i])]
  BY DEF FindPostEventIndices, Post
<1> QED BY <1>2, <1>3

\* A part of a sequence.
LEMMA Slice ==
    ASSUME NEW S, NEW p \in Seq(S), NEW a \in Nat, NEW b \in Nat, a + b <= Len(p),
           NEW q, q = SubSeq(p, a + 1, a + b)
    PROVE  q \in Seq(S) /\ Len(q) = b /\ \A i \in 1..b : q[i] = p[a + i]
<1>1. Len(q) = b
  OBVIOUS
<1>2. ASSUME NEW i \in 1..b PROVE q[i] = p[a + i] /\ q[i] \in S
  OBVIOUS
<1>3. q \in Seq(S)
  OBVIOUS
<1> QED BY <1>1, <1>2, <1>3

-----------------------------------------------------------------------------
(* The rollout, interval by interval.                                      *)

\* A sequence between a first and a last element.
LEMMA Framed ==
    ASSUME NEW S, NEW a \in S, NEW inner \in Seq(S), NEW b \in S
    PROVE  LET p == <<a>> \o inner \o <<b>>
           IN  /\ p \in Seq(S) /\ Len(p) = Len(inner) + 2 /\ p[1] = a /\ p[Len(inner) + 2] = b
               /\ \A k \in 2..(Len(inner) + 1) : p[k] = inner[k - 1]
  OBVIOUS

\* The points of an interval, from its first to its last.
LEMMA PointsShape ==
    ASSUME NEW interval, NEW fine \in BOOLEAN,
           interval.first \in Int, interval.last \in Int, interval.first <= interval.last
    PROVE  /\ Points(interval, fine) \in Seq(Int) /\ Len(Points(interval, fine)) \in Nat \ {0}
           /\ \A k \in 1..Len(Points(interval, fine)) :
                 /\ interval.first <= Points(interval, fine)[k]
                 /\ Points(interval, fine)[k] <= interval.last
           /\ \A j, k \in 1..Len(Points(interval, fine)) :
                 j < k => Points(interval, fine)[j] < Points(interval, fine)[k]
           /\ Points(interval, fine)[1] = interval.first
           /\ Points(interval, fine)[Len(Points(interval, fine))] = interval.last
<1> DEFINE a == interval.first
           b == interval.last
           before == a \div Half
           n == IF fine THEN ((b - 1) \div Half) - before ELSE 0
           inner == [k \in 1..n |-> (before + k) * Half]
<1>1. CASE a = b
  <2>1. Points(interval, fine) = <<b>>
    BY <1>1 DEF Points
  <2> QED BY <1>1, <2>1
<1>2. CASE a < b
  <2>1. /\ before \in Int /\ before * 4 <= a /\ a < before * 4 + 4
        /\ ((b - 1) \div 4) \in Int /\ ((b - 1) \div 4) * 4 <= b - 1
        /\ b - 1 < ((b - 1) \div 4) * 4 + 4
    BY DEF Half
  <2>2. n \in Nat
    BY <1>2, <2>1 DEF Half
  <2>3. /\ inner \in Seq(Int) /\ Len(inner) = n
        /\ \A k \in 1..n : inner[k] = (before + k) * 4
    <3>1. \A k \in 1..n : (before + k) * Half \in Int /\ (before + k) * Half = (before + k) * 4
      BY <2>1, <2>2 DEF Half
    <3> HIDE DEF before, n
    <3> QED BY <2>2, <3>1
  <2>4. \A k \in 1..n : a < inner[k] /\ inner[k] < b
    <3> SUFFICES ASSUME NEW k \in 1..n
                 PROVE  a < (before + k) * 4 /\ (before + k) * 4 < b
      BY <2>3
    <3>1. n = ((b - 1) \div 4) - before
      BY <2>2 DEF Half
    <3>2. before + k \in Int /\ before + 1 <= before + k /\ before + k <= (b - 1) \div 4
      BY <2>1, <2>2, <3>1
    <3> HIDE DEF before, n
    <3> QED BY <2>1, <3>2
  <2>5. \A j, k \in 1..n : j < k => inner[j] < inner[k]
    <3>1. before \in Int /\ n \in Nat /\ \A k \in 1..n : inner[k] = (before + k) * 4
      BY <2>1, <2>2, <2>3
    <3> HIDE DEF before, n, inner
    <3> QED BY <3>1
  <2> DEFINE p == <<a>> \o inner \o <<b>>
  <2>6. p = Points(interval, fine)
    BY <1>2 DEF Points
  <2> HIDE DEF inner, n
  <2>7. /\ p \in Seq(Int) /\ Len(p) = n + 2 /\ p[1] = a /\ p[n + 2] = b
        /\ \A k \in 2..(n + 1) : p[k] = inner[k - 1]
    BY <2>2, <2>3, Framed
  <2> HIDE DEF p
  <2>8. \A k \in 1..(n + 2) :
                k = 1 \/ k = n + 2 \/ (k \in 2..(n + 1) /\ k - 1 \in 1..n)
    BY <2>2
  <2>9. \A k \in 1..(n + 2) : a <= p[k] /\ p[k] <= b
    BY <1>2, <2>2, <2>4, <2>7, <2>8
  <2>10. ASSUME NEW j \in 1..(n + 2), NEW k \in 1..(n + 2), j < k PROVE p[j] < p[k]
    <3>1. CASE j = 1
      BY <1>2, <2>2, <2>4, <2>7, <2>8, <2>10, <3>1
    <3>2. CASE k = n + 2
      BY <1>2, <2>2, <2>4, <2>7, <2>8, <2>10, <3>2
    <3>3. CASE j # 1 /\ k # n + 2
      <4>1. /\ j \in 2..(n + 1) /\ k \in 2..(n + 1)
            /\ j - 1 \in 1..n /\ k - 1 \in 1..n /\ j - 1 < k - 1
        BY <2>2, <2>10, <3>3
      <4> QED BY <2>5, <2>7, <4>1
    <3> QED BY <3>1, <3>2, <3>3
  <2> QED BY <2>2, <2>6, <2>7, <2>9, <2>10
<1> QED BY <1>1, <1>2

\* The number of events in a horizon.
NumEvents(times, init, final) == UpperBound(times, final) - UpperBound(times, init)

\* The times between which a horizon is divided: its ends and the events in it.
Mark(times, init, final, j) ==
    IF j = 0 THEN init
    ELSE IF j <= NumEvents(times, init, final) THEN times[UpperBound(times, init) + j]
    ELSE final

\* The marks go up, the last two of them perhaps not strictly.
LEMMA Marks ==
    ASSUME NEW s \in ModeSchedule, NEW init \in Int, NEW final \in Int, init <= final
    PROVE  LET times == s.eventTimes
               a == UpperBound(times, init)
               n == NumEvents(times, init, final)
               mark(j) == Mark(times, init, final, j)
           IN  /\ a \in 0..Len(times) /\ n \in Nat /\ a + n = UpperBound(times, final)
               /\ a + n <= Len(times)
               /\ \A i \in 1..Len(times) : i <= a <=> times[i] <= init
               /\ \A i \in 1..Len(times) : i <= a + n <=> times[i] <= final
               /\ mark(0) = init /\ mark(n + 1) = final
               /\ \A j \in 1..n : mark(j) = times[a + j] /\ a + j \in 1..Len(times)
               /\ \A j \in 0..(n + 1) : mark(j) \in Int
               /\ \A j \in 1..n : mark(j - 1) < mark(j)
               /\ mark(n) <= mark(n + 1)
<1> DEFINE times == s.eventTimes
           a == UpperBound(times, init)
           b == UpperBound(times, final)
           n == NumEvents(times, init, final)
           mark(j) == Mark(times, init, final, j)
<1>1. /\ times \in Seq(Int) /\ Sorted(times) /\ \A i \in 1..Len(times) : times[i] \in Int
      /\ \A i, j \in 1..Len(times) : i < j => times[i] < times[j]
  BY Schedules
<1>2. /\ a \in 0..Len(times)
      /\ \A i \in 1..Len(times) : i <= a <=> times[i] <= init
  BY <1>1, Bounds
<1>3. /\ b \in 0..Len(times)
      /\ \A i \in 1..Len(times) : i <= b <=> times[i] <= final
  BY <1>1, Bounds
<1>4. a <= b
  <2> HIDE DEF a, b
  <2>1. CASE a = 0
    BY <1>3, <2>1
  <2>2. CASE a # 0
    <3>1. a \in 1..Len(times) /\ a <= a
      BY <1>2, <2>2
    <3>2. times[a] <= init /\ times[a] \in Int
      BY <1>1, <1>2, <3>1
    <3>3. times[a] <= final
      BY <3>2
    <3> QED BY <1>3, <3>1, <3>3
  <2> QED BY <2>1, <2>2
<1>5. n \in Nat /\ a + n = b /\ a + n <= Len(times)
  BY <1>2, <1>3, <1>4 DEF NumEvents
<1>6. /\ mark(0) = init /\ mark(n + 1) = final
      /\ \A j \in 1..n : mark(j) = times[a + j] /\ a + j \in 1..Len(times)
  BY <1>2, <1>5 DEF Mark
<1> HIDE DEF mark, n, a, b, times
<1>7. \A j \in 0..(n + 1) : mark(j) \in Int
  <2> SUFFICES ASSUME NEW j \in 0..(n + 1) PROVE mark(j) \in Int
    OBVIOUS
  <2>1. j = 0 \/ j = n + 1 \/ j \in 1..n
    BY <1>5
  <2> QED BY <1>1, <1>6, <2>1
<1>8. ASSUME NEW j \in 1..n PROVE mark(j - 1) < mark(j)
  <2>1. CASE j = 1
    <3>1. a + 1 \in 1..Len(times) /\ mark(1) = times[a + 1] /\ times[a + 1] \in Int
      BY <1>1, <1>6, <2>1
    <3>2. ~(times[a + 1] <= init)
      BY <1>2, <3>1
    <3> QED BY <1>6, <2>1, <3>1, <3>2
  <2>2. CASE j # 1
    <3>1. /\ j - 1 \in 1..n /\ a + j \in 1..Len(times) /\ a + (j - 1) \in 1..Len(times)
          /\ mark(j) = times[a + j] /\ mark(j - 1) = times[a + (j - 1)]
      BY <1>5, <1>6, <2>2
    <3>2. a + (j - 1) < a + j
      BY <1>2, <1>5
    <3> QED BY <1>1, <3>1, <3>2
  <2> QED BY <2>1, <2>2
<1>9. mark(n) <= mark(n + 1)
  <2>1. CASE n = 0
    BY <1>6, <2>1
  <2>2. CASE n # 0
    <3>1. n \in 1..n /\ mark(n) = times[a + n] /\ a + n \in 1..Len(times)
      BY <1>5, <1>6, <2>2
    <3> QED BY <1>3, <1>5, <1>6, <3>1
  <2> QED BY <2>1, <2>2
<1> QED BY <1>2, <1>3, <1>5, <1>6, <1>7, <1>8, <1>9 DEF mark, n, a, b, times

\* The intervals lie between the marks, and only the last one can be empty.
LEMMA Intervals ==
    ASSUME NEW s \in ModeSchedule, NEW init \in Int, NEW final \in Int, init <= final
    PROVE  LET times == s.eventTimes
               n == NumEvents(times, init, final)
               mark(j) == Mark(times, init, final, j)
               intervals == FindActiveModesTimeInterval(init, final, times)
           IN  /\ Len(intervals) = n + 1
               /\ \A j \in 1..(n + 1) :
                     /\ intervals[j].last = mark(j)
                     /\ intervals[j].first = Least(mark(j - 1) + 1, mark(j))
<1> DEFINE times == s.eventTimes
           a == UpperBound(times, init)
           b == UpperBound(times, final)
           n == NumEvents(times, init, final)
           mark(j) == Mark(times, init, final, j)
           inner == SubSeq(times, a + 1, b)
           switching == <<init>> \o inner \o <<final>>
           intervals == FindActiveModesTimeInterval(init, final, times)
<1>1. /\ times \in Seq(Int) /\ a \in 0..Len(times) /\ n \in Nat /\ a + n = b
      /\ a + n <= Len(times)
      /\ mark(0) = init /\ mark(n + 1) = final
      /\ \A j \in 1..n : mark(j) = times[a + j] /\ a + j \in 1..Len(times)
  BY Marks, Schedules
<1> HIDE DEF mark, n, a, b, times
<1>2. /\ inner \in Seq(Int) /\ Len(inner) = n
      /\ \A j \in 1..n : inner[j] = times[a + j]
  BY <1>1
<1> HIDE DEF inner
<1>3. /\ switching \in Seq(Int) /\ Len(switching) = n + 2
      /\ switching[1] = init /\ switching[n + 2] = final
      /\ \A j \in 2..(n + 1) : switching[j] = inner[j - 1]
  BY <1>2, Framed
<1>4. intervals = [i \in 1..(Len(switching) - 1) |->
                     [first |-> Least(switching[i] + Epsilon, switching[i + 1]),
                      last  |-> switching[i + 1]]]
  BY DEF FindActiveModesTimeInterval, intervals, switching, inner, a, b
<1> HIDE DEF switching, intervals
<1>5. \A j \in 0..(n + 1) : switching[j + 1] = mark(j)
  <2> SUFFICES ASSUME NEW j \in 0..(n + 1) PROVE switching[j + 1] = mark(j)
    OBVIOUS
  <2>1. CASE j \in 1..n
    <3>1. j + 1 \in 2..(n + 1) /\ (j + 1) - 1 = j
      BY <1>1, <2>1
    <3>2. switching[j + 1] = inner[j] /\ inner[j] = times[a + j] /\ times[a + j] = mark(j)
      BY <1>1, <1>2, <1>3, <2>1, <3>1
    <3> QED BY <3>2
  <2>2. CASE j \notin 1..n
    <3>1. j = 0 \/ j = n + 1
      BY <1>1, <2>2
    <3>2. CASE j = 0
      <4>1. j + 1 = 1 /\ mark(j) = mark(0)
        BY <3>2
      <4> QED BY <1>1, <1>3, <4>1
    <3>3. CASE j = n + 1
      <4>1. j + 1 = n + 2 /\ mark(j) = mark(n + 1)
        BY <1>1, <3>3
      <4> QED BY <1>1, <1>3, <4>1
    <3> QED BY <3>1, <3>2, <3>3
  <2> QED BY <2>1, <2>2
<1>6. Len(intervals) = n + 1
  BY <1>1, <1>3, <1>4
<1>7. ASSUME NEW j \in 1..(n + 1)
      PROVE  /\ intervals[j].last = mark(j)
             /\ intervals[j].first = Least(mark(j - 1) + 1, mark(j))
  <2>1. /\ j - 1 \in 0..(n + 1) /\ j \in 0..(n + 1) /\ (j - 1) + 1 = j
        /\ j \in 1..(Len(switching) - 1)
    BY <1>1, <1>3
  <2>2. switching[j] = mark(j - 1) /\ switching[j + 1] = mark(j)
    BY <1>5, <2>1
  <2>3. intervals[j] = [first |-> Least(switching[j] + Epsilon, switching[j + 1]),
                        last  |-> switching[j + 1]]
    BY <1>4, <2>1
  <2> QED BY <2>2, <2>3 DEF Epsilon
<1> QED BY <1>6, <1>7 DEF mark, n, intervals, times

\* The recursion of Rollout() is well-founded.
IsRolled(rolled, n, intervals, s, first, fine) ==
    rolled = [i \in 0..n |->
                IF i = 0 THEN NoTrajectory
                ELSE RollOutInterval(rolled[i - 1], intervals, i,
                                     At(s.modeSequence, first + i - 1), fine)]

\* There is a function that satisfies the recursion of Rollout(), by induction.
LEMMA RolledExists ==
    ASSUME NEW intervals, NEW s, NEW first, NEW fine, NEW n \in Nat
    PROVE  \E rolled : IsRolled(rolled, n, intervals, s, first, fine)
<1> DEFINE Step(g, i) == IF i = 0 THEN NoTrajectory
                         ELSE RollOutInterval(g[i - 1], intervals, i,
                                              At(s.modeSequence, first + i - 1), fine)
           S == {m \in Nat : \E g : g = [i \in 0..m |-> Step(g, i)]}
<1>1. 0 \in S
  <2> DEFINE g == [i \in 0..0 |-> NoTrajectory]
  <2>1. g = [i \in 0..0 |-> Step(g, i)]
    OBVIOUS
  <2> QED BY <2>1
<1>2. ASSUME NEW m \in S \cap Nat PROVE m + 1 \in S
  <2>1. PICK g : g = [i \in 0..m |-> Step(g, i)]
    BY <1>2
  <2> DEFINE h == [i \in 0..(m + 1) |-> Step(g, i)]
  <2>2. ASSUME NEW i \in 0..(m + 1) PROVE Step(g, i) = Step(h, i)
    <3>1. i # 0 => i - 1 \in 0..m /\ i - 1 \in 0..(m + 1)
      OBVIOUS
    <3>2. i # 0 => h[i - 1] = g[i - 1]
      BY <2>1, <3>1
    <3> QED BY <3>2
  <2>3. h = [i \in 0..(m + 1) |-> Step(h, i)]
    BY <2>2
  <2> HIDE DEF h
  <2>4. \E e : e = [i \in 0..(m + 1) |-> Step(e, i)]
    BY <2>3
  <2> QED BY <2>4
<1>3. n \in S
  BY <1>1, <1>2, Induction
<1> QED BY <1>3 DEF IsRolled

\* So Rollout() adds one interval after the other.
LEMMA RolloutSteps ==
    ASSUME NEW horizon, NEW s, NEW fine, NEW n \in Nat,
           Len(FindActiveModesTimeInterval(horizon[1], horizon[2], s.eventTimes)) = n
    PROVE  \E rolled :
              /\ rolled[0] = NoTrajectory
              /\ \A i \in 1..n :
                    rolled[i] = RollOutInterval(rolled[i - 1],
                        FindActiveModesTimeInterval(horizon[1], horizon[2], s.eventTimes), i,
                        At(s.modeSequence, UpperBound(s.eventTimes, horizon[1]) + i - 1), fine)
              /\ Rollout(horizon, s, fine) = rolled[n]
<1> DEFINE intervals == FindActiveModesTimeInterval(horizon[1], horizon[2], s.eventTimes)
           first == UpperBound(s.eventTimes, horizon[1])
           P(g) == IsRolled(g, n, intervals, s, first, fine)
           rolled == CHOOSE g : P(g)
<1>1. P(rolled)
  <2>1. \E g : P(g)
    BY RolledExists
  <2> HIDE DEF P
  <2> QED BY <2>1
<1>2. Rollout(horizon, s, fine) = rolled[n]
  BY DEF Rollout, IsRolled
<1> HIDE DEF rolled
<1>3. rolled[0] = NoTrajectory
  BY <1>1 DEF IsRolled
<1>4. \A i \in 1..n : rolled[i] = RollOutInterval(rolled[i - 1], intervals, i,
                                    At(s.modeSequence, first + i - 1), fine)
  BY <1>1 DEF IsRolled
<1> QED BY <1>2, <1>3, <1>4

\* Point k lies in interval j and has its mode.
InInterval(r, s, init, final, k, j) ==
    /\ r.mode[k] = At(s.modeSequence, UpperBound(s.eventTimes, init) + j - 1)
    /\ r.time[k] <= Mark(s.eventTimes, init, final, j)
    /\ Mark(s.eventTimes, init, final, j - 1) < r.time[k] \/ k = Len(r.time)

\* The trajectory after i intervals. Each point lies in the interval whose mode it
\* has; no two have the same time, except an event at the end of the horizon.
RolledUpTo(r, s, init, final, i) ==
    LET n == NumEvents(s.eventTimes, init, final)
        mark(j) == Mark(s.eventTimes, init, final, j)
        N == Len(r.time)
    IN  /\ r.time \in Seq(Int) /\ r.mode \in Seq(Modes) /\ Len(r.mode) = N
        /\ i > 0 => /\ N > 0
                    /\ r.time[1] = Least(init + 1, mark(1)) /\ r.time[N] = mark(i)
        /\ \A k, l \in 1..N : k < l =>
              \/ r.time[k] < r.time[l]
              \/ r.time[k] = r.time[l] /\ l = N /\ k = l - 1 /\ i = n + 1
        /\ r.postEventIndices \in Seq(Nat) /\ Len(r.postEventIndices) = Least(i, n)
        /\ \A j \in 1..Least(i, n) :
              /\ r.postEventIndices[j] \in 1..N /\ r.time[r.postEventIndices[j]] = mark(j)
              /\ j < i => r.postEventIndices[j] < N
        /\ \A k \in 1..N : \E j \in 1..i :
              InInterval(r, s, init, final, k, j) /\ (k = N => j = i)

\* Before the first interval.
LEMMA NothingRolled ==
    ASSUME NEW s \in ModeSchedule, NEW init \in Int, NEW final \in Int, init <= final
    PROVE  RolledUpTo(NoTrajectory, s, init, final, 0)
<1>1. NumEvents(s.eventTimes, init, final) \in Nat
  BY Marks
<1>2. Least(0, NumEvents(s.eventTimes, init, final)) = 0
  BY <1>1 DEF Least
<1> QED BY <1>2 DEF RolledUpTo, NoTrajectory

\* The sequences of a trajectory grow by appending.
LEMMA Appended ==
    ASSUME NEW S, NEW p \in Seq(S), NEW q \in Seq(S), NEW N, NEW K, N = Len(p), K = Len(q)
    PROVE  /\ p \o q \in Seq(S) /\ Len(p \o q) = N + K
           /\ \A k \in 1..(N + K) :
                 \/ k \in 1..N /\ (p \o q)[k] = p[k]
                 \/ k > N /\ k - N \in 1..K /\ (p \o q)[k] = q[k - N]
           /\ \A k \in 1..N : (p \o q)[k] = p[k]
           /\ \A k \in 1..K : (p \o q)[k + N] = q[k]
  OBVIOUS

\* An interval appends at most one post-event index.
LEMMA AppendedOne ==
    ASSUME NEW S, NEW p \in Seq(S), NEW x \in S
    PROVE  p \o << >> = p /\ p \o <<x>> = Append(p, x)
  OBVIOUS

\* One interval more.
LEMMA IntervalRolled ==
    ASSUME NEW s \in ModeSchedule, NEW init \in Int, NEW final \in Int, init <= final,
           NEW fine \in BOOLEAN, NEW r, NEW i \in 0..NumEvents(s.eventTimes, init, final),
           RolledUpTo(r, s, init, final, i)
    PROVE  RolledUpTo(RollOutInterval(r,
                          FindActiveModesTimeInterval(init, final, s.eventTimes), i + 1,
                          At(s.modeSequence, UpperBound(s.eventTimes, init) + (i + 1) - 1),
                          fine),
                      s, init, final, i + 1)
<1> DEFINE times == s.eventTimes
           a == UpperBound(times, init)
           n == NumEvents(times, init, final)
           mark(j) == Mark(times, init, final, j)
           intervals == FindActiveModesTimeInterval(init, final, times)
           m == At(s.modeSequence, a + (i + 1) - 1)
           p == Points(intervals[i + 1], fine)
           q == [k \in DOMAIN p |-> m]
           N == Len(r.time)
           K == Len(p)
           r2 == RollOutInterval(r, intervals, i + 1, m, fine)
           post == r.postEventIndices
           new == IF i + 1 < Len(intervals) THEN <<N + K>> ELSE << >>
<1>1. /\ n \in Nat /\ a \in Nat /\ a + n <= Len(times)
      /\ \A j \in 0..(n + 1) : mark(j) \in Int
      /\ \A j \in 1..n : mark(j - 1) < mark(j)
      /\ mark(n) <= mark(n + 1) /\ mark(0) = init
  <2>1. /\ a \in 0..Len(times) /\ n \in Nat /\ a + n <= Len(times)
        /\ \A j \in 0..(n + 1) : mark(j) \in Int
        /\ \A j \in 1..n : mark(j - 1) < mark(j)
        /\ mark(n) <= mark(n + 1) /\ mark(0) = init
    <3>1. a \in 0..Len(times) /\ n \in Nat /\ a + n <= Len(times)
      BY Marks
    <3>2. \A j \in 0..(n + 1) : mark(j) \in Int
      BY Marks
    <3>3. \A j \in 1..n : mark(j - 1) < mark(j)
      BY Marks
    <3>4. mark(n) <= mark(n + 1) /\ mark(0) = init
      BY Marks
    <3> QED BY <3>1, <3>2, <3>3, <3>4
  <2>2. Len(times) \in Nat
    BY Schedules
  <2> HIDE DEF a, n, mark, times
  <2> QED BY <2>1, <2>2
<1>2. i \in Nat /\ i <= n /\ i # n + 1
  BY <1>1
<1>3. /\ Len(intervals) = n + 1
      /\ intervals[i + 1].last = mark(i + 1)
      /\ intervals[i + 1].first = Least(mark(i) + 1, mark(i + 1))
  <2>1. /\ Len(intervals) = n + 1
        /\ \A j \in 1..(n + 1) :
              /\ intervals[j].last = mark(j)
              /\ intervals[j].first = Least(mark(j - 1) + 1, mark(j))
    BY Intervals
  <2>2. i + 1 \in 1..(n + 1) /\ (i + 1) - 1 = i
    BY <1>2, <1>1
  <2> HIDE DEF intervals, mark, n
  <2>3. intervals[i + 1].last = mark(i + 1)
    BY <2>1, <2>2
  <2>4. intervals[i + 1].first = Least(mark((i + 1) - 1) + 1, mark(i + 1))
    BY <2>1, <2>2
  <2> QED BY <2>1, <2>2, <2>3, <2>4
<1>4. mark(i) \in Int /\ mark(i + 1) \in Int /\ mark(i) <= mark(i + 1)
      /\ (i < n => mark(i) < mark(i + 1))
  <2>1. i + 1 \in 0..(n + 1) /\ i \in 0..(n + 1) /\ (i < n => i + 1 \in 1..n) /\ (i + 1) - 1 = i
    BY <1>1
  <2> QED BY <1>1, <2>1
<1> DEFINE first == Least(mark(i) + 1, mark(i + 1))
<1>5. first \in Int /\ first <= mark(i + 1) /\ (mark(i) < mark(i + 1) => mark(i) < first)
      /\ mark(i) <= first
  BY <1>4 DEF Least
<1>6. /\ p \in Seq(Int) /\ K \in Nat \ {0}
      /\ \A k \in 1..K : p[k] \in Int /\ first <= p[k] /\ p[k] <= mark(i + 1)
      /\ \A j, k \in 1..K : j < k => p[j] < p[k]
      /\ p[1] = first /\ p[K] = mark(i + 1)
  <2>1. /\ intervals[i + 1].first = first /\ intervals[i + 1].last = mark(i + 1)
        /\ intervals[i + 1].first \in Int /\ intervals[i + 1].last \in Int
        /\ intervals[i + 1].first <= intervals[i + 1].last
    BY <1>3, <1>4, <1>5
  <2> DEFINE interval == intervals[i + 1]
  <2> HIDE DEF first, interval, mark
  <2>2. /\ p \in Seq(Int) /\ K \in Nat \ {0}
        /\ \A k \in 1..K : interval.first <= p[k] /\ p[k] <= interval.last
        /\ \A j, k \in 1..K : j < k => p[j] < p[k]
        /\ p[1] = interval.first /\ p[K] = interval.last
    BY <2>1, PointsShape DEF interval
  <2>3. \A k \in 1..K : p[k] \in Int
    BY <2>2
  <2> QED BY <2>1, <2>2, <2>3 DEF interval
<1>7. m \in Modes /\ q \in Seq(Modes) /\ Len(q) = K /\ \A k \in 1..K : q[k] = m
  <2>1. m \in Modes
    <3> DEFINE h == a + (i + 1) - 1
    <3>1. s.modeSequence \in Seq(Modes) /\ Len(s.modeSequence) = Len(times) + 1
          /\ Len(times) \in Nat
      BY Schedules
    <3> HIDE DEF a, n, times
    <3>2. h + 1 \in 1..Len(s.modeSequence)
      BY <1>2, <1>1, <3>1
    <3> HIDE DEF h
    <3>3. At(s.modeSequence, h) \in Modes
      BY <3>1, <3>2 DEF At
    <3> QED BY <3>3 DEF h
  <2> QED BY <1>6, <2>1
<1>8. /\ r2.time = r.time \o p /\ r2.mode = r.mode \o q
      /\ r2.postEventIndices = post \o new
  BY DEF RollOutInterval
<1>9. /\ r.time \in Seq(Int) /\ r.mode \in Seq(Modes) /\ Len(r.mode) = N /\ N \in Nat
      /\ i > 0 => /\ N > 0
                  /\ r.time[1] = Least(init + 1, mark(1)) /\ r.time[N] = mark(i)
      /\ \A k, l \in 1..N : k < l =>
            \/ r.time[k] < r.time[l]
            \/ r.time[k] = r.time[l] /\ l = N /\ k = l - 1 /\ i = n + 1
      /\ post \in Seq(Nat) /\ Len(post) = Least(i, n)
      /\ \A j \in 1..Least(i, n) :
            /\ post[j] \in 1..N /\ r.time[post[j]] = mark(j)
            /\ j < i => post[j] < N
      /\ \A k \in 1..N : \E j \in 1..i :
            InInterval(r, s, init, final, k, j) /\ (k = N => j = i)
  BY DEF RolledUpTo
<1>10. i = 0 => N = 0
  BY <1>9
<1> HIDE DEF times, a, n, mark, intervals, m, p, q, N, K, r2, first
<1>11. /\ r2.time \in Seq(Int) /\ Len(r2.time) = N + K
       /\ \A k \in 1..(N + K) :
             \/ k \in 1..N /\ r2.time[k] = r.time[k]
             \/ k > N /\ k - N \in 1..K /\ r2.time[k] = p[k - N]
       /\ \A k \in 1..N : r2.time[k] = r.time[k]
       /\ \A k \in 1..K : r2.time[k + N] = p[k]
  <2> DEFINE before == r.time
  <2>1. before \in Seq(Int) /\ p \in Seq(Int) /\ N = Len(before) /\ K = Len(p)
    BY <1>6, <1>9 DEF N, K
  <2> HIDE DEF before
  <2>2. /\ before \o p \in Seq(Int) /\ Len(before \o p) = N + K
        /\ \A k \in 1..(N + K) :
              \/ k \in 1..N /\ (before \o p)[k] = before[k]
              \/ k > N /\ k - N \in 1..K /\ (before \o p)[k] = p[k - N]
        /\ \A k \in 1..N : (before \o p)[k] = before[k]
        /\ \A k \in 1..K : (before \o p)[k + N] = p[k]
    BY <2>1, Appended
  <2> QED BY <1>8, <2>2 DEF before
<1>12. /\ r2.mode \in Seq(Modes) /\ Len(r2.mode) = N + K
       /\ \A k \in 1..N : r2.mode[k] = r.mode[k]
       /\ \A k \in 1..K : r2.mode[k + N] = m
  <2> DEFINE before == r.mode
  <2>1. /\ before \in Seq(Modes) /\ q \in Seq(Modes)
        /\ N = Len(before) /\ K = Len(q)
    BY <1>7, <1>9
  <2> HIDE DEF before
  <2>2. /\ before \o q \in Seq(Modes) /\ Len(before \o q) = N + K
        /\ \A k \in 1..N : (before \o q)[k] = before[k]
        /\ \A k \in 1..K : (before \o q)[k + N] = q[k]
    BY <2>1, Appended
  <2> QED BY <1>7, <1>8, <2>2 DEF before
<1>13. \A k \in 1..N : r.time[k] \in Int /\ r.time[k] <= mark(i)
  <2> SUFFICES ASSUME NEW k \in 1..N PROVE r.time[k] \in Int /\ r.time[k] <= mark(i)
    OBVIOUS
  <2>1. i > 0 /\ N > 0 /\ N \in 1..N /\ r.time[N] = mark(i)
    BY <1>9, <1>10
  <2>2. r.time[k] \in Int
    BY <1>9 DEF N
  <2>3. k = N \/ k < N
    BY <1>9
  <2>4. k < N => r.time[k] < r.time[N] \/ r.time[k] = r.time[N]
    BY <1>9, <2>1
  <2> QED BY <1>4, <2>1, <2>2, <2>3, <2>4
<1>14. /\ N + K > 0
       /\ r2.time[1] = Least(init + 1, mark(1)) /\ r2.time[N + K] = mark(i + 1)
  <2>1. r2.time[N + K] = mark(i + 1)
    <3>1. K \in 1..K /\ K + N = N + K
      BY <1>6, <1>9
    <3> QED BY <1>6, <1>11, <3>1
  <2>2. CASE i = 0
    <3>1. 1 \in 1..K /\ 1 + N = 1
      BY <1>6, <1>10, <2>2
    <3>2. r2.time[1] = p[1]
      BY <1>11, <3>1
    <3>3. first = Least(init + 1, mark(1))
      <4>1. i + 1 = 1 /\ mark(i) = init
        BY <1>1, <2>2
      <4> QED BY <4>1 DEF first
    <3> QED BY <1>6, <1>9, <2>1, <3>2, <3>3
  <2>3. CASE i # 0
    <3>1. i > 0 /\ 1 \in 1..N
      BY <1>9, <2>3
    <3> QED BY <1>6, <1>9, <1>11, <2>1, <3>1
  <2> QED BY <2>2, <2>3
<1>15. ASSUME NEW k \in 1..(N + K), NEW l \in 1..(N + K), k < l
       PROVE  \/ r2.time[k] < r2.time[l]
              \/ /\ r2.time[k] = r2.time[l] /\ l = N + K /\ k = l - 1
                 /\ i + 1 = n + 1
  <2>1. CASE l <= N
    <3>1. k \in 1..N /\ l \in 1..N /\ i # n + 1
      BY <1>2, <1>9, <1>15, <2>1
    <3> QED BY <1>9, <1>11, <1>15, <3>1
  <2>2. CASE k > N
    <3>1. k - N \in 1..K /\ l - N \in 1..K /\ k - N < l - N
      BY <1>6, <1>9, <1>15, <2>2
    <3>2. r2.time[k] = p[k - N] /\ r2.time[l] = p[l - N]
      BY <1>9, <1>11, <1>15, <2>2
    <3> QED BY <1>6, <3>1, <3>2
  <2>3. CASE k <= N /\ l > N
    <3>1. k \in 1..N /\ l - N \in 1..K
      BY <1>6, <1>9, <2>3
    <3>2. r2.time[k] = r.time[k] /\ r2.time[l] = p[l - N]
      BY <1>9, <1>11, <1>15, <2>3
    <3>3. /\ r.time[k] \in Int /\ r.time[k] <= mark(i)
          /\ p[l - N] \in Int /\ first <= p[l - N] /\ p[l - N] <= mark(i + 1)
      BY <1>6, <1>13, <3>1
    <3>4. CASE mark(i) < mark(i + 1)
      BY <1>4, <1>5, <3>2, <3>3, <3>4
    <3>5. CASE mark(i) = mark(i + 1)
      <4>1. i = n
        BY <1>2, <1>1, <1>4, <3>5
      <4>2. p[l - N] = mark(i) /\ first = mark(i)
        BY <1>4, <1>5, <3>3, <3>5
      <4>3. K = 1
        <5>1. ~(p[1] < p[K])
          BY <1>4, <1>6, <3>5, <4>2
        <5>2. 1 \in 1..K /\ K \in 1..K
          BY <1>6
        <5> QED BY <1>6, <5>1, <5>2
      <4>4. l = N + K
        BY <1>9, <3>1, <4>3
      <4>5. CASE k = N
        <5>1. i > 0 /\ r.time[N] = mark(i)
          BY <1>9, <1>10, <3>1
        <5> QED BY <1>9, <3>2, <4>1, <4>2, <4>3, <4>4, <4>5, <5>1
      <4>6. CASE k # N
        <5>1. i > 0 /\ r.time[N] = mark(i) /\ N \in 1..N /\ k < N /\ i # n + 1
          BY <1>2, <1>9, <1>10, <3>1, <4>6
        <5>2. r.time[k] < r.time[N]
          BY <1>9, <3>1, <5>1
        <5> QED BY <3>2, <4>2, <5>1, <5>2
      <4> QED BY <4>5, <4>6
    <3> QED BY <1>4, <3>4, <3>5
  <2> QED BY <1>9, <2>1, <2>2, <2>3
<1>16. /\ r2.postEventIndices \in Seq(Nat) /\ Len(r2.postEventIndices) = Least(i + 1, n)
       /\ \A j \in 1..Least(i + 1, n) :
             r2.postEventIndices[j] = IF j <= i THEN post[j] ELSE N + K
  <2>1. Len(post) = i /\ Least(i, n) = i
    BY <1>2, <1>1, <1>9 DEF Least
  <2>2. CASE i < n
    <3>1. new = <<N + K>> /\ Least(i + 1, n) = i + 1 /\ N + K \in Nat
      BY <1>2, <1>1, <1>3, <1>6, <1>9, <2>2 DEF Least
    <3>2. r2.postEventIndices = Append(post, N + K) /\ post \in Seq(Nat)
      <4>1. post \in Seq(Nat)
        BY <1>9
      <4>2. r2.postEventIndices = post \o <<N + K>>
        BY <1>8, <3>1
      <4> HIDE DEF post
      <4> QED BY <3>1, <4>1, <4>2, AppendedOne
    <3>3. \A j \in 1..(i + 1) : j <= i => j \in 1..Len(post)
      BY <1>2, <2>1
    <3>4. \A j \in 1..(i + 1) : ~(j <= i) => j = Len(post) + 1
      BY <1>2, <2>1
    <3> HIDE DEF post
    <3>5. /\ Append(post, N + K) \in Seq(Nat) /\ Len(Append(post, N + K)) = i + 1
          /\ \A j \in 1..Len(post) : Append(post, N + K)[j] = post[j]
          /\ Append(post, N + K)[Len(post) + 1] = N + K
      BY <2>1, <3>1, <3>2
    <3> QED BY <3>1, <3>2, <3>3, <3>4, <3>5
  <2>3. CASE i = n
    <3>1. new = << >> /\ Least(i + 1, n) = i
      BY <1>2, <1>1, <1>3, <2>3 DEF Least
    <3>2. r2.postEventIndices = post /\ post \in Seq(Nat)
      <4>1. post \in Seq(Nat)
        BY <1>9
      <4>2. r2.postEventIndices = post \o << >>
        BY <1>8, <3>1
      <4> HIDE DEF post
      <4> QED BY <4>1, <4>2, AppendedOne
    <3> QED BY <1>9, <2>1, <3>1, <3>2
  <2>4. i < n \/ i = n
    BY <1>2, <1>1
  <2> QED BY <2>2, <2>3, <2>4
<1>17. ASSUME NEW j \in 1..Least(i + 1, n)
       PROVE  /\ r2.postEventIndices[j] \in 1..(N + K)
              /\ r2.time[r2.postEventIndices[j]] = mark(j)
              /\ j < i + 1 => r2.postEventIndices[j] < N + K
  <2>1. j <= i \/ j = i + 1
    BY <1>2, <1>1, <1>17 DEF Least
  <2>2. CASE j <= i
    <3>1. j \in 1..Least(i, n)
      BY <1>2, <1>1, <1>17, <2>2 DEF Least
    <3>2. post[j] \in 1..N /\ r.time[post[j]] = mark(j) /\ r2.postEventIndices[j] = post[j]
      BY <1>9, <1>16, <2>2, <3>1
    <3>3. r2.time[post[j]] = r.time[post[j]]
      BY <1>11, <3>2
    <3>4. post[j] \in 1..(N + K) /\ post[j] < N + K
      <4>1. N \in Nat /\ K \in Nat \ {0} /\ post[j] \in 1..N
        BY <1>6, <1>9, <3>2
      <4> HIDE DEF post
      <4> QED BY <4>1
    <3> QED BY <3>2, <3>3, <3>4
  <2>3. CASE j = i + 1
    <3>1. r2.postEventIndices[j] = N + K
      BY <1>16, <2>3
    <3> QED BY <1>6, <1>9, <1>14, <2>3, <3>1
  <2> QED BY <2>1, <2>2, <2>3
<1>18. ASSUME NEW k \in 1..(N + K)
       PROVE  \E j \in 1..(i + 1) :
                 InInterval(r2, s, init, final, k, j) /\ (k = N + K => j = i + 1)
  <2>1. CASE k <= N
    <3>1. k \in 1..N /\ k # N + K
      BY <1>6, <1>9, <2>1
    <3>2. PICK j \in 1..i : InInterval(r, s, init, final, k, j) /\ (k = N => j = i)
      BY <1>9, <3>1
    <3>3. mark(j - 1) < r.time[k]
      <4>1. CASE k # N
        BY <3>2, <4>1 DEF InInterval, mark, times, N
      <4>2. CASE k = N
        <5>1. j = i /\ i \in 1..n /\ r.time[k] = mark(i)
          BY <1>2, <1>1, <1>9, <3>2, <4>2
        <5> QED BY <1>1, <5>1
      <4> QED BY <4>1, <4>2
    <3>4. r2.time[k] = r.time[k] /\ r2.mode[k] = r.mode[k]
      BY <1>11, <1>12, <3>1
    <3>5. InInterval(r2, s, init, final, k, j)
      BY <3>2, <3>3, <3>4 DEF InInterval, mark, times
    <3> QED BY <3>1, <3>2, <3>5
  <2>2. CASE k > N
    <3>1. k - N \in 1..K /\ (k - N) + N = k
      BY <1>6, <1>9, <2>2
    <3>2. r2.time[k] = p[k - N] /\ r2.mode[k] = m
      BY <1>11, <1>12, <3>1
    <3>3. r2.time[k] \in Int /\ first <= r2.time[k] /\ r2.time[k] <= mark(i + 1)
      BY <1>6, <3>1, <3>2
    <3>4. mark(i) < r2.time[k] \/ k = N + K
      <4>1. CASE mark(i) < mark(i + 1)
        BY <1>4, <1>5, <3>3, <4>1
      <4>2. CASE mark(i) = mark(i + 1)
        <5>1. first = mark(i + 1)
          BY <1>4, <1>5, <4>2
        <5>2. ~(p[k - N] < p[K])
          BY <1>4, <1>6, <3>1, <5>1
        <5>3. K \in 1..K
          BY <1>6
        <5>4. k - N = K
          BY <1>6, <3>1, <5>2, <5>3
        <5> QED BY <1>6, <1>9, <5>4
      <4> QED BY <1>4, <4>1, <4>2
    <3>5. InInterval(r2, s, init, final, k, i + 1)
      <4>1. (i + 1) - 1 = i
        OBVIOUS
      <4> QED BY <1>11, <3>2, <3>3, <3>4, <4>1 DEF InInterval, m, mark, a, times
    <3> QED BY <3>5
  <2>3. k <= N \/ k > N
    BY <1>9
  <2> QED BY <2>1, <2>2, <2>3
<1>19. RolledUpTo(r2, s, init, final, i + 1)
  BY <1>11, <1>12, <1>14, <1>15, <1>16, <1>17, <1>18 DEF RolledUpTo, n, mark, times
<1> QED BY <1>19 DEF r2, intervals, m, a, times

\* All intervals of a horizon.
LEMMA RolloutIsRolledUp ==
    ASSUME NEW s \in ModeSchedule, NEW init \in Int, NEW final \in Int, init <= final,
           NEW fine \in BOOLEAN
    PROVE  RolledUpTo(Rollout(<<init, final>>, s, fine), s, init, final,
                      NumEvents(s.eventTimes, init, final) + 1)
<1> DEFINE n == NumEvents(s.eventTimes, init, final)
           a == UpperBound(s.eventTimes, init)
           intervals == FindActiveModesTimeInterval(init, final, s.eventTimes)
           Next(r, i) == RollOutInterval(r, intervals, i, At(s.modeSequence, a + i - 1), fine)
<1>1. n \in Nat /\ Len(intervals) = n + 1
  BY Marks, Intervals
<1>2. PICK rolled :
         /\ rolled[0] = NoTrajectory
         /\ \A i \in 1..(n + 1) : rolled[i] = Next(rolled[i - 1], i)
         /\ Rollout(<<init, final>>, s, fine) = rolled[n + 1]
  <2> DEFINE horizon == <<init, final>>
  <2>1. horizon[1] = init /\ horizon[2] = final
    OBVIOUS
  <2> HIDE DEF horizon
  <2>2. n + 1 \in Nat
         /\ Len(FindActiveModesTimeInterval(horizon[1], horizon[2], s.eventTimes)) = n + 1
    BY <1>1, <2>1
  <2>3. \E rolled :
              /\ rolled[0] = NoTrajectory
              /\ \A i \in 1..(n + 1) :
                    rolled[i] = RollOutInterval(rolled[i - 1],
                        FindActiveModesTimeInterval(horizon[1], horizon[2], s.eventTimes), i,
                        At(s.modeSequence, UpperBound(s.eventTimes, horizon[1]) + i - 1), fine)
              /\ Rollout(horizon, s, fine) = rolled[n + 1]
    <3> HIDE DEF n
    <3> QED BY <2>2, RolloutSteps
  <2> QED BY <2>1, <2>3 DEF horizon
<1> DEFINE S == {i \in Nat : i <= n + 1 => RolledUpTo(rolled[i], s, init, final, i)}
<1>3. 0 \in S
  BY <1>2, NothingRolled
<1>4. ASSUME NEW i \in S \cap Nat PROVE i + 1 \in S
  <2> SUFFICES ASSUME i + 1 <= n + 1
               PROVE  RolledUpTo(rolled[i + 1], s, init, final, i + 1)
    OBVIOUS
  <2>1. i \in 0..n /\ i + 1 \in 1..(n + 1) /\ (i + 1) - 1 = i
    BY <1>1
  <2>2. RolledUpTo(rolled[i], s, init, final, i)
    BY <1>1, <1>4
  <2>3. RolledUpTo(Next(rolled[i], i + 1), s, init, final, i + 1)
    BY <2>1, <2>2, IntervalRolled
  <2>4. rolled[i + 1] = Next(rolled[i], i + 1)
    BY <1>2, <2>1
  <2> QED BY <2>3, <2>4
<1>5. Nat \subseteq S
  BY <1>3, <1>4, Induction
<1> QED BY <1>1, <1>2, <1>5

\* What a rollout under a schedule is: each point has the mode the schedule has at its
\* time, each event in the horizon is a point before the last, and the first
\* point lies a little after the start of the horizon.
RolledOut(r, s) ==
    /\ TimeLine(r.time)
    /\ r.mode \in Seq(Modes) /\ Len(r.mode) = Len(r.time)
    /\ \A k \in 1..Len(r.time) : r.mode[k] = At(s.modeSequence, ModeIndex(s, r.time, k))
    /\ r.postEventIndices = PostEventIndices(s, r.time)
    /\ \A i \in (UpperBound(s.eventTimes, r.time[1]) + 1)
                ..UpperBound(s.eventTimes, Last(r.time)) :
          \E k \in 1..(Len(r.time) - 1) : r.time[k] = s.eventTimes[i]
    /\ \A e \in Int : r.time[1] = e * Unit => Len(r.time) = 1

\* TimeTriggeredRollout::run() gives what RolledOut() says, for every schedule and every
\* horizon that starts and ends at multiples of Unit.
LEMMA Rollouts ==
    ASSUME NEW s \in ModeSchedule, NEW u \in Int, NEW v \in Int, u <= v, NEW fine \in BOOLEAN
    PROVE  RolledOut(Rollout(<<u * Unit, v * Unit>>, s, fine), s)
<1> DEFINE init == u * Unit
           final == v * Unit
           times == s.eventTimes
           a == UpperBound(times, init)
           n == NumEvents(times, init, final)
           mark(j) == Mark(times, init, final, j)
           r == Rollout(<<init, final>>, s, fine)
           time == r.time
           N == Len(r.time)
<1>1. init \in Int /\ final \in Int /\ init <= final
  BY DEF Unit
<1>2. RolledUpTo(r, s, init, final, n + 1)
  <2> HIDE DEF init, final
  <2> QED BY <1>1, RolloutIsRolledUp
<1>3. /\ a \in 0..Len(times) /\ n \in Nat /\ a + n = UpperBound(times, final)
      /\ a + n <= Len(times)
      /\ \A i \in 1..Len(times) : i <= a <=> times[i] <= init
      /\ \A i \in 1..Len(times) : i <= a + n <=> times[i] <= final
      /\ mark(0) = init /\ mark(n + 1) = final
      /\ \A j \in 1..n : mark(j) = times[a + j] /\ a + j \in 1..Len(times)
      /\ \A j \in 0..(n + 1) : mark(j) \in Int
      /\ \A j \in 1..n : mark(j - 1) < mark(j)
      /\ mark(n) <= mark(n + 1)
  <2> HIDE DEF init, final
  <2> QED BY <1>1, Marks
<1>4. /\ times \in Seq(Int) /\ Sorted(times) /\ Len(times) \in Nat
      /\ \A i \in 1..Len(times) : times[i] \in Int
      /\ \A i, j \in 1..Len(times) : i < j => times[i] < times[j]
  BY Schedules
<1>5. Least(n + 1, n) = n
  BY <1>3 DEF Least
<1>6. /\ time \in Seq(Int) /\ N > 0 /\ N \in Nat
      /\ r.mode \in Seq(Modes) /\ Len(r.mode) = N
      /\ time[1] = Least(init + 1, mark(1)) /\ time[N] = final
      /\ \A k, l \in 1..N : k < l =>
            \/ time[k] < time[l]
            \/ time[k] = time[l] /\ l = N /\ k = l - 1
      /\ r.postEventIndices \in Seq(Nat) /\ Len(r.postEventIndices) = n
      /\ \A j \in 1..n :
            /\ r.postEventIndices[j] \in 1..N /\ time[r.postEventIndices[j]] = mark(j)
            /\ j < n + 1 => r.postEventIndices[j] < N
      /\ \A k \in 1..N : \E j \in 1..(n + 1) :
            InInterval(r, s, init, final, k, j) /\ (k = N => j = n + 1)
  <2>1. n + 1 > 0
    BY <1>3
  <2> HIDE DEF init, final, r
  <2>2. /\ r.time \in Seq(Int) /\ r.mode \in Seq(Modes) /\ Len(r.mode) = Len(r.time)
        /\ Len(r.time) > 0
        /\ r.time[1] = Least(init + 1, mark(1)) /\ r.time[Len(r.time)] = mark(n + 1)
        /\ \A k, l \in 1..Len(r.time) : k < l =>
              \/ r.time[k] < r.time[l]
              \/ r.time[k] = r.time[l] /\ l = Len(r.time) /\ k = l - 1 /\ n + 1 = n + 1
        /\ r.postEventIndices \in Seq(Nat) /\ Len(r.postEventIndices) = Least(n + 1, n)
        /\ \A j \in 1..Least(n + 1, n) :
              /\ r.postEventIndices[j] \in 1..Len(r.time)
              /\ r.time[r.postEventIndices[j]] = mark(j)
              /\ j < n + 1 => r.postEventIndices[j] < Len(r.time)
        /\ \A k \in 1..Len(r.time) : \E j \in 1..(n + 1) :
              InInterval(r, s, init, final, k, j) /\ (k = Len(r.time) => j = n + 1)
    BY <1>2, <2>1 DEF RolledUpTo
  <2>3. Len(r.time) \in Nat
    BY <2>2
  <2> HIDE DEF n, mark
  <2> QED BY <1>3, <1>5, <2>2, <2>3
<1>7. TimeLine(time) /\ Last(time) = final
  <2> HIDE DEF r, init, final
  <2>1. time # << >> /\ DOMAIN time = 1..N
    BY <1>6
  <2> QED BY <1>6, <2>1 DEF TimeLine, Last
<1> HIDE DEF mark, n, a, times, init, final, r, N
<1>8. \A k \in 1..N : time[k] \in Int
  BY <1>6 DEF N
<1>9. UpperBound(times, final) = a + n
  BY <1>3
<1>10. ASSUME NEW k \in 1..N
       PROVE  r.mode[k] = At(s.modeSequence, ModeIndex(s, time, k))
  <2>1. PICK j \in 1..(n + 1) : InInterval(r, s, init, final, k, j) /\ (k = N => j = n + 1)
    BY <1>6
  <2>2. /\ r.mode[k] = At(s.modeSequence, a + j - 1)
        /\ time[k] <= mark(j) /\ (mark(j - 1) < time[k] \/ k = N)
    BY <2>1 DEF InInterval, mark, a, times, N
  <2>3. CASE k = N
    <3>1. ModeIndex(s, time, k) = a + n
      BY <1>6, <1>9, <2>3 DEF ModeIndex, N, times
    <3>2. a + j - 1 = a + n
      BY <1>3, <2>1, <2>3
    <3> QED BY <2>2, <3>1, <3>2
  <2>4. CASE k # N
    <3> DEFINE m == a + j - 1
    <3>1. m \in 0..Len(times) /\ j \in Nat /\ j - 1 \in 0..(n + 1) /\ j \in 0..(n + 1)
      BY <1>3, <1>4
    <3>2. ASSUME m > 0 PROVE times[m] < time[k]
      <4>1. CASE j = 1
        <5>1. m = a /\ m \in 1..Len(times) /\ times[m] \in Int
          BY <1>3, <1>4, <3>1, <3>2, <4>1
        <5>2. times[m] <= init /\ mark(j - 1) = init
          BY <1>3, <4>1, <5>1
        <5> QED BY <1>1, <1>8, <2>2, <2>4, <5>1, <5>2
      <4>2. CASE j # 1
        <5>1. j - 1 \in 1..n /\ a + (j - 1) = m
          BY <1>3, <4>2
        <5>2. mark(j - 1) = times[m]
          BY <1>3, <5>1
        <5> QED BY <2>2, <2>4, <5>2
      <4> QED BY <4>1, <4>2
    <3>3. ASSUME m < Len(times) PROVE time[k] <= times[m + 1]
      <4>1. CASE j = n + 1
        <5>1. m + 1 = a + n + 1 /\ m + 1 \in 1..Len(times) /\ times[m + 1] \in Int
          BY <1>3, <1>4, <3>1, <3>3, <4>1
        <5>2. ~(m + 1 <= a + n)
          BY <1>3, <5>1
        <5>3. ~(times[m + 1] <= final)
          BY <1>3, <5>1, <5>2
        <5> QED BY <1>1, <1>3, <1>8, <2>2, <4>1, <5>1, <5>3
      <4>2. CASE j # n + 1
        <5>1. j \in 1..n /\ a + j = m + 1
          BY <1>3, <4>2
        <5>2. mark(j) = times[m + 1]
          BY <1>3, <5>1
        <5> QED BY <2>2, <5>2
      <4> QED BY <4>1, <4>2
    <3>4. LowerBound(times, time[k]) = m
      <4>1. time[k] \in Int
        BY <1>8
      <4> HIDE DEF m
      <4> QED BY <1>4, <3>1, <3>2, <3>3, <4>1, LowerBoundIs
    <3>5. ModeIndex(s, time, k) = m
      BY <2>4, <3>4 DEF ModeIndex, N, times
    <3> QED BY <2>2, <3>5
  <2> QED BY <2>3, <2>4
<1>11. /\ time[1] \in Int /\ init <= time[1] /\ time[1] <= init + 1
       /\ n = 0 => time[1] <= final
       /\ n > 0 => time[1] = init + 1
       /\ time[1] = init + 1 \/ (time[1] = init /\ init = final /\ n = 0)
  <2>1. /\ 1 \in 0..(n + 1) /\ mark(1) \in Int
        /\ (n > 0 => init < mark(1)) /\ (n = 0 => mark(1) = final)
    <3>1. 1 \in 0..(n + 1)
      BY <1>3
    <3>2. n > 0 => 1 \in 1..n /\ 1 - 1 = 0
      BY <1>3
    <3>3. n > 0 => mark(1 - 1) < mark(1)
      BY <1>3, <3>2
    <3>4. n = 0 => n + 1 = 1
      BY <1>3
    <3> QED BY <1>3, <3>1, <3>2, <3>3, <3>4
  <2> QED BY <1>1, <1>3, <1>6, <2>1 DEF Least
<1>12. UpperBound(times, time[1]) = a
  <2>1. ASSUME a > 0 PROVE times[a] <= time[1]
    <3>1. a \in 1..Len(times) /\ times[a] \in Int
      BY <1>3, <1>4, <2>1
    <3> QED BY <1>1, <1>3, <1>11, <3>1
  <2>2. ASSUME a < Len(times) PROVE time[1] < times[a + 1]
    <3>1. a + 1 \in 1..Len(times) /\ times[a + 1] \in Int
      BY <1>3, <1>4, <2>2
    <3>2. init < times[a + 1]
      <4>1. ~(a + 1 <= a)
        BY <1>3
      <4> QED BY <1>1, <1>3, <3>1, <4>1
    <3>3. CASE n = 0
      <4>1. ~(a + 1 <= a + n)
        BY <1>3, <3>3
      <4>2. ~(times[a + 1] <= final)
        BY <1>3, <3>1, <4>1
      <4> QED BY <1>1, <1>11, <3>1, <3>3, <4>2
    <3>4. CASE n # 0
      <4>1. PICK e \in Int : times[a + 1] = e * Unit
        BY <3>1, Schedules DEF times
      <4>2. times[a + 1] = 8 * e /\ init = 8 * u
        BY <4>1 DEF init, Unit
      <4> QED BY <1>3, <1>11, <3>2, <3>4, <4>2
    <3> QED BY <3>3, <3>4
  <2> QED BY <1>3, <1>4, <1>11, <2>1, <2>2, UpperBoundIs
<1>13. r.postEventIndices = PostEventIndices(s, time)
  <2> DEFINE active == SubSeq(times, a + 1, a + n)
  <2>1. /\ active \in Seq(Int) /\ Len(active) = n
        /\ \A j \in 1..n : active[j] = times[a + j]
    <3>1. times \in Seq(Int) /\ a \in Nat /\ n \in Nat /\ a + n <= Len(times)
      BY <1>3, <1>4
    <3>2. active = SubSeq(times, a + 1, a + n)
      OBVIOUS
    <3> HIDE DEF times, a, n, active
    <3> QED BY <3>1, <3>2, Slice
  <2>2. \A j \in 1..n : active[j] = mark(j) /\ mark(j) \in Int
    BY <1>3, <2>1
  <2>3. ASSUME NEW j \in 1..(n - 1) PROVE active[j] # Last(time)
    <3>1. j \in 1..n /\ j + 1 \in 1..n /\ a + j \in 1..Len(times) /\ a + (j + 1) \in 1..Len(times)
      BY <1>3
    <3>2. a + j < a + (j + 1)
      BY <1>3
    <3>3. times[a + j] < times[a + (j + 1)]
      BY <1>4, <3>1, <3>2
    <3>4. times[a + (j + 1)] <= final
      <4>1. a + (j + 1) <= a + n
        BY <1>3
      <4> QED BY <1>3, <3>1, <4>1
    <3>5. times[a + j] \in Int /\ times[a + (j + 1)] \in Int
      BY <1>4, <3>1
    <3>6. active[j] = times[a + j] /\ Last(time) = final /\ final \in Int
      BY <1>1, <1>7, <2>1, <3>1
    <3> HIDE DEF times, final, active, a, n
    <3>7. times[a + j] < final
      BY <3>3, <3>4, <3>5, <3>6
    <3> QED BY <3>5, <3>6, <3>7
  <2>4. /\ FindPostEventIndices(active, time) \in Seq(Nat)
        /\ Len(FindPostEventIndices(active, time)) = n
        /\ \A j \in 1..n : FindPostEventIndices(active, time)[j] = Post(time, active[j])
    <3> HIDE DEF active
    <3> QED BY <1>7, <2>1, <2>3, FoundPosts
  <2>5. \A j \in 1..n : r.postEventIndices[j] = Post(time, active[j])
    <3> SUFFICES ASSUME NEW j \in 1..n PROVE r.postEventIndices[j] = Post(time, active[j])
      OBVIOUS
    <3>1. j < n + 1
      BY <1>3
    <3>2. r.postEventIndices[j] \in 1..(N - 1) /\ time[r.postEventIndices[j]] = mark(j)
      <4>1. /\ r.postEventIndices[j] \in 1..N /\ time[r.postEventIndices[j]] = mark(j)
            /\ r.postEventIndices[j] < N /\ N \in Nat
        BY <1>6, <3>1
      <4> HIDE DEF N, r, time, mark
      <4> QED BY <4>1
    <3> DEFINE p == r.postEventIndices[j]
    <3> HIDE DEF p, active
    <3>3. Post(time, time[p]) = p
      <4>1. p \in 1..(Len(time) - 1)
        BY <3>2 DEF N, p
      <4> QED BY <1>7, <4>1, PostIs
    <3> QED BY <2>2, <3>2, <3>3 DEF p
  <2>6. PostEventIndices(s, time) = FindPostEventIndices(active, time)
    BY <1>7, <1>9, <1>12 DEF PostEventIndices, times, TimeLine
  <2>7. \A j \in 1..n : r.postEventIndices[j] = FindPostEventIndices(active, time)[j]
    BY <2>4, <2>5
  <2> DEFINE found == FindPostEventIndices(active, time)
             post == r.postEventIndices
  <2>8. found \in Seq(Nat) /\ Len(found) = n /\ post \in Seq(Nat) /\ Len(post) = n
        /\ \A j \in 1..n : post[j] = found[j]
    BY <1>6, <2>4, <2>7
  <2> HIDE DEF found, post, active
  <2>9. post = found
    BY <1>3, <2>8
  <2> QED BY <2>6, <2>9 DEF found, post
<1>14. ASSUME NEW i \in (UpperBound(times, time[1]) + 1)..UpperBound(times, Last(time))
       PROVE  \E k \in 1..(Len(time) - 1) : time[k] = times[i]
  <2>1. i - a \in 1..n /\ a + (i - a) = i /\ i - a < n + 1
    BY <1>3, <1>7, <1>9, <1>12
  <2>2. mark(i - a) = times[i]
    BY <1>3, <2>1
  <2>3. /\ r.postEventIndices[i - a] \in 1..N /\ time[r.postEventIndices[i - a]] = mark(i - a)
        /\ r.postEventIndices[i - a] < N
    BY <1>6, <2>1
  <2> DEFINE p == r.postEventIndices[i - a]
  <2> HIDE DEF p
  <2>4. p \in 1..(Len(time) - 1) /\ time[p] = times[i]
    BY <1>6, <2>2, <2>3 DEF p, N
  <2> QED BY <2>4
<1>15. ASSUME NEW e \in Int, time[1] = e * Unit PROVE N = 1
  <2>1. time[1] = 8 * e /\ init = 8 * u
    BY <1>15 DEF init, Unit
  <2>2. time[1] = init /\ init = final /\ n = 0
    BY <1>11, <2>1
  <2> SUFFICES ASSUME N # 1 PROVE FALSE
    OBVIOUS
  <2>3. 1 \in 1..N
    BY <1>6
  <2>4. PICK j \in 1..(n + 1) : InInterval(r, s, init, final, 1, j)
    BY <1>6, <2>3
  <2>5. j - 1 = 0
    BY <2>2, <2>4
  <2>6. mark(j - 1) < time[1]
    BY <2>4 DEF InInterval, mark, times, N
  <2> QED BY <1>1, <1>3, <2>2, <2>5, <2>6
<1>16. N = Len(time) /\ r.time = time
  BY DEF N
<1> DEFINE goal == RolledOut(r, s)
<1>17. goal
  BY <1>6, <1>7, <1>10, <1>13, <1>14, <1>15, <1>16 DEF RolledOut, times
<1> QED BY <1>17 DEF r, init, final

-----------------------------------------------------------------------------
(* A trajectory that follows a schedule.                                   *)

\* The modes of a trajectory are the active ones.
LEMMA ActiveModes ==
    ASSUME NEW s \in ModeSchedule, NEW time, TimeLine(time),
           \A e \in Int : time[1] = e * Unit => Len(time) = 1
    PROVE  LET a == UpperBound(s.eventTimes, time[1])
               b == UpperBound(s.eventTimes, Last(time))
           IN  /\ a \in Nat /\ b \in Nat /\ a <= b /\ b <= Len(s.eventTimes)
               /\ \A i \in 1..Len(s.eventTimes) : i <= a <=> s.eventTimes[i] <= time[1]
               /\ \A i \in 1..Len(s.eventTimes) : i <= b <=> s.eventTimes[i] <= Last(time)
               /\ \A k \in 1..Len(time) : ModeIndex(s, time, k) \in a..b
<1> DEFINE times == s.eventTimes
           a == UpperBound(times, time[1])
           b == UpperBound(times, Last(time))
           N == Len(time)
<1>1. /\ time \in Seq(Int) /\ N \in Nat \ {0} /\ \A i \in 1..N : time[i] \in Int
      /\ Last(time) = time[N] /\ time[N] \in Int /\ Sorted(time) /\ DOMAIN time = 1..N
      /\ \A e \in Int : time[1] = e * Unit => N = 1
  BY TimeLines
<1>2. /\ times \in Seq(Int) /\ Sorted(times) /\ \A i \in 1..Len(times) : times[i] \in Int
      /\ \A i \in 1..Len(times) : \E e \in Int : times[i] = e * Unit
  BY Schedules
<1>3. \A k \in 1..N : time[1] <= time[k] /\ time[k] <= time[N]
  BY <1>1 DEF Sorted
<1> HIDE DEF times
<1>4. /\ a \in 0..Len(times)
      /\ \A i \in 1..Len(times) : i <= a <=> times[i] <= time[1]
  <2>1. time[1] \in Int
    BY <1>1
  <2> QED BY <1>2, <2>1, Bounds
<1>5. /\ b \in 0..Len(times)
      /\ \A i \in 1..Len(times) : i <= b <=> times[i] <= time[N]
  BY <1>1, <1>2, Bounds
<1> HIDE DEF a, b, N
<1>6. a <= b
  <2> SUFFICES ASSUME a > b PROVE FALSE
    BY <1>4, <1>5
  <2>1. a \in 1..Len(times) /\ ~(a <= b)
    BY <1>4, <1>5
  <2>2. times[a] <= time[1] /\ ~(times[a] <= time[N]) /\ times[a] \in Int
    BY <1>2, <1>4, <1>5, <2>1
  <2>3. 1 \in 1..N
    BY <1>1
  <2> QED BY <1>1, <1>3, <2>2, <2>3
<1>7. ASSUME NEW k \in 1..N PROVE ModeIndex(s, time, k) \in a..b
  <2>1. /\ UpperBound(times, time[k]) \in 0..Len(times)
        /\ \A i \in 1..Len(times) : i <= UpperBound(times, time[k]) <=> times[i] <= time[k]
        /\ LowerBound(times, time[k]) \in 0..Len(times)
        /\ \A i \in 1..Len(times) : i <= LowerBound(times, time[k]) <=> times[i] < time[k]
    <3>1. time[k] \in Int
      BY <1>1
    <3> QED BY <1>2, <3>1, Bounds
  <2>2. CASE k = N
    <3>1. ModeIndex(s, time, k) = b
      BY <1>1, <2>2 DEF ModeIndex, N, times, b
    <3> QED BY <1>4, <1>5, <1>6, <3>1
  <2>3. CASE k # N
    <3> DEFINE m == LowerBound(times, time[k])
    <3>1. ModeIndex(s, time, k) = m
      BY <2>3 DEF ModeIndex, N, times
    <3> HIDE DEF m
    <3>2. m \in 0..Len(times) /\ \A i \in 1..Len(times) : i <= m <=> times[i] < time[k]
      BY <2>1 DEF m
    <3>3. ASSUME m > b PROVE FALSE
      <4>1. m \in 1..Len(times) /\ ~(m <= b)
        BY <1>5, <3>2, <3>3
      <4>2. times[m] < time[k] /\ ~(times[m] <= time[N]) /\ times[m] \in Int
        BY <1>2, <1>5, <3>2, <4>1
      <4> QED BY <1>1, <1>3, <4>2
    <3>4. ASSUME m < a PROVE FALSE
      <4>1. a \in 1..Len(times) /\ ~(a <= m)
        BY <1>4, <3>2, <3>4
      <4>2. times[a] <= time[1] /\ ~(times[a] < time[k]) /\ times[a] \in Int
        BY <1>2, <1>4, <3>2, <4>1
      <4>3. times[a] = time[1] /\ 1 \in 1..N
        BY <1>1, <1>3, <4>2
      <4>4. N = 1
        BY <1>1, <1>2, <4>1, <4>3
      <4> QED BY <2>3, <4>4
    <3> QED BY <1>4, <1>5, <3>1, <3>2, <3>3, <3>4
  <2> QED BY <2>2, <2>3
<1>8. /\ a \in Nat /\ b \in Nat /\ a <= b /\ b <= Len(times)
  BY <1>2, <1>4, <1>5, <1>6
<1>9. Last(time) = time[N]
  BY <1>1
<1> QED BY <1>4, <1>5, <1>7, <1>8, <1>9 DEF times, a, b, N

\* An active event separates a point of the mode before it from one of the mode
\* after it, and there are points between two of them.
LEMMA ModesAtEvents ==
    ASSUME NEW s \in ModeSchedule, NEW r, RolledOut(r, s),
           NEW i \in (UpperBound(s.eventTimes, r.time[1]) + 1)
                     ..UpperBound(s.eventTimes, Last(r.time))
    PROVE  LET post(j) == Post(r.time, s.eventTimes[j])
           IN  /\ i \in 1..Len(s.eventTimes) /\ s.eventTimes[i] <= Last(r.time)
               /\ r.time[1] < s.eventTimes[i]
               /\ post(i) \in 1..(Len(r.time) - 1)
               /\ r.mode[post(i)] = At(s.modeSequence, i - 1)
               /\ r.mode[post(i) + 1] = At(s.modeSequence, i)
               /\ i < UpperBound(s.eventTimes, Last(r.time)) => post(i) < post(i + 1)
<1> DEFINE time == r.time
           times == s.eventTimes
           a == UpperBound(times, time[1])
           b == UpperBound(times, Last(time))
           N == Len(time)
           post(j) == Post(time, times[j])
           mu(k) == ModeIndex(s, time, k)
<1>1. /\ a \in Nat /\ b \in Nat /\ a <= b /\ b <= Len(times)
      /\ \A j \in 1..Len(times) : j <= a <=> times[j] <= time[1]
      /\ \A j \in 1..Len(times) : j <= b <=> times[j] <= Last(time)
      /\ \A k \in 1..N : mu(k) \in a..b
  <2>1. TimeLine(time) /\ \A e \in Int : time[1] = e * Unit => N = 1
    BY DEF RolledOut
  <2> HIDE DEF time
  <2> QED BY <2>1, ActiveModes
<1>2. /\ TimeLine(time) /\ N \in Nat \ {0} /\ \A k \in 1..N : time[k] \in Int
      /\ Last(time) \in Int /\ Sorted(time) /\ DOMAIN time = 1..N
      /\ \A k \in 1..N : r.mode[k] = At(s.modeSequence, mu(k))
      /\ \A j \in (a + 1)..b : \E k \in 1..(N - 1) : time[k] = times[j]
  <2>1. TimeLine(time)
    BY DEF RolledOut
  <2>2. /\ \A k \in 1..N : r.mode[k] = At(s.modeSequence, mu(k))
        /\ \A j \in (a + 1)..b : \E k \in 1..(N - 1) : time[k] = times[j]
    BY DEF RolledOut
  <2> QED BY <2>1, <2>2, TimeLines
<1>3. /\ Len(times) \in Nat /\ \A j \in 1..Len(times) : times[j] \in Int
      /\ \A j, k \in 1..Len(times) : j < k => times[j] < times[k]
  BY Schedules
<1>4. ASSUME NEW j \in (a + 1)..b
      PROVE  /\ j \in 1..Len(times) /\ times[j] <= Last(time) /\ time[1] < times[j]
             /\ post(j) \in 1..(N - 1) /\ time[post(j)] = times[j]
  <2>1. j \in 1..Len(times) /\ j <= b /\ ~(j <= a)
    BY <1>1, <1>3
  <2>2. times[j] <= Last(time) /\ ~(times[j] <= time[1]) /\ times[j] \in Int /\ time[1] \in Int
    BY <1>1, <1>2, <1>3, <2>1
  <2>3. PICK k \in 1..(N - 1) : time[k] = times[j]
    BY <1>2
  <2>4. Post(time, time[k]) = k
    <3> HIDE DEF time
    <3> QED BY <1>2, PostIs
  <2>5. post(j) = k
    BY <2>3, <2>4
  <2> QED BY <2>1, <2>2, <2>3, <2>5
<1>5. \A j \in (a + 1)..b : \A k \in 1..N : k <= post(j) <=> mu(k) < j
  <2> SUFFICES ASSUME NEW j \in (a + 1)..b, NEW k \in 1..N PROVE k <= post(j) <=> mu(k) < j
    OBVIOUS
  <2>1. j \in 1..Len(times) /\ times[j] <= Last(time)
    BY <1>4
  <2> QED BY <1>2, <2>1, PostSplits
<1> HIDE DEF mu, post, a, b, N, time, times
<1>6. i \in (a + 1)..b
  BY DEF a, b, time, times
<1>7. /\ i \in 1..Len(times) /\ times[i] <= Last(time) /\ time[1] < times[i]
      /\ post(i) \in 1..(N - 1) /\ time[post(i)] = times[i]
  BY <1>4, <1>6
<1>8. post(i) \in 1..N /\ post(i) + 1 \in 1..N /\ ~(post(i) + 1 <= post(i)) /\ i - 1 \in Int
  BY <1>2, <1>7
<1>9. i < b => post(i) < post(i + 1)
  <2> SUFFICES ASSUME i < b PROVE post(i) < post(i + 1)
    OBVIOUS
  <2>1. i + 1 \in (a + 1)..b
    BY <1>1, <1>6
  <2>2. i + 1 \in 1..Len(times) /\ post(i + 1) \in 1..(N - 1) /\ time[post(i + 1)] = times[i + 1]
    BY <1>4, <2>1
  <2>3. times[i] < times[i + 1]
    BY <1>3, <1>7, <2>2
  <2> SUFFICES ASSUME post(i + 1) <= post(i) PROVE FALSE
    BY <1>7, <2>2
  <2>4. post(i) \in 1..N /\ post(i + 1) \in 1..N
    BY <1>2, <1>7, <2>2
  <2>5. time[post(i + 1)] <= time[post(i)]
    <3>1. CASE post(i + 1) = post(i)
      BY <1>2, <2>4, <3>1
    <3>2. CASE post(i + 1) < post(i)
      BY <1>2, <2>4, <3>2 DEF Sorted
    <3> QED BY <2>4, <3>1, <3>2
  <2> QED BY <1>3, <1>7, <2>2, <2>3, <2>5
<1>10. mu(post(i)) = i - 1
  <2>1. mu(post(i)) \in a..b /\ mu(post(i)) < i
    BY <1>1, <1>5, <1>6, <1>8
  <2>2. CASE i = a + 1
    BY <1>1, <2>1, <2>2
  <2>3. CASE i # a + 1
    <3>1. i - 1 \in (a + 1)..b
      BY <1>1, <1>6, <2>3
    <3>2. post(i - 1) \in 1..(N - 1) /\ time[post(i - 1)] = times[i - 1] /\ i - 1 \in 1..Len(times)
      BY <1>4, <3>1
    <3>3. times[i - 1] < times[i]
      BY <1>3, <1>7, <3>2
    <3>4. ~(post(i) <= post(i - 1))
      <4> SUFFICES ASSUME post(i) <= post(i - 1) PROVE FALSE
        OBVIOUS
      <4>1. post(i - 1) \in 1..N
        BY <1>2, <3>2
      <4>2. time[post(i)] <= time[post(i - 1)]
        <5>1. CASE post(i) = post(i - 1)
          BY <1>2, <1>8, <4>1, <5>1
        <5>2. CASE post(i) < post(i - 1)
          BY <1>2, <1>8, <4>1, <5>2 DEF Sorted
        <5> QED BY <1>8, <4>1, <5>1, <5>2
      <4> QED BY <1>3, <1>7, <3>2, <3>3, <4>2
    <3>5. ~(mu(post(i)) < i - 1)
      BY <1>5, <1>8, <3>1, <3>4
    <3> QED BY <1>1, <2>1, <3>5
  <2> QED BY <2>2, <2>3
<1>11. mu(post(i) + 1) = i
  <2>1. mu(post(i) + 1) \in a..b /\ ~(mu(post(i) + 1) < i)
    BY <1>1, <1>5, <1>6, <1>8
  <2>2. CASE i = b
    BY <1>1, <2>1, <2>2
  <2>3. CASE i # b
    <3>1. i + 1 \in (a + 1)..b /\ i < b
      BY <1>1, <1>6, <2>3
    <3>2. post(i + 1) \in 1..(N - 1)
      BY <1>4, <3>1
    <3>3. post(i) + 1 <= post(i + 1)
      BY <1>7, <1>9, <3>1, <3>2
    <3>4. mu(post(i) + 1) < i + 1
      BY <1>5, <1>8, <3>1, <3>3
    <3> QED BY <1>1, <1>7, <2>1, <3>4
  <2> QED BY <2>2, <2>3
<1>12. /\ r.mode[post(i)] = At(s.modeSequence, i - 1)
       /\ r.mode[post(i) + 1] = At(s.modeSequence, i)
  BY <1>2, <1>8, <1>10, <1>11
<1> QED BY <1>7, <1>9, <1>12 DEF post, a, b, N, time, times

-----------------------------------------------------------------------------
(* Spreading values, for any ranges and any point.                         *)

\* The ranges to overwrite: one for every event j that moves from index P[j] to Q[j].
Ranges(s, P, Q, n) ==
    /\ \A j \in 1..n : P[j] \in Nat /\ Q[j] \in Nat
    /\ \A i, j \in 1..n : i < j => P[i] <= P[j] /\ Q[i] <= Q[j]
    /\ DOMAIN s.spread = {j \in 1..n : Q[j] # P[j]}
    /\ \A j \in DOMAIN s.spread :
          s.spread[j] = IF Q[j] < P[j] THEN Backward(P[j], Q[j], s.erase)
                        ELSE Forward(P[j], Q[j], IF j = 1 THEN P[j] ELSE Q[j - 1])

\* What adjustTrajectory() writes at a point between two of the moved events: the
\* value of the point, if it lies between the same two events before they move,
\* or one next to them, of the mode between them.
LEMMA Spread ==
    ASSUME NEW values, NEW s, NEW n \in Nat, NEW P, NEW Q, s.erase \in Nat,
           Ranges(s, P, Q, n),
           NEW k \in 1..s.erase, NEW c \in 0..n,
           c > 0 => Q[c] < k, c < n => k <= Q[c + 1]
    PROVE  LET x == AdjustTrajectory(values, s)[k]
           IN  \/ x = values[k] /\ (c > 0 => P[c] < k) /\ (c < n => k <= P[c + 1])
               \/ x = Garbage
               \/ c > 0 /\ x = values[P[c] + 1]
               \/ c < n /\ x = values[P[c + 1]]
<1> DEFINE X == s.erase
           D == DOMAIN s.spread
           value(j) == IF s.spread[j].value < s.erase
                       THEN At(values, s.spread[j].value) ELSE Garbage
           covering == {j \in D : s.spread[j].begin < k /\ k <= s.spread[j].end}
           x == AdjustTrajectory(values, s)[k]
           h == CHOOSE i \in covering : \A j \in covering : j <= i
<1> USE DEF Ranges
<1>1. x = IF covering = {} THEN values[k] ELSE value(h)
  BY DEF AdjustTrajectory
<1>2. \A j \in D : j \in 1..n /\ Q[j] # P[j] /\ P[j] \in Nat /\ Q[j] \in Nat
  OBVIOUS
<1>3. \A j \in D : Q[j] < P[j] =>
         /\ s.spread[j].begin = Q[j] /\ s.spread[j].value = P[j]
         /\ s.spread[j].end = Least(P[j], X)
  <2> SUFFICES ASSUME NEW j \in D, Q[j] < P[j]
               PROVE  /\ s.spread[j].begin = Q[j] /\ s.spread[j].value = P[j]
                      /\ s.spread[j].end = Least(P[j], X)
    OBVIOUS
  <2>1. s.spread[j] = Backward(P[j], Q[j], X)
    OBVIOUS
  <2> QED BY <2>1 DEF Backward
<1>4. \A j \in D : ~(Q[j] < P[j]) =>
         /\ s.spread[j].begin = Greatest(P[j], IF j = 1 THEN P[j] ELSE Q[j - 1])
         /\ s.spread[j].value = P[j] - 1
         /\ s.spread[j].end = Q[j]
  <2> SUFFICES ASSUME NEW j \in D, ~(Q[j] < P[j])
               PROVE  /\ s.spread[j].begin
                            = Greatest(P[j], IF j = 1 THEN P[j] ELSE Q[j - 1])
                      /\ s.spread[j].value = P[j] - 1
                      /\ s.spread[j].end = Q[j]
    OBVIOUS
  <2>1. s.spread[j] = Forward(P[j], Q[j], IF j = 1 THEN P[j] ELSE Q[j - 1])
    OBVIOUS
  <2> QED BY <2>1 DEF Forward
<1> HIDE DEF x, h
<1>5. ASSUME NEW j \in covering, j > c PROVE j = c + 1 /\ ~(Q[j] < P[j])
  <2>1. j \in 1..n /\ j \in D /\ c < n /\ c + 1 \in 1..n /\ P[j] \in Nat /\ Q[j] \in Nat
        /\ Q[c + 1] \in Nat
    BY <1>2, <1>5
  <2>2. Q[c + 1] <= Q[j]
    <3>1. c + 1 = j \/ c + 1 < j
      BY <1>5, <2>1
    <3> QED BY <2>1, <3>1
  <2>3. k <= Q[j]
    BY <2>1, <2>2
  <2>4. ~(Q[j] < P[j])
    BY <1>3, <1>5, <2>1, <2>3
  <2>5. j = c + 1
    <3> SUFFICES ASSUME j # c + 1 PROVE FALSE
      OBVIOUS
    <3>1. j - 1 \in 1..n /\ j # 1 /\ (c + 1 = j - 1 \/ c + 1 < j - 1)
      BY <1>5, <2>1
    <3>2. Q[c + 1] <= Q[j - 1] /\ Q[j - 1] \in Nat
      BY <2>1, <3>1
    <3>3. s.spread[j].begin = Greatest(P[j], Q[j - 1]) /\ s.spread[j].begin < k
      BY <1>4, <1>5, <2>1, <2>4, <3>1
    <3> QED BY <2>1, <3>2, <3>3 DEF Greatest
  <2> QED BY <2>4, <2>5
<1>6. ASSUME NEW j \in covering, j <= c PROVE c \in covering /\ Q[c] < P[c]
  <2>1. j \in 1..n /\ j \in D /\ c \in 1..n /\ P[j] \in Nat /\ Q[j] \in Nat
        /\ Q[c] \in Nat /\ P[c] \in Nat /\ Q[c] < k
    BY <1>2, <1>6
  <2>2. Q[j] <= Q[c] /\ P[j] <= P[c]
    <3>1. j = c \/ j < c
      BY <1>6, <2>1
    <3> QED BY <2>1, <3>1
  <2>3. Q[j] < P[j]
    <3> SUFFICES ASSUME ~(Q[j] < P[j]) PROVE FALSE
      OBVIOUS
    <3>1. k <= Q[j]
      BY <1>4, <1>6, <2>1
    <3> QED BY <2>1, <2>2, <3>1
  <2>4. k <= P[j]
    <3>1. k <= Least(P[j], X)
      BY <1>3, <1>6, <2>1, <2>3
    <3> QED BY <2>1, <3>1 DEF Least
  <2>5. Q[c] < P[c] /\ k <= P[c]
    BY <2>1, <2>2, <2>4
  <2>6. c \in D
    BY <2>1, <2>5
  <2>7. s.spread[c].begin < k /\ k <= s.spread[c].end
    BY <1>3, <2>1, <2>5, <2>6 DEF Least
  <2> QED BY <2>5, <2>6, <2>7
<1>7. CASE covering = {}
  <2>1. x = values[k]
    BY <1>1, <1>7
  <2>2. ASSUME c > 0 PROVE P[c] < k
    <3> SUFFICES ASSUME ~(P[c] < k) PROVE FALSE
      OBVIOUS
    <3>1. c \in 1..n /\ P[c] \in Nat /\ Q[c] \in Nat /\ Q[c] < k
      BY <2>2
    <3>2. c \in D /\ Q[c] < P[c]
      BY <3>1
    <3>3. c \in covering
      BY <1>3, <3>1, <3>2 DEF Least
    <3> QED BY <1>7, <3>3
  <2>3. ASSUME c < n PROVE k <= P[c + 1]
    <3> SUFFICES ASSUME ~(k <= P[c + 1]) PROVE FALSE
      OBVIOUS
    <3> DEFINE d == c + 1
    <3>1. d \in 1..n /\ P[d] \in Nat /\ Q[d] \in Nat /\ k <= Q[d] /\ P[d] < k
      BY <2>3
    <3>2. d \in D /\ ~(Q[d] < P[d])
      BY <3>1
    <3>3. d # 1 => Q[d - 1] \in Nat /\ Q[d - 1] < k
      BY <3>1
    <3> HIDE DEF d
    <3>4. Greatest(P[d], IF d = 1 THEN P[d] ELSE Q[d - 1]) < k
      BY <3>1, <3>3 DEF Greatest
    <3>5. s.spread[d].begin < k /\ k <= s.spread[d].end
      BY <1>4, <3>1, <3>2, <3>4
    <3> QED BY <1>7, <3>2, <3>5
  <2> QED BY <2>1, <2>2, <2>3 DEF x
<1>8. CASE covering # {}
  <2>1. \E i \in covering : \A j \in covering : j <= i
    <3>1. CASE c + 1 \in covering
      <4>1. \A j \in covering : j \in 1..n
        BY <1>2
      <4>2. \A j \in covering : j <= c + 1
        BY <1>5, <4>1
      <4> QED BY <3>1, <4>2
    <3>2. CASE c + 1 \notin covering
      <4>1. \A j \in covering : j \in 1..n
        BY <1>2
      <4>2. \A j \in covering : j <= c
        BY <1>5, <3>2, <4>1
      <4>3. c \in covering
        BY <1>6, <1>8, <4>2
      <4> QED BY <4>2, <4>3
    <3> QED BY <3>1, <3>2
  <2>2. h \in covering /\ \A j \in covering : j <= h
    <3> HIDE DEF covering
    <3> QED BY <2>1 DEF h
  <2>3. h \in D /\ h \in 1..n /\ P[h] \in Nat /\ Q[h] \in Nat
    BY <1>2, <2>2
  <2>4. x = value(h)
    BY <1>1, <1>8
  <2>5. CASE h > c
    <3>1. h = c + 1 /\ ~(Q[h] < P[h]) /\ c < n
      BY <1>5, <2>2, <2>3, <2>5
    <3>2. s.spread[h].value = P[h] - 1
      BY <1>4, <2>3, <3>1
    <3>3. At(values, P[h] - 1) = values[P[h]]
      BY <2>3 DEF At
    <3>4. x = Garbage \/ x = values[P[c + 1]]
      BY <2>4, <3>1, <3>2, <3>3
    <3> QED BY <3>1, <3>4 DEF x
  <2>6. CASE h <= c
    <3>1. c \in covering /\ Q[c] < P[c]
      BY <1>6, <2>2, <2>6
    <3>2. h = c /\ c > 0
      BY <2>2, <2>3, <2>6, <3>1
    <3>3. s.spread[h].value = P[h]
      BY <1>3, <2>3, <3>1, <3>2
    <3>4. x = Garbage \/ x = values[P[c] + 1]
      BY <2>4, <3>2, <3>3 DEF At
    <3> QED BY <3>2, <3>4 DEF x
  <2> QED BY <2>3, <2>5, <2>6
<1> QED BY <1>7, <1>8

-----------------------------------------------------------------------------
(* The match, and the events that are moved.                               *)

\* A later time has a bound that is not lower.
LEMMA UpperBoundGrows ==
    ASSUME NEW times \in Seq(Int), Sorted(times), NEW t \in Int, NEW u \in Int, t <= u
    PROVE  /\ UpperBound(times, t) \in Nat /\ UpperBound(times, u) \in Nat
           /\ UpperBound(times, t) <= UpperBound(times, u)
           /\ UpperBound(times, u) <= Len(times)
<1> DEFINE a == UpperBound(times, t)
           b == UpperBound(times, u)
<1>1. /\ a \in 0..Len(times) /\ Len(times) \in Nat
      /\ \A i \in 1..Len(times) : i <= a <=> times[i] <= t
      /\ b \in 0..Len(times)
      /\ \A i \in 1..Len(times) : i <= b <=> times[i] <= u
      /\ \A i \in 1..Len(times) : times[i] \in Int
  <2>1. /\ a \in 0..Len(times)
        /\ \A i \in 1..Len(times) : i <= a <=> times[i] <= t
    BY Bounds
  <2>2. /\ b \in 0..Len(times)
        /\ \A i \in 1..Len(times) : i <= b <=> times[i] <= u
    BY Bounds
  <2> HIDE DEF a, b
  <2> QED BY <2>1, <2>2
<1> HIDE DEF a, b
<1> SUFFICES ASSUME b < a PROVE FALSE
  BY <1>1 DEF a, b
<1>2. a \in 1..Len(times) /\ ~(a <= b)
  BY <1>1
<1> QED BY <1>1, <1>2

\* The modes agree as far as MatchedFrom() says.
LEMMA MatchedModes ==
    ASSUME NEW old, NEW new, NEW o \in Int, NEW n \in Int,
           NEW oldLast \in Int, NEW newLast \in Int, o <= oldLast, n <= newLast
    PROVE  LET w == MatchedFrom(old, new, o, n, oldLast, newLast)
           IN  /\ w \in Nat /\ o + w - 1 <= oldLast /\ n + w - 1 <= newLast
               /\ \A k \in 0..(w - 1) :
                     At(old.modeSequence, o + k) = At(new.modeSequence, n + k)
<1> DEFINE most == Least(oldLast - o, newLast - n) + 1
           same(k) == At(old.modeSequence, o + k) = At(new.modeSequence, n + k)
           agree(w) == \A k \in 0..(w - 1) : same(k)
           R(w) == agree(w) /\ (w < most => ~agree(w + 1))
           T == {w \in Nat : w = most \/ ~agree(w + 1)}
           chosen == CHOOSE w \in 0..Greatest(most, 0) : R(w)
<1>1. /\ most \in Nat /\ most <= oldLast - o + 1 /\ most <= newLast - n + 1
      /\ Greatest(most, 0) = most
  BY DEF Least, Greatest
<1>2. MatchedFrom(old, new, o, n, oldLast, newLast) = chosen
  BY DEF MatchedFrom
<1> HIDE DEF most, same
<1>3. PICK w \in T : \A y \in T : w <= y
  <2>1. T \in SUBSET Nat /\ T # {}
    BY <1>1
  <2> HIDE DEF T
  <2> QED BY <2>1, LeastElement
<1>4. w \in 0..most
  BY <1>1, <1>3
<1>5. agree(w)
  <2> SUFFICES ASSUME NEW k \in 0..(w - 1) PROVE same(k)
    OBVIOUS
  <2>1. k \in Nat /\ k \notin T
    BY <1>3
  <2>2. agree(k + 1) /\ k \in 0..((k + 1) - 1)
    BY <2>1
  <2> QED BY <2>2
<1>6. w < most => ~agree(w + 1)
  BY <1>1, <1>3, <1>4
<1>7. chosen \in 0..most /\ R(chosen)
  <2>1. \E v \in 0..Greatest(most, 0) : R(v)
    BY <1>1, <1>4, <1>5, <1>6
  <2> HIDE DEF R
  <2> QED BY <1>1, <2>1
<1> HIDE DEF chosen
<1>8. /\ chosen \in Nat /\ o + chosen - 1 <= oldLast /\ n + chosen - 1 <= newLast
  BY <1>1, <1>7
<1> QED BY <1>2, <1>7, <1>8 DEF same

\* What the search for a match returns.
Matched(m, old, new, time) ==
    /\ m.oldFirst = UpperBound(old.eventTimes, time[1])
    /\ m.oldLast = UpperBound(old.eventTimes, Last(time))
    /\ m.newStart = UpperBound(new.eventTimes, time[1])
    /\ m.newLast = UpperBound(new.eventTimes, Last(time))
    /\ m.w \in Nat
    /\ m.w = 0 => m.oldStart = Len(old.modeSequence)
    /\ m.w > 0 =>
          /\ m.oldStart \in m.oldFirst..m.oldLast
          /\ m.oldStart + m.w - 1 <= m.oldLast
          /\ m.newStart + m.w - 1 <= m.newLast
          /\ \A k \in 0..(m.w - 1) :
                At(old.modeSequence, m.oldStart + k) = At(new.modeSequence, m.newStart + k)

\* So it does: the match lies within the active modes of both schedules.
LEMMA Matches ==
    ASSUME NEW old \in ModeSchedule, NEW new \in ModeSchedule, NEW time, TimeLine(time)
    PROVE  Matched(Match(old, new, time), old, new, time)
<1> DEFINE oldFirst == UpperBound(old.eventTimes, time[1])
           oldLast == UpperBound(old.eventTimes, Last(time))
           newFirst == UpperBound(new.eventTimes, time[1])
           newLast == UpperBound(new.eventTimes, Last(time))
           matched(o) == MatchedFrom(old, new, o, newFirst, oldLast, newLast)
           starts == {o \in oldFirst..oldLast : matched(o) > 0}
           start == CHOOSE o \in starts : \A p \in starts : o <= p
           m == Match(old, new, time)
<1>1. time[1] \in Int /\ Last(time) \in Int /\ time[1] <= Last(time)
  <2>1. /\ Len(time) \in Nat \ {0} /\ DOMAIN time = 1..Len(time) /\ Sorted(time)
        /\ \A i \in 1..Len(time) : time[i] \in Int
        /\ Last(time) = time[Len(time)]
    BY TimeLines
  <2>2. 1 \in 1..Len(time) /\ Len(time) \in 1..Len(time)
    BY <2>1
  <2> QED BY <2>1, <2>2 DEF Sorted
<1>2. oldFirst \in Nat /\ oldLast \in Nat /\ newFirst \in Nat /\ newLast \in Nat
      /\ oldFirst <= oldLast /\ newFirst <= newLast
  BY <1>1, Schedules, UpperBoundGrows
<1>3. m = [oldFirst |-> oldFirst, oldLast |-> oldLast,
           newStart |-> newFirst, newLast |-> newLast,
           oldStart |-> IF starts = {} THEN Len(old.modeSequence) ELSE start,
           w |-> IF starts = {} THEN 0 ELSE matched(start)]
  BY DEF Match
<1> HIDE DEF m, oldFirst, oldLast, newFirst, newLast
<1>4. /\ m.oldFirst = oldFirst /\ m.oldLast = oldLast
      /\ m.newStart = newFirst /\ m.newLast = newLast
  BY <1>3
<1>5. CASE starts = {}
  <2>1. m.w = 0 /\ m.oldStart = Len(old.modeSequence)
    BY <1>3, <1>5
  <2> QED BY <1>4, <2>1 DEF Matched, m, oldFirst, oldLast, newFirst, newLast
<1>6. CASE starts # {}
  <2>1. start \in starts
    <3>1. starts \in SUBSET Nat
      BY <1>2
    <3> HIDE DEF starts
    <3> QED BY <1>6, <3>1, LeastElement
  <2>2. m.w = matched(start) /\ m.oldStart = start
    BY <1>3, <1>6
  <2> HIDE DEF start
  <2>3. start \in Int /\ start \in oldFirst..oldLast /\ start <= oldLast
    BY <1>2, <2>1
  <2>4. /\ matched(start) \in Nat /\ start + matched(start) - 1 <= oldLast
        /\ newFirst + matched(start) - 1 <= newLast
        /\ \A k \in 0..(matched(start) - 1) :
              At(old.modeSequence, start + k) = At(new.modeSequence, newFirst + k)
    BY <1>2, <2>3, MatchedModes
  <2>5. matched(start) > 0
    BY <2>1
  <2> HIDE DEF matched
  <2>6. m.w \in Nat /\ m.w # 0 /\ m.w > 0
    BY <2>2, <2>4, <2>5
  <2> QED BY <1>4, <2>2, <2>3, <2>4, <2>6 DEF Matched, m, oldFirst, oldLast, newFirst, newLast
<1> QED BY <1>5, <1>6

\* The number of events before the matched modes that are moved to the front: 0 or 1.
AtFront(m) == IF m.oldStart > m.oldFirst THEN 1 ELSE 0

\* Whether the last matched mode has to be stretched.
EndMoves(old, new, m) ==
    /\ m.oldStart + m.w - 1 # m.oldLast
    /\ \/ m.newStart + m.w - 1 = m.newLast
       \/ old.eventTimes[m.oldStart + m.w] < new.eventTimes[m.newStart + m.w]

\* The number of events after the matched modes that are moved: 0 or 1.
AtBack(old, new, m) == IF EndMoves(old, new, m) THEN 1 ELSE 0

\* Where the event that ends the i-th matched mode moves; the one numbered 0
\* starts the first.
MovedTo(new, time, m, i) ==
    IF i = 0 THEN time[1] - BitBefore
    ELSE IF i = m.w /\ m.newStart + m.w - 1 = m.newLast THEN Last(time) + BitBefore
    ELSE new.eventTimes[m.newStart + i]

\* The events to move, in a row.
LEMMA MatchedEventsAre ==
    ASSUME NEW old \in ModeSchedule, NEW new \in ModeSchedule, NEW time, TimeLine(time),
           NEW m, Matched(m, old, new, time), m.w > 0
    PROVE  LET events == MatchedEvents(old, new, time, m)
               n == AtFront(m) + (m.w - 1) + AtBack(old, new, m)
               i(j) == j - AtFront(m)
           IN  /\ events \in Seq(Int \X Int) /\ Len(events) = n /\ n \in Nat
               /\ \A j \in 1..n :
                     /\ m.oldStart + i(j) \in (m.oldFirst + 1)..m.oldLast
                     /\ events[j] = <<old.eventTimes[m.oldStart + i(j)],
                                      MovedTo(new, time, m, i(j))>>
<1> DEFINE E == old.eventTimes
           F == new.eventTimes
           w == m.w
           o == m.oldStart
           f == m.newStart
           d == AtFront(m)
           e == AtBack(old, new, m)
           between == [i \in 1..Greatest(w - 1, 0) |-> <<At(E, o + i - 1), At(F, f + i - 1)>>]
           triggering == IF w > 0 /\ o > m.oldFirst
                         THEN << <<At(E, o - 1), time[1] - BitBefore>> >> ELSE << >>
           ol == o + w - 1
           nl == f + w - 1
           ending == CASE ol = m.oldLast -> << >>
                       [] ol # m.oldLast /\ nl = m.newLast ->
                            << <<At(E, ol), Last(time) + BitBefore>> >>
                       [] OTHER ->
                            IF At(E, ol) < At(F, nl)
                            THEN << <<At(E, ol), At(F, nl)>> >>
                            ELSE << >>
           pair(i) == <<E[o + i], MovedTo(new, time, m, i)>>
<1>1. MatchedEvents(old, new, time, m) = triggering \o between \o ending
  BY DEF MatchedEvents
<1>2. /\ w \in Nat /\ w > 0 /\ m.oldFirst \in Nat /\ m.oldLast \in Nat
      /\ o \in m.oldFirst..m.oldLast
      /\ ol <= m.oldLast /\ m.oldLast <= Len(E)
      /\ f \in Nat /\ m.newLast \in Nat /\ nl <= m.newLast /\ m.newLast <= Len(F)
  <2>1. /\ m.w \in Nat /\ m.oldStart \in m.oldFirst..m.oldLast
        /\ m.oldStart + m.w - 1 <= m.oldLast /\ m.newStart + m.w - 1 <= m.newLast
        /\ m.oldFirst = UpperBound(old.eventTimes, time[1])
        /\ m.oldLast = UpperBound(old.eventTimes, Last(time))
        /\ m.newStart = UpperBound(new.eventTimes, time[1])
        /\ m.newLast = UpperBound(new.eventTimes, Last(time))
    BY DEF Matched
  <2>2. time[1] \in Int /\ Last(time) \in Int /\ time[1] <= Last(time)
    <3>1. /\ Len(time) \in Nat \ {0} /\ DOMAIN time = 1..Len(time) /\ Sorted(time)
          /\ \A i \in 1..Len(time) : time[i] \in Int
          /\ Last(time) = time[Len(time)]
      BY TimeLines
    <3>2. 1 \in 1..Len(time) /\ Len(time) \in 1..Len(time)
      BY <3>1
    <3> QED BY <3>1, <3>2 DEF Sorted
  <2>3. /\ m.oldFirst \in Nat /\ m.oldLast \in Nat /\ m.oldLast <= Len(E)
    BY <2>1, <2>2, Schedules, UpperBoundGrows
  <2>4. /\ m.newStart \in Nat /\ m.newLast \in Nat /\ m.newLast <= Len(F)
    BY <2>1, <2>2, Schedules, UpperBoundGrows
  <2> QED BY <2>1, <2>3, <2>4
<1>3. /\ \A i \in 1..Len(E) : E[i] \in Int
      /\ \A i \in 1..Len(F) : F[i] \in Int
      /\ time[1] \in Int /\ Last(time) \in Int /\ Len(E) \in Nat /\ Len(F) \in Nat
  <2>1. time[1] \in Int /\ Last(time) \in Int
    BY TimeLines
  <2>2. E \in Seq(Int) /\ F \in Seq(Int)
    BY Schedules
  <2> QED BY <2>1, <2>2
<1> HIDE DEF E, F, w, o, f
<1>4. /\ between \in Seq(Int \X Int) /\ Len(between) = w - 1
      /\ \A i \in 1..(w - 1) : between[i] = pair(i)
  <2>1. Greatest(w - 1, 0) = w - 1
    BY <1>2 DEF Greatest
  <2>2. ASSUME NEW i \in 1..(w - 1)
        PROVE  <<At(E, o + i - 1), At(F, f + i - 1)>> = pair(i) /\ pair(i) \in Int \X Int
    <3>1. o + i - 1 + 1 = o + i /\ f + i - 1 + 1 = f + i /\ i # 0 /\ i # w
      BY <1>2
    <3>2. MovedTo(new, time, m, i) = F[f + i]
      BY <3>1 DEF MovedTo, F, f, w
    <3>3. o + i \in 1..Len(E) /\ f + i \in 1..Len(F)
      BY <1>2, <1>3
    <3> QED BY <1>3, <3>1, <3>2, <3>3 DEF At
  <2>3. between = [i \in 1..(w - 1) |-> pair(i)]
    BY <2>1, <2>2
  <2>4. w - 1 \in Nat
    BY <1>2
  <2> HIDE DEF pair, between
  <2> QED BY <2>2, <2>3, <2>4
<1>5. /\ triggering \in Seq(Int \X Int) /\ Len(triggering) = d
      /\ d = 1 => triggering[1] = pair(0) /\ o \in (m.oldFirst + 1)..m.oldLast
      /\ d \in {0, 1}
  <2>1. CASE o > m.oldFirst
    <3>1. d = 1
      BY <2>1 DEF AtFront, o
    <3>2. o - 1 + 1 = o + 0 /\ o + 0 \in 1..Len(E)
      BY <1>2, <1>3, <2>1
    <3>3. pair(0) = <<At(E, o - 1), time[1] - BitBefore>> /\ pair(0) \in Int \X Int
      BY <1>3, <3>2 DEF At, MovedTo, BitBefore
    <3>4. triggering = <<pair(0)>>
      BY <1>2, <2>1, <3>3
    <3>5. o \in (m.oldFirst + 1)..m.oldLast
      BY <1>2, <2>1
    <3> HIDE DEF pair, triggering
    <3> QED BY <3>1, <3>3, <3>4, <3>5
  <2>2. CASE ~(o > m.oldFirst)
    <3>1. d = 0
      BY <2>2 DEF AtFront, o
    <3>2. triggering = << >>
      BY <2>2
    <3> QED BY <3>1, <3>2
  <2> QED BY <2>1, <2>2
<1>6. /\ ending \in Seq(Int \X Int) /\ Len(ending) = e
      /\ e = 1 => ending[1] = pair(w) /\ o + w \in (m.oldFirst + 1)..m.oldLast
      /\ e \in {0, 1}
  <2>1. ol + 1 = o + w /\ nl + 1 = f + w /\ w # 0
    BY <1>2
  <2>2. EndMoves(old, new, m) <=> /\ ol # m.oldLast
                                  /\ nl = m.newLast \/ E[o + w] < F[f + w]
    BY DEF EndMoves, E, F, o, f, w
  <2>3. CASE ol = m.oldLast
    <3>1. e = 0 /\ ending = << >>
      BY <2>2, <2>3 DEF AtBack
    <3> QED BY <3>1
  <2>4. CASE ol # m.oldLast /\ nl = m.newLast
    <3>1. e = 1 /\ ending = << <<At(E, ol), Last(time) + BitBefore>> >>
      BY <2>2, <2>4 DEF AtBack
    <3>2. o + w \in 1..Len(E) /\ o + w \in (m.oldFirst + 1)..m.oldLast
      <4>1. ol <= m.oldLast /\ m.oldLast \in Nat /\ m.oldFirst \in Nat /\ Len(E) \in Nat
            /\ m.oldLast <= Len(E) /\ o \in m.oldFirst..m.oldLast /\ w \in Nat /\ w > 0
        BY <1>2, <1>3
      <4> QED BY <2>4, <4>1
    <3>3. pair(w) = <<At(E, ol), Last(time) + BitBefore>> /\ pair(w) \in Int \X Int
      <4>1. MovedTo(new, time, m, w) = Last(time) + BitBefore
        BY <2>1, <2>4 DEF MovedTo, f, w
      <4> QED BY <1>3, <2>1, <3>2, <4>1 DEF At, BitBefore
    <3>4. ending = <<pair(w)>>
      BY <3>1, <3>3
    <3> HIDE DEF pair, ending
    <3> QED BY <3>1, <3>2, <3>3, <3>4
  <2>5. CASE ol # m.oldLast /\ nl # m.newLast
    <3>1. ending = IF E[o + w] < F[f + w] THEN << <<E[o + w], F[f + w]>> >> ELSE << >>
      BY <2>1, <2>5 DEF At
    <3>2. o + w \in 1..Len(E) /\ o + w \in (m.oldFirst + 1)..m.oldLast /\ f + w \in 1..Len(F)
      <4>1. o + w \in 1..Len(E) /\ o + w \in (m.oldFirst + 1)..m.oldLast
        <5>1. ol <= m.oldLast /\ m.oldLast \in Nat /\ m.oldFirst \in Nat /\ Len(E) \in Nat
              /\ m.oldLast <= Len(E) /\ o \in m.oldFirst..m.oldLast /\ w \in Nat /\ w > 0
          BY <1>2, <1>3
        <5> QED BY <2>5, <5>1
      <4>2. f + w <= m.newLast
        BY <1>2, <2>5
      <4>3. f + w \in 1..Len(F)
        BY <1>2, <1>3, <4>2
      <4> QED BY <4>1, <4>3
    <3>3. pair(w) = <<E[o + w], F[f + w]>> /\ pair(w) \in Int \X Int
      <4>1. MovedTo(new, time, m, w) = F[f + w]
        BY <2>1, <2>5 DEF MovedTo, f, w, F
      <4> QED BY <1>3, <3>2, <4>1
    <3>4. CASE E[o + w] < F[f + w]
      <4>1. e = 1 /\ ending = <<pair(w)>>
        BY <2>2, <2>5, <3>1, <3>3, <3>4 DEF AtBack
      <4> HIDE DEF pair, ending
      <4> QED BY <3>2, <3>3, <4>1
    <3>5. CASE ~(E[o + w] < F[f + w])
      <4>1. e = 0 /\ ending = << >>
        BY <2>2, <2>5, <3>1, <3>5 DEF AtBack
      <4> QED BY <4>1
    <3> QED BY <3>4, <3>5
  <2> QED BY <2>3, <2>4, <2>5
<1> HIDE DEF d, e, between, triggering, ending, pair, ol, nl
<1> DEFINE first == triggering \o between
           events == first \o ending
           n == d + (w - 1) + e
<1>7. /\ first \in Seq(Int \X Int) /\ Len(first) = d + (w - 1)
      /\ \A k \in 1..d : first[k] = triggering[k]
      /\ \A k \in 1..(w - 1) : first[k + d] = between[k]
  <2> DEFINE S == Int \X Int
             K == w - 1
  <2>1. triggering \in Seq(S) /\ between \in Seq(S) /\ d = Len(triggering) /\ K = Len(between)
    BY <1>4, <1>5
  <2>2. /\ triggering \o between \in Seq(S) /\ Len(triggering \o between) = d + K
        /\ \A k \in 1..d : (triggering \o between)[k] = triggering[k]
        /\ \A k \in 1..K : (triggering \o between)[k + d] = between[k]
    <3> HIDE DEF S, K
    <3> QED BY <2>1, Appended
  <2> QED BY <2>2
<1>8. /\ events \in Seq(Int \X Int) /\ Len(events) = n
      /\ \A k \in 1..(d + (w - 1)) : events[k] = first[k]
      /\ \A k \in 1..e : events[k + (d + (w - 1))] = ending[k]
  <2> DEFINE S == Int \X Int
             N == d + (w - 1)
  <2> HIDE DEF first
  <2>1. first \in Seq(S) /\ ending \in Seq(S) /\ N = Len(first) /\ e = Len(ending)
    BY <1>6, <1>7
  <2>2. /\ first \o ending \in Seq(S) /\ Len(first \o ending) = N + e
        /\ \A k \in 1..N : (first \o ending)[k] = first[k]
        /\ \A k \in 1..e : (first \o ending)[k + N] = ending[k]
    <3> HIDE DEF S, N
    <3> QED BY <2>1, Appended
  <2> QED BY <2>2
<1>9. d \in {0, 1} /\ e \in {0, 1} /\ n \in Nat
  BY <1>2, <1>5, <1>6
<1> HIDE DEF first, events, n
<1>10. ASSUME NEW j \in 1..n
       PROVE  /\ o + (j - d) \in (m.oldFirst + 1)..m.oldLast
              /\ events[j] = pair(j - d)
  <2>1. CASE j <= d
    <3>1. d = 1 /\ j = 1 /\ j - d = 0 /\ j \in 1..d /\ j \in 1..(d + (w - 1)) /\ o + 0 = o
      BY <1>2, <1>9, <2>1
    <3> QED BY <1>5, <1>7, <1>8, <3>1
  <2>2. CASE j > d /\ j <= d + (w - 1)
    <3>1. j - d \in 1..(w - 1) /\ (j - d) + d = j /\ j \in 1..(d + (w - 1))
      BY <1>2, <1>9, <2>2
    <3>2. o + (j - d) \in (m.oldFirst + 1)..m.oldLast
      BY <1>2, <3>1 DEF ol
    <3> QED BY <1>4, <1>7, <1>8, <3>1, <3>2
  <2>3. CASE j > d + (w - 1)
    <3>1. e = 1 /\ j - d = w /\ 1 + (d + (w - 1)) = j /\ 1 \in 1..e
      BY <1>2, <1>9, <2>3 DEF n
    <3> QED BY <1>6, <1>8, <3>1
  <2>4. j <= d \/ (j > d /\ j <= d + (w - 1)) \/ j > d + (w - 1)
    BY <1>2, <1>9
  <2> QED BY <2>1, <2>2, <2>3, <2>4
<1>11. MatchedEvents(old, new, time, m) = events
  BY <1>1 DEF events, first
<1> QED BY <1>8, <1>9, <1>10, <1>11 DEF n, d, e, w, o, pair, E

\* FineEnough, of a trajectory and a schedule.
FineFor(new, time) ==
    LET marks == {time[1], Last(time)} \cup
                    {e \in ToSet(new.eventTimes) : time[1] < e /\ e < Last(time)}
    IN  \A a, b \in marks : a < b => \E k \in DOMAIN time : a < time[k] /\ time[k] < b

\* EndIsNoEvent, of a trajectory.
EndsWithoutEvent(old, new, time) ==
    LET m == Match(old, new, time)
    IN  m.oldStart + m.w - 1 # m.oldLast => Last(time) \notin ToSet(new.eventTimes)

\* A later event has a post-event index that is not lower.
LEMMA PostGrows ==
    ASSUME NEW time, TimeLine(time), NEW e \in Int, NEW g \in Int, e <= g
    PROVE  Post(time, e) \in Nat /\ Post(time, g) \in Nat /\ Post(time, e) <= Post(time, g)
<1> DEFINE N == Len(time)
           a == UpperBound(time, e)
           b == UpperBound(time, g)
<1>1. /\ time \in Seq(Int) /\ N \in Nat \ {0} /\ Sorted(time)
      /\ Last(time) = time[N] /\ Last(time) \in Int
  BY TimeLines
<1>2. a \in 0..N /\ \A i \in 1..N : i <= a <=> time[i] <= e
  BY <1>1, Bounds
<1>3. b \in 0..N /\ \A i \in 1..N : i <= b <=> time[i] <= g
  BY <1>1, Bounds
<1>4. a <= b
  BY <1>1, UpperBoundGrows
<1> HIDE DEF a, b, N
<1>5. N \in 1..N
  BY <1>1
<1>6. /\ e < Last(time) => a < N
      /\ e > Last(time) => a = N
      /\ g < Last(time) => b < N
      /\ g > Last(time) => b = N
  BY <1>1, <1>2, <1>3, <1>5
<1>7. /\ Post(time, e) = IF e = Last(time) THEN N - 1 ELSE a
      /\ Post(time, g) = IF g = Last(time) THEN N - 1 ELSE b
  BY DEF Post, N, a, b
<1> QED BY <1>1, <1>2, <1>3, <1>4, <1>6, <1>7

\* Where the new events split a trajectory that is fine enough for them.
LEMMA NewPosts ==
    ASSUME NEW new \in ModeSchedule, NEW time, TimeLine(time), FineFor(new, time),
           NEW i \in (UpperBound(new.eventTimes, time[1]) + 1)
                     ..UpperBound(new.eventTimes, Last(time))
    PROVE  LET F == new.eventTimes
               post(j) == Post(time, F[j])
           IN  /\ i \in 1..Len(F) /\ time[1] < F[i] /\ F[i] <= Last(time)
               /\ post(i) \in 2..(Len(time) - 1)
               /\ LowerBound(time, F[i]) \in 2..post(i)
               /\ i > UpperBound(F, time[1]) + 1 => post(i - 1) < LowerBound(time, F[i])
<1> DEFINE F == new.eventTimes
           N == Len(time)
           f == UpperBound(F, time[1])
           l == UpperBound(F, Last(time))
           post(j) == Post(time, F[j])
<1>1. /\ time \in Seq(Int) /\ N \in Nat \ {0} /\ Sorted(time) /\ DOMAIN time = 1..N
      /\ Last(time) = time[N] /\ Last(time) \in Int /\ time[1] \in Int
      /\ \A k \in 1..N : time[k] \in Int
  BY TimeLines
<1>2. /\ F \in Seq(Int) /\ Sorted(F) /\ Len(F) \in Nat /\ \A j \in 1..Len(F) : F[j] \in Int
      /\ \A j, k \in 1..Len(F) : j < k => F[j] < F[k]
      /\ ToSet(F) = {F[j] : j \in 1..Len(F)}
  BY Schedules DEF ToSet
<1>3. f \in 0..Len(F) /\ \A j \in 1..Len(F) : j <= f <=> F[j] <= time[1]
  BY <1>1, <1>2, Bounds
<1>4. l \in 0..Len(F) /\ \A j \in 1..Len(F) : j <= l <=> F[j] <= Last(time)
  BY <1>1, <1>2, Bounds
<1>5. \A a, b \in {time[1], Last(time)} \cup
                    {e \in ToSet(F) : time[1] < e /\ e < Last(time)} :
         a < b => \E k \in 1..N : a < time[k] /\ time[k] < b
  BY <1>1 DEF FineFor
<1> HIDE DEF F, N, f, l
<1>6. \A j \in (f + 1)..l :
         /\ j \in 1..Len(F) /\ F[j] \in Int /\ time[1] < F[j] /\ F[j] <= Last(time)
         /\ F[j] \in {time[1], Last(time)} \cup
                      {e \in ToSet(F) : time[1] < e /\ e < Last(time)}
  BY <1>1, <1>2, <1>3, <1>4
<1>7. ASSUME NEW j \in (f + 1)..l
      PROVE  /\ post(j) \in 1..(N - 1)
             /\ \A k \in 1..N : time[k] < F[j] => k <= LowerBound(time, F[j])
             /\ LowerBound(time, F[j]) \in 0..post(j)
             /\ F[j] # Last(time) => \A k \in 1..N : F[j] < time[k] => post(j) < k
  <2> DEFINE e == F[j]
             ub == UpperBound(time, e)
             lb == LowerBound(time, e)
  <2>1. e \in Int /\ time[1] < e /\ e <= Last(time)
    BY <1>6
  <2> HIDE DEF e
  <2>2. ub \in 0..N /\ \A k \in 1..N : k <= ub <=> time[k] <= e
    BY <1>1, <2>1, Bounds DEF N
  <2>3. lb \in 0..N /\ \A k \in 1..N : k <= lb <=> time[k] < e
    BY <1>1, <2>1, Bounds DEF N
  <2>4. Post(time, e) \in 1..(N - 1)
    BY <2>1, PostRange DEF N
  <2>5. Post(time, e) = IF e = Last(time) THEN N - 1 ELSE ub
    BY DEF Post, N
  <2> HIDE DEF ub, lb
  <2>6. lb <= Post(time, e)
    <3>1. CASE e = Last(time)
      <4>1. N \in 1..N /\ ~(N <= lb)
        BY <1>1, <2>3, <3>1
      <4> QED BY <1>1, <2>3, <2>5, <3>1, <4>1
    <3>2. CASE e # Last(time)
      <4> SUFFICES ASSUME ub < lb PROVE FALSE
        BY <1>1, <2>2, <2>3, <2>5, <3>2
      <4>1. lb \in 1..N /\ ~(lb <= ub)
        BY <1>1, <2>2, <2>3
      <4>2. time[lb] < e /\ ~(time[lb] <= e) /\ time[lb] \in Int
        BY <1>1, <2>2, <2>3, <4>1
      <4> QED BY <2>1, <4>2
    <3> QED BY <3>1, <3>2
  <2>7. ASSUME e # Last(time), NEW k \in 1..N, e < time[k] PROVE Post(time, e) < k
    <3>1. ~(k <= ub)
      BY <1>1, <2>1, <2>2, <2>7
    <3> QED BY <1>1, <2>2, <2>5, <2>7, <3>1
  <2> QED BY <2>3, <2>4, <2>6, <2>7 DEF e, lb
<1>8. i \in (f + 1)..l
  BY DEF F, f, l
<1>9. PICK k \in 1..N : time[1] < time[k] /\ time[k] < F[i]
  <2>1. time[1] < F[i]
    BY <1>6, <1>8
  <2> QED BY <1>5, <1>6, <1>8, <2>1
<1>10. 2 <= k /\ k <= LowerBound(time, F[i])
  BY <1>1, <1>7, <1>8, <1>9
<1>11. post(i) \in 2..(N - 1) /\ LowerBound(time, F[i]) \in 2..post(i)
  <2>1. post(i) \in 1..(N - 1) /\ LowerBound(time, F[i]) \in 0..post(i)
    BY <1>7, <1>8
  <2> QED BY <1>1, <1>10, <2>1
<1>12. ASSUME i > f + 1 PROVE post(i - 1) < LowerBound(time, F[i])
  <2>1. i - 1 \in (f + 1)..l /\ i - 1 < i
    BY <1>3, <1>4, <1>8, <1>12
  <2>2. F[i - 1] < F[i] /\ F[i - 1] # Last(time)
    BY <1>1, <1>2, <1>6, <1>8, <2>1
  <2>3. PICK h \in 1..N : F[i - 1] < time[h] /\ time[h] < F[i]
    BY <1>5, <1>6, <1>8, <2>1, <2>2
  <2>4. post(i - 1) < h /\ h <= LowerBound(time, F[i]) /\ post(i - 1) \in Int
    BY <1>7, <1>8, <2>1, <2>2, <2>3
  <2>5. LowerBound(time, F[i]) \in Int
    BY <1>11
  <2> QED BY <2>4, <2>5
<1> QED BY <1>6, <1>8, <1>11, <1>12 DEF F, N, f

\* The times the events move to, in a row, and what is left of the trajectory:
\* those between matched modes lie on it, the others at its ends.
LEMMA MovedTimes ==
    ASSUME NEW old \in ModeSchedule, NEW new \in ModeSchedule, NEW time, TimeLine(time),
           FineFor(new, time), EndsWithoutEvent(old, new, time),
           NEW m, m = Match(old, new, time), m.w > 0
    PROVE  LET d == AtFront(m)
               e == AtBack(old, new, m)
               n == d + (m.w - 1) + e
               t(j) == MovedTo(new, time, m, j - d)
               X == EraseFrom(new, time, m)
               F == new.eventTimes
               f == m.newStart
           IN  /\ d \in {0, 1} /\ e \in {0, 1} /\ n \in Nat /\ m.w \in Nat /\ f \in Nat
               /\ X \in 1..Len(time)
               /\ f + m.w - 1 <= m.newLast
               /\ f + m.w - 1 = m.newLast => X = Len(time)
               /\ f + m.w - 1 # m.newLast =>
                     X = LowerBound(time, F[f + m.w]) /\ f + m.w \in (f + 1)..m.newLast
               /\ \A j \in 1..n : t(j) \in Int
               /\ \A i, j \in 1..n : i < j => t(i) < t(j)
               /\ \A j \in 1..(n - 1) : t(j) # Last(time)
               /\ d = 1 => Post(time, t(1)) = 0
               /\ \A j \in (d + 1)..(d + (m.w - 1)) :
                     /\ t(j) = F[f + (j - d)] /\ f + (j - d) \in (f + 1)..m.newLast
                     /\ Post(time, t(j)) \in 2..(X - 1)
               /\ e = 1 => Post(time, t(n)) \in Nat /\ X <= Post(time, t(n))
<1> DEFINE F == new.eventTimes
           N == Len(time)
           f == m.newStart
           w == m.w
           l == m.newLast
           d == AtFront(m)
           e == AtBack(old, new, m)
           n == d + (w - 1) + e
           to(i) == MovedTo(new, time, m, i)
           X == EraseFrom(new, time, m)
           post(i) == Post(time, F[i])
           lower(i) == LowerBound(time, F[i])
<1>1. /\ time \in Seq(Int) /\ N \in Nat \ {0} /\ Sorted(time) /\ DOMAIN time = 1..N
      /\ Last(time) = time[N] /\ Last(time) \in Int /\ time[1] \in Int
      /\ \A k \in 1..N : time[k] \in Int
  BY TimeLines
<1>2. time[1] <= Last(time)
  <2>1. 1 \in 1..N /\ N \in 1..N
    BY <1>1
  <2> QED BY <1>1, <2>1 DEF Sorted
<1>3. Matched(m, old, new, time)
  BY Matches
<1>4. /\ f = UpperBound(F, time[1]) /\ l = UpperBound(F, Last(time))
      /\ w \in Nat /\ w > 0 /\ f + w - 1 <= l
  BY <1>3 DEF Matched
<1>5. f \in Nat /\ l \in Nat /\ l <= Len(F)
  BY <1>1, <1>2, <1>4, Schedules, UpperBoundGrows
<1>6. d \in {0, 1} /\ e \in {0, 1} /\ n \in Nat
  BY <1>4 DEF AtFront, AtBack
<1>7. \A i \in (f + 1)..l :
         /\ i \in 1..Len(F) /\ time[1] < F[i] /\ F[i] <= Last(time)
         /\ post(i) \in 2..(N - 1) /\ lower(i) \in 2..post(i)
         /\ i > f + 1 => post(i - 1) < lower(i)
  <2> HIDE DEF N
  <2> QED BY <1>4, NewPosts DEF N
<1>8. /\ Len(F) \in Nat /\ \A i \in 1..Len(F) : F[i] \in Int
      /\ \A i, j \in 1..Len(F) : i < j => F[i] < F[j]
  <2>1. F \in Seq(Int)
    BY Schedules
  <2>2. \A i, j \in 1..Len(F) : i < j => F[i] < F[j]
    BY Schedules
  <2> QED BY <2>1, <2>2
<1>9. \A i \in 1..(w - 1) : to(i) = F[f + i] /\ f + i \in (f + 1)..l
  <2> SUFFICES ASSUME NEW i \in 1..(w - 1) PROVE to(i) = F[f + i] /\ f + i \in (f + 1)..l
    OBVIOUS
  <2>1. i # 0 /\ i # m.w
    BY <1>4
  <2> QED BY <1>4, <1>5, <2>1 DEF MovedTo
<1>10. to(0) = time[1] - 2
  BY DEF MovedTo, BitBefore
<1>11. /\ f + w - 1 = l => to(w) = Last(time) + 2
       /\ f + w - 1 # l => to(w) = F[f + w] /\ f + w \in (f + 1)..l
  <2>1. w # 0
    BY <1>4
  <2> QED BY <1>4, <1>5, <2>1 DEF MovedTo, BitBefore
<1>12. e = 1 => \A i \in 1..Len(F) : F[i] # Last(time)
  <2> SUFFICES ASSUME e = 1, NEW i \in 1..Len(F) PROVE F[i] # Last(time)
    OBVIOUS
  <2>1. m.oldStart + m.w - 1 # m.oldLast
    BY DEF AtBack, EndMoves
  <2>2. Last(time) \notin ToSet(F)
    BY <2>1 DEF EndsWithoutEvent
  <2>3. F[i] \in ToSet(F)
    BY Schedules DEF ToSet
  <2> QED BY <2>2, <2>3
<1>13. X = IF f + w - 1 # l THEN lower(f + w) ELSE N
  <2>1. f + w - 1 + 1 = f + w
    BY <1>4, <1>5
  <2> QED BY <1>4, <2>1 DEF EraseFrom, At
<1> HIDE DEF F, N, f, w, l, d, e, n, to, X, post, lower
<1>14. \A i \in 1..Len(F) : i \in (f + 1)..l => F[i] \in Int
  BY <1>8
<1>15. \A i \in 0..w : to(i) \in Int
  <2> SUFFICES ASSUME NEW i \in 0..w PROVE to(i) \in Int
    OBVIOUS
  <2>1. i = 0 \/ i \in 1..(w - 1) \/ i = w
    BY <1>4
  <2>2. CASE i = 0
    BY <1>1, <1>10, <2>2
  <2>3. CASE i \in 1..(w - 1)
    BY <1>7, <1>8, <1>9, <2>3
  <2>4. CASE i = w
    <3>1. f + w - 1 # l => F[f + w] \in Int
      BY <1>7, <1>8, <1>11
    <3> QED BY <1>1, <1>11, <2>4, <3>1
  <2> QED BY <2>1, <2>2, <2>3, <2>4
<1>16. ASSUME NEW i \in 0..w, NEW j \in 0..w, i < j PROVE to(i) < to(j)
  <2>1. j \in 1..(w - 1) \/ j = w
    BY <1>4, <1>16
  <2>2. CASE i = 0
    <3>1. to(j) > time[1] - 2
      <4>1. CASE j \in 1..(w - 1)
        <5>1. time[1] < F[f + j] /\ F[f + j] \in Int /\ to(j) = F[f + j]
          BY <1>7, <1>8, <1>9, <4>1
        <5> QED BY <1>1, <5>1
      <4>2. CASE j = w /\ f + w - 1 = l
        BY <1>1, <1>2, <1>11, <4>2
      <4>3. CASE j = w /\ f + w - 1 # l
        <5>1. time[1] < F[f + w] /\ F[f + w] \in Int /\ to(j) = F[f + w]
          BY <1>7, <1>8, <1>11, <4>3
        <5> QED BY <1>1, <5>1
      <4> QED BY <2>1, <4>1, <4>2, <4>3
    <3> QED BY <1>1, <1>10, <1>15, <2>2, <3>1
  <2>3. CASE i # 0
    <3>1. i \in 1..(w - 1) /\ to(i) = F[f + i] /\ f + i \in (f + 1)..l
          /\ f + i \in 1..Len(F) /\ F[f + i] <= Last(time) /\ F[f + i] \in Int
      BY <1>4, <1>7, <1>8, <1>9, <1>16, <2>3
    <3>2. CASE j \in 1..(w - 1)
      <4>1. to(j) = F[f + j] /\ f + j \in 1..Len(F) /\ f + i < f + j
        BY <1>5, <1>7, <1>9, <1>16, <3>2
      <4> QED BY <1>8, <3>1, <4>1
    <3>3. CASE j = w /\ f + w - 1 = l
      BY <1>1, <1>11, <3>1, <3>3
    <3>4. CASE j = w /\ f + w - 1 # l
      <4>1. to(j) = F[f + w] /\ f + w \in 1..Len(F) /\ f + i < f + w
        BY <1>5, <1>7, <1>11, <1>16, <3>4
      <4> QED BY <1>8, <3>1, <4>1
    <3> QED BY <2>1, <3>2, <3>3, <3>4
  <2> QED BY <2>2, <2>3
<1>17. ASSUME NEW j \in 1..n
       PROVE  /\ j - d \in 0..w /\ to(j - d) \in Int
              /\ j < n => to(j - d) # Last(time)
  <2>1. j - d \in 0..w
    BY <1>4, <1>6 DEF n
  <2>2. ASSUME j < n PROVE to(j - d) # Last(time)
    <3>1. j - d \in 0..(w - 1)
      BY <1>4, <1>6, <2>2 DEF n
    <3>2. CASE j - d = 0
      BY <1>1, <1>2, <1>10, <3>2
    <3>3. CASE j - d # 0
      <4> DEFINE i == j - d
      <4>1. i \in 1..(w - 1)
        BY <3>1, <3>3
      <4> HIDE DEF i
      <4>2. to(i) = F[f + i] /\ f + i \in (f + 1)..l /\ f + i \in 1..Len(F) /\ F[f + i] \in Int
        BY <1>7, <1>8, <1>9, <4>1
      <4>3. CASE e = 1
        BY <1>12, <4>2, <4>3 DEF i
      <4>4. CASE e = 0
        <5>1. i \in 1..(w - 2)
          BY <1>4, <1>6, <2>2, <3>1, <4>1, <4>4 DEF n, i
        <5>2. f + i < f + (w - 1) /\ w - 1 \in 1..(w - 1)
          BY <1>4, <1>5, <5>1
        <5>3. /\ f + (w - 1) \in 1..Len(F) /\ F[f + (w - 1)] <= Last(time)
              /\ F[f + (w - 1)] \in Int
          BY <1>7, <1>8, <1>9, <5>2
        <5>4. F[f + i] < F[f + (w - 1)]
          BY <1>8, <4>2, <5>2, <5>3
        <5> QED BY <1>1, <4>2, <5>3, <5>4 DEF i
      <4> QED BY <1>6, <4>3, <4>4
    <3> QED BY <3>2, <3>3
  <2> QED BY <1>15, <2>1, <2>2
<1>18. \A i, j \in 1..n : i < j => to(i - d) < to(j - d)
  <2> SUFFICES ASSUME NEW i \in 1..n, NEW j \in 1..n, i < j PROVE to(i - d) < to(j - d)
    OBVIOUS
  <2>1. i - d \in 0..w /\ j - d \in 0..w /\ i - d < j - d
    BY <1>6, <1>17
  <2> QED BY <1>16, <2>1
<1>19. X \in 1..N
  <2>1. CASE f + w - 1 = l
    BY <1>1, <1>13, <2>1
  <2>2. CASE f + w - 1 # l
    <3>1. X = lower(f + w) /\ lower(f + w) \in 2..post(f + w) /\ post(f + w) \in 2..(N - 1)
      BY <1>7, <1>11, <1>13, <2>2
    <3> QED BY <1>1, <3>1
  <2> QED BY <2>1, <2>2
<1>20. d = 1 => Post(time, to(1 - d)) = 0
  <2> SUFFICES ASSUME d = 1 PROVE Post(time, to(0)) = 0
    OBVIOUS
  <2> DEFINE t == to(0)
  <2>1. t \in Int /\ t < time[1] /\ t # Last(time)
    BY <1>1, <1>2, <1>10
  <2> HIDE DEF t
  <2>2. UpperBound(time, t) = 0
    <3>1. /\ 0 \in 0..Len(time) /\ 0 > 0 => time[0] <= t
          /\ 0 < Len(time) => t < time[0 + 1]
      BY <1>1, <2>1 DEF N
    <3> DEFINE z == 0
    <3>2. z \in 0..Len(time) /\ (z > 0 => time[z] <= t)
          /\ (z < Len(time) => t < time[z + 1])
      BY <3>1
    <3> HIDE DEF z
    <3>3. UpperBound(time, t) = z
      BY <1>1, <2>1, <3>2, UpperBoundIs
    <3> QED BY <3>3 DEF z
  <2>3. Post(time, t) = 0
    BY <2>1, <2>2 DEF Post
  <2> QED BY <2>3 DEF t
<1>21. \A i \in (f + 1)..l : \A j \in (f + 1)..i : post(j) \in Nat /\ post(j) <= post(i)
  <2> SUFFICES ASSUME NEW i \in (f + 1)..l, NEW j \in (f + 1)..i
               PROVE  post(j) \in Nat /\ post(j) <= post(i)
    OBVIOUS
  <2>1. j \in (f + 1)..l
    BY <1>5
  <2>2. i \in 1..Len(F) /\ j \in 1..Len(F) /\ F[i] \in Int /\ F[j] \in Int
    BY <1>7, <1>8, <2>1
  <2>3. F[j] <= F[i]
    <3>1. j = i \/ j < i
      BY <1>5
    <3> QED BY <1>8, <2>2, <3>1
  <2> QED BY <2>2, <2>3, PostGrows DEF post
<1>22. ASSUME NEW i \in 1..(w - 1) PROVE post(f + i) \in 2..(X - 1)
  <2>1. f + i \in (f + 1)..l /\ post(f + i) \in 2..(N - 1)
    BY <1>7, <1>9
  <2>2. CASE f + w - 1 = l
    BY <1>13, <2>1, <2>2
  <2>3. CASE f + w - 1 # l
    <3> DEFINE j == f + w
    <3>1. X = lower(j) /\ j \in (f + 1)..l /\ j > f + 1 /\ j - 1 \in (f + 1)..l
          /\ f + i \in (f + 1)..(j - 1)
      BY <1>4, <1>5, <1>11, <1>13, <2>3
    <3> HIDE DEF j
    <3>2. post(j - 1) < lower(j) /\ post(f + i) <= post(j - 1) /\ lower(j) \in Int
          /\ post(j - 1) \in Int
      <4>1. lower(j) \in 2..post(j) /\ post(j - 1) < lower(j)
        BY <1>7, <3>1
      <4>2. post(j - 1) \in 2..(N - 1)
        BY <1>7, <3>1
      <4>3. post(f + i) <= post(j - 1)
        BY <1>21, <3>1
      <4> QED BY <4>1, <4>2, <4>3
    <3> QED BY <2>1, <3>1, <3>2
  <2> QED BY <2>2, <2>3
<1>23. \A j \in (d + 1)..(d + (w - 1)) :
          /\ to(j - d) = F[f + (j - d)] /\ f + (j - d) \in (f + 1)..l
          /\ Post(time, to(j - d)) \in 2..(X - 1)
  <2> SUFFICES ASSUME NEW j \in (d + 1)..(d + (w - 1))
               PROVE  /\ to(j - d) = F[f + (j - d)] /\ f + (j - d) \in (f + 1)..l
                      /\ Post(time, to(j - d)) \in 2..(X - 1)
    OBVIOUS
  <2>1. j - d \in 1..(w - 1)
    BY <1>4, <1>6
  <2>2. post(f + (j - d)) \in 2..(X - 1)
    BY <1>22, <2>1
  <2> QED BY <1>9, <2>1, <2>2 DEF post
<1>24. e = 1 => Post(time, to(n - d)) \in Nat /\ X <= Post(time, to(n - d))
  <2> SUFFICES ASSUME e = 1 PROVE Post(time, to(n - d)) \in Nat /\ X <= Post(time, to(n - d))
    OBVIOUS
  <2>1. n - d = w
    BY <1>4, <1>6 DEF n
  <2>2. CASE f + w - 1 = l
    <3> DEFINE t == to(w)
    <3>1. t \in Int /\ t > Last(time)
      BY <1>1, <1>11, <2>2
    <3> HIDE DEF t
    <3>2. UpperBound(time, t) = N
      <4>1. N \in 0..Len(time) /\ ~(N < Len(time)) /\ time[N] <= t
        BY <1>1, <3>1 DEF N
      <4> QED BY <1>1, <3>1, <4>1, UpperBoundIs
    <3>3. Post(time, t) = N
      BY <1>1, <3>1, <3>2 DEF Post
    <3> QED BY <1>1, <1>13, <2>1, <2>2, <3>3 DEF t
  <2>3. CASE f + w - 1 # l
    <3>1. X = lower(f + w) /\ lower(f + w) \in 2..post(f + w) /\ post(f + w) \in 2..(N - 1)
          /\ to(w) = F[f + w]
      BY <1>7, <1>11, <1>13, <2>3
    <3> QED BY <1>1, <2>1, <3>1 DEF post
  <2> QED BY <2>2, <2>3
<1>25. /\ f + w - 1 = l => X = N
       /\ f + w - 1 # l => X = LowerBound(time, F[f + w]) /\ f + w \in (f + 1)..l
  BY <1>11, <1>13 DEF lower
<1>26. /\ \A j \in 1..n : to(j - d) \in Int
       /\ \A j \in 1..(n - 1) : to(j - d) # Last(time)
  <2>1. \A j \in 1..(n - 1) : j \in 1..n /\ j < n
    BY <1>6
  <2> QED BY <1>17, <2>1
<1> QED BY <1>4, <1>5, <1>6, <1>18, <1>19, <1>20, <1>23, <1>24, <1>25, <1>26
        DEF F, N, f, w, l, d, e, n, to, X

-----------------------------------------------------------------------------
(* The strategy.                                                           *)

\* Where the moved events are in the trajectory, before.
OldPosts(old, new, time, m) ==
    [j \in 1..(AtFront(m) + (m.w - 1) + AtBack(old, new, m)) |->
        Post(time, old.eventTimes[m.oldStart + (j - AtFront(m))])]

\* After it.
NewPostsOf(old, new, time, m) ==
    [j \in 1..(AtFront(m) + (m.w - 1) + AtBack(old, new, m)) |->
        Post(time, MovedTo(new, time, m, j - AtFront(m)))]

\* What computeSpreadingStrategy() decides: the ranges of Spread, and as the events of the
\* new trajectory those between matched modes.
LEMMA StrategyIs ==
    ASSUME NEW old \in ModeSchedule, NEW new \in ModeSchedule, NEW r, RolledOut(r, old),
           FineFor(new, r.time), EndsWithoutEvent(old, new, r.time),
           NEW m, m = Match(old, new, r.time), m.w > 0
    PROVE  LET s == Strategy(old, new, r.time)
               P == OldPosts(old, new, r.time, m)
               Q == NewPostsOf(old, new, r.time, m)
               n == AtFront(m) + (m.w - 1) + AtBack(old, new, m)
           IN  /\ s.erase = EraseFrom(new, r.time, m)
               /\ Ranges(s, P, Q, n)
               /\ s.postEventIndices \in Seq(Nat) /\ Len(s.postEventIndices) = m.w - 1
               /\ s.eventTimes \in Seq(Int) /\ Len(s.eventTimes) = m.w - 1
               /\ \A i \in 1..(m.w - 1) :
                     /\ s.postEventIndices[i] = Post(r.time, new.eventTimes[m.newStart + i])
                     /\ s.eventTimes[i] = new.eventTimes[m.newStart + i]
               /\ s.keepEventData[2] - s.keepEventData[1] = m.w - 1
<1> DEFINE time == r.time
           E == old.eventTimes
           F == new.eventTimes
           d == AtFront(m)
           e == AtBack(old, new, m)
           w == m.w
           f == m.newStart
           n == d + (w - 1) + e
           X == EraseFrom(new, time, m)
           P == OldPosts(old, new, time, m)
           Q == NewPostsOf(old, new, time, m)
           events == MatchedEvents(old, new, time, m)
           oldTimes == [j \in DOMAIN events |-> events[j][1]]
           newTimes == [j \in DOMAIN events |-> events[j][2]]
           oldPost == FindPostEventIndices(oldTimes, time)
           newPost == FindPostEventIndices(newTimes, time)
           from(j) == E[m.oldStart + (j - d)]
           to(j) == MovedTo(new, time, m, j - d)
           s == Strategy(old, new, time)
           triggered == Cardinality({j \in DOMAIN events : newPost[j] = 0})
           remaining == Cardinality({j \in DOMAIN events : newPost[j] < X})
<1>1. TimeLine(time)
  BY DEF RolledOut
<1>2. Matched(m, old, new, time)
  BY <1>1, Matches
<1>3. /\ events \in Seq(Int \X Int) /\ Len(events) = n /\ n \in Nat
      /\ \A j \in 1..n : /\ m.oldStart + (j - d) \in (m.oldFirst + 1)..m.oldLast
                         /\ events[j] = <<from(j), to(j)>>
  BY <1>1, <1>2, MatchedEventsAre
<1>4. /\ d \in {0, 1} /\ e \in {0, 1} /\ w \in Nat /\ f \in Nat
      /\ X \in 1..Len(time)
      /\ \A j \in 1..n : to(j) \in Int
      /\ \A i, j \in 1..n : i < j => to(i) < to(j)
      /\ \A j \in 1..(n - 1) : to(j) # Last(time)
      /\ d = 1 => Post(time, to(1)) = 0
      /\ \A j \in (d + 1)..(d + (w - 1)) :
            /\ to(j) = F[f + (j - d)] /\ f + (j - d) \in (f + 1)..m.newLast
            /\ Post(time, to(j)) \in 2..(X - 1)
      /\ e = 1 => Post(time, to(n)) \in Nat /\ X <= Post(time, to(n))
  <2>1. FineFor(new, time) /\ EndsWithoutEvent(old, new, time) /\ m = Match(old, new, time)
    OBVIOUS
  <2> HIDE DEF time
  <2>2. d \in {0, 1} /\ e \in {0, 1} /\ w \in Nat /\ f \in Nat /\ X \in 1..Len(time)
    BY <1>1, <2>1, MovedTimes
  <2>3. /\ \A j \in 1..n : to(j) \in Int
        /\ \A i, j \in 1..n : i < j => to(i) < to(j)
    BY <1>1, <2>1, MovedTimes
  <2>4. /\ \A j \in 1..(n - 1) : to(j) # Last(time)
        /\ d = 1 => Post(time, to(1)) = 0
    BY <1>1, <2>1, MovedTimes
  <2>5. \A j \in (d + 1)..(d + (w - 1)) :
           /\ to(j) = F[f + (j - d)] /\ f + (j - d) \in (f + 1)..m.newLast
           /\ Post(time, to(j)) \in 2..(X - 1)
    BY <1>1, <2>1, MovedTimes
  <2>6. e = 1 => Post(time, to(n)) \in Nat /\ X <= Post(time, to(n))
    BY <1>1, <2>1, MovedTimes
  <2> QED BY <2>2, <2>3, <2>4, <2>5, <2>6
<1>5. \A j \in 1..n : from(j) \in Int /\ from(j) <= Last(time)
  <2> SUFFICES ASSUME NEW j \in 1..n PROVE from(j) \in Int /\ from(j) <= Last(time)
    OBVIOUS
  <2> DEFINE i == m.oldStart + (j - d)
  <2>1. /\ m.oldFirst = UpperBound(E, time[1]) /\ m.oldLast = UpperBound(E, Last(time))
    BY <1>2 DEF Matched
  <2>2. i \in (UpperBound(E, time[1]) + 1)..UpperBound(E, Last(time))
    BY <1>3, <2>1
  <2> HIDE DEF i
  <2>3. i \in 1..Len(E) /\ E[i] <= Last(time)
    BY <2>2, ModesAtEvents
  <2>4. E[i] \in Int
    BY <2>3, Schedules
  <2> QED BY <2>3, <2>4 DEF i
<1>6. \A i, j \in 1..n : i < j => from(i) < from(j)
  <2> SUFFICES ASSUME NEW i \in 1..n, NEW j \in 1..n, i < j PROVE from(i) < from(j)
    OBVIOUS
  <2> DEFINE a == m.oldStart + (i - d)
             b == m.oldStart + (j - d)
  <2>1. /\ m.oldFirst = UpperBound(E, time[1]) /\ m.oldLast = UpperBound(E, Last(time))
        /\ m.oldStart \in Int
    <3>1. m.oldFirst = UpperBound(E, time[1]) /\ m.oldLast = UpperBound(E, Last(time))
          /\ m.oldStart \in m.oldFirst..m.oldLast
      BY <1>2 DEF Matched
    <3> QED BY <3>1
  <2>2. /\ a \in (UpperBound(E, time[1]) + 1)..UpperBound(E, Last(time))
        /\ b \in (UpperBound(E, time[1]) + 1)..UpperBound(E, Last(time))
        /\ a < b
    <3>1. a \in (m.oldFirst + 1)..m.oldLast /\ b \in (m.oldFirst + 1)..m.oldLast
      BY <1>3
    <3>2. a < b
      BY <1>4, <2>1
    <3> QED BY <2>1, <3>1, <3>2
  <2> HIDE DEF a, b
  <2>3. a \in 1..Len(E) /\ b \in 1..Len(E)
    BY <2>2, ModesAtEvents
  <2>4. E[a] < E[b]
    BY <2>2, <2>3, Schedules
  <2> QED BY <2>4 DEF a, b
<1>7. /\ P = [j \in 1..n |-> Post(time, from(j))]
      /\ Q = [j \in 1..n |-> Post(time, to(j))]
  BY DEF OldPosts, NewPostsOf
<1>8. s = [erase |-> X,
           keepEventData |-> IF w = 0 THEN <<0, 0>>
                             ELSE <<m.oldStart - m.oldFirst, m.oldStart - m.oldFirst + w - 1>>,
           spread |-> [j \in {i \in DOMAIN events : newPost[i] # oldPost[i]} |->
                         IF newPost[j] < oldPost[j]
                         THEN Backward(oldPost[j], newPost[j], X)
                         ELSE Forward(oldPost[j], newPost[j],
                                      IF j = 1 THEN oldPost[j] ELSE newPost[j - 1])],
           postEventIndices |-> SubSeq(newPost, triggered + 1, remaining),
           eventTimes |-> SubSeq(newTimes, triggered + 1, remaining)]
  BY DEF Strategy
<1> HIDE DEF E, F, d, e, w, f, n, X, P, Q, events, from, to, s
<1>9. /\ oldTimes \in Seq(Int) /\ Len(oldTimes) = n /\ DOMAIN events = 1..n
      /\ \A j \in 1..n : oldTimes[j] = from(j)
  <2>1. DOMAIN events = 1..n
    BY <1>3
  <2>2. \A j \in 1..n : events[j][1] = from(j)
    BY <1>3
  <2>3. oldTimes = [j \in 1..n |-> from(j)]
    BY <2>1, <2>2
  <2> HIDE DEF oldTimes
  <2> QED BY <1>3, <1>5, <2>1, <2>3
<1>10. /\ newTimes \in Seq(Int) /\ Len(newTimes) = n
       /\ \A j \in 1..n : newTimes[j] = to(j)
  <2>1. \A j \in 1..n : events[j][2] = to(j)
    BY <1>3
  <2>2. newTimes = [j \in 1..n |-> to(j)]
    BY <1>9, <2>1
  <2> HIDE DEF newTimes
  <2> QED BY <1>3, <1>4, <2>2
<1> HIDE DEF oldTimes, newTimes
<1>11. /\ oldPost \in Seq(Nat) /\ Len(oldPost) = n
       /\ \A j \in 1..n : oldPost[j] = Post(time, from(j))
  <2>1. ASSUME NEW j \in 1..(n - 1) PROVE oldTimes[j] # Last(time)
    <3>1. n \in Nat
      BY <1>3
    <3>2. j \in 1..n /\ j + 1 \in 1..n /\ j < j + 1
      BY <3>1
    <3>3. from(j) < from(j + 1) /\ from(j + 1) <= Last(time)
      BY <1>5, <1>6, <3>2
    <3>4. from(j) \in Int /\ from(j + 1) \in Int /\ Last(time) \in Int
      BY <1>1, <1>5, <3>2, TimeLines
    <3> QED BY <1>9, <3>2, <3>3, <3>4
  <2>2. \A j \in 1..(Len(oldTimes) - 1) : oldTimes[j] # Last(time)
    BY <1>9, <2>1
  <2>3. /\ FindPostEventIndices(oldTimes, time) \in Seq(Nat)
        /\ Len(FindPostEventIndices(oldTimes, time)) = Len(oldTimes)
        /\ \A j \in 1..Len(oldTimes) :
              FindPostEventIndices(oldTimes, time)[j] = Post(time, oldTimes[j])
    BY <1>1, <1>9, <2>2, FoundPosts
  <2> QED BY <1>9, <2>3
<1>12. /\ newPost \in Seq(Nat) /\ Len(newPost) = n
       /\ \A j \in 1..n : newPost[j] = Post(time, to(j))
  <2>1. \A j \in 1..(n - 1) : j \in 1..n
    BY <1>3
  <2>2. \A j \in 1..(Len(newTimes) - 1) : newTimes[j] # Last(time)
    BY <1>4, <1>10, <2>1
  <2>3. /\ FindPostEventIndices(newTimes, time) \in Seq(Nat)
        /\ Len(FindPostEventIndices(newTimes, time)) = Len(newTimes)
        /\ \A j \in 1..Len(newTimes) :
              FindPostEventIndices(newTimes, time)[j] = Post(time, newTimes[j])
    BY <1>1, <1>10, <2>2, FoundPosts
  <2> QED BY <1>10, <2>3
<1> HIDE DEF oldPost, newPost
<1>13. \A j \in 1..n : oldPost[j] = P[j] /\ newPost[j] = Q[j]
  BY <1>7, <1>11, <1>12
<1>14. \A j \in 1..n : P[j] \in Nat /\ Q[j] \in Nat
  BY <1>11, <1>12, <1>13
<1>15. ASSUME NEW i \in 1..n, NEW j \in 1..n, i < j PROVE P[i] <= P[j] /\ Q[i] <= Q[j]
  <2>1. P[i] <= P[j]
    <3>1. from(i) \in Int /\ from(j) \in Int /\ from(i) <= from(j)
      BY <1>5, <1>6, <1>15
    <3>2. Post(time, from(i)) <= Post(time, from(j))
      BY <1>1, <3>1, PostGrows
    <3> QED BY <1>7, <3>2
  <2>2. Q[i] <= Q[j]
    <3>1. to(i) \in Int /\ to(j) \in Int /\ to(i) <= to(j)
      BY <1>4, <1>15
    <3>2. Post(time, to(i)) <= Post(time, to(j))
      BY <1>1, <3>1, PostGrows
    <3> QED BY <1>7, <3>2
  <2> QED BY <2>1, <2>2
<1>16. /\ \A j \in 1..n : j <= d => Q[j] = 0
       /\ \A j \in (d + 1)..(d + (w - 1)) : j \in 1..n /\ Q[j] \in 2..(X - 1)
                                            /\ to(j) = F[f + (j - d)]
       /\ \A j \in 1..n : j > d + (w - 1) => X <= Q[j]
  <2>1. ASSUME NEW j \in 1..n, j <= d PROVE Q[j] = 0
    <3>1. d = 1 /\ j = 1
      BY <1>4, <2>1
    <3> QED BY <1>4, <1>7, <3>1
  <2>2. ASSUME NEW j \in (d + 1)..(d + (w - 1))
        PROVE j \in 1..n /\ Q[j] \in 2..(X - 1) /\ to(j) = F[f + (j - d)]
    <3>1. j \in 1..n
      BY <1>4 DEF n
    <3> QED BY <1>4, <1>7, <3>1
  <2>3. ASSUME NEW j \in 1..n, j > d + (w - 1) PROVE X <= Q[j]
    <3>1. e = 1 /\ j = n
      BY <1>4, <2>3 DEF n
    <3> QED BY <1>4, <1>7, <3>1
  <2> QED BY <2>1, <2>2, <2>3
<1>17. /\ w \in Nat /\ w - 1 \in Nat /\ d + (w - 1) <= n
       /\ d \in Nat /\ n \in Nat /\ d + (w - 1) \in Nat
  BY <1>3, <1>4 DEF n, w
<1>18. triggered = d
  <2>1. {j \in DOMAIN events : newPost[j] = 0} = 1..d
    <3>1. \A j \in 1..n : newPost[j] = 0 <=> j <= d
      <4> SUFFICES ASSUME NEW j \in 1..n PROVE Q[j] = 0 <=> j <= d
        BY <1>13
      <4>1. j <= d \/ j \in (d + 1)..(d + (w - 1)) \/ j > d + (w - 1)
        BY <1>4, <1>17
      <4>2. X > 0 /\ Q[j] \in Nat /\ X \in Int
        BY <1>4, <1>14
      <4> QED BY <1>4, <1>16, <1>17, <4>1, <4>2
    <3>2. \A j \in 1..d : j \in 1..n
      BY <1>17
    <3> QED BY <1>4, <1>9, <3>1, <3>2
  <2>2. Cardinality(1..d) = d
    BY <1>17, FS_Interval
  <2> QED BY <2>1, <2>2
<1>19. remaining = d + (w - 1)
  <2>1. {j \in DOMAIN events : newPost[j] < X} = 1..(d + (w - 1))
    <3>1. \A j \in 1..n : newPost[j] < X <=> j <= d + (w - 1)
      <4> SUFFICES ASSUME NEW j \in 1..n PROVE Q[j] < X <=> j <= d + (w - 1)
        BY <1>13
      <4>1. j <= d \/ j \in (d + 1)..(d + (w - 1)) \/ j > d + (w - 1)
        BY <1>4, <1>17
      <4>2. X > 0 /\ Q[j] \in Nat /\ X \in Int
        BY <1>4, <1>14
      <4> QED BY <1>4, <1>16, <1>17, <4>1, <4>2
    <3>2. \A j \in 1..(d + (w - 1)) : j \in 1..n
      BY <1>17
    <3>3. DOMAIN events = 1..n
      BY <1>9
    <3>4. d + (w - 1) \in Nat /\ n \in Nat
      BY <1>17
    <3> QED BY <3>1, <3>2, <3>3, <3>4
  <2>2. d + (w - 1) \in Int /\ 1 <= (d + (w - 1)) + 1
    BY <1>4, <1>17
  <2>3. Cardinality(1..(d + (w - 1))) = d + (w - 1)
    <3>1. d + (w - 1) \in Nat
      BY <1>4, <1>17
    <3> DEFINE z == d + (w - 1)
    <3> HIDE DEF z
    <3>2. Cardinality(1..z) = z
      <4>1. z \in Nat
        BY <3>1 DEF z
      <4> QED BY <4>1, FS_Interval
    <3> QED BY <3>2 DEF z
  <2> QED BY <2>1, <2>3
<1> HIDE DEF triggered, remaining
<1>20. /\ s.erase = X
       /\ DOMAIN s.spread = {j \in 1..n : Q[j] # P[j]}
       /\ \A j \in DOMAIN s.spread :
             s.spread[j] = IF Q[j] < P[j] THEN Backward(P[j], Q[j], s.erase)
                           ELSE Forward(P[j], Q[j], IF j = 1 THEN P[j] ELSE Q[j - 1])
  <2>1. /\ s.erase = X
        /\ s.spread = [j \in {i \in 1..n : newPost[i] # oldPost[i]} |->
                         IF newPost[j] < oldPost[j]
                         THEN Backward(oldPost[j], newPost[j], X)
                         ELSE Forward(oldPost[j], newPost[j],
                                      IF j = 1 THEN oldPost[j] ELSE newPost[j - 1])]
    BY <1>8, <1>9
  <2>2. {i \in 1..n : newPost[i] # oldPost[i]} = {j \in 1..n : Q[j] # P[j]}
    BY <1>13
  <2>3. ASSUME NEW j \in DOMAIN s.spread
        PROVE  s.spread[j] = IF Q[j] < P[j] THEN Backward(P[j], Q[j], s.erase)
                             ELSE Forward(P[j], Q[j], IF j = 1 THEN P[j] ELSE Q[j - 1])
    <3>1. j \in 1..n /\ (j # 1 => j - 1 \in 1..n)
      <4>1. j \in 1..n
        BY <2>1, <2>2
      <4> QED BY <1>17, <4>1
    <3>2. newPost[j] = Q[j] /\ oldPost[j] = P[j] /\ (j # 1 => newPost[j - 1] = Q[j - 1])
      BY <1>13, <3>1
    <3> QED BY <2>1, <3>2
  <2> QED BY <2>1, <2>2, <2>3
<1>21. /\ s.postEventIndices \in Seq(Nat) /\ Len(s.postEventIndices) = w - 1
       /\ \A i \in 1..(w - 1) : s.postEventIndices[i] = newPost[d + i]
  <2>1. s.postEventIndices = SubSeq(newPost, d + 1, d + (w - 1))
    BY <1>8, <1>18, <1>19
  <2>2. Len(newPost) = n /\ newPost \in Seq(Nat)
    BY <1>12
  <2> DEFINE b == w - 1
             kept == s.postEventIndices
  <2>3. d \in Nat /\ b \in Nat /\ d + b <= Len(newPost) /\ newPost \in Seq(Nat)
    BY <1>17, <2>2
  <2>4. kept = SubSeq(newPost, d + 1, d + b)
    BY <2>1
  <2> HIDE DEF b, kept
  <2>5. Len(kept) = b
    BY <2>3, <2>4
  <2>6. \A i \in 1..b : kept[i] = newPost[d + i]
    BY <2>3, <2>4
  <2>7. kept \in Seq(Nat)
    BY <2>3, <2>4
  <2> QED BY <2>5, <2>6, <2>7 DEF b, kept
<1>22. /\ s.eventTimes \in Seq(Int) /\ Len(s.eventTimes) = w - 1
       /\ \A i \in 1..(w - 1) : s.eventTimes[i] = newTimes[d + i]
  <2>1. s.eventTimes = SubSeq(newTimes, d + 1, d + (w - 1))
    BY <1>8, <1>18, <1>19
  <2>2. Len(newTimes) = n /\ newTimes \in Seq(Int)
    BY <1>10
  <2> DEFINE b == w - 1
             kept == s.eventTimes
  <2>3. d \in Nat /\ b \in Nat /\ d + b <= Len(newTimes) /\ newTimes \in Seq(Int)
    BY <1>17, <2>2
  <2>4. kept = SubSeq(newTimes, d + 1, d + b)
    BY <2>1
  <2> HIDE DEF b, kept
  <2>5. Len(kept) = b
    BY <2>3, <2>4
  <2>6. \A i \in 1..b : kept[i] = newTimes[d + i]
    BY <2>3, <2>4
  <2>7. kept \in Seq(Int)
    BY <2>3, <2>4
  <2> QED BY <2>5, <2>6, <2>7 DEF b, kept
<1>23. ASSUME NEW i \in 1..(w - 1)
       PROVE  /\ s.postEventIndices[i] = Post(time, F[f + i])
              /\ s.eventTimes[i] = F[f + i]
  <2>1. d + i \in (d + 1)..(d + (w - 1)) /\ (d + i) - d = i /\ d + i \in 1..n
    BY <1>17
  <2>2. to(d + i) = F[f + i]
    BY <1>16, <2>1
  <2> QED BY <1>10, <1>12, <1>21, <1>22, <2>1, <2>2
<1>24. s.keepEventData[2] - s.keepEventData[1] = w - 1
  <2>1. w # 0
    BY DEF w
  <2>2. s.keepEventData = <<m.oldStart - m.oldFirst, m.oldStart - m.oldFirst + w - 1>>
    BY <1>8, <2>1
  <2>3. m.oldStart \in Int /\ m.oldFirst \in Int
    <3>1. m.oldFirst = UpperBound(E, time[1]) /\ m.oldStart \in m.oldFirst..m.oldLast
      BY <1>2 DEF Matched, E
    <3>2. UpperBound(E, time[1]) \in Nat
      <4>1. TimeLine(time) /\ \A j \in Int : time[1] = j * Unit => Len(time) = 1
        BY DEF RolledOut
      <4> HIDE DEF time
      <4> QED BY <4>1, ActiveModes DEF E
    <3> QED BY <3>1, <3>2
  <2> QED BY <1>17, <2>2, <2>3
<1>25. Ranges(s, P, Q, n)
  BY <1>14, <1>15, <1>20 DEF Ranges
<1> QED BY <1>20, <1>21, <1>22, <1>23, <1>24, <1>25
        DEF F, d, e, w, f, n, X, P, Q, s

-----------------------------------------------------------------------------
(* Moving the points next to the events.                                   *)

\* What is kept of a trajectory, before points of it are moved.
Kept(time, s) == SubSeq(time, 1, s.erase)

\* The recursion of AdjustTimeTrajectory() is well-founded.
IsMoved(moved, n, time, s) ==
    moved = [k \in 0..n |-> IF k = 0 THEN Kept(time, s)
                            ELSE MoveToEvent(moved[k - 1], s, k)]

\* There is a function that satisfies the recursion of AdjustTimeTrajectory().
LEMMA MovedExists ==
    ASSUME NEW time, NEW s, NEW n \in Nat
    PROVE  \E moved : IsMoved(moved, n, time, s)
<1> DEFINE Step(g, i) == IF i = 0 THEN Kept(time, s)
                         ELSE MoveToEvent(g[i - 1], s, i)
           S == {m \in Nat : \E g : g = [i \in 0..m |-> Step(g, i)]}
<1>1. 0 \in S
  <2> DEFINE g == [i \in 0..0 |-> Kept(time, s)]
  <2>1. g = [i \in 0..0 |-> Step(g, i)]
    OBVIOUS
  <2> HIDE DEF g
  <2>2. \E h : h = [i \in 0..0 |-> Step(h, i)]
    BY <2>1
  <2> QED BY <2>2
<1>2. ASSUME NEW m \in S \cap Nat PROVE m + 1 \in S
  <2>1. PICK g : g = [i \in 0..m |-> Step(g, i)]
    BY <1>2
  <2> DEFINE h == [i \in 0..(m + 1) |-> Step(g, i)]
  <2>2. ASSUME NEW i \in 0..(m + 1) PROVE Step(g, i) = Step(h, i)
    <3>1. i # 0 => i - 1 \in 0..m /\ i - 1 \in 0..(m + 1)
      OBVIOUS
    <3>2. i # 0 => h[i - 1] = g[i - 1]
      BY <2>1, <3>1
    <3> QED BY <3>2
  <2>3. h = [i \in 0..(m + 1) |-> Step(h, i)]
    BY <2>2
  <2> HIDE DEF h
  <2>4. \E e : e = [i \in 0..(m + 1) |-> Step(e, i)]
    BY <2>3
  <2> QED BY <2>4
<1>3. n \in S
  BY <1>1, <1>2, Induction
<1> QED BY <1>3 DEF IsMoved

\* So AdjustTimeTrajectory() moves the points next to one event after the other.
LEMMA MovedSteps ==
    ASSUME NEW time, NEW s, NEW n \in Nat, Len(s.postEventIndices) = n
    PROVE  \E moved :
              /\ moved[0] = Kept(time, s)
              /\ \A k \in 1..n : moved[k] = MoveToEvent(moved[k - 1], s, k)
              /\ AdjustTimeTrajectory(time, s) = moved[n]
<1> DEFINE P(g) == IsMoved(g, n, time, s)
           moved == CHOOSE g : P(g)
<1>1. P(moved)
  <2>1. \E g : P(g)
    BY MovedExists
  <2> HIDE DEF P
  <2> QED BY <2>1
<1>2. AdjustTimeTrajectory(time, s) = moved[n]
  BY DEF AdjustTimeTrajectory, IsMoved, Kept
<1> DEFINE start == Kept(time, s)
           Step(A, k) == MoveToEvent(A, s, k)
<1> HIDE DEF moved
<1>3. moved = [k \in 0..n |-> IF k = 0 THEN start ELSE Step(moved[k - 1], k)]
  BY <1>1 DEF IsMoved
<1> HIDE DEF start, Step
<1>4. moved[0] = start
  BY <1>3
<1>5. \A k \in 1..n : moved[k] = Step(moved[k - 1], k)
  BY <1>3
<1> QED BY <1>2, <1>4, <1>5 DEF start, Step

\* The events to which points are moved lie inside what is kept of the trajectory, each
\* next to the point that is moved to it, and apart from each other.
Movable(time, s, K) ==
    LET q == s.postEventIndices
        v == s.eventTimes
    IN  /\ K \in Nat /\ Len(q) = K
        /\ s.erase \in 1..Len(time)
        /\ \A i \in 1..K :
              /\ q[i] \in 2..(s.erase - 1) /\ v[i] \in Int
              /\ \A k \in 1..Len(time) :
                    /\ k < q[i] => time[k] < v[i]
                    /\ k > q[i] => v[i] < time[k] \/ (v[i] = time[k] /\ k = Len(time))
        /\ \A i, j \in 1..K : i < j => q[i] < q[j] /\ v[i] + 1 < v[j]

\* What is left of a trajectory after its points were moved to the first k events.
MovedUpTo(A, time, s, k) ==
    LET q == s.postEventIndices
        v == s.eventTimes
        X == s.erase
    IN  /\ TimeLine(A) /\ Len(A) = X /\ A[1] = time[1] /\ A[X] <= time[X]
        /\ \A i \in 1..X : k = 0 \/ i > q[k] + 1 => A[i] = time[i]
        /\ k > 0 => A[q[k] + 1] <= v[k] + 1
        /\ \A j \in 1..k : A[q[j]] = v[j]

\* Before the first event.
LEMMA NothingMoved ==
    ASSUME NEW time, TimeLine(time), NEW s, s.erase \in 1..Len(time)
    PROVE  MovedUpTo(Kept(time, s), time, s, 0)
<1> DEFINE X == s.erase
           A == Kept(time, s)
           N == Len(time)
<1>1. /\ time \in Seq(Int) /\ N \in Nat \ {0} /\ DOMAIN time = 1..N
      /\ \A i \in 1..N : time[i] \in Int
  BY TimeLines
<1>2. /\ A \in Seq(Int) /\ Len(A) = X /\ DOMAIN A = 1..X /\ A # << >>
      /\ \A i \in 1..X : A[i] = time[i]
  BY <1>1 DEF Kept
<1> HIDE DEF A, X, N
<1>3. X \in 1..N
  BY DEF X, N
<1>4. ASSUME NEW i \in 1..X, NEW j \in 1..X, i < j
      PROVE  A[i] < A[j] \/ (A[i] = A[j] /\ j = X /\ i = j - 1)
  <2>1. i \in 1..N /\ j \in 1..N
    BY <1>1, <1>3
  <2>2. time[i] < time[j] \/ (time[i] = time[j] /\ j = N /\ i = j - 1)
    BY <1>1, <1>4, <2>1 DEF TimeLine, N
  <2>3. j = N => j = X
    BY <1>1, <1>3
  <2> QED BY <1>2, <2>2, <2>3
<1>5. TimeLine(A)
  BY <1>2, <1>4 DEF TimeLine
<1>6. 1 \in 1..X /\ X \in 1..X /\ time[X] \in Int
  BY <1>1, <1>3
<1>7. A[1] = time[1] /\ A[X] <= time[X]
  BY <1>2, <1>6
<1> QED BY <1>2, <1>5, <1>7 DEF MovedUpTo, X, A

\* One event more.
LEMMA EventMoved ==
    ASSUME NEW time, TimeLine(time), NEW s, NEW K, Movable(time, s, K),
           NEW A, NEW k \in 0..(K - 1), MovedUpTo(A, time, s, k)
    PROVE  MovedUpTo(MoveToEvent(A, s, k + 1), time, s, k + 1)
<1> DEFINE q == s.postEventIndices
           v == s.eventTimes
           X == s.erase
           N == Len(time)
           p == q[k + 1]
           t == v[k + 1]
           u == Least(t + 1, A[X])
           B == MoveToEvent(A, s, k + 1)
<1>1. /\ time \in Seq(Int) /\ N \in Nat \ {0} /\ DOMAIN time = 1..N /\ Sorted(time)
      /\ \A i \in 1..N : time[i] \in Int
  BY TimeLines
<1>2. /\ K \in Nat /\ X \in 1..N
      /\ \A i \in 1..K :
            /\ q[i] \in 2..(X - 1) /\ v[i] \in Int
            /\ \A j \in 1..N :
                  /\ j < q[i] => time[j] < v[i]
                  /\ j > q[i] => v[i] < time[j] \/ (v[i] = time[j] /\ j = N)
      /\ \A i, j \in 1..K : i < j => q[i] < q[j] /\ v[i] + 1 < v[j]
  BY DEF Movable
<1>3. /\ TimeLine(A) /\ Len(A) = X /\ A[1] = time[1] /\ A[X] <= time[X]
      /\ \A i \in 1..X : k = 0 \/ i > q[k] + 1 => A[i] = time[i]
      /\ k > 0 => A[q[k] + 1] <= v[k] + 1
      /\ \A j \in 1..k : A[q[j]] = v[j]
  BY DEF MovedUpTo
<1>4. /\ A \in Seq(Int) /\ DOMAIN A = 1..X /\ Sorted(A) /\ Last(A) = A[X]
      /\ \A i \in 1..X : A[i] \in Int
      /\ \A i, j \in 1..X : i < j => A[i] < A[j] \/ (A[i] = A[j] /\ j = X /\ i = j - 1)
  <2>1. /\ A \in Seq(Int) /\ DOMAIN A = 1..Len(A) /\ Sorted(A) /\ Last(A) = A[Len(A)]
        /\ \A i \in 1..Len(A) : A[i] \in Int
    BY <1>3, TimeLines
  <2>2. \A i, j \in 1..X : i < j => A[i] < A[j] \/ (A[i] = A[j] /\ j = X /\ i = j - 1)
    <3>1. \A i, j \in DOMAIN A : i < j => A[i] < A[j] \/ (A[i] = A[j] /\ j = Len(A) /\ i = j - 1)
      BY <1>3 DEF TimeLine
    <3> QED BY <1>3, <2>1, <3>1
  <2> QED BY <1>3, <2>1, <2>2
<1>5. K \in Nat /\ k \in Nat /\ k + 1 \in 1..K /\ (k > 0 => k \in 1..K /\ k \in 1..k)
  BY <1>2
<1>6. /\ p \in 2..(X - 1) /\ t \in Int
      /\ \A j \in 1..N : /\ j < p => time[j] < t
                         /\ j > p => t < time[j] \/ (t = time[j] /\ j = N)
      /\ k > 0 => /\ q[k] \in 2..(X - 1) /\ q[k] < p
                  /\ v[k] \in Int /\ v[k] + 1 < t
  BY <1>2, <1>5
<1>7. B = [A EXCEPT ![p] = t, ![p + 1] = u]
  BY <1>4 DEF MoveToEvent, Epsilon
<1> HIDE DEF q, v, X, N, p, t, u, B
<1>8. X \in Int /\ X \in 1..X /\ X \in 1..N /\ p \in 1..X /\ p + 1 \in 1..X /\ p # p + 1 /\ p # 1
      /\ 1 \in 1..X /\ p + 1 # 1
  BY <1>1, <1>2, <1>6
<1>9. A[X] = time[X]
  BY <1>3, <1>5, <1>6, <1>8
<1>10. time[X] \in Int /\ (t < time[X] \/ (t = time[X] /\ X = N))
  <2>1. X > p
    BY <1>6, <1>8
  <2> QED BY <1>1, <1>6, <1>8, <2>1
<1>11. u \in Int /\ t <= u /\ u <= t + 1 /\ u <= time[X] /\ (t < time[X] => t < u)
  BY <1>6, <1>9, <1>10 DEF Least, u
<1>12. /\ B \in Seq(Int) /\ Len(B) = X /\ DOMAIN B = 1..X
       /\ \A i \in 1..X : B[i] = IF i = p THEN t ELSE IF i = p + 1 THEN u ELSE A[i]
  <2>1. B = [i \in 1..X |-> IF i = p + 1 THEN u ELSE IF i = p THEN t ELSE A[i]]
    BY <1>4, <1>7, <1>8
  <2>2. \A i \in 1..X : B[i] = IF i = p THEN t ELSE IF i = p + 1 THEN u ELSE A[i]
    BY <1>8, <2>1
  <2>3. \A i \in 1..X : B[i] \in Int
    BY <1>4, <1>6, <1>11, <2>2
  <2>4. X \in Nat /\ DOMAIN B = 1..X
    BY <1>2, <1>8, <2>1
  <2>5. B \in [1..X -> Int]
    BY <2>1, <2>3, <2>4
  <2> QED BY <2>2, <2>4, <2>5
<1>13. ASSUME NEW i \in 1..X, i < p PROVE A[i] < t
  <2>1. i \in 1..N
    BY <1>1, <1>2, <1>8
  <2>2. CASE k = 0 \/ i > q[k] + 1
    BY <1>3, <1>6, <1>13, <2>1, <2>2
  <2>3. CASE k > 0 /\ i = q[k] + 1
    <3>1. A[i] <= v[k] + 1 /\ A[i] \in Int /\ v[k] \in Int /\ v[k] + 1 < t
      BY <1>3, <1>4, <1>6, <2>3
    <3> QED BY <1>6, <3>1
  <2>4. CASE k > 0 /\ i <= q[k]
    <3>1. q[k] \in 1..X /\ A[q[k]] = v[k]
      BY <1>3, <1>5, <1>6, <1>8, <2>4
    <3>2. A[i] <= A[q[k]]
      <4>1. i = q[k] \/ i < q[k]
        BY <1>6, <2>4
      <4>2. A[i] \in Int /\ A[q[k]] \in Int
        BY <1>4, <3>1
      <4> QED BY <1>4, <3>1, <4>1, <4>2 DEF Sorted
    <3>3. A[i] \in Int /\ v[k] \in Int /\ v[k] + 1 < t
      BY <1>4, <1>6, <2>4
    <3> QED BY <1>6, <3>1, <3>2, <3>3
  <2>5. k = 0 \/ i > q[k] + 1 \/ (k > 0 /\ i = q[k] + 1) \/ (k > 0 /\ i <= q[k])
    BY <1>5, <1>6
  <2> QED BY <2>2, <2>3, <2>4, <2>5
<1>14. ASSUME NEW i \in 1..X, i > p + 1
       PROVE  /\ A[i] = time[i] /\ i \in 1..N /\ time[i] \in Int
              /\ u < time[i] \/ (u = time[i] /\ i = X /\ p + 1 = i - 1)
  <2>1. i \in 1..N /\ p + 1 \in 1..N /\ p + 1 # N
    BY <1>1, <1>2, <1>8, <1>14
  <2>2. A[i] = time[i]
    BY <1>3, <1>5, <1>6, <1>14
  <2>3. t < time[p + 1]
    <3>1. p + 1 > p
      BY <1>6
    <3> QED BY <1>6, <2>1, <3>1
  <2>4. time[p + 1] < time[i] \/ (time[p + 1] = time[i] /\ i = N /\ p + 1 = i - 1)
    BY <1>1, <1>14, <2>1 DEF TimeLine, N
  <2>5. i = N => i = X
    BY <1>1, <1>2, <1>8
  <2>6. time[i] \in Int /\ time[p + 1] \in Int
    BY <1>1, <2>1
  <2> QED BY <1>6, <1>11, <2>1, <2>2, <2>3, <2>4, <2>5, <2>6
<1>15. t < u \/ (t = u /\ p + 1 = X)
  <2> SUFFICES ASSUME ~(t < u) PROVE t = u /\ p + 1 = X
    OBVIOUS
  <2>1. t = u /\ t = time[X] /\ X = N
    BY <1>6, <1>10, <1>11
  <2>2. p + 1 = X
    <3> SUFFICES ASSUME p + 1 # X PROVE FALSE
      OBVIOUS
    <3>1. p + 1 \in 1..N /\ p + 1 < N /\ p + 1 > p /\ N \in 1..N
      BY <1>1, <1>6, <1>8, <2>1
    <3>2. t < time[p + 1]
      BY <1>6, <3>1
    <3>3. time[p + 1] <= time[N] /\ time[p + 1] \in Int
      BY <1>1, <3>1 DEF Sorted
    <3> QED BY <1>6, <2>1, <3>2, <3>3
  <2> QED BY <2>1, <2>2
<1>16. ASSUME NEW i \in 1..X, NEW j \in 1..X, i < j
       PROVE  B[i] < B[j] \/ (B[i] = B[j] /\ j = X /\ i = j - 1)
  <2>1. i < p \/ i = p \/ i = p + 1 \/ i > p + 1
    BY <1>6
  <2>2. j < p \/ j = p \/ j = p + 1 \/ j > p + 1
    BY <1>6
  <2>3. CASE i < p
    <3>1. B[i] = A[i] /\ A[i] < t /\ A[i] \in Int
      BY <1>4, <1>6, <1>12, <1>13, <2>3
    <3>2. CASE j < p
      BY <1>4, <1>6, <1>12, <1>16, <3>1, <3>2
    <3>3. CASE j = p
      BY <1>12, <3>1, <3>3
    <3>4. CASE j = p + 1
      BY <1>6, <1>11, <1>12, <1>8, <3>1, <3>4
    <3>5. CASE j > p + 1
      BY <1>4, <1>6, <1>12, <1>16, <3>1, <3>5
    <3> QED BY <2>2, <3>2, <3>3, <3>4, <3>5
  <2>4. CASE i = p
    <3>1. B[i] = t
      BY <1>12, <2>4
    <3>2. CASE j = p + 1
      BY <1>8, <1>12, <1>15, <2>4, <3>1, <3>2
    <3>3. CASE j > p + 1
      <4>1. /\ B[j] = time[j] /\ time[j] \in Int
            /\ (u < time[j] \/ (u = time[j] /\ j = X /\ p + 1 = j - 1))
        <5>1. A[j] = time[j] /\ time[j] \in Int
              /\ (u < time[j] \/ (u = time[j] /\ j = X /\ p + 1 = j - 1))
          BY <1>14, <3>3
        <5>2. j # p /\ j # p + 1
          BY <1>6, <3>3
        <5> QED BY <1>12, <5>1, <5>2
      <4>2. t < u
        BY <1>6, <1>15, <3>3, <1>8
      <4> QED BY <1>6, <1>11, <3>1, <4>1, <4>2
    <3> QED BY <1>6, <1>16, <2>2, <2>4, <3>2, <3>3
  <2>5. CASE i = p + 1
    <3>1. B[i] = u /\ j > p + 1
      BY <1>6, <1>8, <1>12, <1>16, <2>5
    <3>2. B[j] = time[j] /\ (u < time[j] \/ (u = time[j] /\ j = X /\ p + 1 = j - 1))
      BY <1>6, <1>12, <1>14, <3>1
    <3> QED BY <2>5, <3>1, <3>2
  <2>6. CASE i > p + 1
    <3>1. j > p + 1
      BY <1>6, <1>16, <2>6
    <3>2. B[i] = A[i] /\ B[j] = A[j]
      BY <1>6, <1>12, <2>6, <3>1
    <3> QED BY <1>4, <1>16, <3>2
  <2> QED BY <2>1, <2>3, <2>4, <2>5, <2>6
<1>17. TimeLine(B)
  <2>1. B # << >>
    BY <1>8, <1>12
  <2> QED BY <1>12, <1>16, <2>1 DEF TimeLine
<1>18. B[1] = time[1]
  BY <1>3, <1>8, <1>12
<1>19. B[X] <= time[X]
  BY <1>3, <1>6, <1>8, <1>9, <1>10, <1>11, <1>12
<1>20. \A i \in 1..X : i > p + 1 => B[i] = time[i]
  <2> SUFFICES ASSUME NEW i \in 1..X, i > p + 1 PROVE B[i] = time[i]
    OBVIOUS
  <2>1. A[i] = time[i] /\ i # p /\ i # p + 1
    BY <1>6, <1>14
  <2> QED BY <1>12, <2>1
<1>21. B[p + 1] <= t + 1
  BY <1>8, <1>11, <1>12
<1>22. ASSUME NEW j \in 1..(k + 1) PROVE B[q[j]] = v[j]
  <2>1. CASE j = k + 1
    BY <1>8, <1>12, <2>1 DEF p, t
  <2>2. CASE j # k + 1
    <3>1. j \in 1..k /\ j \in 1..K /\ j < k + 1
      BY <1>5, <2>2
    <3>2. q[j] \in 2..(X - 1) /\ q[j] < p
      BY <1>2, <1>5, <3>1 DEF p
    <3>3. q[j] \in 1..X /\ q[j] # p /\ q[j] # p + 1
      BY <1>6, <1>8, <3>2
    <3> QED BY <1>3, <1>12, <3>1, <3>3
  <2> QED BY <2>1, <2>2
<1>23. ~(k + 1 = 0) /\ k + 1 > 0
  BY <1>5
<1> QED BY <1>12, <1>17, <1>18, <1>19, <1>20, <1>21, <1>22, <1>23
        DEF MovedUpTo, q, v, X, p, t, B

\* Moving the points next to all the events.
LEMMA EventsMoved ==
    ASSUME NEW time, TimeLine(time), NEW s, NEW K, Movable(time, s, K)
    PROVE  MovedUpTo(AdjustTimeTrajectory(time, s), time, s, K)
<1>1. K \in Nat /\ Len(s.postEventIndices) = K /\ s.erase \in 1..Len(time)
  BY DEF Movable
<1>2. PICK moved :
         /\ moved[0] = Kept(time, s)
         /\ \A k \in 1..K : moved[k] = MoveToEvent(moved[k - 1], s, k)
         /\ AdjustTimeTrajectory(time, s) = moved[K]
  <2>1. K \in Nat /\ Len(s.postEventIndices) = K
    BY <1>1
  <2> QED BY <2>1, MovedSteps
<1> DEFINE S == {k \in Nat : k <= K => MovedUpTo(moved[k], time, s, k)}
<1>3. 0 \in S
  <2>1. MovedUpTo(Kept(time, s), time, s, 0)
    BY <1>1, NothingMoved
  <2> QED BY <1>2, <2>1
<1>4. ASSUME NEW k \in S \cap Nat PROVE k + 1 \in S
  <2> SUFFICES ASSUME k + 1 <= K PROVE MovedUpTo(moved[k + 1], time, s, k + 1)
    OBVIOUS
  <2>1. k \in 0..(K - 1) /\ k + 1 \in 1..K /\ (k + 1) - 1 = k
    BY <1>1
  <2>2. MovedUpTo(moved[k], time, s, k)
    BY <1>1, <1>4, <2>1
  <2>3. MovedUpTo(MoveToEvent(moved[k], s, k + 1), time, s, k + 1)
    BY <2>1, <2>2, EventMoved
  <2> QED BY <1>2, <2>1, <2>3
<1>5. Nat \subseteq S
  BY <1>3, <1>4, Induction
<1> QED BY <1>1, <1>2, <1>5

\* The points on the two sides of a post-event index.
LEMMA PostMeans ==
    ASSUME NEW time, TimeLine(time), NEW e \in Int, e <= Last(time), NEW k \in 1..Len(time)
    PROVE  /\ k < Post(time, e) => time[k] < e
           /\ k > Post(time, e) => e < time[k] \/ (e = time[k] /\ k = Len(time))
<1> DEFINE N == Len(time)
           q == Post(time, e)
           ub == UpperBound(time, e)
<1>1. /\ time \in Seq(Int) /\ N \in Nat \ {0} /\ Sorted(time) /\ DOMAIN time = 1..N
      /\ Last(time) = time[N] /\ Last(time) \in Int
      /\ \A i \in 1..N : time[i] \in Int
  BY TimeLines
<1>2. \A i, j \in 1..N : i < j => time[i] < time[j] \/ (time[i] = time[j] /\ j = N /\ i = j - 1)
  BY <1>1 DEF TimeLine
<1>3. ub \in 0..N /\ \A i \in 1..N : i <= ub <=> time[i] <= e
  BY <1>1, Bounds
<1>4. q = IF e = Last(time) THEN N - 1 ELSE ub
  BY DEF Post
<1> HIDE DEF q, ub, N
<1>5. N \in 1..N /\ k \in 1..N
  BY <1>1 DEF N
<1>6. CASE e = Last(time)
  <2>1. q = N - 1 /\ e = time[N]
    BY <1>1, <1>4, <1>6
  <2>2. ASSUME k < q PROVE time[k] < e
    <3>1. k < N /\ k # N - 1
      BY <1>1, <1>5, <2>1, <2>2
    <3> QED BY <1>2, <1>5, <2>1, <3>1
  <2>3. k > q => k = N
    BY <1>1, <1>5, <2>1
  <2> QED BY <2>1, <2>2, <2>3 DEF q, N
<1>7. CASE e # Last(time)
  <2>1. q = ub
    BY <1>4, <1>7
  <2>2. q # N
    <3>1. ~(time[N] <= e)
      BY <1>1, <1>7
    <3> QED BY <1>3, <1>5, <2>1, <3>1
  <2>3. ASSUME k < q PROVE time[k] < e
    <3>1. q \in 1..N /\ time[q] <= e /\ time[q] \in Int /\ time[k] \in Int
      BY <1>1, <1>3, <1>5, <2>1, <2>3
    <3>2. time[k] < time[q]
      BY <1>2, <1>5, <2>2, <2>3, <3>1
    <3> QED BY <3>1, <3>2
  <2>4. ASSUME k > q PROVE e < time[k]
    <3>1. ~(k <= ub) /\ time[k] \in Int
      BY <1>1, <1>3, <1>5, <2>1, <2>4
    <3> QED BY <1>3, <1>5, <3>1
  <2> QED BY <2>3, <2>4 DEF q, N
<1> QED BY <1>6, <1>7

\* The events of the strategy are apart from each other.
LEMMA StrategyIsMovable ==
    ASSUME NEW old \in ModeSchedule, NEW new \in ModeSchedule, NEW r, RolledOut(r, old),
           FineFor(new, r.time), EndsWithoutEvent(old, new, r.time),
           NEW m, m = Match(old, new, r.time), m.w > 0
    PROVE  Movable(r.time, Strategy(old, new, r.time), m.w - 1)
<1> DEFINE time == r.time
           N == Len(time)
           F == new.eventTimes
           f == m.newStart
           l == m.newLast
           w == m.w
           K == w - 1
           d == AtFront(m)
           s == Strategy(old, new, time)
           X == EraseFrom(new, time, m)
           q == s.postEventIndices
           v == s.eventTimes
           post(i) == Post(time, F[i])
<1>1. TimeLine(time) /\ Matched(m, old, new, time)
  <2>1. TimeLine(time)
    BY DEF RolledOut
  <2> HIDE DEF time
  <2> QED BY <2>1, Matches DEF time
<1>2. /\ s.erase = X /\ Len(q) = K
      /\ \A i \in 1..K : q[i] = post(f + i) /\ v[i] = F[f + i]
  BY StrategyIs
<1>3. /\ d \in {0, 1} /\ w \in Nat /\ f \in Nat /\ X \in 1..N
      /\ \A j \in (d + 1)..(d + K) :
            /\ MovedTo(new, time, m, j - d) = F[f + (j - d)] /\ f + (j - d) \in (f + 1)..l
            /\ Post(time, MovedTo(new, time, m, j - d)) \in 2..(X - 1)
  <2>1. FineFor(new, time) /\ EndsWithoutEvent(old, new, time) /\ m = Match(old, new, time)
    OBVIOUS
  <2> HIDE DEF time
  <2> QED BY <1>1, <2>1, MovedTimes
<1>4. f = UpperBound(F, time[1]) /\ l = UpperBound(F, Last(time)) /\ l \in Nat
  <2>1. f = UpperBound(F, time[1]) /\ l = UpperBound(F, Last(time))
    BY <1>1 DEF Matched
  <2>2. TimeLine(time) /\ \A e \in Int : time[1] = e * Unit => Len(time) = 1
    BY DEF RolledOut
  <2>3. UpperBound(F, Last(time)) \in Nat
    <3> HIDE DEF time
    <3> QED BY <2>2, ActiveModes
  <2> QED BY <2>1, <2>3
<1> HIDE DEF time
<1>5. \A i \in (f + 1)..l :
         /\ i \in 1..Len(F) /\ F[i] <= Last(time) /\ F[i] \in Int
         /\ post(i) \in Int /\ LowerBound(time, F[i]) \in Int
         /\ LowerBound(time, F[i]) <= post(i)
         /\ i > f + 1 => post(i - 1) < LowerBound(time, F[i])
  <2> SUFFICES ASSUME NEW i \in (f + 1)..l
               PROVE  /\ i \in 1..Len(F) /\ F[i] <= Last(time) /\ F[i] \in Int
                      /\ post(i) \in Int /\ LowerBound(time, F[i]) \in Int
                      /\ LowerBound(time, F[i]) <= post(i)
                      /\ i > f + 1 => post(i - 1) < LowerBound(time, F[i])
    OBVIOUS
  <2>1. i \in (UpperBound(F, time[1]) + 1)..UpperBound(F, Last(time))
    BY <1>4
  <2>2. FineFor(new, time)
    BY DEF time
  <2>3. /\ i \in 1..Len(F) /\ F[i] <= Last(time)
        /\ post(i) \in 2..(Len(time) - 1)
        /\ LowerBound(time, F[i]) \in 2..post(i)
        /\ i > UpperBound(F, time[1]) + 1 => post(i - 1) < LowerBound(time, F[i])
    BY <1>1, <2>1, <2>2, NewPosts
  <2>4. F[i] \in Int
    BY <2>3, Schedules
  <2> QED BY <1>4, <2>3, <2>4
<1> HIDE DEF N, F, f, l, w, d, s, X, q, v, post
<1>6. K \in Nat
  BY <1>3 DEF w
<1>7. ASSUME NEW i \in 1..K
      PROVE  /\ f + i \in (f + 1)..l /\ q[i] = post(f + i) /\ v[i] = F[f + i]
             /\ q[i] \in 2..(X - 1) /\ v[i] \in Int
             /\ \A k \in 1..N :
                   /\ k < q[i] => time[k] < v[i]
                   /\ k > q[i] => v[i] < time[k] \/ (v[i] = time[k] /\ k = N)
  <2>1. d + i \in (d + 1)..(d + K) /\ (d + i) - d = i
    BY <1>3, <1>6
  <2>2. /\ MovedTo(new, time, m, i) = F[f + i] /\ f + i \in (f + 1)..l
        /\ Post(time, MovedTo(new, time, m, i)) \in 2..(X - 1)
    BY <1>3, <2>1
  <2>3. q[i] = post(f + i) /\ v[i] = F[f + i]
    BY <1>2
  <2>4. q[i] \in 2..(X - 1) /\ q[i] = Post(time, v[i])
    BY <2>2, <2>3 DEF post
  <2>5. v[i] \in Int /\ v[i] <= Last(time)
    BY <1>5, <2>2, <2>3
  <2>6. ASSUME NEW k \in 1..N
        PROVE  /\ k < q[i] => time[k] < v[i]
               /\ k > q[i] => v[i] < time[k] \/ (v[i] = time[k] /\ k = N)
    <3> DEFINE e == v[i]
    <3>1. e \in Int /\ e <= Last(time) /\ q[i] = Post(time, e)
      BY <2>4, <2>5
    <3> HIDE DEF e
    <3>2. /\ k < Post(time, e) => time[k] < e
          /\ k > Post(time, e) => e < time[k] \/ (e = time[k] /\ k = N)
      BY <1>1, <3>1, PostMeans DEF N
    <3> QED BY <3>1, <3>2 DEF e
  <2> QED BY <2>2, <2>3, <2>4, <2>5, <2>6
<1>8. ASSUME NEW i \in 1..K, NEW j \in 1..K, i < j PROVE q[i] < q[j] /\ v[i] + 1 < v[j]
  <2> DEFINE a == f + i
             b == f + j
  <2>1. /\ a \in (f + 1)..l /\ b \in (f + 1)..l /\ a < b
        /\ b > f + 1 /\ b - 1 \in (f + 1)..l /\ a <= b - 1
    BY <1>3, <1>4, <1>7, <1>8
  <2>2. q[i] = post(a) /\ q[j] = post(b) /\ v[i] = F[a] /\ v[j] = F[b]
    BY <1>7
  <2> HIDE DEF a, b
  <2>3. a \in 1..Len(F) /\ b \in 1..Len(F) /\ b - 1 \in 1..Len(F)
        /\ F[a] \in Int /\ F[b] \in Int /\ F[b - 1] \in Int
    BY <1>5, <2>1
  <2>4. F[a] < F[b] /\ F[a] <= F[b - 1]
    <3>1. \A g, h \in 1..Len(F) : g < h => F[g] < F[h]
      BY Schedules DEF F
    <3>2. a = b - 1 \/ a < b - 1
      BY <1>4, <2>1
    <3> QED BY <2>1, <2>3, <3>1, <3>2
  <2>5. post(a) <= post(b - 1)
    BY <1>1, <2>3, <2>4, PostGrows DEF post
  <2>6. post(b - 1) < LowerBound(time, F[b]) /\ LowerBound(time, F[b]) <= post(b)
        /\ post(a) \in Int /\ post(b) \in Int /\ post(b - 1) \in Int
        /\ LowerBound(time, F[b]) \in Int
    BY <1>5, <2>1
  <2>7. F[a] + 1 < F[b]
    <3>1. PICK g \in Int : F[a] = g * Unit
      BY <2>3, Schedules DEF F
    <3>2. PICK h \in Int : F[b] = h * Unit
      BY <2>3, Schedules DEF F
    <3>3. F[a] = 8 * g /\ F[b] = 8 * h
      BY <3>1, <3>2 DEF Unit
    <3> QED BY <2>4, <3>3
  <2> QED BY <2>2, <2>5, <2>6, <2>7
<1>9. /\ \A i \in 1..K :
            /\ q[i] \in 2..(X - 1) /\ v[i] \in Int
            /\ \A k \in 1..N : /\ k < q[i] => time[k] < v[i]
                               /\ k > q[i] => v[i] < time[k] \/ (v[i] = time[k] /\ k = N)
      /\ \A i, j \in 1..K : i < j => q[i] < q[j] /\ v[i] + 1 < v[j]
  BY <1>7, <1>8
<1> DEFINE goal == Movable(time, s, K)
<1>10. goal
  <2> HIDE DEF K
  <2> QED BY <1>2, <1>3, <1>6, <1>9 DEF Movable, q, v, N
<1> QED BY <1>10 DEF time, s, w

-----------------------------------------------------------------------------
(* The adjusted trajectory.                                                *)

\* The times of the adjusted trajectory go up, the new schedule has as many events in it as
\* the match, and they are where the strategy says.
LEMMA AdjustedTimesFollow ==
    ASSUME NEW old \in ModeSchedule, NEW new \in ModeSchedule, NEW r, RolledOut(r, old),
           FineFor(new, r.time), EndsWithoutEvent(old, new, r.time),
           NEW m, m = Match(old, new, r.time), m.w > 0
    PROVE  LET s == Strategy(old, new, r.time)
               adj == AdjustTimeTrajectory(r.time, s)
               F == new.eventTimes
               f == m.newStart
               K == m.w - 1
           IN  /\ TimeLine(adj) /\ Len(adj) = s.erase /\ adj[1] = r.time[1]
               /\ K \in Nat /\ f \in Nat /\ f + K <= Len(F)
               /\ UpperBound(F, adj[1]) = f /\ UpperBound(F, Last(adj)) = f + K
               /\ \A i \in 1..K : /\ s.postEventIndices[i] \in 2..(s.erase - 1)
                                  /\ Post(adj, F[f + i]) = s.postEventIndices[i]
               /\ s.postEventIndices = PostEventIndices(new, adj)
<1> DEFINE time == r.time
           N == Len(time)
           F == new.eventTimes
           f == m.newStart
           l == m.newLast
           w == m.w
           K == w - 1
           s == Strategy(old, new, time)
           X == s.erase
           q == s.postEventIndices
           v == s.eventTimes
           adj == AdjustTimeTrajectory(time, s)
<1>1. TimeLine(time) /\ Matched(m, old, new, time)
  <2>1. TimeLine(time)
    BY DEF RolledOut
  <2> HIDE DEF time
  <2> QED BY <2>1, Matches DEF time
<1>2. /\ X = EraseFrom(new, time, m)
      /\ q \in Seq(Nat) /\ Len(q) = K
      /\ \A i \in 1..K : v[i] = F[f + i]
  <2>1. X = EraseFrom(new, time, m)
    BY StrategyIs
  <2>2. q \in Seq(Nat) /\ Len(q) = K
    BY StrategyIs
  <2>3. \A i \in 1..K : v[i] = F[f + i]
    BY StrategyIs
  <2> QED BY <2>1, <2>2, <2>3
<1>3. /\ w \in Nat /\ f \in Nat /\ X \in 1..N
      /\ f + w - 1 <= l
      /\ f + w - 1 = l => X = N
      /\ f + w - 1 # l => X = LowerBound(time, F[f + w]) /\ f + w \in (f + 1)..l
  <2>1. FineFor(new, time) /\ EndsWithoutEvent(old, new, time) /\ m = Match(old, new, time)
    OBVIOUS
  <2> HIDE DEF time, s
  <2>2. /\ w \in Nat /\ f \in Nat /\ EraseFrom(new, time, m) \in 1..N
        /\ f + w - 1 <= l
        /\ f + w - 1 = l => EraseFrom(new, time, m) = N
        /\ f + w - 1 # l => /\ EraseFrom(new, time, m) = LowerBound(time, F[f + w])
                            /\ f + w \in (f + 1)..l
    BY <1>1, <2>1, MovedTimes
  <2> QED BY <1>2, <2>2
<1>4. /\ f = UpperBound(F, time[1]) /\ l = UpperBound(F, Last(time))
      /\ l \in Nat /\ l <= Len(F)
      /\ \A i \in 1..Len(F) : i <= f <=> F[i] <= time[1]
      /\ \A i \in 1..Len(F) : i <= l <=> F[i] <= Last(time)
  <2>1. f = UpperBound(F, time[1]) /\ l = UpperBound(F, Last(time))
    BY <1>1 DEF Matched
  <2>2. TimeLine(time) /\ \A e \in Int : time[1] = e * Unit => Len(time) = 1
    BY DEF RolledOut
  <2>3. /\ UpperBound(F, Last(time)) \in Nat /\ UpperBound(F, Last(time)) <= Len(F)
        /\ \A i \in 1..Len(F) : i <= UpperBound(F, time[1]) <=> F[i] <= time[1]
        /\ \A i \in 1..Len(F) : i <= UpperBound(F, Last(time)) <=> F[i] <= Last(time)
    <3> HIDE DEF time
    <3> QED BY <2>2, ActiveModes
  <2> QED BY <2>1, <2>3
<1>5. K \in Nat /\ f + K <= l /\ f + K + 1 = f + w
  BY <1>3
<1>6. Movable(time, s, K)
  BY StrategyIsMovable
<1>7. MovedUpTo(adj, time, s, K)
  <2> HIDE DEF time, s, K
  <2> QED BY <1>1, <1>6, EventsMoved
<1> HIDE DEF time, F, f, l, w, K, s, adj
<1>8. /\ TimeLine(adj) /\ Len(adj) = X /\ adj[1] = time[1] /\ adj[X] <= time[X]
      /\ \A j \in 1..K : adj[q[j]] = v[j]
  BY <1>7 DEF MovedUpTo
<1>9. \A i \in 1..K : q[i] \in 2..(X - 1)
  BY <1>6 DEF Movable
<1>10. /\ adj \in Seq(Int) /\ DOMAIN adj = 1..X /\ Sorted(adj) /\ Last(adj) = adj[X]
       /\ \A i \in 1..X : adj[i] \in Int
  <2>1. /\ adj \in Seq(Int) /\ DOMAIN adj = 1..Len(adj) /\ Sorted(adj)
        /\ Last(adj) = adj[Len(adj)] /\ \A i \in 1..Len(adj) : adj[i] \in Int
    BY <1>8, TimeLines
  <2> QED BY <1>8, <2>1
<1>11. /\ time \in Seq(Int) /\ N \in Nat \ {0} /\ Sorted(time) /\ DOMAIN time = 1..N
       /\ Last(time) = time[N] /\ \A i \in 1..N : time[i] \in Int
  BY <1>1, TimeLines
<1>12. /\ F \in Seq(Int) /\ Sorted(F) /\ Len(F) \in Nat /\ \A i \in 1..Len(F) : F[i] \in Int
       /\ \A i, j \in 1..Len(F) : i < j => F[i] < F[j]
  <2>1. F \in Seq(Int) /\ Sorted(F)
    BY Schedules DEF F
  <2>2. \A i, j \in 1..Len(F) : i < j => F[i] < F[j]
    BY Schedules DEF F
  <2> QED BY <2>1, <2>2
<1> HIDE DEF X, N, q, v
<1>13. f \in Nat /\ K \in Nat /\ Len(F) \in Nat /\ f + K <= Len(F)
  <2>1. f \in Nat /\ l \in Nat /\ l <= Len(F) /\ Len(F) \in Nat
    BY <1>3, <1>4, <1>12
  <2> QED BY <1>5, <2>1
<1>14. X \in Int /\ 1 \in 1..X /\ X \in 1..X /\ X \in 1..N
  BY <1>3, <1>11
<1>15. ASSUME NEW i \in 1..K
       PROVE  /\ q[i] \in 1..(X - 1) /\ q[i] \in 1..X /\ adj[q[i]] = F[f + i]
              /\ Post(adj, F[f + i]) = q[i]
  <2>1. q[i] \in 1..(X - 1) /\ q[i] \in 1..X /\ adj[q[i]] = F[f + i]
    <3>1. q[i] \in 2..(X - 1)
      BY <1>9
    <3> QED BY <1>2, <1>8, <1>14, <3>1
  <2> DEFINE p == q[i]
  <2>2. p \in 1..(Len(adj) - 1)
    BY <1>8, <2>1
  <2> HIDE DEF p
  <2>3. Post(adj, adj[p]) = p
    BY <1>8, <2>2, PostIs
  <2> QED BY <2>1, <2>3 DEF p
<1>16. adj[1] <= adj[X] /\ adj[1] \in Int /\ adj[X] \in Int /\ time[X] \in Int
       /\ time[X] <= time[N] /\ time[N] \in Int
  <2>1. adj[1] <= adj[X]
    BY <1>10, <1>14 DEF Sorted
  <2>2. time[X] <= time[N]
    <3>1. X = N \/ X < N
      BY <1>11, <1>14
    <3>2. N \in 1..N /\ time[X] \in Int
      BY <1>11, <1>14
    <3> QED BY <1>11, <1>14, <3>1, <3>2 DEF Sorted
  <2> QED BY <1>10, <1>11, <1>14, <2>1, <2>2
<1>17. UpperBound(F, Last(adj)) = f + K
  <2> DEFINE a == f + K
             t == adj[X]
  <2>1. a \in 0..Len(F)
    BY <1>13
  <2>2. ASSUME a > 0 PROVE F[a] <= t
    <3>1. a \in 1..Len(F) /\ F[a] \in Int
      BY <1>12, <2>1, <2>2
    <3>2. CASE K = 0
      <4>1. a = f /\ F[a] <= time[1]
        BY <1>3, <1>4, <3>1, <3>2
      <4> QED BY <1>8, <1>16, <3>1, <4>1
    <3>3. CASE K # 0
      <4>1. K \in 1..K
        BY <1>5, <3>3
      <4>2. q[K] \in 1..(X - 1) /\ q[K] \in 1..X /\ adj[q[K]] = F[a]
        BY <1>15, <4>1
      <4>3. q[K] < X
        BY <1>14, <4>2
      <4> QED BY <1>10, <1>14, <4>2, <4>3 DEF Sorted
    <3> QED BY <3>2, <3>3
  <2>3. ASSUME a < Len(F) PROVE t < F[a + 1]
    <3>1. a + 1 \in 1..Len(F) /\ F[a + 1] \in Int /\ a + 1 = f + w
      BY <1>5, <1>12, <2>1, <2>3
    <3>2. CASE f + w - 1 = l
      <4>1. ~(a + 1 <= l)
        BY <1>3, <1>4, <3>1, <3>2
      <4>2. ~(F[a + 1] <= time[N])
        BY <1>4, <1>11, <3>1, <4>1
      <4> QED BY <1>8, <1>16, <3>1, <4>2
    <3>3. CASE f + w - 1 # l
      <4>1. X = LowerBound(time, F[a + 1])
        BY <1>3, <3>1, <3>3
      <4> DEFINE e == F[a + 1]
      <4>2. e \in Int
        BY <3>1
      <4> HIDE DEF e
      <4>3. \A i \in 1..N : i <= LowerBound(time, e) <=> time[i] < e
        BY <1>11, <4>2, Bounds DEF N
      <4>4. time[X] < e
        BY <1>14, <4>1, <4>3 DEF e
      <4> QED BY <1>8, <1>16, <3>1, <4>4 DEF e
    <3> QED BY <3>2, <3>3
  <2> HIDE DEF a, t
  <2>4. UpperBound(F, t) = a
    <3>1. t \in Int
      BY <1>16 DEF t
    <3> QED BY <1>12, <2>1, <2>2, <2>3, <3>1, UpperBoundIs
  <2> QED BY <1>10, <2>4 DEF a, t
<1>18. UpperBound(F, adj[1]) = f
  BY <1>4, <1>8
<1>19. q = PostEventIndices(new, adj)
  <2> DEFINE active == SubSeq(F, f + 1, f + K)
  <2>1. /\ active \in Seq(Int) /\ Len(active) = K /\ \A i \in 1..K : active[i] = F[f + i]
    <3>1. f + K <= Len(F) /\ K \in Nat /\ f \in Nat
      BY <1>13
    <3>2. active = SubSeq(F, f + 1, f + K)
      OBVIOUS
    <3> HIDE DEF active
    <3> QED BY <1>12, <3>1, <3>2, Slice
  <2>2. PostEventIndices(new, adj) = FindPostEventIndices(active, adj)
    <3>1. adj # << >>
      BY <1>8 DEF TimeLine
    <3> QED BY <1>17, <1>18, <3>1 DEF PostEventIndices, F
  <2> HIDE DEF active
  <2>3. ASSUME NEW i \in 1..(K - 1) PROVE active[i] # Last(adj)
    <3>1. i \in 1..K /\ i + 1 \in 1..K /\ f + i < f + (i + 1)
          /\ f + i \in 1..Len(F) /\ f + (i + 1) \in 1..Len(F)
      BY <1>13
    <3>2. F[f + i] < F[f + (i + 1)] /\ F[f + i] \in Int /\ F[f + (i + 1)] \in Int
      BY <1>12, <3>1
    <3>3. F[f + (i + 1)] <= adj[X]
      <4>1. q[i + 1] \in 1..(X - 1) /\ q[i + 1] \in 1..X /\ adj[q[i + 1]] = F[f + (i + 1)]
        BY <1>15, <3>1
      <4>2. q[i + 1] < X
        BY <1>14, <4>1
      <4> QED BY <1>10, <1>14, <4>1, <4>2 DEF Sorted
    <3>4. active[i] = F[f + i] /\ Last(adj) = adj[X] /\ adj[X] \in Int
      BY <1>10, <1>16, <2>1, <3>1
    <3> QED BY <3>2, <3>3, <3>4
  <2>4. \A i \in 1..(Len(active) - 1) : active[i] # Last(adj)
    BY <2>1, <2>3
  <2> DEFINE found == FindPostEventIndices(active, adj)
  <2>5. /\ found \in Seq(Nat) /\ Len(found) = Len(active)
        /\ \A i \in 1..Len(active) : found[i] = Post(adj, active[i])
    <3>1. TimeLine(adj) /\ active \in Seq(Int)
      BY <1>8, <2>1
    <3> QED BY <2>4, <3>1, FoundPosts
  <2> HIDE DEF found
  <2>6. \A i \in 1..K : found[i] = q[i]
    BY <1>15, <2>1, <2>5
  <2>7. found = q
    BY <1>2, <1>5, <2>1, <2>5, <2>6
  <2> QED BY <2>2, <2>7 DEF found
<1> QED BY <1>3, <1>5, <1>8, <1>9, <1>15, <1>17, <1>18, <1>19, <1>13
        DEF time, F, f, w, K, s, adj, X, q

\* The modes of the adjusted trajectory are those of the new schedule.
LEMMA AdjustedModesFollow ==
    ASSUME NEW old \in ModeSchedule, NEW new \in ModeSchedule, NEW r, RolledOut(r, old),
           FineFor(new, r.time), EndsWithoutEvent(old, new, r.time),
           NEW m, m = Match(old, new, r.time), m.w > 0,
           NEW k \in 1..Strategy(old, new, r.time).erase
    PROVE  LET s == Strategy(old, new, r.time)
               adj == AdjustTimeTrajectory(r.time, s)
           IN  AdjustTrajectory(r.mode, s)[k]
                  \in {At(new.modeSequence, ModeIndex(new, adj, k)), Garbage}
<1> DEFINE time == r.time
           N == Len(time)
           E == old.eventTimes
           F == new.eventTimes
           f == m.newStart
           o == m.oldStart
           w == m.w
           K == w - 1
           d == AtFront(m)
           e == AtBack(old, new, m)
           n == d + (m.w - 1) + e
           P == OldPosts(old, new, time, m)
           Q == NewPostsOf(old, new, time, m)
           s == Strategy(old, new, time)
           X == s.erase
           q == s.postEventIndices
           adj == AdjustTimeTrajectory(time, s)
           x == AdjustTrajectory(r.mode, s)[k]
           mu(i) == ModeIndex(old, time, i)
           nu == ModeIndex(new, adj, k)
           oldMode(i) == At(old.modeSequence, i)
           newMode(i) == At(new.modeSequence, i)
<1>1. TimeLine(time) /\ Matched(m, old, new, time)
  <2>1. TimeLine(time)
    BY DEF RolledOut
  <2> HIDE DEF time
  <2> QED BY <2>1, Matches DEF time
<1>2. /\ X = EraseFrom(new, time, m) /\ Ranges(s, P, Q, n)
      /\ \A i \in 1..K : q[i] = Post(time, F[f + i])
  BY StrategyIs
<1>3. /\ d \in {0, 1} /\ e \in {0, 1} /\ w \in Nat /\ f \in Nat /\ n \in Nat
      /\ X \in 1..N
      /\ f + w - 1 # m.newLast =>
            X = LowerBound(time, F[f + w]) /\ f + w \in (f + 1)..m.newLast
      /\ d = 1 => Post(time, MovedTo(new, time, m, 1 - d)) = 0
      /\ \A j \in (d + 1)..(d + K) : MovedTo(new, time, m, j - d) = F[f + (j - d)]
      /\ e = 1 => X <= Post(time, MovedTo(new, time, m, n - d))
  <2>1. FineFor(new, time) /\ EndsWithoutEvent(old, new, time) /\ m = Match(old, new, time)
    OBVIOUS
  <2> HIDE DEF time, s
  <2> DEFINE Y == EraseFrom(new, time, m)
  <2>2. /\ d \in {0, 1} /\ e \in {0, 1} /\ w \in Nat /\ f \in Nat /\ n \in Nat
        /\ Y \in 1..N
        /\ f + w - 1 # m.newLast =>
              Y = LowerBound(time, F[f + w]) /\ f + w \in (f + 1)..m.newLast
        /\ d = 1 => Post(time, MovedTo(new, time, m, 1 - d)) = 0
        /\ \A j \in (d + 1)..(d + K) : MovedTo(new, time, m, j - d) = F[f + (j - d)]
        /\ e = 1 => Y <= Post(time, MovedTo(new, time, m, n - d))
    <3>1. d \in {0, 1} /\ e \in {0, 1} /\ w \in Nat /\ f \in Nat /\ n \in Nat
      BY <1>1, <2>1, MovedTimes
    <3>2. /\ Y \in 1..N
          /\ f + w - 1 # m.newLast =>
                Y = LowerBound(time, F[f + w]) /\ f + w \in (f + 1)..m.newLast
      BY <1>1, <2>1, MovedTimes
    <3>3. d = 1 => Post(time, MovedTo(new, time, m, 1 - d)) = 0
      BY <1>1, <2>1, MovedTimes
    <3>4. \A j \in (d + 1)..(d + (m.w - 1)) : MovedTo(new, time, m, j - d) = F[f + (j - d)]
      BY <1>1, <2>1, MovedTimes
    <3>5. e = 1 => Y <= Post(time, MovedTo(new, time, m, n - d))
      BY <1>1, <2>1, MovedTimes
    <3> QED BY <3>1, <3>2, <3>3, <3>4, <3>5
  <2>3. X = Y
    BY <1>2
  <2> HIDE DEF Y
  <2> QED BY <2>2, <2>3
<1>4. /\ \A j \in 1..n : o + (j - d) \in (m.oldFirst + 1)..m.oldLast
  <2> HIDE DEF time
  <2> QED BY <1>1, MatchedEventsAre
<1>5. /\ \A j \in 1..n : /\ P[j] = Post(time, E[o + (j - d)])
                         /\ Q[j] = Post(time, MovedTo(new, time, m, j - d))
  BY DEF OldPosts, NewPostsOf
<1>6. /\ m.oldFirst = UpperBound(E, time[1]) /\ m.oldLast = UpperBound(E, Last(time))
      /\ f = UpperBound(F, time[1]) /\ m.newLast = UpperBound(F, Last(time))
      /\ o \in m.oldFirst..m.oldLast /\ o + K <= m.oldLast
      /\ \A i \in 0..K : oldMode(o + i) = newMode(f + i)
      /\ m.oldFirst \in Nat /\ m.oldLast \in Nat /\ m.oldLast <= Len(E) /\ Len(E) \in Nat
      /\ \A i \in 1..N : mu(i) \in m.oldFirst..m.oldLast
  <2>1. /\ m.oldFirst = UpperBound(E, time[1]) /\ m.oldLast = UpperBound(E, Last(time))
        /\ f = UpperBound(F, time[1]) /\ m.newLast = UpperBound(F, Last(time))
        /\ o \in m.oldFirst..m.oldLast /\ o + w - 1 <= m.oldLast
        /\ \A i \in 0..K : oldMode(o + i) = newMode(f + i)
    BY <1>1 DEF Matched
  <2>2. TimeLine(time) /\ \A j \in Int : time[1] = j * Unit => Len(time) = 1
    BY DEF RolledOut
  <2>3. /\ UpperBound(E, time[1]) \in Nat /\ UpperBound(E, Last(time)) \in Nat
        /\ UpperBound(E, Last(time)) <= Len(E)
        /\ \A i \in 1..N : mu(i) \in UpperBound(E, time[1])..UpperBound(E, Last(time))
    <3> HIDE DEF time
    <3> QED BY <2>2, ActiveModes
  <2>4. Len(E) \in Nat
    BY Schedules
  <2>5. o + K <= m.oldLast
    <3>1. o \in Int /\ w \in Nat
      BY <1>3, <2>1, <2>3
    <3> QED BY <2>1, <3>1
  <2> QED BY <2>1, <2>3, <2>4, <2>5
<1>7. /\ TimeLine(adj) /\ Len(adj) = X /\ adj[1] = time[1]
      /\ K \in Nat /\ f + K <= Len(F)
      /\ UpperBound(F, adj[1]) = f /\ UpperBound(F, Last(adj)) = f + K
      /\ \A i \in 1..K : Post(adj, F[f + i]) = q[i]
  BY AdjustedTimesFollow
<1>8. \A e1 \in Int : time[1] = e1 * Unit => N = 1
  BY DEF RolledOut
<1>9. /\ nu \in f..(f + K)
      /\ \A i \in 1..Len(F) : i <= f + K => F[i] <= Last(adj)
  <2>1. \A e1 \in Int : adj[1] = e1 * Unit => Len(adj) = 1
    <3>1. N = 1 => X = 1
      BY <1>3
    <3> QED BY <1>7, <1>8, <3>1
  <2>2. k \in 1..Len(adj) /\ TimeLine(adj)
    BY <1>7
  <2> HIDE DEF adj
  <2>3. /\ \A i \in 1..Len(F) : i <= UpperBound(F, Last(adj)) <=> F[i] <= Last(adj)
        /\ ModeIndex(new, adj, k) \in UpperBound(F, adj[1])..UpperBound(F, Last(adj))
    BY <2>1, <2>2, ActiveModes
  <2> QED BY <1>7, <2>3
<1>10. \A i \in 1..N : r.mode[i] = oldMode(mu(i))
  BY DEF RolledOut
<1>11. \A i \in (m.oldFirst + 1)..m.oldLast :
          /\ i \in 1..Len(E) /\ E[i] <= Last(time)
          /\ r.mode[Post(time, E[i])] = oldMode(i - 1)
          /\ r.mode[Post(time, E[i]) + 1] = oldMode(i)
          /\ \A j \in 1..N : j <= Post(time, E[i]) <=> mu(j) < i
  <2> SUFFICES ASSUME NEW i \in (m.oldFirst + 1)..m.oldLast
               PROVE  /\ i \in 1..Len(E) /\ E[i] <= Last(time)
                      /\ r.mode[Post(time, E[i])] = oldMode(i - 1)
                      /\ r.mode[Post(time, E[i]) + 1] = oldMode(i)
                      /\ \A j \in 1..N : j <= Post(time, E[i]) <=> mu(j) < i
    OBVIOUS
  <2>1. i \in (UpperBound(E, time[1]) + 1)..UpperBound(E, Last(time))
    BY <1>6
  <2>2. /\ i \in 1..Len(E) /\ E[i] <= Last(time)
        /\ r.mode[Post(time, E[i])] = oldMode(i - 1)
        /\ r.mode[Post(time, E[i]) + 1] = oldMode(i)
    BY <2>1, ModesAtEvents
  <2>3. \A j \in 1..N : j <= Post(time, E[i]) <=> mu(j) < i
    <3> HIDE DEF time
    <3> QED BY <1>1, <2>2, PostSplits
  <2> QED BY <2>2, <2>3
<1>12. \A i \in 1..K : k <= q[i] <=> nu < f + i
  <2> SUFFICES ASSUME NEW i \in 1..K PROVE k <= q[i] <=> nu < f + i
    OBVIOUS
  <2> DEFINE h == f + i
  <2>1. h \in 1..Len(F) /\ h <= f + K
    <3>1. Len(F) \in Nat
      BY Schedules
    <3>2. f \in Nat /\ K \in Nat /\ f + K <= Len(F)
      BY <1>3, <1>7
    <3> HIDE DEF f, K, F
    <3> QED BY <3>1, <3>2
  <2>2. F[h] <= Last(adj) /\ k \in 1..Len(adj) /\ TimeLine(adj)
    BY <1>7, <1>9, <2>1
  <2> HIDE DEF adj, h
  <2>3. k <= Post(adj, F[h]) <=> ModeIndex(new, adj, k) < h
    BY <2>1, <2>2, PostSplits
  <2> QED BY <1>7, <2>3 DEF h
<1> HIDE DEF time, E, F, f, o, w, K, d, e, P, Q, s, q, adj, mu, nu, oldMode, newMode
<1>13. k \in 1..X /\ X \in Nat /\ N \in Nat /\ X <= N /\ k \in Nat /\ k \in 1..N
  <2>1. N \in Nat
    BY <1>1, TimeLines
  <2>2. k \in 1..X
    BY DEF s, time
  <2> HIDE DEF X, N
  <2> QED BY <1>3, <2>1, <2>2
<1> DEFINE i == nu - f
           c == i + d
<1>14. /\ i \in 0..K /\ i \in Int /\ f + i = nu /\ c \in 0..n /\ d \in Nat /\ K \in Nat
       /\ n = d + K + e /\ c - d = i
  <2>1. n = d + K + e
    BY DEF K, w
  <2> HIDE DEF n
  <2> QED BY <1>3, <1>7, <1>9, <2>1
<1> HIDE DEF i, c, n
<1>15. /\ o \in Int
       /\ \A j \in 1..n : P[j] \in Nat /\ Q[j] \in Nat
  BY <1>2, <1>6 DEF Ranges
<1>16. c > 0 => Q[c] < k
  <2> SUFFICES ASSUME c > 0 PROVE Q[c] < k
    OBVIOUS
  <2>1. c \in 1..n
    BY <1>14
  <2>2. CASE i = 0
    <3>1. d = 1 /\ c = 1 /\ 1 \in 1..n
      BY <1>3, <1>14, <2>1, <2>2
    <3>2. Q[1] = 0
      BY <1>3, <1>5, <3>1
    <3> QED BY <1>13, <3>1, <3>2
  <2>3. CASE i # 0
    <3>1. i \in 1..K /\ c \in (d + 1)..(d + K)
      BY <1>14, <2>3
    <3>2. Q[c] = Post(time, F[f + i]) /\ q[i] = Post(time, F[f + i])
      BY <1>2, <1>3, <1>5, <1>14, <2>1, <3>1
    <3>3. ~(nu < f + i)
      BY <1>3, <1>14
    <3>4. Q[c] \in Nat
      BY <1>15, <2>1
    <3> QED BY <1>12, <1>13, <3>1, <3>2, <3>3, <3>4
  <2> QED BY <2>2, <2>3
<1>17. c < n => k <= Q[c + 1]
  <2> SUFFICES ASSUME c < n PROVE k <= Q[c + 1]
    OBVIOUS
  <2> DEFINE g == c + 1
  <2>1. g \in 1..n /\ g - d = i + 1 /\ Q[g] \in Nat
    BY <1>14, <1>15
  <2>2. CASE i = K
    <3>1. e = 1 /\ g = n
      BY <1>3, <1>14, <2>1, <2>2
    <3>2. X <= Q[n]
      BY <1>3, <1>5, <2>1, <3>1
    <3> QED BY <1>13, <2>1, <3>1, <3>2
  <2>3. CASE i # K
    <3> DEFINE h == i + 1
    <3>1. h \in 1..K /\ g \in (d + 1)..(d + K) /\ g - d = h /\ nu < f + h
      BY <1>3, <1>14, <2>1, <2>3
    <3> HIDE DEF g, h
    <3>2. Q[g] = Post(time, F[f + h])
      <4>1. Q[g] = Post(time, MovedTo(new, time, m, g - d))
        BY <1>5, <2>1
      <4>2. MovedTo(new, time, m, g - d) = F[f + (g - d)]
        BY <1>3, <3>1
      <4> QED BY <3>1, <4>1, <4>2
    <3>3. q[h] = Post(time, F[f + h]) /\ k <= q[h]
      BY <1>2, <1>12, <3>1
    <3> QED BY <3>2, <3>3 DEF g
  <2> QED BY <2>2, <2>3
<1>18. \/ x = r.mode[k] /\ (c > 0 => P[c] < k) /\ (c < n => k <= P[c + 1])
       \/ x = Garbage
       \/ c > 0 /\ x = r.mode[P[c] + 1]
       \/ c < n /\ x = r.mode[P[c + 1]]
  <2> DEFINE mode == r.mode
  <2> HIDE DEF mode
  <2>1. s.erase \in Nat /\ k \in 1..s.erase /\ n \in Nat /\ c \in 0..n
    BY <1>3, <1>13, <1>14
  <2>2. LET y == AdjustTrajectory(mode, s)[k]
        IN  \/ y = mode[k] /\ (c > 0 => P[c] < k) /\ (c < n => k <= P[c + 1])
            \/ y = Garbage
            \/ c > 0 /\ y = mode[P[c] + 1]
            \/ c < n /\ y = mode[P[c + 1]]
    BY <1>2, <1>16, <1>17, <2>1, Spread
  <2> QED BY <2>2 DEF mode
<1>19. newMode(nu) = oldMode(o + i)
  BY <1>6, <1>14
<1>20. ASSUME NEW g \in 1..n, NEW h \in Int, h = o + (g - d)
       PROVE  /\ h \in (m.oldFirst + 1)..m.oldLast
              /\ r.mode[P[g]] = oldMode(h - 1) /\ r.mode[P[g] + 1] = oldMode(h)
              /\ k <= P[g] <=> mu(k) < h
  <2>1. h \in (m.oldFirst + 1)..m.oldLast /\ P[g] = Post(time, E[h])
    BY <1>4, <1>5, <1>20
  <2> QED BY <1>11, <1>13, <2>1
<1>21. CASE x = r.mode[k] /\ (c > 0 => P[c] < k) /\ (c < n => k <= P[c + 1])
  <2>1. mu(k) \in m.oldFirst..m.oldLast /\ mu(k) \in Int
    BY <1>6, <1>13
  <2>2. mu(k) >= o + i
    <3>1. CASE c > 0
      <4>1. c \in 1..n /\ P[c] \in Nat
        BY <1>14, <1>15, <3>1
      <4>2. ~(k <= P[c])
        BY <1>13, <1>21, <3>1, <4>1
      <4>3. ~(mu(k) < o + i)
        <5> DEFINE h == o + i
        <5>1. h \in Int /\ h = o + (c - d)
          BY <1>14, <1>15
        <5> HIDE DEF h
        <5>2. ~(mu(k) < h)
          BY <1>20, <4>1, <4>2, <5>1
        <5> QED BY <5>2 DEF h
      <4> QED BY <1>14, <1>15, <2>1, <4>3
    <3>2. CASE ~(c > 0)
      <4>1. c = 0 /\ d = 0 /\ i = 0
        BY <1>14, <3>2
      <4>2. ~(o > m.oldFirst)
        BY <4>1 DEF AtFront, d, o
      <4> QED BY <1>6, <2>1, <4>1, <4>2
    <3> QED BY <3>1, <3>2
  <2>3. mu(k) <= o + i
    <3>1. CASE c < n
      <4> DEFINE g == c + 1
      <4>1. g \in 1..n /\ g - d = i + 1
        BY <1>14, <3>1
      <4>2. k <= P[g]
        BY <1>21, <3>1
      <4>3. mu(k) < o + (i + 1)
        <5> DEFINE h == o + (i + 1)
        <5>1. h \in Int /\ h = o + (g - d)
          BY <1>14, <1>15, <4>1
        <5> HIDE DEF h, g
        <5>2. mu(k) < h
          BY <1>20, <4>1, <4>2, <5>1
        <5> QED BY <5>2 DEF h
      <4> QED BY <1>14, <1>15, <2>1, <4>3
    <3>2. CASE ~(c < n)
      <4>1. e = 0 /\ i = K
        BY <1>3, <1>14, <3>2
      <4>2. CASE o + K = m.oldLast
        BY <1>6, <2>1, <4>1, <4>2
      <4>3. CASE o + K # m.oldLast
        <5>1. o + w - 1 # m.oldLast /\ o + w = o + K + 1 /\ w \in Int
          BY <1>3, <1>15, <4>3 DEF K
        <5>2. /\ f + w - 1 # m.newLast /\ ~(E[o + w] < F[f + w])
          BY <4>1, <5>1 DEF AtBack, EndMoves, e, o, w, f, E, F
        <5>3. o + w \in (m.oldFirst + 1)..m.oldLast
          <6>1. m.oldFirst <= o /\ o + K <= m.oldLast /\ m.oldFirst \in Int /\ m.oldLast \in Int
            BY <1>6
          <6> QED BY <1>14, <1>15, <4>3, <5>1, <6>1
        <5> DEFINE a == o + w
                   b == f + w
        <5>4. a \in 1..Len(E) /\ E[a] <= Last(time) /\ (k <= Post(time, E[a]) <=> mu(k) < a)
          BY <1>11, <1>13, <5>3
        <5>5. /\ b \in (UpperBound(F, time[1]) + 1)..UpperBound(F, Last(time))
              /\ X = LowerBound(time, F[b])
          BY <1>3, <1>6, <5>2
        <5>6. FineFor(new, time)
          BY DEF time
        <5> HIDE DEF a, b
        <5>7. b \in 1..Len(F) /\ LowerBound(time, F[b]) \in 2..Post(time, F[b])
          BY <1>1, <5>5, <5>6, NewPosts DEF F
        <5>8. F[b] \in Int /\ E[a] \in Int
          <6>1. F \in Seq(Int) /\ E \in Seq(Int)
            BY Schedules DEF E, F
          <6> QED BY <5>4, <5>7, <6>1
        <5>9. F[b] <= E[a]
          BY <5>2, <5>8 DEF a, b
        <5>10. /\ Post(time, F[b]) \in Nat /\ Post(time, E[a]) \in Nat
               /\ Post(time, F[b]) <= Post(time, E[a])
          BY <1>1, <5>8, <5>9, PostGrows
        <5>11. k <= Post(time, E[a])
          BY <1>13, <5>5, <5>7, <5>10
        <5>12. mu(k) < o + K + 1
          BY <5>1, <5>4, <5>11 DEF a
        <5> QED BY <1>14, <1>15, <2>1, <4>1, <5>12
      <4> QED BY <4>2, <4>3
    <3> QED BY <3>1, <3>2
  <2>4. mu(k) = o + i
    BY <1>14, <1>15, <2>1, <2>2, <2>3
  <2> QED BY <1>10, <1>13, <1>19, <1>21, <2>4 DEF newMode, nu, adj, s, time
<1>22. CASE x = Garbage
  BY <1>22 DEF s, time
<1>23. CASE c > 0 /\ x = r.mode[P[c] + 1]
  <2>1. c \in 1..n
    BY <1>14, <1>23
  <2>2. x = oldMode(o + i)
    <3> DEFINE h == o + i
    <3>1. h \in Int /\ h = o + (c - d)
      BY <1>14, <1>15
    <3> HIDE DEF h
    <3>2. r.mode[P[c] + 1] = oldMode(h)
      BY <1>20, <2>1, <3>1
    <3> QED BY <1>23, <3>2 DEF h
  <2> QED BY <1>19, <2>2 DEF newMode, nu, adj, s, time
<1>24. CASE c < n /\ x = r.mode[P[c + 1]]
  <2> DEFINE g == c + 1
  <2>1. g \in 1..n /\ g - d = i + 1
    <3>1. n \in Nat /\ c \in 0..n
      BY <1>3, <1>14
    <3> QED BY <1>14, <1>24, <3>1
  <2> DEFINE h == o + i + 1
  <2>2. h \in Int /\ h = o + (g - d) /\ h - 1 = o + i
    BY <1>14, <1>15, <2>1
  <2> HIDE DEF h, g
  <2>3. r.mode[P[g]] = oldMode(h - 1)
    BY <1>20, <2>1, <2>2
  <2>4. x = oldMode(o + i)
    BY <1>24, <2>2, <2>3 DEF g
  <2> QED BY <1>19, <2>4 DEF newMode, nu, adj, s, time
<1> QED BY <1>18, <1>21, <1>22, <1>23, <1>24

\* If no mode matches, nothing is left of the trajectory and of its events.
LEMMA NothingMatched ==
    ASSUME NEW old \in ModeSchedule, NEW new \in ModeSchedule, NEW time, TimeLine(time),
           \A e \in Int : time[1] = e * Unit => Len(time) = 1,
           NEW m, m = Match(old, new, time), ~(m.w > 0), ~SearchRunsOut(old, m)
    PROVE  LET s == Strategy(old, new, time)
           IN  /\ AdjustTimeTrajectory(time, s) = << >>
               /\ s.postEventIndices = << >>
               /\ s.keepEventData[2] - s.keepEventData[1] = 0
<1> DEFINE E == old.eventTimes
           s == Strategy(old, new, time)
           events == MatchedEvents(old, new, time, m)
           newPost == FindPostEventIndices([j \in DOMAIN events |-> events[j][2]], time)
<1>1. m.w = 0 /\ m.oldStart = Len(old.modeSequence) /\ m.oldLast = UpperBound(E, Last(time))
  <2>1. Matched(m, old, new, time)
    BY Matches
  <2> QED BY <2>1 DEF Matched
<1>2. m.oldStart + m.w - 1 = m.oldLast
  <2>1. UpperBound(E, Last(time)) \in Nat /\ UpperBound(E, Last(time)) <= Len(E)
    BY ActiveModes
  <2>2. Len(old.modeSequence) = Len(E) + 1 /\ Len(E) \in Nat
    BY Schedules
  <2>3. ~(m.oldLast + 1 < Len(old.modeSequence))
    BY <1>1 DEF SearchRunsOut
  <2> HIDE DEF E
  <2> QED BY <1>1, <2>1, <2>2, <2>3
<1>3. events = << >>
  <2> DEFINE between == [i \in 1..Greatest(m.w - 1, 0) |->
                            <<At(E, m.oldStart + i - 1),
                              At(new.eventTimes, m.newStart + i - 1)>>]
  <2>1. Greatest(m.w - 1, 0) = 0
    BY <1>1 DEF Greatest
  <2>2. between = << >>
    BY <2>1
  <2>3. events = (<< >> \o between) \o << >>
    BY <1>1, <1>2 DEF MatchedEvents
  <2> HIDE DEF between, events
  <2> QED BY <2>2, <2>3
<1>4. EraseFrom(new, time, m) = 0
  BY <1>1 DEF EraseFrom
<1>5. DOMAIN events = {}
  BY <1>3
<1>6. /\ s.erase = 0 /\ s.keepEventData = <<0, 0>>
      /\ s.postEventIndices = SubSeq(newPost,
            Cardinality({j \in DOMAIN events : newPost[j] = 0}) + 1,
            Cardinality({j \in DOMAIN events : newPost[j] < 0}))
  BY <1>1, <1>4 DEF Strategy
<1> HIDE DEF events
<1>7. newPost = << >>
  <2>1. [j \in DOMAIN events |-> events[j][2]] = << >>
    BY <1>5
  <2> QED BY <2>1 DEF FindPostEventIndices
<1> HIDE DEF newPost, s
<1>8. s.postEventIndices = << >>
  <2>1. /\ {j \in DOMAIN events : newPost[j] = 0} = {}
        /\ {j \in DOMAIN events : newPost[j] < 0} = {}
    BY <1>5
  <2>2. Cardinality({}) = 0
    BY FS_EmptySet
  <2>3. s.postEventIndices = SubSeq(newPost, 0 + 1, 0)
    BY <1>6, <2>1, <2>2
  <2> QED BY <1>7, <2>3
<1>9. AdjustTimeTrajectory(time, s) = << >>
  <2>1. Len(s.postEventIndices) = 0
    BY <1>8
  <2> DEFINE z == 0
  <2>2. z \in Nat /\ Len(s.postEventIndices) = z
    BY <2>1
  <2> HIDE DEF z
  <2>3. PICK moved : moved[0] = Kept(time, s) /\ AdjustTimeTrajectory(time, s) = moved[z]
    BY <2>2, MovedSteps
  <2>4. time \in Seq(Int)
    BY TimeLines
  <2>5. Kept(time, s) = << >>
    BY <1>6, <2>4 DEF Kept
  <2> QED BY <2>3, <2>5 DEF z
<1>10. s.keepEventData[2] - s.keepEventData[1] = 0
  <2>1. s.keepEventData[1] = 0 /\ s.keepEventData[2] = 0
    BY <1>6
  <2> QED BY <2>1
<1> QED BY <1>8, <1>9, <1>10 DEF s

-----------------------------------------------------------------------------
(* The runs of the solver.                                                 *)

\* The invariant: what each stage has computed from the earlier ones.
Deciding ==
    /\ modeSchedule \in ModeSchedule /\ newSchedule \in ModeSchedule
    /\ stage \in {"rollout", "set", "adjust", "done"}
    /\ stage # "rollout" => RolledOut(trajectory, modeSchedule)
    /\ stage \in {"adjust", "done"} =>
          /\ ~SearchRunsOut(modeSchedule,
                            Match(modeSchedule, newSchedule, trajectory.time))
          /\ strategy = Strategy(modeSchedule, newSchedule, trajectory.time)
    /\ stage = "done" =>
          adjusted = [time |-> AdjustTimeTrajectory(trajectory.time, strategy),
                      mode |-> AdjustTrajectory(trajectory.mode, strategy),
                      postEventIndices |-> strategy.postEventIndices]

\* Each stage computes from what the earlier ones have left.
LEMMA DecidingInvariant == SpreadingSpec => []Deciding
<1>1. SpreadingInit => Deciding
  BY DEF SpreadingInit, Deciding
<1>2. ASSUME Deciding, [SpreadingNext]_spreadingVars PROVE Deciding'
  <2>1. CASE RunRollout
    <3>1. PICK h \in Horizons, fine \in BOOLEAN :
             trajectory' = Rollout(<<h[1] * Unit, h[2] * Unit>>, modeSchedule, fine)
      BY <2>1 DEF RunRollout
    <3>2. h[1] \in Int /\ h[2] \in Int /\ h[1] <= h[2]
      BY SpreadingAssumption
    <3>3. modeSchedule \in ModeSchedule
      BY <1>2 DEF Deciding
    <3> DEFINE u == h[1]
               v == h[2]
    <3>4. u \in Int /\ v \in Int /\ u <= v
      BY <3>2
    <3> HIDE DEF u, v
    <3>5. RolledOut(Rollout(<<u * Unit, v * Unit>>, modeSchedule, fine), modeSchedule)
      BY <3>3, <3>4, Rollouts
    <3>6. RolledOut(trajectory', modeSchedule')
      BY <2>1, <3>1, <3>5 DEF u, v, RunRollout
    <3>7. stage' = "set" /\ modeSchedule' = modeSchedule /\ newSchedule' = newSchedule
      BY <2>1 DEF RunRollout
    <3> QED BY <1>2, <3>6, <3>7 DEF Deciding
  <2>2. CASE SetStrategy
    BY <1>2, <2>2 DEF Deciding, SetStrategy
  <2>3. CASE Adjust
    BY <1>2, <2>3 DEF Deciding, Adjust
  <2>4. CASE UNCHANGED spreadingVars
    BY <1>2, <2>4 DEF Deciding, spreadingVars
  <2> QED BY <1>2, <2>1, <2>2, <2>3, <2>4 DEF SpreadingNext
<1> QED BY <1>1, <1>2, PTL DEF SpreadingSpec

\* A rollout has one post-event index for every event in the horizon, also for one at
\* its end, and every point the mode that the schedule has at its time
\* (TimeTriggeredRollout.cpp:107-111).
THEOREM RolloutIsScheduled == SpreadingSpec => []RolloutFollowsSchedule
<1>1. ASSUME Deciding PROVE RolloutFollowsSchedule
  <2> SUFFICES ASSUME stage = "set"
               PROVE  /\ trajectory.postEventIndices
                            = PostEventIndices(modeSchedule, trajectory.time)
                      /\ \A k \in DOMAIN trajectory.time :
                            trajectory.mode[k]
                               = ModeOfPoint(modeSchedule, trajectory.time, k)
    BY DEF RolloutFollowsSchedule
  <2>1. RolledOut(trajectory, modeSchedule)
    BY <1>1 DEF Deciding
  <2> DEFINE time == trajectory.time
  <2>2. DOMAIN time = 1..Len(time)
    <3>1. TimeLine(time)
      BY <2>1 DEF RolledOut
    <3> HIDE DEF time
    <3> QED BY <3>1, TimeLines
  <2> QED BY <2>1, <2>2 DEF RolledOut, ModeOfPoint, ModeIndex
<1> QED BY <1>1, DecidingInvariant, PTL

\* What Adjust leaves of a trajectory that is fine enough for the new schedule.
LEMMA AdjustedFollows ==
    ASSUME Deciding, stage = "done", Regular
    PROVE  /\ adjusted.postEventIndices = PostEventIndices(newSchedule, adjusted.time)
           /\ Len(adjusted.postEventIndices)
                 = strategy.keepEventData[2] - strategy.keepEventData[1]
           /\ adjusted.time # << >> =>
                 TimeLine(adjusted.time) /\ adjusted.time[1] = trajectory.time[1]
           /\ \A k \in DOMAIN adjusted.time :
                 adjusted.mode[k]
                    \in {At(newSchedule.modeSequence, ModeIndex(newSchedule, adjusted.time, k)),
                         Garbage}
<1> DEFINE old == modeSchedule
           new == newSchedule
           r == trajectory
           m == Match(old, new, r.time)
           s == Strategy(old, new, r.time)
           adj == AdjustTimeTrajectory(r.time, s)
<1>1. /\ old \in ModeSchedule /\ new \in ModeSchedule /\ RolledOut(r, old)
      /\ strategy = s /\ ~SearchRunsOut(old, m)
      /\ adjusted.time = adj /\ adjusted.mode = AdjustTrajectory(r.mode, s)
      /\ adjusted.postEventIndices = s.postEventIndices
  BY DEF Deciding
<1>2. FineFor(new, r.time) /\ EndsWithoutEvent(old, new, r.time)
  BY DEF Regular, FineEnough, EndIsNoEvent, FineFor, EndsWithoutEvent
<1>3. TimeLine(r.time) /\ \A e \in Int : r.time[1] = e * Unit => Len(r.time) = 1
  BY <1>1 DEF RolledOut
<1> HIDE DEF old, new, r
<1>4. CASE m.w > 0
  <2> DEFINE h == m
  <2>1. h = Match(old, new, r.time) /\ h.w > 0
    BY <1>4
  <2> HIDE DEF h
  <2>2. /\ TimeLine(adj) /\ Len(adj) = s.erase /\ adj[1] = r.time[1]
        /\ s.postEventIndices = PostEventIndices(new, adj)
    BY <1>1, <1>2, <2>1, AdjustedTimesFollow
  <2>3. \A k \in 1..s.erase :
           AdjustTrajectory(r.mode, s)[k]
              \in {At(new.modeSequence, ModeIndex(new, adj, k)), Garbage}
    BY <1>1, <1>2, <2>1, AdjustedModesFollow
  <2>4. Len(s.postEventIndices) = s.keepEventData[2] - s.keepEventData[1]
    BY <1>1, <1>2, <2>1, StrategyIs
  <2> HIDE DEF adj, s
  <2>5. DOMAIN adj = 1..s.erase
    BY <2>2, TimeLines
  <2> QED BY <1>1, <2>2, <2>3, <2>4, <2>5 DEF new, r
<1>5. CASE ~(m.w > 0)
  <2> DEFINE h == m
             time == r.time
  <2>1. h = Match(old, new, time) /\ ~(h.w > 0) /\ ~SearchRunsOut(old, h)
    BY <1>1, <1>5
  <2>2. TimeLine(time) /\ \A e \in Int : time[1] = e * Unit => Len(time) = 1
    BY <1>3
  <2> HIDE DEF h
  <2>3. /\ adj = << >> /\ s.postEventIndices = << >>
        /\ s.keepEventData[2] - s.keepEventData[1] = 0
    <3> HIDE DEF time
    <3>1. LET z == Strategy(old, new, time)
          IN  /\ AdjustTimeTrajectory(time, z) = << >>
              /\ z.postEventIndices = << >>
              /\ z.keepEventData[2] - z.keepEventData[1] = 0
      BY <1>1, <2>1, <2>2, NothingMatched
    <3> QED BY <3>1 DEF time
  <2> HIDE DEF adj, s
  <2>4. adjusted.time = << >> /\ adjusted.postEventIndices = << >>
    BY <1>1, <2>3
  <2>5. DOMAIN adjusted.time = {} /\ Len(adjusted.postEventIndices) = 0
    BY <2>4
  <2>6. PostEventIndices(newSchedule, adjusted.time) = << >>
    BY <2>4 DEF PostEventIndices
  <2> QED BY <1>1, <2>3, <2>4, <2>5, <2>6
<1> QED BY <1>4, <1>5

\* Every point of the adjusted trajectory keeps data of the mode that the new schedule
\* has at its new time, or what is read of an erased point (TrajectorySpreading.h:170).
THEOREM ModesFollowNewSchedule == SpreadingSpec => []AdjustedModes
<1>1. ASSUME Deciding PROVE AdjustedModes
  <2> SUFFICES ASSUME stage = "done", Regular, NEW k \in DOMAIN adjusted.time
               PROVE  adjusted.mode[k]
                         \in {ModeOfPoint(newSchedule, adjusted.time, k), Garbage}
    BY DEF AdjustedModes
  <2>1. adjusted.mode[k]
           \in {At(newSchedule.modeSequence, ModeIndex(newSchedule, adjusted.time, k)),
                Garbage}
    BY <1>1, AdjustedFollows
  <2> QED BY <2>1 DEF ModeOfPoint, ModeIndex
<1> QED BY <1>1, DecidingInvariant, PTL

\* The post-event indices of the adjusted trajectory are those of its time stamps, and as
\* many as the events whose data is kept (TrajectorySpreading.cpp:152-162, 362-367).
THEOREM EventsFollowNewSchedule == SpreadingSpec => []AdjustedEvents
<1>1. ASSUME Deciding PROVE AdjustedEvents
  BY <1>1, AdjustedFollows DEF AdjustedEvents
<1> QED BY <1>1, DecidingInvariant, PTL

\* No point is moved over its neighbour, and the first one is not moved at all
\* (TrajectorySpreading.cpp:372-382).
THEOREM TimesGoUp == SpreadingSpec => []AdjustedTimes
<1>1. ASSUME Deciding PROVE AdjustedTimes
  <2> SUFFICES ASSUME stage = "done", Regular, adjusted.time # << >>
               PROVE  /\ adjusted.time[1] = trajectory.time[1]
                      /\ \A k \in 2..Len(adjusted.time) :
                            \/ adjusted.time[k - 1] < adjusted.time[k]
                            \/ /\ k = Len(adjusted.time)
                               /\ adjusted.time[k - 1] = adjusted.time[k]
    BY DEF AdjustedTimes
  <2> DEFINE adj == adjusted.time
  <2>1. TimeLine(adj) /\ adj[1] = trajectory.time[1]
    BY <1>1, AdjustedFollows
  <2> HIDE DEF adj
  <2>2. \A k \in 2..Len(adj) : \/ adj[k - 1] < adj[k]
                               \/ k = Len(adj) /\ adj[k - 1] = adj[k]
    <3> SUFFICES ASSUME NEW k \in 2..Len(adj)
                 PROVE  \/ adj[k - 1] < adj[k]
                        \/ k = Len(adj) /\ adj[k - 1] = adj[k]
      OBVIOUS
    <3>1. DOMAIN adj = 1..Len(adj) /\ Len(adj) \in Nat
      BY <2>1, TimeLines
    <3>2. k - 1 \in DOMAIN adj /\ k \in DOMAIN adj /\ k - 1 < k
      BY <3>1
    <3> QED BY <2>1, <3>2 DEF TimeLine
  <2> QED BY <2>1, <2>2 DEF adj
<1> QED BY <1>1, DecidingInvariant, PTL

=============================================================================
