-------------------------- MODULE TrajectorySpreading --------------------------
(***************************************************************************)
(* What a change of the mode schedule does to a solution that exists       *)
(* already (core/ocs2_oc/src/trajectory_adjustment/TrajectorySpreading.cpp *)
(* on a trajectory made by rollout/TimeTriggeredRollout.cpp).  The solver  *)
(* rolls out a trajectory under one mode schedule; before the next run the *)
(* schedule changes; the old trajectory is truncated and stretched so that *)
(* every point of it lies in the mode it was computed for.                 *)
(*                                                                         *)
(* Times are integers, in ticks: a tick stands for the weakEpsilon that    *)
(* separates a point from the event before it, and event times and         *)
(* horizons are multiples of Unit.  Of the data that travels with the      *)
(* points (states, inputs, gains, multipliers) the model keeps the mode it *)
(* was computed in.  Indices count from 0, as in the code; At() converts.  *)
(***************************************************************************)
EXTENDS Integers, Sequences, FiniteSets, SequencesExt

CONSTANTS
    Modes,      \* the modes of the system
    Events,     \* the event times a schedule may have, in units
    MaxEvents,  \* bound on the number of events of a schedule
    Horizons    \* the horizons of a rollout, pairs of times in units

ASSUME SpreadingAssumption ==
    /\ Events \subseteq Int
    /\ MaxEvents \in Nat
    /\ Horizons \subseteq {h \in Int \X Int : h[1] <= h[2]}

Unit == 8            \* ticks between two event times
Half == 4            \* ticks of a small step of the integrator
Epsilon == 1         \* numeric_traits::weakEpsilon()
BitBefore == 2       \* the 1e-4 of "a bit before the updated initial time"

Least(a, b) == IF a <= b THEN a ELSE b
Greatest(a, b) == IF a >= b THEN a ELSE b

At(s, i) == s[i + 1]

\* std::upper_bound and std::lower_bound on a sorted array, as indices.
UpperBound(times, t) == Cardinality({i \in DOMAIN times : times[i] <= t})
LowerBound(times, t) == Cardinality({i \in DOMAIN times : times[i] < t})

\* Mode schedules: one mode more than events, and no mode follows itself.
ModeSchedule ==
    {s \in UNION {[eventTimes : [1..n -> {e * Unit : e \in Events}],
                   modeSequence : [1..(n + 1) -> Modes]] : n \in 0..MaxEvents} :
        /\ \A i \in 2..Len(s.eventTimes) : s.eventTimes[i-1] < s.eventTimes[i]
        /\ \A i \in 2..Len(s.modeSequence) :
              s.modeSequence[i-1] # s.modeSequence[i]}

\* ModeSchedule::modeAtTime(): an event belongs to the mode before it.
ModeAtTime(s, t) == At(s.modeSequence, LowerBound(s.eventTimes, t))

-----------------------------------------------------------------------------
(* TimeTriggeredRollout::run()                                             *)

\* The trajectory before the first interval.
NoTrajectory == [time |-> << >>, mode |-> << >>, postEventIndices |-> << >>]

\* Mutant: an event at the final time opens no interval.
FindActiveModesTimeInterval_EventAtEnd(initTime, finalTime, eventTimes) ==
    LET switching == <<initTime>>
            \o SubSeq(eventTimes, UpperBound(eventTimes, initTime) + 1,
                                  LowerBound(eventTimes, finalTime))
            \o <<finalTime>>
    IN  [i \in 1..(Len(switching) - 1) |->
            [first |-> Least(switching[i] + Epsilon, switching[i + 1]),
             last  |-> switching[i + 1]]]

\* The intervals between the events in (initTime, finalTime], each opened a
\* little after the event it starts with.
FindActiveModesTimeInterval(initTime, finalTime, eventTimes) ==
    LET switching == <<initTime>>
            \o SubSeq(eventTimes, UpperBound(eventTimes, initTime) + 1,
                                  UpperBound(eventTimes, finalTime))
            \o <<finalTime>>
    IN  [i \in 1..(Len(switching) - 1) |->
            [first |-> Least(switching[i] + Epsilon, switching[i + 1]),
             last  |-> switching[i + 1]]]

\* The points the integrator produces in one interval: its ends and those of its
\* steps, every half unit if they are small, none if one step is enough.
Points(interval, fine) ==
    LET before == interval.first \div Half
        steps == ((interval.last - 1) \div Half) - before
    IN  IF interval.first < interval.last
        THEN <<interval.first>>
             \o [k \in 1..(IF fine THEN steps ELSE 0) |-> (before + k) * Half]
             \o <<interval.last>>
        ELSE <<interval.last>>

\* One round of the loop over the intervals: the points of interval i are added,
\* with the mode they were integrated in, and, if an event ends the interval, the
\* index of the first point after it.
RollOutInterval(before, intervals, i, mode, fine) ==
    LET points == Points(intervals[i], fine)
        size == Len(before.time) + Len(points)
    IN  [time |-> before.time \o points,
         mode |-> before.mode \o [k \in DOMAIN points |-> mode],
         postEventIndices |-> before.postEventIndices
                \o IF i < Len(intervals) THEN <<size>> ELSE << >>]

\* The rollout, interval by interval.
Rollout(horizon, schedule, fine) ==
    LET intervals == FindActiveModesTimeInterval(horizon[1], horizon[2],
                                                 schedule.eventTimes)
        first == UpperBound(schedule.eventTimes, horizon[1])
        rolled[i \in 0..Len(intervals)] ==
            IF i = 0 THEN NoTrajectory
            ELSE RollOutInterval(rolled[i - 1], intervals, i,
                                 At(schedule.modeSequence, first + i - 1), fine)
    IN  rolled[Len(intervals)]

-----------------------------------------------------------------------------
(* TrajectorySpreading::set()                                              *)

\* How many modes from old index o and new index n on agree, up to the last
\* active modes of the old trajectory's time window.
MatchedFrom(old, new, o, n, oldLast, newLast) ==
    LET most == Least(oldLast - o, newLast - n) + 1
        agree(w) == \A k \in 0..(w - 1) :
                       At(old.modeSequence, o + k) = At(new.modeSequence, n + k)
    IN  CHOOSE w \in 0..Greatest(most, 0) :
            agree(w) /\ (w < most => ~agree(w + 1))

\* The longest window of matched modes: where it starts in the old and in the
\* new schedule, and how many modes it has.
Match(old, new, time) ==
    LET oldFirst == UpperBound(old.eventTimes, time[1])
        oldLast == UpperBound(old.eventTimes, Last(time))
        newFirst == UpperBound(new.eventTimes, time[1])
        newLast == UpperBound(new.eventTimes, Last(time))
        starts == {o \in oldFirst..oldLast :
                     MatchedFrom(old, new, o, newFirst, oldLast, newLast) > 0}
        start == CHOOSE o \in starts : \A p \in starts : o <= p
    IN  [oldFirst |-> oldFirst, oldLast |-> oldLast,
         newStart |-> newFirst, newLast |-> newLast,
         oldStart |-> IF starts = {} THEN Len(old.modeSequence) ELSE start,
         w |-> IF starts = {} THEN 0
               ELSE MatchedFrom(old, new, start, newFirst, oldLast, newLast)]

\* Without a match the search walks over the end of the old trajectory into the
\* rest of the old schedule, with an inverted range, and then reads an event
\* time past the end of the array, unless the two ends coincide.
SearchRunsOut(old, m) == m.w = 0 /\ m.oldLast + 1 < Len(old.modeSequence)

\* Mutant: the event that starts the match is not moved to the front.
MatchedEvents_NotTriggered(old, new, time, m) ==
    [i \in 1..Greatest(m.w - 1, 0) |->
        <<At(old.eventTimes, m.oldStart + i - 1),
          At(new.eventTimes, m.newStart + i - 1)>>]

\* The events between matched modes, as pairs of old and new time, after the
\* event that starts the match if it is not the first active mode, and before
\* the event that ends it if the last matched mode has to be stretched.
MatchedEvents(old, new, time, m) ==
    LET between == [i \in 1..Greatest(m.w - 1, 0) |->
                       <<At(old.eventTimes, m.oldStart + i - 1),
                         At(new.eventTimes, m.newStart + i - 1)>>]
        triggering ==
            IF m.w > 0 /\ m.oldStart > m.oldFirst
            THEN << <<At(old.eventTimes, m.oldStart - 1),
                      time[1] - BitBefore>> >>
            ELSE << >>
        o == m.oldStart + m.w - 1
        n == m.newStart + m.w - 1
        ending ==
            CASE o = m.oldLast -> << >>
              [] o # m.oldLast /\ n = m.newLast ->
                   << <<At(old.eventTimes, o), Last(time) + BitBefore>> >>
              [] OTHER ->
                   IF At(old.eventTimes, o) < At(new.eventTimes, n)
                   THEN << <<At(old.eventTimes, o), At(new.eventTimes, n)>> >>
                   ELSE << >>
    IN  triggering \o between \o ending

\* Mutant: the first point of a mode that is no longer due is kept.
EraseFrom_UpperBound(new, time, m) ==
    CASE m.w = 0 -> 0
      [] m.w > 0 /\ m.newStart + m.w - 1 # m.newLast ->
            UpperBound(time, At(new.eventTimes, m.newStart + m.w - 1))
      [] OTHER -> Len(time)

\* eraseFromIndex_: the first point in a mode that does not match any more.
EraseFrom(new, time, m) ==
    CASE m.w = 0 -> 0
      [] m.w > 0 /\ m.newStart + m.w - 1 # m.newLast ->
            LowerBound(time, At(new.eventTimes, m.newStart + m.w - 1))
      [] OTHER -> Len(time)

\* findPostEventIndices()
FindPostEventIndices(eventTimes, time) ==
    [i \in DOMAIN eventTimes |->
        IF i = Len(eventTimes) /\ eventTimes[i] = Last(time)
        THEN Len(time) - 1
        ELSE UpperBound(time, eventTimes[i])]

\* A mode that starts earlier takes its first value backward.
Backward(oldPost, newPost, erase) ==
    [begin |-> newPost, end |-> Least(oldPost, erase), value |-> oldPost]

\* Mutant: a mode stretched forward overwrites the mode before it.
Forward_Overlaps(oldPost, newPost, before) ==
    [begin |-> oldPost, end |-> newPost, value |-> oldPost - 1]

\* A mode that ends later takes its last value forward, but not over the modes
\* stretched before it.
Forward(oldPost, newPost, before) ==
    [begin |-> Greatest(oldPost, before), end |-> newPost, value |-> oldPost - 1]

\* computeSpreadingStrategy(): the ranges to overwrite, by the event that is moved,
\* each with the index of the value that overwrites it, and the events of the new
\* trajectory: newPost goes up, so that those with an index in 1..erase - 1 follow
\* each other.
Strategy(old, new, time) ==
    LET m == Match(old, new, time)
        events == MatchedEvents(old, new, time, m)
        erase == EraseFrom(new, time, m)
        oldPost == FindPostEventIndices([j \in DOMAIN events |-> events[j][1]],
                                        time)
        newPost == FindPostEventIndices([j \in DOMAIN events |-> events[j][2]],
                                        time)
        moved(j) == newPost[j] # oldPost[j]
        range(j) ==
            IF newPost[j] < oldPost[j]
            THEN Backward(oldPost[j], newPost[j], erase)
            ELSE Forward(oldPost[j], newPost[j],
                         IF j = 1 THEN oldPost[j] ELSE newPost[j - 1])
        triggered == Cardinality({j \in DOMAIN events : newPost[j] = 0})
        remaining == Cardinality({j \in DOMAIN events : newPost[j] < erase})
    IN  [erase |-> erase,
         keepEventData |-> IF m.w = 0 THEN <<0, 0>>
                           ELSE <<m.oldStart - m.oldFirst,
                                  m.oldStart - m.oldFirst + m.w - 1>>,
         spread |-> [j \in {i \in DOMAIN events : moved(i)} |-> range(j)],
         postEventIndices |-> SubSeq(newPost, triggered + 1, remaining),
         eventTimes |-> SubSeq([j \in DOMAIN events |-> events[j][2]],
                               triggered + 1, remaining)]

-----------------------------------------------------------------------------
(* Applying the strategy.                                                  *)

\* What a read of an element that was erased before returns: it may be the old
\* value or the content of freed memory.
Garbage == "garbage"

\* adjustTrajectory(): the end is erased, the values to spread are read, and
\* then the ranges are overwritten, one after the other.
AdjustTrajectory(values, s) ==
    LET value(k) == IF s.spread[k].value < s.erase
                    THEN At(values, s.spread[k].value) ELSE Garbage
        covering(i) == {k \in DOMAIN s.spread :
                           s.spread[k].begin < i /\ i <= s.spread[k].end}
    IN  [i \in 1..s.erase |->
            IF covering(i) = {} THEN values[i]
            ELSE value(CHOOSE k \in covering(i) :
                          \A j \in covering(i) : j <= k)]

\* extractEventsArray()
ExtractEventsArray(array, s) ==
    SubSeq(array, s.keepEventData[1] + 1, s.keepEventData[2])

\* Mutant: the point after an event gets the time of the event.
MoveToEvent_NoGap(time, s, k) ==
    LET post == s.postEventIndices[k]
    IN  [time EXCEPT ![post] = s.eventTimes[k],
                     ![post + 1] = s.eventTimes[k]]

\* The point before event k gets its time, the one after it a time a little later.
MoveToEvent(time, s, k) ==
    LET post == s.postEventIndices[k]
    IN  [time EXCEPT ![post] = s.eventTimes[k],
                     ![post + 1] = Least(s.eventTimes[k] + Epsilon, Last(time))]

\* adjustTimeTrajectory(): event after event on what is left of the trajectory.
AdjustTimeTrajectory(time, s) ==
    LET moved[k \in 0..Len(s.postEventIndices)] ==
            IF k = 0 THEN SubSeq(time, 1, s.erase)
            ELSE MoveToEvent(moved[k - 1], s, k)
    IN  moved[Len(s.postEventIndices)]

-----------------------------------------------------------------------------
(* The solver from one run to the next: a trajectory is rolled out, the    *)
(* schedule changes, the trajectory is adjusted to it.                     *)

VARIABLES
    modeSchedule,   \* the schedule the trajectory belongs to
    newSchedule,    \* the schedule of the next run
    trajectory,     \* the rolled out trajectory
    strategy,       \* what TrajectorySpreading::set() decided
    adjusted,       \* the trajectory after the adjustment
    stage           \* "rollout", "set", "adjust" or "done"

spreadingVars == <<modeSchedule, newSchedule, trajectory, strategy, adjusted,
                   stage>>

NoStrategy == [erase |-> 0, keepEventData |-> <<0, 0>>, spread |-> << >>,
               postEventIndices |-> << >>, eventTimes |-> << >>]

SpreadingInit ==
    /\ modeSchedule \in ModeSchedule
    /\ newSchedule = modeSchedule
    /\ trajectory = NoTrajectory /\ strategy = NoStrategy
    /\ adjusted = NoTrajectory
    /\ stage = "rollout"

RunRollout ==
    /\ stage = "rollout"
    /\ \E horizon \in Horizons, fine \in BOOLEAN :
          trajectory' = Rollout(<<horizon[1] * Unit, horizon[2] * Unit>>,
                                modeSchedule, fine)
    /\ stage' = "set"
    /\ UNCHANGED <<modeSchedule, newSchedule, strategy, adjusted>>

\* A search that runs out of the old trajectory has no defined outcome, and the
\* runs that follow it are not described.
SetStrategy ==
    /\ stage = "set"
    /\ newSchedule' \in ModeSchedule
    /\ ~SearchRunsOut(modeSchedule,
                      Match(modeSchedule, newSchedule', trajectory.time))
    /\ strategy' = Strategy(modeSchedule, newSchedule', trajectory.time)
    /\ stage' = "adjust"
    /\ UNCHANGED <<modeSchedule, trajectory, adjusted>>

Adjust ==
    /\ stage = "adjust"
    /\ adjusted' =
          [time |-> AdjustTimeTrajectory(trajectory.time, strategy),
           mode |-> AdjustTrajectory(trajectory.mode, strategy),
           postEventIndices |-> strategy.postEventIndices]
    /\ stage' = "done"
    /\ UNCHANGED <<modeSchedule, newSchedule, trajectory, strategy>>

SpreadingNext == RunRollout \/ SetStrategy \/ Adjust

SpreadingSpec == SpreadingInit /\ [][SpreadingNext]_spreadingVars

-----------------------------------------------------------------------------
(* Correctness.                                                            *)

ModeOfPoint(s, time, k) ==
    At(s.modeSequence, IF k = Len(time) THEN UpperBound(s.eventTimes, time[k])
                       ELSE LowerBound(s.eventTimes, time[k]))

\* The indices of the points after the events, looked up in the time stamps.
PostEventIndices(s, time) ==
    IF time = << >> THEN << >>
    ELSE FindPostEventIndices(
            SubSeq(s.eventTimes, UpperBound(s.eventTimes, time[1]) + 1,
                   UpperBound(s.eventTimes, Last(time))),
            time)

\* A rollout has one post-event index for every event in the horizon, also for
\* one at its end, and every point is integrated in the mode the schedule has
\* at its time (TimeTriggeredRollout.cpp:107-111).
RolloutFollowsSchedule ==
    stage = "set" =>
        /\ trajectory.postEventIndices
              = PostEventIndices(modeSchedule, trajectory.time)
        /\ \A k \in DOMAIN trajectory.time :
              trajectory.mode[k] = ModeOfPoint(modeSchedule, trajectory.time, k)

\* Some point lies strictly between every two neighbours among the ends of the
\* trajectory and the new events inside it.  On a coarser trajectory two events
\* get one index, or the initial time is moved to an event.
FineEnough ==
    LET time == trajectory.time
        marks == {time[1], Last(time)} \cup
                    {e \in ToSet(newSchedule.eventTimes) :
                        time[1] < e /\ e < Last(time)}
    IN  \A a, b \in marks :
            a < b => \E k \in DOMAIN time : a < time[k] /\ time[k] < b

\* A mode that has to be stretched to the end of the trajectory does not end
\* there: its event would be moved past the end, and its index be forgotten.
EndIsNoEvent ==
    LET m == Match(modeSchedule, newSchedule, trajectory.time)
    IN  m.oldStart + m.w - 1 # m.oldLast =>
            Last(trajectory.time) \notin ToSet(newSchedule.eventTimes)

Regular == FineEnough /\ EndIsNoEvent

\* Every point of the adjusted trajectory keeps data of the mode that the new
\* schedule has at its new time, what TrajectorySpreadingTest.cpp:260 expects of
\* examples.  See StaysWithinKept for the exception.
AdjustedModes ==
    stage = "done" /\ Regular =>
        \A k \in DOMAIN adjusted.time :
            adjusted.mode[k] \in {ModeOfPoint(newSchedule, adjusted.time, k),
                                  Garbage}

\* The post-event indices of the adjusted trajectory are those one would find in
\* its time stamps, and as many as the events whose data is kept, so that the
\* data of an event is never used at another (TrajectorySpreading.cpp:152-162, 362-367).
AdjustedEvents ==
    stage = "done" /\ Regular =>
        /\ adjusted.postEventIndices
              = PostEventIndices(newSchedule, adjusted.time)
        /\ Len(adjusted.postEventIndices)
              = strategy.keepEventData[2] - strategy.keepEventData[1]

\* Moving the points next to an event moves none over its neighbour, and not
\* the first one, at which the next run starts (TrajectorySpreading.cpp:372-382).
AdjustedTimes ==
    stage = "done" /\ Regular /\ adjusted.time # << >> =>
        /\ adjusted.time[1] = trajectory.time[1]
        /\ \A k \in 2..Len(adjusted.time) :
              \/ adjusted.time[k - 1] < adjusted.time[k]
              \/ /\ k = Len(adjusted.time)
                 /\ adjusted.time[k - 1] = adjusted.time[k]

\* "The end index should be smaller or equal to the index of the first erased
\* time stamp" (TrajectorySpreading.cpp:323), and so should be the index of the
\* value that is spread, since adjustTrajectory() erases first and then reads
\* and writes.
StaysWithinKept ==
    stage = "adjust" =>
        \A k \in DOMAIN strategy.spread :
            /\ strategy.spread[k].end <= strategy.erase
            /\ strategy.spread[k].value < strategy.erase

=============================================================================
