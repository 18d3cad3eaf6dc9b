----------------------------- MODULE ClockProofs -----------------------------
(***************************************************************************)
(* Proofs about the clocks: the realtime clock, for every interval,        *)
(* threshold, number of attempts and every schedule of ticks and steps of  *)
(* the wall clock, and the replay under the historical clock, for every    *)
(* interval, step, period and set of deadlines.                            *)
(***************************************************************************)
EXTENDS PrecisionClock, Replay, TLAPS

-----------------------------------------------------------------------------
(* The realtime clock.                                                     *)

Measurements == [instant : Int, wall : Int, variance : Int, offset : Int]

Measuring == at \in {"attempt", "wall", "after", "apply", "fallback"}

PrecisionTypeOK ==
  /\ mono \in Nat /\ offset \in Int
  /\ base_wall_time \in Int /\ base_instant \in Int /\ last_resync \in Int
  /\ is_accurate \in BOOLEAN /\ base_offset \in Int
  /\ at \in {"idle", "attempt", "wall", "after", "apply", "fallback",
             "extrapolate", "returned"}
  /\ now_instant \in Int /\ unix_time \in Int
  /\ instant_before \in Int /\ wall_time \in Int /\ wall_offset \in Int
  /\ best \in Measurements \cup {NoBest}

\* A wall reading is at most half of d away from what an unstepped wall clock
\* shows at the instant it counts for.
Close(wall, off, instant, d) ==
  /\ 2 * (wall - off - instant) <= d + 1
  /\ 2 * (instant + off - wall) <= d + 1

\* The readings of an attempt lie in the order in which they were taken.
Readings ==
  /\ at \in {"wall", "after", "fallback"} => instant_before <= mono
  /\ at = "after" => /\ instant_before <= wall_time - wall_offset
                     /\ wall_time - wall_offset <= mono

\* The best attempt so far is as good as its variance.
BestInv ==
  best # NoBest =>
    /\ best.instant <= mono
    /\ Close(best.wall, best.offset, best.instant, best.variance)

\* The baseline was measured in the past, and when it counts as accurate it is
\* within the threshold.
BaseInv ==
  /\ last_resync = base_instant /\ base_instant <= mono
  /\ is_accurate => Close(base_wall_time, base_offset, base_instant, Threshold)

\* What a call of cycle_time() measures lies after the instant that it read.
CallInv ==
  /\ now_instant <= mono
  /\ Measuring /\ caller = "cycle_time" =>
       /\ best # NoBest => now_instant <= best.instant
       /\ at \in {"wall", "after", "fallback"} => now_instant <= instant_before

\* A baseline that is extrapolated from is younger than the interval.
YoungInv ==
  at \in {"extrapolate", "returned"} =>
    now_instant - base_instant < ResyncInterval \/ ResyncInterval = 0

ReturnInv ==
  at = "returned" =>
    unix_time = base_wall_time + DurationSince(now_instant, base_instant)

PrecisionInv ==
  /\ PrecisionTypeOK /\ Readings /\ BestInv /\ BaseInv /\ CallInv
  /\ YoungInv /\ ReturnInv

LEMMA PrecisionInitInv == PrecisionInit => PrecisionInv
<1> SUFFICES ASSUME PrecisionInit PROVE PrecisionInv
  OBVIOUS
<1>1. PrecisionTypeOK
  <2>1. offset \in Int
    BY PrecisionAssumption DEF PrecisionInit
  <2>2. /\ mono \in Nat /\ base_wall_time \in Int /\ base_instant \in Int
        /\ last_resync \in Int /\ now_instant \in Int /\ unix_time \in Int
        /\ instant_before \in Int /\ wall_time \in Int
    BY DEF PrecisionInit
  <2>3. base_offset \in Int /\ wall_offset \in Int
    BY <2>1 DEF PrecisionInit
  <2>4. is_accurate \in BOOLEAN /\ at = "attempt" /\ best = NoBest
    BY DEF PrecisionInit
  <2>5. QED
    BY <2>1, <2>2, <2>3, <2>4 DEF PrecisionTypeOK
<1>2. Readings /\ BestInv /\ BaseInv
  BY DEF PrecisionInit, Readings, BestInv, BaseInv
<1>3. CallInv /\ YoungInv /\ ReturnInv
  BY DEF PrecisionInit, CallInv, YoungInv, ReturnInv
<1>4. QED
  BY <1>1, <1>2, <1>3 DEF PrecisionInv

\* The midpoint of an attempt.
LEMMA MidpointIsClose ==
  ASSUME NEW b \in Int, NEW w \in Int, NEW o \in Int, NEW m \in Int,
         b <= w - o, w - o <= m
  PROVE  /\ b + (m - b) \div 2 \in Int
         /\ b <= b + (m - b) \div 2 /\ b + (m - b) \div 2 <= m
         /\ Close(w, o, b + (m - b) \div 2, m - b)
<1> DEFINE v == m - b
           h == v \div 2
<1>1. v \in Nat
  OBVIOUS
<1>2. h \in Nat /\ 2 * h <= v /\ v <= 2 * h + 1
  <2> HIDE DEF v
  <2> QED BY <1>1
<1> HIDE DEF h
<1>3. /\ b + h \in Int /\ b <= b + h /\ b + h <= m
      /\ Close(w, o, b + h, v)
  BY <1>2 DEF Close
<1>4. QED
  BY <1>3 DEF h

LEMMA ReadAfterStep == PrecisionInv /\ ReadAfter => PrecisionInv'
<1> SUFFICES ASSUME PrecisionInv, ReadAfter PROVE PrecisionInv'
  OBVIOUS
<1> DEFINE variance == mono - instant_before
           better == variance < BestVariance
           M == Measurement(variance)
<1>1. /\ mono \in Int /\ instant_before \in Int /\ wall_time \in Int
      /\ wall_offset \in Int /\ instant_before <= wall_time - wall_offset
      /\ wall_time - wall_offset <= mono
  BY DEF PrecisionInv, PrecisionTypeOK, Readings, ReadAfter
<1>2. /\ M.instant \in Int /\ instant_before <= M.instant /\ M.instant <= mono
      /\ Close(M.wall, M.offset, M.instant, M.variance)
      /\ M \in Measurements
  <2>1. M = [instant |-> instant_before + variance \div 2, wall |-> wall_time,
             variance |-> variance, offset |-> wall_offset]
    BY DEF Measurement, EstimatedInstant
  <2>2. /\ instant_before + variance \div 2 \in Int
        /\ instant_before <= instant_before + variance \div 2
        /\ instant_before + variance \div 2 <= mono
        /\ Close(wall_time, wall_offset, instant_before + variance \div 2, variance)
    BY <1>1, MidpointIsClose
  <2>3. variance \in Int
    BY <1>1
  <2> HIDE DEF M, variance
  <2>4. QED
    BY <1>1, <2>1, <2>2, <2>3 DEF Measurements
<1>3. /\ best' \in {best, M}
      /\ at' \in {"apply", "attempt"}
      /\ UNCHANGED <<mono, offset, base_wall_time, base_instant, last_resync,
                     is_accurate, base_offset, caller, now_instant, unix_time,
                     instant_before, wall_time, wall_offset>>
  BY DEF ReadAfter, system_vars, base_vars
<1> HIDE DEF M
<1>4. PrecisionTypeOK'
  BY <1>2, <1>3 DEF PrecisionInv, PrecisionTypeOK
<1>5. BestInv'
  BY <1>2, <1>3 DEF PrecisionInv, BestInv
<1>6. CallInv'
  <2>1. caller = "cycle_time" => now_instant <= instant_before
    BY DEF PrecisionInv, CallInv, Measuring, ReadAfter
  <2>2. caller = "cycle_time" => now_instant <= M.instant
    BY <1>1, <1>2, <2>1 DEF PrecisionInv, PrecisionTypeOK
  <2>3. QED
    BY <1>3, <2>2 DEF PrecisionInv, CallInv, Measuring, ReadAfter
<1>7. QED
  BY <1>3, <1>4, <1>5, <1>6
     DEF PrecisionInv, Readings, BaseInv, YoungInv, ReturnInv

LEMMA PrecisionStep == PrecisionInv /\ PrecisionNext => PrecisionInv'
<1> SUFFICES ASSUME PrecisionInv, PrecisionNext PROVE PrecisionInv'
  OBVIOUS
<1> USE PrecisionAssumption
    DEF PrecisionInv, PrecisionTypeOK, Readings, BestInv, BaseInv, CallInv,
        YoungInv, ReturnInv, Measuring
<1>1. CASE Tick
  <2>1. /\ mono' = mono + 1
        /\ UNCHANGED <<offset, base_vars, clock_call, measure_vars>>
    BY <1>1 DEF Tick
  <2>2. PrecisionTypeOK' /\ ReturnInv' /\ YoungInv'
    BY <2>1 DEF base_vars, clock_call, measure_vars
  <2>3. Readings' /\ BaseInv' /\ CallInv'
    BY <2>1 DEF base_vars, clock_call, measure_vars
  <2>4. BestInv'
    BY <2>1 DEF Measurements, measure_vars
  <2>5. QED
    BY <2>2, <2>3, <2>4
<1>2. CASE \E o \in Offsets : StepWallClock(o)
  BY <1>2 DEF StepWallClock, base_vars, clock_call, measure_vars
<1>3. CASE Resync
  BY <1>3 DEF Resync, BeginMeasuring, system_vars, base_vars
<1>4. CASE CycleTime
  BY <1>4 DEF CycleTime, BeginMeasuring, IsDue, DurationSince, system_vars, base_vars
<1>5. CASE ReadBefore
  BY <1>5 DEF ReadBefore, system_vars, base_vars
<1>6. CASE ReadWall
  BY <1>6 DEF ReadWall, system_vars, base_vars
<1>7. CASE ReadAfter
  BY <1>7, ReadAfterStep
<1>8. CASE ApplyBest
  <2>1. /\ best \in Measurements
        /\ best.instant \in Int /\ best.wall \in Int
        /\ best.variance \in Int /\ best.offset \in Int
    BY <1>8 DEF ApplyBest, Measurements
  <2>2. /\ base_wall_time' = best.wall /\ base_offset' = best.offset
        /\ base_instant' = best.instant /\ last_resync' = best.instant
        /\ is_accurate' = (best.variance <= Threshold)
        /\ at' = AfterMeasuring
        /\ UNCHANGED <<mono, offset, caller, now_instant, unix_time, attempt,
                       instant_before, wall_time, wall_offset, best>>
    BY <1>8 DEF ApplyBest, system_vars, measure_vars
  <2>3. best.variance <= Threshold =>
          Close(best.wall, best.offset, best.instant, Threshold)
    BY <1>8, <2>1 DEF ApplyBest, Close
  <2>4. at' \in {"extrapolate", "idle"}
        /\ (at' = "extrapolate" => now_instant <= best.instant)
    BY <1>8, <2>2 DEF ApplyBest, Measured, AfterMeasuring
  <2>5. PrecisionTypeOK'
    BY <2>1, <2>2, <2>4
  <2>6. Readings' /\ BestInv' /\ CallInv' /\ ReturnInv'
    BY <2>2, <2>4
  <2>7. BaseInv'
    BY <1>8, <2>2, <2>3 DEF ApplyBest
  <2>8. YoungInv'
    BY <2>1, <2>2, <2>4
  <2>9. QED
    BY <2>5, <2>6, <2>7, <2>8
<1>9. CASE FallbackInstant
  BY <1>9 DEF FallbackInstant, Measured, system_vars, base_vars
<1>10. CASE FallbackWall
  <2>1. /\ base_wall_time' = mono + offset /\ base_offset' = offset
        /\ base_instant' = instant_before /\ last_resync' = instant_before
        /\ is_accurate' = FALSE
        /\ UNCHANGED <<mono, offset, caller, now_instant, unix_time, attempt,
                       instant_before, wall_time, wall_offset, best>>
    BY <1>10 DEF FallbackWall, system_vars, measure_vars
  <2>2. at' \in {"extrapolate", "idle"}
        /\ (at' = "extrapolate" => now_instant <= instant_before)
    BY <1>10 DEF FallbackWall, AfterMeasuring
  <2>3. PrecisionTypeOK'
    <3>1. /\ base_wall_time' \in Int /\ base_offset' \in Int
          /\ base_instant' \in Int /\ last_resync' \in Int
      BY <2>1
    <3>2. is_accurate' \in BOOLEAN
      BY <2>1
    <3>3. QED
      BY <2>1, <2>2, <3>1, <3>2
  <2>4. Readings' /\ BestInv' /\ CallInv' /\ ReturnInv'
    BY <2>1, <2>2
  <2>5. BaseInv'
    BY <1>10, <2>1 DEF FallbackWall
  <2>6. YoungInv'
    BY <2>1, <2>2
  <2>7. QED
    BY <2>3, <2>4, <2>5, <2>6
<1>11. CASE Extrapolate
  BY <1>11 DEF Extrapolate, DurationSince, system_vars, base_vars, measure_vars
<1>12. CASE Return
  BY <1>12 DEF Return, system_vars, base_vars, measure_vars
<1>13. QED
  BY <1>1, <1>2, <1>3, <1>4, <1>5, <1>6, <1>7, <1>8, <1>9, <1>10, <1>11, <1>12
     DEF PrecisionNext

LEMMA PrecisionAlwaysInv == PrecisionSpec => []PrecisionInv
<1>1. PrecisionInv /\ [PrecisionNext]_precision_vars => PrecisionInv'
  <2>1. CASE PrecisionNext
    BY <2>1, PrecisionStep
  <2>2. CASE UNCHANGED precision_vars
    BY <2>2 DEF PrecisionInv, PrecisionTypeOK, Readings, BestInv, BaseInv,
       CallInv, YoungInv, ReturnInv, Measuring, precision_vars, system_vars,
       base_vars, measure_vars, clock_call
  <2>3. QED
    BY <2>1, <2>2
<1>2. QED
  BY <1>1, PrecisionInitInv, PTL DEF PrecisionSpec

-----------------------------------------------------------------------------
\* With an accurate baseline the time of a cycle is off by half the threshold
\* at most, from what an unstepped wall clock shows at some moment of the call.
THEOREM TimestampsAreAccurate == PrecisionSpec => []TimestampIsAccurate
<1>1. PrecisionInv => TimestampIsAccurate
  <2> SUFFICES ASSUME PrecisionInv, at = "returned", is_accurate
               PROVE  \E m \in now_instant .. mono :
                        /\ 2 * (unix_time - (m + base_offset)) <= Threshold + 1
                        /\ 2 * ((m + base_offset) - unix_time) <= Threshold + 1
    BY DEF TimestampIsAccurate
  <2> USE PrecisionAssumption
      DEF PrecisionInv, PrecisionTypeOK, BaseInv, CallInv, ReturnInv,
          DurationSince, Close
  <2>1. CASE now_instant >= base_instant
    <3>1. now_instant \in now_instant .. mono
      OBVIOUS
    <3>2. unix_time = base_wall_time + (now_instant - base_instant)
      BY <2>1
    <3>3. QED
      BY <3>1, <3>2
  <2>2. CASE now_instant < base_instant
    <3>1. base_instant \in now_instant .. mono
      BY <2>2
    <3>2. unix_time = base_wall_time
      BY <2>2
    <3>3. QED
      BY <3>1, <3>2
  <2>3. QED
    BY <2>1, <2>2
<1>2. QED
  BY <1>1, PrecisionAlwaysInv, PTL

\* A step of the wall clock shows in the timestamps after at most an interval.
THEOREM StepsShow == PrecisionSpec => []StepsAreNoticed
<1>1. PrecisionInv => StepsAreNoticed
  BY DEF PrecisionInv, YoungInv, StepsAreNoticed
<1>2. QED
  BY <1>1, PrecisionAlwaysInv, PTL

-----------------------------------------------------------------------------
(* The replay.  FiresOnTime is inductive given the types: a poll leaves    *)
(* only timers behind its reading, and fresh holds whatever is added until *)
(* the next poll.  That the replay is complete needs in addition that the  *)
(* clock is exhausted only by reading its end, and the heartbeat that a    *)
(* yield is only pending between two cycles and a node only scheduled in   *)
(* one (ClockInv).                                                         *)

ClockInv ==
  /\ exhausted => cycle_now = End
  /\ stage = "done" => exhausted
  /\ stage = "loop" => scheduled = {}
  /\ stage = "run" => yields = {}

ReplayInv ==
  /\ ReplayTypeOK
  /\ ClockInv
  /\ FiresOnTime
  /\ PeriodicHeartbeat

\* The invariant holds of every graph that is ready to be replayed.
LEMMA ReplayInit_Inv == ReplayInit => ReplayInv
<1> SUFFICES ASSUME ReplayInit PROVE ReplayInv
  OBVIOUS
<1> USE ReplayAssumption DEF ReplayInit
<1>1. ReplayTypeOK
  <2>1. timers \in SUBSET Timer
    BY DEF Timer, AlarmAt
  <2>2. 0 \in 0 .. End
    OBVIOUS
  <2> QED
    BY <2>1, <2>2 DEF ReplayTypeOK
<1>2. ClockInv
  BY DEF ClockInv
<1>3. FiresOnTime
  BY DEF FiresOnTime
<1>4. PeriodicHeartbeat
  <2>1. \A t \in timers : t.node = "alarm"
    BY DEF AlarmAt
  <2> QED
    BY <2>1 DEF PeriodicHeartbeat
<1> QED
  BY <1>1, <1>2, <1>3, <1>4 DEF ReplayInv

\* try_advance() stays in the interval, and only a reading of the end
\* exhausts the clock.
LEMMA TryAdvance_Bounds ==
  ASSUME current_time \in 0 .. End, exhausted \in BOOLEAN, ~ exhausted, TryAdvance
  PROVE  /\ current_time' \in 0 .. End
         /\ exhausted' \in BOOLEAN
         /\ exhausted' => current_time = End
<1>1. CASE current_time = End
  BY <1>1 DEF TryAdvance
<1>2. CASE current_time # End
  <2>1. /\ current_time' = IF current_time + TimeStep >= End
                            THEN End ELSE current_time + TimeStep
        /\ exhausted' = exhausted
    BY <1>2 DEF TryAdvance
  <2>2. current_time' \in 0 .. End
    BY <2>1, ReplayAssumption
  <2> QED
    BY <2>1, <2>2
<1> QED
  BY <1>1, <1>2

\* A poll keeps the invariant.
LEMMA PollReplay_Inv == ReplayInv /\ PollReplay => ReplayInv'
<1> SUFFICES ASSUME ReplayInv, PollReplay PROVE ReplayInv'
  OBVIOUS
<1> USE ReplayAssumption DEF ReplayInv, PollReplay
<1>1. /\ current_time' \in 0 .. End
      /\ exhausted' \in BOOLEAN
      /\ exhausted' => current_time = End
  BY TryAdvance_Bounds DEF ReplayTypeOK
<1>2. \A t \in timers : t.node \in {"alarm", "periodic"} /\ t.when \in Nat
  BY DEF ReplayTypeOK, Timer
<1>3. ReplayTypeOK'
  <2>1. timers' \in SUBSET Timer /\ fresh' \in SUBSET timers'
    BY DEF ReplayTypeOK
  <2>2. scheduled' \in SUBSET {"alarm", "periodic"}
    BY <1>2 DEF ReplayTypeOK, ExpiredAt
  <2> QED
    BY <1>1, <2>1, <2>2 DEF ReplayTypeOK
<1>4. ClockInv'
  BY <1>1 DEF ClockInv
<1>5. FiresOnTime'
  BY <1>2 DEF FiresOnTime, ExpiredAt, ReplayTypeOK
<1>6. PeriodicHeartbeat'
  <2>1. CASE "periodic" \in yields \cup scheduled
    <3>1. {t \in timers : t.node = "periodic"} = {}
      BY <2>1 DEF PeriodicHeartbeat
    <3>2. {t \in timers' : t.node = "periodic"} = {}
      BY <3>1
    <3>3. "periodic" \in yields
      BY <2>1 DEF ClockInv
    <3>4. "periodic" \in scheduled'
      BY <3>3
    <3> QED
      BY <3>2, <3>4 DEF PeriodicHeartbeat
  <2>2. CASE "periodic" \notin yields \cup scheduled
    <3>1. PICK tick \in timers : {t \in timers : t.node = "periodic"} = {tick}
      BY <2>2 DEF PeriodicHeartbeat
    <3>2. CASE tick.when <= current_time
      BY <2>2, <3>1, <3>2 DEF PeriodicHeartbeat, ExpiredAt
    <3>3. CASE ~ tick.when <= current_time
      BY <2>2, <3>1, <3>3 DEF PeriodicHeartbeat, ExpiredAt
    <3> QED
      BY <3>2, <3>3
  <2> QED
    BY <2>1, <2>2
<1> QED
  BY <1>3, <1>4, <1>5, <1>6

\* So does a run of a node that registers timers of its own.
LEMMA RunAlarm_Inv ==
  ASSUME NEW T \in SUBSET {AlarmAt(w) : w \in 0 .. MaxDeadline},
         ReplayInv, RunAlarm(T)
  PROVE  ReplayInv'
<1> USE ReplayAssumption DEF ReplayInv, RunAlarm, Register, clock_vars
<1>1. \A t \in T : t \in Timer /\ t.node = "alarm"
  BY DEF AlarmAt, Timer
<1>2. ReplayTypeOK'
  <2>1. timers' \in SUBSET Timer /\ fresh' \in SUBSET timers'
    BY <1>1 DEF ReplayTypeOK
  <2> QED
    BY <2>1 DEF ReplayTypeOK
<1>3. ClockInv'
  BY DEF ClockInv
<1>4. FiresOnTime'
  BY DEF FiresOnTime
<1>5. PeriodicHeartbeat'
  <2>1. {t \in timers' : t.node = "periodic"} = {t \in timers : t.node = "periodic"}
    BY <1>1
  <2>2. ("periodic" \in yields \cup scheduled)' <=> "periodic" \in yields \cup scheduled
    OBVIOUS
  <2> QED
    BY <2>1, <2>2 DEF PeriodicHeartbeat
<1> QED
  BY <1>2, <1>3, <1>4, <1>5

\* And a run of the periodic node.
LEMMA RunPeriodic_Inv == ReplayInv /\ RunPeriodic => ReplayInv'
<1> SUFFICES ASSUME ReplayInv, RunPeriodic PROVE ReplayInv'
  OBVIOUS
<1> USE ReplayAssumption DEF ReplayInv, RunPeriodic, Register, clock_vars
<1>1. NextTick \in Timer /\ NextTick.node = "periodic"
  BY DEF NextTick, Timer, ReplayTypeOK
<1>2. ReplayTypeOK'
  <2>1. timers' \in SUBSET Timer /\ fresh' \in SUBSET timers'
    BY <1>1 DEF ReplayTypeOK
  <2>2. answer' \in {"none", "Broadcast", "Unchanged"}
    OBVIOUS
  <2> QED
    BY <2>1, <2>2 DEF ReplayTypeOK
<1>3. ClockInv'
  BY DEF ClockInv
<1>4. FiresOnTime'
  BY DEF FiresOnTime
<1>5. PeriodicHeartbeat'
  <2>1. {t \in timers' : t.node = "periodic"} = {NextTick}
    BY <1>1 DEF PeriodicHeartbeat
  <2>2. "periodic" \notin scheduled' /\ yields' = yields
    OBVIOUS
  <2>3. "periodic" \notin (yields \cup scheduled)'
    BY <2>2 DEF ClockInv
  <2>4. NextTick \in timers'
    OBVIOUS
  <2> QED
    BY <2>1, <2>3, <2>4 DEF PeriodicHeartbeat
<1> QED
  BY <1>2, <1>3, <1>4, <1>5

\* Every step of the replay keeps the invariant.
LEMMA ReplayNext_Inv == ReplayInv /\ [ReplayNext]_replay_vars => ReplayInv'
<1> SUFFICES ASSUME ReplayInv, [ReplayNext]_replay_vars PROVE ReplayInv'
  OBVIOUS
<1> USE DEF ReplayInv, ReplayTypeOK, ClockInv, FiresOnTime, PeriodicHeartbeat,
            clock_vars
<1>1. CASE PollReplay
  BY <1>1, PollReplay_Inv
<1>2. ASSUME NEW T \in SUBSET {AlarmAt(w) : w \in 0 .. MaxDeadline}, RunAlarm(T)
      PROVE  ReplayInv'
  BY <1>2, RunAlarm_Inv
<1>3. CASE TerminateReplay
  BY <1>3 DEF TerminateReplay
<1>4. CASE RunPeriodic
  BY <1>4, RunPeriodic_Inv
<1>5. CASE EndReplayCycle
  BY <1>5 DEF EndReplayCycle
<1>6. CASE Complete
  BY <1>6 DEF Complete
<1>7. CASE UNCHANGED replay_vars
  BY <1>7 DEF replay_vars
<1> QED
  BY <1>1, <1>2, <1>3, <1>4, <1>5, <1>6, <1>7 DEF ReplayNext

\* The invariant holds throughout every replay.
THEOREM ReplayInvariant == ReplaySpec => []ReplayInv
  BY ReplayInit_Inv, ReplayNext_Inv, PTL DEF ReplaySpec

\* Type correctness of the replay: no reading of the historical clock leaves
\* its interval.
THEOREM ReplayTypeCorrect == ReplaySpec => []ReplayTypeOK
<1>1. ReplayInv => ReplayTypeOK
  BY DEF ReplayInv
<1> QED
  BY <1>1, ReplayInvariant, PTL

\* TimerDriver::poll() fires a timer at the first reading that has reached
\* its deadline, for any clock step.
THEOREM TimersFireOnTime == ReplaySpec => []FiresOnTime
<1>1. ReplayInv => FiresOnTime
  BY DEF ReplayInv
<1> QED
  BY <1>1, ReplayInvariant, PTL

\* run_until_completion() does not stop before the end of the interval was
\* read and every timer due by then has fired.
THEOREM ReplayCoversInterval == ReplaySpec => []ReplayIsComplete
<1>1. ReplayInv => ReplayIsComplete
  BY DEF ReplayInv, ClockInv, FiresOnTime, ReplayIsComplete
<1> QED
  BY <1>1, ReplayInvariant, PTL

\* periodic_trigger_node() keeps exactly one reason to run again.
THEOREM HeartbeatIsKept == ReplaySpec => []PeriodicHeartbeat
<1>1. ReplayInv => PeriodicHeartbeat
  BY DEF ReplayInv
<1> QED
  BY <1>1, ReplayInvariant, PTL
=============================================================================
