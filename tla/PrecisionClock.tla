--------------------------- MODULE PrecisionClock ---------------------------
(***************************************************************************)
(* PrecisionClock (clock/precision_clock.rs), the clock of a realtime      *)
(* runtime: wall time is extrapolated from a baseline, a pair of a         *)
(* monotonic and a wall reading taken together as closely as possible, and *)
(* the baseline is measured anew when it has reached a certain age.        *)
(*                                                                         *)
(* Between any two readings that a call makes of the system's clocks time  *)
(* may pass and the wall clock may be stepped.  Wall time is monotonic     *)
(* time plus an offset that only a step changes.                           *)
(***************************************************************************)
EXTENDS Integers

CONSTANTS ResyncInterval, Threshold,  \* the configuration of the clock
          MaxRetries,  \* bound: max_measurement_retries
          Worst,       \* one second, which a useful measurement must beat
          Offsets,     \* what a step may set the wall clock's offset to
          MaxTime,     \* bound: monotonic time
          NoBest

ASSUME PrecisionAssumption ==
  /\ ResyncInterval \in Nat /\ Threshold \in Nat
  /\ MaxRetries \in Nat /\ Worst \in Nat
  /\ Offsets \subseteq Int
  /\ MaxTime \in Nat
  /\ NoBest \notin [instant : Int, wall : Int, variance : Int, offset : Int]

VARIABLES
  mono, offset,                    \* the system's clocks
  base_wall_time, base_instant, last_resync, is_accurate,
  max_retries,                     \* max_measurement_retries
  at, caller,                      \* where a call is, and which call it is
  now_instant, attempt, instant_before, wall_time, wall_offset, best,
  base_offset,                     \* history: the offset in base_wall_time
  unix_time                        \* what cycle_time() returned

system_vars  == <<mono, offset>>
base_vars    == <<base_wall_time, base_instant, last_resync, is_accurate,
                  base_offset>>
measure_vars == <<attempt, instant_before, wall_time, wall_offset, best>>
clock_call   == <<at, caller, now_instant, unix_time>>
precision_vars == <<system_vars, base_vars, max_retries, clock_call, measure_vars>>

\* Instant::duration_since() saturates.
DurationSince(t, earlier) == IF t >= earlier THEN t - earlier ELSE 0

\* with_config(): what the struct literal read is overwritten by the
\* measurement that follows.
PrecisionInit ==
  /\ mono = 0 /\ offset \in Offsets
  /\ base_wall_time = 0 /\ base_instant = 0 /\ last_resync = 0
  /\ is_accurate = FALSE /\ base_offset = offset
  /\ max_retries \in 0 .. MaxRetries
  /\ at = "attempt" /\ caller = "with_config"
  /\ now_instant = 0 /\ unix_time = 0
  /\ attempt = 0 /\ best = NoBest
  /\ instant_before = 0 /\ wall_time = 0 /\ wall_offset = offset

\* Nothing happens between a call's last reading and its return.
Tick ==
  /\ at # "returned"
  /\ mono < MaxTime
  /\ mono' = mono + 1
  /\ UNCHANGED <<offset, base_vars, max_retries, clock_call, measure_vars>>

StepWallClock(o) ==
  /\ at # "returned"
  /\ offset' = o
  /\ UNCHANGED <<mono, base_vars, max_retries, clock_call, measure_vars>>

-----------------------------------------------------------------------------
BeginMeasuring ==
  /\ at' = "attempt"
  /\ attempt' = 0 /\ best' = NoBest

\* resync(), called by the user
Resync ==
  /\ at = "idle"
  /\ BeginMeasuring
  /\ caller' = "resync"
  /\ UNCHANGED <<system_vars, base_vars, max_retries, now_instant, unix_time,
                 instant_before, wall_time, wall_offset>>

\* Mutant: a baseline that has just reached its age is used once more.
IsDue_Late == DurationSince(mono, last_resync) > ResyncInterval

IsDue == DurationSince(mono, last_resync) >= ResyncInterval

\* cycle_time() reads the instant, and check_and_resync() may measure.
CycleTime ==
  /\ at = "idle"
  /\ caller' = "cycle_time"
  /\ now_instant' = mono
  /\ IF IsDue THEN BeginMeasuring ELSE at' = "extrapolate" /\ UNCHANGED <<attempt, best>>
  /\ UNCHANGED <<system_vars, base_vars, max_retries, unix_time,
                 instant_before, wall_time, wall_offset>>

\* resync_with_quality_control(): three readings an attempt
ReadBefore ==
  /\ at = "attempt" /\ attempt < max_retries
  /\ instant_before' = mono
  /\ at' = "wall"
  /\ UNCHANGED <<system_vars, base_vars, max_retries, caller, now_instant,
                 unix_time, attempt, wall_time, wall_offset, best>>

ReadWall ==
  /\ at = "wall"
  /\ wall_time' = mono + offset /\ wall_offset' = offset
  /\ at' = "after"
  /\ UNCHANGED <<system_vars, base_vars, max_retries, caller, now_instant,
                 unix_time, attempt, instant_before, best>>

\* Mutant: the wall time counts as that of the first reading.
EstimatedInstant_Before(variance) == instant_before

\* The midpoint between the readings around the wall time
EstimatedInstant(variance) == instant_before + variance \div 2

Measurement(variance) ==
  [instant |-> EstimatedInstant(variance), wall |-> wall_time,
   variance |-> variance, offset |-> wall_offset]

BestVariance == IF best = NoBest THEN Worst ELSE best.variance

\* Only a better measurement counts, and one within the threshold is the last.
ReadAfter ==
  /\ at = "after"
  /\ LET variance == mono - instant_before
         better   == variance < BestVariance
     IN  /\ best' = IF better THEN Measurement(variance) ELSE best
         /\ at' = IF better /\ variance <= Threshold THEN "apply" ELSE "attempt"
  /\ attempt' = attempt + 1
  /\ UNCHANGED <<system_vars, base_vars, max_retries, caller, now_instant,
                 unix_time, instant_before, wall_time, wall_offset>>

AfterMeasuring == IF caller = "cycle_time" THEN "extrapolate" ELSE "idle"

Measured == at = "apply" \/ (at = "attempt" /\ attempt = max_retries)

ApplyBest ==
  /\ Measured /\ best # NoBest
  /\ base_wall_time' = best.wall /\ base_offset' = best.offset
  /\ base_instant' = best.instant /\ last_resync' = best.instant
  /\ is_accurate' = (best.variance <= Threshold)
  /\ at' = AfterMeasuring
  /\ UNCHANGED <<system_vars, max_retries, caller, now_instant, unix_time,
                 measure_vars>>

\* The fallback, when no attempt took less than a second: two readings that
\* nothing holds together.
FallbackInstant ==
  /\ Measured /\ best = NoBest
  /\ instant_before' = mono
  /\ at' = "fallback"
  /\ UNCHANGED <<system_vars, base_vars, max_retries, caller, now_instant,
                 unix_time, attempt, wall_time, wall_offset, best>>

FallbackWall ==
  /\ at = "fallback"
  /\ base_wall_time' = mono + offset /\ base_offset' = offset
  /\ base_instant' = instant_before /\ last_resync' = instant_before
  /\ is_accurate' = FALSE
  /\ at' = AfterMeasuring
  /\ UNCHANGED <<system_vars, max_retries, caller, now_instant, unix_time,
                 measure_vars>>

\* cycle_time() goes on with the instant that it read before it measured.
Extrapolate ==
  /\ at = "extrapolate"
  /\ unix_time' = base_wall_time + DurationSince(now_instant, base_instant)
  /\ at' = "returned"
  /\ UNCHANGED <<system_vars, base_vars, max_retries, caller, now_instant,
                 measure_vars>>

Return ==
  /\ at = "returned"
  /\ at' = "idle"
  /\ UNCHANGED <<system_vars, base_vars, max_retries, caller, now_instant,
                 unix_time, measure_vars>>

PrecisionNext ==
  \/ Tick \/ \E o \in Offsets : StepWallClock(o)
  \/ Resync \/ CycleTime
  \/ ReadBefore \/ ReadWall \/ ReadAfter
  \/ ApplyBest \/ FallbackInstant \/ FallbackWall
  \/ Extrapolate \/ Return

PrecisionSpec == PrecisionInit /\ [][PrecisionNext]_precision_vars

-----------------------------------------------------------------------------
\* With an accurate baseline the timestamp of a cycle is what a wall clock that
\* was not stepped since would show at some moment of the call, up to half the
\* threshold; when the call measured, that moment lies after its instant.
TimestampIsAccurate ==
  at = "returned" /\ is_accurate =>
    \E m \in now_instant .. mono :
      /\ 2 * (unix_time - (m + base_offset)) <= Threshold + 1
      /\ 2 * ((m + base_offset) - unix_time) <= Threshold + 1

\* "Automatic resyncing to handle clock drift and NTP adjustments": a timestamp
\* that does not show a step of the wall clock comes from a baseline that is
\* younger than the interval, whatever was measured in between.
StepsAreNoticed ==
  at = "returned" /\ base_offset # offset =>
    now_instant - base_instant < ResyncInterval \/ ResyncInterval = 0
=============================================================================
