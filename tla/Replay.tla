------------------------------- MODULE Replay -------------------------------
(***************************************************************************)
(* A historical replay: Runtime::run_until_completion under a              *)
(* HistoricalClock, with the timer driver and a periodic_trigger_node      *)
(* (runtime.rs, clock/historical.rs, timer_driver.rs, wsnl/time.rs).       *)
(*                                                                         *)
(* The runtime polls with a zero timeout, so the clock is read once per    *)
(* cycle, and each reading advances it.  Times count from the start of the *)
(* interval.  One other node, Alarm, stands for the nodes that register    *)
(* timers of their own; timers of one node for one instant count as one.   *)
(***************************************************************************)
EXTENDS Naturals

CONSTANTS End,          \* Interval::end, counted from Interval::start
          TimeStep,     \* HistoricalClock::time_step
          Period,       \* the duration of the periodic trigger node
          MaxDeadline   \* bound: the deadlines Alarm registers

\* Interval::new() asserts start < end; HistoricalRuntime steps by 100us.
ASSUME ReplayAssumption ==
  /\ End \in Nat \ {0}
  /\ TimeStep \in Nat \ {0}
  /\ Period \in Nat
  /\ MaxDeadline \in Nat

Timer == [when : Nat, node : {"alarm", "periodic"}]

AlarmAt(w) == [when |-> w, node |-> "alarm"]

VARIABLES
  current_time, exhausted,  \* HistoricalClock
  cycle_now,                \* CycleTime of the current cycle
  timers,                   \* TimerDriver
  fresh,                    \* history: timers registered since the last poll
  yields, scheduled,        \* nodes that asked to run, nodes that run now
  armed,                    \* is the periodic node's state Some(_)?
  answer,                   \* history: the Control it returned last
  stage                     \* where run_until_completion() is

clock_vars  == <<current_time, exhausted>>
replay_vars == <<clock_vars, cycle_now, timers, fresh, yields, scheduled,
                 armed, answer, stage>>

\* The graph is built before the replay: timers that on_init functions
\* register, and the yield of the periodic node's on_init.
ReplayInit ==
  /\ current_time = 0 /\ exhausted = FALSE /\ cycle_now = 0
  /\ timers \in SUBSET {AlarmAt(w) : w \in 0 .. MaxDeadline}
  /\ fresh = timers
  /\ yields = {"periodic"} /\ scheduled = {}
  /\ armed = FALSE /\ answer = "none"
  /\ stage = "loop"

\* Mutant: exhausted as soon as the end is reached, before it was read.
TryAdvance_Early ==
  /\ current_time' = IF current_time + TimeStep >= End
                       THEN End ELSE current_time + TimeStep
  /\ exhausted' = (exhausted \/ current_time' = End)

\* Mutant: the last step is not cut off at the end of the interval.
TryAdvance_Overshoot ==
  \/ /\ exhausted \/ current_time = End
     /\ exhausted' = TRUE
     /\ UNCHANGED current_time
  \/ /\ ~ exhausted /\ current_time # End
     /\ current_time' = current_time + TimeStep
     /\ UNCHANGED exhausted

\* Mutant: the end is a time like any other.
TryAdvance_NeverExhausted ==
  /\ current_time' = IF current_time + TimeStep >= End
                       THEN End ELSE current_time + TimeStep
  /\ UNCHANGED exhausted

\* try_advance(): the reading at the end exhausts the clock.
TryAdvance ==
  \/ /\ exhausted \/ current_time = End
     /\ exhausted' = TRUE
     /\ UNCHANGED current_time
  \/ /\ ~ exhausted /\ current_time # End
     /\ current_time' = IF current_time + TimeStep >= End
                          THEN End ELSE current_time + TimeStep
     /\ UNCHANGED exhausted

\* Mutant: a timer that expires exactly now is left in the map.
ExpiredAt_Strict(now) == {t \in timers : t.when < now}

\* TimerDriver::poll()
ExpiredAt(now) == {t \in timers : t.when <= now}

\* A cycle begins: cycle_time() returns its reading and advances, yields and
\* timers are polled.
PollReplay ==
  /\ stage = "loop"
  /\ ~ exhausted
  /\ cycle_now' = current_time
  /\ TryAdvance
  /\ timers' = timers \ ExpiredAt(current_time)
  /\ fresh' = {}
  /\ scheduled' = yields \cup {t.node : t \in ExpiredAt(current_time)}
  /\ yields' = {}
  /\ stage' = "run"
  /\ UNCHANGED <<armed, answer>>

Register(T) ==
  /\ timers' = timers \cup T
  /\ fresh' = fresh \cup T

\* Alarm registers timers, in the past as well, and returns.
RunAlarm(T) ==
  /\ stage = "run"
  /\ "alarm" \in scheduled
  /\ scheduled' = scheduled \ {"alarm"}
  /\ Register(T)
  /\ UNCHANGED <<clock_vars, cycle_now, yields, armed, answer, stage>>

\* Alarm returns Terminate.
TerminateReplay ==
  /\ stage = "run"
  /\ "alarm" \in scheduled
  /\ stage' = "terminated"
  /\ UNCHANGED <<clock_vars, cycle_now, timers, fresh, yields, scheduled,
                 armed, answer>>

NextTick == [when |-> cycle_now + Period, node |-> "periodic"]

\* Mutant: the next timer is registered only together with a broadcast.
RunPeriodic_OnlyArmed ==
  /\ stage = "run"
  /\ "periodic" \in scheduled
  /\ scheduled' = scheduled \ {"periodic"}
  /\ Register(IF armed THEN {NextTick} ELSE {})
  /\ answer' = IF armed THEN "Broadcast" ELSE "Unchanged"
  /\ UNCHANGED <<clock_vars, cycle_now, yields, armed, stage>>

\* The cycle function of periodic_trigger_node(): the timer is registered in
\* any case, but it is stored, and the tick broadcast, only by a node whose
\* state is Some(_) already.
RunPeriodic ==
  /\ stage = "run"
  /\ "periodic" \in scheduled
  /\ scheduled' = scheduled \ {"periodic"}
  /\ Register({NextTick})
  /\ answer' = IF armed THEN "Broadcast" ELSE "Unchanged"
  /\ UNCHANGED <<clock_vars, cycle_now, yields, armed, stage>>

EndReplayCycle ==
  /\ stage = "run"
  /\ scheduled = {}
  /\ stage' = "loop"
  /\ UNCHANGED <<clock_vars, cycle_now, timers, fresh, yields, scheduled,
                 armed, answer>>

\* is_exhausted() ends the loop.
Complete ==
  /\ stage = "loop"
  /\ exhausted
  /\ stage' = "done"
  /\ UNCHANGED <<clock_vars, cycle_now, timers, fresh, yields, scheduled,
                 armed, answer>>

ReplayNext ==
  \/ PollReplay
  \/ \E T \in SUBSET {AlarmAt(w) : w \in 0 .. MaxDeadline} : RunAlarm(T)
  \/ TerminateReplay
  \/ RunPeriodic
  \/ EndReplayCycle
  \/ Complete

ReplaySpec == ReplayInit /\ [][ReplayNext]_replay_vars

\* run_until_completion() is a loop of one thread.
FairReplaySpec == ReplaySpec /\ WF_replay_vars(ReplayNext)

-----------------------------------------------------------------------------
ReplayTypeOK ==
  /\ current_time \in 0 .. End
  /\ exhausted \in BOOLEAN
  /\ cycle_now \in 0 .. End
  /\ timers \in SUBSET Timer
  /\ fresh \in SUBSET timers
  /\ yields \in SUBSET {"periodic"}
  /\ scheduled \in SUBSET {"alarm", "periodic"}
  /\ armed \in BOOLEAN
  /\ answer \in {"none", "Broadcast", "Unchanged"}
  /\ stage \in {"loop", "run", "done", "terminated"}

\* A timer fires in the first cycle whose reading has reached its deadline:
\* what a poll leaves behind lies in the future.  Only a timer registered
\* since that poll may be due already.
FiresOnTime == \A t \in timers \ fresh : t.when > cycle_now

\* A replay that was not terminated covers its interval: the end itself is
\* read in a cycle, and every timer that is due by then has fired, except
\* those that the last cycle registered.
ReplayIsComplete ==
  stage = "done" =>
    /\ cycle_now = End
    /\ \A t \in timers \ fresh : t.when > End

\* The periodic node always has exactly one reason to run again: its initial
\* yield, its place in this cycle, or one timer.  It neither dies nor doubles.
PeriodicHeartbeat ==
  LET ticks == {t \in timers : t.node = "periodic"}
      wanted == "periodic" \in yields \cup scheduled
  IN  IF wanted THEN ticks = {} ELSE \E t \in ticks : ticks = {t}

\* The replay comes to an end, whatever the step is and whatever timers the
\* nodes register.
ReplayEnds == <>(stage \in {"done", "terminated"})
=============================================================================
