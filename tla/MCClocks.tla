------------------------------ MODULE MCClocks ------------------------------
(* A TLC instance of the replay, and of the clock of a realtime runtime; the *)
(* .cfg file chooses the bounds.                                             *)
EXTENDS Replay, PrecisionClock

VARIABLE side

ReplayIdle ==
  /\ current_time = End /\ exhausted = TRUE /\ cycle_now = End
  /\ timers = {} /\ fresh = {} /\ yields = {"periodic"} /\ scheduled = {}
  /\ armed = FALSE /\ answer = "none"
  /\ stage = "done"

ClockIdle ==
  /\ mono = 0 /\ offset = 0
  /\ base_wall_time = 0 /\ base_instant = 0 /\ last_resync = 0
  /\ is_accurate = FALSE /\ base_offset = 0
  /\ max_retries = 0
  /\ at = "idle" /\ caller = "with_config"
  /\ now_instant = 0 /\ unix_time = 0
  /\ attempt = 0 /\ best = NoBest
  /\ instant_before = 0 /\ wall_time = 0 /\ wall_offset = 0

ClocksInit ==
  \/ side = "replay" /\ ReplayInit /\ ClockIdle
  \/ side = "clock" /\ PrecisionInit /\ ReplayIdle

ClocksNext ==
  /\ \/ side = "replay" /\ ReplayNext /\ UNCHANGED precision_vars
     \/ side = "clock" /\ PrecisionNext /\ UNCHANGED replay_vars
  /\ UNCHANGED side

\* Only the replay is bound to make progress: its next-state relation is the
\* only one that a replay that is not over enables.
ClocksSpec ==
  /\ ClocksInit /\ [][ClocksNext]_<<replay_vars, precision_vars, side>>
  /\ WF_replay_vars(ReplayNext /\ UNCHANGED <<precision_vars, side>>)
=============================================================================
