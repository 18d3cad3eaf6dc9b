SPECIFICATION ClocksSpec
CONSTANTS
  End = 5
  TimeStep = 2
  Period = 3
  MaxDeadline = 6
  ResyncInterval = 3
  Threshold = 2
  MaxRetries = 2
  Worst = 4
  Offsets = {0, 7}
  MaxTime = 7
  NoBest = NoBest
INVARIANTS
  ReplayTypeOK
  FiresOnTime
  ReplayIsComplete
  PeriodicHeartbeat
  TimestampIsAccurate
  StepsAreNoticed
PROPERTY ReplayEnds
CHECK_DEADLOCK FALSE
