SPECIFICATION FairSpec
CONSTANTS
  Index = {n1, n2}
  NoNode = NoNode
  MaxDepth = 1
  MaxPending = 2
  EpochModulus = 16
  MaxEpoch = 2
  MaxSpawns = 1
  MaxYields = 1
  MaxMarks = 0
  Spawning = TRUE
  ManualScheduling = FALSE
  PollMayFail = FALSE
  Resumable = FALSE
INVARIANTS
  StampedIsServed
  AtMostOncePerCycle
  NoZombie
  PollNeverPanics
PROPERTY CycleEnds
CHECK_DEADLOCK FALSE
