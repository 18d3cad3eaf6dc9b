SPECIFICATION Spec
CONSTANTS
  Index = {n1, n2}
  NoNode = NoNode
  MaxDepth = 1
  MaxPending = 2
  EpochModulus = 16
  MaxEpoch = 1
  MaxSpawns = 0
  MaxYields = 1
  MaxMarks = 0
  Spawning = FALSE
  ManualScheduling = FALSE
  PollMayFail = FALSE
  Resumable = FALSE
INVARIANT HandleKeepsAlive
CHECK_DEADLOCK FALSE
