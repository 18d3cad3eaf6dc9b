SPECIFICATION Spec
CONSTANTS
  Index = {n1, n2, n3}
  NoNode = NoNode
  MaxDepth = 2
  MaxPending = 3
  EpochModulus = 16
  MaxEpoch = 2
  MaxSpawns = 0
  MaxYields = 0
  MaxMarks = 1
  Spawning = FALSE
  ManualScheduling = TRUE
  PollMayFail = TRUE
  Resumable = TRUE
ACTION_CONSTRAINT LookedAt
SYMMETRY NodeSymmetry
INVARIANTS
  TypeOK
  QueueWellPlaced
  DependencyOrder
  NoLostTrigger
  SweepPoisonsChildren
PROPERTY ImplementsDepthQueue
CHECK_DEADLOCK FALSE
