SPECIFICATION SidesSpec
CONSTANTS
  Left = Left
  Right = Right
  Stream = Stream
  Gate = Gate
  Router = Router
  OutA = OutA
  OutB = OutB
  Pick = Pick
  Merge = Merge
  FeedA = FeedA
  FeedB = FeedB
  Toggle = Toggle
  Drain = Drain
  Total = Total
  PerBatch = PerBatch
  Distinct = Distinct
  Kept = Kept
  Index = {Left, Right, Stream, Gate, Router, OutA, OutB, Pick, Merge,
           FeedA, FeedB, Toggle, Drain, Total, PerBatch, Distinct, Kept}
  NoNode = NoNode
  MaxDepth = 2
  MaxPending = 9
  EpochModulus = 16
  MaxEpoch = 2
  MaxSpawns = 0
  MaxYields = 1
  MaxMarks = 0
  Spawning = FALSE
  ManualScheduling = TRUE
  PollMayFail = FALSE
  Resumable = FALSE
  Configs <- MCConfigs
  MaxBatch = 2
  MaxPushed = 3
INVARIANTS
  GlitchFree
  RoutedExactly
  ConsumedOnce
  DerivedFromLastBatch
CHECK_DEADLOCK FALSE
