SPECIFICATION FairChannelSpec
CONSTANTS
  Node = {n1, n2}
  NoNode = NoNode
  Thread = {t1, t2}
  Capacity = 2
  PollLimit = 1
  Park = TRUE
  Removable = {n1}
  MaxTime = 0
  MaxTimers = 0
  Signals = FALSE
  Token = {}
  Yielding = {}
  Rx = n1
  ChannelCapacity = 2
  ReceiveLimit = 0
INVARIANTS
  ChannelTypeOK
  ParkedIsDrained
PROPERTIES
  CloseIsReported
  SendersAreReleased
CHECK_DEADLOCK FALSE
