SPECIFICATION ChannelSpec
CONSTANTS
  Node = {n1}
  NoNode = NoNode
  Thread = {t1, t2}
  Capacity = 2
  PollLimit = 2
  Park = TRUE
  Removable = {}
  MaxTime = 0
  MaxTimers = 0
  Signals = FALSE
  Token = {}
  Yielding = {}
  Rx = n1
  ChannelCapacity = 2
  ReceiveLimit = 1
INVARIANT ParkedIsDrained
CHECK_DEADLOCK FALSE
