SPECIFICATION PartsSpec
CONSTANTS
  Node = {n1, n2}
  NoNode = NoNode
  Thread = {t1, t2}
  Capacity = 2
  PollLimit = 1
  Park = TRUE
  Removable = {n2}
  MaxTime = 0
  MaxTimers = 0
  Signals = FALSE
  Token = {}
  Yielding = {}
INVARIANT ParkedIsIdle
