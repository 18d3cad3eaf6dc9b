SPECIFICATION PartsSpec
CONSTANTS
  Node = {n1, n2}
  NoNode = NoNode
  Thread = {t1}
  Capacity = 2
  PollLimit = 1
  Park = TRUE
  Removable = {}
  MaxTime = 1
  MaxTimers = 1
  Signals = TRUE
  Token = {k1}
  Yielding = {n1}
INVARIANTS
  EventTypeOK
  ParkedIsIdle
  ParkedUntilTimer
  TokensNameTheirNode
PROPERTIES
  NotifiedIsServed
  TimersFire
  YieldsAreServed
  ShutdownHonoured
