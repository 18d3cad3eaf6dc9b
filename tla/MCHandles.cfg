SPECIFICATION MCSpec
CONSTANTS
  Node = {n1, n2, n3, n4}
  Slot = {s1, s2, s3}
  Key = {k1}
  Unit = Unit
  None = None
  MaxHandles = 2
  MaxWeaks = 1
INVARIANTS
  HandlesTypeOK
  ExclusiveIsSole
  HeldStays
  OutputsAreRouted
  RawHandleIsValid
  OneNodePerKey
SYMMETRY HandlesSymmetry
CHECK_DEADLOCK FALSE
