SPECIFICATION Spec
CONSTANTS
  Writers = {t1}
  Waiters = {t2, t3}
  Values = {v1, v2}
  NoVal = NoVal
  NoThread = NoThread
INVARIANTS
  AccessGuarded
  WaitReturnsValue
PROPERTIES
  ImplementsAtomicCell
  WaitersWake
