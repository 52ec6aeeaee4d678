CONSTANTS
  t1 = t1
  t2 = t2
  t3 = t3
  Thread = {t1, t2, t3}
  Settings <- MCSettings
  Handle = {h1}
  None = None
SPECIFICATION Spec
INVARIANTS
  TypeOK
  WorldStopped
  HeapQuiescent
  MovedNotHeld
  RoundsSeparate
  NotKilled
CHECK_DEADLOCK FALSE
