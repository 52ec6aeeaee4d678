CONSTANTS
  t1 = t1
  t2 = t2
  t3 = t3
  Thread = {t1, t2}
  Settings <- SoleCaller
  Handle = {h1}
  None = None
SPECIFICATION Spec
INVARIANT BeginMarksPins
CHECK_DEADLOCK FALSE
