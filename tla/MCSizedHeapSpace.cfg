CONSTANTS
  Thread = {t1, t2}
  Page = {p1, p2}
  None = None
  Capacity = 1
  Chunk = 128
  MaxDrift = 1
SPECIFICATION Spec
CONSTRAINT BoundedDrift
INVARIANT NewHeapHasSpace
CHECK_DEADLOCK FALSE
