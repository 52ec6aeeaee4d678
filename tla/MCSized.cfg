CONSTANTS
  Mapping = {m1, m2, m3}
  None = None
  Capacity = 4
  Chunk = 2
  Thread = {t1, t2}
  Page = {p1, p2}
  MaxDrift = 1
SPECIFICATION SizedSpec
CONSTRAINT BoundedDrift
INVARIANTS
  TypeOK
  HandlesIntact
  FreeIsFree
  AtMostOneLost
  Compacted
  HeapTypeOK
PROPERTIES
  PinnedStay
  WalksEnd
  CallsReturn
CHECK_DEADLOCK FALSE
