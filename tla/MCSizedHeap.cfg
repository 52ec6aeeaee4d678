CONSTANTS
  Thread = {t1, t2}
  Page = {p1, p2}
  None = None
  Capacity = 2
  Chunk = 1
  MaxDrift = 1
SPECIFICATION Spec
CONSTRAINT BoundedDrift
INVARIANTS
  OneOwner
  NoOOM
  NoBlockTwice
  NoBlockLost
  FreeCountSound
PROPERTY ImplementsBlockStore
CHECK_DEADLOCK FALSE
