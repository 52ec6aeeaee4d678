CONSTANTS
  Thread = {t1, t2}
  None = None
  SlabCapacity = 1
  Chunk = 128
  Reserved <- FirstHandle
  InitialCapacity = 1
  GrowthFactor = 2
  VecPadding = 0
  MaxSlabs = 4
  MaxDrift = 1
SPECIFICATION Spec
SYMMETRY Threads
CONSTRAINT BoundedDrift
INVARIANTS
  TypeOK
  OneSlabEach
  NoHandleTwice
  NewSlabHasMapping
PROPERTY ImplementsBlockStore
CHECK_DEADLOCK FALSE
