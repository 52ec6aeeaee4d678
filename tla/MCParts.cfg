CONSTANTS
  None = None
  Function <- MCFunction
  Block = {b1, b2, b3, b4}
  Freer = {t1, t2}
  Null = Null
  Handle = {1, 2, 3}
  L1Sets = 2
  L1Ways = 1
  L2Sets = 1
  L2Ways = 2
  MaxTime = 3
  Unwritten = {0, 9}
  Region = {r1, r2, r3}
  NoRegion = NoRegion
  Request = {1, 3}
  MajorHeader = 1
  MinorHeader = 1
  Alignment = 2
  Info = 1
  PageSize = 7
  PageCount = 1
  LevelSize = 2
  PageBytes = 3
  NoPage = NoPage
  Asked <- MCAsked
  Tracker = {t1, t2}
  NoBuffer = NoBuffer
  DumpBuf = DumpBuf
  HeapBuf = HeapBuf
  MaxDumps = 4
SPECIFICATION PartsSpec
INVARIANTS
  UsesFresh
  EveryCyclePolls
  ListsEnd
  HTLBSound
  InternalMemorySound
  HeapTablesSound
  DumpsHandled
PROPERTIES
  ImplementsFreeList
  MapsWhenFull
CHECK_DEADLOCK FALSE
