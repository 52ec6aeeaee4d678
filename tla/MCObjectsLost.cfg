CONSTANTS
  Rooms <- MCRooms
  None = None
  PageUnits = 8
  Thread = {t1, t2}
  Mover = {t1}
  Obj = {o1, o2}
  SmallSize = {1, 2}
  HugeSize = {3}
  Class = {2}
  MaxLocal = 2
  PerClass = 2
  LPage = {p1, p2}
  Region = {r1, r2}
  MaxDrift = 1
SPECIFICATION Spec
INVARIANT NoRegionLost
CHECK_DEADLOCK FALSE
SYMMETRY Symmetry
