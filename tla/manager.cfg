CONSTANTS
  p1 = p1
  p2 = p2
  Paths = {p1, p2}
  PathModel <- TwoStorages
  Objs = {o1, o2, o3, o4, o5}
  Threads = {t1, t2}
  OpenMayFail = TRUE
  Null = Null
SPECIFICATION Spec
SYMMETRY Symmetry
INVARIANTS TypeOK CommandsOnTarget SelectionSticks RegistrySound
PROPERTY ClosedStaysClosed
CHECK_DEADLOCK FALSE
