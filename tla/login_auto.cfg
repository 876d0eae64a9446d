CONSTANTS
  p1 = p1
  p2 = p2
  Paths = {p1, p2}
  PathModel <- ProAndStorage
  Objs = {o1, o2, o3}
  Threads = {t1}
  OpenMayFail = FALSE
  Null = Null
SPECIFICATION FairSpec
CHECK_DEADLOCK FALSE
PROPERTY AutoPicksFirst
