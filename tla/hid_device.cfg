CONSTANTS
  Objs = {o1, o2, o3}
  Threads = {t1, t2}
  Handles = {h1, h2}
  RetryReceivingCount = 2
  Null = Null
SPECIFICATION FairSpec
INVARIANTS TypeOK HandlesUsable NoHandleLeaks AttemptsBounded DisconnectIsFinal
PROPERTY MutexReleased
