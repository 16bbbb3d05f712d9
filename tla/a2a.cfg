CONSTANTS
  t1 = t1
  t2 = t2
  c1 = c1
  k1 = k1
  NoTask = NoTask
  NoContext = NoContext
  Task = {t1, t2}
  Streaming = {t1}
  Context = {c1}
  Call = {k1}
  MaxBoots = 1
SPECIFICATION FairSpec
INVARIANTS CancelReachesTheAgent ContextsKeepTheirSession
PROPERTIES TasksEnd RefinesRegistry
CHECK_DEADLOCK FALSE
