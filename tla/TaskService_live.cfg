SPECIFICATION Spec
CONSTANTS
  Threads = {t1, t2}
  Ids = {i1}
  Objs = {o1}
  Statuses = {9}
  Rpcs = {"create", "start", "kill", "delete", "wait"}
  Losable = {}
  NoId = NoId
  NoObj = NoObj
  NoThread = NoThread
  NoCode = NoCode
CHECK_DEADLOCK FALSE
INVARIANTS
  NeverDeletesRunning
  WaitedMeansStopped
PROPERTIES
  ExitAnnounced
  WaitsReturn
  RpcsReturn
  ImplementsLifecycle
