SPECIFICATION SafeSpec
CONSTANTS
  Threads = {t1, t2}
  Ids = {i1}
  Objs = {o1, o2}
  Statuses = {9}
  Rpcs = {"create", "delete"}
  Losable = {}
  NoId = NoId
  NoObj = NoObj
  NoThread = NoThread
  NoCode = NoCode
CHECK_DEADLOCK FALSE
INVARIANT
  CreateExclusive
