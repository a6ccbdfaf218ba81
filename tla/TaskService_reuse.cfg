SPECIFICATION SafeSpec
CONSTANTS
  Threads = {t1, t2, t3}
  Ids = {i1}
  Objs = {o1, o2}
  Statuses = {9}
  Rpcs = {"create", "delete", "state", "shutdown"}
  Losable = {"create", "delete"}
  NoId = NoId
  NoObj = NoObj
  NoThread = NoThread
  NoCode = NoCode
CHECK_DEADLOCK FALSE
SYMMETRY Symmetry
INVARIANT
  DeletedUnregistered
