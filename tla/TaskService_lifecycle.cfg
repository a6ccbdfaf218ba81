SPECIFICATION SafeSpec
CONSTANTS
  Threads = {t1, t2, t3}
  Ids = {i1}
  Objs = {o1}
  Statuses = {9}
  Rpcs = {"create", "start", "kill", "wait", "state"}
  Losable = {"start", "exit"}
  NoId = NoId
  NoObj = NoObj
  NoThread = NoThread
  NoCode = NoCode
CHECK_DEADLOCK FALSE
SYMMETRY Symmetry
INVARIANTS
  InnerTransitionsOk
  OneVerdict
  ExitAfterStart
  StatusMonotone
PROPERTY
  NoResurrection
