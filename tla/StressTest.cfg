SPECIFICATION Spec
CONSTANTS
  Tasks = {t1, t2}
  Pause = pause
  Parallel = 1
  Modes = {"containerd", "mocks"}
  MaxFaults = 2
  NoTask = NoTask
INVARIANTS
  ParallelLimit
  SetupFirst
  DeleteHonest
  NothingForgotten
  SuccessIsClean
  ShimKept
  NoProcessLeft
PROPERTIES
  Ends
CHECK_DEADLOCK FALSE
