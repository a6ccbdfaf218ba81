SPECIFICATION Spec
CONSTANTS
  bin = bin
  cwd = cwd
  Path <- OneDir
  Cwd = cwd
  Files <- SomeFiles
  NoFile = NoFile
  MaxLayers = 2
  MaxExports = 2
  GuestCodes = {0, 7, 258}
  NoInner = NoInner
INVARIANTS
  CheckedFileRuns
  CodeIsTrue
PROPERTIES
  VerdictKept
CHECK_DEADLOCK FALSE
