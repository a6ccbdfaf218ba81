SPECIFICATION Spec
CONSTANTS
  empty = empty short = short full = full over = over long = long same = same
  Data = {empty, short, full, over, long, same}
  Size <- Sizes
  ChunkSize = 3
  Faults = {"rpc", "crash", "store"}
INVARIANTS
  SavedIsData
PROPERTIES
  OwnUploadCommits
  SaveReturns
