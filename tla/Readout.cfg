SPECIFICATION ReadoutSpec
CONSTANTS
  ChunkSize = 1
  CountSize = 2
  MaxRuns = 2
  MaxChunk = 1
  BufferSize = 2
  MaxQueue = 2
  MaxFaults = 1
INVARIANTS
  FilesArePure
  ReadoutTypeOK
  CountIsTrue
  TaskFollowsState
PROPERTIES
  StopIsHonoured
CHECK_DEADLOCK FALSE
