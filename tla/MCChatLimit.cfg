SPECIFICATION ChatSpec
CONSTANTS
  MaxTargets = 1
  MaxDataLen = 7
  MaxCell = 8
  MaxCells = 0
  Self = 1
  ChunkSize = 6
  ReadLimit = 6
  Lists <- OneList
  LineLengths = {1, 7}
  MaxLines = 1
INVARIANT ReadableByClients
\* the turn ends
CHECK_DEADLOCK FALSE
