SPECIFICATION ChatSpec
CONSTANTS
  MaxTargets = 3
  MaxDataLen = 2
  MaxCell = 4
  MaxCells = 6
  Self = 1
  ChunkSize = 2
  ReadLimit = 2
  Lists <- MCLists
  LineLengths = {1, 2, 3}
  MaxLines = 2
INVARIANTS ChatTypeOK AcceptsExactlyWellFormed TurnLeavesNothing MessageAsSent
  StrippingKeepsTheRest TargetsExact ArrivesAsTyped
\* the turn ends
CHECK_DEADLOCK FALSE
