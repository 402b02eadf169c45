SPECIFICATION ServerSpec
CONSTANTS
  pumpA = pumpA  pumpB = pumpB
  pollA = pollA
  Pumps = {pumpA, pumpB}
  Fetchers = {pollA}
  Capacity = 1
  Durations = {2}
  latencyReservoir = 2
  MaxSamples = 4
  Scale = 12
INVARIANT RecordLatencySafe
\* the process may end
CHECK_DEADLOCK FALSE
