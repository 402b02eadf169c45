SPECIFICATION ServerFairSpec
CONSTANTS
  pumpA = pumpA  pumpB = pumpB
  pollA = pollA
  Pumps = {pumpA, pumpB}
  Fetchers = {pollA}
  Capacity = 1
  Durations = {2}
  latencyReservoir = 2
  MaxSamples = 4
  Scale = 12
INVARIANTS ServerTypeOK EveryDeliveryTimed AnswerConsistent CloseFlushes
PROPERTY ShutdownEnds
\* the process may end
CHECK_DEADLOCK FALSE
