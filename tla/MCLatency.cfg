SPECIFICATION LatencySpec
CONSTANTS
  Durations = {0, 1, 4, 9}
  latencyReservoir = 4
  MaxSamples = 6
  Scale = 60
INVARIANTS MomentsAreExact ReservoirIsSample QuantilesAreR7
\* a behaviour ends after MaxSamples samples
CHECK_DEADLOCK FALSE
