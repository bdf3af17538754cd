SPECIFICATION BenchmarkSpec
CONSTANTS
  Sessions <- MCSessions
  Samples = 3
  Stolen = {2, 40}
  MaxDisturbed = 1
INVARIANT ShortRowHonest
CHECK_DEADLOCK FALSE
