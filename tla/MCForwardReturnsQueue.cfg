SPECIFICATION FairSpec
CONSTANTS
  w1 = w1
  w2 = w2
  Workers <- MCWorkers
  Signals <- MCTwoSignals
  SignalDate <- MCDatesOfTwo
  HorizonsOf <- MCOneHorizon
  LastDay = 2
  Trading = {1, 2}
  MissingGrace = 0
  BenchmarkGrace = 0
  Limits = {1}
  Faults = {"raise", "loader", "absent", "benchmark"}
PROPERTY NoStarvation
CHECK_DEADLOCK FALSE
