SPECIFICATION Spec
CONSTANTS
  w1 = w1
  w2 = w2
  Workers <- MCWorkers
  Signals <- MCOneSignal
  SignalDate <- MCDateOfOne
  HorizonsOf <- MCOtherHorizons
  LastDay = 3
  Trading = {1, 2, 3}
  MissingGrace = 0
  BenchmarkGrace = 0
  Limits = {1}
  Faults = {"loader", "benchmark", "unconfigured", "database", "crash"}
INVARIANTS TypeOK BenchmarkAligned ExitIsTheHorizon CountedIsDurable
PROPERTY TerminalImmutable
CHECK_DEADLOCK FALSE
