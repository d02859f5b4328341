SPECIFICATION FairSpec
CONSTANTS
  N = 2
  K = 1
  WorkerCounts = {1, 2}
  Faults = {"failure", "quality", "abandon"}
  E = 2
  JobFaults = {"refused", "setup", "raise", "service", "database", "lost_ack", "kill"}
INVARIANTS TypeOK ExitZeroMeansRecorded
PROPERTIES StatusTruthful RunningIsReported
