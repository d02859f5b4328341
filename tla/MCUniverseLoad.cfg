SPECIFICATION FairSpec
CONSTANTS
  N = 7
  K = 2
  WorkerCounts = {1, 2, 3}
  Faults = {"failure", "quality", "abandon"}
INVARIANTS TypeOK BreakerBoundsTraffic NoFetchOutlivesTheLoad
PROPERTIES RefinesContract LoadEnds
