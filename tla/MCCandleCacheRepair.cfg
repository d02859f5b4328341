SPECIFICATION FairSpec
CONSTANTS
  c1 = c1
  c2 = c2
  Clients <- MCClients
  Bars <- MCDirtyBars
  Horizon = 3
  Weekend = {2}
  MaxTolerableGap = 2
  MaxCalendarGap = 1
  StaleTolerance = 1
  RecheckDays = 2
  DropFloor = 0
  DropPercent = 50
  NoFile = NoFile
  Unreadable = Unreadable
  Free = Free
  NoBar = NoBar
  HistoryDays = 2
  RetryDays = 2
  Roles <- MCRepairAndPrefetch
  InitialFiles <- MCDirtyDisk
  Faults = {"empty"}
INVARIANT TransactionsCurrent
PROPERTIES RefinesContract BudgetHoldsAtPublication MarkerDescribesFile LockReleased
CHECK_DEADLOCK FALSE
