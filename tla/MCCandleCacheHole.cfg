SPECIFICATION Spec
CONSTANTS
  c1 = c1
  c2 = c2
  Clients <- MCClients
  Bars <- MCBars
  Horizon = 3
  Weekend = {}
  MaxTolerableGap = 2
  MaxCalendarGap = 1
  StaleTolerance = 1
  RecheckDays = 2
  DropFloor = 0
  DropPercent = 50
  NoFile = NoFile
  Unreadable = Unreadable
  Free = Free
  NoBar = NoBar
  HistoryDays = 2
  RetryDays = 2
  Roles <- MCReaders
  InitialFiles <- MCNewDisk
  Faults = {}
PROPERTY HitComplete
CHECK_DEADLOCK FALSE
