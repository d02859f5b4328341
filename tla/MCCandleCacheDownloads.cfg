SPECIFICATION Spec
CONSTANTS
  c1 = c1
  c2 = c2
  Clients <- MCClients
  Bars <- MCBars
  Horizon = 3
  Weekend = {3}
  MaxTolerableGap = 2
  MaxCalendarGap = 1
  StaleTolerance = 1
  RecheckDays = 1
  DropFloor = 0
  DropPercent = 50
  NoFile = NoFile
  Unreadable = Unreadable
  Free = Free
  NoBar = NoBar
  HistoryDays = 2
  RetryDays = 2
  Roles <- MCDownloaders
  InitialFiles <- MCNewDisk
  Faults = {"empty", "garbled", "extra"}
INVARIANTS TypeOK EarliestEvidenceTrue
PROPERTIES HitEndsComplete
SYMMETRY MCSymmetry
CHECK_DEADLOCK FALSE
