SPECIFICATION Spec
CONSTANTS
  None = None
  Components = {"intake"}
  Rescorers = {r1, r2}
  IssueStates <- MCIssueStates
  Profiles <- MCProfiles
  WebSignals <- MCWebSignals
  Qibs = {50, 6000}
  LastDay = 7
  Leaps = {1, 6}
  MaxMoves = 4
  Sessions = {"ann", "bob"}
  People = {"ann", "bob", "eve"}
  Owner <- MCOwner
  SeededRoles <- MCSeededRoles
  Environments <- MCEnvironments
  SettingValues = {"INFO", "DEBUG"}
  MaxAccess = 3
  Calls = {c1, c2}
  Candles = {"as_read", "repaired"}
  Models = {"opus", "sonnet"}
  Slot <- MCSlot
  MaxAttempts = 2
  TtlDays = 0
  MaxAgent = 3
  WeekDays = 2
  YearDays = 4
  Histories <- MCHistories
  Shapes <- MCShapes
  DayLeaps = {1, 4}
  Opinions <- MCOpinions
  P <- MCParams
  LastRunDay = 15
  HistoryDays = 12
  Filings <- MCFilings
  Lateness = {0, 1}
  Legacy <- MCLegacy
  Overlap = 1
  FirstWindow = 4
  PageSize = 1
  MaxPages = 2
  Budget = 1
  Jobs <- MCJobs
  LastIntakeDay = 5
  MaxIntake = 4
  Papers <- MCPapers
  Drafts <- MCDrafts
  PeriodFields = {"revenue", "pat"}
  ValueFields = {"cash", "cash_flow_from_operations", "equity_shares", "post_issue_equity_shares", "eps", "fresh_issue_amount"}
  YearOf <- MCYearOf
  KeyOf <- MCKeyOf
  LegacyQueues <- MCLegacyQueues
  Prices = {90, 105}
  MaxQueue = 2
  Screeners = {"envelope"}
  Symbols = {"tata", "infy", "new"}
  SecurityIds = {"tata", "infy"}
  FirstQuotes <- MCFirstQuotes
  NextQuotes <- MCNextQuotes
  Delays = {0, 1}
  Emissions <- MCEmissions
  PartWeights <- MCWeights
  LiquidityWindow = 1
  RiskWindow = 2
  LogScale <- MCLogScale
  Steadiness <- MCSteadiness
  Decay <- MCDecay
  MonthOf <- MCMonthOf
  SectorOf <- MCSectorOf
  Horizons = {1, 2}
  GraceDays = 1
  UniverseFiles <- MCUniverseFiles
  MaxNames = 2
  LastMarketDay = 3
  MaxScans = 2
  MaxChecks = 3
CHECK_DEADLOCK FALSE
SYMMETRY Sym
PROPERTY
  RerunRecovers
