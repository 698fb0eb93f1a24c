SPECIFICATION Spec
CONSTANTS
  Listings <- MCListings
  FeedSymbols = {"a"}
  TickStates <- MCTickStates
  SetupMap <- MCSetupMap
  Setups = {"brk"}
  Required = 2
  MaxSymbols = 2
  MinSymbols = 1
  StarveLimit = 1
  MaxReportsQ = 1
  Signals = {g1, g2}
  Handlers = {h1, h2}
  Markets <- MCMarkets
  ModelReasons = {"ext"}
  EventSetups = {"brk"}
  MinBars = 3
  Prices = {2, 3}
  Equities = {0, 500}
  RiskPm = 5
  SharePm = 300
  Edges = {0, 2}
  HalfSpreads = {1}
  FeePm = 1
  CacheSize = 1
  MaxReceived = 2
  Sector <- MCSector
  Theme <- MCTheme
  Situations <- MCSituations
  Pnls <- MCPnls
  DailyCap = 5
  VelocityLoss = 3
  VelocityWindow = 1
  VelocityPause = 2
  StreakLimit = 2
  Cooldown = 1
  MaxConcurrent = 2
  MaxSector = 1
  MaxDayTrades = 1
  MaxTime = 4
  MaxTrades = 3
INVARIANTS
  IntakeIsSound
  PathIsSound
  ApprovalIsSafe
PROPERTIES
  CleanIsEarned
CHECK_DEADLOCK FALSE
