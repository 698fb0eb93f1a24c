SPECIFICATION Spec
CONSTANTS
  Longs = {p}
  Shorts = {q}
  Entry = 8
  Risk = 4
  MidPrices = {1, 4, 12, 15}
  MaxClock = 1
  MaxOpened = 1
  MaxMonitored = 2
  ExitTasks = {k1, k2}
  MaxCloses = 2
  Orders = {o1, o2, o3}
  Slippages = {1, 5}
  SlipLimit = 2
  RejectPc = 40
  WindowSize = 2
  Trades = {t1, t2, t3}
  TradedSymbol <- MCTradedSymbol
  Loses = {t1, t2}
  WashDays = 1
  PdtDays = 1
  PdtLimit = 2
  MaxDay = 3
  Flattens = {f1, f2}
  Exposures = {x1}
  AuditMayFail = TRUE
  Swallows = TRUE
INVARIANTS
  PositionsAreSound
  QualityIsCurrent
  
  StopIsTrue
PROPERTIES
  TimeStopFires
  RestartIsInformed
  FlattenReports
CHECK_DEADLOCK FALSE
