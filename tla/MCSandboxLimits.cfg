SPECIFICATION SandboxSpec
CONSTANTS
  Strategies = {"first"}
  Offered = {"first"}
  Symbols = {"y1"}
  Watches <- MCWatches
  ErrorLimit = 2
  MaxStrategies = 1
  Breaches = {"max_position_usd"}
  Calls = {t1}
INVARIANT EveryHardLimitStops
CHECK_DEADLOCK FALSE
