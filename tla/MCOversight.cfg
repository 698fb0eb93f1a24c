SPECIFICATION Spec
CONSTANTS
  Proposals = {"p1", "p2"}
  Kind <- MCKind
  SetupOf <- MCSetupOf
  Operators = {o1, o2}
  Validators = {v1}
  MaxVersion = 2
  MaxEdgeStarts = 1
  Events = {1, 2, 3}
  Stamp <- MCStamp
  Pnl <- MCPnl
  Recorders = {r1}
  Requests = {"q1", "q2"}
  Mode <- MCMode
  MaxDoubled = 1
  Dims = {"memory", "lag", "bus"}
  Percent = {"memory"}
  Warning <- MCWarning
  Critical <- MCCritical
  Full = 20
  Readings <- MCReadings
  Latencies = {0, 60}
  Smoothing = 3
  Strategies = {"first", "second"}
  Offered = {"first"}
  Symbols = {"y1", "y2"}
  Watches <- MCWatches
  ErrorLimit = 2
  MaxStrategies = 1
  Breaches = {"max_position_usd", "max_daily_loss_usd"}
  Calls = {t1, t2}
  WriteBuffer = 2
  Interval = 2
  Ms = 2
  MaxTicks = 3
  MaxTime = 3
  MaxOpens = 2
  Halts = {h1, h2}
  Resumes = {r2}
  Nobody = Nobody
  MaxTerm = 2
SYMMETRY Symmetry
INVARIANTS
  SetupHasApproval
  ReplayIsFaithful
  SpikeDoesNotHalt
  SandboxIsSound
  WarehouseIsSound
  ElectionSafety
  NeverRolledBack
  QuorumBeforeEffect
CHECK_DEADLOCK FALSE
