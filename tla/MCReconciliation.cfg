SPECIFICATION RFairSpec
CONSTANTS
  Symbols       = {s1}
  Pumps         = {p1}
  Contested     = {}
  Kinds         = {"good"}
  Outcomes      = {"filled"}
  AwaitableFeed = FALSE
  BrokerMayFail = TRUE
  StoreMayFail  = FALSE
  MaxPlans      = 1
  MaxPartials   = 1
  MaxRestarts   = 1
  ClosedFlags   = {TRUE}
  s1            = s1
  p1            = p1
PROPERTIES
  GhostStopsTrading
CHECK_DEADLOCK FALSE
