SPECIFICATION Spec
CONSTANTS
  Symbols       = {s1}
  Pumps         = {p1, p2}
  Contested     = {p2}
  Kinds         = {"good"}
  Outcomes      = {"filled"}
  AwaitableFeed = FALSE
  BrokerMayFail = FALSE
  StoreMayFail  = TRUE
  MaxPlans      = 1
  MaxPartials   = 0
  MaxRestarts   = 1
  s1            = s1
  p1            = p1
  p2            = p2
PROPERTIES
  NoOrderWhileDirty
  FilledRowIsFinal
CHECK_DEADLOCK FALSE
